----------------------------- MODULE FileDelivery -----------------------------
(***************************************************************************)
(* What a session promises about files, whatever the connections do: a     *)
(* file is saved at most once, only if it was offered, never after the     *)
(* receiving device has given up on it, and the sending device reports it  *)
(* delivered only after it was saved. Transfer.tla is shown to implement   *)
(* this with every frame, drop, resume and cancel in it.                   *)
(***************************************************************************)
CONSTANT Files

VARIABLES
  offered,   \* announced by the sending device
  saved,     \* whole on the receiving device (onFileComplete)
  given,     \* given up there: failed, or cancelled
  reported   \* the sending device's row says done (onFileDone)

dvars == <<offered, saved, given, reported>>

Init == offered = {} /\ saved = {} /\ given = {} /\ reported = {}

Offer ==
  /\ offered' \in SUBSET Files
  /\ offered \subseteq offered'
  /\ UNCHANGED <<saved, given, reported>>

Save(f) ==
  /\ f \in offered \ (saved \cup given)
  /\ saved' = saved \cup {f}
  /\ UNCHANGED <<offered, given, reported>>

GiveUp(f) ==
  /\ f \in offered \ saved
  /\ given' = given \cup {f}
  /\ UNCHANGED <<offered, saved, reported>>

Report(f) ==
  /\ f \in saved
  /\ reported' = reported \cup {f}
  /\ UNCHANGED <<offered, saved, given>>

Next == Offer \/ \E f \in Files : Save(f) \/ GiveUp(f) \/ Report(f)

Spec == Init /\ [][Next]_dvars
===============================================================================
