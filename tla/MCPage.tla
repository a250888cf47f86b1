-------------------------------- MODULE MCPage --------------------------------
(* What must hold of Page, for TLC. *)
EXTENDS Page

(* What was shared to the page goes out at most once, over every peer that *)
(* leaves and comes, every panel that is mounted again and every commit of *)
(* several messages at a time (TransferPanel.tsx's pendingSent, CreateScreen*)
(* .tsx's onPendingSent).                                                  *)
SharedOnce == taken <= 1

(* Once the page has heard everything, each row tells what became of its   *)
(* own file: whatever an upload and a download of the same id, or the      *)
(* files of peers that replaced one another, did meanwhile                 *)
(* (useSession.ts's updateFile). The row of a file that failed stays as it *)
(* was listed. Left out is a row that was there when the end of another    *)
(* file of its direction and id was posted: that message has rewritten it  *)
(* (OneRowRewritten).                                                      *)
Shown(w) ==
  CASE w = "none" -> {}
    [] w \in {"moving", "failed"} -> {"listed"}
    [] w = "kept" -> {"listed", "done", "blob"}
    [] OTHER -> {"listed", w}

RowsAgree ==
  place = "session" /\ toPage = <<>> =>
    \A f \in Files \ overtaken : rows[f] = Shown(work[f])

(* While a file moves and the page is seen, the screen's lock is held, is  *)
(* asked for or has been refused since the page was last shown, however    *)
(* often it was hidden meanwhile (useTransferGuards.ts).                   *)
ScreenKeptAwake == moving /\ visible => held > 0 \/ asking > 0 \/ refused

(* A user who ends the session is off its screen before long, whether or   *)
(* not the worker ever answers (useSession.ts's endSession).               *)
EndLeaves == slot # 0 ~> place # "session"
-----------------------------------------------------------------------------
(* What comments of the code say, and the code does not keep to.           *)

(* 'gone' "must not be clobbered by whatever trailing error the same       *)
(* disconnect produces" (useSession.ts:293-296): a 'peer-left' does.       *)
GoneIsFinal == [][state = "gone" => state' = "gone" \/ place' # "session"]_state

(* What is shared will "send once you've both confirmed the number"        *)
(* (CreateScreen.tsx:68): it is given up when it was only posted.          *)
SharedArrives ==
  posts > 0 => taken > 0 \/ awaiting \/ \E i \in DOMAIN toWorker : toWorker[i] = "send"
                \/ place # "session" \/ ~present

(* updateFile "rewrites the one row a worker message is about"             *)
(* (useSession.ts:195-199): every row of that direction and id, a peer's   *)
(* that has gone included, which counted from 1 as the next one does.      *)
OneRowRewritten ==
  [][\A f \in Files : rows'[f] # rows[f] => place' # "session" \/ Head(toPage).of = f]_rows

(* The number "both users have compared" (TransferPanel.tsx:50) was the    *)
(* number for the peer that is here.                                       *)
WorkspaceIsForThisPeer ==
  panel /\ ~dirty /\ toPage = <<>> /\ byMe /\ byPeer /\ present => digits = who

(* "a sentinel nobody releases keeps the screen lit for good"              *)
(* (useTransferGuards.ts:126-127): with two requests on their way, one.    *)
LockGivenUp == ~moving => held = 0

(* endSession's wait is for "the caller [that] navigates on this"          *)
(* (useSession.ts:620-623): the timer of a click answered under another's  *)
(* name navigates much later.                                              *)
LeavesItsOwnScreen == ~yanked

(* A received file whose only copy is in this tab stays in front of its    *)
(* user (SessionScreen.tsx:18-25), which is CreateScreen's matter as well. *)
UnsavedIsOffered ==
  place = "session" /\ ~dirty /\ holdForUnsaved =>
    panel \/ (role = "join" /\ state = "gone" /\ reason = "peer-ended")

(* "There is no resume", and the prompt is for "a transfer [that] is still *)
(* running" (useTransferGuards.ts:28): not for one that has failed.        *)
GuardsFollowWork ==
  place = "session" /\ toPage = <<>> /\ ~dirty /\ moving =>
    \E f \in Files : work[f] = "moving"
=============================================================================
