------------------------------- MODULE SendPath -------------------------------
(***************************************************************************)
(* How one device puts frames on the wire: the Sender's sequence numbers   *)
(* and control chain (client/transfer/sender.ts), the TransportSwapGate    *)
(* and negotiateUpgrade (client/transport/upgrade.ts), and the Session     *)
(* steps that abort and rebuild the Sender (client/session.ts).            *)
(*                                                                         *)
(* A call is one frame being sent: it waits at the gate (a control frame   *)
(* first waits for the control frame before it), takes its number and is   *)
(* sealed, then goes to the transport or is discarded. Sealing is          *)
(* crypto.subtle.encrypt: it takes any time and several calls overlap.     *)
(* Everything else between two awaits is one action.                       *)
(*                                                                         *)
(* Definitions that differ from their neighbour by one mistake (Unchecked, *)
(* Unchained, AtOnce, ...) are faulty variants: no action uses them; they  *)
(* stand for the bug the properties below must be able to see.             *)
(***************************************************************************)
EXTENDS Integers, Sequences

CONSTANTS
  Control,    \* calls of #sendControl
  Data,       \* calls of #sendOneFile's wrapped unit, one chunk each
  Attempts,   \* upgrade attempts: negotiateUpgrade calls
  MaxGen,     \* how many Senders the session builds (bound)
  None

Calls == Control \cup Data
Gens == 1..MaxGen

ASSUME SendPathAssumption ==
  /\ MaxGen \in Nat \ {0}
  /\ Control \cap Data = {}
  /\ None \notin Calls \cup Attempts

VARIABLES
  gen,       \* Session.#sender, as the number of Senders built so far
  key,       \* the key each Sender seals under, as a number
  next,      \* Sender.#nextSeq
  aborted,   \* Sender.#aborted is set
  on,        \* SenderOptions.transport: the switchable each Sender writes to
  chain,     \* Sender.#controlChain: the control calls not yet settled
  st,        \* call: "idle", "waiting", "sealing", "sent", "lost" or "failed"
  of,        \* call: the Sender it was made on
  seq,       \* call: the number it took
  heard,     \* highest control seq put on the wire under each key
  reordered, \* history: control frames that left with a seq not above heard
  down,      \* the session's own connection is lost, #reconnect is running
  sw,        \* Session.#switchable, as the number of them built so far
  live,      \* SwitchableTransport.#live: an attempt's transport, or None = relay
  upgrade,   \* Session.#upgradeAttempt
  phase,     \* attempt: "idle", "opening", "queued", "swapped" or "failed"
  target,    \* attempt: the switchable it will swap
  cancelled, \* attempt: its AbortSignal fired
  barrier    \* TransportSwapGate.#barrier: the attempt that set it

senderVars == <<gen, key, next, aborted, on, chain, heard, reordered>>
callVars == <<st, of, seq>>
gateVars == <<sw, live, upgrade, phase, target, cancelled, barrier>>
vars == <<senderVars, callVars, gateVars, down>>

Init ==
  /\ gen = 1
  /\ key = [g \in Gens |-> 1]
  /\ next = [g \in Gens |-> 0]
  /\ aborted = [g \in Gens |-> FALSE]
  /\ on = [g \in Gens |-> 1]
  /\ chain = [g \in Gens |-> <<>>]
  /\ st = [c \in Calls |-> "idle"]
  /\ of = [c \in Calls |-> 1]
  /\ seq = [c \in Calls |-> 0]
  /\ heard = [g \in Gens |-> -1]
  /\ reordered = {}
  /\ down = FALSE
  /\ sw = 1
  /\ live = None
  /\ upgrade = None
  /\ phase = [a \in Attempts |-> "idle"]
  /\ target = [a \in Attempts |-> 1]
  /\ cancelled = [a \in Attempts |-> FALSE]
  /\ barrier = None

(* TransportSwapGate.#inFlight > 0: calls the gate has let through. A call *)
(* that still waits at the barrier is not counted.                         *)
InFlightParked == \E c \in Calls : st[c] \in {"waiting", "sealing"}
InFlight == \E c \in Calls : st[c] = "sealing"

-----------------------------------------------------------------------------
(* Frames.                                                                 *)

(* #sendOneFile's loop reaches a chunk: a dead Sender throws here instead. *)
IssueData(c, g) ==
  /\ c \in Data /\ st[c] = "idle"
  /\ g <= gen /\ ~aborted[g]
  /\ st' = [st EXCEPT ![c] = "waiting"]
  /\ of' = [of EXCEPT ![c] = g]
  /\ UNCHANGED <<seq, senderVars, gateVars, down>>

(* #sendControl: chained behind the control call before it. A loop still   *)
(* running on a Sender that has been replaced may make one too.            *)
IssueControl(c, g) ==
  /\ c \in Control /\ st[c] = "idle"
  /\ g <= gen
  /\ st' = [st EXCEPT ![c] = "waiting"]
  /\ of' = [of EXCEPT ![c] = g]
  /\ chain' = [chain EXCEPT ![g] = Append(@, c)]
  /\ UNCHANGED <<gen, key, next, aborted, on, heard, reordered, seq, gateVars, down>>

(* wrap() lets the call through, and the call takes its number.            *)
MyTurn(c) == c \in Control => chain[of[c]] # <<>> /\ Head(chain[of[c]]) = c

EnterUnchained(c) ==
  /\ st[c] = "waiting" /\ barrier = None
  /\ st' = [st EXCEPT ![c] = "sealing"]
  /\ seq' = [seq EXCEPT ![c] = next[of[c]]]
  /\ next' = [next EXCEPT ![of[c]] = @ + 1]
  /\ UNCHANGED <<gen, key, aborted, on, chain, heard, reordered, of, gateVars, down>>

Enter(c) ==
  /\ st[c] = "waiting" /\ barrier = None
  /\ MyTurn(c)
  /\ st' = [st EXCEPT ![c] = "sealing"]
  /\ seq' = [seq EXCEPT ![c] = next[of[c]]]
  /\ next' = [next EXCEPT ![of[c]] = @ + 1]
  /\ UNCHANGED <<gen, key, aborted, on, chain, heard, reordered, of, gateVars, down>>

(* A settled control call, sent or failed, lets the next one go.           *)
Settle(c) ==
  chain' = IF c \in Control THEN [chain EXCEPT ![of[c]] = Tail(@)] ELSE chain

(* transport.send. A dead or replaced transport drops the frame silently;  *)
(* what reaches the wire, if it is a control frame, is checked by the      *)
(* peer's Receiver against the highest control seq accepted under the key. *)
Connected(g) == on[g] = sw /\ ~down

Emit(c) ==
  LET k == key[of[c]]
      wired == Connected(of[c])
      late == c \in Control /\ seq[c] <= heard[k]
  IN  /\ st' = [st EXCEPT ![c] = IF wired THEN "sent" ELSE "lost"]
      /\ reordered' = IF wired /\ late THEN reordered \cup {c} ELSE reordered
      /\ heard' = IF wired /\ c \in Control /\ ~late
                    THEN [heard EXCEPT ![k] = seq[c]] ELSE heard

(* Sealed: the abort is checked again, then the frame goes out.            *)
SendUnchecked(c) ==
  /\ st[c] = "sealing"
  /\ Emit(c)
  /\ Settle(c)
  /\ UNCHANGED <<gen, key, next, aborted, on, of, seq, gateVars, down>>

Send(c) ==
  /\ st[c] = "sealing" /\ ~aborted[of[c]]
  /\ Emit(c)
  /\ Settle(c)
  /\ UNCHANGED <<gen, key, next, aborted, on, of, seq, gateVars, down>>

DiscardWedges(c) ==
  /\ st[c] = "sealing" /\ aborted[of[c]]
  /\ st' = [st EXCEPT ![c] = "failed"]
  /\ UNCHANGED <<gen, key, next, aborted, on, chain, heard, reordered, of, seq, gateVars, down>>

Discard(c) ==
  /\ st[c] = "sealing" /\ aborted[of[c]]
  /\ st' = [st EXCEPT ![c] = "failed"]
  /\ Settle(c)
  /\ UNCHANGED <<gen, key, next, aborted, on, heard, reordered, of, seq, gateVars, down>>

-----------------------------------------------------------------------------
(* The session rebuilds the Sender.                                        *)

(* #buildSender's initialSeq.                                              *)
Carried == next[gen]

BuildSender(k, w) ==
  /\ gen < MaxGen
  /\ gen' = gen + 1
  /\ key' = [key EXCEPT ![gen + 1] = k]
  /\ on' = [on EXCEPT ![gen + 1] = w]
  /\ next' = [next EXCEPT ![gen + 1] = Carried]

(* #handlePeerLeft and #unpair: abort the Sender and the upgrade, fall     *)
(* back to the relay, build the next Sender.                               *)
PeerLeft ==
  /\ ~down
  /\ aborted' = [aborted EXCEPT ![gen] = TRUE]
  /\ cancelled' = IF upgrade = None THEN cancelled
                                    ELSE [cancelled EXCEPT ![upgrade] = TRUE]
  /\ upgrade' = None
  /\ live' = None
  /\ BuildSender(key[gen], sw)
  /\ UNCHANGED <<chain, heard, reordered, callVars, sw, phase, target, barrier, down>>

(* A hello from a replacement peer: #establish derives another key and     *)
(* builds the Sender against it, even if the connection dropped meanwhile. *)
(* The old Sender is not aborted.                                          *)
Rekey ==
  /\ BuildSender(key[gen] + 1, sw)
  /\ UNCHANGED <<aborted, chain, heard, reordered, callVars, gateVars, down>>

(* The switchable reports closed: the relay died while live, or it died    *)
(* while sidelined and the upgraded transport has now died too.            *)
OwnDrop ==
  /\ ~down
  /\ down' = TRUE
  /\ aborted' = [aborted EXCEPT ![gen] = TRUE]
  /\ live' = None
  /\ UNCHANGED <<gen, key, next, on, chain, heard, reordered, callVars,
                 sw, upgrade, phase, target, cancelled, barrier>>

(* #resumeAfterReconnect: another switchable, another Sender, same key.    *)
OwnReconnect ==
  /\ down
  /\ down' = FALSE
  /\ sw' = sw + 1
  /\ BuildSender(key[gen], sw + 1)
  /\ UNCHANGED <<aborted, chain, heard, reordered, callVars,
                 live, upgrade, phase, target, cancelled, barrier>>

-----------------------------------------------------------------------------
(* The upgrade.                                                            *)

(* #startUpgrade.                                                          *)
StartUpgrade(a) ==
  /\ phase[a] = "idle" /\ ~down
  /\ upgrade = None /\ live = None
  /\ upgrade' = a
  /\ phase' = [phase EXCEPT ![a] = "opening"]
  /\ target' = [target EXCEPT ![a] = sw]
  /\ UNCHANGED <<senderVars, callVars, sw, live, cancelled, barrier, down>>

(* The attempt's promise settles, and #startUpgrade forgets it.            *)
Over(a, how) ==
  /\ phase' = [phase EXCEPT ![a] = how]
  /\ upgrade' = IF upgrade = a THEN None ELSE upgrade

(* runExclusive's perform: swapTo, unless the attempt was cancelled. The   *)
(* switchable is the one the attempt started with.                         *)
PerformAnyway(a) ==
  /\ Over(a, "swapped")
  /\ live' = IF target[a] = sw /\ ~down THEN a ELSE live

Perform(a) ==
  IF cancelled[a] THEN Over(a, "failed") /\ live' = live
  ELSE /\ Over(a, "swapped")
       /\ live' = IF target[a] = sw /\ ~down THEN a ELSE live

(* whenOpen resolves. runExclusive runs perform at once when nothing is    *)
(* in flight, raises the barrier otherwise, and throws when it is up.      *)
OpenSwapsAtOnce(a) ==
  /\ phase[a] = "opening" /\ ~cancelled[a]
  /\ barrier = None
  /\ Perform(a)
  /\ UNCHANGED <<senderVars, callVars, sw, target, cancelled, barrier, down>>

Open(a) ==
  /\ phase[a] = "opening" /\ ~cancelled[a]
  /\ \/ /\ barrier # None
        /\ Over(a, "failed")
        /\ UNCHANGED <<live, barrier>>
     \/ /\ barrier = None /\ InFlight
        /\ barrier' = a
        /\ phase' = [phase EXCEPT ![a] = "queued"]
        /\ UNCHANGED <<live, upgrade>>
     \/ /\ barrier = None /\ ~InFlight
        /\ Perform(a)
        /\ UNCHANGED barrier
  /\ UNCHANGED <<senderVars, callVars, sw, target, cancelled, down>>

(* whenOpen rejects: timed out, or closed (a cancel closes it).            *)
OpenFails(a) ==
  /\ phase[a] = "opening"
  /\ Over(a, "failed")
  /\ UNCHANGED <<senderVars, callVars, sw, live, target, cancelled, barrier, down>>

(* The last in-flight call has settled: swap, and release the barrier.     *)
Swap(a) ==
  /\ barrier = a /\ ~InFlight
  /\ Perform(a)
  /\ barrier' = None
  /\ UNCHANGED <<senderVars, callVars, sw, target, cancelled, down>>

(* The upgraded transport dies: back to the relay, the Sender never knows. *)
FallBack ==
  /\ live # None
  /\ live' = None
  /\ UNCHANGED <<senderVars, callVars, sw, upgrade, phase, target, cancelled,
                 barrier, down>>

Next ==
  \/ \E c \in Calls :
       \/ \E g \in Gens : IssueData(c, g) \/ IssueControl(c, g)
       \/ Enter(c) \/ Send(c) \/ Discard(c)
  \/ \E a \in Attempts : StartUpgrade(a) \/ Open(a) \/ OpenFails(a) \/ Swap(a)
  \/ PeerLeft \/ Rekey \/ OwnDrop \/ OwnReconnect \/ FallBack

Spec == Init /\ [][Next]_vars

(* Promises settle: encryption finishes, and whoever a settled promise     *)
(* wakes does run.                                                         *)
Fairness ==
  /\ \A c \in Calls : WF_vars(Enter(c)) /\ WF_vars(Send(c) \/ Discard(c))
  /\ \A a \in Attempts : WF_vars(Swap(a))

FairSpec == Spec /\ Fairness

-----------------------------------------------------------------------------
TypeOK ==
  /\ gen \in Gens
  /\ key \in [Gens -> Gens]
  /\ next \in [Gens -> Nat]
  /\ aborted \in [Gens -> BOOLEAN]
  /\ on \in [Gens -> Nat]
  /\ chain \in [Gens -> Seq(Control)]
  /\ st \in [Calls -> {"idle", "waiting", "sealing", "sent", "lost", "failed"}]
  /\ of \in [Calls -> Gens]
  /\ seq \in [Calls -> Nat]
  /\ heard \in [Gens -> Nat \cup {-1}]
  /\ reordered \subseteq Control
  /\ down \in BOOLEAN
  /\ sw \in Nat
  /\ live \in Attempts \cup {None}
  /\ upgrade \in Attempts \cup {None}
  /\ phase \in [Attempts -> {"idle", "opening", "queued", "swapped", "failed"}]
  /\ target \in [Attempts -> Nat]
  /\ cancelled \in [Attempts -> BOOLEAN]
  /\ barrier \in Attempts \cup {None}

(* AES-GCM's requirement: no two frames that reach the wire were sealed    *)
(* under the same key and sequence number, although every rebuild starts   *)
(* the new Sender from the old one's counter while calls of the old one    *)
(* may still be waiting at the gate or being sealed.                       *)
NonceOnce ==
  \A c, d \in Calls :
    c # d /\ st[c] = "sent" /\ st[d] = "sent" /\ key[of[c]] = key[of[d]] =>
      seq[c] # seq[d]

(* Control frames reach the wire in the order of their numbers, across     *)
(* rebuilds too: a peer that kept its Receiver never meets one its         *)
(* monotonicity check has to refuse.                                       *)
ControlInOrder == reordered = {}

(* The cutover happens at a frame boundary: no frame is being sealed when  *)
(* the live transport changes to an upgraded one.                          *)
SwapAtBoundary == [][live' \notin {None, live} => ~InFlight]_vars

(* A connection negotiated with a peer that has since left is never the    *)
(* one in use, however late it opens or however long its swap was queued.  *)
LiveIsCurrent == live # None => ~cancelled[live] /\ target[live] = sw

(* The gate never wedges: every frame a caller asked for is sent or fails, *)
(* and every attempt that got as far as the gate is settled.               *)
FramesSettle == \A c \in Calls : st[c] = "waiting" ~> st[c] \in {"sent", "lost", "failed"}
SwapsSettle == \A a \in Attempts : phase[a] = "queued" ~> phase[a] \in {"swapped", "failed"}
===============================================================================
