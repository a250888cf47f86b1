------------------------------- MODULE Switch -------------------------------
(***************************************************************************)
(* Two paired devices and the two ways between them: the relay they always *)
(* have, and the direct connection they try to move to.                    *)
(*   client/transport/upgrade.ts   SwitchableTransport, TransportSwapGate, *)
(*                                 negotiateUpgrade                        *)
(*   client/transport/relay.ts     buffer and drain polling of the socket  *)
(*   client/transport/webrtc.ts    opening and closing of the channel      *)
(*   client/session.ts             what a close and a peer-left do         *)
(* Each device moves when its own end of the channel opens, and moves back *)
(* when its own end reports a close: nothing on the wire makes them agree. *)
(*                                                                         *)
(* Abstractions. A frame is one unit of a buffer, and is buffered until it *)
(* arrives or is lost. One pairing and its one attempt are modelled: a     *)
(* device whose session was lost, or that was told the other left, stops.  *)
(***************************************************************************)
EXTENDS Integers

CONSTANTS
  HighWater,   \* HIGH_WATER_BYTES, in frames
  Cap          \* bound on the frames in one buffer

ASSUME SwitchAssumption ==
  HighWater \in Nat \ {0} /\ Cap \in Nat /\ HighWater < Cap

Ends == {"host", "guest"}
Across(e) == IF e = "host" THEN "guest" ELSE "host"
Ways == {"relay", "direct"}

VARIABLES
  session,   \* "paired"; "lost": its own connection; "alone": the other left
  live,      \* SwitchableTransport.#live
  died,      \* the relay socket's close was heard: #baselineDied
  fresh,     \* BASELINE_STRAGGLER_MS since the relay was sidelined is not over
  attempt,   \* negotiateUpgrade: "opening", "queued" at the gate, "swapped", "failed"
  closed,    \* the direct transport is closed at this end
  sealing,   \* TransportSwapGate.#inFlight: a frame is being sealed
  parked,    \* Sender.#awaitDrain waits
  buffer,    \* end, way: frames handed over that have not arrived
  polling,   \* RelayTransport.#drainTimer runs
  report,    \* the page is to report on the direct buffer
  socket,    \* the relay socket stands
  left,      \* peer-left is on its way to this end
  cut        \* the direct connection is cut

sendVars == <<sealing, parked, buffer, polling, report>>
switchVars == <<session, live, died, fresh, attempt, closed>>
netVars == <<socket, left, cut>>
endVars == <<switchVars, sendVars, netVars>>

SwitchInit ==
  /\ session = [e \in Ends |-> "paired"]
  /\ live = [e \in Ends |-> "relay"]
  /\ died = [e \in Ends |-> FALSE]
  /\ fresh = [e \in Ends |-> FALSE]
  /\ attempt = [e \in Ends |-> "opening"]
  /\ closed = [e \in Ends |-> FALSE]
  /\ sealing = [e \in Ends |-> FALSE]
  /\ parked = [e \in Ends |-> FALSE]
  /\ buffer = [e \in Ends |-> [w \in Ways |-> 0]]
  /\ polling = [e \in Ends |-> FALSE]
  /\ report = [e \in Ends |-> FALSE]
  /\ socket = [e \in Ends |-> TRUE]
  /\ left = [e \in Ends |-> FALSE]
  /\ cut = FALSE

Paired(e) == session[e] = "paired"

-----------------------------------------------------------------------------
(* SwitchableTransport.                                                    *)

(* releaseDrainIfIdle: whoever waits for the drain of the transport left   *)
(* behind goes on, if the one now live has room.                           *)
StaysParked(e, w) == parked' = parked
Release(e, w) == parked' = [parked EXCEPT ![e] = @ /\ buffer[e][w] >= HighWater]

SwapTo(e) ==
  /\ live' = [live EXCEPT ![e] = "direct"]
  /\ fresh' = [fresh EXCEPT ![e] = TRUE]
  /\ attempt' = [attempt EXCEPT ![e] = "swapped"]
  /\ Release(e, "direct")
  /\ UNCHANGED <<session, died, closed>>

(* A transport that is closed drops what it held.                          *)
Close(e) ==
  /\ closed' = [closed EXCEPT ![e] = TRUE]
  /\ report' = [report EXCEPT ![e] = FALSE]

(* Nothing to return to: onClose is reported, which aborts the Sender.     *)
ForgetsDeath(e) == FALSE
NothingLeft(e) == died[e]

FallBack(e) ==
  /\ live' = [live EXCEPT ![e] = "relay"]
  /\ fresh' = [fresh EXCEPT ![e] = FALSE]
  /\ Close(e)
  /\ \/ /\ NothingLeft(e)
        /\ session' = [session EXCEPT ![e] = "lost"]
        /\ sealing' = [sealing EXCEPT ![e] = FALSE]
        /\ parked' = [parked EXCEPT ![e] = FALSE]
     \/ /\ ~NothingLeft(e)
        /\ Release(e, "relay")
        /\ UNCHANGED <<session, sealing>>
  /\ UNCHANGED <<died, attempt>>

(* A frame on the sidelined relay, once it is no straggler, says the other *)
(* end is back there.                                                      *)
Muted(e) == FALSE
IsEvidence(e) == live[e] = "direct" /\ ~fresh[e]

WindowPasses(e) ==
  /\ live[e] = "direct" /\ fresh[e]
  /\ fresh' = [fresh EXCEPT ![e] = FALSE]
  /\ UNCHANGED <<session, live, died, attempt, closed, sendVars, netVars>>

-----------------------------------------------------------------------------
(* Sending. The gate admits no frame while a swap is queued. Control       *)
(* frames are too few to keep a full buffer full.                          *)
Seal(e) ==
  /\ Paired(e) /\ ~sealing[e] /\ attempt[e] # "queued"
  /\ parked[e] => buffer[e][live[e]] < HighWater
  /\ \A w \in Ways : buffer[e][w] < Cap
  /\ sealing' = [sealing EXCEPT ![e] = TRUE]
  /\ UNCHANGED <<parked, buffer, polling, report, switchVars, netVars>>

(* transport.send: nothing happens on a transport that is closed.          *)
Takes(e) == IF live[e] = "relay" THEN socket[e] ELSE ~closed[e]

(* startDrainPollingIfNeeded.                                              *)
PollsAbove(n) == n > HighWater
StartsPolling(n) == n >= HighWater

Hand(e) ==
  LET n == buffer[e][live[e]] + 1 IN
    IF Takes(e)
    THEN /\ buffer' = [buffer EXCEPT ![e][live[e]] = n]
         /\ polling' = [polling EXCEPT ![e] = @ \/ (live[e] = "relay" /\ StartsPolling(n))]
         /\ report' = [report EXCEPT ![e] = @ \/ live[e] = "direct"]
    ELSE UNCHANGED <<buffer, polling, report>>

(* A data frame is followed by #awaitDrain; a control frame, which may     *)
(* leave while a loop is parked, is not.                                   *)
Send(e, data) ==
  /\ sealing[e] /\ attempt[e] # "queued"
  /\ data => ~parked[e]
  /\ sealing' = [sealing EXCEPT ![e] = FALSE]
  /\ Hand(e)
  /\ parked' = [parked EXCEPT ![e] = @ \/ (data /\ buffer'[e][live[e]] >= HighWater)]
  /\ UNCHANGED <<switchVars, netVars>>

(* The last frame in flight is out, and the swap that waited for it runs   *)
(* before anything else does.                                              *)
SendThenSwap(e) ==
  /\ sealing[e] /\ attempt[e] = "queued"
  /\ sealing' = [sealing EXCEPT ![e] = FALSE]
  /\ Hand(e)
  /\ SwapTo(e)
  /\ UNCHANGED netVars

(* The polled relay buffer is below the mark.                              *)
Poll(e) ==
  /\ polling[e] /\ buffer[e]["relay"] < HighWater
  /\ polling' = [polling EXCEPT ![e] = FALSE]
  /\ parked' = [parked EXCEPT ![e] = @ /\ live[e] # "relay"]
  /\ UNCHANGED <<sealing, buffer, report, switchVars, netVars>>

(* The page reports the direct buffer after every frame it took.           *)
Report(e) ==
  /\ report[e]
  /\ report' = [report EXCEPT ![e] = FALSE]
  /\ parked' = [parked EXCEPT ![e] = @ /\ buffer[e]["direct"] > HighWater]
  /\ UNCHANGED <<sealing, buffer, polling, switchVars, netVars>>

-----------------------------------------------------------------------------
(* negotiateUpgrade and the direct transport.                              *)

(* The channel opens at this end.                                          *)
Opens(e) ==
  /\ Paired(e) /\ attempt[e] = "opening" /\ ~cut
  /\ \/ /\ ~sealing[e]
        /\ SwapTo(e)
     \/ /\ sealing[e]
        /\ attempt' = [attempt EXCEPT ![e] = "queued"]
        /\ UNCHANGED <<session, live, died, fresh, closed, parked>>
  /\ UNCHANGED <<sealing, buffer, polling, report, netVars>>

(* whenOpen's timer closes this end, if it lost its session or not.        *)
TimesOut(e) ==
  /\ attempt[e] = "opening"
  /\ attempt' = [attempt EXCEPT ![e] = "failed"]
  /\ Close(e)
  /\ UNCHANGED <<session, live, died, fresh, sealing, parked, buffer, polling, netVars>>

Cut ==
  /\ ~cut
  /\ cut' = TRUE
  /\ UNCHANGED <<socket, left, switchVars, sendVars>>

(* reportClose: whenOpen is rejected if it still waits; onClose falls back *)
(* if the swap has bound it. Between the two nobody listens.               *)
HearClosed(e) ==
  /\ Paired(e) /\ ~closed[e]
  /\ cut \/ closed[Across(e)]
  /\ \/ /\ live[e] = "direct"
        /\ FallBack(e)
     \/ /\ live[e] = "relay"
        /\ Close(e)
        /\ attempt' = [attempt EXCEPT ![e] = IF @ = "opening" THEN "failed" ELSE @]
        /\ UNCHANGED <<session, live, died, fresh, sealing, parked>>
  /\ buffer' = [buffer EXCEPT ![e]["direct"] = 0]
  /\ UNCHANGED <<polling, netVars>>

-----------------------------------------------------------------------------
(* Arrival.                                                                *)
ArriveByRelay(e) ==
  LET o == Across(e) IN
    /\ buffer[e]["relay"] > 0
    /\ \/ /\ Paired(o) /\ socket[o] /\ IsEvidence(o)
          /\ FallBack(o)
          /\ buffer' = [buffer EXCEPT ![e]["relay"] = @ - 1, ![o]["direct"] = 0]
       \/ /\ ~(Paired(o) /\ socket[o] /\ IsEvidence(o))
          /\ buffer' = [buffer EXCEPT ![e]["relay"] = @ - 1]
          /\ UNCHANGED <<switchVars, sealing, parked, report>>
    /\ UNCHANGED <<polling, netVars>>

(* bufferedamountlow tells as the buffer comes down to the mark. A frame   *)
(* that finds this end not moved yet finds no listener.                    *)
ArriveDirect(e) ==
  /\ buffer[e]["direct"] > 0 /\ ~cut
  /\ attempt[Across(e)] # "opening"
  /\ buffer' = [buffer EXCEPT ![e]["direct"] = @ - 1]
  /\ parked' = [parked EXCEPT ![e] = @ /\ buffer[e]["direct"] # HighWater + 1]
  /\ UNCHANGED <<sealing, polling, report, switchVars, netVars>>

-----------------------------------------------------------------------------
(* The relay socket of one end.                                            *)
SocketDies(e) ==
  /\ Paired(e) /\ socket[e]
  /\ socket' = [socket EXCEPT ![e] = FALSE]
  /\ buffer' = [buffer EXCEPT ![e]["relay"] = 0]
  /\ left' = [left EXCEPT ![Across(e)] = socket[Across(e)]]
  /\ UNCHANGED <<cut, sealing, parked, polling, report, switchVars>>

(* Sidelined, it is only noted; live, the session is lost and reconnects.  *)
HearSocket(e) ==
  /\ Paired(e) /\ ~socket[e] /\ ~died[e]
  /\ died' = [died EXCEPT ![e] = TRUE]
  /\ polling' = [polling EXCEPT ![e] = FALSE]
  /\ \/ /\ live[e] = "relay"
        /\ session' = [session EXCEPT ![e] = "lost"]
        /\ sealing' = [sealing EXCEPT ![e] = FALSE]
        /\ parked' = [parked EXCEPT ![e] = FALSE]
     \/ /\ live[e] = "direct"
        /\ UNCHANGED <<session, sealing, parked>>
  /\ UNCHANGED <<live, fresh, attempt, closed, buffer, report, netVars>>

(* handlePeerLeft, unpair: the Sender is aborted, the attempt too, which   *)
(* closes its transport; a direct connection is left.                      *)
HearLeft(e) ==
  /\ Paired(e) /\ left[e] /\ socket[e]
  /\ left' = [left EXCEPT ![e] = FALSE]
  /\ session' = [session EXCEPT ![e] = "alone"]
  /\ live' = [live EXCEPT ![e] = "relay"]
  /\ fresh' = [fresh EXCEPT ![e] = FALSE]
  /\ Close(e)
  /\ buffer' = [buffer EXCEPT ![e]["direct"] = 0]
  /\ attempt' = [attempt EXCEPT ![e] = IF @ = "swapped" THEN @ ELSE "failed"]
  /\ sealing' = [sealing EXCEPT ![e] = FALSE]
  /\ parked' = [parked EXCEPT ![e] = FALSE]
  /\ UNCHANGED <<died, polling, socket, cut>>

-----------------------------------------------------------------------------
SwitchNext ==
  \/ Cut
  \/ \E e \in Ends :
       \/ Seal(e) \/ SendThenSwap(e) \/ Poll(e) \/ Report(e)
       \/ \E data \in BOOLEAN : Send(e, data)
       \/ Opens(e) \/ TimesOut(e) \/ HearClosed(e) \/ WindowPasses(e)
       \/ ArriveByRelay(e) \/ ArriveDirect(e)
       \/ SocketDies(e) \/ HearSocket(e) \/ HearLeft(e)

(* A seal is finished, timers fire, a buffer drains, an event is heard;    *)
(* the interval timer that polls the buffer meets it below the mark if it  *)
(* is there again and again. Nothing obliges a device to send, a socket to *)
(* die or a channel to open.                                               *)
SwitchFairness ==
  \A e \in Ends :
    /\ WF_endVars(SendThenSwap(e) \/ \E data \in BOOLEAN : Send(e, data))
    /\ SF_endVars(Poll(e)) /\ WF_endVars(Report(e))
    /\ WF_endVars(TimesOut(e)) /\ WF_endVars(HearClosed(e))
    /\ WF_endVars(WindowPasses(e))
    /\ WF_endVars(ArriveByRelay(e)) /\ WF_endVars(ArriveDirect(e))
    /\ WF_endVars(HearSocket(e)) /\ WF_endVars(HearLeft(e))

SwitchSpec == SwitchInit /\ [][SwitchNext]_endVars
FairSwitchSpec == SwitchSpec /\ SwitchFairness

-----------------------------------------------------------------------------
SwitchTypeOK ==
  /\ session \in [Ends -> {"paired", "lost", "alone"}]
  /\ live \in [Ends -> Ways]
  /\ attempt \in [Ends -> {"opening", "queued", "swapped", "failed"}]
  /\ buffer \in [Ends -> [Ways -> 0..Cap]]
  /\ \A f \in {died, fresh, closed, sealing, parked, polling, report, socket, left} :
       f \in [Ends -> BOOLEAN]
  /\ cut \in BOOLEAN

(* A device that heard its relay socket close, in whatever order that came *)
(* with the moves to the direct connection and back, is not left sending   *)
(* on it: it is on the direct connection, or knows its session lost        *)
(* (upgrade.ts, "instead of resuming on a corpse").                        *)
NotOnDeadRelay == \A e \in Ends : Paired(e) /\ died[e] => live[e] = "direct"

(* Whoever waits for a drain has something coming that ends the wait: the  *)
(* poll of the socket it waits on, or on the direct connection a report of *)
(* the page or the event of its buffer coming down to the mark             *)
(* (relay.ts's #drainTimer, peer-host.ts, releaseDrainIfIdle). A swap, a   *)
(* fallback or a close that takes it away has to end the wait itself.      *)
WakeupComes ==
  \A e \in Ends : parked[e] =>
    /\ Paired(e)
    /\ live[e] = "relay" => polling[e]
    /\ live[e] = "direct" =>
         ~closed[e] /\ (report[e] \/ buffer[e]["direct"] > HighWater)

(* Two paired devices disagree for good only if the one on the relay has   *)
(* fallen silent: while it keeps sending, the other hears that and comes   *)
(* back, even from a connection whose close it missed (upgrade.ts, "the    *)
(* two agree again rather than never").                                    *)
EndsAgree ==
  \A e \in Ends :
    <>[](Paired(e) /\ live[e] = "direct" /\ live[Across(e)] = "relay")
      => <>[](buffer[Across(e)]["relay"] = 0)

(* A sender parked on a full buffer goes on or is aborted, whichever       *)
(* transport it parked on is replaced, refilled or dies meanwhile.         *)
ParkedWakes == \A e \in Ends : parked[e] ~> ~parked[e]

(* upgrade.ts, of a relay that dies while sidelined: "the data path is     *)
(* peer-to-peer and entirely healthy, and tearing a working multi-gigabyte *)
(* transfer down to rebuild a socket it is not using would be strictly     *)
(* worse than carrying on". The other device is told peer-left, though,    *)
(* and closes the connection.                                              *)
DirectCarriesOn ==
  [][(\A e \in Ends : /\ Paired(e) /\ live[e] = "direct" /\ ~closed[e]
                      /\ buffer[e]["relay"] = 0)
       /\ ~cut => live' = live]_endVars

(* upgrade.ts, "An upgraded transport dying is a downgrade": also one that *)
(* dies after it opened and before the swap that waits for a frame.        *)
DeathIsDowngrade == \A e \in Ends : Paired(e) /\ closed[e] => live[e] = "relay"

(* webrtc.ts, "the same delivery semantics the WebSocket relay provides":  *)
(* also for a frame that comes before this end has swapped.                *)
NothingEarly ==
  [][\A e \in Ends :
       LET o == Across(e) IN
         ~cut /\ Paired(o) /\ ~closed[o] /\ closed' = closed
           => (buffer'[e]["direct"] < buffer[e]["direct"] => live[o] = "direct")]_endVars

=============================================================================
