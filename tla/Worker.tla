------------------------------- MODULE Worker -------------------------------
(***************************************************************************)
(* The worker boundary. The Session runs in a Web Worker, which can hold   *)
(* neither an RTCPeerConnection nor a file; the page holds both. Between   *)
(* them run two proxies:                                                   *)
(*   client/worker/peer-proxy.ts, peer-host.ts   an upgraded connection    *)
(*   client/worker/sink-proxy.ts, sink-host.ts   the file being saved      *)
(* with client/transport/webrtc.ts as the real connection, the drain of    *)
(* client/transfer/sender.ts and the sink handling of transfer/receiver.ts *)
(* at the worker's end, and client/hooks/useSession.ts tearing both down.  *)
(*                                                                         *)
(* Abstractions. A frame counts one, whatever its bytes, and HighWater is  *)
(* a number of frames. Messages of one direction arrive in the order they  *)
(* were posted; those about connections and those about a file's sink keep *)
(* no order between them that either end relies on, so each has its queue. *)
(* What the connection signals (SDP, ICE) and what it receives are left    *)
(* out. A worker serves one session: the page starts one per mount and     *)
(* terminates it when it goes (the worker's own second 'init' has no       *)
(* caller). A request is identified by its file and kind, which the        *)
(* Receiver never has twice in flight.                                     *)
(*                                                                         *)
(* Definitions that differ from their neighbour by one mistake             *)
(* (ForgetsAll, BelowMark, ...) are faulty variants: no action uses them.  *)
(***************************************************************************)
EXTENDS Integers, Sequences, FiniteSets

CONSTANTS
  MaxConns,    \* bound: upgrade attempts in the life of the worker
  MaxFrames,   \* bound: frames handed to one connection
  HighWater,   \* HIGH_WATER_BYTES, in frames
  Cap,         \* frames a data channel buffers before its send throws
  Files,       \* files being received
  MaxWrites    \* bound: chunks written to one file

ASSUME WorkerAssumption ==
  /\ MaxConns \in Nat /\ MaxFrames \in Nat /\ MaxWrites \in Nat
  /\ HighWater \in Nat \ {0}
  /\ Cap \in Nat /\ Cap > HighWater
  /\ IsFiniteSet(Files)

Conns == 1..MaxConns

VARIABLES
  torn,      \* the screen unmounted: the page let go and ended the worker
  (* connections, in the worker: ProxyUpgradeTransport *)
  proxy,     \* "none", "opening", "open" or "closed"
  posted,    \* #sendSeq
  inFlight,  \* #inFlight: the sends the page has not confirmed
  reported,  \* #reportedBytes
  parked,    \* the Sender waits for this connection to drain
  (* connections, on the page: peer-host's live map, and the real one *)
  host,      \* "none", "live" or "gone"
  waiting,   \* whenOpen is running
  chan,      \* the data channel: "opening", "open" or "dead"
  buffer,    \* its bufferedAmount, in frames
  low,       \* a bufferedamountlow event is due
  accepted,  \* acceptedSeq
  toPage, toWorker,   \* messages about connections, in order
  (* sinks *)
  file,      \* the Receiver's side: what it awaits from the file's sink
  failed,    \* entry.failed
  writes,    \* bound
  asks,      \* requests about the file's sink on their way to the page
  answers,   \* answers on their way back, of the form [k, ok]
  building,  \* the factory is running for the file
  held,      \* sink-host's sinks map has it
  busy,      \* requests the real sink is working on
  disk       \* the real sink: "none", "open", "closed" or "aborted"

peerVars == <<proxy, posted, inFlight, reported, parked, host, waiting, chan,
              buffer, low, accepted, toPage, toWorker>>
sinkVars == <<file, failed, writes, asks, answers, building, held, busy, disk>>
vars == <<torn, peerVars, sinkVars>>

Msg(t, c) == [t |-> t, c |-> c]
SendMsg(c, s) == [t |-> "peer-send", c |-> c, seq |-> s]
Drained(c, s, b) == [t |-> "peer-drain", c |-> c, seq |-> s, bytes |-> b]

Init ==
  /\ torn = FALSE
  /\ proxy = [c \in Conns |-> "none"]
  /\ posted = [c \in Conns |-> 0]
  /\ inFlight = [c \in Conns |-> {}]
  /\ reported = [c \in Conns |-> 0]
  /\ parked = [c \in Conns |-> FALSE]
  /\ host = [c \in Conns |-> "none"]
  /\ waiting = [c \in Conns |-> FALSE]
  /\ chan = [c \in Conns |-> "opening"]
  /\ buffer = [c \in Conns |-> 0]
  /\ low = [c \in Conns |-> FALSE]
  /\ accepted = [c \in Conns |-> 0]
  /\ toPage = <<>> /\ toWorker = <<>>
  /\ file = [f \in Files |-> "none"]
  /\ failed = [f \in Files |-> FALSE]
  /\ writes = [f \in Files |-> 0]
  /\ asks = [f \in Files |-> <<>>]
  /\ answers = [f \in Files |-> {}]
  /\ building = [f \in Files |-> FALSE]
  /\ held = [f \in Files |-> FALSE]
  /\ busy = [f \in Files |-> {}]
  /\ disk = [f \in Files |-> "none"]

Peers == ~torn /\ UNCHANGED <<torn, sinkVars>>
Sinks == UNCHANGED <<torn, peerVars>>

-----------------------------------------------------------------------------
(* The worker's end of a connection.                                       *)

(* get bufferedAmount: the last reading, and all that was sent since.      *)
Estimate(c) == reported[c] + Cardinality(inFlight[c])

(* Session.#startUpgrade: one attempt at a time, and none while upgraded.  *)
(* The proxy is built and whenOpen called in one go.                       *)
Create(c) ==
  /\ Peers
  /\ proxy[c] = "none"
  /\ \A d \in Conns : d < c => proxy[d] = "closed"
  /\ proxy' = [proxy EXCEPT ![c] = "opening"]
  /\ toPage' = toPage \o <<Msg("peer-open", c), Msg("peer-wait-open", c)>>
  /\ UNCHANGED <<posted, inFlight, reported, parked, host, waiting, chan,
                 buffer, low, accepted, toWorker>>

(* One frame through the live connection. A data frame is followed by      *)
(* #awaitDrain, which parks the loop on a backed-up transport; a control   *)
(* frame is not, and goes out although a loop is parked.                   *)
Send(c, data) ==
  /\ Peers
  /\ proxy[c] = "open" /\ posted[c] < MaxFrames
  /\ data => ~parked[c]
  /\ LET seq == posted[c] + 1 IN
       /\ posted' = [posted EXCEPT ![c] = seq]
       /\ inFlight' = [inFlight EXCEPT ![c] = @ \cup {seq}]
       /\ toPage' = Append(toPage, SendMsg(c, seq))
  /\ parked' = [parked EXCEPT ![c] = @ \/ (data /\ Estimate(c) + 1 >= HighWater)]
  /\ UNCHANGED <<proxy, reported, host, waiting, chan, buffer, low, accepted,
                 toWorker>>

(* What a proxy that is over leaves behind: its waiters are released, by   *)
(* the swap back to the relay, and messages for it find no entry.          *)
Retire(c) ==
  /\ proxy' = [proxy EXCEPT ![c] = "closed"]
  /\ parked' = [parked EXCEPT ![c] = FALSE]
  /\ UNCHANGED <<posted, inFlight, reported>>

(* close(): an attempt aborted or a connection replaced by the relay       *)
(* (peer-left), or the end of the session.                                 *)
ForgetClose(c) == UNCHANGED toPage
PostClose(c) == toPage' = Append(toPage, Msg("peer-close", c))

Close(c) ==
  /\ Peers
  /\ proxy[c] \in {"opening", "open"}
  /\ Retire(c) /\ PostClose(c)
  /\ UNCHANGED <<host, waiting, chan, buffer, low, accepted, toWorker>>

Heard(t) ==
  /\ Peers
  /\ toWorker # <<>> /\ Head(toWorker).t = t
  /\ toWorker' = Tail(toWorker)
  /\ UNCHANGED <<host, waiting, chan, buffer, low, accepted>>

HeardFrom == Head(toWorker).c

(* peer-opened: the attempt swaps its connection in; a failed one is       *)
(* closed by negotiateUpgrade. A retired connection has no entry.          *)
HearOpened ==
  /\ Heard("peer-opened")
  /\ IF proxy[HeardFrom] = "opening"
     THEN /\ proxy' = [proxy EXCEPT ![HeardFrom] = "open"]
          /\ UNCHANGED <<posted, inFlight, reported, parked, toPage>>
     ELSE UNCHANGED <<proxy, posted, inFlight, reported, parked, toPage>>

HearFailed ==
  /\ Heard("peer-failed")
  /\ IF proxy[HeardFrom] = "opening"
     THEN Retire(HeardFrom) /\ PostClose(HeardFrom)
     ELSE UNCHANGED <<proxy, posted, inFlight, reported, parked, toPage>>

(* What a report covers is dropped from #inFlight.                         *)
ForgetsAll(sends, seq) == {}
KeepsReported(sends, seq) == {s \in sends : s >= seq}
Unconfirmed(sends, seq) == {s \in sends : s > seq}

(* Only a report that brings the estimate to the mark wakes the Sender.    *)
BelowMark(estimate) == estimate < HighWater
AtMark(estimate) == estimate <= HighWater

HearDrain ==
  /\ Heard("peer-drain")
  /\ LET m == Head(toWorker)
         left == Unconfirmed(inFlight[m.c], m.seq) IN
       IF proxy[m.c] = "closed"
       THEN UNCHANGED <<inFlight, reported, parked>>
       ELSE /\ inFlight' = [inFlight EXCEPT ![m.c] = left]
            /\ reported' = [reported EXCEPT ![m.c] = m.bytes]
            /\ parked' = [parked EXCEPT
                            ![m.c] = @ /\ ~AtMark(m.bytes + Cardinality(left))]
  /\ UNCHANGED <<proxy, posted, toPage>>

(* peer-closed: the proxy is retired, pending requests fail, and onClose   *)
(* takes the session back to the relay. A second one finds no entry.       *)
HearClosed ==
  /\ Heard("peer-closed")
  /\ IF proxy[HeardFrom] = "closed"
     THEN UNCHANGED <<proxy, posted, inFlight, reported, parked>>
     ELSE Retire(HeardFrom)
  /\ UNCHANGED toPage

-----------------------------------------------------------------------------
(* The page's end of a connection.                                         *)

Taken(t) ==
  /\ Peers
  /\ toPage # <<>> /\ Head(toPage).t = t
  /\ toPage' = Tail(toPage)
  /\ UNCHANGED <<proxy, posted, inFlight, reported, parked>>

TakenFor == Head(toPage).c

Answer(m) == toWorker' = Append(toWorker, m)

(* open(): the connection is built, or the browser refuses and the worker  *)
(* is told at once.                                                        *)
TakeOpen(built) ==
  /\ Taken("peer-open")
  /\ IF built THEN host' = [host EXCEPT ![TakenFor] = "live"] /\ UNCHANGED toWorker
              ELSE Answer(Msg("peer-failed", TakenFor)) /\ UNCHANGED host
  /\ UNCHANGED <<waiting, chan, buffer, low, accepted>>

(* waitOpen(): nothing to wait on when the connection was not built.       *)
TakeWait ==
  /\ Taken("peer-wait-open")
  /\ LET c == TakenFor IN
       CASE host[c] # "live" -> UNCHANGED <<waiting, toWorker>>
         [] host[c] = "live" /\ chan[c] = "open" ->
              Answer(Msg("peer-opened", c)) /\ UNCHANGED waiting
         [] OTHER -> waiting' = [waiting EXCEPT ![c] = TRUE] /\ UNCHANGED toWorker
  /\ UNCHANGED <<host, chan, buffer, low, accepted>>

(* The channel opens, or whenOpen's timer fires first.                     *)
Opens(c) ==
  /\ Peers
  /\ host[c] = "live" /\ chan[c] = "opening"
  /\ chan' = [chan EXCEPT ![c] = "open"]
  /\ waiting' = [waiting EXCEPT ![c] = FALSE]
  /\ IF waiting[c] THEN Answer(Msg("peer-opened", c)) ELSE UNCHANGED toWorker
  /\ UNCHANGED <<proxy, posted, inFlight, reported, parked, host, buffer, low,
                 accepted, toPage>>

TimesOut(c) ==
  /\ Peers
  /\ host[c] = "live" /\ waiting[c]
  /\ waiting' = [waiting EXCEPT ![c] = FALSE]
  /\ Answer(Msg("peer-failed", c))
  /\ UNCHANGED <<proxy, posted, inFlight, reported, parked, host, chan, buffer,
                 low, accepted, toPage>>

(* The entry leaves the live map and its connection is closed. (The wait   *)
(* for its opening is refused as well, after the proxy is retired.)        *)
LetGo(c) ==
  /\ host' = [host EXCEPT ![c] = "gone"]
  /\ chan' = [chan EXCEPT ![c] = "dead"]
  /\ waiting' = [waiting EXCEPT ![c] = FALSE]
  /\ low' = [low EXCEPT ![c] = FALSE]
  /\ buffer' = [buffer EXCEPT ![c] = 0]

(* The connection fails or the other device closes it: onClose.            *)
Dies(c) ==
  /\ Peers
  /\ host[c] = "live"
  /\ LetGo(c)
  /\ Answer(Msg("peer-closed", c))
  /\ UNCHANGED <<proxy, posted, inFlight, reported, parked, accepted, toPage>>

(* peer-send: the channel takes the frame and the page reports; at the     *)
(* browser's cap it throws, and the connection is retired instead.         *)
Full(c) == buffer[c] >= Cap

SwallowsThrow(c) ==
  UNCHANGED <<host, waiting, chan, buffer, low, accepted, toWorker>>
Refuse(c) ==
  /\ LetGo(c)
  /\ Answer(Msg("peer-closed", c))
  /\ UNCHANGED accepted

TakeSend ==
  /\ Taken("peer-send")
  /\ LET m == Head(toPage) IN
       CASE host[m.c] # "live" ->
              UNCHANGED <<host, waiting, chan, buffer, low, accepted, toWorker>>
         [] host[m.c] = "live" /\ Full(m.c) -> Refuse(m.c)
         [] OTHER ->
              /\ buffer' = [buffer EXCEPT ![m.c] = @ + 1]
              /\ accepted' = [accepted EXCEPT ![m.c] = m.seq]
              /\ Answer(Drained(m.c, m.seq, buffer[m.c] + 1))
              /\ UNCHANGED <<host, waiting, chan, low>>

TakeClose ==
  /\ Taken("peer-close")
  /\ IF host[TakenFor] = "live"
     THEN LetGo(TakenFor) /\ Answer(Msg("peer-closed", TakenFor))
     ELSE UNCHANGED <<host, chan, waiting, low, buffer, toWorker>>
  /\ UNCHANGED accepted

(* The network takes a frame off the buffer; crossing the threshold, which *)
(* is the high-water mark itself, queues the one event of that crossing.   *)
Flows(c) ==
  /\ Peers
  /\ buffer[c] > 0
  /\ buffer' = [buffer EXCEPT ![c] = @ - 1]
  /\ low' = [low EXCEPT ![c] = @ \/ buffer[c] = HighWater + 1]
  /\ UNCHANGED <<proxy, posted, inFlight, reported, parked, host, waiting, chan,
                 accepted, toPage, toWorker>>

(* bufferedamountlow: the page reports what the buffer holds by now.       *)
Low(c) ==
  /\ Peers
  /\ low[c]
  /\ low' = [low EXCEPT ![c] = FALSE]
  /\ Answer(Drained(c, accepted[c], buffer[c]))
  /\ UNCHANGED <<proxy, posted, inFlight, reported, parked, host, waiting, chan,
                 buffer, accepted, toPage>>
-----------------------------------------------------------------------------
(* The Receiver's end of a file's sink.                                    *)

Ask(f, k) == asks' = [asks EXCEPT ![f] = Append(@, k)]

(* Frames are handled one after the other, so one file at a time waits for *)
(* its sink; what tears files down does not wait for that chain.           *)
Awaiting == {"opening", "writing", "closing", "failing"}
ChainFree == \A f \in Files : file[f] \notin Awaiting

Worker == ~torn /\ Sinks /\ UNCHANGED <<building, held, busy, disk>>

(* #openSink, on the first chunk.                                          *)
OpenSink(f) ==
  /\ Worker /\ ChainFree
  /\ file[f] = "none" /\ ~failed[f]
  /\ file' = [file EXCEPT ![f] = "opening"]
  /\ Ask(f, "open")
  /\ UNCHANGED <<failed, writes, answers>>

(* A chunk is written: the first as soon as its sink is there.             *)
Write(f) ==
  /\ Worker /\ ChainFree
  /\ file[f] = "idle" /\ writes[f] < MaxWrites
  /\ file' = [file EXCEPT ![f] = "writing"]
  /\ writes' = [writes EXCEPT ![f] = @ + 1]
  /\ Ask(f, "write")
  /\ UNCHANGED <<failed, answers>>

(* file-end: the file leaves #incoming and its sink is closed, or aborted  *)
(* when the file is not whole.                                             *)
Finish(f, whole) ==
  /\ Worker /\ ChainFree
  /\ file[f] = "idle"
  /\ file' = [file EXCEPT ![f] = IF whole THEN "closing" ELSE "failing"]
  /\ Ask(f, IF whole THEN "close" ELSE "abort")
  /\ failed' = [failed EXCEPT ![f] = ~whole]
  /\ UNCHANGED <<writes, answers>>

(* cancelIncoming and abortAll: they find the entry until file-end, and    *)
(* abort the sink it has by then.                                          *)
Cancel(f) ==
  /\ Worker
  /\ file[f] \in {"none", "opening", "idle", "writing"} /\ ~failed[f]
  /\ failed' = [failed EXCEPT ![f] = TRUE]
  /\ IF file[f] \in {"idle", "writing"} THEN Ask(f, "abort") ELSE UNCHANGED asks
  /\ file' = [file EXCEPT ![f] = IF @ \in {"none", "idle"} THEN "over" ELSE @]
  /\ UNCHANGED <<writes, answers>>

(* settle(): one request is answered. A sink built for a file torn down    *)
(* meanwhile is aborted; a write that fails fails the file.                *)
DropsSink(f) == UNCHANGED asks
ReleasesSink(f) == Ask(f, "abort")

HearResult(f, a) ==
  /\ Worker
  /\ a \in answers[f]
  /\ answers' = [answers EXCEPT ![f] = @ \ {a}]
  /\ UNCHANGED writes
  /\ \/ /\ a.k = "open" /\ a.ok
        /\ file' = [file EXCEPT ![f] = IF failed[f] THEN "over" ELSE "idle"]
        /\ IF failed[f] THEN ReleasesSink(f) ELSE UNCHANGED asks
        /\ UNCHANGED failed
     \/ /\ a.k = "write" /\ a.ok
        /\ file' = [file EXCEPT ![f] = IF failed[f] THEN "over" ELSE "idle"]
        /\ UNCHANGED <<asks, failed>>
     \/ /\ a.k \in {"open", "write"} /\ ~a.ok
        /\ failed' = [failed EXCEPT ![f] = TRUE]
        /\ file' = [file EXCEPT
                      ![f] = IF a.k = "write" /\ ~failed[f] THEN "failing" ELSE "over"]
        /\ IF a.k = "write" /\ ~failed[f] THEN Ask(f, "abort") ELSE UNCHANGED asks
     \/ /\ a.k \in {"close", "abort"}
        /\ file' = [file EXCEPT ![f] = "over"]
        /\ UNCHANGED <<asks, failed>>

-----------------------------------------------------------------------------
(* The page's end of a file's sink: createSinkHost.                        *)

Page == Sinks /\ UNCHANGED <<file, failed, writes>>

(* Every request is answered, once; after the unmount, to nobody.          *)
Result(f, k, ok) ==
  answers' = IF torn THEN answers
             ELSE [answers EXCEPT ![f] = @ \cup {[k |-> k, ok |-> ok]}]

(* One request is started. A write or a close needs the sink, an abort     *)
(* does not; close and abort take it out of the map before they wait.      *)
TakeAsk(f) ==
  /\ Page /\ ~torn
  /\ asks[f] # <<>>
  /\ asks' = [asks EXCEPT ![f] = Tail(@)]
  /\ UNCHANGED disk
  /\ LET k == Head(asks[f]) IN
       \/ /\ k = "open" /\ ~held[f]
          /\ building' = [building EXCEPT ![f] = TRUE]
          /\ UNCHANGED <<held, busy, answers>>
       \/ /\ k # "open" /\ held[f]
          /\ busy' = [busy EXCEPT ![f] = @ \cup {k}]
          /\ held' = [held EXCEPT ![f] = k = "write"]
          /\ UNCHANGED <<building, answers>>
       \/ /\ k \in {"write", "close", "abort"} /\ ~held[f]
          /\ Result(f, k, k = "abort")
          /\ UNCHANGED <<building, held, busy>>

(* The factory is done, or fails (a Save-As dialog dismissed, a download   *)
(* that never starts). A sink built for a page that let go is aborted.     *)
KeepsSink(f) == disk' = [disk EXCEPT ![f] = "open"]
AbandonsSink(f) == disk' = [disk EXCEPT ![f] = "aborted"]

Built(f, ok) ==
  /\ Page
  /\ building[f]
  /\ building' = [building EXCEPT ![f] = FALSE]
  /\ Result(f, "open", ok /\ ~torn)
  /\ held' = [held EXCEPT ![f] = ok /\ ~torn]
  /\ CASE ok /\ torn -> AbandonsSink(f)
       [] ok /\ ~torn -> KeepsSink(f)
       [] ~ok -> UNCHANGED disk
  /\ UNCHANGED <<asks, busy>>

(* The real sink has done what it was asked, or failed to. A close or an   *)
(* abort that fails leaves the sink finished with all the same.            *)
Done(f, k, ok) ==
  /\ Page
  /\ k \in busy[f]
  /\ busy' = [busy EXCEPT ![f] = @ \ {k}]
  /\ disk' = [disk EXCEPT ![f] =
                CASE k = "write" \/ @ # "open" -> @
                  [] k = "close" /\ ok -> "closed"
                  [] OTHER -> "aborted"]
  /\ Result(f, k, ok)
  /\ UNCHANGED <<asks, building, held>>

-----------------------------------------------------------------------------
(* The screen unmounts: abortAll, closeAll and terminate, in one go. What  *)
(* the worker held, and every message to or from it, is gone with it; the  *)
(* real sinks and the factories still running are the page's to finish.    *)
Unmount ==
  /\ ~torn
  /\ torn' = TRUE
  /\ busy' = [f \in Files |-> busy[f] \cup (IF held[f] THEN {"abort"} ELSE {})]
  /\ held' = [f \in Files |-> FALSE]
  /\ host' = [c \in Conns |-> "gone"] /\ chan' = [c \in Conns |-> "dead"]
  /\ waiting' = [c \in Conns |-> FALSE] /\ low' = [c \in Conns |-> FALSE]
  /\ buffer' = [c \in Conns |-> 0] /\ accepted' = [c \in Conns |-> 0]
  /\ proxy' = [c \in Conns |-> "closed"] /\ parked' = [c \in Conns |-> FALSE]
  /\ posted' = [c \in Conns |-> 0] /\ reported' = [c \in Conns |-> 0]
  /\ inFlight' = [c \in Conns |-> {}]
  /\ toPage' = <<>> /\ toWorker' = <<>>
  /\ asks' = [f \in Files |-> <<>>] /\ answers' = [f \in Files |-> {}]
  /\ file' = [f \in Files |-> "over"] /\ failed' = [f \in Files |-> TRUE]
  /\ UNCHANGED <<writes, building, disk>>

-----------------------------------------------------------------------------
Hears == HearOpened \/ HearFailed \/ HearDrain \/ HearClosed
Takes == TakeOpen(TRUE) \/ TakeOpen(FALSE) \/ TakeWait \/ TakeSend \/ TakeClose

Next ==
  \/ \E c \in Conns : \/ Create(c) \/ Close(c)
                      \/ Opens(c) \/ TimesOut(c) \/ Dies(c) \/ Flows(c) \/ Low(c)
                      \/ \E data \in BOOLEAN : Send(c, data)
  \/ Hears \/ Takes
  \/ \E f \in Files :
       \/ OpenSink(f) \/ Write(f) \/ Cancel(f) \/ TakeAsk(f)
       \/ \E ok \in BOOLEAN : Finish(f, ok) \/ Built(f, ok)
       \/ \E a \in answers[f] : HearResult(f, a)
       \/ \E k \in busy[f], ok \in BOOLEAN : Done(f, k, ok)
  \/ Unmount

Spec == Init /\ [][Next]_vars

(* Messages are handled, the network carries what a live channel buffers,  *)
(* a timer fires, a picker is answered and the disk gets there.            *)
Fairness ==
  /\ WF_vars(Hears) /\ WF_vars(Takes)
  /\ \A c \in Conns : WF_vars(TimesOut(c)) /\ WF_vars(Flows(c)) /\ WF_vars(Low(c))
  /\ \A f \in Files :
       /\ WF_vars(TakeAsk(f))
       /\ WF_vars(Built(f, TRUE) \/ Built(f, FALSE))
       /\ WF_vars(\E a \in answers[f] : HearResult(f, a))
       /\ WF_vars(\E k \in busy[f], ok \in BOOLEAN : Done(f, k, ok))

FairSpec == Spec /\ Fairness

-----------------------------------------------------------------------------
Kinds == {"open", "write", "close", "abort"}
PageMsgs == [t : {"peer-open", "peer-wait-open", "peer-close"}, c : Conns] \cup
            [t : {"peer-send"}, c : Conns, seq : 1..MaxFrames]
WorkerMsgs == [t : {"peer-opened", "peer-failed", "peer-closed"}, c : Conns] \cup
              [t : {"peer-drain"}, c : Conns, seq : 0..MaxFrames, bytes : 0..Cap]

PeerTypes ==
  /\ torn \in BOOLEAN
  /\ proxy \in [Conns -> {"none", "opening", "open", "closed"}]
  /\ posted \in [Conns -> 0..MaxFrames]
  /\ inFlight \in [Conns -> SUBSET (1..MaxFrames)]
  /\ reported \in [Conns -> 0..Cap]
  /\ parked \in [Conns -> BOOLEAN]
  /\ host \in [Conns -> {"none", "live", "gone"}]
  /\ waiting \in [Conns -> BOOLEAN]
  /\ chan \in [Conns -> {"opening", "open", "dead"}]
  /\ buffer \in [Conns -> 0..Cap]
  /\ low \in [Conns -> BOOLEAN]
  /\ accepted \in [Conns -> 0..MaxFrames]
  /\ toPage \in Seq(PageMsgs) /\ toWorker \in Seq(WorkerMsgs)

SinkTypes ==
  /\ file \in [Files -> {"none", "idle", "over"} \cup Awaiting]
  /\ failed \in [Files -> BOOLEAN]
  /\ writes \in [Files -> 0..MaxWrites]
  /\ asks \in [Files -> Seq(Kinds)]
  /\ answers \in [Files -> SUBSET [k : Kinds, ok : BOOLEAN]]
  /\ building \in [Files -> BOOLEAN]
  /\ held \in [Files -> BOOLEAN]
  /\ busy \in [Files -> SUBSET Kinds]
  /\ disk \in [Files -> {"none", "open", "closed", "aborted"}]

TypeOK == PeerTypes /\ SinkTypes

Pending(q, t, c) == {i \in DOMAIN q : q[i].t = t /\ q[i].c = c}

(* The worker never believes a channel emptier than it is: its estimate    *)
(* covers what the page's channel buffers and the frames still on their    *)
(* way to it (peer-proxy.ts, "under-estimating would overrun a buffer      *)
(* nobody here can see").                                                  *)
EstimateCovers ==
  \A c \in Conns : proxy[c] = "open" /\ host[c] = "live" =>
    buffer[c] + Cardinality(Pending(toPage, "peer-send", c)) <= Estimate(c)

(* No connection lives on the page that nothing will close: the worker     *)
(* still has its end, or has asked for the close (peer-host.ts: "an        *)
(* orphaned one keeps gathering ICE for the life of the page"). And the    *)
(* worker holds none the page let go of without telling it.                *)
NoOrphan ==
  \A c \in Conns :
    /\ host[c] = "live" =>
         proxy[c] \in {"opening", "open"} \/ Pending(toPage, "peer-close", c) # {}
    /\ proxy[c] \in {"opening", "open"} /\ host[c] # "live" =>
         \/ Pending(toPage, "peer-open", c) # {}
         \/ \E t \in {"peer-failed", "peer-closed"} : Pending(toWorker, t, c) # {}

(* Whoever waits for a drain has a reason to be woken still to come: a     *)
(* frame the page will report on, a report or a close on its way, or a     *)
(* channel with the event of its draining before it. No report is missing  *)
(* that would have brought the estimate to the mark (peer-host.ts's        *)
(* onDrain, peer-proxy.ts's #inFlight).                                    *)
WakeupComes ==
  \A c \in Conns : parked[c] =>
    \/ Pending(toPage, "peer-send", c) # {}
    \/ \E t \in {"peer-drain", "peer-closed"} : Pending(toWorker, t, c) # {}
    \/ host[c] = "live" /\ (low[c] \/ buffer[c] > HighWater)

(* A Sender parked on an upgraded connection is woken: by a report that    *)
(* reaches the mark, or by the end of the connection.                      *)
ParkedWakes == \A c \in Conns : parked[c] ~> ~parked[c]

(* A request the Receiver waits for is answered, and a real sink whose     *)
(* file is over does not stay open: no partial file is left on disk.       *)
SinksSettle ==
  \A f \in Files :
    /\ file[f] \in Awaiting ~> file[f] \notin Awaiting
    /\ file[f] = "over" ~> disk[f] # "open" /\ ~building[f]

=============================================================================
