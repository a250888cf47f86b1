-------------------------------- MODULE Live --------------------------------
(***************************************************************************)
(* The live-media slot of both devices: sharing a camera or a screen over  *)
(* a connection of its own (client/media/live-session.ts, media-peer.ts),  *)
(* on the panel that shows it (client/screens/TransferPanel.tsx).          *)
(*                                                                         *)
(* A share is one click on a share button. At each end it has at most one  *)
(* MediaPeer, pc[e][k]. What an end says reaches the other in order; the   *)
(* handlers it starts there are not awaited, so each is split where it     *)
(* awaits. #generation is kept as the set of operations whose ticket is    *)
(* still current: whatever bumps the counter empties that set.             *)
(*                                                                         *)
(* A session description does not say which share it belongs to; share     *)
(* names it here, and no handler looks at it. One ICE candidate per end    *)
(* and share stands for all of them. Of a camera's tracks the video is     *)
(* kept; the microphone only ever stops with the stream. Statistics are    *)
(* left out: they are not slot state.                                      *)
(***************************************************************************)
EXTENDS Integers, Sequences, FiniteSets, SequencesExt

CONSTANTS
  Cameras, Screens,  \* the shares the users will ask for, by kind
  Asks,              \* <<e, k>>: the device at which share k may be asked for
  MaxEarly,          \* MAX_EARLY_ICE, 64 in the code
  MaxEvents,         \* interruptions and adjustments (bound)
  Trickling,         \* the ends that find an ICE candidate
  None

Ends == {"a", "b"}
Polite == "b"
Shares == Cameras \cup Screens
Tracks == Shares \X {0, 1}   \* what start() captures, and what a flip puts there

ASSUME LiveAssumption ==
  /\ Cameras \cap Screens = {} /\ None \notin Shares /\ None \notin Tracks
  /\ MaxEarly \in Nat \ {0} /\ MaxEvents \in Nat
  /\ Trickling \subseteq Ends /\ Asks \subseteq Ends \X Shares

VARIABLES
  panel,     \* TransferPanel is mounted
  slot,      \* #slot
  fresh,     \* operations in flight whose ticket is still #generation
  net,       \* signals on their way to an end
  owner,     \* the end at which a share was asked for
  start,     \* how far start() is
  answer,    \* how far the other end's handling of its offer is
  accepts,   \* <<e, j, k>>: the answer of k being applied to e's peer for j
  pc,        \* each end's MediaPeer for a share
  early,     \* #earlyIce: whose candidates it holds
  pending,   \* #pendingIce of each peer of an end, as <<peer, candidate>>
  used,      \* the shares whose candidate an end's connection for them has been given
  said,      \* ends that have sent their candidate for a share
  strayed,   \* history: <<e, k>>, k's candidate was kept from e's connection for k
  live,      \* tracks capturing, with their indicator lit
  stream,    \* the tracks in a share's stream
  watched,   \* tracks with an 'ended' listener
  unsub,     \* the track #unsubStreamEnded would unwatch
  flip,      \* how far flipCamera() is
  refresh,   \* shares whose #refreshCamera() awaits the device list
  adjust,    \* <<end, "torch">>, <<end, "preset">>: such a call is in flight
  events,    \* interruptions and adjustments so far
  late       \* history: shares a flip was swapped into after they had ended

signals == <<net, accepts, early, pending, used, said, strayed>>
ops == <<owner, start, answer, flip, refresh, adjust>>
media == <<live, stream, watched, unsub>>
vars == <<panel, slot, fresh, pc, signals, ops, media, events, late>>

Idle == [state |-> "idle", share |-> None, camera |-> "none", seen |-> FALSE]
Slots == [state : {"idle", "offering", "sending", "receiving"},
          share : Shares \cup {None}, camera : {"none", "ready", "busy"}, seen : BOOLEAN]
Op == {"start", "answer", "flip", "refresh"} \X Shares
Signals == [t : {"offer", "answer", "ice"}, k : Shares] \cup [t : {"stop"}]

Init ==
  /\ panel = [e \in Ends |-> TRUE]
  /\ slot = [e \in Ends |-> Idle]
  /\ fresh = [e \in Ends |-> {}]
  /\ net = [e \in Ends |-> <<>>]
  /\ owner = [k \in Shares |-> None]
  /\ start = [k \in Shares |-> "unused"]
  /\ answer = [k \in Shares |-> "none"]
  /\ accepts = {}
  /\ pc = [e \in Ends |-> [k \in Shares |-> "none"]]
  /\ early = [e \in Ends |-> {}]
  /\ pending = [e \in Ends |-> {}]
  /\ used = [e \in Ends |-> {}]
  /\ said = [e \in Ends |-> {}]
  /\ strayed = {}
  /\ live = {}
  /\ stream = [k \in Shares |-> {}]
  /\ watched = {}
  /\ unsub = [e \in Ends |-> None]
  /\ flip = [k \in Shares |-> "none"]
  /\ refresh = {}
  /\ adjust = {}
  /\ events = 0
  /\ late = {}
-----------------------------------------------------------------------------
Other(e) == IF e = "a" THEN "b" ELSE "a"
Event == events < MaxEvents /\ events' = events + 1
Holds(e, k) == slot[e].state # "idle" /\ slot[e].share = k
Sharing(e) == slot[e].state \in {"offering", "sending"}

(* The signals in flight once e, which has handled the first n sent to it, *)
(* has sent s.                                                             *)
Sent(e, n, s) ==
  [net EXCEPT ![e] = SubSeq(@, n + 1, Len(@)), ![Other(e)] = @ \o s]

(* #setSlot: every write to the slot outdates the tickets given before it; *)
(* op is what takes its ticket from the new value.                         *)
SetSlot(e, s, op) ==
  /\ slot' = [slot EXCEPT ![e] = s]
  /\ fresh' = [fresh EXCEPT ![e] = op]

(* A release that forgets the connection.                                  *)
ReleasedOpen(e) ==
  [live |-> IF Sharing(e) THEN live \ stream[slot[e].share] ELSE live,
   watched |-> IF slot[e].state = "idle" THEN watched ELSE watched \ {unsub[e]},
   unsub |-> IF slot[e].state = "idle" THEN unsub[e] ELSE None, pc |-> pc[e]]

(* #release, in its parts: what it leaves of the media, and what it says.  *)
(* With an idle slot it only outdates the tickets.                         *)
Released(e) ==
  [live |-> IF Sharing(e) THEN live \ stream[slot[e].share] ELSE live,
   watched |-> IF slot[e].state = "idle" THEN watched ELSE watched \ {unsub[e]},
   unsub |-> IF slot[e].state = "idle" THEN unsub[e] ELSE None,
   pc |-> IF slot[e].state = "idle" THEN pc[e]
          ELSE [pc[e] EXCEPT ![slot[e].share] = "closed"]]
Goodbye(e) == IF slot[e].state = "idle" THEN <<>> ELSE <<[t |-> "stop"]>>

(* The whole of #release, when the handler does nothing else to the media. *)
Release(e, op) ==
  LET r == Released(e) IN
  /\ SetSlot(e, Idle, op)
  /\ pc' = [pc EXCEPT ![e] = r.pc]
  /\ live' = r.live /\ watched' = r.watched /\ unsub' = [unsub EXCEPT ![e] = r.unsub]
  /\ UNCHANGED stream
-----------------------------------------------------------------------------
(* Sharing: start(), up to each await.                                     *)
Click(e, k) ==
  /\ panel[e] /\ start[k] = "unused" /\ <<e, k>> \in Asks
  /\ owner' = [owner EXCEPT ![k] = e]
  /\ start' = [start EXCEPT ![k] = "prompt"]
  /\ UNCHANGED <<panel, slot, fresh, pc, signals, answer, flip, refresh, adjust,
                 media, events, late>>

Denied(k) ==
  /\ start[k] = "prompt"
  /\ start' = [start EXCEPT ![k] = "over"]
  /\ UNCHANGED <<panel, slot, fresh, pc, signals, owner, answer, flip, refresh, adjust, media, events, late>>

Captured(k) ==
  LET e == owner[k]  r == Released(e) IN
  /\ start[k] = "prompt"
  /\ start' = [start EXCEPT ![k] = "building"]
  /\ SetSlot(e, Idle, {<<"start", k>>})
  /\ pc' = [pc EXCEPT ![e] = r.pc]
  /\ net' = Sent(e, 0, Goodbye(e))
  /\ live' = r.live \cup {<<k, 0>>}
  /\ stream' = [stream EXCEPT ![k] = {<<k, 0>>}]
  /\ watched' = r.watched \cup {<<k, 0>>}
  /\ unsub' = [unsub EXCEPT ![e] = r.unsub]
  /\ UNCHANGED <<panel, accepts, early, pending, used, said, strayed, owner, answer, flip,
                 refresh, adjust, events, late>>

OfferFails(k) ==
  /\ start[k] = "building"
  /\ Event
  /\ start' = [start EXCEPT ![k] = "over"]
  /\ live' = live \ stream[k]
  /\ watched' = watched \ {<<k, 0>>}
  /\ fresh' = [fresh EXCEPT ![owner[k]] = @ \ {<<"start", k>>}]
  /\ UNCHANGED <<panel, slot, pc, signals, owner, answer, flip, refresh, adjust,
                 stream, unsub, late>>

(* MediaPeer.offer() has sent the offer by the time it is found overtaken. *)
Offer(k) == <<[t |-> "offer", k |-> k]>>
NeverOvertaken(e, op) == TRUE
IsCurrent(e, op) == op \in fresh[e]
OfferReady(k) ==
  LET e == owner[k] IN
  /\ start[k] = "building"
  /\ start' = [start EXCEPT ![k] = "over"]
  /\ net' = Sent(e, 0, Offer(k))
  /\ \/ /\ IsCurrent(e, <<"start", k>>)
        /\ SetSlot(e, [Idle EXCEPT !.state = "offering", !.share = k],
                   IF k \in Cameras THEN {<<"refresh", k>>} ELSE {})
        /\ pc' = [pc EXCEPT ![e][k] = "new"]
        /\ unsub' = [unsub EXCEPT ![e] = <<k, 0>>]
        /\ refresh' = IF k \in Cameras THEN refresh \cup {k} ELSE refresh
        /\ adjust' = IF k \in Screens THEN adjust \cup {<<e, "preset">>} ELSE adjust
        /\ UNCHANGED <<live, watched>>
     \/ /\ ~IsCurrent(e, <<"start", k>>)
        /\ pc' = [pc EXCEPT ![e][k] = "closed"]
        /\ live' = live \ stream[k]
        /\ watched' = watched \ {<<k, 0>>}
        /\ UNCHANGED <<slot, fresh, unsub, refresh, adjust>>
  /\ UNCHANGED <<panel, accepts, early, pending, used, said, strayed, owner, answer, flip,
                 stream, events, late>>
-----------------------------------------------------------------------------
(* Stopping: the user's button, the browser's own, the panel going away.   *)
Stop(e) ==
  /\ panel[e] /\ slot[e].state # "idle"
  /\ Event
  /\ net' = Sent(e, 0, Goodbye(e))
  /\ Release(e, {})
  /\ UNCHANGED <<panel, accepts, early, pending, used, said, strayed, ops, late>>

(* The cleanup of TransferPanel's effect, whatever unmounts it.            *)
Unmount(e) ==
  /\ panel[e]
  /\ Event
  /\ panel' = [panel EXCEPT ![e] = FALSE]
  /\ net' = Sent(e, 0, Goodbye(e))
  /\ Release(e, {})
  /\ UNCHANGED <<accepts, early, pending, used, said, strayed, ops, late>>

(* A track ends by itself; an 'ended' listener calls stop().               *)
TrackEnded(t) ==
  LET e == owner[t[1]]  r == Released(e) IN
  /\ t \in live
  /\ Event
  /\ live' = (IF t \in watched THEN r.live ELSE live) \ {t}
  /\ UNCHANGED stream
  /\ IF t \in watched
     THEN /\ SetSlot(e, Idle, {})
          /\ pc' = [pc EXCEPT ![e] = r.pc]
          /\ watched' = r.watched /\ unsub' = [unsub EXCEPT ![e] = r.unsub]
          /\ net' = Sent(e, 0, Goodbye(e))
     ELSE UNCHANGED <<slot, fresh, pc, watched, unsub, net>>
  /\ UNCHANGED <<panel, accepts, early, pending, used, said, strayed, ops, late>>

(* The connection of the share in the slot fails for good, and onClosed    *)
(* finds it there. One whose other end is gone, or was never its other     *)
(* end, fails in the end; one between two peers that agree may.            *)
Cut(e) == pc[Other(e)][slot[e].share] # "negotiated"
Fails(e) ==
  /\ slot[e].state # "idle" /\ pc[e][slot[e].share] = "negotiated"
  /\ IF Cut(e) THEN UNCHANGED events ELSE Event
  /\ net' = Sent(e, 0, Goodbye(e))
  /\ Release(e, {})
  /\ UNCHANGED <<panel, accepts, early, pending, used, said, strayed, ops, late>>
-----------------------------------------------------------------------------
(* Signals: onMediaSignal(), branch by branch.                             *)
Next1(e, t) == panel[e] /\ net[e] # <<>> /\ Head(net[e]).t = t
Heard(e) == net' = Sent(e, 1, <<>>)

(* The panel has unsubscribed.                                             *)
Unheard(e) ==
  /\ ~panel[e] /\ net[e] # <<>>
  /\ Heard(e)
  /\ UNCHANGED <<panel, slot, fresh, pc, accepts, early, pending, used, said, strayed, ops, media, events, late>>

HearStop(e) ==
  /\ Next1(e, "stop")
  /\ Heard(e)
  /\ Release(e, {})
  /\ UNCHANGED <<panel, accepts, early, pending, used, said, strayed, ops, events, late>>

(* One that comes before there is a peer waits for the next offer's; one   *)
(* that finds the peer of another share is given to that, and one that     *)
(* finds #earlyIce full is dropped.                                        *)
Full(e) == Cardinality(early[e]) >= MaxEarly
NoRoom(e) == FALSE
Room(e) == slot[e].state = "idle" /\ ~Full(e)
Strays(e, k) == IF slot[e].state = "idle" THEN Full(e) ELSE slot[e].share # k
HearIce(e) ==
  LET k == Head(net[e]).k  j == slot[e].share IN
  /\ Next1(e, "ice")
  /\ Heard(e)
  /\ early' = IF Room(e) THEN [early EXCEPT ![e] = @ \cup {k}] ELSE early
  /\ pending' = IF slot[e].state # "idle" /\ pc[e][j] = "new"
                THEN [pending EXCEPT ![e] = @ \cup {<<j, k>>}] ELSE pending
  /\ used' = IF slot[e].state # "idle" /\ pc[e][j] = "negotiated" /\ j = k
             THEN [used EXCEPT ![e] = @ \cup {k}] ELSE used
  /\ strayed' = IF Strays(e, k) THEN strayed \cup {<<e, k>>} ELSE strayed
  /\ UNCHANGED <<panel, slot, fresh, pc, accepts, said, ops, media, events, late>>

(* #flushPendingIce: a candidate of another share is refused, harmlessly.  *)
Flush(e, k) ==
  /\ pending' = [pending EXCEPT ![e] = {p \in @ : p[1] # k}]
  /\ used' = IF <<k, k>> \in pending[e] THEN [used EXCEPT ![e] = @ \cup {k}] ELSE used

(* An answer without a peer to give it to is dropped.                      *)
Applies(e, k) ==
  IF slot[e].state = "idle" THEN {} ELSE {<<e, slot[e].share, k>>}
HearAnswer(e) ==
  LET k == Head(net[e]).k IN
  /\ Next1(e, "answer")
  /\ Heard(e)
  /\ accepts' = accepts \cup Applies(e, k)
  /\ UNCHANGED <<panel, slot, fresh, pc, early, pending, used, said, strayed, ops, media, events, late>>

(* Glare: the impolite end ignores the offer, the polite one yields.       *)
BothIgnore(e) == slot[e].state = "offering"
Ignores(e) == slot[e].state = "offering" /\ e # Polite
IgnoreOffer(e) ==
  /\ Next1(e, "offer") /\ Ignores(e)
  /\ Heard(e)
  /\ UNCHANGED <<panel, slot, fresh, pc, accepts, early, pending, used, said, strayed, ops, media, events, late>>

HearOffer(e) ==
  LET k == Head(net[e]).k IN
  /\ Next1(e, "offer") /\ ~Ignores(e)
  /\ net' = Sent(e, 1, IF slot[e].state = "offering" THEN <<>> ELSE Goodbye(e))
  /\ answer' = [answer EXCEPT ![k] = "building"]
  /\ \/ /\ slot[e].state = "idle"
        /\ fresh' = [fresh EXCEPT ![e] = @ \cup {<<"answer", k>>}]
        /\ UNCHANGED <<slot, pc, media>>
     \/ /\ slot[e].state # "idle"
        /\ Release(e, {<<"answer", k>>})
  /\ UNCHANGED <<panel, accepts, early, pending, used, said, strayed, owner, start, flip, refresh,
                 adjust, events, late>>
-----------------------------------------------------------------------------
(* Answering: the rest of the offer branch, and of accept().               *)
AnswerFails(k) ==
  /\ answer[k] = "building"
  /\ Event
  /\ answer' = [answer EXCEPT ![k] = "over"]
  /\ fresh' = [fresh EXCEPT ![Other(owner[k])] = @ \ {<<"answer", k>>}]
  /\ UNCHANGED <<panel, slot, pc, signals, owner, start, flip, refresh, adjust,
                 media, late>>

AnswerReady(k) ==
  LET e == Other(owner[k]) IN
  /\ answer[k] = "building"
  /\ \/ /\ IsCurrent(e, <<"answer", k>>)
        /\ SetSlot(e, [Idle EXCEPT !.state = "receiving", !.share = k], {})
        /\ pc' = [pc EXCEPT ![e][k] = "new"]
        /\ pending' = [pending EXCEPT ![e] = @ \cup ({k} \X early[e])]
        /\ early' = [early EXCEPT ![e] = {}]
        /\ strayed' = strayed \cup ({e} \X (early[e] \ {k}))
        /\ answer' = [answer EXCEPT ![k] = "accepting"]
     \/ /\ ~IsCurrent(e, <<"answer", k>>)
        /\ pc' = [pc EXCEPT ![e][k] = "closed"]
        /\ answer' = [answer EXCEPT ![k] = "over"]
        /\ UNCHANGED <<slot, fresh, pending, early, strayed>>
  /\ UNCHANGED <<panel, net, accepts, used, said, owner, start, flip, refresh, adjust,
                 media, events, late>>

(* A failed accept() ends the share only if it is still in the slot.       *)
GivesUp(e, j, n) ==
  IF Holds(e, j) THEN net' = Sent(e, n, Goodbye(e)) /\ Release(e, {})
  ELSE UNCHANGED <<net, slot, fresh, pc, media>>

AcceptOffer(k) ==
  LET e == Other(owner[k]) IN
  /\ answer[k] = "accepting"
  /\ answer' = [answer EXCEPT ![k] = "over"]
  /\ \/ /\ pc[e][k] = "new"
        /\ pc' = [pc EXCEPT ![e][k] = "negotiated"]
        /\ Flush(e, k)
        /\ net' = Sent(e, 0, <<[t |-> "answer", k |-> k]>>)
        /\ UNCHANGED <<slot, fresh, media, events>>
     \/ /\ GivesUp(e, k, 0)
        /\ UNCHANGED <<pending, used>>
        /\ IF pc[e][k] = "new" THEN Event ELSE UNCHANGED events
  /\ UNCHANGED <<panel, accepts, early, said, strayed, owner, start, flip, refresh,
                 adjust, late>>

(* An answer fits a connection that has offered and not been answered,     *)
(* even if it was given to another offer; the browser may also refuse that *)
(* one.                                                                    *)
AcceptAnswer(e, j, k) ==
  LET fits == owner[j] = e /\ pc[e][j] = "new" IN
  /\ <<e, j, k>> \in accepts
  /\ accepts' = accepts \ {<<e, j, k>>}
  /\ \/ /\ fits
        /\ Flush(e, j)
        /\ IF Holds(e, j) /\ slot[e].state = "offering"
           THEN SetSlot(e, [slot[e] EXCEPT !.state = "sending"], {})
           ELSE UNCHANGED <<slot, fresh>>
        /\ pc' = [pc EXCEPT ![e][j] = "negotiated"]
        /\ UNCHANGED <<net, media>>
     \/ /\ ~fits \/ j # k
        /\ GivesUp(e, j, 0) /\ UNCHANGED <<pending, used>>
  /\ UNCHANGED <<panel, early, said, strayed, ops, events, late>>

(* A peer gathers and sends a candidate, which may leave ahead of the      *)
(* offer or the answer that its connection is still preparing.             *)
SendIce(e, k) ==
  /\ e \in Trickling /\ k \notin said[e]
  /\ \/ pc[e][k] \in {"new", "negotiated"}
     \/ owner[k] = e /\ start[k] = "building"
  /\ said' = [said EXCEPT ![e] = @ \cup {k}]
  /\ net' = Sent(e, 0, <<[t |-> "ice", k |-> k]>>)
  /\ UNCHANGED <<panel, slot, fresh, pc, accepts, early, pending, used, strayed, ops, media,
                 events, late>>

RemoteStream(e, k) ==
  /\ slot[e].state = "receiving" /\ slot[e].share = k
  /\ pc[e][k] = "negotiated" /\ ~slot[e].seen
  /\ SetSlot(e, [slot[e] EXCEPT !.seen = TRUE], {})
  /\ UNCHANGED <<panel, pc, signals, ops, media, events, late>>
-----------------------------------------------------------------------------
(* The camera controls.                                                    *)
(* #updateCamera: the slot it finds, if that has camera controls.          *)
UpdateCamera(e, c) ==
  IF Sharing(e) /\ slot[e].camera # "none"
  THEN SetSlot(e, [slot[e] EXCEPT !.camera = c], {})
  ELSE UNCHANGED <<slot, fresh>>

RefreshCamera(k) ==
  LET e == owner[k] IN
  /\ k \in refresh
  /\ refresh' = refresh \ {k}
  /\ IF IsCurrent(e, <<"refresh", k>>) /\ Sharing(e) /\ slot[e].share \in Cameras
     THEN SetSlot(e, [slot[e] EXCEPT !.camera = "ready"], {})
     ELSE fresh' = [fresh EXCEPT ![e] = @ \ {<<"refresh", k>>}] /\ UNCHANGED slot
  /\ UNCHANGED <<panel, pc, signals, owner, start, answer, flip, adjust, media,
                 events, late>>

FlipCamera(e) ==
  LET k == slot[e].share IN
  /\ panel[e] /\ Sharing(e) /\ slot[e].camera = "ready"
  /\ flip[k] = "none"   \* bound: one flip for each share
  /\ SetSlot(e, [slot[e] EXCEPT !.camera = "busy"], {<<"flip", k>>})
  /\ flip' = [flip EXCEPT ![k] = "capturing"]
  /\ UNCHANGED <<panel, pc, signals, owner, start, answer, refresh, adjust, media,
                 events, late>>

FlipDenied(k) ==
  /\ flip[k] = "capturing"
  /\ flip' = [flip EXCEPT ![k] = "over"]
  /\ UpdateCamera(owner[k], "ready")
  /\ UNCHANGED <<panel, pc, signals, owner, start, answer, refresh, adjust, media,
                 events, late>>

(* An overtaken flip stops the track it was given, and leaves.             *)
FlipCaptured(k) ==
  /\ flip[k] = "capturing"
  /\ \/ /\ IsCurrent(owner[k], <<"flip", k>>)
        /\ flip' = [flip EXCEPT ![k] = "swapping"]
        /\ live' = live \cup {<<k, 1>>}
     \/ /\ ~IsCurrent(owner[k], <<"flip", k>>)
        /\ flip' = [flip EXCEPT ![k] = "over"]
        /\ UNCHANGED live
  /\ fresh' = [fresh EXCEPT ![owner[k]] = @ \ {<<"flip", k>>}]
  /\ UNCHANGED <<panel, slot, pc, signals, owner, start, answer, refresh, adjust,
                 stream, watched, unsub, events, late>>

(* replaceVideoTrack(): the stream close() will stop has the new track.    *)
Swap(k) == stream' = [stream EXCEPT ![k] = {<<k, 1>>}]
FlipSwapped(k) ==
  LET e == owner[k] IN
  /\ flip[k] = "swapping"
  /\ flip' = [flip EXCEPT ![k] = "over"]
  /\ Swap(k)
  /\ live' = live \ {<<k, 0>>}
  /\ watched' = (watched \ {unsub[e]}) \cup {<<k, 1>>}
  /\ unsub' = [unsub EXCEPT ![e] = <<k, 1>>]
  /\ refresh' = refresh \cup {k}
  /\ fresh' = [fresh EXCEPT ![e] = @ \cup {<<"refresh", k>>}]
  /\ late' = IF pc[e][k] = "closed" THEN late \cup {k} ELSE late
  /\ UNCHANGED <<panel, slot, pc, signals, owner, start, answer, adjust, events>>

FlipRefused(k) ==
  /\ flip[k] = "swapping"
  /\ flip' = [flip EXCEPT ![k] = "over"]
  /\ live' = live \ {<<k, 1>>}
  /\ UpdateCamera(owner[k], "ready")
  /\ UNCHANGED <<panel, pc, signals, owner, start, answer, refresh, adjust,
                 stream, watched, unsub, events, late>>

(* What each call asks of the slot: a camera's controls, a screen share.   *)
Suits(e, call) ==
  /\ Sharing(e)
  /\ \/ call = "torch" /\ slot[e].camera # "none"
     \/ call = "preset" /\ slot[e].share \in Screens

Adjust(e, call) ==
  /\ panel[e] /\ Suits(e, call)
  /\ Event
  /\ adjust' = adjust \cup {<<e, call>>}
  /\ UNCHANGED <<panel, slot, fresh, pc, signals, owner, start, answer, flip, refresh,
                 media, late>>

(* It is published on whatever share of that kind the slot then holds,     *)
(* unless the track or the sender refused it.                              *)
Adjusted(e, call) ==
  /\ <<e, call>> \in adjust
  /\ adjust' = adjust \ {<<e, call>>}
  /\ \/ Suits(e, call) /\ SetSlot(e, slot[e], {})
     \/ UNCHANGED <<slot, fresh>>
  /\ UNCHANGED <<panel, pc, signals, owner, start, answer, flip, refresh, media,
                 events, late>>
-----------------------------------------------------------------------------
Hears(e) ==
  \/ Unheard(e) \/ HearStop(e) \/ HearIce(e) \/ HearAnswer(e)
  \/ IgnoreOffer(e) \/ HearOffer(e)

Next ==
  \/ \E e \in Ends :
       \/ Stop(e) \/ Unmount(e) \/ Fails(e) \/ Hears(e)
       \/ FlipCamera(e)
       \/ \E call \in {"torch", "preset"} : Adjust(e, call) \/ Adjusted(e, call)
       \/ \E k \in Shares : Click(e, k) \/ SendIce(e, k) \/ RemoteStream(e, k)
       \/ \E j, k \in Shares : AcceptAnswer(e, j, k)
  \/ \E k \in Shares :
       \/ Denied(k) \/ Captured(k) \/ OfferFails(k) \/ OfferReady(k)
       \/ AnswerFails(k) \/ AnswerReady(k) \/ AcceptOffer(k)
       \/ RefreshCamera(k) \/ FlipDenied(k) \/ FlipCaptured(k)
       \/ FlipSwapped(k) \/ FlipRefused(k)
  \/ \E t \in Tracks : TrackEnded(t)

Spec == Init /\ [][Next]_vars

(* Handlers run, and what they await ends.                                 *)
Fairness ==
  /\ \A e \in Ends :
       /\ WF_vars(Hears(e)) /\ WF_vars(Fails(e) /\ Cut(e))
       /\ WF_vars(\E j, k \in Shares : AcceptAnswer(e, j, k))
  /\ \A k \in Shares :
       /\ WF_vars(OfferReady(k) \/ OfferFails(k))
       /\ WF_vars(AnswerReady(k) \/ AnswerFails(k)) /\ WF_vars(AcceptOffer(k))
FairSpec == Spec /\ Fairness
-----------------------------------------------------------------------------
TypeOK ==
  /\ panel \in [Ends -> BOOLEAN] /\ slot \in [Ends -> Slots]
  /\ fresh \in [Ends -> SUBSET Op]
  /\ net \in [Ends -> Seq(Signals)]
  /\ owner \in [Shares -> Ends \cup {None}]
  /\ start \in [Shares -> {"unused", "prompt", "building", "over"}]
  /\ answer \in [Shares -> {"none", "building", "accepting", "over"}]
  /\ accepts \subseteq Ends \X Shares \X Shares
  /\ pc \in [Ends -> [Shares -> {"none", "new", "negotiated", "closed"}]]
  /\ early \in [Ends -> SUBSET Shares] /\ said \in [Ends -> SUBSET Shares]
  /\ used \in [Ends -> SUBSET Shares] /\ strayed \subseteq Ends \X Shares
  /\ pending \in [Ends -> SUBSET (Shares \X Shares)]
  /\ live \subseteq Tracks /\ watched \subseteq Tracks
  /\ stream \in [Shares -> SUBSET Tracks]
  /\ unsub \in [Ends -> Tracks \cup {None}]
  /\ flip \in [Shares -> {"none", "capturing", "swapping", "over"}]
  /\ refresh \subseteq Shares /\ adjust \subseteq Ends \X {"torch", "preset"}
  /\ late \subseteq Shares /\ events \in 0..MaxEvents

(* What captures is in the share of its device's slot, or in one still     *)
(* being negotiated: whichever way a share ends, the light goes out. Only  *)
(* the new track of a flip whose share ended during the swap is missed,    *)
(* for flipCamera looks at its ticket before it swaps and not after.       *)
Accounted(k) == Holds(owner[k], k) \/ start[k] = "building"
Missed(t) ==
  /\ t[2] = 1 /\ pc[owner[t[1]]][t[1]] = "closed"
  /\ flip[t[1]] = "swapping" \/ t[1] \in late
LightGoesOut == \A t \in live : Accounted(t[1]) \/ Missed(t)

(* Every connection that is open belongs to the share in the slot, however *)
(* often the attempt it was opened for was overtaken.                      *)
NoSpareConnection ==
  \A e \in Ends, k \in Shares : pc[e][k] \in {"new", "negotiated"} => Holds(e, k)

(* A candidate that has arrived is given to the connection it belongs to,  *)
(* though it may come before the offer or answer of that connection, or    *)
(* before there is a peer for it - if it came to an idle slot with room    *)
(* or to its own share's, and the next peer made there was its own.        *)
Arrived(e, k) ==
  /\ pc[e][k] = "negotiated" /\ k \in said[Other(e)]
  /\ [t |-> "ice", k |-> k] \notin ToSet(net[e])
CandidatesArrive ==
  \A e \in Ends, k \in Shares : Arrived(e, k) /\ <<e, k>> \notin strayed => k \in used[e]

(* However clicks, offers, answers and stops cross, when the users leave   *)
(* it be the two devices come to agree: nothing is shared, or one sends    *)
(* what the other receives - or an offer is left whose answer was          *)
(* overtaken by something the other user did.                              *)
Sends(e) ==
  /\ slot[e].state = "sending" /\ slot[Other(e)].state = "receiving"
  /\ slot[e].share = slot[Other(e)].share
Abandoned(e) == slot[e].state = "offering" /\ answer[slot[e].share] = "over"
SlotsAgree ==
  <>[] \/ \A e \in Ends : slot[e] = Idle
       \/ \E e \in Ends : Sends(e) \/ Abandoned(e) \/ ~panel[e]

(* --- what the comments say, and the code does not do ---                 *)
(* live-session.ts:174-181: of two offers that cross, a's always wins and  *)
(* b yields, so that two devices do not both go on offering.               *)
InFlight ==
  \/ \E e \in Ends : net[e] # <<>>
  \/ \E k \in Shares :
       start[k] \in {"prompt", "building"} \/ answer[k] \in {"building", "accepting"}
GlareResolves == (\A e \in Ends : slot[e].state = "offering") => InFlight

(* TransferPanel.tsx:196-199: what this device sends stops the instant     *)
(* the panel goes away.                                                    *)
OffWhenGone == \A e \in Ends : ~panel[e] => ~Sharing(e)

(* live-session.ts:424-427, media-peer.ts:404-421: a track that belongs to  *)
(* nobody is not left running with its indicator lit.                      *)
NobodysTrackStops == \A t \in live : Accounted(t[1])

(* live-session.ts:515-519: a candidate that comes ahead of its offer      *)
(* waits for the peer the offer is about to build.                         *)
EarlyIsNotStray == \A e \in Ends, k \in Shares : Arrived(e, k) => k \in used[e]

(* live-session.ts:48-49: a camera that is busy has a flip in flight.      *)
BusyMeansFlipping ==
  \A e \in Ends : slot[e].camera = "busy" =>
    flip[slot[e].share] \in {"capturing", "swapping"} \/ slot[e].share \in refresh
=============================================================================
