------------------------------ MODULE LiveProofs ------------------------------
(***************************************************************************)
(* The live-media slots of both devices, for any number of shares and of   *)
(* interruptions.                                                          *)
(*                                                                         *)
(* What an end owns is followed share by share. A share whose start() is   *)
(* not over has left no connection and no signal behind (Begun); a slot    *)
(* holds a share that is past its start (Placed). A connection that is     *)
(* not closed is then the one in its slot, because every way out of a      *)
(* slot closes it; and a stream that captures is in the hands of an        *)
(* operation that has not been overtaken, or of the slot (Lights).         *)
(* A candidate may come before the offer of its share. One that was not    *)
(* given to another share's connection waits in #earlyIce for as long as   *)
(* its own has not been made, and then it is in that.                      *)
(***************************************************************************)
EXTENDS Live, TLAPS

(* TypeOK, by the part of the system that owns the variables.              *)
SlotTypes == slot \in [Ends -> Slots] /\ fresh \in [Ends -> SUBSET Op]
PeerTypes == pc \in [Ends -> [Shares -> {"none", "new", "negotiated", "closed"}]]
NetTypes == net \in [Ends -> Seq(Signals)]
StageTypes ==
  /\ owner \in [Shares -> Ends \cup {None}]
  /\ start \in [Shares -> {"unused", "prompt", "building", "over"}]
  /\ answer \in [Shares -> {"none", "building", "accepting", "over"}]
  /\ flip \in [Shares -> {"none", "capturing", "swapping", "over"}]
IceTypes ==
  /\ accepts \subseteq Ends \X Shares \X Shares
  /\ early \in [Ends -> SUBSET Shares] /\ said \in [Ends -> SUBSET Shares]
  /\ used \in [Ends -> SUBSET Shares] /\ strayed \subseteq Ends \X Shares
  /\ pending \in [Ends -> SUBSET (Shares \X Shares)]
MediaTypes ==
  /\ live \subseteq Tracks /\ watched \subseteq Tracks
  /\ stream \in [Shares -> SUBSET Tracks] /\ unsub \in [Ends -> Tracks \cup {None}]
CallTypes ==
  /\ refresh \subseteq Shares /\ adjust \subseteq Ends \X {"torch", "preset"}
  /\ late \subseteq Shares /\ events \in 0..MaxEvents /\ panel \in [Ends -> BOOLEAN]

LEMMA TypeFact ==
  TypeOK <=> /\ SlotTypes /\ PeerTypes /\ NetTypes /\ StageTypes /\ IceTypes /\ MediaTypes
             /\ CallTypes
BY DEF TypeOK, SlotTypes, PeerTypes, NetTypes, StageTypes, IceTypes, MediaTypes, CallTypes

LEMMA OtherFact ==
  ASSUME NEW e \in Ends
  PROVE  Other(e) \in Ends /\ Other(e) # e /\ Other(Other(e)) = e
         /\ \A x \in Ends : x = e \/ x = Other(e)
BY DEF Other, Ends

(* A share that is asked for has an owner, and one that is not over has    *)
(* left nothing behind yet.                                                *)
Begun(k) ==
  /\ start[k] # "unused" => owner[k] \in Ends
  /\ start[k] \in {"unused", "prompt"} => \A t \in live : t[1] # k
  /\ start[k] # "over" =>
       /\ answer[k] = "none" /\ flip[k] = "none" /\ k \notin late /\ k \notin refresh
       /\ \A e \in Ends : pc[e][k] = "none"
  /\ \A e \in Ends : k \in said[e] /\ start[k] # "over" => start[k] = "building" /\ owner[k] = e
AllBegun == \A k \in Shares : Begun(k)

(* What a slot holds: a share that is past its start, sent by its owner    *)
(* and received by the other end, that has had a connection here.          *)
Placed(e) ==
  \/ slot[e] = Idle
  \/ /\ slot[e].state # "idle" /\ slot[e].share \in Shares /\ start[slot[e].share] = "over"
     /\ Sharing(e) => owner[slot[e].share] = e
     /\ slot[e].state = "receiving" => owner[slot[e].share] = Other(e)
     /\ pc[e][slot[e].share] # "none"
AllPlaced == \A e \in Ends : Placed(e)

LEMMA Owners ==
  ASSUME StageTypes, CallTypes, AllBegun, NEW k \in Shares,
         \/ start[k] # "unused" \/ answer[k] # "none" \/ flip[k] # "none" \/ k \in refresh
         \/ \E t \in live : t[1] = k
  PROVE  owner[k] \in Ends
BY DEF StageTypes, CallTypes, AllBegun, Begun

(* What the pieces of a handler do.                                        *)
LEMMA SeqFact ==
  ASSUME NEW S, NEW s \in Seq(S), NEW m \in S
  PROVE  /\ SubSeq(s, 0 + 1, Len(s)) = s /\ s \o <<>> = s /\ s \o <<m>> = Append(s, m)
         /\ s # <<>> => SubSeq(s, 1 + 1, Len(s)) = Tail(s)
<1>1. SubSeq(s, 0 + 1, Len(s)) = s
  OBVIOUS
<1>2. s \o <<>> = s
  OBVIOUS
<1>3. s \o <<m>> = Append(s, m)
  OBVIOUS
<1>4. s # <<>> => SubSeq(s, 1 + 1, Len(s)) = Tail(s)
  OBVIOUS
<1> QED
  BY <1>1, <1>2, <1>3, <1>4

LEMMA SentFact ==
  ASSUME NetTypes, NEW e \in Ends, NEW n \in {0, 1}, NEW m \in Signals, NEW s \in {<<>>, <<m>>},
         n = 1 => net[e] # <<>>, net' = Sent(e, n, s)
  PROVE  /\ net' \in [Ends -> Seq(Signals)]
         /\ net'[e] = IF n = 0 THEN net[e] ELSE Tail(net[e])
         /\ net'[Other(e)] = IF s = <<>> THEN net[Other(e)] ELSE Append(net[Other(e)], m)
<1> DEFINE o == Other(e)
<1>1. o \in Ends /\ o # e /\ Ends = {e, o}
  BY DEF Other, Ends
<1>2. net[e] \in Seq(Signals) /\ net[o] \in Seq(Signals) /\ DOMAIN net = Ends
  BY <1>1 DEF NetTypes
<1>3. net' = [net EXCEPT ![e] = SubSeq(net[e], n + 1, Len(net[e])), ![o] = net[o] \o s]
  BY <1>1 DEF Sent
<1>4. net'[e] = IF n = 0 THEN net[e] ELSE Tail(net[e])
  <2>1. net'[e] = SubSeq(net[e], n + 1, Len(net[e]))
    BY <1>1, <1>2, <1>3
  <2>2. CASE n = 0
    BY <1>2, <2>1, <2>2, SeqFact
  <2>3. CASE n = 1
    BY <1>2, <2>1, <2>3, SeqFact
  <2> QED
    BY <2>2, <2>3
<1>5. net'[o] = IF s = <<>> THEN net[o] ELSE Append(net[o], m)
  <2>1. net'[o] = net[o] \o s
    BY <1>1, <1>2, <1>3
  <2>2. CASE s = <<>>
    BY <1>2, <2>1, <2>2, SeqFact
  <2>3. CASE s # <<>>
    <3>1. s = <<m>>
      BY <2>3
    <3> QED
      BY <1>2, <2>1, <2>3, <3>1, SeqFact
  <2> QED
    BY <2>2, <2>3
<1>6. net' \in [Ends -> Seq(Signals)]
  <2>1. net'[e] \in Seq(Signals) /\ net'[o] \in Seq(Signals)
    <3>1. n = 1 => Tail(net[e]) \in Seq(Signals)
      BY <1>2
    <3>2. Append(net[o], m) \in Seq(Signals)
      BY <1>2
    <3> QED
      BY <1>2, <1>4, <1>5, <3>1, <3>2
  <2>2. DOMAIN net' = Ends /\ net' = [x \in Ends |-> net'[x]]
    BY <1>2, <1>3
  <2> QED
    BY <1>1, <2>1, <2>2
<1> QED
  BY <1>4, <1>5, <1>6

LEMMA SignalFact ==
  /\ [t |-> "stop"] \in Signals
  /\ \A t \in {"offer", "answer", "ice"}, k \in Shares : [t |-> t, k |-> k] \in Signals
  /\ \A m \in Signals : m.t # "stop" => m.k \in Shares /\ m = [t |-> m.t, k |-> m.k]
BY DEF Signals

LEMMA HeadFact ==
  ASSUME NetTypes, NEW e \in Ends, net[e] # <<>>
  PROVE  Head(net[e]) \in Signals
<1>1. net[e] \in Seq(Signals)
  BY DEF NetTypes
<1> QED
  BY <1>1

LEMMA Goodbyes == \A e : Goodbye(e) \in {<<>>, <<[t |-> "stop"]>>}
BY DEF Goodbye

LEMMA ReleasedType ==
  ASSUME SlotTypes, PeerTypes, MediaTypes, NEW e \in Ends
  PROVE  /\ Released(e).pc \in [Shares -> {"none", "new", "negotiated", "closed"}]
         /\ Released(e).live \subseteq live /\ Released(e).watched \subseteq watched
         /\ Released(e).unsub \in Tracks \cup {None}
BY DEF SlotTypes, PeerTypes, MediaTypes, Released

LEMMA SetSlotType ==
  ASSUME SlotTypes, NEW e \in Ends, NEW s \in Slots, NEW op \in SUBSET Op, SetSlot(e, s, op)
  PROVE  SlotTypes'
BY DEF SlotTypes, SetSlot

LEMMA SlotFact ==
  /\ Idle \in Slots
  /\ \A k \in Shares : /\ [Idle EXCEPT !.state = "offering", !.share = k] \in Slots
                       /\ [Idle EXCEPT !.state = "receiving", !.share = k] \in Slots
  /\ \A s \in Slots : /\ [s EXCEPT !.state = "sending"] \in Slots
                      /\ [s EXCEPT !.seen = TRUE] \in Slots
                      /\ \A c \in {"ready", "busy"} : [s EXCEPT !.camera = c] \in Slots
  /\ \A o \in {"start", "answer", "flip", "refresh"}, k \in Shares :
       <<o, k>> \in Op /\ {<<o, k>>} \in SUBSET Op
  /\ {} \in SUBSET Op
<1>1. Idle \in Slots
  BY DEF Idle, Slots
<1>2. \A k \in Shares : /\ [Idle EXCEPT !.state = "offering", !.share = k] \in Slots
                        /\ [Idle EXCEPT !.state = "receiving", !.share = k] \in Slots
  BY DEF Idle, Slots
<1>3. \A s \in Slots : /\ [s EXCEPT !.state = "sending"] \in Slots
                       /\ [s EXCEPT !.seen = TRUE] \in Slots
                       /\ \A c \in {"ready", "busy"} : [s EXCEPT !.camera = c] \in Slots
  BY DEF Slots
<1>4. \A o \in {"start", "answer", "flip", "refresh"}, k \in Shares :
        <<o, k>> \in Op /\ {<<o, k>>} \in SUBSET Op
  BY DEF Op
<1> QED
  BY <1>1, <1>2, <1>3, <1>4, Zenon

LEMMA ReleaseType ==
  ASSUME SlotTypes, PeerTypes, MediaTypes, NEW e \in Ends, NEW op \in SUBSET Op, Release(e, op)
  PROVE  SlotTypes' /\ PeerTypes' /\ MediaTypes'
<1>1. SlotTypes'
  BY SlotFact, SetSlotType DEF Release
<1>2. PeerTypes'
  BY ReleasedType DEF Release, PeerTypes
<1>3. MediaTypes'
  BY ReleasedType DEF Release, MediaTypes
<1> QED
  BY <1>1, <1>2, <1>3
-----------------------------------------------------------------------------
(* The steps, by what they are about.                                      *)
Leaves == \E e \in Ends : Stop(e) \/ Unmount(e) \/ Fails(e) \/ HearStop(e)
Passes == \E e \in Ends : Unheard(e) \/ HearIce(e) \/ HearAnswer(e) \/ IgnoreOffer(e)
Offered == \E e \in Ends : HearOffer(e)
Asked == \E e \in Ends, k \in Shares : Click(e, k)
Trickles == \E e \in Ends, k \in Shares : SendIce(e, k)
Drops == \E k \in Shares : Denied(k) \/ OfferFails(k)
Captures == \E k \in Shares : Captured(k)
Offers == \E k \in Shares : OfferReady(k)
Spoils == \E k \in Shares : AnswerFails(k)
Answers == \E k \in Shares : AnswerReady(k)
Agrees == \/ \E k \in Shares : AcceptOffer(k)
          \/ \E e \in Ends, j, k \in Shares : AcceptAnswer(e, j, k)
Flips == \E k \in Shares : FlipDenied(k) \/ FlipCaptured(k) \/ FlipSwapped(k) \/ FlipRefused(k)
Refreshes == \E k \in Shares : RefreshCamera(k)
Controls == \E e \in Ends :
  \/ FlipCamera(e) \/ \E k \in Shares : RemoteStream(e, k)
  \/ \E call \in {"torch", "preset"} : Adjust(e, call) \/ Adjusted(e, call)
Breaks == \E t \in Tracks : TrackEnded(t)

LEMMA NextCases ==
  [Next]_vars =>
    \/ Leaves \/ Passes \/ Offered \/ Asked \/ Trickles \/ Drops \/ Captures \/ Offers
    \/ Spoils \/ Answers \/ Agrees \/ Flips \/ Refreshes \/ Controls \/ Breaks
    \/ UNCHANGED vars
<1> SUFFICES ASSUME Next
             PROVE  \/ Leaves \/ Passes \/ Offered \/ Asked \/ Trickles \/ Drops \/ Captures
                    \/ Offers \/ Spoils \/ Answers \/ Agrees \/ Flips \/ Refreshes
                    \/ Controls \/ Breaks
  OBVIOUS
<1>1. CASE \E e \in Ends :
             \/ Stop(e) \/ Unmount(e) \/ Fails(e) \/ Hears(e)
             \/ FlipCamera(e)
             \/ \E call \in {"torch", "preset"} : Adjust(e, call) \/ Adjusted(e, call)
             \/ \E k \in Shares : Click(e, k) \/ SendIce(e, k) \/ RemoteStream(e, k)
             \/ \E j, k \in Shares : AcceptAnswer(e, j, k)
  BY <1>1 DEF Leaves, Passes, Offered, Asked, Trickles, Agrees, Controls, Hears
<1>2. CASE \E k \in Shares :
             \/ Denied(k) \/ Captured(k) \/ OfferFails(k) \/ OfferReady(k)
             \/ AnswerFails(k) \/ AnswerReady(k) \/ AcceptOffer(k)
             \/ RefreshCamera(k) \/ FlipDenied(k) \/ FlipCaptured(k)
             \/ FlipSwapped(k) \/ FlipRefused(k)
  BY <1>2 DEF Drops, Captures, Offers, Spoils, Answers, Agrees, Flips, Refreshes
<1>3. CASE \E t \in Tracks : TrackEnded(t)
  BY <1>3 DEF Breaks
<1> QED
  BY <1>1, <1>2, <1>3, Zenon DEF Next

(* Most steps leave a share's progress, or its media, alone.               *)
LEMMA Frames ==
  /\ Leaves => UNCHANGED <<accepts, early, pending, used, said, strayed, ops, late>>
  /\ Passes => UNCHANGED <<panel, slot, fresh, pc, said, ops, media, events, late>>
  /\ Asked => UNCHANGED <<panel, slot, fresh, pc, signals, answer, flip, refresh, adjust, media,
                          events, late>>
  /\ Trickles => UNCHANGED <<panel, slot, fresh, pc, accepts, early, pending, used, strayed, ops, media,
                             events, late>>
  /\ Spoils => UNCHANGED <<panel, slot, pc, signals, owner, start, flip, refresh, adjust, media, late>>
  /\ Refreshes => UNCHANGED <<panel, pc, signals, owner, start, answer, flip, adjust, media, events, late>>
  /\ Controls => UNCHANGED <<panel, pc, signals, owner, start, answer, refresh, media, late>>
  /\ Breaks => UNCHANGED <<panel, accepts, early, pending, used, said, strayed, ops, late>>
<1>1. Leaves => UNCHANGED <<accepts, early, pending, used, said, strayed, ops, late>>
  BY Zenon DEF Leaves, Stop, Unmount, Fails, HearStop
<1>2. Passes => UNCHANGED <<panel, slot, fresh, pc, said, ops, media, events, late>>
  BY Zenon DEF Passes, Unheard, HearIce, HearAnswer, IgnoreOffer
<1>3. Asked => UNCHANGED <<panel, slot, fresh, pc, signals, answer, flip, refresh, adjust, media,
                           events, late>>
  BY Zenon DEF Asked, Click
<1>4. Trickles => UNCHANGED <<panel, slot, fresh, pc, accepts, early, pending, used, strayed, ops, media,
                              events, late>>
  BY Zenon DEF Trickles, SendIce
<1>5. Spoils => UNCHANGED <<panel, slot, pc, signals, owner, start, flip, refresh, adjust, media, late>>
  BY Zenon DEF Spoils, AnswerFails
<1>6. Refreshes => UNCHANGED <<panel, pc, signals, owner, start, answer, flip, adjust, media, events, late>>
  BY Zenon DEF Refreshes, RefreshCamera
<1>7. Controls => UNCHANGED <<panel, pc, signals, owner, start, answer, refresh, media, late>>
  BY Zenon DEF Controls, FlipCamera, RemoteStream, Adjust, Adjusted, ops
<1>8. Breaks => UNCHANGED <<panel, accepts, early, pending, used, said, strayed, ops, late>>
  BY Zenon DEF Breaks, TrackEnded
<1> QED
  BY <1>1, <1>2, <1>3, <1>4, <1>5, <1>6, <1>7, <1>8
-----------------------------------------------------------------------------
LEMMA StageStep == TypeOK /\ [Next]_vars => StageTypes'
<1> SUFFICES ASSUME TypeOK, [Next]_vars PROVE StageTypes'
  OBVIOUS
<1>0. StageTypes
  BY TypeFact
<1> USE <1>0 DEF StageTypes
<1>1. CASE Asked
  BY <1>1 DEF Asked, Click
<1>2. CASE Drops
  BY <1>2 DEF Drops, Denied, OfferFails
<1>3. CASE Captures
  BY <1>3 DEF Captures, Captured
<1>4. CASE Offers
  BY <1>4 DEF Offers, OfferReady
<1>5. CASE Offered
  BY <1>5 DEF Offered, HearOffer
<1>6. CASE Spoils \/ Answers
  BY <1>6 DEF Spoils, Answers, AnswerFails, AnswerReady
<1>7. CASE Agrees
  BY <1>7 DEF Agrees, AcceptOffer, AcceptAnswer, ops
<1>8. CASE Flips
  BY <1>8 DEF Flips, FlipDenied, FlipCaptured, FlipSwapped, FlipRefused
<1>9. CASE Controls
  BY <1>9 DEF Controls, FlipCamera, RemoteStream, Adjust, Adjusted, ops
<1>10. CASE UNCHANGED <<owner, start, answer, flip>>
  BY <1>10
<1>11. Leaves \/ Passes \/ Trickles \/ Refreshes \/ Breaks \/ UNCHANGED vars
       => UNCHANGED <<owner, start, answer, flip>>
  BY Frames, Zenon DEF ops, vars
<1> HIDE <1>0 DEF StageTypes
<1> QED
  BY <1>1, <1>2, <1>3, <1>4, <1>5, <1>6, <1>7, <1>8, <1>9, <1>10, <1>11, NextCases

LEMMA CallStep == TypeOK /\ AllBegun /\ [Next]_vars => CallTypes'
<1> SUFFICES ASSUME TypeOK, AllBegun, [Next]_vars PROVE CallTypes'
  OBVIOUS
<1>0. CallTypes /\ StageTypes
  BY TypeFact
<1>1. panel' \in [Ends -> BOOLEAN]
  <2>1. CASE \E e \in Ends : Unmount(e)
    BY <1>0, <2>1 DEF CallTypes, Unmount
  <2>2. CASE UNCHANGED panel
    BY <1>0, <2>2 DEF CallTypes
  <2>3. Leaves => (\E e \in Ends : Unmount(e)) \/ UNCHANGED panel
    BY Zenon DEF Leaves, Stop, Fails, HearStop
  <2>4. Offered \/ Drops \/ Captures \/ Offers \/ Answers => UNCHANGED panel
    BY Zenon DEF Offered, HearOffer, Drops, Denied, OfferFails, Captures, Captured,
       Offers, OfferReady, Answers, AnswerReady
  <2>5. Agrees \/ Flips => UNCHANGED panel
    BY Zenon DEF Agrees, AcceptOffer, AcceptAnswer, Flips, FlipDenied, FlipCaptured,
       FlipSwapped, FlipRefused
  <2> QED
    BY <2>1, <2>2, <2>3, <2>4, <2>5, NextCases, Frames DEF vars
<1>2. /\ refresh' \subseteq Shares /\ late' \subseteq Shares
      /\ adjust' \subseteq Ends \X {"torch", "preset"}
  <2> USE <1>0 DEF CallTypes
  <2>1. CASE UNCHANGED <<refresh, late, adjust>>
    BY <2>1
  <2>2. CASE Offers
    <3>1. PICK k \in Shares : OfferReady(k)
      BY <2>2 DEF Offers
    <3>2. start[k] = "building" /\ UNCHANGED late
      BY <3>1, Zenon DEF OfferReady
    <3>3. owner[k] \in Ends
      BY <1>0, <3>2, Owners
    <3>4. /\ refresh' \in {refresh, refresh \cup {k}}
          /\ adjust' \in {adjust, adjust \cup {<<owner[k], "preset">>}}
      BY <3>1 DEF OfferReady
    <3> QED
      BY <3>2, <3>3, <3>4
  <2>3. CASE Flips
    BY <2>3 DEF Flips, FlipDenied, FlipCaptured, FlipSwapped, FlipRefused
  <2>4. CASE Refreshes
    BY <2>4 DEF Refreshes, RefreshCamera
  <2>5. CASE Controls
    BY <2>5 DEF Controls, FlipCamera, RemoteStream, Adjust, Adjusted, ops
  <2>6. Offered \/ Drops \/ Captures \/ Answers \/ Agrees => UNCHANGED <<refresh, late, adjust>>
    BY Zenon DEF Offered, HearOffer, Drops, Denied, OfferFails, Captures, Captured, Answers,
       AnswerReady, Agrees, AcceptOffer, AcceptAnswer, ops
  <2>7. Leaves \/ Passes \/ Asked \/ Trickles \/ Spoils \/ Breaks \/ UNCHANGED vars
        => UNCHANGED <<refresh, late, adjust>>
    BY Frames, Zenon DEF ops, vars
  <2> HIDE <1>0 DEF CallTypes
  <2> QED
    BY <2>1, <2>2, <2>3, <2>4, <2>5, <2>6, <2>7, NextCases
<1>3. events' \in 0..MaxEvents
  <2>1. CASE Event
    BY <1>0, <2>1, LiveAssumption DEF CallTypes, Event
  <2>2. CASE UNCHANGED events
    BY <1>0, <2>2 DEF CallTypes
  <2>3. Leaves \/ Breaks \/ Spoils \/ Agrees \/ Drops => Event \/ UNCHANGED events
    <3>1. Leaves => Event \/ UNCHANGED events
      BY Zenon DEF Leaves, Stop, Unmount, Fails, HearStop
    <3>2. Breaks \/ Spoils => Event \/ UNCHANGED events
      BY Zenon DEF Breaks, TrackEnded, Spoils, AnswerFails
    <3>3. Agrees => Event \/ UNCHANGED events
      BY Zenon DEF Agrees, AcceptOffer, AcceptAnswer
    <3>4. Drops => Event \/ UNCHANGED events
      BY Zenon DEF Drops, Denied, OfferFails
    <3> QED
      BY <3>1, <3>2, <3>3, <3>4
  <2>4. Offered \/ Captures \/ Offers \/ Answers \/ Flips => UNCHANGED events
    BY Zenon DEF Offered, HearOffer, Captures, Captured, Offers, OfferReady, Answers,
       AnswerReady, Flips, FlipDenied, FlipCaptured, FlipSwapped, FlipRefused
  <2>5. Controls => Event \/ UNCHANGED events
    BY Zenon DEF Controls, FlipCamera, RemoteStream, Adjust, Adjusted
  <2> QED
    BY <2>1, <2>2, <2>3, <2>4, <2>5, NextCases, Frames, Zenon DEF vars
<1> QED
  BY <1>1, <1>2, <1>3 DEF CallTypes

LEMMA SlotStep == TypeOK /\ AllBegun /\ AllPlaced /\ [Next]_vars => SlotTypes'
<1> SUFFICES ASSUME TypeOK, AllBegun, AllPlaced, [Next]_vars PROVE SlotTypes'
  OBVIOUS
<1>0. SlotTypes /\ NetTypes /\ StageTypes /\ CallTypes
  BY TypeFact
<1>1. ASSUME NEW e \in Ends, NEW s \in Slots, NEW op \in SUBSET Op, SetSlot(e, s, op)
      PROVE  SlotTypes'
  BY <1>0, <1>1, SetSlotType
<1>2. ASSUME NEW e \in Ends, NEW op \in SUBSET Op, Release(e, op) PROVE SlotTypes'
  BY <1>1, <1>2, SlotFact DEF Release
<1>3. CASE UNCHANGED <<slot, fresh>>
  BY <1>0, <1>3 DEF SlotTypes
<1>4. CASE UNCHANGED slot /\ \E e \in Ends : \E op \in SUBSET Op : fresh' = [fresh EXCEPT ![e] = op]
  BY <1>0, <1>4 DEF SlotTypes
<1>5. \A e \in Ends : slot[e] \in Slots /\ fresh[e] \in SUBSET Op
  BY <1>0 DEF SlotTypes
<1>6. Leaves => SlotTypes'
  BY <1>2 DEF Leaves, Stop, Unmount, Fails, HearStop
<1>7. CASE Offered
  <2>1. PICK e \in Ends : HearOffer(e)
    BY <1>7 DEF Offered
  <2>2. <<"answer", Head(net[e]).k>> \in Op
    <3>1. Head(net[e]) \in Signals /\ Head(net[e]).t = "offer"
      BY <1>0, <2>1, HeadFact DEF HearOffer, Next1
    <3> QED
      BY <3>1, SignalFact, SlotFact
  <2> QED
    BY <1>2, <1>4, <1>5, <2>1, <2>2 DEF HearOffer
<1>8. CASE Drops
  <2>1. PICK k \in Shares : Denied(k) \/ OfferFails(k)
    BY <1>8 DEF Drops
  <2>2. Denied(k) => UNCHANGED <<slot, fresh>>
    BY Zenon DEF Denied
  <2>3. OfferFails(k) => /\ UNCHANGED slot /\ owner[k] \in Ends
                         /\ fresh' = [fresh EXCEPT ![owner[k]] = fresh[owner[k]] \ {<<"start", k>>}]
    BY <1>0, Owners DEF OfferFails
  <2> QED
    BY <1>3, <1>4, <1>5, <2>1, <2>2, <2>3
<1>9. CASE Captures
  <2>1. PICK k \in Shares : Captured(k)
    BY <1>9 DEF Captures
  <2>2. owner[k] \in Ends /\ SetSlot(owner[k], Idle, {<<"start", k>>})
    BY <1>0, <2>1, Owners DEF Captured
  <2>3. {<<"start", k>>} \in SUBSET Op
    BY SlotFact
  <2> QED
    BY <1>1, <2>2, <2>3, SlotFact, Zenon
<1>10. CASE Offers
  <2>1. PICK k \in Shares : OfferReady(k)
    BY <1>10 DEF Offers
  <2>2. \/ UNCHANGED <<slot, fresh>>
        \/ /\ owner[k] \in Ends
           /\ SetSlot(owner[k], [Idle EXCEPT !.state = "offering", !.share = k],
                      IF k \in Cameras THEN {<<"refresh", k>>} ELSE {})
    BY <1>0, <2>1, Owners DEF OfferReady
  <2> DEFINE op == IF k \in Cameras THEN {<<"refresh", k>>} ELSE {}
  <2>3. op \in SUBSET Op /\ [Idle EXCEPT !.state = "offering", !.share = k] \in Slots
    BY SlotFact
  <2> QED
    BY <1>1, <1>3, <2>2, <2>3
<1>11. CASE Spoils
  <2>1. PICK k \in Shares : AnswerFails(k)
    BY <1>11 DEF Spoils
  <2>2. owner[k] \in Ends
    BY <1>0, <2>1, Owners DEF AnswerFails
  <2>3. /\ UNCHANGED slot
        /\ fresh' = [fresh EXCEPT ![Other(owner[k])] = fresh[Other(owner[k])] \ {<<"answer", k>>}]
    BY <2>1 DEF AnswerFails
  <2> QED
    BY <1>4, <1>5, <2>2, <2>3, OtherFact
<1>12. CASE Answers
  <2>1. PICK k \in Shares : AnswerReady(k)
    BY <1>12 DEF Answers
  <2>2. owner[k] \in Ends
    BY <1>0, <2>1, Owners DEF AnswerReady
  <2>3. \/ UNCHANGED <<slot, fresh>>
        \/ SetSlot(Other(owner[k]), [Idle EXCEPT !.state = "receiving", !.share = k], {})
    BY <2>1 DEF AnswerReady
  <2>4. Other(owner[k]) \in Ends /\ [Idle EXCEPT !.state = "receiving", !.share = k] \in Slots
    BY <2>2, OtherFact, SlotFact
  <2> QED
    BY <1>1, <1>3, <2>3, <2>4, SlotFact, Zenon
<1>13. CASE Agrees
  <2>1. ASSUME NEW e \in Ends, NEW j, NEW n, GivesUp(e, j, n) PROVE SlotTypes'
    BY <1>2, <1>3, <2>1 DEF GivesUp
  <2>2. ASSUME NEW k \in Shares, AcceptOffer(k) PROVE SlotTypes'
    <3>1. Other(owner[k]) \in Ends
      BY <1>0, <2>2, Owners, OtherFact DEF AcceptOffer
    <3>2. UNCHANGED <<slot, fresh>> \/ GivesUp(Other(owner[k]), k, 0)
      BY <2>2, Zenon DEF AcceptOffer
    <3> QED
      BY <1>3, <2>1, <3>1, <3>2
  <2>3. ASSUME NEW e \in Ends, NEW j \in Shares, NEW k \in Shares, AcceptAnswer(e, j, k)
        PROVE  SlotTypes'
    <3>1. \/ UNCHANGED <<slot, fresh>> \/ GivesUp(e, j, 0)
          \/ SetSlot(e, [slot[e] EXCEPT !.state = "sending"], {})
      BY <2>3, Zenon DEF AcceptAnswer
    <3>2. [slot[e] EXCEPT !.state = "sending"] \in Slots
      BY <1>5, SlotFact
    <3> QED
      BY <1>1, <1>3, <2>1, <3>1, <3>2, SlotFact, Zenon
  <2> QED
    BY <1>13, <2>2, <2>3 DEF Agrees
<1>14. ASSUME NEW e \in Ends, NEW c \in {"ready", "busy"}, UpdateCamera(e, c) PROVE SlotTypes'
  <2>1. UNCHANGED <<slot, fresh>> \/ SetSlot(e, [slot[e] EXCEPT !.camera = c], {})
    BY <1>14, Zenon DEF UpdateCamera
  <2>2. [slot[e] EXCEPT !.camera = c] \in Slots
    BY <1>5, SlotFact
  <2> QED
    BY <1>1, <1>3, <2>1, <2>2, SlotFact, Zenon
<1>15. CASE Flips
  <2>1. PICK k \in Shares : FlipDenied(k) \/ FlipCaptured(k) \/ FlipSwapped(k) \/ FlipRefused(k)
    BY <1>15 DEF Flips
  <2>2. owner[k] \in Ends
    BY <1>0, <2>1, Owners DEF FlipDenied, FlipCaptured, FlipSwapped, FlipRefused
  <2>3. FlipDenied(k) \/ FlipRefused(k) => UpdateCamera(owner[k], "ready")
    BY Zenon DEF FlipDenied, FlipRefused
  <2>4. FlipCaptured(k) => /\ UNCHANGED slot
                           /\ fresh' = [fresh EXCEPT ![owner[k]] = fresh[owner[k]] \ {<<"flip", k>>}]
    BY DEF FlipCaptured
  <2>5. FlipSwapped(k) => /\ UNCHANGED slot
                          /\ fresh' = [fresh EXCEPT ![owner[k]] = fresh[owner[k]] \cup {<<"refresh", k>>}]
    BY DEF FlipSwapped
  <2>6. fresh[owner[k]] \cup {<<"refresh", k>>} \in SUBSET Op /\ fresh[owner[k]] \ {<<"flip", k>>} \in SUBSET Op
    BY <1>5, <2>2, SlotFact
  <2> QED
    BY <1>4, <1>14, <2>1, <2>2, <2>3, <2>4, <2>5, <2>6
<1>16. CASE Refreshes
  <2>1. PICK k \in Shares : RefreshCamera(k)
    BY <1>16 DEF Refreshes
  <2>2. owner[k] \in Ends
    BY <1>0, <2>1, Owners DEF RefreshCamera
  <2>3. \/ SetSlot(owner[k], [slot[owner[k]] EXCEPT !.camera = "ready"], {})
        \/ /\ UNCHANGED slot
           /\ fresh' = [fresh EXCEPT ![owner[k]] = fresh[owner[k]] \ {<<"refresh", k>>}]
    BY <2>1 DEF RefreshCamera
  <2>4. /\ [slot[owner[k]] EXCEPT !.camera = "ready"] \in Slots
        /\ fresh[owner[k]] \ {<<"refresh", k>>} \in SUBSET Op
    BY <1>5, <2>2, SlotFact
  <2> QED
    BY <1>1, <1>4, <2>2, <2>3, <2>4, SlotFact, Zenon
<1>17. CASE Controls
  <2>1. PICK e \in Ends :
          \/ FlipCamera(e) \/ \E k \in Shares : RemoteStream(e, k)
          \/ \E call \in {"torch", "preset"} : Adjust(e, call) \/ Adjusted(e, call)
    BY <1>17 DEF Controls
  <2>2. CASE FlipCamera(e)
    <3>1. SetSlot(e, [slot[e] EXCEPT !.camera = "busy"], {<<"flip", slot[e].share>>})
          /\ Sharing(e) /\ slot[e].camera = "ready" /\ flip[slot[e].share] = "none"
      BY <2>2, Zenon DEF FlipCamera
    <3>2. slot[e].share \in Shares
      BY <3>1 DEF AllPlaced, Placed, Sharing, Idle
    <3>3. {<<"flip", slot[e].share>>} \in SUBSET Op /\ [slot[e] EXCEPT !.camera = "busy"] \in Slots
      BY <1>5, <3>2, SlotFact
    <3> QED
      BY <1>1, <3>1, <3>3
  <2>3. CASE \E k \in Shares : RemoteStream(e, k)
    <3>1. SetSlot(e, [slot[e] EXCEPT !.seen = TRUE], {})
      BY <2>3, Zenon DEF RemoteStream
    <3>2. [slot[e] EXCEPT !.seen = TRUE] \in Slots
      BY <1>5, SlotFact
    <3> QED
      BY <1>1, <3>1, <3>2, SlotFact, Zenon
  <2>4. CASE \E call \in {"torch", "preset"} : Adjust(e, call) \/ Adjusted(e, call)
    <3>1. UNCHANGED <<slot, fresh>> \/ SetSlot(e, slot[e], {})
      BY <2>4, Zenon DEF Adjust, Adjusted
    <3> QED
      BY <1>1, <1>3, <1>5, <3>1
  <2> QED
    BY <2>1, <2>2, <2>3, <2>4
<1>18. CASE Breaks
  <2>1. PICK t \in Tracks : TrackEnded(t)
    BY <1>18 DEF Breaks
  <2>2. SetSlot(owner[t[1]], Idle, {}) \/ UNCHANGED <<slot, fresh>>
    BY <2>1, Zenon DEF TrackEnded
  <2>3. CASE SetSlot(owner[t[1]], Idle, {})
    <3>1. slot' = [slot EXCEPT ![owner[t[1]]] = Idle] /\ fresh' = [fresh EXCEPT ![owner[t[1]]] = {}]
      BY <2>3 DEF SetSlot
    <3> QED
      BY <1>0, <3>1, SlotFact DEF SlotTypes
  <2> QED
    BY <1>3, <2>2, <2>3
<1>19. Passes \/ Asked \/ Trickles \/ UNCHANGED vars => UNCHANGED <<slot, fresh>>
  BY Frames, Zenon DEF vars
<1> QED
  BY <1>3, <1>6, <1>7, <1>8, <1>9, <1>10, <1>11, <1>12, <1>13, <1>15, <1>16, <1>17, <1>18, <1>19,
     NextCases

LEMMA PeerStep == TypeOK /\ [Next]_vars => PeerTypes'
<1> SUFFICES ASSUME TypeOK, [Next]_vars PROVE PeerTypes'
  OBVIOUS
<1>0. PeerTypes /\ SlotTypes /\ MediaTypes
  BY TypeFact
<1>1. CASE \E e \in Ends : pc' = [pc EXCEPT ![e] = Released(e).pc]
  <2>1. PICK e \in Ends : pc' = [pc EXCEPT ![e] = Released(e).pc]
    BY <1>1
  <2>2. Released(e).pc \in [Shares -> {"none", "new", "negotiated", "closed"}]
    BY <1>0, ReleasedType
  <2> QED
    BY <1>0, <2>1, <2>2 DEF PeerTypes
<1>2. CASE \E e \in Ends, k \in Shares, v \in {"new", "negotiated", "closed"} : pc' = [pc EXCEPT ![e][k] = v]
  BY <1>0, <1>2 DEF PeerTypes
<1>3. CASE UNCHANGED pc
  BY <1>0, <1>3 DEF PeerTypes
<1>4. ASSUME NEW e, pc' = [pc EXCEPT ![e] = Released(e).pc], e \notin Ends PROVE UNCHANGED pc
  BY <1>0, <1>4 DEF PeerTypes
<1>5. ASSUME NEW e, NEW k \in Shares, NEW v, pc' = [pc EXCEPT ![e][k] = v], e \notin Ends PROVE UNCHANGED pc
  BY <1>0, <1>5 DEF PeerTypes
<1>6. Leaves => \E e \in Ends : pc' = [pc EXCEPT ![e] = Released(e).pc]
  BY Zenon DEF Leaves, Stop, Unmount, Fails, HearStop, Release
<1>7. Offered => UNCHANGED pc \/ \E e \in Ends : pc' = [pc EXCEPT ![e] = Released(e).pc]
  BY Zenon DEF Offered, HearOffer, Release
<1>8. Drops \/ Flips => UNCHANGED pc
  BY Zenon DEF Drops, Denied, OfferFails, Flips, FlipDenied, FlipCaptured, FlipSwapped, FlipRefused
<1>9. Captures => \E e : pc' = [pc EXCEPT ![e] = Released(e).pc]
  BY Zenon DEF Captures, Captured
<1>10. Offers \/ Answers => \E e : \E k \in Shares, v \in {"new", "negotiated", "closed"} : pc' = [pc EXCEPT ![e][k] = v]
  BY Zenon DEF Offers, OfferReady, Answers, AnswerReady
<1>11. Agrees => \/ UNCHANGED pc \/ \E e : pc' = [pc EXCEPT ![e] = Released(e).pc]
                 \/ \E e : \E k \in Shares, v \in {"new", "negotiated", "closed"} : pc' = [pc EXCEPT ![e][k] = v]
  BY Zenon DEF Agrees, AcceptOffer, AcceptAnswer, GivesUp, Release
<1>12. Breaks => UNCHANGED pc \/ \E e : pc' = [pc EXCEPT ![e] = Released(e).pc]
  BY Zenon DEF Breaks, TrackEnded
<1>13. Passes \/ Asked \/ Trickles \/ Spoils \/ Refreshes \/ Controls \/ UNCHANGED vars => UNCHANGED pc
  BY Frames, Zenon DEF vars
<1> QED
  BY <1>1, <1>2, <1>3, <1>4, <1>5, <1>6, <1>7, <1>8, <1>9, <1>10, <1>11, <1>12, <1>13, NextCases

LEMMA IceStep == TypeOK /\ AllBegun /\ AllPlaced /\ [Next]_vars => IceTypes'
<1> SUFFICES ASSUME TypeOK, AllBegun, AllPlaced, [Next]_vars PROVE IceTypes'
  OBVIOUS
<1>0. IceTypes /\ NetTypes /\ SlotTypes /\ StageTypes /\ CallTypes
  BY TypeFact
<1>1. CASE UNCHANGED <<accepts, early, pending, used, said, strayed>>
  BY <1>0, <1>1 DEF IceTypes
<1>2. CASE Passes
  <2>1. PICK e \in Ends : Unheard(e) \/ HearIce(e) \/ HearAnswer(e) \/ IgnoreOffer(e)
    BY <1>2 DEF Passes
  <2>2. ASSUME slot[e].state # "idle" PROVE slot[e].share \in Shares
    BY <2>2 DEF AllPlaced, Placed, Idle
  <2>3. CASE HearIce(e)
    <3>1. Head(net[e]).k \in Shares
      BY <1>0, <2>3, HeadFact, SignalFact DEF HearIce, Next1
    <3> QED
      BY <1>0, <2>2, <2>3, <3>1 DEF HearIce, IceTypes
  <2>4. CASE HearAnswer(e)
    <3>1. Head(net[e]).k \in Shares
      BY <1>0, <2>4, HeadFact, SignalFact DEF HearAnswer, Next1
    <3> QED
      BY <1>0, <2>2, <2>4, <3>1 DEF HearAnswer, Applies, IceTypes
  <2>5. CASE Unheard(e) \/ IgnoreOffer(e)
    BY <1>1, <2>5, Zenon DEF Unheard, IgnoreOffer
  <2> QED
    BY <2>1, <2>3, <2>4, <2>5
<1>3. CASE Trickles
  BY <1>0, <1>3 DEF Trickles, SendIce, IceTypes
<1>4. CASE Answers
  <2>1. PICK k \in Shares : AnswerReady(k)
    BY <1>4 DEF Answers
  <2>2. UNCHANGED <<accepts, used, said>>
    BY <2>1, Zenon DEF AnswerReady
  <2> DEFINE e == Other(owner[k])
  <2>3. e \in Ends
    BY <1>0, <2>1, Owners, OtherFact DEF AnswerReady
  <2>4. \/ UNCHANGED <<pending, early, strayed>>
        \/ /\ pending' = [pending EXCEPT ![e] = pending[e] \cup ({k} \X early[e])]
           /\ early' = [early EXCEPT ![e] = {}]
           /\ strayed' = strayed \cup ({e} \X (early[e] \ {k}))
    BY <2>1 DEF AnswerReady
  <2> HIDE DEF e
  <2> QED
    BY <1>0, <2>2, <2>3, <2>4 DEF IceTypes
<1>5. ASSUME NEW e, NEW k \in Shares, Flush(e, k)
      PROVE  /\ pending' \in [Ends -> SUBSET (Shares \X Shares)] /\ used' \in [Ends -> SUBSET Shares]
  BY <1>0, <1>5 DEF IceTypes, Flush
<1>6. CASE Agrees
  <2>1. ASSUME NEW k \in Shares, AcceptOffer(k) PROVE IceTypes'
    <3>1. UNCHANGED <<pending, used>> \/ \E e : Flush(e, k)
      BY <2>1, Zenon DEF AcceptOffer
    <3>2. UNCHANGED <<accepts, early, said, strayed>>
      BY <2>1, Zenon DEF AcceptOffer
    <3> QED
      BY <1>0, <1>5, <3>1, <3>2 DEF IceTypes
  <2>2. ASSUME NEW e \in Ends, NEW j \in Shares, NEW k \in Shares, AcceptAnswer(e, j, k)
        PROVE  IceTypes'
    <3>1. UNCHANGED <<pending, used>> \/ Flush(e, j)
      BY <2>2, Zenon DEF AcceptAnswer
    <3>2. UNCHANGED <<early, said, strayed>> /\ accepts' = accepts \ {<<e, j, k>>}
      BY <2>2, Zenon DEF AcceptAnswer
    <3> QED
      BY <1>0, <1>5, <3>1, <3>2 DEF IceTypes
  <2> QED
    BY <1>6, <2>1, <2>2 DEF Agrees
<1>7. Offered \/ Drops \/ Captures \/ Offers \/ Flips
      => UNCHANGED <<accepts, early, pending, used, said, strayed>>
  BY Zenon DEF Offered, HearOffer, Drops, Denied, OfferFails, Captures, Captured, Offers,
     OfferReady, Flips, FlipDenied, FlipCaptured, FlipSwapped, FlipRefused, signals
<1>8. Leaves \/ Asked \/ Spoils \/ Refreshes \/ Controls \/ Breaks \/ UNCHANGED vars
      => UNCHANGED <<accepts, early, pending, used, said, strayed>>
  BY Frames, Zenon DEF signals, vars
<1> QED
  BY <1>1, <1>2, <1>3, <1>4, <1>6, <1>7, <1>8, NextCases

LEMMA MediaStep == TypeOK /\ [Next]_vars => MediaTypes'
<1> SUFFICES ASSUME TypeOK, [Next]_vars PROVE MediaTypes'
  OBVIOUS
<1>0. MediaTypes /\ SlotTypes /\ PeerTypes
  BY TypeFact
<1>1. \A k \in Shares, i \in {0, 1} : <<k, i>> \in Tracks
  BY DEF Tracks
<1>2. CASE UNCHANGED media
  BY <1>0, <1>2 DEF MediaTypes, media
<1>3. ASSUME NEW e \in Ends, NEW op, Release(e, op) PROVE MediaTypes'
  BY <1>0, <1>3, ReleasedType DEF Release, MediaTypes
<1>4. \A e : /\ Released(e).live \subseteq live /\ Released(e).watched \subseteq watched
             /\ Released(e).unsub \in {unsub[e], None}
  BY DEF Released
<1>5. Leaves => MediaTypes'
  BY <1>3 DEF Leaves, Stop, Unmount, Fails, HearStop
<1>6. Offered => MediaTypes'
  BY <1>2, <1>3 DEF Offered, HearOffer
<1>7. Drops => MediaTypes'
  <2>1. CASE Drops
    <3>1. UNCHANGED <<stream, unsub>> /\ live' \subseteq live /\ watched' \subseteq watched
      BY <2>1 DEF Drops, Denied, OfferFails, media
    <3> QED
      BY <1>0, <3>1 DEF MediaTypes
  <2> QED
    BY <2>1
<1>8. CASE Captures
  <2>1. PICK k \in Shares : Captured(k)
    BY <1>8 DEF Captures
  <2>2. /\ live' \subseteq live \cup {<<k, 0>>} /\ watched' \subseteq watched \cup {<<k, 0>>}
        /\ stream' = [stream EXCEPT ![k] = {<<k, 0>>}]
        /\ unsub' = [unsub EXCEPT ![owner[k]] = Released(owner[k]).unsub]
    BY <1>4, <2>1 DEF Captured
  <2> QED
    BY <1>0, <1>1, <1>4, <2>2 DEF MediaTypes
<1>9. CASE Offers
  <2>1. PICK k \in Shares : OfferReady(k)
    BY <1>9 DEF Offers
  <2>2. /\ live' \subseteq live /\ watched' \subseteq watched /\ UNCHANGED stream
        /\ unsub' = unsub \/ unsub' = [unsub EXCEPT ![owner[k]] = <<k, 0>>]
    BY <2>1 DEF OfferReady
  <2> QED
    BY <1>0, <1>1, <2>2 DEF MediaTypes
<1>10. Answers => UNCHANGED media
  BY Zenon DEF Answers, AnswerReady
<1>11. CASE Agrees
  <2>1. ASSUME NEW e, NEW j, NEW n, GivesUp(e, j, n) PROVE MediaTypes'
    <3>1. UNCHANGED media \/ Release(e, {})
      BY <2>1, Zenon DEF GivesUp
    <3>2. CASE Release(e, {})
      <4>1. UNCHANGED stream /\ live' = Released(e).live /\ watched' = Released(e).watched
            /\ unsub' = [unsub EXCEPT ![e] = Released(e).unsub]
        BY <3>2 DEF Release
      <4> QED
        BY <1>0, <1>4, <4>1 DEF MediaTypes
    <3> QED
      BY <1>2, <3>1, <3>2
  <2>2. Agrees => UNCHANGED media \/ \E e, j, n : GivesUp(e, j, n)
    BY Zenon DEF Agrees, AcceptOffer, AcceptAnswer
  <2> QED
    BY <1>2, <1>11, <2>1, <2>2
<1>12. CASE Flips
  <2>1. PICK k \in Shares : FlipDenied(k) \/ FlipCaptured(k) \/ FlipSwapped(k) \/ FlipRefused(k)
    BY <1>12 DEF Flips
  <2>2. CASE FlipDenied(k)
    BY <1>2, <2>2, Zenon DEF FlipDenied
  <2>3. CASE FlipCaptured(k) \/ FlipRefused(k)
    <3>1. live' \subseteq live \cup {<<k, 1>>} /\ UNCHANGED <<stream, watched, unsub>>
      BY <2>3 DEF FlipCaptured, FlipRefused
    <3> QED
      BY <1>0, <1>1, <3>1 DEF MediaTypes
  <2>4. CASE FlipSwapped(k)
    <3>1. /\ live' \subseteq live /\ watched' \subseteq watched \cup {<<k, 1>>}
          /\ stream' = [stream EXCEPT ![k] = {<<k, 1>>}]
          /\ unsub' = [unsub EXCEPT ![owner[k]] = <<k, 1>>]
      BY <2>4 DEF FlipSwapped, Swap
    <3> QED
      BY <1>0, <1>1, <3>1 DEF MediaTypes
  <2> QED
    BY <2>1, <2>2, <2>3, <2>4
<1>13. CASE Breaks
  <2>1. PICK t \in Tracks : TrackEnded(t)
    BY <1>13 DEF Breaks
  <2>2. /\ live' \subseteq live /\ watched' \subseteq watched /\ UNCHANGED stream
        /\ \/ unsub' = unsub
           \/ unsub' = [unsub EXCEPT ![owner[t[1]]] = Released(owner[t[1]]).unsub]
    BY <1>4, <2>1 DEF TrackEnded
  <2> QED
    BY <1>0, <1>4, <2>2 DEF MediaTypes
<1>14. Passes \/ Asked \/ Trickles \/ Spoils \/ Refreshes \/ Controls \/ UNCHANGED vars
       => UNCHANGED media
  BY Frames, Zenon DEF vars
<1> QED
  BY <1>2, <1>5, <1>6, <1>7, <1>8, <1>9, <1>10, <1>11, <1>12, <1>13, <1>14, NextCases
-----------------------------------------------------------------------------
(* How the signals on their way to an end change in a step.                *)
Said(x, m) ==
  /\ m.t = "offer" => start[m.k] = "building" /\ start'[m.k] = "over" /\ x = Other(owner[m.k])
                      /\ UNCHANGED <<owner, said>>
  /\ m.t = "ice" => said' = [said EXCEPT ![Other(x)] = @ \cup {m.k}]
Drained(x) == ~panel[x] \/ Head(net[x]).t # "ice" \/ HearIce(x)
Carries(x) ==
  \/ net'[x] = net[x]
  \/ net[x] # <<>> /\ net'[x] = Tail(net[x]) /\ Drained(x)
  \/ \E m \in Signals : net'[x] = Append(net[x], m) /\ Said(x, m)

LEMMA CarriesBy ==
  ASSUME NetTypes, NEW e \in Ends, NEW n \in {0, 1}, NEW m \in Signals, NEW s \in {<<>>, <<m>>},
         n = 1 => net[e] # <<>> /\ Drained(e), net' = Sent(e, n, s), Said(Other(e), m)
  PROVE  NetTypes' /\ \A x \in Ends : Carries(x)
<1> USE SentFact, OtherFact
<1>1. NetTypes'
  BY DEF NetTypes
<1>2. Carries(e)
  BY DEF Carries
<1>3. Carries(Other(e))
  BY DEF Carries
<1> QED
  BY <1>1, <1>2, <1>3

LEMMA CarriesGoodbye ==
  ASSUME NetTypes, NEW e \in Ends, NEW n \in {0, 1}, n = 1 => net[e] # <<>> /\ Drained(e),
         net' = Sent(e, n, Goodbye(e)) \/ net' = Sent(e, n, <<>>)
  PROVE  NetTypes' /\ \A x \in Ends : Carries(x)
<1> DEFINE m == [t |-> "stop"]
<1>1. m \in Signals /\ Said(Other(e), m)
  BY SignalFact DEF Said
<1>2. PICK s \in {<<>>, <<m>>} : net' = Sent(e, n, s)
  BY Goodbyes
<1> HIDE DEF m
<1> QED
  BY <1>1, <1>2, CarriesBy

LEMMA NetStep == TypeOK /\ AllBegun /\ [Next]_vars => NetTypes' /\ \A x \in Ends : Carries(x)
<1> DEFINE Goal == NetTypes' /\ \A x \in Ends : Carries(x)
<1> SUFFICES ASSUME TypeOK, AllBegun, [Next]_vars PROVE Goal
  OBVIOUS
<1>0. NetTypes /\ StageTypes /\ CallTypes
  BY TypeFact
<1>1. CASE UNCHANGED net
  BY <1>0, <1>1 DEF NetTypes, Carries
<1>2. ASSUME NEW e \in Ends, net' = Sent(e, 0, Goodbye(e)) PROVE Goal
  BY <1>0, <1>2, CarriesGoodbye
<1>3. ASSUME NEW e \in Ends, net[e] # <<>>, Drained(e),
             net' = Sent(e, 1, Goodbye(e)) \/ net' = Sent(e, 1, <<>>)
      PROVE  Goal
  BY <1>0, <1>3, CarriesGoodbye
<1>4. ASSUME NEW e \in Ends, NEW m \in Signals, net' = Sent(e, 0, <<m>>), Said(Other(e), m)
      PROVE  Goal
  BY <1>0, <1>4, CarriesBy
<1> HIDE DEF Goal
<1>5. CASE Leaves
  <2>1. "stop" # "ice"
    OBVIOUS
  <2> QED
    BY <1>2, <1>3, <1>5, <2>1, Zenon DEF Leaves, Stop, Unmount, Fails, HearStop, Next1, Heard, Drained
<1>6. CASE Passes
  <2>1. PICK e \in Ends : Unheard(e) \/ HearIce(e) \/ HearAnswer(e) \/ IgnoreOffer(e)
    BY <1>6 DEF Passes
  <2>2. Unheard(e) \/ HearAnswer(e) \/ IgnoreOffer(e) => Drained(e)
    BY DEF Unheard, HearAnswer, IgnoreOffer, Next1, Drained
  <2>3. HearIce(e) => Drained(e)
    BY DEF Drained
  <2>4. net[e] # <<>> /\ net' = Sent(e, 1, <<>>)
    BY <2>1, Zenon DEF Unheard, HearIce, HearAnswer, IgnoreOffer, Next1, Heard
  <2> QED
    BY <1>3, <2>1, <2>2, <2>3, <2>4
<1>7. CASE Offered
  BY <1>3, <1>7 DEF Offered, HearOffer, Next1, Drained
<1>8. CASE Trickles
  <2>1. PICK e \in Ends, k \in Shares : SendIce(e, k)
    BY <1>8 DEF Trickles
  <2> DEFINE m == [t |-> "ice", k |-> k]
  <2>2. m \in Signals /\ net' = Sent(e, 0, <<m>>)
    BY <2>1, SignalFact DEF SendIce
  <2>3. Said(Other(e), m)
    BY <2>1, OtherFact DEF SendIce, Said
  <2> QED
    BY <1>4, <2>2, <2>3
<1>9. CASE Captures
  <2>1. PICK k \in Shares : Captured(k)
    BY <1>9 DEF Captures
  <2>2. owner[k] \in Ends /\ net' = Sent(owner[k], 0, Goodbye(owner[k]))
    BY <1>0, <2>1, Owners DEF Captured
  <2> QED
    BY <1>2, <2>2
<1>10. CASE Offers
  <2>1. PICK k \in Shares : OfferReady(k)
    BY <1>10 DEF Offers
  <2> DEFINE m == [t |-> "offer", k |-> k]
  <2>2. owner[k] \in Ends /\ m \in Signals /\ net' = Sent(owner[k], 0, <<m>>)
    BY <1>0, <2>1, SignalFact, Owners DEF OfferReady, Offer
  <2>3. Said(Other(owner[k]), m)
    BY <1>0, <2>1 DEF OfferReady, Said, StageTypes
  <2> QED
    BY <1>4, <2>2, <2>3
<1>11. CASE Agrees
  <2>1. ASSUME NEW e \in Ends, NEW j, GivesUp(e, j, 0) PROVE Goal
    BY <1>1, <1>2, <2>1, Zenon DEF GivesUp
  <2>2. ASSUME NEW k \in Shares, AcceptOffer(k) PROVE Goal
    <3> DEFINE m == [t |-> "answer", k |-> k]
    <3>1. Other(owner[k]) \in Ends
      BY <1>0, <2>2, Owners, OtherFact DEF AcceptOffer
    <3>2. m \in Signals /\ Said(Other(Other(owner[k])), m)
      BY SignalFact DEF Said
    <3>3. GivesUp(Other(owner[k]), k, 0) \/ net' = Sent(Other(owner[k]), 0, <<m>>)
      BY <2>2, Zenon DEF AcceptOffer
    <3> HIDE DEF m
    <3> QED
      BY <1>4, <2>1, <3>1, <3>2, <3>3
  <2>3. ASSUME NEW e \in Ends, NEW j \in Shares, NEW k \in Shares, AcceptAnswer(e, j, k)
        PROVE  Goal
    BY <1>1, <2>1, <2>3, Zenon DEF AcceptAnswer
  <2> QED
    BY <1>11, <2>2, <2>3 DEF Agrees
<1>12. CASE Breaks
  <2>1. PICK t \in Tracks : TrackEnded(t)
    BY <1>12 DEF Breaks
  <2>2. owner[t[1]] \in Ends
    BY <1>0, <2>1, Owners DEF TrackEnded, Tracks
  <2>3. net' = Sent(owner[t[1]], 0, Goodbye(owner[t[1]])) \/ UNCHANGED net
    BY <2>1 DEF TrackEnded
  <2> QED
    BY <1>1, <1>2, <2>2, <2>3
<1>13. Drops \/ Answers \/ Flips => UNCHANGED net
  BY Zenon DEF Drops, Denied, OfferFails, Answers, AnswerReady, Flips, FlipDenied,
     FlipCaptured, FlipSwapped, FlipRefused, signals
<1>14. Asked \/ Spoils \/ Refreshes \/ Controls \/ UNCHANGED vars => UNCHANGED net
  BY Frames, Zenon DEF signals, vars
<1> QED
  BY <1>1, <1>5, <1>6, <1>7, <1>8, <1>9, <1>10, <1>11, <1>12, <1>13, <1>14, NextCases

LEMMA InitTypeOK == Init => TypeOK
<1> SUFFICES ASSUME Init PROVE TypeOK
  OBVIOUS
<1> USE LiveAssumption
<1>1. SlotTypes
  BY SlotFact DEF Init, SlotTypes
<1>2. PeerTypes /\ NetTypes /\ StageTypes
  BY DEF Init, PeerTypes, NetTypes, StageTypes
<1>3. IceTypes /\ MediaTypes /\ CallTypes
  BY DEF Init, IceTypes, MediaTypes, CallTypes
<1> QED
  BY <1>1, <1>2, <1>3, TypeFact

LEMMA NextTypeOK == TypeOK /\ AllBegun /\ AllPlaced /\ [Next]_vars => TypeOK'
<1> SUFFICES ASSUME TypeOK, AllBegun, AllPlaced, [Next]_vars PROVE TypeOK'
  OBVIOUS
<1>1. /\ SlotTypes' /\ PeerTypes' /\ NetTypes' /\ StageTypes' /\ IceTypes' /\ MediaTypes'
      /\ CallTypes'
  BY SlotStep, PeerStep, NetStep, StageStep, IceStep, MediaStep, CallStep
<1> QED
  BY <1>1 DEF TypeOK, SlotTypes, PeerTypes, NetTypes, StageTypes, IceTypes, MediaTypes, CallTypes
-----------------------------------------------------------------------------
(* A ticket that is still current was given to an idle slot, for an        *)
(* operation of this end that is under way.                                *)
Ticketed(e) ==
  \A k \in Shares :
    /\ <<"start", k>> \in fresh[e] =>
         start[k] = "building" /\ owner[k] = e /\ slot[e].state = "idle"
    /\ <<"answer", k>> \in fresh[e] =>
         answer[k] = "building" /\ owner[k] = Other(e) /\ slot[e].state = "idle"
AllTicketed == \A e \in Ends : Ticketed(e)

(* An offer is about a share of the other end that is past its start.      *)
OffersOwned ==
  \A e \in Ends, k \in Shares :
    [t |-> "offer", k |-> k] \in ToSet(net[e]) => owner[k] = Other(e) /\ start[k] = "over"

LEMMA Stages ==
  ASSUME TypeOK, [Next]_vars, NEW k \in Shares
  PROVE  /\ start[k] # "unused" => start'[k] # "unused" /\ owner'[k] = owner[k]
         /\ start[k] = "over" => start'[k] = "over"
         /\ start'[k] \in {"unused", "prompt"} => start[k] \in {"unused", "prompt"}
<1> DEFINE Goal == /\ start[k] # "unused" => start'[k] # "unused" /\ owner'[k] = owner[k]
                   /\ start[k] = "over" => start'[k] = "over"
                   /\ start'[k] \in {"unused", "prompt"} => start[k] \in {"unused", "prompt"}
<1>0. StageTypes
  BY TypeFact
<1>1. CASE UNCHANGED <<start, owner>>
  BY <1>1
<1>2. CASE Asked
  BY <1>0, <1>2 DEF Asked, Click, StageTypes
<1>3. CASE Drops \/ Captures \/ Offers
  BY <1>0, <1>3 DEF Drops, Denied, OfferFails, Captures, Captured, Offers, OfferReady, StageTypes
<1>4. Offered \/ Answers \/ Agrees \/ Flips => UNCHANGED <<start, owner>>
  BY Zenon DEF Offered, HearOffer, Answers, AnswerReady, Agrees, AcceptOffer, AcceptAnswer,
     Flips, FlipDenied, FlipCaptured, FlipSwapped, FlipRefused, ops
<1>5. Leaves \/ Passes \/ Trickles \/ Spoils \/ Refreshes \/ Controls \/ Breaks \/ UNCHANGED vars
      => UNCHANGED <<start, owner>>
  BY Frames, Zenon DEF ops, vars
<1> QED
  BY <1>1, <1>2, <1>3, <1>4, <1>5, NextCases

(* How the slot, the connections and the tickets of an end change.         *)
Loose == {"flip", "refresh"} \X Shares
SameShare(s, r) ==
  /\ s.state # "idle" /\ r.state # "idle" /\ s.share = r.share
  /\ s.state = "receiving" <=> r.state = "receiving"
Takes(x, k) ==
  /\ slot[x].state = "idle" /\ pc'[x] = [pc[x] EXCEPT ![k] = "new"]
  /\ start[k] # "unused" /\ start'[k] = "over"
  /\ \/ slot'[x] = [Idle EXCEPT !.state = "offering", !.share = k] /\ owner[k] = x
     \/ slot'[x] = [Idle EXCEPT !.state = "receiving", !.share = k] /\ owner[k] = Other(x)
Hosts(x) ==
  \/ slot'[x] = slot[x] /\ pc'[x] = pc[x]
  \/ slot'[x] = Idle /\ pc'[x] = Released(x).pc
  \/ SameShare(slot[x], slot'[x]) /\ pc'[x] = pc[x]
  \/ /\ slot'[x] = slot[x] \/ SameShare(slot[x], slot'[x])
     /\ \E k \in Shares : pc[x][k] = "new" /\ pc'[x] = [pc[x] EXCEPT ![k] = "negotiated"]
  \/ slot'[x] = slot[x] /\ \E k \in Shares : pc'[x] = [pc[x] EXCEPT ![k] = "closed"] /\ start'[k] = "over"
  \/ \E k \in Shares : Takes(x, k)
Stamps(x) ==
  \/ fresh'[x] \subseteq Loose
  \/ slot'[x] = slot[x] /\ fresh'[x] \subseteq fresh[x] \cup Loose
  \/ /\ slot'[x] = Idle
     /\ \E k \in Shares : fresh'[x] = {<<"start", k>>} /\ start'[k] = "building" /\ owner[k] = x
  \/ /\ slot'[x] = Idle \/ (slot'[x] = slot[x] /\ slot[x].state = "idle")
     /\ \E k \in Shares : /\ fresh'[x] \in {fresh[x] \cup {<<"answer", k>>}, {<<"answer", k>>}}
                          /\ slot'[x] = slot[x] \/ fresh'[x] = {<<"answer", k>>}
                          /\ answer'[k] = "building" /\ owner[k] = Other(x)

(* Four ways to change them at one end.                                    *)
LEMMA Untouched ==
  ASSUME UNCHANGED <<slot, pc>>, UNCHANGED fresh, NEW x PROVE Hosts(x) /\ Stamps(x)
BY DEF Hosts, Stamps

LEMMA Restamped ==
  ASSUME SlotTypes, NEW e \in Ends, UNCHANGED <<slot, pc>>, NEW f,
         fresh' = [fresh EXCEPT ![e] = f], f \subseteq fresh[e] \cup Loose, NEW x \in Ends
  PROVE  Hosts(x) /\ Stamps(x)
BY DEF Hosts, Stamps, SlotTypes

LEMMA Cleared ==
  ASSUME SlotTypes, PeerTypes, NEW e \in Ends, NEW op, SetSlot(e, Idle, op),
         pc' = [pc EXCEPT ![e] = Released(e).pc],
         \/ op = {}
         \/ \E k \in Shares : op = {<<"start", k>>} /\ start'[k] = "building" /\ owner[k] = e
         \/ \E k \in Shares : op = {<<"answer", k>>} /\ answer'[k] = "building" /\ owner[k] = Other(e),
         NEW x \in Ends
  PROVE  Hosts(x) /\ Stamps(x)
<1>1. CASE x # e
  BY <1>1 DEF Hosts, Stamps, SlotTypes, PeerTypes, SetSlot
<1>2. CASE x = e
  <2>1. slot'[e] = Idle /\ pc'[e] = Released(e).pc /\ fresh'[e] = op
    BY DEF SlotTypes, PeerTypes, SetSlot
  <2> QED
    BY <1>2, <2>1 DEF Hosts, Stamps
<1> QED
  BY <1>1, <1>2

LEMMA Kept ==
  ASSUME SlotTypes, PeerTypes, NEW e \in Ends, NEW s, NEW op, op \subseteq Loose,
         SetSlot(e, s, op), SameShare(slot[e], s), UNCHANGED pc, NEW x \in Ends
  PROVE  Hosts(x) /\ Stamps(x)
BY DEF Hosts, Stamps, SlotTypes, PeerTypes, SetSlot

LEMMA Taken ==
  ASSUME SlotTypes, PeerTypes, NEW e \in Ends, NEW k \in Shares, NEW op, op \subseteq Loose,
         NEW st \in {"offering", "receiving"},
         SetSlot(e, [Idle EXCEPT !.state = st, !.share = k], op),
         pc' = [pc EXCEPT ![e][k] = "new"], slot[e].state = "idle", start[k] # "unused", start'[k] = "over",
         owner[k] = IF st = "offering" THEN e ELSE Other(e), NEW x \in Ends
  PROVE  Hosts(x) /\ Stamps(x)
<1>1. CASE x # e
  BY <1>1 DEF Hosts, Stamps, SlotTypes, PeerTypes, SetSlot
<1>2. CASE x = e
  <2>1. slot'[e] = [Idle EXCEPT !.state = st, !.share = k] /\ pc'[e] = [pc[e] EXCEPT ![k] = "new"]
        /\ fresh'[e] = op
    BY DEF SlotTypes, PeerTypes, SetSlot
  <2>2. Takes(e, k)
    BY <2>1 DEF Takes
  <2> QED
    BY <1>2, <2>1, <2>2, Zenon DEF Hosts, Stamps
<1> QED
  BY <1>1, <1>2

LEMMA Closed ==
  ASSUME PeerTypes, NEW e \in Ends, NEW k \in Shares, UNCHANGED <<slot, fresh>>,
         pc' = [pc EXCEPT ![e][k] = "closed"], start'[k] = "over", NEW x \in Ends
  PROVE  Hosts(x) /\ Stamps(x)
BY DEF Hosts, Stamps, PeerTypes

LEMMA Negotiated ==
  ASSUME SlotTypes, PeerTypes, NEW e \in Ends, NEW k \in Shares, pc[e][k] = "new",
         pc' = [pc EXCEPT ![e][k] = "negotiated"],
         \/ UNCHANGED <<slot, fresh>>
         \/ \E s : SetSlot(e, s, {}) /\ SameShare(slot[e], s),
         NEW x \in Ends
  PROVE  Hosts(x) /\ Stamps(x)
<1>1. CASE x # e
  BY <1>1 DEF Hosts, Stamps, SlotTypes, PeerTypes, SetSlot
<1>2. CASE x = e
  <2>1. pc'[e] = [pc[e] EXCEPT ![k] = "negotiated"]
    BY DEF PeerTypes
  <2>2. \/ slot'[e] = slot[e] /\ fresh'[e] = fresh[e]
        \/ SameShare(slot[e], slot'[e]) /\ fresh'[e] = {}
    BY DEF SlotTypes, SetSlot
  <2> QED
    BY <1>2, <2>1, <2>2 DEF Hosts, Stamps
<1> QED
  BY <1>1, <1>2

LEMMA HostStep ==
  ASSUME TypeOK, AllBegun, AllPlaced, AllTicketed, OffersOwned, [Next]_vars, NEW x \in Ends
  PROVE  Hosts(x) /\ Stamps(x)
<1> DEFINE Goal == Hosts(x) /\ Stamps(x)
<1> SUFFICES Goal
  OBVIOUS
<1>0. SlotTypes /\ PeerTypes /\ NetTypes /\ StageTypes /\ CallTypes
  BY TypeFact
<1>1. CASE UNCHANGED <<slot, pc, fresh>>
  BY <1>1, Untouched
<1>2. ASSUME NEW e \in Ends, Release(e, {}) PROVE Goal
  BY <1>0, <1>2, Cleared DEF Release
<1>3. CASE Leaves
  BY <1>2, <1>3 DEF Leaves, Stop, Unmount, Fails, HearStop
<1>4. CASE Offered
  <2>1. PICK e \in Ends : HearOffer(e)
    BY <1>4 DEF Offered
  <2> DEFINE k == Head(net[e]).k
  <2>2. Head(net[e]) = [t |-> "offer", k |-> k] /\ k \in Shares
    BY <1>0, <2>1, HeadFact, SignalFact DEF HearOffer, Next1
  <2>3. Head(net[e]) \in ToSet(net[e])
    <3>1. net[e] # <<>> /\ net[e] \in Seq(Signals)
      BY <1>0, <2>1 DEF HearOffer, Next1, NetTypes
    <3>2. 1 \in DOMAIN net[e] /\ Head(net[e]) = net[e][1]
      BY <3>1
    <3> QED
      BY <3>2 DEF ToSet
  <2>4. owner[k] = Other(e) /\ start[k] = "over"
    BY <2>2, <2>3 DEF OffersOwned
  <2>5. answer' = [answer EXCEPT ![k] = "building"]
    BY <2>1 DEF HearOffer
  <2>6. answer'[k] = "building"
    BY <1>0, <2>2, <2>5 DEF StageTypes
  <2>7. CASE slot[e].state = "idle"
    <3>1. fresh' = [fresh EXCEPT ![e] = fresh[e] \cup {<<"answer", k>>}] /\ UNCHANGED <<slot, pc>>
      BY <2>1, <2>7 DEF HearOffer
    <3> HIDE DEF k
    <3> QED
      BY <1>0, <2>2, <2>4, <2>6, <2>7, <3>1 DEF Hosts, Stamps, SlotTypes
  <2>8. CASE slot[e].state # "idle"
    <3>1. Release(e, {<<"answer", k>>})
      BY <2>1, <2>8 DEF HearOffer
    <3> HIDE DEF k
    <3> QED
      BY <1>0, <2>2, <2>4, <2>6, <3>1, Cleared DEF Release
  <2> QED
    BY <2>7, <2>8
<1>5. CASE Drops
  <2>1. PICK k \in Shares : Denied(k) \/ OfferFails(k)
    BY <1>5 DEF Drops
  <2>2. CASE Denied(k)
    BY <1>1, <2>2, Zenon DEF Denied
  <2>3. CASE OfferFails(k)
    <3>1. /\ UNCHANGED <<slot, pc>> /\ owner[k] \in Ends
          /\ fresh' = [fresh EXCEPT ![owner[k]] = fresh[owner[k]] \ {<<"start", k>>}]
      BY <1>0, <2>3, Owners DEF OfferFails
    <3> QED
      BY <1>0, <3>1, Restamped
  <2> QED
    BY <2>1, <2>2, <2>3
<1>6. CASE Captures
  <2>1. PICK k \in Shares : Captured(k)
    BY <1>6 DEF Captures
  <2>2. /\ owner[k] \in Ends /\ SetSlot(owner[k], Idle, {<<"start", k>>})
        /\ pc' = [pc EXCEPT ![owner[k]] = Released(owner[k]).pc] /\ start'[k] = "building"
    BY <1>0, <2>1, Owners DEF Captured, StageTypes
  <2> QED
    BY <1>0, <2>2, Cleared
<1>7. CASE Offers
  <2>1. PICK k \in Shares : OfferReady(k)
    BY <1>7 DEF Offers
  <2> DEFINE op == IF k \in Cameras THEN {<<"refresh", k>>} ELSE {}
  <2>2. owner[k] \in Ends /\ start[k] # "unused" /\ start'[k] = "over" /\ op \subseteq Loose
    BY <1>0, <2>1, Owners DEF OfferReady, StageTypes, Loose
  <2>3. \/ /\ <<"start", k>> \in fresh[owner[k]]
           /\ SetSlot(owner[k], [Idle EXCEPT !.state = "offering", !.share = k], op)
           /\ pc' = [pc EXCEPT ![owner[k]][k] = "new"]
        \/ UNCHANGED <<slot, fresh>> /\ pc' = [pc EXCEPT ![owner[k]][k] = "closed"]
    BY <2>1, Zenon DEF OfferReady, IsCurrent
  <2> HIDE DEF op
  <2>4. <<"start", k>> \in fresh[owner[k]] => slot[owner[k]].state = "idle"
    BY <2>2 DEF AllTicketed, Ticketed
  <2> QED
    BY <1>0, <2>2, <2>3, <2>4, Taken, Closed
<1>8. CASE Spoils
  <2>1. PICK k \in Shares : AnswerFails(k)
    BY <1>8 DEF Spoils
  <2>2. owner[k] \in Ends
    BY <1>0, <2>1, Owners DEF AnswerFails
  <2>3. /\ UNCHANGED <<slot, pc>>
        /\ fresh' = [fresh EXCEPT ![Other(owner[k])] = fresh[Other(owner[k])] \ {<<"answer", k>>}]
    BY <2>1 DEF AnswerFails
  <2> QED
    BY <1>0, <2>2, <2>3, OtherFact, Restamped
<1>9. CASE Answers
  <2>1. PICK k \in Shares : AnswerReady(k)
    BY <1>9 DEF Answers
  <2>2. owner[k] \in Ends /\ start[k] = "over"
    <3>1. answer[k] # "none"
      BY <2>1 DEF AnswerReady
    <3> QED
      BY <1>0, <3>1, Owners DEF AllBegun, Begun
  <2>3. /\ Other(owner[k]) \in Ends /\ owner[k] = Other(Other(owner[k]))
        /\ start[k] # "unused" /\ start'[k] = "over"
    BY <2>1, <2>2, OtherFact DEF AnswerReady
  <2>4. \/ /\ <<"answer", k>> \in fresh[Other(owner[k])]
           /\ SetSlot(Other(owner[k]), [Idle EXCEPT !.state = "receiving", !.share = k], {})
           /\ pc' = [pc EXCEPT ![Other(owner[k])][k] = "new"]
        \/ UNCHANGED <<slot, fresh>> /\ pc' = [pc EXCEPT ![Other(owner[k])][k] = "closed"]
    BY <2>1, Zenon DEF AnswerReady, IsCurrent
  <2>5. <<"answer", k>> \in fresh[Other(owner[k])] => slot[Other(owner[k])].state = "idle"
    BY <2>3 DEF AllTicketed, Ticketed
  <2> QED
    BY <1>0, <2>3, <2>4, <2>5, Taken, Closed
<1>10. CASE Agrees
  <2>1. ASSUME NEW e \in Ends, NEW j, NEW n, GivesUp(e, j, n) PROVE Goal
    BY <1>1, <1>2, <2>1, Zenon DEF GivesUp
  <2>2. ASSUME NEW k \in Shares, AcceptOffer(k) PROVE Goal
    <3>1. Other(owner[k]) \in Ends
      BY <1>0, <2>2, Owners, OtherFact DEF AcceptOffer
    <3>2. \/ GivesUp(Other(owner[k]), k, 0)
          \/ /\ pc[Other(owner[k])][k] = "new" /\ UNCHANGED <<slot, fresh>>
             /\ pc' = [pc EXCEPT ![Other(owner[k])][k] = "negotiated"]
      BY <2>2, Zenon DEF AcceptOffer
    <3> QED
      BY <1>0, <2>1, <3>1, <3>2, Negotiated
  <2>3. ASSUME NEW e \in Ends, NEW j \in Shares, NEW k \in Shares, AcceptAnswer(e, j, k)
        PROVE  Goal
    <3>1. \/ GivesUp(e, j, 0)
          \/ /\ pc[e][j] = "new" /\ pc' = [pc EXCEPT ![e][j] = "negotiated"]
             /\ \/ UNCHANGED <<slot, fresh>>
                \/ slot[e].state = "offering" /\ SetSlot(e, [slot[e] EXCEPT !.state = "sending"], {})
      BY <2>3, Zenon DEF AcceptAnswer
    <3>2. slot[e].state = "offering" => SameShare(slot[e], [slot[e] EXCEPT !.state = "sending"])
      BY <1>0 DEF SlotTypes, Slots, SameShare
    <3> QED
      BY <1>0, <2>1, <3>1, <3>2, Negotiated
  <2> QED
    BY <1>10, <2>2, <2>3 DEF Agrees
<1>11. ASSUME NEW e \in Ends, NEW s, NEW op, op \subseteq Loose, SetSlot(e, s, op),
              SameShare(slot[e], s), UNCHANGED pc
       PROVE  Goal
  BY <1>0, <1>11, Kept
<1>12. ASSUME NEW e \in Ends, NEW c, NEW op, op \subseteq Loose, Sharing(e),
              SetSlot(e, [slot[e] EXCEPT !.camera = c], op), UNCHANGED pc
       PROVE  Goal
  <2>1. SameShare(slot[e], [slot[e] EXCEPT !.camera = c])
    BY <1>0, <1>12 DEF SlotTypes, Slots, SameShare, Sharing
  <2> QED
    BY <1>11, <1>12, <2>1, Zenon
<1>13. {} \subseteq Loose /\ \A k \in Shares : {<<"flip", k>>} \subseteq Loose /\ <<"refresh", k>> \in Loose
  BY DEF Loose
<1>14. ASSUME NEW e \in Ends, Sharing(e), SetSlot(e, [slot[e] EXCEPT !.camera = "ready"], {}),
              UNCHANGED pc
       PROVE  Goal
  <2>1. SameShare(slot[e], [slot[e] EXCEPT !.camera = "ready"])
    BY <1>0, <1>14 DEF SlotTypes, Slots, SameShare, Sharing
  <2> QED
    BY <1>0, <1>14, <2>1, Kept
<1>15. ASSUME NEW e \in Ends, UpdateCamera(e, "ready"), UNCHANGED pc PROVE Goal
  BY <1>1, <1>14, <1>15, Zenon DEF UpdateCamera
<1>16. CASE Flips
  <2>1. PICK k \in Shares : FlipDenied(k) \/ FlipCaptured(k) \/ FlipSwapped(k) \/ FlipRefused(k)
    BY <1>16 DEF Flips
  <2>2. owner[k] \in Ends
    BY <1>0, <2>1, Owners DEF FlipDenied, FlipCaptured, FlipSwapped, FlipRefused
  <2>3. FlipDenied(k) \/ FlipRefused(k) => UpdateCamera(owner[k], "ready") /\ UNCHANGED pc
    BY Zenon DEF FlipDenied, FlipRefused
  <2>4. FlipCaptured(k) => /\ UNCHANGED <<slot, pc>>
                           /\ fresh' = [fresh EXCEPT ![owner[k]] = fresh[owner[k]] \ {<<"flip", k>>}]
    BY DEF FlipCaptured
  <2>5. FlipSwapped(k) => /\ UNCHANGED <<slot, pc>>
                          /\ fresh' = [fresh EXCEPT ![owner[k]] = fresh[owner[k]] \cup {<<"refresh", k>>}]
    BY DEF FlipSwapped
  <2>6. /\ fresh[owner[k]] \cup {<<"refresh", k>>} \subseteq fresh[owner[k]] \cup Loose
        /\ fresh[owner[k]] \ {<<"flip", k>>} \subseteq fresh[owner[k]] \cup Loose
    BY <1>13
  <2> QED
    BY <1>0, <1>15, <2>1, <2>2, <2>3, <2>4, <2>5, <2>6, Restamped
<1>17. CASE Refreshes
  <2>1. PICK k \in Shares : RefreshCamera(k)
    BY <1>17 DEF Refreshes
  <2>2. owner[k] \in Ends /\ UNCHANGED pc
    BY <1>0, <2>1, Owners DEF RefreshCamera
  <2>3. \/ Sharing(owner[k]) /\ SetSlot(owner[k], [slot[owner[k]] EXCEPT !.camera = "ready"], {})
        \/ /\ UNCHANGED slot
           /\ fresh' = [fresh EXCEPT ![owner[k]] = fresh[owner[k]] \ {<<"refresh", k>>}]
    BY <2>1 DEF RefreshCamera
  <2>4. CASE Sharing(owner[k]) /\ SetSlot(owner[k], [slot[owner[k]] EXCEPT !.camera = "ready"], {})
    BY <1>14, <2>2, <2>4, Zenon
  <2> QED
    BY <1>0, <2>2, <2>3, <2>4, Restamped
<1>18. CASE Controls
  <2>1. PICK e \in Ends :
          \/ FlipCamera(e) \/ \E k \in Shares : RemoteStream(e, k)
          \/ \E call \in {"torch", "preset"} : Adjust(e, call) \/ Adjusted(e, call)
    BY <1>18 DEF Controls
  <2>2. UNCHANGED pc
    BY <1>18, Frames
  <2>3. CASE FlipCamera(e)
    <3>1. SetSlot(e, [slot[e] EXCEPT !.camera = "busy"], {<<"flip", slot[e].share>>}) /\ Sharing(e)
      BY <2>3, Zenon DEF FlipCamera
    <3>2. slot[e].share \in Shares
      BY <3>1 DEF AllPlaced, Placed, Sharing, Idle
    <3> QED
      BY <1>12, <1>13, <2>2, <3>1, <3>2, Zenon
  <2>4. CASE \E k \in Shares : RemoteStream(e, k)
    <3>1. SetSlot(e, [slot[e] EXCEPT !.seen = TRUE], {}) /\ slot[e].state = "receiving"
      BY <2>4, Zenon DEF RemoteStream
    <3>2. SameShare(slot[e], [slot[e] EXCEPT !.seen = TRUE])
      BY <1>0, <3>1 DEF SlotTypes, Slots, SameShare
    <3> QED
      BY <1>11, <1>13, <2>2, <3>1, <3>2
  <2>5. CASE \E call \in {"torch", "preset"} : Adjust(e, call) \/ Adjusted(e, call)
    <3>1. UNCHANGED <<slot, fresh>> \/ (SetSlot(e, slot[e], {}) /\ Sharing(e))
      <4>1. PICK call \in {"torch", "preset"} : Adjust(e, call) \/ Adjusted(e, call)
        BY <2>5
      <4>2. Adjust(e, call) => UNCHANGED <<slot, fresh>>
        BY Zenon DEF Adjust
      <4>3. Adjusted(e, call) => UNCHANGED <<slot, fresh>> \/ (SetSlot(e, slot[e], {}) /\ Sharing(e))
        BY Zenon DEF Adjusted, Suits
      <4> QED
        BY <4>1, <4>2, <4>3
    <3>2. Sharing(e) => SameShare(slot[e], slot[e])
      BY DEF Sharing, SameShare
    <3> QED
      BY <1>1, <1>11, <1>13, <2>2, <3>1, <3>2
  <2> QED
    BY <2>1, <2>3, <2>4, <2>5
<1>19. CASE Breaks
  <2>1. PICK t \in Tracks : TrackEnded(t)
    BY <1>19 DEF Breaks
  <2>2. owner[t[1]] \in Ends
    BY <1>0, <2>1, Owners DEF TrackEnded, Tracks
  <2>3. \/ /\ SetSlot(owner[t[1]], Idle, {})
           /\ pc' = [pc EXCEPT ![owner[t[1]]] = Released(owner[t[1]]).pc]
        \/ UNCHANGED <<slot, pc, fresh>>
    BY <2>1 DEF TrackEnded
  <2> QED
    BY <1>0, <1>1, <2>2, <2>3, Cleared
<1>20. Passes \/ Asked \/ Trickles \/ UNCHANGED vars => UNCHANGED <<slot, pc, fresh>>
  BY Frames, Zenon DEF vars
<1> QED
  BY <1>1, <1>3, <1>4, <1>5, <1>6, <1>7, <1>8, <1>9, <1>10, <1>16, <1>17, <1>18, <1>19, <1>20,
     NextCases
-----------------------------------------------------------------------------
LEMMA QueueFact ==
  ASSUME NEW S, NEW s \in Seq(S)
  PROVE  /\ \A m : m \in ToSet(Append(s, m)) /\ \A y \in ToSet(Append(s, m)) : y = m \/ y \in ToSet(s)
         /\ \A m : ToSet(s) \subseteq ToSet(Append(s, m))
         /\ s # <<>> => /\ ToSet(Tail(s)) \subseteq ToSet(s) /\ Head(s) \in ToSet(s)
                        /\ \A y \in ToSet(s) : y = Head(s) \/ y \in ToSet(Tail(s))
<1> DEFINE n == Len(s)
<1>0. n \in Nat /\ DOMAIN s = 1..n
  OBVIOUS
<1>1. ASSUME NEW m
      PROVE  /\ m \in ToSet(Append(s, m)) /\ \A y \in ToSet(Append(s, m)) : y = m \/ y \in ToSet(s)
             /\ ToSet(s) \subseteq ToSet(Append(s, m))
  <2>1. DOMAIN Append(s, m) = 1..(n + 1) /\ Append(s, m)[n + 1] = m
        /\ \A i \in 1..n : Append(s, m)[i] = s[i]
    OBVIOUS
  <2> QED
    BY <1>0, <2>1 DEF ToSet
<1>2. ASSUME s # <<>>
      PROVE  /\ ToSet(Tail(s)) \subseteq ToSet(s) /\ Head(s) \in ToSet(s)
             /\ \A y \in ToSet(s) : y = Head(s) \/ y \in ToSet(Tail(s))
  <2>1. /\ n # 0 /\ DOMAIN Tail(s) = 1..(n - 1) /\ Head(s) = s[1]
        /\ \A i \in 1..(n - 1) : Tail(s)[i] = s[i + 1]
    BY <1>2
  <2>2. ASSUME NEW i \in 1..n, i # 1 PROVE s[i] \in ToSet(Tail(s))
    <3>1. i - 1 \in 1..(n - 1) /\ (i - 1) + 1 = i
      BY <1>0, <2>2
    <3>2. Tail(s)[i - 1] = s[i]
      BY <2>1, <3>1
    <3> QED
      BY <2>1, <3>1, <3>2 DEF ToSet
  <2>3. ASSUME NEW i \in 1..(n - 1) PROVE Tail(s)[i] \in ToSet(s)
    <3>1. i + 1 \in 1..n
      BY <1>0, <2>3
    <3> QED
      BY <1>0, <2>1, <3>1 DEF ToSet
  <2>4. Head(s) \in ToSet(s)
    BY <1>0, <2>1 DEF ToSet
  <2>5. \A y \in ToSet(s) : y = Head(s) \/ y \in ToSet(Tail(s))
    BY <1>0, <2>1, <2>2 DEF ToSet
  <2>6. ToSet(Tail(s)) \subseteq ToSet(s)
    BY <2>1, <2>3 DEF ToSet
  <2> QED
    BY <2>4, <2>5, <2>6
<1> QED
  BY <1>1, <1>2

LEMMA CarriedFact ==
  ASSUME NetTypes, NEW x \in Ends, Carries(x), NEW m \in ToSet(net'[x])
  PROVE  m \in ToSet(net[x]) \/ (m \in Signals /\ Said(x, m))
<1>1. net[x] \in Seq(Signals)
  BY DEF NetTypes
<1>2. CASE net'[x] = net[x]
  BY <1>2
<1>3. CASE net[x] # <<>> /\ net'[x] = Tail(net[x])
  BY <1>1, <1>3, QueueFact
<1>4. CASE \E w \in Signals : net'[x] = Append(net[x], w) /\ Said(x, w)
  <2>1. PICK w \in Signals : net'[x] = Append(net[x], w) /\ Said(x, w)
    BY <1>4
  <2>2. m = w \/ m \in ToSet(net[x])
    BY <1>1, <2>1, QueueFact
  <2> QED
    BY <2>1, <2>2
<1> QED
  BY <1>2, <1>3, <1>4 DEF Carries

LEMMA OffersStep ==
  ASSUME TypeOK, AllBegun, OffersOwned, [Next]_vars PROVE OffersOwned'
<1> SUFFICES ASSUME NEW e \in Ends, NEW k \in Shares, [t |-> "offer", k |-> k] \in ToSet(net'[e])
             PROVE  owner'[k] = Other(e) /\ start'[k] = "over"
  BY DEF OffersOwned
<1> DEFINE m == [t |-> "offer", k |-> k]
<1>0. NetTypes /\ StageTypes /\ CallTypes /\ Carries(e)
  BY TypeFact, NetStep
<1>1. m \in ToSet(net[e]) \/ (m \in Signals /\ Said(e, m))
  BY <1>0, CarriedFact
<1>2. CASE m \in ToSet(net[e])
  <2>1. owner[k] = Other(e) /\ start[k] = "over"
    BY <1>2 DEF OffersOwned
  <2> QED
    BY <2>1, Stages
<1>3. CASE Said(e, m)
  <2>1. start[k] = "building" /\ start'[k] = "over" /\ e = Other(owner[k]) /\ owner'[k] = owner[k]
    BY <1>3 DEF Said
  <2> QED
    BY <1>0, <2>1, Owners, OtherFact
<1> QED
  BY <1>1, <1>2, <1>3

(* Every open connection is the slot's.                                    *)
LEMMA SpareStep ==
  ASSUME SlotTypes, PeerTypes, NoSpareConnection, \A x \in Ends : Hosts(x)
  PROVE  NoSpareConnection'
<1> SUFFICES ASSUME NEW e \in Ends, NEW k \in Shares, pc'[e][k] \in {"new", "negotiated"}
             PROVE  Holds(e, k)'
  BY DEF NoSpareConnection
<1>0. pc[e] \in [Shares -> {"none", "new", "negotiated", "closed"}] /\ slot[e] \in Slots
  BY DEF PeerTypes, SlotTypes
<1>1. pc[e][k] \in {"new", "negotiated"} => slot[e].state # "idle" /\ slot[e].share = k
  BY DEF NoSpareConnection, Holds
<1>2. CASE slot'[e] = slot[e] /\ pc'[e] = pc[e]
  BY <1>1, <1>2 DEF Holds
<1>3. CASE slot'[e] = Idle /\ pc'[e] = Released(e).pc
  BY <1>0, <1>1, <1>3 DEF Released
<1>4. CASE SameShare(slot[e], slot'[e]) /\ pc'[e] = pc[e]
  BY <1>1, <1>4 DEF SameShare, Holds
<1>5. CASE /\ slot'[e] = slot[e] \/ SameShare(slot[e], slot'[e])
           /\ \E j \in Shares : pc[e][j] = "new" /\ pc'[e] = [pc[e] EXCEPT ![j] = "negotiated"]
  BY <1>0, <1>1, <1>5 DEF SameShare, Holds
<1>6. CASE slot'[e] = slot[e] /\ \E j \in Shares : pc'[e] = [pc[e] EXCEPT ![j] = "closed"]
  BY <1>0, <1>1, <1>6 DEF Holds
<1>7. CASE \E j \in Shares : Takes(e, j)
  <2>1. PICK j \in Shares : Takes(e, j)
    BY <1>7
  <2>2. slot'[e].state # "idle" /\ slot'[e].share = j
    BY <2>1 DEF Takes, Idle
  <2>3. k = j
    BY <1>0, <1>1, <2>1 DEF Takes
  <2> QED
    BY <2>2, <2>3 DEF Holds
<1> QED
  BY <1>2, <1>3, <1>4, <1>5, <1>6, <1>7 DEF Hosts

(* What a connection's history tells of its share.                         *)
LEMMA PeerHistory ==
  ASSUME PeerTypes, SlotTypes, AllPlaced, NEW e \in Ends, NEW k \in Shares, Hosts(e)
  PROVE  /\ pc[e][k] # "none" => pc'[e][k] # "none"
         /\ pc[e][k] = "none" /\ pc'[e][k] # "none" => start[k] = "over" \/ start'[k] = "over"
<1>0. pc[e] \in [Shares -> {"none", "new", "negotiated", "closed"}] /\ slot[e] \in Slots
  BY DEF PeerTypes, SlotTypes
<1>1. CASE pc'[e] = pc[e]
  BY <1>1
<1>2. CASE pc'[e] = Released(e).pc
  BY <1>0, <1>2 DEF Released, AllPlaced, Placed, Idle
<1>3. CASE \E j \in Shares : pc[e][j] = "new" /\ pc'[e] = [pc[e] EXCEPT ![j] = "negotiated"]
  BY <1>0, <1>3
<1>4. CASE \E j \in Shares : pc'[e] = [pc[e] EXCEPT ![j] = "closed"] /\ start'[j] = "over"
  BY <1>0, <1>4
<1>5. CASE \E j \in Shares : Takes(e, j)
  BY <1>0, <1>5 DEF Takes
<1> QED
  BY <1>1, <1>2, <1>3, <1>4, <1>5 DEF Hosts

LEMMA PlacedStep ==
  ASSUME TypeOK, AllBegun, AllPlaced, AllTicketed, OffersOwned, [Next]_vars PROVE AllPlaced'
<1> SUFFICES ASSUME NEW e \in Ends PROVE Placed(e)'
  BY DEF AllPlaced
<1>0. SlotTypes /\ PeerTypes /\ Hosts(e) /\ Placed(e) /\ StageTypes /\ CallTypes
  BY TypeFact, HostStep DEF AllPlaced
<1>1. slot[e] \in Slots /\ pc[e] \in [Shares -> {"none", "new", "negotiated", "closed"}]
  BY <1>0 DEF SlotTypes, PeerTypes
<1>2. \A k \in Shares : pc[e][k] # "none" => pc'[e][k] # "none"
  BY <1>0, PeerHistory
<1>3. \A k \in Shares : start[k] = "over" => start'[k] = "over" /\ owner'[k] = owner[k]
  BY Stages
<1>4. CASE slot'[e] = slot[e]
  BY <1>0, <1>2, <1>3, <1>4 DEF Placed, Sharing
<1>5. CASE SameShare(slot[e], slot'[e])
  <2>1. Sharing(e) \/ slot[e].state = "receiving"
    BY <1>1, <1>5 DEF SameShare, Sharing, Slots
  <2>2. slot[e] # Idle
    BY <1>5 DEF SameShare, Idle
  <2>3. Sharing(e)' => Sharing(e)
    BY <1>5, <2>1 DEF SameShare, Sharing
  <2> QED
    BY <1>0, <1>2, <1>3, <1>5, <2>2, <2>3 DEF Placed, SameShare
<1>6. CASE slot'[e] = Idle
  BY <1>6 DEF Placed
<1>7. CASE \E k \in Shares : Takes(e, k)
  <2>1. PICK k \in Shares : Takes(e, k)
    BY <1>7
  <2>2. slot'[e].share = k /\ slot'[e].state \in {"offering", "receiving"}
        /\ owner[k] = IF slot'[e].state = "offering" THEN e ELSE Other(e)
    BY <2>1 DEF Takes, Idle
  <2>3. pc'[e][k] = "new" /\ start'[k] = "over"
    BY <1>1, <2>1 DEF Takes
  <2>4. owner'[k] = owner[k]
    BY <2>1, Stages DEF Takes
  <2> QED
    BY <2>2, <2>3, <2>4 DEF Placed, Sharing
<1> QED
  BY <1>0, <1>4, <1>5, <1>6, <1>7 DEF Hosts
-----------------------------------------------------------------------------
(* What appears in a step appears for a share that has come so far.        *)
LEMMA Appears ==
  ASSUME TypeOK, AllBegun, AllPlaced, AllTicketed, OffersOwned, [Next]_vars, NEW k \in Shares
  PROVE  /\ start[k] = "unused" /\ start'[k] # "unused" => owner'[k] \in Ends /\ start'[k] = "prompt"
         /\ answer[k] = "none" /\ answer'[k] # "none" => start[k] = "over" /\ answer'[k] = "building"
         /\ flip[k] = "none" /\ flip'[k] # "none" => \E e \in Ends : Holds(e, k) /\ Sharing(e)
         /\ k \in late' => k \in late \/ flip[k] = "swapping"
         /\ k \in refresh' => k \in refresh \/ flip[k] = "swapping" \/ start'[k] = "over"
         /\ \A e \in Ends : k \in said'[e] =>
              k \in said[e] \/ pc[e][k] # "none" \/ (start[k] = "building" /\ owner[k] = e)
<1>0. StageTypes /\ SlotTypes /\ NetTypes /\ IceTypes
  BY TypeFact
<1>1. start[k] = "unused" /\ start'[k] # "unused" => owner'[k] \in Ends /\ start'[k] = "prompt"
  <2>1. CASE Asked
    BY <1>0, <2>1 DEF Asked, Click, StageTypes
  <2>2. CASE Drops \/ Captures \/ Offers
    BY <1>0, <2>2 DEF Drops, Denied, OfferFails, Captures, Captured, Offers, OfferReady, StageTypes
  <2>3. Offered \/ Answers \/ Agrees \/ Flips => UNCHANGED start
    BY Zenon DEF Offered, HearOffer, Answers, AnswerReady, Agrees, AcceptOffer, AcceptAnswer,
       Flips, FlipDenied, FlipCaptured, FlipSwapped, FlipRefused, ops
  <2>4. Leaves \/ Passes \/ Trickles \/ Spoils \/ Refreshes \/ Controls \/ Breaks \/ UNCHANGED vars
        => UNCHANGED start
    BY Frames, Zenon DEF ops, vars
  <2> QED
    BY <2>1, <2>2, <2>3, <2>4, NextCases
<1>2. answer[k] = "none" /\ answer'[k] # "none" => start[k] = "over" /\ answer'[k] = "building"
  <2>1. CASE Offered
    <3>1. PICK e \in Ends : HearOffer(e)
      BY <2>1 DEF Offered
    <3> DEFINE j == Head(net[e]).k
    <3>2. Head(net[e]) = [t |-> "offer", k |-> j] /\ j \in Shares /\ net[e] # <<>> /\ net[e] \in Seq(Signals)
      BY <1>0, <3>1, HeadFact, SignalFact DEF HearOffer, Next1, NetTypes
    <3>3. start[j] = "over"
      BY <3>2, QueueFact DEF OffersOwned
    <3>4. answer' = [answer EXCEPT ![j] = "building"]
      BY <3>1 DEF HearOffer
    <3> HIDE DEF j
    <3> QED
      BY <1>0, <3>2, <3>3, <3>4 DEF StageTypes
  <2>2. CASE Spoils \/ Answers
    BY <1>0, <2>2 DEF Spoils, Answers, AnswerFails, AnswerReady, StageTypes
  <2>3. CASE Agrees
    BY <1>0, <2>3 DEF Agrees, AcceptOffer, AcceptAnswer, ops, StageTypes
  <2>4. Drops \/ Captures \/ Offers \/ Flips => UNCHANGED answer
    BY Zenon DEF Drops, Denied, OfferFails, Captures, Captured, Offers, OfferReady, Flips,
       FlipDenied, FlipCaptured, FlipSwapped, FlipRefused
  <2>5. Leaves \/ Passes \/ Asked \/ Trickles \/ Refreshes \/ Controls \/ Breaks \/ UNCHANGED vars
        => UNCHANGED answer
    BY Frames, Zenon DEF ops, vars
  <2> QED
    BY <2>1, <2>2, <2>3, <2>4, <2>5, NextCases
<1>3. flip[k] = "none" /\ flip'[k] # "none" => \E e \in Ends : Holds(e, k) /\ Sharing(e)
  <2>1. CASE Controls
    <3>1. PICK e \in Ends :
            \/ FlipCamera(e) \/ \E j \in Shares : RemoteStream(e, j)
            \/ \E call \in {"torch", "preset"} : Adjust(e, call) \/ Adjusted(e, call)
      BY <2>1 DEF Controls
    <3>2. FlipCamera(e) => Sharing(e) /\ flip' = [flip EXCEPT ![slot[e].share] = "capturing"]
      BY DEF FlipCamera
    <3>3. ~FlipCamera(e) => UNCHANGED flip
      BY <3>1, Zenon DEF RemoteStream, Adjust, Adjusted, ops
    <3>4. Sharing(e) /\ slot[e].share = k => Holds(e, k)
      BY DEF Sharing, Holds
    <3> QED
      BY <1>0, <3>2, <3>3, <3>4 DEF StageTypes
  <2>2. CASE Flips
    BY <1>0, <2>2 DEF Flips, FlipDenied, FlipCaptured, FlipSwapped, FlipRefused, StageTypes
  <2>3. Drops \/ Captures \/ Offers \/ Offered \/ Answers \/ Agrees => UNCHANGED flip
    BY Zenon DEF Drops, Denied, OfferFails, Captures, Captured, Offers, OfferReady, Offered,
       HearOffer, Answers, AnswerReady, Agrees, AcceptOffer, AcceptAnswer, ops
  <2>4. Leaves \/ Passes \/ Asked \/ Trickles \/ Spoils \/ Refreshes \/ Breaks \/ UNCHANGED vars
        => UNCHANGED flip
    BY Frames, Zenon DEF ops, vars
  <2> QED
    BY <2>1, <2>2, <2>3, <2>4, NextCases
<1>4. /\ k \in late' => k \in late \/ flip[k] = "swapping"
      /\ k \in refresh' => k \in refresh \/ flip[k] = "swapping" \/ start'[k] = "over"
  <2>1. CASE Flips
    BY <2>1 DEF Flips, FlipDenied, FlipCaptured, FlipSwapped, FlipRefused
  <2>2. CASE Offers
    BY <1>0, <2>2 DEF Offers, OfferReady, StageTypes
  <2>3. CASE Refreshes
    BY <2>3 DEF Refreshes, RefreshCamera
  <2>4. Drops \/ Captures \/ Offered \/ Answers \/ Agrees => UNCHANGED <<refresh, late>>
    BY Zenon DEF Drops, Denied, OfferFails, Captures, Captured, Offered,
       HearOffer, Answers, AnswerReady, Agrees, AcceptOffer, AcceptAnswer, ops
  <2>5. Leaves \/ Passes \/ Asked \/ Trickles \/ Spoils \/ Controls \/ Breaks \/ UNCHANGED vars
        => UNCHANGED <<refresh, late>>
    BY Frames, Zenon DEF ops, vars
  <2> QED
    BY <2>1, <2>2, <2>3, <2>4, <2>5, NextCases
<1>5. \A e \in Ends : k \in said'[e] =>
        k \in said[e] \/ pc[e][k] # "none" \/ (start[k] = "building" /\ owner[k] = e)
  <2>1. CASE Trickles
    <3>1. PICK e \in Ends, j \in Shares : SendIce(e, j)
      BY <2>1 DEF Trickles
    <3>2. /\ pc[e][j] # "none" \/ (start[j] = "building" /\ owner[j] = e)
          /\ said' = [said EXCEPT ![e] = said[e] \cup {j}]
      BY <3>1 DEF SendIce
    <3> QED
      BY <1>0, <3>2 DEF IceTypes
  <2>2. Drops \/ Captures \/ Offers \/ Offered \/ Answers \/ Agrees \/ Flips => UNCHANGED said
    BY Zenon DEF Drops, Denied, OfferFails, Captures, Captured, Offers, OfferReady, Offered,
       HearOffer, Answers, AnswerReady, Agrees, AcceptOffer, AcceptAnswer, Flips,
       FlipDenied, FlipCaptured, FlipSwapped, FlipRefused, signals
  <2>3. Leaves \/ Passes \/ Asked \/ Spoils \/ Refreshes \/ Controls \/ Breaks \/ UNCHANGED vars
        => UNCHANGED said
    BY Frames, Zenon DEF signals, vars
  <2> QED
    BY <2>1, <2>2, <2>3, NextCases
<1> QED
  BY <1>1, <1>2, <1>3, <1>4, <1>5

LEMMA Lighting ==
  ASSUME TypeOK, [Next]_vars, NEW t \in live'
  PROVE  \/ t \in live
         \/ \E k \in Shares :
              \/ t = <<k, 0>> /\ start[k] = "prompt" /\ start'[k] = "building"
              \/ t = <<k, 1>> /\ flip[k] = "capturing" /\ flip'[k] = "swapping"
<1>0. StageTypes /\ SlotTypes
  BY TypeFact
<1>1. \A e : Released(e).live \subseteq live
  BY DEF Released
<1>2. CASE Captures
  BY <1>0, <1>1, <1>2 DEF Captures, Captured, StageTypes
<1>3. CASE Flips
  BY <1>0, <1>3 DEF Flips, FlipDenied, FlipCaptured, FlipSwapped, FlipRefused, StageTypes, media
<1>4. CASE live' \subseteq live
  BY <1>4
<1>5. ASSUME NEW e, NEW op, Release(e, op) PROVE live' \subseteq live
  BY <1>1, <1>5 DEF Release
<1>6. Leaves => live' \subseteq live
  BY <1>5, Zenon DEF Leaves, Stop, Unmount, Fails, HearStop
<1>7. Offered => live' \subseteq live
  BY <1>5 DEF Offered, HearOffer, media
<1>8. Drops \/ Offers => live' \subseteq live
  BY DEF Drops, Denied, OfferFails, Offers, OfferReady, media
<1>9. Agrees => live' \subseteq live
  <2>1. ASSUME NEW e, NEW j, NEW n, GivesUp(e, j, n) PROVE live' \subseteq live
    BY <1>5, <2>1 DEF GivesUp, media
  <2>2. Agrees => UNCHANGED media \/ \E e, j, n : GivesUp(e, j, n)
    BY Zenon DEF Agrees, AcceptOffer, AcceptAnswer
  <2>3. UNCHANGED media => live' \subseteq live
    BY DEF media
  <2> QED
    BY <2>1, <2>2, <2>3
<1>10. Breaks => live' \subseteq live
  BY <1>1 DEF Breaks, TrackEnded
<1>11. Answers => UNCHANGED media
  BY Zenon DEF Answers, AnswerReady
<1>12. Passes \/ Asked \/ Trickles \/ Spoils \/ Refreshes \/ Controls \/ UNCHANGED vars
       => UNCHANGED media
  BY Frames, Zenon DEF vars
<1>13. UNCHANGED media => live' \subseteq live
  BY DEF media
<1> QED
  BY <1>2, <1>3, <1>4, <1>6, <1>7, <1>8, <1>9, <1>10, <1>11, <1>12, <1>13, NextCases

LEMMA BegunStep ==
  ASSUME TypeOK, AllBegun, AllPlaced, AllTicketed, OffersOwned, [Next]_vars PROVE AllBegun'
<1> SUFFICES ASSUME NEW k \in Shares PROVE Begun(k)'
  BY DEF AllBegun
<1>0. Begun(k) /\ StageTypes /\ PeerTypes /\ SlotTypes /\ MediaTypes
  BY TypeFact DEF AllBegun
<1>1. start'[k] # "unused" => owner'[k] \in Ends
  BY <1>0, Stages, Appears DEF Begun
<1>2. ASSUME start'[k] \in {"unused", "prompt"}, NEW t \in live' PROVE t[1] # k
  <2>1. start[k] \in {"unused", "prompt"}
    BY <1>2, Stages
  <2>2. t \in live => t[1] # k
    BY <1>0, <2>1 DEF Begun
  <2>3. flip[k] = "none"
    BY <1>0, <2>1 DEF Begun
  <2> QED
    BY <1>2, <2>2, <2>3, Lighting
<1>3. ASSUME start'[k] # "over"
      PROVE  /\ answer'[k] = "none" /\ flip'[k] = "none" /\ k \notin late' /\ k \notin refresh'
             /\ \A e \in Ends : pc'[e][k] = "none"
             /\ \A e \in Ends : k \in said'[e] => start'[k] = "building" /\ owner'[k] = e
  <2>1. start[k] # "over"
    BY <1>3, Stages
  <2>2. /\ answer[k] = "none" /\ flip[k] = "none" /\ k \notin late /\ k \notin refresh
        /\ \A e \in Ends : pc[e][k] = "none"
        /\ \A e \in Ends : k \in said[e] => start[k] = "building" /\ owner[k] = e
    BY <1>0, <2>1 DEF Begun
  <2>3. \A e \in Ends : ~Holds(e, k)
    BY <2>1 DEF AllPlaced, Placed, Holds, Idle
  <2>4. ASSUME NEW e \in Ends PROVE pc'[e][k] = "none"
    <3>1. Hosts(e)
      BY HostStep
    <3> QED
      BY <1>0, <1>3, <2>1, <2>2, <3>1, PeerHistory
  <2>5. answer'[k] = "none" /\ flip'[k] = "none" /\ k \notin late' /\ k \notin refresh'
    BY <1>3, <2>1, <2>2, <2>3, Appears
  <2>6. ASSUME NEW e \in Ends, k \in said'[e] PROVE start'[k] = "building" /\ owner'[k] = e
    <3>1. start[k] = "building" /\ owner[k] = e
      BY <2>2, <2>6, Appears
    <3>2. start'[k] \notin {"unused", "prompt"} /\ owner'[k] = owner[k]
      BY <3>1, Stages
    <3> QED
      BY <1>0, <1>3, <3>1, <3>2, StageStep DEF StageTypes
  <2> QED
    BY <2>4, <2>5, <2>6
<1> QED
  BY <1>1, <1>2, <1>3 DEF Begun

(* What ends an operation takes its ticket away, if that is still current. *)
LEMMA Spent ==
  ASSUME TypeOK, AllBegun, [Next]_vars, NEW k \in Shares
  PROVE  /\ start[k] = "building" /\ start'[k] # "building" => <<"start", k>> \notin fresh'[owner[k]]
         /\ answer[k] = "building" /\ answer'[k] # "building" =>
              <<"answer", k>> \notin fresh'[Other(owner[k])]
<1>0. StageTypes /\ SlotTypes /\ CallTypes
  BY TypeFact
<1>1. ASSUME start[k] = "building", start'[k] # "building"
      PROVE  <<"start", k>> \notin fresh'[owner[k]]
  <2>0. owner[k] \in Ends
    BY <1>0, <1>1, Owners
  <2>1. CASE Asked
    BY <1>0, <1>1, <2>1 DEF Asked, Click, StageTypes
  <2>2. CASE Drops
    BY <1>0, <1>1, <2>0, <2>2 DEF Drops, Denied, OfferFails, StageTypes, SlotTypes
  <2>3. CASE Captures
    BY <1>0, <1>1, <2>3 DEF Captures, Captured, StageTypes
  <2>4. CASE Offers
    <3>1. PICK j \in Shares : OfferReady(j)
      BY <2>4 DEF Offers
    <3>2. j = k
      BY <1>0, <1>1, <3>1 DEF OfferReady, StageTypes
    <3>3. \/ /\ fresh' = [fresh EXCEPT ![owner[k]] = IF k \in Cameras THEN {<<"refresh", k>>} ELSE {}]
          \/ UNCHANGED fresh /\ <<"start", k>> \notin fresh[owner[k]]
      BY <3>1, <3>2, Zenon DEF OfferReady, SetSlot, IsCurrent
    <3> QED
      BY <1>0, <2>0, <3>3 DEF SlotTypes
  <2>5. Offered \/ Answers \/ Agrees \/ Flips => UNCHANGED start
    BY Zenon DEF Offered, HearOffer, Answers, AnswerReady, Agrees, AcceptOffer, AcceptAnswer,
       Flips, FlipDenied, FlipCaptured, FlipSwapped, FlipRefused, ops
  <2>6. Leaves \/ Passes \/ Trickles \/ Spoils \/ Refreshes \/ Controls \/ Breaks \/ UNCHANGED vars
        => UNCHANGED start
    BY Frames, Zenon DEF ops, vars
  <2> QED
    BY <1>1, <2>1, <2>2, <2>3, <2>4, <2>5, <2>6, NextCases
<1>2. ASSUME answer[k] = "building", answer'[k] # "building"
      PROVE  <<"answer", k>> \notin fresh'[Other(owner[k])]
  <2>0. Other(owner[k]) \in Ends
    BY <1>0, <1>2, Owners, OtherFact
  <2>1. CASE Offered
    <3>1. \E j : answer' = [answer EXCEPT ![j] = "building"]
      BY <2>1 DEF Offered, HearOffer
    <3> QED
      BY <1>0, <1>2, <3>1 DEF StageTypes
  <2>2. CASE Spoils
    BY <1>0, <1>2, <2>0, <2>2 DEF Spoils, AnswerFails, StageTypes, SlotTypes
  <2>3. CASE Answers
    <3>1. PICK j \in Shares : AnswerReady(j)
      BY <2>3 DEF Answers
    <3>2. j = k
      BY <1>0, <1>2, <3>1 DEF AnswerReady, StageTypes
    <3>3. \/ fresh' = [fresh EXCEPT ![Other(owner[k])] = {}]
          \/ UNCHANGED fresh /\ <<"answer", k>> \notin fresh[Other(owner[k])]
      BY <3>1, <3>2, Zenon DEF AnswerReady, SetSlot, IsCurrent
    <3> QED
      BY <1>0, <2>0, <3>3 DEF SlotTypes
  <2>4. CASE Agrees
    BY <1>0, <1>2, <2>4 DEF Agrees, AcceptOffer, AcceptAnswer, ops, StageTypes
  <2>5. Drops \/ Captures \/ Offers \/ Flips => UNCHANGED answer
    BY Zenon DEF Drops, Denied, OfferFails, Captures, Captured, Offers, OfferReady, Flips,
       FlipDenied, FlipCaptured, FlipSwapped, FlipRefused
  <2>6. Leaves \/ Passes \/ Asked \/ Trickles \/ Refreshes \/ Controls \/ Breaks \/ UNCHANGED vars
        => UNCHANGED answer
    BY Frames, Zenon DEF ops, vars
  <2> QED
    BY <1>2, <2>1, <2>2, <2>3, <2>4, <2>5, <2>6, NextCases
<1> QED
  BY <1>1, <1>2

LEMMA TicketStep ==
  ASSUME TypeOK, AllBegun, AllPlaced, AllTicketed, OffersOwned, [Next]_vars PROVE AllTicketed'
<1> SUFFICES ASSUME NEW x \in Ends, NEW k \in Shares
             PROVE  /\ <<"start", k>> \in fresh'[x] =>
                         start'[k] = "building" /\ owner'[k] = x /\ slot'[x].state = "idle"
                    /\ <<"answer", k>> \in fresh'[x] =>
                         answer'[k] = "building" /\ owner'[k] = Other(x) /\ slot'[x].state = "idle"
  BY DEF AllTicketed, Ticketed
<1>0. Begun(k) /\ Ticketed(x) /\ Stamps(x)
  BY HostStep DEF AllBegun, AllTicketed
<1>1. <<"start", k>> \notin Loose /\ <<"answer", k>> \notin Loose
  BY DEF Loose
<1>2. ASSUME start'[k] \in {"building", "over"} \/ answer'[k] # "none" PROVE owner'[k] = owner[k]
  BY <1>0, <1>2, Stages, Appears DEF Begun
<1>3. ASSUME <<"start", k>> \in fresh[x] /\ <<"start", k>> \in fresh'[x] /\ slot'[x].state = "idle"
      PROVE  start'[k] = "building" /\ owner'[k] = x /\ slot'[x].state = "idle"
  <2>1. start[k] = "building" /\ owner[k] = x
    BY <1>0, <1>3 DEF Ticketed
  <2> QED
    BY <1>2, <1>3, <2>1, Spent
<1>4. ASSUME <<"answer", k>> \in fresh[x] /\ <<"answer", k>> \in fresh'[x] /\ slot'[x].state = "idle"
      PROVE  answer'[k] = "building" /\ owner'[k] = Other(x) /\ slot'[x].state = "idle"
  <2>1. answer[k] = "building" /\ owner[k] = Other(x)
    BY <1>0, <1>4 DEF Ticketed
  <2> QED
    BY <1>2, <1>4, <2>1, Spent, OtherFact
<1>5. CASE fresh'[x] \subseteq Loose
  BY <1>1, <1>5
<1>6. CASE slot'[x] = slot[x] /\ fresh'[x] \subseteq fresh[x] \cup Loose
  <2>1. <<"start", k>> \in fresh[x] \/ <<"answer", k>> \in fresh[x] => slot[x].state = "idle"
    BY <1>0 DEF Ticketed
  <2> QED
    BY <1>1, <1>3, <1>4, <1>6, <2>1
<1>7. CASE slot'[x] = Idle /\ \E j \in Shares : fresh'[x] = {<<"start", j>>} /\ start'[j] = "building" /\ owner[j] = x
  <2>1. slot'[x].state = "idle"
    BY <1>7 DEF Idle
  <2> QED
    BY <1>2, <1>7, <2>1
<1>8. CASE /\ slot'[x] = Idle \/ (slot'[x] = slot[x] /\ slot[x].state = "idle")
           /\ \E j \in Shares : /\ fresh'[x] \in {fresh[x] \cup {<<"answer", j>>}, {<<"answer", j>>}}
                                /\ slot'[x] = slot[x] \/ fresh'[x] = {<<"answer", j>>}
                                /\ answer'[j] = "building" /\ owner[j] = Other(x)
  <2>1. slot'[x].state = "idle"
    BY <1>8 DEF Idle
  <2>2. <<"start", k>> \in fresh'[x] => <<"start", k>> \in fresh[x]
    BY <1>8
  <2>3. <<"answer", k>> \in fresh'[x] =>
          <<"answer", k>> \in fresh[x] \/ (answer'[k] = "building" /\ owner[k] = Other(x))
    BY <1>8
  <2> QED
    BY <1>2, <1>3, <1>4, <2>1, <2>2, <2>3
<1> QED
  BY <1>0, <1>5, <1>6, <1>7, <1>8 DEF Stamps
-----------------------------------------------------------------------------
(* Why each track that captures is lit.                                    *)
Lit(t) ==
  \/ start[t[1]] = "building" /\ t[2] = 0
  \/ Holds(owner[t[1]], t[1]) /\ t \in stream[t[1]]
  \/ flip[t[1]] = "swapping" /\ t[2] = 1
  \/ t[1] \in late /\ t[2] = 1
Lights == \A t \in live : Lit(t)

(* A share being offered has the track it was given, and one whose camera  *)
(* was ever flipped has had a connection at its owner.                     *)
Streams ==
  \A k \in Shares :
    /\ start[k] = "building" => stream[k] = {<<k, 0>>}
    /\ flip[k] # "none" => pc[owner[k]][k] # "none"

LEMMA StreamChange ==
  ASSUME TypeOK, [Next]_vars, NEW k \in Shares
  PROVE  /\ stream'[k] = stream[k] \/ start[k] = "prompt" \/ FlipSwapped(k)
         /\ start[k] # "building" /\ start'[k] = "building" => stream'[k] = {<<k, 0>>}
         /\ flip[k] = "swapping" /\ flip'[k] # "swapping" => FlipSwapped(k) \/ FlipRefused(k)
         /\ late \subseteq late'
<1>0. MediaTypes /\ StageTypes
  BY TypeFact
<1>1. stream'[k] = stream[k] \/ start[k] = "prompt" \/ FlipSwapped(k)
  <2>1. CASE Captures
    BY <1>0, <2>1 DEF Captures, Captured, MediaTypes
  <2>2. CASE Flips
    <3>1. PICK j \in Shares : FlipDenied(j) \/ FlipCaptured(j) \/ FlipSwapped(j) \/ FlipRefused(j)
      BY <2>2 DEF Flips
    <3>2. CASE FlipSwapped(j)
      <4>1. stream' = [stream EXCEPT ![j] = {<<j, 1>>}]
        BY <3>2 DEF FlipSwapped, Swap
      <4> QED
        BY <1>0, <3>2, <4>1 DEF MediaTypes
    <3> QED
      BY <3>1, <3>2 DEF FlipDenied, FlipCaptured, FlipRefused, media
  <2>3. Leaves \/ Offered => UNCHANGED stream
    BY Zenon DEF Leaves, Stop, Unmount, Fails, HearStop, Release, Offered, HearOffer, media
  <2>4. Drops \/ Offers \/ Answers \/ Breaks => UNCHANGED stream
    BY Zenon DEF Drops, Denied, OfferFails, Offers, OfferReady, Answers, AnswerReady, Breaks,
       TrackEnded, media
  <2>5. Agrees => UNCHANGED stream
    BY Zenon DEF Agrees, AcceptOffer, AcceptAnswer, GivesUp, Release, media
  <2>6. Passes \/ Asked \/ Trickles \/ Spoils \/ Refreshes \/ Controls \/ UNCHANGED vars
        => UNCHANGED stream
    BY Frames, Zenon DEF media, vars
  <2> QED
    BY <2>1, <2>2, <2>3, <2>4, <2>5, <2>6, NextCases
<1>2. start[k] # "building" /\ start'[k] = "building" => stream'[k] = {<<k, 0>>}
  <2>1. CASE Captures
    BY <1>0, <2>1 DEF Captures, Captured, MediaTypes, StageTypes
  <2>2. CASE Asked
    BY <1>0, <2>2 DEF Asked, Click, StageTypes
  <2>3. CASE Drops \/ Offers
    BY <1>0, <2>3 DEF Drops, Denied, OfferFails, Offers, OfferReady, StageTypes
  <2>4. Offered \/ Answers \/ Agrees \/ Flips => UNCHANGED start
    BY Zenon DEF Offered, HearOffer, Answers, AnswerReady, Agrees, AcceptOffer, AcceptAnswer,
       Flips, FlipDenied, FlipCaptured, FlipSwapped, FlipRefused, ops
  <2>5. Leaves \/ Passes \/ Trickles \/ Spoils \/ Refreshes \/ Controls \/ Breaks \/ UNCHANGED vars
        => UNCHANGED start
    BY Frames, Zenon DEF ops, vars
  <2> QED
    BY <2>1, <2>2, <2>3, <2>4, <2>5, NextCases
<1>3. flip[k] = "swapping" /\ flip'[k] # "swapping" => FlipSwapped(k) \/ FlipRefused(k)
  <2>1. CASE Flips
    <3>1. PICK j \in Shares : FlipDenied(j) \/ FlipCaptured(j) \/ FlipSwapped(j) \/ FlipRefused(j)
      BY <2>1 DEF Flips
    <3>2. FlipDenied(j) \/ FlipCaptured(j) => flip[j] = "capturing" /\ \E v : flip' = [flip EXCEPT ![j] = v]
      BY DEF FlipDenied, FlipCaptured
    <3>3. FlipSwapped(j) \/ FlipRefused(j) => flip' = [flip EXCEPT ![j] = "over"]
      BY DEF FlipSwapped, FlipRefused
    <3> QED
      BY <1>0, <3>1, <3>2, <3>3 DEF StageTypes
  <2>2. Controls => UNCHANGED flip \/ \E j : flip[j] = "none" /\ flip' = [flip EXCEPT ![j] = "capturing"]
    BY Zenon DEF Controls, FlipCamera, RemoteStream, Adjust, Adjusted, ops
  <2>3. Drops \/ Captures \/ Offers \/ Offered \/ Answers \/ Agrees => UNCHANGED flip
    BY Zenon DEF Drops, Denied, OfferFails, Captures, Captured, Offers, OfferReady, Offered,
       HearOffer, Answers, AnswerReady, Agrees, AcceptOffer, AcceptAnswer, ops
  <2>4. Leaves \/ Passes \/ Asked \/ Trickles \/ Spoils \/ Refreshes \/ Breaks \/ UNCHANGED vars
        => UNCHANGED flip
    BY Frames, Zenon DEF ops, vars
  <2> QED
    BY <1>0, <2>1, <2>2, <2>3, <2>4, NextCases DEF StageTypes
<1>4. late \subseteq late'
  <2>1. CASE Flips
    BY <2>1 DEF Flips, FlipDenied, FlipCaptured, FlipSwapped, FlipRefused
  <2>2. Drops \/ Captures \/ Offers \/ Offered \/ Answers \/ Agrees => UNCHANGED late
    BY Zenon DEF Drops, Denied, OfferFails, Captures, Captured, Offers, OfferReady, Offered,
       HearOffer, Answers, AnswerReady, Agrees, AcceptOffer, AcceptAnswer, ops
  <2>3. Leaves \/ Passes \/ Asked \/ Trickles \/ Spoils \/ Refreshes \/ Controls \/ Breaks
        \/ UNCHANGED vars => UNCHANGED late
    BY Frames, Zenon DEF vars
  <2> QED
    BY <2>1, <2>2, <2>3, NextCases
<1> QED
  BY <1>1, <1>2, <1>3, <1>4

(* The track of an offer that fails, or was overtaken, is stopped.         *)
LEMMA OfferEnds ==
  ASSUME TypeOK, AllBegun, [Next]_vars, NEW k \in Shares, start[k] = "building", start'[k] # "building"
  PROVE  \/ Holds(owner[k], k)' /\ owner'[k] = owner[k] /\ stream'[k] = stream[k]
         \/ live' = live \ stream[k]
<1>0. StageTypes /\ SlotTypes /\ CallTypes
  BY TypeFact
<1>1. owner[k] \in Ends
  BY <1>0, Owners
<1>2. CASE Asked
  BY <1>0, <1>2 DEF Asked, Click, StageTypes
<1>3. CASE Drops
  BY <1>0, <1>3 DEF Drops, Denied, OfferFails, StageTypes
<1>4. CASE Captures
  BY <1>0, <1>4 DEF Captures, Captured, StageTypes
<1>5. CASE Offers
  <2>1. PICK j \in Shares : OfferReady(j)
    BY <1>5 DEF Offers
  <2>2. j = k
    BY <1>0, <2>1 DEF OfferReady, StageTypes
  <2>3. \/ /\ slot' = [slot EXCEPT ![owner[k]] = [Idle EXCEPT !.state = "offering", !.share = k]]
           /\ UNCHANGED <<owner, stream>>
        \/ live' = live \ stream[k]
    BY <2>1, <2>2, Zenon DEF OfferReady, SetSlot
  <2>4. /\ [Idle EXCEPT !.state = "offering", !.share = k].state = "offering"
        /\ [Idle EXCEPT !.state = "offering", !.share = k].share = k
    BY DEF Idle
  <2>5. ASSUME slot' = [slot EXCEPT ![owner[k]] = [Idle EXCEPT !.state = "offering", !.share = k]],
               UNCHANGED owner
        PROVE  Holds(owner[k], k)'
    BY <1>0, <1>1, <2>4, <2>5 DEF SlotTypes, Holds
  <2> QED
    BY <2>3, <2>5
<1>6. Offered \/ Answers \/ Agrees \/ Flips => UNCHANGED start
  BY Zenon DEF Offered, HearOffer, Answers, AnswerReady, Agrees, AcceptOffer, AcceptAnswer,
     Flips, FlipDenied, FlipCaptured, FlipSwapped, FlipRefused, ops
<1>7. Leaves \/ Passes \/ Trickles \/ Spoils \/ Refreshes \/ Controls \/ Breaks \/ UNCHANGED vars
      => UNCHANGED start
  BY Frames, Zenon DEF ops, vars
<1> QED
  BY <1>2, <1>3, <1>4, <1>5, <1>6, <1>7, NextCases

(* A slot that is emptied puts out what its share was capturing.           *)
LEMMA Dark ==
  ASSUME TypeOK, AllBegun, AllPlaced, [Next]_vars, NEW x \in Ends, Sharing(x),
         slot'[x].state = "idle", NEW t \in stream[slot[x].share], t[1] = slot[x].share
  PROVE  t \notin live'
<1>0. StageTypes /\ SlotTypes /\ CallTypes
  BY TypeFact
<1>1. slot[x].state # "idle"
  BY DEF Sharing
<1>2. \A e, s, op : SetSlot(e, s, op) /\ e # x => slot'[x] = slot[x]
  BY <1>0 DEF SlotTypes, SetSlot
<1>3. \A s, op : SetSlot(x, s, op) => slot'[x] = s
  BY <1>0 DEF SlotTypes, SetSlot
<1>4. t \notin Released(x).live
  BY DEF Released
<1>5. ASSUME NEW e, NEW op, Release(e, op) PROVE t \notin live'
  BY <1>1, <1>2, <1>4, <1>5 DEF Release
<1>6. CASE slot' = slot
  BY <1>1, <1>6
<1>7. ASSUME NEW e, NEW s, NEW op, SetSlot(e, s, op), s.state # "idle" PROVE FALSE
  BY <1>1, <1>2, <1>3, <1>7
<1>8. CASE Leaves
  BY <1>5, <1>8, Zenon DEF Leaves, Stop, Unmount, Fails, HearStop
<1>9. CASE Offered
  BY <1>5, <1>6, <1>9, Zenon DEF Offered, HearOffer
<1>10. CASE Drops
  BY <1>6, <1>10, Zenon DEF Drops, Denied, OfferFails
<1>11. CASE Captures
  <2>1. PICK k \in Shares : Captured(k)
    BY <1>11 DEF Captures
  <2>2. SetSlot(owner[k], Idle, {<<"start", k>>}) /\ live' = Released(owner[k]).live \cup {<<k, 0>>}
    BY <2>1 DEF Captured
  <2>3. owner[k] = x
    BY <1>1, <1>2, <2>2
  <2>4. k # slot[x].share
    BY <1>1, <2>1 DEF Captured, AllPlaced, Placed, Idle
  <2> QED
    BY <1>4, <2>2, <2>3, <2>4
<1>12. CASE Offers
  <2>1. PICK k \in Shares : OfferReady(k)
    BY <1>12 DEF Offers
  <2>2. slot' = slot \/ \E op : SetSlot(owner[k], [Idle EXCEPT !.state = "offering", !.share = k], op)
    BY <2>1, Zenon DEF OfferReady
  <2>3. [Idle EXCEPT !.state = "offering", !.share = k].state # "idle"
    BY DEF Idle
  <2> QED
    BY <1>6, <1>7, <2>2, <2>3
<1>13. CASE Answers
  <2>1. PICK k \in Shares : AnswerReady(k)
    BY <1>13 DEF Answers
  <2>2. slot' = slot \/ SetSlot(Other(owner[k]), [Idle EXCEPT !.state = "receiving", !.share = k], {})
    BY <2>1, Zenon DEF AnswerReady
  <2>3. [Idle EXCEPT !.state = "receiving", !.share = k].state # "idle"
    BY DEF Idle
  <2> QED
    BY <1>6, <1>7, <2>2, <2>3
<1>14. CASE Agrees
  <2>1. Agrees => \/ slot' = slot \/ \E e : Release(e, {})
                  \/ \E e \in Ends : SetSlot(e, [slot[e] EXCEPT !.state = "sending"], {})
    BY Zenon DEF Agrees, AcceptOffer, AcceptAnswer, GivesUp
  <2>2. \A e \in Ends : [slot[e] EXCEPT !.state = "sending"].state # "idle"
    BY <1>0 DEF SlotTypes, Slots
  <2> QED
    BY <1>5, <1>6, <1>7, <1>14, <2>1, <2>2
<1>15. CASE Flips \/ Refreshes
  <2>1. slot' = slot \/ \E e, c : Sharing(e) /\ SetSlot(e, [slot[e] EXCEPT !.camera = c], {})
    BY <1>15, Zenon DEF Flips, FlipDenied, FlipCaptured, FlipSwapped, FlipRefused, UpdateCamera,
       Refreshes, RefreshCamera
  <2>2. ASSUME NEW e, NEW c, Sharing(e), SetSlot(e, [slot[e] EXCEPT !.camera = c], {}) PROVE FALSE
    <3>1. e = x
      BY <1>1, <1>2, <2>2
    <3>2. [slot[x] EXCEPT !.camera = c].state = slot[x].state
      BY <1>0 DEF SlotTypes, Slots
    <3> QED
      BY <1>1, <1>7, <2>2, <3>1, <3>2
  <2> QED
    BY <1>6, <2>1, <2>2
<1>16. CASE Controls
  <2>1. PICK e \in Ends :
          \/ FlipCamera(e) \/ \E j \in Shares : RemoteStream(e, j)
          \/ \E call \in {"torch", "preset"} : Adjust(e, call) \/ Adjusted(e, call)
    BY <1>16 DEF Controls
  <2>2. CASE slot' # slot
    <3>1. \/ \E op : SetSlot(e, [slot[e] EXCEPT !.camera = "busy"], op)
          \/ SetSlot(e, [slot[e] EXCEPT !.seen = TRUE], {}) \/ SetSlot(e, slot[e], {})
      BY <2>1, <2>2, Zenon DEF FlipCamera, RemoteStream, Adjust, Adjusted
    <3>2. /\ [slot[x] EXCEPT !.camera = "busy"].state = slot[x].state
          /\ [slot[x] EXCEPT !.seen = TRUE].state = slot[x].state
      BY <1>0 DEF SlotTypes, Slots
    <3> QED
      BY <1>1, <1>2, <1>3, <3>1, <3>2
  <2> QED
    BY <1>6, <2>2
<1>17. CASE Breaks
  <2>1. PICK w \in Tracks : TrackEnded(w)
    BY <1>17 DEF Breaks
  <2>2. \/ slot' = slot
        \/ SetSlot(owner[w[1]], Idle, {}) /\ live' = Released(owner[w[1]]).live \ {w}
    BY <2>1 DEF TrackEnded
  <2> QED
    BY <1>1, <1>2, <1>4, <1>6, <2>2
<1>18. Passes \/ Asked \/ Trickles \/ Spoils \/ UNCHANGED vars => slot' = slot
  BY Frames, Zenon DEF vars
<1> QED
  BY <1>6, <1>8, <1>9, <1>10, <1>11, <1>12, <1>13, <1>14, <1>15, <1>16, <1>17, <1>18, NextCases

LEMMA StreamsStep ==
  ASSUME TypeOK, AllBegun, AllPlaced, AllTicketed, OffersOwned, Streams, [Next]_vars
  PROVE  Streams'
<1> SUFFICES ASSUME NEW k \in Shares
             PROVE  /\ start'[k] = "building" => stream'[k] = {<<k, 0>>}
                    /\ flip'[k] # "none" => pc'[owner'[k]][k] # "none"
  BY DEF Streams
<1>0. StageTypes /\ PeerTypes /\ SlotTypes /\ Begun(k)
  BY TypeFact DEF AllBegun
<1>1. ASSUME start'[k] = "building" PROVE stream'[k] = {<<k, 0>>}
  <2>1. CASE start[k] = "building"
    <3>1. stream[k] = {<<k, 0>>} /\ flip[k] = "none"
      BY <1>0, <2>1 DEF Streams, Begun
    <3>2. ~FlipSwapped(k)
      BY <3>1 DEF FlipSwapped
    <3> QED
      BY <2>1, <3>1, <3>2, StreamChange
  <2> QED
    BY <1>1, <2>1, StreamChange
<1>2. ASSUME flip'[k] # "none" PROVE pc'[owner'[k]][k] # "none"
  <2>1. start[k] = "over" /\ pc[owner[k]][k] # "none"
    <3>1. CASE flip[k] = "none"
      <4>1. PICK e \in Ends : Holds(e, k) /\ Sharing(e)
        BY <1>2, <3>1, Appears
      <4> QED
        BY <4>1 DEF AllPlaced, Placed, Holds, Idle
    <3> QED
      BY <1>0, <3>1 DEF Streams, Begun
  <2>2. owner'[k] = owner[k] /\ owner[k] \in Ends
    BY <1>0, <2>1, Stages DEF Begun
  <2>3. Hosts(owner[k])
    BY <2>2, HostStep
  <2> QED
    BY <1>0, <2>1, <2>2, <2>3, PeerHistory
<1> QED
  BY <1>1, <1>2

(* A share that a slot holds keeps its place, or goes out.                 *)
LEMMA HoldStep ==
  ASSUME TypeOK, AllBegun, AllPlaced, AllTicketed, OffersOwned, [Next]_vars, NEW k \in Shares,
         Holds(owner[k], k), owner[k] \in Ends, NEW t \in live', t[1] = k, t \in stream[k]
  PROVE  Holds(owner[k], k)'
<1> DEFINE x == owner[k]
<1>1. slot[x].state # "idle" /\ slot[x].share = k /\ Placed(x) /\ Hosts(x) /\ slot[x] \in Slots
  BY TypeFact, HostStep DEF Holds, AllPlaced, SlotTypes
<1>2. start[k] = "over" /\ Sharing(x)
  BY <1>1, OtherFact DEF Placed, Idle, Sharing, Slots
<1>3. owner'[k] = owner[k]
  BY <1>2, Stages
<1>4. slot'[x] = slot[x] \/ SameShare(slot[x], slot'[x]) \/ slot'[x] = Idle
  BY <1>1 DEF Hosts, Takes
<1>5. slot'[x] # Idle
  BY <1>1, <1>2, Dark DEF Idle
<1> QED
  BY <1>1, <1>3, <1>4, <1>5 DEF Holds, SameShare

LEMMA LightsStep ==
  ASSUME TypeOK, AllBegun, AllPlaced, AllTicketed, OffersOwned, NoSpareConnection, Streams,
         Lights, [Next]_vars
  PROVE  Lights'
<1> SUFFICES ASSUME NEW t \in live' PROVE Lit(t)'
  BY DEF Lights
<1> DEFINE k == t[1]
<1>0. /\ StageTypes /\ PeerTypes /\ SlotTypes /\ MediaTypes
      /\ TypeOK' /\ AllBegun' /\ AllPlaced'
  BY TypeFact, NextTypeOK, BegunStep, PlacedStep
<1>1. t \in Tracks /\ k \in Shares
  <2>1. t \in Tracks
    BY <1>0 DEF TypeOK
  <2> QED
    BY <2>1 DEF Tracks
<1> HIDE DEF k
<1>2. CASE t \notin live
  BY <1>1, <1>2, Lighting DEF Lit, k
<1>3. ASSUME t \in live PROVE Lit(t)'
  <2>1. t = <<k, t[2]>> /\ t[2] \in {0, 1}
    BY <1>1 DEF Tracks, k
  <2>2. CASE start[k] = "building" /\ t[2] = 0
    <3>1. stream[k] = {t}
      BY <1>1, <2>1, <2>2 DEF Streams
    <3>2. flip[k] = "none"
      BY <1>1, <2>2 DEF AllBegun, Begun
    <3>3. CASE start'[k] # "building"
      BY <1>1, <2>2, <3>1, <3>3, OfferEnds DEF Lit, k
    <3> QED
      BY <2>2, <3>3 DEF Lit, k
  <2>3. CASE Holds(owner[k], k) /\ t \in stream[k]
    <3>1. start[k] # "unused" /\ owner[k] \in Ends
      <4>1. owner[k] \in Ends
        BY <1>0, <1>1, <1>3, Owners DEF TypeOK, CallTypes, k
      <4> QED
        BY <1>1, <2>3, <4>1 DEF AllPlaced, Placed, Holds, Idle
    <3>2. Holds(owner[k], k)' /\ owner'[k] = owner[k]
      BY <1>1, <2>3, <3>1, HoldStep, Stages DEF k
    <3>3. t \in stream'[k]
      <4>1. CASE FlipSwapped(k)
        <5>1. live' = live \ {<<k, 0>>} /\ stream' = [stream EXCEPT ![k] = {<<k, 1>>}]
          BY <4>1 DEF FlipSwapped, Swap
        <5> QED
          BY <1>0, <1>1, <2>1, <5>1 DEF MediaTypes
      <4>2. start[k] = "over"
        BY <1>1, <2>3, <3>1 DEF AllPlaced, Placed, Holds, Idle
      <4> QED
        BY <1>1, <2>3, <4>1, <4>2, StreamChange
    <3> QED
      BY <3>2, <3>3 DEF Lit, k
  <2>4. CASE flip[k] = "swapping" /\ t[2] = 1
    <3>1. CASE flip'[k] = "swapping"
      BY <2>4, <3>1 DEF Lit, k
    <3>2. CASE FlipSwapped(k)
      <4>1. /\ stream' = [stream EXCEPT ![k] = {<<k, 1>>}] /\ UNCHANGED <<slot, owner>>
            /\ late' = IF pc[owner[k]][k] = "closed" THEN late \cup {k} ELSE late
        BY <3>2 DEF FlipSwapped, Swap
      <4>2. owner[k] \in Ends /\ pc[owner[k]][k] # "none"
        BY <1>1, <2>4 DEF Streams, AllBegun, Begun
      <4>3. Holds(owner[k], k) \/ pc[owner[k]][k] = "closed"
        BY <1>0, <1>1, <4>2 DEF NoSpareConnection, PeerTypes
      <4>4. CASE Holds(owner[k], k)
        <5>1. Holds(owner[k], k)' /\ owner'[k] = owner[k]
          BY <4>1, <4>4 DEF Holds
        <5>2. t \in stream'[k]
          BY <1>0, <1>1, <2>1, <2>4, <4>1 DEF MediaTypes
        <5> QED
          BY <5>1, <5>2 DEF Lit, k
      <4>5. CASE pc[owner[k]][k] = "closed"
        BY <2>4, <4>1, <4>5 DEF Lit, k
      <4> QED
        BY <4>3, <4>4, <4>5
    <3>3. CASE FlipRefused(k)
      <4>1. live' = live \ {<<k, 1>>}
        BY <3>3 DEF FlipRefused
      <4> QED
        BY <2>1, <2>4, <4>1
    <3> QED
      BY <1>1, <2>4, <3>1, <3>2, <3>3, StreamChange
  <2>5. CASE k \in late /\ t[2] = 1
    BY <1>1, <2>5, StreamChange DEF Lit, k
  <2> QED
    BY <1>3, <2>2, <2>3, <2>4, <2>5 DEF Lights, Lit, k
<1> QED
  BY <1>2, <1>3
-----------------------------------------------------------------------------
(* An end gets one offer of a share, and has not begun to answer it while  *)
(* that is on its way.                                                     *)
OfferOf(k) == [t |-> "offer", k |-> k]
IceOf(k) == [t |-> "ice", k |-> k]
Once(s, k) == \A i, j \in 1..Len(s) : i < j => ~(s[i] = OfferOf(k) /\ s[j] = OfferOf(k))
Queued ==
  \A e \in Ends, k \in Shares :
    Once(net[e], k) /\ (OfferOf(k) \in ToSet(net[e]) => answer[k] = "none")

LEMMA OnceFact ==
  ASSUME NEW s \in Seq(Signals), NEW k, Once(s, k)
  PROVE  /\ s # <<>> => Once(Tail(s), k)
         /\ s # <<>> /\ Head(s) = OfferOf(k) => OfferOf(k) \notin ToSet(Tail(s))
         /\ \A m : m # OfferOf(k) \/ OfferOf(k) \notin ToSet(s) => Once(Append(s, m), k)
<1>1. ASSUME s # <<>> PROVE Once(Tail(s), k) /\ (Head(s) = OfferOf(k) => OfferOf(k) \notin ToSet(Tail(s)))
  <2>1. /\ Len(s) \in Nat \ {0} /\ Len(Tail(s)) = Len(s) - 1 /\ Head(s) = s[1]
        /\ DOMAIN Tail(s) = 1..(Len(s) - 1)
        /\ \A i \in 1..(Len(s) - 1) : Tail(s)[i] = s[i + 1]
    BY <1>1
  <2>2. ASSUME NEW i \in 1..(Len(s) - 1), NEW j \in 1..(Len(s) - 1), i < j
        PROVE  ~(Tail(s)[i] = OfferOf(k) /\ Tail(s)[j] = OfferOf(k))
    <3>1. i + 1 \in 1..Len(s) /\ j + 1 \in 1..Len(s) /\ i + 1 < j + 1
      BY <2>1, <2>2
    <3> QED
      BY <2>1, <3>1 DEF Once
  <2>3. ASSUME NEW j \in 1..(Len(s) - 1), Head(s) = OfferOf(k) PROVE Tail(s)[j] # OfferOf(k)
    <3>1. 1 \in 1..Len(s) /\ j + 1 \in 1..Len(s) /\ 1 < j + 1
      BY <2>1
    <3> QED
      BY <2>1, <2>3, <3>1 DEF Once
  <2>4. Once(Tail(s), k)
    BY <2>1, <2>2 DEF Once
  <2> QED
    BY <2>1, <2>3, <2>4 DEF ToSet
<1>2. ASSUME NEW m, m # OfferOf(k) \/ OfferOf(k) \notin ToSet(s) PROVE Once(Append(s, m), k)
  <2> DEFINE a == Append(s, m)
  <2>1. /\ Len(s) \in Nat /\ Len(a) = Len(s) + 1 /\ DOMAIN s = 1..Len(s)
        /\ a[Len(s) + 1] = m /\ \A i \in 1..Len(s) : a[i] = s[i]
    OBVIOUS
  <2> HIDE DEF a
  <2>2. ASSUME NEW i \in 1..Len(a), NEW j \in 1..Len(a), i < j
        PROVE  ~(a[i] = OfferOf(k) /\ a[j] = OfferOf(k))
    <3>1. i \in 1..Len(s) /\ a[i] = s[i]
      BY <2>1, <2>2
    <3>2. CASE j \in 1..Len(s)
      BY <2>1, <2>2, <3>1, <3>2 DEF Once
    <3>3. CASE j = Len(s) + 1
      <4>1. a[j] = m /\ a[i] \in ToSet(s)
        BY <2>1, <3>1, <3>3 DEF ToSet
      <4> QED
        BY <1>2, <4>1
    <3> QED
      BY <2>1, <3>2, <3>3
  <2> QED
    BY <2>2 DEF Once, a
<1> QED
  BY <1>1, <1>2

LEMMA SaidStep ==
  ASSUME TypeOK, [Next]_vars, NEW e \in Ends, NEW k \in Shares
  PROVE  /\ k \in said[e] => k \in said'[e]
         /\ k \notin said[e] /\ k \in said'[e] => IceOf(k) \in ToSet(net'[Other(e)])
<1>0. IceTypes /\ NetTypes
  BY TypeFact
<1>1. CASE Trickles
  <2>1. PICK x \in Ends, j \in Shares : SendIce(x, j)
    BY <1>1 DEF Trickles
  <2>2. said' = [said EXCEPT ![x] = said[x] \cup {j}] /\ net' = Sent(x, 0, <<IceOf(j)>>)
    BY <2>1 DEF SendIce, IceOf
  <2>3. IceOf(j) \in Signals
    BY SignalFact DEF IceOf
  <2>4. net'[Other(x)] = Append(net[Other(x)], IceOf(j)) /\ net[Other(x)] \in Seq(Signals)
    BY <1>0, <2>2, <2>3, SentFact, OtherFact DEF NetTypes
  <2>5. IceOf(j) \in ToSet(net'[Other(x)])
    BY <2>4, QueueFact
  <2> QED
    BY <1>0, <2>2, <2>5 DEF IceTypes
<1>2. Drops \/ Captures \/ Offers \/ Offered \/ Answers \/ Agrees \/ Flips => UNCHANGED said
  BY Zenon DEF Drops, Denied, OfferFails, Captures, Captured, Offers, OfferReady, Offered,
     HearOffer, Answers, AnswerReady, Agrees, AcceptOffer, AcceptAnswer, Flips,
     FlipDenied, FlipCaptured, FlipSwapped, FlipRefused, signals
<1>3. Leaves \/ Passes \/ Asked \/ Spoils \/ Refreshes \/ Controls \/ Breaks \/ UNCHANGED vars
      => UNCHANGED said
  BY Frames, Zenon DEF signals, vars
<1> QED
  BY <1>1, <1>2, <1>3, NextCases

(* The answer to an offer is begun when the offer is heard, and goes on.   *)
Hearing(k) ==
  \E x \in Ends : /\ net[x] # <<>> /\ Head(net[x]) = OfferOf(k) /\ net'[x] = Tail(net[x])
LEMMA AnswerChange ==
  ASSUME TypeOK, AllBegun, [Next]_vars, NEW k \in Shares
  PROVE  \/ answer'[k] = answer[k] \/ Hearing(k)
         \/ answer[k] \in {"building", "accepting"} /\ answer'[k] \in {"accepting", "over"}
<1> DEFINE G == \/ answer'[k] = answer[k] \/ Hearing(k)
                \/ answer[k] \in {"building", "accepting"} /\ answer'[k] \in {"accepting", "over"}
<1>0. StageTypes /\ NetTypes
  BY TypeFact
<1>1. CASE Offered
  <2>1. PICK x \in Ends : HearOffer(x)
    BY <1>1 DEF Offered
  <2> DEFINE j == Head(net[x]).k
  <2>2. Head(net[x]) = OfferOf(j) /\ j \in Shares /\ net[x] # <<>> /\ net[x] \in Seq(Signals)
    BY <1>0, <2>1, HeadFact, SignalFact DEF HearOffer, Next1, NetTypes, OfferOf
  <2>3. answer' = [answer EXCEPT ![j] = "building"]
    BY <2>1 DEF HearOffer
  <2>4. net'[x] = Tail(net[x])
    <3>1. net' = Sent(x, 1, <<>>) \/ net' = Sent(x, 1, Goodbye(x))
      BY <2>1 DEF HearOffer
    <3> DEFINE m == [t |-> "stop"]
    <3>2. m \in Signals /\ \E r \in {<<>>, <<m>>} : net' = Sent(x, 1, r)
      BY <3>1, Goodbyes, SignalFact
    <3> HIDE DEF m
    <3>3. PICK r \in {<<>>, <<m>>} : net' = Sent(x, 1, r)
      BY <3>2
    <3>4. NetTypes /\ net[x] # <<>>
      BY <1>0, <2>2
    <3>5. net'[x] = IF 1 = 0 THEN net[x] ELSE Tail(net[x])
      BY <3>2, <3>3, <3>4, SentFact, Zenon
    <3> QED
      BY <3>5
  <2> HIDE DEF j
  <2>5. CASE j = k
    BY <2>2, <2>4, <2>5 DEF Hearing
  <2>6. CASE j # k
    BY <1>0, <2>2, <2>3, <2>6 DEF StageTypes
  <2> QED
    BY <2>5, <2>6
<1> HIDE DEF G
<1>2. Spoils \/ Answers => G
  BY <1>0 DEF Spoils, Answers, AnswerFails, AnswerReady, StageTypes, G
<1>3. Agrees => G
  BY <1>0 DEF Agrees, AcceptOffer, AcceptAnswer, ops, StageTypes, G
<1>4. UNCHANGED answer => G
  BY DEF G
<1>5. Drops \/ Captures \/ Offers \/ Flips => UNCHANGED answer
  BY Zenon DEF Drops, Denied, OfferFails, Captures, Captured, Offers, OfferReady, Flips,
     FlipDenied, FlipCaptured, FlipSwapped, FlipRefused
<1>6. Leaves \/ Passes \/ Asked \/ Trickles \/ Refreshes \/ Controls \/ Breaks \/ UNCHANGED vars
      => UNCHANGED answer
  BY Frames, Zenon DEF ops, vars
<1> QED
  BY <1>1, <1>2, <1>3, <1>4, <1>5, <1>6, NextCases DEF G

LEMMA QueuedStep ==
  ASSUME TypeOK, AllBegun, AllPlaced, AllTicketed, OffersOwned, Queued, [Next]_vars
  PROVE  Queued'
<1> SUFFICES ASSUME NEW e \in Ends, NEW k \in Shares
             PROVE  /\ Once(net'[e], k)
                    /\ OfferOf(k) \in ToSet(net'[e]) => answer'[k] = "none"
  BY DEF Queued, Once, OfferOf
<1>0. NetTypes /\ Carries(e) /\ net[e] \in Seq(Signals) /\ Other(e) \in Ends /\ Other(Other(e)) = e
  BY TypeFact, NetStep, OtherFact DEF NetTypes
<1>1. Once(net[e], k) /\ (OfferOf(k) \in ToSet(net[e]) => answer[k] = "none")
  BY DEF Queued
<1>2. Said(e, OfferOf(k)) => start[k] = "building" /\ answer[k] = "none" /\ OfferOf(k) \notin ToSet(net[e])
  BY DEF Said, OfferOf, AllBegun, Begun, OffersOwned
<1>3. Once(net'[e], k)
  <2>1. CASE net'[e] = net[e] \/ (net[e] # <<>> /\ net'[e] = Tail(net[e]))
    BY <1>0, <1>1, <2>1, OnceFact
  <2>2. CASE \E m \in Signals : net'[e] = Append(net[e], m) /\ Said(e, m)
    BY <1>0, <1>1, <1>2, <2>2, OnceFact
  <2> QED
    BY <1>0, <2>1, <2>2 DEF Carries
<1>4. ASSUME OfferOf(k) \in ToSet(net'[e]) PROVE answer'[k] = "none"
  <2>1. answer[k] = "none"
    BY <1>0, <1>1, <1>2, <1>4, CarriedFact
  <2>2. CASE OfferOf(k) \in ToSet(net[e])
    <3>1. owner[k] = Other(e)
      BY <2>2 DEF OffersOwned, OfferOf
    <3>2. ASSUME Hearing(k) PROVE FALSE
      <4>1. PICK x \in Ends : net[x] # <<>> /\ Head(net[x]) = OfferOf(k) /\ net'[x] = Tail(net[x])
        BY <3>2 DEF Hearing
      <4>2. net[x] \in Seq(Signals)
        BY <1>0 DEF NetTypes
      <4>3. owner[k] = Other(x)
        BY <4>1, <4>2, QueueFact DEF OffersOwned, OfferOf
      <4>4. x = e
        BY <3>1, <4>3, OtherFact
      <4> QED
        BY <1>1, <1>4, <4>1, <4>2, <4>4, OnceFact
    <3> QED
      BY <2>1, <3>2, AnswerChange
  <2>3. CASE Said(e, OfferOf(k))
    BY <1>2, <2>1, <2>3, Appears
  <2> QED
    BY <1>0, <1>4, <2>2, <2>3, CarriedFact
<1> QED
  BY <1>3, <1>4

(* Only HearIce takes a candidate off a queue while the panel is there.    *)
LEMMA Delivered ==
  ASSUME TypeOK, AllBegun, [Next]_vars, NEW e \in Ends, NEW k \in Shares,
         IceOf(k) \in ToSet(net[e]), IceOf(k) \notin ToSet(net'[e]), panel[e]
  PROVE  HearIce(e) /\ net[e] # <<>> /\ Head(net[e]) = IceOf(k) /\ net'[e] = Tail(net[e])
<1>0. Carries(e) /\ net[e] \in Seq(Signals)
  BY TypeFact, NetStep DEF NetTypes
<1>1. ~(net'[e] = net[e]) /\ ~(\E m \in Signals : net'[e] = Append(net[e], m))
  BY <1>0, QueueFact
<1>2. net[e] # <<>> /\ net'[e] = Tail(net[e]) /\ Drained(e)
  BY <1>0, <1>1 DEF Carries
<1>3. Head(net[e]) = IceOf(k)
  BY <1>0, <1>2, QueueFact
<1> QED
  BY <1>2, <1>3 DEF Drained, IceOf

(* An answer's ticket is given for an offer that is heard.                 *)
LEMMA Answering ==
  ASSUME TypeOK, AllBegun, [Next]_vars, NEW e \in Ends, NEW k \in Shares
  PROVE  <<"answer", k>> \in fresh'[e] =>
           <<"answer", k>> \in fresh[e] \/ (panel[e] /\ OfferOf(k) \in ToSet(net[e]))
<1> DEFINE G == <<"answer", k>> \in fresh'[e] => <<"answer", k>> \in fresh[e]
<1>0. SlotTypes /\ IceTypes /\ NetTypes /\ StageTypes /\ CallTypes
  BY TypeFact
<1>1. ASSUME <<"answer", k>> \in fresh'[e]
      PROVE  <<"answer", k>> \in fresh[e] \/ (panel[e] /\ OfferOf(k) \in ToSet(net[e]))
  <2>1. ASSUME NEW x, NEW s, NEW op, SetSlot(x, s, op), <<"answer", k>> \notin op PROVE G
    BY <1>0, <2>1 DEF SlotTypes, SetSlot
  <2>2. ASSUME UNCHANGED fresh PROVE G
    BY <2>2
  <2>3. ASSUME NEW x, NEW S, fresh' = [fresh EXCEPT ![x] = @ \ S] PROVE G
    BY <1>0, <2>3 DEF SlotTypes
  <2> HIDE DEF G
  <2>4. \A j : <<"answer", k>> # <<"start", j>> /\ <<"answer", k>> # <<"refresh", j>> /\ <<"answer", k>> # <<"flip", j>>
    OBVIOUS
  <2>5. Leaves => G
    BY <2>1 DEF Leaves, Stop, Unmount, Fails, HearStop, Release
  <2>6. CASE Offered
    <3>1. PICK x \in Ends : HearOffer(x)
      BY <2>6 DEF Offered
    <3> DEFINE j == Head(net[x]).k
    <3>2. Head(net[x]) = OfferOf(j) /\ j \in Shares /\ net[x] # <<>> /\ net[x] \in Seq(Signals) /\ panel[x]
      BY <1>0, <3>1, HeadFact, SignalFact DEF HearOffer, Next1, NetTypes, OfferOf
    <3>3. \/ fresh' = [fresh EXCEPT ![x] = fresh[x] \cup {<<"answer", j>>}]
          \/ fresh' = [fresh EXCEPT ![x] = {<<"answer", j>>}]
      BY <3>1 DEF HearOffer, Release, SetSlot
    <3>4. OfferOf(j) \in ToSet(net[x])
      BY <3>2, QueueFact
    <3> HIDE DEF j
    <3>5. (x = e /\ j = k) \/ <<"answer", k>> \in fresh[e]
      BY <1>0, <1>1, <3>3 DEF SlotTypes
    <3> QED
      BY <3>2, <3>4, <3>5
  <2>7. Drops => G
    BY <2>2, <2>3, Zenon DEF Drops, Denied, OfferFails
  <2>8. Captures => G
    BY <2>1, <2>4 DEF Captures, Captured
  <2>9. Offers => G
    BY <2>1, <2>2, <2>4 DEF Offers, OfferReady
  <2>10. Spoils => G
    BY <2>3, Zenon DEF Spoils, AnswerFails
  <2>11. Answers => G
    BY <2>1, <2>2 DEF Answers, AnswerReady
  <2>12. Agrees => G
    <3>1. Agrees => UNCHANGED fresh \/ \E x, s : SetSlot(x, s, {})
      BY Zenon DEF Agrees, AcceptOffer, AcceptAnswer, GivesUp, Release
    <3> QED
      BY <2>1, <2>2, <3>1
  <2>13. CASE Flips
    <3>1. PICK j \in Shares : FlipDenied(j) \/ FlipCaptured(j) \/ FlipSwapped(j) \/ FlipRefused(j)
      BY <2>13 DEF Flips
    <3>2. FlipDenied(j) \/ FlipRefused(j) => UNCHANGED fresh \/ \E x, s : SetSlot(x, s, {})
      BY Zenon DEF FlipDenied, FlipRefused, UpdateCamera
    <3>3. FlipCaptured(j) => G
      BY <2>3, Zenon DEF FlipCaptured
    <3>4. CASE FlipSwapped(j)
      <4>1. fresh' = [fresh EXCEPT ![owner[j]] = fresh[owner[j]] \cup {<<"refresh", j>>}]
        BY <3>4 DEF FlipSwapped
      <4>2. G
        BY <1>0, <2>4, <4>1 DEF SlotTypes, G
      <4> QED
        BY <1>1, <4>2 DEF G
    <3> QED
      BY <1>1, <2>1, <2>2, <3>1, <3>2, <3>3, <3>4 DEF G
  <2>14. Refreshes => G
    <3>1. Refreshes => (\E x, s : SetSlot(x, s, {})) \/ \E x, S : fresh' = [fresh EXCEPT ![x] = @ \ S]
      BY Zenon DEF Refreshes, RefreshCamera
    <3> QED
      BY <2>1, <2>3, <3>1
  <2>15. Controls => G
    <3>1. Controls => \/ UNCHANGED fresh \/ \E x, s : SetSlot(x, s, {})
                      \/ \E x, s, j : SetSlot(x, s, {<<"flip", j>>})
      BY Zenon DEF Controls, FlipCamera, RemoteStream, Adjust, Adjusted
    <3>2. \A j : <<"answer", k>> \notin {<<"flip", j>>}
      OBVIOUS
    <3> QED
      BY <2>1, <2>2, <3>1, <3>2
  <2>16. Breaks => G
    BY <2>1, <2>2 DEF Breaks, TrackEnded
  <2>17. Passes \/ Asked \/ Trickles \/ UNCHANGED vars => UNCHANGED fresh
    BY Frames, Zenon DEF vars
  <2> QED
    BY <1>1, <2>2, <2>5, <2>6, <2>7, <2>8, <2>9, <2>10, <2>11, <2>12, <2>13, <2>14, <2>15,
       <2>16, <2>17, NextCases DEF G
<1> QED
  BY <1>1

(* How a connection opens and is negotiated, and what becomes of the       *)
(* candidates that waited for it.                                          *)
Opening(e, k) ==
  \/ start[k] = "building" /\ owner[k] = e
  \/ <<"answer", k>> \in fresh[e] /\ (k \in early[e] => <<k, k>> \in pending'[e])
Agreeing(e, k) ==
  /\ pc[e][k] = "new" /\ (owner[k] = Other(e) \/ \E j : <<e, k, j>> \in accepts)
  /\ <<k, k>> \in pending[e] => k \in used'[e]

LEMMA PeerChange ==
  ASSUME TypeOK, AllBegun, [Next]_vars, NEW e \in Ends, NEW k \in Shares
  PROVE  /\ pc[e][k] # "new" /\ pc'[e][k] = "new" => Opening(e, k)
         /\ pc[e][k] # "negotiated" /\ pc'[e][k] = "negotiated" => Agreeing(e, k)
<1> DEFINE G == pc'[e][k] = pc[e][k] \/ pc'[e][k] = "closed"
<1>0. SlotTypes /\ PeerTypes /\ IceTypes /\ StageTypes /\ CallTypes
  BY TypeFact
<1>1. ASSUME NEW x, pc' = [pc EXCEPT ![x] = Released(x).pc] PROVE G
  BY <1>0, <1>1 DEF PeerTypes, Released
<1>2. ASSUME UNCHANGED pc PROVE G
  BY <1>2
<1>3. ASSUME NEW x, NEW j, pc' = [pc EXCEPT ![x][j] = "closed"] PROVE G
  BY <1>0, <1>3 DEF PeerTypes
<1>4. ASSUME NEW x, NEW n, NEW j, GivesUp(x, j, n) PROVE G
  BY <1>1, <1>2, <1>4, Zenon DEF GivesUp, Release
<1> HIDE DEF G
<1>5. Leaves => G
  BY <1>1, Zenon DEF Leaves, Stop, Unmount, Fails, HearStop, Release
<1>6. Offered => G
  BY <1>1, <1>2, Zenon DEF Offered, HearOffer, Release
<1>7. Captures => G
  BY <1>1, Zenon DEF Captures, Captured
<1>8. CASE Offers
  <2>1. PICK j \in Shares : OfferReady(j)
    BY <1>8 DEF Offers
  <2>2. /\ start[j] = "building"
        /\ G \/ pc' = [pc EXCEPT ![owner[j]][j] = "new"]
    BY <1>3, <2>1, Zenon DEF OfferReady
  <2>3. pc' = [pc EXCEPT ![owner[j]][j] = "new"] => G \/ (e = owner[j] /\ j = k /\ pc'[e][k] = "new")
    BY <1>0 DEF PeerTypes, G
  <2> QED
    BY <2>2, <2>3 DEF G, Opening
<1>9. CASE Answers
  <2>1. PICK j \in Shares : AnswerReady(j)
    BY <1>9 DEF Answers
  <2> DEFINE x == Other(owner[j])
  <2>2. \/ G
        \/ /\ <<"answer", j>> \in fresh[x] /\ pc' = [pc EXCEPT ![x][j] = "new"]
           /\ pending' = [pending EXCEPT ![x] = pending[x] \cup ({j} \X early[x])]
    BY <1>3, <2>1 DEF AnswerReady, IsCurrent
  <2> HIDE DEF x
  <2>3. pc' = [pc EXCEPT ![x][j] = "new"] => G \/ (e = x /\ j = k /\ pc'[e][k] = "new")
    BY <1>0 DEF PeerTypes, G
  <2>4. pending' = [pending EXCEPT ![e] = pending[e] \cup ({k} \X early[e])]
        => (k \in early[e] => <<k, k>> \in pending'[e])
    BY <1>0 DEF IceTypes
  <2> QED
    BY <2>2, <2>3, <2>4 DEF G, Opening
<1>10. ASSUME NEW x \in Ends, NEW j \in Shares, pc[x][j] = "new", Flush(x, j),
              pc' = [pc EXCEPT ![x][j] = "negotiated"],
              owner[j] = Other(x) \/ \E w : <<x, j, w>> \in accepts
       PROVE  G \/ (pc'[e][k] = "negotiated" /\ Agreeing(e, k))
  <2>1. CASE x = e /\ j = k
    <3>1. <<k, k>> \in pending[e] => k \in used'[e]
      BY <1>0, <1>10, <2>1 DEF Flush, IceTypes
    <3>2. pc'[e][k] = "negotiated"
      BY <1>0, <1>10, <2>1 DEF PeerTypes
    <3> QED
      BY <1>10, <2>1, <3>1, <3>2 DEF Agreeing
  <2>2. CASE ~(x = e /\ j = k)
    BY <1>0, <1>10, <2>2 DEF PeerTypes, G
  <2> QED
    BY <2>1, <2>2
<1>11. CASE Agrees
  <2>1. ASSUME NEW j \in Shares, AcceptOffer(j)
        PROVE  G \/ (pc'[e][k] = "negotiated" /\ Agreeing(e, k))
    <3>1. owner[j] \in Ends
      BY <1>0, <2>1, Owners DEF AcceptOffer
    <3>2. \/ GivesUp(Other(owner[j]), j, 0)
          \/ /\ pc[Other(owner[j])][j] = "new" /\ Flush(Other(owner[j]), j)
             /\ pc' = [pc EXCEPT ![Other(owner[j])][j] = "negotiated"]
      BY <2>1, Zenon DEF AcceptOffer
    <3> QED
      BY <1>4, <1>10, <3>1, <3>2, OtherFact
  <2>2. ASSUME NEW x \in Ends, NEW j \in Shares, NEW w \in Shares, AcceptAnswer(x, j, w)
        PROVE  G \/ (pc'[e][k] = "negotiated" /\ Agreeing(e, k))
    <3>1. /\ <<x, j, w>> \in accepts
          /\ \/ GivesUp(x, j, 0)
             \/ /\ pc[x][j] = "new" /\ Flush(x, j)
                /\ pc' = [pc EXCEPT ![x][j] = "negotiated"]
      BY <2>2, Zenon DEF AcceptAnswer
    <3> QED
      BY <1>4, <1>10, <3>1
  <2>3. G \/ (pc'[e][k] = "negotiated" /\ Agreeing(e, k))
    BY <1>11, <2>1, <2>2 DEF Agrees
  <2> QED
    BY <2>3 DEF G
<1>12. Breaks => G
  BY <1>1, <1>2 DEF Breaks, TrackEnded
<1>13. Drops \/ Flips => UNCHANGED pc
  BY Zenon DEF Drops, Denied, OfferFails, Flips, FlipDenied, FlipCaptured, FlipSwapped, FlipRefused
<1>14. Passes \/ Asked \/ Trickles \/ Spoils \/ Refreshes \/ Controls \/ UNCHANGED vars => UNCHANGED pc
  BY Frames, Zenon DEF vars
<1> QED
  BY <1>2, <1>5, <1>6, <1>7, <1>8, <1>9, <1>11, <1>12, <1>13, <1>14, NextCases DEF G

LEMMA PendingStep ==
  ASSUME TypeOK, AllBegun, [Next]_vars, NEW e \in Ends, NEW k \in Shares
  PROVE  /\ <<k, k>> \in pending[e] => <<k, k>> \in pending'[e] \/ pc'[e][k] = "negotiated"
         /\ used[e] \subseteq used'[e]
<1> DEFINE G == /\ <<k, k>> \in pending[e] => <<k, k>> \in pending'[e] \/ pc'[e][k] = "negotiated"
                /\ used[e] \subseteq used'[e]
<1>0. PeerTypes /\ IceTypes
  BY TypeFact
<1>1. CASE UNCHANGED <<pending, used>>
  BY <1>1
<1>2. CASE Passes
  BY <1>0, <1>2 DEF Passes, Unheard, HearIce, HearAnswer, IgnoreOffer, IceTypes
<1>3. CASE Answers
  <2>1. UNCHANGED used /\ (UNCHANGED pending \/ \E x, S : pending' = [pending EXCEPT ![x] = @ \cup S])
    BY <1>3, Zenon DEF Answers, AnswerReady
  <2> QED
    BY <1>0, <2>1 DEF IceTypes
<1>4. ASSUME NEW x, NEW j \in Shares, Flush(x, j), pc' = [pc EXCEPT ![x][j] = "negotiated"] PROVE G
  <2>1. used[e] \subseteq used'[e]
    BY <1>0, <1>4 DEF Flush, IceTypes
  <2>2. CASE x = e /\ j = k
    <3>1. pc'[e][k] = "negotiated"
      BY <1>0, <1>4, <2>2 DEF PeerTypes
    <3> QED
      BY <2>1, <3>1
  <2>3. CASE ~(x = e /\ j = k)
    <3>1. <<k, k>> \in pending[e] => <<k, k>> \in pending'[e]
      BY <1>0, <1>4, <2>3 DEF Flush, IceTypes
    <3> QED
      BY <2>1, <3>1
  <2> QED
    BY <2>2, <2>3
<1> HIDE DEF G
<1>5. CASE Agrees
  <2>1. ASSUME NEW j \in Shares, AcceptOffer(j) PROVE G
    <3>1. UNCHANGED <<pending, used>>
          \/ \E x : Flush(x, j) /\ pc' = [pc EXCEPT ![x][j] = "negotiated"]
      BY <2>1, Zenon DEF AcceptOffer
    <3> QED
      BY <1>1, <1>4, <3>1 DEF G
  <2>2. ASSUME NEW x \in Ends, NEW j \in Shares, NEW w \in Shares, AcceptAnswer(x, j, w) PROVE G
    <3>1. UNCHANGED <<pending, used>>
          \/ (Flush(x, j) /\ pc' = [pc EXCEPT ![x][j] = "negotiated"])
      BY <2>2, Zenon DEF AcceptAnswer
    <3> QED
      BY <1>1, <1>4, <3>1 DEF G
  <2> QED
    BY <1>5, <2>1, <2>2 DEF Agrees, G
<1>6. Drops \/ Captures \/ Offers \/ Offered \/ Flips => UNCHANGED <<pending, used>>
  BY Zenon DEF Drops, Denied, OfferFails, Captures, Captured, Offers, OfferReady, Offered,
     HearOffer, Flips, FlipDenied, FlipCaptured, FlipSwapped, FlipRefused, signals
<1>7. Leaves \/ Asked \/ Trickles \/ Spoils \/ Refreshes \/ Controls \/ Breaks \/ UNCHANGED vars
      => UNCHANGED <<pending, used>>
  BY Frames, Zenon DEF signals, vars
<1> QED
  BY <1>1, <1>2, <1>3, <1>5, <1>6, <1>7, NextCases DEF G

(* What is kept early stays there until a peer takes it, its own or not.   *)
LEMMA StrayedStep ==
  ASSUME TypeOK, AllBegun, [Next]_vars, NEW e \in Ends, NEW k \in Shares
  PROVE  /\ strayed \subseteq strayed'
         /\ k \in early[e] => k \in early'[e] \/ <<e, k>> \in strayed' \/ pc'[e][k] = "new"
<1>0. PeerTypes /\ IceTypes /\ StageTypes /\ CallTypes
  BY TypeFact
<1>1. CASE Passes
  BY <1>0, <1>1 DEF Passes, Unheard, HearIce, HearAnswer, IgnoreOffer, IceTypes
<1>2. CASE Answers
  <2>1. PICK j \in Shares : AnswerReady(j)
    BY <1>2 DEF Answers
  <2> DEFINE x == Other(owner[j])
  <2>2. \/ UNCHANGED <<early, strayed>>
        \/ /\ early' = [early EXCEPT ![x] = {}] /\ pc' = [pc EXCEPT ![x][j] = "new"]
           /\ strayed' = strayed \cup ({x} \X (early[x] \ {j}))
    BY <2>1 DEF AnswerReady
  <2> HIDE DEF x
  <2> QED
    BY <1>0, <2>2 DEF IceTypes, PeerTypes
<1>3. Drops \/ Captures \/ Offers \/ Offered \/ Agrees \/ Flips => UNCHANGED <<early, strayed>>
  BY Zenon DEF Drops, Denied, OfferFails, Captures, Captured, Offers, OfferReady, Offered,
     HearOffer, Agrees, AcceptOffer, AcceptAnswer, Flips,
     FlipDenied, FlipCaptured, FlipSwapped, FlipRefused, signals
<1>4. Leaves \/ Asked \/ Trickles \/ Spoils \/ Refreshes \/ Controls \/ Breaks \/ UNCHANGED vars
      => UNCHANGED <<early, strayed>>
  BY Frames, Zenon DEF signals, vars
<1>5. CASE UNCHANGED <<early, strayed>>
  BY <1>5
<1> QED
  BY <1>1, <1>2, <1>3, <1>4, <1>5, NextCases

(* The first connection of a share at an end is made by its own offer, or  *)
(* by the answer, which is then past building.                             *)
LEMMA FirstPeer ==
  ASSUME TypeOK, AllBegun, AllPlaced, [Next]_vars, NEW e \in Ends, NEW k \in Shares,
         pc[e][k] = "none", pc'[e][k] # "none"
  PROVE  (start[k] = "building" /\ owner[k] = e) \/ answer'[k] \in {"accepting", "over"}
<1> DEFINE G == pc'[e][k] = "none"
<1>0. PeerTypes /\ StageTypes /\ CallTypes
  BY TypeFact
<1>1. ASSUME NEW x \in Ends, pc' = [pc EXCEPT ![x] = Released(x).pc] PROVE G
  BY <1>0, <1>1 DEF PeerTypes, Released, AllPlaced, Placed, Idle
<1>2. ASSUME UNCHANGED pc PROVE G
  BY <1>2
<1>3. ASSUME NEW x, NEW j, NEW v, pc' = [pc EXCEPT ![x][j] = v] PROVE G \/ (x = e /\ j = k)
  BY <1>0, <1>3 DEF PeerTypes
<1>4. ASSUME NEW x \in Ends, NEW n, NEW j, GivesUp(x, j, n) PROVE G
  BY <1>1, <1>2, <1>4, Zenon DEF GivesUp, Release
<1> HIDE DEF G
<1>5. Leaves => G
  BY <1>1, Zenon DEF Leaves, Stop, Unmount, Fails, HearStop, Release
<1>6. Offered => G
  BY <1>1, <1>2, Zenon DEF Offered, HearOffer, Release
<1>7. CASE Captures
  <2>1. PICK j \in Shares : Captured(j)
    BY <1>7 DEF Captures
  <2>2. owner[j] \in Ends
    BY <1>0, <2>1, Owners DEF Captured
  <2> QED
    BY <1>1, <2>1, <2>2 DEF Captured, G
<1>8. CASE Offers
  <2>1. PICK j \in Shares : OfferReady(j)
    BY <1>8 DEF Offers
  <2>2. start[j] = "building" /\ \E v : pc' = [pc EXCEPT ![owner[j]][j] = v]
    BY <2>1, Zenon DEF OfferReady
  <2> QED
    BY <1>3, <2>2 DEF G
<1>9. CASE Answers
  <2>1. PICK j \in Shares : AnswerReady(j)
    BY <1>9 DEF Answers
  <2>2. /\ \E v : pc' = [pc EXCEPT ![Other(owner[j])][j] = v]
        /\ \E v \in {"accepting", "over"} : answer' = [answer EXCEPT ![j] = v]
    BY <2>1, Zenon DEF AnswerReady
  <2>3. j = k
    BY <1>3, <2>2 DEF G
  <2> QED
    BY <1>0, <2>2, <2>3 DEF StageTypes
<1>10. CASE Agrees
  <2>1. ASSUME NEW x, NEW j, pc[x][j] = "new", pc' = [pc EXCEPT ![x][j] = "negotiated"] PROVE G
    BY <1>3, <2>1
  <2>2. ASSUME NEW j \in Shares, AcceptOffer(j) PROVE G
    <3>1. owner[j] \in Ends
      BY <1>0, <2>2, Owners DEF AcceptOffer
    <3>2. \/ GivesUp(Other(owner[j]), j, 0)
          \/ /\ pc[Other(owner[j])][j] = "new"
             /\ pc' = [pc EXCEPT ![Other(owner[j])][j] = "negotiated"]
      BY <2>2, Zenon DEF AcceptOffer
    <3> QED
      BY <1>4, <2>1, <3>1, <3>2, OtherFact
  <2>3. ASSUME NEW x \in Ends, NEW j \in Shares, NEW w \in Shares, AcceptAnswer(x, j, w) PROVE G
    <3>1. \/ GivesUp(x, j, 0)
          \/ pc[x][j] = "new" /\ pc' = [pc EXCEPT ![x][j] = "negotiated"]
      BY <2>3, Zenon DEF AcceptAnswer
    <3> QED
      BY <1>4, <2>1, <3>1
  <2> QED
    BY <1>10, <2>2, <2>3 DEF Agrees, G
<1>11. CASE Breaks
  <2>1. PICK t \in Tracks : TrackEnded(t)
    BY <1>11 DEF Breaks
  <2>2. owner[t[1]] \in Ends
    <3>1. t[1] \in Shares /\ t \in live
      BY <2>1 DEF TrackEnded, Tracks
    <3> QED
      BY <1>0, <3>1, Owners
  <2> QED
    BY <1>1, <1>2, <2>1, <2>2 DEF TrackEnded, G
<1>12. Drops \/ Flips => UNCHANGED pc
  BY Zenon DEF Drops, Denied, OfferFails, Flips, FlipDenied, FlipCaptured, FlipSwapped, FlipRefused
<1>13. Passes \/ Asked \/ Trickles \/ Spoils \/ Refreshes \/ Controls \/ UNCHANGED vars => UNCHANGED pc
  BY Frames, Zenon DEF vars
<1> QED
  BY <1>2, <1>5, <1>6, <1>7, <1>8, <1>9, <1>10, <1>11, <1>12, <1>13, NextCases DEF G

(* An end that has not come to an answer has had no connection for it.     *)
Unopened ==
  \A e \in Ends, k \in Shares :
    answer[k] \in {"none", "building"} /\ owner[k] = Other(e) => pc[e][k] = "none"

LEMMA UnopenedStep ==
  ASSUME TypeOK, AllBegun, AllPlaced, AllTicketed, OffersOwned, Queued, Unopened, [Next]_vars
  PROVE  Unopened'
<1> SUFFICES ASSUME NEW e \in Ends, NEW k \in Shares,
                    answer'[k] \in {"none", "building"}, owner'[k] = Other(e)
             PROVE  pc'[e][k] = "none"
  BY DEF Unopened
<1>0. NetTypes /\ StageTypes /\ PeerTypes
  BY TypeFact
<1>1. answer[k] \in {"none", "building"}
  <2>1. Hearing(k) => answer[k] = "none"
    <3>1. \A x \in Ends : net[x] \in Seq(Signals)
      BY <1>0 DEF NetTypes
    <3> QED
      BY <3>1, QueueFact DEF Hearing, Queued
  <2> QED
    BY <2>1, AnswerChange
<1>2. pc[e][k] = "none"
  <2>1. CASE start[k] = "unused"
    BY <2>1 DEF AllBegun, Begun
  <2>2. CASE start[k] # "unused"
    BY <1>1, <2>2, Stages DEF Unopened
  <2> QED
    BY <2>1, <2>2
<1>3. start[k] = "building" /\ owner[k] = e => owner'[k] = e
  BY Stages
<1> QED
  BY <1>2, <1>3, FirstPeer, OtherFact

(* A flip is late only for a share whose connection is closed, and that    *)
(* stays so.                                                               *)
Late == \A k \in late : owner[k] \in Ends /\ pc[owner[k]][k] = "closed"

LEMMA LateStep ==
  ASSUME TypeOK, AllBegun, AllPlaced, AllTicketed, OffersOwned, Late, [Next]_vars
  PROVE  Late'
<1> SUFFICES ASSUME NEW k \in late' PROVE owner'[k] \in Ends /\ pc'[owner'[k]][k] = "closed"
  BY DEF Late
<1>0. SlotTypes /\ StageTypes /\ PeerTypes /\ CallTypes /\ PeerTypes' /\ k \in Shares
  BY TypeFact, PeerStep, CallStep DEF CallTypes
<1>1. CASE k \in late
  <2>1. owner[k] \in Ends /\ pc[owner[k]][k] = "closed"
    BY <1>1 DEF Late
  <2>2. start[k] = "over" /\ owner'[k] = owner[k]
    BY <1>0, <1>1, Stages DEF AllBegun, Begun
  <2>3. ~Opening(owner[k], k)
    BY <1>0, <2>1, <2>2, OtherFact DEF Opening, AllTicketed, Ticketed
  <2>4. pc'[owner[k]][k] \notin {"new", "negotiated"}
    BY <1>0, <2>1, <2>3, PeerChange DEF Agreeing
  <2>5. pc'[owner[k]][k] # "none"
    BY <1>0, <2>1, PeerHistory, HostStep
  <2> QED
    BY <1>0, <2>1, <2>2, <2>4, <2>5 DEF PeerTypes
<1>2. CASE k \notin late
  <2>1. CASE Flips
    <3>1. PICK j \in Shares : FlipDenied(j) \/ FlipCaptured(j) \/ FlipSwapped(j) \/ FlipRefused(j)
      BY <2>1 DEF Flips
    <3>2. FlipSwapped(j) /\ j = k /\ pc[owner[k]][k] = "closed"
      BY <1>2, <3>1 DEF FlipDenied, FlipCaptured, FlipSwapped, FlipRefused
    <3>3. UNCHANGED <<pc, owner>> /\ flip[k] # "none"
      BY <3>2 DEF FlipSwapped
    <3> QED
      BY <1>0, <3>2, <3>3, Owners
  <2>2. Drops \/ Captures \/ Offers \/ Offered \/ Answers \/ Agrees => UNCHANGED late
    BY Zenon DEF Drops, Denied, OfferFails, Captures, Captured, Offers, OfferReady, Offered,
       HearOffer, Answers, AnswerReady, Agrees, AcceptOffer, AcceptAnswer, ops
  <2>3. Leaves \/ Passes \/ Asked \/ Trickles \/ Spoils \/ Refreshes \/ Controls \/ Breaks
        \/ UNCHANGED vars => UNCHANGED late
    BY Frames, Zenon DEF vars
  <2> QED
    BY <1>2, <2>1, <2>2, <2>3, NextCases
<1> QED
  BY <1>1, <1>2

(* An answer is given to a share that is past its start, and by a panel    *)
(* that is there; a panel that goes leaves neither slot nor tickets.       *)
AcceptsBegun == \A a \in accepts : start[a[2]] = "over"

LEMMA AcceptsStep ==
  ASSUME TypeOK, AllBegun, AllPlaced, [Next]_vars, NEW a \in accepts'
  PROVE  a \in accepts \/ (panel[a[1]] /\ start[a[2]] = "over")
<1>1. CASE Passes
  <2>1. PICK e \in Ends : Unheard(e) \/ HearIce(e) \/ HearAnswer(e) \/ IgnoreOffer(e)
    BY <1>1 DEF Passes
  <2>2. HearAnswer(e) => /\ panel[e]
                         /\ \A w \in accepts' : w \in accepts
                              \/ (slot[e].state # "idle" /\ w[1] = e /\ w[2] = slot[e].share)
    BY DEF HearAnswer, Applies, Next1
  <2>3. slot[e].state # "idle" => start[slot[e].share] = "over"
    BY DEF AllPlaced, Placed, Idle
  <2>4. Unheard(e) \/ HearIce(e) \/ IgnoreOffer(e) => UNCHANGED accepts
    BY Zenon DEF Unheard, HearIce, IgnoreOffer
  <2> QED
    BY <2>1, <2>2, <2>3, <2>4
<1>2. CASE Agrees
  BY <1>2 DEF Agrees, AcceptOffer, AcceptAnswer
<1>3. Drops \/ Captures \/ Offers \/ Offered \/ Answers \/ Flips => UNCHANGED accepts
  BY Zenon DEF Drops, Denied, OfferFails, Captures, Captured, Offers, OfferReady, Offered,
     HearOffer, Answers, AnswerReady, Flips, FlipDenied, FlipCaptured, FlipSwapped, FlipRefused,
     signals
<1>4. Leaves \/ Asked \/ Trickles \/ Spoils \/ Refreshes \/ Controls \/ Breaks \/ UNCHANGED vars
      => UNCHANGED accepts
  BY Frames, Zenon DEF signals, vars
<1> QED
  BY <1>1, <1>2, <1>3, <1>4, NextCases

LEMMA PanelStep ==
  ASSUME TypeOK, [Next]_vars, NEW e \in Ends
  PROVE  /\ panel'[e] => panel[e]
         /\ panel[e] => panel'[e] \/ (slot'[e] = Idle /\ fresh'[e] = {})
<1>0. SlotTypes /\ CallTypes
  BY TypeFact
<1>1. CASE \E x \in Ends : Unmount(x)
  BY <1>0, <1>1 DEF Unmount, Release, SetSlot, SlotTypes, CallTypes
<1>2. CASE UNCHANGED panel
  BY <1>2
<1>3. Leaves => (\E x \in Ends : Unmount(x)) \/ UNCHANGED panel
  BY Zenon DEF Leaves, Stop, Fails, HearStop
<1>4. Offered \/ Drops \/ Captures \/ Offers \/ Answers => UNCHANGED panel
  BY Zenon DEF Offered, HearOffer, Drops, Denied, OfferFails, Captures, Captured,
     Offers, OfferReady, Answers, AnswerReady
<1>5. Agrees \/ Flips => UNCHANGED panel
  BY Zenon DEF Agrees, AcceptOffer, AcceptAnswer, Flips, FlipDenied, FlipCaptured,
     FlipSwapped, FlipRefused
<1> QED
  BY <1>1, <1>2, <1>3, <1>4, <1>5, NextCases, Frames DEF vars

(* At an end whose panel is gone no connection is negotiated any more: one *)
(* that is still new is that of its own offer, and gets no answer.         *)
Deaf(e) ==
  ~panel[e] => \A k \in Shares :
    /\ <<"answer", k>> \notin fresh[e] /\ pc[e][k] # "negotiated"
    /\ pc[e][k] = "new" => owner[k] = e /\ \A j : <<e, k, j>> \notin accepts
AllDeaf == \A e \in Ends : Deaf(e)

LEMMA DeafStep ==
  ASSUME TypeOK, AllBegun, AllPlaced, AllTicketed, OffersOwned, NoSpareConnection, AcceptsBegun,
         AllDeaf, [Next]_vars
  PROVE  AllDeaf' /\ AcceptsBegun'
<1>0. StageTypes /\ IceTypes /\ SlotTypes /\ PeerTypes
  BY TypeFact
<1>1. ASSUME NEW e \in Ends PROVE Deaf(e)'
  <2> SUFFICES ASSUME ~panel'[e], NEW k \in Shares
               PROVE  /\ <<"answer", k>> \notin fresh'[e] /\ pc'[e][k] # "negotiated"
                      /\ pc'[e][k] = "new" => owner'[k] = e /\ \A j : <<e, k, j>> \notin accepts'
    BY DEF Deaf
  <2>1. CASE panel[e]
    <3>1. slot'[e] = Idle /\ fresh'[e] = {}
      BY <2>1, PanelStep
    <3>2. NoSpareConnection'
      BY <1>0, SpareStep, HostStep
    <3>3. pc'[e][k] \notin {"new", "negotiated"}
      BY <3>1, <3>2 DEF NoSpareConnection, Holds, Idle
    <3> QED
      BY <3>1, <3>3
  <2>2. CASE ~panel[e]
    <3>1. /\ <<"answer", k>> \notin fresh[e] /\ pc[e][k] # "negotiated"
          /\ pc[e][k] = "new" => owner[k] = e /\ \A j : <<e, k, j>> \notin accepts
      BY <2>2 DEF AllDeaf, Deaf
    <3>2. <<"answer", k>> \notin fresh'[e]
      BY <2>2, <3>1, Answering
    <3>3. ~Agreeing(e, k)
      BY <3>1, OtherFact DEF Agreeing
    <3>4. pc'[e][k] # "negotiated"
      BY <3>1, <3>3, PeerChange
    <3>5. ASSUME pc'[e][k] = "new" PROVE owner[k] = e /\ start[k] # "unused" /\ \A j : <<e, k, j>> \notin accepts
      <4>1. CASE pc[e][k] = "new"
        BY <3>1, <4>1 DEF AllBegun, Begun
      <4>2. CASE pc[e][k] # "new"
        <5>1. start[k] = "building" /\ owner[k] = e
          BY <3>1, <3>5, <4>2, PeerChange DEF Opening
        <5> QED
          BY <5>1 DEF AcceptsBegun
      <4> QED
        BY <4>1, <4>2
    <3>6. ASSUME pc'[e][k] = "new" PROVE owner'[k] = e /\ \A j : <<e, k, j>> \notin accepts'
      <4>1. \A j : <<e, k, j>> \in accepts' => <<e, k, j>> \in accepts
        BY <2>2, AcceptsStep
      <4> QED
        BY <3>5, <3>6, <4>1, Stages
    <3> QED
      BY <3>2, <3>4, <3>6
  <2> QED
    BY <2>1, <2>2
<1>2. ASSUME NEW a \in accepts' PROVE start'[a[2]] = "over"
  <2>1. start[a[2]] = "over"
    BY <1>2, AcceptsStep DEF AcceptsBegun
  <2>2. a[2] \in Shares
    <3>1. a \in Ends \X Shares \X Shares
      BY IceStep DEF IceTypes
    <3> QED
      BY <3>1
  <2> QED
    BY <2>1, <2>2, Stages
<1> QED
  BY <1>1, <1>2 DEF AllDeaf, AcceptsBegun

(* Where a candidate that has come, and not strayed, is found: with the    *)
(* others that came early, waiting for the description, or in its          *)
(* connection.                                                             *)
Come(e, k) ==
  panel[e] /\ k \in said[Other(e)] /\ IceOf(k) \notin ToSet(net[e]) /\ <<e, k>> \notin strayed
KeptFor(e, k) ==
  /\ pc[e][k] = "none" => k \in early[e]
  /\ pc[e][k] = "new" => <<k, k>> \in pending[e]
  /\ pc[e][k] = "negotiated" => k \in used[e]
Candidates == \A e \in Ends, k \in Shares : Come(e, k) => KeptFor(e, k)

LEMMA CandidatesStep ==
  ASSUME TypeOK, AllBegun, AllPlaced, AllTicketed, OffersOwned, NoSpareConnection, Unopened,
         Candidates, [Next]_vars
  PROVE  Candidates'
<1> SUFFICES ASSUME NEW e \in Ends, NEW k \in Shares, panel'[e], k \in said'[Other(e)],
                    IceOf(k) \notin ToSet(net'[e]), <<e, k>> \notin strayed'
             PROVE  /\ pc'[e][k] = "none" => k \in early'[e]
                    /\ pc'[e][k] = "new" => <<k, k>> \in pending'[e]
                    /\ pc'[e][k] = "negotiated" => k \in used'[e]
  BY DEF Candidates, Come, KeptFor, IceOf
<1>0. /\ NetTypes /\ IceTypes /\ SlotTypes /\ PeerTypes /\ net[e] \in Seq(Signals) /\ Hosts(e)
      /\ Other(e) \in Ends /\ Other(Other(e)) = e /\ Other(e) # e
  BY TypeFact, HostStep, OtherFact DEF NetTypes
<1>1. panel[e] /\ k \in said[Other(e)] /\ <<e, k>> \notin strayed
  BY <1>0, PanelStep, SaidStep, StrayedStep
<1>2. CASE IceOf(k) \notin ToSet(net[e])
  <2>1. /\ pc[e][k] = "none" => k \in early[e]
        /\ pc[e][k] = "new" => <<k, k>> \in pending[e]
        /\ pc[e][k] = "negotiated" => k \in used[e]
    BY <1>1, <1>2 DEF Candidates, Come, KeptFor
  <2>2. pc'[e][k] = "none" => k \in early'[e]
    BY <1>0, <2>1, PeerHistory, StrayedStep
  <2>3. ASSUME pc'[e][k] = "new", pc[e][k] # "new" PROVE <<k, k>> \in pending'[e]
    <3>1. ~(start[k] = "building" /\ owner[k] = e)
      BY <1>0, <1>1 DEF AllBegun, Begun
    <3>2. <<"answer", k>> \in fresh[e] /\ (k \in early[e] => <<k, k>> \in pending'[e])
      BY <2>3, <3>1, PeerChange DEF Opening
    <3>3. pc[e][k] = "none"
      BY <3>2 DEF AllTicketed, Ticketed, Unopened
    <3> QED
      BY <2>1, <3>2, <3>3
  <2>4. pc'[e][k] = "new" /\ pc[e][k] = "new" => <<k, k>> \in pending'[e]
    BY <2>1, PendingStep
  <2>5. pc'[e][k] = "negotiated" => k \in used'[e]
    BY <2>1, PeerChange, PendingStep DEF Agreeing
  <2> QED
    BY <2>2, <2>3, <2>4, <2>5
<1>3. CASE IceOf(k) \in ToSet(net[e])
  <2>1. HearIce(e) /\ Head(net[e]) = IceOf(k)
    BY <1>1, <1>3, Delivered
  <2>2. Head(net[e]).k = k /\ UNCHANGED pc /\ strayed' = IF Strays(e, k) THEN strayed \cup {<<e, k>>} ELSE strayed
    BY <2>1 DEF HearIce, IceOf
  <2>3. ~Strays(e, k)
    BY <2>2
  <2>4. ASSUME pc'[e][k] = "none" PROVE k \in early'[e]
    <3>1. slot[e].state = "idle"
      BY <2>2, <2>3, <2>4 DEF Strays, AllPlaced, Placed, Idle
    <3>2. early' = [early EXCEPT ![e] = early[e] \cup {k}]
      BY <2>1, <2>2, <2>3, <3>1 DEF HearIce, Strays, Room
    <3> QED
      BY <1>0, <3>2 DEF IceTypes
  <2>5. ASSUME pc'[e][k] = "new" PROVE <<k, k>> \in pending'[e]
    <3>1. slot[e].state # "idle" /\ slot[e].share = k /\ pc[e][k] = "new"
      BY <2>2, <2>5 DEF NoSpareConnection, Holds
    <3>2. pending' = [pending EXCEPT ![e] = pending[e] \cup {<<k, k>>}]
      BY <2>1, <2>2, <3>1 DEF HearIce
    <3> QED
      BY <1>0, <3>2 DEF IceTypes
  <2>6. ASSUME pc'[e][k] = "negotiated" PROVE k \in used'[e]
    <3>1. slot[e].state # "idle" /\ slot[e].share = k /\ pc[e][k] = "negotiated"
      BY <2>2, <2>6 DEF NoSpareConnection, Holds
    <3>2. used' = [used EXCEPT ![e] = used[e] \cup {k}]
      BY <2>1, <2>2, <3>1 DEF HearIce
    <3> QED
      BY <1>0, <3>2 DEF IceTypes
  <2> QED
    BY <2>4, <2>5, <2>6
<1> QED
  BY <1>2, <1>3
-----------------------------------------------------------------------------
(* The inductive invariant.                                                *)
Progress == AllBegun /\ AllPlaced /\ AllTicketed /\ OffersOwned
IInv ==
  /\ TypeOK /\ Progress /\ NoSpareConnection
  /\ Streams /\ Lights /\ Late /\ Queued /\ Unopened /\ Candidates /\ AcceptsBegun /\ AllDeaf

LEMMA InitIInv == Init => IInv
<1> SUFFICES ASSUME Init PROVE IInv
  OBVIOUS
<1>1. TypeOK
  BY InitTypeOK
<1>2. Progress
  <2>1. AllBegun
    BY DEF Init, AllBegun, Begun
  <2>2. AllPlaced
    BY DEF Init, AllPlaced, Placed
  <2>3. AllTicketed
    BY DEF Init, AllTicketed, Ticketed
  <2>4. OffersOwned
    BY DEF Init, OffersOwned, ToSet
  <2> QED
    BY <2>1, <2>2, <2>3, <2>4 DEF Progress
<1>3. NoSpareConnection /\ Streams
  BY DEF Init, NoSpareConnection, Streams
<1>4. Lights /\ Late /\ AcceptsBegun /\ AllDeaf
  BY DEF Init, Lights, Late, AcceptsBegun, AllDeaf, Deaf
<1>5. Queued /\ Unopened
  BY DEF Init, Queued, Once, ToSet, Unopened
<1>6. Candidates
  BY OtherFact DEF Init, Candidates, Come
<1> QED
  BY <1>1, <1>2, <1>3, <1>4, <1>5, <1>6 DEF IInv

LEMMA NextIInv == IInv /\ [Next]_vars => IInv'
<1> SUFFICES ASSUME IInv, [Next]_vars PROVE IInv'
  OBVIOUS
<1> USE DEF IInv, Progress
<1>1. TypeOK'
  BY NextTypeOK
<1>2. Progress'
  BY BegunStep, PlacedStep, TicketStep, OffersStep
<1>3. NoSpareConnection'
  BY SpareStep, HostStep, TypeFact
<1>4. Streams' /\ Lights'
  BY StreamsStep, LightsStep
<1>5. Queued' /\ Unopened' /\ Late'
  BY QueuedStep, UnopenedStep, LateStep
<1>6. Candidates'
  BY CandidatesStep
<1>7. AcceptsBegun' /\ AllDeaf'
  BY DeafStep
<1> QED
  BY <1>1, <1>2, <1>3, <1>4, <1>5, <1>6, <1>7

LEMMA SpecIInv == Spec => []IInv
<1>1. Init => IInv
  BY InitIInv
<1>2. IInv /\ [Next]_vars => IInv'
  BY NextIInv
<1> QED
  BY <1>1, <1>2, PTL DEF Spec

(* Every variable keeps its type: what an end does with a share is done by *)
(* an end that has one, whatever it has lost meanwhile.                    *)
THEOREM TypeCorrect == Spec => []TypeOK
<1>1. IInv => TypeOK
  BY DEF IInv
<1> QED
  BY <1>1, SpecIInv, PTL

(* #release, start() and the offer branch leave no open MediaPeer behind:  *)
(* a connection that is new or negotiated is the one in the slot.          *)
THEOREM NoSpareConnectionHolds == Spec => []NoSpareConnection
<1>1. IInv => NoSpareConnection
  BY DEF IInv
<1> QED
  BY <1>1, SpecIInv, PTL

(* Whichever way a share ends, its light goes out: a track that captures   *)
(* belongs to the share its device's slot holds, or to one being offered - *)
(* or it is the new track of a flip whose connection was closed while      *)
(* flipCamera() awaited the swap.                                          *)
THEOREM LightGoesOutHolds == Spec => []LightGoesOut
<1>1. IInv => LightGoesOut
  <2> SUFFICES ASSUME IInv, NEW t \in live PROVE Accounted(t[1]) \/ Missed(t)
    BY DEF LightGoesOut
  <2>1. Lit(t) /\ t[1] \in Shares
    BY DEF IInv, Lights, TypeOK, Tracks
  <2>2. CASE flip[t[1]] = "swapping" /\ t[2] = 1
    <3>1. owner[t[1]] \in Ends /\ pc[owner[t[1]]][t[1]] # "none"
      BY <2>1, <2>2 DEF IInv, Progress, Streams, AllBegun, Begun
    <3>2. pc[owner[t[1]]][t[1]] = "closed" \/ Holds(owner[t[1]], t[1])
      BY <2>1, <3>1 DEF IInv, TypeOK, NoSpareConnection
    <3> QED
      BY <2>2, <3>2 DEF Accounted, Missed
  <2> QED
    BY <2>1, <2>2 DEF Lit, Accounted, Missed, IInv, Late
<1> QED
  BY <1>1, SpecIInv, PTL

(* A candidate that came to an idle slot with room in #earlyIce, or to its *)
(* own share's slot, ahead of the description or after it, is used by its  *)
(* connection - unless another peer was made before that one, and took it. *)
THEOREM CandidatesArriveHolds == Spec => []CandidatesArrive
<1>1. IInv => CandidatesArrive
  <2> SUFFICES ASSUME IInv, NEW e \in Ends, NEW k \in Shares, Arrived(e, k), <<e, k>> \notin strayed
               PROVE  k \in used[e]
    BY DEF CandidatesArrive
  <2>1. panel[e]
    BY DEF IInv, AllDeaf, Deaf, Arrived
  <2>2. Come(e, k)
    BY <2>1 DEF Come, Arrived, IceOf
  <2> QED
    BY <2>2 DEF IInv, Candidates, KeptFor, Arrived
<1> QED
  BY <1>1, SpecIInv, PTL
===============================================================================
