---------------------------- MODULE SessionProofs ----------------------------
(***************************************************************************)
(* Proofs about Session, for any number of devices, lost connections and   *)
(* confirmations: whenever a session would let a send through, its         *)
(* Receiver and its bridge are in place, and its key is the one agreed     *)
(* with the peer that is there.                                            *)
(***************************************************************************)
EXTENDS Session, FiniteSetTheorems, TLAPS

-----------------------------------------------------------------------------
(* The inductive invariant.                                                *)

(* Each part speaks of one device d.                                       *)

(* A device that has come has an id, and only one that has come a key      *)
(* pair or a parked hello; a Sender that is not aborted has a key to seal  *)
(* under.                                                                  *)
Begun(d) ==
  /\ phase[d] # "away" => id[d] # None
  /\ minted[d] \/ parked[d] # None => phase[d] # "away"
  /\ sender[d].up => sender[d].key # None

(* A Receiver is the one frames are handed to; nothing is kept for the     *)
(* next one while there is a bridge to this one; and the timer of a        *)
(* departed peer runs only while no peer is known.                         *)
Bridged(d) ==
  /\ receiver[d] # None => forward[d] = receiver[d]
  /\ forward[d] # None => deferred[d] = <<>>
  /\ Ready(d) => receiver[d] # None /\ ~waiting[d]
  /\ phase[d] # "over" /\ goneTimer[d] => prefix[d] = None

(* What a session knows of its peer hangs together; before it has a key    *)
(* pair it knows a parked hello at most.                                   *)
Coherent(d) ==
  /\ prefix[d] # None => prefix[d] = last[d]
  /\ key[d] # None => derived[d] = key[d] /\ sender[d].key = key[d]
  /\ parked[d] # None => parked[d] = last[d]
  /\ minted[d] => parked[d] = None
  /\ ~minted[d] => deriving[d] = None /\ derived[d] = None /\ receiver[d] = None

(* Unless the peer came back while another's key was derived: a derivation *)
(* is for the peer heard last, and only where there is no Receiver; a      *)
(* Receiver is for the peer heard last, under the key derived for it.      *)
Current(d) ==
  d \notin crossed =>
    /\ deriving[d] # None => deriving[d] = last[d] /\ receiver[d] = None
    /\ receiver[d] # None =>
         /\ receiver[d] = [peer |-> last[d], key |-> last[d]]
         /\ derived[d] = last[d]

Sound(d) == Begun(d) /\ Bridged(d) /\ Coherent(d) /\ Current(d)

IInv == TypeOK /\ \A d \in Devices : Sound(d)

-----------------------------------------------------------------------------
LEMMA Update ==
  ASSUME NEW S, NEW T, NEW f \in [S -> T], NEW d, NEW v \in T
  PROVE  [f EXCEPT ![d] = v] \in [S -> T]
OBVIOUS

LEMMA FlagUpdate ==
  ASSUME NEW f \in Flags, NEW d, NEW b \in BOOLEAN
  PROVE  [f EXCEPT ![d] = b] \in Flags
BY Zenon DEF Flags

LEMMA FlagValue ==
  ASSUME NEW f \in Flags, NEW d \in Devices
  PROVE  f[d] \in BOOLEAN
BY DEF Flags

LEMMA PeerUpdate ==
  ASSUME NEW f \in Peers, NEW d, NEW p \in Opt(Devices)
  PROVE  [f EXCEPT ![d] = p] \in Peers
BY DEF Peers

LEMMA PeerValue ==
  ASSUME NEW f \in Peers, NEW d \in Devices
  PROVE  f[d] \in Opt(Devices)
BY DEF Peers

LEMMA OptFact ==
  ASSUME NEW S
  PROVE  /\ None \in Opt(S)
         /\ \A x \in S : x \in Opt(S)
         /\ \A x \in Opt(S) : x # None => x \in S
BY DEF Opt

LEMMA Signals ==
  /\ [t |-> "joined"] \in Messages
  /\ <<>> \in Seq(Messages)
  /\ <<[t |-> "joined"]>> \in Seq(Messages) /\ <<[t |-> "left"]>> \in Seq(Messages)
BY DEF Messages

LEMMA FunctionSeq ==
  ASSUME NEW T, NEW n \in Nat, NEW f \in [1..n -> T]
  PROVE  f \in Seq(T)
OBVIOUS

(* What is sent are messages, and inboxes stay sequences of messages.      *)
LEMMA SentType ==
  ASSUME TypeOK, NEW d \in Devices, NEW n \in Nat, NEW s \in Seq(Messages)
  PROVE  Sent(d, n, s) \in [Devices -> Seq(Messages)]
<1>1. ASSUME NEW e \in Devices
      PROVE  /\ inbox[e] \in Seq(Messages)
             /\ SubSeq(inbox[e], n + 1, Len(inbox[e])) \in Seq(Messages)
             /\ inbox[e] \o s \in Seq(Messages)
  BY DEF TypeOK
<1> QED
  BY <1>1 DEF Sent

LEMMA HelloType ==
  ASSUME TypeOK, NEW d \in Devices, Begun(d), phase[d] # "away"
  PROVE  Hello(d) \in Messages
<1>1. id[d] \in Seats
  BY DEF TypeOK, Begun, Opt
<1> QED
  BY <1>1 DEF Hello, Messages

LEMMA GreetingType ==
  ASSUME TypeOK, NEW d \in Devices, Begun(d)
  PROVE  Greeting(d) \in Seq(Messages)
<1>1. CASE minted[d]
  BY <1>1, HelloType DEF Greeting, Begun
<1>2. CASE ~minted[d]
  BY <1>2 DEF Greeting
<1> QED
  BY <1>1, <1>2

LEMMA ClaimType ==
  ASSUME NEW d \in Devices, NEW s \in Senders,
         s.up => s.key # None
  PROVE  Claim(d, s) \in Seq(Messages)
<1>1. CASE s.up
  <2>1. s.key \in Devices
    BY <1>1, OptFact DEF Senders
  <2>2. [t |-> "verified", from |-> d, under |-> s.key] \in Messages
    BY <2>1 DEF Messages, Verified
  <2> QED
    BY <1>1, <2>2 DEF Claim
<1>2. CASE ~s.up
  BY <1>2 DEF Claim
<1> QED
  BY <1>1, <1>2

(* The first message of an inbox, by what it is.                           *)
LEMMA HeadType ==
  ASSUME TypeOK, NEW d \in Devices, NEW t, Gets(d, t)
  PROVE  /\ t = "hello" => Head(inbox[d]).from \in Devices
         /\ t = "verified" => Head(inbox[d]) \in Verified
<1>1. Head(inbox[d]) \in Messages
  BY DEF TypeOK, Gets
<1> QED
  BY <1>1 DEF Gets, Messages, Verified

LEMMA RebuiltType ==
  ASSUME TypeOK, NEW d \in Devices
  PROVE  Rebuilt(d) \in [Devices -> Senders]
<1>1. sender \in [Devices -> Senders] /\ key[d] \in Opt(Devices)
  BY PeerValue DEF TypeOK
<1>2. [key |-> key[d], up |-> TRUE] \in Senders
  BY <1>1 DEF Senders
<1>3. [sender[d] EXCEPT !.up = FALSE] \in Senders
  BY <1>1 DEF Senders
<1> QED
  BY <1>1, <1>2, <1>3 DEF Rebuilt

LEMMA ServeType ==
  ASSUME TypeOK, NEW d \in Devices, NEW n \in Nat,
         NEW k \in Opt(Devices), NEW p \in Opt(Devices),
         NEW s \in Senders, s.up => s.key # None,
         NEW r \in Opt(Rx), NEW f \in Opt(Rx), NEW b \in BOOLEAN,
         Serve(d, n, k, p, s, r, f, b)
  PROVE  /\ receiver' \in [Devices -> Opt(Rx)]
         /\ forward' \in [Devices -> Opt(Rx)]
         /\ chains' \in [Devices -> Seq(Link)]
         /\ deferred' \in [Devices -> Seq(Verified)]
         /\ waiting' \in Flags
         /\ inbox' \in [Devices -> Seq(Messages)]
<1> DEFINE starts == r = None /\ k # None /\ p # None
           rx == IF starts THEN [peer |-> p, key |-> k] ELSE r
           fw == IF starts THEN rx ELSE f
<1>1. rx \in Opt(Rx) /\ fw \in Opt(Rx)
  BY DEF Opt, Rx
<1> HIDE DEF rx, fw
<1>2. receiver' = [receiver EXCEPT ![d] = rx] /\ forward' = [forward EXCEPT ![d] = fw]
  BY DEF Serve, rx, fw
<1>3. receiver' \in [Devices -> Opt(Rx)] /\ forward' \in [Devices -> Opt(Rx)]
  BY <1>1, <1>2 DEF TypeOK
<1>4. chains' \in [Devices -> Seq(Link)]
  <2>1. chains' = [chains EXCEPT ![d] = IF fw = None THEN @ ELSE
                    @ \o [i \in DOMAIN deferred[d] |-> [rx |-> fw, frame |-> deferred[d][i]]]]
    BY DEF Serve, fw, rx
  <2>2. CASE fw # None
    <3>1. \A i \in DOMAIN deferred[d] :
            [rx |-> fw, frame |-> deferred[d][i]] \in Link
      BY <1>1, <2>2 DEF TypeOK, Opt, Link
    <3> DEFINE handed == [i \in DOMAIN deferred[d] |-> [rx |-> fw, frame |-> deferred[d][i]]]
    <3>2. Len(deferred[d]) \in Nat /\ DOMAIN deferred[d] = 1..Len(deferred[d])
      BY DEF TypeOK
    <3>3. handed \in [1..Len(deferred[d]) -> Link]
      BY <3>1, <3>2
    <3>4. handed \in Seq(Link)
      BY <3>2, <3>3, FunctionSeq
    <3> HIDE DEF handed
    <3>5. chains[d] \o handed \in Seq(Link)
      BY <3>4 DEF TypeOK
    <3>6. chains' = [chains EXCEPT ![d] = chains[d] \o handed]
      BY <2>1, <2>2 DEF handed
    <3> QED
      BY <3>5, <3>6 DEF TypeOK
  <2> QED
    BY <2>1, <2>2 DEF TypeOK
<1>5. deferred' \in [Devices -> Seq(Verified)]
  BY DEF Serve, TypeOK
<1>6. waiting' \in Flags
  BY FlagUpdate DEF Serve, TypeOK
<1>7. inbox' \in [Devices -> Seq(Messages)]
  <2>1. Repeats(d, s, b) \in Seq(Messages)
    BY ClaimType DEF Repeats
  <2> QED
    BY <2>1, SentType DEF Serve
<1> QED
  BY <1>3, <1>4, <1>5, <1>6, <1>7
-----------------------------------------------------------------------------
(* Type correctness.                                                       *)

LEMMA InitIInv == Init => IInv
<1> SUFFICES ASSUME Init PROVE IInv
  OBVIOUS
<1>1. TypeOK
  <2>1. /\ minted \in Flags /\ goneTimer \in Flags /\ waiting \in Flags /\ panel \in Flags
        /\ mine \in Flags /\ localV \in Flags /\ peerV \in Flags
    BY DEF Init, Flags
  <2>2. /\ parked \in Peers /\ last \in Peers /\ prefix \in Peers /\ deriving \in Peers
        /\ derived \in Peers /\ key \in Peers /\ click \in Peers
    BY DEF Init, Peers, Opt
  <2>3. /\ inbox \in [Devices -> Seq(Messages)] /\ deferred \in [Devices -> Seq(Verified)]
        /\ chains \in [Devices -> Seq(Link)]
    BY DEF Init
  <2>4. sender \in [Devices -> Senders]
    BY DEF Init, Senders, Opt
  <2>5. drops \in 0..Len(Losing) /\ clicks \in 0..MaxClicks
    BY SessionAssumption DEF Init
  <2>6. /\ seats \in [Seats -> Opt(Devices)] /\ id \in [Devices -> Opt(Seats)]
        /\ phase \in [Devices -> {"away", "live", "down", "over"}]
        /\ owed \in [Devices -> SUBSET {"join", "deferred"}]
        /\ receiver \in [Devices -> Opt(Rx)] /\ forward \in [Devices -> Opt(Rx)]
    BY OptFact DEF Init
  <2>7. compared \subseteq Devices \X Devices /\ crossed \subseteq Devices
    BY DEF Init
  <2> QED
    BY <2>1, <2>2, <2>3, <2>4, <2>5, <2>6, <2>7 DEF TypeOK
<1>2. \A d \in Devices : Sound(d)
  BY DEF Init, Sound, Begun, Bridged, Coherent, Current, Ready
<1> QED
  BY <1>1, <1>2 DEF IInv

LEMMA ArriveType ==
  ASSUME IInv, NEW d \in Devices, Create(d) \/ \E s \in Seats : Join(d, s) \/ Reconnect(d, s)
  PROVE  TypeOK'
<1>1. ASSUME Create(d) PROVE TypeOK'
  <2>1. minted' \in Flags
    BY <1>1, FlagUpdate DEF Create, TypeOK, IInv
  <2>2. /\ seats' \in [Seats -> Opt(Devices)] /\ id' \in [Devices -> Opt(Seats)]
        /\ phase' \in [Devices -> {"away", "live", "down", "over"}]
    BY <1>1, OptFact DEF Create, TypeOK, IInv, Seats
  <2> QED
    BY <1>1, <2>1, <2>2 DEF Create, TypeOK, IInv, bridge, screen, confirm
<1>2. ASSUME NEW s \in Seats, Join(d, s) PROVE TypeOK'
  <2>1. inbox' \in [Devices -> Seq(Messages)]
    <3>1. \A e \in Devices : Append(inbox[e], [t |-> "joined"]) \in Seq(Messages)
      BY Signals DEF TypeOK, IInv
    <3> QED
      BY <1>2, <3>1 DEF Join, TypeOK, IInv
  <2>2. /\ seats' \in [Seats -> Opt(Devices)] /\ id' \in [Devices -> Opt(Seats)]
        /\ phase' \in [Devices -> {"away", "live", "down", "over"}]
        /\ owed' \in [Devices -> SUBSET {"join", "deferred"}]
    BY <1>2, OptFact DEF Join, TypeOK, IInv
  <2> QED
    BY <1>2, <2>1, <2>2 DEF Join, TypeOK, IInv, bridge, screen, confirm
<1>3. ASSUME NEW s \in Seats, Reconnect(d, s) PROVE TypeOK'
  <2>1. inbox' \in [Devices -> Seq(Messages)]
    <3>1. \A e \in Devices : inbox[e] \o <<[t |-> "joined"]>> \o Greeting(d) \in Seq(Messages)
      BY GreetingType, Signals DEF IInv, TypeOK, Sound
    <3> QED
      BY <1>3, <3>1 DEF Reconnect, TypeOK, IInv
  <2>2. sender' \in [Devices -> Senders]
    BY <1>3, RebuiltType DEF Reconnect, IInv
  <2>3. owed' \in [Devices -> SUBSET {"join", "deferred"}]
    BY <1>3 DEF Reconnect, Owing, TypeOK, IInv
  <2>4. panel' \in Flags
    BY <1>3, FlagUpdate, FlagValue DEF Reconnect, Shows, TypeOK, IInv
  <2>5. /\ seats' \in [Seats -> Opt(Devices)]
        /\ phase' \in [Devices -> {"away", "live", "down", "over"}]
    BY <1>3, OptFact DEF Reconnect, TypeOK, IInv
  <2> QED
    BY <1>3, <2>1, <2>2, <2>3, <2>4, <2>5 DEF Reconnect, TypeOK, IInv, confirm
<1> QED
  BY <1>1, <1>2, <1>3

LEMMA DepartType ==
  ASSUME IInv, NEW d \in Devices,
         Mint(d) \/ Drop(d) \/ GiveUp(d) \/ PeerJoined(d) \/ PeerLeft(d) \/ PeerGone(d)
  PROVE  TypeOK'
<1>1. ASSUME Mint(d) PROVE TypeOK'
  <2>1. inbox' \in [Devices -> Seq(Messages)]
    <3>1. Cardinality(owed[d]) \in Nat
      <4>1. IsFiniteSet({} \cup {"join"})
        BY FS_EmptySet, FS_AddElement
      <4>2. IsFiniteSet(({} \cup {"join"}) \cup {"deferred"})
        BY <4>1, FS_AddElement
      <4>3. owed[d] \in SUBSET (({} \cup {"join"}) \cup {"deferred"})
        BY DEF TypeOK, IInv
      <4> QED
        BY <4>2, <4>3, FS_Subset, FS_CardinalityType
    <3>2. Hello(d) \in Messages
      BY <1>1, HelloType DEF Mint, IInv, Sound
    <3>3. [i \in 1..Cardinality(owed[d]) |-> Hello(d)] \in Seq(Messages)
      BY <3>1, <3>2, FunctionSeq
    <3> QED
      BY <1>1, <3>3, SentType DEF Mint, IInv
  <2>2. minted' \in Flags /\ panel' \in Flags
    BY <1>1, FlagUpdate DEF Mint, TypeOK, IInv
  <2>3. deriving' \in Peers /\ parked' \in Peers
    BY <1>1, PeerUpdate, PeerValue, OptFact DEF Mint, TypeOK, IInv, Replayed
  <2>4. owed' \in [Devices -> SUBSET {"join", "deferred"}]
    BY <1>1 DEF Mint, TypeOK, IInv
  <2> QED
    BY <1>1, <2>1, <2>2, <2>3, <2>4 DEF Mint, TypeOK, IInv, bridge, confirm
<1>2. ASSUME Drop(d) PROVE TypeOK'
  <2>1. inbox' \in [Devices -> Seq(Messages)]
    <3>1. Len(inbox[d]) \in Nat
      BY DEF TypeOK, IInv
    <3> QED
      BY <1>2, <3>1, Signals, SentType DEF Drop, IInv
  <2>2. sender' \in [Devices -> Senders]
    <3>1. [sender[d] EXCEPT !.up = FALSE] \in Senders
      BY DEF TypeOK, IInv, Senders
    <3> QED
      BY <1>2, <3>1 DEF Drop, TypeOK, IInv
  <2>3. waiting' \in Flags /\ panel' \in Flags
    BY <1>2, FlagUpdate, FlagValue DEF Drop, TypeOK, IInv, Shows
  <2>4. drops' \in 0..Len(Losing)
    BY <1>2, SessionAssumption DEF Drop, TypeOK, IInv
  <2>5. /\ seats' \in [Seats -> Opt(Devices)]
        /\ phase' \in [Devices -> {"away", "live", "down", "over"}]
    BY <1>2, OptFact DEF Drop, TypeOK, IInv
  <2> QED
    BY <1>2, <2>1, <2>2, <2>3, <2>4, <2>5 DEF Drop, TypeOK, IInv, handshake, confirm
<1>3. ASSUME GiveUp(d) PROVE TypeOK'
  <2>1. goneTimer' \in Flags /\ panel' \in Flags
    BY <1>3, FlagUpdate, FlagValue DEF GiveUp, TypeOK, IInv, Shows
  <2>2. /\ receiver' \in [Devices -> Opt(Rx)]
        /\ phase' \in [Devices -> {"away", "live", "down", "over"}]
    BY <1>3, OptFact DEF GiveUp, TypeOK, IInv
  <2> QED
    BY <1>3, <2>1, <2>2 DEF GiveUp, TypeOK, IInv, handshake, confirm
<1>4. ASSUME PeerJoined(d) PROVE TypeOK'
  <2>1. inbox' \in [Devices -> Seq(Messages)]
    BY <1>4, SentType, GreetingType DEF PeerJoined, IInv, Sound
  <2>2. panel' \in Flags
    BY <1>4, FlagUpdate, FlagValue DEF PeerJoined, TypeOK, IInv, Shows
  <2>3. owed' \in [Devices -> SUBSET {"join", "deferred"}]
    BY <1>4 DEF PeerJoined, Owing, TypeOK, IInv
  <2> QED
    BY <1>4, <2>1, <2>2, <2>3 DEF PeerJoined, TypeOK, IInv, bridge, confirm
<1>5. ASSUME PeerLeft(d) PROVE TypeOK'
  <2>1. inbox' \in [Devices -> Seq(Messages)]
    BY <1>5, Signals, SentType DEF PeerLeft, IInv
  <2>2. sender' \in [Devices -> Senders]
    BY <1>5, RebuiltType DEF PeerLeft, IInv
  <2>3. waiting' \in Flags /\ panel' \in Flags /\ goneTimer' \in Flags
    BY <1>5, FlagUpdate, FlagValue DEF PeerLeft, TypeOK, IInv, Shows
  <2>4. prefix' \in Peers
    BY <1>5, PeerUpdate, OptFact DEF PeerLeft, TypeOK, IInv
  <2>5. deferred' \in [Devices -> Seq(Verified)]
    BY <1>5 DEF PeerLeft, TypeOK, IInv
  <2> QED
    BY <1>5, <2>1, <2>2, <2>3, <2>4, <2>5 DEF PeerLeft, TypeOK, IInv, confirm
<1>6. ASSUME PeerGone(d) PROVE TypeOK'
  <2>1. goneTimer' \in Flags
    BY <1>6, FlagUpdate DEF PeerGone, TypeOK, IInv
  <2>2. receiver' \in [Devices -> Opt(Rx)]
    BY <1>6, OptFact DEF PeerGone, TypeOK, IInv
  <2> QED
    BY <1>6, <2>1, <2>2 DEF PeerGone, TypeOK, IInv, wire, handshake, screen, confirm
<1> QED
  BY <1>1, <1>2, <1>3, <1>4, <1>5, <1>6
LEMMA HandleType ==
  ASSUME IInv, NEW d \in Devices,
         RefuseHello(d) \/ HearHello(d) \/ Establish(d) \/ HearSealed(d) \/ HandleSealed(d)
  PROVE  TypeOK'
<1>1. ASSUME RefuseHello(d) PROVE TypeOK'
  <2>1. inbox' \in [Devices -> Seq(Messages)]
    BY <1>1, Signals, SentType DEF RefuseHello, IInv
  <2> QED
    BY <1>1, <2>1 DEF RefuseHello, TypeOK, IInv, handshake, bridge, screen, confirm
<1>2. ASSUME HearHello(d) PROVE TypeOK'
  <2> DEFINE p == Head(inbox[d]).from
             r == Kept(receiver, d, p)
             f == Kept(forward, d, p)
  <2>1. p \in Devices /\ p \in Opt(Devices)
    BY <1>2, HeadType, OptFact DEF HearHello, IInv
  <2>2. r \in Opt(Rx) /\ f \in Opt(Rx)
    BY OptFact DEF Kept, TypeOK, IInv
  <2>3. /\ last' = [last EXCEPT ![d] = p] /\ prefix' = [prefix EXCEPT ![d] = p]
        /\ goneTimer' = [goneTimer EXCEPT ![d] = FALSE]
        /\ crossed' \subseteq crossed \cup {d}
        /\ UNCHANGED <<seats, phase, drops, id, minted, owed, derived, sender, screen,
                       click, clicks, compared>>
    BY <1>2 DEF HearHello, ClearsTimer
  <2>4. last' \in Peers /\ prefix' \in Peers /\ crossed' \subseteq Devices
    BY <2>1, <2>3, PeerUpdate DEF TypeOK, IInv
  <2>5. goneTimer' \in Flags
    BY <2>3, FlagUpdate DEF TypeOK, IInv
  <2>6. /\ key' \in Peers /\ deriving' \in Peers /\ parked' \in Peers
        /\ localV' \in Flags /\ peerV' \in Flags /\ waiting' \in Flags
        /\ receiver' \in [Devices -> Opt(Rx)] /\ forward' \in [Devices -> Opt(Rx)]
        /\ deferred' \in [Devices -> Seq(Verified)]
        /\ chains' \in [Devices -> Seq(Link)]
        /\ inbox' \in [Devices -> Seq(Messages)]
    <3>1. CASE derived[d] # p
      <4>1. /\ key' = [key EXCEPT ![d] = None]
            /\ localV' = [localV EXCEPT ![d] = FALSE] /\ peerV' = [peerV EXCEPT ![d] = FALSE]
            /\ \/ deriving' = [deriving EXCEPT ![d] = p] /\ UNCHANGED parked
               \/ parked' = [parked EXCEPT ![d] = p] /\ UNCHANGED deriving
            /\ receiver' = [receiver EXCEPT ![d] = r]
            /\ forward' = [forward EXCEPT ![d] = f]
            /\ inbox' = Sent(d, 1, <<>>)
            /\ UNCHANGED <<deferred, chains, waiting>>
        BY <1>2, <3>1 DEF HearHello
      <4> HIDE DEF p, r, f
      <4>2. key' \in Peers /\ deriving' \in Peers /\ parked' \in Peers
        <5>1. key \in Peers /\ deriving \in Peers /\ parked \in Peers
          BY DEF TypeOK, IInv
        <5>2. /\ [key EXCEPT ![d] = None] \in Peers /\ [deriving EXCEPT ![d] = p] \in Peers
              /\ [parked EXCEPT ![d] = p] \in Peers
          BY <2>1, <5>1, PeerUpdate, OptFact
        <5> QED
          BY <4>1, <5>1, <5>2
      <4>3. localV' \in Flags /\ peerV' \in Flags
        BY <4>1, FlagUpdate DEF TypeOK, IInv
      <4>4. receiver' \in [Devices -> Opt(Rx)] /\ forward' \in [Devices -> Opt(Rx)]
        BY <2>2, <4>1 DEF TypeOK, IInv
      <4>5. inbox' \in [Devices -> Seq(Messages)]
        BY <4>1, Signals, SentType DEF IInv
      <4> QED
        BY <4>1, <4>2, <4>3, <4>4, <4>5 DEF TypeOK, IInv
    <3>2. CASE derived[d] = p
      <4>1. /\ Serve(d, 1, key[d], p, sender[d], r, f, localV[d])
            /\ UNCHANGED <<key, localV, peerV, deriving, parked>>
        BY <1>2, <3>2 DEF HearHello
      <4> HIDE DEF p, r, f
      <4>2. /\ key[d] \in Opt(Devices) /\ localV[d] \in BOOLEAN /\ sender[d] \in Senders
            /\ sender[d].up => sender[d].key # None
        BY PeerValue, FlagValue DEF TypeOK, IInv, Sound, Begun
      <4>3. /\ receiver' \in [Devices -> Opt(Rx)] /\ forward' \in [Devices -> Opt(Rx)]
            /\ chains' \in [Devices -> Seq(Link)] /\ deferred' \in [Devices -> Seq(Verified)]
            /\ waiting' \in Flags /\ inbox' \in [Devices -> Seq(Messages)]
        BY <2>1, <2>2, <4>1, <4>2, ServeType DEF IInv
      <4> QED
        BY <4>1, <4>3 DEF TypeOK, IInv
    <3> QED
      BY <3>1, <3>2
  <2> QED
    BY <2>3, <2>4, <2>5, <2>6 DEF TypeOK, IInv, screen
<1>3. ASSUME Establish(d) PROVE TypeOK'
  <2>1. deriving[d] \in Devices /\ deriving[d] \in Opt(Devices)
    BY <1>3, PeerValue, OptFact DEF Establish, TypeOK, IInv
  <2>2. deriving' \in Peers /\ key' \in Peers /\ derived' \in Peers
    BY <1>3, <2>1, PeerUpdate, OptFact DEF Establish, TypeOK, IInv
  <2>3. /\ sender'[d] = [key |-> deriving[d], up |-> TRUE] /\ sender'[d] \in Senders
        /\ sender' \in [Devices -> Senders]
    BY <1>3, <2>1 DEF Establish, TypeOK, IInv, Senders
  <2>4. mine' \in Flags
    BY <1>3, FlagUpdate DEF Establish, TypeOK, IInv
  <2>5. /\ prefix[d] \in Opt(Devices) /\ localV[d] \in BOOLEAN
        /\ receiver[d] \in Opt(Rx) /\ forward[d] \in Opt(Rx)
    BY PeerValue, FlagValue DEF TypeOK, IInv
  <2>6. sender'[d].up => sender'[d].key # None
    BY <1>3, <2>3 DEF Establish
  <2>7. /\ receiver' \in [Devices -> Opt(Rx)] /\ forward' \in [Devices -> Opt(Rx)]
        /\ chains' \in [Devices -> Seq(Link)] /\ deferred' \in [Devices -> Seq(Verified)]
        /\ waiting' \in Flags /\ inbox' \in [Devices -> Seq(Messages)]
    <3> DEFINE q == deriving[d]
               s == sender'[d]
    <3>1. Serve(d, 0, q, prefix[d], s, receiver[d], forward[d], localV[d])
      BY <1>3 DEF Establish
    <3>2. TypeOK
      BY DEF IInv
    <3>3. q \in Opt(Devices) /\ s \in Senders /\ (s.up => s.key # None)
      BY <2>1, <2>3, <2>6
    <3> HIDE DEF q, s
    <3>4. ASSUME NEW n \in Nat,
                 Serve(d, n, q, prefix[d], s, receiver[d], forward[d], localV[d])
          PROVE  /\ receiver' \in [Devices -> Opt(Rx)] /\ forward' \in [Devices -> Opt(Rx)]
                 /\ chains' \in [Devices -> Seq(Link)] /\ deferred' \in [Devices -> Seq(Verified)]
                 /\ waiting' \in Flags /\ inbox' \in [Devices -> Seq(Messages)]
      BY <2>5, <3>2, <3>3, <3>4, ServeType
    <3> QED
      BY <3>1, <3>4
  <2> QED
    BY <1>3, <2>2, <2>3, <2>4, <2>7 DEF Establish, TypeOK, IInv, confirm
<1>4. ASSUME HearSealed(d) PROVE TypeOK'
  <2> DEFINE m == Head(inbox[d])
  <2>1. m \in Verified
    BY <1>4, HeadType DEF HearSealed, IInv
  <2>2. inbox' \in [Devices -> Seq(Messages)]
    BY <1>4, Signals, SentType DEF HearSealed, IInv
  <2>3. CASE forward[d] # None
    <3>1. forward[d] \in Rx
      BY <2>3, OptFact DEF TypeOK, IInv
    <3>2. [rx |-> forward[d], frame |-> m] \in Link
      BY <2>1, <3>1 DEF Link
    <3> HIDE DEF m
    <3>3. Append(chains[d], [rx |-> forward[d], frame |-> m]) \in Seq(Link)
      BY <3>2 DEF TypeOK, IInv
    <3>4. chains' = [chains EXCEPT ![d] = Append(@, [rx |-> forward[d], frame |-> m])]
             /\ UNCHANGED deferred
      BY <1>4, <2>3 DEF HearSealed, m
    <3> QED
      BY <1>4, <2>2, <3>3, <3>4 DEF HearSealed, TypeOK, IInv, handshake, screen, confirm
  <2>4. CASE forward[d] = None
    <3> HIDE DEF m
    <3>1. Append(deferred[d], m) \in Seq(Verified)
      BY <2>1 DEF TypeOK, IInv
    <3>2. deferred' = [deferred EXCEPT ![d] = Append(@, m)] /\ UNCHANGED chains
      BY <1>4, <2>4 DEF HearSealed, m
    <3> QED
      BY <1>4, <2>2, <3>1, <3>2 DEF HearSealed, TypeOK, IInv, handshake, screen, confirm
  <2> QED
    BY <2>3, <2>4
<1>5. ASSUME HandleSealed(d) PROVE TypeOK'
  <2>1. PICK i \in DOMAIN chains[d] :
          /\ chains' = [chains EXCEPT ![d] = RemoveAt(@, i)]
          /\ peerV' = [peerV EXCEPT ![d] = @ \/ Opens(d, chains[d][i])]
          /\ UNCHANGED <<wire, handshake, sender, receiver, forward, deferred,
                         goneTimer, waiting, screen, click, clicks, localV, compared>>
    BY <1>5 DEF HandleSealed
  <2>2. chains' \in [Devices -> Seq(Link)]
    <3>1. RemoveAt(chains[d], i) \in Seq(Link)
      BY DEF TypeOK, IInv, RemoveAt
    <3> QED
      BY <2>1, <3>1 DEF TypeOK, IInv
  <2>3. peerV' \in Flags
    <3>1. (peerV[d] \/ Opens(d, chains[d][i])) \in BOOLEAN
      OBVIOUS
    <3> QED
      BY <2>1, <3>1, FlagUpdate, Zenon DEF TypeOK, IInv
  <2> QED
    BY <2>1, <2>2, <2>3 DEF TypeOK, IInv, wire, handshake, screen
<1> QED
  BY <1>1, <1>2, <1>3, <1>4, <1>5

LEMMA UserType ==
  ASSUME IInv, NEW d \in Devices, Compare(d) \/ ConfirmVerification(d) \/ AwaitHello(d)
  PROVE  TypeOK'
<1>1. ASSUME Compare(d) PROVE TypeOK'
  <2>1. mine' \in Flags
    BY <1>1, FlagUpdate DEF Compare, TypeOK, IInv
  <2>2. derived[d] \in Devices /\ derived[d] \in Opt(Devices)
    BY <1>1, PeerValue, OptFact DEF Compare, TypeOK, IInv
  <2>3. click' \in Peers
    BY <1>1, <2>2, PeerUpdate DEF Compare, TypeOK, IInv
  <2>5. compared' \subseteq Devices \X Devices
    BY <1>1, <2>2 DEF Compare, TypeOK, IInv
  <2>4. clicks' \in 0..MaxClicks
    BY <1>1, SessionAssumption DEF Compare, TypeOK, IInv
  <2> QED
    BY <1>1, <2>1, <2>3, <2>4, <2>5 DEF Compare, TypeOK, IInv, wire, handshake, bridge
<1>2. ASSUME ConfirmVerification(d) PROVE TypeOK'
  <2>1. (IF localV[d] THEN <<>> ELSE Claim(d, sender[d])) \in Seq(Messages)
    BY ClaimType, Signals DEF TypeOK, IInv, Sound, Begun
  <2>2. inbox' \in [Devices -> Seq(Messages)]
    BY <1>2, <2>1, SentType DEF ConfirmVerification, IInv
  <2>3. localV' \in Flags
    BY <1>2, FlagUpdate DEF ConfirmVerification, TypeOK, IInv
  <2>4. click' \in Peers
    BY <1>2, PeerUpdate, OptFact DEF ConfirmVerification, TypeOK, IInv
  <2> QED
    BY <1>2, <2>2, <2>3, <2>4
    DEF ConfirmVerification, TypeOK, IInv, handshake, bridge, screen
<1>3. ASSUME AwaitHello(d) PROVE TypeOK'
  <2>1. waiting' \in Flags
    BY <1>3, FlagUpdate DEF AwaitHello, TypeOK, IInv
  <2> QED
    BY <1>3, <2>1 DEF AwaitHello, TypeOK, IInv, wire, handshake, screen, confirm
<1> QED
  BY <1>1, <1>2, <1>3
-----------------------------------------------------------------------------
(* Every step keeps what is said of each device.                           *)

(* A device is untouched by the steps of the others.                       *)
Same(e) ==
  /\ phase'[e] = phase[e] /\ id'[e] = id[e] /\ minted'[e] = minted[e]
  /\ parked'[e] = parked[e] /\ last'[e] = last[e] /\ prefix'[e] = prefix[e]
  /\ deriving'[e] = deriving[e] /\ derived'[e] = derived[e] /\ key'[e] = key[e]
  /\ sender'[e] = sender[e] /\ receiver'[e] = receiver[e] /\ forward'[e] = forward[e]
  /\ deferred'[e] = deferred[e] /\ goneTimer'[e] = goneTimer[e] /\ waiting'[e] = waiting[e]
  /\ e \in crossed' <=> e \in crossed

LEMMA SameSound ==
  ASSUME NEW e \in Devices, Sound(e), Same(e)
  PROVE  Sound(e)'
BY DEF Same, Sound, Begun, Bridged, Coherent, Current, Ready

LEMMA RebuiltFact ==
  ASSUME TypeOK, NEW d \in Devices
  PROVE  /\ Rebuilt(d)[d].up => Rebuilt(d)[d].key # None
         /\ key[d] # None => Rebuilt(d)[d].key = key[d]
         /\ \A e \in Devices \ {d} : Rebuilt(d)[e] = sender[e]
<1>1. sender \in [Devices -> Senders]
  BY DEF TypeOK
<1>2. \A e \in Devices \ {d} : Rebuilt(d)[e] = sender[e]
  BY <1>1 DEF Rebuilt
<1>3. CASE key[d] # None
  BY <1>1, <1>2, <1>3 DEF Rebuilt
<1>4. CASE key[d] = None
  <2>1. Rebuilt(d)[d] = [sender[d] EXCEPT !.up = FALSE]
    BY <1>1, <1>4 DEF Rebuilt
  <2>2. ~Rebuilt(d)[d].up
    BY <1>1, <2>1 DEF Senders
  <2> QED
    BY <1>2, <1>4, <2>2
<1> QED
  BY <1>3, <1>4

LEMMA ArriveSound ==
  ASSUME IInv, NEW d \in Devices, Create(d) \/ \E s \in Seats : Join(d, s) \/ Reconnect(d, s)
  PROVE  \A e \in Devices : Sound(e)'
<1>1. ASSUME Create(d) PROVE \A e \in Devices : Sound(e)'
  <2>1. \A e \in Devices \ {d} : Same(e)
    BY <1>1 DEF Create, Same, TypeOK, IInv, Flags, bridge
  <2>2. Sound(d)'
    BY <1>1, SessionAssumption
    DEF Create, IInv, TypeOK, Flags, Sound, Begun, Bridged, Coherent, Current, Ready, bridge, Seats
  <2> QED
    BY <2>1, <2>2, SameSound DEF IInv
<1>2. ASSUME NEW s \in Seats, Join(d, s) PROVE \A e \in Devices : Sound(e)'
  <2>1. \A e \in Devices \ {d} : Same(e)
    BY <1>2 DEF Join, Same, TypeOK, IInv, bridge
  <2>2. Sound(d)'
    BY <1>2, SessionAssumption
    DEF Join, IInv, TypeOK, Sound, Begun, Bridged, Coherent, Current, Ready, bridge
  <2> QED
    BY <2>1, <2>2, SameSound DEF IInv
<1>3. ASSUME NEW s \in Seats, Reconnect(d, s) PROVE \A e \in Devices : Sound(e)'
  <2>1. \A e \in Devices \ {d} : Same(e)
    BY <1>3, RebuiltFact DEF Reconnect, Same, TypeOK, IInv
  <2>2. Sound(d)'
    BY <1>3, RebuiltFact
    DEF Reconnect, IInv, TypeOK, Sound, Begun, Bridged, Coherent, Current, Ready
  <2> QED
    BY <2>1, <2>2, SameSound DEF IInv
<1> QED
  BY <1>1, <1>2, <1>3

LEMMA DepartSound ==
  ASSUME IInv, NEW d \in Devices,
         Mint(d) \/ Drop(d) \/ GiveUp(d) \/ PeerJoined(d) \/ PeerLeft(d) \/ PeerGone(d)
  PROVE  \A e \in Devices : Sound(e)'
<1>1. ASSUME Mint(d) PROVE \A e \in Devices : Sound(e)'
  <2>1. \A e \in Devices \ {d} : Same(e)
    BY <1>1 DEF Mint, Same, TypeOK, IInv, Flags, Peers, bridge
  <2>2. Sound(d)'
    BY <1>1
    DEF Mint, Replayed, IInv, TypeOK, Flags, Peers, Sound, Begun, Bridged, Coherent, Current,
        Ready, bridge
  <2> QED
    BY <2>1, <2>2, SameSound DEF IInv
<1>2. ASSUME Drop(d) PROVE \A e \in Devices : Sound(e)'
  <2>1. \A e \in Devices \ {d} : Same(e)
    BY <1>2 DEF Drop, Same, TypeOK, IInv, Flags, handshake
  <2>2. ~sender'[d].up /\ sender'[d].key = sender[d].key /\ ~waiting'[d]
    BY <1>2 DEF Drop, TypeOK, IInv, Flags, Senders
  <2>3. Sound(d)'
    BY <1>2, <2>2
    DEF Drop, IInv, TypeOK, Sound, Begun, Bridged, Coherent, Current, Ready, handshake
  <2> QED
    BY <2>1, <2>3, SameSound DEF IInv
<1>3. ASSUME GiveUp(d) PROVE \A e \in Devices : Sound(e)'
  <2>1. \A e \in Devices \ {d} : Same(e)
    BY <1>3 DEF GiveUp, Same, TypeOK, IInv, Flags, handshake
  <2>2. Sound(d)'
    BY <1>3
    DEF GiveUp, IInv, TypeOK, Flags, Sound, Begun, Bridged, Coherent, Current, Ready, handshake
  <2> QED
    BY <2>1, <2>2, SameSound DEF IInv
<1>4. ASSUME PeerJoined(d) PROVE \A e \in Devices : Sound(e)'
  <2>1. \A e \in Devices : Same(e)
    BY <1>4 DEF PeerJoined, Same, bridge
  <2> QED
    BY <2>1, SameSound DEF IInv
<1>5. ASSUME PeerLeft(d) PROVE \A e \in Devices : Sound(e)'
  <2>1. \A e \in Devices \ {d} : Same(e)
    BY <1>5, RebuiltFact DEF PeerLeft, Same, TypeOK, IInv, Flags, Peers
  <2>2. Sound(d)'
    BY <1>5, RebuiltFact
    DEF PeerLeft, IInv, TypeOK, Flags, Peers, Sound, Begun, Bridged, Coherent, Current, Ready
  <2> QED
    BY <2>1, <2>2, SameSound DEF IInv
<1>6. ASSUME PeerGone(d) PROVE \A e \in Devices : Sound(e)'
  <2>1. \A e \in Devices \ {d} : Same(e)
    BY <1>6 DEF PeerGone, Same, TypeOK, IInv, Flags, wire, handshake
  <2>2. Sound(d)'
    BY <1>6
    DEF PeerGone, IInv, TypeOK, Flags, Sound, Begun, Bridged, Coherent, Current, Ready, wire,
        handshake
  <2> QED
    BY <2>1, <2>2, SameSound DEF IInv
<1> QED
  BY <1>1, <1>2, <1>3, <1>4, <1>5, <1>6
(* The tail of #establish, for a session that knows the peer p.            *)
LEMMA ServeFact ==
  ASSUME TypeOK, NEW d \in Devices, NEW n, NEW k, NEW p, NEW s, NEW r, NEW f, NEW b,
         r # None => f = r, f # None => deferred[d] = <<>> \/ r = None,
         Serve(d, n, k, p, s, r, f, b)
  PROVE  /\ \A e \in Devices \ {d} :
              /\ receiver'[e] = receiver[e] /\ forward'[e] = forward[e]
              /\ deferred'[e] = deferred[e] /\ waiting'[e] = waiting[e]
         /\ r = None /\ k # None /\ p # None => receiver'[d] = [peer |-> p, key |-> k]
         /\ ~(r = None /\ k # None /\ p # None) => receiver'[d] = r
         /\ receiver'[d] # None => forward'[d] = receiver'[d]
         /\ forward'[d] # None => deferred'[d] = <<>>
         /\ ~waiting'[d]
<1> DEFINE starts == r = None /\ k # None /\ p # None
           rx == IF starts THEN [peer |-> p, key |-> k] ELSE r
           fw == IF starts THEN rx ELSE f
<1>1. /\ receiver' = [receiver EXCEPT ![d] = rx] /\ forward' = [forward EXCEPT ![d] = fw]
      /\ deferred' = [deferred EXCEPT ![d] = IF fw = None THEN @ ELSE <<>>]
      /\ waiting' = [waiting EXCEPT ![d] = FALSE]
  BY DEF Serve
<1>2. rx # None => fw = rx
  OBVIOUS
<1> HIDE DEF rx, fw
<1>3. /\ receiver'[d] = rx /\ forward'[d] = fw
      /\ fw # None => deferred'[d] = <<>>
      /\ ~waiting'[d]
  BY <1>1 DEF TypeOK, Flags
<1>4. \A e \in Devices \ {d} :
        /\ receiver'[e] = receiver[e] /\ forward'[e] = forward[e]
        /\ deferred'[e] = deferred[e] /\ waiting'[e] = waiting[e]
  BY <1>1 DEF TypeOK, Flags
<1> QED
  BY <1>2, <1>3, <1>4 DEF rx

LEMMA HearHelloSound ==
  ASSUME IInv, NEW d \in Devices, HearHello(d)
  PROVE  \A e \in Devices : Sound(e)'
<1> DEFINE p == Head(inbox[d]).from
           r == Kept(receiver, d, p)
           f == Kept(forward, d, p)
<1>1. p \in Devices /\ p # None
  BY HeadType, SessionAssumption DEF HearHello, IInv
<1>2. /\ last' = [last EXCEPT ![d] = p] /\ prefix' = [prefix EXCEPT ![d] = p]
      /\ goneTimer' = [goneTimer EXCEPT ![d] = FALSE]
      /\ crossed' = IF derived[d] = p /\ deriving[d] # None THEN crossed \cup {d}
                    ELSE IF last[d] = p THEN crossed ELSE crossed \ {d}
      /\ UNCHANGED <<seats, phase, drops, id, minted, owed, derived, sender>>
  BY DEF HearHello, ClearsTimer
<1>3. /\ last'[d] = p /\ prefix'[d] = p /\ ~goneTimer'[d]
      /\ \A e \in Devices \ {d} :
           /\ last'[e] = last[e] /\ prefix'[e] = prefix[e] /\ goneTimer'[e] = goneTimer[e]
           /\ e \in crossed' <=> e \in crossed
  BY <1>2 DEF IInv, TypeOK, Peers, Flags
<1>4. /\ r # None => f = r /\ r = receiver[d] /\ last[d] = p
      /\ f # None => f = forward[d] /\ deferred[d] = <<>>
  BY DEF Kept, IInv, Sound, Bridged
<1>5. CASE derived[d] # p
  <2>1. /\ key' = [key EXCEPT ![d] = None]
        /\ IF minted[d] THEN deriving' = [deriving EXCEPT ![d] = p] /\ UNCHANGED parked
                        ELSE parked' = [parked EXCEPT ![d] = p] /\ UNCHANGED deriving
        /\ receiver' = [receiver EXCEPT ![d] = r]
        /\ forward' = [forward EXCEPT ![d] = f]
        /\ UNCHANGED <<deferred, chains, waiting>>
    BY <1>5 DEF HearHello
  <2> HIDE DEF p, r, f
  <2>2. /\ key'[d] = None /\ receiver'[d] = r /\ forward'[d] = f
        /\ minted[d] => deriving'[d] = p /\ parked'[d] = parked[d]
        /\ ~minted[d] => parked'[d] = p /\ deriving'[d] = deriving[d]
    BY <2>1 DEF IInv, TypeOK, Peers
  <2>3. \A e \in Devices \ {d} : Same(e)
    BY <1>2, <1>3, <2>1 DEF Same, IInv, TypeOK, Peers
  <2>4. phase[d] # "away"
    BY DEF HearHello, Gets
  <2>5. Begun(d)' /\ Bridged(d)' /\ Coherent(d)'
    BY <1>1, <1>2, <1>3, <1>4, <2>1, <2>2, <2>4
    DEF IInv, Sound, Begun, Bridged, Coherent, Ready
  <2>6. Current(d)'
    BY <1>1, <1>2, <1>3, <1>4, <1>5, <2>2 DEF IInv, Sound, Coherent, Current
  <2> QED
    BY <2>3, <2>5, <2>6, SameSound DEF IInv, Sound
<1>6. CASE derived[d] = p
  <2>1. /\ Serve(d, 1, key[d], p, sender[d], r, f, localV[d])
        /\ UNCHANGED <<key, localV, peerV, deriving, parked>>
    BY <1>6 DEF HearHello
  <2>2. phase[d] # "away"
    BY DEF HearHello, Gets
  <2> HIDE DEF p, r, f
  <2>3. /\ \A e \in Devices \ {d} :
             /\ receiver'[e] = receiver[e] /\ forward'[e] = forward[e]
             /\ deferred'[e] = deferred[e] /\ waiting'[e] = waiting[e]
        /\ r = None /\ key[d] # None => receiver'[d] = [peer |-> p, key |-> key[d]]
        /\ ~(r = None /\ key[d] # None) => receiver'[d] = r
        /\ receiver'[d] # None => forward'[d] = receiver'[d]
        /\ forward'[d] # None => deferred'[d] = <<>>
        /\ ~waiting'[d]
    BY <1>1, <1>4, <2>1, ServeFact DEF IInv
  <2>9. r = None /\ key[d] # None => receiver'[d] # None
    <3>1. key[d] # None => key[d] \in Devices
      BY PeerValue, OptFact DEF IInv, TypeOK
    <3> QED
      BY <1>1, <2>3, <3>1, SessionAssumption DEF Rx
  <2>4. \A e \in Devices \ {d} : Same(e)
    BY <1>2, <1>3, <2>1, <2>3 DEF Same
  <2>5. minted[d]
    BY <1>1, <1>6 DEF IInv, Sound, Coherent
  <2>6. Begun(d)' /\ Coherent(d)'
    BY <1>1, <1>2, <1>3, <1>6, <2>1, <2>2, <2>5 DEF IInv, Sound, Begun, Coherent
  <2>7. Bridged(d)'
    BY <1>1, <1>2, <1>3, <2>1, <2>3, <2>9 DEF IInv, Sound, Bridged, Ready
  <2>8. Current(d)'
    <3>1. d \notin crossed' => deriving'[d] = None
      BY <1>2, <1>6, <2>1 DEF p
    <3>2. CASE r = None /\ key[d] # None
      BY <1>2, <1>3, <1>6, <2>1, <2>3, <3>1, <3>2 DEF IInv, Sound, Coherent, Current, p
    <3>3. CASE r # None
      <4>1. receiver'[d] = receiver[d] /\ last[d] = p
        BY <1>4, <2>3, <3>3
      <4>2. d \notin crossed' => d \notin crossed
        BY <1>2, <1>6, <4>1 DEF p
      <4> QED
        BY <1>2, <1>3, <3>1, <4>1, <4>2 DEF IInv, Sound, Current
    <3>4. CASE r = None /\ key[d] = None
      BY <2>3, <3>1, <3>4 DEF Current
    <3> QED
      BY <3>2, <3>3, <3>4
  <2> QED
    BY <2>4, <2>6, <2>7, <2>8, SameSound DEF IInv, Sound
<1> QED
  BY <1>5, <1>6

LEMMA EstablishSound ==
  ASSUME IInv, NEW d \in Devices, Establish(d)
  PROVE  \A e \in Devices : Sound(e)'
<1> DEFINE q == deriving[d]
<1>1. q # None
  BY DEF Establish
<1>2. /\ deriving' = [deriving EXCEPT ![d] = None] /\ key' = [key EXCEPT ![d] = q]
      /\ derived' = [derived EXCEPT ![d] = q]
      /\ sender' = [sender EXCEPT ![d] = [key |-> q, up |-> TRUE]]
      /\ Serve(d, 0, q, prefix[d], sender'[d], receiver[d], forward[d], localV[d])
      /\ UNCHANGED <<phase, id, minted, parked, last, prefix, crossed, goneTimer>>
  BY DEF Establish
<1> HIDE DEF q
<1>3. /\ deriving'[d] = None /\ key'[d] = q /\ derived'[d] = q
      /\ sender'[d].up /\ sender'[d].key = q
      /\ \A e \in Devices \ {d} :
           /\ deriving'[e] = deriving[e] /\ key'[e] = key[e] /\ derived'[e] = derived[e]
           /\ sender'[e] = sender[e]
  BY <1>2 DEF IInv, TypeOK, Peers
<1>4. /\ receiver[d] # None => forward[d] = receiver[d]
      /\ forward[d] # None => deferred[d] = <<>>
  BY DEF IInv, Sound, Bridged
<1>5. /\ \A e \in Devices \ {d} :
           /\ receiver'[e] = receiver[e] /\ forward'[e] = forward[e]
           /\ deferred'[e] = deferred[e] /\ waiting'[e] = waiting[e]
      /\ receiver[d] = None /\ prefix[d] # None =>
           receiver'[d] = [peer |-> prefix[d], key |-> q]
      /\ ~(receiver[d] = None /\ prefix[d] # None) => receiver'[d] = receiver[d]
      /\ receiver'[d] # None => forward'[d] = receiver'[d]
      /\ forward'[d] # None => deferred'[d] = <<>>
      /\ ~waiting'[d]
  BY <1>1, <1>2, <1>4, ServeFact DEF IInv
<1>6. \A e \in Devices \ {d} : Same(e)
  BY <1>2, <1>3, <1>5 DEF Same
<1>7. minted[d]
  BY <1>1 DEF IInv, Sound, Coherent, q
<1>8. Begun(d)' /\ Coherent(d)'
  BY <1>1, <1>2, <1>3, <1>7 DEF IInv, Sound, Begun, Coherent
<1>9. Bridged(d)'
  <2>1. receiver'[d] = None => prefix[d] = None
    <3>1. q \in Devices /\ (prefix[d] # None => prefix[d] \in Devices)
      BY <1>1, PeerValue, OptFact DEF IInv, TypeOK, q
    <3> QED
      BY <1>5, <3>1, SessionAssumption DEF Rx
  <2> QED
    BY <1>2, <1>5, <2>1 DEF IInv, Sound, Bridged, Ready
<1>10. Current(d)'
  BY <1>1, <1>2, <1>3, <1>5 DEF IInv, Sound, Coherent, Current, q
<1> QED
  BY <1>6, <1>8, <1>9, <1>10, SameSound DEF IInv, Sound
LEMMA HandleSound ==
  ASSUME IInv, NEW d \in Devices, RefuseHello(d) \/ HearSealed(d) \/ HandleSealed(d)
  PROVE  \A e \in Devices : Sound(e)'
<1>1. ASSUME RefuseHello(d) PROVE \A e \in Devices : Sound(e)'
  <2>1. \A e \in Devices : Same(e)
    BY <1>1 DEF RefuseHello, Same, handshake, bridge
  <2> QED
    BY <2>1, SameSound DEF IInv
<1>2. ASSUME HearSealed(d) PROVE \A e \in Devices : Sound(e)'
  <2>1. CASE forward[d] # None
    <3>1. \A e \in Devices : Same(e)
      BY <1>2, <2>1 DEF HearSealed, Same, handshake
    <3> QED
      BY <3>1, SameSound DEF IInv
  <2>2. CASE forward[d] = None
    <3>1. \A e \in Devices \ {d} : Same(e)
      BY <1>2, <2>2 DEF HearSealed, Same, TypeOK, IInv, handshake
    <3>2. Sound(d)'
      BY <1>2, <2>2
      DEF HearSealed, IInv, Sound, Begun, Bridged, Coherent, Current, Ready, handshake
    <3> QED
      BY <3>1, <3>2, SameSound DEF IInv
  <2> QED
    BY <2>1, <2>2
<1>3. ASSUME HandleSealed(d) PROVE \A e \in Devices : Sound(e)'
  <2>1. \A e \in Devices : Same(e)
    BY <1>3 DEF HandleSealed, Same, wire, handshake
  <2> QED
    BY <2>1, SameSound DEF IInv
<1> QED
  BY <1>1, <1>2, <1>3

LEMMA UserSound ==
  ASSUME IInv, NEW d \in Devices, Compare(d) \/ ConfirmVerification(d) \/ AwaitHello(d)
  PROVE  \A e \in Devices : Sound(e)'
<1>1. ASSUME Compare(d) \/ ConfirmVerification(d) PROVE \A e \in Devices : Sound(e)'
  <2>1. \A e \in Devices : Same(e)
    BY <1>1 DEF Compare, ConfirmVerification, Same, wire, handshake, bridge
  <2> QED
    BY <2>1, SameSound DEF IInv
<1>2. ASSUME AwaitHello(d) PROVE \A e \in Devices : Sound(e)'
  <2>1. \A e \in Devices \ {d} : Same(e)
    BY <1>2 DEF AwaitHello, Same, TypeOK, IInv, Flags, wire, handshake
  <2>2. Sound(d)'
    BY <1>2
    DEF AwaitHello, IInv, Sound, Begun, Bridged, Coherent, Current, Ready, wire, handshake
  <2> QED
    BY <2>1, <2>2, SameSound DEF IInv
<1> QED
  BY <1>1, <1>2

LEMMA NextIInv == IInv /\ [Next]_vars => IInv'
<1> SUFFICES ASSUME IInv, [Next]_vars PROVE IInv'
  OBVIOUS
<1>1. CASE Next
  <2>1. PICK d \in Devices :
          \/ Create(d) \/ \E s \in Seats : Join(d, s) \/ Reconnect(d, s)
          \/ Mint(d) \/ Drop(d) \/ GiveUp(d) \/ Handle(d) \/ PeerGone(d)
          \/ Establish(d) \/ HandleSealed(d)
          \/ Compare(d) \/ ConfirmVerification(d) \/ AwaitHello(d)
    BY <1>1 DEF Next
  <2>2. TypeOK'
    BY <2>1, ArriveType, DepartType, HandleType, UserType DEF Handle
  <2>3. \A e \in Devices : Sound(e)'
    BY <2>1, ArriveSound, DepartSound, HearHelloSound, EstablishSound, HandleSound, UserSound
    DEF Handle
  <2> QED
    BY <2>2, <2>3 DEF IInv
<1>2. CASE UNCHANGED vars
  <2>1. TypeOK'
    BY <1>2 DEF IInv, TypeOK, vars, wire, handshake, bridge, screen, confirm
  <2>2. \A e \in Devices : Same(e)
    BY <1>2 DEF Same, vars, wire, handshake, bridge
  <2> QED
    BY <2>1, <2>2, SameSound DEF IInv
<1> QED
  BY <1>1, <1>2

LEMMA SpecIInv == Spec => []IInv
BY InitIInv, NextIInv, PTL DEF Spec

-----------------------------------------------------------------------------
(* Every reachable state is well typed, for any number of devices.         *)
THEOREM TypeCorrect == Spec => []TypeOK
<1>1. IInv => TypeOK
  BY DEF IInv
<1> QED
  BY SpecIInv, <1>1, PTL

(* Whenever a session would let a send through (session.ts, #awaitHello), its  *)
(* Receiver is there and is the one frames are handed to, no frame is left *)
(* in the buffer and no earlier send waits.                                *)
THEOREM PairsAreServed == Spec => []PairedIsServed
<1>1. IInv => PairedIsServed
  <2> SUFFICES ASSUME IInv, NEW d \in Devices, Ready(d)
               PROVE  /\ receiver[d] # None /\ forward[d] = receiver[d]
                      /\ deferred[d] = <<>> /\ ~waiting[d]
    BY DEF PairedIsServed
  <2> QED
    BY DEF IInv, Sound, Bridged
<1> QED
  BY SpecIInv, <1>1, PTL

(* ... and key, Sender and Receiver are those of the peer that is there,   *)
(* unless that peer came back while another's key was being derived.       *)
THEOREM KeysAreForThePeer == Spec => []KeyIsForPeer
<1>1. IInv => KeyIsForPeer
  <2> SUFFICES ASSUME IInv, NEW d \in Devices, Ready(d), d \notin crossed
               PROVE  /\ key[d] = prefix[d] /\ derived[d] = prefix[d]
                      /\ sender[d].key = prefix[d]
                      /\ receiver[d] = [peer |-> prefix[d], key |-> prefix[d]]
    BY DEF KeyIsForPeer
  <2>1. receiver[d] # None /\ prefix[d] = last[d] /\ key[d] # None
    BY DEF IInv, Sound, Bridged, Coherent, Ready
  <2> QED
    BY <2>1 DEF IInv, Sound, Coherent, Current
<1> QED
  BY SpecIInv, <1>1, PTL
=============================================================================
