------------------------------- MODULE Session -------------------------------
(***************************************************************************)
(* How two devices of a room become a pair, and stay one while connections *)
(* drop and other devices take the free seat: the hello, the key derived   *)
(* from it, the Receiver and Sender built around the key, and the          *)
(* confirmation of the number both users compare (client/session.ts).      *)
(*                                                                         *)
(* A device stands for one page load: it mints one key pair and one nonce  *)
(* prefix, so its public key, its prefix and the number shown for it are   *)
(* all named by the device. A session key is named by its two devices.     *)
(* The relay is two seats; what is sent reaches whoever sits opposite at   *)
(* that moment, in order, and waits in its inbox until it is handled. What *)
(* a lost connection had not delivered is gone.                            *)
(*                                                                         *)
(* The one sealed frame is `verified`. Deriving a key, opening a frame     *)
(* (behind a chunk whose sink waits for its user) and a click on its way   *)
(* from the page to the worker take any time.                              *)
(*                                                                         *)
(* Definitions that differ from their neighbour by one mistake are faulty  *)
(* variants no action uses; they stand for the bugs the properties see.    *)
(***************************************************************************)
EXTENDS Integers, Sequences, FiniteSets, SequencesExt

CONSTANTS
  N,          \* how many devices ever come to the room (bound)
  Losing,     \* the devices that lose a connection, in this order (bound)
  MaxClicks,  \* how many confirmations the users give (bound)
  None

Devices == 1..N   \* named in the order in which they arrive
Seats == {"a", "b"}
Rx == [peer : Devices, key : Devices]   \* Receivers, by what they were built with

ASSUME SessionAssumption ==
  /\ N \in Nat \ {0} /\ Losing \in Seq(Devices) /\ MaxClicks \in Nat
  /\ None \notin Devices /\ None \notin Seats /\ None \notin Rx

VARIABLES
  seats,     \* the relay: who sits where
  phase,     \* "away", "live", "down" (Reconnector running) or "over"
  inbox,     \* what the relay has sent and the session has not handled
  drops,     \* connections lost so far
  id,        \* Session.peerId: the seat of the first connection
  minted,    \* #keyPair and #pub exist
  owed,      \* hellos the end of #init sends: #helloDeferred, join()
  parked,    \* #helloBeforeKeys
  last,      \* #lastPeerPrefix
  prefix,    \* #remoteNoncePrefix
  deriving,  \* the newest derivation, if it has not finished
  derived,   \* #derivedFrom, and so #verification
  key,       \* #key
  sender,    \* #sender: the key it seals under, and whether it is aborted
  receiver,  \* #receiver: the prefix and the key it was built with
  forward,   \* #forward: the Receiver frames are handed to, live or not
  deferred,  \* #deferred
  chains,    \* frames handed to a Receiver and not handled yet
  goneTimer, \* #peerGoneTimer is armed
  waiting,   \* #pendingHello: a send waits for the handshake
  panel,     \* the page shows the number (state 'paired')
  mine,      \* the page's verifiedByMe
  click,     \* the number a click on its way to the worker was made for
  clicks,    \* confirmations given so far
  localV,    \* #localVerified
  peerV,     \* #peerVerified
  compared,  \* history: <<d, p>> if the user of d confirmed the number for p
  crossed    \* history: devices whose peer came back while another's key was derived

wire == <<seats, phase, inbox, drops, id>>
handshake == <<minted, owed, parked, last, prefix, deriving, derived, key, crossed>>
bridge == <<sender, receiver, forward, deferred, chains, goneTimer, waiting>>
screen == <<panel, mine>>
confirm == <<click, clicks, localV, peerV, compared>>
vars == <<wire, handshake, bridge, screen, confirm>>

Verified == [t : {"verified"}, from : Devices, under : Devices]
Link == [rx : Rx, frame : Verified]
Messages == [t : {"joined", "left"}] \cup Verified \cup
            [t : {"hello"}, from : Devices, id : Seats]
Opt(S) == S \cup {None}
Senders == [key : Opt(Devices), up : BOOLEAN]

Init ==
  /\ seats = [s \in Seats |-> None]
  /\ phase = [d \in Devices |-> "away"]
  /\ inbox = [d \in Devices |-> <<>>]
  /\ drops = 0
  /\ id = [d \in Devices |-> None]
  /\ minted = [d \in Devices |-> FALSE]
  /\ owed = [d \in Devices |-> {}]
  /\ parked = [d \in Devices |-> None]
  /\ last = [d \in Devices |-> None]
  /\ prefix = [d \in Devices |-> None]
  /\ deriving = [d \in Devices |-> None]
  /\ derived = [d \in Devices |-> None]
  /\ key = [d \in Devices |-> None]
  /\ sender = [d \in Devices |-> [key |-> None, up |-> FALSE]]
  /\ receiver = [d \in Devices |-> None]
  /\ forward = [d \in Devices |-> None]
  /\ deferred = [d \in Devices |-> <<>>]
  /\ chains = [d \in Devices |-> <<>>]
  /\ goneTimer = [d \in Devices |-> FALSE]
  /\ waiting = [d \in Devices |-> FALSE]
  /\ panel = [d \in Devices |-> FALSE]
  /\ mine = [d \in Devices |-> FALSE]
  /\ click = [d \in Devices |-> None]
  /\ clicks = 0
  /\ localV = [d \in Devices |-> FALSE]
  /\ peerV = [d \in Devices |-> FALSE]
  /\ compared = {}
  /\ crossed = {}
-----------------------------------------------------------------------------
(* The relay. *)
Seated(d) == \E s \in Seats : seats[s] = d
SeatOf(d) == CHOOSE s \in Seats : seats[s] = d
Across(s) == IF s = "a" THEN "b" ELSE "a"
Opposite(d) == IF Seated(d) THEN seats[Across(SeatOf(d))] ELSE None

(* The inboxes once d, which has handled the first n of its own messages,  *)
(* has sent s.                                                             *)
Sent(d, n, s) ==
  [e \in Devices |->
    IF e = d THEN SubSeq(inbox[e], n + 1, Len(inbox[e]))
    ELSE IF e = Opposite(d) THEN inbox[e] \o s
    ELSE inbox[e]]

Hello(d) == [t |-> "hello", from |-> d, id |-> id[d]]
(* What #sendHello sends: nothing before there is a public key. *)
Greeting(d) == IF minted[d] THEN <<Hello(d)>> ELSE <<>>
(* What the page is told, once it listens: nothing before #init is over.   *)
Shows(d, b) == panel' = [panel EXCEPT ![d] = IF minted[d] THEN b ELSE @]
Owing(d) == IF minted[d] THEN owed ELSE [owed EXCEPT ![d] = @ \cup {"deferred"}]

(* What #sendVerified sends through the Sender s. *)
Claim(d, s) ==
  IF s.up THEN <<[t |-> "verified", from |-> d, under |-> s.key]>> ELSE <<>>
-----------------------------------------------------------------------------
(* Joining and losing a connection. *)
Free(s) ==
  /\ seats[s] = None
  /\ s = "b" => seats["a"] # None

(* create(): the code is shown only once #init has run, so the creator has *)
(* its key pair before anybody can join.                                   *)
Create(d) ==
  /\ d = 1 /\ phase[d] = "away"
  /\ phase' = [phase EXCEPT ![d] = "live"]
  /\ seats' = [seats EXCEPT !["a"] = d]
  /\ id' = [id EXCEPT ![d] = "a"]
  /\ minted' = [minted EXCEPT ![d] = TRUE]
  /\ UNCHANGED <<inbox, drops, owed, parked, last, prefix, deriving, derived,
                 key, crossed, bridge, screen, confirm>>

Join(d, s) ==
  /\ phase[d] = "away" /\ d > 1 /\ phase[d - 1] # "away"
  /\ \E e \in Devices : Seated(e)
  /\ Free(s)
  /\ phase' = [phase EXCEPT ![d] = "live"]
  /\ seats' = [seats EXCEPT ![s] = d]
  /\ id' = [id EXCEPT ![d] = s]
  /\ owed' = [owed EXCEPT ![d] = {"join"}]
  /\ inbox' = [inbox EXCEPT ![seats[Across(s)]] = Append(@, [t |-> "joined"])]
  /\ UNCHANGED <<drops, minted, parked, last, prefix, deriving, derived, key,
                 crossed, bridge, screen, confirm>>

(* The hello that came before the key pair, if one did. *)
ReplayedNever(d) == None
Replayed(d) == parked[d]

(* The tail of #init: hellos it could not send, a hello it could not use.  *)
Mint(d) ==
  /\ phase[d] # "away" /\ ~minted[d]
  /\ minted' = [minted EXCEPT ![d] = TRUE]
  /\ inbox' = Sent(d, 0, [i \in 1..Cardinality(owed[d]) |-> Hello(d)])
  /\ owed' = [owed EXCEPT ![d] = {}]
  /\ deriving' = [deriving EXCEPT ![d] = Replayed(d)]
  /\ parked' = [parked EXCEPT ![d] = None]
  /\ panel' = [panel EXCEPT ![d] = TRUE]
  /\ UNCHANGED <<seats, phase, drops, id, last, prefix, derived, key, crossed,
                 bridge, mine, confirm>>

(* The socket of d closes; the relay frees the seat and tells the other.   *)
Drop(d) ==
  /\ phase[d] = "live" /\ drops < Len(Losing) /\ Losing[drops + 1] = d
  /\ drops' = drops + 1
  /\ phase' = [phase EXCEPT ![d] = "down"]
  /\ seats' = [seats EXCEPT ![SeatOf(d)] = None]
  /\ inbox' = Sent(d, Len(inbox[d]), <<[t |-> "left"]>>)
  /\ sender' = [sender EXCEPT ![d].up = FALSE]
  /\ waiting' = [waiting EXCEPT ![d] = FALSE]
  /\ Shows(d, FALSE)
  /\ UNCHANGED <<id, handshake, receiver, forward, deferred, chains, goneTimer,
                 mine, confirm>>

(* #buildSender: a live one under the current key, if there is a key.      *)
Rebuilt(d) ==
  [sender EXCEPT ![d] =
    IF key[d] # None THEN [key |-> key[d], up |-> TRUE] ELSE [@ EXCEPT !.up = FALSE]]

(* #resumeAfterReconnect. *)
Reconnect(d, s) ==
  /\ phase[d] = "down"
  /\ \E e \in Devices : Seated(e)
  /\ Free(s)
  /\ phase' = [phase EXCEPT ![d] = "live"]
  /\ seats' = [seats EXCEPT ![s] = d]
  /\ sender' = Rebuilt(d)
  /\ owed' = Owing(d)
  /\ inbox' = [inbox EXCEPT ![seats[Across(s)]] =
                 @ \o <<[t |-> "joined"]>> \o Greeting(d)]
  /\ Shows(d, TRUE)
  /\ UNCHANGED <<drops, id, minted, parked, last, prefix, deriving, derived, key,
                 crossed, receiver, forward, deferred, chains, goneTimer, waiting,
                 mine, confirm>>

(* The room is gone, both seats are taken, or the attempts are used up.    *)
GiveUp(d) ==
  /\ phase[d] = "down"
  /\ phase' = [phase EXCEPT ![d] = "over"]
  /\ receiver' = [receiver EXCEPT ![d] = None]
  /\ goneTimer' = [goneTimer EXCEPT ![d] = FALSE]
  /\ Shows(d, FALSE)
  /\ UNCHANGED <<seats, inbox, drops, id, handshake, sender, forward, deferred,
                 chains, waiting, mine, confirm>>
-----------------------------------------------------------------------------
(* What the relay sends. *)
Gets(d, t) == phase[d] = "live" /\ inbox[d] # <<>> /\ Head(inbox[d]).t = t

PeerJoined(d) ==
  /\ Gets(d, "joined")
  /\ inbox' = Sent(d, 1, Greeting(d))
  /\ owed' = Owing(d)
  /\ Shows(d, TRUE)
  /\ UNCHANGED <<seats, phase, drops, id, minted, parked, last, prefix, deriving,
                 derived, key, crossed, bridge, mine, confirm>>

(* #handlePeerLeft and #unpair. *)
PeerLeft(d) ==
  /\ Gets(d, "left")
  /\ inbox' = Sent(d, 1, <<>>)
  /\ waiting' = [waiting EXCEPT ![d] = FALSE]
  /\ prefix' = [prefix EXCEPT ![d] = None]
  /\ deferred' = [deferred EXCEPT ![d] = <<>>]
  /\ sender' = Rebuilt(d)
  /\ goneTimer' = [goneTimer EXCEPT ![d] = TRUE]
  /\ Shows(d, FALSE)
  /\ UNCHANGED <<seats, phase, drops, id, minted, owed, parked, last, deriving,
                 derived, key, crossed, receiver, forward, chains, mine, confirm>>

PeerGone(d) ==
  /\ goneTimer[d]
  /\ goneTimer' = [goneTimer EXCEPT ![d] = FALSE]
  /\ receiver' = [receiver EXCEPT ![d] = None]
  /\ UNCHANGED <<wire, handshake, sender, forward, deferred, chains, waiting,
                 screen, confirm>>

(* Said again to a peer that may have a new Receiver. *)
RepeatsNothing(d, s, confirmed) == <<>>
Repeats(d, s, confirmed) == IF confirmed THEN Claim(d, s) ELSE <<>>

(* The tail of #establish: #startReceiver unless there is one (r, fed by   *)
(* the bridge f), #settlePendingHello, and the confirmation said again.    *)
Serve(d, n, k, p, s, r, f, confirmed) ==
  LET starts == r = None /\ k # None /\ p # None
      rx == IF starts THEN [peer |-> p, key |-> k] ELSE r
      fw == IF starts THEN rx ELSE f
  IN /\ receiver' = [receiver EXCEPT ![d] = rx]
     /\ forward' = [forward EXCEPT ![d] = fw]
     /\ chains' = [chains EXCEPT ![d] = IF fw = None THEN @ ELSE
                    @ \o [i \in DOMAIN deferred[d] |-> [rx |-> fw, frame |-> deferred[d][i]]]]
     /\ deferred' = [deferred EXCEPT ![d] = IF fw = None THEN @ ELSE <<>>]
     /\ waiting' = [waiting EXCEPT ![d] = FALSE]
     /\ inbox' = Sent(d, n, Repeats(d, s, confirmed))

(* A hello claiming this device's own id is refused. *)
RefuseHello(d) ==
  /\ Gets(d, "hello") /\ Head(inbox[d]).id = id[d]
  /\ inbox' = Sent(d, 1, <<>>)
  /\ UNCHANGED <<seats, phase, drops, id, handshake, bridge, screen, confirm>>

(* A Receiver, and the bridge to it, outlives the hello of the same peer.  *)
KeptAlways(v, d, p) == v[d]
Kept(v, d, p) == IF last[d] = p THEN v[d] ELSE None

LeavesTimer(d) == UNCHANGED goneTimer
ClearsTimer(d) == goneTimer' = [goneTimer EXCEPT ![d] = FALSE]

(* #route of any other hello, up to the first await of #establish.         *)
HearHello(d) ==
  LET p == Head(inbox[d]).from
      fresh == derived[d] # p
      r == Kept(receiver, d, p)
      f == Kept(forward, d, p)
  IN /\ Gets(d, "hello") /\ Head(inbox[d]).id # id[d]
     /\ last' = [last EXCEPT ![d] = p]
     /\ prefix' = [prefix EXCEPT ![d] = p]
     /\ ClearsTimer(d)
     /\ crossed' = IF ~fresh /\ deriving[d] # None THEN crossed \cup {d}
                   ELSE IF last[d] = p THEN crossed ELSE crossed \ {d}
     /\ \/ /\ fresh
           /\ key' = [key EXCEPT ![d] = None]
           /\ localV' = [localV EXCEPT ![d] = FALSE]
           /\ peerV' = [peerV EXCEPT ![d] = FALSE]
           /\ IF minted[d]
              THEN deriving' = [deriving EXCEPT ![d] = p] /\ UNCHANGED parked
              ELSE parked' = [parked EXCEPT ![d] = p] /\ UNCHANGED deriving
           /\ receiver' = [receiver EXCEPT ![d] = r]
           /\ forward' = [forward EXCEPT ![d] = f]
           /\ inbox' = Sent(d, 1, <<>>)
           /\ UNCHANGED <<deferred, chains, waiting>>
        \/ /\ ~fresh
           /\ Serve(d, 1, key[d], p, sender[d], r, f, localV[d])
           /\ UNCHANGED <<key, localV, peerV, deriving, parked>>
     /\ UNCHANGED <<seats, phase, drops, id, minted, owed, derived, sender, screen,
                    click, clicks, compared>>

(* deriveSession and importKey are done, and no newer hello has restarted  *)
(* them.                                                                   *)
Establish(d) ==
  /\ deriving[d] # None
  /\ deriving' = [deriving EXCEPT ![d] = None]
  /\ key' = [key EXCEPT ![d] = deriving[d]]
  /\ derived' = [derived EXCEPT ![d] = deriving[d]]
  /\ sender' = [sender EXCEPT ![d] = [key |-> deriving[d], up |-> TRUE]]
  /\ mine' = [mine EXCEPT ![d] = FALSE]
  /\ Serve(d, 0, deriving[d], prefix[d], sender'[d], receiver[d], forward[d], localV[d])
  /\ UNCHANGED <<seats, phase, drops, id, minted, owed, parked, last, prefix,
                 crossed, goneTimer, panel, confirm>>

(* A sealed frame: to the Receiver behind #forward, or kept for the next.  *)
HearSealed(d) ==
  LET m == Head(inbox[d])
  IN /\ Gets(d, "verified")
     /\ inbox' = Sent(d, 1, <<>>)
     /\ IF forward[d] # None
        THEN /\ chains' = [chains EXCEPT ![d] = Append(@, [rx |-> forward[d], frame |-> m])]
             /\ UNCHANGED deferred
        ELSE /\ deferred' = [deferred EXCEPT ![d] = Append(@, m)]
             /\ UNCHANGED chains
     /\ UNCHANGED <<seats, phase, drops, id, handshake, sender, receiver, forward,
                    goneTimer, waiting, screen, confirm>>

(* The next frame of one Receiver's chain, whether or not that Receiver    *)
(* has been given up: it opens under the key it was sealed with.           *)
Opens(d, c) ==
  c.frame.from = c.rx.peer /\ c.rx.key = c.rx.peer /\ c.frame.under = d

HandleSealed(d) ==
  \E i \in DOMAIN chains[d] :
    LET c == chains[d][i]
    IN /\ \A j \in 1..(i - 1) : chains[d][j].rx # c.rx
       /\ chains' = [chains EXCEPT ![d] = RemoveAt(@, i)]
       /\ peerV' = [peerV EXCEPT ![d] = @ \/ Opens(d, c)]
       /\ UNCHANGED <<wire, handshake, sender, receiver, forward, deferred,
                      goneTimer, waiting, screen, click, clicks, localV, compared>>
-----------------------------------------------------------------------------
(* The user. *)
(* Confirms the number on the screen: posted to the worker, handled there  *)
(* some time later.                                                        *)
Compare(d) ==
  /\ panel[d] /\ derived[d] # None /\ ~mine[d] /\ click[d] = None /\ clicks < MaxClicks
  /\ clicks' = clicks + 1
  /\ mine' = [mine EXCEPT ![d] = TRUE]
  /\ click' = [click EXCEPT ![d] = derived[d]]
  /\ compared' = compared \cup {<<d, derived[d]>>}
  /\ UNCHANGED <<wire, handshake, bridge, panel, localV, peerV>>

ConfirmVerification(d) ==
  /\ click[d] # None
  /\ click' = [click EXCEPT ![d] = None]
  /\ localV' = [localV EXCEPT ![d] = TRUE]
  /\ inbox' = Sent(d, 0, IF localV[d] THEN <<>> ELSE Claim(d, sender[d]))
  /\ UNCHANGED <<seats, phase, drops, id, handshake, bridge, screen, clicks, peerV,
                 compared>>

(* sendFiles, sendText or sendMediaSignal before there is a pair.          *)
AwaitHello(d) ==
  /\ phase[d] \in {"live", "down"}
  /\ prefix[d] = None \/ key[d] = None
  /\ waiting' = [waiting EXCEPT ![d] = TRUE]
  /\ UNCHANGED <<wire, handshake, sender, receiver, forward, deferred, chains,
                 goneTimer, screen, confirm>>
-----------------------------------------------------------------------------
Handle(d) ==
  \/ PeerJoined(d) \/ PeerLeft(d) \/ RefuseHello(d) \/ HearHello(d) \/ HearSealed(d)

Next ==
  \E d \in Devices :
    \/ Create(d) \/ \E s \in Seats : Join(d, s) \/ Reconnect(d, s)
    \/ Mint(d) \/ Drop(d) \/ GiveUp(d) \/ Handle(d) \/ PeerGone(d)
    \/ Establish(d) \/ HandleSealed(d)
    \/ Compare(d) \/ ConfirmVerification(d) \/ AwaitHello(d)

Spec == Init /\ [][Next]_vars

Fairness ==
  \A d \in Devices :
    /\ WF_vars(Mint(d)) /\ WF_vars(Handle(d)) /\ WF_vars(Establish(d))
    /\ WF_vars(HandleSealed(d)) /\ WF_vars(ConfirmVerification(d))

FairSpec == Spec /\ Fairness
-----------------------------------------------------------------------------
Peers == [Devices -> Opt(Devices)]
Flags == [Devices -> BOOLEAN]

TypeOK ==
  /\ seats \in [Seats -> Opt(Devices)]
  /\ phase \in [Devices -> {"away", "live", "down", "over"}]
  /\ inbox \in [Devices -> Seq(Messages)]
  /\ drops \in 0..Len(Losing) /\ clicks \in 0..MaxClicks
  /\ id \in [Devices -> Opt(Seats)]
  /\ owed \in [Devices -> SUBSET {"join", "deferred"}]
  /\ parked \in Peers /\ last \in Peers /\ prefix \in Peers /\ deriving \in Peers
  /\ derived \in Peers /\ key \in Peers /\ click \in Peers
  /\ sender \in [Devices -> Senders]
  /\ receiver \in [Devices -> Opt(Rx)] /\ forward \in [Devices -> Opt(Rx)]
  /\ deferred \in [Devices -> Seq(Verified)]
  /\ chains \in [Devices -> Seq(Link)]
  /\ minted \in Flags /\ goneTimer \in Flags /\ waiting \in Flags /\ panel \in Flags
  /\ mine \in Flags /\ localV \in Flags /\ peerV \in Flags
  /\ compared \subseteq Devices \X Devices
  /\ crossed \subseteq Devices

Ready(d) == phase[d] # "over" /\ prefix[d] # None /\ key[d] # None

(* Whenever a session would let a send through, it has a Receiver, frames  *)
(* are handed to that one, none is left in the buffer, and no earlier send *)
(* is still waiting.                                                       *)
PairedIsServed ==
  \A d \in Devices : Ready(d) =>
    /\ receiver[d] # None /\ forward[d] = receiver[d]
    /\ deferred[d] = <<>>
    /\ ~waiting[d]

(* ... and the key it sends and receives under is the one agreed with that *)
(* peer, unless the peer came back while another's key was being derived.  *)
KeyIsForPeer ==
  \A d \in Devices : Ready(d) /\ d \notin crossed =>
    /\ key[d] = prefix[d] /\ derived[d] = prefix[d]
    /\ sender[d].key = prefix[d]
    /\ receiver[d] = [peer |-> prefix[d], key |-> prefix[d]]

(* Two devices that stay in the room agree: each ends up ready for the     *)
(* other, unless both were given the same id.                              *)
Together(d, e) == phase[d] = "live" /\ phase[e] = "live" /\ Opposite(d) = e
PairsUp ==
  \A d \in Devices : \A e \in Devices \ {d} :
    <>[]Together(d, e) =>
      <>[](id[d] = id[e] \/ d \in crossed \/ (Ready(d) /\ key[d] = e))

(* ... and a confirmation given at one end reaches the other, whatever     *)
(* happened to the connection it was first said on.                        *)
ConfirmationArrives ==
  \A d \in Devices : \A e \in Devices \ {d} :
    <>[](Together(d, e) /\ localV[e] /\ key[e] = d) =>
      <>[](id[d] = id[e] \/ d \in crossed \/ peerV[d])

(* --- what the comments of session.ts say, and the code does not do ---   *)
(* session.ts:1140-1142: the number nobody has compared yet cannot inherit *)
(* the confirmation for a number they did.                                 *)
VerifiedMeansCompared ==
  \A d \in Devices : Ready(d) =>
    /\ localV[d] => <<d, key[d]>> \in compared
    /\ peerV[d] => <<key[d], d>> \in compared

(* session.ts:748-750: a superseded derivation does not replace the newer  *)
(* peer's key with an older peer's.                                        *)
KeyNeverCrossed == \A d \in Devices : Ready(d) => key[d] = prefix[d]

=============================================================================
