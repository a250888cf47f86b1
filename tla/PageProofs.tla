------------------------------ MODULE PageProofs ------------------------------
(***************************************************************************)
(* The page against its worker, for any number of peers, losses, attempts  *)
(* and clicks, and queues of any length.                                   *)
(*                                                                         *)
(* What the page shows and what the session knows differ by the messages   *)
(* between them: the invariant says where in the queue a file's            *)
(* announcement and its end are, and what its row is until they are heard  *)
(* (RowsPart), and which of the page, the queue and the worker holds what  *)
(* was shared (SharedPart). Named relates the worker's   *)
(* view of the peer to the messages about it. The lock needs only what is  *)
(* asked for and held (ScreenKeptAwake), the way out that the click whose  *)
(* answer is awaited has its timer (EndIsTimed).                           *)
(***************************************************************************)
EXTENDS MCPage, TLAPS

(* TypeOK, by the part of the system that owns the variables.              *)
SessionTypes ==
  /\ role \in {"create", "join"} /\ link \in {"new", "up", "down", "over"}
  /\ attempt \in 0..MaxAttempts /\ who \in 0..MaxPeers /\ key \in 0..MaxPeers
  /\ losses \in Nat /\ taken \in Nat
  /\ work \in [Files -> Moved \cup {"none", "failed"}] /\ overtaken \subseteq Files
QueueTypes == toPage \in Seq(News) /\ toWorker \in Seq({"send", "confirm", "end"})
PageTypes ==
  /\ state \in States /\ reason \in {"none", "gave-up", "room-gone", "peer-ended"}
  /\ digits \in 0..MaxPeers /\ rows \in [Files -> SUBSET Marks]
  /\ pending \in {"none", "reading", "held"} /\ posts \in Nat
ExitTypes ==
  /\ slot \in 0..MaxEnds /\ timers \subseteq Clicks /\ clicks \in 0..MaxEnds
  /\ place \in {"session", "home", "elsewhere"}
LockTypes == hides \in Nat /\ asking \in Nat /\ late \in Nat /\ held \in Nat
SessionFlags ==
  /\ present \in BOOLEAN /\ greeted \in BOOLEAN /\ ended \in BOOLEAN
  /\ localV \in BOOLEAN /\ peerV \in BOOLEAN /\ awaiting \in BOOLEAN
PageFlags ==
  /\ byMe \in BOOLEAN /\ byPeer \in BOOLEAN /\ dirty \in BOOLEAN /\ panel \in BOOLEAN
  /\ sentRef \in BOOLEAN /\ moving \in BOOLEAN /\ yanked \in BOOLEAN
LockFlags == visible \in BOOLEAN /\ sentinel \in BOOLEAN /\ refused \in BOOLEAN

LEMMA TypeFact ==
  TypeOK <=> /\ SessionTypes /\ QueueTypes /\ PageTypes /\ ExitTypes /\ LockTypes
             /\ SessionFlags /\ PageFlags /\ LockFlags
BY DEF TypeOK, SessionTypes, QueueTypes, PageTypes, ExitTypes, LockTypes,
       SessionFlags, PageFlags, LockFlags

(* Every step, by what it is about: LeaveTo stands for the four ways out.  *)
Exits ==
  /\ LeaveTo
  /\ \/ UNCHANGED <<slot, timers>>
     \/ \E c \in 0..MaxEnds : slot' = 0 /\ timers' = timers \ {c}
Pairing == Ready \/ NeverStarts \/ PeerJoins \/ Greets \/ PeerConfirms
Departing == PeerLeaves \/ PeerEnds \/ ConnectionDies
Dialling == Reconnects \/ TriesAgain \/ GivesUp
Moving == (\E p \in Peers : Offer(p)) \/ \E f \in Files : Over(f)
Handling == HandleSend \/ SendAfterHello \/ HandleConfirm \/ HandleEnd
Hearing ==
  \/ Hear
  \/ /\ toPage # <<>> /\ toPage' = Tail(toPage)   \* HearEndSent, with nothing to settle
     /\ slot = 0 /\ Head(toPage).t = "end-session-sent"
     /\ UNCHANGED <<pair, jobs, toWorker, hook, exit, screen, lock>>
Showing == Render \/ TakeShare
Clicking == ConfirmVerification \/ EndSession \/ MoveOn
Locking == Grant \/ Refuse \/ Turn

LEMMA NextCases ==
  ASSUME TypeOK, [Next]_vars
  PROVE  \/ Pairing \/ Departing \/ Dialling \/ Moving \/ Handling
         \/ Exits \/ Hearing \/ Showing \/ Clicking \/ Locking
         \/ UNCHANGED vars
<1>1. HearEndSent => Exits \/ Hearing
  <2>1. slot \in 0..MaxEnds
    BY TypeFact DEF ExitTypes
  <2>2. CASE HearEndSent /\ slot # 0
    <3>1. LeaveTo /\ slot' = 0 /\ timers' = timers \ {slot}
      BY <2>2, Zenon DEF HearEndSent
    <3> QED
      BY <2>1, <3>1, Zenon DEF Exits
  <2>3. CASE HearEndSent /\ slot = 0
    BY <2>3, Zenon DEF HearEndSent, Hearing
  <2> QED
    BY <2>2, <2>3
<1>2. (\E c \in Clicks : TimesOut(c)) => Exits
  <2>1. Clicks \subseteq 0..MaxEnds
    BY PageAssumption DEF Clicks
  <2> QED
    BY <2>1, Zenon DEF TimesOut, Exits
<1>3. LeavesAlone \/ Walk => Exits
  BY DEF LeavesAlone, Walk, Exits
<1>4. Worker => Pairing \/ Departing \/ Dialling \/ Moving \/ Handling
  BY Zenon DEF Worker, Pairing, Departing, Dialling, Moving, Handling
<1>5. CASE Next
  <2>1. \/ Worker \/ Hear \/ HearEndSent \/ (\E c \in Clicks : TimesOut(c))
        \/ LeavesAlone \/ Walk \/ Showing \/ Clicking \/ Locking
    BY <1>5, Zenon DEF Next, Showing, Clicking, Locking
  <2>2. Hear => Hearing
    BY DEF Hearing
  <2> QED
    BY <2>1, <2>2, <1>1, <1>2, <1>3, <1>4, Zenon
<1> QED
  BY <1>5, Zenon

(* What each kind of step leaves alone.                                    *)
LEMMA Frames ==
  /\ Pairing => UNCHANGED <<awaiting, taken, overtaken, toWorker, hook, exit, screen, lock>>
  /\ Dialling => UNCHANGED <<jobs, toWorker, hook, exit, screen, lock>>
  /\ Departing => UNCHANGED <<toWorker, hook, exit, screen, lock>>
  /\ Moving \/ Handling => UNCHANGED <<hook, exit, screen, lock>>
  /\ Hearing => UNCHANGED <<pair, jobs, toWorker, exit, lock>>
  /\ Showing => UNCHANGED <<pair, jobs, toPage, hook, exit>>
  /\ Clicking => UNCHANGED <<pair, jobs, toPage, lock>>
  /\ Locking => UNCHANGED <<pair, jobs, toPage, toWorker, hook, exit, screen>>
<1>0. Pairing => UNCHANGED <<awaiting, taken, overtaken, toWorker, hook, exit, screen, lock>>
  BY Zenon DEF Pairing, Ready, NeverStarts, PeerJoins, Greets, PeerConfirms, jobs
<1>1. Dialling => UNCHANGED <<jobs, toWorker, hook, exit, screen, lock>>
  BY Zenon DEF Dialling, Reconnects, TriesAgain, GivesUp, Dialled
<1>2. Departing => UNCHANGED <<toWorker, hook, exit, screen, lock>>
  BY Zenon DEF Departing, PeerLeaves, PeerEnds, ConnectionDies
<1>3. Moving \/ Handling => UNCHANGED <<hook, exit, screen, lock>>
  BY Zenon DEF Moving, Offer, Over, Handling, HandleSend, SendAfterHello, HandleConfirm,
     HandleEnd
<1>4. Hearing => UNCHANGED <<pair, jobs, toWorker, exit, lock>>
  BY Zenon DEF Hearing, Hear, Hears
<1>5. Showing => UNCHANGED <<pair, jobs, toPage, hook, exit>>
  BY Zenon DEF Showing, Render, TakeShare
<1>6. Clicking => UNCHANGED <<pair, jobs, toPage, lock>>
  BY Zenon DEF Clicking, ConfirmVerification, EndSession, MoveOn
<1>7. Locking => UNCHANGED <<pair, jobs, toPage, toWorker, hook, exit, screen>>
  BY Zenon DEF Locking, Grant, Refuse, Turn
<1> QED
  BY <1>0, <1>1, <1>2, <1>3, <1>4, <1>5, <1>6, <1>7

(* The boolean variables, and then the rest.                               *)
LEMMA SessionFlagsStep == TypeOK /\ [Next]_vars => SessionFlags'
<1> SUFFICES ASSUME TypeOK, [Next]_vars PROVE SessionFlags'
  OBVIOUS
<1>0. SessionFlags
  BY TypeFact
<1> USE <1>0 DEF SessionFlags, pair, jobs
<1>1. CASE Pairing
  BY <1>1, Zenon DEF Pairing, Ready, NeverStarts, PeerJoins, Greets, PeerConfirms
<1>2. CASE Departing
  BY <1>2, Zenon DEF Departing, PeerLeaves, PeerEnds, ConnectionDies, Undone
<1>3. CASE Dialling
  BY <1>3, Zenon DEF Dialling, Reconnects, TriesAgain, GivesUp, Dialled
<1>4. CASE Moving
  BY <1>4, Zenon DEF Moving, Offer, Over
<1>5. CASE Handling
  BY <1>5, Zenon DEF Handling, HandleSend, SendAfterHello, HandleConfirm, HandleEnd
<1>6. CASE Exits
  BY <1>6, Zenon DEF Exits, LeaveTo
<1>7. CASE UNCHANGED <<pair, jobs>>
  BY <1>7, Zenon
<1>8. Hearing \/ Showing \/ Clicking \/ Locking \/ UNCHANGED vars => UNCHANGED <<pair, jobs>>
  <2> HIDE DEF pair, jobs
  <2> QED BY Frames, Zenon DEF vars
<1> HIDE <1>0 DEF SessionFlags, pair, jobs
<1> QED
  BY <1>1, <1>2, <1>3, <1>4, <1>5, <1>6, <1>7, <1>8, NextCases

LEMMA PageFlagsStep == TypeOK /\ [Next]_vars => PageFlags'
<1> SUFFICES ASSUME TypeOK, [Next]_vars PROVE PageFlags'
  OBVIOUS
<1>0. PageFlags
  BY TypeFact
<1> USE <1>0 DEF PageFlags, hook, exit, screen
<1>1. CASE Hearing
  BY <1>1, Zenon DEF Hearing, Hear, Hears
<1>2. CASE TakeShare \/ Clicking
  BY <1>2, Zenon DEF TakeShare, Clicking, ConfirmVerification, EndSession, MoveOn
<1>3. CASE Render
  BY <1>3, Zenon DEF Render, Shows, Once, SendsNow, InFlight
<1>4. CASE Exits
  BY <1>4, Zenon DEF Exits, LeaveTo
<1>5. CASE UNCHANGED <<hook, exit, screen>>
  BY <1>5, Zenon
<1>6. Pairing \/ Dialling \/ Departing \/ Moving \/ Handling \/ Locking \/ UNCHANGED vars
      => UNCHANGED <<hook, exit, screen>>
  <2> HIDE DEF hook, exit, screen
  <2> QED BY Frames, Zenon DEF vars
<1> HIDE <1>0 DEF PageFlags, hook, exit, screen
<1> QED
  BY <1>1, <1>2, <1>3, <1>4, <1>5, <1>6, NextCases DEF Showing

(* Only a few steps are about the wake lock.                               *)
LEMMA LockFrame ==
  ASSUME TypeOK, [Next]_vars
  PROVE  Locking \/ LeaveTo \/ Render \/ UNCHANGED lock
<1>1. TakeShare => UNCHANGED lock
  BY Zenon DEF TakeShare
<1> QED
  BY <1>1, NextCases, Frames DEF Exits, Showing, vars

LEMMA LockStep == TypeOK /\ [Next]_vars => LockTypes' /\ LockFlags'
<1> SUFFICES ASSUME TypeOK, [Next]_vars PROVE LockTypes' /\ LockFlags'
  OBVIOUS
<1>0. LockTypes /\ LockFlags
  BY TypeFact
<1>1. LockFlags'
  <2> USE DEF LockFlags
  <2>1. CASE Locking
    BY <2>1, <1>0, Zenon DEF Locking, Grant, Refuse, Turn, DropsSentinel
  <2>2. CASE LeaveTo \/ Render
    BY <2>2, <1>0, Zenon DEF LeaveTo, Render, LockFollows, ReleaseLock, lock
  <2>3. CASE UNCHANGED lock
    BY <2>3, <1>0, Zenon DEF lock
  <2> QED
    BY <2>1, <2>2, <2>3, LockFrame
<1>2. LockTypes'
  <2> USE <1>0 DEF LockTypes
  <2>1. CASE Grant \/ Refuse
    BY <2>1 DEF Grant, Refuse
  <2>2. CASE Turn
    BY <2>2 DEF Turn, Acquires
  <2>3. CASE ReleaseLock
    BY <2>3 DEF ReleaseLock
  <2>4. CASE UNCHANGED lock
    BY <2>4 DEF lock
  <2>5. CASE LeaveTo \/ Render
    BY <2>3, <2>4, <2>5 DEF LeaveTo, Render, LockFollows, Acquires
  <2> QED
    BY <2>1, <2>2, <2>4, <2>5, LockFrame DEF Locking
<1> QED
  BY <1>1, <1>2
-----------------------------------------------------------------------------
LEMMA NewsFact ==
  /\ \A t \in {"ready", "peer-joined", "peer-left", "peer-verified", "end-session-sent", "error"} :
       [t |-> t] \in News
  /\ \A n \in Peers : [t |-> "verification", number |-> n] \in News
  /\ \A r \in {"gave-up", "room-gone", "peer-ended"} : [t |-> "session-ended", reason |-> r] \in News
  /\ \A f \in Files, w \in Moved : [t |-> "row", of |-> f, is |-> w] \in News
  /\ \A m \in News :
       /\ m.t = "verification" => m.number \in Peers
       /\ m.t = "session-ended" => m.reason \in {"gave-up", "room-gone", "peer-ended"}
       /\ m.t = "row" => m.of \in Files /\ m.is \in Moved
BY DEF News

LEMMA QueuePop ==
  ASSUME NEW S, NEW q \in Seq(S), q # <<>>
  PROVE  Tail(q) \in Seq(S) /\ Head(q) \in S
OBVIOUS

LEMMA HeadType == QueueTypes /\ Hear => Head(toPage) \in News
BY QueuePop DEF QueueTypes, Hear

(* Whoever is in the room has a number.                                    *)
Named == present => who # 0

LEMMA NamedStep == TypeOK /\ Named /\ [Next]_vars => Named'
<1> SUFFICES ASSUME TypeOK, Named, [Next]_vars PROVE Named'
  OBVIOUS
<1> USE DEF Named
<1>1. CASE Ready \/ NeverStarts \/ Greets \/ PeerConfirms \/ Departing \/ Dialling \/ HandleConfirm
  BY <1>1, Zenon DEF Ready, NeverStarts, Greets, PeerConfirms, Departing, PeerLeaves, PeerEnds,
     ConnectionDies, Dialling, Reconnects, TriesAgain, GivesUp, Dialled, HandleConfirm
<1>2. CASE PeerJoins
  BY <1>2 DEF PeerJoins, Peers
<1>3. CASE Exits
  BY <1>3 DEF Exits, LeaveTo
<1>4. CASE UNCHANGED pair
  BY <1>4 DEF pair
<1>5. HandleSend \/ SendAfterHello \/ HandleEnd \/ Moving => UNCHANGED pair
  BY Zenon DEF HandleSend, SendAfterHello, HandleEnd, Moving, Offer, Over
<1>6. Hearing \/ Showing \/ Clicking \/ Locking \/ UNCHANGED vars => UNCHANGED pair
  BY Frames, Zenon DEF vars
<1> QED
  BY <1>1, <1>2, <1>3, <1>4, <1>5, <1>6, NextCases DEF Pairing, Handling

LEMMA SessionStep == TypeOK /\ [Next]_vars => SessionTypes'
<1> SUFFICES ASSUME TypeOK, [Next]_vars PROVE SessionTypes'
  OBVIOUS
<1>0. SessionTypes
  BY TypeFact
<1> USE <1>0, PageAssumption DEF SessionTypes
<1>1. CASE Pairing
  <2>1. CASE Greets
    BY <2>1 DEF Greets, GivesUpFiles, Peers, Files
  <2>2. CASE Ready \/ NeverStarts \/ PeerJoins \/ PeerConfirms
    BY <2>2 DEF Ready, NeverStarts, PeerJoins, PeerConfirms, jobs, Peers
  <2> QED
    BY <1>1, <2>1, <2>2 DEF Pairing
<1>2. CASE Departing
  BY <1>2 DEF Departing, PeerLeaves, PeerEnds, ConnectionDies, Undone, Loses, jobs
<1>3. CASE Dialling
  BY <1>3 DEF Dialling, Reconnects, TriesAgain, GivesUp, Dialled, jobs
<1>4. CASE Moving
  BY <1>4 DEF Moving, Offer, Over, Namesakes, pair, Moved, Ends
<1>5. CASE HandleSend \/ SendAfterHello
  BY <1>5 DEF HandleSend, SendAfterHello, Sends, pair, Moved
<1>6. CASE HandleConfirm \/ HandleEnd
  BY <1>6 DEF HandleConfirm, HandleEnd, pair, jobs
<1>7. CASE Exits
  BY <1>7 DEF Exits, LeaveTo
<1>8. CASE UNCHANGED <<pair, jobs>>
  BY <1>8 DEF pair, jobs
<1>9. Hearing \/ Showing \/ Clicking \/ Locking \/ UNCHANGED vars => UNCHANGED <<pair, jobs>>
  BY Frames, Zenon DEF vars
<1> HIDE <1>0 DEF SessionTypes
<1> QED
  BY <1>1, <1>2, <1>3, <1>4, <1>5, <1>6, <1>7, <1>8, <1>9, NextCases DEF Handling

LEMMA PageStep == TypeOK /\ [Next]_vars => PageTypes'
<1> SUFFICES ASSUME TypeOK, [Next]_vars PROVE PageTypes'
  OBVIOUS
<1>0. PageTypes /\ QueueTypes
  BY TypeFact
<1> USE <1>0 DEF PageTypes, States
<1>1. CASE Hear
  <2>1. Head(toPage) \in News
    BY <1>1, HeadType
  <2>2. rows' \in [Files -> SUBSET Marks]
    <3>1. rows' = RowsAfter(Head(toPage))
      BY <1>1, Zenon DEF Hear, Hears
    <3> QED
      BY <2>1, <3>1, NewsFact DEF RowsAfter, UpdateFile, Ended, Marks, Moved, Ends
  <2> QED
    BY <1>1, <2>1, <2>2, NewsFact DEF Hear, Hears, NextState, AfterSessionError, Peers, screen
<1>2. CASE Render
  BY <1>2 DEF Render, PendingSent, hook
<1>3. CASE TakeShare \/ ConfirmVerification
  BY <1>3 DEF TakeShare, ConfirmVerification, hook
<1>4. CASE Exits
  BY <1>4, PageAssumption DEF Exits, LeaveTo
<1>5. CASE UNCHANGED <<hook, screen>>
  BY <1>5 DEF hook, screen
<1> HIDE <1>0 DEF PageTypes, States
<1>6. Pairing \/ Departing \/ Dialling \/ Moving \/ Handling \/ Locking \/ UNCHANGED vars
      => UNCHANGED <<hook, screen>>
  BY Frames, Zenon DEF vars
<1>7. EndSession \/ MoveOn => UNCHANGED <<hook, screen>>
  BY Zenon DEF EndSession, MoveOn
<1>8. Hearing => Hear \/ UNCHANGED <<hook, screen>>
  BY Zenon DEF Hearing
<1> QED
  BY <1>1, <1>2, <1>3, <1>4, <1>5, <1>6, <1>7, <1>8, NextCases DEF Showing, Clicking

LEMMA ExitStep == TypeOK /\ [Next]_vars => ExitTypes'
<1> SUFFICES ASSUME TypeOK, [Next]_vars PROVE ExitTypes'
  OBVIOUS
<1>0. ExitTypes
  BY TypeFact
<1>1. CASE Exits
  BY <1>0, <1>1, PageAssumption DEF ExitTypes, Exits, LeaveTo
<1>2. CASE EndSession
  <2>1. clicks + 1 \in 1..MaxEnds
    BY <1>0, <1>2, PageAssumption DEF ExitTypes, EndSession
  <2>2. clicks' = clicks + 1 /\ slot' = clicks + 1 /\ timers' = timers \cup {clicks + 1}
        /\ place' = place
    BY <1>2 DEF EndSession, StartsTimer
  <2> QED
    BY <1>0, <2>1, <2>2, PageAssumption DEF ExitTypes, Clicks
<1>3. CASE MoveOn
  BY <1>0, <1>3 DEF ExitTypes, MoveOn
<1>4. CASE UNCHANGED exit
  BY <1>0, <1>4 DEF ExitTypes, exit
<1>5. ConfirmVerification => UNCHANGED exit
  BY Zenon DEF ConfirmVerification
<1>6. Pairing \/ Departing \/ Dialling \/ Moving \/ Handling \/ Hearing \/ Showing \/ Locking
      \/ UNCHANGED vars => UNCHANGED exit
  BY Frames, Zenon DEF vars
<1> QED
  BY <1>1, <1>2, <1>3, <1>4, <1>5, <1>6, NextCases DEF Clicking
-----------------------------------------------------------------------------
(* What the worker says is news.                                           *)
Speaks == \E m \in News : Says(m)

LEMMA SpeakTypes ==
  /\ \A t \in {"ready", "peer-joined", "peer-left", "peer-verified", "end-session-sent", "error"} :
       Says([t |-> t]) => Speaks
  /\ \A n \in Peers : Says([t |-> "verification", number |-> n]) => Speaks
  /\ \A r \in {"gave-up", "room-gone", "peer-ended"} :
       Says([t |-> "session-ended", reason |-> r]) => Speaks
  /\ \A f \in Files, w \in Moved : Says([t |-> "row", of |-> f, is |-> w]) => Speaks
BY NewsFact, Zenon DEF Speaks

LEMMA SpeechSteps ==
  ASSUME TypeOK, Named, [Next]_vars
  PROVE  \/ Speaks \/ UNCHANGED toPage \/ toPage' = <<>>
         \/ toPage # <<>> /\ toPage' = Tail(toPage)
<1>1. CASE Pairing
  <2>1. CASE Greets
    <3>1. who \in Peers
      BY <2>1, TypeFact DEF Greets, Named, SessionTypes, Peers
    <3>2. Quietly \/ Says([t |-> "verification", number |-> who])
      BY <2>1, Zenon DEF Greets
    <3> QED
      BY <3>1, <3>2, SpeakTypes, Zenon DEF Quietly
  <2>2. Ready \/ NeverStarts \/ PeerJoins \/ PeerConfirms => Speaks
    BY SpeakTypes, Zenon DEF Ready, NeverStarts, PeerJoins, PeerConfirms
  <2> QED
    BY <1>1, <2>1, <2>2, Zenon DEF Pairing
<1>2. Departing => Speaks
  BY SpeakTypes, Zenon DEF Departing, PeerLeaves, PeerEnds, ConnectionDies
<1>3. Dialling => Speaks \/ UNCHANGED toPage
  BY SpeakTypes, Zenon DEF Dialling, Reconnects, TriesAgain, GivesUp, Quietly
<1>4. CASE Moving
  <2>1. Quietly \/ \E f \in Files, w \in Moved : Says([t |-> "row", of |-> f, is |-> w])
    <3>1. ASSUME NEW p \in Peers, Offer(p) PROVE p \in Files /\ Says([t |-> "row", of |-> p, is |-> "moving"])
      BY <3>1, PageAssumption DEF Offer, Peers, Files
    <3>2. ASSUME NEW f \in Files, Over(f)
          PROVE  Quietly \/ \E w \in Ends : Says([t |-> "row", of |-> f, is |-> w])
      BY <3>2, Zenon DEF Over
    <3>3. "moving" \in Moved /\ Ends \subseteq Moved
      BY DEF Moved
    <3> QED
      BY <1>4, <3>1, <3>2, <3>3, Zenon DEF Moving
  <2> QED
    BY <2>1, SpeakTypes, Zenon DEF Quietly
<1>5. CASE Handling
  <2>1. \/ Quietly \/ Says([t |-> "error"]) \/ Says([t |-> "end-session-sent"])
        \/ Says([t |-> "row", of |-> Mine, is |-> "moving"])
    BY <1>5, Zenon DEF Handling, HandleSend, SendAfterHello, Sends, HandleConfirm, HandleEnd
  <2>2. Mine \in Files /\ "moving" \in Moved
    BY PageAssumption DEF Mine, Files, Moved
  <2> QED
    BY <2>1, <2>2, SpeakTypes, Zenon DEF Quietly
<1>6. Hearing => toPage # <<>> /\ toPage' = Tail(toPage)
  BY Zenon DEF Hearing, Hear, Hears, HearEndSent
<1>7. Exits => toPage' = <<>>
  BY Zenon DEF Exits, LeaveTo
<1>8. Showing \/ Clicking \/ Locking \/ UNCHANGED vars => UNCHANGED toPage
  BY Frames, Zenon DEF vars
<1> QED
  BY <1>1, <1>2, <1>3, <1>4, <1>5, <1>6, <1>7, <1>8, NextCases, Zenon

Asks == \E m \in {"send", "confirm", "end"} : toWorker' = Append(toWorker, m)
Answers == toWorker # <<>> /\ toWorker' = Tail(toWorker)

LEMMA CallSteps ==
  ASSUME TypeOK, [Next]_vars
  PROVE  UNCHANGED toWorker \/ toWorker' = <<>> \/ Asks \/ Answers
<1>1. Moving \/ SendAfterHello => UNCHANGED toWorker
  BY Zenon DEF Moving, Offer, Over, SendAfterHello
<1>2. HandleSend \/ HandleConfirm \/ HandleEnd => Answers
  BY Zenon DEF HandleSend, HandleConfirm, HandleEnd, Took, Answers
<1>3. Render => Asks \/ UNCHANGED toWorker
  BY Zenon DEF Render, Asks
<1>4. ConfirmVerification \/ EndSession => Asks
  BY Zenon DEF ConfirmVerification, EndSession, Asks
<1>5. TakeShare \/ MoveOn => UNCHANGED toWorker
  BY Zenon DEF TakeShare, MoveOn
<1>6. Exits => toWorker' = <<>>
  BY Zenon DEF Exits, LeaveTo
<1>7. Pairing \/ Departing \/ Dialling \/ Hearing \/ Locking \/ UNCHANGED vars
      => UNCHANGED toWorker
  BY Frames, Zenon DEF vars
<1> QED
  BY <1>1, <1>2, <1>3, <1>4, <1>5, <1>6, <1>7, NextCases, Zenon
  DEF Handling, Showing, Clicking

LEMMA QueueStep == TypeOK /\ Named /\ [Next]_vars => QueueTypes'
<1> SUFFICES ASSUME TypeOK, Named, [Next]_vars PROVE QueueTypes'
  OBVIOUS
<1>0. QueueTypes
  BY TypeFact
<1>1. toPage' \in Seq(News)
  <2>1. CASE Speaks
    <3>1. PICK m \in News : toPage' = Append(toPage, m)
      BY <2>1 DEF Speaks, Says
    <3> QED
      BY <1>0, <3>1 DEF QueueTypes
  <2>2. CASE toPage # <<>> /\ toPage' = Tail(toPage)
    BY <1>0, <2>2, QueuePop DEF QueueTypes
  <2>3. CASE toPage' = toPage
    BY <1>0, <2>3 DEF QueueTypes
  <2>4. CASE toPage' = <<>>
    BY <2>4
  <2> QED
    BY <2>1, <2>2, <2>3, <2>4, SpeechSteps
<1>2. toWorker' \in Seq({"send", "confirm", "end"})
  <2>1. CASE Asks
    <3>1. PICK m \in {"send", "confirm", "end"} : toWorker' = Append(toWorker, m)
      BY <2>1 DEF Asks
    <3> QED
      BY <1>0, <3>1 DEF QueueTypes
  <2>2. CASE Answers
    BY <1>0, <2>2, QueuePop DEF QueueTypes, Answers
  <2>3. CASE toWorker' = toWorker
    BY <1>0, <2>3 DEF QueueTypes
  <2>4. CASE toWorker' = <<>>
    BY <2>4
  <2> QED
    BY <2>1, <2>2, <2>3, <2>4, CallSteps
<1> QED
  BY <1>1, <1>2 DEF QueueTypes

LEMMA InitTypeOK == Init => TypeOK /\ Named
<1> SUFFICES ASSUME Init
             PROVE  /\ SessionTypes /\ QueueTypes /\ PageTypes /\ ExitTypes /\ LockTypes
                    /\ SessionFlags /\ PageFlags /\ LockFlags /\ Named
  BY TypeFact
<1>1. SessionTypes
  BY PageAssumption DEF Init, SessionTypes, Moved
<1>2. Named
  <2>1. present => role = "join"
    BY Zenon DEF Init
  <2>2. role = "join" => who = 1
    BY Zenon DEF Init
  <2> QED
    BY <2>1, <2>2 DEF Named
<1>3. QueueTypes /\ PageTypes /\ ExitTypes /\ LockTypes
  BY PageAssumption DEF Init, QueueTypes, PageTypes, ExitTypes, LockTypes, States
<1>4. SessionFlags /\ PageFlags /\ LockFlags
  BY Zenon DEF Init, SessionFlags, PageFlags, LockFlags
<1> QED
  BY <1>1, <1>2, <1>3, <1>4

LEMMA NextTypeOK == TypeOK /\ Named /\ [Next]_vars => TypeOK'
<1> SUFFICES ASSUME TypeOK, Named, [Next]_vars PROVE TypeOK'
  OBVIOUS
<1>1. /\ SessionTypes' /\ QueueTypes' /\ PageTypes' /\ ExitTypes' /\ LockTypes'
      /\ SessionFlags' /\ PageFlags' /\ LockFlags'
  BY SessionStep, QueueStep, PageStep, ExitStep, LockStep, SessionFlagsStep, PageFlagsStep
<1>2. /\ {present, greeted, localV, peerV, ended, awaiting, byMe, byPeer}' \subseteq BOOLEAN
      /\ {dirty, panel, sentRef, moving, yanked, visible, sentinel, refused}' \subseteq BOOLEAN
  BY <1>1, Zenon DEF SessionFlags, PageFlags, LockFlags
<1>3. /\ {taken, posts, losses, hides, asking, late, held}' \subseteq Nat
  BY <1>1, Zenon DEF SessionTypes, PageTypes, LockTypes
<1> QED
  BY <1>1, <1>2, <1>3, Zenon DEF TypeOK, SessionTypes, QueueTypes, PageTypes, ExitTypes
-----------------------------------------------------------------------------
(* What was shared is in one place at a time: it waits on the page, is on  *)
(* its way to the worker, waits there for a hello, or has been taken.      *)
Asked == {i \in DOMAIN toWorker : toWorker[i] = "send"}
SharedPart ==
  /\ pending # "none" => Asked = {} /\ ~awaiting /\ taken = 0
  /\ Asked # {} => ~awaiting /\ taken = 0
  /\ \A i, j \in Asked : i = j
  /\ awaiting => taken = 0
  /\ taken <= 1

LEMMA AskedFact ==
  ASSUME QueueTypes
  PROVE  /\ UNCHANGED toWorker => Asked' = Asked
         /\ toWorker' = <<>> => Asked' = {}
         /\ \A m : toWorker' = Append(toWorker, m) =>
              Asked' = IF m = "send" THEN Asked \cup {Len(toWorker) + 1} ELSE Asked
         /\ \A m : Took(m) => Asked' = {i - 1 : i \in Asked \ {1}}
<1> DEFINE n == Len(toWorker)
<1>0. toWorker \in Seq({"send", "confirm", "end"}) /\ n \in Nat /\ DOMAIN toWorker = 1..n
  BY DEF QueueTypes
<1>1. UNCHANGED toWorker => Asked' = Asked
  BY DEF Asked
<1>2. toWorker' = <<>> => Asked' = {}
  BY DEF Asked
<1>3. ASSUME NEW m, toWorker' = Append(toWorker, m)
      PROVE  Asked' = IF m = "send" THEN Asked \cup {n + 1} ELSE Asked
  <2>1. DOMAIN toWorker' = 1..(n + 1) /\ toWorker'[n + 1] = m
        /\ \A i \in 1..n : toWorker'[i] = toWorker[i]
    BY <1>0, <1>3
  <2> QED
    BY <1>0, <2>1 DEF Asked
<1>4. ASSUME NEW m, Took(m)
      PROVE  Asked' = {i - 1 : i \in Asked \ {1}}
  <2>1. n # 0 /\ DOMAIN toWorker' = 1..(n - 1)
        /\ \A i \in 1..(n - 1) : toWorker'[i] = toWorker[i + 1]
    BY <1>0, <1>4 DEF Took
  <2>2. ASSUME NEW i \in Asked \ {1} PROVE i - 1 \in Asked'
    <3>1. i \in 2..n /\ toWorker[i] = "send"
      BY <1>0, <2>2 DEF Asked
    <3>2. i - 1 \in 1..(n - 1) /\ (i - 1) + 1 = i
      BY <1>0, <3>1
    <3> QED
      BY <2>1, <3>1, <3>2 DEF Asked
  <2>3. ASSUME NEW i \in Asked' PROVE i + 1 \in Asked \ {1} /\ i = (i + 1) - 1
    <3>1. i \in 1..(n - 1) /\ toWorker'[i] = "send"
      BY <2>1, <2>3 DEF Asked
    <3>2. toWorker[i + 1] = "send" /\ i + 1 \in 1..n /\ i + 1 # 1
      BY <1>0, <2>1, <3>1
    <3> QED
      BY <1>0, <3>1, <3>2 DEF Asked
  <2> QED
    BY <2>2, <2>3
<1> QED
  BY <1>1, <1>2, <1>3, <1>4

LEMMA SharedStep == TypeOK /\ SharedPart /\ [Next]_vars => SharedPart'
<1> SUFFICES ASSUME TypeOK, SharedPart, [Next]_vars PROVE SharedPart'
  OBVIOUS
<1>0. QueueTypes /\ taken \in Nat /\ pending \in {"none", "reading", "held"}
  BY TypeFact DEF SessionTypes, PageTypes
<1>1. ASSUME UNCHANGED <<awaiting, taken, pending>>, Asked' = Asked
      PROVE  SharedPart'
  BY <1>1 DEF SharedPart
<1>2. CASE HandleSend
  <2>1. Took("send") /\ UNCHANGED pending
    BY <1>2, Zenon DEF HandleSend, screen
  <2>2. 1 \in Asked
    BY <1>0, <2>1 DEF Took, Asked, QueueTypes
  <2>3. Asked' = {}
    BY <1>0, <2>1, <2>2, AskedFact DEF SharedPart
  <2>4. taken = 0 /\ ~awaiting /\ pending = "none"
    BY <2>2 DEF SharedPart
  <2>5. \/ awaiting' = awaiting /\ taken' \in {taken, taken + 1}
        \/ awaiting' = TRUE /\ taken' = taken
    BY <1>2 DEF HandleSend, Sends
  <2> QED
    BY <2>1, <2>3, <2>4, <2>5 DEF SharedPart
<1>3. CASE SendAfterHello
  <2>1. awaiting /\ awaiting' = FALSE /\ taken' \in {taken, taken + 1}
        /\ UNCHANGED <<toWorker, pending>>
    BY <1>3 DEF SendAfterHello, Sends, screen
  <2>2. Asked' = {} /\ taken = 0 /\ pending = "none"
    BY <1>0, <2>1, AskedFact DEF SharedPart
  <2> QED
    BY <2>1, <2>2 DEF SharedPart
<1>4. CASE HandleConfirm \/ HandleEnd
  <2>1. (Took("confirm") \/ Took("end")) /\ UNCHANGED <<awaiting, taken, pending>>
    BY <1>4, Zenon DEF HandleConfirm, HandleEnd, jobs, screen
  <2>2. 1 \notin Asked
    BY <2>1 DEF Took, Asked
  <2>3. Asked' = {i - 1 : i \in Asked}
    BY <1>0, <2>1, <2>2, AskedFact
  <2> QED
    BY <2>1, <2>3 DEF SharedPart
<1>5. CASE Departing
  <2>1. UNCHANGED <<toWorker, pending>>
    BY <1>5, Frames, Zenon DEF screen
  <2>2. UNCHANGED taken /\ (awaiting' => awaiting)
    BY <1>5 DEF Departing, PeerLeaves, PeerEnds, ConnectionDies, Undone, jobs
  <2>3. Asked' = Asked
    BY <1>0, <2>1, AskedFact
  <2> QED
    BY <2>1, <2>2, <2>3 DEF SharedPart
<1>6. CASE Render
  <2>1. UNCHANGED <<awaiting, taken>>
    BY <1>6, Zenon DEF Render, jobs
  <2>2. CASE SendsNow
    <3>1. pending = "held" /\ pending' = "none" /\ toWorker' = Append(toWorker, "send")
      BY <1>6, <2>2, Zenon DEF Render, SendsNow, PendingSent
    <3>2. Asked = {} /\ Asked' = {Len(toWorker) + 1}
      BY <1>0, <3>1, AskedFact DEF SharedPart
    <3> QED
      BY <2>1, <3>1, <3>2 DEF SharedPart
  <2>3. CASE ~SendsNow
    <3>1. UNCHANGED <<toWorker, pending>>
      BY <1>6, <2>3, Zenon DEF Render
    <3> QED
      BY <1>0, <1>1, <2>1, <3>1, AskedFact
  <2> QED
    BY <2>2, <2>3
<1>7. CASE TakeShare
  <2>1. pending # "none" /\ UNCHANGED <<awaiting, taken, toWorker>>
    BY <1>7 DEF TakeShare, jobs
  <2>2. Asked' = Asked
    BY <1>0, <2>1, AskedFact
  <2> QED
    BY <2>1, <2>2 DEF SharedPart
<1>8. CASE ConfirmVerification \/ EndSession
  <2>1. \E m \in {"confirm", "end"} : toWorker' = Append(toWorker, m)
    BY <1>8, Zenon DEF ConfirmVerification, EndSession
  <2>2. UNCHANGED <<awaiting, taken, pending>>
    BY <1>8, Zenon DEF ConfirmVerification, EndSession, jobs, screen
  <2>3. Asked' = Asked
    BY <1>0, <2>1, AskedFact
  <2> QED
    BY <1>1, <2>2, <2>3
<1>9. CASE Exits
  <2>1. awaiting' = FALSE /\ taken' = 0 /\ toWorker' = <<>> /\ pending' = "none"
    BY <1>9, Zenon DEF Exits, LeaveTo
  <2> QED
    BY <1>0, <2>1, AskedFact DEF SharedPart
<1>10. Pairing \/ Dialling \/ Moving \/ Hearing \/ Locking \/ MoveOn \/ UNCHANGED vars
       => UNCHANGED <<awaiting, taken, pending, toWorker>>
  <2>1. Pairing \/ Dialling \/ Locking \/ UNCHANGED vars
        => UNCHANGED <<awaiting, taken, toWorker, screen>>
    BY Frames, Zenon DEF vars, jobs
  <2>2. UNCHANGED <<awaiting, taken, toWorker, screen>> => UNCHANGED <<awaiting, taken, pending, toWorker>>
    BY Zenon DEF screen
  <2>3. Moving \/ Hearing => UNCHANGED <<awaiting, taken, pending, toWorker>>
    BY Zenon DEF Moving, Offer, Over, Hearing, Hear, Hears, jobs, screen
  <2>4. MoveOn => UNCHANGED <<awaiting, taken, pending, toWorker>>
    BY Zenon DEF MoveOn, jobs, screen
  <2> QED
    BY <2>1, <2>2, <2>3, <2>4, Zenon
<1>11. Pairing \/ Dialling \/ Moving \/ Hearing \/ Locking \/ MoveOn \/ UNCHANGED vars
       => SharedPart'
  BY <1>0, <1>1, <1>10, AskedFact
<1> QED
  BY <1>2, <1>3, <1>4, <1>5, <1>6, <1>7, <1>8, <1>9, <1>11, NextCases
  DEF Handling, Showing, Clicking
-----------------------------------------------------------------------------
(* What is announced is what was taken.                                    *)
Unsent == taken = 0 => work[Mine] = "none"

LEMMA UnsentStep == TypeOK /\ Unsent /\ [Next]_vars => Unsent'
<1> SUFFICES ASSUME TypeOK, Unsent, [Next]_vars PROVE Unsent'
  OBVIOUS
<1>0. taken \in Nat /\ work \in [Files -> Moved \cup {"none", "failed"}] /\ Mine \in Files
  BY TypeFact, PageAssumption DEF SessionTypes, Mine, Files
<1>1. CASE UNCHANGED <<taken, work>>
  BY <1>1 DEF Unsent
<1>2. CASE Pairing
  <2>1. CASE Greets
    <3>1. UNCHANGED taken /\ GivesUpFiles
      BY <2>1, Zenon DEF Greets
    <3>2. UNCHANGED work \/ (\E k \in Peers : work' = [work EXCEPT ![k] = "failed"])
      BY <3>1, Zenon DEF GivesUpFiles
    <3>3. work'[Mine] = work[Mine]
      BY <1>0, <3>2 DEF Peers, Mine
    <3> QED
      BY <3>1, <3>3 DEF Unsent
  <2>2. Ready \/ NeverStarts \/ PeerJoins \/ PeerConfirms => UNCHANGED <<taken, work>>
    BY Zenon DEF Ready, NeverStarts, PeerJoins, PeerConfirms, jobs
  <2> QED
    BY <1>1, <1>2, <2>1, <2>2 DEF Pairing
<1>3. CASE Moving
  <2>1. UNCHANGED taken
    BY <1>3 DEF Moving, Offer, Over
  <2>2. work[Mine] = "none" => work'[Mine] = "none"
    <3>1. ASSUME NEW p \in Peers, Offer(p) PROVE work'[Mine] = work[Mine]
      BY <1>0, <3>1 DEF Offer, Peers, Mine
    <3>2. ASSUME NEW f \in Files, Over(f), work[Mine] = "none" PROVE work'[Mine] = work[Mine]
      <4>1. work[f] = "moving" /\ \E w : work' = [work EXCEPT ![f] = w]
        BY <3>2, Zenon DEF Over
      <4> QED
        BY <1>0, <3>2, <4>1
    <3> QED
      BY <1>3, <3>1, <3>2 DEF Moving
  <2> QED
    BY <2>1, <2>2 DEF Unsent
<1>4. CASE HandleSend \/ SendAfterHello
  <2>1. Sends \/ UNCHANGED <<taken, work>>
    BY <1>4, Zenon DEF HandleSend, SendAfterHello
  <2>2. CASE Sends
    <3>1. taken' # 0 \/ UNCHANGED <<taken, work>>
      BY <1>0, <2>2 DEF Sends
    <3> QED
      BY <3>1, <1>1 DEF Unsent
  <2> QED
    BY <1>1, <2>1, <2>2
<1>5. CASE Exits
  BY <1>0, <1>5 DEF Exits, LeaveTo, Unsent
<1>6. Departing \/ HandleConfirm \/ HandleEnd => UNCHANGED <<taken, work>>
  BY Zenon DEF Departing, PeerLeaves, PeerEnds, ConnectionDies, Undone, HandleConfirm,
     HandleEnd, jobs
<1>7. Dialling \/ Hearing \/ Showing \/ Clicking \/ Locking \/ UNCHANGED vars
      => UNCHANGED <<taken, work>>
  BY Frames, Zenon DEF jobs, vars
<1> QED
  BY <1>1, <1>2, <1>3, <1>4, <1>5, <1>6, <1>7, NextCases DEF Handling

(* What is on its way about file f: its announcement at a, its end at e (0 *)
(* where it has been heard, or was never posted). The end of another file  *)
(* that would rewrite its row comes before its announcement.               *)
Own(i, f) == toPage[i].t = "row" /\ toPage[i].of = f
Foreign(i, f) ==
  /\ toPage[i].t = "row" /\ toPage[i].of # f /\ toPage[i].is # "moving"
  /\ Direction(toPage[i].of) = Direction(f)

Tale(f, a, e) ==
  /\ a \in 0..Len(toPage) /\ e \in 0..Len(toPage)
  /\ \A i \in DOMAIN toPage : Own(i, f) <=> i \in {a, e}
  /\ a # 0 => toPage[a].is = "moving" /\ (e = 0 => work[f] \in {"moving", "failed"})
  /\ e # 0 => a < e /\ toPage[e].is = work[f] /\ work[f] \in Ends
  /\ rows[f] = CASE a # 0 \/ work[f] = "none" -> {}
                 [] a = 0 /\ work[f] # "none" /\ e # 0 -> {"listed"}
                 [] OTHER -> Shown(work[f])
  /\ \A i \in DOMAIN toPage : Foreign(i, f) => i < a \/ work[f] = "none"

RowsPart == \A f \in Files \ overtaken : \E a, e \in Nat : Tale(f, a, e)

LEMMA Appended ==
  ASSUME QueueTypes, NEW m, toPage' = Append(toPage, m)
  PROVE  /\ Len(toPage) \in Nat /\ Len(toPage') = Len(toPage) + 1
         /\ DOMAIN toPage = 1..Len(toPage) /\ DOMAIN toPage' = 1..(Len(toPage) + 1)
         /\ toPage'[Len(toPage) + 1] = m
         /\ \A i \in 1..Len(toPage) : toPage'[i] = toPage[i]
BY DEF QueueTypes

(* A message is added that does not change the row of f.                   *)
LEMMA SaidOfOther ==
  ASSUME NEW f, NEW a \in Nat, NEW e \in Nat, QueueTypes, Tale(f, a, e),
         NEW m, toPage' = Append(toPage, m),
         m.t = "row" => /\ m.of # f
                        /\ m.is # "moving" /\ Direction(m.of) = Direction(f) => work[f] = "none",
         work'[f] = work[f], rows'[f] = rows[f]
  PROVE  Tale(f, a, e)'
<1>1. PICK n \in Nat :
      /\ n = Len(toPage) /\ Len(toPage') = n + 1 /\ DOMAIN toPage = 1..n
      /\ DOMAIN toPage' = 1..(n + 1) /\ toPage'[n + 1] = m
      /\ \A i \in 1..n : toPage'[i] = toPage[i]
  BY Appended
<1>2. \A i \in 1..n : (Own(i, f)' <=> Own(i, f)) /\ (Foreign(i, f)' <=> Foreign(i, f))
  BY <1>1 DEF Own, Foreign
<1>3. ~Own(n + 1, f)' /\ (Foreign(n + 1, f)' => work[f] = "none")
  BY <1>1 DEF Own, Foreign
<1>4. a \in 0..n /\ e \in 0..n
  BY <1>1 DEF Tale
<1>5. \A i \in DOMAIN toPage' : Own(i, f)' <=> i \in {a, e}
  BY <1>1, <1>2, <1>3, <1>4 DEF Tale
<1>6. \A i \in DOMAIN toPage' : Foreign(i, f)' => i < a \/ work'[f] = "none"
  BY <1>1, <1>2, <1>3 DEF Tale
<1>7. (a # 0 => toPage'[a] = toPage[a]) /\ (e # 0 => toPage'[e] = toPage[e])
  BY <1>1, <1>4
<1> QED
  BY <1>1, <1>4, <1>5, <1>6, <1>7 DEF Tale

(* Meanwhile f fails, with no word about it.                               *)
LEMMA FailedMeanwhile ==
  ASSUME NEW f, NEW a \in Nat, NEW e \in Nat, QueueTypes, Tale(f, a, e),
         NEW m, toPage' = Append(toPage, m), m.t # "row",
         work[f] = "moving", work'[f] = "failed", rows'[f] = rows[f]
  PROVE  Tale(f, a, e)'
<1>1. PICK n \in Nat :
      /\ n = Len(toPage) /\ Len(toPage') = n + 1 /\ DOMAIN toPage = 1..n
      /\ DOMAIN toPage' = 1..(n + 1) /\ toPage'[n + 1] = m
      /\ \A i \in 1..n : toPage'[i] = toPage[i]
  BY Appended
<1>2. \A i \in 1..n : (Own(i, f)' <=> Own(i, f)) /\ (Foreign(i, f)' <=> Foreign(i, f))
  BY <1>1 DEF Own, Foreign
<1>3. ~Own(n + 1, f)' /\ ~Foreign(n + 1, f)'
  BY <1>1 DEF Own, Foreign
<1>4. a \in 0..n /\ e = 0
  BY <1>1 DEF Tale, Ends
<1>5. \A i \in DOMAIN toPage' : Own(i, f)' <=> i \in {a, e}
  BY <1>1, <1>2, <1>3, <1>4 DEF Tale
<1>6. \A i \in DOMAIN toPage' : Foreign(i, f)' => i < a
  BY <1>1, <1>2, <1>3 DEF Tale
<1>7. a # 0 => toPage'[a] = toPage[a]
  BY <1>1, <1>4
<1> QED
  BY <1>1, <1>4, <1>5, <1>6, <1>7 DEF Tale, Shown

(* The announcement of f is added, or its end.                             *)
LEMMA SaidOfRow ==
  ASSUME NEW f, NEW a \in Nat, NEW e \in Nat, QueueTypes, Tale(f, a, e),
         NEW m, toPage' = Append(toPage, m), m.t = "row", m.of = f, rows'[f] = rows[f],
         \/ work[f] = "none" /\ m.is = "moving" /\ work'[f] \in {"moving", "failed"}
         \/ work[f] = "moving" /\ m.is \in Ends /\ work'[f] = m.is
  PROVE  \E x, y \in Nat : Tale(f, x, y)'
<1>1. PICK n \in Nat :
      /\ n = Len(toPage) /\ Len(toPage') = n + 1 /\ DOMAIN toPage = 1..n
      /\ DOMAIN toPage' = 1..(n + 1) /\ toPage'[n + 1] = m
      /\ \A i \in 1..n : toPage'[i] = toPage[i]
  BY Appended
<1>2. \A i \in 1..n : (Own(i, f)' <=> Own(i, f)) /\ (Foreign(i, f)' <=> Foreign(i, f))
  BY <1>1 DEF Own, Foreign
<1>3. Own(n + 1, f)' /\ ~Foreign(n + 1, f)'
  BY <1>1 DEF Own, Foreign
<1>4. e = 0 /\ a \in 0..n
  BY <1>1 DEF Tale, Ends
<1>5. CASE work[f] = "none" /\ m.is = "moving" /\ work'[f] \in {"moving", "failed"}
  <2>1. a = 0 /\ rows[f] = {}
    BY <1>4, <1>5 DEF Tale
  <2>2. \A i \in DOMAIN toPage' : Own(i, f)' <=> i \in {n + 1, 0}
    BY <1>1, <1>2, <1>3, <1>4, <2>1 DEF Tale
  <2>3. \A i \in DOMAIN toPage' : Foreign(i, f)' => i < n + 1
    BY <1>1, <1>3
  <2>4. Tale(f, n + 1, 0)'
    BY <1>1, <1>5, <2>1, <2>2, <2>3 DEF Tale
  <2> QED
    BY <1>1, <2>4
<1>6. CASE work[f] = "moving" /\ m.is \in Ends /\ work'[f] = m.is
  <2>1. rows[f] = IF a # 0 THEN {} ELSE {"listed"}
    BY <1>4, <1>6 DEF Tale, Shown
  <2>2. \A i \in DOMAIN toPage' : Own(i, f)' <=> i \in {a, n + 1}
    BY <1>1, <1>2, <1>3, <1>4 DEF Tale
  <2>3. \A i \in DOMAIN toPage' : Foreign(i, f)' => i < a
    BY <1>1, <1>2, <1>3, <1>6 DEF Tale
  <2>4. a # 0 => toPage'[a].is = "moving"
    BY <1>1, <1>4 DEF Tale
  <2>5. Tale(f, a, n + 1)'
    BY <1>1, <1>4, <1>6, <2>1, <2>2, <2>3, <2>4 DEF Tale, Ends
  <2> QED
    BY <1>1, <2>5
<1> QED
  BY <1>5, <1>6

(* The first message is heard.                                             *)
LEMMA HeardRow ==
  ASSUME NEW f \in Files, NEW a \in Nat, NEW e \in Nat, QueueTypes, Tale(f, a, e),
         toPage # <<>>, toPage' = Tail(toPage), work'[f] = work[f],
         rows \in [Files -> SUBSET Marks], rows' = RowsAfter(toPage[1]) 
  PROVE  \E x, y \in Nat : Tale(f, x, y)'
<1> DEFINE Sooner(i) == IF i = 0 THEN 0 ELSE i - 1
<1>1. PICK n \in Nat :
      /\ n = Len(toPage) /\ n # 0 /\ DOMAIN toPage = 1..n /\ DOMAIN toPage' = 1..(n - 1)
      /\ Len(toPage') = n - 1 /\ \A i \in 1..(n - 1) : toPage'[i] = toPage[i + 1]
  BY DEF QueueTypes
<1>2. /\ a \in 0..n /\ e \in 0..n
      /\ \A i \in DOMAIN toPage : Own(i, f) <=> i \in {a, e}
      /\ a # 0 => toPage[a].is = "moving" /\ (e = 0 => work[f] \in {"moving", "failed"})
      /\ e # 0 => a < e /\ toPage[e].is = work[f] /\ work[f] \in Ends
      /\ \A i \in DOMAIN toPage : Foreign(i, f) => i < a \/ work[f] = "none"
  BY <1>1 DEF Tale
<1>3. \A i \in DOMAIN toPage' : /\ i + 1 \in DOMAIN toPage
                                /\ Own(i, f)' <=> Own(i + 1, f)
                                /\ Foreign(i, f)' <=> Foreign(i + 1, f)
  BY <1>1 DEF Own, Foreign
<1>4. Sooner(a) \in 0..(n - 1) /\ Sooner(e) \in 0..(n - 1)
  BY <1>1, <1>2
<1>5. \A i \in DOMAIN toPage' : Own(i, f)' <=> i \in {Sooner(a), Sooner(e)}
  BY <1>1, <1>2, <1>3
<1>6. \A i \in DOMAIN toPage' : Foreign(i, f)' => i < Sooner(a) \/ work[f] = "none"
  BY <1>1, <1>2, <1>3
<1>7. /\ Sooner(a) # 0 => /\ toPage'[Sooner(a)].is = "moving"
                           /\ Sooner(e) = 0 => work[f] \in {"moving", "failed"}
      /\ Sooner(e) # 0 => Sooner(a) < Sooner(e) /\ toPage'[Sooner(e)].is = work[f]
                          /\ work[f] \in Ends
  BY <1>1, <1>2
<1>8. rows'[f] = CASE Sooner(a) # 0 \/ work[f] = "none" -> {}
                   [] Sooner(a) = 0 /\ work[f] # "none" /\ Sooner(e) # 0 -> {"listed"}
                   [] OTHER -> Shown(work[f])
  <2>0. 1 \in DOMAIN toPage
    BY <1>1
  <2>1. CASE a = 1
    <3>1. Own(1, f) /\ toPage[1].is = "moving"
      BY <1>2, <2>0, <2>1
    <3>2. rows'[f] = {"listed"}
      BY <3>1 DEF RowsAfter, Own
    <3>3. e # 0 => e # 1
      BY <1>2, <2>1
    <3>4. e = 0 => work[f] \in {"moving", "failed"}
      BY <1>2, <2>1 DEF Tale
    <3> QED
      BY <1>2, <2>1, <3>2, <3>3, <3>4 DEF Shown, Ends
  <2>2. CASE e = 1
    <3>1. Own(1, f) /\ toPage[1].is = work[f] /\ work[f] \in Ends /\ a = 0
      BY <1>2, <2>0, <2>2
    <3>2. rows[f] = {"listed"}
      BY <2>2, <3>1 DEF Tale, Ends
    <3>3. rows'[f] = Ended({"listed"}, work[f])
      BY <3>1, <3>2 DEF RowsAfter, UpdateFile, Own, Ends
    <3>4. Ended({"listed"}, work[f]) = Shown(work[f])
      BY <3>1 DEF Ended, Shown, Ends
    <3> QED
      BY <2>2, <3>1, <3>3, <3>4 DEF Ends
  <2>3. CASE a # 1 /\ e # 1
    <3>1. ~Own(1, f)
      BY <1>2, <2>0, <2>3
    <3>2. rows'[f] = rows[f]
      <4>1. CASE Foreign(1, f)
        <5>1. a # 0 \/ work[f] = "none"
          BY <1>2, <2>0, <4>1
        <5>2. rows[f] = {}
          BY <5>1 DEF Tale
        <5> QED
          BY <3>1, <4>1, <5>2 DEF RowsAfter, UpdateFile, Foreign
      <4>2. CASE ~Foreign(1, f)
        <5>1. CASE toPage[1].t # "row"
          BY <5>1 DEF RowsAfter
        <5>2. CASE toPage[1].t = "row" /\ toPage[1].is = "moving"
          BY <3>1, <5>2 DEF RowsAfter, Own
        <5>3. CASE toPage[1].t = "row" /\ toPage[1].is # "moving"
          <6>1. Direction(f) # Direction(toPage[1].of)
            BY <3>1, <4>2, <5>3 DEF Own, Foreign
          <6>2. rows' = UpdateFile(toPage[1].of, toPage[1].is)
            BY <5>3 DEF RowsAfter
          <6> QED
            BY <6>1, <6>2 DEF UpdateFile
        <5> QED
          BY <5>1, <5>2, <5>3
      <4> QED
        BY <4>1, <4>2
    <3> QED
      BY <1>2, <2>3, <3>2 DEF Tale
  <2> QED
    BY <2>1, <2>2, <2>3
<1>9. Tale(f, Sooner(a), Sooner(e))'
  BY <1>1, <1>4, <1>5, <1>6, <1>7, <1>8 DEF Tale
<1> QED
  BY <1>1, <1>4, <1>9

LEMMA SameRow ==
  ASSUME NEW f, NEW a \in Nat, NEW e \in Nat, Tale(f, a, e),
         UNCHANGED toPage, rows'[f] = rows[f],
         work'[f] = work[f] \/ (work[f] = "moving" /\ work'[f] = "failed")
  PROVE  Tale(f, a, e)'
BY DEF Tale, Own, Foreign, Shown, Ends
-----------------------------------------------------------------------------
LEMMA RowsStep == TypeOK /\ SharedPart /\ Unsent /\ RowsPart /\ [Next]_vars => RowsPart'
<1> SUFFICES ASSUME TypeOK, SharedPart, Unsent, RowsPart, [Next]_vars,
                    NEW f \in Files, f \notin overtaken'
             PROVE  \E x, y \in Nat : Tale(f, x, y)'
  BY DEF RowsPart, Files
<1>0. QueueTypes /\ work \in [Files -> Moved \cup {"none", "failed"}]
      /\ rows \in [Files -> SUBSET Marks]
  BY TypeFact DEF SessionTypes, PageTypes
<1>1. CASE Exits
  <2>1. toPage' = <<>> /\ work'[f] = "none" /\ rows'[f] = {}
    BY <1>1 DEF Exits, LeaveTo
  <2>2. Tale(f, 0, 0)'
    BY <2>1 DEF Tale
  <2> QED
    BY <2>2
<1>2. ASSUME f \notin overtaken PROVE \E a, e \in Nat : Tale(f, a, e)
  BY <1>2 DEF RowsPart
(* A message of no row, or none.                                           *)
<1>3. ASSUME f \notin overtaken, NEW m, Says(m), m.t # "row",
             work'[f] = work[f] \/ (work[f] = "moving" /\ work'[f] = "failed"),
             UNCHANGED rows
      PROVE  \E x, y \in Nat : Tale(f, x, y)'
  <2>1. PICK a, e \in Nat : Tale(f, a, e)
    BY <1>2, <1>3
  <2>2. toPage' = Append(toPage, m)
    BY <1>3 DEF Says
  <2>3. CASE work'[f] = work[f]
    <3>1. Tale(f, a, e)'
      BY <1>0, <1>3, <2>1, <2>2, <2>3, SaidOfOther
    <3> QED
      BY <3>1
  <2>4. CASE work[f] = "moving" /\ work'[f] = "failed"
    <3>1. Tale(f, a, e)'
      BY <1>0, <1>3, <2>1, <2>2, <2>4, FailedMeanwhile
    <3> QED
      BY <3>1
  <2> QED
    BY <1>3, <2>3, <2>4
<1>4. ASSUME f \notin overtaken, UNCHANGED <<rows, toPage>>,
             work'[f] = work[f] \/ (work[f] = "moving" /\ work'[f] = "failed")
      PROVE  \E x, y \in Nat : Tale(f, x, y)'
  <2>1. PICK a, e \in Nat : Tale(f, a, e)
    BY <1>2, <1>4
  <2>2. Tale(f, a, e)'
    BY <1>4, <2>1, SameRow
  <2> QED
    BY <2>2
(* A file g is announced, or ends.                                         *)
<1>5. ASSUME f \notin overtaken, NEW g \in Files, NEW w \in Moved, NEW x \in Moved \cup {"failed"},
             Says([t |-> "row", of |-> g, is |-> w]),
             work' = [work EXCEPT ![g] = x], UNCHANGED rows,
             \/ w = "moving" /\ work[g] = "none" /\ x \in {"moving", "failed"}
             \/ w \in Ends /\ work[g] = "moving" /\ x = w /\ f \notin Namesakes(g)
      PROVE  \E y, z \in Nat : Tale(f, y, z)'
  <2> DEFINE m == [t |-> "row", of |-> g, is |-> w]
  <2>1. PICK a, e \in Nat : Tale(f, a, e)
    BY <1>2, <1>5
  <2>2. toPage' = Append(toPage, m) /\ m.t = "row" /\ m.of = g /\ m.is = w
    BY <1>5 DEF Says
  <2>3. CASE f = g
    <3>1. work'[f] = x /\ rows'[f] = rows[f]
      BY <1>0, <1>5, <2>3
    <3> QED
      BY <1>0, <1>5, <2>1, <2>2, <2>3, <3>1, SaidOfRow
  <2>4. CASE f # g
    <3>1. work'[f] = work[f] /\ rows'[f] = rows[f]
      BY <1>0, <1>5, <2>4
    <3>2. m.is # "moving" /\ Direction(m.of) = Direction(f) => work[f] = "none"
      BY <1>5, <2>2, <2>4 DEF Namesakes
    <3>3. Tale(f, a, e)'
      BY <1>0, <2>1, <2>2, <2>4, <3>1, <3>2, SaidOfOther
    <3> QED
      BY <3>3
  <2> QED
    BY <2>3, <2>4
<1>6. CASE Pairing \/ Departing \/ Dialling
  <2>1. UNCHANGED <<overtaken, rows>>
    <3>1. CASE Pairing \/ Dialling
      BY <3>1, Frames, Zenon DEF jobs, hook
    <3>2. CASE Departing
      BY <3>2, Zenon DEF Departing, PeerLeaves, PeerEnds, ConnectionDies, Undone, jobs, hook
    <3> QED
      BY <1>6, <3>1, <3>2
  <2>2. work'[f] = work[f] \/ (work[f] = "moving" /\ work'[f] = "failed")
    <3>1. UNCHANGED work \/ GivesUpFiles
      BY <1>6, Zenon DEF Pairing, Ready, NeverStarts, PeerJoins, Greets, PeerConfirms, Departing,
         PeerLeaves, PeerEnds, ConnectionDies, Undone, Dialling, Reconnects, TriesAgain, GivesUp,
         Dialled, jobs
    <3>2. CASE GivesUpFiles /\ ~UNCHANGED work
      <4>1. PICK k \in Peers : work[k] = "moving" /\ work' = [work EXCEPT ![k] = "failed"]
        BY <3>2, Zenon DEF GivesUpFiles
      <4> QED
        BY <1>0, <4>1
    <3> QED
      BY <3>1, <3>2
  <2>3. \/ UNCHANGED toPage
        \/ \E t \in {"ready", "error", "peer-joined", "peer-verified", "peer-left"} : Says([t |-> t])
        \/ \E r \in {"peer-ended", "room-gone", "gave-up"} : Says([t |-> "session-ended", reason |-> r])
        \/ Says([t |-> "verification", number |-> who])
    BY <1>6, Zenon DEF Pairing, Ready, NeverStarts, PeerJoins, Greets, PeerConfirms, Departing,
       PeerLeaves, PeerEnds, ConnectionDies, Dialling, Reconnects, TriesAgain, GivesUp, Quietly
  <2> QED
    BY <1>3, <1>4, <2>1, <2>2, <2>3
<1>7. CASE \E p \in Peers : Offer(p)
  <2>1. PICK p \in Peers : Offer(p)
    BY <1>7
  <2>2. /\ work' = [work EXCEPT ![p] = "moving"] /\ UNCHANGED <<overtaken, rows>>
        /\ Says([t |-> "row", of |-> p, is |-> "moving"]) /\ work[p] = "none"
    BY <2>1, Zenon DEF Offer, hook
  <2>3. p \in Files /\ "moving" \in Moved
    BY PageAssumption DEF Peers, Files, Moved
  <2> QED
    BY <1>5, <2>2, <2>3
<1>8. CASE \E g \in Files : Over(g)
  <2>1. PICK g \in Files : Over(g)
    BY <1>8
  <2>2. work[g] = "moving" /\ UNCHANGED rows
    BY <2>1, Zenon DEF Over, hook
  <2>3. CASE \E w \in Ends : /\ work' = [work EXCEPT ![g] = w]
                             /\ overtaken' = overtaken \cup Namesakes(g)
                             /\ Says([t |-> "row", of |-> g, is |-> w])
    <3>1. PICK w \in Ends : /\ work' = [work EXCEPT ![g] = w]
                            /\ overtaken' = overtaken \cup Namesakes(g)
                            /\ Says([t |-> "row", of |-> g, is |-> w])
      BY <2>3
    <3>2. f \notin overtaken /\ f \notin Namesakes(g) /\ w \in Moved
      BY <3>1 DEF Moved
    <3> QED
      BY <1>5, <2>2, <3>1, <3>2
  <2>4. CASE work' = [work EXCEPT ![g] = "failed"] /\ UNCHANGED overtaken /\ Quietly
    <3>1. UNCHANGED toPage
      BY <2>4, Zenon DEF Quietly
    <3>2. CASE f = g
      BY <1>0, <1>4, <2>2, <2>4, <3>1, <3>2
    <3>3. CASE f # g
      BY <1>0, <1>4, <2>2, <2>4, <3>1, <3>3
    <3> QED
      BY <3>2, <3>3
  <2> QED
    BY <2>1, <2>3, <2>4 DEF Over
<1>9. CASE HandleSend \/ SendAfterHello
  <2>1. UNCHANGED <<overtaken, rows>>
    BY <1>9, Zenon DEF HandleSend, SendAfterHello, hook
  <2>2. CASE Sends
    <3>1. CASE Gate
      <4> DEFINE x == IF link = "up" THEN "moving" ELSE "failed"
      <4>1. work' = [work EXCEPT ![Mine] = x]
            /\ Says([t |-> "row", of |-> Mine, is |-> "moving"])
        BY <2>2, <3>1, Zenon DEF Sends
      <4>2. x \in {"moving", "failed"} /\ x \in Moved \cup {"failed"} /\ Mine \in Files
            /\ "moving" \in Moved
        BY PageAssumption DEF Mine, Files, Moved
      <4>3. taken = 0
        <5>1. CASE HandleSend
          <6>1. 1 \in Asked
            BY <1>0, <5>1 DEF HandleSend, Took, Asked, QueueTypes
          <6> QED
            BY <6>1 DEF SharedPart
        <5>2. CASE SendAfterHello
          BY <5>2 DEF SendAfterHello, SharedPart
        <5> QED
          BY <1>9, <5>1, <5>2
      <4>4. work[Mine] = "none"
        BY <4>3 DEF Unsent
      <4> QED
        BY <1>5, <2>1, <4>1, <4>2, <4>4
    <3>2. CASE ~Gate
      <4>1. UNCHANGED work /\ Says([t |-> "error"])
        BY <2>2, <3>2, Zenon DEF Sends
      <4>2. work'[f] = work[f]
        BY <4>1
      <4> QED
        BY <1>3, <2>1, <4>1, <4>2
    <3> QED
      BY <3>1, <3>2
  <2>3. Sends \/ UNCHANGED <<work, toPage>>
    BY <1>9, Zenon DEF HandleSend, SendAfterHello, Quietly
  <2> QED
    BY <1>4, <2>1, <2>2, <2>3
<1>10. CASE HandleConfirm \/ HandleEnd
  <2>1. UNCHANGED <<work, overtaken, rows>> /\ (UNCHANGED toPage \/ Says([t |-> "end-session-sent"]))
    BY <1>10, Zenon DEF HandleConfirm, HandleEnd, jobs, hook, Quietly
  <2> QED
    BY <1>3, <1>4, <2>1
<1>11. CASE Hearing
  <2>1. toPage # <<>> /\ toPage' = Tail(toPage) /\ UNCHANGED <<work, overtaken>>
    BY <1>11, Zenon DEF Hearing, Hear, Hears, jobs
  <2>2. PICK a, e \in Nat : Tale(f, a, e)
    BY <1>2, <2>1
  <2>3. toPage[1] = Head(toPage)
    BY <1>0, <2>1 DEF QueueTypes
  <2>4. rows' = RowsAfter(toPage[1])
    <3>1. CASE Hear
      BY <2>3, <3>1, Zenon DEF Hear, Hears
    <3>2. CASE ~Hear
      <4>1. toPage[1].t = "end-session-sent" /\ UNCHANGED rows
        BY <1>11, <2>3, <3>2, Zenon DEF Hearing, hook
      <4> QED
        BY <4>1 DEF RowsAfter
    <3> QED
      BY <3>1, <3>2
  <2> QED
    BY <1>0, <2>1, <2>2, <2>4, HeardRow
<1>12. CASE Showing \/ Clicking \/ Locking \/ UNCHANGED vars
  <2>1. UNCHANGED <<work, overtaken, toPage>>
    BY <1>12, Frames, Zenon DEF jobs, vars
  <2>2. UNCHANGED rows
    <3>1. Showing \/ Locking \/ UNCHANGED vars => UNCHANGED rows
      BY Frames, Zenon DEF hook, vars
    <3>2. Clicking => UNCHANGED rows
      BY Zenon DEF Clicking, ConfirmVerification, EndSession, MoveOn, hook
    <3> QED
      BY <1>12, <3>1, <3>2
  <2> QED
    BY <1>4, <2>1, <2>2
<1> QED
  BY <1>1, <1>6, <1>7, <1>8, <1>9, <1>10, <1>11, <1>12, NextCases DEF Moving, Handling
-----------------------------------------------------------------------------
LEMMA AwakeStep == TypeOK /\ ScreenKeptAwake /\ [Next]_vars => ScreenKeptAwake'
<1> SUFFICES ASSUME TypeOK, ScreenKeptAwake, [Next]_vars PROVE ScreenKeptAwake'
  OBVIOUS
<1>0. LockTypes /\ visible \in BOOLEAN /\ moving \in BOOLEAN
  BY TypeFact DEF LockFlags, PageFlags
<1> USE DEF ScreenKeptAwake
<1>1. CASE Grant \/ Refuse
  <2>1. UNCHANGED <<moving, visible>>
    BY <1>1, Zenon DEF Grant, Refuse, screen
  <2>2. CASE Grant
    BY <1>0, <2>1, <2>2 DEF Grant, LockTypes
  <2>3. CASE Refuse
    BY <1>0, <2>1, <2>3 DEF Refuse, LockTypes
  <2> QED
    BY <1>1, <2>2, <2>3
<1>2. CASE Turn
  <2>1. moving' <=> moving
    BY <1>2, Zenon DEF Turn, screen
  <2>2. moving /\ visible' => asking' = asking + 1
    BY <1>2, Zenon DEF Turn, Acquires, DropsSentinel
  <2> QED
    BY <1>0, <2>1, <2>2 DEF LockTypes
<1>3. CASE LeaveTo
  BY <1>3, Zenon DEF LeaveTo
<1>4. CASE Render
  <2> DEFINE m == Shows /\ InFlight
  <2>1. (moving' <=> m) /\ LockFollows(m)
    BY <1>4, Zenon DEF Render
  <2>2. CASE m /\ ~moving
    <3>1. asking' = Acquires(visible, FALSE, 0) /\ UNCHANGED visible
      BY <2>1, <2>2, Zenon DEF LockFollows
    <3> QED
      BY <3>1 DEF Acquires
  <2>3. CASE ~m
    BY <2>1, <2>3, Zenon
  <2>4. CASE m /\ moving
    <3>1. UNCHANGED lock
      BY <2>1, <2>4, Zenon DEF LockFollows
    <3> QED
      BY <2>4, <3>1 DEF lock
  <2> QED
    BY <1>0, <2>2, <2>3, <2>4
<1>5. CASE UNCHANGED <<moving, lock>>
  BY <1>5, Zenon DEF lock
<1>6. TakeShare \/ Clicking => UNCHANGED <<moving, lock>>
  BY Zenon DEF TakeShare, Clicking, ConfirmVerification, EndSession, MoveOn, screen
<1>7. Hearing => UNCHANGED <<moving, lock>>
  BY Zenon DEF Hearing, Hear, Hears, screen
<1>8. Pairing \/ Departing \/ Dialling \/ Moving \/ Handling \/ UNCHANGED vars
      => UNCHANGED <<moving, lock>>
  <2>1. UNCHANGED screen => UNCHANGED moving
    BY Zenon DEF screen
  <2> QED
    BY <2>1, Frames, Zenon DEF vars
<1> HIDE DEF ScreenKeptAwake
<1> QED
  BY <1>1, <1>2, <1>3, <1>4, <1>5, <1>6, <1>7, <1>8, NextCases
  DEF Exits, Showing, Locking

EndIsTimed == slot # 0 => slot \in timers

LEMMA TimedStep == TypeOK /\ EndIsTimed /\ [Next]_vars => EndIsTimed'
<1> SUFFICES ASSUME TypeOK, EndIsTimed, [Next]_vars PROVE EndIsTimed'
  OBVIOUS
<1>1. CASE Exits
  BY <1>1 DEF Exits, EndIsTimed
<1>2. CASE EndSession
  BY <1>2 DEF EndSession, StartsTimer, EndIsTimed
<1>3. CASE UNCHANGED <<slot, timers>>
  BY <1>3 DEF EndIsTimed
<1>4. ConfirmVerification \/ MoveOn => UNCHANGED <<slot, timers>>
  BY Zenon DEF ConfirmVerification, MoveOn, exit
<1>5. Pairing \/ Departing \/ Dialling \/ Moving \/ Handling \/ Hearing \/ Showing \/ Locking
      \/ UNCHANGED vars => UNCHANGED <<slot, timers>>
  <2>1. UNCHANGED exit => UNCHANGED <<slot, timers>>
    BY Zenon DEF exit
  <2> QED
    BY <2>1, Frames, Zenon DEF vars
<1> QED
  BY <1>1, <1>2, <1>3, <1>4, <1>5, NextCases DEF Clicking
-----------------------------------------------------------------------------
IInv == TypeOK /\ Named /\ SharedPart /\ Unsent /\ RowsPart /\ ScreenKeptAwake /\ EndIsTimed

LEMMA InitIInv == Init => IInv
<1> SUFFICES ASSUME Init PROVE IInv
  OBVIOUS
<1>1. TypeOK /\ Named
  BY InitTypeOK
<1>2. SharedPart
  BY DEF Init, SharedPart, Asked
<1>3. Unsent /\ RowsPart
  <2>1. toPage = <<>> /\ \A f \in Files : work[f] = "none" /\ rows[f] = {}
    BY DEF Init
  <2>2. ASSUME NEW f \in Files PROVE Tale(f, 0, 0)
    <3>1. Len(toPage) = 0 /\ DOMAIN toPage = {} /\ work[f] = "none" /\ rows[f] = {}
      BY <2>1, <2>2
    <3> QED
      BY <3>1 DEF Tale
  <2> QED
    BY <2>1, <2>2, PageAssumption DEF RowsPart, Unsent, Mine, Files
<1>4. ScreenKeptAwake
  BY Zenon DEF Init, ScreenKeptAwake
<1>5. EndIsTimed
  BY DEF Init, EndIsTimed
<1> QED
  BY <1>1, <1>2, <1>3, <1>4, <1>5 DEF IInv

LEMMA IInvHolds == Spec => []IInv
<1>1. IInv /\ [Next]_vars => IInv'
  BY NextTypeOK, NamedStep, SharedStep, UnsentStep, RowsStep, AwakeStep, TimedStep DEF IInv
<1> QED
  BY InitIInv, <1>1, PTL DEF Spec

(* Every variable stays in its type: the page hears no news it cannot take *)
(* in, whatever peers, losses, clicks and screens come (useSession.ts).    *)
THEOREM TypeCorrect == Spec => []TypeOK
<1>1. IInv => TypeOK
  BY DEF IInv
<1> QED
  BY IInvHolds, <1>1, PTL

(* What was shared to the page is taken by the worker's Sender at most     *)
(* once, for every number of peers, losses and messages on their way       *)
(* (TransferPanel.tsx's pendingSent, CreateScreen.tsx's onPendingSent).    *)
THEOREM SharedOnceHolds == Spec => []SharedOnce
<1>1. IInv => SharedOnce
  BY DEF IInv, SharedPart, SharedOnce
<1> QED
  BY IInvHolds, <1>1, PTL

(* A page that has heard everything shows what became of every file whose  *)
(* row no other file's end has rewritten, for any number of peers that     *)
(* replace one another with files of the same id (useSession.ts's          *)
(* updateFile).                                                            *)
THEOREM RowsAgreeHolds == Spec => []RowsAgree
<1>1. ASSUME RowsPart, toPage = <<>>, NEW f \in Files \ overtaken
      PROVE  rows[f] = Shown(work[f])
  <2>1. PICK a, e \in Nat : Tale(f, a, e)
    BY <1>1 DEF RowsPart
  <2>2. a = 0 /\ e = 0
    BY <1>1, <2>1 DEF Tale
  <2> QED
    BY <2>1, <2>2 DEF Tale, Shown
<1>2. IInv => RowsAgree
  BY <1>1, Zenon DEF IInv, RowsAgree
<1> QED
  BY IInvHolds, <1>2, PTL

(* A page that is seen while a file moves has its lock, has asked for it,  *)
(* or was refused it (useTransferGuards.ts's useWakeLock).                 *)
THEOREM AwakeHolds == Spec => []ScreenKeptAwake
<1>1. IInv => ScreenKeptAwake
  BY DEF IInv
<1> QED
  BY IInvHolds, <1>1, PTL

(* The click whose answer is awaited has its timer: endSession cannot wait *)
(* for a worker that never answers, provided the timer fires               *)
(* (useSession.ts's endSession, END_SESSION_TIMEOUT_MS).                   *)
THEOREM EndIsTimedHolds == Spec => []EndIsTimed
<1>1. IInv => EndIsTimed
  BY DEF IInv
<1> QED
  BY IInvHolds, <1>1, PTL
===============================================================================
