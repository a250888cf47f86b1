--------------------------------- MODULE Page ---------------------------------
(***************************************************************************)
(* What the page makes of a session that runs in a worker: the state a     *)
(* screen renders from (client/hooks/useSession.ts), the paired panel that *)
(* sends what was shared to it (client/screens/), the guards that keep a   *)
(* running transfer from being lost (client/hooks/useTransferGuards.ts)    *)
(* and the way out (client/routing.ts).                                    *)
(*                                                                         *)
(* Page and worker know each other through two channels only; whatever one *)
(* of them posts, the other has moved on by the time it is heard. A message*)
(* changes the page's state; React commits that state to the screen, and   *)
(* runs the effects that depend on it, some time later (Render), so that   *)
(* several messages may be committed at once.                              *)
(*                                                                         *)
(* The worker is what Session shows of itself: a peer that comes, is       *)
(* greeted, confirms, leaves or ends the session, a connection lost and    *)
(* found. A peer is named by a number, and so is the key agreed with it    *)
(* and the digits both users compare. What was shared is one file, and     *)
(* every peer that comes offers one. All of these have the same id: each   *)
(* device numbers what it sends from 1, a peer that replaces another (or   *)
(* the same one, reloaded) as well, and the page keeps the earlier rows.   *)
(*                                                                         *)
(* Definitions that differ from their neighbour by one mistake are faulty  *)
(* variants no action uses; they stand for the bugs the properties see.    *)
(***************************************************************************)
EXTENDS Integers, Sequences, FiniteSets

CONSTANTS
  MaxPeers,    \* how many different peers come (bound)
  MaxLosses,   \* departures, losses of the connection, returns (bound)
  MaxAttempts, \* attempts of a Reconnector; MAX_ATTEMPTS in the code, which has 8
  MaxEnds,     \* clicks on "End session" (bound)
  MaxHides,    \* how often the tab is hidden (bound)
  MaxQueue     \* messages the page has not heard yet (bound)

ASSUME PageAssumption ==
  /\ MaxPeers \in Nat \ {0} /\ MaxAttempts \in Nat \ {0} /\ MaxQueue \in Nat \ {0}
  /\ MaxLosses \in Nat /\ MaxEnds \in Nat /\ MaxHides \in Nat

Peers == 1..MaxPeers
Clicks == 1..MaxEnds
Mine == 0                \* the file that was shared here; file p is what peer p offers
Files == 0..MaxPeers
Direction(f) == IF f = Mine THEN "send" ELSE "receive"

VARIABLES
  role,      \* the intent: "create" or "join"
  present,   \* a peer is in the room
  link,      \* this device's connection: "new", "up", "down" or "over"
  attempt,   \* the Reconnector's #attempt: attempts made or scheduled
  who,       \* the peer that came last
  greeted,   \* #remoteNoncePrefix: its hello has come
  key,       \* the peer the session key was agreed with
  localV,    \* #localVerified
  peerV,     \* #peerVerified
  ended,     \* the peer has said it is leaving on purpose
  awaiting,  \* the shared files wait for a hello
  taken,     \* how often the worker's Sender has taken the shared files
  work,      \* what the worker knows of each file
  overtaken, \* history: the files announced when another's end was posted
  losses,    \* departures, losses and returns so far
  toPage, toWorker,
  state, reason, digits, byMe, byPeer,   \* useSession
  rows,      \* what the page shows of each file
  slot,      \* endSentRef: the click whose promise the answer settles
  timers,    \* clicks whose timer runs
  clicks,    \* clicks so far
  pending,   \* what was shared: being read, held, or nothing
  place,     \* the screen of this session, home, or a screen visited next
  dirty,     \* there is state React has not committed
  panel,     \* TransferPanel is mounted
  sentRef,   \* its pendingSent
  moving,    \* its inFlight, as the effects last saw it
  posts,     \* how often the shared files were posted to the worker
  yanked,    \* a timer of this session took the user off another screen
  visible, hides,                             \* the document
  sentinel, asking, late, held, refused       \* the wake lock

pair == <<role, present, link, attempt, who, greeted, key, localV, peerV, ended, losses>>
jobs == <<awaiting, taken, work, overtaken>>
hook == <<state, reason, digits, byMe, byPeer, rows>>
exit == <<slot, timers, clicks, place, yanked>>
screen == <<dirty, panel, sentRef, moving, pending, posts>>
lock == <<visible, hides, sentinel, asking, late, held, refused>>
vars == <<pair, jobs, toPage, toWorker, hook, exit, screen, lock>>

States == {"connecting", "waiting", "paired", "ended", "gone", "error"}
Ends == {"done", "kept", "cancelled"}   \* kept: done, held in this tab only
Moved == {"moving"} \cup Ends
Marks == {"listed", "done", "cancelled", "blob"}   \* of a row
News ==
  [t : {"ready", "peer-joined", "peer-left", "peer-verified", "end-session-sent", "error"}]
  \cup [t : {"verification"}, number : Peers]
  \cup [t : {"session-ended"}, reason : {"gave-up", "room-gone", "peer-ended"}]
  \cup [t : {"row"}, of : Files, is : Moved]

TypeOK ==
  /\ role \in {"create", "join"} /\ link \in {"new", "up", "down", "over"}
  /\ {present, greeted, localV, peerV, ended, awaiting, byMe, byPeer} \subseteq BOOLEAN
  /\ {dirty, panel, sentRef, moving, yanked, visible, sentinel, refused} \subseteq BOOLEAN
  /\ attempt \in 0..MaxAttempts
  /\ who \in 0..MaxPeers /\ key \in 0..MaxPeers /\ digits \in 0..MaxPeers
  /\ {taken, posts, losses, hides, asking, late, held} \subseteq Nat
  /\ work \in [Files -> Moved \cup {"none", "failed"}] /\ overtaken \subseteq Files
  /\ rows \in [Files -> SUBSET Marks]
  /\ toPage \in Seq(News) /\ toWorker \in Seq({"send", "confirm", "end"})
  /\ state \in States /\ reason \in {"none", "gave-up", "room-gone", "peer-ended"}
  /\ slot \in 0..MaxEnds /\ timers \subseteq Clicks /\ clicks \in 0..MaxEnds
  /\ pending \in {"none", "reading", "held"}
  /\ place \in {"session", "home", "elsewhere"}

Init ==
  /\ link = "new" /\ attempt = 0 /\ greeted = FALSE /\ key = 0 /\ localV = FALSE /\ peerV = FALSE
  /\ ended = FALSE /\ awaiting = FALSE /\ taken = 0 /\ posts = 0 /\ losses = 0
  /\ work = [f \in Files |-> "none"] /\ overtaken = {}
  /\ toPage = <<>> /\ toWorker = <<>>
  /\ state = "connecting" /\ reason = "none" /\ digits = 0
  /\ byMe = FALSE /\ byPeer = FALSE
  /\ rows = [f \in Files |-> {}]
  /\ dirty = FALSE /\ panel = FALSE /\ sentRef = FALSE /\ moving = FALSE
  /\ role \in {"create", "join"}
  /\ present = (role = "join") /\ who = IF role = "join" THEN 1 ELSE 0
  /\ slot = 0 /\ timers = {} /\ clicks = 0
  /\ place = "session" /\ yanked = FALSE
  /\ pending = IF role = "create" THEN "reading" ELSE "none"
  /\ visible = TRUE /\ hides = 0
  /\ sentinel = FALSE /\ asking = 0 /\ late = 0 /\ held = 0 /\ refused = FALSE
-----------------------------------------------------------------------------
(* The worker. *)
Says(m) ==
  /\ place = "session" /\ Len(toPage) < MaxQueue
  /\ toPage' = Append(toPage, m)
Quietly == place = "session" /\ UNCHANGED toPage

verified == greeted /\ localV /\ peerV

Ready ==
  /\ link = "new"
  /\ link' = "up"
  /\ Says([t |-> "ready"])
  /\ UNCHANGED <<role, present, attempt, who, greeted, key, localV, peerV, ended, losses,
                 jobs, toWorker, hook, exit, screen, lock>>

(* create() or join() has rejected. *)
NeverStarts ==
  /\ link = "new"
  /\ link' = "over"
  /\ Says([t |-> "error"])
  /\ UNCHANGED <<role, present, attempt, who, greeted, key, localV, peerV, ended, losses,
                 jobs, toWorker, hook, exit, screen, lock>>

(* The peer that left, or another one, takes the free seat. *)
PeerJoins ==
  /\ link = "up" /\ ~present
  /\ present' = TRUE
  /\ who' \in (Peers \cap {who, who + 1})
  /\ Says([t |-> "peer-joined"])
  /\ UNCHANGED <<role, link, attempt, greeted, key, localV, peerV, ended, losses,
                 jobs, toWorker, hook, exit, screen, lock>>

(* Its hello, and the derivation of a key if it is not the one known. The  *)
(* Receiver then gives up what the peer before was sending, with no word   *)
(* to any row; a file that is being closed is off its list already.        *)
GivesUpFiles ==
  \/ UNCHANGED work
  \/ /\ key \in Peers \ {who} /\ work[key] = "moving"
     /\ work' = [work EXCEPT ![key] = "failed"]

Greets ==
  /\ link = "up" /\ present /\ ~greeted
  /\ greeted' = TRUE
  /\ key' = who
  /\ localV' = (localV /\ key = who)
  /\ peerV' = (peerV /\ key = who)
  /\ IF key = who THEN Quietly ELSE Says([t |-> "verification", number |-> who])
  /\ GivesUpFiles
  /\ UNCHANGED <<role, present, link, attempt, who, ended, losses, awaiting, taken,
                 overtaken, toWorker, hook, exit, screen, lock>>

(* The peer's `verified` opens under the key that is agreed. Frames are    *)
(* opened one after the other, and a departure is no frame: this may come  *)
(* after it.                                                               *)
PeerConfirms ==
  /\ link # "over" /\ key # 0 /\ ~peerV
  /\ peerV' = TRUE
  /\ Says([t |-> "peer-verified"])
  /\ UNCHANGED <<role, present, link, attempt, who, greeted, key, localV, ended, losses,
                 jobs, toWorker, hook, exit, screen, lock>>

Loses == losses < MaxLosses /\ losses' = losses + 1
Undone == awaiting' = FALSE /\ UNCHANGED <<taken, work, overtaken>>

(* #handlePeerLeft; a send that waits for the handshake is rejected.       *)
PeerLeaves ==
  /\ link = "up" /\ present
  /\ Loses /\ Undone
  /\ present' = FALSE /\ greeted' = FALSE
  /\ Says([t |-> "peer-left"])
  /\ UNCHANGED <<role, link, attempt, who, key, localV, peerV, ended, toWorker, hook, exit,
                 screen, lock>>

(* #handlePeerEnded *)
PeerEnds ==
  /\ link = "up" /\ present /\ greeted /\ ~ended
  /\ ended' = TRUE
  /\ Says([t |-> "session-ended", reason |-> "peer-ended"])
  /\ UNCHANGED <<role, present, link, attempt, who, greeted, key, localV, peerV, losses,
                 jobs, toWorker, hook, exit, screen, lock>>

(* #reconnect: the page is told at once, and a Reconnector is started.     *)
ConnectionDies ==
  /\ link = "up"
  /\ Loses /\ Undone
  /\ link' = "down" /\ attempt' = 1
  /\ Says([t |-> "peer-left"])
  /\ UNCHANGED <<role, present, who, greeted, key, localV, peerV, ended, toWorker,
                 hook, exit, screen, lock>>

(* The attempt that was scheduled has been made. *)
Dialled(l, n) ==
  /\ link = "down"
  /\ link' = l /\ attempt' = n
  /\ UNCHANGED <<role, present, who, greeted, key, localV, peerV, ended, losses,
                 jobs, toWorker, hook, exit, screen, lock>>

(* #resumeAfterReconnect, to whoever is in the room *)
Reconnects == Dialled("up", 0) /\ Says([t |-> "peer-joined"])

(* No answer: another attempt, unless this was the last. *)
TriesAgain == attempt < MaxAttempts /\ Dialled("down", attempt + 1) /\ Quietly

GivesUp ==
  /\ Dialled("over", 0)
  /\ \/ Says([t |-> "session-ended", reason |-> "room-gone"])   \* refused as not-found
     \/ Says([t |-> "session-ended", reason |-> "gave-up"])     \* otherwise, or no answer

(* The peer that is here offers its file. *)
Offer(p) ==
  /\ link = "up" /\ verified /\ p = who /\ work[p] = "none"
  /\ work' = [work EXCEPT ![p] = "moving"]
  /\ Says([t |-> "row", of |-> p, is |-> "moving"])
  /\ UNCHANGED <<pair, awaiting, taken, overtaken, toWorker, hook, exit, screen, lock>>

(* A file is over: acknowledged, saved (in memory or elsewhere), cancelled *)
(* by either user, or failed, which no row is told of. Whatever else was   *)
(* announced in its direction goes by the same id.                         *)
Namesakes(f) == {g \in Files \ {f} : Direction(g) = Direction(f) /\ work[g] # "none"}

Over(f) ==
  /\ work[f] = "moving"
  /\ \/ \E w \in Ends \ (IF f = Mine THEN {"kept"} ELSE {}) :
          /\ work' = [work EXCEPT ![f] = w]
          /\ overtaken' = overtaken \cup Namesakes(f)
          /\ Says([t |-> "row", of |-> f, is |-> w])
     \/ /\ work' = [work EXCEPT ![f] = "failed"]
        /\ UNCHANGED overtaken
        /\ Quietly
  /\ UNCHANGED <<pair, awaiting, taken, toWorker, hook, exit, screen, lock>>

(* The Sender takes the files, if this peer may have them, and announces   *)
(* the row before it finds the connection gone (the error it then posts is *)
(* no news for the state of a page that is paired, or was).                *)
Gate == localV /\ peerV

Sends ==
  IF Gate
  THEN /\ taken' = taken + 1
       /\ work' = [work EXCEPT ![Mine] = IF link = "up" THEN "moving" ELSE "failed"]
       /\ Says([t |-> "row", of |-> Mine, is |-> "moving"])
  ELSE /\ UNCHANGED <<taken, work>>
       /\ Says([t |-> "error"])

Took(m) == /\ toWorker # <<>> /\ Head(toWorker) = m /\ toWorker' = Tail(toWorker)

HandleSend ==
  /\ Took("send")
  /\ IF greeted THEN Sends /\ UNCHANGED awaiting
     ELSE awaiting' = TRUE /\ UNCHANGED <<taken, work>> /\ Quietly
  /\ UNCHANGED <<pair, overtaken, hook, exit, screen, lock>>

(* #settlePendingHello *)
SendAfterHello ==
  /\ awaiting /\ greeted
  /\ awaiting' = FALSE
  /\ Sends
  /\ UNCHANGED <<pair, overtaken, toWorker, hook, exit, screen, lock>>

HandleConfirm ==
  /\ Took("confirm")
  /\ localV' = (localV \/ key # 0)
  /\ Quietly
  /\ UNCHANGED <<role, present, link, attempt, who, greeted, key, peerV, ended, losses,
                 jobs, hook, exit, screen, lock>>

(* Answered when the frame is out, and not before. *)
HandleEnd ==
  /\ Took("end")
  /\ Says([t |-> "end-session-sent"])
  /\ UNCHANGED <<pair, jobs, hook, exit, screen, lock>>
-----------------------------------------------------------------------------
(* The wake lock: requested while a file moves and the page is seen.       *)
(* Acquires(s): by an effect whose `sentinel` is s.                        *)
Acquires(seen, s, n) == IF seen /\ ~s THEN n + 1 ELSE n

(* The effect is cleaned up: what it holds is released, what it has asked  *)
(* for will be when it comes.                                              *)
ReleaseLock ==
  /\ sentinel' = FALSE /\ asking' = 0 /\ late' = late + asking
  /\ held' = IF sentinel /\ held > 0 THEN held - 1 ELSE held
  /\ refused' = FALSE
  /\ UNCHANGED <<visible, hides>>

LockFollows(m) ==
  CASE m /\ ~moving -> /\ asking' = Acquires(visible, FALSE, 0)
                       /\ sentinel' = FALSE /\ refused' = FALSE
                       /\ UNCHANGED <<visible, hides, late, held>>
    [] ~m /\ moving -> ReleaseLock
    [] OTHER -> UNCHANGED lock

Grant ==
  /\ visible
  /\ \/ /\ asking > 0
        /\ asking' = asking - 1
        /\ sentinel' = TRUE
        /\ held' = held + 1
        /\ UNCHANGED late
     \/ /\ late > 0
        /\ late' = late - 1
        /\ UNCHANGED <<asking, sentinel, held>>
  /\ UNCHANGED <<visible, hides, refused, pair, jobs, toPage, toWorker, hook, exit,
                 screen>>

(* By the browser, or because the document is hidden. *)
Refuse ==
  /\ \/ asking > 0 /\ asking' = asking - 1 /\ refused' = TRUE /\ UNCHANGED late
     \/ late > 0 /\ late' = late - 1 /\ UNCHANGED <<asking, refused>>
  /\ UNCHANGED <<visible, hides, sentinel, held, pair, jobs, toPage, toWorker, hook,
                 exit, screen>>

KeepsSentinel(s) == s
DropsSentinel(s) == FALSE

(* visibilitychange: the system has dropped every lock of a hidden page.   *)
Turn ==
  /\ panel
  /\ visible \/ hides > 0
  /\ visible => hides < MaxHides
  /\ visible' = ~visible
  /\ hides' = IF visible THEN hides + 1 ELSE hides
  /\ held' = IF visible THEN 0 ELSE held
  /\ sentinel' = IF moving THEN DropsSentinel(sentinel) ELSE sentinel
  /\ asking' = IF moving THEN Acquires(visible', sentinel', asking) ELSE asking
  /\ refused' = FALSE
  /\ UNCHANGED <<late, pair, jobs, toPage, toWorker, hook, exit, screen>>
-----------------------------------------------------------------------------
(* Leaving: the screen is unmounted and the worker terminated, with all    *)
(* that was on its way. Timers and promises of the page stay.              *)
LeaveTo ==
  /\ place' = "home"
  /\ yanked' = (yanked \/ place = "elsewhere")
  /\ link' = "new" /\ attempt' = 0 /\ greeted' = FALSE /\ key' = 0 /\ localV' = FALSE /\ peerV' = FALSE
  /\ ended' = FALSE /\ awaiting' = FALSE /\ taken' = 0 /\ posts' = 0 /\ losses' = 0
  /\ work' = [f \in Files |-> "none"] /\ overtaken' = {}
  /\ toPage' = <<>> /\ toWorker' = <<>>
  /\ state' = "connecting" /\ reason' = "none" /\ digits' = 0
  /\ byMe' = FALSE /\ byPeer' = FALSE
  /\ rows' = [f \in Files |-> {}]
  /\ dirty' = FALSE /\ panel' = FALSE /\ sentRef' = FALSE /\ moving' = FALSE
  /\ present' = FALSE /\ who' = 0 /\ pending' = "none"
  /\ IF moving THEN ReleaseLock ELSE UNCHANGED lock
  /\ UNCHANGED <<role, clicks>>

(* What the worker says. *)
(* What the end of a file writes over a row: file-complete says done and   *)
(* whether there is a blob, and nothing of a cancellation before it;       *)
(* file-cancelled says not done.                                           *)
Ended(row, w) ==
  CASE w = "done" -> (row \ {"blob"}) \cup {"done"}
    [] w = "kept" -> row \cup {"done", "blob"}
    [] w = "cancelled" -> (row \ {"done"}) \cup {"cancelled"}

IdOnly(f, w) == [g \in Files |-> IF rows[g] = {} THEN {} ELSE Ended(rows[g], w)]
(* updateFile: the rows of this direction and id.                          *)
UpdateFile(f, w) ==
  [g \in Files |-> IF rows[g] # {} /\ Direction(g) = Direction(f) THEN Ended(rows[g], w)
                   ELSE rows[g]]

RowsAfter(m) ==
  CASE m.t = "row" /\ m.is = "moving" -> [rows EXCEPT ![m.of] = {"listed"}]
    [] m.t = "row" /\ m.is # "moving" -> UpdateFile(m.of, m.is)
    [] OTHER -> rows

AfterSessionError == IF state \in {"ended", "gone", "paired"} THEN state ELSE "error"

NextState(m) ==
  CASE m.t = "ready" -> IF role = "create" THEN "waiting" ELSE "paired"
    [] m.t = "peer-joined" -> "paired"
    [] m.t = "peer-left" -> "ended"
    [] m.t = "session-ended" -> "gone"
    [] m.t = "error" -> AfterSessionError
    [] OTHER -> state

Hears(m) ==
  /\ toPage' = Tail(toPage)
  /\ dirty' = TRUE
  /\ state' = NextState(m)
  /\ reason' = IF m.t = "session-ended" THEN m.reason ELSE reason
  /\ digits' = IF m.t = "verification" THEN m.number ELSE digits
  /\ byMe' = (byMe /\ m.t # "verification")
  /\ byPeer' = ((byPeer /\ m.t # "verification") \/ m.t = "peer-verified")
  /\ rows' = RowsAfter(m)
  /\ UNCHANGED <<pair, jobs, toWorker, exit, panel, sentRef, moving, pending, posts, lock>>

Hear ==
  /\ toPage # <<>> /\ place = "session"
  /\ Head(toPage).t # "end-session-sent"
  /\ Hears(Head(toPage))

(* The promise of the last click is settled; its screen is left. A second  *)
(* answer finds nothing to settle.                                         *)
HearEndSent ==
  /\ toPage # <<>> /\ Head(toPage).t = "end-session-sent" /\ place = "session"
  /\ \/ /\ slot # 0
        /\ timers' = timers \ {slot} /\ slot' = 0
        /\ LeaveTo
     \/ /\ slot = 0
        /\ toPage' = Tail(toPage)
        /\ UNCHANGED <<pair, jobs, toWorker, hook, exit, screen, lock>>

(* END_SESSION_TIMEOUT_MS has passed. *)
TimesOut(c) ==
  /\ c \in timers
  /\ timers' = timers \ {c} /\ slot' = 0
  /\ LeaveTo
-----------------------------------------------------------------------------
(* React commits the state: which screen is mounted, and its effects.      *)
Shows == state = "paired"
InFlight == \E f \in Files : rows[f] # {} /\ rows[f] \cap {"done", "cancelled"} = {}
holdForUnsaved == \E p \in Peers : "blob" \in rows[p]
peerEnded == role = "join" /\ state = "gone" /\ reason = "peer-ended"

(* The panel's once-only ref: new with every panel. *)
Once == panel /\ sentRef
SendsNow == Shows /\ byMe /\ byPeer /\ pending = "held" /\ ~Once

StaysPending == UNCHANGED pending
PendingSent == pending' = "none"   \* CreateScreen's onPendingSent

(* SessionScreen leaves on its own when the peer has ended the session,    *)
(* unless a received file would go with the tab.                           *)
LeavesAlone ==
  /\ dirty /\ place = "session" /\ peerEnded /\ ~holdForUnsaved
  /\ LeaveTo
  /\ UNCHANGED <<slot, timers>>

Render ==
  /\ dirty /\ place = "session" /\ ~(peerEnded /\ ~holdForUnsaved)
  /\ dirty' = FALSE
  /\ panel' = Shows
  /\ sentRef' = (Shows /\ (Once \/ SendsNow))
  /\ moving' = (Shows /\ InFlight)
  /\ LockFollows(Shows /\ InFlight)
  /\ IF SendsNow
     THEN /\ toWorker' = Append(toWorker, "send")
          /\ posts' = posts + 1
          /\ PendingSent
     ELSE UNCHANGED <<toWorker, posts, pending>>
  /\ UNCHANGED <<pair, jobs, toPage, hook, exit>>

(* takeShare has read what was shared; a share that was missed is never    *)
(* read.                                                                   *)
TakeShare ==
  /\ place = "session" /\ pending = "reading"
  /\ pending' = "held"
  /\ dirty' = TRUE
  /\ UNCHANGED <<pair, jobs, toPage, toWorker, hook, exit, panel, sentRef, moving,
                 posts, lock>>
-----------------------------------------------------------------------------
(* The user. *)
(* VerifyPanel offers the button: there is a number, and it is not         *)
(* confirmed here.                                                         *)
CanConfirm == panel /\ digits # 0 /\ ~byMe

ConfirmVerification ==
  /\ CanConfirm
  /\ byMe' = TRUE /\ dirty' = TRUE
  /\ toWorker' = Append(toWorker, "confirm")
  /\ UNCHANGED <<pair, jobs, toPage, state, reason, digits, byPeer, rows, exit,
                 panel, sentRef, moving, pending, posts, lock>>

NoTimer(c) == UNCHANGED timers
StartsTimer(c) == timers' = timers \cup {c}

(* navigateTo: asked first if a file moves, and free to stay.              *)
EndSession ==
  /\ panel /\ clicks < MaxEnds
  /\ clicks' = clicks + 1
  /\ slot' = clicks + 1
  /\ StartsTimer(clicks + 1)
  /\ toWorker' = Append(toWorker, "end")
  /\ UNCHANGED <<pair, jobs, toPage, hook, place, yanked, screen, lock>>

(* From a screen that says the session is over, or is not open yet.        *)
Walk ==
  /\ place = "session" /\ ~panel /\ state # "connecting"
  /\ LeaveTo
  /\ UNCHANGED <<slot, timers>>

MoveOn ==
  /\ place = "home" /\ timers # {}
  /\ place' = "elsewhere"
  /\ UNCHANGED <<pair, jobs, toPage, toWorker, hook, slot, timers, clicks, yanked,
                 screen, lock>>
-----------------------------------------------------------------------------
Worker ==
  \/ Ready \/ NeverStarts \/ PeerJoins \/ Greets \/ PeerConfirms \/ PeerLeaves
  \/ PeerEnds \/ ConnectionDies \/ Reconnects \/ TriesAgain
  \/ GivesUp
  \/ (\E p \in Peers : Offer(p)) \/ \E f \in Files : Over(f)
  \/ HandleSend \/ SendAfterHello \/ HandleConfirm \/ HandleEnd

Next ==
  \/ Worker
  \/ Hear \/ HearEndSent \/ \E c \in Clicks : TimesOut(c)
  \/ LeavesAlone \/ Render \/ TakeShare
  \/ Grant \/ Refuse \/ Turn
  \/ ConfirmVerification \/ EndSession \/ Walk \/ MoveOn

Spec == Init /\ [][Next]_vars

(* A timer that is set fires. Nothing is assumed of the worker, of React,  *)
(* of the user, the peer or the browser's lock: any of them may stop.      *)
Fairness == \A c \in Clicks : WF_vars(TimesOut(c))
FairSpec == Spec /\ Fairness
=============================================================================
