------------------------------- MODULE Transfer -------------------------------
(***************************************************************************)
(* A batch of files from one device to the other: the sending half of one  *)
(* (client/transfer/sender.ts) and the receiving half of the other         *)
(* (client/transfer/receiver.ts), with what client/session.ts does about   *)
(* acknowledgements, cancels, dropped connections and resuming.            *)
(*                                                                         *)
(* The path between them runs through the relay. A device's own connection *)
(* may drop: what the relay had already passed on to it is lost, what it   *)
(* had not yet got out is lost, and while it is away the relay has nobody  *)
(* to hand frames to. Frames the other device has buffered in its socket   *)
(* arrive whenever they arrive, also after the dropped one is back.        *)
(*                                                                         *)
(* The devices may have moved to a direct connection. When that dies, what *)
(* was on it is lost, and so is what either device still hands to it before *)
(* it hears and falls back (client/transport/upgrade.ts); the loops go on. *)
(*                                                                         *)
(* Abstractions. A file is Size[f] chunks. Sequence numbers, nonces and    *)
(* the order of sealing are SendPath's subject: here a call on the Sender  *)
(* is the frame it emits, and a resync is one step of several frames. The  *)
(* devices are paired and verified at the start, under a key that lasts.   *)
(* Only one direction carries files; the other carries the control frames  *)
(* about them. Opening a sink never fails by itself (a write may), and no  *)
(* file exceeds the tier's ceiling. A connection that drops comes back:    *)
(* the budgets that end a session (RECONNECT_BUDGET_MS) are left out. A    *)
(* device drops only while the relay carries the transfer, and nothing     *)
(* sent over the relay overtakes what is left of the direct connection:    *)
(* both are Switch's subject.                                              *)
(*                                                                         *)
(* Definitions that differ from their neighbour by one mistake (AnyLength, *)
(* WrittenIsDone, ...) are faulty variants: no action uses them; they      *)
(* stand for the bug the properties below must be able to see.             *)
(***************************************************************************)
EXTENDS Integers, Sequences, SequencesExt

CONSTANTS
  N,             \* how many files the batch has
  Size,          \* chunks of each file, a sequence of length N
  Losing,        \* which connections may be lost: "sender", "receiver", "direct"
  Straggling,    \* the direct connection may die within BASELINE_STRAGGLER_MS
  MaxDrops,      \* bound: connections lost, of either device or between them
  MaxCancels,    \* bound: cancels by either user
  MaxSinkFails   \* bound: writes or closes the receiving disk refuses

Files == 1..N

ASSUME TransferAssumption ==
  /\ N \in Nat
  /\ Size \in [Files -> Nat]
  /\ Losing \subseteq {"sender", "receiver", "direct"} /\ Straggling \in BOOLEAN
  /\ MaxDrops \in Nat /\ MaxCancels \in Nat /\ MaxSinkFails \in Nat

VARIABLES
  (* the sending device *)
  sUp,        \* its connection to the relay
  paired,     \* Session.#remoteNoncePrefix is set: sends need not await a hello
  batch,      \* the sendFiles loop: "idle", "running", "over"
  at,         \* the loop's position: <<file, chunk>>
  resume,     \* resumeFile per file: the next chunk, or Idle (#resumingFiles)
  queued,     \* Session.#queuedFiles
  awaiting,   \* Sender.#awaitingAck
  cancelled,  \* Sender.#cancelled
  told,       \* what the sending UI was told of a file: "done", "cancelled"
  (* the receiving device *)
  rUp,        \* its connection to the relay
  entry,      \* Receiver.#incoming: "none", "open" or "failed"
  got,        \* Incoming.bytesReceived, in chunks
  completed,  \* Receiver.#completed
  rcancelled, \* Receiver.#cancelled
  (* the path *)
  way,        \* what carries it: "either", the relay or, since they moved to
              \* it, the direct connection; "cut", once that died unheard;
              \* "sFell" or "rFell", when one has fallen back; "relay"
  fwd,        \* frames to the receiving device
  bwd,        \* frames and relay signals to the sending device
  (* history and bounds *)
  intact,     \* every chunk written so far was written at its own offset
  tagFailed,  \* files failed by the integrity check
  given,      \* files the receiving device failed or cancelled
  userStopped,\* files the sending user cancelled
  restarted,  \* files sent again from a resume after their user cancelled them
  drops, cancels, sinkFails

sVars == <<paired, batch, at, resume, queued, awaiting, cancelled, told>>
rVars == <<entry, got, completed, rcancelled, intact, tagFailed, given>>
hVars == <<userStopped, restarted>>
bounds == <<drops, cancels, sinkFails>>
vars == <<sUp, rUp, way, sVars, rVars, fwd, bwd, hVars, bounds>>

Idle == -1

Offer == [t |-> "offer"]
DataFrame(f, n) == [t |-> "data", f |-> f, n |-> n]
FileEnd(f) == [t |-> "end", f |-> f]
Cancel(f) == [t |-> "cancel", f |-> f]
Ack(f) == [t |-> "ack", f |-> f]
ResumeFrom(f, n) == [t |-> "resume", f |-> f, n |-> n]
Hello == [t |-> "hello"]
PeerLeft == [t |-> "left"]
PeerJoined == [t |-> "joined"]

Init ==
  /\ sUp = TRUE /\ rUp = TRUE /\ paired = TRUE
  /\ way = "either"
  /\ batch = "idle" /\ at = <<1, 0>>
  /\ resume = [f \in Files |-> Idle]
  /\ queued = {} /\ awaiting = {} /\ cancelled = {}
  /\ told = [f \in Files |-> {}]
  /\ entry = [f \in Files |-> "none"]
  /\ got = [f \in Files |-> 0]
  /\ completed = {} /\ rcancelled = {}
  /\ fwd = <<>> /\ bwd = <<>>
  /\ intact = [f \in Files |-> TRUE]
  /\ tagFailed = {} /\ given = {} /\ userStopped = {} /\ restarted = {}
  /\ drops = 0 /\ cancels = 0 /\ sinkFails = 0

-----------------------------------------------------------------------------
(* The sending device.                                                     *)

(* Frames handed to a direct connection that died are lost.                *)
ToPeer(frames) ==
  fwd' = IF way \in {"cut", "rFell"} THEN fwd ELSE fwd \o frames

(* Session.sendFiles: the ids are minted and the Files queued, then the    *)
(* offer goes out; on a Sender that was aborted it does not, and the call  *)
(* throws.                                                                 *)
SendFiles ==
  /\ batch = "idle" /\ paired
  /\ queued' = Files
  /\ IF sUp THEN batch' = "running" /\ ToPeer(<<Offer>>)
            ELSE batch' = "over" /\ UNCHANGED fwd
  /\ UNCHANGED <<sUp, rUp, way, paired, at, resume, awaiting, cancelled, told,
                 rVars, bwd, hVars, bounds>>

(* onFileCancelled, when a loop finds its file cancelled.                  *)
Stopped(f) ==
  /\ told' = [told EXCEPT ![f] = @ \cup {"cancelled"}]
  /\ queued' = queued \ {f}
  /\ UNCHANGED <<fwd, awaiting>>

(* One more chunk; the cancel is looked at before and after it is sealed.  *)
Chunk(f, n) ==
  /\ ToPeer(<<DataFrame(f, n)>>)
  /\ UNCHANGED <<told, queued, awaiting>>

(* The file is written: file-end, and #awaitAck.                           *)
WrittenIsDone(f) ==
  /\ ToPeer(<<FileEnd(f)>>)
  /\ told' = [told EXCEPT ![f] = @ \cup {"done"}]
  /\ queued' = queued \ {f}
  /\ UNCHANGED awaiting

Written(f) ==
  /\ ToPeer(<<FileEnd(f)>>)
  /\ awaiting' = awaiting \cup {f}
  /\ UNCHANGED <<told, queued>>

(* sendFiles' loop. The batch is sequential; an aborted Sender ends it.    *)
BatchStep ==
  LET f == at[1]
      n == at[2]
      nextFile == IF f < N THEN at' = <<f + 1, 0>> /\ batch' = batch
                           ELSE at' = <<1, 0>> /\ batch' = "over"
  IN  /\ batch = "running" /\ N > 0
      /\ \/ f \in cancelled /\ Stopped(f) /\ nextFile
         \/ /\ f \notin cancelled /\ n < Size[f]
            /\ Chunk(f, n)
            /\ at' = <<f, n + 1>> /\ batch' = batch
         \/ f \notin cancelled /\ n = Size[f] /\ Written(f) /\ nextFile
      /\ UNCHANGED <<sUp, rUp, way, paired, resume, cancelled, rVars, bwd, hVars, bounds>>

(* resumeFile, one per file at a time.                                     *)
ResumeStep(f) ==
  /\ resume[f] # Idle
  /\ \/ f \in cancelled /\ Stopped(f) /\ resume' = [resume EXCEPT ![f] = Idle]
     \/ /\ f \notin cancelled /\ resume[f] < Size[f]
        /\ Chunk(f, resume[f])
        /\ resume' = [resume EXCEPT ![f] = @ + 1]
     \/ /\ f \notin cancelled /\ resume[f] = Size[f]
        /\ Written(f)
        /\ resume' = [resume EXCEPT ![f] = Idle]
  /\ UNCHANGED <<sUp, rUp, way, paired, batch, at, cancelled, rVars, bwd, hVars, bounds>>

(* Session.cancelFiles('send'): the Sender, then the frame, best effort.   *)
CancelSending(f) ==
  /\ batch # "idle" /\ told[f] = {}
  /\ cancels < MaxCancels /\ cancels' = cancels + 1
  /\ cancelled' = cancelled \cup {f}
  /\ userStopped' = userStopped \cup {f}
  /\ IF sUp THEN ToPeer(<<Cancel(f)>>) ELSE UNCHANGED fwd
  /\ UNCHANGED <<sUp, rUp, way, paired, batch, at, resume, queued, awaiting, told,
                 rVars, bwd, restarted, drops, sinkFails>>

(* Sender.abort: every loop of it throws. The Sender built next is given   *)
(* the files still awaiting an acknowledgement.                            *)
Abort ==
  /\ batch' = IF batch = "running" THEN "over" ELSE batch
  /\ at' = <<1, 0>>
  /\ resume' = [f \in Files |-> Idle]

RebuildForgetsAcks == cancelled' = {} /\ awaiting' = {}
Rebuild == cancelled' = {} /\ UNCHANGED awaiting

-----------------------------------------------------------------------------
(* The receiving device.                                                   *)

FromPeer(t) == rUp /\ fwd # <<>> /\ Head(fwd).t = t

(* Frames go nowhere while the connection is down: the Sender was aborted. *)
Reply(frames) ==
  bwd' = IF rUp /\ way \notin {"cut", "sFell"} THEN bwd \o frames ELSE bwd

ROffer ==
  /\ FromPeer("offer")
  /\ fwd' = Tail(fwd)
  /\ entry' = [f \in Files |-> "open"]
  /\ got' = [f \in Files |-> 0]
  /\ UNCHANGED <<sUp, rUp, way, sVars, completed, rcancelled, intact, tagFailed, given,
                 bwd, hVars, bounds>>

(* #failFile.                                                              *)
Fail(f) ==
  /\ entry' = [entry EXCEPT ![f] = "failed"]
  /\ given' = given \cup {f}

(* A chunk opens only against the offset it was sealed for.                *)
Opens(f, n) == n = got[f]

(* #handle, a data frame: for an open entry, integrity check, then write.  *)
RData ==
  /\ FromPeer("data")
  /\ fwd' = Tail(fwd)
  /\ LET f == Head(fwd).f
         n == Head(fwd).n
     IN  \/ /\ entry[f] # "open"
            /\ UNCHANGED <<rVars, sinkFails>>
         \/ /\ entry[f] = "open" /\ ~Opens(f, n)
            /\ Fail(f)
            /\ tagFailed' = tagFailed \cup {f}
            /\ UNCHANGED <<got, completed, rcancelled, intact, sinkFails>>
         \/ /\ entry[f] = "open" /\ Opens(f, n)
            /\ got' = [got EXCEPT ![f] = @ + 1]
            /\ intact' = [intact EXCEPT ![f] = @ /\ n = got[f]]
            /\ UNCHANGED <<entry, completed, rcancelled, tagFailed, given, sinkFails>>
         \/ /\ entry[f] = "open" /\ Opens(f, n)
            /\ sinkFails < MaxSinkFails /\ sinkFails' = sinkFails + 1
            /\ Fail(f)
            /\ UNCHANGED <<got, completed, rcancelled, intact, tagFailed>>
  /\ UNCHANGED <<sUp, rUp, way, sVars, bwd, hVars, drops, cancels>>

(* file-end: complete only at the offered length; the sink may still       *)
(* refuse to close. A complete file is acknowledged.                       *)
AnyLength(f) == TRUE
Whole(f) == got[f] = Size[f]

REnd ==
  /\ FromPeer("end")
  /\ fwd' = Tail(fwd)
  /\ LET f == Head(fwd).f
     IN  /\ entry' = [entry EXCEPT ![f] = "none"]
         /\ \/ /\ entry[f] # "open"
               /\ UNCHANGED <<completed, given, bwd, sinkFails>>
            \/ /\ entry[f] = "open" /\ ~Whole(f)
               /\ given' = given \cup {f}
               /\ UNCHANGED <<completed, bwd, sinkFails>>
            \/ /\ entry[f] = "open" /\ Whole(f)
               /\ completed' = completed \cup {f}
               /\ Reply(<<Ack(f)>>)
               /\ UNCHANGED <<given, sinkFails>>
            \/ /\ entry[f] = "open" /\ Whole(f)
               /\ sinkFails < MaxSinkFails /\ sinkFails' = sinkFails + 1
               /\ given' = given \cup {f}
               /\ UNCHANGED <<completed, bwd>>
  /\ UNCHANGED <<sUp, rUp, way, sVars, got, rcancelled, intact, tagFailed, hVars, drops, cancels>>

(* cancelIncoming.                                                         *)
CancelIncoming(f) ==
  /\ rcancelled' = rcancelled \cup {f}
  /\ entry' = [entry EXCEPT ![f] = "none"]
  /\ given' = IF entry[f] = "none" THEN given ELSE given \cup {f}

(* `cancel`, side 'mine': the peer stopped sending it.                     *)
RCancel ==
  /\ FromPeer("cancel")
  /\ fwd' = Tail(fwd)
  /\ CancelIncoming(Head(fwd).f)
  /\ UNCHANGED <<sUp, rUp, way, sVars, got, completed, intact, tagFailed, bwd, hVars, bounds>>

(* Session.cancelFiles('receive').                                         *)
CancelReceiving(f) ==
  /\ entry[f] = "open"
  /\ cancels < MaxCancels /\ cancels' = cancels + 1
  /\ CancelIncoming(f)
  /\ Reply(<<Cancel(f)>>)
  /\ UNCHANGED <<sUp, rUp, way, sVars, got, completed, intact, tagFailed, fwd, hVars,
                 drops, sinkFails>>

(* #resyncReceiveState: a resume point for every open entry, then the      *)
(* acknowledgement of every complete file again.                           *)
ResyncPoints == SetToSeq({ResumeFrom(f, got[f]) : f \in {g \in Files : entry[g] = "open"}})
ResyncAcks == SetToSeq({Ack(f) : f \in completed})
Resync == ResyncPoints \o ResyncAcks

(* A hello of the same peer: resync.                                       *)
RHello ==
  /\ FromPeer("hello")
  /\ fwd' = Tail(fwd)
  /\ Reply(Resync)
  /\ UNCHANGED <<sUp, rUp, way, sVars, rVars, hVars, bounds>>

(* peer-joined: a hello.                                                   *)
RPeerJoined ==
  /\ FromPeer("joined")
  /\ fwd' = Tail(fwd)
  /\ Reply(<<Hello>>)
  /\ UNCHANGED <<sUp, rUp, way, sVars, rVars, hVars, bounds>>

-----------------------------------------------------------------------------
(* The sending device hears back.                                          *)

(* A frame by the relay shows that the other device has fallen back, and   *)
(* this one falls back with it, before it answers; unless it moved to the  *)
(* direct connection so lately that the frame may be a straggler.          *)
Hears(t) ==
  /\ sUp /\ bwd # <<>> /\ Head(bwd).t = t
  /\ way = "rFell" => Straggling

(* #handleFileAck, confirmDelivered: onFileDone.                           *)
Expected(f) == f \in awaiting

SAck ==
  /\ Hears("ack")
  /\ bwd' = Tail(bwd)
  /\ LET f == Head(bwd).f
     IN  IF Expected(f)
           THEN /\ awaiting' = awaiting \ {f}
                /\ queued' = queued \ {f}
                /\ told' = [told EXCEPT ![f] = @ \cup {"done"}]
           ELSE UNCHANGED <<awaiting, queued, told>>
  /\ UNCHANGED <<sUp, rUp, way, paired, batch, at, resume, cancelled, rVars, fwd, hVars, bounds>>

(* #handleResumeFrom: only a queued file that is not being resumed. The    *)
(* start of resumeFile runs at once: a cancelled file is reported, and one *)
(* with nothing left to send is ended without looking at cancels again.    *)
Restart(f) ==
  restarted' = IF f \in userStopped THEN restarted \cup {f} ELSE restarted

SResume ==
  /\ Hears("resume")
  /\ bwd' = Tail(bwd)
  /\ LET f == Head(bwd).f
         n == Head(bwd).n
         resumable == f \in queued /\ resume[f] = Idle
     IN  \/ /\ ~resumable
            /\ UNCHANGED <<resume, queued, awaiting, told, fwd, restarted>>
         \/ /\ resumable /\ f \in cancelled
            /\ Stopped(f)
            /\ UNCHANGED <<resume, restarted>>
         \/ /\ resumable /\ f \notin cancelled /\ n = Size[f]
            /\ Written(f) /\ Restart(f)
            /\ UNCHANGED resume
         \/ /\ resumable /\ f \notin cancelled /\ n < Size[f]
            /\ resume' = [resume EXCEPT ![f] = n]
            /\ Restart(f)
            /\ UNCHANGED <<queued, awaiting, told, fwd>>
  /\ UNCHANGED <<sUp, rUp, way, paired, batch, at, cancelled, rVars, userStopped, bounds>>

(* #handleCancel, side 'yours': only a queued file.                        *)
SCancel ==
  /\ Hears("cancel")
  /\ bwd' = Tail(bwd)
  /\ cancelled' = cancelled \cup ({Head(bwd).f} \cap queued)
  /\ UNCHANGED <<sUp, rUp, way, paired, batch, at, resume, queued, awaiting, told,
                 rVars, fwd, hVars, bounds>>

(* #handlePeerLeft and #unpair.                                            *)
SPeerLeft ==
  /\ Hears("left")
  /\ bwd' = Tail(bwd)
  /\ paired' = FALSE
  /\ Abort /\ Rebuild
  /\ UNCHANGED <<sUp, rUp, way, queued, told, rVars, fwd, hVars, bounds>>

(* #handlePeerJoined: a hello.                                             *)
SPeerJoined ==
  /\ Hears("joined")
  /\ bwd' = Tail(bwd)
  /\ ToPeer(<<Hello>>)
  /\ UNCHANGED <<sUp, rUp, way, sVars, rVars, hVars, bounds>>

(* #route: the peer's hello releases sends that wait for one.              *)
SHello ==
  /\ Hears("hello")
  /\ bwd' = Tail(bwd)
  /\ paired' = TRUE
  /\ UNCHANGED <<sUp, rUp, way, batch, at, resume, queued, awaiting, cancelled, told,
                 rVars, fwd, hVars, bounds>>

-----------------------------------------------------------------------------
(* Connections.                                                            *)

(* The receiving device drops. Frames on their way to it from the relay    *)
(* are lost, and so are its own that had not reached the relay, which says *)
(* peer-left once it notices. The relay keeps a room only while somebody   *)
(* is in it, so the other device must be there.                            *)
RDrop ==
  /\ rUp /\ sUp /\ way \in {"either", "relay"}
  /\ "receiver" \in Losing /\ drops < MaxDrops /\ drops' = drops + 1
  /\ rUp' = FALSE
  /\ fwd' \in Suffixes(fwd)
  /\ \E kept \in Prefixes(bwd) : bwd' = kept \o <<PeerLeft>>
  /\ UNCHANGED <<sUp, way, sVars, rVars, hVars, cancels, sinkFails>>

(* It is back: #resumeAfterReconnect sends a hello and resyncs.            *)
RReconnect ==
  /\ ~rUp
  /\ rUp' = TRUE
  /\ bwd' = bwd \o <<PeerJoined, Hello>> \o Resync
  /\ UNCHANGED <<sUp, way, sVars, rVars, fwd, hVars, bounds>>

(* The relay has nobody to hand a frame to.                                *)
RelayDropsForward ==
  /\ ~rUp /\ fwd # <<>>
  /\ fwd' = Tail(fwd)
  /\ UNCHANGED <<sUp, rUp, way, sVars, rVars, bwd, hVars, bounds>>

(* The sending device drops: its Sender is aborted at once. The peer-left  *)
(* the other one is told changes nothing here: its Receiver is kept.       *)
SDrop ==
  /\ rUp /\ sUp /\ way \in {"either", "relay"}
  /\ "sender" \in Losing /\ drops < MaxDrops /\ drops' = drops + 1
  /\ sUp' = FALSE
  /\ fwd' \in Prefixes(fwd)
  /\ bwd' \in Suffixes(bwd)
  /\ Abort
  /\ UNCHANGED <<rUp, way, paired, queued, awaiting, cancelled, told, rVars, hVars, cancels, sinkFails>>

(* It is back: #buildSender, and a hello; the relay says peer-joined.      *)
SReconnect ==
  /\ ~sUp
  /\ sUp' = TRUE
  /\ Rebuild
  /\ fwd' = fwd \o <<PeerJoined, Hello>>
  /\ UNCHANGED <<rUp, way, paired, batch, at, resume, queued, told, rVars, bwd, hVars, bounds>>

RelayDropsBackward ==
  /\ ~sUp /\ bwd # <<>>
  /\ bwd' = Tail(bwd)
  /\ UNCHANGED <<sUp, rUp, way, sVars, rVars, fwd, hVars, bounds>>

(* The direct connection dies: what was on it is lost. They can only have  *)
(* moved to it as a pair, the signals of the relay all heard.              *)
Signals == {"left", "joined", "hello"}
Quiet == \A s \in {fwd, bwd} : \A i \in DOMAIN s : s[i].t \notin Signals

Cut ==
  /\ way = "either" /\ sUp /\ rUp /\ paired /\ Quiet
  /\ "direct" \in Losing /\ drops < MaxDrops /\ drops' = drops + 1
  /\ way' = "cut"
  /\ fwd' \in Prefixes(fwd) /\ bwd' \in Prefixes(bwd)
  /\ UNCHANGED <<sUp, rUp, sVars, rVars, hVars, cancels, sinkFails>>

(* What the dead connection delivered is handled first: resumePoints is    *)
(* queued behind the chain of frames, and nothing else depends on when.    *)
Handled == way = "cut" => fwd = <<>>

(* A device hears, and falls back to the relay. Its Sender and the loops   *)
(* are left alone.                                                         *)
SFallsBack ==
  /\ way \in {"cut", "rFell"} /\ Handled
  /\ way' = IF way = "cut" THEN "sFell" ELSE "relay"
  /\ UNCHANGED <<sUp, rUp, sVars, rVars, fwd, bwd, hVars, bounds>>

(* onKindChange: the receiving one also resyncs, "a reconnect without a    *)
(* hello".                                                                 *)
FallsSilently == UNCHANGED bwd
Resyncs == bwd' = bwd \o Resync

RFallsBack ==
  /\ way \in {"cut", "sFell"} /\ Handled
  /\ way' = IF way = "cut" THEN "rFell" ELSE "relay"
  /\ Resyncs
  /\ UNCHANGED <<sUp, rUp, sVars, rVars, fwd, hVars, bounds>>

-----------------------------------------------------------------------------
SHears == SAck \/ SResume \/ SCancel \/ SPeerLeft \/ SPeerJoined \/ SHello
RHears == ROffer \/ RData \/ REnd \/ RCancel \/ RHello \/ RPeerJoined
Relay == RelayDropsForward \/ RelayDropsBackward

Next ==
  \/ SendFiles \/ BatchStep
  \/ \E f \in Files : ResumeStep(f) \/ CancelSending(f) \/ CancelReceiving(f)
  \/ SAck \/ SResume \/ SCancel \/ SPeerLeft \/ SPeerJoined \/ SHello
  \/ ROffer \/ RData \/ REnd \/ RCancel \/ RHello \/ RPeerJoined
  \/ RDrop \/ RReconnect \/ RelayDropsForward
  \/ SDrop \/ SReconnect \/ RelayDropsBackward
  \/ Cut \/ SFallsBack \/ RFallsBack

Spec == Init /\ [][Next]_vars

(* Frames that are sent arrive or are dropped, loops make progress, a      *)
(* device that lost its connection gets it back, and each end of a direct  *)
(* connection that died hears of it.                                       *)
Fairness ==
  /\ WF_vars(BatchStep) /\ \A f \in Files : WF_vars(ResumeStep(f))
  /\ WF_vars(SHears) /\ WF_vars(RHears) /\ WF_vars(Relay)
  /\ WF_vars(RReconnect) /\ WF_vars(SReconnect)
  /\ WF_vars(SFallsBack) /\ WF_vars(RFallsBack)

FairSpec == Spec /\ Fairness

-----------------------------------------------------------------------------
FrameTypes == {"offer", "data", "end", "cancel", "ack", "resume", "hello", "left", "joined"}

Ways == {"either", "cut", "sFell", "rFell", "relay"}

TypeOK ==
  /\ way \in Ways
  /\ sUp \in BOOLEAN /\ rUp \in BOOLEAN /\ paired \in BOOLEAN
  /\ batch \in {"idle", "running", "over"}
  /\ at \in Nat \X Nat
  /\ resume \in [Files -> Nat \cup {Idle}]
  /\ queued \subseteq Files /\ awaiting \subseteq Files /\ cancelled \subseteq Files
  /\ told \in [Files -> SUBSET {"done", "cancelled"}]
  /\ entry \in [Files -> {"none", "open", "failed"}]
  /\ got \in [Files -> Nat] /\ \A f \in Files : got[f] <= Size[f]
  /\ completed \subseteq Files /\ rcancelled \subseteq Files
  /\ \A i \in DOMAIN fwd : fwd[i].t \in FrameTypes
  /\ \A i \in DOMAIN bwd : bwd[i].t \in FrameTypes
  /\ intact \in [Files -> BOOLEAN]
  /\ tagFailed \subseteq Files /\ given \subseteq Files
  /\ userStopped \subseteq Files /\ restarted \subseteq Files

(* A file that completes is the file that was sent: every chunk once, at   *)
(* its own offset, whatever was lost, resent or resumed on the way.        *)
SavedIntact == \A f \in completed : intact[f] /\ got[f] = Size[f]

(* Transfer implements FileDelivery: whatever is lost, resent or cancelled, *)
(* a file is saved at most once and never after it was given up, and the   *)
(* sending row reads done only over a file the receiving device has whole. *)
Delivery == INSTANCE FileDelivery WITH
  offered <- queued \cup completed \cup given \cup {f \in Files : told[f] # {}},
  saved <- completed,
  given <- given,
  reported <- {f \in Files : "done" \in told[f]}
Delivers == Delivery!Spec

(* The acknowledgement gets through: a file the receiving device has whole *)
(* is eventually reported done on the sending one, however many times the  *)
(* connection that carried the acknowledgement was lost, and although the  *)
(* Sender that waited for it may have been replaced.                       *)
DeliveryReported == \A f \in Files : f \in completed ~> "done" \in told[f]

(* Nothing hangs: a file the receiving device has begun is eventually      *)
(* complete there, reported failed or cancelled, or stopped by its sending *)
(* user.                                                                   *)
OpenFilesSettle ==
    \A f \in Files : entry[f] = "open" ~> f \in completed \cup given \cup userStopped

(* An interrupted transfer survives: no file of an honest peer fails its   *)
(* integrity check because a connection dropped and came back.             *)
DropsCostNothing == tagFailed = {}

(* A cancel is final: no file is sent again after its user stopped it.     *)
CancelIsFinal == restarted = {}

(* Session.#queuedFiles lets go of every file once its transfer is over.   *)
QueueDrains == \A f \in Files : f \in queued ~> f \notin queued
===============================================================================
