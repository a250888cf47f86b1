# Quik Share in TLA+

Two browsers open the same six-letter room and send each other files, end to end encrypted.
A small relay server seats them and forwards their frames; when it can, the pair moves to a
direct WebRTC connection. Connections drop in the middle of everything, and the program is
written so that a transfer survives it. That is where its difficult code is, and what this
directory models, model-checks with TLC and, for every size of the system, proves with TLAPS.

1. [The system](#1-the-system)
2. [The modules](#2-the-modules)
3. [What the runs check](#3-what-the-runs-check)
4. [What is proved](#4-what-is-proved)
5. [Where the code and its comments disagree](#5-where-the-code-and-its-comments-disagree)
6. [Abstractions](#6-abstractions)
7. [Not modelled](#7-not-modelled)

`PROJECT.json` lists the components, the source lines each definition stands for, the runs, the
hazards and which property watches each of them.

## 1. The system

### Components

| Component | Source | State it keeps | Operations |
|---|---|---|---|
| Relay | `server/rooms.ts`, `server/index.ts` | rooms: two seats and a last-activity time; per socket a closure over code and seat | create, join, forward, close event, idle sweep |
| Rate limiter | `server/rate-limit.ts` | token buckets per address | take, sweep |
| Session: handshake | `client/session.ts`, `client/crypto.ts` | key pair, peer's nonce prefix, derived key, derivation counter, both halves of the verification, waiting sends | hello in and out, derive, unpair, reconnect, confirm |
| Session: sending side | `client/session.ts` | the current Sender and switchable, queued files, the upgrade attempt, files being resumed | send, cancel, rebuild the Sender, start an upgrade, answer acknowledgements and resume points |
| Sender | `client/transfer/sender.ts` | next sequence number, control chain, aborted flag, cancelled files, files awaiting an acknowledgement | send a batch, resume a file, cancel, abort |
| Receiver | `client/transfer/receiver.ts` | an entry and a sink per incoming file, completed and cancelled files, one chain of frames, highest control number | handle a frame, cancel, say what to resume from |
| Transport switch | `client/transport/upgrade.ts` | the live transport, the drain of the replaced one, a gate with a barrier and an in-flight count | send, swap, fall back, negotiate |
| Transports | `client/transport/{relay,webrtc,reconnect}.ts` | a socket or a data channel; backoff state | send, buffered amount, close, reconnect |
| Transfer worker | `client/worker/*` | for each connection: frames not confirmed, last report, who waits; for each file: a sink and the requests about it | open, send, report, close, build, write, abort |
| Saving | `client/save/*`, `client/sw.ts` | one sink per file; a registry of download tokens in the service worker | register, fetch, install, activate, write, close, abort |
| Share inbox | `client/share/inbox.ts` | files shared from another app, in a cache | stash, take |
| Live media | `client/media/*` | one slot for a call, a generation counter | start, answer, stop, signals |
| Page | `client/hooks`, `client/screens`, `client/ui`, `client/routing.ts` | a mirror of session events, behind the session; what was shared; the wake lock; the timer of a click on End session | hear a message, render, send what was shared, confirm, end, leave |

### How they interact

A page creates or joins a room through a WebSocket; the relay tells each occupant when the other
comes (`peer-joined`) or goes (`peer-left`) and forwards binary frames without looking at them.
On `peer-joined` a session sends a hello with its public key and nonce prefix. A hello from the
other side makes it derive a key and then build a Sender (which seals frames with that key, its
own prefix and a sequence number) and a Receiver (which opens the peer's). The users compare a
number derived from the two public keys and each confirms it; until both have, files are not
offered. A batch goes out as an offer, the data frames of each file and a `file-end`; the Receiver
writes the chunks to a sink and acknowledges each whole file. One of the two devices also offers
a WebRTC upgrade; when it opens, the switchable transport swaps between two frames.

When the peer goes, the session aborts its Sender, builds another under the same key from the
same counter and keeps the Receiver, with the partial files in it, for the time a reconnect may
take. When its own connection goes, a Reconnector rejoins the room. Each side, on being rejoined,
says hello again and asks for the rest of what it has in part (`resume-from`), and repeats its
acknowledgements.

### What is hard about it

Nothing here runs in parallel except the two devices and the relay, but every `await` lets other
handlers in: sealing a frame, deriving a key, writing to a sink, waiting for the user to choose a
file, draining a socket. What is checked before such a wait may be different after it. The
connections lose what is in them, and the two ends learn of a loss at different times.

What makes each part correct:

* **Relay** - its two views of a seating, the registry and the handler closures, agree; presence
  signals are true; frames stay in their room; rooms neither leak nor vanish under somebody.
* **Sending a frame** - no key and number are used twice; control frames leave in the order of
  their numbers; a swap never falls into a frame or installs a stale connection; nothing wedges.
* **Transfer** - what is saved is what was sent, once; "done" is only said of a saved file, and is
  said in the end; an interrupted file completes or fails; a cancel stays a cancel.
* **Handshake** - whenever a session would send, the whole of its machinery belongs to the peer
  that is there; two devices that stay together become a pair; a confirmation is about the number
  the user saw and reaches the other side.
* **Switching** - each end moves to the direct connection and back on its own: neither may go on
  sending where nobody listens, and a sender that waits for a drain is woken whatever replaces what
  it waits on.
* **The worker boundary** - what one realm believes of the other is right up to the messages on
  their way; nothing is left open that nobody will close.
* **Downloads and shares** - two parties that never meet agree through a registry or a cache,
  whichever comes first and whoever is ended in between.
* **Live media** - the camera's light is on only for a share that is negotiated or held, but for one
  flip the code overlooks (section 5); two devices end up with the same share.
* **The page** - once it has heard everything, what it shows of a file is true unless another file of
  the same direction and id has ended meanwhile (section 5); what it does once, it does once; the user
  can always leave.

## 2. The modules

| Module | Models | Composition |
|---|---|---|
| `Relay` | the relay server | |
| `SendPath` | Sender numbering and chain, gate, upgrade attempts, and the session steps that replace any of them | |
| `Transfer` | the sending half of one device and the receiving half of the other, with the session's handling of acknowledgements, cancels, lost connections, downgrades and resuming, and the path between them | instantiates `FileDelivery` |
| `FileDelivery` | what a transfer promises, with no connection in it | the abstract specification of `Transfer` |
| `Session` | the handshake and verification of every device that comes to a room, and the two seats of the relay | |
| `Switch` | both devices' switchable transports, the relay and the direct connection between them | |
| `Worker` | connections and sinks on both sides of the worker boundary | |
| `Downloads` | downloads through the service worker | |
| `ShareInbox` | shares stashed by the service worker and taken by a page | |
| `Live` | the live-media slots of both devices and the connections between them | |
| `Page` | the page, the messages between it and its worker, and what of a session it hears of | |
| `MC...` | the instances TLC checks; `MCPage` also holds the properties of `Page`; `Worker` and `Downloads` take their instance from the `.cfg` alone | extend their module |
| `SendPathProofs`, `TransferProofs`, `SessionProofs`, `WorkerProofs`, `LiveProofs`, `PageProofs` | the theorems about each | extend their module and TLAPS |
| `ChannelProofs` | the theorems about `Relay` and `Switch`: the two ways a frame can go | extends both and TLAPS |
| `ServiceWorkerProofs` | the theorems about `Downloads` and `ShareInbox`: the two jobs of `sw.ts` | extends both and TLAPS |

Each module keeps the part of its neighbours its own questions need and no more. `SendPath` knows
the frames of a Sender one by one but not what is in them; `Transfer` knows what is in them but
takes a call on the Sender as the frame it emits, which the theorems about `SendPath` justify:
frames that leave are in order and no two can be mistaken for each other. `Transfer` starts from
two paired devices, which is what `Session` establishes. `Session` uses the two seats `Relay` is
proved to keep. `SendPath` sees a swap from the frames that must not fall into it, `Switch` sees it
from the two ends that must not part ways; `Worker` sees the upgraded transport of one end through
the boundary that splits it. `Page` takes a session as the messages it posts.

Code between two awaits is one action, with every call it makes. Where a function awaits, it is
split there, and the state it reads afterwards is read in the later action. So `SendPath` has
`IssueControl`, `Enter` and `Send`/`Discard` for the three parts of `#sendControl`, and `Session`
has `HearHello` and `Establish` for what `#route` does with a hello before and after the key is
derived. The definitions next to an action that no action uses are faulty variants of it: each
stands for a plausible mistake that one of the properties must catch, and `PROJECT.json` lists
which.

### Relay

A socket is `open`, `closing` or `closed`; `code` and `peerId` are the handler's two local
variables, `seat` the registry. `Create`, `Join`, `Forward` and `Closed` are the branches of the
message handler and the close event; a closing socket still has messages delivered and its close
event comes later, which is how a sweep, or a close by the client, and a join with the same code
cross. `Tick` is the clock, in sweep intervals. Requests the relay refuses change nothing.

### SendPath

A *call* is one frame being sent. `gen` counts the Senders the session has built; each keeps its
own `next`, `aborted`, `chain` and the switchable it writes to, because loops of an old Sender go
on after it is replaced. `PeerLeft`, `Rekey`, `OwnDrop` and `OwnReconnect` are the four ways the
session replaces it. An *attempt* is one `negotiateUpgrade`; `barrier` and `InFlight` are the gate.
`sent` means handed to a connection that works; a frame written to a switchable that has been
replaced, or while the own connection is down, is `lost`.

### Transfer and FileDelivery

`fwd` and `bwd` are the path: all that is buffered at the sender, in the relay and at the
receiver, with the relay's `peer-joined` and `peer-left` in their place among the frames. A drop
of a device loses a part of it: what had reached it (a prefix) and what it had not got out (a
suffix); what the other end still holds arrives whenever it arrives. `batch`/`at` is the
`sendFiles` loop, `resume` one `resumeFile` loop per file, which may overlap the first.
A direct connection that dies (`Cut`) loses the end of what was on it and all that is handed to it
until that device falls back; `SFallsBack` and `RFallsBack` are the two ends hearing of it, in either
order. `way` says who knows. Neither touches a loop, and the receiving end resyncs (`Resyncs`).
`FileDelivery` has the four facts a user sees - offered, saved, given up, reported done - and
`Delivers` says that `Transfer` implements it.

### Session

A device is one page load: it makes one key pair and one nonce prefix, so its public key, its
prefix and the number shown for it can all be named by the device, and a session key by the two
devices it belongs to. `HearHello` is `#route` of a hello with the reset of the previous peer's
state, up to the point where `#establish` awaits the derivation; `Establish` is the rest, for the
newest derivation (a superseded one returns at once). `Serve` is the common tail: start a Receiver
unless there is one, hand it the frames kept for it, release the waiting sends, repeat a
confirmation. `chains` are frames handed to a Receiver that wait for those before them, which may
be in a sink that waits for its user. `Compare` is the click on the page; `ConfirmVerification` is
what it does when it reaches the session.

### Switch

A device has a `live` way and its `attempt`; `buffer[e][w]` is what it has handed to way `w` and has
not arrived. `SwapTo`, `FallBack`, `IsEvidence` and `NothingLeft` are `swapTo`, `fallBack`, the
straggler test of `#detach` and `#baselineDied`. A frame that arrives by the relay at a device that
has moved on is a straggler while `fresh` lasts and afterwards evidence that the other is back on
the relay. The relay socket may die at either end at any time (`SocketDies`), the direct connection
be cut at any time (`Cut`); each end hears of either when it does (`HearSocket`, `HearLeft`,
`HearClosed`). A frame takes its transport when it leaves the gate (`Seal`, then `Send` or
`SendThenSwap`).

### Worker

`toPage` and `toWorker` carry the `peer-*` messages in order. The proxy keeps the frames it has
posted and nobody confirmed (`inFlight`) and the last report; `Estimate` is its `bufferedAmount`.
The host keeps the connection, refuses a frame the channel is too full for, and reports on every
frame and every drain. For a file `asks` are the requests on their way, `busy` those the page is
carrying out, `disk` what became of the real file. `Unmount` is the cleanup of `useSession`.

### Downloads

The page's `Load`, `RegisterWorker`, `Controlled` and `Advertise` are the parts of `resolvePageSave`,
`CreateSink` and `HearStarted` those of a sink. The service worker's `HandleRegister` and
`HandleFetch` are the two that meet in either order: `pending` is the registry, `waiting` and `held`
the requests that came first. `Install` and `Activate` bring a new version, `Terminate` ends the
worker, and both empty the registry.

### ShareInbox

A share is stashed in three awaited steps (delete, open and put the bodies, put the index), a page
takes it in three (open and read the index, read the bodies, delete). A deleted cache stays usable
to whoever has it open, which is what makes interleaved stashes interesting.

### Live

A share is one click; `pc[e][k]` is end `e`'s connection for share `k`, `fresh` the operations whose
generation is still the current one, `live` the tracks that capture. Each handler is split where it
awaits: `Click`/`Captured`/`OfferReady` for `start`, `HearOffer`/`AcceptOffer`/`AnswerReady` for an
offer, `FlipCamera`/`FlipCaptured`/`FlipSwapped` for a flip, `Adjust`/`Adjusted` for the lamp of a
camera and the preset of a screen. A connection may find its candidate at any time from its
construction on (`SendIce`), that is, while the offer or the answer is still being prepared as well as
after it. Two variables are history: `late`, the shares a flip was swapped into after they had ended,
and `strayed`, the candidates that `HearIce` dropped or gave to the peer of another share, and those
`AnswerReady` handed with the rest of `#earlyIce` to the peer of another share.

### Page

Two queues join page and worker. `Hears` is the message handler of `useSession`, `Render` React
committing what changed, with the effects that follow, at any later time; several messages may be
committed at once. `panel` is whether `TransferPanel` is mounted, `sentRef` its `pendingSent`,
`pending` what `CreateScreen` holds of a share. `Acquires`, `Grant`, `Refuse`, `Turn` and
`LockFollows` are the wake lock. `EndSession`, `HearEndSent` and `TimesOut` are the click, the answer
and the timer that race. The worker's part - a peer that comes, greets, confirms, leaves, a
connection that dies and the attempts of a `Reconnector` - follows `session.ts`, coarsely.
Every peer offers a file, and each of these files, and the one that was shared here, has the same id: a
device numbers its files from 1 (`session.ts:926`), and so does the one that takes its place. `work` is
what became of each file, `rows` what the page shows of it: the marks that the messages about it, and
those about the others of its direction, have left on its row (`Ended`, `UpdateFile`). A file whose peer
is replaced is given up without a word to its row (`GivesUpFiles`), unless it is being closed, which ends
as it would have. `overtaken` is history: the files already announced when another of their direction
ended.

## 3. What the runs check

| Run | Instance | States | Properties |
|---|---|---|---|
| `relay` | 3 connections, 2 codes, idle limit of 2 sweeps | 161,722 | `SeatHeld` `RoomsOccupied` `PresenceAccurate` `FramesStayInRoom` `AbandonedRoomsExpire` |
| `send_path` | 2 control calls, 1 data call, 2 attempts, 2 Senders | 415,520 | `NonceOnce` `ControlInOrder` `LiveIsCurrent` `SwapAtBoundary` `FramesSettle` `SwapsSettle` |
| `transfer` | files of 2 and 0 chunks, 1 lost connection, 1 cancel, 1 refused write | 184,847 | `SavedIntact` `Delivers` `DeliveryReported` `OpenFilesSettle` |
| `session` | 3 devices; the joiner's connection may be lost, then the creator's; 1 confirmation | 633,823 | `PairedIsServed` `KeyIsForPeer` `PairsUp` `ConfirmationArrives` |
| `switch` | high water 1, buffers of 2 frames | 171,188 | `NotOnDeadRelay` `WakeupComes` `EndsAgree` `ParkedWakes` |
| `worker` | 1 connection, 4 frames, high water 2, cap 3, 1 file with 1 write | 277,090 | `EstimateCovers` `NoOrphan` `WakeupComes` `ParkedWakes` `SinksSettle` |
| `downloads` | 2 tokens, 2 requests each, 2 versions of the worker | 28,410 | `StreamReadOnce` `NobodyWaitsInVain` `AdvertisedIsUsable` |
| `share` | 3 shares of different sizes | 1,070,280 | `TakenWhole` |
| `live` | a camera and a screen at either end, 1 interruption | 1,173,678 | `LightGoesOut` `NoSpareConnection` `CandidatesArrive` `SlotsAgree` |
| `page` | 2 peers, 1 loss, 2 attempts, 1 click on End session, tab hidden once, 1 message behind | 2,630,034 | `SharedOnce` `RowsAgree` `ScreenKeptAwake` `EndLeaves` |
| `drop_fails_file`, `direct_torn_down` | smallest that shows it | | one each, violated: section 5 |

Every type invariant is a theorem, so no run spends a property on it.

**Relay.** `SeatHeld` and `RoomsOccupied` together say that closures and registry agree: an open
connection that believes it is in a room holds that very seat, a room exists while somebody sits
in it, and whoever sits there has a handler that will leave. `PresenceAccurate` says that the last
signal a seated open socket was sent about its peer is true now. The exception `recycled` is real:
when a code is drawn again while a socket of the swept room still has its close event to come,
that event empties a seat of the new room (`index.ts:396` uses the closure's code and seat, not the
socket). It needs a code drawn twice within the half minute a close may take, out of 32^6.
Three connections and two seats give a full room, a seat freed and retaken, and a third party in
another room; two sweeps of idleness give rooms of different ages.

**Sending.** Two control calls and a data call on two Senders are what it takes for a frame of the
first to be waiting or half sealed while the second is built, under the same key or another. Two
attempts are what it takes for one to find the other's barrier up. More Senders are left to the
proofs, which cover any number.

**Transfer.** A file of two chunks can lose one in the middle; an empty file behind it shows what
happens to a batch after its first file was cancelled, failed or interrupted, and to a file of which
no chunk ever arrives. The connection that is lost is the sender's, the receiver's or the direct one.
Larger instances have been run as well and hold: files of two chunks and one (1,269,282 states), both
users cancelling (1,012,505), one file and two losses (179,282). `OpenFilesSettle` excepts a file its
sending user stopped: the cancel may be lost with the connection, and then nothing tells the receiving
device. It also needs the direct connection to outlive the straggler window (`V_Straggler`); the other
three properties hold without that.

**Session.** Three devices are what it takes for a peer to be replaced while the replaced one is
away, and to come back after its replacement. `PairedIsServed` says that whenever a session would
let a send through, a Receiver is there, it is the one frames are handed to, and neither a frame
nor an earlier send was left behind. `KeyIsForPeer` adds that key, Sender, Receiver and shown
number are those of the peer whose hello came last. Two exceptions are facts about the code, each
stated in the property: `crossed` (section 5), and equal ids. An id is the seat of the *first*
connection while a reconnect takes whichever seat is free, so that after two replacements the two
devices of a room can hold the same id, and each refuses the other's hello as its own
(`session.ts:1067-1073`); `PairsUp` and `ConfirmationArrives` except that case, and would be false
without it. It takes two losses, the joiner's and then the creator's, each followed by a return into
the seat the other left free: `Losing` says whose connections are lost, in order, and the run gives it
that order (`V_Key` needs another). The proofs leave it arbitrary.

**Switching.** `NotOnDeadRelay` is about a socket that closes while the device is on the direct
connection: the close must be remembered for the fallback. `EndsAgree` says that if the two stay on
different ways for good, the one on the relay has fallen silent, for any later frame would bring the
other back. `WakeupComes` says that nobody waits for a drain that nothing will
report: the relay's socket is being polled or, on a direct connection that is alive, a report is due or
the buffer still above the mark. Buffers of two frames with a mark at one are full, just full and below it.

**The worker boundary.** `EstimateCovers` compares the worker's estimate with what is really
buffered on the page or on its way there. `WakeupComes` is the other side of it: the estimate is not so
high, and no report so wrongly left out, that a parked sender has nothing before it that could wake it.
A mark of two and a cap of three leave room for frames
past the mark and for one too many. The instance with two connections (2 frames each, mark 1, cap 2;
344,794 states) has been run as well and adds nothing: connections share only the queues.

**Downloads and shares.** Two tokens show one download disturbing another; two requests for a token
are the iframe's and a replay; two versions are an update. Three shares are a first that is taken, a
second that overtakes it and a third.

**Live media.** Two shares are what it takes to overtake one another, at the same end or at both.
`LightGoesOut` says that what captures belongs to a share that is being negotiated or that its device's
slot holds. It leaves out one track: the second of a flip whose share ended while
`replaceVideoTrack` was awaited. Nobody stops that one (section 5). `CandidatesArrive` lets a candidate
come before the offer of its connection, before the answer, or before there is a peer for it, and says
that a connection that has its descriptions has been given it; it leaves out the candidates `HearIce`
drops for want of room, and those given to the peer of another share, when they come or later with the
rest of `#earlyIce`, which is what becomes of one that comes ahead of its offer to a device that is not
idle (section 5). `SlotsAgree` leaves out an offer whose answer was overtaken, which stays until its
user stops it.

**The page.** One message behind is enough for both sides to act on what the other has already left;
React still commits several at once. Two peers are what it takes for a confirmation, a shared file
or a row to be about the wrong one: each of them offers a file, and these two and the one shared here
have the same id. `RowsAgree` says of every row what became of its own file, whatever the other
direction does, whichever peer is given up in the middle of its file, and however far behind the page
is. It leaves out the row of a file another of its direction has ended over (`overtaken`), for that row
is rewritten (`V_Rows`, section 5). `EndLeaves` assumes nothing but that a timer fires.

### Fairness

Safety is checked without fairness. The liveness properties assume:

* Relay: the clock and the `setInterval` sweeper run, and a close completes (the `ws` library
  destroys a connection 30 s after asking it to close). Nothing is assumed of clients.
* SendPath: a frame let through the gate is sealed (the WebCrypto promise settles) and whoever a
  settled promise wakes runs. Nothing is assumed about upgrades opening or peers leaving.
* Transfer: loops progress, a frame in the path is delivered or dropped, a lost connection
  comes back, and either end of a dead direct connection hears of it (ICE times out). Users and disks are not assumed to do anything, drops are bounded by `MaxDrops`:
  what is claimed is what happens once connections have stopped dropping.
* Switch: frames arrive or are lost, closes and departures are heard, timers fire, a frame in the
  gate leaves it. The poll of the relay's buffer is strongly fair, because the interval keeps firing
  while the buffer goes up and down around the mark. Nothing is assumed of a channel opening, a
  socket dying or a sender having something to send.
* Worker: messages are handled, a live channel transmits, a timer fires, a picker is answered, a
  disk gets there. Cancels, losses and the unmount need not happen.
* Live: handlers run and what they await ends, and a connection that was cut is reported. Users need
  not do anything.
* Page: a timer that is set fires. Nothing else: the worker, React, the user and the peer may stop.
* Session: `#init` ends, messages are handled, derivations and chains end, a click is delivered.
  Nobody is assumed to join, reconnect or confirm: the premise of each property is that two
  devices are, from some moment on, live and opposite each other.

Except the poll, each is weak fairness of an action that stays enabled until it is taken, which is all
that an event loop and a settled promise give. Deadlock checking is off where a bounded instance may
come to its end; the relay, whose actions are never exhausted, is checked for it.

## 4. What is proved

TLC's instances are small; the proofs hold for any sets of connections, codes, calls, attempts,
files and devices and any bounds. They assume only what the modules' `ASSUME`s say: that `None` is not one of
the things it is the absence of, that bounds and sizes are natural numbers, and that control and data
calls are different things. TLC evaluates these assumptions in every run.

**Relay** (`ChannelProofs`) proves `TypeCorrect`, `SeatsAreHeld`, `NoRoomLeaks`, `PresenceIsAccurate` and
`FramesAreConfined`. The invariants prove each other: `Closed` frees the seat its closure names,
which is the right one because of `SeatHeld`; `SeatHeld` survives a sweep because `RoomsOccupied`
says who sits in the room. They become inductive with `Closures`: a handler knows a code exactly if
it knows a seat, and a closed one neither.

**SendPathProofs** proves `NoncesAreUnique`, `ControlStaysInOrder`, `SwapsAtBoundaries`,
`LiveStaysCurrent` and `TypeCorrect`. That two frames *on the wire* have different numbers says
nothing of those being sealed, so the induction is over stronger facts: the numbers of one Sender
are distinct from the moment they are taken (`Distinct`); a Sender replaced under the same key can
put nothing more on the wire, for it was aborted or writes to a replaced switchable
(`Superseded`); and the counter of every later Sender of a key is past every number already sent
under it (`Counted`). Order needs `Chained` and `Ascending`. That argument is the one the comments
of `sender.ts` make in prose, with its one delicate point - a frame that took its number and has
not left - in `Superseded`.

**TransferProofs** proves `ImplementsDelivery` (`Transfer` implements `FileDelivery`, for any number
of files of any size and any number of drops, cancels and refused writes), `WholeWhenSaved` and
`TypeCorrect`. Each part of the invariant closes one way in which late or repeated frames could do
harm. `Backward`: an acknowledgement under way, also one of a resync, is of a complete file, so the
row it confirms may say done. `Forward`: there is at most one offer, and until it arrives nothing is
open, saved or given up, so it never resets a file that is. `Settled`: an open file is neither saved
nor given up, so completing one never overtakes a failure. Every action is then shown to keep the
invariant and to be one of four things: `Steady` (at most announcing), `Saves`, `GivesUp` or
`Reports`, which are the steps of `FileDelivery`. The lemmas about offers in a tail, a prefix, a
suffix and a concatenation carry what a lost connection, a device's or the direct one, does to the
frames on their way. The theorems hold whether or not the straggler window has passed.

**SessionProofs** proves `PairsAreServed`, `KeysAreForThePeer` and `TypeCorrect`. The invariant is
pointwise: `Sound(d)` speaks of one device, a step of another leaves it alone (`SameSound`), and what
remains is each action on its own device. `Bridged` relates the Receiver, the bridge, the buffer and
the timer; `Coherent` says what a session can know before it has a key pair, and that a key is the
one derived last; `Current` carries the argument about replaced peers: a derivation in flight is for
the peer heard last and there is no Receiver then, so the Receiver `Establish` builds is for the peer
whose key it installs. The case `crossed` is exactly where that reasoning breaks, and looking for
the inductive invariant is how `KeyNeverCrossed` (`V_Key`) was pinned down: `#deriveSeq` would have
to be advanced by every hello.

**WorkerProofs** proves `EstimatesCover`, `NobodyOrphaned`, `NobodyForgotten`, `SinksStayInHand` and
`TypeCorrect` for any number of connections, frames and files and any mark below the cap. What the worker believes of a connection is
compared with what is on its way in both queues. `Tracks`: the frames on their way to the page are
those after the last it accepted, in order, and those the worker keeps as unconfirmed are the ones
after the last report it heard. `Reports`: each report on its way covers what the page had buffered
when it accepted that frame, so the estimate covers the buffer whichever report is heard next. `Asked`
and `OneOutcome`: a connection is opened once, before anything else is said of it, and has one outcome,
so neither end waits for a word that was already said; that, with `Owned`, gives `NoOrphan`. Most steps
are about one connection and leave the others and their messages alone (`Alike`, `Same`).
`NobodyForgotten` (`WakeupComes`) is about too much estimate instead of too little, and rests on the
*last* report on its way: it carries the number of the last frame the page accepted, and if it tells of
more than the mark the buffer is still above it or the event of its draining is due (`Watch`). Once it
is heard the same holds of what the worker knows (`Heeded`), so a Sender parked then, with none of its
frames on their way, is parked because of what the channel still has to drain.
`SinksStayInHand` is the safety half of `SinksSettle`. Its invariant follows one file through the
five stages of its request to the page (`SinkSound`): while the Receiver awaits an answer the request
is in exactly one place (`OnlyAt`), but for a cancel during a write, whose abort follows the write;
so a sink the page still holds for a file that is over has an abort before it, and a sink still being
built for one can only be that of a page torn down, which discards it.

**Downloads** (`ServiceWorkerProofs`) proves `StreamsAreReadOnce`, `TheRaceIsRescued`, `AdvertisedStaysUsable` and
`TypeCorrect` for any number of tokens, requests and versions. A stream is in one place only: with
its message, in the registry, or handed over; the invariant says so for each token. A request that
is held has found the registry empty, so whoever registers next finds the request. That a page which
advertises streaming keeps its worker rests on `skipWaiting` being called on a first install only.

**ShareInbox** (`ServiceWorkerProofs`) proves `SharesAreTakenWhole` and `InboxTypeCorrect` for any number of shares of any
sizes. It follows a share that was stashed while no other was: the Cache it opens is empty and nobody
else writes to it (`Alone`), because the name it was found under was taken away when the stash began;
once it has an index it stays as it is (`Kept`), because the next stash takes the name away before it
opens; and what a page has read of it so far is its (`Reads`), also when the Cache has lost its name
meanwhile. `Counted` shows that there is always a Cache left to create.

**Switch** (`ChannelProofs`) proves `NobodyOnDeadRelay`, `NobodyForgotten` and `SwitchTypeCorrect` for any
mark and any cap. `NotOnDeadRelay` is inductive beside the types; these need `RoomWhenSealed`, for a
frame is sealed where there is room and handed over later, after a swap perhaps. `NobodyForgotten`
(`WakeupComes`) needs `Drains`: a relay buffer at the mark is polled whoever filled it, the direct buffer
is empty until the swap and after the close, and only a paired device has a frame in its gate.

**LiveProofs** proves `NoSpareConnectionHolds`, `LightGoesOutHolds`, `CandidatesArriveHolds` and
`TypeCorrect` for any number of shares and interruptions. The first three need to know where a share
stands. `Begun`: one whose `start()` is not over has left nothing behind, so a slot (`Placed`) and an
offer on its way (`OffersOwned`) are about a share that is past it. `Ticketed`: an operation that has
not been overtaken finds its end idle, so what it builds replaces nothing. With these every way out of
a slot closes the connection in it, and `NoSpareConnection` is inductive. `Lights` says more than
`LightGoesOut`, namely which track of a share it is that captures: the first, while the share is being
offered; one of its stream, while its device's slot holds it; the second, while a flip swaps it in.
The exception of `LightGoesOut` is part of it (`Late`: the swap of a flip whose connection is closed is
the one that captures for nobody). `Candidates` follows one candidate, which an end sends at most once
(`Queued`), from the moment it is heard. The connection has used it, or keeps it until its description
comes; or the connection is still to be made, and `#earlyIce` keeps the candidate for it (`KeptFor`;
`Unopened` says that an end that has not come to its answer has had no connection for the share); or it
strayed, which is history. Nothing is assumed of the size of the store.

**PageProofs** proves `SharedOnceHolds`, `RowsAgreeHolds`, `AwakeHolds`, `EndIsTimedHolds` and
`TypeCorrect` for any number of peers, losses, attempts and clicks and for queues of any length. Page and
worker are each behind by what is on its way, so the invariants speak of the queues. `RowsPart`: for each
file that is not overtaken there are two places in the queue, of its announcement and of its end, each
perhaps heard or not posted yet (`Tale`); they determine its row, and the end of any other file of its
direction in the queue comes before its announcement, while there is no row to rewrite. `Unsent`: the
shared file is announced once, for it is taken once. `SharedPart`: what was shared is on the page, on its way (once), waiting for a hello in the worker,
or taken, and only in one of these. `EndIsTimed` is the safety half of `EndLeaves`: a click whose answer
is awaited has its timer.

**Left to TLC.** Liveness under fairness and everything that needs `ENABLED` (`WakeupComes`, here and there,
`SinksInHand` and `EndIsTimed` are as much of it as an invariant can say); the properties of section 5, which are false. Every invariant and every action property that a run checks is a theorem.

## 5. Where the code and its comments disagree

Each of these is a property that states what a comment of the code says, violated by what the code
does. Two are runs of the project, with a finding in `PROJECT.json` that quotes both sides; each of
the others has a `.cfg` with which TLC shows it on the module named. `V_Live.cfg` serves four: it
names the first, and shows another with that one's name as its `INVARIANT`.

* `drop_fails_file` (`DropsCostNothing`). The receiving device drops and rejoins while the sender
  still has chunks in its socket buffer. They arrive after the ones before them were lost, do not
  open at the offset the kept Receiver is at, and fail the file the reconnect was to save.
* `direct_torn_down` (`DirectCarriesOn`). A relay socket that dies under a direct transfer is meant
  to cost nothing. The other device is told `peer-left` for it, falls back and closes the direct
  connection.

| Config | Module | Property | What happens |
|---|---|---|---|
| `V_Cancel` | `MCTransfer` | `CancelIsFinal` | The set of cancelled files lives in the Sender and is not carried into the next one (`session.ts:914`). If the cancel frame is lost with the connection, the resume point of the other side starts the file again. |
| `V_Queue` | `MCTransfer` | `QueueDrains` | A file the receiving user cancels while its last frames are in flight, or that fails over there, is never removed from `#queuedFiles` (`session.ts:384`). |
| `V_Downgrade` | `MCTransfer` | `DropsCostNothing` | A downgrade in the middle of a file: the loop goes on over the relay with the chunk after the ones that were lost, which does not open at the kept offset, and the file is failed before the resync can ask for them (against `session.ts:549-550`, "so the transfer carries on over the relay"). |
| `V_Straggler` | `MCTransfer` | `OpenFilesSettle` | The direct connection dies within five seconds of the swap, which `upgrade.ts:13-15` holds impossible. The resume point arrives by the relay, is taken for a straggler, and the resumed file is written to the dead connection; nobody asks again. |
| `V_Verified` | `MCSession` | `VerifiedMeansCompared` | A confirmation names no number (`session.ts:788`). A click on the number of a peer that has just been replaced is counted for its replacement. |
| `V_Key` | `MCSession` | `KeyNeverCrossed` | A hello whose key is the one already derived supersedes no derivation in flight (`session.ts:744`). A device that comes back while the key for another, already gone, is being derived is given that other's key, and the Receiver built with it is kept. |
| `V_Corpse` | `MCSwitch` | `DeathIsDowngrade` | A channel that opens and dies before the swap, which waits for a frame, is swapped in dead: its close was reported before `swapTo` listened (`upgrade.ts:490-497`). |
| `V_Early` | `MCSwitch` | `NothingEarly` | A frame that arrives on the direct channel before this end has swapped finds no listener and is lost. |
| `V_Glare` | `MCLive` | `GlareResolves` | While b prepares its answer to a's offer, b's own start overtakes it, and the answer is given up in silence. a ignores the offer that start makes, as the impolite side should, and both go on offering. |
| `V_Live` | `MCLive` | `NobodysTrackStops` | `flipCamera` looks at its ticket before it awaits `replaceVideoTrack` and not after (`live-session.ts:433-451`). A stop, an unmount, a failure or an offer in between closes the connection, the new camera is swapped in all the same, and it goes on capturing with no share and no button to stop it (against `live-session.ts:424-427` and `media-peer.ts:404-421`). |
| `V_Live`, with `EarlyIsNotStray` | `MCLive` | `EarlyIsNotStray` | A candidate that comes ahead of its offer is kept only by an idle slot with room (`live-session.ts:522-525`). One that comes to a device that is sharing or receiving is handed to the peer of that share, which refuses it, although the offer behind it replaces that peer (against 515-519). |
| `V_Live`, with `OffWhenGone` | `MCLive` | `OffWhenGone` | The panel goes while a capture is being asked for; the share that then starts has no screen (against `TransferPanel.tsx:196-199`). |
| `V_Live`, with `BusyMeansFlipping` | `MCLive` | `BusyMeansFlipping` | A flip during which the lamp is switched counts itself overtaken and returns without taking `busy` back: nothing is in flight, and the camera cannot be flipped again (`live-session.ts:428-431`). |
| `V_Share` | `MCShareInbox` | `NeverVanishes` | A share stashed while a page takes the one before it is deleted with it (`inbox.ts:120`). |
| `V_Gone` | `MCPage` | `GoneIsFinal` | The `peer-left` that follows a `session-ended` overwrites the final state, and the screen offers the ended session again (`useSession.ts:471`, against 293-298). |
| `V_Shared` | `MCPage` | `SharedArrives` | After a replacement the panel still sees both confirmations of the departed peer and posts the shared files; the session refuses them as unverified, and they have already been let go (`CreateScreen.tsx:68`). |
| `V_Workspace` | `MCPage` | `WorkspaceIsForThisPeer` | Until the replacement's number arrives, the panel shows the workspace on the strength of the previous number (`TransferPanel.tsx:50`). |
| `V_Lock` | `MCPage` | `LockGivenUp` | Hidden and shown again while a wake lock is being requested, the page requests a second and forgets the first (`useTransferGuards.ts:126-127`). |
| `V_Yank` | `MCPage` | `LeavesItsOwnScreen` | Two clicks on End session share one answer; the timer of the one not answered navigates the user away from another screen. |
| `V_Unsaved` | `MCPage` | `UnsavedIsOffered` | A file received into memory is offered on the joining device's last screen only (`SessionScreen.tsx:18-25`). |
| `V_Rows` | `MCPage` | `OneRowRewritten` | A peer that takes another's place, or the same one reloaded, numbers its files from 1 again (`session.ts:926`), and the page keeps the rows of the one before. What ends one file of an id ends every row of that direction and id: a departed peer's failed or cancelled file says done, its blob is offered as the other's, or a download that was kept in memory is let go (`useSession.ts:225`, against 195-199, "the one row a worker message is about"). |
| `V_Guards` | `MCPage` | `GuardsFollowWork` | A failed file's row is never told, so the guards against leaving stay armed (`useTransferGuards.ts:28`, 44-55). |

One more disagreement shows in `Session` without a property of its own: `giveUp` (`session.ts:1453`)
ends a session without `#failPendingHello`, so a send that was waiting for the handshake while the
connection was down waits for ever. `PairedIsServed` is about sessions that are not over.

## 6. Abstractions

* **Relay.** Payloads are opaque. Rate limits, the size limit and malformed requests are stuttering
  steps. A socket number is used again after its close event.
* **SendPath.** One chunk per data call; the file it belongs to does not matter. `Rekey` is the hello
  of a replacement peer and takes a fresh key; the key of a peer that comes back after its
  replacement is left out. A resumed `sendFiles` and `resumeFile` are further calls. The wait for the socket
  to drain happens before a call is issued.
* **Transfer.** One direction carries files, calls on the Sender are the frames they emit, a resync
  is one step, the devices stay paired under one key. The loops of an aborted Sender end with the
  abort (in the code a resume is held until the file read it waits in settles). A sink's opening
  does not fail, only writes and closes; ceilings on count and size, and the budgets that end a
  session, are left out. A device drops only while the relay carries the transfer (the relay socket
  that dies under a direct one is `Switch`'s subject), the pair moves to the direct connection at most
  once and without loss, and what goes by the relay does not overtake what is left of it. The
  receiving end resyncs once its chain has handled what the dead connection delivered, as
  `resumePoints` does.
* **Session.** Messages reach the relay at once (a frame still in a socket buffer is `Transfer`'s
  subject). The one sealed frame is `verified`; the device announcement, resync frames, `endSession`
  and `close()` are left out. `#establish`'s `same` flag decides only whether to resync and is left
  out. A derivation never fails, and the limit of 256 deferred frames is not reached. The
  cryptography is ideal: a frame opens exactly under the key and for the peer it was sealed with.
* **Switch.** One pairing with one attempt; a device whose session is lost, or whose peer left,
  stops. A frame is one unit of a buffer. What the Receiver makes of frames in another order is left
  out.
* **Worker.** A frame counts one whatever its bytes. A zero-byte file, whose sink is opened at
  `file-end`, is left out, and so is a second `init`, which no page sends.
* **Downloads, ShareInbox.** Bytes, headers, names and the note are left out; the browser evicting
  one entry of a cache is too.
* **Live.** One candidate per end and share stands for all; of a camera's tracks the video is kept;
  statistics carry no slot state; of a lamp or a preset only that setting it publishes the slot again.
* **Page.** What was shared is one file, and each peer offers one; all have the same id (further files
  of one device have ids of their own). Progress messages, which rewrite the same rows, are left out. A peer, its key and its number are one number.
  The session is coarse: what it refuses and when it speaks is kept, how it gets there is `Session`'s
  subject.
* **Bounds.** `MaxGen`, `MaxDrops`, `Losing`, `Straggling`, `MaxCancels`, `MaxSinkFails`, `MaxClicks`, `MaxConns`, `MaxFrames`,
  `MaxWrites`, `MaxRequests`, `MaxVersions`, `MaxEarly`, `MaxEvents`, `MaxPeers`, `MaxLosses`,
  `MaxAttempts`, `MaxEnds`, `MaxHides`, `MaxQueue`, `Cap`, and the numbers of sockets, codes, calls,
  attempts, devices and shares, all named in the modules and set in the `.cfg`s. No
  action is disabled by a bound that is not one of these.

## 7. Not modelled

* **The control-number check across a swap.** A control frame overtaken on the other way is refused by
  the Receiver (`receiver.ts:354`); `Switch` has the overtaking and not the Receiver.
* **The relay noticing late.** A reconnect that is refused because the relay still counts the old
  socket is terminal (`reconnect.ts:9-17`). `Relay` has the late close and `Page` the refusal; no
  module has both.
* **The rate limiter** is arithmetic on a clock for one address at a time; its answers are in `Relay`
  (nothing happens) and in `Page` (the Reconnector gives up).
* **SDP and ICE of the upgrade**, which `webrtc.ts` hands to the browser, and the validation of what
  comes in: an attempt opens or does not.
* **Wire formats**, parsers without state; **TURN credentials**, static files, start scripts.
* **Rendering** (`client/ui`, most of `client/screens`): what is decided there and matters to a session
  is in `Page` and `Live`.
