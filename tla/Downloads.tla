----------------------------- MODULE Downloads -----------------------------
(***************************************************************************)
(* Saving through the service worker: a file streamed into a download of   *)
(* the browser's own.                                                      *)
(*   client/sw.ts             the worker: install, activate, message, fetch *)
(*   client/save/swstream.ts  its registry of tokens, and the page's side  *)
(*   client/save/select.ts    what the page advertises it can save         *)
(*                                                                         *)
(* The page posts a stream under a token and points a hidden iframe at the *)
(* token's URL; nothing orders the two. The worker hands the stream to the *)
(* request that asks for it and says so on a port, and only then does the  *)
(* page write. The browser may end the worker at any moment, with the      *)
(* registry in its memory, or install a newer one.                         *)
(*                                                                         *)
(* Abstractions. Bytes and headers are left out, and so are the two tiers  *)
(* that need no worker. A request is known by its token and its number in  *)
(* the order of arrival. The timers of the two realms keep no order        *)
(* between them; the worker's own, all of one length, end in the order     *)
(* they began.                                                             *)
(***************************************************************************)
EXTENDS Integers

CONSTANTS
  Tokens,       \* one per sink the page builds
  MaxRequests,  \* bound: requests for one token, the iframe's and replays
  MaxVersions   \* bound: versions of the worker deployed

ASSUME DownloadsAssumption ==
  /\ MaxRequests \in Nat \ {0}
  /\ MaxVersions \in Nat \ {0}

Requests == 1..MaxRequests
Versions == 1..MaxVersions
None == 0

VARIABLES
  (* the browser *)
  latest,      \* newest version installed
  active,      \* version active for the scope
  skipping,    \* the version being installed called skipWaiting
  controller,  \* version that controls the page
  (* the page *)
  open,        \* the page is open
  saving,      \* what it advertises: "undecided", "registered", "sw-stream", "blob"
  sink,        \* per token: "none", "starting", "started", "failed" or "over"
  postedTo,    \* the worker the token was posted to
  (* on their way *)
  messages,    \* register-download messages
  coming,      \* how many requests for a token
  acks,        \* download-started, on the token's port
  (* the worker that holds the token *)
  pending,     \* tokens nobody has asked for yet
  arrived,     \* how many requests for a token came
  waiting,     \* the request on file for a token not registered yet
  held,        \* the requests held open for it
  served       \* the requests answered with the token's stream

browserVars == <<latest, active, skipping, controller>>
workerVars == <<pending, arrived, waiting, held, served>>
wireVars == <<messages, coming, acks>>
pageVars == <<open, saving, sink, postedTo>>
vars == <<browserVars, pageVars, wireVars, workerVars>>

Init ==
  /\ latest = None /\ active = None /\ skipping = FALSE /\ controller = None
  /\ open = TRUE /\ saving = "undecided"
  /\ sink = [t \in Tokens |-> "none"]
  /\ postedTo = [t \in Tokens |-> None]
  /\ messages = {} /\ acks = {}
  /\ coming = [t \in Tokens |-> 0] /\ arrived = [t \in Tokens |-> 0]
  /\ pending = {}
  /\ waiting = [t \in Tokens |-> None]
  /\ held = [t \in Tokens |-> {}]
  /\ served = [t \in Tokens |-> {}]

-----------------------------------------------------------------------------
(* The worker's life.                                                      *)

(* A first install takes over at once; an update waits for the pages.      *)
SkipsAlways == TRUE
Skips == active = None

Install ==
  /\ open /\ saving # "undecided"
  /\ latest = active /\ latest < MaxVersions
  /\ latest' = latest + 1
  /\ skipping' = Skips
  /\ UNCHANGED <<active, controller, pageVars, wireVars, workerVars>>

(* Activating claims the page that is open.                                *)
Activate ==
  /\ active < latest
  /\ skipping \/ ~open
  /\ active' = latest
  /\ skipping' = FALSE
  /\ controller' = IF open THEN latest ELSE controller
  /\ UNCHANGED <<latest, pageVars, wireVars, workerVars>>

Forget ==
  /\ pending' = {}
  /\ waiting' = [t \in Tokens |-> None]
  /\ held' = [t \in Tokens |-> {}]

(* The browser ends the worker: the registry and the requests it holds go, *)
(* and the next event starts it afresh. Downloads under way continue.      *)
Terminate ==
  /\ pending # {} \/ \E t \in Tokens : held[t] # {}
  /\ Forget
  /\ UNCHANGED <<arrived, served, browserVars, pageVars, wireVars>>

-----------------------------------------------------------------------------
(* The page: resolvePageSave, once per load.                               *)

RegisterWorker ==
  /\ open /\ saving = "undecided"
  /\ saving' = "registered"
  /\ UNCHANGED <<open, sink, postedTo, browserVars, wireVars, workerVars>>

RegisterFails ==
  /\ open /\ saving = "undecided"
  /\ saving' = "blob"
  /\ UNCHANGED <<open, sink, postedTo, browserVars, wireVars, workerVars>>

(* Registering succeeds before the worker controls the page; the page      *)
(* waits for that, and saves in memory when it fails or takes too long.    *)
Controlled == controller # None

Advertise ==
  /\ open /\ saving = "registered"
  /\ Controlled
  /\ saving' = "sw-stream"
  /\ UNCHANGED <<open, sink, postedTo, browserVars, wireVars, workerVars>>

MemoryFallback ==
  /\ open /\ saving = "registered"
  /\ controller = None
  /\ saving' = "blob"
  /\ UNCHANGED <<open, sink, postedTo, browserVars, wireVars, workerVars>>

(* createServiceWorkerSink. The Receiver builds one sink at a time.        *)
CreateSink(t) ==
  /\ open /\ saving = "sw-stream"
  /\ sink[t] = "none"
  /\ \A u \in Tokens : sink[u] # "starting"
  /\ sink' = [sink EXCEPT ![t] = "starting"]
  /\ postedTo' = [postedTo EXCEPT ![t] = controller]
  /\ messages' = messages \cup {t}
  /\ coming' = [coming EXCEPT ![t] = 1]
  /\ UNCHANGED <<open, saving, acks, browserVars, workerVars>>

(* The URL is asked for again.                                             *)
Replay(t) ==
  /\ open /\ sink[t] # "none"
  /\ coming[t] + arrived[t] < MaxRequests
  /\ coming' = [coming EXCEPT ![t] = @ + 1]
  /\ UNCHANGED <<messages, acks, browserVars, pageVars, workerVars>>

(* downloadStarted: the acknowledgement, or the timer, closes the port.    *)
HearStarted(t) ==
  /\ t \in acks
  /\ acks' = acks \ {t}
  /\ sink' = [sink EXCEPT ![t] = IF @ = "starting" THEN "started" ELSE @]
  /\ UNCHANGED <<messages, coming, open, saving, postedTo, browserVars, workerVars>>

(* The writer is aborted and the iframe removed; message and request may   *)
(* still be on their way.                                                  *)
StartTimesOut(t) ==
  /\ sink[t] = "starting"
  /\ sink' = [sink EXCEPT ![t] = "failed"]
  /\ UNCHANGED <<open, saving, postedTo, browserVars, wireVars, workerVars>>

(* close or abort.                                                         *)
Finish(t) ==
  /\ sink[t] = "started"
  /\ sink' = [sink EXCEPT ![t] = "over"]
  /\ UNCHANGED <<open, saving, postedTo, browserVars, wireVars, workerVars>>

(* The page goes, and what it had under way; or a page is loaded.          *)
Leave ==
  /\ open
  /\ open' = FALSE
  /\ controller' = None
  /\ sink' = [t \in Tokens |-> IF sink[t] = "none" THEN "none" ELSE "over"]
  /\ messages' = {} /\ acks' = {}
  /\ coming' = [t \in Tokens |-> 0]
  /\ Forget
  /\ UNCHANGED <<saving, postedTo, arrived, served, latest, active, skipping>>

Load ==
  /\ ~open
  /\ open' = TRUE
  /\ saving' = "undecided"
  /\ controller' = active
  /\ UNCHANGED <<sink, postedTo, latest, active, skipping, wireVars, workerVars>>

-----------------------------------------------------------------------------
(* The worker that controls the page.                                      *)

(* take and register hand the stream over, which consumes it, and the page *)
(* is told on the token's port.                                            *)
Serve(t, r) ==
  /\ served' = [served EXCEPT ![t] = @ \cup {r}]
  /\ acks' = acks \cup {t}

(* The registry of the worker that gets the request has the token.         *)
Here(t) == t \in pending /\ postedTo[t] = controller

(* settle(): the request is no longer held, and no longer on file if it    *)
(* still was.                                                              *)
OffFileBlindly(t, r) == waiting' = [waiting EXCEPT ![t] = None]
OffFile(t, r) == waiting' = [waiting EXCEPT ![t] = IF @ = r THEN None ELSE @]

LetGo(t, r) ==
  /\ held' = [held EXCEPT ![t] = @ \ {r}]
  /\ OffFile(t, r)

(* register: straight to the request that waits, or kept for one to come.  *)
KeepsAsWell(t) == pending' = pending \cup {t}
HandsOver(t) == UNCHANGED pending

HandleRegister(t) ==
  /\ t \in messages
  /\ messages' = messages \ {t}
  /\ \/ /\ waiting[t] # None /\ postedTo[t] = controller
        /\ Serve(t, waiting[t])
        /\ LetGo(t, waiting[t])
        /\ HandsOver(t)
     \/ /\ waiting[t] = None \/ postedTo[t] # controller
        /\ pending' = pending \cup {t}
        /\ UNCHANGED <<waiting, held, served, acks>>
  /\ UNCHANGED <<coming, arrived, browserVars, pageVars>>

(* fetch, for a token that is registered, or that may still come.          *)
HandleFetch(t) ==
  /\ coming[t] > 0
  /\ coming' = [coming EXCEPT ![t] = @ - 1]
  /\ arrived' = [arrived EXCEPT ![t] = @ + 1]
  /\ LET r == arrived[t] + 1 IN
       \/ /\ Here(t)
          /\ pending' = pending \ {t}
          /\ Serve(t, r)
          /\ UNCHANGED <<waiting, held>>
       \/ /\ ~Here(t)
          /\ held' = [held EXCEPT ![t] = @ \cup {r}]
          /\ waiting' = [waiting EXCEPT ![t] = r]
          /\ UNCHANGED <<pending, served, acks>>
  /\ UNCHANGED <<messages, browserVars, pageVars>>

(* DOWNLOAD_TOKEN_WAIT_MS: the request is answered 404.                    *)
WaitIsOut(t, r) ==
  /\ r \in held[t]
  /\ \A q \in held[t] : r <= q
  /\ LetGo(t, r)
  /\ UNCHANGED <<pending, arrived, served, browserVars, pageVars, wireVars>>

-----------------------------------------------------------------------------
Next ==
  \/ Install \/ Activate \/ Terminate
  \/ RegisterWorker \/ RegisterFails \/ Advertise \/ MemoryFallback \/ Leave \/ Load
  \/ \E t \in Tokens :
       \/ CreateSink(t) \/ HearStarted(t) \/ StartTimesOut(t) \/ Finish(t)
       \/ Replay(t) \/ HandleRegister(t) \/ HandleFetch(t)
       \/ \E r \in held[t] : WaitIsOut(t, r)

Spec == Init /\ [][Next]_vars

-----------------------------------------------------------------------------
TypeOK ==
  /\ latest \in 0..MaxVersions /\ active \in 0..MaxVersions
  /\ controller \in 0..MaxVersions
  /\ controller <= active /\ active <= latest
  /\ skipping \in BOOLEAN
  /\ open \in BOOLEAN
  /\ saving \in {"undecided", "registered", "sw-stream", "blob"}
  /\ sink \in [Tokens -> {"none", "starting", "started", "failed", "over"}]
  /\ postedTo \in [Tokens -> 0..MaxVersions]
  /\ messages \subseteq Tokens /\ acks \subseteq Tokens
  /\ coming \in [Tokens -> Nat] /\ arrived \in [Tokens -> Nat]
  /\ \A t \in Tokens : coming[t] + arrived[t] <= MaxRequests
  /\ pending \subseteq Tokens
  /\ waiting \in [Tokens -> {None} \cup Requests]
  /\ held \in [Tokens -> SUBSET Requests]
  /\ served \in [Tokens -> SUBSET Requests]

(* A stream is read by one request at most, whatever is replayed, and the  *)
(* page writes into none that nobody reads: such a write never settles     *)
(* (swstream.ts, "a `ReadableStream` can only be read once").              *)
StreamReadOnce ==
  \A t \in Tokens :
    /\ \A q, r \in served[t] : q = r
    /\ sink[t] = "started" => served[t] # {}

(* A request that is still held open for a token is not passed over while  *)
(* the token lies in the registry: the race of message and fetch is lost   *)
(* by neither, whichever replays and timers come between.                  *)
NobodyWaitsInVain == \A t \in pending : held[t] = {}

(* What the page told the other device it can do, it can: a page that      *)
(* advertises streaming is controlled, and the worker that will be asked   *)
(* for a token is the one it was posted to, also while an update is        *)
(* deployed (sw.ts, "claims those live pages ... whose registry is empty").*)
AdvertisedIsUsable ==
  open /\ saving = "sw-stream" =>
    /\ controller # None
    /\ \A t \in Tokens : sink[t] = "starting" => postedTo[t] = controller

=============================================================================
