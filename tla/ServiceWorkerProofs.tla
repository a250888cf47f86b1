------------------------- MODULE ServiceWorkerProofs --------------------------
(***************************************************************************)
(* What the service worker (client/sw.ts) does for the two components it   *)
(* serves: the downloads it streams, and the shares it stashes.            *)
(***************************************************************************)
EXTENDS Downloads, ShareInbox, TLAPS, FiniteSetTheorems
-----------------------------------------------------------------------------
(***************************************************************************)
(* The service worker's downloads, for any number of files, of requests    *)
(* for each and of updates.                                                *)
(*                                                                         *)
(* The inductive invariant follows the stream of a token. While it is in   *)
(* the message or in the registry nobody has been given it (Stream), the   *)
(* worker it was posted to is the one that will be asked (Lifecycle,       *)
(* Reachable), and the youngest request that waits for it is the one on    *)
(* file (OnFile), which is what makes registering find it.                 *)
(***************************************************************************)

(* A worker that controls the page is active; none skips the queue while   *)
(* one is; a page that advertises streaming is controlled.                 *)
Lifecycle ==
  /\ skipping => active = None
  /\ controller # None => open /\ active # None
  /\ open /\ saving = "sw-stream" => controller # None

(* A token under way was posted to the worker that controls the page.      *)
Reachable ==
  \A t \in Tokens :
    t \in messages \/ t \in pending \/ sink[t] = "starting" =>
      open /\ saving = "sw-stream" /\ postedTo[t] = controller

(* The stream is in one place.                                             *)
Stream ==
  \A t \in Tokens :
    /\ sink[t] = "none" => t \notin messages /\ t \notin pending /\ t \notin acks
                            /\ served[t] = {} /\ coming[t] = 0 /\ arrived[t] = 0
    /\ t \in messages => t \notin pending /\ served[t] = {}
    /\ t \in pending => served[t] = {}
    /\ t \in acks \/ sink[t] = "started" => served[t] # {}
    /\ \A q, r \in served[t] : q = r

(* The request on file is held, and until the stream is handed over it is  *)
(* the youngest of those held.                                             *)
OnFile ==
  \A t \in Tokens :
    /\ waiting[t] # None => waiting[t] \in held[t]
    /\ \A q \in held[t] : q <= arrived[t]
    /\ served[t] = {} /\ held[t] # {} =>
         waiting[t] # None /\ \A q \in held[t] : q <= waiting[t]

-----------------------------------------------------------------------------
LEMMA ActivateTypes ==
  ASSUME TypeOK, Activate
  PROVE  /\ latest' \in 0..MaxVersions /\ active' \in 0..MaxVersions
         /\ controller' \in 0..MaxVersions /\ skipping' \in BOOLEAN
         /\ controller' <= active' /\ active' <= latest'
  <1>1. latest' \in 0..MaxVersions /\ active' \in 0..MaxVersions /\ controller' \in 0..MaxVersions
    BY DownloadsAssumption DEF TypeOK, Activate
  <1>2. controller' <= active' /\ active' <= latest'
    BY DownloadsAssumption DEF TypeOK, Activate
  <1>3. skipping' \in BOOLEAN
    BY DEF Activate
  <1> QED
    BY <1>1, <1>2, <1>3

LEMMA LeaveTypes ==
  ASSUME TypeOK, Leave
  PROVE  /\ latest' \in 0..MaxVersions /\ active' \in 0..MaxVersions
         /\ controller' \in 0..MaxVersions /\ skipping' \in BOOLEAN
         /\ controller' <= active' /\ active' <= latest'
  <1>1. latest' \in 0..MaxVersions /\ active' \in 0..MaxVersions /\ controller' \in 0..MaxVersions
    BY DownloadsAssumption DEF TypeOK, Leave, None
  <1>2. controller' <= active' /\ active' <= latest' /\ skipping' \in BOOLEAN
    BY DownloadsAssumption DEF TypeOK, Leave, None
  <1> QED
    BY <1>1, <1>2

(* Every step is well typed.                                               *)
LEMMA TypeStep ==
  ASSUME TypeOK, Stream, [Next]_vars
  PROVE  TypeOK'
  <1> USE DownloadsAssumption DEF TypeOK, Stream, vars, browserVars, pageVars, wireVars, workerVars, None, Requests
  <1>1. CASE Install
    BY <1>1 DEF Install, Skips
  <1>2. CASE Activate
    <2>1. UNCHANGED <<pageVars, wireVars, workerVars>>
      BY <1>2 DEF Activate
    <2> QED
      BY <1>2, <2>1, ActivateTypes
  <1>3. CASE Terminate
    BY <1>3 DEF Terminate, Forget
  <1>4. CASE RegisterWorker
    BY <1>4 DEF RegisterWorker
  <1>5. CASE RegisterFails
    BY <1>5 DEF RegisterFails
  <1>6. CASE Advertise
    BY <1>6 DEF Advertise, Controlled
  <1>7. CASE MemoryFallback
    BY <1>7 DEF MemoryFallback
  <1>8. CASE Leave
    <2>1. \A t \in Tokens : (IF sink[t] = "none" THEN "none" ELSE "over")
                              \in {"none", "starting", "started", "failed", "over"}
      OBVIOUS
    <2>2. sink' \in [Tokens -> {"none", "starting", "started", "failed", "over"}]
      BY <1>8, <2>1, Zenon DEF Leave
    <2>3. /\ coming' \in [Tokens -> Nat]
          /\ \A t \in Tokens : coming'[t] + arrived'[t] <= MaxRequests
      BY <1>8 DEF Leave, Forget
    <2>4. /\ waiting' \in [Tokens -> {None} \cup Requests]
          /\ held' \in [Tokens -> SUBSET Requests]
      BY <1>8 DEF Leave, Forget
    <2>5. /\ UNCHANGED <<saving, postedTo, arrived, served>>
          /\ messages' = {} /\ acks' = {} /\ pending' = {} /\ open' = FALSE
      BY <1>8 DEF Leave, Forget
    <2> QED
      BY <1>8, <2>2, <2>3, <2>4, <2>5, LeaveTypes
  <1>9. CASE Load
    BY <1>9 DEF Load
  <1>10. CASE \E t \in Tokens : CreateSink(t)
    <2>1. PICK t \in Tokens : CreateSink(t)
      BY <1>10
    <2>2. controller \in 0..MaxVersions
      OBVIOUS
    <2>3. postedTo' \in [Tokens -> 0..MaxVersions]
      BY <2>1, <2>2, Zenon DEF CreateSink
    <2>4. coming' = [coming EXCEPT ![t] = 1] /\ coming[t] + arrived[t] = 0
      BY <2>1 DEF CreateSink
    <2>5. sink' \in [Tokens -> {"none", "starting", "started", "failed", "over"}]
      BY <2>1 DEF CreateSink
    <2> QED
      BY <2>1, <2>3, <2>4, <2>5 DEF CreateSink
  <1>11. CASE \E t \in Tokens : Replay(t)
    BY <1>11 DEF Replay
  <1>12. CASE \E t \in Tokens : HearStarted(t)
    BY <1>12 DEF HearStarted
  <1>13. CASE \E t \in Tokens : StartTimesOut(t)
    BY <1>13 DEF StartTimesOut
  <1>14. CASE \E t \in Tokens : Finish(t)
    BY <1>14 DEF Finish
  <1>15. CASE \E t \in Tokens : HandleRegister(t)
    BY <1>15 DEF HandleRegister, Serve, LetGo, OffFile, HandsOver
  <1>16. CASE \E t \in Tokens : HandleFetch(t)
    <2>1. PICK t \in Tokens : HandleFetch(t)
      BY <1>16
    <2>2. CASE Here(t)
      BY <2>1, <2>2 DEF HandleFetch, Here, Serve
    <2>3. CASE ~Here(t)
      <3>1. arrived[t] + 1 \in 1..MaxRequests
        BY <2>1 DEF HandleFetch
      <3>2. /\ held' \in [Tokens -> SUBSET Requests]
            /\ waiting' \in [Tokens -> {None} \cup Requests]
        BY <2>1, <2>3, <3>1 DEF HandleFetch
      <3>3. /\ coming' \in [Tokens -> Nat] /\ arrived' \in [Tokens -> Nat]
            /\ \A u \in Tokens : coming'[u] + arrived'[u] <= MaxRequests
        BY <2>1 DEF HandleFetch
      <3>4. UNCHANGED <<browserVars, pageVars, messages, pending, served, acks>>
        BY <2>1, <2>3 DEF HandleFetch
      <3> QED
        BY <3>2, <3>3, <3>4
    <2> QED
      BY <2>2, <2>3
  <1>17. CASE \E t \in Tokens : \E r \in held[t] : WaitIsOut(t, r)
    BY <1>17 DEF WaitIsOut, LetGo, OffFile
  <1>18. CASE UNCHANGED vars
    BY <1>18
  <1> QED
    BY <1>1, <1>2, <1>3, <1>4, <1>5, <1>6, <1>7, <1>8, <1>9, <1>10, <1>11, <1>12, <1>13, <1>14, <1>15, <1>16, <1>17, <1>18 DEF Next

(* An update that would claim the page waits, because one is active.       *)
LEMMA LifecycleStep ==
  ASSUME TypeOK, Lifecycle, [Next]_vars
  PROVE  Lifecycle'
  <1> USE DEF Lifecycle, TypeOK, vars, browserVars, pageVars, wireVars, workerVars, None
  <1>1. CASE Install
    BY <1>1 DEF Install, Skips
  <1>2. CASE Activate
    BY <1>2 DEF Activate
  <1>3. CASE Terminate
    BY <1>3 DEF Terminate, Forget
  <1>4. CASE RegisterWorker
    BY <1>4 DEF RegisterWorker
  <1>5. CASE RegisterFails
    BY <1>5 DEF RegisterFails
  <1>6. CASE Advertise
    BY <1>6 DEF Advertise, Controlled
  <1>7. CASE MemoryFallback
    BY <1>7 DEF MemoryFallback
  <1>8. CASE Leave
    BY <1>8 DEF Leave, Forget
  <1>9. CASE Load
    BY <1>9 DEF Load
  <1>10. CASE \E t \in Tokens : CreateSink(t)
    BY <1>10 DEF CreateSink
  <1>11. CASE \E t \in Tokens : Replay(t)
    BY <1>11 DEF Replay
  <1>12. CASE \E t \in Tokens : HearStarted(t)
    BY <1>12 DEF HearStarted
  <1>13. CASE \E t \in Tokens : StartTimesOut(t)
    BY <1>13 DEF StartTimesOut
  <1>14. CASE \E t \in Tokens : Finish(t)
    BY <1>14 DEF Finish
  <1>15. CASE \E t \in Tokens : HandleRegister(t)
    BY <1>15 DEF HandleRegister, Serve, LetGo, OffFile, HandsOver
  <1>16. CASE \E t \in Tokens : HandleFetch(t)
    BY <1>16 DEF HandleFetch, Here, Serve
  <1>17. CASE \E t \in Tokens : \E r \in held[t] : WaitIsOut(t, r)
    BY <1>17 DEF WaitIsOut, LetGo, OffFile
  <1>18. CASE UNCHANGED vars
    BY <1>18
  <1> QED
    BY <1>1, <1>2, <1>3, <1>4, <1>5, <1>6, <1>7, <1>8, <1>9, <1>10, <1>11, <1>12, <1>13, <1>14, <1>15, <1>16, <1>17, <1>18 DEF Next

(* Neither the controller nor what is advertised changes under a token.    *)
LEMMA ReachableStep ==
  ASSUME TypeOK, Lifecycle, Reachable, [Next]_vars
  PROVE  Reachable'
  <1> USE DEF Reachable, Lifecycle, TypeOK, vars, browserVars, pageVars, wireVars, workerVars, None
  <1>1. CASE Install
    BY <1>1 DEF Install, Skips
  <1>2. CASE Activate
    BY <1>2 DEF Activate
  <1>3. CASE Terminate
    BY <1>3 DEF Terminate, Forget
  <1>4. CASE RegisterWorker
    BY <1>4 DEF RegisterWorker
  <1>5. CASE RegisterFails
    BY <1>5 DEF RegisterFails
  <1>6. CASE Advertise
    BY <1>6 DEF Advertise, Controlled
  <1>7. CASE MemoryFallback
    BY <1>7 DEF MemoryFallback
  <1>8. CASE Leave
    BY <1>8 DEF Leave, Forget
  <1>9. CASE Load
    BY <1>9 DEF Load
  <1>10. CASE \E t \in Tokens : CreateSink(t)
    BY <1>10 DEF CreateSink
  <1>11. CASE \E t \in Tokens : Replay(t)
    BY <1>11 DEF Replay
  <1>12. CASE \E t \in Tokens : HearStarted(t)
    BY <1>12 DEF HearStarted
  <1>13. CASE \E t \in Tokens : StartTimesOut(t)
    BY <1>13 DEF StartTimesOut
  <1>14. CASE \E t \in Tokens : Finish(t)
    BY <1>14 DEF Finish
  <1>15. CASE \E t \in Tokens : HandleRegister(t)
    BY <1>15 DEF HandleRegister, Serve, LetGo, OffFile, HandsOver
  <1>16. CASE \E t \in Tokens : HandleFetch(t)
    BY <1>16 DEF HandleFetch, Here, Serve
  <1>17. CASE \E t \in Tokens : \E r \in held[t] : WaitIsOut(t, r)
    BY <1>17 DEF WaitIsOut, LetGo, OffFile
  <1>18. CASE UNCHANGED vars
    BY <1>18
  <1> QED
    BY <1>1, <1>2, <1>3, <1>4, <1>5, <1>6, <1>7, <1>8, <1>9, <1>10, <1>11, <1>12, <1>13, <1>14, <1>15, <1>16, <1>17, <1>18 DEF Next

(* Handing the stream over consumes it.                                    *)
LEMMA StreamStep ==
  ASSUME TypeOK, Stream, [Next]_vars
  PROVE  Stream'
  <1> USE DEF Stream, TypeOK, vars, browserVars, pageVars, wireVars, workerVars, None
  <1>1. CASE Install
    BY <1>1 DEF Install, Skips
  <1>2. CASE Activate
    BY <1>2 DEF Activate
  <1>3. CASE Terminate
    BY <1>3 DEF Terminate, Forget
  <1>4. CASE RegisterWorker
    BY <1>4 DEF RegisterWorker
  <1>5. CASE RegisterFails
    BY <1>5 DEF RegisterFails
  <1>6. CASE Advertise
    BY <1>6 DEF Advertise, Controlled
  <1>7. CASE MemoryFallback
    BY <1>7 DEF MemoryFallback
  <1>8. CASE Leave
    BY <1>8 DEF Leave, Forget
  <1>9. CASE Load
    BY <1>9 DEF Load
  <1>10. CASE \E t \in Tokens : CreateSink(t)
    BY <1>10 DEF CreateSink
  <1>11. CASE \E t \in Tokens : Replay(t)
    BY <1>11 DEF Replay
  <1>12. CASE \E t \in Tokens : HearStarted(t)
    BY <1>12 DEF HearStarted
  <1>13. CASE \E t \in Tokens : StartTimesOut(t)
    BY <1>13 DEF StartTimesOut
  <1>14. CASE \E t \in Tokens : Finish(t)
    BY <1>14 DEF Finish
  <1>15. CASE \E t \in Tokens : HandleRegister(t)
    <2>1. PICK t \in Tokens : HandleRegister(t)
      BY <1>15
    <2>2. CASE waiting[t] # None /\ postedTo[t] = controller
      <3>1. /\ messages' = messages \ {t} /\ acks' = acks \cup {t}
            /\ served' = [served EXCEPT ![t] = @ \cup {waiting[t]}]
            /\ UNCHANGED <<pending, sink, coming, arrived>>
        BY <2>1, <2>2 DEF HandleRegister, Serve, HandsOver
      <3>2. t \in messages /\ served[t] = {}
        BY <2>1 DEF HandleRegister
      <3> QED
        BY <3>1, <3>2
    <2>3. CASE ~(waiting[t] # None /\ postedTo[t] = controller)
      BY <2>1, <2>3 DEF HandleRegister
    <2> QED
      BY <2>2, <2>3
  <1>16. CASE \E t \in Tokens : HandleFetch(t)
    <2>1. PICK t \in Tokens : HandleFetch(t)
      BY <1>16
    <2>2. CASE Here(t)
      BY <2>1, <2>2 DEF HandleFetch, Here, Serve
    <2>3. CASE ~Here(t)
      BY <2>1, <2>3 DEF HandleFetch
    <2> QED
      BY <2>2, <2>3
  <1>17. CASE \E t \in Tokens : \E r \in held[t] : WaitIsOut(t, r)
    BY <1>17 DEF WaitIsOut, LetGo, OffFile
  <1>18. CASE UNCHANGED vars
    BY <1>18
  <1> QED
    BY <1>1, <1>2, <1>3, <1>4, <1>5, <1>6, <1>7, <1>8, <1>9, <1>10, <1>11, <1>12, <1>13, <1>14, <1>15, <1>16, <1>17, <1>18 DEF Next

(* A new request goes on file, and the timers end the oldest wait first.   *)
LEMMA OnFileStep ==
  ASSUME TypeOK, Stream, OnFile, [Next]_vars
  PROVE  OnFile'
  <1> USE DEF OnFile, Stream, TypeOK, vars, browserVars, pageVars, wireVars, workerVars, None, Requests
  <1>1. CASE Install
    BY <1>1 DEF Install, Skips
  <1>2. CASE Activate
    BY <1>2 DEF Activate
  <1>3. CASE Terminate
    BY <1>3 DEF Terminate, Forget
  <1>4. CASE RegisterWorker
    BY <1>4 DEF RegisterWorker
  <1>5. CASE RegisterFails
    BY <1>5 DEF RegisterFails
  <1>6. CASE Advertise
    BY <1>6 DEF Advertise, Controlled
  <1>7. CASE MemoryFallback
    BY <1>7 DEF MemoryFallback
  <1>8. CASE Leave
    BY <1>8 DEF Leave, Forget
  <1>9. CASE Load
    BY <1>9 DEF Load
  <1>10. CASE \E t \in Tokens : CreateSink(t)
    BY <1>10 DEF CreateSink
  <1>11. CASE \E t \in Tokens : Replay(t)
    BY <1>11 DEF Replay
  <1>12. CASE \E t \in Tokens : HearStarted(t)
    BY <1>12 DEF HearStarted
  <1>13. CASE \E t \in Tokens : StartTimesOut(t)
    BY <1>13 DEF StartTimesOut
  <1>14. CASE \E t \in Tokens : Finish(t)
    BY <1>14 DEF Finish
  <1>15. CASE \E t \in Tokens : HandleRegister(t)
    BY <1>15 DEF HandleRegister, Serve, LetGo, OffFile, HandsOver
  <1>16. CASE \E t \in Tokens : HandleFetch(t)
    <2>1. PICK t \in Tokens : HandleFetch(t)
      BY <1>16
    <2>2. CASE Here(t)
      BY <2>1, <2>2 DEF HandleFetch, Here, Serve
    <2>3. CASE ~Here(t)
      <3>1. /\ held' = [held EXCEPT ![t] = @ \cup {arrived[t] + 1}]
            /\ waiting' = [waiting EXCEPT ![t] = arrived[t] + 1]
            /\ arrived' = [arrived EXCEPT ![t] = @ + 1]
            /\ UNCHANGED served
        BY <2>1, <2>3 DEF HandleFetch
      <3>2. arrived[t] \in Nat /\ held[t] \subseteq 1..MaxRequests
        OBVIOUS
      <3> QED
        BY <3>1, <3>2
    <2> QED
      BY <2>2, <2>3
  <1>17. CASE \E t \in Tokens : \E r \in held[t] : WaitIsOut(t, r)
    BY <1>17 DEF WaitIsOut, LetGo, OffFile
  <1>18. CASE UNCHANGED vars
    BY <1>18
  <1> QED
    BY <1>1, <1>2, <1>3, <1>4, <1>5, <1>6, <1>7, <1>8, <1>9, <1>10, <1>11, <1>12, <1>13, <1>14, <1>15, <1>16, <1>17, <1>18 DEF Next

(* Whoever registers a token, or asks for it, finds the other.             *)
LEMMA WaitsStep ==
  ASSUME TypeOK, Reachable, Stream, OnFile, NobodyWaitsInVain, [Next]_vars
  PROVE  NobodyWaitsInVain'
  <1> USE DEF NobodyWaitsInVain, OnFile, Reachable, Stream, TypeOK, vars, browserVars, pageVars, wireVars, workerVars, None
  <1>1. CASE Install
    BY <1>1 DEF Install, Skips
  <1>2. CASE Activate
    BY <1>2 DEF Activate
  <1>3. CASE Terminate
    BY <1>3 DEF Terminate, Forget
  <1>4. CASE RegisterWorker
    BY <1>4 DEF RegisterWorker
  <1>5. CASE RegisterFails
    BY <1>5 DEF RegisterFails
  <1>6. CASE Advertise
    BY <1>6 DEF Advertise, Controlled
  <1>7. CASE MemoryFallback
    BY <1>7 DEF MemoryFallback
  <1>8. CASE Leave
    BY <1>8 DEF Leave, Forget
  <1>9. CASE Load
    BY <1>9 DEF Load
  <1>10. CASE \E t \in Tokens : CreateSink(t)
    BY <1>10 DEF CreateSink
  <1>11. CASE \E t \in Tokens : Replay(t)
    BY <1>11 DEF Replay
  <1>12. CASE \E t \in Tokens : HearStarted(t)
    BY <1>12 DEF HearStarted
  <1>13. CASE \E t \in Tokens : StartTimesOut(t)
    BY <1>13 DEF StartTimesOut
  <1>14. CASE \E t \in Tokens : Finish(t)
    BY <1>14 DEF Finish
  <1>15. CASE \E t \in Tokens : HandleRegister(t)
    <2>1. PICK t \in Tokens : HandleRegister(t)
      BY <1>15
    <2>2. CASE waiting[t] # None /\ postedTo[t] = controller
      BY <2>1, <2>2 DEF HandleRegister, LetGo, OffFile, HandsOver
    <2>3. CASE ~(waiting[t] # None /\ postedTo[t] = controller)
      BY <2>1, <2>3 DEF HandleRegister
    <2> QED
      BY <2>2, <2>3
  <1>16. CASE \E t \in Tokens : HandleFetch(t)
    BY <1>16 DEF HandleFetch, Here, Serve
  <1>17. CASE \E t \in Tokens : \E r \in held[t] : WaitIsOut(t, r)
    BY <1>17 DEF WaitIsOut, LetGo, OffFile
  <1>18. CASE UNCHANGED vars
    BY <1>18
  <1> QED
    BY <1>1, <1>2, <1>3, <1>4, <1>5, <1>6, <1>7, <1>8, <1>9, <1>10, <1>11, <1>12, <1>13, <1>14, <1>15, <1>16, <1>17, <1>18 DEF Next

-----------------------------------------------------------------------------
IInv == TypeOK /\ Lifecycle /\ Reachable /\ Stream /\ OnFile /\ NobodyWaitsInVain

LEMMA InitIInv == Init => IInv
  <1> SUFFICES ASSUME Init PROVE IInv
    OBVIOUS
  <1> USE DEF Init, None
  <1>1. TypeOK
    <2>1. /\ coming \in [Tokens -> Nat] /\ arrived \in [Tokens -> Nat]
          /\ \A t \in Tokens : coming[t] + arrived[t] <= MaxRequests
      BY DownloadsAssumption
    <2>2. /\ waiting \in [Tokens -> {None} \cup Requests]
          /\ held \in [Tokens -> SUBSET Requests]
          /\ served \in [Tokens -> SUBSET Requests]
      BY DEF Requests
    <2>3. /\ sink \in [Tokens -> {"none", "starting", "started", "failed", "over"}]
          /\ postedTo \in [Tokens -> 0..MaxVersions]
      BY DownloadsAssumption
    <2> QED
      <3>1. /\ latest \in 0..MaxVersions /\ active \in 0..MaxVersions
            /\ controller \in 0..MaxVersions
            /\ controller <= active /\ active <= latest
        BY DownloadsAssumption
      <3>2. /\ skipping \in BOOLEAN /\ open \in BOOLEAN
            /\ messages \subseteq Tokens /\ acks \subseteq Tokens
            /\ pending \subseteq Tokens
            /\ saving \in {"undecided", "registered", "sw-stream", "blob"}
        OBVIOUS
      <3> HIDE DEF Init
      <3> QED
        BY <2>1, <2>2, <2>3, <3>1, <3>2 DEF TypeOK
  <1>2. Lifecycle /\ Reachable
    BY DEF Lifecycle, Reachable
  <1>3. Stream
    BY DEF Stream
  <1>4. OnFile /\ NobodyWaitsInVain
    BY DEF OnFile, NobodyWaitsInVain
  <1> QED
    BY <1>1, <1>2, <1>3, <1>4 DEF IInv

(* The invariant holds in every reachable state.                           *)
LEMMA Invariance == Spec => []IInv
  <1>1. IInv /\ [Next]_vars => IInv'
    BY TypeStep, LifecycleStep, ReachableStep, StreamStep, OnFileStep, WaitsStep DEF IInv
  <1> QED
    BY InitIInv, <1>1, PTL DEF Spec

(* Every reachable state is well typed, for any number of files, requests  *)
(* and versions.                                                           *)
THEOREM TypeCorrect == Spec => []TypeOK
  <1>1. IInv => TypeOK
    BY DEF IInv
  <1> QED
    BY Invariance, <1>1, PTL

(* However often a download's URL is asked for and whenever the worker is  *)
(* ended or replaced, its stream is read once, and the page writes into no *)
(* stream that nobody was given.                                           *)
THEOREM StreamsAreReadOnce == Spec => []StreamReadOnce
  <1>1. IInv => StreamReadOnce
    BY DEF IInv, Stream, StreamReadOnce
  <1> QED
    BY Invariance, <1>1, PTL

(* A token in the registry and a request held for it never miss each other.*)
THEOREM TheRaceIsRescued == Spec => []NobodyWaitsInVain
  <1>1. IInv => NobodyWaitsInVain
    BY DEF IInv
  <1> QED
    BY Invariance, <1>1, PTL

(* What the page advertised stays true: it is controlled, and the tokens   *)
(* it posted are with the worker that will be asked for them.              *)
THEOREM AdvertisedStaysUsable == Spec => []AdvertisedIsUsable
  <1>1. IInv => AdvertisedIsUsable
    BY DEF IInv, Lifecycle, Reachable, AdvertisedIsUsable
  <1> QED
    BY Invariance, <1>1, PTL
-----------------------------------------------------------------------------
(***************************************************************************)
(* What a page takes is one share, whole, for any number of shares of any  *)
(* size. The argument follows a share that was stashed while no other was: *)
(* the Cache it writes to is empty when it opens it, nobody else writes to *)
(* it, and once it has an index nobody will, for the next stash begins by  *)
(* taking the name away.                                                   *)
(***************************************************************************)

(* Every Cache was created by a call that opened it first.                 *)
Openers == {s \in Shares : into[s] # NoCache}
Readers == {s \in Shares : from[s] # NoCache}

Counted ==
  /\ created <= Cardinality(Openers) + Cardinality(Readers)
  /\ named <= created
  /\ \A s \in Shares :
       /\ into[s] <= created /\ from[s] <= created
       /\ stash[s] \in {"none", "deleted"} => into[s] = NoCache
       /\ stash[s] = "opened" => into[s] # NoCache
       /\ take[s] = "none" => from[s] = NoCache
       /\ take[s] \in {"opened", "reading"} => from[s] # NoCache

Untouched == \A c \in Caches : c > created => index[c] = "none" /\ bodies[c] = {}

(* A share stashed while no other was: what it writes to is its own.       *)
Whole(s) == Positions(s) \X {s}
Alone ==
  \A s \in Stashing \ overlapped :
    /\ Stashing = {s}
    /\ stash[s] = "deleted" /\ named # NoCache => index[named] = "none" /\ bodies[named] = {}
    /\ stash[s] = "opened" =>
         index[into[s]] = "none" /\ bodies[into[s]] \subseteq Whole(s)

(* Once it is indexed it stays as it is.                                   *)
Settled(c) ==
  /\ bodies[c] = Whole(index[c])
  /\ \A t \in Shares : stash[t] = "opened" => into[t] # c
  /\ named = c => Stashing = {}
Kept == \A c \in Caches : index[c] \in Shares \ overlapped => Settled(c)

(* What a page has read so far is that share's.                            *)
Reads(p) ==
  /\ take[p] \in {"none", "opened"} => got[p] = <<>>
  /\ take[p] \in {"reading", "taken"} => found[p] \in Shares
  /\ take[p] \in {"reading", "taken"} /\ found[p] \notin overlapped =>
       /\ Len(got[p]) <= Size[found[p]]
       /\ \A i \in 1..Len(got[p]) : got[p][i] = {found[p]}
       /\ take[p] = "reading" => index[from[p]] = found[p]
       /\ take[p] = "taken" => Len(got[p]) = Size[found[p]]

InboxInv ==
  /\ InboxTypeOK /\ Counted /\ Untouched /\ Alone /\ Kept
  /\ \A p \in Shares : Reads(p)
-----------------------------------------------------------------------------
LEMMA CachesFact ==
  /\ Cardinality(Shares) \in Nat
  /\ Caches = 1..(2 * Cardinality(Shares)) /\ NoCache \notin Caches
  /\ {NoCache} \cup Caches = 0..(2 * Cardinality(Shares))
<1>1. Cardinality(Shares) \in Nat
  BY ShareInboxAssumption, FS_CardinalityType
<1> QED
  BY <1>1 DEF Caches, NoCache

(* A call that opens for the first time leaves room for a Cache of its own. *)
LEMMA RoomFact ==
  ASSUME NEW O, NEW R, O \subseteq Shares, R \subseteq Shares
  PROVE  /\ Cardinality(O) \in Nat /\ Cardinality(R) \in Nat
         /\ Cardinality(O) + Cardinality(R) <= 2 * Cardinality(Shares)
         /\ \A s \in Shares \ O : Cardinality(O \cup {s}) = Cardinality(O) + 1
<1>1. /\ IsFiniteSet(O) /\ Cardinality(O) <= Cardinality(Shares)
      /\ IsFiniteSet(R) /\ Cardinality(R) <= Cardinality(Shares)
  BY ShareInboxAssumption, FS_Subset
<1>2. Cardinality(O) \in Nat /\ Cardinality(R) \in Nat /\ Cardinality(Shares) \in Nat
  BY <1>1, ShareInboxAssumption, FS_CardinalityType
<1>3. \A s \in Shares \ O : Cardinality(O \cup {s}) = Cardinality(O) + 1
  BY <1>1, FS_AddElement
<1> QED
  BY <1>1, <1>2, <1>3

LEMMA OpenFact ==
  ASSUME InboxInv, NEW s \in Shares, Open,
         \/ stash[s] = "deleted" /\ into' = [into EXCEPT ![s] = Opened] /\ from' = from
         \/ take[s] = "none" /\ from' = [from EXCEPT ![s] = Opened] /\ into' = into
  PROVE  /\ Opened \in Caches /\ named' = Opened /\ created' \in {NoCache} \cup Caches
         /\ created <= created' /\ Opened <= created'
         /\ named = NoCache => Opened > created
         /\ named # NoCache => Opened = named
         /\ created' <= Cardinality(Openers') + Cardinality(Readers')
<1>1. created \in Nat /\ named \in Nat /\ named <= created
  BY CachesFact DEF InboxInv, InboxTypeOK, Counted
<1>2. /\ Cardinality(Openers) \in Nat /\ Cardinality(Readers) \in Nat
      /\ Cardinality(Openers') \in Nat /\ Cardinality(Readers') \in Nat
      /\ Cardinality(Openers') + Cardinality(Readers') <= 2 * Cardinality(Shares)
  BY RoomFact DEF Openers, Readers
<1>3. Opened # NoCache
  BY <1>1 DEF Opened, NoCache
<1>4. Cardinality(Openers') + Cardinality(Readers') = Cardinality(Openers) + Cardinality(Readers) + 1
  <2>1. CASE stash[s] = "deleted" /\ into' = [into EXCEPT ![s] = Opened] /\ from' = from
    <3>1. s \notin Openers /\ Openers' = Openers \cup {s} /\ Readers' = Readers
      BY <2>1, <1>3 DEF InboxInv, InboxTypeOK, Counted, Openers, Readers
    <3> QED
      BY <3>1, <1>2, RoomFact DEF Openers
  <2>2. CASE take[s] = "none" /\ from' = [from EXCEPT ![s] = Opened] /\ into' = into
    <3>1. s \notin Readers /\ Readers' = Readers \cup {s} /\ Openers' = Openers
      BY <2>2, <1>3 DEF InboxInv, InboxTypeOK, Counted, Openers, Readers
    <3>2. Cardinality(Readers \cup {s}) = Cardinality(Readers) + 1
      BY <3>1, RoomFact DEF Readers
    <3> QED
      BY <3>1, <3>2, <1>2
  <2> QED
    BY <2>1, <2>2
<1>5. created <= Cardinality(Openers) + Cardinality(Readers)
  BY DEF InboxInv, Counted
<1> QED
  BY <1>1, <1>2, <1>3, <1>4, <1>5, CachesFact DEF Open, Opened, NoCache, InboxInv, InboxTypeOK
-----------------------------------------------------------------------------
LEMMA InitInboxInv == InboxInit => InboxInv
<1> SUFFICES ASSUME InboxInit PROVE InboxInv
  OBVIOUS
<1>1. InboxTypeOK
  BY CachesFact DEF InboxInit, InboxTypeOK
<1>2. Counted
  <2>1. Cardinality(Openers) \in Nat /\ Cardinality(Readers) \in Nat
    BY RoomFact DEF Openers, Readers
  <2> QED
    BY <2>1 DEF InboxInit, Counted, NoCache
<1>3. Untouched /\ Alone /\ Kept
  BY ShareInboxAssumption DEF InboxInit, Untouched, Alone, Kept, Stashing
<1>4. \A p \in Shares : Reads(p)
  BY DEF InboxInit, Reads
<1> QED
  BY <1>1, <1>2, <1>3, <1>4 DEF InboxInv

(* The name is taken away before anything is written.                      *)
LEMMA StashDeleteInv ==
  ASSUME InboxInv, NEW s \in Shares, StashDelete(s) PROVE InboxInv'
<1>1. InboxTypeOK'
  BY DEF InboxInv, InboxTypeOK, StashDelete, DropsEarlier, takeVars, Stashing
<1>2. Counted'
  <2>1. Openers' = Openers /\ Readers' = Readers
    BY DEF StashDelete, takeVars, Openers, Readers
  <2> QED
    BY <2>1, CachesFact DEF InboxInv, InboxTypeOK, Counted, StashDelete, DropsEarlier, takeVars, NoCache
<1>3. Stashing' = Stashing \cup {s}
  BY DEF InboxInv, InboxTypeOK, StashDelete, Stashing
<1>4. Untouched'
  BY DEF InboxInv, Untouched, StashDelete
<1>5. Alone'
  <2> SUFFICES ASSUME NEW t \in Stashing', t \notin overlapped'
               PROVE  /\ Stashing' = {t}
                      /\ stash'[t] = "deleted" /\ named' = NoCache
    BY DEF Alone, Stashing
  <2>1. Stashing = {}
    BY <1>3 DEF InboxInv, InboxTypeOK, StashDelete
  <2> QED
    BY <1>3, <2>1 DEF InboxInv, InboxTypeOK, StashDelete, DropsEarlier
<1>6. Kept'
  <2> SUFFICES ASSUME NEW c \in Caches, index[c] \in Shares \ overlapped'
               PROVE  Settled(c)'
    BY DEF Kept, StashDelete
  <2>1. Settled(c) /\ named' = NoCache
    BY DEF InboxInv, InboxTypeOK, Kept, StashDelete, DropsEarlier
  <2> QED
    BY <2>1, CachesFact DEF InboxInv, InboxTypeOK, Settled, StashDelete, Whole, Positions
<1>7. \A p \in Shares : Reads(p)'
  BY DEF InboxInv, InboxTypeOK, Reads, StashDelete, takeVars
<1> QED
  BY <1>1, <1>2, <1>4, <1>5, <1>6, <1>7 DEF InboxInv

LEMMA StashOpenInv ==
  ASSUME InboxInv, NEW s \in Shares, StashOpen(s) PROVE InboxInv'
<1>1. /\ Opened \in Caches /\ named' = Opened /\ created' \in {NoCache} \cup Caches
      /\ created <= created' /\ Opened <= created'
      /\ named = NoCache => Opened > created
      /\ named # NoCache => Opened = named
      /\ created' <= Cardinality(Openers') + Cardinality(Readers')
  BY OpenFact DEF StashOpen, takeVars
<1>2. InboxTypeOK'
  BY <1>1 DEF InboxInv, InboxTypeOK, StashOpen, takeVars
<1>3. Counted'
  BY <1>1, <1>2, CachesFact DEF InboxInv, InboxTypeOK, Counted, StashOpen, takeVars, NoCache
<1>4. Untouched'
  BY <1>1, CachesFact DEF InboxInv, InboxTypeOK, Untouched, StashOpen, NoCache
<1>5. Stashing' = Stashing /\ s \in Stashing
  BY DEF InboxInv, InboxTypeOK, StashOpen, Stashing
<1>6. Alone'
  <2> SUFFICES ASSUME NEW t \in Stashing', t \notin overlapped' PROVE
                 /\ Stashing' = {t}
                 /\ stash'[t] = "opened"
                 /\ index'[into'[t]] = "none" /\ bodies'[into'[t]] = {}
    BY DEF Alone
  <2>1. Stashing = {s} /\ t = s
    BY <1>5 DEF InboxInv, Alone, StashOpen
  <2>2. index[Opened] = "none" /\ bodies[Opened] = {}
    BY <1>1, <1>5, <2>1 DEF InboxInv, Alone, Untouched, StashOpen
  <2> QED
    BY <1>5, <2>1, <2>2 DEF InboxInv, InboxTypeOK, StashOpen
<1>7. Kept'
  <2> SUFFICES ASSUME NEW c \in Caches, index[c] \in Shares \ overlapped
               PROVE  Settled(c)'
    BY DEF Kept, StashOpen
  <2>1. Settled(c) /\ c <= created
    <3>1. Settled(c)
      BY DEF InboxInv, Kept
    <3>2. index[c] # "none" /\ c \in Int /\ created \in Int
      BY ShareInboxAssumption, CachesFact DEF InboxInv, InboxTypeOK
    <3> QED
      BY <3>1, <3>2 DEF InboxInv, Untouched
  <2>2. named # c
    BY <1>5, <2>1 DEF Settled
  <2>3. Opened # c
    BY <1>1, <2>1, <2>2, CachesFact DEF InboxInv, InboxTypeOK, NoCache
  <2> QED
    BY <1>1, <2>1, <2>3 DEF InboxInv, InboxTypeOK, Settled, StashOpen, Whole, Positions
<1>8. \A p \in Shares : Reads(p)'
  BY DEF InboxInv, InboxTypeOK, Reads, StashOpen, takeVars
<1> QED
  BY <1>2, <1>3, <1>4, <1>6, <1>7, <1>8 DEF InboxInv

(* Nobody writes to the Cache of a share already indexed.                  *)
LEMMA StashBodyInv ==
  ASSUME InboxInv, NEW s \in Shares, NEW i \in Positions(s), StashBody(s, i) PROVE InboxInv'
<1>1. into[s] \in Caches /\ into[s] <= created
  BY DEF InboxInv, InboxTypeOK, Counted, StashBody
<1>2. Put(s, i) \subseteq Nat \X Shares
  BY <1>1, ShareInboxAssumption DEF InboxInv, InboxTypeOK, Put, Positions
<1>3. InboxTypeOK'
  BY <1>1, <1>2 DEF InboxInv, InboxTypeOK, StashBody, stashVars, takeVars
<1>4. Counted'
  <2>1. Openers' = Openers /\ Readers' = Readers
    BY DEF StashBody, stashVars, takeVars, Openers, Readers
  <2> QED
    BY <2>1 DEF InboxInv, Counted, StashBody, stashVars, takeVars
<1>5. Stashing' = Stashing /\ s \in Stashing
  BY DEF StashBody, stashVars, Stashing
<1>6. Untouched'
  BY <1>1, CachesFact DEF InboxInv, InboxTypeOK, Untouched, StashBody
<1>7. Alone'
  <2> SUFFICES ASSUME NEW t \in Stashing, t \notin overlapped PROVE
                 /\ Stashing = {t}
                 /\ stash[t] = "opened"
                 /\ index[into[t]] = "none" /\ bodies'[into[t]] \subseteq Whole(t)
    BY <1>5 DEF Alone, StashBody, stashVars, Whole, Positions
  <2>1. /\ Stashing = {s} /\ t = s
        /\ index[into[s]] = "none" /\ bodies[into[s]] \subseteq Whole(s)
    BY <1>5 DEF InboxInv, Alone, StashBody
  <2>2. bodies'[into[s]] = Put(s, i)
    BY <1>1 DEF InboxInv, InboxTypeOK, StashBody
  <2>3. Put(s, i) \subseteq Whole(s)
    BY <2>1 DEF Put, Whole
  <2> QED
    BY <2>1, <2>2, <2>3 DEF StashBody
<1>8. Kept'
  <2> SUFFICES ASSUME NEW c \in Caches, index[c] \in Shares \ overlapped
               PROVE  Settled(c)'
    BY DEF Kept, StashBody, stashVars
  <2>1. Settled(c)
    BY DEF InboxInv, Kept
  <2>2. into[s] # c
    BY <2>1 DEF Settled, StashBody
  <2> QED
    BY <1>5, <2>1, <2>2 DEF InboxInv, InboxTypeOK, Settled, StashBody, stashVars, Whole, Positions
<1>9. \A p \in Shares : Reads(p)'
  BY DEF InboxInv, Reads, StashBody, stashVars, takeVars
<1> QED
  BY <1>3, <1>4, <1>6, <1>7, <1>8, <1>9 DEF InboxInv

LEMMA StashIndexInv ==
  ASSUME InboxInv, NEW s \in Shares, StashIndex(s) PROVE InboxInv'
<1>1. into[s] \in Caches /\ into[s] <= created
  BY DEF InboxInv, InboxTypeOK, Counted, StashIndex
<1>2. InboxTypeOK'
  BY <1>1 DEF InboxInv, InboxTypeOK, StashIndex, takeVars
<1>3. Counted'
  <2>1. Openers' = Openers /\ Readers' = Readers
    BY DEF StashIndex, takeVars, Openers, Readers
  <2> QED
    BY <2>1 DEF InboxInv, InboxTypeOK, Counted, StashIndex, takeVars
<1>4. Stashing' = Stashing \ {s} /\ s \in Stashing
  BY DEF InboxInv, InboxTypeOK, StashIndex, Stashing
<1>5. Untouched'
  BY <1>1, CachesFact DEF InboxInv, InboxTypeOK, Untouched, StashIndex
<1>6. Alone'
  <2> SUFFICES ASSUME NEW t \in Stashing', t \notin overlapped PROVE FALSE
    BY DEF Alone, StashIndex
  <2> QED
    BY <1>4 DEF InboxInv, Alone
<1>7. Kept'
  <2> SUFFICES ASSUME NEW c \in Caches, index'[c] \in Shares \ overlapped
               PROVE  Settled(c)'
    BY DEF Kept, StashIndex
  <2>1. CASE c = into[s]
    <3>1. index'[c] = s /\ s \notin overlapped
      BY <1>1, <2>1 DEF InboxInv, InboxTypeOK, StashIndex
    <3>2. Stashing = {s} /\ bodies[c] \subseteq Whole(s)
      BY <1>4, <2>1, <3>1 DEF InboxInv, Alone, StashIndex
    <3>3. bodies[c] = Whole(s)
      BY <2>1, <3>2 DEF StashIndex, AllPut, Whole
    <3>4. Stashing' = {} /\ \A t \in Shares : stash'[t] # "opened"
      BY <1>4, <3>2 DEF Stashing
    <3> QED
      BY <3>1, <3>3, <3>4 DEF Settled, StashIndex, Whole, Positions
  <2>2. CASE c # into[s]
    <3>1. index'[c] = index[c] /\ Settled(c)
      BY <1>1, <2>2 DEF InboxInv, InboxTypeOK, Kept, StashIndex
    <3> QED
      BY <1>4, <3>1 DEF InboxInv, InboxTypeOK, Settled, StashIndex, Whole, Positions
  <2> QED
    BY <2>1, <2>2
<1>8. \A p \in Shares : Reads(p)'
  <2> SUFFICES ASSUME NEW p \in Shares, take[p] = "reading", found[p] \in Shares \ overlapped
               PROVE  index'[from[p]] = found[p]
    BY DEF InboxInv, Reads, StashIndex, takeVars
  <2>1. index[from[p]] = found[p] /\ from[p] \in Caches
    BY DEF InboxInv, InboxTypeOK, Reads, Counted
  <2>2. from[p] # into[s]
    BY <2>1 DEF InboxInv, Kept, Settled, StashIndex
  <2> QED
    BY <1>1, <2>1, <2>2 DEF InboxInv, InboxTypeOK, StashIndex
<1> QED
  BY <1>2, <1>3, <1>5, <1>6, <1>7, <1>8 DEF InboxInv

LEMMA TerminateInv ==
  ASSUME InboxInv, WorkerEnds PROVE InboxInv'
<1>1. InboxTypeOK'
  BY DEF InboxInv, InboxTypeOK, WorkerEnds, cacheVars, takeVars
<1>2. Counted'
  <2>1. Openers' = Openers /\ Readers' = Readers
    BY DEF WorkerEnds, takeVars, Openers, Readers
  <2> QED
    BY <2>1 DEF InboxInv, Counted, WorkerEnds, Stashing, cacheVars, takeVars
<1>3. Stashing' = {} /\ \A t \in Shares : stash'[t] # "opened"
  BY DEF WorkerEnds, Stashing
<1>4. Untouched'
  BY DEF InboxInv, Untouched, WorkerEnds, cacheVars
<1>5. Alone'
  BY <1>3 DEF Alone
<1>6. Kept'
  BY <1>3 DEF InboxInv, Kept, Settled, WorkerEnds, cacheVars, Whole, Positions
<1>7. \A p \in Shares : Reads(p)'
  BY DEF InboxInv, Reads, WorkerEnds, cacheVars, takeVars
<1> QED
  BY <1>1, <1>2, <1>4, <1>5, <1>6, <1>7 DEF InboxInv

(* A page changes no Cache; what it opens first is new.                    *)
LEMMA TakeOpenInv ==
  ASSUME InboxInv, NEW s \in Shares, TakeOpen(s) PROVE InboxInv'
<1>1. /\ Opened \in Caches /\ named' = Opened /\ created' \in {NoCache} \cup Caches
      /\ created <= created' /\ Opened <= created'
      /\ named = NoCache => Opened > created
      /\ named # NoCache => Opened = named
      /\ created' <= Cardinality(Openers') + Cardinality(Readers')
  BY OpenFact DEF TakeOpen, stashVars
<1>2. InboxTypeOK'
  BY <1>1 DEF InboxInv, InboxTypeOK, TakeOpen, stashVars
<1>3. Counted'
  BY <1>1, <1>2, CachesFact DEF InboxInv, InboxTypeOK, Counted, TakeOpen, stashVars, NoCache
<1>4. Untouched'
  BY <1>1, CachesFact DEF InboxInv, InboxTypeOK, Untouched, TakeOpen, NoCache
<1>5. Stashing' = Stashing
  BY DEF TakeOpen, stashVars, Stashing
<1>6. Alone'
  <2> SUFFICES ASSUME NEW t \in Stashing, t \notin overlapped, stash[t] = "deleted"
               PROVE  index[Opened] = "none" /\ bodies[Opened] = {}
    BY <1>1, <1>5 DEF InboxInv, Alone, TakeOpen, stashVars, Whole, Positions
  <2> QED
    BY <1>1 DEF InboxInv, Alone, Untouched
<1>7. Kept'
  <2> SUFFICES ASSUME NEW c \in Caches, index[c] \in Shares \ overlapped
               PROVE  Settled(c)'
    BY DEF Kept, TakeOpen, stashVars
  <2>1. Settled(c)
    BY DEF InboxInv, Kept
  <2>2. c <= created
    <3>1. index[c] # "none" /\ c \in Int /\ created \in Int
      BY ShareInboxAssumption, CachesFact DEF InboxInv, InboxTypeOK
    <3> QED
      BY <3>1 DEF InboxInv, Untouched
  <2>3. named' = c => named = c
    BY <1>1, <2>2, CachesFact DEF InboxInv, InboxTypeOK, NoCache
  <2> QED
    BY <1>5, <2>1, <2>3 DEF Settled, TakeOpen, stashVars, Whole, Positions
<1>8. \A p \in Shares : Reads(p)'
  BY DEF InboxInv, InboxTypeOK, Reads, TakeOpen, stashVars
<1> QED
  BY <1>2, <1>3, <1>4, <1>6, <1>7, <1>8 DEF InboxInv

(* The other steps of a page change only what it has read, or the name.    *)
LEMMA CachesKept ==
  ASSUME InboxInv, InboxTypeOK', UNCHANGED <<created, index, bodies, stashVars, from>>,
         named' \in {named, NoCache},
         \A p \in Shares : take'[p] = "none" => take[p] = "none",
         \A p \in Shares : take'[p] \in {"opened", "reading"} => take[p] \in {"opened", "reading"}
  PROVE  Counted' /\ Untouched' /\ Alone' /\ Kept'
<1>1. Openers' = Openers /\ Readers' = Readers /\ Stashing' = Stashing
  BY DEF stashVars, Openers, Readers, Stashing
<1>2. Counted'
  BY <1>1, CachesFact DEF InboxInv, InboxTypeOK, Counted, stashVars, NoCache
<1>3. Untouched'
  BY DEF InboxInv, Untouched
<1>4. Alone'
  BY <1>1 DEF InboxInv, Alone, stashVars, Whole, Positions
<1>5. Kept'
  BY <1>1, CachesFact DEF InboxInv, Kept, Settled, stashVars, Whole, Positions
<1> QED
  BY <1>2, <1>3, <1>4, <1>5

LEMMA TakeInv ==
  ASSUME InboxInv, NEW s \in Shares,
         TakeIndex(s) \/ TakeBody(s) \/ TakeDelete(s) \/ ClosePage(s)
  PROVE  InboxInv'
<1>1. ASSUME TakeIndex(s) PROVE InboxInv'
  <2>1. from[s] \in Caches /\ found'[s] = index[from[s]]
    BY <1>1 DEF InboxInv, InboxTypeOK, Counted, TakeIndex
  <2>2. InboxTypeOK'
    BY <1>1, <2>1 DEF InboxInv, InboxTypeOK, TakeIndex, cacheVars, stashVars
  <2>3. \A p \in Shares : Reads(p)'
    <3> SUFFICES ASSUME NEW p \in Shares PROVE Reads(p)'
      OBVIOUS
    <3>1. CASE p = s
      <4>1. got'[s] = <<>> /\ take[s] = "opened"
        BY <1>1 DEF InboxInv, Reads, TakeIndex
      <4>2. take'[s] \in {"missed", "reading"}
        BY <1>1 DEF InboxInv, InboxTypeOK, TakeIndex
      <4>3. ASSUME take'[s] = "reading"
            PROVE  /\ found'[s] \in Shares /\ index'[from'[s]] = found'[s]
                   /\ Size[found'[s]] \in Nat
        <5>1. index[from[s]] # "none" /\ index[from[s]] \in Shares \cup {"none"}
          BY <1>1, <2>1, <4>3 DEF InboxInv, InboxTypeOK, TakeIndex
        <5> QED
          BY <1>1, <2>1, <5>1, ShareInboxAssumption DEF TakeIndex, cacheVars
      <4> QED
        BY <3>1, <4>1, <4>2, <4>3 DEF Reads
    <3>2. CASE p # s
      BY <1>1, <3>2 DEF InboxInv, InboxTypeOK, Reads, TakeIndex, cacheVars, stashVars
    <3> QED
      BY <3>1, <3>2
  <2>4. Counted' /\ Untouched' /\ Alone' /\ Kept'
    BY <1>1, <2>2, CachesKept DEF InboxInv, InboxTypeOK, TakeIndex, cacheVars
  <2> QED
    BY <2>2, <2>3, <2>4 DEF InboxInv
<1>2. ASSUME TakeBody(s) PROVE InboxInv'
  <2> DEFINE here == {b[2] : b \in {x \in bodies[from[s]] : x[1] = Read(s)}}
  <2>1. from[s] \in Caches /\ found[s] \in Shares
    BY <1>2 DEF InboxInv, InboxTypeOK, Counted, Reads, TakeBody
  <2>2. here \in SUBSET Shares /\ got' = [got EXCEPT ![s] = Append(got[s], here)]
    BY <1>2, <2>1 DEF InboxInv, InboxTypeOK, TakeBody
  <2>3. InboxTypeOK'
    BY <1>2, <2>2 DEF InboxInv, InboxTypeOK, TakeBody, cacheVars, stashVars
  <2>4. ASSUME found[s] \notin overlapped PROVE here = {found[s]}
    <3>1. bodies[from[s]] = Whole(found[s])
      BY <1>2, <2>1, <2>4 DEF InboxInv, Reads, Kept, Settled, TakeBody
    <3> QED
      <4>1. \A b \in Whole(found[s]) : b[1] \in Positions(found[s]) /\ b[2] = found[s]
        BY DEF Whole
      <4>2. <<Read(s), found[s]>> \in Whole(found[s])
        BY <1>2 DEF Whole, TakeBody
      <4>3. /\ <<Read(s), found[s]>>[1] = Read(s)
            /\ <<Read(s), found[s]>>[2] = found[s]
        OBVIOUS
      <4>4. found[s] \in here
        BY <3>1, <4>2, <4>3
      <4>5. here \subseteq {found[s]}
        BY <3>1, <4>1
      <4> QED
        BY <4>4, <4>5
  <2>5. \A p \in Shares : Reads(p)'
    <3> SUFFICES ASSUME NEW p \in Shares PROVE Reads(p)'
      OBVIOUS
    <3>1. CASE p = s
      <4>1. got'[s] = Append(got[s], here) /\ got[s] \in Seq(SUBSET Shares)
        BY <2>2 DEF InboxInv, InboxTypeOK
      <4>2. /\ Len(got'[s]) = Len(got[s]) + 1
            /\ \A i \in 1..Len(got[s]) : got'[s][i] = got[s][i]
            /\ got'[s][Len(got[s]) + 1] = here /\ Len(got[s]) \in Nat
        BY <2>2, <4>1
      <4>3. Read(s) = Len(got[s]) + 1 /\ Read(s) \in 1..Size[found[s]]
        BY <1>2 DEF TakeBody, Read, Positions
      <4>4. Len(got'[s]) <= Size[found[s]]
        BY <2>1, <4>2, <4>3, ShareInboxAssumption
      <4>5. ASSUME found[s] \notin overlapped, NEW i \in 1..Len(got'[s])
            PROVE  got'[s][i] = {found[s]}
        <5>1. \A j \in 1..Len(got[s]) : got[s][j] = {found[s]}
          BY <1>2, <4>5 DEF InboxInv, Reads, TakeBody
        <5>2. i \in 1..Len(got[s]) \/ i = Len(got[s]) + 1
          BY <4>2
        <5> QED
          BY <2>4, <4>2, <4>5, <5>1, <5>2
      <4> QED
        BY <1>2, <3>1, <4>4, <4>5, <2>1 DEF InboxInv, Reads, TakeBody, cacheVars, stashVars
    <3>2. CASE p # s
      BY <1>2, <2>2, <3>2 DEF InboxInv, InboxTypeOK, Reads, TakeBody, cacheVars, stashVars
    <3> QED
      BY <3>1, <3>2
  <2>6. Counted' /\ Untouched' /\ Alone' /\ Kept'
    BY <1>2, <2>3, CachesKept DEF TakeBody, cacheVars
  <2> QED
    BY <2>3, <2>5, <2>6 DEF InboxInv
<1>3. ASSUME TakeDelete(s) PROVE InboxInv'
  <2>1. InboxTypeOK'
    BY <1>3 DEF InboxInv, InboxTypeOK, TakeDelete, stashVars
  <2>2. \A p \in Shares : Reads(p)'
    <3> SUFFICES ASSUME NEW p \in Shares PROVE Reads(p)'
      OBVIOUS
    <3>1. CASE p = s
      <4>1. found[s] \in Shares /\ Len(got[s]) \in Nat /\ Size[found[s]] \in Nat
        <5>1. found[s] \in Shares
          BY <1>3 DEF InboxInv, Reads, TakeDelete
        <5>2. got[s] \in Seq(SUBSET Shares)
          BY DEF InboxInv, InboxTypeOK
        <5> QED
          BY <5>1, <5>2, ShareInboxAssumption
      <4>2. ASSUME found[s] \notin overlapped PROVE Len(got[s]) = Size[found[s]]
        BY <1>3, <4>1, <4>2 DEF InboxInv, Reads, TakeDelete, Read, Positions
      <4> QED
        BY <1>3, <3>1, <4>1, <4>2 DEF InboxInv, InboxTypeOK, Reads, TakeDelete, stashVars
    <3>2. CASE p # s
      BY <1>3, <3>2 DEF InboxInv, InboxTypeOK, Reads, TakeDelete, stashVars
    <3> QED
      BY <3>1, <3>2
  <2>3. Counted' /\ Untouched' /\ Alone' /\ Kept'
    BY <1>3, <2>1, CachesKept DEF InboxInv, InboxTypeOK, TakeDelete
  <2> QED
    BY <2>1, <2>2, <2>3 DEF InboxInv
<1>4. ASSUME ClosePage(s) PROVE InboxInv'
  <2>1. InboxTypeOK'
    BY <1>4 DEF InboxInv, InboxTypeOK, ClosePage, cacheVars, stashVars
  <2>2. \A p \in Shares : Reads(p)'
    BY <1>4 DEF InboxInv, InboxTypeOK, Reads, ClosePage, cacheVars, stashVars
  <2>3. Counted' /\ Untouched' /\ Alone' /\ Kept'
    BY <1>4, <2>1, CachesKept DEF InboxInv, InboxTypeOK, ClosePage, cacheVars
  <2> QED
    BY <2>1, <2>2, <2>3 DEF InboxInv
<1> QED
  BY <1>1, <1>2, <1>3, <1>4

LEMMA NextInboxInv == InboxInv /\ [InboxNext]_inboxVars => InboxInv'
<1> SUFFICES ASSUME InboxInv, [InboxNext]_inboxVars PROVE InboxInv'
  OBVIOUS
<1>1. ASSUME NEW s \in Shares,
             \/ StashDelete(s) \/ StashOpen(s) \/ StashIndex(s)
             \/ \E i \in Positions(s) : StashBody(s, i)
             \/ TakeOpen(s) \/ TakeIndex(s) \/ TakeBody(s) \/ TakeDelete(s) \/ ClosePage(s)
      PROVE  InboxInv'
  BY <1>1, StashDeleteInv, StashOpenInv, StashIndexInv, StashBodyInv, TakeOpenInv, TakeInv
<1>2. CASE UNCHANGED inboxVars
  <2>1. InboxTypeOK'
    BY <1>2 DEF InboxInv, InboxTypeOK, inboxVars, cacheVars, stashVars, takeVars
  <2>2. Counted' /\ Untouched' /\ Alone' /\ Kept'
    BY <1>2, <2>1, CachesKept DEF inboxVars, cacheVars, stashVars, takeVars
  <2>3. \A p \in Shares : Reads(p)'
    BY <1>2 DEF InboxInv, Reads, inboxVars, cacheVars, stashVars, takeVars
  <2> QED
    BY <2>1, <2>2, <2>3 DEF InboxInv
<1> QED
  BY <1>1, <1>2, TerminateInv DEF InboxNext

LEMMA SpecInboxInv == InboxSpec => []InboxInv
BY InitInboxInv, NextInboxInv, PTL DEF InboxSpec

-----------------------------------------------------------------------------
(* Every reachable state is well typed; in particular there is always a    *)
(* Cache left for a call that opens one.                                   *)
THEOREM InboxTypeCorrect == InboxSpec => []InboxTypeOK
<1>1. InboxInv => InboxTypeOK
  BY DEF InboxInv
<1> QED
  BY SpecInboxInv, <1>1, PTL

(* What a page has taken is one share, every file of it and no other's,    *)
(* unless that share was stashed while another was (inbox.ts, takeShare).  *)
THEOREM SharesAreTakenWhole == InboxSpec => []TakenWhole
<1>1. InboxInv => TakenWhole
  <2> SUFFICES ASSUME InboxInv, NEW s \in Shares, take[s] = "taken", found[s] \notin overlapped
               PROVE  got[s] = [i \in Positions(found[s]) |-> {found[s]}]
    BY DEF TakenWhole
  <2>1. /\ got[s] \in Seq(SUBSET Shares) /\ Len(got[s]) = Size[found[s]]
        /\ \A i \in 1..Len(got[s]) : got[s][i] = {found[s]}
    BY DEF InboxInv, InboxTypeOK, Reads
  <2>2. got[s] = [i \in 1..Len(got[s]) |-> got[s][i]]
    BY <2>1
  <2> QED
    BY <2>1, <2>2 DEF Positions
<1> QED
  BY SpecInboxInv, <1>1, PTL
===============================================================================
