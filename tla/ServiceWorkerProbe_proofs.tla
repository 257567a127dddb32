----------------------- MODULE ServiceWorkerProbe_proofs -----------------------
(***************************************************************************)
(* Theorems about ServiceWorkerProbe, for every number of requests, every  *)
(* set of providers, times and headers, and every number of gateways and   *)
(* iterations.                                                             *)
(***************************************************************************)
EXTENDS ServiceWorkerProbe, ServerTiming_proofs

-----------------------------------------------------------------------------
(* What the steps leave alone.                                             *)

LEMMA PageFrame ==
    ASSUME PageEvent
    PROVE  /\ Listening /\ Asked
           /\ UNCHANGED <<pc, commandVars, ctx, router, gateway, net,
                          fetch, buildVars, timingVars>>
BY DEF PageEvent, DocumentRequested, DocumentRedirected, DocumentAnswered,
       NetworkIdle, OtherPageEvent, AttachedToTarget, workerVars

\* The service worker's side: at most the last goroutine wakes Run, and the
\* requests do not change while buildProbeResult holds the lock.
LEMMA WorkerFrame ==
    ASSUME WorkerEvent \/ \E q \in Requests : FetchStep(q)
    PROVE  /\ pc \in InRun
           /\ pc' = pc \/ (pc = "waiting" /\ pc' = "woken")
           /\ LockFree \/ UNCHANGED <<router, gateway>>
           /\ UNCHANGED late \/ Heard
           /\ UNCHANGED <<commandVars, ctx, found, pageVars, buildVars,
                          timingVars>>
BY DEF WorkerEvent, EnableNetwork, AttachListener, RouterAnswers, RequestFails,
       BodyArrives, FetchAnswers, RequestFinishes, FetchStep, LookUp, BodyFails,
       FetchDone, Heard, Called, LockFree

\* The steps that no maps and no results take part in.
Outside == LoopStep \/ Spin \/ Timeout \/ BrowserLost \/ Cancel \/ Terminated

LEMMA OutsideFrame ==
    ASSUME Outside
    PROVE  /\ UNCHANGED <<late, found, pageVars, workerVars, buildVars>>
           /\ \/ UNCHANGED <<pc, timingVars>>
              \/ LoopStep
BY DEF Outside, LoopStep, StartIteration, StopIterating, SelectCID,
       NextGateway, ScanTimings, Insert, CloseDB, Spin, Timeout, BrowserLost,
       Cancel, Terminated, vars, probeVars

LEMMA NextSteps ==
    ASSUME Next
    PROVE  \/ Outside
           \/ PageEvent
           \/ WorkerEvent \/ \E q \in Requests : FetchStep(q)
           \/ RunStep
BY DEF Next, Outside

-----------------------------------------------------------------------------
(* Types.                                                                  *)

CommandTypeOK ==
    /\ pc \in PCs
    /\ iter \in 0..(MaxIter + 1)
    /\ todo \in 0..Gateways
    /\ row \in [result : Result, err : Errors]
    /\ cancelled \in BOOLEAN

PageTypeOK ==
    /\ ctx \in {"alive", "lost", "deadline", "canceled"}
    /\ late \in SUBSET Listeners
    /\ found \in BOOLEAN
    /\ requested \in 0..MaxDocuments
    /\ last \in [Documents -> Answers \cup {"none"}]
    /\ idle \in SUBSET Documents

WorkerTypeOK ==
    /\ target \in {"none", "attached", "enabled", "listening", "gone"}
    /\ router \in [Routers -> RouterEntry \cup {Untracked}]
    /\ gateway \in [Fetches -> FetchEntry \cup {NoFetch}]
    /\ net \in [Requests -> {"open", "answered", "ended"}]
    /\ fetch \in [Requests -> {"off", "lookup", "body"}]

BuildTypeOK ==
    /\ seen \in SUBSET Requests
    /\ providers \in SUBSET Peers
    /\ result \in Result

Parts == TimingTypeOK /\ CommandTypeOK /\ PageTypeOK /\ WorkerTypeOK
         /\ BuildTypeOK

LEMMA TypeParts == TypeOK <=> Parts
BY DEF TypeOK, Parts, CommandTypeOK, PageTypeOK, WorkerTypeOK, BuildTypeOK

LEMMA Constants ==
    /\ MaxDocuments \in Nat /\ MaxRouters \in Nat /\ MaxFetches \in Nat
    /\ Gateways \in Nat /\ MaxIter \in Nat
BY ServiceWorkerAssumption

LEMMA RequestKinds ==
    /\ Documents \subseteq Nat /\ Routers \subseteq Nat /\ Fetches \subseteq Nat
    /\ Routers \cap Fetches = {}
BY Constants DEF Documents, Routers, Fetches

LEMMA NoResultType ==
    NoResult \in Result /\ NoRow \in [result : Result, err : Errors]
BY DEF NoResult, NoRow, Result, Errors

\* A probe that is being forgotten, or not begun, has all its types.
LEMMA ForgetTyped ==
    ASSUME Forget
    PROVE  PageTypeOK' /\ WorkerTypeOK' /\ BuildTypeOK'
<1>1. PageTypeOK'
  <2>1. 0 \in 0..MaxDocuments
    BY Constants
  <2>2. [d \in Documents |-> "none"] \in [Documents -> Answers \cup {"none"}]
    OBVIOUS
  <2>3. QED
    BY <2>1, <2>2 DEF Forget, PageTypeOK
<1>2. WorkerTypeOK'
  BY DEF Forget, WorkerTypeOK
<1>3. BuildTypeOK'
  BY NoResultType DEF Forget, BuildTypeOK
<1>4. QED
  BY <1>1, <1>2, <1>3

LEMMA InitTyped == Init => Parts
<1>1. SUFFICES ASSUME Init PROVE Parts
  OBVIOUS
<1>2. TimingTypeOK
  <2>1. /\ metrics = <<>> /\ at = 0 /\ timing = NoTiming
        /\ <<>> \in Seq(Metric) /\ 0 \in 0..Len(<<>>)
    BY <1>1 DEF Init, TimingInit
  <2>2. QED
    BY <2>1, NoTimingType DEF TimingTypeOK
<1>3. CommandTypeOK
  <2>1. 0 \in 0..(MaxIter + 1) /\ 0 \in 0..Gateways
    BY Constants
  <2>2. QED
    BY <1>1, <2>1, NoResultType DEF Init, CommandTypeOK, PCs
<1>4. PageTypeOK
  <2>1. 0 \in 0..MaxDocuments
    BY Constants
  <2>2. [d \in Documents |-> "none"] \in [Documents -> Answers \cup {"none"}]
    OBVIOUS
  <2>3. QED
    BY <1>1, <2>1, <2>2 DEF Init, ProbeInit, PageTypeOK
<1>5. WorkerTypeOK
  BY <1>1 DEF Init, ProbeInit, WorkerTypeOK
<1>6. BuildTypeOK
  BY <1>1, NoResultType DEF Init, ProbeInit, BuildTypeOK
<1>7. QED
  BY <1>2, <1>3, <1>4, <1>5, <1>6 DEF Parts

LEMMA TypedOutside ==
    ASSUME Parts, Outside
    PROVE  Parts'
<1> USE DEF Parts, Outside
<1>1. PageTypeOK'
  BY OutsideFrame
     DEF PageTypeOK, pageVars, LoopStep, StartIteration, StopIterating,
         SelectCID, NextGateway, ScanTimings, Insert, CloseDB, Spin, Timeout,
         BrowserLost, Cancel, Terminated, vars, probeVars
<1>2. WorkerTypeOK' /\ BuildTypeOK'
  BY OutsideFrame DEF WorkerTypeOK, BuildTypeOK, workerVars, buildVars
<1>3. TimingTypeOK'
  <2>1. CASE UNCHANGED timingVars
    BY <2>1 DEF TimingTypeOK, timingVars
  <2>2. CASE ScanMetric
    BY <2>2, ScanTyped
  <2>3. CASE StartScan(<<>>)
    BY <2>3, StartTyped
  <2>4. QED
    BY <2>1, <2>2, <2>3, OutsideFrame
       DEF LoopStep, StartIteration, StopIterating, SelectCID, NextGateway,
           ScanTimings, Insert, CloseDB
<1>4. CommandTypeOK'
  <2> USE DEF CommandTypeOK, commandVars, PCs, InRun
  <2>1. CASE StartIteration
    BY <2>1, Constants DEF StartIteration, MoreIterations
  <2>2. CASE StopIterating \/ SelectCID
    BY <2>2, Constants DEF StopIterating, SelectCID
  <2>3. CASE NextGateway
    BY <2>3, Constants DEF NextGateway
  <2>4. CASE ScanTimings \/ CloseDB
    BY <2>4 DEF ScanTimings, CloseDB
  <2>5. CASE Insert
    BY <2>5, NoResultType DEF Insert
  <2>6. CASE Spin \/ Timeout \/ BrowserLost \/ Cancel \/ Terminated
    BY <2>6 DEF Spin, Timeout, BrowserLost, Cancel, Terminated, vars
  <2>7. QED
    BY <2>1, <2>2, <2>3, <2>4, <2>5, <2>6 DEF LoopStep
<1>5. QED
  BY <1>1, <1>2, <1>3, <1>4

\* isProbeDone answers yes only with a final answer in hand.
LEMMA AskedFinal ==
    ASSUME Asked
    PROVE  /\ found' \in BOOLEAN
           /\ found' => \E d \in 1..requested : last'[d] \in Final
<1>1. PICK v \in Verdicts(last', idle') : found' = v
  BY DEF Asked
<1>2. CASE {d \in 1..requested : last'[d] \in Final} = {}
  BY <1>1, <1>2 DEF Verdicts
<1>3. CASE {d \in 1..requested : last'[d] \in Final} # {}
  <2>1. PICK d \in 1..requested :
           last'[d] \in Final /\ found' = Complete(d, last', idle')
    BY <1>1, <1>3 DEF Verdicts
  <2>2. Complete(d, last', idle') \in BOOLEAN
    BY DEF Complete
  <2>3. QED
    BY <2>1, <2>2
<1>4. QED
  BY <1>2, <1>3

LEMMA TypedPage ==
    ASSUME Parts, PageEvent
    PROVE  Parts'
<1>1. TimingTypeOK' /\ CommandTypeOK' /\ BuildTypeOK'
  BY PageFrame
     DEF Parts, TimingTypeOK, CommandTypeOK, BuildTypeOK, commandVars,
         buildVars, timingVars
<1>2. WorkerTypeOK'
  BY PageFrame
     DEF Parts, WorkerTypeOK, PageEvent, DocumentRequested, DocumentRedirected,
         DocumentAnswered, NetworkIdle, OtherPageEvent, AttachedToTarget,
         workerVars
<1>3. PageTypeOK'
  <2>1. UNCHANGED ctx /\ found' \in BOOLEAN
    BY PageFrame, AskedFinal
  <2>2. /\ requested' \in 0..MaxDocuments
        /\ last' \in [Documents -> Answers \cup {"none"}]
        /\ idle' \in SUBSET Documents
    <3> USE DEF Parts, PageTypeOK, pageVars
    <3>1. ASSUME NEW d \in Documents, DocumentRequested(d)
          PROVE  requested' \in 0..MaxDocuments /\ UNCHANGED <<last, idle>>
      BY <3>1, Constants DEF DocumentRequested, Documents
    <3>2. ASSUME NEW d \in Documents,
                 DocumentRedirected(d) \/ DocumentAnswered(d)
          PROVE  /\ UNCHANGED <<requested, idle>>
                 /\ last' \in [Documents -> Answers \cup {"none"}]
      BY <3>2 DEF DocumentRedirected, DocumentAnswered
    <3>3. ASSUME NEW d \in Documents, NetworkIdle(d)
          PROVE  UNCHANGED <<requested, last>> /\ idle' \in SUBSET Documents
      BY <3>3 DEF NetworkIdle
    <3>4. CASE OtherPageEvent \/ AttachedToTarget
      BY <3>4 DEF OtherPageEvent, AttachedToTarget
    <3>5. QED
      BY <3>1, <3>2, <3>3, <3>4 DEF PageEvent
  <2>3. late' \in SUBSET Listeners
    BY PageFrame DEF Listening, Called, Listeners, Parts, PageTypeOK
  <2>4. QED
    BY <2>1, <2>2, <2>3 DEF Parts, PageTypeOK
<1>4. QED
  BY <1>1, <1>2, <1>3 DEF Parts

\* A request that is answered, or whose body is fetched, is tracked.
Tracked ==
    \A r \in Routers :
        net[r] = "answered" \/ fetch[r] = "body" => router[r] # Untracked

LEMMA TypedWorker ==
    ASSUME Parts, Tracked, WorkerEvent \/ \E q \in Requests : FetchStep(q)
    PROVE  Parts'
<1>1. TimingTypeOK' /\ PageTypeOK' /\ BuildTypeOK'
  <2>1. late' \in SUBSET Listeners
    BY WorkerFrame DEF Heard, Called, Listeners, Parts, PageTypeOK
  <2>2. QED
    BY <2>1, WorkerFrame
       DEF Parts, TimingTypeOK, PageTypeOK, BuildTypeOK, pageVars, buildVars,
           timingVars
<1>2. CommandTypeOK'
  BY WorkerFrame DEF Parts, CommandTypeOK, commandVars, PCs, InRun
<1>3. WorkerTypeOK'
  <2> USE DEF Parts, WorkerTypeOK, Tell, Requests
  <2>1. CASE EnableNetwork \/ AttachListener
    BY <2>1 DEF EnableNetwork, AttachListener
  <2>2. ASSUME NEW r \in Routers, RouterAnswers(r)
        PROVE  WorkerTypeOK'
    <3>1. PICK s \in Statuses :
             router' = [router EXCEPT ![r] = [Untracked EXCEPT !.status = s]]
      BY <2>2 DEF RouterAnswers
    <3>2. [Untracked EXCEPT !.status = s] \in RouterEntry
      BY <3>1 DEF Untracked, RouterEntry
    <3>3. QED
      BY <2>2, <3>1, <3>2 DEF RouterAnswers
  <2>3. ASSUME NEW r \in Routers, RequestFails(r), router[r] # Untracked
        PROVE  WorkerTypeOK'
    <3>1. PICK c \in BOOLEAN : router' = [router EXCEPT ![r].cancelled = c]
      BY <2>3 DEF RequestFails
    <3>2. [router[r] EXCEPT !.cancelled = c] \in RouterEntry
      BY <2>3, <3>1 DEF RouterEntry
    <3>3. QED
      BY <2>3, <3>1, <3>2 DEF RequestFails
  <2>4. ASSUME NEW r \in Routers, BodyArrives(r), router[r] # Untracked
        PROVE  WorkerTypeOK'
    <3>1. PICK b \in Bodies : router' = [router EXCEPT ![r].body = b]
      BY <2>4 DEF BodyArrives
    <3>2. [router[r] EXCEPT !.body = b] \in RouterEntry
      BY <2>4, <3>1 DEF RouterEntry
    <3>3. QED
      BY <2>4, <3>1, <3>2 DEF BodyArrives, FetchDone
  <2>5. ASSUME NEW f \in Fetches, FetchAnswers(f)
        PROVE  WorkerTypeOK'
    BY <2>5 DEF FetchAnswers
  <2>6. ASSUME NEW q \in Requests, RequestFinishes(q)
        PROVE  WorkerTypeOK'
    BY <2>6 DEF RequestFinishes
  <2>7. ASSUME NEW q \in Requests, FetchStep(q)
        PROVE  WorkerTypeOK'
    BY <2>7 DEF FetchStep, LookUp, BodyFails, FetchDone
  <2>8. QED
    <3>1. \A r \in Routers :
             RequestFails(r) \/ BodyArrives(r) => router[r] # Untracked
      BY DEF RequestFails, BodyArrives, Tracked
    <3>2. QED
      BY <2>1, <2>2, <2>3, <2>4, <2>5, <2>6, <2>7, <3>1 DEF WorkerEvent
<1>4. QED
  BY <1>1, <1>2, <1>3 DEF Parts

LEMMA TrackedWorker ==
    ASSUME Parts, Tracked, WorkerEvent \/ \E q \in Requests : FetchStep(q)
    PROVE  Tracked'
<1> USE DEF Parts, WorkerTypeOK, Tracked, Tell, Requests
<1>1. CASE EnableNetwork \/ AttachListener
  BY <1>1 DEF EnableNetwork, AttachListener
<1>2. ASSUME NEW r \in Routers, RouterAnswers(r)
      PROVE  Tracked'
  <2>1. PICK s \in Statuses :
           router' = [router EXCEPT ![r] = [Untracked EXCEPT !.status = s]]
    BY <1>2 DEF RouterAnswers
  <2>2. router'[r].status # Untracked.status
    BY <2>1 DEF Untracked, Statuses
  <2>3. QED
    BY <1>2, <2>1, <2>2 DEF RouterAnswers
<1>3. ASSUME NEW r \in Routers, RequestFails(r) \/ BodyArrives(r)
      PROVE  Tracked'
  <2>1. router[r] \in RouterEntry
    BY <1>3 DEF RequestFails, BodyArrives
  <2>2. router'[r].status = router[r].status
    BY <1>3, <2>1 DEF RequestFails, BodyArrives, RouterEntry
  <2>3. router'[r] # Untracked
    BY <2>1, <2>2 DEF RouterEntry, Untracked, Statuses
  <2>4. QED
    BY <1>3, <2>3 DEF RequestFails, BodyArrives, FetchDone
<1>4. ASSUME NEW f \in Fetches, FetchAnswers(f)
      PROVE  Tracked'
  BY <1>4, RequestKinds DEF FetchAnswers
<1>5. ASSUME NEW q \in Requests, RequestFinishes(q)
      PROVE  Tracked'
  BY <1>5 DEF RequestFinishes
<1>6. ASSUME NEW q \in Requests, FetchStep(q)
      PROVE  Tracked'
  BY <1>6 DEF FetchStep, LookUp, BodyFails, FetchDone, TrackedRouters
<1>7. QED
  BY <1>1, <1>2, <1>3, <1>4, <1>5, <1>6 DEF WorkerEvent

\* What a router's answer counts as.
LEMMA EffectiveType ==
    ASSUME Parts, NEW r \in TrackedRouters
    PROVE  /\ router[r] \in RouterEntry
           /\ Effective(router[r]) \in Statuses \cup {Cancelled}
           /\ router[r].body.peers \subseteq Peers
<1>1. router[r] \in RouterEntry
  BY DEF Parts, WorkerTypeOK, TrackedRouters
<1>2. Effective(router[r]) \in Statuses \cup {Cancelled}
  BY <1>1 DEF Effective, RouterEntry
<1>3. router[r].body \in Bodies \cup {NoBody}
  BY <1>1 DEF RouterEntry
<1>4. router[r].body.peers \subseteq Peers
  BY <1>3 DEF Bodies, NoBody, Garbage
<1>5. QED
  BY <1>1, <1>2, <1>4

\* The step of a panic, and the one of Run that its wait ends well with.
Panics ==
    /\ pc \in InRun
    /\ pc' = "panicking"
    /\ Forget
    /\ UNCHANGED <<commandVars, timingVars>>

Wakes ==
    /\ pc = "woken"
    /\ pc' = "build"
    /\ UNCHANGED <<commandVars, probeVars, timingVars>>

LEMMA PanicSteps == (WaitReturns \/ VisitUntimed) => (Wakes \/ Panics)
BY DEF WaitReturns, VisitUntimed, Wakes, Panics, InRun

LEMMA TypedRun ==
    ASSUME Parts, RunStep
    PROVE  Parts'
<1> USE DEF Parts, commandVars, probeVars
<1>1. CASE NavigateReturns \/ ListenReturns \/ Wakes
  <2>1. pc' \in PCs
    BY <1>1 DEF NavigateReturns, ListenReturns, Wakes, PCs, InRun
  <2>2. UNCHANGED <<commandVars, probeVars, timingVars>>
    BY <1>1 DEF NavigateReturns, ListenReturns, Wakes
  <2>3. QED
    BY <2>1, <2>2
       DEF TimingTypeOK, CommandTypeOK, PageTypeOK, WorkerTypeOK, BuildTypeOK,
           pageVars, workerVars, buildVars, timingVars
<1>2. CASE NavigateFails
  <2>1. row' \in [result : Result, err : Errors]
    BY <1>2, NoResultType DEF NavigateFails, NoRow, Errors
  <2>2. CommandTypeOK' /\ TimingTypeOK'
    BY <1>2, <2>1 DEF NavigateFails, CommandTypeOK, TimingTypeOK, timingVars, PCs
  <2>3. QED
    BY <1>2, <2>2, ForgetTyped DEF NavigateFails
<1>3. ASSUME NEW r \in Routers, VisitRouter(r)
      PROVE  Parts'
  <2>1. r \in TrackedRouters /\ result \in Result
    BY <1>3 DEF VisitRouter, BuildTypeOK
  <2>2. Precedence(result.router, Effective(router[r]))
           \in Statuses \cup {0, Cancelled}
    BY <2>1, EffectiveType DEF Precedence, Result
  <2>3. BuildTypeOK'
    BY <1>3, <2>1, <2>2, EffectiveType
       DEF VisitRouter, BuildTypeOK, Result, Requests
  <2>4. pc' \in PCs
    BY <1>3 DEF VisitRouter, CommandTypeOK, PCs, InRun
  <2>5. QED
    BY <1>3, <2>3, <2>4
       DEF VisitRouter, TimingTypeOK, CommandTypeOK, PageTypeOK, WorkerTypeOK,
           pageVars, workerVars, timingVars
<1>4. CASE RoutersVisited
  <2>1. Cardinality(providers) \in Nat
    BY ServiceWorkerAssumption, FS_Subset, FS_CardinalityType DEF BuildTypeOK
  <2>2. BuildTypeOK'
    BY <1>4, <2>1 DEF RoutersVisited, BuildTypeOK, Result
  <2>3. pc' \in PCs
    BY <1>4 DEF RoutersVisited, PCs, InRun
  <2>4. QED
    BY <1>4, <2>2, <2>3
       DEF RoutersVisited, TimingTypeOK, CommandTypeOK, PageTypeOK,
           WorkerTypeOK, pageVars, workerVars, timingVars
<1>5. ASSUME NEW f \in Fetches, VisitFetch(f)
      PROVE  Parts'
  <2>1. gateway[f] \in FetchEntry /\ result \in Result
    BY <1>5 DEF VisitFetch, TrackedFetches, WorkerTypeOK, BuildTypeOK
  <2>2. gateway[f].status \in Statuses /\ gateway[f].ttfb \in TTFBs \cup {0}
    BY <2>1 DEF FetchEntry, Statuses
  <2>3. BuildTypeOK'
    <3>1. PICK t \in Statuses \cup {0}, b \in TTFBs \cup {0}, c \in SUBSET Fetches :
             result' = [result EXCEPT !.trustless = t, !.ttfb = b, !.cache = c]
      <4>1. /\ result.trustless \in Statuses \cup {0}
            /\ result.ttfb \in TTFBs \cup {0}
            /\ result.cache \in SUBSET Fetches
            /\ {f} \in SUBSET Fetches
        BY <2>1 DEF Result
      <4>2. QED
        BY <1>5, <2>2, <4>1 DEF VisitFetch
    <3>2. result' \in Result
      <4>1. [result EXCEPT !.trustless = t] \in Result
        BY <2>1 DEF Result
      <4>2. [[result EXCEPT !.trustless = t] EXCEPT !.ttfb = b] \in Result
        BY <4>1 DEF Result
      <4>3. [[[result EXCEPT !.trustless = t] EXCEPT !.ttfb = b]
                EXCEPT !.cache = c] \in Result
        BY <4>2 DEF Result
      <4>4. QED
        BY <2>1, <3>1, <4>3 DEF Result
    <3>3. seen' \in SUBSET Requests /\ providers' \in SUBSET Peers
      BY <1>5 DEF VisitFetch, BuildTypeOK, Requests
    <3>4. QED
      BY <3>2, <3>3 DEF BuildTypeOK
  <2>4. QED
    BY <1>5, <2>3
       DEF VisitFetch, TimingTypeOK, CommandTypeOK, PageTypeOK, WorkerTypeOK,
           pageVars, workerVars, timingVars
<1>6. CASE RunReturns
  <2>1. PICK status \in {0, 200, 504}, header \in Headers \cup {<<>>} :
           /\ row' = [result |-> [result EXCEPT !.status = status],
                      err |-> ctxErr]
           /\ StartScan(header)
    BY <1>6 DEF RunReturns, FinalStatuses
  <2>2. row' \in [result : Result, err : Errors]
    BY <2>1 DEF BuildTypeOK, PageTypeOK, Result, Errors, ctxErr
  <2>3. CommandTypeOK'
    BY <1>6, <2>2 DEF RunReturns, CommandTypeOK, PCs
  <2>4. QED
    BY <1>6, <2>1, <2>3, StartTyped, ForgetTyped DEF RunReturns
<1>7. CASE Panics
  <2>1. CommandTypeOK' /\ TimingTypeOK'
    BY <1>7 DEF Panics, CommandTypeOK, TimingTypeOK, timingVars, PCs
  <2>2. QED
    BY <1>7, <2>1, ForgetTyped DEF Panics
<1>8. CASE TakeLock
  <2>1. CommandTypeOK' /\ TimingTypeOK' /\ BuildTypeOK'
    BY <1>8 DEF TakeLock, CommandTypeOK, TimingTypeOK, BuildTypeOK, timingVars,
                buildVars, PCs, InRun
  <2>2. PageTypeOK' /\ WorkerTypeOK'
    BY <1>8 DEF TakeLock, PageTypeOK, WorkerTypeOK
  <2>3. QED
    BY <2>1, <2>2
<1>9. QED
  BY <1>1, <1>2, <1>3, <1>4, <1>5, <1>6, <1>7, <1>8, PanicSteps DEF RunStep

LEMMA TrackedElse ==
    ASSUME Tracked, UNCHANGED <<router, net, fetch>> \/ Forget \/ TakeLock
    PROVE  Tracked'
<1>1. CASE UNCHANGED <<router, net, fetch>>
  BY <1>1 DEF Tracked
<1>2. CASE Forget
  BY <1>2 DEF Tracked, Forget, Requests
<1>3. CASE TakeLock
  BY <1>3 DEF Tracked, TakeLock, Requests
<1>4. QED
  BY <1>1, <1>2, <1>3

Typed == Parts /\ Tracked

THEOREM TypedAlways == Spec => []Typed
<1>1. Init => Typed
  BY InitTyped DEF Init, ProbeInit, Typed, Tracked, Requests
<1>2. ASSUME Typed, [Next]_vars
      PROVE  Typed'
  <2> USE <1>2 DEF Typed
  <2>1. CASE Outside
    BY <2>1, TypedOutside, TrackedElse, OutsideFrame DEF workerVars
  <2>2. CASE PageEvent
    BY <2>2, TypedPage, TrackedElse, PageFrame
  <2>3. CASE WorkerEvent \/ \E q \in Requests : FetchStep(q)
    BY <2>3, TypedWorker, TrackedWorker
  <2>4. CASE RunStep
    <3>1. UNCHANGED <<router, net, fetch>> \/ Forget \/ TakeLock
      BY <2>4 DEF RunStep, NavigateReturns, NavigateFails, ListenReturns,
                  WaitReturns, VisitRouter, RoutersVisited,
                  VisitFetch, VisitUntimed, RunReturns, probeVars, workerVars
    <3>2. QED
      BY <2>4, <3>1, TypedRun, TrackedElse
  <2>5. CASE UNCHANGED vars
    BY <2>5
       DEF vars, commandVars, probeVars, pageVars, workerVars, buildVars,
           timingVars, Parts, TimingTypeOK, CommandTypeOK, PageTypeOK,
           WorkerTypeOK, BuildTypeOK, Tracked
  <2>6. QED
    BY <2>1, <2>2, <2>3, <2>4, <2>5, NextSteps
<1>3. QED
  BY <1>1, <1>2, PTL DEF Spec

\* The types of all variables, in the probe and between probes.
THEOREM TypeCorrect == Spec => []TypeOK
<1>1. Typed => TypeOK
  BY TypeParts DEF Typed
<1>2. QED
  BY <1>1, TypedAlways, PTL

-----------------------------------------------------------------------------
(* The header's columns.                                                   *)

LEMMA TimingSteps ==
    ASSUME [Next]_vars
    PROVE  \/ UNCHANGED timingVars
           \/ ScanMetric
           \/ at' = 0 /\ timing' = NoTiming
<1>1. CASE Outside
  BY <1>1, OutsideFrame
     DEF LoopStep, StartIteration, StopIterating, SelectCID, NextGateway,
         ScanTimings, Insert, CloseDB, StartScan
<1>2. CASE PageEvent
  BY <1>2, PageFrame
<1>3. CASE WorkerEvent \/ \E q \in Requests : FetchStep(q)
  BY <1>3, WorkerFrame
<1>4. CASE RunStep
  BY <1>4 DEF RunStep, NavigateReturns, NavigateFails, ListenReturns,
              WaitReturns, TakeLock, VisitRouter, RoutersVisited, VisitFetch,
              VisitUntimed, RunReturns, StartScan
<1>5. CASE UNCHANGED vars
  BY <1>5 DEF vars
<1>6. QED
  BY <1>1, <1>2, <1>3, <1>4, <1>5, NextSteps

\* The columns of a row agree with the metrics the scan has passed.
THEOREM TimingsMatch == Spec => []TimingsMatchHeader
<1> DEFINE Started == at = 0 /\ timing = NoTiming
<1>1. Started => TimingsMatchHeader
  BY StartMatches
<1>2. Init => Started
  BY DEF Init, TimingInit
<1>3. ASSUME Typed, TimingsMatchHeader, [Next]_vars
      PROVE  TimingsMatchHeader' \/ Started'
  <2>1. CASE UNCHANGED timingVars
    BY <1>3, <2>1
       DEF timingVars, TimingsMatchHeader, FirstOf, LeastOf, CountOf, Passed,
           SystemOf
  <2>2. CASE ScanMetric
    BY <1>3, <2>2, ScanMatches DEF Typed, Parts
  <2>3. QED
    BY <1>3, <2>1, <2>2, TimingSteps
<1>4. QED
  BY <1>1, <1>2, <1>3, TypedAlways, PTL DEF Spec

-----------------------------------------------------------------------------
(* buildProbeResult.                                                       *)

\* The result is begun when the lock is taken, and ends with the probe.
Built == {"routers", "spin", "gateways"}

Unbuilt ==
    pc \notin Built => seen = {} /\ providers = {} /\ result = NoResult

Listed(S) == UNION {router[r].body.peers : r \in S}

\* The loop over the routers comes first, and counts what it has seen.
RoutersFirst ==
    pc = "routers" =>
        /\ seen \subseteq TrackedRouters
        /\ providers = Listed(seen)
        /\ result.trustless = 0 /\ result.ttfb = 0 /\ result.cache = {}

BuildInv ==
    /\ Unbuilt
    /\ RoutersFirst
    /\ RouterStatusPrecedence
    /\ ProvidersCounted
    /\ FastestFetchKept

LEMMA BuildFrame ==
    ASSUME [Next]_vars, ~RunStep
    PROVE  /\ UNCHANGED buildVars
           /\ pc' = pc \/ (pc \notin Built /\ pc' \notin Built)
           /\ pc \in {"routers", "gateways"} => UNCHANGED <<router, gateway>>
<1> USE DEF Built
<1>1. CASE Outside
  BY <1>1, OutsideFrame
     DEF workerVars, LoopStep, StartIteration, StopIterating, SelectCID,
         NextGateway, ScanTimings, Insert, CloseDB
<1>2. CASE PageEvent
  BY <1>2, PageFrame
<1>3. CASE WorkerEvent \/ \E q \in Requests : FetchStep(q)
  BY <1>3, WorkerFrame DEF LockFree
<1>4. CASE UNCHANGED vars
  BY <1>4 DEF vars, probeVars, workerVars, buildVars
<1>5. QED
  BY <1>1, <1>2, <1>3, <1>4, NextSteps

\* The precedence of the loop, by what it was told.
StatusOf(x, told) ==
    LET successes == {s \in told : Success(s)}
        errors == told \ (successes \cup {Cancelled})
    IN  IF successes # {} THEN x \in successes
        ELSE IF errors # {} THEN x \in errors
        ELSE IF told # {} THEN x = Cancelled
        ELSE x = 0

LEMMA StatusValue ==
    ASSUME NEW told \in SUBSET (Statuses \cup {Cancelled}), NEW x
    PROVE  StatusOf(x, told) <=> x = IF 200 \in told THEN 200
                                     ELSE IF 404 \in told THEN 404
                                     ELSE IF 499 \in told THEN 499 ELSE 0
<1>1. told \subseteq {200, 404, 499}
  BY DEF Statuses, Cancelled
<1>2. {s \in told : Success(s)} = told \cap {200}
  BY <1>1 DEF Success
<1>3. told \ ({s \in told : Success(s)} \cup {Cancelled}) = told \cap {404}
  <2>1. told \ ((told \cap {200}) \cup {Cancelled}) = told \cap {404}
    <3>1. \A s \in told : s = 200 \/ s = 404 \/ s = 499
      BY <1>1
    <3>2. QED
      BY <3>1 DEF Cancelled
  <2>2. QED
    BY <1>2, <2>1
<1>4. QED
  BY <1>1, <1>2, <1>3 DEF StatusOf, Cancelled

LEMMA PrecedenceStep ==
    ASSUME NEW told \in SUBSET (Statuses \cup {Cancelled}),
           NEW new \in Statuses \cup {Cancelled},
           NEW old, StatusOf(old, told)
    PROVE  StatusOf(Precedence(old, new), told \cup {new})
<1>1. new \in {200, 404, 499}
  BY DEF Statuses, Cancelled
<1>2. old = IF 200 \in told THEN 200
            ELSE IF 404 \in told THEN 404
            ELSE IF 499 \in told THEN 499 ELSE 0
  BY StatusValue
<1>3. Precedence(old, new) = IF 200 \in told \cup {new} THEN 200
                             ELSE IF 404 \in told \cup {new} THEN 404
                             ELSE 499
  BY <1>1, <1>2 DEF Precedence, Success, Cancelled
<1>4. told \cup {new} \in SUBSET (Statuses \cup {Cancelled})
  OBVIOUS
<1>5. 200 \in told \cup {new} \/ 404 \in told \cup {new} \/ 499 \in told \cup {new}
  BY <1>1
<1>6. QED
  BY <1>3, <1>4, <1>5, StatusValue

LEMMA ListedMore ==
    ASSUME NEW S \in SUBSET Routers, NEW r
    PROVE  Listed(S \cup {r}) = Listed(S) \cup router[r].body.peers
BY Zenon DEF Listed

\* What the result says of the routers, told by those the loop has seen.
LEMMA RouterStep ==
    ASSUME Typed, BuildInv, NEW r \in Routers, VisitRouter(r)
    PROVE  BuildInv'
<1>1. /\ pc = "routers" /\ pc' \in {"routers", "spin"}
      /\ r \in TrackedRouters /\ seen' = seen \cup {r}
      /\ result' = [result EXCEPT !.router = Precedence(@, Effective(router[r]))]
      /\ providers' = providers \cup router[r].body.peers
      /\ UNCHANGED <<router, gateway>>
  BY DEF VisitRouter, workerVars
<1>2. /\ seen \subseteq TrackedRouters /\ providers = Listed(seen)
      /\ result.trustless = 0 /\ result.ttfb = 0 /\ result.cache = {}
      /\ StatusOf(result.router, Told(SeenRouters))
  BY <1>1 DEF BuildInv, RoutersFirst, RouterStatusPrecedence, StatusOf
<1>3. TrackedRouters' = TrackedRouters /\ TrackedRouters \subseteq Routers
  BY <1>1 DEF TrackedRouters
<1>4. result \in Result
  BY DEF Typed, Parts, BuildTypeOK
<1>5. Unbuilt'
  BY <1>1 DEF Unbuilt, Built
<1>6. RoutersFirst'
  <2>1. providers' = Listed(seen)' 
    <3>1. Listed(seen)' = UNION {router[q].body.peers : q \in seen \cup {r}}
      BY <1>1 DEF Listed
    <3>2. Listed(seen \cup {r}) = Listed(seen) \cup router[r].body.peers
      BY <1>2, <1>3, ListedMore
    <3>3. QED
      BY <1>1, <1>2, <3>1, <3>2 DEF Listed
  <2>2. /\ result'.trustless = 0 /\ result'.ttfb = 0 /\ result'.cache = {}
    BY <1>1, <1>2, <1>4 DEF Result
  <2>3. QED
    BY <1>1, <1>2, <1>3, <2>1, <2>2 DEF RoutersFirst
<1>7. RouterStatusPrecedence'
  <2> DEFINE told == Told(SeenRouters)
             new == Effective(router[r])
  <2>1. told \in SUBSET (Statuses \cup {Cancelled}) /\ new \in Statuses \cup {Cancelled}
    <3>1. \A q \in TrackedRouters : Effective(router[q]) \in Statuses \cup {Cancelled}
      BY EffectiveType DEF Typed
    <3>2. QED
      BY <1>1, <1>2, <3>1 DEF Told, SeenRouters
  <2>2. Told(SeenRouters)' = told \cup {new}
    <3>1. SeenRouters' = SeenRouters \cup {r}
      BY <1>1 DEF SeenRouters
    <3>2. Told(SeenRouters)' = {Effective(router[q]) : q \in SeenRouters \cup {r}}
      BY <1>1, <3>1 DEF Told, Effective
    <3>3. QED
      BY <3>2 DEF Told
  <2>3. result'.router = Precedence(result.router, new)
    BY <1>1, <1>4 DEF Result
  <2>4. StatusOf(result'.router, told \cup {new})
    BY <1>2, <2>1, <2>3, PrecedenceStep
  <2>5. QED
    BY <2>2, <2>4 DEF RouterStatusPrecedence, StatusOf
<1>8. ProvidersCounted' /\ FastestFetchKept'
  BY <1>1 DEF ProvidersCounted, FastestFetchKept
<1>9. QED
  BY <1>5, <1>6, <1>7, <1>8 DEF BuildInv

LEMMA CountStepOfRouters ==
    ASSUME Typed, BuildInv, RoutersVisited
    PROVE  BuildInv'
<1>1. /\ pc = "routers" /\ pc' = "gateways"
      /\ TrackedRouters \subseteq seen
      /\ result' = [result EXCEPT !.found =
                      IF TrackedRouters = {} THEN -1 ELSE Cardinality(providers)]
      /\ UNCHANGED <<router, gateway, seen>>
  BY DEF RoutersVisited, workerVars
<1>2. /\ seen = TrackedRouters /\ providers = Listed(seen)
      /\ result.ttfb = 0 /\ result.cache = {}
  BY <1>1 DEF BuildInv, RoutersFirst
<1>3. TrackedRouters' = TrackedRouters /\ TrackedRouters \subseteq Routers
  BY <1>1 DEF TrackedRouters
<1>4. result \in Result
  BY DEF Typed, Parts, BuildTypeOK
<1>5. /\ result'.router = result.router /\ result'.ttfb = 0
      /\ result'.cache = {}
      /\ result'.found = IF TrackedRouters = {} THEN -1
                         ELSE Cardinality(providers)
  BY <1>1, <1>2, <1>4 DEF Result
<1>6. Unbuilt' /\ RoutersFirst'
  BY <1>1 DEF Unbuilt, Built, RoutersFirst
<1>7. RouterStatusPrecedence'
  <2>1. Told(SeenRouters)' = Told(SeenRouters)
    BY <1>1 DEF Told, SeenRouters, Effective
  <2>2. QED
    BY <1>1, <1>5, <2>1 DEF BuildInv, RouterStatusPrecedence
<1>8. ProvidersCounted'
  BY <1>1, <1>2, <1>3, <1>5 DEF ProvidersCounted, Listed
<1>9. FastestFetchKept'
  <2>1. seen' \cap Fetches = {}
    BY <1>1, <1>2, <1>3, RequestKinds
  <2>2. QED
    BY <1>5, <2>1 DEF FastestFetchKept
<1>10. QED
  BY <1>6, <1>7, <1>8, <1>9 DEF BuildInv

\* FastestFetchKept of the fetches the loop has seen.
LEMMA FetchStepKept ==
    ASSUME Typed, BuildInv, NEW f \in Fetches, VisitFetch(f)
    PROVE  FastestFetchKept'
<1> DEFINE good == {g \in seen \cap Fetches : Success(gateway[g].status)}
           entry == gateway[f]
           best == Success(entry.status) /\ Faster(result.ttfb, entry.ttfb)
<1>1. /\ pc = "gateways" /\ seen' = seen \cup {f} /\ gateway' = gateway
      /\ result' = [result EXCEPT
                      !.trustless = IF Success(@) THEN @ ELSE entry.status,
                      !.ttfb = IF best THEN entry.ttfb ELSE @,
                      !.cache = IF best THEN {f} ELSE @]
      /\ f \in TrackedFetches
  BY DEF VisitFetch, workerVars
<1>2. IF good = {}
      THEN result.ttfb = 0 /\ result.cache = {}
      ELSE /\ Success(result.trustless)
           /\ \E g \in good : /\ result.cache = {g}
                              /\ result.ttfb = gateway[g].ttfb
           /\ (\A g \in good : gateway[g].ttfb # 0) =>
                 \A g \in good : result.ttfb <= gateway[g].ttfb
  BY <1>1 DEF BuildInv, FastestFetchKept
<1>3. result \in Result /\ entry \in FetchEntry
      /\ \A g \in good : gateway[g] \in FetchEntry
  BY <1>1, RequestKinds
     DEF Typed, Parts, BuildTypeOK, WorkerTypeOK, TrackedFetches, Success, NoFetch
<1>4. /\ result'.trustless = IF Success(result.trustless) THEN result.trustless
                             ELSE entry.status
      /\ result'.ttfb = IF best THEN entry.ttfb ELSE result.ttfb
      /\ result'.cache = IF best THEN {f} ELSE result.cache
  BY <1>1, <1>3 DEF Result
<1>5. good' = IF Success(entry.status) THEN good \cup {f} ELSE good
  BY <1>1 DEF Success
<1>6. result.ttfb \in Int /\ \A g \in good \cup {f} : gateway[g].ttfb \in Int
  <2>1. \A t \in TTFBs \cup {0} : t \in Int
    BY ServiceWorkerAssumption
  <2>2. \A e \in FetchEntry : e.ttfb \in TTFBs \cup {0}
    BY DEF FetchEntry
  <2>3. result.ttfb \in TTFBs \cup {0}
    BY <1>3 DEF Result
  <2>4. \A g \in good \cup {f} : gateway[g] \in FetchEntry
    BY <1>3
  <2>5. QED
    BY <2>1, <2>2, <2>3, <2>4
<1>7. SUFFICES
        IF good' = {}
        THEN result'.ttfb = 0 /\ result'.cache = {}
        ELSE /\ Success(result'.trustless)
             /\ \E g \in good' : /\ result'.cache = {g}
                                 /\ result'.ttfb = gateway'[g].ttfb
             /\ (\A g \in good' : gateway'[g].ttfb # 0) =>
                   \A g \in good' : result'.ttfb <= gateway'[g].ttfb
  BY DEF FastestFetchKept
<1> HIDE DEF good
<1>8. CASE ~Success(entry.status)
  BY <1>1, <1>2, <1>4, <1>5, <1>8
<1>9. CASE Success(entry.status) /\ ~best
  <2>1. result.ttfb # 0 /\ result.ttfb <= entry.ttfb
    BY <1>6, <1>9 DEF Faster
  <2>2. good # {}
    BY <1>2, <2>1
  <2>3. /\ result'.ttfb = result.ttfb /\ result'.cache = result.cache
        /\ result'.trustless = result.trustless
    BY <1>2, <1>4, <1>9, <2>2
  <2>4. good' = good \cup {f}
    BY <1>5, <1>9
  <2>5. (\A g \in good' : gateway'[g].ttfb # 0) =>
           \A g \in good' : result'.ttfb <= gateway'[g].ttfb
    BY <1>1, <1>2, <2>1, <2>2, <2>3, <2>4
  <2>6. QED
    BY <1>1, <1>2, <2>2, <2>3, <2>4, <2>5
<1>10. CASE best
  <2>1. /\ result'.ttfb = entry.ttfb /\ result'.cache = {f}
        /\ Success(result'.trustless)
        /\ good' = good \cup {f}
    BY <1>4, <1>5, <1>10
  <2>2. ASSUME \A g \in good' : gateway'[g].ttfb # 0, NEW h \in good
        PROVE  entry.ttfb <= gateway[h].ttfb
    <3>1. result.ttfb # 0 /\ result.ttfb <= gateway[h].ttfb
      BY <1>1, <1>2, <2>1, <2>2
    <3>2. entry.ttfb < result.ttfb
      BY <1>10, <3>1 DEF Faster
    <3>3. entry.ttfb \in Int /\ gateway[h].ttfb \in Int
      BY <1>6
    <3>4. QED
      BY <1>6, <3>1, <3>2, <3>3
  <2>3. entry.ttfb <= entry.ttfb
    BY <1>6
  <2>4. (\A g \in good' : gateway'[g].ttfb # 0) =>
           \A g \in good' : result'.ttfb <= gateway'[g].ttfb
    BY <1>1, <2>1, <2>2, <2>3
  <2>5. QED
    BY <1>1, <2>1, <2>4
<1>11. QED
  BY <1>8, <1>9, <1>10

LEMMA GatewayStep ==
    ASSUME Typed, BuildInv, NEW f \in Fetches, VisitFetch(f)
    PROVE  BuildInv'
<1>1. /\ pc = "gateways" /\ pc' = "gateways" /\ seen' = seen \cup {f}
      /\ UNCHANGED <<router, gateway>>
  BY DEF VisitFetch, workerVars
<1>2. result'.router = result.router /\ result'.found = result.found
  BY DEF VisitFetch, Typed, Parts, BuildTypeOK, Result
<1>3. Unbuilt' /\ RoutersFirst'
  BY <1>1 DEF Unbuilt, Built, RoutersFirst
<1>4. RouterStatusPrecedence'
  <2>1. SeenRouters' = SeenRouters
    BY <1>1, RequestKinds DEF SeenRouters
  <2>2. Told(SeenRouters)' = Told(SeenRouters)
    BY <1>1, <2>1 DEF Told, Effective
  <2>3. QED
    BY <1>1, <1>2, <2>2 DEF BuildInv, RouterStatusPrecedence
<1>5. ProvidersCounted'
  BY <1>1, <1>2 DEF BuildInv, ProvidersCounted, TrackedRouters
<1>6. QED
  BY <1>3, <1>4, <1>5, FetchStepKept DEF BuildInv

LEMMA BuildRun ==
    ASSUME Typed, BuildInv, RunStep
    PROVE  BuildInv'
<1> USE DEF Built
<1>1. CASE NavigateReturns \/ ListenReturns \/ Wakes \/ TakeLock
  <2>1. /\ pc \notin Built /\ pc' \notin {"spin", "gateways"}
        /\ UNCHANGED <<seen, providers, result, router, gateway>>
    BY <1>1 DEF NavigateReturns, ListenReturns, Wakes, TakeLock, probeVars,
                workerVars, buildVars
  <2>2. seen' = {} /\ providers' = {} /\ result' = NoResult
    BY <2>1 DEF BuildInv, Unbuilt
  <2>3. RoutersFirst'
    <3>1. Listed(seen)' = {}
      BY <2>2 DEF Listed
    <3>2. QED
      BY <2>2, <3>1 DEF RoutersFirst, NoResult
  <2>4. RouterStatusPrecedence'
    <3>1. Told(SeenRouters)' = {}
      BY <2>2 DEF Told, SeenRouters
    <3>2. QED
      BY <2>2, <3>1 DEF RouterStatusPrecedence, NoResult
  <2>5. QED
    BY <2>1, <2>2, <2>3, <2>4
       DEF BuildInv, Unbuilt, ProvidersCounted, FastestFetchKept
<1>2. CASE NavigateFails \/ RunReturns \/ Panics
  <2>1. pc' \notin Built /\ Forget
    BY <1>2 DEF NavigateFails, RunReturns, Panics
  <2>2. QED
    BY <2>1 DEF Forget, BuildInv, Unbuilt, RoutersFirst, RouterStatusPrecedence,
                ProvidersCounted, FastestFetchKept
<1>3. QED
  BY <1>1, <1>2, PanicSteps, RouterStep, CountStepOfRouters, GatewayStep
     DEF RunStep

THEOREM BuildAlways == Spec => []BuildInv
<1>1. Init => BuildInv
  BY DEF Init, ProbeInit, BuildInv, Unbuilt, Built, RoutersFirst,
         RouterStatusPrecedence, ProvidersCounted, FastestFetchKept
<1>2. ASSUME Typed, BuildInv, [Next]_vars
      PROVE  BuildInv'
  <2>1. CASE RunStep
    BY <1>2, <2>1, BuildRun
  <2>2. CASE ~RunStep
    <3>1. /\ UNCHANGED <<seen, providers, result>>
          /\ pc' = pc \/ (pc \notin Built /\ pc' \notin Built)
          /\ pc \in {"routers", "gateways"} => UNCHANGED <<router, gateway>>
      BY <1>2, <2>2, BuildFrame DEF buildVars
    <3>2. CASE pc' \notin {"routers", "gateways"}
      BY <1>2, <3>1, <3>2
         DEF BuildInv, Unbuilt, RoutersFirst, RouterStatusPrecedence,
             ProvidersCounted, FastestFetchKept
    <3>3. CASE pc' \in {"routers", "gateways"}
      <4>1. UNCHANGED <<pc, seen, providers, result, router, gateway>>
        BY <3>1, <3>3 DEF Built
      <4>2. Unbuilt' /\ RoutersFirst'
        BY <1>2, <4>1 DEF BuildInv, Unbuilt, RoutersFirst, Listed, TrackedRouters
      <4>3. RouterStatusPrecedence'
        <5>1. Told(SeenRouters)' = Told(SeenRouters)
          BY <4>1 DEF Told, SeenRouters, Effective
        <5>2. QED
          BY <1>2, <4>1, <5>1 DEF BuildInv, RouterStatusPrecedence
      <4>4. ProvidersCounted' /\ FastestFetchKept'
        BY <1>2, <4>1
           DEF BuildInv, ProvidersCounted, FastestFetchKept, TrackedRouters
      <4>5. QED
        BY <4>2, <4>3, <4>4 DEF BuildInv
    <3>4. QED
      BY <3>2, <3>3
  <2>3. QED
    BY <2>1, <2>2
<1>3. QED
  BY <1>1, <1>2, TypedAlways, PTL DEF Spec

\* A success, else an error, else a cancellation, in every order of the map.
THEOREM RouterPrecedence == Spec => []RouterStatusPrecedence
<1>1. BuildInv => RouterStatusPrecedence
  BY DEF BuildInv
<1>2. QED
  BY <1>1, BuildAlways, PTL

\* Every provider of every answer that came in time is counted, once.
THEOREM ProvidersCountedOnce == Spec => []ProvidersCounted
<1>1. BuildInv => ProvidersCounted
  BY DEF BuildInv
<1>2. QED
  BY <1>1, BuildAlways, PTL

\* The time kept is that of a success, and the cache status its own; it is the
\* shortest as long as no success has the time zero.
THEOREM FastestKept == Spec => []FastestFetchKept
<1>1. BuildInv => FastestFetchKept
  BY DEF BuildInv
<1>2. QED
  BY <1>1, BuildAlways, PTL

-----------------------------------------------------------------------------
(* What Run may return without an error.                                   *)

FoundFinal == found => \E d \in 1..requested : last[d] \in Final

\* Run waits for the listener's context before anything else.
Awaited ==
    pc \in {"waiting", "woken", "build", "routers", "spin", "gateways"}
        => ListenCtxDone

ReturnInv == FoundFinal /\ Awaited

LEMMA ReturnPage ==
    ASSUME Typed, ReturnInv, PageEvent
    PROVE  ReturnInv'
<1>1. ~found /\ UNCHANGED <<pc, ctx>>
  BY PageFrame DEF Listening
<1>2. found' => \E d \in 1..requested : last'[d] \in Final
  BY PageFrame, AskedFinal
<1>3. requested \in Nat /\ requested' \in {requested, requested + 1}
  BY Constants
     DEF PageEvent, DocumentRequested, DocumentRedirected, DocumentAnswered,
         NetworkIdle, OtherPageEvent, AttachedToTarget, pageVars, Typed, Parts,
         PageTypeOK
<1>4. 1..requested \subseteq 1..requested'
  BY <1>3
<1>5. FoundFinal'
  BY <1>2, <1>4 DEF FoundFinal
<1>6. Awaited'
  BY <1>1 DEF ReturnInv, Awaited, ListenCtxDone, ContextDone
<1>7. QED
  BY <1>5, <1>6 DEF ReturnInv

LEMMA ReturnElse ==
    ASSUME Typed, ReturnInv, [Next]_vars, ~PageEvent
    PROVE  ReturnInv'
<1> USE DEF ReturnInv, FoundFinal, Awaited, ListenCtxDone, ContextDone
<1>1. CASE LoopStep
  <2>1. UNCHANGED <<found, requested, last>>
    BY <1>1, OutsideFrame DEF Outside, pageVars
  <2>2. pc' \in PCs \ InRun \/ pc' = "navigate"
    BY <1>1 DEF LoopStep, StartIteration, StopIterating, SelectCID,
                NextGateway, ScanTimings, Insert, CloseDB, PCs, InRun
  <2>3. QED
    BY <2>1, <2>2 DEF InRun
<1>2. CASE Spin \/ Timeout \/ BrowserLost \/ Cancel \/ Terminated
  BY <1>2 DEF Spin, Timeout, BrowserLost, Cancel, Terminated, vars, probeVars,
              pageVars
<1>3. CASE WorkerEvent \/ \E q \in Requests : FetchStep(q)
  BY <1>3, WorkerFrame DEF pageVars
<1>4. CASE NavigateReturns \/ ListenReturns \/ Wakes \/ TakeLock
  BY <1>4 DEF NavigateReturns, ListenReturns, Wakes, TakeLock, probeVars,
              pageVars
<1>5. CASE \/ \E r \in Routers : VisitRouter(r)
           \/ RoutersVisited
           \/ \E f \in Fetches : VisitFetch(f)
  <2>1. /\ pc \in {"routers", "gateways"}
        /\ UNCHANGED <<ctx, found, requested, last>>
    BY <1>5 DEF VisitRouter, RoutersVisited, VisitFetch, pageVars
  <2>2. QED
    BY <2>1
<1>6. CASE NavigateFails \/ RunReturns \/ Panics
  BY <1>6 DEF NavigateFails, RunReturns, Panics, Forget
<1>7. CASE UNCHANGED vars
  BY <1>7 DEF vars, probeVars, pageVars
<1>8. QED
  BY <1>1, <1>2, <1>3, <1>4, <1>5, <1>6, <1>7, NextSteps, PanicSteps
     DEF Outside, RunStep

THEOREM ReturnAlways == Spec => []ReturnInv
<1>1. Init => ReturnInv
  BY DEF Init, ProbeInit, ReturnInv, FoundFinal, Awaited
<1>2. Typed /\ ReturnInv /\ [Next]_vars => ReturnInv'
  BY ReturnPage, ReturnElse
<1>3. QED
  BY <1>1, <1>2, TypedAlways, PTL DEF Spec

\* A probe without an error was found done, and its row says so.
THEOREM QuietIsFinal == Spec => QuietResultIsFinal
<1>1. ASSUME Typed, ReturnInv, RunReturns, ctxErr = "none", ctx # "lost"
      PROVE  found /\ (row'.result.status = 0 => last[1] = "none")
  <2>1. found
    <3>1. ctx = "alive"
      BY <1>1 DEF ctxErr, Typed, Parts, PageTypeOK
    <3>2. QED
      BY <1>1, <3>1 DEF RunReturns, ReturnInv, Awaited, ListenCtxDone,
         ContextDone
  <2>2. CASE last[1] # "none"
    <3>1. HasFinal
      BY <1>1, <2>1, <2>2 DEF HasFinal, ReturnInv, FoundFinal
    <3>2. PICK status \in FinalStatuses :
             row' = [result |-> [result EXCEPT !.status = status],
                     err |-> ctxErr]
      BY <1>1, <3>1 DEF RunReturns
    <3>3. row'.result.status = status
      BY <1>1, <3>2 DEF Typed, Parts, BuildTypeOK, Result
    <3>4. QED
      BY <2>1, <3>2, <3>3 DEF FinalStatuses
  <2>3. QED
    BY <2>1, <2>2
<1>2. Typed /\ ReturnInv /\ [Next]_vars =>
        [RunReturns /\ ctxErr = "none" =>
           \/ ctx = "lost"
           \/ found /\ (row'.result.status = 0 => last[1] = "none")]_vars
  BY <1>1
<1>3. QED
  BY <1>2, TypedAlways, ReturnAlways, PTL DEF Spec, QuietResultIsFinal

-----------------------------------------------------------------------------
(* The wait for the body fetches.                                          *)

\* OnlyDoneProbesRace, told without a cardinality.
RaceInv ==
    /\ pc = "waiting" => Busy # {}
    /\ pc = "woken" => \/ Busy = {}
                       \/ found
                       \/ "worker" \in late /\ \E q \in Busy : Busy = {q}

LEMMA RaceIsOne == RaceInv => OnlyDoneProbesRace
BY FS_Singleton DEF RaceInv, OnlyDoneProbesRace

\* A step of the service worker's side either leaves the fetches alone, starts
\* or goes on with one, or ends one and wakes Run if it is the last.
LEMMA RaceWorker ==
    ASSUME Typed, Awaited, RaceInv,
           WorkerEvent \/ \E q \in Requests : FetchStep(q)
    PROVE  RaceInv'
<1>0. late \subseteq late'
  BY WorkerFrame DEF Heard, Called
<1>1. /\ fetch \in [Requests -> {"off", "lookup", "body"}]
      /\ Routers \subseteq Requests /\ found' = found
  BY WorkerFrame DEF Typed, Parts, WorkerTypeOK, Requests
<1>2. ASSUME NEW q \in Requests, fetch[q] # "off", FetchDone(q)
      PROVE  RaceInv'
  <2>1. q \in Busy /\ Busy' = Busy \ {q}
    BY <1>1, <1>2 DEF FetchDone, Busy
  <2>2. CASE pc = "waiting" /\ Busy = {q}
    BY <1>2, <2>1, <2>2 DEF FetchDone, RaceInv
  <2>3. CASE ~(pc = "waiting" /\ Busy = {q})
    <3>1. pc' = pc
      BY <1>2, <2>3 DEF FetchDone
    <3>2. CASE pc = "woken"
      BY <1>1, <2>1, <3>1, <3>2 DEF RaceInv
    <3>3. CASE pc = "waiting"
      BY <2>1, <2>3, <3>1, <3>3 DEF RaceInv
    <3>4. QED
      BY <3>1, <3>2, <3>3 DEF RaceInv
  <2>4. QED
    BY <2>2, <2>3
<1>3. ASSUME NEW q \in Requests, NEW to \in {"lookup", "body"},
             fetch' = [fetch EXCEPT ![q] = to], pc' = pc,
             q \in Busy \/ Heard
      PROVE  RaceInv'
  <2>1. Busy' = Busy \cup {q}
    BY <1>1, <1>3 DEF Busy
  <2>2. CASE Heard /\ pc = "woken" /\ ~found
    <3>1. ContextDone
      BY <2>2 DEF Awaited, ListenCtxDone
    <3>2. "worker" \notin late /\ "worker" \in late'
      BY <2>2, <3>1 DEF Heard, Called
    <3>3. Busy = {}
      BY <2>2, <3>2 DEF RaceInv
    <3>4. QED
      BY <1>3, <2>1, <2>2, <3>2, <3>3 DEF RaceInv
  <2>3. CASE q \in Busy \/ pc # "woken" \/ found
    <3>1. Busy' # {} /\ (q \in Busy => Busy' = Busy)
      BY <2>1
    <3>2. QED
      BY <1>0, <1>1, <1>3, <2>3, <3>1 DEF RaceInv
  <2>4. QED
    BY <1>3, <2>2, <2>3
<1>4. CASE \/ EnableNetwork \/ AttachListener
           \/ \E r \in Routers : RouterAnswers(r) \/ RequestFails(r)
           \/ \E f \in Fetches : FetchAnswers(f)
  <2>1. UNCHANGED <<pc, fetch>>
    BY <1>4 DEF EnableNetwork, AttachListener, RouterAnswers, RequestFails,
       FetchAnswers
  <2>2. Busy' = Busy
    BY <2>1 DEF Busy
  <2>3. QED
    BY <1>0, <1>1, <2>1, <2>2 DEF RaceInv
<1>5. ASSUME NEW q \in Requests, RequestFinishes(q)
      PROVE  RaceInv'
  BY <1>3, <1>5 DEF RequestFinishes
<1>6. ASSUME NEW q \in Requests, LookUp(q)
      PROVE  RaceInv'
  <2>1. q \in Busy
    BY <1>6 DEF LookUp, Busy
  <2>2. CASE FetchDone(q)
    BY <1>2, <1>6, <2>2 DEF LookUp
  <2>3. CASE fetch' = [fetch EXCEPT ![q] = "body"] /\ UNCHANGED pc
    BY <1>3, <2>1, <2>3
  <2>4. QED
    BY <1>6, <2>2, <2>3 DEF LookUp
<1>7. ASSUME NEW r \in Routers, BodyArrives(r) \/ BodyFails(r)
      PROVE  RaceInv'
  BY <1>1, <1>2, <1>7 DEF BodyArrives, BodyFails
<1>8. QED
  BY <1>1, <1>4, <1>5, <1>6, <1>7 DEF WorkerEvent, FetchStep

\* Run sleeps only while a fetch is under way; and it is exposed to a new one
\* when it wakes up only if the probe was done, or if the context ended with one
\* event of the service worker in its callback: then to that event's fetch.
THEOREM OnlyDoneRace == Spec => []OnlyDoneProbesRace
<1>1. Init => RaceInv
  BY DEF Init, RaceInv
<1>2. ASSUME Typed, ReturnInv, RaceInv, [Next]_vars
      PROVE  RaceInv'
  <2> USE DEF RaceInv
  <2>1. CASE PageEvent
    <3>1. ~found /\ UNCHANGED <<pc, fetch>> /\ late \subseteq late'
      BY <2>1, PageFrame DEF Listening, Called
    <3>2. Busy' = Busy
      BY <3>1 DEF Busy
    <3>3. QED
      BY <1>2, <3>1, <3>2
  <2>2. CASE WorkerEvent \/ \E q \in Requests : FetchStep(q)
    BY <1>2, <2>2, RaceWorker DEF ReturnInv
  <2>3. CASE LoopStep
    <3>1. pc' \notin {"waiting", "woken"}
      BY <2>3 DEF LoopStep, StartIteration, StopIterating, SelectCID,
         NextGateway, ScanTimings, Insert, CloseDB
    <3>2. QED
      BY <3>1
  <2>4. CASE Spin \/ Timeout \/ BrowserLost \/ Cancel \/ Terminated
             \/ UNCHANGED vars
    <3>1. UNCHANGED <<pc, late, found, fetch>>
      BY <2>4 DEF Spin, Timeout, BrowserLost, Cancel, Terminated, vars,
         probeVars, workerVars
    <3>2. Busy' = Busy
      BY <3>1 DEF Busy
    <3>3. QED
      BY <1>2, <3>1, <3>2
  <2>5. CASE ListenReturns
    <3>1. /\ pc' = IF Busy = {} THEN "build" ELSE "waiting"
          /\ UNCHANGED fetch
      BY <2>5 DEF ListenReturns, probeVars, workerVars
    <3>2. QED
      BY <3>1 DEF Busy
  <2>6. CASE RunStep /\ ~ListenReturns
    <3>1. pc' \notin {"waiting", "woken"}
      BY <2>6 DEF RunStep, NavigateReturns, NavigateFails, WaitReturns,
         TakeLock, VisitRouter, RoutersVisited, VisitFetch, VisitUntimed,
         RunReturns
    <3>2. QED
      BY <3>1
  <2>7. QED
    BY <1>2, <2>1, <2>2, <2>3, <2>4, <2>5, <2>6, NextSteps DEF Outside
<1>3. QED
  BY <1>1, <1>2, RaceIsOne, TypedAlways, ReturnAlways, PTL DEF Spec

-----------------------------------------------------------------------------
(* The measurement cycle.                                                  *)

Between == {"wait", "select", "gateway"}
Measured == {"timings", "insert"}
Stopped == {"close", "done", "panicking", "panicked"}

\* Where the goroutine of the command may go.
LEMMA Course ==
    ASSUME Next
    PROVE  \/ pc' = pc
           \/ pc \in Between /\ pc' \in Between \cup {"navigate", "close"}
           \/ pc \in InRun /\ pc' \in InRun \cup {"insert", "timings", "panicking"}
           \/ pc = "timings" /\ pc' = "insert"
           \/ pc = "insert" /\ pc' \in {"gateway", "close"}
           \/ pc = "close" /\ pc' = "done"
           \/ pc = "panicking" /\ pc' = "panicked"
<1> USE DEF Between, InRun
<1>1. CASE LoopStep
  BY <1>1 DEF LoopStep, StartIteration, StopIterating, SelectCID, NextGateway,
              ScanTimings, Insert, CloseDB
<1>2. CASE Spin \/ Timeout \/ BrowserLost \/ Cancel \/ Terminated
  BY <1>2 DEF Spin, Timeout, BrowserLost, Cancel, Terminated, vars
<1>3. CASE PageEvent
  BY <1>3, PageFrame
<1>4. CASE WorkerEvent \/ \E q \in Requests : FetchStep(q)
  BY <1>4, WorkerFrame
<1>5. CASE RunStep
  BY <1>5 DEF RunStep, NavigateReturns, NavigateFails, ListenReturns,
              WaitReturns, TakeLock, VisitRouter, RoutersVisited, VisitFetch,
              VisitUntimed, RunReturns
<1>6. QED
  BY <1>1, <1>2, <1>3, <1>4, <1>5, NextSteps DEF Outside

LEMMA PhaseOf ==
    /\ pc \in Between => CyclePhase = "between"
    /\ pc \in InRun => CyclePhase = "measuring"
    /\ pc \in Measured => CyclePhase = "measured"
    /\ pc \in Stopped => CyclePhase = "stopped"
BY DEF CyclePhase, Between, InRun, Measured, Stopped

\* The loop implements the measurement cycle.
THEOREM ServiceWorkerCycles == Spec => CycleSpec
<1>1. Init => Cycle!CycleInit
  BY PhaseOf DEF Init, Between, Cycle!CycleInit
<1>2. ASSUME [Next]_vars
      PROVE  [Cycle!CycleNext]_(Cycle!cycleVars)
  <2> USE DEF Cycle!cycleVars, Cycle!CycleNext, CyclePhase, InRun
  <2>1. CASE pc' = pc
    BY <2>1
  <2>2. CASE pc \in Between /\ pc' \in Between \cup {"navigate", "close"}
    BY <2>2 DEF Between, Cycle!Begin, Cycle!Stop
  <2>3. CASE pc \in InRun /\ pc' \in InRun \cup {"insert", "timings", "panicking"}
    BY <2>3 DEF Cycle!End, Cycle!Stop
  <2>4. CASE pc = "timings" /\ pc' = "insert"
    BY <2>4
  <2>5. CASE pc = "insert" /\ pc' \in {"gateway", "close"}
    BY <2>5 DEF Cycle!Record, Cycle!Stop
  <2>6. CASE \/ pc = "close" /\ pc' = "done"
             \/ pc = "panicking" /\ pc' = "panicked"
    BY <2>6 DEF Cycle!Close
  <2>7. QED
    BY <1>2, <2>1, <2>2, <2>3, <2>4, <2>5, <2>6, Course DEF vars
<1>3. QED
  BY <1>1, <1>2, PTL DEF Spec, CycleSpec, Cycle!CycleSpec
=============================================================================
