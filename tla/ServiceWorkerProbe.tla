-------------------------- MODULE ServiceWorkerProbe --------------------------
(***************************************************************************)
(* `tiros probe serviceworker`: the loop of cmd_probe_serviceworker.go and *)
(* swProbe of pkg/sw/serviceworker.go, one probe at a time.                *)
(*                                                                         *)
(* A probe watches two DevTools targets.  The page's events feed the       *)
(* document requests and, each, ask isProbeDone.  The service worker's     *)
(* events feed the requests to delegated routers and trustless gateways; a *)
(* goroutine per finished request fetches its body, and a body's arrival   *)
(* asks nothing.  Run waits for the listener's context and for those       *)
(* goroutines, and builds its result from what the maps hold then, while   *)
(* the service worker's events go on.  listenMu makes the callbacks and    *)
(* buildProbeResult exclude each other.                                    *)
(*                                                                         *)
(* An event may come at any time: the browser owes no order but that a     *)
(* page's worker comes after its first document.  chromedp calls a         *)
(* listener for one event after the other, and looks at its context before *)
(* each call, not during it: the callback an event is passed to may still  *)
(* wait for listenMu when the context ends.  Requests are numbered in the  *)
(* order they are first heard of.                                          *)
(***************************************************************************)
EXTENDS ServerTiming

CONSTANTS
    MaxDocuments, \* bound: the page's document requests,
    MaxRouters,   \*   the service worker's to delegated routers,
    MaxFetches,   \*   and its requests for the CID to trustless gateways
    Peers,        \* the providers a router can list
    TTFBs,        \* the times to first byte of a trustless gateway, as the
                  \*   browser reports them: zero and less, too
    Gateways,     \* --gateways: how many gateways each CID is requested from
    MaxIter,      \* --iterations.max, 0 for an endless run
    MaxRequests,  \* bound: all of these together, in one probe
    LateCalls     \* bound: the listeners that may be in a callback when their
                  \*   context ends

Documents == 1..MaxDocuments
Routers == 1..MaxRouters
Fetches == (MaxRouters + 1)..(MaxRouters + MaxFetches)
Requests == Routers \cup Fetches

ASSUME ServiceWorkerAssumption ==
    /\ {MaxDocuments, MaxRouters, MaxFetches} \subseteq Nat
    /\ IsFiniteSet(Peers)
    /\ TTFBs \subseteq Int
    /\ Gateways \in Nat
    /\ MaxIter \in Nat
    /\ MaxRequests \in Nat
    /\ LateCalls \subseteq {"page", "worker"}

VARIABLES
    \* The command.
    pc,          \* where probeServiceWorkerAction, Run included, is
    iter,        \* the iterations started (an endless run counts to one)
    todo,        \* the gateways left in this iteration
    row,         \* the result and error of Run, on their way to the database
    cancelled,   \* the root context is cancelled
    \* The probe.
    ctx,         \* the probe's context: "alive"; "lost", the connection to the
                 \*   browser broken and only the browser's context done; or
                 \*   done with the error ctx.Err()
    late,        \* the listeners called once more since their context is done
    found,       \* isProbeDone was true: listenCancel was called
    requested,   \* len(documentRequestIDs)
    last,        \* the last response of each document request
    idle,        \* the documents whose loader had its networkIdle event
    target,      \* what handleAttachedToTarget has come to
    router,      \* delegatedRouterRequests
    gateway,     \* trustlessGatewayRequests
    net,         \* what the browser has told of each request
    fetch,       \* the goroutine that fetches each body
    \* buildProbeResult.
    seen,        \* the requests its loops have visited
    providers,   \* the providers decoded so far
    result       \* the swProbeResult

commandVars == <<iter, todo, row, cancelled>>
pageVars == <<requested, last, idle>>
workerVars == <<target, router, gateway, net, fetch>>
buildVars == <<seen, providers, result>>
probeVars == <<ctx, late, found, pageVars, workerVars, buildVars>>
vars == <<pc, commandVars, probeVars, timingVars>>

InRun == {"navigate", "listen", "waiting", "woken", "build", "routers",
          "spin", "gateways"}
PCs == InRun \cup {"wait", "select", "gateway", "timings", "insert", "close",
                   "done", "panicking", "panicked"}

Listeners == {"page", "worker"}

\* Of a document's answers the probe tells apart: one that is not from the
\* service worker (a redirect, the page that registers it), the content or an
\* error as a page, and the content as an attachment (or inline).
Answers == {"other", "page", "attachment"}
Final == {"page", "attachment"}
FinalStatuses == {200, 504}

Success(status) == status = 200
Statuses == {200, 404}
Cancelled == 499

\* nil, records (none of them, too), or what json.Decoder cannot read.
NoBody == [kind |-> "nil", peers |-> {}]
Garbage == [kind |-> "garbage", peers |-> {}]
Bodies == [kind : {"records"}, peers : SUBSET Peers] \cup {Garbage}

Untracked == [status |-> 0, cancelled |-> FALSE, body |-> NoBody]
RouterEntry == [status : Statuses, cancelled : BOOLEAN,
                body : Bodies \cup {NoBody}]
NoFetch == [status |-> 0, ttfb |-> 0]
FetchEntry == {[status |-> 404, ttfb |-> 0]} \cup [status : {200}, ttfb : TTFBs]

TrackedRouters == {r \in Routers : router[r] # Untracked}
TrackedFetches == {f \in Fetches : gateway[f] # NoFetch}

NoResult == [router |-> 0, trustless |-> 0, ttfb |-> 0, cache |-> {},
             found |-> 0, status |-> 0]
NoRow == [result |-> NoResult, err |-> "none"]
Errors == {"none", "deadline", "canceled", "failed"}
Result == [router : Statuses \cup {0, Cancelled}, trustless : Statuses \cup {0},
           ttfb : TTFBs \cup {0}, cache : SUBSET Fetches,
           found : Int, status : {0, 200, 504}]

TypeOK ==
    /\ TimingTypeOK
    /\ pc \in PCs
    /\ iter \in 0..(MaxIter + 1)
    /\ todo \in 0..Gateways
    /\ row \in [result : Result, err : Errors]
    /\ cancelled \in BOOLEAN
    /\ ctx \in {"alive", "lost", "deadline", "canceled"}
    /\ late \in SUBSET Listeners
    /\ found \in BOOLEAN
    /\ requested \in 0..MaxDocuments
    /\ last \in [Documents -> Answers \cup {"none"}]
    /\ idle \in SUBSET Documents
    /\ target \in {"none", "attached", "enabled", "listening", "gone"}
    /\ router \in [Routers -> RouterEntry \cup {Untracked}]
    /\ gateway \in [Fetches -> FetchEntry \cup {NoFetch}]
    /\ net \in [Requests -> {"open", "answered", "ended"}]
    /\ fetch \in [Requests -> {"off", "lookup", "body"}]
    /\ seen \in SUBSET Requests
    /\ providers \in SUBSET Peers
    /\ result \in Result

ProbeInit ==
    /\ ctx = "alive"
    /\ late = {}
    /\ found = FALSE
    /\ requested = 0
    /\ last = [d \in Documents |-> "none"]
    /\ idle = {}
    /\ target = "none"
    /\ router = [r \in Routers |-> Untracked]
    /\ gateway = [f \in Fetches |-> NoFetch]
    /\ net = [q \in Requests |-> "open"]
    /\ fetch = [q \in Requests |-> "off"]
    /\ seen = {}
    /\ providers = {}
    /\ result = NoResult

Init ==
    /\ TimingInit
    /\ ProbeInit
    /\ pc = "wait"
    /\ iter = 0
    /\ todo = 0
    /\ row = NoRow
    /\ cancelled = FALSE

\* NewSwProbe.  A probe is not reachable any more once Run has returned, and
\* its goroutines touch nothing but it: it is forgotten there.
Forget ==
    /\ ctx' = "alive"
    /\ late' = {}
    /\ found' = FALSE
    /\ requested' = 0
    /\ last' = [d \in Documents |-> "none"]
    /\ idle' = {}
    /\ target' = "none"
    /\ router' = [r \in Routers |-> Untracked]
    /\ gateway' = [f \in Fetches |-> NoFetch]
    /\ net' = [q \in Requests |-> "open"]
    /\ fetch' = [q \in Requests |-> "off"]
    /\ seen' = {}
    /\ providers' = {}
    /\ result' = NoResult

-----------------------------------------------------------------------------
(* The loop of probeServiceWorkerAction.                                   *)

Running == pc \notin {"done", "panicked"}

MoreIterations == MaxIter = 0 \/ iter < MaxIter

\* With the timer fired and ctx done, the select may take either.
StartIteration ==
    /\ pc = "wait"
    /\ MoreIterations
    /\ iter' = IF MaxIter = 0 THEN 1 ELSE iter + 1
    /\ pc' = "select"
    /\ UNCHANGED <<todo, row, cancelled, probeVars, timingVars>>

\* The select takes ctx.Done(), or there is no iteration left.
StopIterating ==
    /\ pc = "wait"
    /\ cancelled \/ ~MoreIterations
    /\ pc' = "close"
    /\ UNCHANGED <<commandVars, probeVars, timingVars>>

\* No provider returns sql.ErrNoRows, which would be the next iteration.
SelectCID ==
    /\ pc = "select"
    /\ \/ pc' = "gateway" /\ todo' = Gateways
       \/ pc' = "close" /\ UNCHANGED todo
    /\ UNCHANGED <<iter, row, cancelled, probeVars, timingVars>>

\* Mutant of NextGateway: one gateway too many.
NextGatewayAndOneMore ==
    /\ pc = "gateway"
    /\ IF todo < 0
       THEN pc' = "wait" /\ UNCHANGED <<todo, ctx>>
       ELSE /\ pc' = "navigate"
            /\ todo' = todo - 1
            /\ ctx' = IF cancelled THEN "canceled" ELSE "alive"
    /\ UNCHANGED <<iter, row, cancelled, late, found, pageVars,
                   workerVars, buildVars, timingVars>>

NextGateway ==
    /\ pc = "gateway"
    /\ IF todo = 0
       THEN pc' = "wait" /\ UNCHANGED <<todo, ctx>>
       ELSE /\ pc' = "navigate"
            /\ todo' = todo - 1
            /\ ctx' = IF cancelled THEN "canceled" ELSE "alive"
    /\ UNCHANGED <<iter, row, cancelled, late, found, pageVars,
                   workerVars, buildVars, timingVars>>

ScanTimings ==
    /\ pc = "timings"
    /\ \/ ScanMetric /\ UNCHANGED pc
       \/ at = Len(metrics) /\ pc' = "insert" /\ UNCHANGED timingVars
    /\ UNCHANGED <<commandVars, probeVars>>

\* The row is inserted, or the command ends with the insert's error.
Insert ==
    /\ pc = "insert"
    /\ pc' \in {"gateway", "close"}
    /\ row' = NoRow
    /\ StartScan(<<>>)
    /\ UNCHANGED <<iter, todo, cancelled, probeVars>>

\* The deferred close, which a panic runs, too.
CloseDB ==
    /\ \/ pc = "close" /\ pc' = "done"
       \/ pc = "panicking" /\ pc' = "panicked"
    /\ UNCHANGED <<commandVars, probeVars, timingVars>>

LoopStep ==
    \/ StartIteration
    \/ StopIterating
    \/ SelectCID
    \/ NextGateway
    \/ ScanTimings
    \/ Insert
    \/ CloseDB

-----------------------------------------------------------------------------
(* The listeners.                                                          *)

\* buildProbeResult holds the lock through its loops, and Run returns with its
\* result: a callback that waits for the lock meanwhile comes too late.
LockFree == pc \in InRun \ {"routers", "spin", "gateways"}

ctxErr == IF ctx \in {"deadline", "canceled"} THEN ctx ELSE "none"

ContextDone == ctx # "alive"

\* Mutant of Called: the callbacks go on when the context is done.
CalledToTheEnd(l) == LockFree /\ UNCHANGED late

\* The callback runs as long as its context is not done, and then once more for
\* the event that had passed the check before.
Called(l) ==
    /\ LockFree
    /\ ContextDone => l \in LateCalls \ late
    /\ late' = IF ContextDone THEN late \cup {l} ELSE late

-----------------------------------------------------------------------------
(* The page's events.                                                      *)

\* listenCancel, too, ends the page's callbacks, from within one of them.
Listening == ~found /\ Called("page")

Used == requested + Cardinality({q \in Requests : net[q] # "open"})

BodiesIn == \A r \in TrackedRouters : router[r].body # NoBody

\* isProbeDone once it has settled on the final request d.
Complete(d, answers, quiet) ==
    /\ BodiesIn
    /\ answers[d] = "attachment" \/ d \in quiet

\* Mutant of Verdicts: any answer counts as final.
VerdictsOfAny(answers, quiet) ==
    LET finals == {d \in 1..requested : answers[d] # "none"}
    IN  IF finals = {} THEN {FALSE}
        ELSE {Complete(d, answers, quiet) : d \in finals}

\* It settles on whichever final request the iteration of a map comes to
\* first, and says no if there is none.
Verdicts(answers, quiet) ==
    LET finals == {d \in 1..requested : answers[d] \in Final}
    IN  IF finals = {} THEN {FALSE}
        ELSE {Complete(d, answers, quiet) : d \in finals}

Asked == found' \in Verdicts(last', idle')

\* The helia-config a URL may carry names more routers and gateways: to the
\* probe, requests to hosts it does not know (yet) are like any others.
DocumentRequested(d) ==
    /\ Listening
    /\ d = requested + 1
    /\ Used < MaxRequests
    /\ requested' = d
    /\ UNCHANGED <<last, idle>>
    /\ Asked
    /\ UNCHANGED <<pc, commandVars, ctx, workerVars, buildVars,
                   timingVars>>

DocumentRedirected(d) ==
    /\ Listening
    /\ d \in 1..requested
    /\ \E a \in Answers : last' = [last EXCEPT ![d] = a]
    /\ UNCHANGED <<requested, idle>>
    /\ Asked
    /\ UNCHANGED <<pc, commandVars, ctx, workerVars, buildVars,
                   timingVars>>

DocumentAnswered(d) ==
    /\ Listening
    /\ d \in 1..requested
    /\ \E a \in Answers : last' = [last EXCEPT ![d] = a]
    /\ UNCHANGED <<requested, idle>>
    /\ Asked
    /\ UNCHANGED <<pc, commandVars, ctx, workerVars, buildVars,
                   timingVars>>

NetworkIdle(d) ==
    /\ Listening
    /\ d \in 1..requested
    /\ idle' = idle \cup {d}
    /\ UNCHANGED <<requested, last>>
    /\ Asked
    /\ UNCHANGED <<pc, commandVars, ctx, workerVars, buildVars,
                   timingVars>>

\* Any other event: it changes nothing, but isProbeDone is asked.
OtherPageEvent ==
    /\ Listening
    /\ UNCHANGED pageVars
    /\ Asked
    /\ UNCHANGED <<pc, commandVars, ctx, workerVars, buildVars,
                   timingVars>>

\* A page has a service worker only once it has requested a document.
AttachedToTarget ==
    /\ Listening
    /\ target = "none"
    /\ requested > 0
    /\ target' = "attached"
    /\ UNCHANGED pageVars
    /\ Asked
    /\ UNCHANGED <<pc, commandVars, ctx, router, gateway, net, fetch,
                   buildVars, timingVars>>

PageEvent ==
    \/ \E d \in Documents :
          \/ DocumentRequested(d)
          \/ DocumentRedirected(d)
          \/ DocumentAnswered(d)
          \/ NetworkIdle(d)
    \/ OtherPageEvent
    \/ AttachedToTarget

-----------------------------------------------------------------------------
(* The service worker's events and the goroutines of its requests.         *)

\* handleAttachedToTarget.  The events before the listener is attached, and
\* those of requests it does not track, change nothing; a listener that is
\* attached to a context that is done is never called.
EnableNetwork ==
    /\ pc \in InRun
    /\ target = "attached"
    /\ target' \in {"enabled", "gone"}
    /\ UNCHANGED <<pc, commandVars, ctx, late, found, pageVars,
                   router, gateway, net, fetch, buildVars, timingVars>>

AttachListener ==
    /\ pc \in InRun
    /\ target = "enabled"
    /\ target' = IF ContextDone THEN "gone" ELSE "listening"
    /\ UNCHANGED <<pc, commandVars, ctx, late, found, pageVars,
                   router, gateway, net, fetch, buildVars, timingVars>>

Heard == target = "listening" /\ Called("worker")

Tell(q, what) == net' = [net EXCEPT ![q] = what]

\* The next request of its kind is heard of.
New(q, kind) ==
    /\ Used < MaxRequests
    /\ \A p \in kind : net[p] = "open" <=> p >= q

RouterAnswers(r) ==
    /\ Heard
    /\ New(r, Routers)
    /\ Tell(r, "answered")
    /\ \E s \in Statuses :
          router' = [router EXCEPT ![r] = [Untracked EXCEPT !.status = s]]
    /\ UNCHANGED <<pc, commandVars, ctx, found, pageVars, target,
                   gateway, fetch, buildVars, timingVars>>

FetchAnswers(f) ==
    /\ Heard
    /\ New(f, Fetches)
    /\ Tell(f, "answered")
    /\ \E entry \in FetchEntry : gateway' = [gateway EXCEPT ![f] = entry]
    /\ UNCHANGED <<pc, commandVars, ctx, found, pageVars, target,
                   router, fetch, buildVars, timingVars>>

\* loadingFailed: the body will never come.
RequestFails(r) ==
    /\ Heard
    /\ net[r] = "answered"
    /\ Tell(r, "ended")
    /\ \E c \in BOOLEAN : router' = [router EXCEPT ![r].cancelled = c]
    /\ UNCHANGED <<pc, commandVars, ctx, found, pageVars, target,
                   gateway, fetch, buildVars, timingVars>>

\* loadingFinished, of any request: responseReqWg.Add(1) and a goroutine.
\* The request may be one whose answer came before the listener was attached.
RequestFinishes(q) ==
    /\ Heard
    /\ \/ net[q] = "answered"
       \/ q \in Routers /\ New(q, Routers)
    /\ Tell(q, "ended")
    /\ fetch' = [fetch EXCEPT ![q] = "lookup"]
    /\ UNCHANGED <<pc, commandVars, ctx, found, pageVars, target,
                   router, gateway, buildVars, timingVars>>

Busy == {q \in Requests : fetch[q] # "off"}

\* responseReqWg.Done(), which wakes Run when the counter falls to zero.
FetchDone(q) ==
    /\ fetch' = [fetch EXCEPT ![q] = "off"]
    /\ pc' = IF pc = "waiting" /\ Busy = {q} THEN "woken" ELSE pc

LookUp(q) ==
    /\ LockFree
    /\ fetch[q] = "lookup"
    /\ IF q \in TrackedRouters
       THEN fetch' = [fetch EXCEPT ![q] = "body"] /\ UNCHANGED pc
       ELSE FetchDone(q)
    /\ UNCHANGED <<commandVars, ctx, late, found, pageVars, target,
                   router, gateway, net, buildVars, timingVars>>

BodyArrives(r) ==
    /\ LockFree
    /\ fetch[r] = "body"
    /\ \E b \in Bodies : router' = [router EXCEPT ![r].body = b]
    /\ FetchDone(r)
    /\ UNCHANGED <<commandVars, ctx, late, found, pageVars, target,
                   gateway, net, buildVars, timingVars>>

\* Mutant of BodyFails: the request is not bound to the browser's context.
BodyFailsWhileAlive(r) ==
    /\ pc \in InRun
    /\ fetch[r] = "body"
    /\ ctxErr = "none"
    /\ FetchDone(r)
    /\ UNCHANGED <<commandVars, ctx, late, found, pageVars, target,
                   router, gateway, net, buildVars, timingVars>>

BodyFails(r) ==
    /\ pc \in InRun
    /\ fetch[r] = "body"
    /\ FetchDone(r)
    /\ UNCHANGED <<commandVars, ctx, late, found, pageVars, target,
                   router, gateway, net, buildVars, timingVars>>

FetchStep(q) == LookUp(q) \/ (q \in Routers /\ BodyFails(q))

WorkerEvent ==
    \/ EnableNetwork
    \/ AttachListener
    \/ \E r \in Routers : RouterAnswers(r) \/ RequestFails(r) \/ BodyArrives(r)
    \/ \E f \in Fetches : FetchAnswers(f)
    \/ \E q \in Requests : RequestFinishes(q)

-----------------------------------------------------------------------------
(* Run and buildProbeResult.                                               *)

ListenCtxDone == found \/ ContextDone

NavigateReturns ==
    /\ pc = "navigate"
    /\ pc' = "listen"
    /\ UNCHANGED <<commandVars, probeVars, timingVars>>

\* Mutant of NavigateFails: the next gateway is tried without a row.
NavigateFailsWithoutRow ==
    /\ pc = "navigate"
    /\ pc' = "gateway"
    /\ Forget
    /\ UNCHANGED <<iter, todo, row, cancelled, timingVars>>

\* The browser cannot be reached, an enabling command or the navigation fails.
NavigateFails ==
    /\ pc = "navigate"
    /\ pc' = "insert"
    /\ row' = [NoRow EXCEPT !.err = "failed"]
    /\ Forget
    /\ UNCHANGED <<iter, todo, cancelled, timingVars>>

\* <-listenCtx.Done(), and responseReqWg.Wait() reads the counter.
ListenReturns ==
    /\ pc = "listen"
    /\ ListenCtxDone
    /\ pc' = IF Busy = {} THEN "build" ELSE "waiting"
    /\ UNCHANGED <<commandVars, probeVars, timingVars>>

\* Once woken it panics if the counter is not zero any more ("WaitGroup is
\* reused before previous Wait has returned").
WaitReturns ==
    /\ pc = "woken"
    /\ \/ Busy = {} /\ pc' = "build" /\ UNCHANGED probeVars
       \/ Busy # {} /\ pc' = "panicking" /\ Forget
    /\ UNCHANGED <<commandVars, timingVars>>

\* buildProbeResult reads the documents, the routers' requests and those to the
\* gateways, and Run returns with its result.  What else there is of the probe
\* waits for the lock, or changes nothing of these: it is forgotten here.
TakeLock ==
    /\ pc = "build"
    /\ pc' = "routers"
    /\ idle' = {}
    /\ target' = "none"
    /\ net' = [q \in Requests |-> "open"]
    /\ fetch' = [q \in Requests |-> "off"]
    /\ late' = {}
    /\ UNCHANGED <<commandVars, ctx, found, requested, last, router, gateway,
                   buildVars, timingVars>>

Effective(entry) == IF entry.cancelled THEN Cancelled ELSE entry.status

\* Mutant of Precedence: a cancellation counts like any other error.
PrecedenceOfLatest(old, new) ==
    IF Success(old) THEN old ELSE new

\* Rules 1 to 4 of serviceworker.go:486.
Precedence(old, new) ==
    CASE Success(old)                            -> old
      [] ~Success(old) /\ (\/ Success(new)
                           \/ old = 0
                           \/ new # Cancelled)   -> new
      [] OTHER                                   -> old

\* Maps are visited in any order.
VisitRouter(r) ==
    /\ pc = "routers"
    /\ r \in TrackedRouters \ seen
    /\ seen' = seen \cup {r}
    /\ result' = [result EXCEPT !.router =
                     Precedence(@, Effective(router[r]))]
    /\ providers' = providers \cup router[r].body.peers
    /\ pc' = IF router[r].body = Garbage THEN "spin" ELSE pc
    /\ UNCHANGED <<commandVars, ctx, late, found, pageVars,
                   workerVars, timingVars>>

\* dec.Decode fails, dec.More() stays true, and the lock is held.
Spin ==
    /\ pc = "spin"
    /\ UNCHANGED vars

\* Mutant of RoutersVisited: a provider two routers list is counted twice.
RoutersVisitedTwice ==
    /\ pc = "routers"
    /\ TrackedRouters \subseteq seen
    /\ result' = [result EXCEPT !.found =
                     IF TrackedRouters = {} THEN -1
                     ELSE Cardinality({listed \in TrackedRouters \X Peers :
                             listed[2] \in router[listed[1]].body.peers})]
    /\ pc' = "gateways"
    /\ UNCHANGED <<commandVars, ctx, late, found, pageVars,
                   workerVars, seen, providers, timingVars>>

RoutersVisited ==
    /\ pc = "routers"
    /\ TrackedRouters \subseteq seen
    /\ result' = [result EXCEPT !.found =
                     IF TrackedRouters = {} THEN -1 ELSE Cardinality(providers)]
    /\ pc' = "gateways"
    /\ UNCHANGED <<commandVars, ctx, late, found, pageVars,
                   workerVars, seen, providers, timingVars>>

\* Mutant of Faster: the fetch visited last is kept.
FasterOrLater(old, ttfb) == ttfb > 0

\* Zero is no time yet, and also the time of a fetch the browser gives as zero.
Faster(old, ttfb) == old = 0 \/ ttfb < old

VisitFetch(f) ==
    LET entry == gateway[f]
        best == Success(entry.status) /\ Faster(result.ttfb, entry.ttfb)
    IN
    /\ pc = "gateways"
    /\ f \in TrackedFetches \ seen
    /\ seen' = seen \cup {f}
    /\ result' = [result EXCEPT
                     !.trustless = IF Success(@) THEN @ ELSE entry.status,
                     !.ttfb = IF best THEN entry.ttfb ELSE @,
                     !.cache = IF best THEN {f} ELSE @]
    /\ UNCHANGED <<pc, commandVars, ctx, late, found, pageVars,
                   workerVars, providers, timingVars>>

\* Response.Timing is optional, and read without a check here.
VisitUntimed ==
    /\ \/ /\ pc = "routers"
          /\ \E r \in TrackedRouters \ seen : router[r].body # Garbage
       \/ /\ pc = "gateways"
          /\ \E f \in TrackedFetches \ seen : Success(gateway[f].status)
    /\ pc' = "panicking"
    /\ Forget
    /\ UNCHANGED <<commandVars, timingVars>>

\* A final request was found, and the first request has a response.
HasFinal ==
    /\ \E d \in 1..requested : last[d] \in Final
    /\ last[1] # "none"

\* The documents are searched, the header is parsed and Run returns.
RunReturns ==
    /\ pc = "gateways"
    /\ TrackedFetches \subseteq seen
    /\ pc' = "timings"
    /\ \E status \in IF HasFinal THEN FinalStatuses ELSE {0},
          header \in (IF HasFinal THEN Headers ELSE {}) \cup {<<>>} :
          /\ row' = [result |-> [result EXCEPT !.status = status],
                     err |-> ctxErr]
          /\ StartScan(header)
    /\ Forget
    /\ UNCHANGED <<iter, todo, cancelled>>

RunStep ==
    \/ NavigateReturns
    \/ NavigateFails
    \/ ListenReturns
    \/ WaitReturns
    \/ TakeLock
    \/ \E r \in Routers : VisitRouter(r)
    \/ RoutersVisited
    \/ \E f \in Fetches : VisitFetch(f)
    \/ VisitUntimed
    \/ RunReturns

-----------------------------------------------------------------------------

Timeout ==
    /\ pc \in InRun
    /\ ctxErr = "none"
    /\ ctx' = "deadline"
    /\ UNCHANGED <<pc, commandVars, late, found, pageVars,
                   workerVars, buildVars, timingVars>>

\* chromedp cancels the browser's context, not the probe's.
BrowserLost ==
    /\ pc \in InRun
    /\ ctx = "alive"
    /\ ctx' = "lost"
    /\ UNCHANGED <<pc, commandVars, late, found, pageVars,
                   workerVars, buildVars, timingVars>>

Cancel ==
    /\ Running
    /\ ~cancelled
    /\ cancelled' = TRUE
    /\ ctx' = IF pc \in InRun /\ ctxErr = "none" THEN "canceled" ELSE ctx
    /\ UNCHANGED <<pc, iter, todo, row, late, found, pageVars,
                   workerVars, buildVars, timingVars>>

Terminated == ~Running /\ UNCHANGED vars

Next ==
    \/ LoopStep
    \/ PageEvent
    \/ WorkerEvent
    \/ \E q \in Requests : FetchStep(q)
    \/ RunStep
    \/ Spin
    \/ Timeout
    \/ BrowserLost
    \/ Cancel
    \/ Terminated

Spec == Init /\ [][Next]_vars

\* The runtime schedules every goroutine, the timeout fires, and a call into
\* the browser returns once its context is done.  Go picks among the ready cases
\* of a select at random: it stops some time.  The browser owes nothing: a fetch
\* is only sure to end once the context is done.
Fairness ==
    /\ WF_vars(LoopStep \/ RunStep)
    /\ SF_vars(StopIterating)
    /\ WF_vars(Timeout)
    /\ WF_vars(ContextDone /\ \E q \in Requests : FetchStep(q))

FairSpec == Spec /\ Fairness

-----------------------------------------------------------------------------
(* Properties.                                                             *)

SeenRouters == seen \cap Routers
Told(S) == {Effective(router[r]) : r \in S}

\* Rules 1 to 4 of serviceworker.go:486-491, in whatever order the map is
\* visited: the status is a success if any router answered with one, else an
\* error some router answered with, and a cancellation only if there is no other.
RouterStatusPrecedence ==
    pc \in {"routers", "gateways"} =>
        LET told == Told(SeenRouters)
            successes == {s \in told : Success(s)}
            errors == told \ (successes \cup {Cancelled})
        IN  IF successes # {} THEN result.router \in successes
            ELSE IF errors # {} THEN result.router \in errors
            ELSE IF told # {} THEN result.router = Cancelled
            ELSE result.router = 0

\* db_models.go:197, "Fastest TTFB from any successful trustless gateway
\* request": in whichever order the map is visited, as long as the browser gives
\* no success the time zero; the loop takes a zero it has kept for no time yet,
\* and any later success replaces it.  The time is always that of a success, and
\* the cache status recorded next to it is that of the same request.
FastestFetchKept ==
    pc = "gateways" =>
        LET good == {f \in seen \cap Fetches : Success(gateway[f].status)}
        IN  IF good = {}
            THEN result.ttfb = 0 /\ result.cache = {}
            ELSE /\ Success(result.trustless)
                 /\ \E f \in good : /\ result.cache = {f}
                                    /\ result.ttfb = gateway[f].ttfb
                 /\ (\A f \in good : gateway[f].ttfb # 0) =>
                       \A f \in good : result.ttfb <= gateway[f].ttfb

\* db_models.go:193, "Number of unique providers found via delegated routing":
\* a result counts the providers of every answer whose body came before the
\* result was built, each once, and tells no answer from empty ones.
ProvidersCounted ==
    pc = "gateways" =>
        result.found =
            IF TrackedRouters = {} THEN -1
            ELSE Cardinality(UNION {router[r].body.peers : r \in TrackedRouters})

\* A probe that Run returns without an error was found done, and what made it
\* done is in its row: its events stop with isProbeDone, so that nothing that
\* comes later can take the final answer back.  The two exceptions: the browser
\* was lost, or the first document never got an answer.
QuietResultIsFinal ==
    [][RunReturns /\ ctxErr = "none" =>
          \/ ctx = "lost"
          \/ /\ found
             /\ row'.result.status = 0 => last[1] = "none"]_vars

\* Run never sleeps on a counter that is zero, whichever fetch is done last.
\* It can wake up to a new fetch, on which it panics, in two ways only: the
\* probe was done, and the service worker's events go on; or the context ended
\* while one event was passed to the callback, which starts no second fetch.
OnlyDoneProbesRace ==
    /\ pc = "waiting" => Busy # {}
    /\ pc = "woken" /\ Busy # {} =>
          \/ found
          \/ "worker" \in late /\ Cardinality(Busy) = 1

\* Every probe ends with a row, under its timeout at the latest, unless it
\* panics or a router's body cannot be decoded.
ProbeEnds == pc \in InRun ~> pc \in {"timings", "insert", "panicking", "spin"}

\* A cancelled command ends, wherever the cancellation finds it, but for the
\* same body.
CancelStops == cancelled ~> pc \in {"done", "panicked", "spin"}

CyclePhase ==
    CASE pc \in {"wait", "select", "gateway"}  -> "between"
      [] pc \in InRun                          -> "measuring"
      [] pc \in {"timings", "insert"}          -> "measured"
      [] OTHER                                 -> "stopped"

\* The loop measures one gateway at a time and inserts the row of each probe,
\* failed or not, before the next begins; and it closes the database, after a
\* panic, too.
Cycle == INSTANCE MeasurementCycle
         WITH phase <- CyclePhase,
              db <- IF pc \in {"done", "panicked"} THEN "closed" ELSE "open"
CycleSpec == Cycle!CycleSpec
=============================================================================
