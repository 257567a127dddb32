----------------------------- MODULE GatewayProbe -----------------------------
(***************************************************************************)
(* `tiros probe gateways` of cmd/tiros/cmd_probe_gateways.go.              *)
(*                                                                         *)
(* Concurrent workers run iterations: wait for the timer, copy the shared  *)
(* gateway list, select a CID, and request it from each gateway of the     *)
(* copy in two formats, twice each.  A refresher goroutine replaces the    *)
(* list meanwhile, an errgroup stops the workers when one of them fails,   *)
(* and the operator may cancel the run.                                    *)
(*                                                                         *)
(* The workers share the providers of CIDProviders and, because the worker *)
(* closure assigns it, the variable err of probeGatewaysAction: a worker   *)
(* may read what another worker's selection wrote (lines 378, 381, 389).   *)
(***************************************************************************)
EXTENDS CIDProviders, FiniteSets

CONSTANTS
    Workers,            \* the concurrent workers
    Gateways,           \* the entries of the gateway list: the domains the
                        \* database knows or --gateways names, each of which
                        \* the list has once
    GatewaysFromFlag,   \* --gateways is set: no database, no refresher
    Provider,           \* "static" (--cids) or "sniffer"
    SnifferAnswers,     \* what the sniffer's database may answer
    SnifferCIDs,        \* the CIDs it may answer with
    ControlledShare,    \* --controlled.share: "none", "some" or "all"
    MaxIter,            \* --iterations.max, 0 for an endless run
    MayCancel           \* the operator may cancel the run

Answers == {"cid", "undef", "error"}

\* Line 329: no more workers than static CIDs.
ASSUME GatewayAssumption ==
    /\ Callers = Workers
    /\ IsFiniteSet(Workers) /\ Workers # {}
    /\ Gateways # {}
    /\ GatewaysFromFlag \in BOOLEAN
    /\ Provider \in {"static", "sniffer"}
    /\ SnifferAnswers \subseteq Answers
    /\ SnifferCIDs \subseteq Nat
    /\ ControlledShare \in {"none", "some", "all"}
    /\ MaxIter \in Nat
    /\ MayCancel \in BOOLEAN
    /\ Provider = "static" => Cardinality(Workers) <= StaticLen

VARIABLES
    mpc,        \* where probeGatewaysAction is
    gateways,   \* the shared gateway list, under gatewaysMu
    rpc,        \* where the refresher goroutine is
    fetched,    \* newGateways of the running refresh
    wpc,        \* where each worker is
    iter,       \* the iterations each worker has started
    snap,       \* currentGateways of each worker
    todo,       \* what of it the worker has not come to
    gateway,    \* the gateway the worker probes
    pass,       \* which of its probes, in the order of the two loops
    ok,         \* metrics.err = nil
    selected,   \* ciid and cidSource of each worker
    selErr,     \* the selection's error before it is assigned to err
    err,        \* the shared variable err is not nil
    gerr,       \* a worker returned an error: gctx is cancelled
    cancelled,  \* the root context is cancelled
    rows        \* the gateway probes inserted

listVars == <<gateways, rpc, fetched>>
loopVars == <<iter, snap, todo, gateway, pass, ok>>
selVars == <<selected, selErr, err>>
groupVars == <<mpc, gerr, cancelled>>
vars == <<providerVars, listVars, wpc, loopVars, selVars, groupVars, rows>>

NoGateway == "none"
Passes == 4       \* {none, car} x {uncached, cached}
Undef == -1       \* cid.Undef, among CIDs that are positions or names in Nat
Selection == [source : {"controlled", "static", "sniffer"},
              cid : Nat \cup {Undef}]
NoSelection == [source |-> Provider, cid |-> Undef]
Row == [worker : Workers, iter : Nat, gateway : Gateways, pass : 1..Passes,
        ok : BOOLEAN, cid : Selection]

WorkerStates == {"unborn", "wait", "select", "provider", "assign", "check",
                 "next", "probe", "insert", "returned"}

TypeOK ==
    /\ ProvidersTypeOK
    /\ mpc \in {"fetch", "run", "close", "done", "crashed"}
    /\ gateways \in SUBSET Gateways
    /\ rpc \in {"off", "waiting", "fetched"}
    /\ fetched \in SUBSET Gateways
    /\ wpc \in [Workers -> WorkerStates]
    /\ iter \in [Workers -> Nat]
    /\ snap \in [Workers -> SUBSET Gateways]
    /\ todo \in [Workers -> SUBSET Gateways]
    /\ gateway \in [Workers -> Gateways \cup {NoGateway}]
    /\ pass \in [Workers -> 1..Passes]
    /\ ok \in [Workers -> BOOLEAN]
    /\ selected \in [Workers -> Selection]
    /\ selErr \in [Workers -> BOOLEAN]
    /\ err \in BOOLEAN
    /\ gerr \in BOOLEAN
    /\ cancelled \in BOOLEAN
    /\ rows \in SUBSET Row

Init ==
    /\ ProvidersInit
    /\ mpc = IF GatewaysFromFlag THEN "run" ELSE "fetch"
    /\ gateways = IF GatewaysFromFlag THEN Gateways ELSE {}
    /\ rpc = "off"
    /\ fetched = {}
    /\ wpc = [w \in Workers |-> IF GatewaysFromFlag THEN "wait" ELSE "unborn"]
    /\ iter = [w \in Workers |-> 0]
    /\ snap = [w \in Workers |-> {}]
    /\ todo = [w \in Workers |-> {}]
    /\ gateway = [w \in Workers |-> NoGateway]
    /\ pass = [w \in Workers |-> 1]
    /\ ok = [w \in Workers |-> FALSE]
    /\ selected = [w \in Workers |-> NoSelection]
    /\ selErr = [w \in Workers |-> FALSE]
    /\ err = FALSE
    /\ gerr = FALSE
    /\ cancelled = FALSE
    /\ rows = {}

Running == mpc \notin {"done", "crashed"}
GroupDone == gerr \/ cancelled       \* gctx.Done() is closed
Goto(w, state) == wpc' = [wpc EXCEPT ![w] = state]

-----------------------------------------------------------------------------
(* The gateway list.                                                       *)

\* A query whose rows end early is not an error (rows.Err is not read), so
\* it too may return any part of the table.
Query == SUBSET Gateways

InitialFetch ==
    /\ mpc = "fetch"
    /\ \/ \E list \in Query \ {{}} :
             /\ gateways' = list
             /\ mpc' = "run"
             /\ rpc' = "waiting"
             /\ wpc' = [w \in Workers |-> "wait"]
       \/ /\ mpc' = "close"      \* the query failed or found no gateway
          /\ UNCHANGED <<gateways, rpc, wpc>>
    /\ UNCHANGED <<providerVars, fetched, loopVars, selVars, gerr, cancelled,
                   rows>>

\* The ticker fires; a failed query leaves the list and the ticker alone.
RefreshFetch ==
    /\ Running
    /\ rpc = "waiting"
    /\ \E list \in Query : fetched' = list
    /\ rpc' = "fetched"
    /\ UNCHANGED <<providerVars, gateways, wpc, loopVars, selVars, groupVars,
                   rows>>

RefreshSwap ==
    /\ mpc # "crashed"
    /\ rpc = "fetched"
    /\ gateways' = fetched
    /\ fetched' = {}
    /\ rpc' = "waiting"
    /\ UNCHANGED <<providerVars, wpc, loopVars, selVars, groupVars, rows>>

\* ctx is done when the run is cancelled and when probeGatewaysAction returns.
RefreshStops ==
    /\ rpc = "waiting"
    /\ cancelled \/ mpc = "done"
    /\ rpc' = "off"
    /\ UNCHANGED <<providerVars, gateways, fetched, wpc, loopVars, selVars,
                   groupVars, rows>>

-----------------------------------------------------------------------------
(* A worker.                                                               *)

ReturnError(w) ==
    /\ Goto(w, "returned")
    /\ gerr' = TRUE

\* Mutant of MoreIterations: the last iteration is not started.
MoreIterationsButOne(w) == MaxIter = 0 \/ iter[w] + 1 < MaxIter

MoreIterations(w) == MaxIter = 0 \/ iter[w] < MaxIter

\* An endless run counts its iterations to 1 and keeps no rows.
CountIteration(w) ==
    iter' = [iter EXCEPT ![w] = IF MaxIter = 0 THEN 1 ELSE @ + 1]

StartIteration(w) ==
    /\ mpc # "crashed"
    /\ wpc[w] = "wait"
    /\ MoreIterations(w)
    /\ CountIteration(w)
    /\ snap' = [snap EXCEPT ![w] = gateways]
    /\ todo' = [todo EXCEPT ![w] = gateways]
    /\ Goto(w, "select")
    /\ UNCHANGED <<providerVars, listVars, gateway, pass, ok, selVars,
                   groupVars, rows>>

\* Mutant of StopWaiting: the worker watches ctx, not the group's context.
StopWaitingOnCancel(w) ==
    /\ mpc # "crashed"
    /\ wpc[w] = "wait"
    /\ MoreIterations(w)
    /\ cancelled
    /\ ReturnError(w)
    /\ UNCHANGED <<providerVars, listVars, loopVars, selVars, mpc, cancelled,
                   rows>>

\* The select takes gctx.Done(): with the timer fired it may take either.
StopWaiting(w) ==
    /\ mpc # "crashed"
    /\ wpc[w] = "wait"
    /\ MoreIterations(w)
    /\ GroupDone
    /\ ReturnError(w)
    /\ UNCHANGED <<providerVars, listVars, loopVars, selVars, mpc, cancelled,
                   rows>>

Finish(w) ==
    /\ mpc # "crashed"
    /\ wpc[w] = "wait"
    /\ ~MoreIterations(w)
    /\ Goto(w, "returned")
    /\ UNCHANGED <<providerVars, listVars, loopVars, selVars, groupVars, rows>>

\* Mutant of Returned: ciid is shared by the workers like err.
ReturnedToAll(w, source, c, failed) ==
    /\ selected' = [v \in Workers |-> [source |-> source, cid |-> c]]
    /\ selErr' = [selErr EXCEPT ![w] = failed]
    /\ Goto(w, "assign")

\* What SelectCID returned, the CID c of the source and an error or none, on
\* its way into ciid and err.
Returned(w, source, c, failed) ==
    /\ selected' = [selected EXCEPT ![w] = [source |-> source, cid |-> c]]
    /\ selErr' = [selErr EXCEPT ![w] = failed]
    /\ Goto(w, "assign")

SelectControlled(w) ==
    /\ mpc # "crashed"
    /\ wpc[w] = "select"
    /\ ControlledShare # "none"
    /\ ControlledAdd(w)
    /\ Goto(w, "provider")
    /\ UNCHANGED <<listVars, loopVars, selVars, groupVars, rows>>

SelectStatic(w) ==
    /\ mpc # "crashed"
    /\ wpc[w] = "select"
    /\ ControlledShare # "all"
    /\ Provider = "static"
    /\ StaticRead(w)
    /\ IF cpc'[w] = "panicked"
       THEN mpc' = "crashed" /\ UNCHANGED wpc
       ELSE Goto(w, "provider") /\ UNCHANGED mpc
    /\ UNCHANGED <<listVars, loopVars, selVars, gerr, cancelled, rows>>

ProviderStep(w) ==
    /\ mpc # "crashed"
    /\ wpc[w] = "provider"
    /\ \/ /\ StaticIncrement(w)
          /\ UNCHANGED <<wpc, selected, selErr>>
       \/ /\ StaticModulo(w)
          /\ Returned(w, "static", picked[w], FALSE)
       \/ /\ ControlledIndex(w)
          /\ Returned(w, "controlled", ControlledCID(w), FALSE)
    /\ UNCHANGED <<listVars, loopVars, err, groupVars, rows>>

\* The sniffer's table may be empty, which is cid.Undef without an error; an
\* error may come with or without a CID (rows.Err after the scan).
SelectSniffer(w) ==
    /\ mpc # "crashed"
    /\ wpc[w] = "select"
    /\ ControlledShare # "all"
    /\ Provider = "sniffer"
    /\ \/ /\ "cid" \in SnifferAnswers
          /\ \E c \in SnifferCIDs : Returned(w, "sniffer", c, FALSE)
       \/ "undef" \in SnifferAnswers /\ Returned(w, "sniffer", Undef, FALSE)
       \/ /\ "error" \in SnifferAnswers
          /\ \E c \in SnifferCIDs \cup {Undef} : Returned(w, "sniffer", c, TRUE)
    /\ UNCHANGED <<providerVars, listVars, loopVars, err, groupVars, rows>>

AssignErr(w) ==
    /\ mpc # "crashed"
    /\ wpc[w] = "assign"
    /\ err' = selErr[w]
    /\ Goto(w, "check")
    /\ UNCHANGED <<providerVars, listVars, loopVars, selected, selErr,
                   groupVars, rows>>

\* err is read, whoever assigned it last.  No provider returns sql.ErrNoRows,
\* so the branch that skips the iteration is never taken.
CheckErr(w) ==
    /\ mpc # "crashed"
    /\ wpc[w] = "check"
    /\ IF err THEN ReturnError(w)
              ELSE Goto(w, "next") /\ UNCHANGED gerr
    /\ UNCHANGED <<providerVars, listVars, loopVars, selVars, mpc, cancelled,
                   rows>>

\* A read during another worker's two-word store sees the type of one error
\* with the data of another, which errors.Is may dereference.
CheckTornErr(w) ==
    /\ mpc # "crashed"
    /\ wpc[w] = "check"
    /\ \E v \in Workers : wpc[v] = "assign" /\ selErr[v] # err
    /\ mpc' = "crashed"
    /\ UNCHANGED <<providerVars, listVars, wpc, loopVars, selVars, gerr,
                   cancelled, rows>>

\* gatewaysLoop: the copy was shuffled, so any gateway may be next.
NextGateway(w) ==
    /\ mpc # "crashed"
    /\ wpc[w] = "next"
    /\ \/ /\ todo[w] = {}
          /\ gateway' = [gateway EXCEPT ![w] = NoGateway]
          /\ Goto(w, "wait")
          /\ UNCHANGED todo
       \/ \E g \in todo[w] :
             /\ gateway' = [gateway EXCEPT ![w] = g]
             /\ todo' = [todo EXCEPT ![w] = @ \ {g}]
             /\ Goto(w, "probe")
    /\ pass' = [pass EXCEPT ![w] = 1]
    /\ UNCHANGED <<providerVars, listVars, iter, snap, ok, selVars, groupVars,
                   rows>>

\* The request runs under ctx, not the group's context: another worker's
\* error does not end it.  It fails when it cannot be sent or is not answered
\* in time, on a status of 400 and up and on a broken body.
Probe(w) ==
    /\ mpc # "crashed"
    /\ wpc[w] = "probe"
    /\ \E success \in BOOLEAN : ok' = [ok EXCEPT ![w] = success]
    /\ Goto(w, "insert")
    /\ UNCHANGED <<providerVars, listVars, iter, snap, todo, gateway, pass,
                   selVars, groupVars, rows>>

RowOf(w) == [worker |-> w, iter |-> iter[w], gateway |-> gateway[w],
             pass |-> pass[w], ok |-> ok[w], cid |-> selected[w]]

\* Mutant of AfterRow: the pass after a failed one is tried all the same.
AfterRowOnAndOn(w) ==
    IF pass[w] < Passes
    THEN Goto(w, "probe") /\ pass' = [pass EXCEPT ![w] = @ + 1]
    ELSE Goto(w, "next") /\ UNCHANGED pass

\* Mutant of AfterRow: one pass too many.
AfterRowOffByOne(w) ==
    IF ok[w] /\ pass[w] <= Passes
    THEN Goto(w, "probe") /\ pass' = [pass EXCEPT ![w] = @ + 1]
    ELSE Goto(w, "next") /\ UNCHANGED pass

\* A failed probe is the gateway's last (continue gatewaysLoop).
AfterRow(w) ==
    IF ok[w] /\ pass[w] < Passes
    THEN Goto(w, "probe") /\ pass' = [pass EXCEPT ![w] = @ + 1]
    ELSE Goto(w, "next") /\ UNCHANGED pass

Insert(w) ==
    /\ mpc # "crashed"
    /\ wpc[w] = "insert"
    /\ rows' = IF MaxIter = 0 THEN rows ELSE rows \cup {RowOf(w)}
    /\ AfterRow(w)
    /\ UNCHANGED <<providerVars, listVars, iter, snap, todo, gateway, ok,
                   selVars, groupVars>>

InsertFails(w) ==
    /\ mpc # "crashed"
    /\ wpc[w] = "insert"
    /\ ReturnError(w)
    /\ UNCHANGED <<providerVars, listVars, loopVars, selVars, mpc, cancelled,
                   rows>>

-----------------------------------------------------------------------------
(* The end of the run.                                                     *)

AllReturned == \A w \in Workers : wpc[w] = "returned"

\* Mutant of Wait: the first error is returned at once.
WaitForFirst ==
    /\ mpc = "run"
    /\ AllReturned \/ gerr
    /\ mpc' = "close"
    /\ UNCHANGED <<providerVars, listVars, wpc, loopVars, selVars, gerr,
                   cancelled, rows>>

\* g.Wait()
Wait ==
    /\ mpc = "run"
    /\ AllReturned
    /\ mpc' = "close"
    /\ UNCHANGED <<providerVars, listVars, wpc, loopVars, selVars, gerr,
                   cancelled, rows>>

\* The deferred calls: the database client is closed, then ctx cancelled.
CloseDB ==
    /\ mpc = "close"
    /\ mpc' = "done"
    /\ UNCHANGED <<providerVars, listVars, wpc, loopVars, selVars, gerr,
                   cancelled, rows>>

Cancel ==
    /\ MayCancel
    /\ Running
    /\ ~cancelled
    /\ cancelled' = TRUE
    /\ UNCHANGED <<providerVars, listVars, wpc, loopVars, selVars, mpc, gerr,
                   rows>>

Terminated ==
    /\ ~Running
    /\ UNCHANGED vars

WorkerStep(w) ==
    \/ StartIteration(w)
    \/ StopWaiting(w)
    \/ Finish(w)
    \/ SelectControlled(w)
    \/ SelectStatic(w)
    \/ SelectSniffer(w)
    \/ ProviderStep(w)
    \/ AssignErr(w)
    \/ CheckErr(w)
    \/ CheckTornErr(w)
    \/ NextGateway(w)
    \/ Probe(w)
    \/ Insert(w)
    \/ InsertFails(w)

Next ==
    \/ InitialFetch
    \/ RefreshFetch
    \/ RefreshSwap
    \/ RefreshStops
    \/ \E w \in Workers : WorkerStep(w)
    \/ Wait
    \/ CloseDB
    \/ Cancel
    \/ Terminated

Spec == Init /\ [][Next]_vars

\* The runtime schedules every goroutine; a request, a query and an insert
\* return; a select with both cases ready picks one at random, so a worker
\* that keeps coming back to it takes gctx.Done() some time.
Fairness ==
    /\ WF_vars(InitialFetch)
    /\ WF_vars(Wait)
    /\ WF_vars(CloseDB)
    /\ \A w \in Workers : WF_vars(WorkerStep(w)) /\ SF_vars(StopWaiting(w))

FairSpec == Spec /\ Fairness

-----------------------------------------------------------------------------
(* Properties.                                                             *)

\* The gateways of its copy of the list that worker w is done with.
Probed(w) == snap[w] \ (todo[w] \cup {gateway[w]})
RowsIn(w, i, g) ==
    {r \in rows : r.worker = w /\ r.iter = i /\ r.gateway = g}
RowsOf(w, g) == RowsIn(w, iter[w], g)

\* The rows R are a gateway's passes from the first on, one row each, all of
\* them or up to the first failed one.
InFull(R) ==
    LET last == Cardinality(R)
    IN  /\ {r.pass : r \in R} = 1..last
        /\ \A r \in R : r.pass < last => r.ok
        /\ \A r \in R : r.pass = last => (r.ok => last = Passes)
        /\ last > 0

\* e2e/test_gateway.sh:24, "Each gateway is probed with 2 formats (none, car)
\* x 2 passes (uncached, cached)": whatever the refresher does to the list and
\* whichever workers fail, a gateway that a worker is done with was probed in
\* full.
GatewaysProbedInFull ==
    \A w \in Workers : \A g \in Probed(w) : InFull(RowsOf(w, g))

\* The rows of a whole run: when no worker failed, each has probed, in each of
\* the iterations asked for, every gateway of --gateways in full; of a list that
\* the refresher replaces, every gateway it came to at all.
RunProbedInFull ==
    mpc \in {"close", "done"} /\ ~gerr /\ MaxIter # 0 =>
        \A w \in Workers : wpc[w] = "returned" =>
            \A i \in 1..MaxIter : \A g \in Gateways :
                \/ InFull(RowsIn(w, i, g))
                \/ ~GatewaysFromFlag /\ RowsIn(w, i, g) = {}

\* The database client is closed only when no worker can insert any more,
\* also when one worker failed while the others were in the middle of theirs.
NoInsertAfterClose ==
    mpc \in {"close", "done"} =>
        \A w \in Workers : wpc[w] \in {"unborn", "returned"}

\* All rows of one iteration are for one and the same CID of one source: what
\* the other workers select meanwhile, from the same two providers, does not
\* leak into them.
OneCIDPerIteration ==
    \A r, s \in rows : r.worker = s.worker /\ r.iter = s.iter => r.cid = s.cid

Stopped(w) ==
    \/ mpc = "crashed"
    \/ wpc[w] = "returned"
    \/ wpc[w] = "unborn" /\ mpc \in {"close", "done"}

CyclePhase(w) ==
    IF Stopped(w) THEN "stopped"
    ELSE CASE wpc[w] = "probe"  -> "measuring"
           [] wpc[w] = "insert" -> "measured"
           [] OTHER             -> "between"

Cycle(w) == INSTANCE MeasurementCycle
            WITH phase <- CyclePhase(w),
                 db <- IF mpc = "done" THEN "closed" ELSE "open"

\* Every worker is a cycle of measurements of its own: none of them begins its
\* next request before the row of the last one is inserted, failed or not, and
\* none is in the middle of one when the main goroutine, which the error of any
\* other may have woken, closes the client.
WorkersCycle ==
    /\ \A w \in Workers : Cycle(w)!CycleInit
    /\ [][\A w \in Workers :
              [Cycle(w)!CycleNext]_(Cycle(w)!cycleVars)]_vars

\* A failed worker or a cancellation ends the run, although requests are not
\* bound to the group's context and the timer competes with its end.
FailureStopsRun == GroupDone ~> ~Running

\* README.md:43, the CIDs requested "are provided by a CID provider", and only
\* the noop provider returns cid.Undef (README.md:58): every request is for a
\* CID.
RowsNameACID == \A r \in rows : r.cid.cid # Undef
=============================================================================
