-------------------------- MODULE GatewayProbe_proofs --------------------------
(***************************************************************************)
(* Theorems about GatewayProbe and the CID providers its workers share, for *)
(* every set of workers and gateways, every length of the lists of CIDs and *)
(* every number of iterations.                                              *)
(***************************************************************************)
EXTENDS GatewayProbe, FiniteSetTheorems, TLAPS

-----------------------------------------------------------------------------
(* Types.                                                                  *)

Probing ==
    \A w \in Workers : wpc[w] \in {"probe", "insert"} => gateway[w] \in Gateways

Typed == TypeOK /\ Probing

ProviderCall(c) ==
    \/ StaticRead(c)
    \/ StaticIncrement(c)
    \/ StaticModulo(c)
    \/ ControlledAdd(c)
    \/ ControlledIndex(c)

LEMMA ModIs ==
    ASSUME NEW n \in Nat, NEW L \in Nat \ {0}, NEW q \in Nat,
           NEW r \in 0..(L - 1), n = (L * q) + r
    PROVE  n % L = r
OBVIOUS

LEMMA ModRange ==
    ASSUME NEW n \in Nat, NEW L \in Nat \ {0}
    PROVE  n % L \in 0..(L - 1)
OBVIOUS

LEMMA ProviderCallTyped ==
    ASSUME ProvidersTypeOK, NEW c \in Callers, ProviderCall(c)
    PROVE  ProvidersTypeOK'
<1> USE ProvidersAssumption DEF ProvidersTypeOK, CallStates, At, Hold, Pick
<1>1. CASE StaticRead(c)
  BY <1>1 DEF StaticRead
<1>2. CASE StaticIncrement(c)
  BY <1>2 DEF StaticIncrement
<1>3. CASE StaticModulo(c)
  <2>1. PICK v \in {held[c], staticIdx} : staticIdx' = v % StaticLen
    BY <1>3 DEF StaticModulo
  <2>2. staticIdx' \in Nat
    BY <2>1, ModRange
  <2>3. QED
    BY <1>3, <2>2 DEF StaticModulo
<1>4. CASE ControlledAdd(c)
  BY <1>4 DEF ControlledAdd
<1>5. CASE ControlledIndex(c)
  <2>1. ControlledCID(c) \in 0..(ControlledLen - 1)
    BY ModRange DEF ControlledCID
  <2>2. QED
    BY <1>5, <2>1 DEF ControlledIndex
<1>6. QED
  BY <1>1, <1>2, <1>3, <1>4, <1>5 DEF ProviderCall

\* The workers call the providers and nobody else touches them.
LEMMA WorkersCallProviders ==
    ASSUME [Next]_vars
    PROVE  UNCHANGED providerVars \/ \E c \in Callers : ProviderCall(c)
<1>1. ASSUME NEW w \in Workers, WorkerStep(w)
      PROVE  UNCHANGED providerVars \/ ProviderCall(w)
  BY <1>1 DEF WorkerStep, StartIteration, StopWaiting, Finish,
              SelectControlled, SelectStatic, SelectSniffer, ProviderStep,
              AssignErr, CheckErr, CheckTornErr, NextGateway, Probe, Insert,
              InsertFails, ProviderCall
<1>2. CASE ~\E w \in Workers : WorkerStep(w)
  BY <1>2 DEF Next, InitialFetch, RefreshFetch, RefreshSwap, RefreshStops,
              Wait, CloseDB, Cancel, Terminated, vars
<1>3. QED
  BY <1>1, <1>2, GatewayAssumption

LEMMA ProvidersTyped ==
    ASSUME ProvidersTypeOK, [Next]_vars
    PROVE  ProvidersTypeOK'
<1>1. CASE UNCHANGED providerVars
  BY <1>1 DEF ProvidersTypeOK, providerVars
<1>2. QED
  BY <1>1, WorkersCallProviders, ProviderCallTyped

\* A provider that keeps a list returns one of its CIDs.
LEMMA CallerReturnsACID ==
    ASSUME ProvidersTypeOK, NEW c \in Callers
    PROVE  picked[c] \in Nat /\ ControlledCID(c) \in Nat
<1>1. picked[c] \in Nat /\ held[c] \in Nat
  BY DEF ProvidersTypeOK
<1>2. ControlledCID(c) \in 0..(ControlledLen - 1)
  BY <1>1, ModRange, ProvidersAssumption DEF ControlledCID
<1>3. QED
  BY <1>1, <1>2, ProvidersAssumption

LEMMA TypedWorker ==
    ASSUME Typed, NEW w \in Workers, WorkerStep(w), ProvidersTypeOK'
    PROVE  Typed'
<1> USE DEF Typed, TypeOK, Probing, WorkerStates, Goto, ReturnError, listVars,
            loopVars, selVars, groupVars
<1>1. CASE StartIteration(w)
  BY <1>1, GatewayAssumption DEF StartIteration, CountIteration
<1>2. CASE StopWaiting(w)
  BY <1>2 DEF StopWaiting
<1>3. CASE Finish(w)
  BY <1>3 DEF Finish
<1>4. CASE SelectControlled(w)
  BY <1>4 DEF SelectControlled
<1>5. CASE SelectStatic(w)
  BY <1>5 DEF SelectStatic
<1>6. ASSUME NEW source \in {"controlled", "static", "sniffer"},
             NEW c \in Nat \cup {Undef}, NEW failed \in BOOLEAN,
             Returned(w, source, c, failed),
             UNCHANGED <<listVars, loopVars, err, groupVars, rows>>
      PROVE  Typed'
  BY <1>6 DEF Returned, Selection
<1>7. CASE SelectSniffer(w)
  BY <1>6, <1>7, GatewayAssumption DEF SelectSniffer
<1>8. CASE ProviderStep(w)
  <2>1. CASE UNCHANGED <<wpc, selected, selErr>>
    BY <1>8, <2>1 DEF ProviderStep
  <2>2. picked[w] \in Nat /\ ControlledCID(w) \in Nat
    BY CallerReturnsACID, GatewayAssumption
  <2>3. QED
    BY <1>6, <1>8, <2>1, <2>2 DEF ProviderStep
<1>9. CASE AssignErr(w)
  BY <1>9 DEF AssignErr
<1>10. CASE CheckErr(w)
  BY <1>10 DEF CheckErr
<1>11. CASE CheckTornErr(w)
  BY <1>11 DEF CheckTornErr
<1>12. CASE NextGateway(w)
  BY <1>12 DEF NextGateway, Passes
<1>13. CASE Probe(w)
  BY <1>13 DEF Probe
<1>14. CASE Insert(w)
  <2>1. RowOf(w) \in Row
    BY <1>14 DEF Insert, RowOf, Row
  <2>2. pass' \in [Workers -> 1..Passes]
    BY <1>14 DEF Insert, AfterRow, Passes
  <2>3. rows' \in SUBSET Row
    BY <1>14, <2>1 DEF Insert
  <2>4. QED
    BY <1>14, <2>2, <2>3 DEF Insert, AfterRow
<1>15. CASE InsertFails(w)
  BY <1>15 DEF InsertFails
<1>16. QED
  BY <1>1, <1>2, <1>3, <1>4, <1>5, <1>7, <1>8, <1>9, <1>10, <1>11, <1>12,
     <1>13, <1>14, <1>15 DEF WorkerStep

THEOREM TypedAlways == Spec => []Typed
<1>1. ASSUME Init
      PROVE  Typed
  <2>1. ProvidersTypeOK
    BY <1>1, ProvidersAssumption
       DEF Init, ProvidersInit, ProvidersTypeOK, CallStates
  <2>2. NoSelection \in Selection
    BY GatewayAssumption DEF NoSelection, Selection
  <2>3. gateways \in SUBSET Gateways /\ rows \in SUBSET Row
    BY <1>1 DEF Init
  <2>4. Probing
    BY <1>1 DEF Init, Probing
  <2>5. /\ wpc \in [Workers -> WorkerStates]
        /\ iter \in [Workers -> Nat]
        /\ snap \in [Workers -> SUBSET Gateways]
        /\ todo \in [Workers -> SUBSET Gateways]
        /\ gateway \in [Workers -> Gateways \cup {NoGateway}]
        /\ pass \in [Workers -> 1..Passes]
        /\ ok \in [Workers -> BOOLEAN]
    BY <1>1 DEF Init, WorkerStates, Passes
  <2>6. /\ selected \in [Workers -> Selection]
        /\ selErr \in [Workers -> BOOLEAN]
    BY <1>1, <2>2 DEF Init
  <2>7. /\ mpc \in {"fetch", "run"} /\ rpc = "off" /\ fetched = {}
        /\ err = FALSE /\ gerr = FALSE /\ cancelled = FALSE
    BY <1>1 DEF Init
  <2>8. TypeOK
    BY <2>1, <2>3, <2>5, <2>6, <2>7 DEF TypeOK
  <2>9. QED
    BY <2>4, <2>8 DEF Typed
<1>2. ASSUME Typed, [Next]_vars
      PROVE  Typed'
  <2>1. ProvidersTypeOK'
    BY <1>2, ProvidersTyped DEF Typed, TypeOK
  <2>2. CASE \E w \in Workers : WorkerStep(w)
    BY <1>2, <2>1, <2>2, TypedWorker
  <2> USE DEF Typed, TypeOK, Probing, WorkerStates, listVars, loopVars,
              selVars, groupVars
  <2>3. CASE InitialFetch
    BY <1>2, <2>1, <2>3 DEF InitialFetch, Query
  <2>4. CASE RefreshFetch \/ RefreshSwap \/ RefreshStops
    BY <1>2, <2>1, <2>4 DEF RefreshFetch, RefreshSwap, RefreshStops, Query
  <2>5. CASE Wait \/ CloseDB \/ Cancel
    BY <1>2, <2>1, <2>5 DEF Wait, CloseDB, Cancel
  <2>6. CASE UNCHANGED vars
    BY <1>2, <2>1, <2>6 DEF vars
  <2>7. QED
    BY <1>2, <2>2, <2>3, <2>4, <2>5, <2>6 DEF Next, Terminated
<1>3. QED
  BY <1>1, <1>2, PTL DEF Spec

\* The types of all variables, the providers' and the rows among them.
THEOREM TypeCorrect == Spec => []TypeOK
<1>1. Typed => TypeOK
  BY DEF Typed
<1>2. QED
  BY <1>1, TypedAlways, PTL

-----------------------------------------------------------------------------
(* The end of the run.                                                     *)

\* Workers are born when the list of gateways is known, and main waits for all
\* of them.
Waited ==
    /\ mpc = "fetch" => \A w \in Workers : wpc[w] = "unborn"
    /\ NoInsertAfterClose

\* A worker that moves is neither unborn nor returned, and main is waiting.
LEMMA WorkerMoves ==
    ASSUME Typed, Waited, NEW w \in Workers, WorkerStep(w)
    PROVE  /\ wpc[w] \notin {"unborn", "returned"}
           /\ mpc = "run"
           /\ \A v \in Workers \ {w} : wpc'[v] = wpc[v]
           /\ wpc'[w] # "unborn"
           /\ mpc' \in {"run", "crashed"}
<1> USE DEF Typed, TypeOK, WorkerStates, Goto, ReturnError, groupVars
<1>1. wpc[w] \notin {"unborn", "returned"} /\ mpc # "crashed"
  BY DEF WorkerStep, StartIteration, StopWaiting, Finish, SelectControlled,
         SelectStatic, SelectSniffer, ProviderStep, AssignErr, CheckErr,
         CheckTornErr, NextGateway, Probe, Insert, InsertFails
<1>2. mpc = "run"
  BY <1>1 DEF Waited, NoInsertAfterClose
<1>3. mpc' \in {"run", "crashed"}
  BY <1>2 DEF WorkerStep, StartIteration, StopWaiting, Finish,
         SelectControlled, SelectStatic, SelectSniffer, ProviderStep,
         AssignErr, CheckErr, CheckTornErr, NextGateway, Probe, Insert,
         InsertFails
<1>4. \E to \in WorkerStates \ {"unborn"} : wpc' = [wpc EXCEPT ![w] = to]
  <2>1. CASE StartIteration(w) \/ StopWaiting(w) \/ Finish(w)
    BY <2>1 DEF StartIteration, StopWaiting, Finish
  <2>2. CASE SelectControlled(w)
    BY <2>2 DEF SelectControlled
  <2>3. CASE SelectStatic(w)
    BY <1>1, <2>3 DEF SelectStatic
  <2>4. CASE SelectSniffer(w)
    BY <2>4 DEF SelectSniffer, Returned
  <2>5. CASE ProviderStep(w)
    BY <1>1, <2>5 DEF ProviderStep, Returned
  <2>6. CASE AssignErr(w)
    BY <2>6 DEF AssignErr
  <2>7. CASE CheckErr(w)
    BY <2>7 DEF CheckErr
  <2>8. CASE CheckTornErr(w)
    BY <1>1, <2>8 DEF CheckTornErr
  <2>9. CASE NextGateway(w)
    BY <2>9 DEF NextGateway
  <2>10. CASE Probe(w) \/ InsertFails(w)
    BY <2>10 DEF Probe, InsertFails
  <2>11. CASE Insert(w)
    BY <2>11 DEF Insert, AfterRow
  <2>12. QED
    BY <2>1, <2>2, <2>3, <2>4, <2>5, <2>6, <2>7, <2>8, <2>9, <2>10, <2>11
       DEF WorkerStep
<1>5. QED
  BY <1>1, <1>2, <1>3, <1>4

THEOREM WaitedAlways == Spec => []Waited
<1>1. Init => Waited
  BY DEF Init, Waited, NoInsertAfterClose
<1>2. ASSUME Typed, Waited, [Next]_vars
      PROVE  Waited'
  <2>1. CASE \E w \in Workers : WorkerStep(w)
    BY <1>2, <2>1, WorkerMoves DEF Waited, NoInsertAfterClose
  <2> USE DEF Waited, NoInsertAfterClose, groupVars
  <2>2. CASE InitialFetch
    BY <1>2, <2>2 DEF InitialFetch
  <2>3. CASE RefreshFetch \/ RefreshSwap \/ RefreshStops
    BY <1>2, <2>3 DEF RefreshFetch, RefreshSwap, RefreshStops
  <2>4. CASE Wait \/ CloseDB \/ Cancel
    BY <1>2, <2>4 DEF Wait, AllReturned, CloseDB, Cancel
  <2>5. CASE UNCHANGED vars
    BY <1>2, <2>5 DEF vars
  <2>6. QED
    BY <1>2, <2>1, <2>2, <2>3, <2>4, <2>5 DEF Next, Terminated
<1>3. QED
  BY <1>1, <1>2, TypedAlways, PTL DEF Spec

\* No worker is left that could insert when the client is closed.
THEOREM ClosedAfterTheLast == Spec => []NoInsertAfterClose
<1>1. Waited => NoInsertAfterClose
  BY DEF Waited
<1>2. QED
  BY <1>1, WaitedAlways, PTL

-----------------------------------------------------------------------------
(* Every worker is a cycle of measurements.                                *)

\* A step of one worker leaves the phases of the others alone, unless it ends
\* the process, and then they have stopped.
LEMMA OtherWorkers ==
    ASSUME Typed, Waited, NEW w \in Workers, WorkerStep(w),
           NEW v \in Workers \ {w}
    PROVE  [Cycle(v)!CycleNext]_(Cycle(v)!cycleVars)
<1>1. mpc = "run" /\ mpc' \in {"run", "crashed"} /\ wpc'[v] = wpc[v]
  BY WorkerMoves
<1>2. CASE mpc' = "run"
  BY <1>1, <1>2 DEF CyclePhase, Stopped, Cycle!cycleVars
<1>3. CASE mpc' = "crashed"
  <2>1. CyclePhase(v)' = "stopped"
    BY <1>3 DEF CyclePhase, Stopped
  <2>2. QED
    BY <1>1, <1>3, <2>1 DEF Cycle!CycleNext, Cycle!Stop
<1>4. QED
  BY <1>1, <1>2, <1>3

\* Its own phases follow one another as the cycle has them.
LEMMA OwnCycle ==
    ASSUME Typed, Waited, NEW w \in Workers, WorkerStep(w)
    PROVE  [Cycle(w)!CycleNext]_(Cycle(w)!cycleVars)
<1> USE DEF Typed, TypeOK, WorkerStates, Goto, ReturnError, CyclePhase,
            Stopped
<1>1. mpc = "run" /\ mpc' \in {"run", "crashed"} /\ wpc'[w] # "unborn"
      /\ wpc[w] \notin {"unborn", "returned"}
  BY WorkerMoves
<1>2. CASE mpc' = "crashed" \/ wpc'[w] = "returned"
  <2>1. CyclePhase(w)' = "stopped"
    BY <1>2
  <2>2. mpc # "done" /\ mpc' # "done"
    BY <1>1
  <2>3. QED
    BY <2>1, <2>2 DEF Cycle!CycleNext, Cycle!Stop
<1>3. CASE ~(mpc' = "crashed" \/ wpc'[w] = "returned") /\ NextGateway(w)
  <2>1. wpc[w] = "next" /\ wpc'[w] \in {"wait", "probe"}
    BY <1>3 DEF NextGateway
  <2>2. QED
    BY <1>1, <1>3, <2>1
       DEF Cycle!CycleNext, Cycle!Begin, Cycle!cycleVars
<1>4. CASE ~(mpc' = "crashed" \/ wpc'[w] = "returned") /\ Probe(w)
  <2>1. wpc[w] = "probe" /\ wpc'[w] = "insert"
    BY <1>4 DEF Probe
  <2>2. QED
    BY <1>1, <1>4, <2>1 DEF Cycle!CycleNext, Cycle!End
<1>5. CASE ~(mpc' = "crashed" \/ wpc'[w] = "returned") /\ Insert(w)
  <2>1. wpc[w] = "insert" /\ wpc'[w] \in {"probe", "next"}
    BY <1>5 DEF Insert, AfterRow
  <2>2. QED
    BY <1>1, <1>5, <2>1 DEF Cycle!CycleNext, Cycle!Record
<1>6. CASE /\ ~(mpc' = "crashed" \/ wpc'[w] = "returned")
           /\ ~NextGateway(w) /\ ~Probe(w) /\ ~Insert(w)
  <2>1. /\ wpc[w] \in {"wait", "select", "provider", "assign", "check"}
        /\ wpc'[w] \in {"wait", "select", "provider", "assign", "check", "next"}
    <3>1. CASE StartIteration(w) \/ SelectControlled(w) \/ AssignErr(w)
      BY <3>1 DEF StartIteration, SelectControlled, AssignErr
    <3>2. CASE SelectStatic(w)
      BY <1>6, <3>2 DEF SelectStatic
    <3>3. CASE SelectSniffer(w)
      BY <3>3 DEF SelectSniffer, Returned
    <3>4. CASE ProviderStep(w)
      BY <3>4 DEF ProviderStep, Returned
    <3>5. CASE CheckErr(w)
      BY <1>6, <3>5 DEF CheckErr
    <3>6. CASE StopWaiting(w) \/ Finish(w) \/ CheckTornErr(w) \/ InsertFails(w)
      BY <1>6, <3>6 DEF StopWaiting, Finish, CheckTornErr, InsertFails
    <3>7. QED
      BY <1>6, <3>1, <3>2, <3>3, <3>4, <3>5, <3>6 DEF WorkerStep
  <2>2. QED
    BY <1>1, <1>6, <2>1 DEF Cycle!cycleVars
<1>7. QED
  BY <1>2, <1>3, <1>4, <1>5, <1>6

\* Whatever the other workers, the refresher and the operator do, each worker
\* implements the cycle of measurements.
THEOREM WorkersFollowCycle == Spec => WorkersCycle
<1>1. Init => \A w \in Workers : Cycle(w)!CycleInit
  BY DEF Init, CyclePhase, Stopped, Cycle!CycleInit
<1>2. ASSUME Typed, Waited, Waited', [Next]_vars
      PROVE  \A w \in Workers : [Cycle(w)!CycleNext]_(Cycle(w)!cycleVars)
  <2> TAKE v \in Workers
  <2>1. CASE \E w \in Workers : WorkerStep(w)
    BY <1>2, <2>1, OwnCycle, OtherWorkers
  <2> USE DEF groupVars, CyclePhase, Stopped
  <2>2. CASE InitialFetch
    <3>1. mpc = "fetch" /\ wpc[v] = "unborn"
      BY <1>2, <2>2 DEF InitialFetch, Waited
    <3>2. CASE mpc' = "run"
      BY <2>2, <3>1, <3>2 DEF InitialFetch, Cycle!cycleVars
    <3>3. CASE mpc' = "close"
      BY <2>2, <3>1, <3>3 DEF InitialFetch, Cycle!CycleNext, Cycle!Stop
    <3>4. QED
      BY <2>2, <3>2, <3>3 DEF InitialFetch
  <2>3. CASE RefreshFetch \/ RefreshSwap \/ RefreshStops \/ Cancel
             \/ UNCHANGED vars
    <3>1. UNCHANGED <<mpc, wpc>>
      BY <2>3 DEF RefreshFetch, RefreshSwap, RefreshStops, Cancel, vars
    <3>2. QED
      BY <3>1 DEF Cycle!cycleVars
  <2>4. CASE Wait
    <3>1. /\ mpc = "run" /\ mpc' = "close"
          /\ wpc[v] = "returned" /\ wpc'[v] = "returned"
      BY <2>4 DEF Wait, AllReturned
    <3>2. QED
      BY <3>1 DEF Cycle!cycleVars
  <2>5. CASE CloseDB
    <3>1. /\ mpc = "close" /\ mpc' = "done" /\ wpc' = wpc
          /\ wpc[v] \in {"unborn", "returned"}
      BY <1>2, <2>5 DEF CloseDB, Waited, NoInsertAfterClose
    <3>2. QED
      BY <3>1 DEF Cycle!CycleNext, Cycle!Close
  <2>6. QED
    BY <1>2, <2>1, <2>2, <2>3, <2>4, <2>5 DEF Next, Terminated
<1>3. Spec => \A w \in Workers : Cycle(w)!CycleInit
  BY <1>1 DEF Spec
<1>4. Spec => [][\A w \in Workers :
                    [Cycle(w)!CycleNext]_(Cycle(w)!cycleVars)]_vars
  BY <1>2, TypedAlways, WaitedAlways, PTL DEF Spec
<1>5. QED
  BY <1>3, <1>4 DEF WorkersCycle

-----------------------------------------------------------------------------
(* Rows.                                                                   *)

\* A worker's step leaves the other workers' variables alone, and the rows too
\* unless it inserts one.
LEMMA OthersKeep ==
    ASSUME Typed, NEW w \in Workers, WorkerStep(w)
    PROVE  /\ \A v \in Workers \ {w} :
                 /\ wpc'[v] = wpc[v] /\ iter'[v] = iter[v]
                 /\ snap'[v] = snap[v] /\ todo'[v] = todo[v]
                 /\ gateway'[v] = gateway[v] /\ pass'[v] = pass[v]
                 /\ selected'[v] = selected[v]
           /\ ~Insert(w) => rows' = rows
<1> USE DEF Typed, TypeOK, Goto, ReturnError, loopVars, selVars
<1>1. CASE StartIteration(w)
  BY <1>1 DEF StartIteration, CountIteration
<1>2. CASE StopWaiting(w) \/ Finish(w)
  BY <1>2 DEF StopWaiting, Finish
<1>3. CASE SelectControlled(w)
  BY <1>3 DEF SelectControlled
<1>4. CASE SelectStatic(w)
  BY <1>4 DEF SelectStatic
<1>5. CASE SelectSniffer(w)
  BY <1>5 DEF SelectSniffer, Returned
<1>6. CASE ProviderStep(w)
  BY <1>6 DEF ProviderStep, Returned
<1>7. CASE AssignErr(w) \/ CheckErr(w) \/ CheckTornErr(w)
  BY <1>7 DEF AssignErr, CheckErr, CheckTornErr
<1>8. CASE NextGateway(w)
  BY <1>8 DEF NextGateway
<1>9. CASE Probe(w) \/ InsertFails(w)
  BY <1>9 DEF Probe, InsertFails
<1>10. CASE Insert(w)
  BY <1>10 DEF Insert, AfterRow
<1>11. QED
  BY <1>1, <1>2, <1>3, <1>4, <1>5, <1>6, <1>7, <1>8, <1>9, <1>10
     DEF WorkerStep

\* What the steps other than the workers' leave alone.
LEMMA OthersSteps ==
    ASSUME Typed, Waited, [Next]_vars, ~\E w \in Workers : WorkerStep(w)
    PROVE  /\ UNCHANGED <<iter, snap, todo, gateway, pass, ok, selected, rows>>
           /\ \A w \in Workers :
                 wpc'[w] = wpc[w] \/ (wpc[w] = "unborn" /\ wpc'[w] = "wait")
<1> USE DEF loopVars, selVars, Typed, TypeOK, Waited
<1>1. CASE InitialFetch
  BY <1>1 DEF InitialFetch
<1>2. CASE RefreshFetch \/ RefreshSwap \/ RefreshStops
  BY <1>2 DEF RefreshFetch, RefreshSwap, RefreshStops
<1>3. CASE Wait \/ CloseDB \/ Cancel
  BY <1>3 DEF Wait, CloseDB, Cancel
<1>4. CASE UNCHANGED vars
  BY <1>4 DEF vars
<1>5. QED
  BY <1>1, <1>2, <1>3, <1>4 DEF Next, Terminated

-----------------------------------------------------------------------------
(* One CID for the rows of an iteration.                                   *)

Rowing == {"next", "probe", "insert", "wait", "returned"}

\* No row is of an iteration to come, and those of the running one are for the
\* CID the worker selected and come after the selection.
Dated ==
    \A r \in rows :
        /\ MaxIter # 0
        /\ r.iter <= iter[r.worker]
        /\ r.iter = iter[r.worker] =>
              wpc[r.worker] \in Rowing /\ r.cid = selected[r.worker]

LEMMA DatedWorker ==
    ASSUME Typed, Dated, NEW w \in Workers, WorkerStep(w),
           NEW r \in rows
    PROVE  /\ r.iter <= iter'[r.worker]
           /\ r.iter = iter'[r.worker] =>
                 wpc'[r.worker] \in Rowing /\ r.cid = selected'[r.worker]
<1> USE DEF Goto, ReturnError, loopVars, selVars, Rowing
<1>1. r.worker \in Workers /\ r.iter \in Nat /\ iter \in [Workers -> Nat]
      /\ MaxIter # 0 /\ r.iter <= iter[r.worker]
      /\ wpc \in [Workers -> WorkerStates]
      /\ selected \in [Workers -> Selection]
  BY DEF Typed, TypeOK, Row, Dated
<1>2. r.iter = iter[r.worker] =>
         wpc[r.worker] \in Rowing /\ r.cid = selected[r.worker]
  BY DEF Dated
<1>3. CASE r.worker # w
  BY <1>1, <1>2, <1>3, OthersKeep
<1>4. CASE r.worker = w /\ StartIteration(w)
  <2>1. iter'[w] = iter[w] + 1
    BY <1>1, <1>4 DEF StartIteration, CountIteration
  <2>2. QED
    BY <1>1, <1>4, <2>1
<1>5. CASE r.worker = w /\ ~StartIteration(w)
  <2>1. iter' = iter
    BY <1>5 DEF WorkerStep, StopWaiting, Finish, SelectControlled,
         SelectStatic, SelectSniffer, ProviderStep, AssignErr, CheckErr,
         CheckTornErr, NextGateway, Probe, Insert, InsertFails
  <2>2. CASE SelectControlled(w) \/ SelectStatic(w) \/ SelectSniffer(w)
             \/ ProviderStep(w) \/ AssignErr(w) \/ CheckErr(w)
             \/ CheckTornErr(w)
    <3>1. wpc[w] \notin Rowing
      BY <2>2 DEF SelectControlled, SelectStatic, SelectSniffer, ProviderStep,
                  AssignErr, CheckErr, CheckTornErr
    <3>2. QED
      BY <1>1, <1>2, <1>5, <2>1, <3>1
  <2>3. CASE StopWaiting(w) \/ Finish(w) \/ NextGateway(w) \/ Probe(w)
             \/ Insert(w) \/ InsertFails(w)
    <3>1. selected' = selected
      BY <2>3 DEF StopWaiting, Finish, NextGateway, Probe, Insert, InsertFails
    <3>2. wpc'[w] \in Rowing
      BY <1>1, <2>3 DEF StopWaiting, Finish, NextGateway, Probe, Insert,
                       InsertFails, AfterRow
    <3>3. QED
      BY <1>1, <1>2, <1>5, <2>1, <3>1, <3>2
  <2>4. QED
    BY <1>5, <2>2, <2>3 DEF WorkerStep
<1>6. QED
  BY <1>3, <1>4, <1>5

THEOREM DatedAlways == Spec => [](Dated /\ OneCIDPerIteration)
<1>1. Init => Dated /\ OneCIDPerIteration
  BY DEF Init, Dated, OneCIDPerIteration
<1>2. ASSUME Typed, Waited, Dated, OneCIDPerIteration, [Next]_vars
      PROVE  Dated' /\ OneCIDPerIteration'
  <2>1. CASE ~\E w \in Workers : WorkerStep(w)
    <3>1. \A r \in rows : r.worker \in Workers
      BY <1>2 DEF Typed, TypeOK, Row
    <3>2. QED
      BY <1>2, <2>1, <3>1, OthersSteps DEF Dated, OneCIDPerIteration, Rowing
  <2>2. ASSUME NEW w \in Workers, WorkerStep(w), ~Insert(w)
        PROVE  Dated' /\ OneCIDPerIteration'
    <3>1. rows' = rows
      BY <1>2, <2>2, OthersKeep
    <3>2. QED
      BY <1>2, <2>2, <3>1, DatedWorker DEF Dated, OneCIDPerIteration
  <2>3. ASSUME NEW w \in Workers, Insert(w)
        PROVE  Dated' /\ OneCIDPerIteration'
    <3>1. CASE MaxIter = 0
      <4>1. rows = {} /\ rows' = {}
        BY <1>2, <2>3, <3>1 DEF Dated, Insert
      <4>2. QED
        BY <4>1 DEF Dated, OneCIDPerIteration
    <3>2. CASE MaxIter # 0
      <4>1. rows' = rows \cup {RowOf(w)}
        BY <2>3, <3>2 DEF Insert
      <4>2. WorkerStep(w)
        BY <2>3 DEF WorkerStep
      <4>3. RowOf(w).worker = w /\ RowOf(w).iter = iter[w]
            /\ RowOf(w).cid = selected[w]
        BY DEF RowOf
      <4>4. iter' = iter /\ selected' = selected /\ wpc'[w] \in Rowing
            /\ iter[w] \in Nat
        BY <1>2, <2>3 DEF Insert, AfterRow, Goto, Rowing, Typed, TypeOK, selVars
      <4>5. Dated'
        BY <1>2, <3>2, <4>1, <4>2, <4>3, <4>4, DatedWorker DEF Dated
      <4>6. ASSUME NEW r \in rows, r.worker = w, r.iter = iter[w]
            PROVE  r.cid = selected[w]
        BY <1>2, <4>6 DEF Dated
      <4>7. OneCIDPerIteration'
        BY <1>2, <4>1, <4>3, <4>6 DEF OneCIDPerIteration
      <4>8. QED
        BY <4>5, <4>7
    <3>3. QED
      BY <3>1, <3>2
  <2>4. QED
    BY <2>1, <2>2, <2>3
<1>3. QED
  BY <1>1, <1>2, TypedAlways, WaitedAlways, PTL DEF Spec

\* The rows of one iteration name one and the same CID, the one its worker
\* selected, however the workers' selections from the two providers interleave.
THEOREM OneCID == Spec => []OneCIDPerIteration
BY DatedAlways, PTL

-----------------------------------------------------------------------------
(* Every gateway a worker is done with was probed in full.                 *)

Begun(w) == wpc[w] \in {"probe", "insert"}

Finished(w) ==
    {g \in snap[w] \ todo[w] :
        wpc[w] \in {"probe", "insert", "returned"} => g # gateway[w]}

\* The rows R are the gateway's first n passes, and all of them succeeded.
FirstPasses(R, n) ==
    /\ IsFiniteSet(R)
    /\ Cardinality(R) = n
    /\ {r.pass : r \in R} = 1..n
    /\ \A r \in R : r.ok

Progress(w) ==
    /\ \A g \in todo[w] : RowsOf(w, g) = {}
    /\ \A g \in Finished(w) : InFull(RowsOf(w, g))
    /\ Begun(w) =>
          /\ gateway[w] \notin todo[w]
          /\ FirstPasses(RowsOf(w, gateway[w]), pass[w] - 1)

AllProgress == \A w \in Workers : Progress(w)

\* One more row of the next pass makes the passes one more, or complete.
LEMMA OneMoreRow ==
    ASSUME NEW n \in 1..Passes, NEW R, FirstPasses(R, n - 1),
           NEW row, row.pass = n, row.ok \in BOOLEAN
    PROVE  /\ row.ok => FirstPasses(R \cup {row}, n)
           /\ row.ok => n < Passes \/ InFull(R \cup {row})
           /\ ~row.ok => InFull(R \cup {row})
<1>1. n \in Nat /\ n > 0 /\ n <= Passes
  BY DEF Passes
<1>2. row \notin R
  <2>1. n \notin 1..(n - 1)
    BY <1>1
  <2>2. QED
    BY <2>1 DEF FirstPasses
<1>3. /\ IsFiniteSet(R \cup {row})
      /\ Cardinality(R \cup {row}) = n
  BY <1>1, <1>2, FS_AddElement DEF FirstPasses
<1>4. {r.pass : r \in R \cup {row}} = 1..n
  <2>1. {r.pass : r \in R \cup {row}} = {r.pass : r \in R} \cup {n}
    OBVIOUS
  <2>2. (1..(n - 1)) \cup {n} = 1..n
    BY <1>1
  <2>3. QED
    BY <2>1, <2>2 DEF FirstPasses
<1>5. \A r \in R : r.pass < n /\ r.ok
  <2>1. \A r \in R : r.pass \in 1..(n - 1)
    BY DEF FirstPasses
  <2>2. QED
    BY <1>1, <2>1 DEF FirstPasses
<1>6. row.ok => FirstPasses(R \cup {row}, n)
  BY <1>3, <1>4, <1>5 DEF FirstPasses
<1>7. ASSUME ~row.ok \/ n = Passes
      PROVE  InFull(R \cup {row})
  <2>1. \A r \in R \cup {row} : r.pass < n => r.ok
    BY <1>1, <1>5
  <2>2. \A r \in R \cup {row} : r.pass = n => (r.ok => n = Passes)
    BY <1>1, <1>5, <1>7
  <2>3. QED
    BY <1>1, <1>3, <1>4, <2>1, <2>2 DEF InFull
<1>8. n < Passes \/ n = Passes
  BY <1>1 DEF Passes
<1>9. QED
  BY <1>6, <1>7, <1>8

\* A row that worker w inserts is not one of worker v's.
LEMMA RowsOfOthers ==
    ASSUME Typed, NEW w \in Workers, WorkerStep(w), NEW v \in Workers \ {w},
           NEW g
    PROVE  RowsOf(v, g)' = RowsOf(v, g)
<1>1. iter'[v] = iter[v]
  BY OthersKeep
<1>2. CASE rows' = rows
  BY <1>1, <1>2 DEF RowsOf, RowsIn
<1>3. CASE Insert(w) /\ rows' = rows \cup {RowOf(w)}
  BY <1>1, <1>3 DEF RowsOf, RowsIn, RowOf
<1>4. QED
  BY <1>2, <1>3, OthersKeep DEF Insert

LEMMA ProgressOther ==
    ASSUME Typed, NEW w \in Workers, WorkerStep(w), NEW v \in Workers \ {w},
           Progress(v)
    PROVE  Progress(v)'
<1>1. /\ wpc'[v] = wpc[v] /\ snap'[v] = snap[v] /\ todo'[v] = todo[v]
      /\ gateway'[v] = gateway[v] /\ pass'[v] = pass[v]
  BY OthersKeep
<1>2. Finished(v)' = Finished(v) /\ Begun(v)' = Begun(v)
  BY <1>1 DEF Finished, Begun
<1>3. \A g : RowsOf(v, g)' = RowsOf(v, g)
  BY RowsOfOthers
<1>4. RowsOf(v, gateway[v])' = RowsOf(v, gateway[v])
  <2>1. PICK g : g = gateway[v] /\ g = gateway'[v]
    BY <1>1
  <2>2. RowsOf(v, gateway[v])' = RowsOf(v, g)'
    BY <2>1 DEF RowsOf, RowsIn
  <2>3. QED
    BY <1>3, <2>1, <2>2
<1>5. QED
  BY <1>1, <1>2, <1>3, <1>4 DEF Progress

LEMMA ProgressStart ==
    ASSUME MaxIter # 0, Typed, Dated, NEW w \in Workers, StartIteration(w)
    PROVE  Progress(w)'
<1>1. /\ wpc'[w] = "select" /\ iter'[w] = iter[w] + 1 /\ rows' = rows
      /\ snap'[w] = gateways /\ todo'[w] = gateways
      /\ iter[w] \in Nat
  BY DEF StartIteration, CountIteration, Goto, Typed, TypeOK
<1>2. \A g : RowsOf(w, g)' = {}
  <2>1. \A r \in rows : r.worker = w => r.iter \in Nat /\ r.iter <= iter[w]
    BY DEF Dated, Typed, TypeOK, Row
  <2>2. QED
    BY <1>1, <2>1 DEF RowsOf, RowsIn
<1>3. Finished(w)' = {} /\ ~Begun(w)'
  BY <1>1 DEF Finished, Begun
<1>4. QED
  BY <1>2, <1>3 DEF Progress

LEMMA ProgressNext ==
    ASSUME Typed, NEW w \in Workers, NextGateway(w), Progress(w)
    PROVE  Progress(w)'
<1> USE DEF Goto
<1>1. \A g : RowsOf(w, g)' = RowsOf(w, g)
  BY DEF NextGateway, RowsOf, RowsIn
<1>2. /\ wpc[w] = "next" /\ snap' = snap /\ pass'[w] = 1
      /\ todo[w] \in SUBSET Gateways
  BY DEF NextGateway, Typed, TypeOK
<1>3. CASE todo[w] = {} /\ wpc'[w] = "wait" /\ todo' = todo
  <2>1. Finished(w)' = Finished(w) /\ ~Begun(w)'
    BY <1>2, <1>3 DEF Finished, Begun
  <2>2. QED
    BY <1>1, <1>3, <2>1 DEF Progress
<1>4. ASSUME NEW g \in todo[w], gateway'[w] = g, todo'[w] = todo[w] \ {g},
             wpc'[w] = "probe"
      PROVE  Progress(w)'
  <2>1. Finished(w)' \subseteq Finished(w)
    BY <1>2, <1>4 DEF Finished
  <2>2. RowsOf(w, gateway[w])' = {}
    <3>1. RowsOf(w, gateway[w])' = RowsOf(w, g)'
      BY <1>4 DEF RowsOf, RowsIn
    <3>2. QED
      BY <1>1, <1>4, <3>1 DEF Progress
  <2>3. FirstPasses({}, 0)
    BY FS_EmptySet DEF FirstPasses
  <2>4. FirstPasses(RowsOf(w, gateway[w]), pass[w] - 1)'
    BY <1>2, <2>2, <2>3
  <2>5. QED
    BY <1>1, <1>4, <2>1, <2>4 DEF Progress, Begun
<1>5. QED
  BY <1>3, <1>4 DEF NextGateway, Typed, TypeOK

LEMMA ProgressInsert ==
    ASSUME MaxIter # 0, Typed, NEW w \in Workers, Insert(w), Progress(w)
    PROVE  Progress(w)'
<1> DEFINE g == gateway[w]
           R == RowsOf(w, g)
           row == RowOf(w)
<1>1. /\ wpc[w] = "insert" /\ UNCHANGED <<iter, snap, todo, gateway, ok>>
      /\ rows' = rows \cup {row}
      /\ pass[w] \in 1..Passes /\ ok[w] \in BOOLEAN /\ iter[w] \in Nat
  BY DEF Insert, Typed, TypeOK
<1>2. /\ row.worker = w /\ row.iter = iter[w] /\ row.gateway = g
      /\ row.pass = pass[w] /\ row.ok = ok[w]
  BY DEF RowOf
<1>3. \A h : RowsOf(w, h)' = IF h = g THEN R \cup {row} ELSE RowsOf(w, h)
  BY <1>1, <1>2 DEF RowsOf, RowsIn
<1>4. FirstPasses(R, pass[w] - 1) /\ g \notin todo[w]
  BY <1>1 DEF Progress, Begun
<1>5. /\ ok[w] => FirstPasses(R \cup {row}, pass[w])
      /\ ok[w] => pass[w] < Passes \/ InFull(R \cup {row})
      /\ ~ok[w] => InFull(R \cup {row})
  <2> HIDE DEF R, row
  <2>1. QED
    BY <1>1, <1>2, <1>4, OneMoreRow
<1>6. \A h \in todo'[w] : RowsOf(w, h)' = {}
  BY <1>1, <1>3, <1>4 DEF Progress
<1>7. CASE ok[w] /\ pass[w] < Passes
  <2>1. wpc'[w] = "probe" /\ pass'[w] = pass[w] + 1
    BY <1>7 DEF Insert, AfterRow, Goto, Typed, TypeOK
  <2>2. Finished(w)' = Finished(w) /\ g \notin Finished(w)
    BY <1>1, <2>1 DEF Finished
  <2>3. RowsOf(w, gateway[w])' = R \cup {row}
    BY <1>1, <1>3 DEF RowsOf, RowsIn
  <2>4. pass'[w] - 1 = pass[w]
    BY <1>1, <2>1 DEF Passes
  <2>5. FirstPasses(RowsOf(w, gateway[w]), pass[w] - 1)'
    BY <1>5, <1>7, <2>3, <2>4
  <2>6. \A h \in Finished(w)' : InFull(RowsOf(w, h))'
    <3>1. TAKE h \in Finished(w)'
    <3>2. h # g /\ h \in Finished(w)
      BY <2>2
    <3>3. QED
      BY <1>3, <3>2 DEF Progress
  <2>7. gateway'[w] \notin todo'[w]
    BY <1>1, <1>4
  <2>8. QED
    BY <1>6, <2>5, <2>6, <2>7 DEF Progress
<1>8. CASE ~(ok[w] /\ pass[w] < Passes)
  <2>1. wpc'[w] = "next"
    BY <1>8 DEF Insert, AfterRow, Goto, Typed, TypeOK
  <2>2. InFull(R \cup {row})
    BY <1>5, <1>8, <1>1
  <2>3. ~Begun(w)'
    BY <2>1 DEF Begun
  <2>4. \A h \in Finished(w)' : InFull(RowsOf(w, h))'
    <3>1. TAKE h \in Finished(w)'
    <3>2. CASE h = g
      BY <1>3, <2>2, <3>2
    <3>3. CASE h # g
      <4>1. h \in Finished(w)
        BY <1>1, <3>1, <3>3 DEF Finished
      <4>2. QED
        BY <1>3, <3>3, <4>1 DEF Progress
    <3>4. QED
      BY <3>2, <3>3
  <2>5. QED
    BY <1>6, <2>3, <2>4 DEF Progress
<1>9. QED
  BY <1>7, <1>8

\* The other steps of a worker insert nothing and leave its place in the list.
LEMMA ProgressElse ==
    ASSUME Typed, NEW w \in Workers, WorkerStep(w), Progress(w),
           ~StartIteration(w), ~NextGateway(w), ~Insert(w)
    PROVE  Progress(w)'
<1>1. UNCHANGED <<iter, snap, todo, gateway, pass, rows>>
  BY DEF WorkerStep, StopWaiting, Finish, SelectControlled, SelectStatic,
         SelectSniffer, ProviderStep, AssignErr, CheckErr, CheckTornErr,
         Probe, InsertFails, loopVars
<1>2. \A g : RowsOf(w, g)' = RowsOf(w, g)
  BY <1>1 DEF RowsOf, RowsIn
<1>3. RowsOf(w, gateway[w])' = RowsOf(w, gateway[w])
  BY <1>1 DEF RowsOf, RowsIn
<1>4. /\ Begun(w)' => Begun(w)
      /\ wpc[w] \in {"probe", "insert", "returned"} =>
            wpc'[w] \in {"probe", "insert", "returned"}
  BY DEF WorkerStep, StopWaiting, Finish, SelectControlled, SelectStatic,
         SelectSniffer, ProviderStep, Returned, AssignErr, CheckErr,
         CheckTornErr, Probe, InsertFails, ReturnError, Goto, Begun, Typed,
         TypeOK
<1>5. Finished(w)' \subseteq Finished(w)
  BY <1>1, <1>4 DEF Finished
<1>6. QED
  BY <1>1, <1>2, <1>3, <1>4, <1>5 DEF Progress

THEOREM ProgressAlways ==
    ASSUME MaxIter # 0
    PROVE  Spec => []AllProgress
<1>1. Init => AllProgress
  BY DEF Init, AllProgress, Progress, Finished, Begun
<1>2. ASSUME Typed, Waited, Dated, AllProgress, [Next]_vars
      PROVE  AllProgress'
  <2>1. CASE ~\E w \in Workers : WorkerStep(w)
    <3>1. SUFFICES ASSUME NEW w \in Workers PROVE Progress(w)'
      BY DEF AllProgress
    <3>2. /\ UNCHANGED <<iter, snap, todo, gateway, pass, rows>>
          /\ wpc'[w] = wpc[w] \/ (wpc[w] = "unborn" /\ wpc'[w] = "wait")
      BY <1>2, <2>1, OthersSteps
    <3>3. \A g : RowsOf(w, g)' = RowsOf(w, g)
      BY <3>2 DEF RowsOf, RowsIn
    <3>4. RowsOf(w, gateway[w])' = RowsOf(w, gateway[w])
      BY <3>2 DEF RowsOf, RowsIn
    <3>5. Finished(w)' = Finished(w) /\ Begun(w)' = Begun(w)
      BY <3>2 DEF Finished, Begun
    <3>6. QED
      BY <1>2, <3>2, <3>3, <3>4, <3>5 DEF AllProgress, Progress
  <2>2. ASSUME NEW w \in Workers, WorkerStep(w)
        PROVE  Progress(w)'
    BY <1>2, <2>2, ProgressStart, ProgressNext, ProgressInsert, ProgressElse
       DEF AllProgress
  <2>3. QED
    BY <1>2, <2>1, <2>2, ProgressOther DEF AllProgress
<1>3. QED
  BY <1>1, <1>2, TypedAlways, WaitedAlways, DatedAlways, PTL DEF Spec

\* e2e/test_gateway.sh: both formats, twice each, up to the first failure, for
\* every gateway of the copy; of a bounded run, whose rows the model keeps.
THEOREM ProbedInFull ==
    ASSUME MaxIter # 0
    PROVE  Spec => []GatewaysProbedInFull
<1>1. AllProgress => GatewaysProbedInFull
  BY DEF AllProgress, Progress, Finished, Probed, GatewaysProbedInFull
<1>2. QED
  BY <1>1, ProgressAlways, PTL

-----------------------------------------------------------------------------
(* The rows of a whole run.                                                *)

\* Iteration i of worker w has all its rows.
Complete(w, i) ==
    \A g \in Gateways :
        \/ InFull(RowsIn(w, i, g))
        \/ ~GatewaysFromFlag /\ RowsIn(w, i, g) = {}

\* The list of --gateways never changes.
Fixed ==
    GatewaysFromFlag => gateways = Gateways /\ rpc = "off" /\ mpc # "fetch"

\* The rows of the running iteration are of gateways of the worker's copy.
Copied(w) ==
    /\ todo[w] \subseteq snap[w]
    /\ Begun(w) => gateway[w] \in snap[w]
    /\ \A r \in rows :
          r.worker = w /\ r.iter = iter[w] => r.gateway \in snap[w]
    /\ GatewaysFromFlag /\ iter[w] > 0 => snap[w] = Gateways

\* The iterations before the running one are complete, and this one is once the
\* worker waits for the next or has returned without an error.
Whole(w) ==
    /\ iter[w] <= MaxIter
    /\ \A i \in 1..(iter[w] - 1) : Complete(w, i)
    /\ wpc[w] = "wait" /\ iter[w] > 0 => Complete(w, iter[w])
    /\ wpc[w] = "returned" /\ ~gerr =>
          iter[w] = MaxIter /\ Complete(w, iter[w])

AllWhole == Fixed /\ \A w \in Workers : Copied(w) /\ Whole(w)

LEMMA FixedStep ==
    ASSUME Typed, Fixed, [Next]_vars
    PROVE  Fixed'
<1> USE DEF Fixed, listVars, groupVars
<1>1. ASSUME NEW w \in Workers, WorkerStep(w)
      PROVE  UNCHANGED listVars /\ mpc' \in {mpc, "crashed"}
  BY <1>1 DEF WorkerStep, StartIteration, StopWaiting, Finish,
     SelectControlled, SelectStatic, SelectSniffer, ProviderStep, AssignErr,
     CheckErr, CheckTornErr, NextGateway, Probe, Insert, InsertFails
<1>2. CASE InitialFetch \/ RefreshFetch \/ RefreshSwap \/ RefreshStops
  BY <1>2 DEF InitialFetch, RefreshFetch, RefreshSwap, RefreshStops
<1>3. CASE Wait \/ CloseDB \/ Cancel
  BY <1>3 DEF Wait, CloseDB, Cancel
<1>4. CASE UNCHANGED vars
  BY <1>4 DEF vars
<1>5. QED
  BY <1>1, <1>2, <1>3, <1>4 DEF Next, Terminated

\* A step of worker w changes the rows of its running iteration only.
LEMMA RowsOfOtherIterations ==
    ASSUME Typed, NEW w \in Workers, WorkerStep(w), NEW v \in Workers, NEW i,
           v # w \/ i # iter[w] \/ ~Insert(w)
    PROVE  /\ \A g : RowsIn(v, i, g)' = RowsIn(v, i, g)
           /\ Complete(v, i)' <=> Complete(v, i)
<1>1. \A g : RowsIn(v, i, g)' = RowsIn(v, i, g)
  <2>1. CASE rows' = rows
    BY <2>1 DEF RowsIn
  <2>2. CASE Insert(w) /\ rows' = rows \cup {RowOf(w)}
    <3>1. RowOf(w).worker = w /\ RowOf(w).iter = iter[w]
      BY DEF RowOf
    <3>2. RowOf(w).worker # v \/ RowOf(w).iter # i
      BY <2>2, <3>1
    <3>3. QED
      BY <2>2, <3>2 DEF RowsIn
  <2>3. QED
    BY <2>1, <2>2, OthersKeep DEF Insert
<1>2. QED
  BY <1>1 DEF Complete

\* An iteration whose gateways were all taken from the copy is complete.
LEMMA TakenIsComplete ==
    ASSUME Typed, NEW w \in Workers, Progress(w), Copied(w), iter[w] > 0,
           wpc[w] = "next", todo[w] = {}
    PROVE  Complete(w, iter[w])
<1> SUFFICES ASSUME NEW g \in Gateways
             PROVE  \/ InFull(RowsIn(w, iter[w], g))
                    \/ ~GatewaysFromFlag /\ RowsIn(w, iter[w], g) = {}
  BY DEF Complete
<1>1. CASE g \in snap[w]
  <2>1. g \in Finished(w)
    BY <1>1 DEF Finished
  <2>2. QED
    BY <2>1 DEF Progress, RowsOf
<1>2. CASE g \notin snap[w]
  BY <1>2 DEF Copied, RowsIn
<1>3. QED
  BY <1>1, <1>2

LEMMA CopiedWorker ==
    ASSUME MaxIter # 0, Typed, Dated, Fixed, NEW w \in Workers, WorkerStep(w),
           Copied(w)
    PROVE  Copied(w)'
<1> USE DEF Goto
<1>1. /\ iter \in [Workers -> Nat] /\ \A r \in rows : r.iter \in Nat
      /\ wpc \in [Workers -> WorkerStates] /\ gateway \in [Workers -> Gateways \cup {NoGateway}]
      /\ todo \in [Workers -> SUBSET Gateways] /\ snap \in [Workers -> SUBSET Gateways]
  BY DEF Typed, TypeOK, Row
<1>2. CASE StartIteration(w)
  <2>1. /\ wpc'[w] = "select" /\ iter'[w] = iter[w] + 1 /\ UNCHANGED rows
        /\ snap'[w] = gateways /\ todo'[w] = gateways
    BY <1>1, <1>2 DEF StartIteration, CountIteration
  <2>2. \A r \in rows : r.worker = w => r.iter # iter'[w]
    BY <1>1, <2>1 DEF Dated
  <2>3. QED
    BY <2>1, <2>2 DEF Copied, Begun, Fixed
<1>3. CASE NextGateway(w)
  <2>1. wpc[w] = "next" /\ UNCHANGED <<iter, snap, rows>>
    BY <1>3 DEF NextGateway
  <2>2. CASE wpc'[w] = "wait" /\ UNCHANGED todo
    BY <2>1, <2>2 DEF Copied, Begun
  <2>3. ASSUME NEW g \in todo[w], gateway'[w] = g, todo'[w] = todo[w] \ {g}
        PROVE  Copied(w)'
    BY <2>1, <2>3 DEF Copied
  <2>4. QED
    BY <1>1, <1>3, <2>2, <2>3 DEF NextGateway
<1>4. CASE Insert(w)
  <2>1. /\ rows' = rows \cup {RowOf(w)} /\ wpc[w] = "insert"
        /\ UNCHANGED <<iter, snap, todo, gateway>>
    BY <1>4 DEF Insert
  <2>2. RowOf(w).gateway = gateway[w] /\ gateway[w] \in snap[w]
    BY <2>1 DEF RowOf, Copied, Begun
  <2>3. QED
    BY <2>1, <2>2 DEF Copied
<1>5. CASE ~StartIteration(w) /\ ~NextGateway(w) /\ ~Insert(w)
  <2>1. UNCHANGED <<iter, snap, todo, gateway, rows>>
    BY <1>5 DEF WorkerStep, StopWaiting, Finish, SelectControlled,
       SelectStatic, SelectSniffer, ProviderStep, AssignErr, CheckErr,
       CheckTornErr, Probe, InsertFails, loopVars
  <2>2. Begun(w)' => Begun(w)
    BY <1>1, <1>5 DEF WorkerStep, StopWaiting, Finish, SelectControlled,
       SelectStatic, SelectSniffer, ProviderStep, Returned, AssignErr, CheckErr,
       CheckTornErr, Probe, InsertFails, ReturnError, Begun
  <2>3. QED
    BY <2>1, <2>2 DEF Copied
<1>6. QED
  BY <1>2, <1>3, <1>4, <1>5

LEMMA WholeWorker ==
    ASSUME MaxIter # 0, Typed, NEW w \in Workers, WorkerStep(w), Progress(w),
           Copied(w), Whole(w), wpc[w] # "wait" => iter[w] > 0
    PROVE  Whole(w)'
<1> USE DEF Goto
<1>1. /\ iter \in [Workers -> Nat] /\ wpc \in [Workers -> WorkerStates]
      /\ MaxIter \in Nat
  BY GatewayAssumption DEF Typed, TypeOK
<1>2. CASE StartIteration(w)
  <2>1. /\ wpc[w] = "wait" /\ wpc'[w] = "select" /\ ~Insert(w)
        /\ iter'[w] = iter[w] + 1 /\ iter[w] < MaxIter
    BY <1>1, <1>2 DEF StartIteration, CountIteration, MoreIterations, Insert
  <2>2. \A i \in 1..(iter'[w] - 1) : Complete(w, i)
    BY <1>1, <2>1 DEF Whole
  <2>3. \A i \in 1..(iter'[w] - 1) : Complete(w, i)'
    BY <2>1, <2>2, RowsOfOtherIterations
  <2>4. QED
    BY <1>1, <2>1, <2>3 DEF Whole
\* The other steps stay in their iteration.
<1>3. CASE ~StartIteration(w)
  <2>1. iter' = iter /\ iter[w] \in Nat
    BY <1>1, <1>3 DEF WorkerStep, StopWaiting, Finish, SelectControlled,
       SelectStatic, SelectSniffer, ProviderStep, AssignErr, CheckErr,
       CheckTornErr, NextGateway, Probe, Insert, InsertFails, loopVars
  <2>2. \A i \in 1..(iter[w] - 1) : Complete(w, i)'
    <3>1. \A i \in 1..(iter[w] - 1) : i # iter[w] /\ Complete(w, i)
      BY <2>1 DEF Whole
    <3>2. QED
      BY <3>1, RowsOfOtherIterations
  <2>3. CASE wpc'[w] \notin {"wait", "returned"}
    BY <2>1, <2>2, <2>3 DEF Whole
  <2>4. CASE wpc'[w] = "wait"
    <3>1. NextGateway(w) /\ ~Insert(w) /\ todo[w] = {}
      BY <1>1, <1>3, <2>4 DEF WorkerStep, StopWaiting, Finish,
         SelectControlled, SelectStatic, SelectSniffer, ProviderStep, Returned,
         AssignErr, CheckErr, CheckTornErr, NextGateway, Probe, Insert,
         AfterRow, InsertFails, ReturnError
    <3>2. wpc[w] = "next"
      BY <3>1 DEF NextGateway
    <3>3. Complete(w, iter[w])
      BY <3>1, <3>2, TakenIsComplete
    <3>4. Complete(w, iter[w])'
      <4>1. PICK i : i = iter[w] /\ i = iter'[w]
        BY <2>1
      <4>2. Complete(w, i)'
        BY <3>1, <3>3, <4>1, RowsOfOtherIterations
      <4>3. QED
        BY <4>1, <4>2 DEF Complete, RowsIn
    <3>5. QED
      BY <2>1, <2>2, <2>4, <3>4 DEF Whole
  <2>5. CASE wpc'[w] = "returned" /\ gerr'
    BY <2>1, <2>2, <2>5 DEF Whole
  <2>6. CASE wpc'[w] = "returned" /\ ~gerr'
    <3>1. Finish(w) /\ ~Insert(w)
      BY <1>1, <1>3, <2>6 DEF WorkerStep, StopWaiting, Finish,
         SelectControlled, SelectStatic, SelectSniffer, ProviderStep, Returned,
         AssignErr, CheckErr, CheckTornErr, NextGateway, Probe, Insert,
         AfterRow, InsertFails, ReturnError
    <3>2. wpc[w] = "wait" /\ iter[w] = MaxIter
      BY <1>1, <3>1 DEF Finish, MoreIterations, Whole
    <3>3. Complete(w, iter[w])
      BY <1>1, <3>2 DEF Whole
    <3>4. Complete(w, iter[w])'
      <4>1. PICK i : i = iter[w] /\ i = iter'[w]
        BY <2>1
      <4>2. Complete(w, i)'
        BY <3>1, <3>3, <4>1, RowsOfOtherIterations
      <4>3. QED
        BY <4>1, <4>2 DEF Complete, RowsIn
    <3>5. QED
      BY <2>1, <2>2, <2>6, <3>2, <3>4 DEF Whole
  <2>7. QED
    BY <2>3, <2>4, <2>5, <2>6
<1>4. QED
  BY <1>2, <1>3

\* The others keep what they have, also when worker w fails.
LEMMA WholeOther ==
    ASSUME Typed, NEW w \in Workers, WorkerStep(w), NEW v \in Workers \ {w},
           Copied(v), Whole(v)
    PROVE  Copied(v)' /\ Whole(v)'
<1>1. /\ wpc'[v] = wpc[v] /\ iter'[v] = iter[v] /\ snap'[v] = snap[v]
      /\ todo'[v] = todo[v] /\ gateway'[v] = gateway[v]
  BY OthersKeep
<1>2. \A i : Complete(v, i)' <=> Complete(v, i)
  BY RowsOfOtherIterations
<1>3. Complete(v, iter[v])' <=> Complete(v, iter[v])
  <2>1. PICK i : i = iter[v] /\ i = iter'[v]
    BY <1>1
  <2>2. Complete(v, iter[v])' <=> Complete(v, i)'
    BY <2>1 DEF Complete, RowsIn
  <2>3. QED
    BY <1>2, <2>1, <2>2
<1>4. gerr => gerr'
  BY DEF WorkerStep, StartIteration, StopWaiting, Finish, SelectControlled,
     SelectStatic, SelectSniffer, ProviderStep, AssignErr, CheckErr,
     CheckTornErr, NextGateway, Probe, Insert, InsertFails, ReturnError,
     groupVars
<1>5. \A r \in rows' : r \in rows \/ r.worker # v
  BY OthersKeep DEF Insert, RowOf
<1>6. Copied(v)'
  BY <1>1, <1>5 DEF Copied, Begun
<1>7. Whole(v)'
  BY <1>1, <1>2, <1>3, <1>4 DEF Whole
<1>8. QED
  BY <1>6, <1>7

\* An unborn worker has started no iteration, and one that waits for no timer
\* has started some.
Started ==
    \A w \in Workers :
        /\ wpc[w] = "unborn" => iter[w] = 0
        /\ wpc[w] \notin {"unborn", "wait", "returned"} => iter[w] > 0

THEOREM StartedAlways == ASSUME MaxIter # 0 PROVE Spec => []Started
<1>1. Init => Started
  BY DEF Init, Started
<1>2. ASSUME Typed, Waited, Started, [Next]_vars
      PROVE  Started'
  <2>1. CASE ~\E w \in Workers : WorkerStep(w)
    BY <1>2, <2>1, OthersSteps DEF Started
  <2>2. ASSUME NEW w \in Workers, WorkerStep(w), StartIteration(w)
        PROVE  iter'[w] > 0
    BY <1>2, <2>2 DEF StartIteration, CountIteration, Typed, TypeOK
  <2>3. ASSUME NEW w \in Workers, WorkerStep(w), ~StartIteration(w)
        PROVE  wpc'[w] \notin {"unborn", "wait", "returned"} =>
                  iter'[w] > 0
    <3>1. iter' = iter
      BY <2>3 DEF WorkerStep, StopWaiting, Finish, SelectControlled,
         SelectStatic, SelectSniffer, ProviderStep, AssignErr, CheckErr,
         CheckTornErr, NextGateway, Probe, Insert, InsertFails, loopVars
    <3>2. CASE wpc[w] = "wait"
      BY <1>2, <2>3, <3>2 DEF WorkerStep, StopWaiting, Finish, SelectControlled,
         SelectStatic, SelectSniffer, ProviderStep, AssignErr, CheckErr,
         CheckTornErr, NextGateway, Probe, Insert, InsertFails, ReturnError, Goto,
         Typed, TypeOK
    <3>3. CASE wpc[w] # "wait"
      BY <1>2, <2>3, <3>1, <3>3, WorkerMoves DEF Started
    <3>4. QED
      BY <3>2, <3>3
  <2>4. QED
    <3>1. ASSUME NEW w \in Workers, WorkerStep(w)
          PROVE  Started'
      <4>1. wpc'[w] # "unborn"
        BY <1>2, <3>1, WorkerMoves
      <4>2. wpc'[w] \notin {"wait", "returned"} => iter'[w] > 0
        BY <2>2, <2>3, <3>1, <4>1
      <4>3. QED
        BY <1>2, <3>1, <4>1, <4>2, OthersKeep DEF Started
    <3>2. QED
      BY <2>1, <3>1
<1>3. QED
  BY <1>1, <1>2, TypedAlways, WaitedAlways, PTL DEF Spec

\* A run of --gateways in which no worker failed has the rows of every gateway,
\* worker and iteration, each in full; with a list that changes, the rows of an
\* iteration are in full for every gateway it came to.
THEOREM RunInFull ==
    ASSUME MaxIter # 0
    PROVE  Spec => []RunProbedInFull
<1>1. Init => AllWhole
  <2>1. MaxIter \in Nat
    BY GatewayAssumption
  <2>2. QED
    BY <2>1 DEF Init, AllWhole, Fixed, Copied, Whole, Begun
<1>2. ASSUME Typed, Waited, Dated, Started, AllProgress, AllWhole, [Next]_vars
      PROVE  AllWhole'
  <2>1. Fixed'
    BY <1>2, FixedStep DEF AllWhole
  <2>2. CASE ~\E w \in Workers : WorkerStep(w)
    <3> SUFFICES ASSUME NEW w \in Workers PROVE Copied(w)' /\ Whole(w)'
      BY <2>1 DEF AllWhole
    <3>1. /\ UNCHANGED <<iter, snap, todo, gateway, rows, gerr>>
          /\ wpc'[w] = wpc[w] \/ (wpc[w] = "unborn" /\ wpc'[w] = "wait")
      <4>1. UNCHANGED gerr
        BY <1>2, <2>2 DEF Next, InitialFetch, RefreshFetch, RefreshSwap,
           RefreshStops, Wait, CloseDB, Cancel, Terminated, vars, groupVars
      <4>2. QED
        BY <1>2, <2>2, <4>1, OthersSteps
    <3>2. \A i : Complete(w, i)' <=> Complete(w, i)
      BY <3>1 DEF Complete, RowsIn
    <3>3. Complete(w, iter[w])' <=> Complete(w, iter[w])
      BY <3>1 DEF Complete, RowsIn
    <3>4. wpc[w] = "unborn" => iter[w] = 0
      BY <1>2 DEF Started
    <3>5. Copied(w)'
      BY <1>2, <3>1 DEF AllWhole, Copied, Begun
    <3>6. Whole(w)'
      BY <1>2, <3>1, <3>2, <3>3, <3>4 DEF AllWhole, Whole
    <3>7. QED
      BY <3>5, <3>6
  <2>3. ASSUME NEW w \in Workers, WorkerStep(w)
        PROVE  Copied(w)' /\ Whole(w)'
    BY <1>2, <2>3, CopiedWorker, WholeWorker, WorkerMoves
       DEF AllWhole, AllProgress, Started
  <2>4. QED
    BY <1>2, <2>1, <2>2, <2>3, WholeOther DEF AllWhole
<1>3. AllWhole => RunProbedInFull
  <2> SUFFICES ASSUME AllWhole, ~gerr, NEW w \in Workers, wpc[w] = "returned",
                      NEW i \in 1..MaxIter, NEW g \in Gateways
               PROVE  \/ InFull(RowsIn(w, i, g))
                      \/ ~GatewaysFromFlag /\ RowsIn(w, i, g) = {}
    BY DEF RunProbedInFull
  <2>1. Complete(w, i)
    <3>1. iter[w] = MaxIter /\ MaxIter \in Nat /\ Whole(w)
      BY GatewayAssumption DEF AllWhole, Whole
    <3>2. i = MaxIter \/ i \in 1..(MaxIter - 1)
      BY <3>1
    <3>3. QED
      BY <3>1, <3>2 DEF Whole
  <2>2. QED
    BY <2>1 DEF Complete
<1>4. QED
  BY <1>1, <1>2, <1>3, TypedAlways, WaitedAlways, DatedAlways, StartedAlways,
     ProgressAlways, PTL DEF Spec

-----------------------------------------------------------------------------
(* The index of the static CIDs.                                           *)

\* The last store of a call brings the index into range.
Settled == (\A c \in Callers : cpc[c] # "modulo") => staticIdx < StaticLen

THEOREM SettledAlways == Spec => []Settled
<1>1. Init => Settled
  BY ProvidersAssumption DEF Init, ProvidersInit, Settled
<1>2. ASSUME Typed, Settled, [Next]_vars
      PROVE  Settled'
  <2> USE DEF Typed, TypeOK, ProvidersTypeOK, Settled, At, Hold
  <2>1. CASE UNCHANGED providerVars
    BY <1>2, <2>1 DEF providerVars
  <2>2. ASSUME NEW c \in Callers, StaticIncrement(c)
        PROVE  Settled'
    BY <1>2, <2>2 DEF StaticIncrement
  <2>3. ASSUME NEW c \in Callers, StaticModulo(c)
        PROVE  Settled'
    <3>1. PICK v \in Nat : staticIdx' = v % StaticLen
      BY <1>2, <2>3 DEF StaticModulo
    <3>2. staticIdx' \in 0..(StaticLen - 1)
      BY <3>1, ModRange, ProvidersAssumption
    <3>3. QED
      BY <3>2, ProvidersAssumption
  <2>4. ASSUME NEW c \in Callers,
               StaticRead(c) \/ ControlledAdd(c) \/ ControlledIndex(c)
        PROVE  Settled'
    <3>1. staticIdx' = staticIdx /\ cpc[c] # "modulo"
          /\ \A d \in Callers \ {c} : cpc'[d] = cpc[d]
      BY <1>2, <2>4 DEF StaticRead, ControlledAdd, ControlledIndex
    <3>2. QED
      BY <1>2, <3>1
  <2>5. QED
    BY <1>2, <2>1, <2>2, <2>3, <2>4, WorkersCallProviders DEF ProviderCall
<1>3. QED
  BY <1>1, <1>2, TypedAlways, PTL DEF Spec

\* Whatever increments the race loses, the index is in range again as soon as
\* no worker is inside the provider.
THEOREM StaticSettles == Spec => []StaticIndexSettles
<1>1. Settled => StaticIndexSettles
  BY DEF Settled, StaticIndexSettles
<1>2. QED
  BY <1>1, SettledAlways, PTL

-----------------------------------------------------------------------------
(* One worker: what the races of several break.                            *)

\* The static index is out of range only while a call is between its last two
\* accesses, so a call never finds it there when there is no other caller; and
\* nobody else assigns err while the worker reads it.
THEOREM OneWorkerGetsItsCID ==
    ASSUME NEW w, Workers = {w}
    PROVE  Spec => [](StaticReturnsACID /\ mpc # "crashed")
<1> DEFINE Safe == StaticReturnsACID /\ mpc # "crashed" /\ Settled
<1>1. Init => Safe
  BY ProvidersAssumption
     DEF Init, ProvidersInit, Settled, StaticReturnsACID
<1>2. ASSUME Typed, Safe, Settled', [Next]_vars
      PROVE  Safe'
  <2>1. \A c \in Callers : c = w
    BY GatewayAssumption
  <2>2. cpc \in [Callers -> CallStates]
    BY <1>2 DEF Typed, TypeOK, ProvidersTypeOK
  <2>3. ASSUME NEW c \in Callers, ProviderCall(c)
        PROVE  cpc'[c] # "panicked"
    <3>1. CASE StaticRead(c)
      <4>1. \A d \in Callers : cpc[d] # "modulo"
        BY <2>1, <3>1 DEF StaticRead
      <4>2. staticIdx < StaticLen
        BY <1>2, <4>1 DEF Settled
      <4>3. QED
        BY <2>2, <3>1, <4>2 DEF StaticRead, At
    <3>2. CASE ~StaticRead(c)
      BY <2>2, <2>3, <3>2 DEF ProviderCall, StaticIncrement, StaticModulo,
         ControlledAdd, ControlledIndex, At
    <3>3. QED
      BY <3>1, <3>2
  <2>4. StaticReturnsACID'
    <3>1. CASE UNCHANGED providerVars
      BY <1>2, <3>1 DEF providerVars, StaticReturnsACID
    <3>2. CASE \E c \in Callers : ProviderCall(c)
      BY <2>1, <2>3, <3>2 DEF StaticReturnsACID
    <3>3. QED
      BY <1>2, <3>1, <3>2, WorkersCallProviders
  <2>5. mpc' # "crashed"
    <3>1. ASSUME NEW v \in Workers, WorkerStep(v)
          PROVE  mpc' # "crashed"
      <4>1. v \in Callers /\ cpc'[v] # "panicked"
        BY <2>4, <3>1, GatewayAssumption DEF StaticReturnsACID
      <4>2. ~CheckTornErr(v)
        BY DEF CheckTornErr
      <4>3. QED
        BY <1>2, <3>1, <4>1, <4>2 DEF WorkerStep, StartIteration, StopWaiting,
           Finish, SelectControlled, SelectStatic, SelectSniffer, ProviderStep,
           AssignErr, CheckErr, NextGateway, Probe, Insert, InsertFails,
           groupVars
    <3>2. CASE ~\E v \in Workers : WorkerStep(v)
      BY <1>2, <3>2 DEF Next, InitialFetch, RefreshFetch, RefreshSwap,
         RefreshStops, Wait, CloseDB, Cancel, Terminated, vars, groupVars
    <3>3. QED
      BY <3>1, <3>2
  <2>6. QED
    BY <1>2, <2>4, <2>5
<1>3. Spec => []Settled
  BY SettledAlways
<1>4. Safe => StaticReturnsACID /\ mpc # "crashed"
  OBVIOUS
<1> HIDE DEF Safe
<1>5. QED
  BY <1>1, <1>2, <1>3, <1>4, TypedAlways, PTL DEF Spec

\* An undefined CID comes with an error, which nobody else overwrites: the
\* sniffer is not asked, or it always has a CID, or its only failures are
\* errors and there is one worker.
FailuresAreSeen ==
    \/ Provider = "static"
    \/ ControlledShare = "all"
    \/ SnifferAnswers \subseteq {"cid"}
    \/ "undef" \notin SnifferAnswers /\ \E w : Workers = {w}

\* A worker that may come to its requests has a CID, or reads its own error
\* before.
Named(w) ==
    /\ wpc[w] = "assign" => selected[w].cid # Undef
                            \/ (selErr[w] /\ Workers = {w})
    /\ wpc[w] = "check" => selected[w].cid # Undef \/ (err /\ Workers = {w})
    /\ wpc[w] \in {"next", "probe", "insert"} => selected[w].cid # Undef

AllNamed == RowsNameACID /\ \A w \in Workers : Named(w)

LEMMA NamedWorker ==
    ASSUME FailuresAreSeen, Typed, NEW w \in Workers, WorkerStep(w), AllNamed
    PROVE  AllNamed'
<1> USE DEF Goto, Named
<1>1. /\ wpc \in [Workers -> WorkerStates]
      /\ selected \in [Workers -> Selection]
      /\ selErr \in [Workers -> BOOLEAN] /\ err \in BOOLEAN
  BY DEF Typed, TypeOK
<1>2. ASSUME Named(w)', UNCHANGED rows
      PROVE  AllNamed'
  <2>1. ASSUME NEW v \in Workers \ {w}
        PROVE  Named(v)'
    <3>1. wpc'[v] = wpc[v] /\ selected'[v] = selected[v] /\ Workers # {v}
      BY <2>1, OthersKeep
    <3>2. Named(v)
      BY DEF AllNamed
    <3>3. QED
      BY <3>1, <3>2
  <2>2. QED
    BY <1>2, <2>1 DEF AllNamed, RowsNameACID
<1>3. Named(w) /\ RowsNameACID
  BY DEF AllNamed
<1>4. CASE StartIteration(w) \/ StopWaiting(w) \/ Finish(w) \/ InsertFails(w)
  BY <1>1, <1>2, <1>4
     DEF StartIteration, StopWaiting, Finish, InsertFails, ReturnError
<1>5. CASE SelectControlled(w) \/ SelectStatic(w)
  BY <1>1, <1>2, <1>3, <1>5 DEF SelectControlled, SelectStatic, selVars
<1>6. CASE SelectSniffer(w)
  <2>1. Provider # "static" /\ ControlledShare # "all" /\ UNCHANGED rows
    BY <1>6 DEF SelectSniffer
  <2>2. ASSUME NEW c \in SnifferCIDs, Returned(w, "sniffer", c, FALSE)
        PROVE  AllNamed'
    <3>1. wpc'[w] = "assign"
      BY <1>1, <2>2 DEF Returned
    <3>2. selected'[w].cid # Undef
      BY <1>1, <2>2, GatewayAssumption DEF Returned, Undef
    <3>3. QED
      BY <1>2, <2>1, <3>1, <3>2
  <2>3. CASE "undef" \in SnifferAnswers /\ Returned(w, "sniffer", Undef, FALSE)
    BY <2>1, <2>3 DEF FailuresAreSeen
  <2>4. ASSUME "error" \in SnifferAnswers, NEW c \in SnifferCIDs \cup {Undef},
               Returned(w, "sniffer", c, TRUE)
        PROVE  AllNamed'
    <3>1. Workers = {w}
      BY <2>1, <2>4 DEF FailuresAreSeen
    <3>2. wpc'[w] = "assign"
      BY <1>1, <2>4 DEF Returned
    <3>3. selErr'[w]
      BY <1>1, <2>4 DEF Returned
    <3>4. QED
      BY <1>2, <2>1, <3>1, <3>2, <3>3
  <2>5. QED
    BY <1>6, <2>2, <2>3, <2>4 DEF SelectSniffer
<1>7. CASE ProviderStep(w)
  <2>1. CASE UNCHANGED <<wpc, selected, selErr>>
    BY <1>2, <1>7, <2>1 DEF ProviderStep
  <2>2. ASSUME NEW source \in {"static", "controlled"}, NEW c \in Nat,
               Returned(w, source, c, FALSE)
        PROVE  Named(w)'
    <3>1. wpc'[w] = "assign"
      BY <1>1, <2>2 DEF Returned
    <3>2. selected'[w].cid # Undef
      BY <1>1, <2>2 DEF Returned, Undef
    <3>3. QED
      BY <3>1, <3>2
  <2>3. picked[w] \in Nat /\ ControlledCID(w) \in Nat
    BY CallerReturnsACID, GatewayAssumption DEF Typed, TypeOK
  <2>4. QED
    BY <1>2, <1>7, <2>1, <2>2, <2>3 DEF ProviderStep
<1>8. CASE AssignErr(w)
  BY <1>1, <1>2, <1>3, <1>8 DEF AssignErr
<1>9. CASE CheckErr(w) \/ CheckTornErr(w)
  BY <1>1, <1>2, <1>3, <1>9 DEF CheckErr, CheckTornErr, ReturnError, selVars
<1>10. CASE NextGateway(w) \/ Probe(w)
  BY <1>1, <1>2, <1>3, <1>10 DEF NextGateway, Probe, selVars
<1>11. CASE Insert(w)
  <2>1. Named(w)'
    BY <1>1, <1>3, <1>11 DEF Insert, AfterRow, selVars
  <2>2. \A r \in rows' : r \in rows \/ r = RowOf(w)
    BY <1>11 DEF Insert
  <2>3. RowOf(w).cid.cid # Undef
    BY <1>3, <1>11 DEF Insert, RowOf
  <2>4. RowsNameACID'
    BY <1>3, <2>2, <2>3 DEF RowsNameACID
  <2>5. ASSUME NEW v \in Workers \ {w}
        PROVE  Named(v)'
    <3>1. wpc'[v] = wpc[v] /\ selected'[v] = selected[v] /\ Workers # {v}
      BY <2>5, OthersKeep
    <3>2. Named(v)
      BY DEF AllNamed
    <3>3. QED
      BY <3>1, <3>2
  <2>6. QED
    BY <2>1, <2>4, <2>5 DEF AllNamed
<1>12. QED
  BY <1>4, <1>5, <1>6, <1>7, <1>8, <1>9, <1>10, <1>11 DEF WorkerStep

\* README.md:43: every request is for a CID, wherever the worker sees each
\* failure of its own selection.
THEOREM RowsNameACIDWhereFailuresAreSeen ==
    ASSUME FailuresAreSeen
    PROVE  Spec => []RowsNameACID
<1>1. Init => AllNamed
  BY DEF Init, AllNamed, RowsNameACID, Named
<1>2. ASSUME Typed, Waited, AllNamed, [Next]_vars
      PROVE  AllNamed'
  <2>1. CASE ~\E w \in Workers : WorkerStep(w)
    <3>1. /\ UNCHANGED <<selected, selErr, err, rows>>
          /\ \A w \in Workers :
                wpc'[w] = wpc[w] \/ (wpc[w] = "unborn" /\ wpc'[w] = "wait")
      <4>1. UNCHANGED <<selErr, err>>
        BY <1>2, <2>1 DEF Next, InitialFetch, RefreshFetch, RefreshSwap,
           RefreshStops, Wait, CloseDB, Cancel, Terminated, vars, selVars
      <4>2. QED
        BY <1>2, <2>1, <4>1, OthersSteps
    <3>2. QED
      BY <1>2, <3>1 DEF AllNamed, Named, RowsNameACID
  <2>2. QED
    BY <1>2, <2>1, NamedWorker
<1>3. AllNamed => RowsNameACID
  BY DEF AllNamed
<1>4. QED
  BY <1>1, <1>2, <1>3, TypedAlways, WaitedAlways, PTL DEF Spec

-----------------------------------------------------------------------------
(* The list of controlled CIDs.                                            *)

LEMMA ModNext ==
    ASSUME NEW n \in Nat, NEW L \in Nat \ {0}
    PROVE  (n + 1) % L = IF (n % L) + 1 = L THEN 0 ELSE (n % L) + 1
<1> DEFINE q == n \div L
           r == n % L
<1>1. n = (L * q) + r /\ q \in Nat /\ r \in 0..(L - 1)
  OBVIOUS
<1> HIDE DEF q, r
<1>2. CASE r + 1 = L
  <2>1. n + 1 = (L * (q + 1)) + 0
    BY <1>1, <1>2
  <2>2. (n + 1) % L = 0
    BY <1>1, <2>1, ModIs
  <2>3. QED
    BY <1>2, <2>2 DEF r
<1>3. CASE r + 1 # L
  <2>1. n + 1 = (L * q) + (r + 1) /\ r + 1 \in 0..(L - 1)
    BY <1>1, <1>3
  <2>2. (n + 1) % L = r + 1
    BY <1>1, <2>1, ModIs
  <2>3. QED
    BY <1>3, <2>2 DEF r
<1>4. QED
  BY <1>2, <1>3

\* The calls that hold an index of CID k and have not returned it yet.
Owed(k) == {c \in Callers : cpc[c] = "index" /\ held[c] % ControlledLen = k}

\* How often CID k was given out, when the counter was increased n times to
\* remainder r and every CID was given out q times before.
Share(k, q, r) == IF 1 <= k /\ k <= r THEN q + 1 ELSE q

Given ==
    \E q \in Nat :
        \A k \in 0..(ControlledLen - 1) :
            served[k] + Cardinality(Owed(k))
                = Share(k, q, controlledIdx % ControlledLen)

LEMMA OwedFinite ==
    ASSUME NEW k
    PROVE  IsFiniteSet(Owed(k)) /\ Cardinality(Owed(k)) \in Nat
<1>1. IsFiniteSet(Callers)
  BY GatewayAssumption
<1>2. Owed(k) \subseteq Callers
  BY DEF Owed
<1>3. QED
  BY <1>1, <1>2, FS_Subset, FS_CardinalityType

LEMMA GivenAdd ==
    ASSUME ProvidersTypeOK, Given, NEW c \in Callers, ControlledAdd(c)
    PROVE  Given'
<1> DEFINE L == ControlledLen
           r == controlledIdx % L
           s == (controlledIdx + 1) % L
<1>1. /\ L \in Nat \ {0} /\ controlledIdx \in Nat
      /\ r \in 0..(L - 1) /\ s \in 0..(L - 1)
      /\ s = IF r + 1 = L THEN 0 ELSE r + 1
  <2>1. L \in Nat \ {0} /\ controlledIdx \in Nat
    BY ProvidersAssumption DEF ProvidersTypeOK
  <2>2. controlledIdx + 1 \in Nat
    BY <2>1
  <2>3. r \in 0..(L - 1) /\ s \in 0..(L - 1)
    BY <2>1, <2>2, ModRange
  <2>4. s = IF r + 1 = L THEN 0 ELSE r + 1
    BY <2>1, ModNext
  <2>5. QED
    BY <2>1, <2>3, <2>4
<1>2. /\ controlledIdx' % L = s /\ served' = served
      /\ cpc[c] = "idle"
      /\ cpc' = [cpc EXCEPT ![c] = "index"]
      /\ held' = [held EXCEPT ![c] = controlledIdx + 1]
      /\ cpc \in [Callers -> CallStates] /\ held \in [Callers -> Nat]
      /\ served \in [0..(L - 1) -> Nat]
  BY DEF ControlledAdd, At, Hold, ProvidersTypeOK
<1>3. \A k : Owed(k)' = IF k = s THEN Owed(k) \cup {c} ELSE Owed(k)
  BY <1>2 DEF Owed
<1>4. c \notin Owed(s)
  BY <1>2 DEF Owed
<1>5. \A k : Cardinality(Owed(k)') =
                IF k = s THEN Cardinality(Owed(k)) + 1 ELSE Cardinality(Owed(k))
  BY <1>3, <1>4, OwedFinite, FS_AddElement
<1>6. PICK q \in Nat :
         \A k \in 0..(L - 1) :
             served[k] + Cardinality(Owed(k)) = Share(k, q, r)
  BY DEF Given
<1> HIDE DEF L, r, s
<1>7. \A k \in 0..(L - 1) :
         served'[k] + Cardinality(Owed(k)') =
            IF k = s THEN Share(k, q, r) + 1 ELSE Share(k, q, r)
  <2>1. TAKE k \in 0..(L - 1)
  <2>2. served[k] \in Nat /\ Cardinality(Owed(k)) \in Nat
    BY <1>2, OwedFinite
  <2>3. QED
    BY <1>2, <1>5, <1>6, <2>2
<1>8. CASE r + 1 = L
  <2>1. \A k \in 0..(L - 1) :
           (IF k = s THEN Share(k, q, r) + 1 ELSE Share(k, q, r))
              = Share(k, q + 1, s)
    BY <1>1, <1>8 DEF Share
  <2>2. QED
    BY <1>2, <1>7, <2>1 DEF Given, L
<1>9. CASE r + 1 # L
  <2>1. \A k \in 0..(L - 1) :
           (IF k = s THEN Share(k, q, r) + 1 ELSE Share(k, q, r))
              = Share(k, q, s)
    BY <1>1, <1>9 DEF Share
  <2>2. QED
    BY <1>2, <1>7, <2>1 DEF Given, L
<1>10. QED
  BY <1>8, <1>9

LEMMA GivenIndex ==
    ASSUME ProvidersTypeOK, Given, NEW c \in Callers, ControlledIndex(c)
    PROVE  Given'
<1> DEFINE j == held[c] % ControlledLen
<1>1. j \in 0..(ControlledLen - 1)
  BY ProvidersAssumption, ModRange DEF ProvidersTypeOK
<1>2. /\ UNCHANGED controlledIdx
      /\ cpc[c] = "index" /\ cpc' = [cpc EXCEPT ![c] = "idle"]
      /\ \A d \in Callers \ {c} : held'[d] = held[d]
      /\ served' = [served EXCEPT ![j] = @ + 1]
      /\ cpc \in [Callers -> CallStates]
      /\ served \in [0..(ControlledLen - 1) -> Nat]
  BY DEF ControlledIndex, ControlledCID, At, Hold, ProvidersTypeOK
<1>3. \A k : Owed(k)' = IF k = j THEN Owed(k) \ {c} ELSE Owed(k)
  BY <1>2 DEF Owed
<1>4. c \in Owed(j)
  BY <1>2 DEF Owed
<1>5. \A k : Cardinality(Owed(k)') =
                IF k = j THEN Cardinality(Owed(k)) - 1 ELSE Cardinality(Owed(k))
  BY <1>3, <1>4, OwedFinite, FS_RemoveElement
<1> HIDE DEF j
<1>6. \A k \in 0..(ControlledLen - 1) :
         served'[k] + Cardinality(Owed(k)') = served[k] + Cardinality(Owed(k))
  <2>1. TAKE k \in 0..(ControlledLen - 1)
  <2>2. served[k] \in Nat /\ Cardinality(Owed(k)) \in Nat
    BY <1>2, OwedFinite
  <2>3. QED
    BY <1>1, <1>2, <1>5, <2>2
<1>7. QED
  BY <1>2, <1>6 DEF Given

LEMMA GivenStatic ==
    ASSUME ProvidersTypeOK, Given, NEW c \in Callers,
           StaticRead(c) \/ StaticIncrement(c) \/ StaticModulo(c)
    PROVE  Given'
<1>1. /\ UNCHANGED <<controlledIdx, served>>
      /\ cpc[c] # "index" /\ cpc'[c] # "index"
      /\ \A d \in Callers \ {c} : cpc'[d] = cpc[d] /\ held'[d] = held[d]
  BY DEF StaticRead, StaticIncrement, StaticModulo, At, Hold, ProvidersTypeOK
<1>2. \A k : Owed(k)' = Owed(k)
  BY <1>1 DEF Owed
<1>3. QED
  BY <1>1, <1>2 DEF Given

\* cid_provider.go:211: the calls of any number of workers go through the list
\* in order and evenly.
THEOREM ControlledEven == Spec => []ControlledIsEven
<1>1. ASSUME Init
      PROVE  Given
  <2>1. \A k : Owed(k) = {}
    BY <1>1 DEF Init, ProvidersInit, Owed
  <2>2. controlledIdx % ControlledLen = 0
    BY <1>1, ModIs, ProvidersAssumption DEF Init, ProvidersInit
  <2>3. \A k \in 0..(ControlledLen - 1) :
           served[k] + Cardinality(Owed(k)) = Share(k, 0, 0)
    <3>1. TAKE k \in 0..(ControlledLen - 1)
    <3>2. served[k] = 0
      BY <1>1 DEF Init, ProvidersInit
    <3>3. Cardinality(Owed(k)) = 0
      BY <2>1, FS_EmptySet
    <3>4. Share(k, 0, 0) = 0
      BY ProvidersAssumption DEF Share
    <3>5. QED
      BY <3>2, <3>3, <3>4
  <2>4. QED
    BY <2>2, <2>3 DEF Given
<1>2. ASSUME Typed, Given, [Next]_vars
      PROVE  Given'
  <2>1. CASE UNCHANGED providerVars
    BY <1>2, <2>1 DEF providerVars, Given, Owed
  <2>2. QED
    BY <1>2, <2>1, WorkersCallProviders, GivenAdd, GivenIndex, GivenStatic
       DEF ProviderCall, Typed, TypeOK
<1>3. ASSUME Typed, Given
      PROVE  ControlledIsEven
  <2>1. SUFFICES ASSUME \A c \in Callers : cpc[c] # "index",
                        NEW j \in 0..(ControlledLen - 1),
                        NEW k \in 0..(ControlledLen - 1)
                 PROVE  served[j] <= served[k] + 1
    BY <1>3 DEF ControlledIsEven, Typed, TypeOK, ProvidersTypeOK
  <2>2. Owed(j) = {} /\ Owed(k) = {}
    BY <2>1 DEF Owed
  <2>3. PICK q \in Nat :
           \A i \in 0..(ControlledLen - 1) :
               served[i] + Cardinality(Owed(i))
                   = Share(i, q, controlledIdx % ControlledLen)
    BY <1>3 DEF Given
  <2>4. /\ served[j] \in {q, q + 1} /\ served[k] \in {q, q + 1}
    <3>1. served[j] \in Nat /\ served[k] \in Nat
      BY <1>3 DEF Typed, TypeOK, ProvidersTypeOK
    <3>2. served[j] + 0 \in {q, q + 1} /\ served[k] + 0 \in {q, q + 1}
      BY <2>2, <2>3, FS_EmptySet DEF Share
    <3>3. QED
      BY <3>1, <3>2
  <2>5. QED
    BY <2>4
<1>4. QED
  BY <1>1, <1>2, <1>3, TypedAlways, PTL DEF Spec
=============================================================================
