--------------------------- MODULE KuboProbe_proofs ---------------------------
(***************************************************************************)
(* Theorems about KuboProbe, for every set of handlers and requests and    *)
(* every number of iterations.  The inductive invariant is built in        *)
(* layers: types and phases first, then the receiver's handlers, then the  *)
(* result and the rows.                                                    *)
(***************************************************************************)
EXTENDS KuboProbe, TraceReceiver_proofs

-----------------------------------------------------------------------------
(* What Parse keeps.                                                       *)

LEMMA LastOrMember ==
    ASSUME NEW S, NEW d
    PROVE  LastOr(S, d) \in S \/ LastOr(S, d) = d
BY DEF LastOr

\* The requests are sets of spans with numbered traces.
LEMMA RequestSpans ==
    ASSUME NEW req \in Requests \cup {{}}
    PROVE  /\ req \subseteq Span
           /\ \A s \in req : s.trace = IF s.kind = "hash" THEN 0 ELSE s.op
BY KuboAssumption

\* Parsing a request gives a result of the right type.
LEMMA ParseType ==
    ASSUME NEW r \in Result, NEW req \in Requests \cup {{}}
    PROVE  Parse(r, req) \in Result
<1>1. req \subseteq Span
  BY RequestSpans
<1> DEFINE add == LastOr(AddSpans(req), r.add)
           prov == LastOr(ProvideSpans(req, Current), r.prov)
           found == LastOr(FindProvSpans(req, Current), r.found)
<1>2. add \in SpanOrNone
  BY <1>1, LastOrMember DEF AddSpans, Result, SpanOrNone
<1>3. prov \in SpanOrNone
  BY <1>1, LastOrMember DEF ProvideSpans, Result, SpanOrNone
<1>4. found \in SpanOrNone
  BY <1>1, LastOrMember DEF FindProvSpans, Result, SpanOrNone
<1>5. ParseUpload(r, req, Current) \in Result
  BY <1>2, <1>3 DEF ParseUpload, Result
<1>6. ParseDownload(r, req, Current) \in Result
  BY <1>4 DEF ParseDownload, Result
<1>7. QED
  BY <1>5, <1>6 DEF Parse

-----------------------------------------------------------------------------
(* The steps of the program as the receiver and its handlers see them.     *)

HandlerSteps(h) ==
    \/ \E req \in Requests : (\A s \in req : Emitted(s)) /\ ExportCall(h, req)
    \/ ReadMatchers(h)
    \/ MatchSpans(h)
    \/ Deliver(h)

ReceiverStep ==
    \/ UNCHANGED recvVars
    \/ \E h \in Exports : HandlerSteps(h)
    \/ pc = "subscribe" /\ Subscribe(Current)
    \/ pc = "clear" /\ ClearMatchers
    \/ pc = "closeShutdown" /\ CloseShutdown
    \/ pc = "closeChan" /\ CloseChan
    \/ StopServer

\* Every step of the program is one operation of the receiver, or leaves the
\* receiver alone.
LEMMA NextIsReceiverStep ==
    ASSUME [Next]_vars
    PROVE  ReceiverStep
<1>1. CASE MainStep
  <2> USE DEF ReceiverStep, recvVars
  <2>1. CASE StartMeasurement
    BY <2>1 DEF StartMeasurement
  <2>2. CASE ResetMatchers
    BY <2>2 DEF ResetMatchers
  <2>3. CASE ShutdownReceiver
    BY <2>3 DEF ShutdownReceiver
  <2>4. CASE PurgeAtStart \/ PurgeAfterDownload
    BY <2>4 DEF PurgeAtStart, PurgeAfterDownload, Purge
  <2>5. CASE Available \/ CheckNode \/ Wait \/ HashReturns \/ HashFails
    BY <2>5 DEF Available, CheckNode, Wait, HashReturns, HashFails
  <2>6. CASE AddReturns \/ CatReturns \/ Collect \/ EndDrain \/ Insert
    BY <2>6 DEF AddReturns, CatReturns, Collect, EndDrain, Insert
  <2>7. CASE SelectCID \/ Sleep \/ CloseDB
    BY <2>7 DEF SelectCID, Sleep, CloseDB
  <2>8. QED
    BY <1>1, <2>1, <2>2, <2>3, <2>4, <2>5, <2>6, <2>7 DEF MainStep
<1>2. CASE ParserTimesOut \/ ParserCancelled \/ DownloadExpires
  BY <1>2 DEF ParserTimesOut, ParserCancelled, ParserEnds, DownloadExpires,
              ReceiverStep
<1>3. CASE Cancel
  BY <1>3 DEF Cancel, ReceiverStep, StopServer, recvVars
<1>4. ASSUME NEW h \in Exports,
             Drain(h) \/ ParserReceives(h) \/ KuboExports(h) \/ HandlerStep(h)
      PROVE  ReceiverStep
  BY <1>4 DEF Drain, ParserReceives, KuboExports, HandlerStep, HandlerSteps,
              ReceiverStep
<1>5. CASE UNCHANGED vars
  BY <1>5 DEF vars, ReceiverStep
<1>6. QED
  BY <1>1, <1>2, <1>3, <1>4, <1>5 DEF Next, Environment, Terminated

\* The receiver's variables keep their types.
LEMMA RecvTypeStep ==
    ASSUME RecvTypeOK, Current \in Nat, ReceiverStep
    PROVE  RecvTypeOK'
<1> USE DEF RecvTypeOK, HandlerStates
<1>1. CASE UNCHANGED recvVars
  BY <1>1 DEF recvVars
<1>2. ASSUME NEW h \in Exports, HandlerSteps(h)
      PROVE  RecvTypeOK'
  <2>1. ASSUME NEW req \in Requests, ExportCall(h, req)
        PROVE  RecvTypeOK'
    BY <2>1 DEF ExportCall
  <2>2. CASE ReadMatchers(h)
    BY <2>2 DEF ReadMatchers, Return
  <2>3. CASE MatchSpans(h)
    BY <2>3 DEF MatchSpans, Return
  <2>4. CASE Deliver(h)
    BY <2>4 DEF Deliver, Return
  <2>5. QED
    BY <1>2, <2>1, <2>2, <2>3, <2>4 DEF HandlerSteps
<1>3. CASE Subscribe(Current) \/ ClearMatchers
  BY <1>3 DEF Subscribe, ClearMatchers, SetMatchers
<1>4. CASE CloseShutdown
  BY <1>4 DEF CloseShutdown
<1>5. CASE CloseChan
  BY <1>5 DEF CloseChan
<1>6. CASE StopServer
  BY <1>6 DEF StopServer
<1>7. QED
  BY <1>1, <1>2, <1>3, <1>4, <1>5, <1>6 DEF ReceiverStep

-----------------------------------------------------------------------------
(* Types and phases.                                                       *)

\* The places of the measurement goroutine between the start of a measurement
\* and its row.
Measuring == {"subscribe", "call", "collect", "clear", "drain", "insert"}

\* What each place of the measurement goroutine says about the rest.
Phases ==
    /\ pc \in Measuring \cup {"purgeAfter"} => ops # <<>>
    /\ InFlight => parser # "off"
    /\ pc \in {"clear", "drain", "insert"} =>
          parser \in {"populated", "timeout", "cancelled"}
    /\ QuietOutsideMeasurements
    /\ shutdown <=> pc \in {"closeChan", "stopServer", "stopped"}
    /\ chanClosed <=> pc \in {"stopServer", "stopped"}

LEMMA CurrentNat ==
    ASSUME TypeOK
    PROVE  /\ Current \in Nat
           /\ ops # <<>> => Current # 0 /\ ops[Current] \in Op
BY DEF TypeOK, Current

LEMMA KindOfCurrent ==
    ASSUME TypeOK, ops # <<>>
    PROVE  Kind \in {"upload", "download"}
BY CurrentNat DEF Kind, Op

\* A row has the type of a row: an upload that reaches its insert knows how
\* its parser ended.
LEMMA RowType ==
    ASSUME TypeOK, Phases, pc = "insert"
    PROVE  RowOf \in Row
<1>1. ops # <<>> /\ parser \in {"populated", "timeout", "cancelled"}
  BY DEF Phases, Measuring
<1>2. Kind \in {"upload", "download"} /\ Current \in Nat \ {0}
  BY <1>1, KindOfCurrent, CurrentNat
<1>3. RowError \in RowErrors
  BY <1>1, <1>2 DEF RowError, RowErrors, TypeOK
<1>4. res.add \in SpanOrNone /\ res.prov \in SpanOrNone /\ res.found \in SpanOrNone
  BY DEF TypeOK, Result
<1>5. QED
  BY <1>2, <1>3, <1>4 DEF RowOf, Row

LEMMA NoResultType == NoResult \in Result
BY DEF NoResult, Result, SpanOrNone

LEMMA StartOpType ==
    ASSUME TypeOK, NEW kind, NEW c, [kind |-> kind, cid |-> c] \in Op,
           StartOp(kind, c)
    PROVE  ops' \in Seq(Op)
BY DEF TypeOK, StartOp

LEMMA TypeInit == Init => TypeOK
<1>1. RecvInit => RecvTypeOK
  BY DEF RecvInit, RecvTypeOK, HandlerStates
<1>2. <<>> \in Seq(Op) /\ <<>> \in Seq(Row)
  OBVIOUS
<1>3. Init => /\ iter \in Nat /\ origin \in 0..(Origins - 1)
              /\ pc \in PCs /\ parser \in Parsers
              /\ outcome \in {"running", "ok", "error", "panic"}
  BY DEF Init, Origins, PCs, Parsers
<1>4. Init => /\ timer \in BOOLEAN /\ expired \in BOOLEAN /\ callErr \in BOOLEAN
              /\ cancelled \in BOOLEAN
  BY DEF Init
<1>5. Init => res \in Result /\ ops \in Seq(Op) /\ rows \in Seq(Row)
  BY <1>2, NoResultType DEF Init
<1>6. Init => repo \in SUBSET CIDs /\ leftover \in SUBSET CIDs
  BY DEF Init
<1>7. QED
  BY <1>1, <1>3, <1>4, <1>5, <1>6 DEF Init, TypeOK

LEMMA TypeMain ==
    ASSUME TypeOK, Phases, RecvTypeOK', MainStep
    PROVE  TypeOK'
<1> USE DEF TypeOK, PCs, Parsers, Origins, Goto, Unwind, recvVars, loopVars,
            opVars, envVars
<1>1. CASE Available \/ CheckNode \/ Wait
  BY <1>1 DEF Available, CheckNode, Wait
<1>2. CASE PurgeAtStart
  BY <1>2 DEF PurgeAtStart, Purge
<1>3. CASE PurgeAfterDownload
  BY <1>3 DEF PurgeAfterDownload, Purge, NextDownload, NextIteration
<1>4. CASE HashReturns
  <2>1. ops' \in Seq(Op)
    BY <1>4, StartOpType DEF HashReturns, Op
  <2>2. QED
    BY <1>4, <2>1 DEF HashReturns
<1>5. CASE HashFails
  <2>1. ops' \in Seq(Op)
    BY <1>5, StartOpType DEF HashFails, Op
  <2>2. QED
    BY <1>5, <2>1 DEF HashFails
<1>6. CASE SelectCID
  <2>1. ops' \in Seq(Op)
    BY <1>6, StartOpType DEF SelectCID, Op
  <2>2. QED
    BY <1>6, <2>1 DEF SelectCID
<1>7. CASE StartMeasurement
  BY <1>7, NoResultType DEF StartMeasurement
<1>8. CASE AddReturns
  BY <1>8 DEF AddReturns
<1>9. CASE CatReturns
  <2>1. ops # <<>>
    BY <1>9 DEF CatReturns, Phases, Measuring
  <2>2. ops[Current].cid \in CIDs \cup {NoCID}
    BY <1>9, <2>1, CurrentNat DEF CatReturns, Kind, Op
  <2>3. QED
    BY <1>9, <2>2 DEF CatReturns
<1>10. CASE Collect \/ EndDrain \/ Sleep \/ CloseDB
  BY <1>10 DEF Collect, EndDrain, Sleep, CloseDB
<1>11. CASE ResetMatchers
  BY <1>11 DEF ResetMatchers
<1>12. CASE Insert
  <2>1. RowOf \in Row
    BY <1>12, RowType DEF Insert
  <2>2. rows' \in Seq(Row)
    BY <1>12, <2>1 DEF Insert
  <2>3. loopVars' \in Nat \X (0..(Origins - 1)) /\ pc' \in PCs
        /\ outcome' \in {"running", "ok", "error", "panic"}
    BY <1>12 DEF Insert, NextIteration
  <2>4. /\ parser' \in Parsers /\ timer' \in BOOLEAN /\ expired' \in BOOLEAN
        /\ callErr' \in BOOLEAN /\ res' \in Result
    BY <1>12, NoResultType DEF Insert
  <2>5. UNCHANGED <<ops, repo, leftover, cancelled>>
    BY <1>12 DEF Insert
  <2>6. QED
    BY <2>2, <2>3, <2>4, <2>5
<1>13. CASE ShutdownReceiver
  BY <1>13 DEF ShutdownReceiver
<1>14. QED
  BY <1>1, <1>2, <1>3, <1>4, <1>5, <1>6, <1>7, <1>8, <1>9, <1>10, <1>11,
     <1>12, <1>13 DEF MainStep

LEMMA TypeStep ==
    ASSUME TypeOK, Phases, [Next]_vars
    PROVE  TypeOK'
<1>1. RecvTypeOK'
  BY NextIsReceiverStep, RecvTypeStep, CurrentNat DEF TypeOK
<1> USE DEF loopVars, opVars, envVars
<1>2. CASE MainStep
  BY <1>1, <1>2, TypeMain
<1>3. CASE ParserTimesOut \/ ParserCancelled
  BY <1>1, <1>3 DEF ParserTimesOut, ParserCancelled, ParserEnds, TypeOK, Parsers
<1>4. CASE DownloadExpires
  BY <1>1, <1>4 DEF DownloadExpires, TypeOK
<1>5. CASE Cancel
  BY <1>1, <1>5 DEF Cancel, TypeOK
<1>6. ASSUME NEW h \in Exports, ParserReceives(h)
      PROVE  TypeOK'
  <2>1. Parse(res, hreq[h]) \in Result
    BY ParseType DEF TypeOK, RecvTypeOK
  <2>2. QED
    BY <1>1, <1>6, <2>1 DEF ParserReceives, TypeOK, Parsers
<1>7. ASSUME NEW h \in Exports, Drain(h) \/ KuboExports(h) \/ HandlerStep(h)
      PROVE  TypeOK'
  BY <1>1, <1>7 DEF Drain, KuboExports, HandlerStep, TypeOK
<1>8. CASE UNCHANGED vars
  BY <1>1, <1>8 DEF vars, TypeOK
<1>9. QED
  BY <1>2, <1>3, <1>4, <1>5, <1>6, <1>7, <1>8 DEF Next, Environment, Terminated

\* What the steps that are not the measurement goroutine's leave alone.
LEMMA OtherSteps ==
    ASSUME [Next]_vars, ~MainStep
    PROVE  /\ UNCHANGED <<pc, outcome, iter, origin, ops, timer, callErr, rows,
                          matchers, shutdown, chanClosed, repo, leftover>>
           /\ \/ UNCHANGED <<parser, res>>
              \/ parser = "run" /\ parser' \in {"timeout", "cancelled"} /\ res' = res
              \/ \E h \in Exports : ParserReceives(h)
<1> USE DEF loopVars, opVars, envVars, recvVars
<1>1. CASE ParserTimesOut \/ ParserCancelled
  BY <1>1 DEF ParserTimesOut, ParserCancelled, ParserEnds
<1>2. CASE DownloadExpires
  BY <1>2 DEF DownloadExpires
<1>3. CASE Cancel
  BY <1>3 DEF Cancel
<1>4. ASSUME NEW h \in Exports, ParserReceives(h)
      PROVE  UNCHANGED <<pc, outcome, iter, origin, ops, timer, callErr, rows,
                         matchers, shutdown, chanClosed, repo, leftover>>
  BY <1>4 DEF ParserReceives, Deliver
<1>5. ASSUME NEW h \in Exports, Drain(h)
      PROVE  UNCHANGED <<pc, outcome, iter, origin, ops, timer, callErr, rows,
                         matchers, shutdown, chanClosed, repo, leftover, parser, res>>
  BY <1>5 DEF Drain, Deliver
<1>6. ASSUME NEW h \in Exports, KuboExports(h)
      PROVE  UNCHANGED <<pc, outcome, iter, origin, ops, timer, callErr, rows,
                         matchers, shutdown, chanClosed, repo, leftover, parser, res>>
  BY <1>6 DEF KuboExports, ExportCall
<1>7. ASSUME NEW h \in Exports, HandlerStep(h)
      PROVE  UNCHANGED <<pc, outcome, iter, origin, ops, timer, callErr, rows,
                         matchers, shutdown, chanClosed, repo, leftover, parser, res>>
  BY <1>7 DEF HandlerStep, ReadMatchers, MatchSpans
<1>8. CASE UNCHANGED vars
  BY <1>8 DEF vars
<1>9. QED
  BY <1>1, <1>2, <1>3, <1>4, <1>5, <1>6, <1>7, <1>8 DEF Next, Environment,
     Terminated

LEMMA PhaseMain ==
    ASSUME TypeOK, Phases, MainStep
    PROVE  Phases'
<1>0. Current \in Nat /\ ops \in Seq(Op)
  BY CurrentNat DEF TypeOK
<1> USE <1>0 DEF Phases, QuietOutsideMeasurements, Measuring, InFlight, Current,
            Goto, Unwind, recvVars, loopVars, opVars, envVars
<1>1. CASE Available \/ CheckNode \/ Wait
  BY <1>1 DEF Available, CheckNode, Wait
<1>2. CASE PurgeAtStart \/ PurgeAfterDownload
  BY <1>2 DEF PurgeAtStart, PurgeAfterDownload, Purge, NextDownload,
              NextIteration
<1>3. CASE HashReturns
  BY <1>3 DEF HashReturns, StartOp
<1>4. CASE HashFails
  BY <1>4 DEF HashFails, StartOp
<1>5. CASE SelectCID
  <2>1. pc = "select" /\ UNCHANGED <<parser, matchers, shutdown, chanClosed>>
    BY <1>5 DEF SelectCID
  <2>2. CASE UNCHANGED ops /\ pc' = "closeDB"
    BY <2>1, <2>2
  <2>3. ASSUME NEW c, StartOp("download", c), pc' = "subscribe"
        PROVE  Phases'
    BY <2>1, <2>3 DEF StartOp
  <2>4. QED
    BY <1>5, <2>2, <2>3 DEF SelectCID
<1>6. CASE StartMeasurement
  BY <1>6 DEF StartMeasurement, Subscribe, SetMatchers
<1>7. CASE AddReturns
  BY <1>7 DEF AddReturns
<1>8. CASE CatReturns
  BY <1>8 DEF CatReturns
<1>9. CASE Collect
  BY <1>9 DEF Collect, TypeOK, Parsers
<1>10. CASE EndDrain \/ Sleep \/ CloseDB
  BY <1>10 DEF EndDrain, Sleep, CloseDB
<1>11. CASE ResetMatchers
  BY <1>11 DEF ResetMatchers, ClearMatchers, SetMatchers
<1>12. CASE Insert
  BY <1>12 DEF Insert, NextIteration
<1>13. CASE ShutdownReceiver
  BY <1>13 DEF ShutdownReceiver, CloseShutdown, CloseChan, StopServer
<1>14. QED
  BY <1>1, <1>2, <1>3, <1>4, <1>5, <1>6, <1>7, <1>8, <1>9, <1>10, <1>11,
     <1>12, <1>13 DEF MainStep

LEMMA PhaseStep ==
    ASSUME TypeOK, Phases, [Next]_vars
    PROVE  Phases'
<1>1. CASE MainStep
  BY <1>1, PhaseMain
<1>2. CASE ~MainStep
  BY <1>2, OtherSteps DEF Phases, QuietOutsideMeasurements, Measuring, InFlight,
     Current, ParserReceives
<1>3. QED
  BY <1>1, <1>2

LEMMA PhaseInit == Init => Phases
BY DEF Init, RecvInit, Phases, QuietOutsideMeasurements, Measuring, InFlight,
       Current

LEMMA TypedPhases == Spec => [](TypeOK /\ Phases)
<1>1. Init => TypeOK /\ Phases
  BY TypeInit, PhaseInit
<1>2. TypeOK /\ Phases /\ [Next]_vars => (TypeOK /\ Phases)'
  BY TypeStep, PhaseStep
<1>3. QED
  BY <1>1, <1>2, PTL DEF Spec

\* Every variable keeps its type, for every set of handlers, requests and CIDs
\* and every number of iterations.
THEOREM TypeCorrect == Spec => []TypeOK
BY TypedPhases, PTL

\* Nobody listens between two measurements, and during one only its own trace
\* is listened to.
THEOREM QuietOutside == Spec => []QuietOutsideMeasurements
<1>1. Phases => QuietOutsideMeasurements
  BY DEF Phases
<1>2. QED
  BY <1>1, TypedPhases, PTL

-----------------------------------------------------------------------------
(* The Export handlers.                                                    *)

\* A handler works on spans of measurements that were started, and once it has
\* read the matcher of measurement k its request holds no span of a later one:
\* those did not exist when the request arrived.
Handlers ==
    /\ \A h \in Exports : \A s \in hreq[h] : s.op <= Current
    /\ \A h \in Exports :
          hpc[h] \in {"matching", "sending"} =>
              \E k \in 1..Current :
                  hsnap[h] = {k} /\ \A s \in hreq[h] : s.trace <= k
    /\ NothingBlocksAfterShutdown

LEMMA CurrentGrows ==
    ASSUME TypeOK, [Next]_vars
    PROVE  /\ Current' \in Nat /\ Current <= Current'
           /\ \A i \in 1..Current : ops'[i] = ops[i]
<1> DEFINE Grows == /\ Current' \in Nat /\ Current <= Current'
                    /\ \A i \in 1..Current : ops'[i] = ops[i]
<1> SUFFICES Grows
  OBVIOUS
<1>1. Current \in Nat
  BY CurrentNat
<1>2. CASE UNCHANGED ops
  BY <1>1, <1>2 DEF Current
<1>3. ASSUME NEW kind, NEW c, StartOp(kind, c)
      PROVE  Grows
  BY <1>3 DEF StartOp, Current, TypeOK
<1> HIDE DEF Grows
<1>4. CASE MainStep
  <2> USE DEF opVars
  <2>1. CASE HashReturns \/ HashFails \/ SelectCID
    BY <1>2, <1>3, <2>1 DEF HashReturns, HashFails, SelectCID
  <2>2. CASE Available \/ CheckNode \/ Wait \/ Sleep \/ CloseDB
    BY <1>2, <2>2 DEF Available, CheckNode, Wait, Sleep, CloseDB
  <2>3. CASE PurgeAtStart \/ PurgeAfterDownload \/ ShutdownReceiver
    BY <1>2, <2>3 DEF PurgeAtStart, PurgeAfterDownload, Purge, ShutdownReceiver
  <2>4. CASE StartMeasurement \/ AddReturns \/ CatReturns \/ Collect
    BY <1>2, <2>4 DEF StartMeasurement, AddReturns, CatReturns, Collect
  <2>5. CASE ResetMatchers \/ EndDrain \/ Insert
    BY <1>2, <2>5 DEF ResetMatchers, EndDrain, Insert
  <2>6. QED
    BY <1>4, <2>1, <2>2, <2>3, <2>4, <2>5 DEF MainStep
<1>5. CASE ~MainStep
  BY <1>2, <1>5, OtherSteps
<1>6. QED
  BY <1>4, <1>5

LEMMA HandlersStep ==
    ASSUME TypeOK, Phases, Handlers, [Next]_vars
    PROVE  Handlers'
<1>1. Current \in Nat /\ Current' \in Nat /\ Current <= Current' /\ ReceiverStep
  BY CurrentNat, CurrentGrows, NextIsReceiverStep
<1>2. \A h \in Exports : hreq[h] \in Requests \cup {{}}
  BY DEF TypeOK, RecvTypeOK
<1>3. \A h \in Exports : \A s \in hreq[h] :
          s.op \in Nat \ {0} /\ s.trace \in Nat /\ s.trace <= s.op
  BY <1>2, RequestSpans DEF Span
<1>4. matchers # {} => matchers = {Current} /\ Current # 0
  <2>1. CASE InFlight \/ pc = "clear"
    BY <1>1, <2>1, CurrentNat DEF Phases, QuietOutsideMeasurements, InFlight,
       Measuring
  <2>2. CASE ~(InFlight \/ pc = "clear")
    BY <2>2 DEF Phases, QuietOutsideMeasurements
  <2>3. QED
    BY <2>1, <2>2
\* A handler that keeps its request and its snapshot keeps the invariant.
<1>5. ASSUME NEW h \in Exports, hreq'[h] \in {hreq[h], {}},
             hpc'[h] \in {"matching", "sending"} =>
                 /\ hpc[h] \in {"matching", "sending"}
                 /\ hsnap'[h] = hsnap[h]
      PROVE  /\ \A s \in hreq'[h] : s.op <= Current'
             /\ hpc'[h] \in {"matching", "sending"} =>
                   \E k \in 1..Current' :
                       hsnap'[h] = {k} /\ \A s \in hreq'[h] : s.trace <= k
  <2>1. \A s \in hreq'[h] : s \in hreq[h]
    BY <1>5
  <2>2. \A s \in hreq'[h] : s.op <= Current'
    BY <1>1, <1>3, <2>1 DEF Handlers
  <2>3. ASSUME hpc'[h] \in {"matching", "sending"}
        PROVE  \E k \in 1..Current' :
                   hsnap'[h] = {k} /\ \A s \in hreq'[h] : s.trace <= k
    <3>1. PICK k \in 1..Current :
              hsnap[h] = {k} /\ \A s \in hreq[h] : s.trace <= k
      BY <1>5, <2>3 DEF Handlers
    <3>2. k \in 1..Current'
      BY <1>1
    <3>3. QED
      BY <1>5, <2>1, <2>3, <3>1, <3>2
  <2>4. QED
    BY <2>2, <2>3
<1> USE DEF TypeOK, RecvTypeOK
<1>6. CASE UNCHANGED recvVars \/ Subscribe(Current) \/ ClearMatchers \/ StopServer
  <2>1. UNCHANGED <<hpc, hreq, hsnap, shutdown>>
    BY <1>6 DEF recvVars, Subscribe, ClearMatchers, SetMatchers, StopServer
  <2>2. QED
    BY <1>5, <2>1 DEF Handlers, NothingBlocksAfterShutdown
<1>7. CASE CloseShutdown
  <2>1. \A h \in Exports : hpc'[h] # "sending"
    BY <1>7 DEF CloseShutdown
  <2>2. \A h \in Exports : hreq'[h] \in {hreq[h], {}}
    BY <1>7 DEF CloseShutdown
  <2>3. \A h \in Exports : hpc'[h] = "matching" =>
            hpc[h] = "matching" /\ hsnap'[h] = hsnap[h]
    BY <1>7 DEF CloseShutdown
  <2>4. QED
    BY <1>5, <2>1, <2>2, <2>3 DEF Handlers, NothingBlocksAfterShutdown
<1>8. CASE CloseChan
  <2>1. \A h \in Exports : hpc'[h] \in {"matching", "sending"} => hpc[h] = hpc'[h]
    BY <1>8 DEF CloseChan
  <2>2. UNCHANGED <<hreq, hsnap, shutdown>>
    BY <1>8 DEF CloseChan
  <2>3. QED
    BY <1>5, <2>1, <2>2 DEF Handlers, NothingBlocksAfterShutdown
<1>9. ASSUME NEW g \in Exports, HandlerSteps(g)
      PROVE  Handlers'
  \* Only handler g moves.
  <2>1. /\ UNCHANGED <<shutdown, matchers>>
        /\ \A h \in Exports \ {g} :
              hpc'[h] = hpc[h] /\ hreq'[h] = hreq[h] /\ hsnap'[h] = hsnap[h]
    BY <1>9 DEF HandlerSteps, ExportCall, ReadMatchers, MatchSpans, Deliver, Return
  <2>2. ASSUME NEW req \in Requests, \A s \in req : Emitted(s), ExportCall(g, req)
        PROVE  Handlers'
    <3>1. hreq'[g] = req /\ hpc'[g] = "arrived"
      BY <2>2 DEF ExportCall
    <3>2. \A s \in req : s.op <= Current'
      <4>1. \A s \in req : s.op \in Nat /\ s.op <= Current
        BY <2>2, RequestSpans DEF Emitted, Span
      <4>2. QED
        BY <1>1, <4>1
    <3>3. QED
      BY <1>5, <2>1, <3>1, <3>2 DEF Handlers, NothingBlocksAfterShutdown
  <2>3. CASE ReadMatchers(g)
    <3>1. CASE matchers = {}
      <4>1. hpc'[g] = "idle" /\ hreq'[g] = {}
        BY <2>3, <3>1 DEF ReadMatchers, Return
      <4>2. QED
        BY <1>5, <2>1, <4>1 DEF Handlers, NothingBlocksAfterShutdown
    <3>2. CASE matchers # {}
      <4>1. hpc'[g] = "matching" /\ hreq'[g] = hreq[g] /\ hsnap'[g] = {Current}
        BY <1>4, <2>3, <3>2 DEF ReadMatchers
      <4>2. \A s \in hreq[g] : s.trace <= Current /\ s.op <= Current'
        BY <1>1, <1>3 DEF Handlers
      <4>3. Current \in 1..Current'
        <5>1. Current # 0
          BY <1>1, <1>4, <3>2
        <5>2. QED
          BY <1>1, <5>1
      <4>4. QED
        BY <1>5, <2>1, <4>1, <4>2, <4>3 DEF Handlers, NothingBlocksAfterShutdown
    <3>3. QED
      BY <3>1, <3>2
  <2>4. CASE MatchSpans(g)
    <3>1. hpc[g] = "matching" /\ hreq'[g] \in {hreq[g], {}}
      BY <2>4 DEF MatchSpans, Return
    <3>2. hpc'[g] \in {"matching", "sending"} => hsnap'[g] = hsnap[g]
      BY <2>4 DEF MatchSpans, Return
    <3>3. shutdown => hpc'[g] # "sending"
      BY <2>4 DEF MatchSpans, Return
    <3>4. QED
      BY <1>5, <2>1, <3>1, <3>2, <3>3 DEF Handlers, NothingBlocksAfterShutdown
  <2>5. CASE Deliver(g)
    <3>1. hpc'[g] = "idle" /\ hreq'[g] = {}
      BY <2>5 DEF Deliver, Return
    <3>2. QED
      BY <1>5, <2>1, <3>1 DEF Handlers, NothingBlocksAfterShutdown
  <2>6. QED
    BY <1>9, <2>2, <2>3, <2>4, <2>5 DEF HandlerSteps
<1>10. QED
  BY <1>1, <1>6, <1>7, <1>8, <1>9 DEF ReceiverStep

LEMMA HandlersInit == Init => Handlers
BY DEF Init, RecvInit, Handlers, NothingBlocksAfterShutdown

LEMMA HandlersInvariant == Spec => []Handlers
<1>1. Handlers /\ TypeOK /\ Phases /\ [Next]_vars => Handlers'
  BY HandlersStep
<1>2. QED
  BY <1>1, HandlersInit, TypedPhases, PTL DEF Spec

\* Once the receiver is shut down no handler is blocked in its send.
THEOREM NothingBlocks == Spec => []NothingBlocksAfterShutdown
<1>1. Handlers => NothingBlocksAfterShutdown
  BY DEF Handlers
<1>2. QED
  BY <1>1, HandlersInvariant, PTL

\* The measurement loop keeps the protocol of the receiver: it subscribes to
\* one trace at a time, stops receiving and subscribing before Shutdown, and
\* Shutdown closes the two channels in order.
THEOREM KuboFollowsReceiver == Spec => RecvSpec
<1>1. Init => RecvInit
  BY DEF Init
<1>2. ASSUME TypeOK, Phases, Handlers, [Next]_vars
      PROVE  [RecvNext]_recvVars
  <2>1. ReceiverStep
    BY <1>2, NextIsReceiverStep
  <2>2. CASE UNCHANGED recvVars
    BY <2>2
  <2>3. ASSUME NEW h \in Exports, HandlerSteps(h)
        PROVE  [RecvNext]_recvVars
    <3>1. CASE \E req \in Requests : ExportCall(h, req)
      BY <3>1 DEF RecvNext, ExportStep
    <3>2. CASE ReadMatchers(h) \/ MatchSpans(h)
      BY <3>2 DEF RecvNext, ExportStep
    <3>3. CASE Deliver(h)
      <4>1. ~shutdown
        BY <1>2, <3>3 DEF Deliver, Handlers, NothingBlocksAfterShutdown
      <4>2. QED
        BY <3>3, <4>1 DEF RecvNext, ClientStep
    <3>4. QED
      BY <2>3, <3>1, <3>2, <3>3 DEF HandlerSteps
  <2>4. CASE pc = "subscribe" /\ Subscribe(Current)
    <3>1. ~shutdown
      BY <1>2, <2>4 DEF Phases
    <3>2. Current \in Nat \ {0}
      BY <1>2, <2>4, CurrentNat DEF Phases, Measuring
    <3>3. Current \in matchers' \ {0}
      BY <2>4, <3>2 DEF Subscribe, SetMatchers
    <3>4. QED
      BY <2>4, <3>1, <3>2, <3>3 DEF RecvNext, ClientStep
  <2>5. CASE pc = "clear" /\ ClearMatchers
    <3>1. ~shutdown
      BY <1>2, <2>5 DEF Phases
    <3>2. QED
      BY <2>5, <3>1 DEF RecvNext, ClientStep
  <2>6. CASE pc = "closeShutdown" /\ CloseShutdown
    <3>1. ~shutdown
      BY <1>2, <2>6 DEF Phases
    <3>2. QED
      BY <2>6, <3>1 DEF RecvNext, ClientStep, ShutdownSteps
  <2>7. CASE pc = "closeChan" /\ CloseChan
    <3>1. shutdown /\ ~chanClosed
      BY <1>2, <2>7 DEF Phases
    <3>2. QED
      BY <2>7, <3>1 DEF RecvNext, ClientStep, ShutdownSteps
  <2>8. CASE StopServer
    <3>1. CASE serving
      BY <2>8, <3>1 DEF RecvNext, ClientStep, ShutdownSteps
    <3>2. CASE ~serving
      BY <1>2, <2>8, <3>2 DEF StopServer, TypeOK, RecvTypeOK, recvVars
    <3>3. QED
      BY <3>1, <3>2
  <2>9. QED
    BY <2>1, <2>2, <2>3, <2>4, <2>5, <2>6, <2>7, <2>8 DEF ReceiverStep
<1>3. QED
  BY <1>1, <1>2, TypedPhases, HandlersInvariant, PTL DEF Spec, RecvSpec

\* What the receiver promises to every such client it promises to the probe: a
\* handler hands over a request only for a span a matcher asked for, ...
THEOREM HandedOverIsAskedFor == Spec => []HandedOverWasAskedFor
BY KuboFollowsReceiver, ReceiverHandsOverMatches, PTL

\* ... closing the request channel at the end of Shutdown panics no handler that
\* was blocked in its send, ...
THEOREM BlockedExportSurvives == Spec => BlockedExportSurvivesShutdown
BY KuboFollowsReceiver, ReceiverSparesBlocked, PTL

\* ... and panics another one only when the receiver is shut down.
THEOREM ExportPanicsLate == Spec => []PanicsOnlyInShutdown
BY KuboFollowsReceiver, ReceiverPanicsLate, PTL

\* While a measurement is in flight no handler drops a request that carries a
\* span of its trace.
THEOREM NoTraceIsMissed == Spec => NoMissedTrace
<1>1. TypeOK /\ Phases /\ Handlers /\ [Next]_vars =>
          [InFlight =>
             \A h \in Exports :
                /\ hpc[h] \in {"arrived", "matching"}
                /\ hpc'[h] = "idle"
                => \A s \in hreq[h] : s.trace # Current]_vars
  <2> SUFFICES ASSUME TypeOK, Phases, Handlers, [Next]_vars, InFlight,
                      NEW h \in Exports, hpc[h] \in {"arrived", "matching"},
                      hpc'[h] = "idle", NEW s \in hreq[h], s.trace = Current
               PROVE  FALSE
    OBVIOUS
  <2>1. matchers = {Current} /\ ~shutdown /\ pc \notin {"closeShutdown", "closeChan"}
    BY DEF Phases, QuietOutsideMeasurements, InFlight
  <2>2. Current \in Nat /\ ReceiverStep
    BY CurrentNat, NextIsReceiverStep
  <2> USE DEF TypeOK, RecvTypeOK
  <2>3. hpc' # hpc
    BY DEF HandlerStates
  <2>4. PICK g \in Exports : HandlerSteps(g)
    BY <2>1, <2>2, <2>3 DEF ReceiverStep, recvVars, Subscribe, ClearMatchers,
       SetMatchers, StopServer
  <2>5. CASE g # h
    BY <2>4, <2>5 DEF HandlerSteps, ExportCall, ReadMatchers, MatchSpans, Deliver,
       Return
  <2>6. CASE g = h
    <3>1. CASE ReadMatchers(h)
      BY <2>1, <3>1 DEF ReadMatchers
    <3>2. CASE MatchSpans(h)
      <4>1. PICK k \in 1..Current :
                hsnap[h] = {k} /\ \A t \in hreq[h] : t.trace <= k
        BY <3>2 DEF MatchSpans, Handlers
      <4>2. k = Current
        BY <2>2, <4>1
      <4>3. Matches(hreq[h], hsnap[h])
        BY <4>1, <4>2 DEF Matches
      <4>4. QED
        BY <2>1, <3>2, <4>3 DEF MatchSpans, Return
    <3>3. QED
      BY <2>4, <2>6, <3>1, <3>2 DEF HandlerSteps, ExportCall, Deliver
  <2>7. QED
    BY <2>5, <2>6
<1>2. QED
  BY <1>1, TypedPhases, HandlersInvariant, PTL DEF Spec, NoMissedTrace

-----------------------------------------------------------------------------
(* The result of a measurement and its row.                                *)

\* The provide times of a result are its measurement's own; without the error
\* flag they are not those of a failed provide.
ProvideOf(r, k) ==
    /\ r.prov # NoSpan => r.prov.op = k
    /\ ~r.provErr => r.prov.kind \in {"none", "provide"}

Results ==
    /\ pc \notin Measuring \ {"subscribe"} => parser = "off" /\ res = NoResult
    /\ ProvideOf(res, Current)
    /\ parser = "populated" /\ Kind = "upload" =>
          res.add # NoSpan /\ res.prov # NoSpan

LEMMA ParseKeepsProvide ==
    ASSUME NEW r \in Result, NEW req \in Requests \cup {{}}, ProvideOf(r, Current)
    PROVE  ProvideOf(Parse(r, req), Current)
<1>1. CASE Kind = "upload"
  <2> DEFINE S == ProvideSpans(req, Current)
             p == ParseUpload(r, req, Current)
  <2>1. p.prov = LastOr(S, r.prov)
    BY DEF ParseUpload, Result
  <2>2. p.provErr = (r.provErr \/ \E s \in S : s.kind = "provideErr")
    BY DEF ParseUpload, Result
  <2>3. \A s \in S : s.op = Current /\ s.kind \in {"provide", "provideErr"}
    BY DEF ProvideSpans
  <2>8. r.provErr \in BOOLEAN
    BY DEF Result
  <2> HIDE DEF p, S
  <2>4. ASSUME p.prov \in S
        PROVE  ProvideOf(p, Current)
    BY <2>2, <2>3, <2>4, <2>8 DEF ProvideOf
  <2>5. ASSUME p.prov = r.prov
        PROVE  ProvideOf(p, Current)
    BY <2>2, <2>5, <2>8 DEF ProvideOf
  <2>6. ProvideOf(p, Current)
    BY <2>1, <2>4, <2>5, LastOrMember
  <2>7. QED
    BY <1>1, <2>6 DEF Parse, p
<1>2. CASE Kind # "upload"
  <2>1. /\ ParseDownload(r, req, Current).prov = r.prov
        /\ ParseDownload(r, req, Current).provErr = r.provErr
    BY DEF ParseDownload, Result
  <2>2. QED
    BY <1>2, <2>1 DEF Parse, ProvideOf
<1>3. QED
  BY <1>1, <1>2

LEMMA NoResultProvides == \A k : ProvideOf(NoResult, k)
BY DEF ProvideOf, NoResult, NoSpan

LEMMA ResultsMain ==
    ASSUME TypeOK, Phases, Results, MainStep
    PROVE  Results'
<1> USE NoResultProvides DEF Results, Measuring, Goto, Unwind, loopVars, opVars,
        envVars
<1>1. CASE Available \/ CheckNode \/ Wait
  BY <1>1 DEF Available, CheckNode, Wait, Current, Kind
<1>2. CASE PurgeAtStart \/ PurgeAfterDownload
  BY <1>2 DEF PurgeAtStart, PurgeAfterDownload, Purge, NextDownload,
              NextIteration, Current, Kind
\* A measurement starts with an empty result.
<1>3. CASE HashReturns \/ HashFails \/ SelectCID
  <2>1. parser' = "off" /\ res' = NoResult
    BY <1>3 DEF HashReturns, HashFails, SelectCID
  <2>2. QED
    BY <2>1
<1>4. CASE StartMeasurement
  BY <1>4 DEF StartMeasurement
<1>5. CASE AddReturns \/ CatReturns
  BY <1>5 DEF AddReturns, CatReturns, Current, Kind
<1>6. CASE Collect \/ EndDrain \/ Sleep \/ CloseDB
  BY <1>6 DEF Collect, EndDrain, Sleep, CloseDB, Current, Kind
<1>7. CASE ResetMatchers \/ ShutdownReceiver
  BY <1>7 DEF ResetMatchers, ShutdownReceiver, Current, Kind
<1>8. CASE Insert
  <2>1. parser' = "off" /\ res' = NoResult
    BY <1>8 DEF Insert
  <2>2. QED
    BY <2>1
<1>9. QED
  BY <1>1, <1>2, <1>3, <1>4, <1>5, <1>6, <1>7, <1>8 DEF MainStep

LEMMA ResultsStep ==
    ASSUME TypeOK, Phases, Results, [Next]_vars
    PROVE  Results'
<1>1. CASE MainStep
  BY <1>1, ResultsMain
<1>2. CASE ~MainStep
  <2>1. UNCHANGED <<pc, ops>> /\ Current' = Current /\ Kind' = Kind
    BY <1>2, OtherSteps DEF Current, Kind
  <2>2. CASE UNCHANGED <<parser, res>>
    BY <2>1, <2>2 DEF Results
  <2>3. CASE parser = "run" /\ parser' \in {"timeout", "cancelled"} /\ res' = res
    BY <2>1, <2>3 DEF Results
  <2>4. ASSUME NEW h \in Exports, ParserReceives(h)
        PROVE  Results'
    <3>1. InFlight /\ parser = "run"
      BY <2>4 DEF ParserReceives, Phases, QuietOutsideMeasurements
    <3>2. ProvideOf(res', Current)
      BY <2>4, ParseKeepsProvide DEF ParserReceives, TypeOK, RecvTypeOK, Results
    <3>3. parser' = "populated" => IsPopulated(res')
      BY <2>4 DEF ParserReceives
    <3>4. parser' = "populated" /\ Kind = "upload" =>
              res'.add # NoSpan /\ res'.prov # NoSpan
      BY <3>3 DEF IsPopulated
    <3>5. QED
      BY <2>1, <3>1, <3>2, <3>4 DEF Results, InFlight, Measuring
  <2>5. QED
    BY <1>2, <2>2, <2>3, <2>4, OtherSteps
<1>3. QED
  BY <1>1, <1>2

LEMMA ResultsInit == Init => Results
BY NoResultProvides DEF Init, Results, Measuring

\* The rows so far, and how many there are at each place of the loop.
Rows ==
    /\ pc \in Measuring => Len(rows) = Current - 1
    /\ pc \in {"avail", "version", "purge", "wait", "hash", "select",
               "purgeAfter", "sleep"} => Len(rows) = Current
    /\ OneRowPerMeasurement
    /\ ProvideIsOwn
    /\ SuccessIsComplete

\* The row Insert writes for the running measurement.
LEMMA RowFacts ==
    ASSUME TypeOK, Phases, Results, pc = "insert"
    PROVE  /\ RowOf.op = Current
           /\ RowOf.kind = ops[Current].kind
           /\ RowOf.prov # NoSpan => RowOf.prov.op = RowOf.op
           /\ RowOf.kind = "upload" /\ RowOf.err = "none" =>
                 /\ RowOf.add # NoSpan
                 /\ RowOf.prov # NoSpan
                 /\ RowOf.prov.kind = "provide"
<1>1. parser \in {"populated", "timeout", "cancelled"} /\ ops # <<>>
  BY DEF Phases, Measuring
<1>2. /\ RowOf.op = Current /\ RowOf.kind = Kind /\ RowOf.err = RowError
      /\ RowOf.add = res.add /\ RowOf.prov = res.prov
  BY DEF RowOf
<1>3. Kind = "upload" /\ RowError = "none" =>
          ~callErr /\ parser = "populated" /\ ~res.provErr
  BY <1>1 DEF RowError, TypeOK, Result
<1>4. res.prov # NoSpan => res.prov.kind # "none"
  BY DEF TypeOK, Result, SpanOrNone, Span, UploadSpans, DownloadSpans
<1>5. QED
  BY <1>2, <1>3, <1>4 DEF Results, ProvideOf, Kind

\* The parts of Rows that speak of the rows and the measurements only.
RowsSoFar == ProvideIsOwn /\ SuccessIsComplete
InOrder(rs, os) == \A i \in 1..Len(rs) : rs[i].op = i /\ rs[i].kind = os[i].kind

LEMMA RowsStay ==
    ASSUME TypeOK, Rows, UNCHANGED rows
    PROVE  /\ RowsSoFar'
           /\ UNCHANGED ops => InOrder(rows', ops')
           /\ \A kind, c : StartOp(kind, c) => InOrder(rows', ops')
<1>1. RowsSoFar'
  BY DEF Rows, RowsSoFar, ProvideIsOwn, SuccessIsComplete
<1>2. InOrder(rows, ops) /\ Len(rows) \in {Current - 1, Current}
  BY DEF Rows, OneRowPerMeasurement, InOrder
<1>3. Len(rows) \in Nat /\ Current \in Nat /\ Len(rows) <= Current
  BY <1>2, CurrentNat DEF TypeOK
<1>4. ASSUME NEW kind, NEW c, StartOp(kind, c)
      PROVE  InOrder(rows', ops')
  <2>1. \A i \in 1..Len(rows) : ops'[i] = ops[i]
    BY <1>3, <1>4 DEF StartOp, TypeOK, Current
  <2>2. QED
    BY <1>2, <2>1 DEF InOrder
<1>5. QED
  BY <1>1, <1>2, <1>4 DEF InOrder

LEMMA RowsMain ==
    ASSUME TypeOK, Phases, Results, Rows, MainStep
    PROVE  Rows'
<1>1. Current \in Nat /\ Len(rows) \in Nat
  BY CurrentNat DEF TypeOK
<1> USE DEF Measuring, Goto, Unwind, loopVars, opVars, envVars
\* A step that neither starts nor records a measurement.
<1>2. ASSUME UNCHANGED <<rows, ops>>,
             pc' \in Measuring => pc \in Measuring,
             pc' \notin Measuring \cup {"closeDB", "closeShutdown", "closeChan",
                                        "stopServer", "stopped"}
                => pc \notin Measuring \cup {"closeDB", "closeShutdown",
                                             "closeChan", "stopServer", "stopped"}
      PROVE  Rows'
  <2>1. pc \in PCs
    BY DEF TypeOK
  <2>2. RowsSoFar' /\ InOrder(rows', ops')
    BY <1>2, RowsStay
  <2>3. Current' = Current /\ Len(rows') = Len(rows)
    BY <1>2 DEF Current
  <2>4. OneRowPerMeasurement'
    BY <2>2, <2>3 DEF Rows, OneRowPerMeasurement, InOrder
  <2>5. QED
    BY <1>2, <2>1, <2>2, <2>3, <2>4 DEF Rows, RowsSoFar, PCs
<1>3. CASE Available \/ CheckNode \/ Wait \/ Sleep
  BY <1>2, <1>3 DEF Available, CheckNode, Wait, Sleep
<1>4. CASE PurgeAtStart \/ PurgeAfterDownload
  BY <1>2, <1>4 DEF PurgeAtStart, PurgeAfterDownload, Purge, NextDownload,
                    NextIteration
<1>5. CASE StartMeasurement \/ AddReturns \/ CatReturns \/ Collect
  BY <1>2, <1>5 DEF StartMeasurement, AddReturns, CatReturns, Collect
<1>6. CASE ResetMatchers \/ EndDrain \/ CloseDB \/ ShutdownReceiver
  BY <1>2, <1>6 DEF ResetMatchers, EndDrain, CloseDB, ShutdownReceiver
\* A measurement starts when all earlier ones are recorded.
<1>7. CASE HashReturns \/ HashFails \/ SelectCID
  <2>1. pc \in {"hash", "select"} /\ UNCHANGED rows /\ Len(rows) = Current
    BY <1>7 DEF HashReturns, HashFails, SelectCID, Rows
  <2>2. CASE UNCHANGED ops /\ pc' = "closeDB"
    BY <1>2, <2>1, <2>2
  <2>3. ASSUME NEW kind, NEW c, StartOp(kind, c), pc' \in {"subscribe", "closeDB"}
        PROVE  Rows'
    <3>1. Current' = Current + 1
      BY <2>3 DEF StartOp, Current, TypeOK
    <3>2. RowsSoFar' /\ InOrder(rows', ops')
      BY <2>1, <2>3, RowsStay
    <3>3. Len(rows') = Current' - 1
      BY <1>1, <2>1, <3>1
    <3>4. QED
      BY <2>3, <3>2, <3>3 DEF Rows, RowsSoFar, OneRowPerMeasurement, InOrder
  <2>4. QED
    BY <1>7, <2>2, <2>3 DEF HashReturns, HashFails, SelectCID
\* The row of the running measurement is the next one.
<1>8. CASE Insert
  <2>1. /\ pc = "insert" /\ UNCHANGED ops /\ Len(rows) = Current - 1
        /\ pc' \in {"closeDB", "purgeAfter", "select", "sleep", "purge"}
    BY <1>8 DEF Insert, NextIteration, Rows
  <2>2. CASE UNCHANGED rows /\ pc' = "closeDB"
    BY <1>2, <2>1, <2>2
  <2>3. CASE rows' = Append(rows, RowOf)
    <3>1. RowOf \in Row
      BY <2>1, RowType
    <3>2. rows \in Seq(Row)
      BY DEF TypeOK
    <3>3. Len(rows') = Current /\ Current' = Current /\ Len(rows) + 1 = Current
      BY <1>1, <2>1, <2>3, <3>1, <3>2 DEF Current
    <3>4. \A i \in 1..Len(rows') :
              rows'[i] = IF i = Current THEN RowOf ELSE rows[i]
      BY <1>1, <2>3, <3>1, <3>2, <3>3
    <3>5. \A i \in 1..Len(rows') : i = Current \/ i \in 1..Len(rows)
      BY <1>1, <3>3
    <3>6. InOrder(rows', ops')
      BY <2>1, <3>4, <3>5, RowFacts DEF Rows, OneRowPerMeasurement, InOrder
    <3>7. ProvideIsOwn'
      BY <2>1, <3>4, <3>5, RowFacts DEF Rows, ProvideIsOwn
    <3>8. SuccessIsComplete'
      BY <2>1, <3>4, <3>5, RowFacts DEF Rows, SuccessIsComplete
    <3>9. QED
      BY <2>1, <3>3, <3>6, <3>7, <3>8 DEF Rows, OneRowPerMeasurement, InOrder
  <2>4. QED
    BY <1>8, <2>2, <2>3 DEF Insert
<1>9. QED
  BY <1>3, <1>4, <1>5, <1>6, <1>7, <1>8 DEF MainStep

LEMMA RowsStep ==
    ASSUME TypeOK, Phases, Results, Rows, [Next]_vars
    PROVE  Rows'
<1>1. CASE MainStep
  BY <1>1, RowsMain
<1>2. CASE ~MainStep
  <2>1. UNCHANGED <<pc, rows, ops>> /\ Current' = Current
    BY <1>2, OtherSteps DEF Current
  <2>2. QED
    BY <2>1 DEF Rows, OneRowPerMeasurement, ProvideIsOwn, SuccessIsComplete
<1>3. QED
  BY <1>1, <1>2

LEMMA RowsInit == Init => Rows
BY DEF Init, Rows, Measuring, OneRowPerMeasurement, ProvideIsOwn,
       SuccessIsComplete, Current

LEMMA RowsInvariant == Spec => []Rows
<1>1. Init => Results /\ Rows
  BY ResultsInit, RowsInit
<1>2. TypeOK /\ Phases /\ Results /\ Rows /\ [Next]_vars => (Results /\ Rows)'
  BY ResultsStep, RowsStep
<1>3. QED
  BY <1>1, <1>2, TypedPhases, PTL DEF Spec

\* Every measurement is recorded once, in order, before the next one starts.
THEOREM RowPerMeasurement == Spec => []OneRowPerMeasurement
<1>1. Rows => OneRowPerMeasurement
  BY DEF Rows
<1>2. QED
  BY <1>1, RowsInvariant, PTL

\* The provide times of a row are those of its own upload, whatever late or
\* repeated requests its parser received.
THEOREM ProvideOfRowIsOwn == Spec => []ProvideIsOwn
<1>1. Rows => ProvideIsOwn
  BY DEF Rows
<1>2. QED
  BY <1>1, RowsInvariant, PTL

\* An upload row without an error has the times of an add and of a provide that
\* succeeded.
THEOREM SuccessfulRowIsComplete == Spec => []SuccessIsComplete
<1>1. Rows => SuccessIsComplete
  BY DEF Rows
<1>2. QED
  BY <1>1, RowsInvariant, PTL

-----------------------------------------------------------------------------
(* The plan of the run.                                                    *)

\* The places before the first, in between two and after the last measurement.
BeforeFirst == {"avail", "version"}
Ending == {"closeDB", "closeShutdown", "closeChan", "stopServer", "stopped"}

\* How many measurements were started at each place of the loop, and of which
\* kind the running one is.
Counted ==
    /\ pc \in BeforeFirst => iter = 0 /\ Current = 0
    /\ pc \in {"purge", "wait", "hash"} => Current = iter * PerIteration
    /\ pc \in BeforeFirst \cup {"purge", "wait", "hash"} => origin = 0
    /\ pc = "hash" => Uploads = 1
    /\ pc = "select" =>
          Downloads # 0 /\ Current = iter * PerIteration + Uploads + origin
    /\ pc \in Measuring \cup {"purgeAfter"} =>
          \/ /\ Kind = "upload" /\ pc # "purgeAfter"
             /\ Uploads = 1 /\ origin = 0
             /\ Current = iter * PerIteration + 1
          \/ /\ Kind = "download"
             /\ Downloads # 0
             /\ Current = iter * PerIteration + Uploads + origin + 1
    /\ pc = "sleep" => iter = MaxIter /\ Current = iter * PerIteration

Plan ==
    /\ Counted
    /\ pc \notin Ending \cup {"sleep"} => MaxIter = 0 \/ iter < MaxIter
    /\ \A i \in 1..Current : ops[i].kind = Planned(i)
    /\ outcome # "running" <=> pc \in Ending
    /\ outcome = "ok" => Len(rows) = MaxIter * PerIteration

\* What the three modes make of an iteration.
LEMMA Modes ==
    /\ Mode = "upload" => Uploads = 1 /\ Downloads = 0 /\ PerIteration = 1
    /\ Mode = "download" => Uploads = 0 /\ Downloads = 2 /\ PerIteration = 2
    /\ Mode = "both" => Uploads = 1 /\ Downloads = 2 /\ PerIteration = 3
    /\ Mode \in {"upload", "download", "both"}
BY KuboAssumption DEF Uploads, Downloads, PerIteration, Origins

\* One more iteration is PerIteration more measurements.
LEMMA OneMoreIteration ==
    ASSUME NEW n \in Nat
    PROVE  /\ n * PerIteration \in Nat
           /\ (n + 1) * PerIteration = n * PerIteration + Uploads + Downloads
BY Modes

\* The plan says "upload" for the first measurement of an iteration, unless
\* there are only downloads, and "download" for the others.
LEMMA PlannedKinds ==
    ASSUME NEW n \in Nat
    PROVE  /\ Uploads = 1 => Planned(n * PerIteration + 1) = "upload"
           /\ Downloads # 0 =>
                 \A d \in 0..(Origins - 1) :
                     Planned(n * PerIteration + Uploads + d + 1) = "download"
<1>1. CASE Mode = "upload"
  BY <1>1, Modes DEF Planned
<1>2. CASE Mode = "download"
  BY <1>2, Modes DEF Planned, Origins
<1>3. CASE Mode = "both"
  <2>1. Uploads = 1 /\ Downloads = 2 /\ PerIteration = 3
    BY <1>3, Modes
  <2>2. \A d \in 0..1 : (n * 3 + 1 + d + 1 - 1) % 3 = d + 1
    OBVIOUS
  <2>3. (n * 3 + 1 - 1) % 3 = 0
    OBVIOUS
  <2>4. QED
    BY <2>1, <2>2, <2>3 DEF Planned, Origins
<1>4. QED
  BY <1>1, <1>2, <1>3, Modes

LEMMA PlanMain ==
    ASSUME TypeOK, Phases, Rows, Plan, MainStep
    PROVE  Plan'
<1>1. /\ Current \in Nat /\ iter \in Nat /\ origin \in 0..1 /\ MaxIter \in Nat
      /\ pc \in PCs
  BY CurrentNat, KuboAssumption DEF TypeOK, Origins
<1>2. iter * PerIteration \in Nat
  BY <1>1, OneMoreIteration
<1> USE DEF Measuring, BeforeFirst, Ending, Goto, Unwind, loopVars, opVars, envVars
\* A step that starts no measurement and completes no iteration.
<1>3. ASSUME UNCHANGED <<ops, iter, origin>>, Counted', outcome' = "running",
             pc' \notin Ending \cup {"sleep"}, pc \notin Ending \cup {"sleep"}
      PROVE  Plan'
  BY <1>3 DEF Plan, Current
\* The end of a run.
<1>4. ASSUME UNCHANGED ops, pc' \in Ending,
             outcome' \in {"error", "panic"} \/ UNCHANGED <<outcome, rows, pc>>
      PROVE  Plan'
  BY <1>4 DEF Plan, Counted, Current
\* The loop header.
<1>5. ASSUME NextIteration, UNCHANGED ops, outcome = "running",
             pc \notin Ending \cup {"sleep"},
             Current = iter * PerIteration + Uploads + Downloads
      PROVE  Plan'
  <2>1. Current' = iter' * PerIteration /\ origin' = 0 /\ iter' = iter + 1
    BY <1>1, <1>5, OneMoreIteration DEF NextIteration, Current
  <2>2. MaxIter = 0 \/ iter < MaxIter
    BY <1>5 DEF Plan
  <2>3. \/ pc' = "sleep" /\ iter' = MaxIter
        \/ pc' = "purge" /\ (MaxIter = 0 \/ iter' < MaxIter)
    BY <1>1, <1>5, <2>1, <2>2 DEF NextIteration
  <2>4. Counted'
    BY <2>1, <2>3 DEF Counted
  <2>5. QED
    BY <1>5, <2>3, <2>4 DEF Plan, NextIteration, Current
<1>6. CASE Available \/ CheckNode
  <2>1. /\ pc \in BeforeFirst /\ UNCHANGED <<ops, iter, origin>>
        /\ outcome = "running" /\ iter = 0 /\ Current = 0
    BY <1>6 DEF Available, CheckNode, Plan, Counted
  <2>2. CASE pc' \in {"version", "purge"} /\ UNCHANGED outcome
    <3>1. 0 * PerIteration = 0
      BY Modes
    <3>2. Counted'
      BY <2>1, <2>2, <3>1 DEF Plan, Counted, Current
    <3>3. QED
      BY <1>3, <2>1, <2>2, <3>2
  <2>3. CASE pc' = "closeDB" /\ outcome' = "error"
    BY <1>4, <2>1, <2>3
  <2>4. QED
    BY <1>6, <2>2, <2>3 DEF Available, CheckNode
<1>7. CASE PurgeAtStart
  <2>1. /\ pc = "purge" /\ pc' = "wait" /\ UNCHANGED <<ops, iter, origin, outcome>>
    BY <1>7 DEF PurgeAtStart, Purge
  <2>2. Counted' /\ outcome = "running"
    BY <2>1 DEF Plan, Counted, Current
  <2>3. QED
    BY <1>3, <2>1, <2>2
<1>8. CASE Wait
  <2>1. pc = "wait" /\ UNCHANGED <<ops, iter, origin>> /\ outcome = "running"
    BY <1>8 DEF Wait, Plan
  <2>2. CASE /\ pc' = IF Mode = "download" THEN "select" ELSE "hash"
             /\ UNCHANGED outcome
    <3>1. Counted'
      BY <1>1, <2>1, <2>2, Modes DEF Plan, Counted, Current
    <3>2. QED
      BY <1>3, <2>1, <2>2, <3>1
  <2>3. CASE pc' = "closeDB" /\ outcome' = "error"
    BY <1>4, <2>1, <2>3
  <2>4. QED
    BY <1>8, <2>2, <2>3 DEF Wait
<1>9. CASE HashReturns \/ HashFails \/ SelectCID
  <2>1. /\ pc \in {"hash", "select"} /\ UNCHANGED <<iter, origin>>
        /\ outcome = "running"
    BY <1>9 DEF HashReturns, HashFails, SelectCID, Plan
  <2>2. CASE UNCHANGED ops /\ pc' = "closeDB" /\ outcome' = "error"
    BY <1>4, <2>2
  <2>3. ASSUME NEW kind, NEW c, StartOp(kind, c),
               kind = IF pc = "hash" THEN "upload" ELSE "download",
               \/ pc' = "subscribe" /\ UNCHANGED outcome
               \/ pc' = "closeDB" /\ outcome' = "panic"
        PROVE  Plan'
    <3>1. /\ Current' = Current + 1 /\ Kind' = kind
          /\ \A i \in 1..Current : ops'[i] = ops[i]
      BY <2>3 DEF StartOp, Current, Kind, TypeOK
    <3>2. kind = Planned(Current') /\ Current' = iter * PerIteration +
             (IF pc = "hash" THEN 1 ELSE Uploads + origin + 1)
      <4>1. CASE pc = "hash"
        BY <1>1, <1>2, <2>3, <3>1, <4>1, PlannedKinds DEF Plan, Counted
      <4>2. CASE pc = "select"
        <5>1. Uploads \in Nat
          BY Modes
        <5>2. Current' = iter * PerIteration + Uploads + origin + 1
          BY <1>1, <1>2, <3>1, <4>2, <5>1 DEF Plan, Counted
        <5>3. Downloads # 0 /\ kind = "download"
          BY <2>3, <4>2 DEF Plan, Counted
        <5>4. Planned(Current') = "download"
          BY <1>1, <5>2, <5>3, PlannedKinds DEF Origins
        <5>5. QED
          BY <1>1, <1>2, <4>2, <5>1, <5>2, <5>3, <5>4
      <4>3. QED
        BY <2>1, <4>1, <4>2
    <3>3. \A i \in 1..Current' : ops'[i].kind = Planned(i)
      <4>1. \A i \in 1..Current' : i \in 1..Current \/ i = Current'
        BY <1>1, <3>1
      <4>2. QED
        BY <3>1, <3>2, <4>1 DEF Plan, Kind
    <3>4. Counted'
      <4>1. CASE pc = "hash"
        BY <2>1, <2>3, <3>1, <3>2, <4>1 DEF Plan, Counted
      <4>2. CASE pc = "select"
        BY <1>1, <1>2, <2>1, <2>3, <3>1, <3>2, <4>2, Modes DEF Plan, Counted
      <4>3. QED
        BY <2>1, <4>1, <4>2
    <3>5. QED
      BY <2>1, <2>3, <3>3, <3>4 DEF Plan
  <2>4. QED
    BY <1>9, <2>2, <2>3 DEF HashReturns, HashFails, SelectCID
<1>10. CASE StartMeasurement \/ AddReturns \/ CatReturns \/ Collect \/ ResetMatchers
            \/ EndDrain
  <2>1. /\ pc \in Measuring /\ pc' \in Measuring
        /\ UNCHANGED <<ops, iter, origin, outcome>>
    BY <1>10 DEF StartMeasurement, AddReturns, CatReturns, Collect, ResetMatchers,
                 EndDrain
  <2>2. Counted' /\ outcome = "running"
    BY <2>1 DEF Plan, Counted, Current, Kind
  <2>3. QED
    BY <1>3, <2>1, <2>2
<1>11. CASE Insert
  <2>1. pc = "insert" /\ UNCHANGED ops /\ outcome = "running"
    BY <1>11 DEF Insert, Plan
  <2>2. CASE Unwind("error")
    BY <1>4, <2>1, <2>2
  <2>3. CASE Kind = "download" /\ Goto("purgeAfter") /\ UNCHANGED loopVars
    <3>1. Counted'
      BY <2>1, <2>3 DEF Plan, Counted, Current, Kind
    <3>2. QED
      BY <1>3, <2>1, <2>3, <3>1
  <2>4. CASE Kind = "upload" /\ Mode = "upload" /\ NextIteration
    <3>1. Current = iter * PerIteration + Uploads + Downloads
      BY <1>1, <1>2, <2>1, <2>4, Modes DEF Plan, Counted
    <3>2. QED
      BY <1>5, <2>1, <2>4, <3>1
  <2>5. CASE Kind = "upload" /\ Mode # "upload" /\ Goto("select")
             /\ UNCHANGED loopVars
    <3>1. /\ Uploads = 1 /\ origin = 0 /\ Current = iter * PerIteration + 1
          /\ Downloads # 0
      BY <2>1, <2>5, Modes DEF Plan, Counted
    <3>2. Counted'
      BY <1>1, <1>2, <2>5, <3>1, <2>1 DEF Counted, Current
    <3>3. QED
      BY <1>3, <2>1, <2>5, <3>2
  <2>6. Kind \in {"upload", "download"}
    BY <2>1 DEF Plan, Counted
  <2>7. QED
    BY <1>11, <2>2, <2>3, <2>4, <2>5, <2>6 DEF Insert
<1>12. CASE PurgeAfterDownload
  <2>1. /\ pc = "purgeAfter" /\ UNCHANGED ops /\ outcome = "running"
        /\ Downloads = 2 /\ Uploads \in Nat
        /\ Current = iter * PerIteration + Uploads + origin + 1
    BY <1>12, Modes DEF PurgeAfterDownload, Purge, Plan, Counted
  <2>2. CASE origin + 1 = 2
    BY <1>1, <1>2, <1>5, <1>12, <2>1, <2>2
       DEF PurgeAfterDownload, NextDownload, Origins
  <2>3. CASE origin + 1 # 2
    <3>1. origin' = origin + 1 /\ pc' = "select" /\ UNCHANGED <<iter, outcome>>
      BY <1>12, <2>3 DEF PurgeAfterDownload, NextDownload, Origins
    <3>2. Counted'
      BY <1>1, <1>2, <2>1, <3>1 DEF Counted, Current
    <3>3. QED
      BY <2>1, <3>1, <3>2 DEF Plan, Current
  <2>4. QED
    BY <2>2, <2>3
<1>13. CASE Sleep
  <2>1. /\ pc = "sleep" /\ pc' = "closeDB" /\ outcome' = "ok"
        /\ UNCHANGED <<ops, rows>> /\ iter = MaxIter
        /\ Current = iter * PerIteration /\ Len(rows) = Current
    BY <1>13 DEF Sleep, Plan, Counted, Rows
  <2>2. QED
    BY <2>1 DEF Plan, Counted, Current
<1>14. CASE CloseDB \/ ShutdownReceiver
  <2>1. /\ pc \in Ending /\ pc' \in Ending /\ UNCHANGED <<ops, rows, outcome>>
    BY <1>14 DEF CloseDB, ShutdownReceiver
  <2>2. QED
    BY <2>1 DEF Plan, Counted, Current
<1>15. QED
  BY <1>6, <1>7, <1>8, <1>9, <1>10, <1>11, <1>12, <1>13, <1>14 DEF MainStep

LEMMA PlanInvariant == Spec => []Plan
<1>1. Init => Plan
  BY KuboAssumption DEF Init, Plan, Counted, BeforeFirst, Ending, Measuring,
     Current
<1>2. TypeOK /\ Phases /\ Rows /\ Plan /\ [Next]_vars => Plan'
  <2>1. ASSUME Plan, [Next]_vars, ~MainStep
        PROVE  Plan'
    BY <2>1, OtherSteps DEF Plan, Counted, Current, Kind
  <2>2. QED
    BY <2>1, PlanMain
<1>3. QED
  BY <1>1, <1>2, TypedPhases, RowsInvariant, PTL DEF Spec

\* The rows are those of whole iterations, and a run that ends well has measured
\* every iteration it was asked for.
THEOREM EndedRunIsComplete == Spec => []RunsAsPlanned
<1>1. ASSUME TypeOK, Rows, Plan
      PROVE  RunsAsPlanned
  <2>1. ASSUME NEW i \in 1..Len(rows)
        PROVE  rows[i].kind = Planned(i)
    <3>1. i \in 1..Current
      BY <1>1, <2>1, CurrentNat DEF Rows, OneRowPerMeasurement, TypeOK
    <3>2. QED
      BY <1>1, <2>1, <3>1 DEF Rows, OneRowPerMeasurement, Plan
  <2>2. QED
    BY <1>1, <2>1 DEF RunsAsPlanned, Plan
<1>2. QED
  BY <1>1, TypeCorrect, RowsInvariant, PlanInvariant, PTL

-----------------------------------------------------------------------------
(* The provider lookup of a download.                                      *)

LEMMA OpIsKindAndCID ==
    ASSUME NEW x \in Op, NEW y \in Op, x.kind = y.kind, x.cid = y.cid
    PROVE  x = y
<1>1. x = [kind |-> x.kind, cid |-> x.cid]
  BY DEF Op
<1>2. y = [kind |-> y.kind, cid |-> y.cid]
  BY DEF Op
<1>3. QED
  BY <1>1, <1>2

\* A handler's request grows only when it arrives.
LEMMA RequestsArrive ==
    ASSUME RecvTypeOK, ReceiverStep, NEW h \in Exports
    PROVE  hreq'[h] \subseteq hreq[h] \/ \A s \in hreq'[h] : Emitted(s)
<1> USE DEF RecvTypeOK
<1>1. CASE UNCHANGED recvVars \/ Subscribe(Current) \/ ClearMatchers \/ StopServer
  BY <1>1 DEF recvVars, Subscribe, ClearMatchers, SetMatchers, StopServer
<1>2. CASE CloseShutdown \/ CloseChan
  BY <1>2 DEF CloseShutdown, CloseChan
<1>3. ASSUME NEW g \in Exports, HandlerSteps(g)
      PROVE  hreq'[h] \subseteq hreq[h] \/ \A s \in hreq'[h] : Emitted(s)
  <2>1. CASE ReadMatchers(g) \/ MatchSpans(g) \/ Deliver(g)
    BY <2>1 DEF ReadMatchers, MatchSpans, Deliver, Return
  <2>2. ASSUME NEW req \in Requests, \A s \in req : Emitted(s), ExportCall(g, req)
        PROVE  hreq'[h] \subseteq hreq[h] \/ \A s \in hreq'[h] : Emitted(s)
    BY <2>2 DEF ExportCall
  <2>3. QED
    BY <1>3, <2>1, <2>2 DEF HandlerSteps
<1>4. QED
  BY <1>1, <1>2, <1>3 DEF ReceiverStep

\* Lookups are exported for downloads only, and a result or row takes one of the
\* CID it measures.
LookupsOfDownloads ==
    \A h \in Exports : \A s \in hreq[h] :
        s.kind = "findprov" => ops[s.op].kind = "download"
FoundFor(span, k) ==
    span # NoSpan =>
        ops[k].kind = "download" /\ span.op \in 1..k /\ ops[span.op] = ops[k]
Founds ==
    /\ LookupsOfDownloads
    /\ pc \in Measuring => FoundFor(res.found, Current)
    /\ FoundOfSameCID

LEMMA LookupsStep ==
    ASSUME TypeOK, Phases, Handlers, LookupsOfDownloads, [Next]_vars
    PROVE  LookupsOfDownloads'
<1> SUFFICES ASSUME NEW h \in Exports, NEW s \in hreq'[h], s.kind = "findprov"
             PROVE  ops'[s.op].kind = "download"
  BY DEF LookupsOfDownloads
<1>1. /\ Current \in Nat /\ RecvTypeOK /\ RecvTypeOK'
      /\ \A i \in 1..Current : ops'[i] = ops[i]
  BY CurrentNat, CurrentGrows, TypeStep DEF TypeOK
<1>2. s \in Span
  BY <1>1, RequestSpans DEF RecvTypeOK
<1>3. CASE s \in hreq[h]
  <2>1. s.op \in 1..Current
    BY <1>1, <1>2, <1>3 DEF Handlers, Span
  <2>2. QED
    BY <1>1, <1>3, <2>1 DEF LookupsOfDownloads
<1>4. CASE Emitted(s)
  <2>1. s.op \in 1..Current /\ ops[s.op].kind # "upload"
    BY <1>1, <1>2, <1>4 DEF Emitted, Span, UploadSpans
  <2>2. ops[s.op].kind = "download"
    BY <1>1, <2>1 DEF TypeOK, Op, Current
  <2>3. QED
    BY <1>1, <2>1, <2>2
<1>5. QED
  BY <1>1, <1>3, <1>4, RequestsArrive, NextIsReceiverStep

\* Parsing fills in a lookup of the running download's CID.
LEMMA ParseKeepsFound ==
    ASSUME TypeOK, ops # <<>>, LookupsOfDownloads, FoundFor(res.found, Current),
           NEW h \in Exports
    PROVE  FoundFor(Parse(res, hreq[h]).found, Current)
<1>1. Current \in Nat /\ ops[Current] \in Op /\ res \in Result
  BY CurrentNat DEF TypeOK
<1>2. CASE Kind = "upload"
  <2>1. Parse(res, hreq[h]).found = res.found
    BY <1>1, <1>2 DEF Parse, ParseUpload, Result
  <2>2. QED
    BY <2>1
<1>3. CASE Kind # "upload"
  <2> DEFINE S == FindProvSpans(hreq[h], Current)
             f == LastOr(S, res.found)
  <2>1. Parse(res, hreq[h]).found = f
    BY <1>1, <1>3 DEF Parse, ParseDownload, Result
  <2>2. Kind = "download"
    BY <1>1, <1>3 DEF Kind, Op
  <2>3. ASSUME NEW s \in S
        PROVE  FoundFor(s, Current)
    <3>1. /\ s.op \in 1..Current /\ ops[s.op].cid = ops[Current].cid
          /\ ops[s.op].kind = "download"
      BY <2>3 DEF FindProvSpans, LookupsOfDownloads
    <3>2. ops[s.op] \in Op
      BY <3>1 DEF TypeOK, Current
    <3>3. ops[s.op] = ops[Current]
      BY <1>1, <2>2, <3>1, <3>2, OpIsKindAndCID DEF Kind
    <3>4. QED
      BY <3>1, <3>3 DEF FoundFor, Kind
  <2>4. f \in S \/ f = res.found
    BY LastOrMember
  <2>5. QED
    BY <2>1, <2>3, <2>4
<1>4. QED
  BY <1>2, <1>3

LEMMA FoundsMain ==
    ASSUME TypeOK, Phases, Results, Rows, Founds, MainStep, [Next]_vars
    PROVE  (pc \in Measuring => FoundFor(res.found, Current))' /\ FoundOfSameCID'
<1>1. /\ Current \in Nat /\ Len(rows) \in Nat /\ Len(rows) <= Current
      /\ \A i \in 1..Current : ops'[i] = ops[i]
  BY CurrentNat, CurrentGrows DEF TypeOK, Rows, OneRowPerMeasurement
<1> USE DEF Measuring, Goto, Unwind, loopVars, opVars, envVars
<1>2. NoResult.found = NoSpan
  BY DEF NoResult
\* The rows so far keep their lookups: the measurements they name stay.
<1>3. ASSUME UNCHANGED rows
      PROVE  FoundOfSameCID'
  <2> SUFFICES ASSUME NEW i \in 1..Len(rows), rows[i].found # NoSpan
               PROVE  /\ rows[i].kind = "download"
                      /\ rows[i].found.op \in 1..i
                      /\ ops'[rows[i].found.op] = ops'[i]
    BY <1>3 DEF FoundOfSameCID
  <2>1. /\ rows[i].kind = "download"
        /\ rows[i].found.op \in 1..i /\ ops[rows[i].found.op] = ops[i]
    BY DEF Founds, FoundOfSameCID
  <2>2. i \in 1..Current /\ rows[i].found.op \in 1..Current
    BY <1>1, <2>1
  <2>3. QED
    BY <1>1, <2>1, <2>2
<1>4. CASE Available \/ CheckNode \/ Wait \/ Sleep \/ CloseDB \/ ShutdownReceiver
  BY <1>3, <1>4 DEF Available, CheckNode, Wait, Sleep, CloseDB, ShutdownReceiver
<1>5. CASE PurgeAtStart \/ PurgeAfterDownload
  BY <1>3, <1>5 DEF PurgeAtStart, PurgeAfterDownload, Purge, NextDownload,
                    NextIteration
<1>6. CASE HashReturns \/ HashFails \/ SelectCID
  <2>1. res' = NoResult /\ UNCHANGED rows
    BY <1>6 DEF HashReturns, HashFails, SelectCID, Results
  <2>2. QED
    BY <1>2, <1>3, <2>1 DEF FoundFor
<1>7. CASE StartMeasurement
  <2>1. res' = NoResult /\ UNCHANGED rows
    BY <1>7 DEF StartMeasurement
  <2>2. QED
    BY <1>2, <1>3, <2>1 DEF FoundFor
<1>8. CASE AddReturns \/ CatReturns \/ Collect \/ ResetMatchers \/ EndDrain
  <2>1. pc \in Measuring /\ UNCHANGED <<res, ops, rows>>
    BY <1>8 DEF AddReturns, CatReturns, Collect, ResetMatchers, EndDrain
  <2>2. QED
    BY <1>3, <2>1 DEF Founds, FoundFor, Current
<1>9. CASE Insert
  <2>1. /\ pc = "insert" /\ UNCHANGED ops /\ pc' \notin Measuring
        /\ Len(rows) = Current - 1
    BY <1>9 DEF Insert, NextIteration, Rows
  <2>2. CASE rows' = Append(rows, RowOf)
    <3>1. RowOf \in Row /\ rows \in Seq(Row)
      BY <2>1, RowType DEF TypeOK
    <3>2. Len(rows') = Current
      BY <1>1, <2>1, <2>2, <3>1
    <3>3. \A i \in 1..Len(rows') :
              rows'[i] = IF i = Current THEN RowOf ELSE rows[i]
      BY <1>1, <2>1, <2>2, <3>1, <3>2
    <3>4. FoundFor(RowOf.found, Current) /\ RowOf.kind = ops[Current].kind
      BY <2>1 DEF Founds, RowOf, Kind
    <3>5. \A i \in 1..Len(rows') : i = Current \/ i \in 1..Len(rows)
      BY <1>1, <2>1, <3>2
    <3>6. QED
      BY <2>1, <3>3, <3>4, <3>5 DEF Founds, FoundOfSameCID, FoundFor
  <2>3. CASE UNCHANGED rows
    BY <1>3, <2>1, <2>3
  <2>4. QED
    BY <1>9, <2>2, <2>3 DEF Insert
<1>10. QED
  BY <1>4, <1>5, <1>6, <1>7, <1>8, <1>9 DEF MainStep

LEMMA FoundsInvariant == Spec => []Founds
<1>1. Init => Founds
  BY DEF Init, RecvInit, Founds, LookupsOfDownloads, FoundOfSameCID, Measuring
<1>2. ASSUME TypeOK, Phases, Handlers, Results, Rows, Founds, [Next]_vars
      PROVE  Founds'
  <2>1. LookupsOfDownloads'
    BY <1>2, LookupsStep DEF Founds
  <2>2. CASE MainStep
    BY <1>2, <2>1, <2>2, FoundsMain DEF Founds
  <2>3. CASE ~MainStep
    <3>1. UNCHANGED <<pc, ops, rows>> /\ Current' = Current
      BY <1>2, <2>3, OtherSteps DEF Current
    <3>2. FoundOfSameCID'
      BY <1>2, <3>1 DEF Founds, FoundOfSameCID
    <3>3. CASE res' = res
      BY <1>2, <2>1, <3>1, <3>2, <3>3 DEF Founds, FoundFor
    <3>4. ASSUME NEW h \in Exports, ParserReceives(h)
          PROVE  Founds'
      <4>1. pc \in Measuring /\ ops # <<>>
        BY <1>2, <3>4 DEF ParserReceives, Phases, QuietOutsideMeasurements,
           InFlight, Measuring
      <4>2. res' = Parse(res, hreq[h])
        BY <3>4 DEF ParserReceives
      <4>3. FoundFor(res'.found, Current)
        BY <1>2, <4>1, <4>2, ParseKeepsFound DEF Founds
      <4>4. QED
        BY <2>1, <3>1, <3>2, <4>3 DEF Founds, FoundFor
    <3>5. QED
      BY <1>2, <2>3, <3>3, <3>4, OtherSteps
  <2>4. QED
    BY <2>2, <2>3
<1>3. Init => Results /\ Rows
  BY ResultsInit, RowsInit
<1>4. TypeOK /\ Phases /\ Results /\ Rows /\ [Next]_vars => (Results /\ Rows)'
  BY ResultsStep, RowsStep
<1>5. QED
  BY <1>1, <1>2, <1>3, <1>4, TypedPhases, HandlersInvariant, PTL DEF Spec

\* The provider times of a row come from a lookup of the CID it measured, of this
\* download or an earlier one.
THEOREM FoundIsOfSameCID == Spec => []FoundOfSameCID
<1>1. Founds => FoundOfSameCID
  BY DEF Founds
<1>2. QED
  BY <1>1, FoundsInvariant, PTL

\* Two downloads of a run never pick the same CID.
DistinctDownloads ==
    \A i, j \in 1..Current :
        ops[i] = ops[j] /\ ops[i].kind = "download" => i = j

\* As long as no CID is downloaded twice, the provider times of a row are those
\* of its own lookup: a repeated CID is the only way to another's.
THEOREM FoundIsOwnUnlessRepeated == Spec => [](DistinctDownloads => FoundIsOwn)
<1>1. ASSUME TypeOK, Rows, Founds, DistinctDownloads
      PROVE  FoundIsOwn
  <2> SUFFICES ASSUME NEW i \in 1..Len(rows), rows[i].found # NoSpan
               PROVE  rows[i].found.op = rows[i].op
    BY DEF FoundIsOwn
  <2>1. /\ Current \in Nat /\ Len(rows) \in Nat /\ Len(rows) <= Current
        /\ rows[i].op = i
    BY <1>1, CurrentNat DEF TypeOK, Rows, OneRowPerMeasurement
  <2>2. rows[i].found.op \in 1..i /\ ops[rows[i].found.op] = ops[i]
    BY <1>1 DEF Founds, FoundOfSameCID
  <2>3. ops[i].kind = "download"
    BY <1>1, <2>1 DEF Founds, FoundOfSameCID, Rows, OneRowPerMeasurement
  <2>4. QED
    BY <1>1, <2>1, <2>2, <2>3 DEF DistinctDownloads
<1>2. QED
  BY <1>1, TypeCorrect, RowsInvariant, FoundsInvariant, PTL

-----------------------------------------------------------------------------
(* Cold downloads.                                                         *)

\* From a reset to the end of the next download's cat, Kubo's store holds
\* nothing that the reset did not fail to remove; uploads do not add to it.
Cold ==
    /\ pc \in {"wait", "hash", "select", "subscribe", "call"} =>
          repo \subseteq leftover
    /\ pc \in {"collect", "clear", "drain", "insert"} /\ Kind = "upload" =>
          repo \subseteq leftover

LEMMA ColdMain ==
    ASSUME TypeOK, Phases, Cold, MainStep
    PROVE  Cold'
<1> USE DEF Cold, Goto, Unwind, loopVars, opVars, envVars
<1>1. CASE Available \/ CheckNode \/ Wait \/ Sleep
  BY <1>1 DEF Available, CheckNode, Wait, Sleep
<1>2. CASE PurgeAtStart \/ PurgeAfterDownload
  BY <1>2 DEF PurgeAtStart, PurgeAfterDownload, Purge, NextDownload,
              NextIteration
<1>3. CASE HashReturns \/ HashFails \/ SelectCID
  BY <1>3 DEF HashReturns, HashFails, SelectCID
<1>4. CASE StartMeasurement
  BY <1>4 DEF StartMeasurement
<1>5. CASE AddReturns
  BY <1>5 DEF AddReturns
<1>6. CASE CatReturns
  <2>1. Kind = "download" /\ Kind' = Kind /\ pc' = "collect"
    BY <1>6 DEF CatReturns, Kind, Current
  <2>2. QED
    BY <2>1
<1>7. CASE Collect \/ ResetMatchers \/ EndDrain
  BY <1>7 DEF Collect, ResetMatchers, EndDrain, Kind, Current
<1>8. CASE Insert
  <2>1. pc = "insert" /\ UNCHANGED <<repo, leftover>> /\ Kind \in {"upload", "download"}
    BY <1>8, KindOfCurrent DEF Insert, Phases, Measuring
  <2>2. /\ Kind = "upload" => pc' \in {"sleep", "purge", "select", "closeDB"}
        /\ Kind = "download" => pc' \in {"purgeAfter", "closeDB"}
    BY <1>8, <2>1 DEF Insert, NextIteration
  <2>3. QED
    BY <2>1, <2>2
<1>9. CASE CloseDB \/ ShutdownReceiver
  BY <1>9 DEF CloseDB, ShutdownReceiver
<1>10. QED
  BY <1>1, <1>2, <1>3, <1>4, <1>5, <1>6, <1>7, <1>8, <1>9 DEF MainStep

\* No download is asked of Kubo while its CID is in the store, unless the last
\* reset failed to remove it.
THEOREM DownloadsAreCold == Spec => []ColdDownload
<1>1. Init => Cold
  BY DEF Init, Cold
<1>2. ASSUME TypeOK, Phases, Cold, [Next]_vars
      PROVE  Cold'
  <2>1. CASE MainStep
    BY <1>2, <2>1, ColdMain
  <2>2. CASE ~MainStep
    BY <1>2, <2>2, OtherSteps DEF Cold, Kind, Current
  <2>3. QED
    BY <2>1, <2>2
<1>3. Cold => ColdDownload
  BY DEF Cold, ColdDownload
<1>4. QED
  BY <1>1, <1>2, <1>3, TypedPhases, PTL DEF Spec

-----------------------------------------------------------------------------
(* A failed add.                                                           *)

\* The measurement of an upload whose add has failed, collecting its traces.
FailedAdd == pc = "collect" /\ Kind = "upload" /\ callErr

\* Upload has stopped its timer by then.
Untimed == FailedAdd => ~timer

LEMMA UntimedMain ==
    ASSUME TypeOK, MainStep
    PROVE  Untimed'
<1> USE DEF Untimed, FailedAdd, Goto, Unwind, loopVars, opVars
<1>1. CASE AddReturns
  <2>1. PICK failed \in BOOLEAN : callErr' = failed /\ timer' = ~failed
    BY <1>1 DEF AddReturns
  <2>2. CASE failed
    BY <2>1, <2>2, Zenon
  <2>3. CASE ~failed
    BY <2>1, <2>3, Zenon
  <2>4. QED
    BY <2>2, <2>3
<1>2. CASE CatReturns
  <2>1. Kind = "download" /\ Kind' = Kind
    BY <1>2 DEF CatReturns, Kind, Current
  <2>2. QED
    BY <2>1
<1>3. CASE ~AddReturns /\ ~CatReturns
  <2>1. pc' # "collect"
    BY <1>3 DEF MainStep, Available, CheckNode, PurgeAtStart, Wait, HashReturns,
       HashFails, StartMeasurement, Collect, ResetMatchers, EndDrain, Insert,
       PurgeAfterDownload, SelectCID, Sleep, CloseDB, ShutdownReceiver,
       NextDownload, NextIteration
  <2>2. QED
    BY <2>1
<1>4. QED
  BY <1>1, <1>2, <1>3

LEMMA UntimedInvariant == Spec => []Untimed
<1>1. Init => Untimed
  BY DEF Init, Untimed, FailedAdd
<1>2. ASSUME TypeOK, Untimed, [Next]_vars
      PROVE  Untimed'
  <2>1. CASE MainStep
    BY <1>2, <2>1, UntimedMain
  <2>2. CASE ~MainStep
    BY <1>2, <2>2, OtherSteps DEF Untimed, FailedAdd, Kind, Current
  <2>3. QED
    BY <2>1, <2>2
<1>3. QED
  BY <1>1, <1>2, TypeCorrect, PTL DEF Spec

\* After a failed add the parser has nothing to time it out: as long as the run
\* is not cancelled, nothing but complete traces of the upload ends its
\* measurement (the comment at kubo.go:239 promises the next iteration).
THEOREM FailedAddWaits ==
    Spec => [][FailedAdd /\ parser = "run" /\ ~cancelled =>
                  FailedAdd' /\ parser' \in {"run", "populated"}]_vars
<1>1. ASSUME Untimed, [Next]_vars, FailedAdd, parser = "run", ~cancelled
      PROVE  FailedAdd' /\ parser' \in {"run", "populated"}
  <2>1. ~MainStep
    BY <1>1 DEF FailedAdd, MainStep, Available, CheckNode, PurgeAtStart, Wait,
       HashReturns, HashFails, StartMeasurement, AddReturns, CatReturns, Collect,
       ResetMatchers, EndDrain, Insert, PurgeAfterDownload, SelectCID, Sleep,
       CloseDB, ShutdownReceiver
  <2>2. FailedAdd'
    BY <1>1, <2>1, OtherSteps DEF FailedAdd, Kind, Current
  <2>3. ~ParserTimesOut /\ ~ParserCancelled
    BY <1>1 DEF Untimed, FailedAdd, ParserTimesOut, ParserCancelled
  <2>4. ASSUME NEW h \in Exports, ParserReceives(h)
        PROVE  parser' \in {"run", "populated"}
    BY <2>4 DEF ParserReceives
  <2>5. ASSUME NEW h \in Exports, Drain(h) \/ KuboExports(h) \/ HandlerStep(h)
        PROVE  parser' = parser
    BY <2>5 DEF Drain, KuboExports, HandlerStep, opVars
  <2>6. DownloadExpires \/ Cancel \/ UNCHANGED vars => parser' = parser
    BY DEF DownloadExpires, Cancel, opVars, vars
  <2>7. QED
    BY <1>1, <2>1, <2>2, <2>3, <2>4, <2>5, <2>6 DEF Next, Environment, Terminated
<1>2. QED
  BY <1>1, UntimedInvariant, PTL DEF Spec

-----------------------------------------------------------------------------
(* The cycle of measurements.                                              *)

\* The run is a cycle of measurements: each one ends before its row goes to the
\* database client, the next begins after that, and the client is closed last.
THEOREM KuboCycles == Spec => CycleSpec
<1> USE DEF Cycle!cycleVars, CyclePhase, CycleDB
<1>1. Init => Cycle!CycleInit
  BY DEF Init, Cycle!CycleInit
<1>2. ASSUME [Next]_vars
      PROVE  [Cycle!CycleNext]_(Cycle!cycleVars)
  <2> USE DEF Goto, Unwind
  <2>1. CASE Available \/ CheckNode \/ PurgeAtStart \/ Wait \/ Sleep
    <3>1. UNCHANGED Cycle!cycleVars \/ Cycle!Stop
      BY <2>1 DEF Available, CheckNode, PurgeAtStart, Wait, Sleep, Cycle!Stop
    <3>2. QED
      BY <3>1 DEF Cycle!CycleNext
  <2>2. CASE HashReturns \/ HashFails \/ SelectCID
    <3>1. UNCHANGED Cycle!cycleVars \/ Cycle!Stop
      BY <2>2 DEF HashReturns, HashFails, SelectCID, Cycle!Stop
    <3>2. QED
      BY <3>1 DEF Cycle!CycleNext
  <2>3. CASE PurgeAfterDownload
    BY <2>3 DEF PurgeAfterDownload, NextDownload, NextIteration
  <2>4. CASE StartMeasurement
    <3>1. Cycle!Begin
      BY <2>4 DEF StartMeasurement, Cycle!Begin
    <3>2. QED
      BY <3>1 DEF Cycle!CycleNext
  <2>5. CASE AddReturns \/ CatReturns \/ Collect \/ ResetMatchers
    BY <2>5 DEF AddReturns, CatReturns, Collect, ResetMatchers
  <2>6. CASE EndDrain
    <3>1. Cycle!End
      BY <2>6 DEF EndDrain, Cycle!End
    <3>2. QED
      BY <3>1 DEF Cycle!CycleNext
  <2>7. CASE Insert
    <3>1. Cycle!Record \/ Cycle!Stop
      BY <2>7 DEF Insert, NextIteration, Cycle!Record, Cycle!Stop
    <3>2. QED
      BY <3>1 DEF Cycle!CycleNext
  <2>8. CASE CloseDB
    <3>1. Cycle!Close
      BY <2>8 DEF CloseDB, Cycle!Close
    <3>2. QED
      BY <3>1 DEF Cycle!CycleNext
  <2>9. CASE ShutdownReceiver
    BY <2>9 DEF ShutdownReceiver
  <2>10. ASSUME UNCHANGED pc
         PROVE  UNCHANGED Cycle!cycleVars
    BY <2>10
  <2>11. CASE ParserTimesOut \/ ParserCancelled \/ Environment
    BY <2>10, <2>11 DEF ParserTimesOut, ParserCancelled, ParserEnds,
                        Environment, DownloadExpires, Cancel
  <2>12. ASSUME NEW h \in Exports,
                Drain(h) \/ ParserReceives(h) \/ KuboExports(h) \/ HandlerStep(h)
         PROVE  UNCHANGED Cycle!cycleVars
    BY <2>10, <2>12 DEF Drain, ParserReceives, KuboExports, HandlerStep
  <2>13. CASE UNCHANGED vars
    BY <2>10, <2>13 DEF vars
  <2>14. QED
    BY <1>2, <2>1, <2>2, <2>3, <2>4, <2>5, <2>6, <2>7, <2>8, <2>9, <2>11, <2>12,
       <2>13 DEF Next, MainStep, Terminated
<1>3. QED
  BY <1>1, <1>2, PTL DEF Spec, CycleSpec, Cycle!CycleSpec
=============================================================================
