------------------------------ MODULE KuboProbe ------------------------------
(***************************************************************************)
(* `tiros probe kubo`: the measurement loop of cmd/tiros/cmd_probe_kubo.go *)
(* with the uploads, downloads and resets of pkg/kubo, composed with the   *)
(* trace receiver they share.                                              *)
(*                                                                         *)
(* Four kinds of actors interleave: the measurement goroutine (pc), the    *)
(* parser goroutine of the running measurement, the Export handlers of     *)
(* TraceReceiver, and the environment: Kubo, the timers, the operator who  *)
(* cancels the run.  Kubo's traces are sets of spans named after the       *)
(* measurement that caused them, so that every field of a result can be    *)
(* traced back to where it came from.  A batch may arrive late, twice, out *)
(* of order or never: the exporter retries a call that timed out while its *)
(* handler is still alive.                                                 *)
(***************************************************************************)
EXTENDS TraceReceiver, Sequences

CONSTANTS
    CIDs,      \* what SelectCID can return for a download
    FreshCID,  \* the root CID of an upload's random data, unique to the upload
    NoCID,     \* cid.Undef
    Mode,      \* "upload" (UploadOnly), "download" (DownloadOnly) or "both"
    MaxIter    \* MaxIterations, 0 for an endless run

UploadSpans == {"hash", "add", "provide", "provideErr"}
DownloadSpans == {"cmds", "findprov"}
Span == [kind : UploadSpans \cup DownloadSpans, op : Nat \ {0}, trace : Nat]
NoSpan == [kind |-> "none", op |-> 0, trace |-> 0]

\* The spans of a measurement carry its trace ID, but for the ones of the
\* only-hash add of GetCID, which is sent before the measurement's trace
\* starts (kubo.go:167 and :180).
ASSUME KuboAssumption ==
    /\ Requests \subseteq SUBSET Span
    /\ {} \notin Requests
    /\ \A req \in Requests : \A s \in req :
          s.trace = IF s.kind = "hash" THEN 0 ELSE s.op
    /\ FreshCID \notin CIDs
    /\ NoCID \notin CIDs \cup {FreshCID}
    /\ Mode \in {"upload", "download", "both"}
    /\ MaxIter \in Nat

VARIABLES
    pc,         \* where the measurement goroutine is
    iter,       \* i, the iterations completed
    origin,     \* the downloads completed in this iteration, of the two
    ops,        \* the measurements started so far, the running one last
    parser,     \* the parser goroutine, with its outcome once it has ended
    timer,      \* parseTimeout is armed
    expired,    \* the context of the running download is done
    callErr,    \* the add or cat of the running measurement failed
    res,        \* the UploadResult or DownloadResult being filled
    rows,       \* the rows inserted into the database
    repo,       \* the download CIDs in Kubo's block store
    leftover,   \* what the last Kubo.Reset could not remove from it
    cancelled,  \* the root context is cancelled
    outcome     \* how probeKuboAction ends

loopVars == <<iter, origin>>
opVars == <<ops, parser, timer, expired, callErr, res>>
envVars == <<repo, leftover, cancelled>>
vars == <<recvVars, pc, loopVars, opVars, rows, envVars, outcome>>

Origins == 2                     \* {"bitswap", "dht"}

Current == Len(ops)              \* the running measurement, its trace ID too
Kind == ops[Current].kind
InFlight == pc \in {"call", "collect"}

PCs == {"avail", "version", "purge", "wait", "hash", "subscribe", "call",
        "collect", "clear", "drain", "insert", "select", "purgeAfter",
        "sleep", "closeDB", "closeShutdown", "closeChan", "stopServer",
        "stopped"}
Parsers == {"off", "run", "populated", "timeout", "cancelled"}
RowErrors == {"none", "add", "cat", "timeout", "cancelled", "provide"}
Op == [kind : {"upload"}, cid : {FreshCID, NoCID}]
      \cup [kind : {"download"}, cid : CIDs \cup {NoCID}]
SpanOrNone == Span \cup {NoSpan}
Result == [add : SpanOrNone, prov : SpanOrNone, provErr : BOOLEAN,
           cmds : BOOLEAN, found : SpanOrNone]
Row == [kind : {"upload", "download"}, op : Nat \ {0}, err : RowErrors,
        add : SpanOrNone, prov : SpanOrNone, found : SpanOrNone]

NoResult == [add |-> NoSpan, prov |-> NoSpan, provErr |-> FALSE,
             cmds |-> FALSE, found |-> NoSpan]

TypeOK ==
    /\ RecvTypeOK
    /\ pc \in PCs
    /\ iter \in Nat
    /\ origin \in 0..(Origins - 1)
    /\ ops \in Seq(Op)
    /\ parser \in Parsers
    /\ timer \in BOOLEAN
    /\ expired \in BOOLEAN
    /\ callErr \in BOOLEAN
    /\ res \in Result
    /\ rows \in Seq(Row)
    /\ repo \in SUBSET CIDs
    /\ leftover \in SUBSET CIDs
    /\ cancelled \in BOOLEAN
    /\ outcome \in {"running", "ok", "error", "panic"}

Init ==
    /\ RecvInit
    /\ pc = "avail"
    /\ iter = 0
    /\ origin = 0
    /\ ops = <<>>
    /\ parser = "off"
    /\ timer = FALSE
    /\ expired = TRUE
    /\ callErr = FALSE
    /\ res = NoResult
    /\ rows = <<>>
    /\ repo \in SUBSET CIDs      \* whatever earlier runs left in Kubo
    /\ leftover = {}
    /\ cancelled = FALSE
    /\ outcome = "running"

-----------------------------------------------------------------------------
(* What the parsers read from a request.                                   *)

\* Kubo queues a span when it ends, so a batch lists the only-hash add of an
\* upload before its add, and a retried provide after the failed one.
EndsAfter(s, t) ==
    \/ s.op > t.op
    \/ s.op = t.op /\ (s.kind \in {"hash", "provideErr"} => t.kind = s.kind)
IsLast(s, S) == \A t \in S : EndsAfter(s, t)
LastOr(S, default) ==
    IF \E s \in S : IsLast(s, S) THEN CHOOSE s \in S : IsLast(s, S)
                                 ELSE default

\* parseUnixfsAdd: every CoreAPI.UnixfsAPI.Add span sets the times.
AddSpans(req) == {s \in req : s.kind \in {"hash", "add"}}

\* Mutant of ProvideSpans: the key of a provide is not compared.
ProvideSpansOfAnyKey(req, k) ==
    {s \in req : s.kind \in {"provide", "provideErr"}}

\* parseProvide: only announcements whose key is the root CID of upload k.
ProvideSpans(req, k) ==
    {s \in req : /\ s.kind \in {"provide", "provideErr"}
                 /\ s.op = k
                 /\ ops[k].cid = FreshCID}

ParseUpload(r, req, k) ==
    [r EXCEPT
        !.add = LastOr(AddSpans(req), @),
        !.prov = LastOr(ProvideSpans(req, k), @),
        !.provErr = @ \/ \E s \in ProvideSpans(req, k) : s.kind = "provideErr"]

\* Mutant of FindProvSpans: the CID of a lookup is not compared.
FindProvSpansOfAnyCID(req, k) ==
    {s \in req : s.kind = "findprov" /\ s.op \in 1..Current}

\* The FindProvidersAsync spans of a request are told apart by CID alone.
FindProvSpans(req, k) ==
    {s \in req : /\ s.kind = "findprov"
                 /\ s.op \in 1..Current
                 /\ ops[s.op].cid = ops[k].cid}

ParseDownload(r, req, k) ==
    [r EXCEPT
        !.cmds = @ \/ \E s \in req : s.kind = "cmds" /\ s.trace = k,
        !.found = LastOr(FindProvSpans(req, k), @)]

Parse(r, req) ==
    IF Kind = "upload" THEN ParseUpload(r, req, Current)
                       ELSE ParseDownload(r, req, Current)

\* Mutant of IsPopulated: an upload is complete once it is provided.
IsPopulatedByProvide(r) ==
    IF Kind = "upload" THEN r.prov # NoSpan ELSE r.cmds

IsPopulated(r) ==
    IF Kind = "upload" THEN r.add # NoSpan /\ r.prov # NoSpan ELSE r.cmds

-----------------------------------------------------------------------------
(* The measurement goroutine.                                              *)

Goto(l) == pc' = l /\ UNCHANGED outcome

\* probeKuboAction returns or panics: its deferred calls run.
Unwind(how) == pc' = "closeDB" /\ outcome' = how

\* WaitAvailable: on its own deadline it returns the error of the parent
\* context, which is nil unless the run was cancelled.
Available ==
    /\ pc = "avail"
    /\ \/ Goto("version")
       \/ cancelled /\ Unwind("error")
    /\ UNCHANGED <<recvVars, loopVars, opVars, rows, envVars>>

\* Version and ID.
CheckNode ==
    /\ pc = "version"
    /\ Goto("purge") \/ Unwind("error")
    /\ UNCHANGED <<recvVars, loopVars, opVars, rows, envVars>>

\* The loop header after iteration i.
NextIteration ==
    /\ iter' = iter + 1
    /\ origin' = 0
    /\ Goto(IF MaxIter # 0 /\ iter + 1 >= MaxIter THEN "sleep" ELSE "purge")

\* Mutant of NextDownload: one download too many.
NextDownloadOffByOne ==
    IF origin = Origins
    THEN NextIteration
    ELSE origin' = origin + 1 /\ Goto("select") /\ UNCHANGED iter

NextDownload ==
    IF origin + 1 = Origins
    THEN NextIteration
    ELSE origin' = origin + 1 /\ Goto("select") /\ UNCHANGED iter

\* Kubo.Reset unpins everything and collects garbage.  A failing call is
\* only logged, and what it could not remove stays in the store.
Purge ==
    /\ repo' \in SUBSET repo
    /\ leftover' = repo'
    /\ UNCHANGED <<recvVars, opVars, rows, cancelled>>

PurgeAtStart ==
    /\ pc = "purge"
    /\ Purge
    /\ Goto("wait")
    /\ UNCHANGED loopVars

\* Mutant of PurgeAfterDownload: no reset in between downloads.
NoPurgeAfterDownload ==
    /\ pc = "purgeAfter"
    /\ NextDownload
    /\ UNCHANGED <<recvVars, opVars, rows, envVars>>

PurgeAfterDownload ==
    /\ pc = "purgeAfter"
    /\ Purge
    /\ NextDownload

\* The select on the ticker and the root context.
Wait ==
    /\ pc = "wait"
    /\ \/ Goto(IF Mode = "download" THEN "select" ELSE "hash")
       \/ cancelled /\ Unwind("error")
    /\ UNCHANGED <<recvVars, loopVars, opVars, rows, envVars>>

StartOp(kind, c) == ops' = Append(ops, [kind |-> kind, cid |-> c])

\* GetCID asks Kubo for the root CID.  An error Kubo answers with is
\* swallowed and leaves the CID undefined.
HashReturns ==
    /\ pc = "hash"
    /\ StartOp("upload", FreshCID) \/ StartOp("upload", NoCID)
    /\ Goto("subscribe")
    /\ UNCHANGED <<recvVars, loopVars, parser, timer, expired, callErr, res,
                   rows, envVars>>

\* Mutant of HashFails: the failed upload is skipped without a row.
HashFailureIsSkipped ==
    /\ pc = "hash"
    /\ StartOp("upload", NoCID)
    /\ NextIteration
    /\ UNCHANGED <<recvVars, parser, timer, expired, callErr, res, rows, envVars>>

\* On every other error Upload returns a nil result, whose CID
\* probeKuboAction reads.
HashFails ==
    /\ pc = "hash"
    /\ StartOp("upload", NoCID)
    /\ Unwind("panic")
    /\ UNCHANGED <<recvVars, loopVars, parser, timer, expired, callErr, res,
                   rows, envVars>>

\* SelectCID; a provider that finds no row returns cid.Undef and no error.
SelectCID ==
    /\ pc = "select"
    /\ \/ /\ \E c \in CIDs \cup {NoCID} : StartOp("download", c)
          /\ Goto("subscribe")
       \/ Unwind("error") /\ UNCHANGED ops
    /\ UNCHANGED <<recvVars, loopVars, parser, timer, expired, callErr, res,
                   rows, envVars>>

\* Mutant of StartMeasurement: the matcher is not installed before the call.
StartUnsubscribed ==
    /\ pc = "subscribe"
    /\ parser' = "run"
    /\ timer' = TRUE
    /\ expired' = FALSE
    /\ callErr' = FALSE
    /\ res' = NoResult
    /\ Goto("call")
    /\ UNCHANGED <<recvVars, loopVars, ops, rows, envVars>>

\* Upload and Download up to the add or cat: the matcher is installed under
\* the receiver's lock, the parser goroutine and its timer are started.
StartMeasurement ==
    /\ pc = "subscribe"
    /\ Subscribe(Current)
    /\ parser' = "run"
    /\ timer' = TRUE
    /\ expired' = FALSE
    /\ callErr' = FALSE
    /\ res' = NoResult
    /\ Goto("call")
    /\ UNCHANGED <<loopVars, ops, rows, envVars>>

\* Upload after Add: a success leaves the traces 30 more seconds, an error
\* stops the timer.
AddReturns ==
    /\ pc = "call"
    /\ Kind = "upload"
    /\ \E failed \in BOOLEAN : callErr' = failed /\ timer' = ~failed
    /\ Goto("collect")
    /\ UNCHANGED <<recvVars, loopVars, ops, parser, expired, res, rows, envVars>>

\* Download after cat: a success leaves the traces 12 more seconds, an error
\* cancels the context the parser listens to.
CatReturns ==
    /\ pc = "call"
    /\ Kind = "download"
    /\ \/ /\ ops[Current].cid # NoCID
          /\ callErr' = FALSE
          /\ timer' = TRUE
          /\ UNCHANGED expired
          /\ repo' = repo \cup {ops[Current].cid}
       \/ /\ callErr' = TRUE
          /\ expired' = TRUE
          /\ UNCHANGED timer
          /\ repo' \in {repo, repo \cup ({ops[Current].cid} \ {NoCID})}
    /\ Goto("collect")
    /\ UNCHANGED <<recvVars, loopVars, ops, parser, res, rows, leftover,
                   cancelled>>

\* Mutant of Collect: the measurement does not wait for its parser.
CollectAtOnce ==
    /\ pc = "collect"
    /\ Goto("clear")
    /\ UNCHANGED <<recvVars, loopVars, opVars, rows, envVars>>

\* errg.Wait or <-done: the measurement waits for its parser.
Collect ==
    /\ pc = "collect"
    /\ parser # "run"
    /\ Goto("clear")
    /\ UNCHANGED <<recvVars, loopVars, opVars, rows, envVars>>

\* The deferred Receiver.Reset: first the matchers, under the lock ...
ResetMatchers ==
    /\ pc = "clear"
    /\ ClearMatchers
    /\ Goto("drain")
    /\ UNCHANGED <<loopVars, opVars, rows, envVars>>

\* ... then the requests of the handlers that are blocked right now.
Drain(h) ==
    /\ pc = "drain"
    /\ Deliver(h)
    /\ UNCHANGED <<pc, outcome, loopVars, opVars, rows, envVars>>

\* Mutant of EndDrain: a failed measurement gets no row.
EndDrainOfFailure ==
    /\ pc = "drain"
    /\ \A h \in Exports : hpc[h] # "sending"
    /\ Goto(IF callErr THEN "purgeAfter" ELSE "insert")
    /\ UNCHANGED <<recvVars, loopVars, opVars, rows, envVars>>

EndDrain ==
    /\ pc = "drain"
    /\ \A h \in Exports : hpc[h] # "sending"
    /\ Goto("insert")
    /\ UNCHANGED <<recvVars, loopVars, opVars, rows, envVars>>

\* The error column.  Download reports no error when its traces are missing.
RowError ==
    CASE callErr /\ Kind = "upload" -> "add"
      [] callErr /\ Kind = "download" -> "cat"
      [] ~callErr /\ Kind = "upload" /\ parser # "populated" -> parser
      [] ~callErr /\ Kind = "upload" /\ parser = "populated" /\ res.provErr
            -> "provide"
      [] OTHER -> "none"

RowOf == [kind |-> Kind, op |-> Current, err |-> RowError,
          add |-> res.add, prov |-> res.prov, found |-> res.found]

\* InsertUpload and InsertDownload; an error ends the run.
Insert ==
    /\ pc = "insert"
    /\ parser' = "off"
    /\ timer' = FALSE
    /\ expired' = TRUE
    /\ callErr' = FALSE
    /\ res' = NoResult
    /\ \/ /\ rows' = Append(rows, RowOf)
          /\ CASE Kind = "download" -> Goto("purgeAfter") /\ UNCHANGED loopVars
               [] Kind = "upload" /\ Mode = "upload" -> NextIteration
               [] OTHER -> Goto("select") /\ UNCHANGED loopVars
       \/ Unwind("error") /\ UNCHANGED <<rows, loopVars>>
    /\ UNCHANGED <<recvVars, ops, envVars>>

Sleep ==
    /\ pc = "sleep"
    /\ Unwind("ok")
    /\ UNCHANGED <<recvVars, loopVars, opVars, rows, envVars>>

\* The deferred dbClient.Close, then the three statements of tr.Shutdown.
CloseDB ==
    /\ pc = "closeDB"
    /\ Goto("closeShutdown")
    /\ UNCHANGED <<recvVars, loopVars, opVars, rows, envVars>>

\* Mutants of ShutdownReceiver: the channels are closed in the other order; no
\* channel is closed.
ShutdownChanFirst ==
    /\ \/ pc = "closeShutdown" /\ CloseChan /\ Goto("closeChan")
       \/ pc = "closeChan" /\ CloseShutdown /\ Goto("stopServer")
       \/ pc = "stopServer" /\ StopServer /\ Goto("stopped")
    /\ UNCHANGED <<loopVars, opVars, rows, envVars>>
ShutdownServerOnly ==
    /\ pc = "closeShutdown" /\ StopServer /\ Goto("stopped")
    /\ UNCHANGED <<loopVars, opVars, rows, envVars>>

ShutdownReceiver ==
    /\ \/ pc = "closeShutdown" /\ CloseShutdown /\ Goto("closeChan")
       \/ pc = "closeChan" /\ CloseChan /\ Goto("stopServer")
       \/ pc = "stopServer" /\ StopServer /\ Goto("stopped")
    /\ UNCHANGED <<loopVars, opVars, rows, envVars>>

-----------------------------------------------------------------------------
(* The parser goroutine.                                                   *)

ParserReceives(h) ==
    /\ parser = "run"
    /\ Deliver(h)
    /\ res' = Parse(res, hreq[h])
    /\ parser' = IF IsPopulated(Parse(res, hreq[h])) THEN "populated" ELSE "run"
    /\ UNCHANGED <<pc, outcome, loopVars, ops, timer, expired, callErr, rows,
                   envVars>>

\* Mutant of ParserEnds: a download's parser only receives, it watches neither
\* its timer nor its context.
ParserOnlyReceives(how) ==
    /\ parser = "run"
    /\ Kind = "upload"
    /\ parser' = how
    /\ UNCHANGED <<recvVars, pc, outcome, loopVars, ops, timer, expired, callErr,
                   res, rows, envVars>>

ParserEnds(how) ==
    /\ parser = "run"
    /\ parser' = how
    /\ UNCHANGED <<recvVars, pc, outcome, loopVars, ops, timer, expired, callErr,
                   res, rows, envVars>>

ParserTimesOut == timer /\ ParserEnds("timeout")

\* Mutant of ParserCancelled: an upload's parser does not listen to the root
\* context.
ParserCancelledInDownload ==
    /\ parser = "run"
    /\ Kind = "download"
    /\ cancelled \/ expired
    /\ ParserEnds("cancelled")

\* An upload's parser listens to the root context, a download's to the
\* context of the download.
ParserCancelled ==
    /\ parser = "run"
    /\ cancelled \/ (expired /\ Kind = "download")
    /\ ParserEnds("cancelled")

-----------------------------------------------------------------------------
(* The environment.                                                        *)

\* Kubo may export a span once it was sent the call that causes it.
Emitted(s) ==
    /\ s.op <= Current
    /\ s.kind \in IF ops[s.op].kind = "upload" THEN UploadSpans
                                                ELSE DownloadSpans
    /\ s.op = Current /\ pc = "subscribe" => s.kind = "hash"

KuboExports(h) ==
    /\ \E req \in Requests : (\A s \in req : Emitted(s)) /\ ExportCall(h, req)
    /\ UNCHANGED <<pc, outcome, loopVars, opVars, rows, envVars>>

HandlerStep(h) ==
    /\ ReadMatchers(h) \/ MatchSpans(h)
    /\ UNCHANGED <<pc, outcome, loopVars, opVars, rows, envVars>>

\* The 45 seconds of a download are over.
DownloadExpires ==
    /\ InFlight
    /\ Kind = "download"
    /\ ~expired
    /\ expired' = TRUE
    /\ UNCHANGED <<recvVars, pc, outcome, loopVars, ops, parser, timer, callErr,
                   res, rows, envVars>>

\* The operator stops the run, or the gRPC server fails and cancels it.
Cancel ==
    /\ pc # "stopped"
    /\ ~cancelled
    /\ cancelled' = TRUE
    /\ \/ UNCHANGED serving
       \/ serving' = FALSE
    /\ UNCHANGED <<matchers, hpc, hreq, hsnap, shutdown, chanClosed, pc, outcome,
                   loopVars, opVars, rows, repo, leftover>>

-----------------------------------------------------------------------------

MainStep ==
    \/ Available
    \/ CheckNode
    \/ PurgeAtStart
    \/ Wait
    \/ HashReturns
    \/ HashFails
    \/ StartMeasurement
    \/ AddReturns
    \/ CatReturns
    \/ Collect
    \/ ResetMatchers
    \/ EndDrain
    \/ Insert
    \/ PurgeAfterDownload
    \/ SelectCID
    \/ Sleep
    \/ CloseDB
    \/ ShutdownReceiver

Environment ==
    \/ DownloadExpires
    \/ Cancel

\* The process has ended.
Terminated == pc = "stopped" /\ UNCHANGED vars

Next ==
    \/ MainStep
    \/ ParserTimesOut
    \/ ParserCancelled
    \/ \E h \in Exports :
          \/ Drain(h)
          \/ ParserReceives(h)
          \/ KuboExports(h)
          \/ HandlerStep(h)
    \/ Environment
    \/ Terminated

Spec == Init /\ [][Next]_vars

\* Every call of the measurement goroutine has a deadline or answers, the
\* runtime schedules every goroutine, timers fire, and a channel serves its
\* blocked senders in order.  Kubo owes nothing: it may never export.
Fairness ==
    /\ WF_vars(MainStep)
    /\ WF_vars(ParserTimesOut)
    /\ WF_vars(ParserCancelled)
    /\ WF_vars(DownloadExpires)
    /\ \A h \in Exports : /\ WF_vars(HandlerStep(h))
                          /\ WF_vars(ParserReceives(h))
                          /\ WF_vars(Drain(h))

FairSpec == Spec /\ Fairness

-----------------------------------------------------------------------------
(* Properties.                                                             *)

\* Between two measurements nobody listens: no parser goroutine is alive and
\* the receiver has no matcher, so traces Kubo sends while it is being reset
\* are not queued; during a measurement the only matcher is its own trace.
\* (Upload and Download defer Receiver.Reset and wait for their parser.)
QuietOutsideMeasurements ==
    /\ parser = "run" => InFlight
    /\ matchers = IF InFlight \/ pc = "clear" THEN {Current} ELSE {}

\* While a measurement is in flight no handler gives up a request that
\* carries a span of its trace: the matcher is installed before Kubo hears
\* of the measurement ("so that we won't miss any trace data", kubo.go:184).
NoMissedTrace ==
    [][InFlight =>
         \A h \in Exports :
            /\ hpc[h] \in {"arrived", "matching"}
            /\ hpc'[h] = "idle"
            => \A s \in hreq[h] : s.trace # Current]_vars

\* The provide of an upload is one of its own, although late requests of earlier
\* measurements reach its parser: it is told apart by the root CID.
ProvideIsOwn ==
    \A i \in 1..Len(rows) :
        rows[i].prov # NoSpan => rows[i].prov.op = rows[i].op

\* An upload is recorded as a success only with both of its spans, and only
\* if Kubo announced the CID: a row without an error has all durations.
SuccessIsComplete ==
    \A i \in 1..Len(rows) :
        rows[i].kind = "upload" /\ rows[i].err = "none" =>
            /\ rows[i].add # NoSpan
            /\ rows[i].prov # NoSpan
            /\ rows[i].prov.kind = "provide"

\* Each measurement is recorded exactly once, in the order they were started,
\* and no measurement starts before the one before it is recorded.
OneRowPerMeasurement ==
    /\ Len(rows) \in {Current - 1, Current}
    /\ \A i \in 1..Len(rows) : rows[i].op = i /\ rows[i].kind = ops[i].kind

Uploads == IF Mode = "download" THEN 0 ELSE 1
Downloads == IF Mode = "upload" THEN 0 ELSE Origins
PerIteration == Uploads + Downloads
Planned(i) == IF (i - 1) % PerIteration < Uploads THEN "upload" ELSE "download"

\* The rows are those of whole iterations, each an upload (unless only downloads
\* are asked for) and then the downloads; and a run that ends well has measured
\* "the number of iterations to run" (README.md:313) and no more.
RunsAsPlanned ==
    /\ \A i \in 1..Len(rows) : rows[i].kind = Planned(i)
    /\ outcome = "ok" => Len(rows) = MaxIter * PerIteration

\* The provider times of a download come from a lookup of its own CID, by this
\* download or an earlier one: parseFindProvidersAsync compares nothing else.
FoundOfSameCID ==
    \A i \in 1..Len(rows) :
        rows[i].found # NoSpan =>
            /\ rows[i].kind = "download"
            /\ rows[i].found.op \in 1..i
            /\ ops[rows[i].found.op] = ops[i]

\* A download never measures Kubo's own block store: the CID is not in the
\* store when the cat is sent, even when both downloads pick the same CID,
\* unless the last Kubo.Reset failed to remove it.
ColdDownload ==
    (pc = "subscribe" /\ Kind = "download") =>
        (ops[Current].cid \in repo => ops[Current].cid \in leftover)

CyclePhase ==
    CASE pc \in {"call", "collect", "clear", "drain"}           -> "measuring"
      [] pc = "insert"                                          -> "measured"
      [] pc \in {"closeDB", "closeShutdown", "closeChan",
                 "stopServer", "stopped"}                       -> "stopped"
      [] OTHER                                                  -> "between"
CycleDB ==
    IF CyclePhase = "stopped" /\ pc # "closeDB" THEN "closed" ELSE "open"

\* The run is a cycle of measurements: each one has been collected, and the
\* receiver reset, before its row is inserted; the next begins only then; and
\* the receiver is shut down after the database client.
Cycle == INSTANCE MeasurementCycle WITH phase <- CyclePhase, db <- CycleDB
CycleSpec == Cycle!CycleSpec

\* Every Export call returns: a handler blocked in the send is taken by the
\* parser, by the drain, by a later measurement or by the shutdown.
ExportReturns ==
    \A h \in Exports : hpc[h] # "idle" ~> hpc[h] \in {"idle", "panicked"}

\* A cancelled run stops, wherever the cancellation finds it.
CancelStops == cancelled ~> pc = "stopped"

\* A download always ends with its row or the end of the run, also when its
\* traces never arrive.
DownloadEnds == (pc = "collect" /\ Kind = "download") ~> pc = "clear"

\* kubo.go:239: "if an error occurred, log it and continue with the next
\* iteration".
FailedAddContinues ==
    (pc = "collect" /\ Kind = "upload" /\ callErr) ~> pc # "collect"

\* README.md:193: "the traces are then captured and parsed. Irrelevant traces
\* are discarded": the provider times of a download come from its own lookup.
FoundIsOwn ==
    \A i \in 1..Len(rows) :
        rows[i].found # NoSpan => rows[i].found.op = rows[i].op
=============================================================================
