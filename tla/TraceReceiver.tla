---------------------------- MODULE TraceReceiver ----------------------------
(***************************************************************************)
(* The OTLP trace receiver of pkg/kubo/trace_receiver.go.                  *)
(*                                                                         *)
(* Kubo exports its spans to a gRPC server inside Tiros.  Every Export     *)
(* call runs in a goroutine of its own: it snapshots the matchers under    *)
(* the read lock, looks for a matching span after the unlock, and hands    *)
(* the whole request to the measurement over an unbuffered channel.  The   *)
(* call's context is ignored: a handler blocked in the send leaves it only *)
(* when somebody receives or the receiver is shut down.                    *)
(*                                                                         *)
(* A request is a set of spans, a matcher is the trace ID it looks for,    *)
(* trace 0 stands for every trace nobody subscribes to.  Writing the       *)
(* request to a file and forwarding it (lines 144-167) touch no state the  *)
(* rest of the program reads and are left out.                             *)
(***************************************************************************)
EXTENDS Naturals

CONSTANTS
    Exports,    \* the gRPC handler goroutines that can be alive at a time
    Requests    \* the export requests Kubo can send: sets of spans

\* Every span carries the trace ID it belongs to.
ASSUME RequestsAssumption ==
    \A req \in Requests : \A s \in req : s.trace \in Nat

VARIABLES
    matchers,    \* TraceReceiver.traceMatchers, as the set of trace IDs
    hpc,         \* where each Export handler is
    hreq,        \* the request each handler serves
    hsnap,       \* the matchers each handler read before the unlock
    shutdown,    \* the channel TraceReceiver.shutdown is closed
    chanClosed,  \* the channel TraceReceiver.traceMatchChan is closed
    serving      \* the gRPC server accepts calls

recvVars == <<matchers, hpc, hreq, hsnap, shutdown, chanClosed, serving>>

HandlerStates == {"idle", "arrived", "matching", "sending", "panicked"}

RecvTypeOK ==
    /\ matchers \in SUBSET Nat
    /\ hpc \in [Exports -> HandlerStates]
    /\ hreq \in [Exports -> Requests \cup {{}}]
    /\ hsnap \in [Exports -> SUBSET Nat]
    /\ shutdown \in BOOLEAN
    /\ chanClosed \in BOOLEAN
    /\ serving \in BOOLEAN

RecvInit ==
    /\ matchers = {}
    /\ hpc = [h \in Exports |-> "idle"]
    /\ hreq = [h \in Exports |-> {}]
    /\ hsnap = [h \in Exports |-> {}]
    /\ shutdown = FALSE
    /\ chanClosed = FALSE
    /\ serving = TRUE

-----------------------------------------------------------------------------
(* The Export handler.                                                     *)

Matches(req, traces) == \E s \in req : s.trace \in traces

\* Handler h returns its response: its goroutine and locals are gone.
Return(h) ==
    /\ hpc' = [hpc EXCEPT ![h] = "idle"]
    /\ hreq' = [hreq EXCEPT ![h] = {}]
    /\ hsnap' = [hsnap EXCEPT ![h] = {}]

ExportCall(h, req) ==
    /\ serving
    /\ hpc[h] = "idle"
    /\ hpc' = [hpc EXCEPT ![h] = "arrived"]
    /\ hreq' = [hreq EXCEPT ![h] = req]
    /\ UNCHANGED <<matchers, hsnap, shutdown, chanClosed, serving>>

\* The snapshot under the read lock; with no matcher the call returns.
ReadMatchers(h) ==
    /\ hpc[h] = "arrived"
    /\ \/ /\ matchers = {}
          /\ Return(h)
       \/ /\ matchers # {}
          /\ hpc' = [hpc EXCEPT ![h] = "matching"]
          /\ hsnap' = [hsnap EXCEPT ![h] = matchers]
          /\ UNCHANGED hreq
    /\ UNCHANGED <<matchers, shutdown, chanClosed, serving>>

\* The matching loop up to the select.  A select whose send case names a
\* closed channel panics; with both channels closed it takes either case.
MatchSpans(h) ==
    /\ hpc[h] = "matching"
    /\ \/ /\ ~Matches(hreq[h], hsnap[h]) \/ shutdown
          /\ Return(h)
       \/ /\ Matches(hreq[h], hsnap[h])
          /\ ~shutdown
          /\ ~chanClosed
          /\ hpc' = [hpc EXCEPT ![h] = "sending"]
          /\ UNCHANGED <<hreq, hsnap>>
       \/ /\ Matches(hreq[h], hsnap[h])
          /\ chanClosed
          /\ hpc' = [hpc EXCEPT ![h] = "panicked"]
          /\ UNCHANGED <<hreq, hsnap>>
    /\ UNCHANGED <<matchers, shutdown, chanClosed, serving>>

\* A receive from traceMatchChan takes the request of a blocked handler,
\* which returns.
Deliver(h) ==
    /\ hpc[h] = "sending"
    /\ Return(h)
    /\ UNCHANGED <<matchers, shutdown, chanClosed, serving>>

-----------------------------------------------------------------------------
(* What the measurement goroutine does to the receiver.                    *)

SetMatchers(traces) ==
    /\ matchers' = traces
    /\ UNCHANGED <<hpc, hreq, hsnap, shutdown, chanClosed, serving>>

\* Upload and Download install the one matcher of their own trace ID.
Subscribe(t) == SetMatchers({t})

\* The locked part of Reset; the drain after it is a series of Deliver.
ClearMatchers == SetMatchers({})

\* close(tr.shutdown) wakes every handler blocked in the select.
CloseShutdown ==
    /\ shutdown' = TRUE
    /\ hpc' = [h \in Exports |-> IF hpc[h] = "sending" THEN "idle" ELSE hpc[h]]
    /\ hreq' = [h \in Exports |-> IF hpc[h] = "sending" THEN {} ELSE hreq[h]]
    /\ hsnap' = [h \in Exports |-> IF hpc[h] = "sending" THEN {} ELSE hsnap[h]]
    /\ UNCHANGED <<matchers, chanClosed, serving>>

\* close(tr.traceMatchChan) panics every handler still blocked in the send.
CloseChan ==
    /\ chanClosed' = TRUE
    /\ hpc' = [h \in Exports |->
                 IF hpc[h] = "sending" THEN "panicked" ELSE hpc[h]]
    /\ UNCHANGED <<matchers, hreq, hsnap, shutdown, serving>>

StopServer ==
    /\ serving' = FALSE
    /\ UNCHANGED <<matchers, hpc, hreq, hsnap, shutdown, chanClosed>>

\* Shutdown is three statements in this order, run once; the server may also
\* have failed before.
ShutdownSteps ==
    \/ ~shutdown /\ CloseShutdown
    \/ shutdown /\ ~chanClosed /\ CloseChan
    \/ serving /\ StopServer

-----------------------------------------------------------------------------
(* What the receiver promises to a client that subscribes to one trace at  *)
(* a time, receives and resets at will, and shuts the receiver down once.  *)

ExportStep(h) ==
    \/ \E req \in Requests : ExportCall(h, req)
    \/ ReadMatchers(h)
    \/ MatchSpans(h)

\* A subscription may be to any trace (but 0): the one installed is the only one.
ClientStep ==
    \/ ~shutdown /\ \E t \in matchers' \ {0} : t \in Nat /\ Subscribe(t)
    \/ ~shutdown /\ ClearMatchers
    \/ ~shutdown /\ \E h \in Exports : Deliver(h)
    \/ ShutdownSteps

RecvNext ==
    \/ \E h \in Exports : ExportStep(h)
    \/ ClientStep

\* The protocol of NewTraceReceiver's users: every step of a program around a
\* receiver is one of these or leaves the receiver alone.
RecvSpec == RecvInit /\ [][RecvNext]_recvVars

-----------------------------------------------------------------------------
(* Properties.                                                             *)

\* A handler that is blocked in its send when the receiver shuts down is
\* released by close(tr.shutdown): closing the request channel afterwards
\* does not panic it (Shutdown closes the two channels in this order).
BlockedExportSurvivesShutdown ==
    [][\A h \in Exports : hpc[h] = "sending" => hpc'[h] # "panicked"]_recvVars

\* No handler stays blocked, or becomes blocked, once shutdown is closed,
\* although Export ignores the context of its call: nobody receives after
\* Shutdown, so such a handler would never return.
NothingBlocksAfterShutdown ==
    shutdown => \A h \in Exports : hpc[h] # "sending"

\* The send on the closed channel can panic a handler only when the receiver is
\* shut down and no measurement runs any more, and only one that has read a
\* matcher: a call that arrives after the last Reset returns.
PanicsOnlyInShutdown ==
    \A h \in Exports :
        hpc[h] = "panicked" => shutdown /\ chanClosed /\ hsnap[h] # {}

\* A handler hands over the request only when a matcher it read asked for one
\* of its spans, however the matchers were changed between the unlock and the
\* send.
HandedOverWasAskedFor ==
    \A h \in Exports :
        hpc[h] = "sending" => \E s \in hreq[h] : s.trace \in hsnap[h] \ {0}
=============================================================================
