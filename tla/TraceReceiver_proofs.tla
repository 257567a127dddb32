------------------------- MODULE TraceReceiver_proofs -------------------------
(***************************************************************************)
(* What the receiver promises, proved of its protocol RecvSpec: for every  *)
(* set of handlers, every requests and every client that subscribes to one *)
(* trace at a time and shuts the receiver down once.                       *)
(***************************************************************************)
EXTENDS TraceReceiver, TLAPS

\* The inductive invariant: nobody subscribes to trace 0, the request channel is
\* closed last, and the handlers keep what the three properties say.
Receiver ==
    /\ RecvTypeOK
    /\ 0 \notin matchers
    /\ \A h \in Exports : 0 \notin hsnap[h]
    /\ \A h \in Exports : hpc[h] \in {"matching", "sending"} => hsnap[h] # {}
    /\ chanClosed => shutdown
    /\ NothingBlocksAfterShutdown
    /\ PanicsOnlyInShutdown
    /\ HandedOverWasAskedFor

LEMMA ReceiverInit == RecvInit => Receiver
BY DEF RecvInit, Receiver, RecvTypeOK, HandlerStates, NothingBlocksAfterShutdown,
       PanicsOnlyInShutdown, HandedOverWasAskedFor

\* The steps of the Export handlers.
LEMMA ExportKeepsReceiver ==
    ASSUME Receiver, NEW h \in Exports, ExportStep(h)
    PROVE  Receiver'
<1> USE DEF Receiver, RecvTypeOK, HandlerStates, NothingBlocksAfterShutdown,
            PanicsOnlyInShutdown, HandedOverWasAskedFor
<1>1. ASSUME NEW req \in Requests, ExportCall(h, req)
      PROVE  Receiver'
  BY <1>1 DEF ExportCall
<1>2. CASE ReadMatchers(h)
  BY <1>2 DEF ReadMatchers, Return
<1>3. CASE MatchSpans(h)
  <2>1. CASE Return(h)
    BY <1>3, <2>1 DEF MatchSpans, Return
  <2>2. CASE /\ Matches(hreq[h], hsnap[h]) /\ UNCHANGED <<hreq, hsnap>>
             /\ hpc' = [hpc EXCEPT ![h] = "sending"] /\ ~shutdown
    BY <1>3, <2>2 DEF MatchSpans, Matches
  <2>3. CASE /\ chanClosed /\ UNCHANGED <<hreq, hsnap>>
             /\ hpc' = [hpc EXCEPT ![h] = "panicked"]
    BY <1>3, <2>3 DEF MatchSpans
  <2>4. QED
    BY <1>3, <2>1, <2>2, <2>3 DEF MatchSpans
<1>4. QED
  BY <1>1, <1>2, <1>3 DEF ExportStep

\* The steps of the client.
LEMMA ClientKeepsReceiver ==
    ASSUME Receiver, ClientStep
    PROVE  Receiver'
<1> USE DEF Receiver, RecvTypeOK, HandlerStates, NothingBlocksAfterShutdown,
            PanicsOnlyInShutdown, HandedOverWasAskedFor
<1>1. ASSUME NEW t \in Nat \ {0}, Subscribe(t)
      PROVE  Receiver'
  BY <1>1 DEF Subscribe, SetMatchers
<1>2. CASE ClearMatchers
  BY <1>2 DEF ClearMatchers, SetMatchers
<1>3. ASSUME NEW h \in Exports, Deliver(h)
      PROVE  Receiver'
  BY <1>3 DEF Deliver, Return
<1>4. CASE ~shutdown /\ CloseShutdown
  BY <1>4 DEF CloseShutdown
<1>5. CASE shutdown /\ CloseChan
  BY <1>5 DEF CloseChan
<1>6. CASE StopServer
  BY <1>6 DEF StopServer
<1>7. QED
  BY <1>1, <1>2, <1>3, <1>4, <1>5, <1>6 DEF ClientStep, ShutdownSteps

LEMMA ReceiverInvariant == RecvSpec => []Receiver
<1>1. Receiver /\ [RecvNext]_recvVars => Receiver'
  <2>1. Receiver /\ RecvNext => Receiver'
    BY ExportKeepsReceiver, ClientKeepsReceiver DEF RecvNext
  <2>2. Receiver /\ UNCHANGED recvVars => Receiver'
    BY DEF recvVars, Receiver, RecvTypeOK, NothingBlocksAfterShutdown,
           PanicsOnlyInShutdown, HandedOverWasAskedFor
  <2>3. QED
    BY <2>1, <2>2
<1>2. QED
  BY <1>1, ReceiverInit, PTL DEF RecvSpec

\* The variables of a receiver keep their types.
THEOREM ReceiverTypes == RecvSpec => []RecvTypeOK
<1>1. Receiver => RecvTypeOK
  BY DEF Receiver
<1>2. QED
  BY <1>1, ReceiverInvariant, PTL

\* No handler is blocked in its send once shutdown is closed.
THEOREM ReceiverUnblocks == RecvSpec => []NothingBlocksAfterShutdown
<1>1. Receiver => NothingBlocksAfterShutdown
  BY DEF Receiver
<1>2. QED
  BY <1>1, ReceiverInvariant, PTL

\* A handler panics on the closed channel only once the receiver is shut down.
THEOREM ReceiverPanicsLate == RecvSpec => []PanicsOnlyInShutdown
<1>1. Receiver => PanicsOnlyInShutdown
  BY DEF Receiver
<1>2. QED
  BY <1>1, ReceiverInvariant, PTL

\* A handler hands over a request only for a span that a matcher asked for.
THEOREM ReceiverHandsOverMatches == RecvSpec => []HandedOverWasAskedFor
<1>1. Receiver => HandedOverWasAskedFor
  BY DEF Receiver
<1>2. QED
  BY <1>1, ReceiverInvariant, PTL

\* Closing the request channel panics no handler that was blocked in its send:
\* close(tr.shutdown) has released it.
THEOREM ReceiverSparesBlocked == RecvSpec => BlockedExportSurvivesShutdown
<1>1. Receiver /\ [RecvNext]_recvVars =>
          [\A h \in Exports : hpc[h] = "sending" => hpc'[h] # "panicked"]_recvVars
  <2> SUFFICES ASSUME Receiver, RecvNext, NEW h \in Exports, hpc[h] = "sending"
               PROVE  hpc'[h] # "panicked"
    OBVIOUS
  <2>1. ~shutdown /\ hpc \in [Exports -> HandlerStates]
    BY DEF Receiver, NothingBlocksAfterShutdown, RecvTypeOK
  <2>2. ASSUME NEW g \in Exports, ExportStep(g)
        PROVE  hpc'[h] # "panicked"
    BY <2>1, <2>2 DEF ExportStep, ExportCall, ReadMatchers, MatchSpans, Return
  <2>3. CASE ClientStep
    BY <2>1, <2>3 DEF ClientStep, ShutdownSteps, Subscribe, ClearMatchers,
       SetMatchers, Deliver, Return, CloseShutdown, StopServer
  <2>4. QED
    BY <2>2, <2>3 DEF RecvNext
<1>2. QED
  BY <1>1, ReceiverInvariant, PTL DEF RecvSpec, BlockedExportSurvivesShutdown
=============================================================================
