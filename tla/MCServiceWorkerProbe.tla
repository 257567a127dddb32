------------------------- MODULE MCServiceWorkerProbe -------------------------
(* Instances of ServiceWorkerProbe for TLC.                                 *)
EXTENDS ServiceWorkerProbe, TLC

CONSTANTS p1

MCPeers == {p1}
\* Zero is the loop's "none yet".
MCTTFBs == {0, 1, 2}

MCLateCalls == {"worker"}

Timed1(name, system, dur) == [name |-> name, dur |-> dur, system |-> system]

\* Repeated resolves, providers and blocks, ties, an unknown code, a nil.
MCHeaders ==
    {<<Timed1("i", "none", 2), NilMetric, Timed1("i", "none", 1), Timed1("p", "h", 1),
       Timed1("p", "h", 1), Timed1("p", "l", 0)>>,
     <<Timed1("b", "b", 2), Timed1("b", "t", 1), Timed1("c", "t", 2),
       Timed1("b", "b", 1), Timed1("c", "t", 1), Timed1("other", "none", 0)>>}
=============================================================================
