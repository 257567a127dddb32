----------------------------- MODULE MCKuboProbe -----------------------------
(* Instances of KuboProbe for TLC.                                          *)
EXTENDS KuboProbe, FiniteSets, TLC

CONSTANTS h1, h2, c1, c2

MCExports == {h1}
MCExports2 == {h1, h2}
MCNoCIDs == {}
MCCIDs == {c1}
MCCIDs2 == {c1, c2}
Symmetry == Permutations(MCExports2) \cup Permutations(MCCIDs2)

MaxOps == 2      \* measurements whose spans Kubo exports

SpanOf(kind, k) ==
    [kind |-> kind, op |-> k, trace |-> IF kind = "hash" THEN 0 ELSE k]

Single(kinds, k) == {{SpanOf(kind, k)} : kind \in kinds}
Pair(kind1, kind2, k) == {{SpanOf(kind1, k), SpanOf(kind2, k)}}

\* A hash span alone matches nothing: it comes with a span of its upload.
UploadBatchesOf(k) ==
    Single({"add", "provide", "provideErr"}, k)
    \cup Pair("hash", "provide", k) \cup Pair("add", "provideErr", k)
DownloadBatchesOf(k) ==
    Single({"cmds", "findprov"}, k) \cup Pair("cmds", "findprov", k)

OneUpload == UploadBatchesOf(1)
UploadBatches == UNION {UploadBatchesOf(k) : k \in 1..MaxOps}
DownloadBatches == UNION {DownloadBatchesOf(k) : k \in 1..MaxOps}
\* One span of an upload and the ones of the download after it.
MixedBatches == Single({"provide"}, 1) \cup Single({"cmds"}, 2)
\* The same, with the lookup of the download.
LookupBatches == Single({"provide"}, 1) \cup Pair("cmds", "findprov", 2)
=============================================================================
