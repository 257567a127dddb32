----------------------------- MODULE ServerTiming -----------------------------
(***************************************************************************)
(* ParseServerTimings of pkg/sw/server_timing.go: the Server-Timing header *)
(* of a service worker's answer, one scan over its metrics that fills the  *)
(* parallel columns and the scalar projections of a row.                   *)
(*                                                                         *)
(* A metric is its wire name, its duration and the first part of its       *)
(* description, the router or broker.  The provider, the transport and the *)
(* trailing part only fill columns of their own and are left out.          *)
(***************************************************************************)
EXTENDS Integers, Sequences, FiniteSets

CONSTANT Headers     \* the metrics a header can carry, in their order

\* Unknown codes pass through.
MetricName(code) ==
    CASE code = "d" -> "dnslink_resolve"
      [] code = "i" -> "ipfs_resolve"
      [] code = "n" -> "ipns_resolve"
      [] code = "p" -> "provider"
      [] code = "f" -> "find_providers"
      [] code = "c" -> "connect"
      [] code = "b" -> "block"
      [] OTHER      -> code

SystemName(code) ==
    CASE code = "h" -> "http_gateway"
      [] code = "l" -> "libp2p"
      [] code = "t" -> "trustless_gateway"
      [] code = "b" -> "bitswap"
      [] OTHER      -> code

Resolves == {"i", "d", "n"}
Timed == {"c", "b"}
Routed == {"http_gateway", "libp2p"}

\* Any code the parser does not know is "other".
MetricCodes == {"d", "i", "n", "p", "f", "c", "b", "other"}
SystemCodes == {"h", "l", "t", "b", "other", "none"}
MetricNames == {"dnslink_resolve", "ipfs_resolve", "ipns_resolve", "provider",
                "find_providers", "connect", "block", "other"}
SystemNames == {"http_gateway", "libp2p", "trustless_gateway", "bitswap",
                "other", "none"}

NilMetric == [name |-> "nil", dur |-> 0, system |-> "none"]
Metric == [name : MetricCodes, dur : Nat, system : SystemCodes] \cup {NilMetric}

ASSUME HeadersAssumption == Headers \subseteq Seq(Metric)

VARIABLES
    metrics,    \* result.ServerTimings
    at,         \* how many of them the scan has passed
    timing      \* the ServerTimingRow under construction

timingVars == <<metrics, at, timing>>

Absent == -1               \* a nil *float64
CountWidth == 65536        \* ProviderCount... are uint16

Timing == [names : Seq(MetricNames), systems : Seq(SystemNames),
           first : [Resolves -> Int], least : [Timed -> Int],
           fastest : SystemNames, count : [Routed -> 0..(CountWidth - 1)]]

NoTiming == [names |-> <<>>, systems |-> <<>>,
             first |-> [n \in Resolves |-> Absent],
             least |-> [n \in Timed |-> Absent],
             fastest |-> "none", count |-> [s \in Routed |-> 0]]

TimingTypeOK ==
    /\ metrics \in Seq(Metric)
    /\ at \in 0..Len(metrics)
    /\ timing \in Timing

TimingInit ==
    /\ metrics = <<>>
    /\ at = 0
    /\ timing = NoTiming

-----------------------------------------------------------------------------

\* Only these metrics have a description.
SystemOf(m) ==
    IF m.name \in {"p", "f", "c", "b"} THEN SystemName(m.system)
                                       ELSE "none"

\* Mutant of Improves: a later metric as fast as the fastest one takes over.
ImprovesOrTies(old, dur) == old = Absent \/ dur <= old

Improves(old, dur) == old = Absent \/ dur < old

Scanned(t, m) ==
    [names   |-> Append(t.names, MetricName(m.name)),
     systems |-> Append(t.systems, SystemOf(m)),
     first   |-> [n \in Resolves |->
                    IF n = m.name /\ t.first[n] = Absent
                    THEN m.dur ELSE t.first[n]],
     least   |-> [n \in Timed |->
                    IF n = m.name /\ Improves(t.least[n], m.dur)
                    THEN m.dur ELSE t.least[n]],
     fastest |-> IF m.name = "b" /\ Improves(t.least["b"], m.dur)
                 THEN SystemOf(m) ELSE t.fastest,
     count   |-> [s \in Routed |->
                    IF m.name = "p" /\ SystemOf(m) = s
                    THEN (t.count[s] + 1) % CountWidth ELSE t.count[s]]]

StartScan(header) ==
    /\ metrics' = header
    /\ at' = 0
    /\ timing' = NoTiming

\* One turn of the loop; a nil metric is skipped.
ScanMetric ==
    /\ at < Len(metrics)
    /\ timing' = IF metrics[at + 1] = NilMetric THEN timing
                 ELSE Scanned(timing, metrics[at + 1])
    /\ at' = at + 1
    /\ UNCHANGED metrics

-----------------------------------------------------------------------------
(* Properties.                                                             *)

Passed(name) == {k \in 1..at : metrics[k].name = name}

FirstOf(name) ==
    \/ Passed(name) = {} /\ timing.first[name] = Absent
    \/ \E k \in Passed(name) :
          /\ timing.first[name] = metrics[k].dur
          /\ \A j \in Passed(name) : k <= j

LeastOf(name) ==
    \/ Passed(name) = {} /\ timing.least[name] = Absent
    \/ \E k \in Passed(name) :
          /\ timing.least[name] = metrics[k].dur
          /\ name = "b" => timing.fastest = SystemOf(metrics[k])
          /\ \A j \in Passed(name) :
                /\ metrics[k].dur <= metrics[j].dur
                /\ j < k => metrics[k].dur < metrics[j].dur

CountOf(system) ==
    timing.count[system] =
        Cardinality({k \in Passed("p") : SystemOf(metrics[k]) = system})
            % CountWidth

\* The columns of db_models.go:180-190 say what their comments say of the
\* header, whatever the order of its metrics: a resolve time is that of the
\* first such metric, a connect or block time the shortest one, the fastest
\* system that of the earliest of the shortest blocks (its own, and not that
\* of a later one), and the counts leave no provider metric out.
TimingsMatchHeader ==
    /\ \A n \in Resolves : FirstOf(n)
    /\ \A n \in Timed : LeastOf(n)
    /\ \A s \in Routed : CountOf(s)
=============================================================================
