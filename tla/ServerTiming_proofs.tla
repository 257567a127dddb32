-------------------------- MODULE ServerTiming_proofs --------------------------
(***************************************************************************)
(* Lemmas about ServerTiming, for every header: the scan keeps its types   *)
(* and what TimingsMatchHeader says of the metrics it has passed.          *)
(***************************************************************************)
EXTENDS ServerTiming, FiniteSetTheorems, TLAPS

LEMMA NameTypes ==
    ASSUME NEW m \in Metric, m # NilMetric
    PROVE  MetricName(m.name) \in MetricNames /\ SystemOf(m) \in SystemNames
<1>1. m.name \in MetricCodes /\ m.system \in SystemCodes
  BY DEF Metric
<1>2. MetricName(m.name) \in MetricNames
  BY <1>1 DEF MetricName, MetricNames, MetricCodes
<1>3. SystemName(m.system) \in SystemNames
  BY <1>1 DEF SystemName, SystemNames, SystemCodes
<1>4. QED
  BY <1>2, <1>3 DEF SystemOf, SystemNames

LEMMA ModRange ==
    ASSUME NEW n \in Nat, NEW L \in Nat \ {0}
    PROVE  n % L \in 0..(L - 1)
OBVIOUS

LEMMA ScannedType ==
    ASSUME NEW t \in Timing, NEW m \in Metric, m # NilMetric
    PROVE  Scanned(t, m) \in Timing
<1>1. /\ SystemOf(m) \in SystemNames /\ MetricName(m.name) \in MetricNames
      /\ m.dur \in Nat
  BY NameTypes DEF Metric, NilMetric
<1>2. /\ Append(t.names, MetricName(m.name)) \in Seq(MetricNames)
      /\ Append(t.systems, SystemOf(m)) \in Seq(SystemNames)
  BY <1>1 DEF Timing
<1>3. \A s \in Routed : (t.count[s] + 1) % CountWidth \in 0..(CountWidth - 1)
  <2>1. \A s \in Routed : t.count[s] \in 0..(CountWidth - 1)
    BY DEF Timing
  <2>2. \A c \in 0..(CountWidth - 1) :
           (c + 1) % CountWidth \in 0..(CountWidth - 1)
    <3>1. CountWidth \in Nat \ {0}
      BY DEF CountWidth
    <3>2. \A c \in 0..(CountWidth - 1) : c + 1 \in Nat
      BY <3>1
    <3>3. QED
      BY <3>1, <3>2, ModRange
  <2>3. QED
    BY <2>1, <2>2
<1>4. Scanned(t, m).count \in [Routed -> 0..(CountWidth - 1)]
  BY <1>3 DEF Scanned, Timing
<1>5. /\ Scanned(t, m).first \in [Resolves -> Int]
      /\ Scanned(t, m).least \in [Timed -> Int]
      /\ Scanned(t, m).fastest \in SystemNames
  BY <1>1 DEF Scanned, Timing
<1>6. QED
  BY <1>2, <1>4, <1>5 DEF Scanned, Timing

LEMMA ScanTyped ==
    ASSUME TimingTypeOK, ScanMetric
    PROVE  TimingTypeOK'
<1>1. metrics[at + 1] \in Metric /\ at + 1 \in 0..Len(metrics)
  BY DEF TimingTypeOK, ScanMetric
<1>2. timing' \in Timing
  BY <1>1, ScannedType DEF TimingTypeOK, ScanMetric
<1>3. QED
  BY <1>1, <1>2 DEF TimingTypeOK, ScanMetric

LEMMA NoTimingType == NoTiming \in Timing
<1>1. <<>> \in Seq(MetricNames) /\ <<>> \in Seq(SystemNames) /\ 0 \in 0..(CountWidth - 1) /\ Absent \in Int
  BY DEF CountWidth, Absent
<1>2. [s \in Routed |-> 0] \in [Routed -> 0..(CountWidth - 1)]
  BY <1>1
<1>3. /\ [n \in Resolves |-> Absent] \in [Resolves -> Int]
      /\ [n \in Timed |-> Absent] \in [Timed -> Int]
  BY <1>1
<1>4. "none" \in SystemNames
  BY DEF SystemNames
<1>5. QED
  BY <1>1, <1>2, <1>3, <1>4, Zenon DEF NoTiming, Timing

LEMMA StartTyped ==
    ASSUME NEW header \in Headers \cup {<<>>}, StartScan(header)
    PROVE  TimingTypeOK'
<1>1. header \in Seq(Metric)
  <2>1. CASE header \in Headers
    BY <2>1, HeadersAssumption
  <2>2. CASE header = <<>>
    BY <2>2
  <2>3. QED
    BY <2>1, <2>2
<1>2. 0 \in 0..Len(header)
  BY <1>1
<1>3. QED
  BY <1>1, <1>2, NoTimingType DEF StartScan, TimingTypeOK

-----------------------------------------------------------------------------
(* What the scan has passed.                                               *)

LEMMA StartMatches ==
    ASSUME at = 0, timing = NoTiming
    PROVE  TimingsMatchHeader
<1>1. \A name : Passed(name) = {}
  BY DEF Passed
<1>2. \A n \in Resolves : FirstOf(n)
  BY <1>1 DEF FirstOf, NoTiming
<1>3. \A n \in Timed : LeastOf(n)
  BY <1>1 DEF LeastOf, NoTiming
<1>4. \A s \in Routed : CountOf(s)
  <2>1. TAKE s \in Routed
  <2>2. {k \in Passed("p") : SystemOf(metrics[k]) = s} = {}
    BY <1>1
  <2>3. timing.count[s] = 0
    BY DEF NoTiming
  <2>4. 0 % CountWidth = 0
    BY DEF CountWidth
  <2>5. QED
    BY <2>2, <2>3, <2>4, FS_EmptySet DEF CountOf
<1>5. QED
  BY <1>2, <1>3, <1>4 DEF TimingsMatchHeader

\* The metric the scan passes next.
Met == metrics[at + 1]

LEMMA PassedNext ==
    ASSUME TimingTypeOK, ScanMetric, NEW name
    PROVE  /\ Passed(name)' = IF Met.name = name THEN Passed(name) \cup {at + 1}
                                                 ELSE Passed(name)
           /\ at + 1 \notin Passed(name)
           /\ \A k \in Passed(name) : k \in Nat /\ k < at + 1 /\ metrics[k] \in Metric
           /\ Met \in Metric
<1>1. /\ at \in Nat /\ at + 1 \in 1..Len(metrics)
      /\ at' = at + 1 /\ metrics' = metrics
      /\ metrics \in Seq(Metric)
  BY DEF TimingTypeOK, ScanMetric
<1>2. 1..at' = (1..at) \cup {at + 1}
  BY <1>1
<1>3. /\ Met \in Metric
      /\ \A k \in 1..at : metrics[k] \in Metric /\ k \in Nat /\ k < at + 1
  BY <1>1 DEF Met
<1>4. Passed(name)' = {k \in (1..at) \cup {at + 1} : metrics[k].name = name}
  BY <1>1, <1>2 DEF Passed
<1>5. QED
  BY <1>1, <1>3, <1>4 DEF Passed, Met

LEMMA FirstStep ==
    ASSUME TimingTypeOK, ScanMetric, NEW n \in Resolves, FirstOf(n)
    PROVE  FirstOf(n)'
<1>1. metrics' = metrics /\ at \in Nat
  BY DEF ScanMetric, TimingTypeOK
<1>2. CASE Met.name # n
  <2>1. timing'.first[n] = timing.first[n]
    BY <1>2 DEF ScanMetric, Scanned, Met
  <2>2. Passed(n)' = Passed(n)
    BY <1>2, PassedNext
  <2>3. QED
    BY <1>1, <2>1, <2>2 DEF FirstOf
<1>3. CASE Met.name = n
  <2>1. Met # NilMetric
    <3>1. n # "nil" /\ NilMetric.name = "nil"
      BY DEF NilMetric, Resolves
    <3>2. QED
      BY <1>3, <3>1
  <2>2. timing'.first[n] = IF timing.first[n] = Absent THEN Met.dur
                                                       ELSE timing.first[n]
    BY <1>3, <2>1 DEF ScanMetric, Scanned, Met
  <2>3. Passed(n)' = Passed(n) \cup {at + 1}
    BY <1>3, PassedNext
  <2>4. CASE Passed(n) = {}
    <3>1. timing'.first[n] = metrics'[at + 1].dur
      BY <1>1, <2>2, <2>4 DEF FirstOf, Met
    <3>2. at + 1 \in Passed(n)' /\ \A j \in Passed(n)' : at + 1 <= j
      BY <1>1, <2>3, <2>4
    <3>3. QED
      BY <3>1, <3>2 DEF FirstOf
  <2>5. CASE Passed(n) # {}
    <3>1. PICK k \in Passed(n) :
             /\ timing.first[n] = metrics[k].dur
             /\ \A j \in Passed(n) : k <= j
      BY <2>5 DEF FirstOf
    <3>2. metrics[k].dur \in Nat /\ k \in Nat /\ k < at + 1
      BY PassedNext DEF Metric, NilMetric
    <3>3. timing'.first[n] = metrics'[k].dur
      BY <1>1, <2>2, <3>1, <3>2 DEF Absent
    <3>4. \A j \in Passed(n)' : k <= j
      <4>1. k <= at + 1
        BY <1>1, <3>2
      <4>2. QED
        BY <2>3, <3>1, <4>1
    <3>5. k \in Passed(n)'
      BY <2>3
    <3>6. QED
      BY <3>3, <3>4, <3>5 DEF FirstOf
  <2>6. QED
    BY <2>4, <2>5
<1>4. QED
  BY <1>2, <1>3

LEMMA LeastStep ==
    ASSUME TimingTypeOK, ScanMetric, NEW n \in Timed, LeastOf(n)
    PROVE  LeastOf(n)'
<1>1. metrics' = metrics /\ at \in Nat
  BY DEF ScanMetric, TimingTypeOK
<1>2. CASE Met.name # n
  <2>1. timing'.least[n] = timing.least[n]
    BY <1>2 DEF ScanMetric, Scanned, Met
  <2>2. n = "b" => timing'.fastest = timing.fastest
    BY <1>2 DEF ScanMetric, Scanned, Met
  <2>3. Passed(n)' = Passed(n)
    BY <1>2, PassedNext
  <2>4. QED
    BY <1>1, <2>1, <2>2, <2>3 DEF LeastOf, SystemOf
<1>3. CASE Met.name = n
  <2>1. Met # NilMetric
    <3>1. n # "nil" /\ NilMetric.name = "nil"
      BY DEF NilMetric, Timed
    <3>2. QED
      BY <1>3, <3>1
  <2>2. /\ timing'.least[n] = IF Improves(timing.least[n], Met.dur)
                              THEN Met.dur ELSE timing.least[n]
        /\ n = "b" => timing'.fastest = IF Improves(timing.least[n], Met.dur)
                                        THEN SystemOf(Met) ELSE timing.fastest
    BY <1>3, <2>1 DEF ScanMetric, Scanned, Met
  <2>3. Passed(n)' = Passed(n) \cup {at + 1}
    BY <1>3, PassedNext
  <2>4. Met.dur \in Nat /\ metrics'[at + 1] = Met
    BY <1>1, PassedNext DEF Metric, NilMetric, Met
  <2>5. CASE Passed(n) = {}
    <3>1. Improves(timing.least[n], Met.dur)
      BY <2>5 DEF LeastOf, Improves
    <3>2. \A j \in Passed(n)' : j = at + 1
      BY <2>3, <2>5
    <3>3. /\ timing'.least[n] = metrics'[at + 1].dur
          /\ n = "b" => timing'.fastest = SystemOf(metrics'[at + 1])
      BY <2>2, <2>4, <3>1
    <3>4. \A j \in Passed(n)' :
             /\ metrics'[at + 1].dur <= metrics'[j].dur
             /\ j < at + 1 => metrics'[at + 1].dur < metrics'[j].dur
      BY <1>1, <2>4, <3>2
    <3>5. at + 1 \in Passed(n)'
      BY <2>3
    <3>6. QED
      BY <3>3, <3>4, <3>5 DEF LeastOf, SystemOf
  <2>6. CASE Passed(n) # {}
    <3>1. PICK k \in Passed(n) :
             /\ timing.least[n] = metrics[k].dur
             /\ n = "b" => timing.fastest = SystemOf(metrics[k])
             /\ \A j \in Passed(n) :
                   /\ metrics[k].dur <= metrics[j].dur
                   /\ j < k => metrics[k].dur < metrics[j].dur
      BY <2>6 DEF LeastOf
    <3>2. \A j \in Passed(n) :
             metrics[j].dur \in Nat /\ j \in Nat /\ j < at + 1
      BY PassedNext DEF Metric, NilMetric
    <3>3. Improves(timing.least[n], Met.dur) <=> Met.dur < metrics[k].dur
      BY <3>1, <3>2 DEF Improves, Absent
    <3>4. CASE Met.dur < metrics[k].dur
      <4>1. /\ timing'.least[n] = metrics'[at + 1].dur
            /\ n = "b" => timing'.fastest = SystemOf(metrics'[at + 1])
        BY <2>2, <2>4, <3>3, <3>4
      <4>2. \A j \in Passed(n)' :
               /\ metrics'[at + 1].dur <= metrics'[j].dur
               /\ j < at + 1 => metrics'[at + 1].dur < metrics'[j].dur
        BY <1>1, <2>3, <2>4, <3>1, <3>2, <3>4
      <4>3. at + 1 \in Passed(n)'
        BY <2>3
      <4>4. QED
        BY <4>1, <4>2, <4>3 DEF LeastOf, SystemOf
    <3>5. CASE ~(Met.dur < metrics[k].dur)
      <4>1. /\ timing'.least[n] = metrics'[k].dur
            /\ n = "b" => timing'.fastest = SystemOf(metrics'[k])
        BY <1>1, <2>2, <3>1, <3>3, <3>5
      <4>2. \A j \in Passed(n)' :
               /\ metrics'[k].dur <= metrics'[j].dur
               /\ j < k => metrics'[k].dur < metrics'[j].dur
        BY <1>1, <2>3, <2>4, <3>1, <3>2, <3>5
      <4>3. k \in Passed(n)'
        BY <2>3
      <4>4. QED
        BY <4>1, <4>2, <4>3 DEF LeastOf, SystemOf
    <3>6. QED
      BY <3>4, <3>5
  <2>7. QED
    BY <2>5, <2>6
<1>4. QED
  BY <1>2, <1>3

LEMMA CountStep ==
    ASSUME TimingTypeOK, ScanMetric, NEW s \in Routed, CountOf(s)
    PROVE  CountOf(s)'
<1> DEFINE Counted == {k \in Passed("p") : SystemOf(metrics[k]) = s}
<1>1. metrics' = metrics /\ at \in Nat
  BY DEF ScanMetric, TimingTypeOK
<1>2. IsFiniteSet(Counted) /\ Cardinality(Counted) \in Nat
  <2>1. IsFiniteSet(1..at)
    BY <1>1, FS_Interval
  <2>2. Counted \subseteq 1..at
    BY DEF Passed
  <2>3. QED
    BY <2>1, <2>2, FS_Subset, FS_CardinalityType
<1>3. Counted' = {k \in Passed("p")' : SystemOf(metrics[k]) = s}
  BY <1>1 DEF SystemOf
<1>4. timing.count[s] = Cardinality(Counted) % CountWidth
  BY DEF CountOf
<1>5. CASE Met.name = "p" /\ SystemOf(Met) = s
  <2>1. Counted' = Counted \cup {at + 1} /\ at + 1 \notin Counted
    BY <1>3, <1>5, PassedNext DEF Met
  <2>2. Cardinality(Counted') = Cardinality(Counted) + 1
    BY <1>2, <2>1, FS_AddElement
  <2>3. Met # NilMetric
    <3>1. NilMetric.name = "nil"
      BY DEF NilMetric
    <3>2. QED
      BY <1>5, <3>1
  <2>4. timing'.count[s] = (timing.count[s] + 1) % CountWidth
    BY <1>5, <2>3 DEF ScanMetric, Scanned, Met
  <2>5. \A c \in Nat : ((c % CountWidth) + 1) % CountWidth
                          = (c + 1) % CountWidth
    BY DEF CountWidth
  <2>6. timing'.count[s] = Cardinality(Counted') % CountWidth
    <3> HIDE DEF Counted
    <3>1. QED
      BY <1>2, <1>4, <2>2, <2>4, <2>5
  <2>7. QED
    BY <2>6 DEF CountOf
<1>6. CASE ~(Met.name = "p" /\ SystemOf(Met) = s)
  <2>1. Counted' = Counted
    BY <1>3, <1>6, PassedNext DEF Met
  <2>2. timing'.count[s] = timing.count[s]
    BY <1>6 DEF ScanMetric, Scanned, Met
  <2>3. QED
    BY <1>4, <2>1, <2>2 DEF CountOf
<1>7. QED
  BY <1>5, <1>6

LEMMA ScanMatches ==
    ASSUME TimingTypeOK, ScanMetric, TimingsMatchHeader
    PROVE  TimingsMatchHeader'
BY FirstStep, LeastStep, CountStep DEF TimingsMatchHeader
=============================================================================
