------------------------- MODULE WebsitesProbe_proofs -------------------------
(***************************************************************************)
(* Theorems about WebsitesProbe, for every set of websites, lists and      *)
(* providers and every number of probes.  The inductive invariant is the   *)
(* conjunction of the types with what each channel carries (Typed), the    *)
(* measurements that are accounted for (Accounted), the providers that are *)
(* (Kept) and the reasons a website is warm (Warm).                        *)
(***************************************************************************)
EXTENDS WebsitesProbe, FiniteSetTheorems, TLAPS

-----------------------------------------------------------------------------
(* The list of websites and its measurements.                              *)

LEMMA ListFacts ==
    ASSUME probes \in 0..MaxProbes, websites \in {<<>>} \cup Lists
    PROVE  /\ websites \in Seq(Websites)
           /\ Len(websites) \in 0..MaxSites
           /\ Len(websites) \in Nat
           /\ Total \in Nat
<1>1. CASE websites = <<>>
  BY <1>1, WebsitesAssumption DEF Total
<1>2. CASE websites \in Lists
  <2>1. PICK n \in 0..MaxSites : websites \in [1..n -> Websites]
    BY <1>2, WebsitesAssumption DEF Lists
  <2>2. websites \in Seq(Websites) /\ Len(websites) = n
    BY <2>1, WebsitesAssumption
  <2>3. n \in Nat /\ Total \in Nat
    BY <2>2, WebsitesAssumption DEF Total
  <2>4. QED
    BY <2>2, <2>3
<1>3. QED
  BY <1>1, <1>2

\* Nothing that is computed from the list changes while the list does not.
LEMMA SameList ==
    ASSUME UNCHANGED listVars
    PROVE  /\ probes' = probes /\ websites' = websites
           /\ Len(websites)' = Len(websites)
           /\ Total' = Total /\ Slots' = Slots /\ Lists' = Lists
           /\ ProbeResult' = ProbeResult
BY DEF listVars, Total, Slots, Lists, ProbeResult

\* The entry whose answer findAllProviders reads or hands over.
LEMMA SiteInRange ==
    ASSUME probes \in 0..MaxProbes, websites \in {<<>>} \cup Lists,
           site \in 1..(Len(websites) + 1)
    PROVE  /\ site \in Nat /\ MaxSites \in Nat
           /\ site <= Len(websites) => site \in 1..MaxSites
<1>1. Len(websites) \in 0..MaxSites /\ MaxSites \in Nat
  BY ListFacts, WebsitesAssumption
<1>2. QED
  BY <1>1

LEMMA SlotSite ==
    ASSUME probes \in 0..MaxProbes, websites \in {<<>>} \cup Lists,
           NEW k \in Slots
    PROVE  SiteOf(k) \in Websites
<1>1. /\ websites \in Seq(Websites)
      /\ Len(websites) \in Nat
  BY ListFacts
<1>2. Len(websites) # 0
  <2>1. SUFFICES ASSUME Len(websites) = 0 PROVE FALSE
    OBVIOUS
  <2>2. Total = 0
    BY <2>1, WebsitesAssumption DEF Total
  <2>3. QED
    BY <2>2 DEF Slots
<1>3. k \in Nat
  BY ListFacts DEF Slots
<1>4. (k % Len(websites)) + 1 \in 1..Len(websites)
  BY <1>1, <1>2, <1>3
<1>5. QED
  BY <1>1, <1>4 DEF SiteOf

-----------------------------------------------------------------------------
(* Types, and what the program counters say of the other variables.        *)

Carried ==
    /\ mpc = "insertProbe" => current \in ProbeResult
    /\ mpc = "insertProvider" => current \in Provider
    /\ mpc \notin {"insertProbe", "insertProvider"} => current = Nothing

Places ==
    /\ ppc \in {"send", "reset"} => slot < Total
    /\ fpc \in {"find", "send"} => site <= Len(websites)
    /\ fpc = "closed" => site = Len(websites) + 1
    /\ fpc # "send" => pending = NoProviders

Unstarted ==
    mpc = "start" =>
        /\ websites = <<>>
        /\ ppc = "off" /\ slot = 0
        /\ fpc = "off" /\ site = 1 /\ retry = 0 /\ pending = NoProviders
        /\ failed = {} /\ probeRows = {}

Typed == TypeOK /\ Carried /\ Places /\ Unstarted

LEMMA TypedStart ==
    ASSUME Typed, Start
    PROVE  Typed'
<1> USE DEF Typed, TypeOK, Carried, Places, Unstarted, Start, kuboVars, rowVars
<1>1. CASE websites' \in Lists /\ mpc' = "select"
  <2>1. probes' = probes /\ Lists' = Lists
    BY DEF Lists
  <2>2. Total' \in Nat /\ Len(websites)' \in Nat
    <3>1. probes' \in 0..MaxProbes /\ websites' \in ({<<>>} \cup Lists)'
      BY <1>1, <2>1
    <3>2. (probes \in 0..MaxProbes /\ websites \in {<<>>} \cup Lists =>
              Total \in Nat /\ Len(websites) \in Nat)'
      BY ListFacts, PTL
    <3>3. QED
      BY <3>1, <3>2
  <2>3. /\ ppc' = "probe" /\ fpc' = "resolve"
        /\ UNCHANGED <<open, current, slot, failed, site, retry, pending, found, cached,
                      leftover, probeRows, provRows, cancelled, outcome>>
    BY <1>1 DEF Return
  <2>4. slot' \in 0..Total' /\ site' \in 1..(Len(websites)' + 1)
    BY <2>2, <2>3
  <2>5. failed' \in SUBSET Slots' /\ probeRows' \in SUBSET Slots'
    BY <2>3
  <2>6. TypeOK'
    BY <1>1, <2>1, <2>3, <2>4, <2>5
  <2>7. Carried' /\ Places' /\ Unstarted'
    BY <1>1, <2>3
  <2>8. QED
    BY <2>6, <2>7
<1>2. CASE Return("error") /\ UNCHANGED <<websites, ppc, fpc>>
  <2>1. UNCHANGED listVars
    BY <1>2 DEF listVars
  <2>2. QED
    BY <1>2, <2>1, SameList DEF Return
<1>3. QED
  BY <1>1, <1>2

LEMMA TypedMain ==
    ASSUME Typed, MainStep, ~Start
    PROVE  Typed'
<1> USE DEF Typed, TypeOK, Carried, Places, Unstarted, mainVars, measureVars,
            findVars, kuboVars, rowVars
<1>1. UNCHANGED listVars
  BY DEF MainStep, ChannelClosed, InsertProbe, InsertProvider, CloseDB
<1>2. Len(websites) \in Nat /\ Total \in Nat
  BY ListFacts
<1>3. ASSUME NEW ch, NEW closed, ChannelClosed(ch, closed)
      PROVE  Typed'
  BY <1>1, <1>3, SameList DEF ChannelClosed, Return
<1>4. CASE InsertProbe
  <2>1. current.slot \in Slots
    BY <1>4 DEF InsertProbe, ProbeResult
  <2>2. QED
    BY <1>1, <1>4, <2>1, SameList DEF InsertProbe, Return
<1>5. CASE InsertProvider
  <2>1. current.site \in 1..MaxSites /\ current.peer \in Peers
    BY <1>5 DEF InsertProvider, Provider
  <2>2. provRows' \in [1..MaxSites -> [Peers -> Nat]]
    <3>1. provRows[current.site] \in [Peers -> Nat]
      BY <2>1
    <3>2. [provRows[current.site] EXCEPT ![current.peer] = @ + 1]
             \in [Peers -> Nat]
      BY <2>1, <3>1
    <3>3. QED
      BY <1>5, <2>1, <3>2 DEF InsertProvider
  <2>3. QED
    BY <1>1, <1>5, <2>2, SameList DEF InsertProvider, Return
<1>6. CASE CloseDB
  BY <1>1, <1>6, SameList DEF CloseDB
<1>7. QED
  BY <1>3, <1>4, <1>5, <1>6 DEF MainStep

LEMMA TypedMeasure ==
    ASSUME Typed, MeasureStep
    PROVE  Typed'
<1> USE DEF Typed, TypeOK, Carried, Places, Unstarted, Measuring, mainVars,
            measureVars, findVars, kuboVars, rowVars
<1>1. UNCHANGED listVars
  BY DEF MeasureStep, MeasureEnds, RunReturns, RunFails, RunCancelled,
         SendProbe, Reset
<1>2. Len(websites) \in Nat /\ Total \in Nat
  BY ListFacts
<1>3. mpc # "start"
  BY DEF MeasureStep, MeasureEnds, RunReturns, RunFails, RunCancelled,
         SendProbe, Reset
<1>4. CASE MeasureEnds
  BY <1>1, <1>3, <1>4, SameList DEF MeasureEnds
<1>5. CASE Measuring /\ Fetched
  <2>1. slot \in Slots /\ slot + 1 \in 0..Total
    BY <1>2, <1>5 DEF Slots
  <2>2. cached' \in SUBSET Websites /\ leftover' \in SUBSET Websites
    BY <1>5, <2>1, SlotSite DEF Fetched
  <2>3. CASE RunReturns
    BY <1>1, <1>2, <1>3, <2>1, <2>2, <2>3, SameList DEF RunReturns
  <2>4. CASE RunFails
    BY <1>1, <1>2, <1>3, <2>1, <2>2, <2>4, SameList DEF RunFails
  <2>5. CASE RunCancelled
    BY <1>1, <1>2, <1>3, <2>1, <2>2, <2>5, SameList DEF RunCancelled
  <2>6. QED
    BY <1>5, <2>3, <2>4, <2>5 DEF MeasureStep, MeasureEnds, SendProbe, Reset
<1>6. CASE SendProbe
  <2>1. [slot |-> slot] \in ProbeResult
    BY <1>2, <1>6 DEF SendProbe, ProbeResult, Slots
  <2>2. QED
    BY <1>1, <1>2, <1>3, <1>6, <2>1, SameList DEF SendProbe, Receive
<1>7. CASE Reset
  BY <1>1, <1>2, <1>3, <1>7, SameList DEF Reset
<1>8. QED
  BY <1>4, <1>5, <1>6, <1>7 DEF MeasureStep, RunReturns, RunFails, RunCancelled

LEMMA TypedFind ==
    ASSUME Typed, FindStep
    PROVE  Typed'
<1> USE DEF Typed, TypeOK, Carried, Places, Unstarted, NextSite, mainVars,
            measureVars, findVars, kuboVars, rowVars
<1>1. UNCHANGED listVars
  BY DEF FindStep, FindEnds, Resolve, Find, FindFails, SendProvider
<1>2. Len(websites) \in Nat /\ Total \in Nat /\ websites \in Seq(Websites)
  BY ListFacts
<1>3. mpc # "start"
  BY DEF FindStep, FindEnds, Resolve, Find, FindFails, SendProvider
<1>4. CASE FindEnds
  BY <1>1, <1>2, <1>3, <1>4, SameList DEF FindEnds
<1>5. CASE Resolve
  BY <1>1, <1>2, <1>3, <1>5, SameList DEF Resolve, Retries
<1>6. CASE Find
  <2>1. pending' \in Answers /\ site \in 1..MaxSites
    BY <1>2, <1>6, SiteInRange DEF Find
  <2>2. found' \in [1..MaxSites -> Answers]
    BY <1>6, <2>1 DEF Find
  <2>3. QED
    BY <1>1, <1>2, <1>3, <1>6, <2>1, <2>2, SameList DEF Find, Retries
<1>7. CASE FindFails
  BY <1>1, <1>2, <1>3, <1>7, SameList DEF FindFails, Retries
<1>8. CASE SendProvider
  <2>1. PICK p \in Peers :
            /\ pending[p] > 0
            /\ Receive([site |-> site, peer |-> p], "insertProvider")
            /\ pending' = [pending EXCEPT ![p] = @ - 1]
    BY <1>8 DEF SendProvider
  <2>2. site \in 1..MaxSites
    BY <1>2, <1>8, SiteInRange DEF SendProvider
  <2>3. current' \in Provider /\ mpc' = "insertProvider"
    BY <2>1, <2>2 DEF Receive, Provider
  <2>4. pending' \in Answers
    BY <2>1, WebsitesAssumption DEF Answers
  <2>5. QED
    BY <1>1, <1>2, <1>3, <1>8, <2>3, <2>4, SameList
       DEF SendProvider, AfterProviders, Retries
<1>9. QED
  BY <1>4, <1>5, <1>6, <1>7, <1>8 DEF FindStep

THEOREM TypedAlways == Spec => []Typed
<1>1. Init => Typed
  <2>1. SUFFICES ASSUME Init PROVE Typed
    OBVIOUS
  <2>2. probes \in 0..MaxProbes /\ websites \in {<<>>} \cup Lists
    BY <2>1 DEF Init
  <2>3. Total \in Nat /\ Len(websites) \in Nat
    BY <2>2, ListFacts
  <2>4. slot \in 0..Total /\ site \in 1..(Len(websites) + 1)
    BY <2>1, <2>3 DEF Init
  <2>5. /\ failed \in SUBSET Slots /\ probeRows \in SUBSET Slots
        /\ open \in SUBSET Channels
        /\ cached \in SUBSET Websites /\ leftover \in SUBSET Websites
        /\ pending \in Answers /\ found \in [1..MaxSites -> Answers]
        /\ provRows \in [1..MaxSites -> [Peers -> Nat]]
    BY <2>1, WebsitesAssumption DEF Init, Answers, NoProviders
  <2>6. /\ mpc = "start" /\ current = Nothing /\ outcome = "running"
        /\ ppc = "off" /\ fpc = "off" /\ retry \in 0..(Retries - 1)
        /\ cancelled = FALSE
    BY <2>1 DEF Init, Retries
  <2>7. Carried /\ Places /\ Unstarted
    BY <2>1 DEF Init, Carried, Places, Unstarted
  <2>8. TypeOK
    BY <2>2, <2>4, <2>5, <2>6 DEF TypeOK
  <2>9. QED
    BY <2>7, <2>8 DEF Typed
<1>2. ASSUME Typed, [Next]_vars
      PROVE  Typed'
  <2>1. CASE Start
    BY <1>2, <2>1, TypedStart
  <2>2. CASE MainStep /\ ~Start
    BY <1>2, <2>2, TypedMain
  <2>3. CASE MeasureStep
    BY <1>2, <2>3, TypedMeasure
  <2>4. CASE FindStep
    BY <1>2, <2>4, TypedFind
  <2>5. CASE Cancel
    <3>1. UNCHANGED listVars
      BY <2>5 DEF Cancel, mainVars
    <3>2. QED
      BY <1>2, <2>5, <3>1, SameList
         DEF Cancel, mainVars, measureVars, findVars, kuboVars, rowVars,
             Typed, TypeOK, Carried, Places, Unstarted
  <2>6. CASE UNCHANGED vars
    <3>1. UNCHANGED listVars
      BY <2>6 DEF vars, mainVars
    <3>2. QED
      BY <1>2, <2>6, <3>1, SameList
         DEF vars, mainVars, measureVars, findVars, kuboVars, rowVars,
             Typed, TypeOK, Carried, Places, Unstarted
  <2>7. QED
    BY <1>2, <2>1, <2>2, <2>3, <2>4, <2>5, <2>6 DEF Next, Terminated
<1>3. QED
  BY <1>1, <1>2, PTL DEF Spec

\* The types of the variables, of what main is recording among them.
THEOREM TypeCorrect == Spec => []TypeOK
<1>1. Typed => TypeOK
  BY DEF Typed
<1>2. QED
  BY <1>1, TypedAlways, PTL

-----------------------------------------------------------------------------
(* Every result is recorded: a measurement that is done has failed, has its *)
(* row, or is the one main is recording.                                    *)

Done == {k \in Slots : k < slot \/ (k = slot /\ ppc = "reset")}
InFlight == IF mpc = "insertProbe" THEN {current.slot} ELSE {}

Accounted ==
    /\ outcome = "running" <=> mpc \notin {"close", "done"}
    /\ outcome = "ok" => open = {}
    /\ "probes" \notin open => ppc = "closed"
    /\ ppc = "closed" => cancelled \/ ~LookupProviders \/ slot = Total
    /\ outcome # "error" =>
          /\ Done = probeRows \cup failed \cup InFlight
          /\ (probeRows \cup InFlight) \cap failed = {}

LEMMA AccountedMain ==
    ASSUME Typed, Accounted, MainStep
    PROVE  Accounted'
<1> USE DEF Accounted, mainVars, measureVars, findVars, kuboVars, rowVars
<1>1. CASE Start
  <2>1. /\ probeRows' = {} /\ failed' = {} /\ InFlight' = {}
        /\ slot' = 0 /\ ppc' \in {"off", "probe"} /\ open' = open
        /\ "probes" \in open
    BY <1>1 DEF Start, Typed, Unstarted, InFlight, Return
  <2>2. Done' = {}
    <3>1. \A k \in Slots' : ~(k < 0)
      BY DEF Slots
    <3>2. QED
      BY <2>1, <3>1 DEF Done
  <2>3. (outcome = "running" <=> mpc \notin {"close", "done"})'
        /\ outcome' # "ok"
    BY <1>1 DEF Start, Return
  <2>4. QED
    BY <2>1, <2>2, <2>3
<1>2. ASSUME NEW ch \in Channels, NEW closed, ChannelClosed(ch, closed),
             ch = "probes" => ppc = "closed"
      PROVE  Accounted'
  <2>1. /\ UNCHANGED listVars /\ UNCHANGED <<ppc, slot, failed, probeRows>>
        /\ mpc = "select" /\ mpc' # "insertProbe"
    BY <1>2 DEF ChannelClosed, Return
  <2>2. Done' = Done /\ InFlight' = InFlight
    BY <2>1, SameList DEF Done, InFlight
  <2>3. QED
    BY <1>2, <2>1, <2>2, SameList DEF ChannelClosed, Return
<1>3. CASE InsertProbe
  <2>1. /\ UNCHANGED listVars /\ UNCHANGED <<ppc, slot, failed, open, cancelled>>
        /\ mpc = "insertProbe"
        /\ \/ /\ probeRows' = probeRows \cup {current.slot}
              /\ mpc' = "select" /\ outcome' = outcome
           \/ mpc' = "close" /\ outcome' = "error"
    BY <1>3 DEF InsertProbe, Return
  <2>2. Done' = Done /\ InFlight' = {} /\ InFlight = {current.slot}
    BY <2>1, SameList DEF Done, InFlight
  <2>3. QED
    BY <2>1, <2>2, SameList
<1>4. CASE InsertProvider
  <2>1. /\ UNCHANGED listVars
        /\ UNCHANGED <<ppc, slot, failed, open, cancelled, probeRows>>
        /\ mpc = "insertProvider"
        /\ \/ mpc' = "select" /\ outcome' = outcome
           \/ mpc' = "close" /\ outcome' = "error"
    BY <1>4 DEF InsertProvider, Return
  <2>2. Done' = Done /\ InFlight' = {} /\ InFlight = {}
    BY <2>1, SameList DEF Done, InFlight
  <2>3. QED
    BY <2>1, <2>2, SameList
<1>5. CASE CloseDB
  <2>1. /\ UNCHANGED listVars
        /\ UNCHANGED <<ppc, slot, failed, open, outcome, cancelled, probeRows>>
        /\ mpc = "close" /\ mpc' = "done"
    BY <1>5 DEF CloseDB
  <2>2. Done' = Done /\ InFlight' = InFlight
    BY <2>1, SameList DEF Done, InFlight
  <2>3. QED
    BY <2>1, <2>2, SameList
<1>6. CASE ChannelClosed("probes", ppc = "closed")
  <2>1. ppc = "closed" /\ "probes" \in Channels
    BY <1>6 DEF ChannelClosed, Channels
  <2>2. QED
    BY <1>2, <1>6, <2>1
<1>7. CASE ChannelClosed("providers", fpc = "closed")
  <2>1. "providers" \in Channels /\ "providers" # "probes"
    BY DEF Channels
  <2>2. QED
    BY <1>2, <1>7, <2>1
<1>8. QED
  BY <1>1, <1>3, <1>4, <1>5, <1>6, <1>7 DEF MainStep

LEMMA AccountedMeasure ==
    ASSUME Typed, Accounted, MeasureStep
    PROVE  Accounted'
<1> USE DEF Accounted, Measuring, mainVars, measureVars, findVars, kuboVars,
            rowVars
<1>1. /\ UNCHANGED listVars
      /\ UNCHANGED <<open, outcome, cancelled, probeRows>>
      /\ ppc # "closed"
  BY DEF MeasureStep, MeasureEnds, RunReturns, RunFails, RunCancelled,
         SendProbe, Reset
<1>2. /\ slot \in 0..Total /\ Total \in Nat
      /\ (ppc \in {"send", "reset"} => slot < Total)
      /\ mpc # "insertProbe" => InFlight = {}
      /\ "probes" \in open
  BY <1>1, ListFacts DEF Typed, TypeOK, Places, InFlight
<1>3. CASE MeasureEnds \/ RunReturns \/ RunCancelled
  <2>1. /\ UNCHANGED <<slot, failed, mpc, current>>
        /\ ppc # "reset" /\ ppc' # "reset"
        /\ ppc' = "closed" => cancelled \/ ~LookupProviders \/ slot = Total
    BY <1>3 DEF MeasureEnds, RunReturns, RunCancelled
  <2>2. Done' = Done /\ InFlight' = InFlight
    BY <1>1, <2>1, SameList DEF Done, InFlight
  <2>3. QED
    BY <1>1, <1>2, <2>1, <2>2, SameList
<1>4. CASE RunFails
  <2>1. /\ UNCHANGED <<mpc, current, ppc>> /\ ppc = "probe" /\ slot < Total
        /\ failed' = failed \cup {slot} /\ slot' = slot + 1
    BY <1>4 DEF RunFails
  <2>2. slot \in Slots /\ slot \notin Done
    BY <1>2, <2>1 DEF Slots, Done
  <2>3. Done' = Done \cup {slot}
    <3>1. \A k \in Slots : k < slot + 1 <=> k < slot \/ k = slot
      BY <1>2 DEF Slots
    <3>2. QED
      BY <1>1, <2>1, <2>2, <3>1, SameList DEF Done
  <2>4. InFlight' = InFlight
    BY <2>1 DEF InFlight
  <2>5. QED
    BY <1>1, <1>2, <2>1, <2>2, <2>3, <2>4, SameList
<1>5. CASE SendProbe
  <2>1. /\ ppc = "send" /\ mpc = "select" /\ mpc' = "insertProbe"
        /\ current' = [slot |-> slot] /\ failed' = failed
        /\ \/ ppc' = "reset" /\ slot' = slot
           \/ ppc' = "probe" /\ slot' = slot + 1
    BY <1>5 DEF SendProbe, Receive
  <2>2. slot \in Slots /\ slot \notin Done
    BY <1>2, <2>1 DEF Slots, Done
  <2>3. Done' = Done \cup {slot}
    <3>1. \A k \in Slots : k < slot + 1 <=> k < slot \/ k = slot
      BY <1>2 DEF Slots
    <3>2. QED
      BY <1>1, <2>1, <2>2, <3>1, SameList DEF Done
  <2>4. InFlight = {} /\ InFlight' = {slot}
    BY <2>1 DEF InFlight
  <2>5. QED
    BY <1>1, <1>2, <2>1, <2>2, <2>3, <2>4, SameList
<1>6. CASE Reset
  <2>1. /\ UNCHANGED <<mpc, current, failed>>
        /\ ppc = "reset" /\ ppc' = "probe" /\ slot' = slot + 1
    BY <1>6 DEF Reset
  <2>2. Done' = Done
    <3>1. \A k \in Slots : k < slot + 1 <=> k < slot \/ k = slot
      BY <1>2 DEF Slots
    <3>2. QED
      BY <1>1, <2>1, <3>1, SameList DEF Done
  <2>3. InFlight' = InFlight
    BY <2>1 DEF InFlight
  <2>4. QED
    BY <1>1, <1>2, <2>1, <2>2, <2>3, SameList
<1>7. QED
  BY <1>3, <1>4, <1>5, <1>6 DEF MeasureStep

LEMMA AccountedFind ==
    ASSUME Typed, Accounted, FindStep
    PROVE  Accounted'
<1>1. /\ UNCHANGED listVars
      /\ UNCHANGED <<open, outcome, cancelled, probeRows, ppc, slot, failed>>
      /\ \/ UNCHANGED <<mpc, current>>
         \/ mpc = "select" /\ mpc' = "insertProvider"
  BY DEF FindStep, FindEnds, Resolve, Find, FindFails, SendProvider, Receive,
         mainVars, measureVars, rowVars
<1>2. Done' = Done /\ InFlight' = InFlight
  BY <1>1, SameList DEF Done, InFlight
<1>3. QED
  BY <1>1, <1>2, SameList DEF Accounted

THEOREM AccountedAlways == Spec => []Accounted
<1>1. Init => Accounted
  <2>1. SUFFICES ASSUME Init PROVE Accounted
    OBVIOUS
  <2>2. Done = {}
    BY <2>1 DEF Init, Done, Slots
  <2>3. InFlight = {}
    BY <2>1 DEF Init, InFlight
  <2>4. QED
    BY <2>1, <2>2, <2>3 DEF Init, Accounted, Channels
<1>2. ASSUME Typed, Accounted, [Next]_vars
      PROVE  Accounted'
  <2>1. CASE Cancel \/ UNCHANGED vars
    <3>1. /\ UNCHANGED listVars
          /\ UNCHANGED <<mpc, current, open, outcome, probeRows, ppc, slot,
                         failed>>
          /\ cancelled => cancelled'
      BY <2>1 DEF Cancel, vars, mainVars, measureVars, rowVars
    <3>2. Done' = Done /\ InFlight' = InFlight
      BY <3>1, SameList DEF Done, InFlight
    <3>3. QED
      BY <1>2, <3>1, <3>2, SameList DEF Accounted
  <2>2. QED
    BY <1>2, <2>1, AccountedMain, AccountedMeasure, AccountedFind
       DEF Next, Terminated
<1>3. QED
  BY <1>1, <1>2, TypedAlways, PTL DEF Spec

\* A run that ends in order has a row for each result: main leaves its loop
\* when measureWebsites has closed its channel, and by then each of its
\* measurements has failed or was received and recorded.
THEOREM Recorded == Spec => []EveryResultIsRecorded
<1>1. Typed /\ Accounted => EveryResultIsRecorded
  <2>1. SUFFICES ASSUME Typed, Accounted, outcome = "ok", ~cancelled,
                        LookupProviders
                 PROVE  probeRows = Slots \ failed
    BY DEF EveryResultIsRecorded
  <2>2. slot = Total /\ mpc \in {"close", "done"} /\ Total \in Nat
    BY <2>1, ListFacts DEF Accounted, Typed, TypeOK
  <2>3. Done = Slots /\ InFlight = {}
    BY <2>2 DEF Done, InFlight, Slots
  <2>4. QED
    BY <2>1, <2>3 DEF Accounted, Typed, TypeOK
<1>2. QED
  BY <1>1, TypedAlways, AccountedAlways, PTL

-----------------------------------------------------------------------------
(* Sends: main gives up a channel only when its producer has closed it.     *)

\* Accounted says the same of the other channel.
Closed ==
    /\ "providers" \notin open => fpc = "closed"
    /\ outcome = "running" => open # {}

LEMMA ClosedStep ==
    ASSUME Typed, Accounted, Closed, [Next]_vars
    PROVE  Closed'
<1> USE DEF Closed, mainVars, findVars
<1>1. CASE Start
  <2>1. /\ open' = open /\ fpc = "off"
        /\ outcome = "running"
    BY <1>1 DEF Start, Typed, Unstarted, Accounted
  <2>2. "providers" \in open
    BY <2>1
  <2>3. QED
    BY <2>1, <2>2
<1>2. CASE ChannelClosed("probes", ppc = "closed")
  <2>1. /\ open' = open \ {"probes"} /\ fpc' = fpc
        /\ outcome' = "running" => open' # {}
    BY <1>2 DEF ChannelClosed, Return
  <2>2. QED
    BY <2>1
<1>3. CASE ChannelClosed("providers", fpc = "closed")
  <2>1. /\ fpc = "closed" /\ fpc' = fpc
        /\ outcome' = "running" => open' # {}
    BY <1>3 DEF ChannelClosed, Return
  <2>2. QED
    BY <2>1
<1>4. CASE InsertProbe \/ InsertProvider
  <2>1. /\ open' = open /\ fpc' = fpc
        /\ outcome' \in {outcome, "error"}
    BY <1>4 DEF InsertProbe, InsertProvider, Return
  <2>2. QED
    BY <2>1
<1>5. CASE CloseDB \/ Cancel \/ UNCHANGED vars
  BY <1>5 DEF CloseDB, Cancel, vars
<1>6. CASE MeasureStep
  <2>1. UNCHANGED <<open, fpc, outcome>>
    BY <1>6 DEF MeasureStep, MeasureEnds, RunReturns, RunFails, RunCancelled,
       SendProbe, Receive, Reset
  <2>2. QED
    BY <2>1
<1>7. CASE FindStep
  <2>1. UNCHANGED <<open, outcome>> /\ fpc # "closed"
    BY <1>7 DEF FindStep, FindEnds, Resolve, Find, FindFails, SendProvider,
       Receive
  <2>2. QED
    BY <2>1
<1>8. QED
  BY <1>1, <1>2, <1>3, <1>4, <1>5, <1>6, <1>7 DEF Next, MainStep, Terminated

THEOREM ClosedAlways == Spec => []Closed
<1>1. Init => Closed
  BY DEF Init, Closed, Channels
<1>2. QED
  BY <1>1, ClosedStep, TypedAlways, AccountedAlways, PTL DEF Spec

\* Main receives whatever a producer has to send, and leaves its loop in order
\* when there is nothing more to come.
THEOREM Received == Spec => []SendsAreReceived
<1>1. ASSUME Typed, Accounted, Closed
      PROVE  SendsAreReceived
  <2>1. ASSUME outcome = "ok"
        PROVE  ppc = "closed" /\ fpc = "closed" /\ pending = NoProviders
    BY <1>1, <2>1 DEF Accounted, Closed, Typed, Places
  <2>2. ASSUME outcome = "ok"
        PROVE  current = Nothing
    <3>1. mpc \in {"close", "done"}
      BY <1>1, <2>2 DEF Accounted
    <3>2. QED
      BY <1>1, <3>1 DEF Typed, Carried
  <2>3. QED
    BY <1>1, <2>1, <2>2 DEF SendsAreReceived, Accounted, Closed
<1>2. QED
  BY <1>1, TypedAlways, AccountedAlways, ClosedAlways, PTL

-----------------------------------------------------------------------------
(* Providers: what the answer for an entry of the list named is recorded,   *)
(* is what main is recording, or is still to be handed over.                *)

Recording(i, p) ==
    IF mpc = "insertProvider" /\ current.site = i /\ current.peer = p
    THEN 1 ELSE 0
Awaited(i, p) == IF i = site THEN pending[p] ELSE 0
Reached(i) == i < site \/ (i = site /\ fpc = "send")

\* A failed insert, which ends the run, loses the one provider it was about.
Kept ==
    \A i \in 1..MaxSites : \A p \in Peers :
        /\ provRows[i][p] + Recording(i, p) + Awaited(i, p) <= found[i][p]
        /\ outcome # "error" =>
              provRows[i][p] + Recording(i, p) + Awaited(i, p) = found[i][p]
        /\ ~Reached(i) => found[i][p] = 0

LEMMA CountTypes ==
    ASSUME Typed, NEW i \in 1..MaxSites, NEW p \in Peers
    PROVE  /\ provRows[i][p] \in Nat /\ found[i][p] \in Nat
           /\ pending[p] \in Nat /\ site \in Nat /\ i \in Nat
           /\ Recording(i, p) \in {0, 1} /\ Awaited(i, p) \in Nat
<1>1. /\ pending \in [Peers -> 0..MaxRepeats]
      /\ found[i] \in [Peers -> 0..MaxRepeats]
      /\ provRows[i] \in [Peers -> Nat]
      /\ MaxRepeats \in Nat
  BY WebsitesAssumption DEF Typed, TypeOK, Answers
<1>2. provRows[i][p] \in Nat /\ found[i][p] \in Nat /\ pending[p] \in Nat
  BY <1>1
<1>3. site \in Nat /\ i \in Nat
  BY SiteInRange DEF Typed, TypeOK
<1>4. QED
  BY <1>2, <1>3 DEF Recording, Awaited

\* Steps that neither record nor look up a provider.
LEMMA KeptElsewhere ==
    ASSUME Typed, Kept, UNCHANGED <<site, fpc, pending, found, provRows>>,
           \A i \in 1..MaxSites, p \in Peers :
              Recording(i, p)' = Recording(i, p),
           outcome' # "error" => outcome # "error"
    PROVE  Kept'
BY DEF Kept, Awaited, Reached

LEMMA KeptMain ==
    ASSUME Typed, Accounted, Kept, MainStep
    PROVE  Kept'
<1>1. CASE InsertProvider
  <2> DEFINE j == current.site
             q == current.peer
  <2>1. /\ j \in 1..MaxSites /\ q \in Peers
        /\ mpc = "insertProvider" /\ mpc' # "insertProvider"
        /\ UNCHANGED <<site, fpc, pending, found>>
        /\ \/ /\ provRows' = [provRows EXCEPT ![j][q] = @ + 1]
              /\ outcome' = outcome
           \/ provRows' = provRows /\ outcome' = "error"
    BY <1>1 DEF InsertProvider, Return, Typed, Carried, Provider, findVars
  <2>2. ASSUME NEW i \in 1..MaxSites, NEW p \in Peers
        PROVE  /\ Recording(i, p)' = 0
               /\ Recording(i, p) = IF i = j /\ p = q THEN 1 ELSE 0
               /\ Awaited(i, p)' = Awaited(i, p) /\ Reached(i)' = Reached(i)
    BY <2>1 DEF Recording, Awaited, Reached
  <2>3. ASSUME NEW i \in 1..MaxSites, NEW p \in Peers
        PROVE  \/ /\ provRows'[i][p] = provRows[i][p] + Recording(i, p)
                  /\ outcome' = outcome
               \/ provRows'[i][p] = provRows[i][p] /\ outcome' = "error"
    <3>1. CASE provRows' = [provRows EXCEPT ![j][q] = @ + 1]
               /\ outcome' = outcome
      <4>1. provRows[j] \in [Peers -> Nat] /\ provRows[i] \in [Peers -> Nat]
        BY <2>1 DEF Typed, TypeOK
      <4>2. provRows'[i] = IF i = j THEN [provRows[j] EXCEPT ![q] = @ + 1]
                                    ELSE provRows[i]
        BY <2>1, <3>1 DEF Typed, TypeOK
      <4>3. provRows'[i][p] = IF i = j /\ p = q THEN provRows[i][p] + 1
                                                ELSE provRows[i][p]
        BY <4>1, <4>2
      <4>4. QED
        BY <2>2, <3>1, <4>3, CountTypes
    <3>2. QED
      BY <2>1, <3>1
  <2>4. ASSUME NEW i \in 1..MaxSites, NEW p \in Peers
        PROVE  /\ provRows'[i][p] + Awaited(i, p) <= found[i][p]
               /\ outcome' # "error" =>
                     provRows'[i][p] + Awaited(i, p) = found[i][p]
    BY <2>3, CountTypes DEF Kept
  <2>5. ASSUME NEW i \in 1..MaxSites, NEW p \in Peers
        PROVE  /\ provRows'[i][p] + Recording(i, p)' + Awaited(i, p)'
                     = provRows'[i][p] + Awaited(i, p)
               /\ found'[i][p] = found[i][p] /\ Reached(i)' = Reached(i)
    <3>1. provRows'[i][p] \in Nat
      BY <2>3, CountTypes
    <3>2. QED
      BY <2>1, <2>2, <3>1, CountTypes
  <2>6. QED
    BY <2>4, <2>5 DEF Kept
<1>2. CASE ~InsertProvider
  <2>1. CASE Start
    <3>1. /\ UNCHANGED <<site, pending, found, provRows>>
          /\ mpc' # "insertProvider" /\ mpc # "insertProvider"
          /\ outcome = "running" /\ fpc # "send" /\ fpc' # "send"
      BY <1>2, <2>1 DEF Start, Return, Typed, Unstarted, Accounted, rowVars
    <3>2. \A i \in 1..MaxSites, p \in Peers :
             /\ Recording(i, p)' = Recording(i, p)
             /\ Awaited(i, p)' = Awaited(i, p) /\ Reached(i)' = Reached(i)
      BY <3>1 DEF Recording, Awaited, Reached
    <3>3. QED
      BY <3>1, <3>2 DEF Kept
  <2>2. CASE ~Start
    <3>1. /\ UNCHANGED <<site, fpc, pending, found, provRows>>
          /\ mpc # "insertProvider" /\ mpc' # "insertProvider"
          /\ outcome = "error" => outcome' = "error"
      BY <1>2, <2>2
         DEF MainStep, ChannelClosed, InsertProbe, CloseDB, Return, Typed,
             TypeOK, Accounted, findVars, rowVars
    <3>2. \A i \in 1..MaxSites, p \in Peers :
             Recording(i, p)' = Recording(i, p)
      BY <3>1 DEF Recording
    <3>3. QED
      BY <3>1, <3>2, KeptElsewhere
  <2>3. QED
    BY <2>1, <2>2
<1>3. QED
  BY <1>1, <1>2

\* No answer: nothing is handed over, and the next one is for an entry of the
\* list that has none yet.
LEMMA KeptUnanswered ==
    ASSUME Typed, Kept, FindEnds \/ Resolve \/ FindFails
    PROVE  Kept'
<1>1. /\ UNCHANGED <<mpc, current, outcome, pending, found, provRows>>
      /\ pending = NoProviders /\ fpc # "send"
      /\ site' \in {site, site + 1}
  BY DEF FindEnds, Resolve, FindFails, NextSite, Typed, Places, mainVars,
         rowVars
<1>2. ASSUME NEW i \in 1..MaxSites, NEW p \in Peers
      PROVE  /\ Recording(i, p)' = Recording(i, p)
             /\ Awaited(i, p)' = Awaited(i, p)
             /\ ~Reached(i)' => ~Reached(i)
  BY <1>1, CountTypes DEF Recording, Awaited, Reached, NoProviders
<1>3. QED
  BY <1>1, <1>2 DEF Kept

LEMMA KeptFind ==
    ASSUME Typed, Kept, Find
    PROVE  Kept'
<1>1. /\ UNCHANGED <<mpc, current, outcome, provRows>>
      /\ pending = NoProviders /\ fpc = "find" /\ site \in 1..MaxSites
      /\ pending' \in Answers
      /\ found' = [found EXCEPT ![site] = pending']
      /\ \/ pending' = NoProviders /\ site' = site + 1
         \/ site' = site /\ fpc' = "send"
  BY SiteInRange DEF Find, NextSite, Typed, TypeOK, Places, mainVars, rowVars
<1>2. PICK j \in 1..MaxSites : j = site
  BY <1>1
<1>3. ASSUME NEW p \in Peers
      PROVE  /\ found'[j][p] = pending'[p] /\ Reached(j)'
             /\ provRows[j][p] = 0 /\ Recording(j, p) = 0
             /\ Awaited(j, p)' = pending'[p] /\ pending'[p] \in Nat
  <2>1. ~Reached(j)
    BY <1>1, <1>2, CountTypes DEF Reached
  <2>2. found[j][p] = 0
    BY <1>1, <1>2, <2>1 DEF Kept
  <2>3. provRows[j][p] = 0 /\ Recording(j, p) = 0
    BY <1>1, <1>2, <2>2, CountTypes DEF Kept
  <2>4. Awaited(j, p)' = pending'[p] /\ Reached(j)'
    BY <1>1, <1>2, CountTypes DEF Awaited, Reached, NoProviders
  <2>5. QED
    BY <1>1, <1>2, <2>3, <2>4, WebsitesAssumption DEF Typed, TypeOK, Answers
<1>4. ASSUME NEW i \in 1..MaxSites \ {j}, NEW p \in Peers
      PROVE  /\ found'[i][p] = found[i][p]
             /\ Awaited(i, p)' = 0 /\ Awaited(i, p) = 0
             /\ ~Reached(i)' => ~Reached(i)
  <2>1. found'[i][p] = found[i][p]
    BY <1>1, <1>2, <1>4 DEF Typed, TypeOK
  <2>2. QED
    BY <1>1, <1>2, <1>4, <2>1, CountTypes DEF Awaited, Reached, NoProviders
<1>5. \A i \in 1..MaxSites, p \in Peers : Recording(i, p)' = Recording(i, p)
  BY <1>1, <1>2 DEF Recording
<1>6. ASSUME NEW i \in 1..MaxSites, NEW p \in Peers
      PROVE  /\ provRows'[i][p] + Recording(i, p)' + Awaited(i, p)'
                   <= found'[i][p]
             /\ outcome' # "error" =>
                   provRows'[i][p] + Recording(i, p)' + Awaited(i, p)'
                      = found'[i][p]
             /\ ~Reached(i)' => found'[i][p] = 0
  <2>1. CASE i = j
    BY <1>1, <1>2, <1>3, <1>5, <2>1
  <2>2. CASE i # j
    BY <1>1, <1>2, <1>4, <1>5, <2>2 DEF Kept
  <2>3. QED
    BY <2>1, <2>2
<1>7. QED
  BY <1>6 DEF Kept

LEMMA KeptSend ==
    ASSUME Typed, Kept, SendProvider
    PROVE  Kept'
<1>1. PICK q \in Peers :
         /\ pending[q] > 0
         /\ current' = [site |-> site, peer |-> q]
         /\ mpc' = "insertProvider"
         /\ pending' = [pending EXCEPT ![q] = @ - 1]
  BY DEF SendProvider, Receive
<1>2. /\ UNCHANGED <<outcome, found, provRows>>
      /\ mpc = "select" /\ fpc = "send"
      /\ \/ pending' = NoProviders /\ site' = site + 1
         \/ site' = site /\ fpc' = "send"
  BY DEF SendProvider, AfterProviders, NextSite, rowVars
<1>3. ASSUME NEW i \in 1..MaxSites, NEW p \in Peers
      PROVE  /\ Recording(i, p) = 0
             /\ Recording(i, p)' + Awaited(i, p)' = Awaited(i, p)
             /\ ~Reached(i)' => ~Reached(i)
  <2>1. Recording(i, p) = 0 /\ (~Reached(i)' => ~Reached(i))
    BY <1>2, CountTypes DEF Recording, Reached
  <2>2. Recording(i, p)' = IF i = site /\ p = q THEN 1 ELSE 0
    BY <1>1 DEF Recording
  <2>3. pending'[p] = IF p = q THEN pending[p] - 1 ELSE pending[p]
    BY <1>1 DEF Typed, TypeOK, Answers
  <2>4. Awaited(i, p)' = IF i = site THEN pending'[p] ELSE 0
    BY <1>2, CountTypes DEF Awaited, NoProviders
  <2>5. QED
    BY <2>1, <2>2, <2>3, <2>4, CountTypes DEF Awaited
<1>4. ASSUME NEW i \in 1..MaxSites, NEW p \in Peers
      PROVE  provRows'[i][p] + Recording(i, p)' + Awaited(i, p)'
                = provRows[i][p] + Recording(i, p) + Awaited(i, p)
  <2>1. Recording(i, p)' \in Int /\ Awaited(i, p)' \in Int
    <3>1. pending'[p] \in Int
      BY <1>1, CountTypes DEF Typed, TypeOK, Answers
    <3>2. QED
      BY <3>1 DEF Recording, Awaited
  <2>2. QED
    BY <1>2, <1>3, <2>1, CountTypes
<1>5. QED
  BY <1>2, <1>3, <1>4 DEF Kept

THEOREM KeptAlways == Spec => []Kept
<1>1. Init => Kept
  BY WebsitesAssumption
     DEF Init, Kept, Recording, Awaited, Reached, NoProviders
<1>2. ASSUME Typed, Accounted, Kept, [Next]_vars
      PROVE  Kept'
  <2>1. CASE MeasureStep \/ Cancel \/ UNCHANGED vars
    <3>1. /\ UNCHANGED <<site, fpc, pending, found, provRows, outcome>>
          /\ \/ UNCHANGED <<mpc, current>>
             \/ mpc = "select" /\ mpc' = "insertProbe"
      BY <2>1 DEF MeasureStep, MeasureEnds, RunReturns, RunFails,
                  RunCancelled, SendProbe, Receive, Reset, Cancel, vars,
                  mainVars, findVars, rowVars
    <3>2. \A i \in 1..MaxSites, p \in Peers :
             Recording(i, p)' = Recording(i, p)
      BY <3>1 DEF Recording
    <3>3. QED
      BY <1>2, <3>1, <3>2, KeptElsewhere
  <2>2. QED
    BY <1>2, <2>1, KeptMain, KeptUnanswered, KeptFind, KeptSend
       DEF Next, FindStep, Terminated
<1>3. QED
  BY <1>1, <1>2, TypedAlways, AccountedAlways, PTL DEF Spec

\* However often a website is retried or listed and however often an answer
\* repeats a provider, what is recorded for an entry of the list are the events
\* of one answer, and all of them when the run ends without an error.
THEOREM RecordedAsFound == Spec => []ProvidersAreThoseFound
<1>1. ASSUME Typed, Kept
      PROVE  \A i \in 1..MaxSites, p \in Peers : provRows[i][p] <= found[i][p]
  <2>1. TAKE i \in 1..MaxSites, p \in Peers
  <2>2. QED
    BY <1>1, CountTypes DEF Kept
<1>2. ASSUME Typed, Accounted, Closed, Kept, outcome = "ok"
      PROVE  provRows = found
  <2>1. mpc # "insertProvider" /\ pending = NoProviders
    BY <1>2 DEF Accounted, Closed, Typed, Places
  <2>2. ASSUME NEW i \in 1..MaxSites, NEW p \in Peers
        PROVE  provRows[i][p] = found[i][p]
    <3>1. Recording(i, p) = 0 /\ Awaited(i, p) = 0
      BY <2>1 DEF Recording, Awaited, NoProviders
    <3>2. QED
      BY <1>2, <3>1, CountTypes DEF Kept
  <2>3. ASSUME NEW i \in 1..MaxSites
        PROVE  provRows[i] = found[i]
    <3>1. /\ provRows[i] \in [Peers -> Nat]
          /\ found[i] \in [Peers -> 0..MaxRepeats]
      BY <1>2 DEF Typed, TypeOK, Answers
    <3>2. QED
      BY <2>2, <3>1
  <2>4. /\ provRows = [i \in 1..MaxSites |-> provRows[i]]
        /\ found = [i \in 1..MaxSites |-> found[i]]
    BY <1>2 DEF Typed, TypeOK
  <2>5. QED
    BY <2>3, <2>4
<1>3. Typed /\ Accounted /\ Closed /\ Kept => ProvidersAreThoseFound
  BY <1>1, <1>2 DEF ProvidersAreThoseFound
<1>4. QED
  BY <1>3, TypedAlways, AccountedAlways, ClosedAlways, KeptAlways, PTL

-----------------------------------------------------------------------------
(* What Kubo's block store holds, and why.                                  *)

Excused(s) ==
    \/ s \in leftover
    \/ \E k \in failed : IsIPFS(k) /\ SiteOf(k) = s

BeingMeasured(s) ==
    ppc \in {"send", "reset", "closed"} /\ IsIPFS(slot) /\ SiteOf(slot) = s

Warm == \A s \in cached : Excused(s) \/ BeingMeasured(s)

\* What a measurement through Kubo fetched is there while it is handed over.
LEMMA WarmFetched ==
    ASSUME Warm, Measuring, Fetched, NEW s \in cached'
    PROVE  Excused(s) \/ (IsIPFS(slot) /\ SiteOf(slot) = s)
BY DEF Warm, Measuring, Fetched, BeingMeasured

LEMMA WarmMeasure ==
    ASSUME Typed, Warm, MeasureStep
    PROVE  Warm'
<1> USE DEF mainVars, measureVars, kuboVars
<1>1. websites' = websites
  BY DEF MeasureStep, MeasureEnds, RunReturns, RunFails, RunCancelled,
         SendProbe, Reset, listVars
<1>2. \A k : IsIPFS(k)' = IsIPFS(k) /\ SiteOf(k)' = SiteOf(k)
  BY <1>1 DEF IsIPFS, SiteOf
<1>3. CASE MeasureEnds
  BY <1>3, <1>2 DEF MeasureEnds, Warm, Excused, BeingMeasured, IsIPFS, SiteOf
<1>4. CASE RunReturns \/ RunCancelled
  <2>1. /\ Measuring /\ Fetched /\ ppc' \in {"send", "closed"}
        /\ UNCHANGED <<slot, failed, leftover>>
    BY <1>4 DEF RunReturns, RunCancelled, Fetched
  <2>2. QED
    BY <1>1, <2>1, WarmFetched DEF Warm, Excused, BeingMeasured, IsIPFS, SiteOf
<1>5. CASE RunFails
  <2>1. /\ Measuring /\ Fetched /\ leftover' = leftover
        /\ failed' = failed \cup {slot}
    BY <1>5 DEF RunFails, Fetched
  <2>2. QED
    BY <1>1, <2>1, WarmFetched DEF Warm, Excused, IsIPFS, SiteOf
<1>6. CASE SendProbe
  <2>1. /\ UNCHANGED <<failed, leftover, cached>> /\ ppc = "send"
        /\ IsIPFS(slot) => ppc' = "reset" /\ slot' = slot
    BY <1>6 DEF SendProbe, NeedsReset
  <2>2. QED
    BY <1>1, <2>1 DEF Warm, Excused, BeingMeasured, IsIPFS, SiteOf
<1>7. CASE Reset
  <2>1. leftover' = cached'
    BY <1>7 DEF Reset
  <2>2. QED
    BY <2>1 DEF Warm, Excused
<1>8. QED
  BY <1>3, <1>4, <1>5, <1>6, <1>7 DEF MeasureStep

THEOREM WarmAlways == Spec => []Warm
<1>1. Init => Warm
  BY DEF Init, Warm, Excused
<1>2. ASSUME Typed, Warm, [Next]_vars
      PROVE  Warm'
  <2>1. CASE Start
    <3>1. /\ failed = {} /\ ppc = "off"
          /\ UNCHANGED <<cached, leftover>>
      BY <1>2, <2>1 DEF Start, Typed, Unstarted, kuboVars
    <3>2. cached \subseteq leftover
      BY <1>2, <3>1 DEF Warm, Excused, BeingMeasured
    <3>3. QED
      BY <3>1, <3>2 DEF Warm, Excused
  <2>2. CASE ~Start /\ ~MeasureStep
    <3>1. UNCHANGED <<websites, cached, leftover, failed, ppc, slot>>
      BY <1>2, <2>2
         DEF Next, MainStep, ChannelClosed, InsertProbe, InsertProvider,
             CloseDB, FindStep, FindEnds, Resolve, Find, FindFails,
             SendProvider, Cancel, Terminated, vars, mainVars, listVars,
             measureVars, kuboVars
    <3>2. QED
      BY <1>2, <3>1 DEF Warm, Excused, BeingMeasured, IsIPFS, SiteOf
  <2>3. QED
    BY <1>2, <2>1, <2>2, WarmMeasure
<1>3. QED
  BY <1>1, <1>2, TypedAlways, PTL DEF Spec

\* A website that a measurement finds in Kubo's store is there because it was
\* there before the run and no Kubo.Reset has removed it, because the last
\* Kubo.Reset failed, or because an earlier measurement of it did.
THEOREM WarmForAReason == Spec => []WarmHasAReason
<1>1. Warm => WarmHasAReason
  BY DEF Warm, Excused, BeingMeasured, Measuring, WarmHasAReason
<1>2. QED
  BY <1>1, WarmAlways, PTL
=============================================================================
