---------------------------- MODULE WebsitesProbe ----------------------------
(***************************************************************************)
(* `tiros probe websites` of cmd/tiros/cmd_probe_websites.go with          *)
(* WebsiteProbe.Run of pkg/ws and Kubo.FindProviders of pkg/kubo.          *)
(*                                                                         *)
(* Two producers, measureWebsites and findAllProviders, hand their results *)
(* to the main goroutine over unbuffered channels that they close when     *)
(* they are done; main records each result in the database and stops when  *)
(* both channels are closed.  The producers share Kubo, whose block store  *)
(* the measurements have to keep cold.                                     *)
(***************************************************************************)
EXTENDS Naturals, Sequences, FiniteSets

CONSTANTS
    Websites,         \* the websites to probe
    Peers,            \* the providers Kubo can find for a website
    MaxProbes,        \* the largest --probes, how often a website is measured
    MaxSites,         \* bound: the entries of a list of websites
    SiteLists,        \* the lists --websites or the database may give
    MaxRounds,        \* bound: --probes times the websites listed
    MaxRepeats,       \* bound: how often an answer names the same provider
    LookupProviders   \* --lookup.providers

ASSUME WebsitesAssumption ==
    /\ IsFiniteSet(Websites)
    /\ MaxProbes \in Nat
    /\ MaxSites \in Nat
    /\ SiteLists \subseteq UNION {[1..n -> Websites] : n \in 0..MaxSites}
    /\ MaxRounds \in Nat
    /\ MaxRepeats \in Nat
    /\ LookupProviders \in BOOLEAN

VARIABLES
    probes,      \* --probes
    websites,    \* the shuffled list
    mpc,         \* where the main goroutine is
    open,        \* the channels main still receives from
    current,     \* the result main is recording
    outcome,     \* how probeWebsitesAction ends
    ppc,         \* where measureWebsites is
    slot,        \* which of its measurements, in the order of its three loops
    fpc,         \* where findAllProviders is
    site,        \* the position of its website in the list
    retry,       \* its attempts for that website
    pending,     \* what FindProviders has yet to hand over of providerPeers
    found,       \* the answer read to its end for each position of the list
    cached,      \* the websites in Kubo's block store
    leftover,    \* those there when the run began, or that the last Kubo.Reset
                 \* failed to remove
    failed,      \* the measurements whose Run returned an error
    probeRows,   \* the measurements recorded
    provRows,    \* how often each provider was recorded for each position
    cancelled    \* the root context is cancelled

listVars == <<probes, websites>>
mainVars == <<listVars, mpc, open, current, outcome>>
measureVars == <<ppc, slot, failed>>
findVars == <<fpc, site, retry, pending, found>>
kuboVars == <<cached, leftover>>
rowVars == <<probeRows, provRows>>
vars == <<mainVars, measureVars, findVars, kuboVars, rowVars, cancelled>>

Retries == 3
\* A list may be empty and may have a website twice.
Lists == {list \in SiteLists : probes * Len(list) <= MaxRounds}
\* How often an answer names each provider: its events are not deduplicated.
Answers == [Peers -> 0..MaxRepeats]
NoProviders == [p \in Peers |-> 0]
Channels == {"probes", "providers"}
Nothing == [kind |-> "none"]

Total == probes * 2 * Len(websites)
Slots == 0..(Total - 1)
SiteOf(k) == websites[(k % Len(websites)) + 1]
IsIPFS(k) == (k \div Len(websites)) % 2 = 0
ProbeResult == [slot : Slots]
Provider == [site : 1..MaxSites, peer : Peers]

TypeOK ==
    /\ probes \in 0..MaxProbes
    /\ websites \in {<<>>} \cup Lists
    /\ mpc \in {"start", "select", "insertProbe", "insertProvider", "close",
                "done"}
    /\ open \in SUBSET Channels
    /\ current \in {Nothing} \cup ProbeResult \cup Provider
    /\ outcome \in {"running", "ok", "error"}
    /\ ppc \in {"off", "probe", "send", "reset", "closed"}
    /\ slot \in 0..Total
    /\ fpc \in {"off", "resolve", "find", "send", "closed"}
    /\ site \in 1..(Len(websites) + 1)
    /\ retry \in 0..(Retries - 1)
    /\ pending \in Answers
    /\ found \in [1..MaxSites -> Answers]
    /\ cached \in SUBSET Websites
    /\ leftover \in SUBSET Websites
    /\ failed \in SUBSET Slots
    /\ probeRows \in SUBSET Slots
    /\ provRows \in [1..MaxSites -> [Peers -> Nat]]
    /\ cancelled \in BOOLEAN

Init ==
    /\ probes \in 0..MaxProbes
    /\ websites = <<>>
    /\ mpc = "start"
    /\ open = Channels
    /\ current = Nothing
    /\ outcome = "running"
    /\ ppc = "off"
    /\ slot = 0
    /\ fpc = "off"
    /\ site = 1
    /\ retry = 0
    /\ pending = NoProviders
    /\ found = [i \in 1..MaxSites |-> NoProviders]
    /\ cached \in SUBSET Websites      \* Kubo outlives the runs of the command
    /\ leftover = cached
    /\ failed = {}
    /\ probeRows = {}
    /\ provRows = [i \in 1..MaxSites |-> NoProviders]
    /\ cancelled = FALSE

-----------------------------------------------------------------------------
(* The main goroutine.                                                     *)

\* The producers run until the process ends, which is when main returns.
Alive == mpc # "done"

Return(how) == mpc' = "close" /\ outcome' = how

\* Kubo is available and the list is known and shuffled, or the run ends.
Start ==
    /\ mpc = "start"
    /\ \/ /\ websites' \in Lists
          /\ mpc' = "select"
          /\ ppc' = "probe"
          /\ fpc' = "resolve"
          /\ UNCHANGED outcome
       \/ Return("error") /\ UNCHANGED <<websites, ppc, fpc>>
    /\ UNCHANGED <<probes, open, current, slot, failed, site, retry, pending,
                   found, kuboVars, rowVars, cancelled>>

\* Mutant of ChannelClosed: the loop ends with the first closed channel.
AnyChannelClosed(ch, closed) ==
    /\ mpc = "select"
    /\ ch \in open
    /\ closed
    /\ open' = open \ {ch}
    /\ Return("ok")
    /\ UNCHANGED <<listVars, current, measureVars, findVars, kuboVars,
                   rowVars, cancelled>>

\* Mutant of ChannelClosed: the branch sets the other channel to nil.
OtherChannelClosed(ch, closed) ==
    /\ mpc = "select"
    /\ ch \in open
    /\ closed
    /\ open' = open \cap {ch}
    /\ IF open' = {} THEN Return("ok") ELSE UNCHANGED <<mpc, outcome>>
    /\ UNCHANGED <<listVars, current, measureVars, findVars, kuboVars,
                   rowVars, cancelled>>

\* A closed channel is set to nil; the loop ends when both are.
ChannelClosed(ch, closed) ==
    /\ mpc = "select"
    /\ ch \in open
    /\ closed
    /\ open' = open \ {ch}
    /\ IF open' = {} THEN Return("ok") ELSE UNCHANGED <<mpc, outcome>>
    /\ UNCHANGED <<listVars, current, measureVars, findVars, kuboVars,
                   rowVars, cancelled>>

Receive(result, at) == current' = result /\ mpc' = at

InsertProbe ==
    /\ mpc = "insertProbe"
    /\ \/ /\ probeRows' = probeRows \cup {current.slot}
          /\ mpc' = "select"
          /\ UNCHANGED outcome
       \/ Return("error") /\ UNCHANGED probeRows
    /\ current' = Nothing
    /\ UNCHANGED <<listVars, open, measureVars, findVars, kuboVars, provRows,
                   cancelled>>

InsertProvider ==
    /\ mpc = "insertProvider"
    /\ \/ /\ provRows' = [provRows EXCEPT ![current.site][current.peer] = @ + 1]
          /\ mpc' = "select"
          /\ UNCHANGED outcome
       \/ Return("error") /\ UNCHANGED provRows
    /\ current' = Nothing
    /\ UNCHANGED <<listVars, open, measureVars, findVars, kuboVars, probeRows,
                   cancelled>>

\* The deferred close of the database client; then the process ends.
CloseDB ==
    /\ mpc = "close"
    /\ mpc' = "done"
    /\ UNCHANGED <<listVars, open, current, outcome, measureVars, findVars,
                   kuboVars, rowVars, cancelled>>

MainStep ==
    \/ Start
    \/ ChannelClosed("probes", ppc = "closed")
    \/ ChannelClosed("providers", fpc = "closed")
    \/ InsertProbe
    \/ InsertProvider
    \/ CloseDB

-----------------------------------------------------------------------------
(* measureWebsites.                                                        *)

\* The loops end, or never start: without --lookup.providers measureWebsites
\* returns at once.
MeasureEnds ==
    /\ Alive
    /\ ppc = "probe"
    /\ ~LookupProviders \/ slot = Total
    /\ ppc' = "closed"
    /\ UNCHANGED <<mainVars, slot, failed, findVars, kuboVars, rowVars,
                   cancelled>>

Measuring ==
    /\ Alive
    /\ ppc = "probe"
    /\ LookupProviders
    /\ slot < Total

\* A measurement through Kubo's gateway may leave the website in its store,
\* however far it came.
Fetched ==
    /\ cached' \in {cached} \cup
                  (IF IsIPFS(slot) THEN {cached \cup {SiteOf(slot)}} ELSE {})
    /\ UNCHANGED leftover

\* Run returns a result, its Err set or not.
RunReturns ==
    /\ Measuring
    /\ Fetched
    /\ ppc' = "send"
    /\ UNCHANGED <<mainVars, slot, failed, findVars, rowVars, cancelled>>

\* Run returns an error: Chrome cannot be reached, its connection is lost or
\* the metrics cannot be parsed.  The measurement is skipped.
RunFails ==
    /\ Measuring
    /\ Fetched
    /\ failed' = failed \cup {slot}
    /\ slot' = slot + 1
    /\ UNCHANGED <<mainVars, ppc, findVars, rowVars, cancelled>>

\* Mutant of RunCancelled: the channel is not closed on this return.
RunCancelledOpen ==
    /\ Measuring
    /\ cancelled
    /\ Fetched
    /\ ppc' = "off"
    /\ UNCHANGED <<mainVars, slot, failed, findVars, rowVars, cancelled>>

\* ctx.Err() is checked after Run, whatever Run returned.
RunCancelled ==
    /\ Measuring
    /\ cancelled
    /\ Fetched
    /\ ppc' = "closed"
    /\ UNCHANGED <<mainVars, slot, failed, findVars, rowVars, cancelled>>

\* Mutant of NeedsReset: only the measurements of the last round reset.
NeedsResetInLastRound(k) == IsIPFS(k) /\ k + 2 * Len(websites) > Total

NeedsReset(k) == IsIPFS(k)

\* results <- pr
SendProbe ==
    /\ ppc = "send"
    /\ mpc = "select"
    /\ Receive([slot |-> slot], "insertProbe")
    /\ IF NeedsReset(slot)
       THEN ppc' = "reset" /\ UNCHANGED slot
       ELSE ppc' = "probe" /\ slot' = slot + 1
    /\ UNCHANGED <<listVars, open, outcome, failed, findVars, kuboVars,
                   rowVars, cancelled>>

\* Kubo.Reset unpins and collects garbage, and logs what fails.
Reset ==
    /\ Alive
    /\ ppc = "reset"
    /\ cached' \in SUBSET cached
    /\ leftover' = cached'
    /\ ppc' = "probe"
    /\ slot' = slot + 1
    /\ UNCHANGED <<mainVars, failed, findVars, rowVars, cancelled>>

MeasureStep ==
    \/ MeasureEnds
    \/ RunReturns
    \/ RunFails
    \/ RunCancelled
    \/ SendProbe
    \/ Reset

-----------------------------------------------------------------------------
(* findAllProviders.                                                       *)

NextSite ==
    /\ fpc' = "resolve"
    /\ site' = site + 1
    /\ retry' = 0

FindEnds ==
    /\ Alive
    /\ fpc = "resolve"
    /\ site > Len(websites)
    /\ fpc' = "closed"
    /\ UNCHANGED <<mainVars, measureVars, site, retry, pending, found, kuboVars,
                   rowVars, cancelled>>

\* name/resolve; its errors are not retried.
Resolve ==
    /\ Alive
    /\ fpc = "resolve"
    /\ site <= Len(websites)
    /\ \/ fpc' = "find" /\ UNCHANGED <<site, retry>>
       \/ NextSite
    /\ UNCHANGED <<mainVars, measureVars, pending, found, kuboVars, rowVars,
                   cancelled>>

\* routing/findprovs answers, to the end of its stream: every event of type
\* Provider is appended to providerPeers, also of a provider it already has.
Find ==
    /\ Alive
    /\ fpc = "find"
    /\ pending' \in Answers
    /\ found' = [found EXCEPT ![site] = pending']
    /\ IF pending' = NoProviders THEN NextSite
       ELSE fpc' = "send" /\ UNCHANGED <<site, retry>>
    /\ UNCHANGED <<mainVars, measureVars, kuboVars, rowVars, cancelled>>

\* Mutant of FindFails: one attempt too many.
FindFailsOffByOne ==
    /\ Alive
    /\ fpc = "find"
    /\ IF retry < Retries
       THEN fpc' = "resolve" /\ retry' = retry + 1 /\ UNCHANGED site
       ELSE NextSite
    /\ UNCHANGED <<mainVars, measureVars, pending, found, kuboVars, rowVars,
                   cancelled>>

\* The request fails, or its stream ends early: the website is retried.
FindFails ==
    /\ Alive
    /\ fpc = "find"
    /\ IF retry + 1 < Retries
       THEN fpc' = "resolve" /\ retry' = retry + 1 /\ UNCHANGED site
       ELSE NextSite
    /\ UNCHANGED <<mainVars, measureVars, pending, found, kuboVars, rowVars,
                   cancelled>>

\* Mutant of AfterProviders: the loop of the retries is not left.
AfterProvidersAgain ==
    IF retry + 1 < Retries
    THEN fpc' = "resolve" /\ retry' = retry + 1 /\ UNCHANGED site
    ELSE NextSite

AfterProviders == NextSite

\* The pool of ten goroutines asks for each provider's agent in any order.
\* The answer, or its absence, only fills columns of the row.
SendProvider ==
    /\ fpc = "send"
    /\ mpc = "select"
    /\ \E p \in {q \in Peers : pending[q] > 0} :
          /\ Receive([site |-> site, peer |-> p], "insertProvider")
          /\ pending' = [pending EXCEPT ![p] = @ - 1]
    /\ IF pending' = NoProviders THEN AfterProviders
       ELSE UNCHANGED <<fpc, site, retry>>
    /\ UNCHANGED <<listVars, open, outcome, found, measureVars, kuboVars,
                   rowVars, cancelled>>

FindStep ==
    \/ FindEnds
    \/ Resolve
    \/ Find
    \/ FindFails
    \/ SendProvider

-----------------------------------------------------------------------------

Cancel ==
    /\ Alive
    /\ ~cancelled
    /\ cancelled' = TRUE
    /\ UNCHANGED <<mainVars, measureVars, findVars, kuboVars, rowVars>>

Terminated == ~Alive /\ UNCHANGED vars

Next ==
    \/ MainStep
    \/ MeasureStep
    \/ FindStep
    \/ Cancel
    \/ Terminated

Spec == Init /\ [][Next]_vars

\* Inserts return and closed channels are noticed.  Chrome may hang in a
\* measurement and Kubo in a lookup, which have no deadline of their own, but
\* not once the context is cancelled.  Two ready senders are served both.
Fairness ==
    /\ WF_vars(MainStep)
    /\ SF_vars(SendProbe)
    /\ SF_vars(SendProvider)
    /\ WF_vars(cancelled /\ MeasureStep)
    /\ WF_vars(cancelled /\ FindStep)

FairSpec == Spec /\ Fairness

-----------------------------------------------------------------------------
(* Properties.                                                             *)

\* A run that ends without an error and was not cancelled has a row for each
\* measurement that Run gave a result for: main drains both channels, whichever
\* producer is done first.
EveryResultIsRecorded ==
    (outcome = "ok" /\ ~cancelled /\ LookupProviders) =>
        probeRows = Slots \ failed

\* Neither producer sends for ever: as long as main is in its loop it has not
\* set to nil a channel whose producer may still send, also when the other one
\* is done or the run is cancelled, and a run that ends without an error has
\* seen both producers return with nothing left to hand over.
SendsAreReceived ==
    /\ outcome = "running" =>
          /\ ppc = "send" => "probes" \in open
          /\ fpc = "send" => "providers" \in open
          /\ mpc = "select" => open # {}
    /\ outcome = "ok" => /\ ppc = "closed" /\ fpc = "closed"
                         /\ pending = NoProviders /\ current = Nothing

\* The providers recorded for an entry of the list are those of one answer that
\* was read to its end, each as often as the answer named it, whatever attempts
\* failed before: of an answer that breaks off nothing is handed over, and a
\* website is not asked for again once its providers are.  A run that ends
\* without an error has recorded all of them, a cancelled one too.
ProvidersAreThoseFound ==
    /\ \A i \in 1..MaxSites : \A p \in Peers : provRows[i][p] <= found[i][p]
    /\ outcome = "ok" => provRows = found

\* README.md:490, "we make sure that the next request to that website won't come
\* from the local kubo node cache": a website is measured from a warm Kubo only
\* if an earlier run of the command left it there and this one has not come to a
\* Kubo.Reset yet, if the last Kubo.Reset failed to remove it, or if an earlier
\* measurement of it through Kubo failed, which skips the Reset.
WarmHasAReason ==
    (Measuring /\ IsIPFS(slot) /\ SiteOf(slot) \in cached) =>
        \/ SiteOf(slot) \in leftover
        \/ \E k \in failed : IsIPFS(k) /\ SiteOf(k) = SiteOf(slot)

\* A cancelled run ends, wherever the producers are, as long as main drains
\* the channels whose sends do not watch the context.
CancelStops == cancelled ~> mpc = "done"
=============================================================================
