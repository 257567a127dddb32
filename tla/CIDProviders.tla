----------------------------- MODULE CIDProviders -----------------------------
(***************************************************************************)
(* The CID providers of pkg/cid_provider.go that keep a position in a      *)
(* list: StaticCIDProvider (the --cids flag) and ControlledCIDProvider     *)
(* (the embedded controlledcids file, shuffled once).  Their callers are   *)
(* goroutines: the workers of `probe gateways` share one of each.          *)
(*                                                                         *)
(* A CID is its position in its list.  The static provider's index is a    *)
(* plain int that its callers race on, so a call is broken into its memory *)
(* accesses; where the source reads the field again, the build may reuse   *)
(* the value the call already holds.  The controlled provider's index is   *)
(* an atomic counter: adding and using the result are two steps.  Its 32   *)
(* bits outlast any run (2^31 calls) and are not modelled.                 *)
(***************************************************************************)
EXTENDS Integers

CONSTANTS
    Callers,        \* the goroutines that call SelectCID
    StaticLen,      \* len(StaticCIDProvider.cids)
    ControlledLen   \* len(ControlledCIDProvider.cids)

ASSUME ProvidersAssumption ==
    /\ StaticLen \in Nat \ {0}
    /\ ControlledLen \in Nat \ {0}

VARIABLES
    staticIdx,      \* StaticCIDProvider.idx
    controlledIdx,  \* ControlledCIDProvider.idx
    cpc,            \* where each caller is in SelectCID
    held,           \* the index each call holds in a register
    picked,         \* testCID, the static CID each call is to return
    served          \* how often each controlled CID was returned

providerVars == <<staticIdx, controlledIdx, cpc, held, picked, served>>

CallStates == {"idle", "increment", "modulo", "index", "panicked"}

ProvidersTypeOK ==
    /\ staticIdx \in Nat
    /\ controlledIdx \in Nat
    /\ cpc \in [Callers -> CallStates]
    /\ held \in [Callers -> Nat]
    /\ picked \in [Callers -> Nat]
    /\ served \in [0..(ControlledLen - 1) -> Nat]

ProvidersInit ==
    /\ staticIdx = 0
    /\ controlledIdx = 0
    /\ cpc = [c \in Callers |-> "idle"]
    /\ held = [c \in Callers |-> 0]
    /\ picked = [c \in Callers |-> 0]
    /\ served = [k \in 0..(ControlledLen - 1) |-> 0]

At(c, state) == cpc' = [cpc EXCEPT ![c] = state]
Hold(c, v) == held' = [held EXCEPT ![c] = v]
Pick(c, v) == picked' = [picked EXCEPT ![c] = v]

-----------------------------------------------------------------------------
(* StaticCIDProvider.SelectCID.                                            *)

\* testCID := p.cids[p.idx], which panics on an index out of range.
StaticRead(c) ==
    /\ cpc[c] = "idle"
    /\ IF staticIdx < StaticLen
       THEN At(c, "increment") /\ Hold(c, staticIdx) /\ Pick(c, staticIdx)
       ELSE At(c, "panicked") /\ UNCHANGED <<held, picked>>
    /\ UNCHANGED <<staticIdx, controlledIdx, served>>

\* p.idx += 1
StaticIncrement(c) ==
    /\ cpc[c] = "increment"
    /\ \E v \in {held[c], staticIdx} :
          staticIdx' = v + 1 /\ Hold(c, v + 1)
    /\ At(c, "modulo")
    /\ UNCHANGED <<controlledIdx, picked, served>>

\* Mutant of StaticModulo: the index wraps at the length, not beyond it.
StaticWrapAtLen(c) ==
    /\ cpc[c] = "modulo"
    /\ \E v \in {held[c], staticIdx} :
          staticIdx' = IF v = StaticLen THEN 0 ELSE v
    /\ At(c, "idle")
    /\ Hold(c, 0)
    /\ Pick(c, 0)
    /\ UNCHANGED <<controlledIdx, served>>

\* p.idx %= len(p.cids); return testCID, which is picked[c]
StaticModulo(c) ==
    /\ cpc[c] = "modulo"
    /\ \E v \in {held[c], staticIdx} : staticIdx' = v % StaticLen
    /\ At(c, "idle")
    /\ Hold(c, 0)
    /\ Pick(c, 0)
    /\ UNCHANGED <<controlledIdx, served>>

-----------------------------------------------------------------------------
(* ControlledCIDProvider.SelectCID.                                        *)

\* idx := p.idx.Add(1)
ControlledAdd(c) ==
    /\ cpc[c] = "idle"
    /\ controlledIdx' = controlledIdx + 1
    /\ At(c, "index")
    /\ Hold(c, controlledIdx + 1)
    /\ UNCHANGED <<staticIdx, picked, served>>

\* Mutant of ControlledIndex: the counter is loaded again after the Add.
ControlledIndexReloaded(c) ==
    /\ cpc[c] = "index"
    /\ served' = [served EXCEPT ![controlledIdx % ControlledLen] = @ + 1]
    /\ At(c, "idle")
    /\ Hold(c, 0)
    /\ UNCHANGED <<staticIdx, controlledIdx, picked>>

\* idx %= int32(len(p.cids)); return p.cids[idx]
ControlledCID(c) == held[c] % ControlledLen

ControlledIndex(c) ==
    /\ cpc[c] = "index"
    /\ served' = [served EXCEPT ![ControlledCID(c)] = @ + 1]
    /\ At(c, "idle")
    /\ Hold(c, 0)
    /\ UNCHANGED <<staticIdx, controlledIdx, picked>>

-----------------------------------------------------------------------------
(* Properties.                                                             *)

\* The race on the static index heals by itself: once no call is under way
\* the index is in range again, whatever updates were lost, because the last
\* store of every call is the one after the modulo.
StaticIndexSettles ==
    (\A c \in Callers : cpc[c] = "idle") => staticIdx < StaticLen

\* cid_provider.go:211, "shuffle once and then iterate in order with every
\* call to SelectCID": concurrent calls share the list evenly, so once no
\* call is under way no CID was returned twice more often than another.
ControlledIsEven ==
    (\A c \in Callers : cpc[c] # "index") =>
        \A j, k \in DOMAIN served : served[j] <= served[k] + 1

\* README.md:54: the static provider "returns a CID from a static list of
\* CIDs", and never an index out of range.
StaticReturnsACID == \A c \in Callers : cpc[c] # "panicked"
=============================================================================
