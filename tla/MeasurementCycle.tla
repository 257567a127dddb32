--------------------------- MODULE MeasurementCycle ---------------------------
(***************************************************************************)
(* What a probe command promises of its measurements, whatever it          *)
(* measures: one at a time, each measurement ends before its row is handed *)
(* to the database client, the next begins only after that, and the client *)
(* is closed only once the goroutine that measures is past all of it.      *)
(*                                                                         *)
(* KuboProbe and ServiceWorkerProbe implement it with their main loop,     *)
(* GatewayProbe with each of its workers.                                  *)
(***************************************************************************)
VARIABLES
    phase,    \* of the goroutine that measures
    db        \* the database client

cycleVars == <<phase, db>>

Phases == {"between", "measuring", "measured", "stopped"}

CycleTypeOK ==
    /\ phase \in Phases
    /\ db \in {"open", "closed"}

CycleInit ==
    /\ phase = "between"
    /\ db = "open"

Begin ==
    /\ phase = "between"
    /\ phase' = "measuring"
    /\ UNCHANGED db

End ==
    /\ phase = "measuring"
    /\ phase' = "measured"
    /\ UNCHANGED db

\* The row is handed over; the next measurement may begin with it.
Record ==
    /\ phase = "measured"
    /\ db = "open"
    /\ phase' \in {"between", "measuring"}
    /\ UNCHANGED db

\* An error, a cancellation or a panic, at any point.
Stop ==
    /\ phase' = "stopped"
    /\ UNCHANGED db

Close ==
    /\ phase = "stopped"
    /\ db' = "closed"
    /\ UNCHANGED phase

CycleNext == Begin \/ End \/ Record \/ Stop \/ Close

CycleSpec == CycleInit /\ [][CycleNext]_cycleVars
=============================================================================
