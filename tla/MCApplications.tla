--------------------------- MODULE MCApplications ---------------------------
(* Two programs for TLC, side by side: bin/network.rs (Measurements) and   *)
(* bin/event_flag.rs (FlagApp); each behaviour is one of the program       *)
(* chosen at the start.  Their safety properties are checked as they are.  *)
EXTENDS Measurements, FlagApp

CONSTANTS th1, th2, th3

VARIABLE program

allVars == <<program, vars, appVars>>

ApplicationsInit == program \in {"network", "event_flag"} /\ Init /\ AppInit

NetworkRuns(A) == program = "network" /\ A /\ UNCHANGED <<program, appVars>>
FlagAppRuns(A) == program = "event_flag" /\ A /\ UNCHANGED <<program, vars>>

ApplicationsNext == NetworkRuns(Next) \/ FlagAppRuns(AppNext)

\* The fairness of each program is that of its own specification.
ApplicationsSpec ==
  /\ ApplicationsInit /\ [][ApplicationsNext]_allVars
  /\ WF_allVars(NetworkRuns(NetStep)) /\ WF_allVars(NetworkRuns(MeasStep))
  /\ WF_allVars(FlagAppRuns(AppNext))

-----------------------------------------------------------------------------
\* bin/event_flag.rs: each thread receives the event again and again.
EveryoneServed == program = "event_flag" => EveryThreadServed
=============================================================================
