------------------------------ MODULE MCTimers ------------------------------
(***************************************************************************)
(* Model checking the components with a job that runs by the clock.  They  *)
(* share no state: `focus` chooses the one a behaviour is about.           *)
(***************************************************************************)
EXTENDS Project, AgentSession

VARIABLE focus

vars == <<focus, projectVars, sessionVars>>

Init == focus \in {"project", "session"} /\ ProjectInit /\ SessionInit

ProjectStep == focus = "project" /\ ProjectNext /\ UNCHANGED <<focus, sessionVars>>
SessionStep == focus = "session" /\ SessionNext /\ UNCHANGED <<focus, projectVars>>

Next == ProjectStep \/ SessionStep

\* The fairness of the component that is not in focus asks for nothing: its
\* jobs have nothing to do.
Spec == Init /\ [][Next]_vars /\ ProjectFairness /\ SessionFairness

\* Both components' variables have their types.
TypesOK == ProjectTypeOK /\ SessionTypeOK
=============================================================================
