----------------------------- MODULE MCResults ------------------------------
(***************************************************************************)
(* Model checking what an execution collects: the judgements and their     *)
(* notice, and the evidence.  They share no state: `focus` chooses the one *)
(* a behaviour is about.                                                   *)
(***************************************************************************)
EXTENDS Execution, Evidence, TLC

VARIABLE focus

vars == <<focus, judgeVars, evidenceVars>>

Init == focus \in {"judging", "evidence"} /\ JudgeInit /\ EvidenceInit

JudgeStep == focus = "judging" /\ JudgeNext /\ UNCHANGED <<focus, evidenceVars>>
EvidenceStep == focus = "evidence" /\ EvidenceNext /\ UNCHANGED <<focus, judgeVars>>

Next == JudgeStep \/ EvidenceStep

Spec == Init /\ [][Next]_vars

\* Both components are in the states their proofs say they never leave.
ResultsInv == JudgeInv /\ EvidenceInv

-----------------------------------------------------------------------------
\* Ids that nothing tells apart.
Symmetry == {f @@ g : f \in Permutations(Req), g \in Permutations(Id)}
=============================================================================
