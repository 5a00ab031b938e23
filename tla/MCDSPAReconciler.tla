-------------------------- MODULE MCDSPAReconciler --------------------------
(* DSPAReconciler for TLC: the sets its configurations choose from. *)
EXTENDS DSPAReconciler

AllCalls == Calls
CallsButStatus == Calls \ {"status"}
EveryProblem == AllProblems
RetriedProblems == {"none", "prereqs", "webhook", "deploying"}
ComponentProblems == {"none", "deploying"}
AnyVersion == {TRUE, FALSE}
SupportedOnly == {TRUE}
=============================================================================
