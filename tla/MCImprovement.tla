---------------------------- MODULE MCImprovement ----------------------------
(* ImprovementProposal on small instances; the cfg files give the constants. *)
EXTENDS ImprovementProposal, TLC

CONSTANTS u, v, passed, failed

CallersMC == {u, v}
EvidenceMC == {passed, failed}
PassingMC == {passed}
Interchangeable == Permutations(CallersMC)
=============================================================================
