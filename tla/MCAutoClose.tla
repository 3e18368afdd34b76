---------------------------- MODULE MCAutoClose ----------------------------
(* AutoClose for small sets of interchangeable issues.                     *)
EXTENDS AutoClose, TLC

IssueSymmetry == Permutations(Issues)
=============================================================================
