---------------------------- MODULE MCCreatePod ----------------------------
(***************************************************************************)
(* Instances of CreatePod for TLC: two servers, pods named by uuid or all  *)
(* alike.                                                                  *)
(***************************************************************************)
EXTENDS CreatePod, TLC

CONSTANTS r1, r2, n1, n2

\* r2 may be faulty, r1 may not: only the names are alike.
Alike == Permutations(Names)
=============================================================================
