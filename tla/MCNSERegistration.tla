------------------------- MODULE MCNSERegistration -------------------------
(***************************************************************************)
(* Instances of NSERegistration for TLC: replicas r1 and r2 in one         *)
(* namespace, or in two.                                                   *)
(***************************************************************************)
EXTENDS NSERegistration

CONSTANTS r1, r2, n1, A, B

OneNamespace == [r \in Replicas |-> A]
TwoNamespaces == [r \in Replicas |-> IF r = r1 THEN A ELSE B]

Together == {OneNamespace}
Anywhere == {OneNamespace, TwoNamespaces}
=============================================================================
