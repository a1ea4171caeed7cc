----------------------------- MODULE MCNSFanout -----------------------------
(***************************************************************************)
(* Instances of NSFanout for TLC: "a" is an update that matches the query *)
(* of every caller, "b" matches only that of the last one.                 *)
(***************************************************************************)
EXTENDS NSFanout

CONSTANTS s1, s2, a, b

MCInterest == [s \in Subs |-> IF s = s1 THEN Events \ {b} ELSE Events]
=============================================================================
