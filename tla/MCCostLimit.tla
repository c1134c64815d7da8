----------------------------- MODULE MCCostLimit -----------------------------
(***************************************************************************)
(* Small instances of CostLimit: three requests over a change of month, of *)
(* one user with two keys and of two users.                                *)
(***************************************************************************)
EXTENDS CostLimit, TLC

CONSTANTS r1, r2, r3, k1, k2, u1, u2

OneUser == [k \in Keys |-> u1]
TwoUsers == [k \in Keys |-> IF k = k1 THEN u1 ELSE u2]

\* Months of two seconds: the last second of one, the rest of the first second of the
\* next, whose text sorts into the month before, and its second one.
MonthEdge == {15, 25, 30}

SameRequest == Permutations(Requests)
=============================================================================
