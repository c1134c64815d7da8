-------------------------------- MODULE DBSum --------------------------------
(***************************************************************************)
(* SUM in the queries of APIGuard: the sum over a set of rows of a column  *)
(* of natural numbers, as the number of units in the rows together.        *)
(*                                                                         *)
(* A fold over the rows is the same number.  This form needs no induction: *)
(* what a sum is bounded by follows from the cardinalities of subsets,     *)
(* unions and products.                                                    *)
(***************************************************************************)
EXTENDS Integers, FiniteSets

Units(f, S) == UNION {{x} \X (1 .. f[x]) : x \in S}

SumOver(f, S) == Cardinality(Units(f, S))
=============================================================================
