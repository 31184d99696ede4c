------------------------------- MODULE Unroll -------------------------------
(***************************************************************************)
(* The loops of the unrolled routines of linpack.cpp over vectors whose    *)
(* increments are 1: n mod width elements one at a time, and then rounds   *)
(* of width elements each.                                                 *)
(***************************************************************************)
EXTENDS Integers, FiniteSets

(* The elements the first loop takes. *)
Single(n, width) == n % width

(* Mutant of Rounds: the second loop starts at the first element. *)
RoundsFromZero(n, width) == {i \in {width * r : r \in 0 .. n} : i < n}

(* Where the rounds begin: for (i = m; i < n; i = i + width). *)
Rounds(n, width) == {i \in {Single(n, width) + width * r : r \in 0 .. n} : i < n}

(* The rounds that take element x. *)
RoundsOf(x, n, width) == {i \in Rounds(n, width) : i <= x /\ x < i + width}

(* How often element x is taken. *)
Times(x, n, width) ==
  (IF x \in 0 .. Single(n, width) - 1 THEN 1 ELSE 0) + Cardinality(RoundsOf(x, n, width))

-----------------------------------------------------------------------------
(* The unrolled loops take each of the n elements once, and nothing beyond *)
(* them, whatever n leaves over.                                           *)
TakesEachOnce(n, width) ==
  \A x \in 0 .. n + width : Times(x, n, width) = IF x < n THEN 1 ELSE 0
=============================================================================
