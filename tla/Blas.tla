-------------------------------- MODULE Blas --------------------------------
(***************************************************************************)
(* The vector routines of linpack.cpp.  REAL is left out in favour of the  *)
(* integers modulo a prime P, where sums, products and quotients are       *)
(* exact: what the routines compute is modelled, and not how they round.   *)
(*                                                                         *)
(* A vector is a function on 0 .. n - 1.  The routines get pointers into   *)
(* columns, always the same distance "from" into both: that is a parameter.*)
(***************************************************************************)
EXTENDS Unroll, Functions

CONSTANT P

ASSUME BlasAssumption == P \in Nat \ {0, 1}

Num == 0 .. P - 1

Plus(x, y) == (x + y) % P
Prod(x, y) == (x * y) % P
Neg(x) == (P - x) % P
Over(x, y) == CHOOSE z \in Num : Prod(z, y) = x

(* fabs: of the two numbers that differ from x in the sign, the smaller. *)
Fabs(x) == IF 2 * x < P THEN x ELSE P - x

(* The sum of f over the indices S. *)
Sum(f, S) == FoldFunctionOnSet(Plus, 0, f, S)

(* The elements the rolled routines take: each of n once. *)
Once(x, n) == IF x \in 0 .. n - 1 THEN 1 ELSE 0

-----------------------------------------------------------------------------
(* y + da * x for the elements from "from" on, element i taken t[i] times. *)
Axpy(da, x, y, t) == [i \in DOMAIN y |-> Plus(y[i], Prod(t[i] * da, x[i]))]

daxpy_r(n, da, x, y, from) ==
  IF n <= 0 \/ da = 0 THEN y ELSE Axpy(da, x, y, [i \in DOMAIN y |-> Once(i - from, n)])

daxpy_ur(n, da, x, y, from) ==
  IF n <= 0 \/ da = 0 THEN y ELSE Axpy(da, x, y, [i \in DOMAIN y |-> Times(i - from, n, 4)])

(* The dot product of the elements of x and y, element i taken t[i] times. *)
Dot(x, y, t) == Sum([i \in DOMAIN y |-> Prod(t[i] * x[i], y[i])], DOMAIN y)

ddot_r(n, x, y, from) == Dot(x, y, [i \in DOMAIN y |-> Once(i - from, n)])
ddot_ur(n, x, y, from) == Dot(x, y, [i \in DOMAIN y |-> Times(i - from, n, 5)])

(* An element that is taken twice is scaled twice. *)
Scaled(da, x, t) == [i \in DOMAIN x |-> Prod(x[i], da^t[i])]

dscal_r(n, da, x, from) == Scaled(da, x, [i \in DOMAIN x |-> Once(i - from, n)])
dscal_ur(n, da, x, from) == Scaled(da, x, [i \in DOMAIN x |-> Times(i - from, n, 5)])

(* The first element of greatest absolute value, counted from "from". *)
idamax(n, x, from) ==
  LET best == {i \in 0 .. n - 1 : \A j \in 0 .. n - 1 : Fabs(x[from + j]) <= Fabs(x[from + i])}
  IN  CHOOSE i \in best : \A j \in best : i <= j
=============================================================================
