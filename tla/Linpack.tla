------------------------------ MODULE Linpack -------------------------------
(***************************************************************************)
(* What linpack.cpp times: matgen fills a system of equations, dgefa       *)
(* factors its matrix by gaussian elimination with partial pivoting, and   *)
(* dgesl solves it with the factors.  A step is one column of a loop.      *)
(*                                                                         *)
(* a[j][i] is a[lda*j+i], row i of column j: linpack() leaves lda at twice *)
(* n, so that the columns do not overlap.                                  *)
(***************************************************************************)
EXTENDS Blas, Sequences

CONSTANT
  Systems     (* the matrices there may be, with the arguments roll and job *)
              (* (0 for a x = b, 1 for its transpose) to solve them with    *)

(* The rows of the matrices of order n, counted as in C. *)
Order(n) == 0 .. n - 1

Matrices(n, values) == [Order(n) -> [Order(n) -> values]]

ASSUME LinpackAssumption ==
  \A s \in Systems :
    /\ s.roll \in BOOLEAN /\ s.job \in {0, 1}
    /\ DOMAIN s.a # {} /\ s.a \in Matrices(Cardinality(DOMAIN s.a), Num)

VARIABLES
  at,       (* where dgefa and dgesl are                                    *)
  k,        (* their outer loop                                             *)
  j,        (* the inner loop of dgefa: the column it eliminates            *)
  a, b,     (* the matrix and the right hand side, overwritten by both      *)
  ipvt,     (* the pivot rows                                               *)
  info,
  input     (* the system as it was, and the arguments roll and job         *)

solveVars == <<at, k, j, a, b, ipvt, info, input>>

(* n *)
N == Cardinality(DOMAIN input.a)
Index == Order(N)

(* Run the routine with "roll" in its arguments rolled, else unrolled. *)
daxpy(n, da, x, y, from) ==
  IF input.roll THEN daxpy_r(n, da, x, y, from) ELSE daxpy_ur(n, da, x, y, from)
ddot(n, x, y, from) == IF input.roll THEN ddot_r(n, x, y, from) ELSE ddot_ur(n, x, y, from)
dscal(n, da, x, from) == IF input.roll THEN dscal_r(n, da, x, from) ELSE dscal_ur(n, da, x, from)

Swapped(v, i, l) == [v EXCEPT ![i] = v[l], ![l] = v[i]]

-----------------------------------------------------------------------------
(* matgen's generator: the numbers of a matrix, column by column. *)
Generator[r \in Nat] == IF r = 0 THEN 1325 ELSE (3125 * Generator[r - 1]) % 65536

(* matgen divides by 16384, which only scales the system. *)
Generated(n) ==
  [c \in Order(n) |-> [i \in Order(n) |-> (Generator[n * c + i + 1] - 32768) % P]]

(* The sum of each row. *)
RowSums(m) == [i \in DOMAIN m |-> Sum([c \in DOMAIN m |-> m[c][i]], DOMAIN m)]

(* linpack() between matgen and dgefa. *)
SolveFrom(systems) ==
  /\ \E s \in systems :
       /\ a = s.a /\ b = RowSums(s.a)
       /\ input = [a |-> s.a, b |-> RowSums(s.a), roll |-> s.roll, job |-> s.job]
  /\ at = "pivot" /\ k = 0 /\ j = 0
  /\ ipvt = [i \in DOMAIN a |-> 0] /\ info = 0

SolveInit == SolveFrom(Systems)

-----------------------------------------------------------------------------
(* Mutant of PivotRow: no search, the pivot is on the diagonal. *)
PivotRowDiagonal == k

PivotRow == idamax(N - k, a[k], k) + k

(* The multipliers of column k, once its pivot row l has come up. *)
Multipliers(l) ==
  LET c == Swapped(a[k], k, l) IN dscal(N - (k + 1), Over(Neg(1), c[k]), c, k + 1)

(* The head of the loop of dgefa over the columns. *)
Pivot ==
  /\ at = "pivot" /\ k < N - 1
  /\ ipvt' = [ipvt EXCEPT ![k] = PivotRow]
  /\ IF a[k][PivotRow] # 0
     THEN /\ a' = [a EXCEPT ![k] = Multipliers(PivotRow)]
          /\ at' = "eliminate" /\ j' = k + 1
          /\ UNCHANGED <<k, info>>
     ELSE /\ info' = k
          /\ k' = k + 1
          /\ UNCHANGED <<a, at, j>>
  /\ UNCHANGED <<b, input>>

(* Mutant of Eliminated: the rows of the column are not interchanged. *)
EliminatedNoSwap(c) == daxpy(N - (k + 1), c[ipvt[k]], a[k], c, k + 1)

(* Column c with the multipliers of column k applied. *)
Eliminated(c) == daxpy(N - (k + 1), c[ipvt[k]], a[k], Swapped(c, k, ipvt[k]), k + 1)

(* Its inner loop. *)
Eliminate ==
  /\ at = "eliminate"
  /\ a' = [a EXCEPT ![j] = Eliminated(@)]
  /\ IF j + 1 < N
     THEN j' = j + 1 /\ UNCHANGED <<at, k>>
     ELSE at' = "pivot" /\ k' = k + 1 /\ UNCHANGED j
  /\ UNCHANGED <<b, ipvt, info, input>>

(* dgefa returns, and dgesl begins. *)
LastPivot ==
  /\ at = "pivot" /\ k = N - 1
  /\ ipvt' = [ipvt EXCEPT ![N - 1] = N - 1]
  /\ info' = IF a[N - 1][N - 1] = 0 THEN N - 1 ELSE info
  /\ at' = IF input.job = 1 THEN "transU" ELSE IF N > 1 THEN "forward" ELSE "back"
  /\ k' = IF input.job = 0 /\ N = 1 THEN N - 1 ELSE 0
  /\ UNCHANGED <<j, a, b, input>>

-----------------------------------------------------------------------------
(* dgesl divides by the diagonal.  By zero, the result is no number: the   *)
(* model stops there.                                                      *)
DivideByZero ==
  /\ at \in {"back", "transU"} /\ a[k][k] = 0
  /\ at' = "nan"
  /\ UNCHANGED <<k, j, a, b, ipvt, info, input>>

(* Solve l * y = b. *)
Forward ==
  /\ at = "forward"
  /\ b' = daxpy(N - (k + 1), b[ipvt[k]], a[k], Swapped(b, k, ipvt[k]), k + 1)
  /\ IF k + 1 < N - 1
     THEN k' = k + 1 /\ UNCHANGED at
     ELSE k' = N - 1 /\ at' = "back"
  /\ UNCHANGED <<j, a, ipvt, info, input>>

(* Solve u * x = y, from the last row up. *)
Back ==
  /\ at = "back" /\ a[k][k] # 0
  /\ LET x == Over(b[k], a[k][k])
     IN  b' = daxpy(k, Neg(x), a[k], [b EXCEPT ![k] = x], 0)
  /\ IF k > 0 THEN k' = k - 1 /\ UNCHANGED at ELSE at' = "done" /\ UNCHANGED k
  /\ UNCHANGED <<j, a, ipvt, info, input>>

(* Solve trans(u) * y = b. *)
TransU ==
  /\ at = "transU" /\ a[k][k] # 0
  /\ b' = [b EXCEPT ![k] = Over(Plus(b[k], Neg(ddot(k, a[k], b, 0))), a[k][k])]
  /\ IF k + 1 < N
     THEN k' = k + 1 /\ UNCHANGED at
     ELSE k' = N - 2 /\ at' = IF 1 < N - 1 THEN "transL" ELSE "done"
  /\ UNCHANGED <<j, a, ipvt, info, input>>

(* Solve trans(l) * x = y: for (kb = 1; kb < nm1; kb++), with row k at    *)
(* n - (kb + 1).                                                           *)
TransL ==
  /\ at = "transL"
  /\ LET c == [b EXCEPT ![k] = Plus(@, ddot(N - (k + 1), a[k], b, k + 1))]
     IN  b' = Swapped(c, k, ipvt[k])
  /\ IF k > 1 THEN k' = k - 1 /\ UNCHANGED at ELSE at' = "done" /\ UNCHANGED k
  /\ UNCHANGED <<j, a, ipvt, info, input>>

Stopped == at \in {"done", "nan"} /\ UNCHANGED solveVars

SolveNext == Pivot \/ Eliminate \/ LastPivot \/ DivideByZero \/ Forward \/ Back
        \/ TransU \/ TransL \/ Stopped

SolveSpec == SolveInit /\ [][SolveNext]_solveVars

-----------------------------------------------------------------------------
(* dgesl leaves in b the solution of the system that matgen set up, though *)
(* matrix and right hand side are gone by then, rows have moved and loops  *)
(* are unrolled.                                                           *)
Solves ==
  at = "done" /\ input.job = 0 =>
    \A i \in Index : Sum([c \in Index |-> Prod(input.a[c][i], b[c])], Index) = input.b[i]

(* dgesl divides by zero exactly when the matrix is singular: when another *)
(* vector than 0 solves a * x = 0.                                         *)
NanIfSingular ==
  at \in {"nan", "done"} =>
    (at = "nan" <=> \E x \in [Index -> Num] \ {[i \in Index |-> 0]} :
       \A i \in Index : Sum([c \in Index |-> Prod(input.a[c][i], x[c])], Index) = 0)
=============================================================================
