----------------------------- MODULE MCPrograms -----------------------------
(* Programs for the model checker: as many elements as threads, and more;  *)
(* members that spin for longer and shorter; sections likewise; a sine     *)
(* with any buckets, and past them; balls of two to four colors.           *)
EXTENDS Permute

Buckets == 0 .. 1

SomePrograms ==
  {omp1(l) : l \in 1 .. MaxLimit}
    \cup UNION {{omp2(l), omp3(l), omp4(l), omp5(l)} : l \in DefaultThreads .. MaxLimit}
    \cup {omp6(l) : l \in 1 .. MaxThreads}
    \cup {omp7(l, arg) : l \in 2 .. MaxThreads, arg \in [Ids -> 0 .. 2]}
    \cup {omp8(t, counts) : t \in 1 .. MaxThreads, counts \in [1 .. 4 -> 0 .. 2]}
    \cup {omp9(index) : index \in [0 .. 4 -> 0 .. 2]}

Permutes(colors, balls, plevels, verbose, returns) ==
  {permute(c, b, p, v, returns, e) :
     c \in colors, b \in balls, p \in plevels, v \in verbose, e \in BOOLEAN}

AllPrograms ==
  SomePrograms
    \cup Permutes({2}, {0, 1, 2, 3}, {0, 1, 2, 6}, BOOLEAN, FALSE)
    \cup Permutes({3}, {1, 2}, {0, 2, 6}, {FALSE}, TRUE)
    \cup Permutes({4}, {1, 2}, {6}, {FALSE}, TRUE)
=============================================================================
