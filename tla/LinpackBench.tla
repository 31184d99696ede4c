---------------------------- MODULE LinpackBench ----------------------------
(***************************************************************************)
(* main() and linpack() of linpack.cpp: which array sizes are measured,    *)
(* and how the number of repetitions grows until a measurement has taken   *)
(* long enough, by a clock that wraps.  Time is in tenths of a second.     *)
(***************************************************************************)
EXTENDS Integers, Sequences

CONSTANTS
  ArgLists,     (* the arguments there may be: numbers, or first Solo, the s *)
  Costs,        (* what one repetition may take: [solve, overhead]           *)
  Wrap          (* the clock counts modulo this                              *)

ASSUME BenchAssumption ==
  /\ Wrap \in Nat \ {0}
  /\ ArgLists \subseteq Seq(Int)
  /\ \A c \in Costs : c.solve \in Nat \ {0} /\ c.overhead \in Nat

VARIABLES
  stage,      (* where main() is                                            *)
  set,        (* startSize, maxArsize, step and minTime                     *)
  arsize,
  nreps,
  cost,       (* what a repetition takes, at this array size                *)
  now,        (* get_timer                                                  *)
  report      (* the last line printed: what it says and what is so         *)

benchVars == <<stage, set, arsize, nreps, cost, now, report>>

NoCost == [solve |-> 0, overhead |-> 0]
Nothing == [says |-> 0, took |-> 0, size |-> 0]

-----------------------------------------------------------------------------
Solo == -1

(* The arguments of the program, after atoi. *)
Settings(argv) ==
  IF Len(argv) = 2 /\ argv[1] = Solo
  THEN [start |-> argv[2], max |-> argv[2], step |-> 10, min |-> 100]
  ELSE [start |-> 10,
        max |-> IF Len(argv) >= 1 THEN argv[1] ELSE 200,
        step |-> IF Len(argv) >= 2 THEN argv[2] ELSE 10,
        min |-> IF Len(argv) >= 3 THEN 10 * argv[3] ELSE 5]

BenchFrom(argLists, times) ==
  /\ \E argv \in argLists : set = Settings(argv)
  /\ stage = "size" /\ arsize = set.start
  /\ nreps = 0 /\ cost = NoCost /\ now \in times /\ report = Nothing

BenchInit == BenchFrom(ArgLists, 0 .. Wrap - 1)

(* second(): clock(), the low bits of the time in microseconds. *)
Second(time) == time % Wrap

(* Mutant of Rejected: no measurement is too short. *)
RejectedNever(total, solve) == FALSE

(* linpack() returns 0 and prints nothing. *)
Rejected(total, solve) == total < 5 \/ solve < 2

Even(size) == (size \div 2) * 2

-----------------------------------------------------------------------------
(* The head of the loop over the sizes: malloc gives the memory. *)
NextSize ==
  /\ stage = "size" /\ arsize <= set.max /\ Even(arsize) >= 10
  /\ arsize' = Even(arsize)
  /\ nreps' = 1
  /\ stage' = "measure"
  /\ cost' \in Costs
  /\ UNCHANGED <<set, now, report>>

Ends == stage' = "done" /\ UNCHANGED <<set, nreps, cost, now, report>>

SizesDone == stage = "size" /\ arsize > set.max /\ UNCHANGED arsize /\ Ends
TooSmall == stage = "size" /\ arsize <= set.max /\ Even(arsize) < 10 /\ arsize' = Even(arsize) /\ Ends
NoMemory == stage = "size" /\ arsize <= set.max /\ Even(arsize) >= 10 /\ arsize' = Even(arsize) /\ Ends

(* Mutant of Measure: the number of repetitions stays. *)
MeasureSameReps ==
  LET took == 2 * nreps * (cost.solve + cost.overhead)
      total == Second(now + took) - Second(now)
      rejected == Rejected(total, 2 * nreps * cost.solve)
  IN  /\ stage = "measure"
      /\ now' = Second(now + took)
      /\ report' = IF rejected THEN Nothing
                   ELSE [says |-> total, took |-> took, size |-> arsize]
      /\ IF total < set.min
         THEN UNCHANGED <<stage, arsize, nreps>>
         ELSE stage' = "size" /\ arsize' = arsize + set.step /\ UNCHANGED nreps
      /\ UNCHANGED <<set, cost>>

(* One call of linpack(), which runs 2 * nreps repetitions, and what the   *)
(* loop around it does with the time it returns.                           *)
Measure ==
  LET took == 2 * nreps * (cost.solve + cost.overhead)
      total == Second(now + took) - Second(now)
      rejected == Rejected(total, 2 * nreps * cost.solve)
  IN  /\ stage = "measure"
      /\ now' = Second(now + took)
      /\ report' = IF rejected THEN Nothing
                   ELSE [says |-> total, took |-> took, size |-> arsize]
      /\ IF (IF rejected THEN 0 ELSE total) < set.min
         THEN nreps' = 2 * nreps /\ UNCHANGED <<stage, arsize>>
         ELSE stage' = "size" /\ arsize' = arsize + set.step /\ UNCHANGED nreps
      /\ UNCHANGED <<set, cost>>

BenchNext == NextSize \/ SizesDone \/ TooSmall \/ NoMemory \/ Measure \/ (stage = "done" /\ UNCHANGED benchVars)

BenchSpec == BenchInit /\ [][BenchNext]_benchVars /\ WF_benchVars(BenchNext)

-----------------------------------------------------------------------------
(* What is printed is the time that the measurement really took, although  *)
(* the clock may wrap in the middle of it.                                 *)
ReportsRealTime == report.says = report.took

(* The benchmark comes to an end once it measures: no size needs           *)
(* repetitions for ever, and the sizes go up.                              *)
Finishes == nreps > 0 ~> stage = "done"
=============================================================================
