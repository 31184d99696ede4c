----------------------------- MODULE GompState ------------------------------
(***************************************************************************)
(* What every entry point of libgomp.cpp reads: who is calling, how many   *)
(* threads the current team has and which team it is; and, for each        *)
(* context, where it goes on when it next gets the CPU.                    *)
(***************************************************************************)
EXTENDS ThreadOps

CONSTANTS
  Main,         (* the context of test_thread(), which calls main()         *)
  MaxThreads,   (* GOMP_MAX_NUM_THREADS, the workers libgomp_init starts    *)
  NumTeams      (* GOMP_NUM_TEAMS, the length of teams[]                    *)

VARIABLES
  pc,           (* where each context is                                    *)
  num,          (* gomp_num_threads                                         *)
  team          (* the index of the current team                            *)

(* Worker i runs on gomp_stacks[i] and is named by that index. *)
Ids == 0 .. MaxThreads - 1
TeamNos == 0 .. NumTeams - 1
Contexts == Ids \cup {Main, Bg}

ASSUME GompAssumption ==
  /\ MaxThreads \in Nat \ {0} /\ NumTeams \in Nat \ {0, 1}
  /\ Main \notin Ids /\ Bg \notin Ids /\ Main # Bg
  /\ NoContext \notin Contexts
  /\ FifoDepth \in Nat /\ MaxThreads < FifoDepth

(* omp_get_thread_num(): a stack pointer outside gomp_stacks gives 0. *)
Me == IF cpu \in Ids THEN cpu ELSE 0

(* omp_get_num_threads(): the ids below gomp_num_threads. *)
TeamIds == 0 .. num - 1

(* The running context is at l; it goes on at l. *)
At(l) == cpu \in Contexts /\ pc[cpu] = l
Goto(l) == pc' = [pc EXCEPT ![cpu] = l]
=============================================================================
