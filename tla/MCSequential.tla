---------------------------- MODULE MCSequential ----------------------------
(***************************************************************************)
(* The parts of the sources that run from their beginning to their end     *)
(* without another context coming in between: the memory of task arguments,*)
(* the stack arithmetic of the thread number, the solver and the benchmark *)
(* around it, and the countdown of calibrate.  They share no state, and a  *)
(* behavior is one of any of them, the others staying where they begin.    *)
(***************************************************************************)
EXTENDS TaskArgs, ThreadNumber, Linpack, LinpackBench, Calibrate

VARIABLE part    (* which of them runs *)

allVars == <<part, argsVars, numberVars, solveVars, benchVars, countVars>>

-----------------------------------------------------------------------------
(* Matrices of each order up to 3, and matgen's of the least orders at     *)
(* which the unrolled loops of dgefa have both remainders and rounds.      *)
With(matrices, jobs) == [a : matrices, roll : BOOLEAN, job : jobs]

SomeSystems ==
  With(Matrices(1, Num) \cup Matrices(2, Num), {0, 1})
    \cup With(Matrices(3, {0, 1}), {0, 1})
    \cup With({Generated(6), Generated(7)}, {0})

SomeArgs == {<<>>, <<5>>, <<Solo, 13>>, <<Solo, 8>>, <<16, 2>>, <<20, 5, 1>>, <<12, 3, 0>>}
SomeCosts == {[solve |-> 1, overhead |-> 0], [solve |-> 6, overhead |-> 1]}

-----------------------------------------------------------------------------
(* What a part holds that is not the one that runs. *)
FirstSystem == {[a |-> [c \in {0} |-> [i \in {0} |-> 1]], roll |-> TRUE, job |-> 0]}

Init ==
  /\ ArgsInit /\ NumberInit
  /\ \/ part \in {"args", "number"} /\ SolveFrom(FirstSystem) /\ BenchFrom({<<>>}, {0}) /\ CountFrom({0})
     \/ part = "solve" /\ SolveInit /\ BenchFrom({<<>>}, {0}) /\ CountFrom({0})
     \/ part = "bench" /\ SolveFrom(FirstSystem) /\ BenchInit /\ CountFrom({0})
     \/ part = "count" /\ SolveFrom(FirstSystem) /\ BenchFrom({<<>>}, {0}) /\ CountInit

Next ==
  /\ \/ part = "args" /\ ArgsNext /\ UNCHANGED <<numberVars, solveVars, benchVars, countVars>>
     \/ part = "number" /\ NumberNext /\ UNCHANGED <<argsVars, solveVars, benchVars, countVars>>
     \/ part = "solve" /\ SolveNext /\ UNCHANGED <<argsVars, numberVars, benchVars, countVars>>
     \/ part = "bench" /\ BenchNext /\ UNCHANGED <<argsVars, numberVars, solveVars, countVars>>
     \/ part = "count" /\ CountNext /\ UNCHANGED <<argsVars, numberVars, solveVars, benchVars>>
  /\ UNCHANGED part

Spec == Init /\ [][Next]_allVars /\ WF_allVars(Next)
=============================================================================
