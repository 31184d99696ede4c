------------------------------ MODULE Permute -------------------------------
(***************************************************************************)
(* The programs permute.cpp and omp10.cpp, beside those of OmpTests: one   *)
(* member of a team counts the orders in which balls of several colors can *)
(* be drawn, by a recursion that makes a task of each draw.  Tasks create  *)
(* tasks; how many are queued, and which run in place, depends on plevel   *)
(* and on the pool of task structs.                                        *)
(*                                                                         *)
(* The program does not yield, so that an instance runs in one order only; *)
(* the instances differ in their arguments.  ids and maxthread, "for       *)
(* analysis only", are left out, and so is what is printed.                *)
(***************************************************************************)
EXTENDS OmpTests

CONSTANTS
  COLORS,      (* max number of colors                                      *)
  MAX,         (* max number of colors times steps                          *)
  THREADS,     (* the threads asked for                                     *)
  Base         (* how many values a byte of input has                       *)

ASSUME PermuteAssumption == {COLORS, MAX, THREADS, Base} \subseteq Nat \ {0}

VARIABLES
  frames,      (* the calls of permute() on each stack, the innermost last  *)
  args,        (* the arguments each task struct has                        *)
  permutations,
  found        (* the permutations, as the leaves have them in output       *)

permuteVars == <<frames, args, permutations, found>>
allVars == <<vars, permuteVars>>

-----------------------------------------------------------------------------
(* A color count of the supply; the supply with one ball less of color i. *)
cget(i, input) == (input \div Base^i) % Base

cdec(i, input) == input - Base^i

(* balls of each color. *)
RECURSIVE Supply(_, _)
Supply(colors, balls) ==
  IF colors = 0 THEN 0 ELSE balls * Base^(colors - 1) + Supply(colors - 1, balls)

(* A call of permute(), with i the color its loop is at. *)
Call(input, output, step, left) ==
  [input |-> input, output |-> output, step |-> step, left |-> left, i |-> 0]

NoCall == Call(0, [k \in 0 .. MAX - 1 |-> 0], 0, 0)

(* A run of the program with its arguments: whether the test of the inputs *)
(* returns is what the two programs differ in, and whether the end of the  *)
(* single construct, which is also that of the region, keeps its barrier   *)
(* is up to the compiler.                                                  *)
permute(colors, balls, plevel, verbose, returns, barrier) ==
  [name |-> "permute", colors |-> colors, balls |-> balls, plevel |-> plevel,
   verbose |-> verbose, returns |-> returns,
   regions |-> <<TeamRegion(THREADS, IF barrier THEN <<"permute", "barrier">> ELSE <<"permute">>)>>]

PermuteInit ==
  /\ Init
  /\ frames = [c \in Contexts |-> <<>>]
  /\ args = [t \in Tasks |-> NoCall]
  /\ permutations = 0 /\ found = {}

-----------------------------------------------------------------------------
Depth == Len(frames[cpu])
Top == frames[cpu][Depth]
Running == At("user") /\ frames[cpu] # <<>>
Advance == frames' = [frames EXCEPT ![cpu][Depth].i = @ + 1]
Leave == frames' = [frames EXCEPT ![cpu] = Front(@)]

(* The test of the inputs.  omp10.cpp goes on all the same. *)
Valid == prog.colors <= COLORS /\ prog.colors * prog.balls <= MAX
Refuses == At("user") /\ cpu = Main /\ region = 1 /\ prog.name = "permute"
           /\ ~Valid /\ prog.returns

MainRefuses ==
  /\ Refuses
  /\ region' = region + 1
  /\ UNCHANGED <<systemVars, prog, memberVars, dataVars, permuteVars>>

(* A member meets the single construct: the first to do so permutes. *)
MemberSingle ==
  /\ Doing("permute", 0)
  /\ SingleStart
  /\ frames' = IF SingleWins
               THEN [frames EXCEPT ![cpu] =
                       <<Call(Supply(prog.colors, prog.balls), NoCall.output, 0,
                              prog.colors * prog.balls)>>]
               ELSE frames
  /\ Done /\ ButSingle /\ UNCHANGED <<dataVars, args, permutations, found>>

-----------------------------------------------------------------------------
(* All the balls have been chosen: printed in a critical construct, where   *)
(* verbose says so, and counted.                                           *)
Report ==
  /\ Running /\ Top.left = 0 /\ prog.verbose
  /\ \/ Top.i = 0 /\ CriticalStart
     \/ Top.i = 1 /\ CriticalEnd
  /\ Advance
  /\ ButCritical /\ UNCHANGED <<programVars, args, permutations, found>>

Count ==
  /\ Running /\ Top.left = 0 /\ (prog.verbose => Top.i = 2)
  /\ permutations' = permutations + 1
  /\ found' = found \cup {[k \in 1 .. Top.step |-> Top.output[k - 1]]}
  /\ Leave
  /\ UNCHANGED <<vars, args>>

(* The call the task construct makes: firstprivate copies output. *)
Drawn == [Top.output EXCEPT ![Top.step] = Top.i]
Child == Call(cdec(Top.i, Top.input), Drawn, Top.step + 1, Top.left - 1)

(* output[step] = i, and on to the next color. *)
Chosen == [frames EXCEPT ![cpu][Depth].output = Drawn, ![cpu][Depth].i = @ + 1]

(* One turn of the loop over the colors. *)
AtColor == Running /\ Top.left > 0 /\ Top.i < prog.colors
IfClause == Top.step < prog.plevel

DrawQueued ==
  /\ AtColor /\ cget(Top.i, Top.input) > 0 /\ IfClause
  /\ TaskQueue
  /\ args' = [args EXCEPT ![Head(pool)] = Child]
  /\ frames' = Chosen
  /\ ButTasks /\ UNCHANGED <<programVars, permutations, found>>

DrawInPlace ==
  /\ AtColor /\ cget(Top.i, Top.input) > 0
  /\ TaskInline(IfClause)
  /\ frames' = [Chosen EXCEPT ![cpu] = Append(@, Child)]
  /\ ButTasks /\ UNCHANGED <<programVars, args, permutations, found>>

NoneLeft ==
  /\ AtColor /\ cget(Top.i, Top.input) = 0
  /\ Advance
  /\ UNCHANGED <<vars, args, permutations, found>>

PermuteReturns ==
  /\ Running /\ Top.left > 0 /\ Top.i >= prog.colors
  /\ Leave
  /\ UNCHANGED <<vars, args, permutations, found>>

-----------------------------------------------------------------------------
TaskBegins ==
  /\ WorkerExplicit
  /\ frames' = [frames EXCEPT ![cpu] = <<args[Head(ready)]>>]
  /\ ButTasks /\ UNCHANGED <<programVars, args, permutations, found>>

TaskReturns ==
  /\ Role = "explicit" /\ frames[cpu] = <<>>
  /\ WorkerDone
  /\ ButTasks /\ UNCHANGED <<programVars, permuteVars>>

(* Whoever is not in a call of permute() goes on as in every program. *)
Otherwise == frames[cpu] = <<>> /\ ~Refuses /\ Next /\ UNCHANGED permuteVars

Permuting == Report \/ Count \/ DrawQueued \/ DrawInPlace \/ NoneLeft \/ PermuteReturns

PermuteNext ==
  Otherwise \/ MainRefuses \/ MemberSingle \/ Permuting \/ TaskBegins \/ TaskReturns

PermuteSpec == PermuteInit /\ [][PermuteNext]_allVars /\ WF_allVars(PermuteNext)

-----------------------------------------------------------------------------
(* The orders in which the balls can be drawn. *)
Arrangements ==
  {s \in [1 .. prog.colors * prog.balls -> 0 .. prog.colors - 1] :
     \A c \in 0 .. prog.colors - 1 : Cardinality({k \in DOMAIN s : s[k] = c}) = prog.balls}

(* No order is found twice, and when GOMP_parallel returns all have been,  *)
(* each from its own task's copy of output.                                *)
AllFoundOnce ==
  /\ permutations = Cardinality(found)
  /\ prog.name = "permute" /\ Printing /\ Valid => found = Arrangements
=============================================================================
