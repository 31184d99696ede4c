---------------------------- MODULE ThreadNumber ----------------------------
(***************************************************************************)
(* omp_get_thread_num: the number of a worker is that of the stack its     *)
(* stack pointer points into.  spawn starts a worker near the top of its   *)
(* stack; calls move the pointer down and returns move it up again.  The   *)
(* stack of main() lies outside gomp_stacks.                               *)
(***************************************************************************)
EXTENDS Integers, Sequences

CONSTANTS
  MaxThreads,   (* GOMP_MAX_NUM_THREADS                                     *)
  StackSize,    (* GOMP_STACK_SIZE                                          *)
  Base,         (* the address of gomp_stacks                               *)
  FrameSizes,   (* how much stack a call takes                              *)
  MainSP        (* where the stack pointer of main() is                     *)

Ids == 0 .. MaxThreads - 1

ASSUME NumberAssumption ==
  /\ MaxThreads \in Nat \ {0} /\ StackSize \in Nat /\ StackSize >= 8 /\ Base \in Nat
  /\ FrameSizes \subseteq Nat
  /\ MainSP \in Nat /\ (MainSP < Base \/ MainSP > Base + MaxThreads * StackSize)

VARIABLES
  sp,       (* the stack pointer of each worker                             *)
  calls     (* where it will be when the calls it is in have returned       *)

numberVars == <<sp, calls>>

-----------------------------------------------------------------------------
(* &gomp_stacks[i], and &gomp_stacks[MaxThreads] behind the last. *)
Stack(i) == Base + i * StackSize

(* Mutant of StartSP: nothing is reserved at the top of the stack. *)
StartSPAtEnd(i) == Stack(i) + StackSize

(* &stack[N-8] *)
StartSP(i) == Stack(i) + StackSize - 8

omp_get_thread_num(p) ==
  IF p < Stack(0) \/ p > Stack(MaxThreads) THEN 0 ELSE (p - Base) \div StackSize

NumberInit ==
  /\ sp = [i \in Ids |-> StartSP(i)]
  /\ calls = [i \in Ids |-> <<>>]

(* A call that there is room for. *)
Call(i, size) ==
  /\ sp[i] - size >= Stack(i)
  /\ sp' = [sp EXCEPT ![i] = @ - size]
  /\ calls' = [calls EXCEPT ![i] = <<sp[i]>> \o @]

Return(i) ==
  /\ calls[i] # <<>>
  /\ sp' = [sp EXCEPT ![i] = Head(calls[i])]
  /\ calls' = [calls EXCEPT ![i] = Tail(@)]

NumberNext == \E i \in Ids : Return(i) \/ \E size \in FrameSizes : Call(i, size)

NumberSpec == NumberInit /\ [][NumberNext]_numberVars

-----------------------------------------------------------------------------
(* However deep a worker is in calls, up to the last byte of its stack, it *)
(* has its own number; main() has the number of worker 0.                  *)
OwnNumber ==
  /\ \A i \in Ids : omp_get_thread_num(sp[i]) = i
  /\ omp_get_thread_num(MainSP) = 0
=============================================================================
