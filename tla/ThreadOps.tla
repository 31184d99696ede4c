----------------------------- MODULE ThreadOps ------------------------------
(***************************************************************************)
(* The context switches of thread.cpp and threadFIFO.hpp, as operations on *)
(* the one CPU.  Each is a straight run of instructions of a thread that   *)
(* nothing preempts, so each is a single step.  Threads.tla drives them    *)
(* with arbitrary threads, the libgomp modules with theirs.                *)
(*                                                                         *)
(* A context is named by its thread.  A Thread object keeps its bytes when *)
(* it is resumed; they are of no use afterwards, and the model forgets     *)
(* them: resuming an object nobody is suspended in puts NoContext on the   *)
(* CPU, and so does popping an empty pending stack.                        *)
(***************************************************************************)
EXTENDS Integers, Sequences, SequencesExt

CONSTANTS
  Bg,          (* the context of start(), which runs the background loop *)
  NoContext,   (* garbage where a context should be                      *)
  FifoDepth    (* DEFER_FIFO_DEPTH, the capacity of DeferFIFO            *)

VARIABLES
  cpu,         (* the context in the CPU registers                       *)
  pending,     (* thread_stack, its top (where r11 points) last          *)
  deferred,    (* DeferFIFO, oldest first                                *)
  saved        (* the context suspended in each Thread object            *)

threadVars == <<cpu, pending, deferred, saved>>

(* stmdb r11!: push the running context on the pending stack. *)
Push == pending' = Append(pending, cpu)

(* Mutant of Pop: ldmia without write-back leaves r11 where it was. *)
PopNoWriteback ==
  /\ cpu' = IF pending = <<>> THEN NoContext ELSE Last(pending)
  /\ pending' = pending

(* Mutant of Pop: resumes the oldest pending context, not the newest. *)
PopOldest ==
  /\ cpu' = IF pending = <<>> THEN NoContext ELSE Head(pending)
  /\ pending' = IF pending = <<>> THEN <<>> ELSE Tail(pending)

(* ldmia r11!: the most recently pushed context gets the CPU back. *)
Pop ==
  /\ cpu' = IF pending = <<>> THEN NoContext ELSE Last(pending)
  /\ pending' = IF pending = <<>> THEN <<>> ELSE Front(pending)

-----------------------------------------------------------------------------
(* Thread::start(fn, newsp): the caller is pushed, the new thread runs. *)
Start(t) ==
  /\ Push
  /\ cpu' = t
  /\ UNCHANGED <<deferred, saved>>

(* The tail of Thread::start, reached when the thread function returns. *)
Return ==
  /\ Pop
  /\ UNCHANGED <<deferred, saved>>

(* o.suspend() *)
Suspend(o) ==
  /\ saved' = [saved EXCEPT ![o] = cpu]
  /\ Pop
  /\ UNCHANGED deferred

(* o.resume() *)
Resume(o) ==
  /\ Push
  /\ cpu' = saved[o]
  /\ saved' = [saved EXCEPT ![o] = NoContext]
  /\ UNCHANGED deferred

(* Mutant of FifoFull: the FIFO has no spare slot, it is full one early. *)
FifoFullEarly == Len(deferred) + 1 = FifoDepth

(* newNextIn == nextOut: the ring of FifoDepth + 1 slots is full. *)
FifoFull == Len(deferred) = FifoDepth

(* yield(), that is DeferFIFO.suspend(): a full FIFO just returns. *)
Yield ==
  IF FifoFull
  THEN UNCHANGED threadVars
  ELSE /\ deferred' = Append(deferred, cpu)
       /\ Pop
       /\ UNCHANGED saved

(* Mutant of Undefer: nextOut is not advanced. *)
UndeferKeepsSlot ==
  IF deferred = <<>>
  THEN UNCHANGED threadVars
  ELSE /\ Push
       /\ cpu' = Head(deferred)
       /\ UNCHANGED <<deferred, saved>>

(* Mutant of Undefer: the background context is not pushed. *)
UndeferNoPush ==
  IF deferred = <<>>
  THEN UNCHANGED threadVars
  ELSE /\ cpu' = Head(deferred)
       /\ deferred' = Tail(deferred)
       /\ UNCHANGED <<pending, saved>>

(* Mutant of Undefer: the newest deferred context goes first. *)
UndeferNewest ==
  IF deferred = <<>>
  THEN UNCHANGED threadVars
  ELSE /\ Push
       /\ cpu' = Last(deferred)
       /\ deferred' = Front(deferred)
       /\ UNCHANGED saved

(* undefer(), that is DeferFIFO.resume(): an empty FIFO just returns. *)
Undefer ==
  IF deferred = <<>>
  THEN UNCHANGED threadVars
  ELSE /\ Push
       /\ cpu' = Head(deferred)
       /\ deferred' = Tail(deferred)
       /\ UNCHANGED saved

-----------------------------------------------------------------------------
(* Where contexts can be, apart from the CPU. *)
OnStack == Range(pending)
InFifo == Range(deferred)
InObjects == Range(saved) \ {NoContext}

(* The contexts in existence are exactly those in C, and each is in one    *)
(* place: on the CPU, or pending, or deferred, or in one Thread object.    *)
OnePlaceEach(C) ==
  /\ IsInjective(pending)
  /\ IsInjective(deferred)
  /\ \A o, p \in DOMAIN saved : saved[o] = saved[p] /\ saved[o] # NoContext => o = p
  /\ cpu \notin OnStack \cup InFifo \cup InObjects
  /\ OnStack \cap InFifo = {} /\ OnStack \cap InObjects = {} /\ InFifo \cap InObjects = {}
  /\ {cpu} \cup OnStack \cup InFifo \cup InObjects = C

(* The background context is under every pending context, and it runs when *)
(* and only when nothing is pending: suspend never pops an empty stack.    *)
BgUnderneath ==
  IF cpu = Bg THEN pending = <<>> ELSE pending # <<>> /\ Head(pending) = Bg
=============================================================================
