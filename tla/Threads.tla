------------------------------ MODULE Threads -------------------------------
(***************************************************************************)
(* The threading system of thread.hpp, thread.cpp and threadFIFO.hpp under *)
(* threads that use it in any way its comments allow: a thread suspends in *)
(* a Thread object that is free, resumes an object somebody is suspended   *)
(* in, yields, spawns or returns, in any order; the background context     *)
(* resumes deferred threads and never leaves the CPU by itself.            *)
(***************************************************************************)
EXTENDS ThreadOps, FiniteSets

CONSTANTS
  Pool,        (* the threads that may be spawned, one per stack         *)
  Objects,     (* the Thread objects                                     *)
  Depth        (* THREAD_DEPTH, the length of thread_stack               *)

(* The sizes the code relies on without testing them: both the FIFO and    *)
(* the pending stack have room for every thread.                           *)
ASSUME ThreadsAssumption ==
  /\ IsFiniteSet(Pool)
  /\ Bg \notin Pool /\ NoContext \notin Pool /\ Bg # NoContext
  /\ FifoDepth \in Nat /\ Cardinality(Pool) <= FifoDepth
  /\ Depth \in Nat /\ Cardinality(Pool) <= Depth

VARIABLES
  live,        (* the threads started and not yet returned               *)
  done         (* the threads whose "done" flag is set                   *)

vars == <<threadVars, live, done>>

Init ==
  /\ cpu = Bg
  /\ pending = <<>>
  /\ deferred = <<>>
  /\ saved = [o \in Objects |-> NoContext]
  /\ live = {} /\ done = {}

(* spawn: the running context starts a thread on a stack that is not in use. *)
Spawn(t) ==
  /\ cpu \in live \cup {Bg}
  /\ t \notin live
  /\ Start(t)
  /\ live' = live \cup {t}
  /\ done' = done \ {t}

(* The thread function returns: set "done", run the next pending context. *)
Finish ==
  /\ cpu \in live
  /\ Return
  /\ live' = live \ {cpu}
  /\ done' = done \cup {cpu}

SuspendSelf(o) ==
  /\ cpu \in live
  /\ saved[o] = NoContext
  /\ Suspend(o)
  /\ UNCHANGED <<live, done>>

ResumeOther(o) ==
  /\ cpu \in live \cup {Bg}
  /\ saved[o] # NoContext
  /\ Resume(o)
  /\ UNCHANGED <<live, done>>

YieldSelf ==
  /\ cpu \in live
  /\ Yield
  /\ UNCHANGED <<live, done>>

(* One turn of the background loop of start(). *)
Background ==
  /\ cpu = Bg
  /\ Undefer
  /\ UNCHANGED <<live, done>>

Next ==
  \/ \E t \in Pool : Spawn(t)
  \/ Finish
  \/ \E o \in Objects : SuspendSelf(o) \/ ResumeOther(o)
  \/ YieldSelf
  \/ Background

Spec == Init /\ [][Next]_vars

(* Nothing preempts a thread, so progress is up to the threads: one that   *)
(* runs again and again must now and then suspend, yield or return.  The   *)
(* background loop does nothing but undefer once start() has spawned.      *)
GiveUp == Finish \/ YieldSelf \/ \E o \in Objects : SuspendSelf(o)

FairSpec ==
  /\ Spec
  /\ SF_vars(Background)
  /\ \A t \in Pool : SF_vars(cpu = t /\ GiveUp)

-----------------------------------------------------------------------------
Contexts == Pool \cup {Bg}

(* Every variable holds contexts, and only contexts, of the right kind; in *)
(* particular the CPU never runs garbage.                                  *)
TypeOK ==
  /\ cpu \in Contexts
  /\ pending \in Seq(Contexts)
  /\ deferred \in Seq(Pool)
  /\ saved \in [Objects -> Pool \cup {NoContext}]
  /\ live \subseteq Pool
  /\ done \subseteq Pool

(* No thread is ever lost or runs twice: each thread that was spawned and  *)
(* has not returned is in exactly one of the CPU, thread_stack, DeferFIFO  *)
(* and the Thread objects, and a thread that has returned is in none, so   *)
(* that its stack may be used again.                                       *)
OnePlace == OnePlaceEach(live \cup {Bg})

(* thread_stack never overflows, however deep resume calls are nested:     *)
(* a context is pushed at most once.                                       *)
PendingFits == Len(pending) <= Depth

(* DeferFIFO is never found full, so a yield always gives up the CPU (the  *)
(* case threadFIFO.hpp marks "this probably should be an assert").         *)
NeverFull == cpu \in live => ~FifoFull

(* Every thread that gave the CPU up for a turn gets it back: a pending    *)
(* one when those above it have left, a deferred one when the background   *)
(* loop reaches it.                                                        *)
RunsAgain == \A t \in Pool : t \in OnStack \cup InFifo ~> cpu = t
=============================================================================
