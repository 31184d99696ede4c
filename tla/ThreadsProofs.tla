---------------------------- MODULE ThreadsProofs ---------------------------
(***************************************************************************)
(* The threading system, for any number of threads, Thread objects and     *)
(* sizes that satisfy ThreadsAssumption: no thread is lost or runs twice,  *)
(* and neither the pending stack nor the FIFO ever overflows.              *)
(***************************************************************************)
EXTENDS Threads, ThreadOpsProofs

(* The inductive invariant.  OnePlace alone is not inductive: a pop needs  *)
(* to know that there is something to pop, which BgUnderneath says, and    *)
(* that only threads are suspended or deferred.                            *)
IInv ==
  /\ live \subseteq Pool /\ done \subseteq Pool
  /\ DOMAIN saved = Objects
  /\ OpsInv(live \cup {Bg})

(* start() begins alone on the CPU.                                        *)
LEMMA InitIInv == Init => IInv
<1> SUFFICES ASSUME Init PROVE IInv
  OBVIOUS
<1>1. /\ cpu = Bg /\ pending = <<>> /\ deferred = <<>> /\ live = {} /\ done = {}
      /\ saved = [o \in Objects |-> NoContext]
  BY DEF Init
<1>2. Bg # NoContext
  BY ThreadsAssumption
<1>3. Range(pending) = {} /\ Range(deferred) = {} /\ InObjects = {}
  BY <1>1 DEF Range, InObjects
<1>4. IsInjective(pending) /\ IsInjective(deferred)
  BY <1>1 DEF IsInjective
<1>5. OnePlaceEach({Bg})
  BY <1>1, <1>3, <1>4 DEF OnePlaceEach, OnStack, InFifo
<1>6. pending \in Seq({Bg}) /\ deferred \in Seq({Bg} \ {Bg})
  BY <1>1, EmptySeq
<1> QED
  BY <1>1, <1>2, <1>5, <1>6 DEF IInv, OpsInv, BgUnderneath

(* Every switch of contexts keeps the invariant.                           *)
LEMMA NextIInv == IInv /\ [Next]_vars => IInv'
<1> SUFFICES ASSUME IInv, [Next]_vars PROVE IInv'
  OBVIOUS
<1> PICK C : C = live \cup {Bg}
  OBVIOUS
<1> PICK D : D = live' \cup {Bg}
  OBVIOUS
<1>0. /\ OpsInv(C) /\ DOMAIN saved = Objects /\ C \subseteq Pool \cup {Bg}
      /\ live \subseteq Pool /\ done \subseteq Pool
      /\ Bg \notin live /\ NoContext \notin Pool
  BY ThreadsAssumption DEF IInv
<1> SUFFICES /\ OpsInv(D)' /\ DOMAIN saved' = Objects
             /\ live' \subseteq Pool /\ done' \subseteq Pool
  BY DEF IInv
<1>1. ASSUME NEW t \in Pool, Spawn(t) PROVE /\ OpsInv(D)' /\ DOMAIN saved' = Objects
                                            /\ live' \subseteq Pool /\ done' \subseteq Pool
  <2>1. Start(t) /\ live' = live \cup {t} /\ done' = done \ {t} /\ t \notin C /\ t # NoContext
    BY <1>0, <1>1, ThreadsAssumption DEF Spawn
  <2>2. D = C \cup {t}
    BY <2>1
  <2>3. OpsInv(D)'
    BY <1>0, <2>1, <2>2, StartKeeps
  <2> QED
    BY <1>0, <2>1, <2>3 DEF Start
<1>2. ASSUME Finish PROVE /\ OpsInv(D)' /\ DOMAIN saved' = Objects
                          /\ live' \subseteq Pool /\ done' \subseteq Pool
  <2>1. Return /\ cpu # Bg /\ cpu \in Pool /\ live' = live \ {cpu} /\ done' = done \cup {cpu}
    BY <1>0, <1>2 DEF Finish
  <2>2. D = C \ {cpu}
    BY <2>1
  <2>3. OpsInv(D)'
    BY <1>0, <2>1, <2>2, ReturnKeeps
  <2> QED
    BY <1>0, <2>1, <2>3 DEF Return
<1>3. ASSUME NEW o \in Objects, SuspendSelf(o)
      PROVE /\ OpsInv(D)' /\ DOMAIN saved' = Objects
            /\ live' \subseteq Pool /\ done' \subseteq Pool
  <2>1. Suspend(o) /\ cpu # Bg /\ saved[o] = NoContext /\ D = C /\ UNCHANGED <<live, done>>
    BY <1>0, <1>3 DEF SuspendSelf
  <2>2. OpsInv(D)'
    BY <1>0, <2>1, SuspendKeeps
  <2> QED
    BY <1>0, <2>1, <2>2 DEF Suspend
<1>4. ASSUME NEW o \in Objects, ResumeOther(o)
      PROVE /\ OpsInv(D)' /\ DOMAIN saved' = Objects
            /\ live' \subseteq Pool /\ done' \subseteq Pool
  <2>1. Resume(o) /\ saved[o] # NoContext /\ D = C /\ UNCHANGED <<live, done>>
    BY <1>4 DEF ResumeOther
  <2>2. OpsInv(D)'
    BY <1>0, <2>1, ResumeKeeps
  <2> QED
    BY <1>0, <2>1, <2>2 DEF Resume
<1>5. ASSUME YieldSelf PROVE /\ OpsInv(D)' /\ DOMAIN saved' = Objects
                             /\ live' \subseteq Pool /\ done' \subseteq Pool
  <2>1. Yield /\ cpu # Bg /\ D = C /\ UNCHANGED <<live, done>>
    BY <1>0, <1>5 DEF YieldSelf
  <2>2. OpsInv(D)'
    BY <1>0, <2>1, YieldKeeps
  <2> QED
    BY <1>0, <2>1, <2>2 DEF Yield, threadVars
<1>6. ASSUME Background PROVE /\ OpsInv(D)' /\ DOMAIN saved' = Objects
                              /\ live' \subseteq Pool /\ done' \subseteq Pool
  <2>1. Undefer /\ D = C /\ UNCHANGED <<live, done>>
    BY <1>6 DEF Background
  <2>2. OpsInv(D)'
    BY <1>0, <2>1, UndeferKeeps
  <2> QED
    BY <1>0, <2>1, <2>2 DEF Undefer, threadVars
<1>7. ASSUME UNCHANGED vars PROVE /\ OpsInv(D)' /\ DOMAIN saved' = Objects
                                  /\ live' \subseteq Pool /\ done' \subseteq Pool
  <2>1. D = C /\ UNCHANGED <<threadVars, live, done>>
    BY <1>7 DEF vars
  <2> QED
    BY <1>0, <2>1 DEF threadVars, OpsInv, OnePlaceEach, BgUnderneath, OnStack, InFifo,
                      InObjects, IsInjective
<1> QED
  BY <1>1, <1>2, <1>3, <1>4, <1>5, <1>6, <1>7 DEF Next

(* The inductive invariant holds of every behaviour.                       *)
THEOREM ThreadsInvariant == Spec => []IInv
BY InitIInv, NextIInv, PTL DEF Spec

-----------------------------------------------------------------------------
(* Every variable keeps its type: the CPU never runs garbage.              *)
THEOREM ThreadsTypeOK == Spec => []TypeOK
<1>1. IInv => TypeOK
  <2> SUFFICES ASSUME IInv PROVE TypeOK
    OBVIOUS
  <2> PICK C : C = live \cup {Bg}
    OBVIOUS
  <2>1. /\ OpsInv(C) /\ live \subseteq Pool /\ done \subseteq Pool /\ DOMAIN saved = Objects
        /\ C \subseteq Contexts /\ C \ {Bg} \subseteq Pool
    BY DEF IInv, Contexts
  <2>2. pending \in Seq(Contexts) /\ deferred \in Seq(Pool)
    BY <2>1, SeqMonotonic DEF OpsInv
  <2> QED
    BY <2>1, <2>2 DEF TypeOK, OpsInv
<1> QED
  BY <1>1, ThreadsInvariant, PTL

(* No thread is lost, and none is in two places, in any use of the         *)
(* threading system by any number of threads.                              *)
THEOREM ThreadsOnePlace == Spec => []OnePlace
<1>1. IInv => OnePlace
  BY DEF IInv, OpsInv, OnePlace
<1> QED
  BY <1>1, ThreadsInvariant, PTL

(* The background context is under all the pending ones: a suspend, a      *)
(* yield or a return never pops an empty stack.                            *)
THEOREM ThreadsBgUnderneath == Spec => []BgUnderneath
<1>1. IInv => BgUnderneath
  BY DEF IInv, OpsInv
<1> QED
  BY <1>1, ThreadsInvariant, PTL

-----------------------------------------------------------------------------
(* thread_stack never overflows: the running context is not on it, so it   *)
(* holds at most one entry per thread of the pool.                         *)
THEOREM ThreadsPendingFits == Spec => []PendingFits
<1>1. IInv => PendingFits
  <2> SUFFICES ASSUME IInv PROVE Len(pending) <= Depth
    BY DEF PendingFits
  <2> PICK S : S = (live \cup {Bg}) \ {cpu}
    OBVIOUS
  <2>1. /\ pending \in Seq(live \cup {Bg}) /\ IsInjective(pending)
        /\ cpu \notin Range(pending) /\ cpu \in live \cup {Bg}
    BY DEF IInv, OpsInv, OnePlaceEach, OnStack
  <2>2. pending \in Seq(S)
    BY <2>1, SeqRange, RangeInSeq
  <2>3. IsFiniteSet(S) /\ Cardinality(S) <= Cardinality(Pool)
    <3>1. CASE cpu = Bg
      <4>1. S \subseteq Pool
        BY <3>1 DEF IInv
      <4> QED
        BY <4>1, FS_Subset, ThreadsAssumption
    <3>2. CASE cpu # Bg
      <4>1. cpu \in Pool /\ Bg \notin Pool /\ IsFiniteSet(Pool)
        BY <2>1, <3>2, ThreadsAssumption DEF IInv
      <4>2. /\ IsFiniteSet(Pool \cup {Bg})
            /\ Cardinality(Pool \cup {Bg}) = Cardinality(Pool) + 1
        BY <4>1, FS_AddElement
      <4>3. /\ IsFiniteSet((Pool \cup {Bg}) \ {cpu})
            /\ Cardinality((Pool \cup {Bg}) \ {cpu}) = Cardinality(Pool)
        <5> DEFINE T == Pool \cup {Bg}
        <5>1. IsFiniteSet(T) /\ cpu \in T /\ Cardinality(T) = Cardinality(Pool) + 1
          BY <4>1, <4>2
        <5> HIDE DEF T
        <5>2. IsFiniteSet(T \ {cpu}) /\ Cardinality(T \ {cpu}) = Cardinality(T) - 1
          BY <5>1, FS_RemoveElement
        <5>3. Cardinality(Pool) \in Nat
          BY <4>1, FS_CardinalityType
        <5>4. Cardinality(T \ {cpu}) = Cardinality(Pool)
          BY <5>1, <5>2, <5>3
        <5> QED
          BY <5>2, <5>4 DEF T
      <4>4. S \subseteq (Pool \cup {Bg}) \ {cpu}
        BY DEF IInv
      <4> QED
        BY <4>3, <4>4, FS_Subset
    <3> QED
      BY <3>1, <3>2
  <2>4. Len(pending) <= Cardinality(S)
    BY <2>1, <2>2, <2>3, NoLongerThan
  <2>5. /\ Len(pending) \in Nat /\ Cardinality(S) \in Nat
        /\ Cardinality(Pool) \in Nat /\ Depth \in Nat /\ Cardinality(Pool) <= Depth
    BY <2>1, <2>3, LenProperties, FS_CardinalityType, ThreadsAssumption
  <2> QED
    BY <2>3, <2>4, <2>5
<1> QED
  BY <1>1, ThreadsInvariant, PTL

(* DeferFIFO always has room for the thread that is running, so yield      *)
(* never takes its "FIFO is full" return.                                  *)
THEOREM ThreadsNeverFull == Spec => []NeverFull
<1>1. IInv => NeverFull
  <2> SUFFICES ASSUME IInv, cpu \in live PROVE ~FifoFull
    BY DEF NeverFull
  <2> PICK S : S = Pool \ {cpu}
    OBVIOUS
  <2>1. /\ deferred \in Seq((live \cup {Bg}) \ {Bg}) /\ IsInjective(deferred)
        /\ cpu \notin Range(deferred)
    BY DEF IInv, OpsInv, OnePlaceEach, InFifo
  <2>2. deferred \in Seq(S)
    <3>1. Range(deferred) \subseteq S
      BY <2>1, SeqRange DEF IInv
    <3> QED
      BY <2>1, <3>1, RangeInSeq
  <2>3. IsFiniteSet(S) /\ Cardinality(S) = Cardinality(Pool) - 1
    BY FS_RemoveElement, ThreadsAssumption DEF IInv
  <2>4. Len(deferred) <= Cardinality(S)
    BY <2>1, <2>2, <2>3, NoLongerThan
  <2>5. /\ Len(deferred) \in Nat /\ Cardinality(Pool) \in Nat
        /\ FifoDepth \in Nat /\ Cardinality(Pool) <= FifoDepth
    BY <2>1, LenProperties, FS_CardinalityType, ThreadsAssumption
  <2> QED
    BY <2>3, <2>4, <2>5 DEF FifoFull
<1> QED
  BY <1>1, ThreadsInvariant, PTL
=============================================================================
