--------------------------- MODULE ThreadOpsProofs --------------------------
(***************************************************************************)
(* What each context switch of thread.cpp and threadFIFO.hpp preserves,    *)
(* for any contexts: the facts the proofs about the threads that use them  *)
(* rest on.  C and D are the contexts that exist before and after.         *)
(***************************************************************************)
EXTENDS ThreadOps, SequenceTheorems, FiniteSetTheorems, TLAPS

(* Append adds one element to the range, and keeps a sequence without      *)
(* duplicates so if the element is new: a context pushed or deferred.      *)
LEMMA AppendFacts ==
  ASSUME NEW S, NEW s \in Seq(S), NEW x \in S
  PROVE  /\ Append(s, x) \in Seq(S)
         /\ Append(s, x) # <<>>
         /\ Len(Append(s, x)) = Len(s) + 1
         /\ Range(Append(s, x)) = Range(s) \cup {x}
         /\ IsInjective(s) /\ x \notin Range(s) => IsInjective(Append(s, x))
         /\ Head(Append(s, x)) = IF s = <<>> THEN x ELSE Head(s)
<1> DEFINE t == Append(s, x)
<1>1. /\ t \in Seq(S) /\ t # <<>> /\ Len(t) = Len(s) + 1 /\ Len(s) \in Nat
      /\ \A i \in 1 .. Len(s) : t[i] = s[i]
      /\ t[Len(s) + 1] = x
  BY AppendProperties, LenProperties
<1>2. DOMAIN s = 1 .. Len(s) /\ DOMAIN t = 1 .. (Len(s) + 1)
  BY <1>1, LenProperties
<1>3. Range(t) = Range(s) \cup {x}
  <2>1. Range(t) = {t[i] : i \in 1 .. (Len(s) + 1)} /\ Range(s) = {s[i] : i \in 1 .. Len(s)}
    BY <1>2 DEF Range
  <2>2. 1 .. (Len(s) + 1) = 1 .. Len(s) \cup {Len(s) + 1}
    BY <1>1
  <2> HIDE DEF t
  <2> QED
    BY <2>1, <2>2, <1>1
<1>4. ASSUME IsInjective(s), x \notin Range(s) PROVE IsInjective(t)
  BY <1>1, <1>2, <1>4 DEF IsInjective, Range
<1>5. Head(t) = IF s = <<>> THEN x ELSE Head(s)
  BY <1>1, HeadTailProperties, EmptySeq
<1> QED
  BY <1>1, <1>3, <1>4, <1>5

(* Front takes the last element off: what popping thread_stack leaves.     *)
LEMMA FrontFacts ==
  ASSUME NEW S, NEW s \in Seq(S), s # <<>>, IsInjective(s)
  PROVE  /\ Front(s) \in Seq(S)
         /\ IsInjective(Front(s))
         /\ Last(s) \in Range(s)
         /\ Range(Front(s)) = Range(s) \ {Last(s)}
         /\ IF Front(s) = <<>> THEN Last(s) = Head(s)
                               ELSE Head(Front(s)) = Head(s) /\ Last(s) # Head(s)
<1> DEFINE n == Len(s)
           f == Front(s)
<1>1. n \in Nat /\ n # 0 /\ DOMAIN s = 1 .. n
  BY LenProperties, EmptySeq
<1>2. /\ f \in Seq(S)
      /\ Len(f) = n - 1
      /\ \A i \in 1 .. (n - 1) : f[i] = s[i]
  BY <1>1, SubSeqProperties, ElementOfSeq DEF Front
<1>3. DOMAIN f = 1 .. (n - 1)
  BY <1>2, LenProperties
<1> HIDE DEF f
<1>4. IsInjective(f)
  BY <1>1, <1>2, <1>3 DEF IsInjective
<1>5. Last(s) = s[n] /\ Last(s) \in Range(s)
  BY <1>1 DEF Last, Range
<1>6. Range(f) = Range(s) \ {Last(s)}
  BY <1>1, <1>2, <1>3, <1>5 DEF IsInjective, Range
<1>7. Head(s) = s[1]
  BY HeadTailProperties
<1>8. CASE f = <<>>
  <2>0. Len(f) = 0
    BY <1>2, <1>8, EmptySeq
  <2>1. n = 1
    <3>1. n \in Nat /\ Len(f) = n - 1
      BY <1>1, <1>2
    <3> QED
      BY <2>0, <3>1
  <2>2. Last(s) = Head(s)
    BY <1>5, <1>7, <2>1
  <2> QED
    BY <1>2, <1>4, <1>5, <1>6, <1>8, <2>2 DEF f
<1>9. CASE f # <<>>
  <2>1. n - 1 # 0
    BY <1>2, <1>9, EmptySeq
  <2>2. Head(f) = f[1]
    BY <1>2, <1>9, HeadTailProperties
  <2>3. Head(f) = Head(s) /\ Last(s) # Head(s)
    BY <1>1, <1>2, <1>5, <1>7, <2>1, <2>2 DEF IsInjective
  <2> QED
    BY <1>2, <1>4, <1>5, <1>6, <1>9, <2>3 DEF f
<1> QED
  BY <1>8, <1>9

(* Tail takes the first element off: what a resume leaves in DeferFIFO.    *)
LEMMA TailFacts ==
  ASSUME NEW S, NEW s \in Seq(S), s # <<>>, IsInjective(s)
  PROVE  /\ Tail(s) \in Seq(S)
         /\ IsInjective(Tail(s))
         /\ Head(s) \in Range(s)
         /\ Range(Tail(s)) = Range(s) \ {Head(s)}
<1> DEFINE n == Len(s)
           t == Tail(s)
<1>1. n \in Nat /\ n # 0 /\ DOMAIN s = 1 .. n
  BY LenProperties, EmptySeq
<1>2. /\ t \in Seq(S)
      /\ Len(t) = n - 1
      /\ \A i \in 1 .. (n - 1) : t[i] = s[i + 1]
  BY HeadTailProperties
<1>3. DOMAIN t = 1 .. (n - 1)
  BY <1>2, LenProperties
<1>4. Head(s) = s[1] /\ Head(s) \in Range(s)
  BY <1>1, HeadTailProperties DEF Range
<1> HIDE DEF t
<1>5. IsInjective(t)
  <2>1. ASSUME NEW i \in 1 .. (n - 1), NEW j \in 1 .. (n - 1), t[i] = t[j] PROVE i = j
    <3>1. i + 1 \in DOMAIN s /\ j + 1 \in DOMAIN s /\ s[i + 1] = s[j + 1]
      BY <1>1, <1>2, <2>1
    <3>2. i + 1 = j + 1
      BY <3>1 DEF IsInjective
    <3> QED
      BY <1>1, <3>2
  <2> QED
    BY <1>3, <2>1 DEF IsInjective
<1>6. Range(t) = Range(s) \ {Head(s)}
  <2>1. ASSUME NEW i \in 1 .. (n - 1) PROVE t[i] \in Range(s) \ {Head(s)}
    BY <1>1, <1>2, <1>4, <2>1 DEF IsInjective, Range
  <2>2. ASSUME NEW i \in 1 .. n, s[i] # Head(s) PROVE s[i] \in Range(t)
    <3>1. i - 1 \in 1 .. (n - 1) /\ t[i - 1] = s[i]
      BY <1>1, <1>2, <1>4, <2>2
    <3> QED
      BY <1>3, <3>1 DEF Range
  <2> QED
    BY <1>1, <1>3, <2>1, <2>2 DEF Range
<1> QED
  BY <1>2, <1>4, <1>5, <1>6 DEF t

(* A sequence is one over any set that holds its elements.                 *)
LEMMA RangeInSeq ==
  ASSUME NEW S, NEW T, NEW s \in Seq(S), Range(s) \subseteq T
  PROVE  s \in Seq(T)
<1>1. /\ Len(s) \in Nat /\ DOMAIN s = 1 .. Len(s)
      /\ s \in [1 .. Len(s) -> S]
  BY LenProperties
<1>2. s \in [1 .. Len(s) -> T]
  BY <1>1 DEF Range
<1> QED
  BY <1>1, <1>2

(* The elements of a sequence over S are in S.                             *)
LEMMA SeqRange ==
  ASSUME NEW S, NEW s \in Seq(S)
  PROVE  Range(s) \subseteq S
BY LenProperties, ElementOfSeq DEF Range

-----------------------------------------------------------------------------
(* The running context and those that wait are the contexts C, each in one *)
(* place; the background context is neither deferred nor suspended.        *)
OpsInv(C) ==
  /\ Bg \in C /\ NoContext \notin C
  /\ cpu \in C
  /\ pending \in Seq(C)
  /\ deferred \in Seq(C \ {Bg})
  /\ saved \in [DOMAIN saved -> (C \ {Bg}) \cup {NoContext}]
  /\ OnePlaceEach(C)
  /\ BgUnderneath

(* A push of the running context, when another one takes its place.        *)
LEMMA PushFacts ==
  ASSUME NEW C, OpsInv(C), Push, cpu' # Bg, cpu' # cpu
  PROVE  /\ pending' \in Seq(C)
         /\ IsInjective(pending)'
         /\ OnStack' = OnStack \cup {cpu}
         /\ BgUnderneath'
<1>1. pending \in Seq(C) /\ cpu \in C /\ IsInjective(pending) /\ cpu \notin Range(pending)
  BY DEF OpsInv, OnePlaceEach, OnStack
<1>2. /\ pending' \in Seq(C) /\ pending' # <<>>
      /\ IsInjective(pending')
      /\ Range(pending') = Range(pending) \cup {cpu}
      /\ Head(pending') = IF pending = <<>> THEN cpu ELSE Head(pending)
  BY <1>1, AppendFacts DEF Push
<1>3. BgUnderneath'
  BY <1>2 DEF OpsInv, BgUnderneath
<1>4. IsInjective(pending)' /\ OnStack' = OnStack \cup {cpu}
  BY <1>2 DEF OnStack, IsInjective
<1> QED
  BY <1>2, <1>3, <1>4

(* A pop, by any context but the background one: the stack is not empty.   *)
LEMMA PopFacts ==
  ASSUME NEW C, OpsInv(C), Pop, cpu # Bg
  PROVE  /\ cpu' \in OnStack
         /\ pending' \in Seq(C)
         /\ IsInjective(pending)'
         /\ OnStack' = OnStack \ {cpu'}
         /\ BgUnderneath'
<1>1. /\ pending \in Seq(C) /\ pending # <<>> /\ IsInjective(pending)
      /\ Head(pending) = Bg
  BY DEF OpsInv, OnePlaceEach, BgUnderneath
<1>2. cpu' = Last(pending) /\ pending' = Front(pending)
  BY <1>1 DEF Pop
<1>3. /\ pending' \in Seq(C) /\ IsInjective(pending')
      /\ cpu' \in Range(pending)
      /\ Range(pending') = Range(pending) \ {cpu'}
      /\ IF pending' = <<>> THEN cpu' = Bg ELSE Head(pending') = Bg /\ cpu' # Bg
  BY <1>1, <1>2, FrontFacts
<1>4. BgUnderneath'
  BY <1>3 DEF BgUnderneath
<1>5. IsInjective(pending)' /\ OnStack' = OnStack \ {cpu'} /\ cpu' \in OnStack
  BY <1>3 DEF OnStack, IsInjective
<1> QED
  BY <1>3, <1>4, <1>5

-----------------------------------------------------------------------------
(* Thread::start of a thread that does not exist yet.                      *)
LEMMA StartKeeps ==
  ASSUME NEW C, NEW t, NEW D, OpsInv(C), Start(t),
         t \notin C, t # NoContext, D = C \cup {t}
  PROVE  OpsInv(D)'
<1>1. cpu' = t /\ deferred' = deferred /\ saved' = saved /\ Push
  BY DEF Start
<1>2. t # Bg /\ t # cpu
  BY DEF OpsInv
<1>3. /\ pending' \in Seq(C) /\ IsInjective(pending)'
      /\ OnStack' = OnStack \cup {cpu}
      /\ BgUnderneath'
  BY <1>1, <1>2, PushFacts
<1>4. InFifo' = InFifo /\ InObjects' = InObjects
  BY <1>1 DEF InFifo, InObjects
<1>5. pending' \in Seq(D) /\ deferred' \in Seq(D \ {Bg})
  <2>1. C \subseteq D /\ C \ {Bg} \subseteq D \ {Bg}
    OBVIOUS
  <2> QED
    BY <1>1, <1>3, <2>1, SeqMonotonic DEF OpsInv
<1>6. OnePlaceEach(D)'
  BY <1>1, <1>3, <1>4 DEF OpsInv, OnePlaceEach, IsInjective
<1> QED
  BY <1>1, <1>3, <1>5, <1>6 DEF OpsInv

(* The return of a thread's function; the background context never does.   *)
LEMMA ReturnKeeps ==
  ASSUME NEW C, NEW D, OpsInv(C), Return, cpu # Bg, D = C \ {cpu}
  PROVE  OpsInv(D)'
<1>1. deferred' = deferred /\ saved' = saved /\ Pop
  BY DEF Return
<1>2. /\ cpu' \in OnStack /\ pending' \in Seq(C) /\ IsInjective(pending)'
      /\ OnStack' = OnStack \ {cpu'}
      /\ BgUnderneath'
  BY <1>1, PopFacts
<1>3. InFifo' = InFifo /\ InObjects' = InObjects
  BY <1>1 DEF InFifo, InObjects
<1>4. OnePlaceEach(D)'
  BY <1>1, <1>2, <1>3 DEF OpsInv, OnePlaceEach, IsInjective
<1>5. cpu' \in D /\ OnStack' \subseteq D /\ InFifo' \subseteq D /\ InObjects' \subseteq D
  BY <1>4 DEF OnePlaceEach
<1>6. pending' \in Seq(D)
  BY <1>2, <1>5, RangeInSeq DEF OnStack
<1>7. deferred' \in Seq(D \ {Bg})
  <2>1. deferred \in Seq(C \ {Bg})
    BY DEF OpsInv
  <2>2. Range(deferred) \subseteq D \ {Bg}
    BY <1>1, <1>5, <2>1, SeqRange DEF InFifo
  <2> QED
    BY <1>1, <2>1, <2>2, RangeInSeq
<1>8. saved' \in [DOMAIN saved' -> (D \ {Bg}) \cup {NoContext}]
  BY <1>1, <1>5 DEF InObjects, OpsInv, Range
<1> QED
  BY <1>1, <1>2, <1>4, <1>5, <1>6, <1>7, <1>8 DEF OpsInv

(* suspend() in a Thread object nobody is suspended in.                    *)
LEMMA SuspendKeeps ==
  ASSUME NEW C, NEW o \in DOMAIN saved, OpsInv(C), Suspend(o), cpu # Bg,
         saved[o] = NoContext
  PROVE  OpsInv(C)'
<1>1. deferred' = deferred /\ saved' = [saved EXCEPT ![o] = cpu] /\ Pop
  BY DEF Suspend
<1>2. /\ cpu' \in OnStack /\ pending' \in Seq(C) /\ IsInjective(pending)'
      /\ OnStack' = OnStack \ {cpu'}
      /\ BgUnderneath'
  BY <1>1, PopFacts
<1>3. InFifo' = InFifo /\ InObjects' = InObjects \cup {cpu}
  BY <1>1 DEF InFifo, InObjects, OpsInv, Range
<1>4. \A p, q \in DOMAIN saved' :
        saved'[p] = saved'[q] /\ saved'[p] # NoContext => p = q
  BY <1>1 DEF OpsInv, OnePlaceEach, InObjects, Range
<1>5. OnePlaceEach(C)'
  BY <1>1, <1>2, <1>3, <1>4 DEF OpsInv, OnePlaceEach, IsInjective
<1>6. cpu' \in C
  BY <1>5 DEF OnePlaceEach
<1>7. saved' \in [DOMAIN saved' -> (C \ {Bg}) \cup {NoContext}]
  BY <1>1 DEF OpsInv
<1> QED
  BY <1>1, <1>2, <1>5, <1>6, <1>7 DEF OpsInv

(* resume() of a Thread object somebody is suspended in.                   *)
LEMMA ResumeKeeps ==
  ASSUME NEW C, NEW o \in DOMAIN saved, OpsInv(C), Resume(o), saved[o] # NoContext
  PROVE  OpsInv(C)'
<1>1. /\ deferred' = deferred /\ saved' = [saved EXCEPT ![o] = NoContext]
      /\ cpu' = saved[o] /\ Push
  BY DEF Resume
<1>2. cpu' \in InObjects /\ cpu' # Bg /\ cpu' # cpu /\ cpu' \in C
  BY <1>1 DEF OpsInv, OnePlaceEach, InObjects, Range
<1>3. /\ pending' \in Seq(C) /\ IsInjective(pending)'
      /\ OnStack' = OnStack \cup {cpu}
      /\ BgUnderneath'
  BY <1>1, <1>2, PushFacts
<1>4. InFifo' = InFifo /\ InObjects' = InObjects \ {cpu'}
  BY <1>1 DEF InFifo, InObjects, OpsInv, OnePlaceEach, Range
<1>5. \A p, q \in DOMAIN saved' :
        saved'[p] = saved'[q] /\ saved'[p] # NoContext => p = q
  BY <1>1 DEF OpsInv, OnePlaceEach
<1>6. OnePlaceEach(C)'
  BY <1>1, <1>2, <1>3, <1>4, <1>5 DEF OpsInv, OnePlaceEach, IsInjective
<1>7. saved' \in [DOMAIN saved' -> (C \ {Bg}) \cup {NoContext}]
  BY <1>1 DEF OpsInv
<1> QED
  BY <1>1, <1>2, <1>3, <1>6, <1>7 DEF OpsInv

(* yield(), whether or not DeferFIFO has room.                             *)
LEMMA YieldKeeps ==
  ASSUME NEW C, OpsInv(C), Yield, cpu # Bg
  PROVE  OpsInv(C)'
<1>1. CASE FifoFull
  BY <1>1 DEF Yield, threadVars, OpsInv, OnePlaceEach, BgUnderneath, OnStack, InFifo,
              InObjects, IsInjective
<1>2. CASE ~FifoFull
  <2>1. saved' = saved /\ deferred' = Append(deferred, cpu) /\ Pop
    BY <1>2 DEF Yield
  <2>2. /\ cpu' \in OnStack /\ pending' \in Seq(C) /\ IsInjective(pending)'
        /\ OnStack' = OnStack \ {cpu'}
        /\ BgUnderneath'
    BY <2>1, PopFacts
  <2>3. /\ deferred \in Seq(C \ {Bg}) /\ cpu \in C \ {Bg} /\ IsInjective(deferred)
        /\ cpu \notin Range(deferred)
    BY DEF OpsInv, OnePlaceEach, InFifo
  <2>4. /\ deferred' \in Seq(C \ {Bg}) /\ IsInjective(deferred')
        /\ Range(deferred') = Range(deferred) \cup {cpu}
    BY <2>1, <2>3, AppendFacts
  <2>5. InFifo' = InFifo \cup {cpu} /\ InObjects' = InObjects /\ IsInjective(deferred)'
    BY <2>1, <2>4 DEF InFifo, InObjects, IsInjective
  <2>6. OnePlaceEach(C)'
    BY <2>1, <2>2, <2>5 DEF OpsInv, OnePlaceEach
  <2>7. cpu' \in C
    BY <2>6 DEF OnePlaceEach
  <2> QED
    BY <2>1, <2>2, <2>4, <2>6, <2>7 DEF OpsInv
<1> QED
  BY <1>1, <1>2

(* undefer(), whether or not DeferFIFO is empty.                           *)
LEMMA UndeferKeeps ==
  ASSUME NEW C, OpsInv(C), Undefer
  PROVE  OpsInv(C)'
<1>1. CASE deferred = <<>>
  BY <1>1 DEF Undefer, threadVars, OpsInv, OnePlaceEach, BgUnderneath, OnStack, InFifo,
              InObjects, IsInjective
<1>2. CASE deferred # <<>>
  <2>1. /\ saved' = saved /\ cpu' = Head(deferred) /\ deferred' = Tail(deferred)
        /\ Push
    BY <1>2 DEF Undefer
  <2>2. deferred \in Seq(C \ {Bg}) /\ IsInjective(deferred)
    BY DEF OpsInv, OnePlaceEach
  <2>3. /\ deferred' \in Seq(C \ {Bg}) /\ IsInjective(deferred')
        /\ cpu' \in Range(deferred)
        /\ Range(deferred') = Range(deferred) \ {cpu'}
    BY <1>2, <2>1, <2>2, TailFacts
  <2>4. cpu' \in C \ {Bg}
    BY <1>2, <2>1, <2>2, HeadTailProperties
  <2>5. /\ InFifo' = InFifo \ {cpu'} /\ InObjects' = InObjects /\ IsInjective(deferred)'
        /\ cpu' \in InFifo
    BY <2>1, <2>3 DEF InFifo, InObjects, IsInjective
  <2>6. cpu' # Bg /\ cpu' # cpu
    BY <2>4, <2>5 DEF OpsInv, OnePlaceEach
  <2>7. /\ pending' \in Seq(C) /\ IsInjective(pending)'
        /\ OnStack' = OnStack \cup {cpu}
        /\ BgUnderneath'
    BY <2>1, <2>6, PushFacts
  <2>8. OnePlaceEach(C)'
    BY <2>1, <2>5, <2>7 DEF OpsInv, OnePlaceEach
  <2> QED
    BY <2>1, <2>3, <2>4, <2>7, <2>8 DEF OpsInv
<1> QED
  BY <1>1, <1>2

-----------------------------------------------------------------------------
(* A sequence without duplicates is no longer than a set that holds its    *)
(* elements: what bounds the stack and the FIFO.                           *)
LEMMA NoLongerThan ==
  ASSUME NEW S, IsFiniteSet(S), NEW s \in Seq(S), IsInjective(s)
  PROVE  Len(s) <= Cardinality(S)
<1>1. Len(s) \in Nat /\ s \in [1 .. Len(s) -> S]
  BY LenProperties
<1>2. s \in Injection(1 .. Len(s), S)
  BY <1>1 DEF Injection
<1>3. Cardinality(1 .. Len(s)) <= Cardinality(S)
  BY <1>2, FS_Injection
<1>4. Cardinality(1 .. Len(s)) = Len(s)
  BY <1>1, FS_Interval
<1> QED
  BY <1>3, <1>4
=============================================================================
