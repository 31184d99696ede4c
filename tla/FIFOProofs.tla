----------------------------- MODULE FIFOProofs -----------------------------
(***************************************************************************)
(* The ring of fifo.hpp, for every capacity and every set of values: its   *)
(* invariants, and that it implements the bounded queue.                   *)
(***************************************************************************)
EXTENDS FIFO, SequenceTheorems, TLAPS

(* The local copies of the indices are up to date, since only the writer   *)
(* moves nextIn and only the reader moves nextOut; the writer past its     *)
(* test has room, the reader past its test has something to take, and what *)
(* each has done to the slot is still there.                               *)
IInv ==
  /\ TypeOK
  /\ wpc # "idle" => curNextIn = nextIn /\ value \in Values
  /\ rpc # "idle" => curNextOut = nextOut
  /\ wpc \in {"store", "publish"} => Succ(nextIn) # nextOut
  /\ rpc \in {"load", "release"} => nextOut # nextIn
  /\ wpc = "publish" => Data[nextIn] = value
  /\ rpc = "release" => loaded = Data[nextOut]

(* Succ goes once round the slots.                                         *)
LEMMA SuccFacts ==
  ASSUME NEW i \in Slots
  PROVE  /\ Succ(i) \in Slots
         /\ Succ(i) = IF i = N THEN 0 ELSE i + 1
<1>1. N \in Nat /\ i \in 0 .. N
  BY FIFOAssumption DEF Slots
<1>2. Succ(i) = IF i = N THEN 0 ELSE i + 1
  BY <1>1 DEF Succ
<1> QED
  BY <1>1, <1>2 DEF Slots

(* The empty ring satisfies the invariant.                                 *)
LEMMA InitIInv == Init => IInv
BY FIFOAssumption DEF Init, IInv, TypeOK, Slots

(* Every operation of the FIFO keeps it.                                   *)
LEMMA NextIInv == IInv /\ [Next]_vars => IInv'
<1> SUFFICES ASSUME IInv, [Next]_vars PROVE IInv'
  OBVIOUS
<1>a. nextIn \in Slots /\ nextOut \in Slots /\ N \in Nat /\ Slots = 0 .. N
  BY FIFOAssumption DEF IInv, TypeOK, Slots
<1>b. /\ Succ(nextIn) \in Slots /\ Succ(nextOut) \in Slots
      /\ Succ(nextIn) = Succ(nextOut) => nextIn = nextOut
  BY <1>a, SuccFacts
<1>1. ASSUME NEW v \in Values, AddStart(v) PROVE IInv'
  BY <1>1 DEF IInv, TypeOK, AddStart, reader
<1>2. CASE AddFull
  BY <1>2 DEF IInv, TypeOK, AddFull, reader
<1>3. CASE AddRoom
  BY <1>3 DEF IInv, TypeOK, AddRoom, reader
<1>4. CASE AddStore
  BY <1>4 DEF IInv, TypeOK, AddStore, reader
<1>5. CASE AddPublish
  BY <1>5, <1>b DEF IInv, TypeOK, AddPublish, reader
<1>6. CASE TakeStart
  BY <1>6 DEF IInv, TypeOK, TakeStart, writer
<1>7. CASE TakeEmpty
  BY <1>7 DEF IInv, TypeOK, TakeEmpty, writer
<1>8. CASE TakeSome
  BY <1>8 DEF IInv, TypeOK, TakeSome, writer
<1>9. CASE TakeLoad
  BY <1>9 DEF IInv, TypeOK, TakeLoad, writer
<1>10. CASE TakeRelease
  BY <1>10, <1>b DEF IInv, TypeOK, TakeRelease, writer
<1>11. CASE UNCHANGED vars
  BY <1>11 DEF IInv, TypeOK, vars, writer, reader
<1> QED
  BY <1>1, <1>2, <1>3, <1>4, <1>5, <1>6, <1>7, <1>8, <1>9, <1>10, <1>11
  DEF Next, Add, Take

(* The inductive invariant holds of every behaviour.                       *)
THEOREM FIFOInvariant == Spec => []IInv
BY InitIInv, NextIInv, PTL DEF Spec

(* Indices and slots keep their types; the indices never leave the ring.   *)
THEOREM FIFOTypeOK == Spec => []TypeOK
<1>1. IInv => TypeOK
  BY DEF IInv
<1> QED
  BY <1>1, FIFOInvariant, PTL

-----------------------------------------------------------------------------
(* The occupied slots, oldest first, are slots other than nextIn, the      *)
(* first of them nextOut.                                                  *)
LEMMA CountFacts ==
  ASSUME nextIn \in Slots, nextOut \in Slots
  PROVE  /\ Count \in 0 .. N
         /\ Count = 0 <=> nextIn = nextOut
         /\ Count = N <=> Succ(nextIn) = nextOut
         /\ \A i \in 1 .. Count : SlotAt(i) \in Slots /\ SlotAt(i) # nextIn
         /\ SlotAt(1) = nextOut
<1>1. N \in Nat \ {0} /\ nextIn \in 0 .. N /\ nextOut \in 0 .. N
  BY FIFOAssumption DEF Slots
<1>2. Succ(nextIn) = IF nextIn = N THEN 0 ELSE nextIn + 1
  BY SuccFacts
<1> QED
  BY <1>1, <1>2 DEF Count, SlotAt, Slots

(* The writer owns the slot it stores into, for every capacity.            *)
THEOREM FIFOOwnedSlot == Spec => []OwnedSlot
<1>1. IInv => OwnedSlot
  BY CountFacts DEF IInv, TypeOK, OwnedSlot
<1> QED
  BY <1>1, FIFOInvariant, PTL

-----------------------------------------------------------------------------
(* The contents are a sequence of Count values or, in a slot never         *)
(* written, NoValue.                                                       *)
LEMMA ContentsFacts ==
  ASSUME TypeOK
  PROVE  /\ Contents \in Seq(Values \cup {NoValue})
         /\ Len(Contents) = Count
         /\ Count \in Nat
         /\ Contents = <<>> <=> Count = 0
<1>1. Count \in Nat /\ \A i \in 1 .. Count : Data[SlotAt(i)] \in Values \cup {NoValue}
  BY CountFacts, FIFOAssumption DEF TypeOK
<1>2. Contents \in Seq(Values \cup {NoValue}) /\ Len(Contents) = Count
  BY <1>1 DEF Contents
<1> QED
  BY <1>1, <1>2, EmptySeq

(* A step that leaves the indices and the occupied slots alone does not    *)
(* change the contents.                                                    *)
LEMMA SameContents ==
  ASSUME TypeOK, nextIn' = nextIn, nextOut' = nextOut,
         \A j \in Slots \ {nextIn} : Data'[j] = Data[j]
  PROVE  Contents' = Contents
<1>1. Count' = Count /\ \A i \in 1 .. Count : SlotAt(i)' = SlotAt(i)
  BY DEF Count, SlotAt
<1>2. \A i \in 1 .. Count : Data'[SlotAt(i)'] = Data[SlotAt(i)]
  BY <1>1, CountFacts DEF TypeOK
<1> QED
  BY <1>1, <1>2 DEF Contents

(* Moving nextIn on adds the slot it names at the tail.                    *)
LEMMA PublishAppends ==
  ASSUME TypeOK, Succ(nextIn) # nextOut, nextIn' = Succ(nextIn),
         UNCHANGED <<nextOut, Data>>
  PROVE  Contents' = Append(Contents, Data[nextIn]) /\ Len(Contents) < N
<1>1. N \in Nat \ {0} /\ nextIn \in 0 .. N /\ nextOut \in 0 .. N
  BY FIFOAssumption DEF TypeOK, Slots
<1>2. Succ(nextIn) = IF nextIn = N THEN 0 ELSE nextIn + 1
  BY SuccFacts DEF TypeOK
<1>3. /\ Count \in 0 .. N /\ Count # N /\ Count' = Count + 1
      /\ SlotAt(Count + 1) = nextIn
  BY <1>1, <1>2 DEF Count, SlotAt
<1>4. \A i \in 1 .. (Count + 1) : SlotAt(i)' = SlotAt(i)
  BY DEF SlotAt
<1>5. /\ Contents \in Seq(Values \cup {NoValue}) /\ Len(Contents) = Count
      /\ Data[nextIn] \in Values \cup {NoValue}
  BY ContentsFacts DEF TypeOK
<1>6. Contents' = [i \in 1 .. (Count + 1) |-> Data[SlotAt(i)]]
  BY <1>3, <1>4 DEF Contents
<1>7. Append(Contents, Data[nextIn])
        = [i \in 1 .. (Count + 1) |-> IF i = Count + 1 THEN Data[nextIn] ELSE Contents[i]]
  BY <1>3, <1>5
<1>8. \A i \in 1 .. (Count + 1) :
        Data[SlotAt(i)] = IF i = Count + 1 THEN Data[nextIn] ELSE Contents[i]
  BY <1>3 DEF Contents
<1> QED
  BY <1>1, <1>3, <1>5, <1>6, <1>7, <1>8

(* Moving nextOut on takes the slot it names off the head.                 *)
LEMMA ReleaseTakesHead ==
  ASSUME TypeOK, nextOut # nextIn, nextOut' = Succ(nextOut),
         UNCHANGED <<nextIn, Data>>
  PROVE  Contents # <<>> /\ Head(Contents) = Data[nextOut] /\ Contents' = Tail(Contents)
<1>1. N \in Nat \ {0} /\ nextIn \in 0 .. N /\ nextOut \in 0 .. N
  BY FIFOAssumption DEF TypeOK, Slots
<1>2. Succ(nextOut) = IF nextOut = N THEN 0 ELSE nextOut + 1
  BY SuccFacts DEF TypeOK
<1>3. Count \in 1 .. N /\ Count' = Count - 1 /\ SlotAt(1) = nextOut
  BY <1>1, <1>2 DEF Count, SlotAt
<1>4. \A i \in 1 .. (Count - 1) : SlotAt(i)' = SlotAt(i + 1)
  BY <1>1, <1>2, <1>3 DEF Count, SlotAt
<1>5. /\ Contents \in Seq(Values \cup {NoValue}) /\ Len(Contents) = Count
      /\ Contents # <<>>
  BY <1>3, ContentsFacts
<1>6. Contents' = [i \in 1 .. (Count - 1) |-> Data[SlotAt(i + 1)]]
  BY <1>3, <1>4 DEF Contents
<1>7. Tail(Contents) = [i \in 1 .. (Count - 1) |-> Contents[i + 1]]
  <2> DEFINE s == Contents
             t == Tail(Contents)
  <2>1. /\ t \in Seq(Values \cup {NoValue}) /\ Len(t) = Len(s) - 1
        /\ \A i \in 1 .. Len(t) : t[i] = s[i + 1]
    BY <1>5, HeadTailProperties
  <2>2. t \in [1 .. Len(t) -> Values \cup {NoValue}] /\ Len(t) = Count - 1
    BY <1>5, <2>1, LenProperties
  <2> HIDE DEF t, s
  <2>3. t = [i \in 1 .. (Count - 1) |-> s[i + 1]]
    BY <2>1, <2>2
  <2> QED
    BY <2>3 DEF t, s
<1>8. \A i \in 1 .. (Count - 1) : Contents[i + 1] = Data[SlotAt(i + 1)]
  BY <1>3 DEF Contents
<1>9. Head(Contents) = Data[nextOut]
  BY <1>3, <1>5 DEF Contents
<1> QED
  BY <1>5, <1>6, <1>7, <1>8, <1>9

-----------------------------------------------------------------------------
(* The empty ring stands for the empty queue.                              *)
LEMMA InitRefines == Init => Queue!Init
<1> SUFFICES ASSUME Init PROVE Queue!Init
  OBVIOUS
<1>1. TypeOK /\ Count = 0
  BY InitIInv DEF IInv, Init, Count
<1>2. Contents = <<>>
  BY <1>1, ContentsFacts
<1> QED
  BY <1>2 DEF Init, Queue!Init

(* Every operation of the ring is one of the queue, or changes nothing of  *)
(* it.                                                                     *)
LEMMA NextRefines == IInv /\ [Next]_vars => [Queue!Next]_(Queue!qvars)
<1> SUFFICES ASSUME IInv, [Next]_vars PROVE [Queue!Next]_(Queue!qvars)
  OBVIOUS
<1>0. TypeOK
  BY DEF IInv
<1>a. ASSUME UNCHANGED <<nextIn, nextOut, accepted, taken>>,
             \A j \in Slots \ {nextIn} : Data'[j] = Data[j]
      PROVE  UNCHANGED Queue!qvars
  BY <1>0, <1>a, SameContents DEF Queue!qvars
<1>1. ASSUME NEW v \in Values, AddStart(v) PROVE UNCHANGED Queue!qvars
  BY <1>1, <1>a DEF AddStart, reader
<1>2. CASE AddFull
  <2>1. Len(Contents) = N
    BY <1>0, <1>2, CountFacts, ContentsFacts DEF AddFull, IInv, TypeOK
  <2>2. Contents' = Contents
    BY <1>0, <1>2, SameContents DEF AddFull
  <2>3. Queue!Refuse
    BY <1>2, <2>1, <2>2 DEF AddFull, reader, Queue!Refuse
  <2> QED
    BY <2>3 DEF Queue!Next
<1>3. CASE AddRoom
  BY <1>3, <1>a DEF AddRoom, reader
<1>4. CASE AddStore
  BY <1>0, <1>4, <1>a DEF AddStore, reader, IInv, TypeOK
<1>5. CASE AddPublish
  <2>1. Contents' = Append(Contents, value) /\ Len(Contents) < N
    BY <1>0, <1>5, PublishAppends DEF AddPublish, IInv
  <2>2. Queue!Accept(value)
    BY <1>5, <2>1 DEF AddPublish, reader, Queue!Accept
  <2> QED
    BY <1>5, <2>2 DEF Queue!Next, AddPublish, IInv
<1>6. CASE TakeStart
  BY <1>6, <1>a DEF TakeStart, writer
<1>7. CASE TakeEmpty
  <2>1. Contents = <<>>
    BY <1>0, <1>7, CountFacts, ContentsFacts DEF TakeEmpty, IInv, TypeOK
  <2>2. Contents' = Contents
    BY <1>0, <1>7, SameContents DEF TakeEmpty
  <2>3. Queue!Empty
    BY <1>7, <2>1, <2>2 DEF TakeEmpty, writer, Queue!Empty
  <2> QED
    BY <2>3 DEF Queue!Next
<1>8. CASE TakeSome
  BY <1>8, <1>a DEF TakeSome, writer
<1>9. CASE TakeLoad
  BY <1>9, <1>a DEF TakeLoad, writer
<1>10. CASE TakeRelease
  <2>1. Contents # <<>> /\ Head(Contents) = loaded /\ Contents' = Tail(Contents)
    BY <1>0, <1>10, ReleaseTakesHead DEF TakeRelease, IInv
  <2>2. Queue!Deliver
    BY <1>10, <2>1 DEF TakeRelease, writer, Queue!Deliver
  <2> QED
    BY <2>2 DEF Queue!Next
<1>11. CASE UNCHANGED vars
  BY <1>11, <1>a DEF vars, writer, reader
<1> QED
  BY <1>1, <1>2, <1>3, <1>4, <1>5, <1>6, <1>7, <1>8, <1>9, <1>10, <1>11
  DEF Next, Add, Take

(* fifo.hpp keeps its promise for every N: with add and take interleaved   *)
(* at every memory access, the ring is a queue of at most N values.        *)
THEOREM FIFOImplementsQueue == Spec => ImplementsQueue
BY InitRefines, NextRefines, FIFOInvariant, PTL DEF Spec, ImplementsQueue, Queue!Spec
=============================================================================
