-------------------------- MODULE SequentialProofs --------------------------
(***************************************************************************)
(* The parts of the program that only one context runs at a time.          *)
(***************************************************************************)
EXTENDS TaskArgs, ThreadNumber, Calibrate, LinpackBench, Unroll, SequenceTheorems, FiniteSetTheorems, TLAPS

-----------------------------------------------------------------------------
(* The memory of the arguments of tasks, for every size, every alignment   *)
(* that a char can hold, every number of tasks and whatever malloc returns *)
(* that overlaps nothing.                                                  *)

(* The offset fits in the char before the arguments.                       *)
NarrowAligns == \A align \in Aligns : align < Byte

Tasks == [arg : Nat, size : Nat, align : Aligns, queued : BOOLEAN, block : Nat, v : Values]

(* The block a task was given.                                             *)
LenOf(t) == IF t.queued THEN QueuedLen(t.size, t.align) ELSE InPlaceLen(t.size, t.align)
Own(t) == [base |-> t.block, len |-> LenOf(t)]
BytesOf(t) == Bytes(t.block, LenOf(t))

(* The arguments are in the block, aligned; those of a queued task not at  *)
(* its first byte.                                                         *)
Placed(t) ==
  /\ t.block >= 1 /\ LenOf(t) >= 1 /\ t.block + LenOf(t) <= MemSize
  /\ t.arg % t.align = 0
  /\ t.arg >= t.block /\ t.arg + t.size <= t.block + LenOf(t)
  /\ t.queued => t.arg - t.block \in 1 .. Byte - 1

(* What the task relies on in the memory.                                  *)
Holds(m, t) ==
  /\ t.queued => m[t.arg - 1] = t.arg - t.block
  /\ \A x \in Bytes(t.arg, t.size) : m[x] = t.v

(* The blocks are those of the tasks, and no two overlap.                  *)
ArgsInv ==
  /\ mem \in [Addresses -> Int]
  /\ live \subseteq Tasks
  /\ blocks = {Own(t) : t \in live}
  /\ \A t \in live : Placed(t) /\ Holds(mem, t)
  /\ \A t, u \in live : t # u => BytesOf(t) \cap BytesOf(u) = {}

-----------------------------------------------------------------------------
(* A multiple leaves no remainder.                                         *)
LEMMA NoRemainder ==
  ASSUME NEW a \in Nat \ {0}, NEW q \in Nat
  PROVE  a * q \in Nat /\ (a * q) % a = 0
<1>0. PICK z \in Nat : z = a * q
  OBVIOUS
<1> DEFINE s == z \div a
           r == z % a
<1>1. s \in Nat /\ r \in 0 .. a - 1 /\ z = a * s + r
  OBVIOUS
<1> HIDE DEF s, r
<1>2. s = q
  <2>1. CASE s >= q + 1
    <3>1. a * s >= a * (q + 1) /\ a * (q + 1) = a * q + a
      BY <1>1, <2>1
    <3> QED BY <1>0, <1>1, <3>1
  <2>2. CASE q >= s + 1
    <3>1. a * q >= a * (s + 1) /\ a * (s + 1) = a * s + a
      BY <1>1, <2>2
    <3> QED BY <1>0, <1>1, <3>1
  <2> QED BY <1>1, <2>1, <2>2
<1>3. r = 0
  BY <1>0, <1>1, <1>2
<1> QED
  BY <1>0, <1>3 DEF r

(* x & ~(align - 1) is the next multiple at or below x.                    *)
LEMMA AlignsDown ==
  ASSUME NEW x \in Nat, NEW align \in Nat \ {0}
  PROVE  /\ AlignDown(x, align) \in Nat
         /\ AlignDown(x, align) > x - align /\ AlignDown(x, align) <= x
         /\ AlignDown(x, align) % align = 0
<1> DEFINE q == x \div align
<1>1. q \in Nat /\ x % align \in 0 .. align - 1 /\ x = align * q + (x % align)
  OBVIOUS
<1>2. AlignDown(x, align) = align * q /\ align * q \in Nat
  BY <1>1 DEF AlignDown
<1> HIDE DEF q
<1>3. (align * q) % align = 0
  BY <1>1, NoRemainder
<1> QED
  BY <1>1, <1>2, <1>3

(* A task's block has bytes, and its arguments are among them.             *)
LEMMA InItsBlock ==
  ASSUME NEW t \in Tasks, Placed(t)
  PROVE  /\ LenOf(t) \in Nat /\ t.block \in Nat
         /\ Bytes(t.arg, t.size) \subseteq BytesOf(t)
         /\ BytesOf(t) \subseteq Addresses
         /\ t.queued => t.arg - 1 \in BytesOf(t)
         /\ t.block \in BytesOf(t)
<1>1. /\ t.arg \in Nat /\ t.size \in Nat /\ t.block \in Nat /\ MemSize \in Nat
      /\ t.align \in Nat /\ t.align >= 1
  <2>1. t.align \in Aligns
    BY DEF Tasks
  <2>2. t.align \in Nat /\ t.align >= 1 /\ MemSize \in Nat
    <3>1. t.align \in Nat \ {0} /\ MemSize \in Nat
      BY <2>1, TaskArgsAssumption
    <3> QED
      BY <3>1
  <2> QED
    BY <2>2 DEF Tasks
<1>2. LenOf(t) \in Nat
  BY <1>1 DEF LenOf, QueuedLen, InPlaceLen
<1>3. t.block + LenOf(t) <= MemSize /\ LenOf(t) >= 1 /\ t.block >= 1
  BY DEF Placed
<1>4. BytesOf(t) \subseteq Addresses /\ t.block \in BytesOf(t)
  BY <1>1, <1>2, <1>3 DEF BytesOf, Bytes, Addresses
<1>5. t.arg >= t.block /\ t.arg + t.size <= t.block + LenOf(t)
  BY DEF Placed
<1>6. Bytes(t.arg, t.size) \subseteq BytesOf(t)
  BY <1>1, <1>2, <1>5 DEF BytesOf, Bytes
<1>7. ASSUME t.queued PROVE t.arg - 1 \in BytesOf(t)
  <2>1. t.arg - t.block \in 1 .. Byte - 1 /\ Byte \in Nat
    BY <1>7, TaskArgsAssumption DEF Placed
  <2>2. t.arg - 1 >= t.block
    BY <1>1, <2>1
  <2>3. t.arg - 1 < t.block + LenOf(t)
    BY <1>1, <1>2, <1>5
  <2> QED
    BY <1>1, <1>2, <2>2, <2>3 DEF BytesOf, Bytes
<1> QED
  BY <1>1, <1>2, <1>4, <1>6, <1>7

(* What is stored within a block leaves another block alone.               *)
LEMMA Apart ==
  ASSUME NEW t \in Tasks, Placed(t), NEW m, NEW n, Holds(m, t),
         \A x \in BytesOf(t) : n[x] = m[x]
  PROVE  Holds(n, t)
BY InItsBlock DEF Holds

(* A new task, with a block that overlaps none, whatever it stores there.  *)
LEMMA Added ==
  ASSUME ArgsInv, NEW t \in Tasks, Placed(t), Holds(mem', t),
         \A b \in blocks : BytesOf(t) \cap Bytes(b.base, b.len) = {},
         mem' \in [Addresses -> Int],
         \A x \in Addresses : x \notin BytesOf(t) => mem'[x] = mem[x],
         live' = live \cup {t}, blocks' = blocks \cup {Own(t)}
  PROVE  ArgsInv'
<1>0. /\ live \subseteq Tasks /\ blocks = {Own(u) : u \in live}
      /\ \A u \in live : Placed(u) /\ Holds(mem, u)
      /\ \A u, w \in live : u # w => BytesOf(u) \cap BytesOf(w) = {}
  BY DEF ArgsInv
<1>1. ASSUME NEW u \in live PROVE BytesOf(t) \cap BytesOf(u) = {}
  <2>1. Own(u) \in blocks /\ Own(u).base = u.block /\ Own(u).len = LenOf(u)
    BY <1>0 DEF Own
  <2> QED
    BY <2>1 DEF BytesOf
<1>2. ASSUME NEW u \in live PROVE Placed(u) /\ Holds(mem', u)
  <2>1. u \in Tasks /\ Placed(u) /\ Holds(mem, u)
    BY <1>0
  <2>2. \A x \in BytesOf(u) : mem'[x] = mem[x]
    BY <1>1, <2>1, InItsBlock
  <2> QED
    BY <2>1, <2>2, Apart
<1>3. live' \subseteq Tasks /\ \A u \in live' : Placed(u) /\ Holds(mem', u)
  BY <1>0, <1>2
<1>4. blocks' = {Own(u) : u \in live'}
  BY <1>0
<1>5. \A u, w \in live' : u # w => BytesOf(u) \cap BytesOf(w) = {}
  BY <1>0, <1>1
<1> QED
  BY <1>3, <1>4, <1>5 DEF ArgsInv

(* The block of one task is given back: the others keep theirs.            *)
LEMMA GivenBack ==
  ASSUME ArgsInv, NEW t \in live, GiveBack(t.block), live' = live \ {t}
  PROVE  ArgsInv'
<1>0. /\ live \subseteq Tasks /\ blocks = {Own(u) : u \in live}
      /\ \A u \in live : Placed(u) /\ Holds(mem, u)
      /\ \A u, w \in live : u # w => BytesOf(u) \cap BytesOf(w) = {}
      /\ mem \in [Addresses -> Int]
  BY DEF ArgsInv
<1>1. ASSUME NEW u \in live, u # t PROVE u.block # t.block
  <2>1. u.block \in BytesOf(u) /\ t.block \in BytesOf(t)
    BY <1>0, InItsBlock
  <2> QED
    BY <1>0, <1>1, <2>1
<1>2. blocks' = {Own(u) : u \in live'}
  <2>1. blocks' = {b \in blocks : b.base # t.block}
    BY DEF GiveBack
  <2>2. \A u \in live : Own(u).base = u.block
    BY DEF Own
  <2> QED
    BY <1>0, <1>1, <2>1, <2>2
<1>3. mem' \in [Addresses -> Int]
  BY <1>0 DEF GiveBack
<1>4. ASSUME NEW u \in live' PROVE Placed(u) /\ Holds(mem', u)
  <2>1. u \in Tasks /\ Placed(u) /\ Holds(mem, u)
    BY <1>0
  <2>2. Own(u) \in blocks' /\ BytesOf(u) = Bytes(Own(u).base, Own(u).len)
    BY <1>2 DEF Own, BytesOf
  <2>3. \A x \in BytesOf(u) : mem'[x] = mem[x]
    BY <2>1, <2>2, InItsBlock DEF GiveBack
  <2> QED
    BY <2>1, <2>3, Apart
<1> QED
  BY <1>0, <1>2, <1>3, <1>4 DEF ArgsInv

-----------------------------------------------------------------------------
(* Before the first allocation the invariant holds.                        *)
LEMMA ArgsInitInv == ArgsInit => ArgsInv
<1> SUFFICES ASSUME ArgsInit PROVE ArgsInv
  OBVIOUS
<1>1. mem \in [Addresses -> Int] /\ live = {} /\ blocks = {}
  BY DEF ArgsInit
<1> QED
  BY <1>1 DEF ArgsInv

(* A queued task, with the offset before its arguments.                    *)
LEMMA QueueInv ==
  ASSUME NarrowAligns, ArgsInv, NEW size \in Sizes, NEW align \in Aligns, NEW v \in Values,
         Queue(size, align, v)
  PROVE  ArgsInv'
<1>1. PICK base \in Room(QueuedLen(size, align), MallocAlign) :
        LET arg == QueuedArg(base, align)
        IN  /\ blocks' = blocks \cup {[base |-> base, len |-> QueuedLen(size, align)]}
            /\ mem' = Copied(OffsetStored(mem, arg, base), arg, size, v)
            /\ live' = live \cup {[arg |-> arg, size |-> size, align |-> align,
                                   queued |-> TRUE, block |-> base, v |-> v]}
  BY DEF Queue
<1> DEFINE arg == QueuedArg(base, align)
           t == [arg |-> arg, size |-> size, align |-> align,
                 queued |-> TRUE, block |-> base, v |-> v]
<1>2. /\ size \in Nat /\ align \in Nat \ {0} /\ align < Byte /\ v \in Int
      /\ MemSize \in Nat /\ Byte \in Nat
  BY TaskArgsAssumption DEF NarrowAligns
<1>3. /\ base \in Nat /\ base >= 1 /\ base + QueuedLen(size, align) <= MemSize
      /\ \A b \in blocks : Bytes(base, QueuedLen(size, align)) \cap Bytes(b.base, b.len) = {}
  BY <1>2 DEF Room, QueuedLen
<1>4. arg \in base + 1 .. base + align /\ arg \in Nat /\ arg % align = 0
  <2>1. base + align \in Nat
    BY <1>2, <1>3
  <2>2. /\ arg \in Nat /\ arg % align = 0
        /\ arg > (base + align) - align /\ arg <= base + align
    BY <1>2, <2>1, AlignsDown DEF QueuedArg
  <2> QED
    BY <1>2, <1>3, <2>2
<1>5. t \in Tasks /\ t.queued /\ LenOf(t) = size + align
  BY <1>2, <1>3, <1>4 DEF Tasks, LenOf, QueuedLen
<1>6. /\ t.arg = arg /\ t.size = size /\ t.align = align /\ t.block = base /\ t.v = v
      /\ BytesOf(t) = Bytes(base, QueuedLen(size, align))
      /\ Own(t) = [base |-> base, len |-> QueuedLen(size, align)]
  BY <1>5 DEF BytesOf, Own, QueuedLen
<1> HIDE DEF t
<1>7. Placed(t)
  BY <1>2, <1>3, <1>4, <1>5, <1>6 DEF Placed, QueuedLen
<1>8. /\ arg - 1 \in BytesOf(t) /\ arg - 1 \in Addresses
      /\ Bytes(arg, size) \subseteq BytesOf(t) /\ BytesOf(t) \subseteq Addresses
      /\ arg - 1 \notin Bytes(arg, size)
  <2>1. /\ t.arg - 1 \in BytesOf(t) /\ Bytes(t.arg, t.size) \subseteq BytesOf(t)
        /\ BytesOf(t) \subseteq Addresses
    BY <1>5, <1>7, InItsBlock
  <2>2. arg - 1 \notin Bytes(arg, size)
    BY <1>2, <1>4 DEF Bytes
  <2> QED
    BY <1>6, <2>1, <2>2
<1>9. (arg - base) % Byte = arg - base
  BY <1>2, <1>3, <1>4
<1> HIDE DEF arg
<1>10. /\ mem' \in [Addresses -> Int]
       /\ mem'[arg - 1] = arg - base
       /\ \A x \in Bytes(arg, size) : mem'[x] = v
       /\ \A x \in Addresses : x \notin BytesOf(t) => mem'[x] = mem[x]
  <2>1. mem' = Copied(OffsetStored(mem, arg, base), arg, size, v)
    BY <1>1 DEF arg
  <2>2. OffsetStored(mem, arg, base) = [mem EXCEPT ![arg - 1] = arg - base]
    BY <1>9 DEF OffsetStored
  <2>3. mem \in [Addresses -> Int] /\ arg - base \in Int
    BY <1>3, <1>4 DEF ArgsInv
  <2> QED
    BY <1>2, <1>8, <2>1, <2>2, <2>3 DEF Copied
<1>11. Holds(mem', t)
  BY <1>6, <1>10 DEF Holds
<1>12. live' = live \cup {t} /\ blocks' = blocks \cup {Own(t)}
  BY <1>1, <1>6 DEF t, arg
<1>13. \A b \in blocks : BytesOf(t) \cap Bytes(b.base, b.len) = {}
  BY <1>3, <1>6
<1> QED
  BY <1>5, <1>7, <1>10, <1>11, <1>12, <1>13, Added

(* A task called in place, its arguments in a buffer on the stack.         *)
LEMMA CallInPlaceInv ==
  ASSUME ArgsInv, NEW size \in Sizes, size > 0, NEW align \in Aligns, NEW v \in Values,
         CallInPlace(size, align, v)
  PROVE  ArgsInv'
<1>1. PICK base \in Room(InPlaceLen(size, align), 1) :
        LET arg == InPlaceArg(base, align)
        IN  /\ blocks' = blocks \cup {[base |-> base, len |-> InPlaceLen(size, align)]}
            /\ mem' = Copied(mem, arg, size, v)
            /\ live' = live \cup {[arg |-> arg, size |-> size, align |-> align,
                                   queued |-> FALSE, block |-> base, v |-> v]}
  BY DEF CallInPlace
<1> DEFINE arg == InPlaceArg(base, align)
           t == [arg |-> arg, size |-> size, align |-> align,
                 queued |-> FALSE, block |-> base, v |-> v]
<1>2. /\ size \in Nat /\ align \in Nat \ {0} /\ v \in Int /\ MemSize \in Nat
  BY TaskArgsAssumption
<1>3. /\ base \in Nat /\ base >= 1 /\ base + InPlaceLen(size, align) <= MemSize
      /\ \A b \in blocks : Bytes(base, InPlaceLen(size, align)) \cap Bytes(b.base, b.len) = {}
  BY <1>2 DEF Room, InPlaceLen
<1>4. arg \in base .. base + align - 1 /\ arg \in Nat /\ arg % align = 0
  <2>1. base + align - 1 \in Nat
    BY <1>2, <1>3
  <2>2. /\ arg \in Nat /\ arg % align = 0
        /\ arg > (base + align - 1) - align /\ arg <= base + align - 1
    BY <1>2, <2>1, AlignsDown DEF InPlaceArg
  <2> QED
    BY <1>2, <1>3, <2>2
<1>5. t \in Tasks /\ ~t.queued /\ LenOf(t) = size + align - 1
  BY <1>2, <1>3, <1>4 DEF Tasks, LenOf, InPlaceLen
<1>6. /\ t.arg = arg /\ t.size = size /\ t.align = align /\ t.block = base /\ t.v = v
      /\ BytesOf(t) = Bytes(base, InPlaceLen(size, align))
      /\ Own(t) = [base |-> base, len |-> InPlaceLen(size, align)]
  BY <1>5 DEF BytesOf, Own, InPlaceLen
<1> HIDE DEF t
<1>7. Placed(t)
  BY <1>2, <1>3, <1>4, <1>5, <1>6 DEF Placed, InPlaceLen
<1>8. Bytes(arg, size) \subseteq BytesOf(t) /\ BytesOf(t) \subseteq Addresses
  BY <1>5, <1>6, <1>7, InItsBlock
<1> HIDE DEF arg
<1>9. /\ mem' \in [Addresses -> Int]
      /\ \A x \in Bytes(arg, size) : mem'[x] = v
      /\ \A x \in Addresses : x \notin BytesOf(t) => mem'[x] = mem[x]
  <2>1. mem' = Copied(mem, arg, size, v) /\ mem \in [Addresses -> Int]
    BY <1>1 DEF arg, ArgsInv
  <2> QED
    BY <1>2, <1>8, <2>1 DEF Copied
<1>10. Holds(mem', t)
  BY <1>5, <1>6, <1>9 DEF Holds
<1>11. live' = live \cup {t} /\ blocks' = blocks \cup {Own(t)}
  BY <1>1, <1>6 DEF t, arg
<1>12. \A b \in blocks : BytesOf(t) \cap Bytes(b.base, b.len) = {}
  BY <1>3, <1>6
<1> QED
  BY <1>5, <1>7, <1>9, <1>10, <1>11, <1>12, Added

(* A task stores into its arguments: its block stays, and so do the bytes  *)
(* of the others.                                                          *)
LEMMA AssignInv ==
  ASSUME ArgsInv, NEW t \in live, NEW v \in Values, Assign(t, v)
  PROVE  ArgsInv'
<1> DEFINE w == [t EXCEPT !.v = v]
<1>1. /\ live \subseteq Tasks /\ blocks = {Own(u) : u \in live}
      /\ \A u \in live : Placed(u) /\ Holds(mem, u)
      /\ \A u, x \in live : u # x => BytesOf(u) \cap BytesOf(x) = {}
      /\ mem \in [Addresses -> Int] /\ v \in Int
  BY TaskArgsAssumption DEF ArgsInv
<1>2. /\ w \in Tasks /\ w.arg = t.arg /\ w.size = t.size /\ w.align = t.align
      /\ w.queued = t.queued /\ w.block = t.block /\ w.v = v
  BY <1>1 DEF Tasks
<1>3. live' = (live \ {t}) \cup {w} /\ blocks' = blocks /\ mem' = Copied(mem, t.arg, t.size, v)
  BY DEF Assign
<1> HIDE DEF w
<1>4. Own(w) = Own(t) /\ BytesOf(w) = BytesOf(t) /\ Placed(w)
  <2>1. LenOf(w) = LenOf(t)
    BY <1>2 DEF LenOf
  <2> QED
    BY <1>1, <1>2, <2>1 DEF Own, BytesOf, Placed
<1>5. /\ t \in Tasks /\ Placed(t) /\ Holds(mem, t)
      /\ Bytes(t.arg, t.size) \subseteq BytesOf(t) /\ BytesOf(t) \subseteq Addresses
      /\ t.queued => t.arg - 1 \in Addresses /\ t.arg - 1 \notin Bytes(t.arg, t.size)
  BY <1>1, InItsBlock DEF Bytes, Tasks
<1>6. /\ mem' \in [Addresses -> Int]
      /\ \A x \in Bytes(t.arg, t.size) : mem'[x] = v
      /\ \A x \in Addresses : x \notin Bytes(t.arg, t.size) => mem'[x] = mem[x]
  BY <1>1, <1>3, <1>5 DEF Copied
<1>7. Holds(mem', w)
  BY <1>2, <1>5, <1>6 DEF Holds
<1>8. ASSUME NEW u \in live, u # t PROVE Holds(mem', u)
  <2>1. u \in Tasks /\ Placed(u) /\ Holds(mem, u) /\ BytesOf(u) \cap BytesOf(t) = {}
    BY <1>1, <1>8
  <2>2. \A x \in BytesOf(u) : mem'[x] = mem[x]
    BY <1>5, <1>6, <2>1, InItsBlock
  <2> QED
    BY <2>1, <2>2, Apart
<1>9. live' \subseteq Tasks /\ \A u \in live' : Placed(u) /\ Holds(mem', u)
  BY <1>1, <1>2, <1>3, <1>4, <1>7, <1>8
<1>10. blocks' = {Own(u) : u \in live'}
  BY <1>1, <1>3, <1>4
<1>11. \A u, x \in live' : u # x => BytesOf(u) \cap BytesOf(x) = {}
  BY <1>1, <1>3, <1>4
<1> QED
  BY <1>6, <1>9, <1>10, <1>11 DEF ArgsInv

(* The task whose block is freed is the one that has run.                  *)
LEMMA EndInv ==
  ASSUME ArgsInv, NEW t \in live, EndQueued(t) \/ EndInPlace(t)
  PROVE  ArgsInv'
<1>1. t.queued => FreeAddress(t) = t.block
  <2>1. t \in Tasks /\ Holds(mem, t)
    BY DEF ArgsInv
  <2>2. t.arg \in Int /\ t.block \in Int
    BY <2>1 DEF Tasks
  <2> QED
    BY <2>1, <2>2 DEF Holds, FreeAddress
<1>2. GiveBack(t.block) /\ live' = live \ {t}
  BY <1>1 DEF EndQueued, EndInPlace
<1> QED
  BY <1>2, GivenBack

(* Every step keeps the invariant.                                         *)
LEMMA ArgsNextInv ==
  ASSUME NarrowAligns
  PROVE  ArgsInv /\ [ArgsNext]_argsVars => ArgsInv'
<1> SUFFICES ASSUME ArgsInv, [ArgsNext]_argsVars PROVE ArgsInv'
  OBVIOUS
<1>1. ASSUME NEW size \in Sizes, NEW align \in Aligns, NEW v \in Values,
             Queue(size, align, v) PROVE ArgsInv'
  BY <1>1, QueueInv
<1>2. ASSUME NEW size \in Sizes, size > 0, NEW align \in Aligns, NEW v \in Values,
             CallInPlace(size, align, v) PROVE ArgsInv'
  BY <1>2, CallInPlaceInv
<1>3. ASSUME NEW t \in live, NEW v \in Values, Assign(t, v) PROVE ArgsInv'
  BY <1>3, AssignInv
<1>4. ASSUME NEW t \in live, EndQueued(t) \/ EndInPlace(t) PROVE ArgsInv'
  BY <1>4, EndInv
<1>5. CASE UNCHANGED argsVars
  BY <1>5 DEF argsVars, ArgsInv, Holds
<1> QED
  BY <1>1, <1>2, <1>3, <1>4, <1>5 DEF ArgsNext

(* gomp_worker frees for each task the block that GOMP_task allocated for  *)
(* it, as long as no alignment exceeds what a char holds.                  *)
THEOREM FreesWhatItAllocated ==
  ASSUME NarrowAligns
  PROVE  ArgsSpec => []FreesItsOwn
<1>1. ArgsInv => FreesItsOwn
  <2> SUFFICES ASSUME ArgsInv, NEW t \in live, t.queued PROVE FreeAddress(t) = t.block
    BY DEF FreesItsOwn
  <2>1. t \in Tasks /\ Holds(mem, t)
    BY DEF ArgsInv
  <2>2. t.arg \in Int /\ t.block \in Int
    BY <2>1 DEF Tasks
  <2> QED
    BY <2>1, <2>2 DEF Holds, FreeAddress
<1>2. ArgsInv /\ [ArgsNext]_argsVars => ArgsInv'
  BY ArgsNextInv
<1> QED
  BY ArgsInitInv, <1>1, <1>2, PTL DEF ArgsSpec

(* No task finds its arguments overwritten, by another task or by the      *)
(* offset kept before them, whatever their sizes.                          *)
THEOREM ArgumentsIntact ==
  ASSUME NarrowAligns
  PROVE  ArgsSpec => []ArgsIntact
<1>1. ArgsInv => ArgsIntact
  BY DEF ArgsInv, Holds, ArgsIntact
<1>2. ArgsInv /\ [ArgsNext]_argsVars => ArgsInv'
  BY ArgsNextInv
<1> QED
  BY ArgsInitInv, <1>1, <1>2, PTL DEF ArgsSpec

(* And each task has a block to itself, holding its arguments, aligned.    *)
THEOREM OneBlockEach ==
  ASSUME NarrowAligns
  PROVE  ArgsSpec => []OwnBlock
<1>1. ArgsInv => OwnBlock
  <2> SUFFICES ASSUME ArgsInv PROVE OwnBlock
    OBVIOUS
  <2>0. /\ live \subseteq Tasks /\ blocks = {Own(t) : t \in live}
        /\ \A t \in live : Placed(t) /\ Own(t).base = t.block /\ Own(t).len = LenOf(t)
        /\ \A t, u \in live : t # u => BytesOf(t) \cap BytesOf(u) = {}
    BY DEF ArgsInv, Own
  <2>1. ASSUME NEW t \in live
        PROVE  /\ t.arg % t.align = 0
               /\ \E b \in blocks : b.base = t.block /\ Bytes(t.arg, t.size) \subseteq Bytes(b.base, b.len)
    <3>1. Bytes(t.arg, t.size) \subseteq BytesOf(t) /\ Own(t) \in blocks
      BY <2>0, InItsBlock
    <3> QED
      BY <2>0, <3>1 DEF BytesOf, Placed
  <2>2. ASSUME NEW t \in live, NEW u \in live, t # u PROVE t.block # u.block
    <3>1. t.block \in BytesOf(t) /\ u.block \in BytesOf(u)
      BY <2>0, InItsBlock
    <3> QED
      BY <2>0, <2>2, <3>1
  <2>3. {b.base : b \in blocks} = {t.block : t \in live}
    BY <2>0
  <2> QED
    BY <2>1, <2>2, <2>3 DEF OwnBlock
<1>2. ArgsInv /\ [ArgsNext]_argsVars => ArgsInv'
  BY ArgsNextInv
<1> QED
  BY ArgsInitInv, <1>1, <1>2, PTL DEF ArgsSpec

-----------------------------------------------------------------------------
(* omp_get_thread_num, for every number and size of stacks, wherever they  *)
(* are, and every depth of calls.                                          *)

(* The bytes of a stack, without the two words reserved at its top.        *)
Within(i, p) == p \in Int /\ Stack(i) <= p /\ p <= StartSP(i)

(* A worker is in its stack, and so it is where its calls return to.       *)
NumberInv ==
  /\ sp \in [Ids -> Int] /\ calls \in [Ids -> Seq(Int)]
  /\ \A i \in Ids : Within(i, sp[i]) /\ \A k \in 1 .. Len(calls[i]) : Within(i, calls[i][k])

(* A stack begins where the one before it ends.                            *)
LEMMA Stacks ==
  ASSUME NEW i \in Ids
  PROVE  /\ Stack(i) \in Int /\ Stack(i) >= Stack(0)
         /\ Stack(i) + StackSize <= Stack(MaxThreads)
<1>1. i \in Nat /\ i + 1 <= MaxThreads /\ MaxThreads \in Nat /\ StackSize \in Nat /\ Base \in Nat
  BY NumberAssumption DEF Ids
<1>2. (i + 1) * StackSize <= MaxThreads * StackSize /\ i * StackSize >= 0 /\ i * StackSize \in Nat
  BY <1>1
<1>3. (i + 1) * StackSize = i * StackSize + StackSize /\ MaxThreads * StackSize \in Nat
  BY <1>1
<1> QED
  BY <1>1, <1>2, <1>3 DEF Stack

(* So the number of a stack is what division makes of an address in it.    *)
LEMMA Number ==
  ASSUME NEW i \in Ids, NEW p, Within(i, p)
  PROVE  omp_get_thread_num(p) = i
<1>1. i \in Nat /\ StackSize \in Nat /\ StackSize > 0 /\ Base \in Nat /\ p \in Int
  BY NumberAssumption DEF Ids, Within
<1>2. p >= Stack(0) /\ p <= Stack(MaxThreads)
  BY <1>1, Stacks, NumberAssumption DEF Within, StartSP, Stack
<1> DEFINE q == (p - Base) \div StackSize
<1>3. q \in Int /\ q * StackSize <= p - Base /\ p - Base < q * StackSize + StackSize
  BY <1>1
<1>4. i * StackSize <= p - Base /\ p - Base < i * StackSize + StackSize
  BY <1>1 DEF Within, StartSP, Stack
<1>5. q = i
  <2>1. CASE q >= i + 1
    <3>1. q * StackSize >= (i + 1) * StackSize
      BY <1>1, <1>3, <2>1
    <3> QED BY <1>1, <1>3, <1>4, <3>1
  <2>2. CASE i >= q + 1
    <3>1. i * StackSize >= (q + 1) * StackSize
      BY <1>1, <1>3, <2>2
    <3> QED BY <1>1, <1>3, <1>4, <3>1
  <2> QED BY <1>1, <1>3, <2>1, <2>2
<1>6. ~(p < Stack(0)) /\ ~(p > Stack(MaxThreads))
  BY <1>1, <1>2, NumberAssumption DEF Stack
<1> QED
  BY <1>5, <1>6 DEF omp_get_thread_num

(* The stack pointer starts inside the stack it was given.                 *)
LEMMA NumberInitInv == NumberInit => NumberInv
BY Stacks, NumberAssumption DEF NumberInit, NumberInv, Within, StartSP, Stack, Ids

(* Every step keeps it.                                                    *)
LEMMA NumberNextInv == NumberInv /\ [NumberNext]_numberVars => NumberInv'
<1> SUFFICES ASSUME NumberInv, [NumberNext]_numberVars PROVE NumberInv'
  OBVIOUS
<1>1. ASSUME NEW i \in Ids, Return(i) PROVE NumberInv'
  <2>1. /\ Head(calls[i]) = calls[i][1] /\ 1 \in 1 .. Len(calls[i])
        /\ Tail(calls[i]) \in Seq(Int)
        /\ Len(Tail(calls[i])) = Len(calls[i]) - 1
        /\ \A k \in 1 .. Len(Tail(calls[i])) :
             Tail(calls[i])[k] = calls[i][k + 1] /\ k + 1 \in 1 .. Len(calls[i])
    BY <1>1 DEF NumberInv, Return
  <2> QED
    BY <1>1, <2>1 DEF NumberInv, Return, Within
<1>2. ASSUME NEW i \in Ids, NEW size \in FrameSizes, Call(i, size) PROVE NumberInv'
  <2> DEFINE c == <<sp[i]>> \o calls[i]
  <2>1. /\ c \in Seq(Int)
        /\ \A k \in 1 .. Len(c) : c[k] = sp[i] \/ \E j \in 1 .. Len(calls[i]) : c[k] = calls[i][j]
    <3>1. sp[i] \in Int /\ calls[i] \in Seq(Int)
      BY DEF NumberInv
    <3>2. c \in Seq(Int) /\ Len(c) = 1 + Len(calls[i])
      BY <3>1
    <3>3. ASSUME NEW k \in 1 .. Len(c) PROVE c[k] = IF k = 1 THEN sp[i] ELSE calls[i][k - 1]
      BY <3>1, <3>2
    <3>4. ASSUME NEW k \in 1 .. Len(c), k # 1 PROVE k - 1 \in 1 .. Len(calls[i])
      BY <3>1, <3>2, <3>4
    <3> HIDE DEF c
    <3> QED
      BY <3>2, <3>3, <3>4
  <2>2. /\ sp[i] - size \in Int /\ Within(i, sp[i] - size)
        /\ sp' = [sp EXCEPT ![i] = sp[i] - size] /\ calls' = [calls EXCEPT ![i] = c]
    <3>1. /\ size \in Nat /\ sp[i] \in Int /\ StartSP(i) \in Int /\ Stack(i) <= sp[i] - size
          /\ sp[i] <= StartSP(i)
      BY <1>2, Stacks, NumberAssumption DEF NumberInv, Call, Within, StartSP
    <3>2. Within(i, sp[i] - size)
      BY <3>1 DEF Within
    <3> QED
      BY <1>2, <3>1, <3>2 DEF Call
  <2> HIDE DEF c
  <2> QED
    BY <2>1, <2>2 DEF NumberInv, Within
<1>3. CASE UNCHANGED numberVars
  BY <1>3 DEF numberVars, NumberInv
<1> QED
  BY <1>1, <1>2, <1>3 DEF NumberNext

(* Whatever the stacks and the calls, no worker has the number of another  *)
(* and main() has that of worker 0.                                        *)
THEOREM WorkersHaveOwnNumber == NumberSpec => []OwnNumber
<1>1. NumberInv => OwnNumber
  BY Number, NumberAssumption DEF NumberInv, OwnNumber, omp_get_thread_num, Stack
<1> QED
  BY NumberInitInv, NumberNextInv, <1>1, PTL DEF NumberSpec

-----------------------------------------------------------------------------
(* The countdown of calibrate.cpp, for every number of values of a         *)
(* register: it spends as many clocks as it is told, never one more.       *)

(* What is left to spend: at the first label, the low word counts down to  *)
(* zero, a zero standing for a whole word; at the others it is spent.      *)
Low == IF label = "1" THEN (IF tl = 0 THEN Word ELSE tl) ELSE 0

CountInv ==
  /\ ticks \in Nat /\ tl \in 0 .. Word - 1 /\ th \in Nat /\ spent \in Nat
  /\ label \in {"1", "2", "3"}
  /\ spent + Low + Word * th = ticks
  /\ label # "1" => tl = 0
  /\ label = "3" => th = 0

(* A number is its word, and as many whole words as there are.             *)
LEMMA Words ==
  ASSUME NEW t \in Nat
  PROVE  /\ t % Word \in 0 .. Word - 1
         /\ t \div Word \in Nat
         /\ t = (t % Word) + Word * (t \div Word)
BY WordAssumption

(* One less is one word of clocks less, of those still to run.             *)
LEMMA Counting ==
  ASSUME NEW h \in Nat \ {0}
  PROVE  Word * h = Word + Word * (h - 1)
BY WordAssumption

(* The register before zero is the last of the word.                       *)
LEMMA Wraps ==
  ASSUME NEW l \in 0 .. Word - 1
  PROVE  (l - 1) % Word = IF l = 0 THEN Word - 1 ELSE l - 1
<1>1. CASE l = 0 
  <2>1. /\ (-1) % Word \in 0 .. Word - 1
        /\ -1 = ((-1) % Word) + Word * ((-1) \div Word)
        /\ (-1) \div Word \in Int
    BY WordAssumption
  <2> DEFINE q == (-1) \div Word
             r == (-1) % Word
  <2>2. q = -1
    <3>1. CASE q >= 0
      <4>1. Word * q >= 0
        BY <2>1, <3>1, WordAssumption
      <4> QED BY <4>1, <2>1, WordAssumption
    <3>2. CASE q <= -2
      <4>1. Word * q <= Word * (-2)
        BY <2>1, <3>2, WordAssumption
      <4> QED BY <4>1, <2>1, WordAssumption
    <3> QED BY <2>1, <3>1, <3>2
  <2> QED BY <1>1, <2>1, <2>2, WordAssumption
<1>2. CASE l # 0
  BY <1>2, WordAssumption
<1> QED BY <1>1, <1>2

(* Before the first count the invariant holds.                             *)
LEMMA CountInitInv == CountInit => CountInv
BY Words, WordAssumption DEF CountInit, CountFrom, CountInv, Low

(* Every step keeps it.                                                    *)
LEMMA CountNextInv == CountInv /\ [CountNext]_countVars => CountInv'
<1> SUFFICES ASSUME CountInv, [CountNext]_countVars PROVE CountInv'
  OBVIOUS
<1>1. CASE Inner
  BY <1>1, Wraps, WordAssumption DEF CountInv, Inner, Low
<1>2. CASE Outer
  <2>1. CASE th = 0
    BY <1>2, <2>1 DEF CountInv, Outer, Low
  <2>2. CASE th # 0
    <3>1. tl = 0 /\ th' = th - 1 /\ label' = "1" /\ spent' = spent /\ tl' = tl /\ ticks' = ticks
      BY <1>2, <2>2 DEF CountInv, Outer
    <3>2. Word * th = Word + Word * th'
      BY <3>1, <2>2, Counting DEF CountInv
    <3> QED
      BY <1>2, <2>2, <3>1, <3>2, WordAssumption DEF CountInv, Outer, Low
  <2> QED BY <2>1, <2>2
<1>3. CASE UNCHANGED countVars
  BY <1>3 DEF countVars, CountInv, Low
<1> QED
  BY <1>1, <1>2, <1>3 DEF CountNext

(* However many values a register has, and however many clocks are asked   *)
(* for: calibrate.cpp never spends one too many, and has spent all when it *)
(* reads the timer.                                                        *)
THEOREM CalibrateSpends == CountSpec => []SpendsTicks
<1>1. CountInv => SpendsTicks
  <2> SUFFICES ASSUME CountInv PROVE SpendsTicks
    OBVIOUS
  <2>1. Word * th >= 0 /\ Word * th \in Int /\ Low >= 0 /\ Low \in Int
    BY WordAssumption DEF CountInv, Low
  <2>2. label = "3" => Word * th = 0 /\ Low = 0
    BY WordAssumption DEF CountInv, Low
  <2> QED
    BY <2>1, <2>2 DEF CountInv, SpendsTicks
<1> QED
  BY CountInitInv, CountNextInv, <1>1, PTL DEF CountSpec

-----------------------------------------------------------------------------
(* The clock of the benchmark, for all arguments, costs and times.         *)

(* The clock goes on for three times what a repetition of the solver takes *)
(* with its twin, what a measurement must take by the arguments, doubled,  *)
(* and what linpack() tests for, doubled.                                  *)
SlowWrap ==
  /\ 30 <= Wrap
  /\ \A c \in Costs : 6 * (c.solve + c.overhead) <= Wrap
  /\ \A argv \in ArgLists : 6 * Settings(argv).min <= Wrap

(* What a call of linpack() takes.                                         *)
Took == 2 * nreps * (cost.solve + cost.overhead)

(* A measurement that the clock can wrap in is short, and the one after it *)
(* begins so soon after that the clock does not wrap again.                *)
BenchInv ==
  /\ set.min \in Int /\ 6 * set.min <= Wrap
  /\ now \in 0 .. Wrap - 1
  /\ stage = "measure" =>
       /\ nreps \in Nat \ {0} /\ cost \in Costs
       /\ 3 * Took <= Wrap \/ (3 * Took <= 2 * Wrap /\ 2 * now < Took)
  /\ ReportsRealTime

(* The clock shows a time up to where it wraps, and then begins again.     *)
LEMMA ClockWraps ==
  ASSUME NEW time \in Nat, time < 2 * Wrap
  PROVE  Second(time) = IF time < Wrap THEN time ELSE time - Wrap
<1>1. Wrap \in Nat \ {0}
  BY BenchAssumption
<1> DEFINE q == time \div Wrap
<1>2. q \in Int /\ time % Wrap \in 0 .. Wrap - 1 /\ time = (time % Wrap) + Wrap * q
  BY <1>1
<1>3. Second(time) = time % Wrap
  BY DEF Second
<1> HIDE DEF q
<1>4. q = 0 \/ q = 1
  <2>1. CASE q < 0
    <3>1. Wrap * q <= -Wrap
      BY <1>1, <1>2, <2>1
    <3> QED
      BY <1>1, <1>2, <3>1
  <2>2. CASE q > 1
    <3>1. Wrap * q >= 2 * Wrap
      BY <1>1, <1>2, <2>2
    <3> QED
      BY <1>1, <1>2, <3>1
  <2> QED
    BY <1>2, <2>1, <2>2
<1> QED
  BY <1>1, <1>2, <1>3, <1>4

(* A first line has not been printed, and no time is outside the clock.    *)
LEMMA BenchInitInv ==
  ASSUME SlowWrap
  PROVE  BenchInit => BenchInv
<1> SUFFICES ASSUME BenchInit PROVE BenchInv
  OBVIOUS
<1>1. PICK argv \in ArgLists : set = Settings(argv)
  BY DEF BenchInit, BenchFrom
<1>2. set.min \in Int
  BY <1>1, BenchAssumption DEF Settings
<1> QED
  BY <1>1, <1>2 DEF BenchInit, BenchFrom, BenchInv, SlowWrap, ReportsRealTime, Nothing

(* One call of linpack() and what follows from its time.                   *)
LEMMA MeasureInv ==
  ASSUME SlowWrap, BenchInv, Measure
  PROVE  BenchInv'
<1> DEFINE total == Second(now + Took) - Second(now)
           rejected == Rejected(total, 2 * nreps * cost.solve)
<1>1. /\ stage = "measure" /\ now' = Second(now + Took)
      /\ report' = IF rejected THEN Nothing ELSE [says |-> total, took |-> Took, size |-> arsize]
      /\ set' = set /\ cost' = cost
      /\ \/ (IF rejected THEN 0 ELSE total) < set.min /\ nreps' = 2 * nreps /\ stage' = stage
         \/ stage' = "size" /\ nreps' = nreps
  BY DEF Measure, Took
<1>2. /\ nreps \in Nat \ {0} /\ cost \in Costs /\ cost.solve \in Nat \ {0} /\ cost.overhead \in Nat
      /\ Wrap \in Nat \ {0} /\ now \in 0 .. Wrap - 1
  BY <1>1, BenchAssumption DEF BenchInv
<1>3. Took \in Nat /\ 2 * nreps * cost.solve >= 2
  BY <1>2 DEF Took
<1>4. 2 * (2 * nreps) * (cost.solve + cost.overhead) = 2 * Took
  BY <1>2 DEF Took
<1>5. 3 * Took <= Wrap \/ (3 * Took <= 2 * Wrap /\ 2 * now < Took)
  BY <1>1 DEF BenchInv
<1>6. Second(now) = now /\ now + Took < 2 * Wrap
  BY <1>2, <1>3, <1>5, ClockWraps
<1>7. Second(now + Took) = IF now + Took < Wrap THEN now + Took ELSE now + Took - Wrap
  BY <1>2, <1>3, <1>6, ClockWraps
<1>8. rejected <=> total < 5
  BY <1>2, <1>3, <1>6, <1>7 DEF Rejected
<1> HIDE DEF rejected
<1>9. now' \in 0 .. Wrap - 1
  BY <1>1, <1>2, <1>3, <1>6, <1>7
<1>10. ReportsRealTime'
  <2>1. CASE now + Took < Wrap
    BY <1>1, <1>2, <1>3, <1>6, <1>7, <2>1 DEF ReportsRealTime, Nothing
  <2>2. CASE now + Took >= Wrap
    <3>1. rejected
      BY <1>2, <1>3, <1>5, <1>6, <1>7, <1>8, <2>2
    <3> QED
      BY <1>1, <3>1 DEF ReportsRealTime, Nothing
  <2> QED
    BY <1>2, <1>3, <2>1, <2>2
<1>11. ASSUME stage' = "measure"
       PROVE  /\ nreps' \in Nat \ {0} /\ cost' \in Costs
              /\ 3 * Took' <= Wrap \/ (3 * Took' <= 2 * Wrap /\ 2 * now' < Took')
  <2>1. nreps' = 2 * nreps /\ (rejected \/ total < set.min)
    BY <1>1, <1>11
  <2>2. Took' = 2 * Took
    BY <1>1, <1>4, <2>1 DEF Took
  <2>3. set.min \in Int /\ 6 * set.min <= Wrap /\ 30 <= Wrap
    BY DEF BenchInv, SlowWrap
  <2>4. CASE now + Took < Wrap
    <3>1. Took < 5 \/ Took < set.min
      BY <1>2, <1>3, <1>6, <1>7, <1>8, <2>1, <2>4
    <3> QED
      BY <1>1, <1>2, <1>3, <2>1, <2>2, <2>3, <3>1
  <2>5. CASE now + Took >= Wrap
    <3>1. 3 * Took <= Wrap
      BY <1>2, <1>3, <1>5, <2>5
    <3> QED
      BY <1>1, <1>2, <1>3, <1>7, <2>1, <2>2, <2>5, <3>1
  <2> QED
    BY <1>2, <1>3, <2>4, <2>5
<1> QED
  BY <1>1, <1>9, <1>10, <1>11 DEF BenchInv

(* A size begins with one repetition, which is short.                      *)
LEMMA BenchNextInv ==
  ASSUME SlowWrap
  PROVE  BenchInv /\ [BenchNext]_benchVars => BenchInv'
<1> SUFFICES ASSUME BenchInv, [BenchNext]_benchVars PROVE BenchInv'
  OBVIOUS
<1>1. CASE NextSize
  <2>1. nreps' = 1 /\ cost' \in Costs /\ UNCHANGED <<set, now, report>>
    BY <1>1 DEF NextSize
  <2>2. cost'.solve \in Nat \ {0} /\ cost'.overhead \in Nat /\ Wrap \in Nat
    BY <2>1, BenchAssumption
  <2>3. Took' = 2 * (cost'.solve + cost'.overhead)
    BY <2>1, <2>2 DEF Took
  <2>4. 3 * Took' <= Wrap
    BY <2>1, <2>2, <2>3 DEF SlowWrap
  <2> QED
    BY <2>1, <2>4 DEF BenchInv, ReportsRealTime
<1>2. CASE SizesDone \/ TooSmall \/ NoMemory
  BY <1>2 DEF SizesDone, TooSmall, NoMemory, Ends, BenchInv, ReportsRealTime
<1>3. CASE Measure
  BY <1>3, MeasureInv
<1>4. CASE UNCHANGED benchVars
  BY <1>4 DEF benchVars, BenchInv, ReportsRealTime, Took
<1> QED
  BY <1>1, <1>2, <1>3, <1>4 DEF BenchNext

(* The time linpack prints is what the measurement took, although the      *)
(* clock wraps, for all arguments and costs the clock is slow enough for:  *)
(* one that wraps in the middle of a measurement makes it look too short.  *)
THEOREM BenchReports ==
  ASSUME SlowWrap
  PROVE  BenchSpec => []ReportsRealTime
<1>1. BenchInv => ReportsRealTime
  BY DEF BenchInv
<1> QED
  BY BenchInitInv, BenchNextInv, <1>1, PTL DEF BenchSpec

-----------------------------------------------------------------------------
(* The unrolled loops, for every length of the vectors and every width.    *)

(* What is left after the single elements is made of whole rounds.         *)
LEMMA WholeRounds ==
  ASSUME NEW n \in Nat, NEW width \in Nat \ {0}
  PROVE  /\ Single(n, width) \in 0 .. width - 1
         /\ \E q \in Nat : n = Single(n, width) + width * q
<1>1. n % width \in 0 .. width - 1 /\ n \div width \in Nat /\ n = (n % width) + width * (n \div width)
  OBVIOUS
<1> QED
  BY <1>1 DEF Single

(* Of two multiples, the one with the larger factor is larger by a round.  *)
LEMMA Multiples ==
  ASSUME NEW width \in Nat \ {0}, NEW r \in Int, NEW q \in Int, r < q
  PROVE  width * r + width <= width * q /\ width * r \in Int /\ width * q \in Int
<1>1. width * (r + 1) <= width * q /\ width * (r + 1) = width * r + width
  OBVIOUS
<1> QED
  BY <1>1

(* An element past the single ones is in the round that its distance from  *)
(* them divided by the width gives, and in no other.                       *)
LEMMA OneRound ==
  ASSUME NEW n \in Nat, NEW width \in Nat \ {0}, NEW x \in Nat, x < n, x >= Single(n, width)
  PROVE  \E i : RoundsOf(x, n, width) = {i}
<1> DEFINE m == Single(n, width)
           q == (x - m) \div width
           i == m + width * q
<1>1. m \in Nat /\ x - m \in Nat
  <2>1. m \in 0 .. width - 1
    BY WholeRounds
  <2> QED BY <2>1
<1> HIDE DEF m
<1>2. q \in Nat /\ width * q <= x - m /\ x - m < width * q + width
  BY <1>1
<1> HIDE DEF q
<1>3. q <= n
  <2>1. width * q >= q
    BY <1>2
  <2> QED BY <1>1, <1>2, <2>1
<1>4. i \in Int /\ i <= x /\ x < i + width /\ i < n
  BY <1>1, <1>2
<1>5. i \in RoundsOf(x, n, width)
  <2>1. q \in 0 .. n
    BY <1>2, <1>3
  <2>2. i \in Rounds(n, width)
    BY <1>4, <2>1 DEF Rounds, m
  <2> QED
    BY <1>4, <2>2 DEF RoundsOf
<1>6. ASSUME NEW j \in RoundsOf(x, n, width) PROVE j = i
  <2>1. PICK r \in 0 .. n : j = m + width * r
    BY <1>6 DEF RoundsOf, Rounds, m
  <2>2. j <= x /\ x < j + width
    BY <1>6 DEF RoundsOf
  <2>3. ~(r < q)
    BY <1>1, <1>2, <2>1, <2>2, Multiples
  <2>4. ~(q < r)
    BY <1>1, <1>2, <2>1, <2>2, Multiples
  <2> QED
    BY <1>2, <2>1, <2>3, <2>4
<1> QED
  BY <1>5, <1>6

(* No round reaches back to the single elements or beyond the last.        *)
LEMMA NoRound ==
  ASSUME NEW n \in Nat, NEW width \in Nat \ {0}, NEW x \in Nat,
         x < Single(n, width) \/ x >= n
  PROVE  RoundsOf(x, n, width) = {}
<1> SUFFICES ASSUME NEW i \in RoundsOf(x, n, width) PROVE FALSE
  OBVIOUS
<1> DEFINE m == Single(n, width)
<1>1. PICK r \in 0 .. n : i = m + width * r
  BY DEF RoundsOf, Rounds
<1>2. i <= x /\ x < i + width /\ i < n
  BY DEF RoundsOf, Rounds
<1>3. PICK q \in Nat : n = m + width * q
  BY WholeRounds
<1>4. m \in Nat /\ width * r \in Nat /\ width * q \in Nat
  BY WholeRounds
<1>5. x >= n
  BY <1>1, <1>2, <1>4
<1>6. r < q
  <2>1. CASE q <= r
    <3>1. width * q <= width * r
      BY <2>1
    <3> QED BY <1>1, <1>2, <1>3, <1>4, <3>1
  <2> QED BY <2>1
<1>7. width * r + width <= width * q
  BY <1>6, Multiples
<1> QED
  BY <1>1, <1>2, <1>3, <1>4, <1>5, <1>7

(* daxpy_ur, ddot_ur and dscal_ur take each element of their vectors once, *)
(* none twice, none not at all and none beyond the end, whatever n leaves  *)
(* over when it is divided by the width they are unrolled to.              *)
THEOREM UnrolledTakesEachOnce ==
  ASSUME NEW n \in Nat, NEW width \in Nat \ {0}
  PROVE  TakesEachOnce(n, width)
<1> SUFFICES ASSUME NEW x \in 0 .. n + width
             PROVE  Times(x, n, width) = IF x < n THEN 1 ELSE 0
  BY DEF TakesEachOnce
<1>1. Single(n, width) \in Nat /\ Single(n, width) <= n
  <2>1. PICK q \in Nat : n = Single(n, width) + width * q
    BY WholeRounds
  <2>2. width * q \in Nat /\ Single(n, width) \in Nat
    BY WholeRounds
  <2> QED
    BY <2>1, <2>2
<1>2. CASE x < Single(n, width) \/ x >= n
  <2>1. RoundsOf(x, n, width) = {}
    BY <1>2, NoRound
  <2> QED
    BY <1>1, <1>2, <2>1, FS_EmptySet DEF Times
<1>3. CASE x >= Single(n, width) /\ x < n
  <2>1. PICK i : RoundsOf(x, n, width) = {i}
    <3>1. x \in Nat
      OBVIOUS
    <3> QED
      BY <1>3, <3>1, OneRound
  <2>2. Cardinality({i}) = 1
    BY FS_Singleton
  <2> QED
    BY <1>1, <1>3, <2>1, <2>2 DEF Times
<1> QED
  BY <1>1, <1>2, <1>3
=============================================================================
