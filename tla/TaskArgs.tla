------------------------------ MODULE TaskArgs ------------------------------
(***************************************************************************)
(* Where the arguments of explicit tasks live.  GOMP_task copies them into *)
(* memory of the task's own, aligned by hand: a buffer on the stack when   *)
(* it calls the task in place, and a block of malloc when it queues it,    *)
(* with the distance to the start of the block in the char before the      *)
(* arguments, from which gomp_worker computes what to free.                *)
(*                                                                         *)
(* malloc, free and the stacks are external: they give memory nobody has.  *)
(***************************************************************************)
EXTENDS Integers, FiniteSets, Sequences

CONSTANTS
  MemSize,      (* the addresses are 1 .. MemSize                           *)
  Byte,         (* the number of values of a char                           *)
  Sizes,        (* the values of arg_size                                   *)
  Aligns,       (* and of arg_align, powers of two                          *)
  MallocAlign,  (* malloc returns multiples of this                         *)
  Values,       (* what the arguments hold                                  *)
  MaxTasks      (* how many tasks are alive at once                         *)

ASSUME TaskArgsAssumption ==
  /\ MemSize \in Nat /\ Byte \in Nat \ {0} /\ MallocAlign \in Nat \ {0} /\ MaxTasks \in Nat
  /\ Sizes \subseteq Nat /\ Aligns \subseteq Nat \ {0}
  /\ Values \subseteq 0 .. Byte - 1

VARIABLES
  mem,      (* the memory, by address                                       *)
  blocks,   (* the blocks malloc and the stacks have given                  *)
  live      (* the tasks created and not yet ended                          *)

argsVars == <<mem, blocks, live>>

Addresses == 1 .. MemSize

-----------------------------------------------------------------------------
(* x & ~(align - 1) *)
AlignDown(x, align) == x - (x % align)

(* Mutant of QueuedLen: there is no room for the offset. *)
QueuedLenTight(size, align) == size + align - 1

QueuedLen(size, align) == size + align

(* Mutant of QueuedArg: aligned within the block, but maybe at its start. *)
QueuedArgLow(base, align) == AlignDown(base + align - 1, align)

QueuedArg(base, align) == AlignDown(base + align, align)

InPlaceLen(size, align) == size + align - 1

(* Mutant of InPlaceArg: one too far before it is aligned down. *)
InPlaceArgHigh(base, align) == AlignDown(base + align, align)

InPlaceArg(base, align) == AlignDown(base + align - 1, align)

(* The bytes of a task's arguments, and of a block. *)
Bytes(start, len) == start .. start + len - 1

(* memcpy, or the copy function of the construct. *)
Copied(m, start, size, v) == [x \in Addresses |-> IF x \in Bytes(start, size) THEN v ELSE m[x]]

(* arg[-1] = arg - argmem *)
OffsetStored(m, arg, base) == [m EXCEPT ![arg - 1] = (arg - base) % Byte]

(* data - data[-1], the address gomp_worker frees. *)
FreeAddress(t) == t.arg - mem[t.arg - 1]

-----------------------------------------------------------------------------
(* Where a block of len bytes can be: short of the last address. *)
Room(len, align) ==
  {base \in 1 .. MemSize - len :
     base % align = 0 /\ \A b \in blocks : Bytes(base, len) \cap Bytes(b.base, b.len) = {}}

ArgsInit ==
  /\ mem \in [Addresses -> {0}]
  /\ blocks = {} /\ live = {}

(* GOMP_task queues the task. *)
Queue(size, align, v) ==
  \E base \in Room(QueuedLen(size, align), MallocAlign) :
    LET arg == QueuedArg(base, align)
    IN  /\ blocks' = blocks \cup {[base |-> base, len |-> QueuedLen(size, align)]}
        /\ mem' = Copied(OffsetStored(mem, arg, base), arg, size, v)
        /\ live' = live \cup {[arg |-> arg, size |-> size, align |-> align,
                               queued |-> TRUE, block |-> base, v |-> v]}

(* GOMP_task calls it, with a copy function.  buf is on the stack. *)
CallInPlace(size, align, v) ==
  \E base \in Room(InPlaceLen(size, align), 1) :
    LET arg == InPlaceArg(base, align)
    IN  /\ blocks' = blocks \cup {[base |-> base, len |-> InPlaceLen(size, align)]}
        /\ mem' = Copied(mem, arg, size, v)
        /\ live' = live \cup {[arg |-> arg, size |-> size, align |-> align,
                               queued |-> FALSE, block |-> base, v |-> v]}

(* The body of a task assigns to its firstprivate variables. *)
Assign(t, v) ==
  /\ mem' = Copied(mem, t.arg, t.size, v)
  /\ live' = (live \ {t}) \cup {[t EXCEPT !.v = v]}
  /\ UNCHANGED blocks

(* The block at base is given back.  Nobody reads it any more: its bytes    *)
(* count as 0.                                                             *)
GiveBack(base) ==
  /\ blocks' = {b \in blocks : b.base # base}
  /\ mem' = [x \in Addresses |-> IF \E b \in blocks' : x \in Bytes(b.base, b.len)
                                THEN mem[x] ELSE 0]

(* gomp_worker frees the arguments of a queued task that has ended. *)
EndQueued(t) ==
  /\ t.queued
  /\ GiveBack(FreeAddress(t))
  /\ live' = live \ {t}

(* GOMP_task returns from a task it has called: buf is gone. *)
EndInPlace(t) ==
  /\ ~t.queued
  /\ GiveBack(t.block)
  /\ live' = live \ {t}

ArgsNext ==
  \/ /\ Cardinality(live) < MaxTasks
     /\ \E size \in Sizes, align \in Aligns, v \in Values :
          Queue(size, align, v) \/ (size > 0 /\ CallInPlace(size, align, v))
  \/ \E t \in live, v \in Values : Assign(t, v)
  \/ \E t \in live : EndQueued(t) \/ EndInPlace(t)

ArgsSpec == ArgsInit /\ [][ArgsNext]_argsVars

-----------------------------------------------------------------------------
(* The address freed is the one malloc returned for the task, so that each *)
(* block is freed once, by the task that had it.                           *)
FreesItsOwn == \A t \in live : t.queued => FreeAddress(t) = t.block

(* No task, by its copy, its offset or its assignments, disturbs another:  *)
(* each finds in its arguments what was copied there or what it stored.    *)
ArgsIntact == \A t \in live : \A x \in Bytes(t.arg, t.size) : mem[x] = t.v

(* The arguments are where the construct wants them aligned, in a block    *)
(* that is still allocated and that no other task has, and when the last   *)
(* task ends nothing stays allocated.                                      *)
OwnBlock ==
  /\ \A t \in live :
       /\ t.arg % t.align = 0
       /\ \E b \in blocks : b.base = t.block /\ Bytes(t.arg, t.size) \subseteq Bytes(b.base, b.len)
  /\ \A t, u \in live : t # u => t.block # u.block
  /\ {b.base : b \in blocks} = {t.block : t \in live}
=============================================================================
