-------------------------------- MODULE FIFO --------------------------------
(***************************************************************************)
(* fifo.hpp: the single-writer-single-reader ring, one action per access   *)
(* to shared memory.  The writer runs add over and over, the reader take,  *)
(* and the two interleave between any two accesses, as they would on two   *)
(* cores.  Stores become visible in program order here; FIFOWeak.tla drops *)
(* that assumption.                                                        *)
(***************************************************************************)
EXTENDS Naturals, Sequences

CONSTANTS
  N,         (* template parameter N: the ring has N + 1 slots        *)
  Values,    (* the values the writer may add                         *)
  NoValue    (* outcome of a take that returned false                 *)

ASSUME FIFOAssumption ==
  /\ N \in Nat \ {0}
  /\ Values # {}
  /\ NoValue \notin Values

VARIABLES
  nextIn,      (* index of the next entry to be written               *)
  nextOut,     (* index of the next entry to be read                  *)
  Data,        (* the N + 1 slots                                     *)
  wpc,         (* where the writer is in add                          *)
  value,       (* the argument of the add in progress                 *)
  curNextIn,   (* the writer's local copy of nextIn                   *)
  accepted,    (* the value the last add returned                     *)
  rpc,         (* where the reader is in take                         *)
  curNextOut,  (* the reader's local copy of nextOut                  *)
  loaded,      (* what the reader has read out of the slot            *)
  taken        (* the outcome of the last take                        *)

writer == <<wpc, value, curNextIn, accepted>>
reader == <<rpc, curNextOut, loaded, taken>>
vars == <<nextIn, nextOut, Data, writer, reader>>

Slots == 0 .. N

(* Mutant of Succ: the ring forgets its spare slot. *)
SuccNoSpare(i) == (i + 1) % N

(* Mutant of Succ: the index is never brought back to slot 0. *)
SuccNoWrap(i) == i + 1

(* The index of the next slot, around the ring. *)
Succ(i) == (i + 1) % (N + 1)

Init ==
  /\ nextIn = 0
  /\ nextOut = 0
  /\ Data = [i \in Slots |-> NoValue]
  /\ wpc = "idle" /\ value = NoValue /\ curNextIn = 0 /\ accepted = TRUE
  /\ rpc = "idle" /\ curNextOut = 0 /\ loaded = NoValue /\ taken = NoValue

-----------------------------------------------------------------------------
(* The writer: bool add(T value). *)

AddStart(v) ==
  /\ wpc = "idle"
  /\ value' = v
  /\ curNextIn' = nextIn
  /\ wpc' = "check"
  /\ UNCHANGED <<nextIn, nextOut, Data, accepted, reader>>

AddFull ==
  /\ wpc = "check"
  /\ Succ(curNextIn) = nextOut
  /\ wpc' = "idle"
  /\ accepted' = FALSE
  /\ UNCHANGED <<nextIn, nextOut, Data, value, curNextIn, reader>>

(* Mutant of AddRoom: the full test is missing. *)
AddRoomUntested ==
  /\ wpc = "check"
  /\ wpc' = "store"
  /\ UNCHANGED <<nextIn, nextOut, Data, value, curNextIn, accepted, reader>>

AddRoom ==
  /\ wpc = "check"
  /\ Succ(curNextIn) # nextOut
  /\ wpc' = "store"
  /\ UNCHANGED <<nextIn, nextOut, Data, value, curNextIn, accepted, reader>>

AddStore ==
  /\ wpc = "store"
  /\ Data' = [Data EXCEPT ![curNextIn] = value]
  /\ wpc' = "publish"
  /\ UNCHANGED <<nextIn, nextOut, value, curNextIn, accepted, reader>>

AddPublish ==
  /\ wpc = "publish"
  /\ nextIn' = Succ(curNextIn)
  /\ accepted' = TRUE
  /\ wpc' = "idle"
  /\ UNCHANGED <<nextOut, Data, value, curNextIn, reader>>

-----------------------------------------------------------------------------
(* The reader: bool take(T &value). *)

TakeStart ==
  /\ rpc = "idle"
  /\ curNextOut' = nextOut
  /\ rpc' = "check"
  /\ UNCHANGED <<nextIn, nextOut, Data, loaded, taken, writer>>

TakeEmpty ==
  /\ rpc = "check"
  /\ curNextOut = nextIn
  /\ taken' = NoValue
  /\ rpc' = "idle"
  /\ UNCHANGED <<nextIn, nextOut, Data, curNextOut, loaded, writer>>

TakeSome ==
  /\ rpc = "check"
  /\ curNextOut # nextIn
  /\ rpc' = "load"
  /\ UNCHANGED <<nextIn, nextOut, Data, curNextOut, loaded, taken, writer>>

TakeLoad ==
  /\ rpc = "load"
  /\ loaded' = Data[curNextOut]
  /\ rpc' = "release"
  /\ UNCHANGED <<nextIn, nextOut, Data, curNextOut, taken, writer>>

TakeRelease ==
  /\ rpc = "release"
  /\ nextOut' = Succ(curNextOut)
  /\ taken' = loaded
  /\ rpc' = "idle"
  /\ UNCHANGED <<nextIn, Data, curNextOut, loaded, writer>>

Add == (\E v \in Values : AddStart(v)) \/ AddFull \/ AddRoom \/ AddStore \/ AddPublish
Take == TakeStart \/ TakeEmpty \/ TakeSome \/ TakeLoad \/ TakeRelease

Next == Add \/ Take

Spec == Init /\ [][Next]_vars

-----------------------------------------------------------------------------
(* Every variable stays in the range fifo.hpp gives it; the indices never  *)
(* leave the N + 1 slots.                                                  *)
TypeOK ==
  /\ nextIn \in Slots /\ nextOut \in Slots
  /\ Data \in [Slots -> Values \cup {NoValue}]
  /\ wpc \in {"idle", "check", "store", "publish"}
  /\ value \in Values \cup {NoValue}
  /\ curNextIn \in Slots
  /\ accepted \in BOOLEAN
  /\ rpc \in {"idle", "check", "load", "release"}
  /\ curNextOut \in Slots
  /\ loaded \in Values \cup {NoValue}
  /\ taken \in Values \cup {NoValue}

(* How many entries the ring holds, and where they are, oldest first. *)
Count == IF nextIn >= nextOut THEN nextIn - nextOut ELSE nextIn + (N + 1) - nextOut
SlotAt(i) == IF nextOut + i - 1 <= N THEN nextOut + i - 1 ELSE nextOut + i - 1 - (N + 1)
Contents == [i \in 1 .. Count |-> Data[SlotAt(i)]]

(* The slot add stores into is the writer's alone ("store the data to the  *)
(* owned slot"): it holds no entry that was accepted and not yet taken,    *)
(* and the reader is not reading it, wherever the two are in their calls.  *)
OwnedSlot ==
  wpc = "store" =>
    /\ \A i \in 1 .. Count : SlotAt(i) # curNextIn
    /\ rpc = "load" => curNextOut # curNextIn

(* The ring is a queue of N values: add refuses only at N entries, take    *)
(* fails only at none, and values come out once each, in order, although   *)
(* neither client ever waits for the other.                                *)
Queue == INSTANCE BoundedQueue WITH queue <- Contents
ImplementsQueue == Queue!Spec
=============================================================================
