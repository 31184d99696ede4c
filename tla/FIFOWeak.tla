------------------------------ MODULE FIFOWeak ------------------------------
(***************************************************************************)
(* The ring of fifo.hpp on two cores that may let a store overtake an      *)
(* earlier store to another address.  Between "Data[curNextIn] = value"    *)
(* and "nextIn = newNextIn" add has only COMPILE_BARRIER, an empty asm     *)
(* statement with a memory clobber (compiler.hpp): it orders what the      *)
(* compiler emits and emits no barrier instruction, so the second store    *)
(* can reach memory first.                                                 *)
(***************************************************************************)
EXTENDS FIFO

(* nextIn is visible to the reader while the slot still holds what it held. *)
PublishOvertakes ==
  /\ wpc = "store"
  /\ nextIn' = Succ(curNextIn)
  /\ wpc' = "late"
  /\ UNCHANGED <<nextOut, Data, value, curNextIn, accepted, reader>>

StoreLate ==
  /\ wpc = "late"
  /\ Data' = [Data EXCEPT ![curNextIn] = value]
  /\ accepted' = TRUE
  /\ wpc' = "idle"
  /\ UNCHANGED <<nextIn, nextOut, value, curNextIn, reader>>

WeakSpec == Init /\ [][Next \/ PublishOvertakes \/ StoreLate]_vars

(* "A single-writer-single-reader lock-free/wait-free FIFO.  Multi-thread  *)
(* and multi-core": a take that returns true returns a value that was      *)
(* added, never what an empty slot happened to hold.                       *)
TakesWhatWasAdded == rpc = "release" => loaded \in Values
=============================================================================
