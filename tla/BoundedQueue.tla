---------------------------- MODULE BoundedQueue ----------------------------
(***************************************************************************)
(* What fifo.hpp promises its two clients: a queue of at most N values.    *)
(* One writer adds at the tail and is told whether the value was accepted; *)
(* one reader takes from the head and is told when there was nothing.      *)
(* FIFO.tla is shown to implement this specification.                      *)
(***************************************************************************)
EXTENDS Naturals, Sequences

CONSTANTS
  N,         (* capacity, the template parameter N                    *)
  Values,    (* what may be added                                     *)
  NoValue    (* the answer of a take that found the queue empty       *)

VARIABLES
  queue,     (* the values accepted and not yet taken, oldest first   *)
  accepted,  (* the answer of the last add                            *)
  taken      (* the answer of the last take                           *)

qvars == <<queue, accepted, taken>>

Init ==
  /\ queue = <<>>
  /\ accepted = TRUE
  /\ taken = NoValue

Accept(v) ==
  /\ Len(queue) < N
  /\ queue' = Append(queue, v)
  /\ accepted' = TRUE
  /\ UNCHANGED taken

(* An add is refused only while the queue holds exactly N values. *)
Refuse ==
  /\ Len(queue) = N
  /\ accepted' = FALSE
  /\ UNCHANGED <<queue, taken>>

Deliver ==
  /\ queue # <<>>
  /\ taken' = Head(queue)
  /\ queue' = Tail(queue)
  /\ UNCHANGED accepted

(* A take fails only while the queue is empty. *)
Empty ==
  /\ queue = <<>>
  /\ taken' = NoValue
  /\ UNCHANGED <<queue, accepted>>

Next ==
  \/ \E v \in Values : Accept(v)
  \/ Refuse
  \/ Deliver
  \/ Empty

Spec == Init /\ [][Next]_qvars
=============================================================================
