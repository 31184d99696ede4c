------------------------------- MODULE Mutex --------------------------------
(***************************************************************************)
(* What locks promise, whatever they wait by: how often each client has    *)
(* entered each lock and not left it, never two clients in one at once.  A *)
(* client may enter a lock it is in again, up to MaxDepth times; the depth *)
(* of a plain lock is one.                                                 *)
(***************************************************************************)
EXTENDS Naturals

CONSTANTS MutexSet, Clients, MaxDepth

VARIABLE holds     (* how often each client is in each lock                *)

Init == holds = [l \in MutexSet |-> [c \in Clients |-> 0]]

Enter(l, c) ==
  /\ \A d \in Clients \ {c} : holds[l][d] = 0
  /\ holds[l][c] < MaxDepth
  /\ holds' = [holds EXCEPT ![l][c] = @ + 1]

Leave(l, c) ==
  /\ holds[l][c] > 0
  /\ holds' = [holds EXCEPT ![l][c] = @ - 1]

Next == \E l \in MutexSet, c \in Clients : Enter(l, c) \/ Leave(l, c)

Spec == Init /\ [][Next]_holds
=============================================================================
