---------------------------- MODULE GompCritical ----------------------------
(***************************************************************************)
(* GOMP_critical_start and GOMP_critical_end, which GOMP_atomic_start and  *)
(* GOMP_atomic_end only call.  A context waiting for the mutex is at       *)
(* "critical".                                                             *)
(***************************************************************************)
EXTENDS GompState

VARIABLES
  mutex,        (* teams[].mutex                                            *)
  mwaiting,     (* omp_threads[].mwaiting                                   *)
  mindex        (* the commutator                                           *)

criticalVars == <<mutex, mwaiting, mindex>>

(* Leave the loop of GOMP_critical_start with the mutex.  A context that    *)
(* has waited clears mwaiting first.                                       *)
TakeMutex ==
  /\ mutex' = [mutex EXCEPT ![team] = TRUE]
  /\ mwaiting' = IF At("critical") THEN [mwaiting EXCEPT ![Me] = FALSE] ELSE mwaiting
  /\ Goto("user")
  /\ UNCHANGED threadVars

(* Go round the loop: suspend in omp_threads[id]. *)
AwaitMutex ==
  /\ mwaiting' = [mwaiting EXCEPT ![Me] = TRUE]
  /\ Goto("critical")
  /\ Suspend(Me)
  /\ UNCHANGED mutex

(* Mutant of TestMutex: the mutex is set without being tested. *)
TestMutexIgnored == TakeMutex /\ UNCHANGED mindex

TestMutex ==
  /\ IF mutex[team] THEN AwaitMutex ELSE TakeMutex
  /\ UNCHANGED mindex

CriticalStart == At("user") /\ TestMutex

(* Resumed by GOMP_critical_end, the loop tests the mutex again. *)
CriticalRetry == At("critical") /\ TestMutex

(* Mutant of Rotation: the rotation misses its last place. *)
RotationShort == [k \in 0 .. num - 2 |-> IF k = 0 THEN mindex ELSE (mindex + k) % num]

(* The num threads the commutator passes, in order.  The first is mindex    *)
(* itself, as the last call left it, reduced only afterwards.               *)
Rotation == [k \in 0 .. num - 1 |-> IF k = 0 THEN mindex ELSE (mindex + k) % num]

(* The places of the rotation where a thread waits for the mutex. *)
Waiters == {k \in DOMAIN Rotation : mwaiting[Rotation[k]]}

(* Mutant of CriticalEnd: the mutex is freed and nobody is resumed. *)
CriticalEndNoResume ==
  /\ At("user")
  /\ mutex' = [mutex EXCEPT ![team] = FALSE]
  /\ UNCHANGED <<mindex, threadVars, pc, mwaiting>>

(* Mutant of CriticalEnd: the mutex stays set for the thread resumed. *)
CriticalEndKeepsMutex ==
  /\ At("user")
  /\ IF Waiters = {}
     THEN /\ mutex' = [mutex EXCEPT ![team] = FALSE]
          /\ mindex' = (mindex + num) % num
          /\ UNCHANGED threadVars
     ELSE /\ mindex' = (mindex + Min(Waiters) + 1) % num
          /\ Resume(Rotation[Min(Waiters)])
          /\ UNCHANGED mutex
  /\ UNCHANGED <<pc, mwaiting>>

(* Free the mutex and hand the CPU to the first waiter of the rotation. *)
CriticalEnd ==
  /\ At("user")
  /\ mutex' = [mutex EXCEPT ![team] = FALSE]
  /\ IF Waiters = {}
     THEN /\ mindex' = (mindex + num) % num
          /\ UNCHANGED threadVars
     ELSE /\ mindex' = (mindex + Min(Waiters) + 1) % num
          /\ Resume(Rotation[Min(Waiters)])
  /\ UNCHANGED <<pc, mwaiting>>
=============================================================================
