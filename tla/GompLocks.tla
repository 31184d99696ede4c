----------------------------- MODULE GompLocks ------------------------------
(***************************************************************************)
(* omp_lock_t and omp_nest_lock_t.  Both wait by yielding, in no order: a  *)
(* context waiting for a lock is at "lock" or at "nest".                   *)
(***************************************************************************)
EXTENDS GompState

CONSTANTS
  Locks,        (* the omp_lock_t of the program                            *)
  NestLocks,    (* its omp_nest_lock_t                                      *)
  NoLock

VARIABLES
  lock,         (* the value of each omp_lock_t                             *)
  nest,         (* the fields of each omp_nest_lock_t                       *)
  wants         (* the lock each waiting context waits for                  *)

lockVars == <<lock, nest, wants>>
AllLocks == Locks \cup NestLocks

ASSUME LocksAssumption == Locks \cap NestLocks = {} /\ NoLock \notin AllLocks

-----------------------------------------------------------------------------
(* Leave the loop of omp_set_lock with the lock. *)
TakeLock(l) ==
  /\ lock' = [lock EXCEPT ![l] = 1]
  /\ wants' = [wants EXCEPT ![cpu] = NoLock]
  /\ Goto("user")
  /\ UNCHANGED <<threadVars, nest>>

(* Go round it: yield. *)
AwaitLock(l) ==
  /\ wants' = [wants EXCEPT ![cpu] = l]
  /\ Goto("lock")
  /\ Yield
  /\ UNCHANGED <<lock, nest>>

(* Mutant of PollLock: a thread that has yielded once takes the lock. *)
PollLockOnce(l) == IF lock[l] # 0 /\ At("user") THEN AwaitLock(l) ELSE TakeLock(l)

PollLock(l) == IF lock[l] # 0 THEN AwaitLock(l) ELSE TakeLock(l)

SetLock(l) == At("user") /\ PollLock(l)
LockRetry == At("lock") /\ PollLock(wants[cpu])

(* omp_test_lock(l) returns 1. *)
TestLockWins(l) == lock[l] = 0

TestLock(l) ==
  /\ At("user")
  /\ lock' = [lock EXCEPT ![l] = 1]
  /\ UNCHANGED <<pc, threadVars, nest, wants>>

(* Mutant of UnsetLock: the lock stays set. *)
UnsetLockForgets(l) == At("user") /\ UNCHANGED <<pc, threadVars, lockVars>>

(* omp_unset_lock, and omp_init_lock and omp_destroy_lock just as well. *)
UnsetLock(l) ==
  /\ At("user")
  /\ lock' = [lock EXCEPT ![l] = 0]
  /\ UNCHANGED <<pc, threadVars, nest, wants>>

-----------------------------------------------------------------------------
NestFree == [lock |-> 0, count |-> 0, owner |-> 0]
NestTaken == [lock |-> 1, count |-> 1, owner |-> Me]

(* Mutant of OwnsNest: a lock nobody has belongs to thread 0. *)
OwnsNestFree(l) == nest[l].owner = Me

(* The caller's thread number is the owner's. *)
OwnsNest(l) == nest[l].lock # 0 /\ nest[l].owner = Me

(* Enter once more. *)
NestAgain(l) ==
  /\ OwnsNest(l)
  /\ nest' = [nest EXCEPT ![l].count = @ + 1]
  /\ UNCHANGED <<pc, threadVars, lock, wants>>

(* The loop of omp_set_nest_lock, which does not look at the owner again. *)
TakeNest(l) ==
  /\ nest' = [nest EXCEPT ![l] = NestTaken]
  /\ wants' = [wants EXCEPT ![cpu] = NoLock]
  /\ Goto("user")
  /\ UNCHANGED <<threadVars, lock>>

AwaitNest(l) ==
  /\ wants' = [wants EXCEPT ![cpu] = l]
  /\ Goto("nest")
  /\ Yield
  /\ UNCHANGED <<lock, nest>>

PollNest(l) == IF nest[l].lock = 1 THEN AwaitNest(l) ELSE TakeNest(l)

SetNest(l) == At("user") /\ IF OwnsNest(l) THEN NestAgain(l) ELSE PollNest(l)
NestRetry == At("nest") /\ PollNest(wants[cpu])

(* omp_test_nest_lock(l) returns the new count, not 0. *)
TestNestWins(l) == OwnsNest(l) \/ nest[l].lock = 0

TestNest(l) ==
  /\ At("user")
  /\ IF OwnsNest(l)
     THEN NestAgain(l)
     ELSE /\ nest' = IF nest[l].lock = 0 THEN [nest EXCEPT ![l] = NestTaken] ELSE nest
          /\ UNCHANGED <<pc, threadVars, lock, wants>>

(* Mutant of UnsetNest: the first unset frees the lock. *)
UnsetNestAtOnce(l) ==
  /\ At("user")
  /\ nest' = [nest EXCEPT ![l] = NestFree]
  /\ UNCHANGED <<pc, threadVars, lock, wants>>

(* omp_unset_nest_lock trusts its caller to be the owner. *)
UnsetNest(l) ==
  /\ At("user")
  /\ nest' = IF nest[l].count = 1 THEN [nest EXCEPT ![l] = NestFree]
             ELSE [nest EXCEPT ![l].count = @ - 1]
  /\ UNCHANGED <<pc, threadVars, lock, wants>>

(* omp_init_nest_lock and omp_destroy_nest_lock. *)
ResetNest(l) ==
  /\ At("user")
  /\ nest' = [nest EXCEPT ![l] = NestFree]
  /\ UNCHANGED <<pc, threadVars, lock, wants>>
=============================================================================
