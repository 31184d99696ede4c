---------------------------- MODULE SystemProofs ----------------------------
(***************************************************************************)
(* libgomp.cpp on the threads of thread.cpp, for any number of workers, of *)
(* locks and of task structs.  First the locks, with any program: they     *)
(* exclude, and the fields of a nest lock are right, whoever runs when.    *)
(* Then, with any program that keeps its tasks in regions: no task struct  *)
(* is lost, a region ends when all its tasks have, and one thread at a     *)
(* time is in a critical construct.  GOMP_barrier and GOMP_critical_end    *)
(* resume only who is suspended, and no suspend is over another, so that   *)
(* no context is lost and the CPU never runs garbage.                      *)
(***************************************************************************)
EXTENDS Libgomp, ThreadOpsProofs, WellFoundedInduction, TLAPS

(* Where the contexts are: the background context runs no program, and     *)
(* one that waits for a lock waits for one of the right kind.              *)
WaitInv ==
  /\ pc \in [Contexts -> PcValues]
  /\ pc[Bg] \in {"boot", "background", "halt"}
  /\ wants \in [Contexts -> AllLocks \cup {NoLock}]
  /\ \A c \in Contexts :
       /\ pc[c] = "lock" => wants[c] \in Locks
       /\ pc[c] = "nest" => wants[c] \in NestLocks /\ MaxNest > 0

(* A lock somebody has is set, and nobody else has it.                     *)
PlainInv ==
  \A l \in Locks, c \in Contexts : held[c][l] > 0 =>
    lock[l] = 1 /\ held[c][l] = 1 /\ \A d \in Contexts \ {c} : held[d][l] = 0

(* A nest lock has been set by its owner as often as it counts, and by no  *)
(* other thread number.                                                    *)
NestInv ==
  /\ \A l \in NestLocks, i \in Ids :
       SetByNumber(i, l) = IF nest[l].lock = 1 /\ nest[l].owner = i THEN nest[l].count ELSE 0
  /\ \A l \in NestLocks : nest[l].lock = 1 => nest[l].count > 0
  /\ \A l \in NestLocks, c \in Contexts : held[c][l] <= MaxNest

FieldsInv ==
  /\ lock \in [Locks -> {0, 1}]
  /\ nest \in [NestLocks -> [lock : {0, 1}, count : Nat, owner : Ids]]
  /\ held \in [Contexts -> [AllLocks -> Nat]]

LockInv == FieldsInv /\ PlainInv /\ NestInv
IInv == WaitInv /\ LockInv

-----------------------------------------------------------------------------
(* All a step can do to the locks.                                         *)
EntersLock(l) ==
  /\ lock[l] = 0 /\ lock' = [lock EXCEPT ![l] = 1]
  /\ Entered(l) /\ nest' = nest

LeavesLock(l) ==
  /\ held[cpu][l] > 0 /\ lock' = [lock EXCEPT ![l] = 0]
  /\ Left(l) /\ nest' = nest

EntersNest(l) ==
  /\ nest[l].lock = 0 /\ held[cpu][l] < MaxNest /\ nest' = [nest EXCEPT ![l] = NestTaken]
  /\ Entered(l) /\ lock' = lock

ReentersNest(l) ==
  /\ OwnsNest(l) /\ held[cpu][l] < MaxNest /\ nest' = [nest EXCEPT ![l].count = @ + 1]
  /\ Entered(l) /\ lock' = lock

LeavesNest(l) ==
  /\ held[cpu][l] > 0
  /\ nest' = IF nest[l].count = 1 THEN [nest EXCEPT ![l] = NestFree]
             ELSE [nest EXCEPT ![l].count = @ - 1]
  /\ Left(l) /\ lock' = lock

ResetsNest(l) ==
  /\ \A c \in Contexts : held[c][l] = 0
  /\ nest' = [nest EXCEPT ![l] = NestFree]
  /\ held' = held /\ lock' = lock

Keeps == lock' = lock /\ nest' = nest /\ held' = held

LockStep ==
  \/ Keeps
  \/ /\ cpu \in Contexts \ {Bg}
     /\ \/ \E l \in Locks : EntersLock(l) \/ LeavesLock(l)
        \/ \E l \in NestLocks : EntersNest(l) \/ ReentersNest(l) \/ LeavesNest(l) \/ ResetsNest(l)

-----------------------------------------------------------------------------
(* The thread number of a context that runs a program.                     *)
LEMMA MeInIds == Me \in Ids /\ 0 \in Ids /\ MaxThreads \in Nat
BY GompAssumption DEF Me, Ids

(* The contexts are the workers, Main and Bg, all different.               *)
LEMMA NamesDiffer == Main \notin Ids /\ Bg \notin Ids /\ Main # Bg /\ Contexts = Ids \cup {Main, Bg}
BY GompAssumption DEF Contexts

(* The least of some numbers is one of them.                               *)
LEMMA MinIn ==
  ASSUME NEW S, S \subseteq Nat, S # {}
  PROVE  Min(S) \in S
<1>1. PICK x \in S : \A y \in S : <<y, x>> \notin OpToRel(<, Nat)
  BY WFMin, NatLessThanWellFounded, Zenon
<1>2. \A y \in S : ~(y < x)
  BY <1>1, Zenon DEF OpToRel
<1>3. \A y \in S : x =< y
  <2> TAKE y \in S
  <2>1. x \in Nat /\ y \in Nat /\ ~(y < x)
    BY <1>2
  <2> QED
    BY <2>1
<1> QED
  BY <1>3, Zenon DEF Min

(* libgomp_init starts a worker that there is.                             *)
LEMMA MinUnborn == Unborn # {} => Min(Unborn) \in Unborn
BY MinIn, MeInIds DEF Unborn, Ids

(* A context that is in the program is not the background context.         *)
LEMMA InProgram ==
  ASSUME WaitInv, NEW l, At(l), l \notin {"boot", "background", "halt"}
  PROVE  cpu \in Contexts \ {Bg}
BY DEF WaitInv, At

(* It goes on somewhere, or stays: it does not wait for a lock.            *)
LEMMA GoesOn ==
  ASSUME WaitInv, cpu \in Contexts \ {Bg}, wants' = wants,
         NEW s \in PcValues \ {"lock", "nest"}, Goto(s)
  PROVE  WaitInv'
BY DEF WaitInv, Goto

(* A step that moves no context keeps who waits for what.                  *)
LEMMA Stays ==
  ASSUME WaitInv, pc' = pc, wants' = wants
  PROVE  WaitInv'
BY DEF WaitInv

-----------------------------------------------------------------------------
(* omp_set_lock, and a further turn of its loop.                           *)
LEMMA PollsLock ==
  ASSUME IInv, cpu \in Contexts \ {Bg}, NEW l \in Locks, PollLock(l), EnteredIfBack(l)
  PROVE  WaitInv' /\ LockStep
<1>1. CASE lock[l] # 0
  <2>1. wants' = [wants EXCEPT ![cpu] = l] /\ Goto("lock") /\ lock' = lock /\ nest' = nest
    BY <1>1 DEF PollLock, AwaitLock
  <2>2. pc'[cpu] = "lock"
    BY <2>1 DEF IInv, WaitInv, Goto
  <2>3. held' = held
    BY <2>2 DEF EnteredIfBack
  <2>4. WaitInv'
    BY <2>1, NamesDiffer DEF IInv, WaitInv, Goto, PcValues, AllLocks
  <2> QED
    BY <2>1, <2>3, <2>4 DEF LockStep, Keeps
<1>2. CASE lock[l] = 0
  <2>1. /\ lock' = [lock EXCEPT ![l] = 1] /\ wants' = [wants EXCEPT ![cpu] = NoLock]
        /\ Goto("user") /\ nest' = nest
    BY <1>2 DEF PollLock, TakeLock
  <2>2. pc'[cpu] = "user"
    BY <2>1 DEF IInv, WaitInv, Goto
  <2>3. EntersLock(l)
    BY <1>2, <2>1, <2>2 DEF EnteredIfBack, EntersLock
  <2>4. WaitInv'
    BY <2>1, NamesDiffer DEF IInv, WaitInv, Goto, PcValues
  <2> QED
    BY <2>3, <2>4 DEF LockStep
<1> QED
  BY <1>1, <1>2

(* The loop of omp_set_nest_lock.  The caller may enter: when the lock is  *)
(* free, nobody with its number is in it.                                  *)
LEMMA PollsNest ==
  ASSUME IInv, cpu \in Contexts \ {Bg}, NEW l \in NestLocks, MaxNest > 0,
         PollNest(l), EnteredIfBack(l)
  PROVE  WaitInv' /\ LockStep
<1>1. CASE nest[l].lock = 1
  <2>1. wants' = [wants EXCEPT ![cpu] = l] /\ Goto("nest") /\ lock' = lock /\ nest' = nest
    BY <1>1 DEF PollNest, AwaitNest
  <2>2. pc'[cpu] = "nest"
    BY <2>1 DEF IInv, WaitInv, Goto
  <2>3. held' = held
    BY <2>2 DEF EnteredIfBack
  <2>4. WaitInv'
    BY <2>1, NamesDiffer DEF IInv, WaitInv, Goto, PcValues, AllLocks
  <2> QED
    BY <2>1, <2>3, <2>4 DEF LockStep, Keeps
<1>2. CASE nest[l].lock # 1
  <2>1. /\ nest' = [nest EXCEPT ![l] = NestTaken] /\ wants' = [wants EXCEPT ![cpu] = NoLock]
        /\ Goto("user") /\ lock' = lock
    BY <1>2 DEF PollNest, TakeNest
  <2>2. pc'[cpu] = "user"
    BY <2>1 DEF IInv, WaitInv, Goto
  <2>3. nest[l].lock = 0
    BY <1>2 DEF IInv, LockInv, FieldsInv
  <2>4. held[cpu][l] = 0
    <3>1. SetByNumber(Me, l) = 0
      BY <1>2, MeInIds DEF IInv, LockInv, NestInv
    <3>2. \A c \in Contexts : held[c][l] \in Nat
      BY DEF IInv, LockInv, FieldsInv, AllLocks
    <3> QED
      BY <3>1, <3>2, MeInIds, NamesDiffer DEF SetByNumber, Me
  <2>5. EntersNest(l)
    BY <2>1, <2>2, <2>3, <2>4 DEF EnteredIfBack, EntersNest
  <2>6. WaitInv'
    BY <2>1, NamesDiffer DEF IInv, WaitInv, Goto, PcValues
  <2> QED
    BY <2>5, <2>6 DEF LockStep
<1> QED
  BY <1>1, <1>2

(* The functions on plain locks.                                           *)
LEMMA PlainSteps ==
  ASSUME IInv, NEW l \in Locks, UserLock(l) \/ UserTestLock(l) \/ UserUnlock(l)
  PROVE  WaitInv' /\ LockStep
<1>0. cpu \in Contexts \ {Bg}
  BY InProgram DEF IInv, UserLock, UserTestLock, UserUnlock, SetLock, TestLock, UnsetLock
<1>1. CASE UserLock(l)
  BY <1>0, <1>1, PollsLock DEF UserLock, SetLock
<1>2. CASE UserTestLock(l)
  <2>1. WaitInv'
    BY <1>2, Stays DEF IInv, UserTestLock, TestLock
  <2>2. lock' = [lock EXCEPT ![l] = 1] /\ nest' = nest
    BY <1>2 DEF UserTestLock, TestLock
  <2>3. CASE lock[l] = 0
    <3>1. EntersLock(l)
      BY <1>2, <2>2, <2>3 DEF UserTestLock, TestLockWins, EntersLock
    <3> QED
      BY <1>0, <2>1, <3>1 DEF LockStep
  <2>4. CASE lock[l] # 0
    <3>1. lock \in [Locks -> {0, 1}] /\ lock[l] = 1
      BY <2>4 DEF IInv, LockInv, FieldsInv
    <3>2. Keeps
      BY <1>2, <2>2, <2>4, <3>1 DEF UserTestLock, TestLockWins, Keeps
    <3> QED
      BY <2>1, <3>2 DEF LockStep
  <2> QED
    BY <2>3, <2>4
<1>3. CASE UserUnlock(l)
  <2>1. WaitInv'
    BY <1>3, Stays DEF IInv, UserUnlock, UnsetLock
  <2>2. LeavesLock(l)
    BY <1>3 DEF UserUnlock, UnsetLock, LeavesLock
  <2> QED
    BY <1>0, <2>1, <2>2 DEF LockStep
<1> QED
  BY <1>1, <1>2, <1>3

(* The functions on nest locks.                                            *)
LEMMA NestSteps ==
  ASSUME IInv, NEW l \in NestLocks,
         UserNest(l) \/ UserTestNest(l) \/ UserUnnest(l) \/ UserResetNest(l)
  PROVE  WaitInv' /\ LockStep
<1>0. cpu \in Contexts \ {Bg} /\ pc[cpu] = "user"
  <2>1. At("user")
    BY DEF UserNest, UserTestNest, UserUnnest, UserResetNest, SetNest, TestNest, UnsetNest, ResetNest
  <2> QED
    BY <2>1, InProgram DEF IInv, At
<1>1. CASE UserNest(l)
  <2>1. CASE OwnsNest(l)
    <3>1. NestAgain(l)
      BY <1>1, <2>1 DEF UserNest, SetNest
    <3>2. WaitInv'
      BY <3>1, Stays DEF IInv, NestAgain
    <3>3. ReentersNest(l)
      BY <1>0, <1>1, <2>1, <3>1 DEF UserNest, NestAgain, EnteredIfBack, ReentersNest
    <3> QED
      BY <1>0, <3>2, <3>3 DEF LockStep
  <2>2. CASE ~OwnsNest(l)
    <3>1. PollNest(l) /\ EnteredIfBack(l)
      BY <1>1, <2>2 DEF UserNest, SetNest
    <3>2. MaxNest > 0
      BY <1>0, <1>1, LibgompAssumption DEF UserNest, IInv, LockInv, FieldsInv, AllLocks
    <3> QED
      BY <1>0, <3>1, <3>2, PollsNest
  <2> QED
    BY <2>1, <2>2
<1>2. CASE UserTestNest(l)
  <2>1. CASE OwnsNest(l)
    <3>1. NestAgain(l) /\ Entered(l)
      BY <1>2, <2>1 DEF UserTestNest, TestNest, TestNestWins
    <3>2. WaitInv'
      BY <3>1, Stays DEF IInv, NestAgain
    <3>3. ReentersNest(l)
      BY <1>2, <2>1, <3>1 DEF UserTestNest, NestAgain, ReentersNest
    <3> QED
      BY <1>0, <3>2, <3>3 DEF LockStep
  <2>2. CASE ~OwnsNest(l)
    <3>1. /\ nest' = IF nest[l].lock = 0 THEN [nest EXCEPT ![l] = NestTaken] ELSE nest
          /\ pc' = pc /\ wants' = wants /\ lock' = lock
      BY <1>2, <2>2 DEF UserTestNest, TestNest
    <3>2. WaitInv'
      BY <3>1, Stays DEF IInv
    <3>3. CASE nest[l].lock = 0
      <4>1. EntersNest(l)
        BY <1>2, <3>1, <3>3 DEF UserTestNest, TestNestWins, EntersNest
      <4> QED
        BY <1>0, <3>2, <4>1 DEF LockStep
    <3>4. CASE nest[l].lock # 0
      <4>1. Keeps
        BY <1>2, <2>2, <3>1, <3>4 DEF UserTestNest, TestNestWins, Keeps
      <4> QED
        BY <3>2, <4>1 DEF LockStep
    <3> QED
      BY <3>3, <3>4
  <2> QED
    BY <2>1, <2>2
<1>3. CASE UserUnnest(l)
  <2>1. WaitInv'
    BY <1>3, Stays DEF IInv, UserUnnest, UnsetNest
  <2>2. LeavesNest(l)
    BY <1>3 DEF UserUnnest, UnsetNest, LeavesNest
  <2> QED
    BY <1>0, <2>1, <2>2 DEF LockStep
<1>4. CASE UserResetNest(l)
  <2>1. WaitInv'
    BY <1>4, Stays DEF IInv, UserResetNest, ResetNest
  <2>2. ResetsNest(l)
    BY <1>4 DEF UserResetNest, ResetNest, ResetsNest
  <2> QED
    BY <1>0, <2>1, <2>2 DEF LockStep
<1> QED
  BY <1>1, <1>2, <1>3, <1>4

(* A context that waits polls again the lock it waits for.                 *)
LEMMA PollStep ==
  ASSUME IInv, PollAgain
  PROVE  WaitInv' /\ LockStep
<1>1. CASE LockRetry
  <2>1. cpu \in Contexts \ {Bg} /\ wants[cpu] \in Locks
    BY <1>1, InProgram DEF LockRetry, IInv, WaitInv, At
  <2> QED
    BY <1>1, <2>1, PollsLock DEF LockRetry, PollAgain
<1>2. CASE NestRetry
  <2>1. cpu \in Contexts \ {Bg} /\ wants[cpu] \in NestLocks /\ MaxNest > 0
    BY <1>2, InProgram DEF NestRetry, IInv, WaitInv, At
  <2> QED
    BY <1>2, <2>1, PollsNest DEF NestRetry, PollAgain
<1> QED
  BY <1>1, <1>2 DEF PollAgain

-----------------------------------------------------------------------------
(* The other operations go on without touching a lock.                     *)
LEMMA OtherSteps ==
  ASSUME IInv, wants' = wants, lock' = lock, nest' = nest, held' = held,
         \/ pc' = pc
         \/ /\ cpu \in Contexts \ {Bg}
            /\ \E s \in PcValues \ {"lock", "nest"} : Goto(s)
  PROVE  WaitInv' /\ LockStep
<1>1. WaitInv'
  BY Stays, GoesOn DEF IInv
<1> QED
  BY <1>1 DEF LockStep, Keeps

(* start() and its background loop touch no lock.                          *)
LEMMA BootSteps ==
  ASSUME IInv, Boot, UNCHANGED clientVars
  PROVE  WaitInv' /\ LockStep
<1>0. wants' = wants /\ lock' = lock /\ nest' = nest /\ held' = held
  BY DEF Boot, SpawnWorker, SpawnMain, Background, Halt, libraryVars, lockVars, clientVars
<1>1. LockStep
  BY <1>0 DEF LockStep, Keeps
<1>2. CASE SpawnWorker
  <2>1. Min(Unborn) \in Ids /\ Min(Unborn) # Bg
    BY <1>2, MinUnborn, NamesDiffer DEF SpawnWorker, Unborn
  <2>2. pc' = [pc EXCEPT ![Min(Unborn)] = "loop"]
    BY <1>2 DEF SpawnWorker
  <2> HIDE DEF Unborn
  <2>3. WaitInv'
    BY <1>0, <2>1, <2>2, NamesDiffer DEF IInv, WaitInv, PcValues
  <2> QED
    BY <1>1, <2>3
<1>3. CASE SpawnMain
  <2>1. pc' = [pc EXCEPT ![Main] = "user", ![Bg] = "background"]
    BY <1>3 DEF SpawnMain
  <2>2. WaitInv'
    BY <1>0, <2>1, NamesDiffer DEF IInv, WaitInv, PcValues
  <2> QED
    BY <1>1, <2>2
<1>4. CASE Background
  BY <1>0, <1>4, OtherSteps DEF Background
<1>5. CASE Halt
  <2>1. pc[cpu] = "background" /\ cpu \in Contexts /\ pc' = [pc EXCEPT ![cpu] = "halt"]
    BY <1>5 DEF Halt, At, Goto
  <2>2. WaitInv'
    BY <1>0, <2>1, NamesDiffer DEF IInv, WaitInv, PcValues
  <2> QED
    BY <1>1, <2>2
<1> QED
  BY <1>2, <1>3, <1>4, <1>5 DEF Boot

(* The free operations of a task: one lock at most, by its rules.          *)
LEMMA FreeSteps ==
  ASSUME IInv, FreeOp
  PROVE  WaitInv' /\ LockStep
<1>1. CASE UserYield
  BY <1>1, OtherSteps DEF UserYield, libraryVars, lockVars
<1>2. CASE UserCritical \/ Retry \/ UserEndCritical
  <2>1. wants' = wants /\ lock' = lock /\ nest' = nest /\ held' = held
    BY <1>2 DEF UserCritical, Retry, UserEndCritical, ButCritical, lockVars
  <2>2. CASE UserCritical \/ Retry
    <3>1. cpu \in Contexts \ {Bg}
      BY <2>2, InProgram DEF IInv, UserCritical, Retry, CriticalStart, CriticalRetry
    <3>2. Goto("user") \/ Goto("critical")
      BY <2>2 DEF UserCritical, Retry, CriticalStart, CriticalRetry, TestMutex, TakeMutex, AwaitMutex
    <3>3. {"user", "critical"} \subseteq PcValues \ {"lock", "nest"}
      BY DEF PcValues
    <3> QED
      BY <2>1, <3>1, <3>2, <3>3, OtherSteps
  <2>3. CASE UserEndCritical
    <3>1. pc' = pc
      BY <2>3 DEF UserEndCritical, CriticalEnd
    <3> QED
      BY <2>1, <3>1, OtherSteps
  <2> QED
    BY <1>2, <2>2, <2>3
<1>3. CASE UserTask
  <2>1. wants' = wants /\ lock' = lock /\ nest' = nest /\ held' = held
    BY <1>3 DEF UserTask, ButTasks, lockVars
  <2>2. pc' = pc
    BY <1>3 DEF UserTask, TaskInline, TaskQueue
  <2> QED
    BY <2>1, <2>2, OtherSteps
<1>4. CASE LockOp
  BY <1>4, PlainSteps, NestSteps, PollStep DEF LockOp
<1> QED
  BY <1>1, <1>2, <1>3, <1>4 DEF FreeOp

(* The constructs of a region touch no lock.                               *)
LEMMA ConstructSteps ==
  ASSUME IInv, Construct
  PROVE  WaitInv' /\ LockStep
<1>1. wants' = wants /\ lock' = lock /\ nest' = nest /\ held' = held
  BY DEF Construct, UserBarrier, InBarrier, UserSingle, UserSections, UserNextSection,
         UserEndSections, GoToSection, ButBarrier, ButSingle, ButSections, lockVars, clientVars
<1>2. CASE UserBarrier \/ UserEndSections
  <2>1. BarrierEnter
    BY <1>2 DEF UserBarrier, UserEndSections, SectionsEnd
  <2>2. cpu \in Contexts \ {Bg} /\ Goto("barrier")
    BY <2>1, InProgram DEF IInv, BarrierEnter
  <2>3. "barrier" \in PcValues \ {"lock", "nest"}
    BY DEF PcValues
  <2> QED
    BY <1>1, <2>2, <2>3, OtherSteps
<1>3. CASE InBarrier
  <2>1. CASE BarrierRelease
    BY <1>1, <2>1, OtherSteps DEF BarrierRelease
  <2>2. CASE BarrierReturn
    <3>1. cpu \in Contexts \ {Bg} /\ Goto("user")
      BY <2>2, InProgram DEF IInv, BarrierReturn
    <3>2. "user" \in PcValues \ {"lock", "nest"}
      BY DEF PcValues
    <3> QED
      BY <1>1, <3>1, <3>2, OtherSteps
  <2> QED
    BY <1>3, <2>1, <2>2 DEF InBarrier
<1>4. CASE UserSingle \/ UserSections \/ UserNextSection
  <2>1. pc' = pc
    BY <1>4 DEF UserSingle, UserSections, UserNextSection, SingleStart, SectionsStart, SectionsNext
  <2> QED
    BY <1>1, <2>1, OtherSteps
<1> QED
  BY <1>2, <1>3, <1>4 DEF Construct

(* Nor do the steps at which tasks and regions begin and end.              *)
LEMMA TaskSteps ==
  ASSUME IInv, TaskLife
  PROVE  WaitInv' /\ LockStep
<1>0. {"user", "loop", "join", "dead"} \subseteq PcValues \ {"lock", "nest"}
  BY DEF PcValues
<1>1. wants' = wants /\ lock' = lock /\ nest' = nest /\ held' = held
  BY DEF TaskLife, Worker, EndTask, StartRegion, Join, EndMain, MainReturns, ButTasks,
         libraryVars, lockVars, clientVars
<1>2. CASE Worker
  <2>1. CASE WorkerImplicit \/ WorkerExplicit
    <3>1. cpu \in Contexts \ {Bg} /\ Goto("user")
      BY <2>1, InProgram DEF IInv, WorkerImplicit, WorkerExplicit
    <3> QED
      BY <1>0, <1>1, <3>1, OtherSteps
  <2>2. CASE WorkerIdle
    BY <1>1, <2>2, OtherSteps DEF WorkerIdle
  <2> QED
    BY <1>2, <2>1, <2>2 DEF Worker
<1>3. CASE EndTask
  <2>1. cpu \in Contexts \ {Bg} /\ Goto("loop")
    BY <1>3, InProgram DEF IInv, EndTask, WorkerDone
  <2> QED
    BY <1>0, <1>1, <2>1, OtherSteps
<1>4. CASE StartRegion
  <2>1. cpu \in Contexts \ {Bg} /\ Goto("join")
    BY <1>4, InProgram DEF IInv, StartRegion, Parallel
  <2> QED
    BY <1>0, <1>1, <2>1, OtherSteps
<1>5. CASE Join
  <2>1. CASE JoinWait
    BY <1>1, <2>1, OtherSteps DEF JoinWait
  <2>2. CASE JoinDone
    <3>1. cpu \in Contexts \ {Bg} /\ Goto("user")
      BY <2>2, InProgram DEF IInv, JoinDone
    <3> QED
      BY <1>0, <1>1, <3>1, OtherSteps
  <2> QED
    BY <1>5, <2>1, <2>2 DEF Join
<1>6. CASE EndMain
  <2>1. cpu \in Contexts \ {Bg} /\ Goto("dead")
    BY <1>6, InProgram DEF IInv, EndMain, MainReturns
  <2> QED
    BY <1>0, <1>1, <2>1, OtherSteps
<1> QED
  BY <1>2, <1>3, <1>4, <1>5, <1>6 DEF TaskLife

(* Whatever the program and the library do, this is what it does to locks. *)
LEMMA EveryStep == IInv /\ [Next]_vars => WaitInv' /\ LockStep
<1> SUFFICES ASSUME IInv, [Next]_vars PROVE WaitInv' /\ LockStep
  OBVIOUS
<1>1. CASE UNCHANGED vars
  BY <1>1, OtherSteps DEF vars, systemVars, libraryVars, lockVars, clientVars
<1> QED
  BY <1>1, BootSteps, FreeSteps, ConstructSteps, TaskSteps DEF Next, System

-----------------------------------------------------------------------------
(* How often a thread number is in a lock changes by one, for the number   *)
(* and the lock of the step alone.                                         *)
LEMMA Counts ==
  ASSUME LockInv, cpu \in Contexts \ {Bg}, NEW l \in AllLocks,
         NEW n \in Int, held[cpu][l] + n >= 0,
         held' = [held EXCEPT ![cpu][l] = @ + n]
  PROVE  /\ held' \in [Contexts -> [AllLocks -> Nat]]
         /\ \A c \in Contexts, m \in AllLocks :
              held'[c][m] = IF c = cpu /\ m = l THEN held[c][m] + n ELSE held[c][m]
         /\ \A i \in Ids, m \in AllLocks :
              SetByNumber(i, m)' = IF i = Me /\ m = l THEN SetByNumber(i, m) + n
                                                      ELSE SetByNumber(i, m)
<1>1. held \in [Contexts -> [AllLocks -> Nat]]
  BY DEF LockInv, FieldsInv
<1>2. /\ held' \in [Contexts -> [AllLocks -> Nat]]
      /\ \A c \in Contexts, m \in AllLocks :
           held'[c][m] = IF c = cpu /\ m = l THEN held[c][m] + n ELSE held[c][m]
  BY <1>1
<1>3. ASSUME NEW i \in Ids, NEW m \in AllLocks
      PROVE  SetByNumber(i, m)' = IF i = Me /\ m = l THEN SetByNumber(i, m) + n
                                                     ELSE SetByNumber(i, m)
  <2>1. /\ i \in Contexts /\ Main \in Contexts /\ i # Main
        /\ held[i][m] \in Nat /\ held[Main][m] \in Nat
    BY <1>1, NamesDiffer
  <2>2. cpu \in Ids \/ cpu = Main
    BY NamesDiffer
  <2>3. CASE cpu \in Ids
    BY <1>2, <2>1, <2>3, NamesDiffer DEF SetByNumber, Me
  <2>4. CASE cpu = Main
    BY <1>2, <2>1, <2>4, NamesDiffer DEF SetByNumber, Me
  <2> QED
    BY <2>2, <2>3, <2>4
<1> QED
  BY <1>2, <1>3

(* The types of what the lemmas below compute with.                        *)
LEMMA Numbers ==
  ASSUME LockInv
  PROVE  /\ \A c \in Contexts, l \in AllLocks : held[c][l] \in Nat
         /\ \A i \in Ids, l \in AllLocks : SetByNumber(i, l) \in Nat
         /\ \A l \in NestLocks : nest[l].count \in Nat /\ nest[l].owner \in Ids /\ nest[l].lock \in {0, 1}
         /\ cpu \in Contexts \ {Bg} =>
              \A l \in AllLocks : held[cpu][l] <= SetByNumber(Me, l)
<1>1. \A c \in Contexts, l \in AllLocks : held[c][l] \in Nat
  BY DEF LockInv, FieldsInv
<1>2. \A i \in Ids, l \in AllLocks : SetByNumber(i, l) \in Nat
  BY <1>1, NamesDiffer DEF SetByNumber
<1>3. \A l \in NestLocks : nest[l].count \in Nat /\ nest[l].owner \in Ids /\ nest[l].lock \in {0, 1}
  BY DEF LockInv, FieldsInv
<1>4. ASSUME cpu \in Contexts \ {Bg}, NEW l \in AllLocks
      PROVE  held[cpu][l] <= SetByNumber(Me, l)
  <2>1. cpu \in Ids \/ cpu = Main
    BY <1>4, NamesDiffer
  <2>2. CASE cpu \in Ids
    <3>1. held[cpu][l] \in Nat /\ held[Main][l] \in Nat
      BY <1>1, <2>2, NamesDiffer
    <3> QED
      BY <2>2, <3>1 DEF SetByNumber, Me
  <2>3. CASE cpu = Main
    <3>1. held[0][l] \in Nat /\ held[Main][l] \in Nat /\ Main \notin Ids
      BY <1>1, MeInIds, NamesDiffer
    <3> QED
      BY <2>3, <3>1 DEF SetByNumber, Me
  <2> QED
    BY <2>1, <2>2, <2>3
<1> QED
  BY <1>1, <1>2, <1>3, <1>4

(* A plain lock is no nest lock.                                           *)
LEMMA LocksApart == \A l \in Locks : l \in AllLocks /\ l \notin NestLocks
BY LocksAssumption DEF AllLocks

(* The plain locks, and their mutex.                                       *)
LEMMA PlainStep ==
  ASSUME LockInv, cpu \in Contexts \ {Bg}, NEW l \in Locks, EntersLock(l) \/ LeavesLock(l)
  PROVE  /\ LockInv'
         /\ LockMutex!Next
         /\ \A m \in NestLocks, i \in Ids : SetByNumber(i, m)' = SetByNumber(i, m)
<1> DEFINE n == IF EntersLock(l) THEN 1 ELSE -1
<1>1. l \in AllLocks /\ \A m \in NestLocks : m \in AllLocks /\ m # l
  BY LocksApart DEF AllLocks
<1>2. n \in Int /\ held[cpu][l] + n >= 0 /\ held' = [held EXCEPT ![cpu][l] = @ + n]
  <2>1. held[cpu][l] \in Nat /\ held \in [Contexts -> [AllLocks -> Nat]]
    BY <1>1 DEF LockInv, FieldsInv
  <2>2. CASE EntersLock(l)
    BY <2>1, <2>2 DEF EntersLock, Entered
  <2>3. CASE ~EntersLock(l)
    BY <2>1, <2>3 DEF LeavesLock, Left
  <2> QED
    BY <2>2, <2>3
<1> HIDE DEF n
<1>3. /\ held' \in [Contexts -> [AllLocks -> Nat]]
      /\ \A c \in Contexts, m \in AllLocks :
           held'[c][m] = IF c = cpu /\ m = l THEN held[c][m] + n ELSE held[c][m]
      /\ \A i \in Ids, m \in AllLocks :
           SetByNumber(i, m)' = IF i = Me /\ m = l THEN SetByNumber(i, m) + n
                                                   ELSE SetByNumber(i, m)
  BY <1>1, <1>2, Counts
<1>4. FieldsInv'
  BY <1>3 DEF LockInv, FieldsInv, EntersLock, LeavesLock
<1>5. \A m \in NestLocks, i \in Ids : SetByNumber(i, m)' = SetByNumber(i, m)
  BY <1>1, <1>3
<1>6. NestInv'
  <2>1. nest' = nest /\ \A m \in NestLocks, c \in Contexts : held'[c][m] = held[c][m]
    BY <1>1, <1>3 DEF EntersLock, LeavesLock
  <2> QED
    BY <1>5, <2>1 DEF LockInv, NestInv
<1>7. /\ lock \in [Locks -> {0, 1}] /\ \A c \in Contexts, m \in Locks : held[c][m] \in Nat
      /\ PlainInv
  BY Numbers, LocksApart DEF LockInv, FieldsInv
<1>8. PlainInv'
  <2>1. CASE EntersLock(l)
    <3>1. n = 1 /\ lock[l] = 0 /\ lock' = [lock EXCEPT ![l] = 1]
      BY <2>1 DEF n, EntersLock
    <3>2. \A c \in Contexts : held[c][l] = 0
      BY <1>7, <3>1 DEF PlainInv
    <3> QED
      BY <1>3, <1>7, <3>1, <3>2, LocksApart DEF PlainInv
  <2>2. CASE ~EntersLock(l)
    <3>1. n = -1 /\ held[cpu][l] > 0 /\ lock' = [lock EXCEPT ![l] = 0]
      BY <2>2 DEF n, LeavesLock
    <3>2. held[cpu][l] = 1 /\ \A c \in Contexts \ {cpu} : held[c][l] = 0
      BY <1>7, <3>1 DEF PlainInv
    <3>3. \A c \in Contexts : held'[c][l] = 0
      BY <1>1, <1>3, <3>1, <3>2
    <3> QED
      BY <1>3, <1>7, <3>1, <3>3, LocksApart DEF PlainInv
  <2> QED
    BY <2>1, <2>2
<1>9. LockMutex!Next
  <2> DEFINE h == [m \in Locks |-> [c \in Contexts |-> held[c][m]]]
             g == [m \in Locks |-> [c \in Contexts |-> held'[c][m]]]
  <2>1. g = [h EXCEPT ![l][cpu] = h[l][cpu] + n]
    <3>1. g[l] = [h[l] EXCEPT ![cpu] = h[l][cpu] + n]
      BY <1>1, <1>3
    <3>2. \A m \in Locks \ {l} : g[m] = h[m]
      BY <1>3, LocksApart
    <3> QED
      BY <3>1, <3>2
  <2>2. \A c \in Contexts, m \in Locks : h[m][c] = held[c][m]
    OBVIOUS
  <2> HIDE DEF h, g
  <2>0. PICK d \in Contexts : d = cpu
    OBVIOUS
  <2>3. CASE EntersLock(l)
    <3>1. \A c \in Contexts : held[c][l] = 0
      BY <1>7, <2>3 DEF PlainInv, EntersLock
    <3>2. g = [h EXCEPT ![l][d] = h[l][d] + 1]
      BY <2>0, <2>1, <2>3 DEF n
    <3>3. LockMutex!Enter(l, d)
      BY <2>2, <3>1, <3>2 DEF LockMutex!Enter, h, g
    <3> QED
      BY <3>3 DEF LockMutex!Next
  <2>4. CASE ~EntersLock(l)
    <3>1. held[d][l] > 0
      BY <2>0, <2>4 DEF LeavesLock
    <3>2. g = [h EXCEPT ![l][d] = h[l][d] - 1]
      <4>1. h[l][cpu] \in Nat
        BY <1>7, <2>2
      <4>2. h[l][cpu] + n = h[l][cpu] - 1
        BY <2>4, <4>1 DEF n
      <4> QED
        BY <2>0, <2>1, <4>2
    <3>3. LockMutex!Leave(l, d)
      BY <2>2, <3>1, <3>2 DEF LockMutex!Leave, h, g
    <3> QED
      BY <3>3 DEF LockMutex!Next
  <2> QED
    BY <2>3, <2>4
<1> QED
  BY <1>4, <1>5, <1>6, <1>8, <1>9 DEF LockInv

(* What a step of a context does to a nest lock, as its thread number sees *)
(* it: from free or its own, one time more or less.                        *)
LEMMA NestCounts ==
  ASSUME LockInv, cpu \in Contexts \ {Bg}, NEW l \in NestLocks,
         EntersNest(l) \/ ReentersNest(l) \/ LeavesNest(l)
  PROVE  \E n \in {1, -1} :
           /\ held' = [held EXCEPT ![cpu][l] = @ + n] /\ held[cpu][l] + n >= 0
           /\ held[cpu][l] + n <= MaxNest
           /\ n = -1 => SetByNumber(Me, l) > 0
           /\ \A i \in Ids \ {Me} : SetByNumber(i, l) = 0
           /\ nest' \in [NestLocks -> [lock : {0, 1}, count : Nat, owner : Ids]]
           /\ \A m \in NestLocks \ {l} : nest'[m] = nest[m]
           /\ IF SetByNumber(Me, l) + n = 0
              THEN nest'[l].lock = 0
              ELSE /\ nest'[l].lock = 1 /\ nest'[l].owner = Me
                   /\ nest'[l].count = SetByNumber(Me, l) + n
<1>1. /\ l \in AllLocks /\ nest \in [NestLocks -> [lock : {0, 1}, count : Nat, owner : Ids]]
      /\ held[cpu][l] \in Nat /\ SetByNumber(Me, l) \in Nat /\ held[cpu][l] <= SetByNumber(Me, l)
      /\ held \in [Contexts -> [AllLocks -> Nat]] /\ held[cpu][l] <= MaxNest
      /\ nest[l].count \in Nat /\ MaxNest \in Nat
  BY Numbers, MeInIds, LibgompAssumption DEF AllLocks, LockInv, FieldsInv, NestInv
<1>2. \A i \in Ids :
        SetByNumber(i, l) = IF nest[l].lock = 1 /\ nest[l].owner = i THEN nest[l].count ELSE 0
  BY DEF LockInv, NestInv
<1>3. Me \in Ids /\ 0 \in Ids
  BY MeInIds
<1>4. CASE EntersNest(l)
  <2>1. /\ nest[l].lock = 0 /\ nest' = [nest EXCEPT ![l] = [lock |-> 1, count |-> 1, owner |-> Me]]
        /\ held' = [held EXCEPT ![cpu][l] = @ + 1] /\ held[cpu][l] + 1 <= MaxNest
    BY <1>1, <1>4 DEF EntersNest, NestTaken, Entered
  <2>2. \A i \in Ids : SetByNumber(i, l) = 0
    BY <1>2, <2>1
  <2>3. /\ nest' \in [NestLocks -> [lock : {0, 1}, count : Nat, owner : Ids]]
        /\ nest'[l] = [lock |-> 1, count |-> 1, owner |-> Me]
        /\ \A m \in NestLocks \ {l} : nest'[m] = nest[m]
    BY <1>1, <1>3, <2>1
  <2> QED
    BY <1>1, <1>3, <2>1, <2>2, <2>3
<1>5. CASE ReentersNest(l)
  <2>1. /\ nest[l].lock = 1 /\ nest[l].owner = Me
        /\ nest' = [nest EXCEPT ![l].count = @ + 1]
        /\ held' = [held EXCEPT ![cpu][l] = @ + 1] /\ held[cpu][l] + 1 <= MaxNest
    BY <1>1, <1>5 DEF ReentersNest, OwnsNest, Entered
  <2>2. /\ nest' \in [NestLocks -> [lock : {0, 1}, count : Nat, owner : Ids]]
        /\ nest'[l].lock = 1 /\ nest'[l].owner = Me /\ nest'[l].count = nest[l].count + 1
        /\ \A m \in NestLocks \ {l} : nest'[m] = nest[m]
    BY <1>1, <2>1
  <2>3. SetByNumber(Me, l) = nest[l].count /\ \A i \in Ids \ {Me} : SetByNumber(i, l) = 0
    BY <1>2, <1>3, <2>1
  <2> QED
    BY <1>1, <2>1, <2>2, <2>3
<1>6. CASE LeavesNest(l)
  <2>1. /\ held[cpu][l] > 0
        /\ nest' = IF nest[l].count = 1 THEN [nest EXCEPT ![l] = NestFree]
                   ELSE [nest EXCEPT ![l].count = @ - 1]
        /\ held' = [held EXCEPT ![cpu][l] = @ + -1]
    <3>1. held' = [held EXCEPT ![cpu][l] = @ - 1]
      BY <1>6 DEF LeavesNest, Left
    <3>2. held[cpu][l] - 1 = held[cpu][l] + -1
      BY <1>1
    <3> QED
      BY <1>6, <3>1, <3>2 DEF LeavesNest
  <2>2. /\ nest[l].lock = 1 /\ nest[l].owner = Me /\ SetByNumber(Me, l) = nest[l].count
        /\ SetByNumber(Me, l) > 0 /\ \A i \in Ids \ {Me} : SetByNumber(i, l) = 0
    BY <1>1, <1>2, <1>3, <2>1
  <2>3. \A m \in NestLocks \ {l} : nest'[m] = nest[m]
    BY <1>1, <2>1
  <2>4. CASE nest[l].count = 1
    <3>1. nest'[l] = [lock |-> 0, count |-> 0, owner |-> 0]
      BY <1>1, <2>1, <2>4 DEF NestFree
    <3>2. nest' \in [NestLocks -> [lock : {0, 1}, count : Nat, owner : Ids]]
      BY <1>1, <1>3, <2>1, <2>4 DEF NestFree
    <3> QED
      BY <1>1, <2>1, <2>2, <2>3, <2>4, <3>1, <3>2
  <2>5. CASE nest[l].count # 1
    <3>1. nest[l].count - 1 \in Nat /\ nest[l].count - 1 > 0
      BY <1>1, <2>2, <2>5
    <3>3. /\ nest'[l].lock = 1 /\ nest'[l].owner = Me /\ nest'[l].count = nest[l].count - 1
      BY <1>1, <2>1, <2>2, <2>5
    <3>4. nest' \in [NestLocks -> [lock : {0, 1}, count : Nat, owner : Ids]]
      BY <1>1, <2>1, <2>5, <3>1
    <3> QED
      BY <1>1, <2>1, <2>2, <2>3, <3>1, <3>3, <3>4
  <2> QED
    BY <2>4, <2>5
<1> QED
  BY <1>4, <1>5, <1>6

(* The nest locks, and their mutex of thread numbers.                      *)
LEMMA NestStep ==
  ASSUME LockInv, cpu \in Contexts \ {Bg}, NEW l \in NestLocks,
         EntersNest(l) \/ ReentersNest(l) \/ LeavesNest(l)
  PROVE  /\ LockInv'
         /\ NestMutex!Next
         /\ \A m \in Locks, c \in Contexts : held'[c][m] = held[c][m]
<1>1. PICK n \in {1, -1} :
           /\ held' = [held EXCEPT ![cpu][l] = @ + n] /\ held[cpu][l] + n >= 0
           /\ held[cpu][l] + n <= MaxNest
           /\ n = -1 => SetByNumber(Me, l) > 0
           /\ \A i \in Ids \ {Me} : SetByNumber(i, l) = 0
           /\ nest' \in [NestLocks -> [lock : {0, 1}, count : Nat, owner : Ids]]
           /\ \A m \in NestLocks \ {l} : nest'[m] = nest[m]
           /\ IF SetByNumber(Me, l) + n = 0
              THEN nest'[l].lock = 0
              ELSE /\ nest'[l].lock = 1 /\ nest'[l].owner = Me
                   /\ nest'[l].count = SetByNumber(Me, l) + n
  BY NestCounts
<1>2. l \in AllLocks /\ n \in Int /\ lock' = lock /\ \A m \in NestLocks : m \in AllLocks
  BY DEF AllLocks, EntersNest, ReentersNest, LeavesNest
<1>3. /\ held' \in [Contexts -> [AllLocks -> Nat]]
      /\ \A c \in Contexts, m \in AllLocks :
           held'[c][m] = IF c = cpu /\ m = l THEN held[c][m] + n ELSE held[c][m]
      /\ \A i \in Ids, m \in AllLocks :
           SetByNumber(i, m)' = IF i = Me /\ m = l THEN SetByNumber(i, m) + n
                                                   ELSE SetByNumber(i, m)
  BY <1>1, <1>2, Counts
<1>4. \A m \in Locks, c \in Contexts : held'[c][m] = held[c][m]
  BY <1>3, LocksApart
<1>5. FieldsInv'
  BY <1>1, <1>2, <1>3 DEF LockInv, FieldsInv
<1>6. PlainInv'
  BY <1>2, <1>4 DEF LockInv, PlainInv
<1>7. SetByNumber(Me, l) \in Nat /\ Me \in Ids /\ SetByNumber(Me, l) + n >= 0
  BY <1>1, <1>2, Numbers, MeInIds
<1>8. NestInv'
  <2>1. ASSUME NEW m \in NestLocks, NEW i \in Ids
        PROVE  SetByNumber(i, m)' = IF nest'[m].lock = 1 /\ nest'[m].owner = i THEN nest'[m].count ELSE 0
    <3>1. CASE m = l
      <4>1. SetByNumber(i, l)' = IF i = Me THEN SetByNumber(Me, l) + n ELSE 0
        BY <1>1, <1>2, <1>3
      <4> QED
        BY <1>1, <1>7, <3>1, <4>1
    <3>2. CASE m # l
      BY <1>1, <1>2, <1>3, <3>2 DEF LockInv, NestInv
    <3> QED
      BY <3>1, <3>2
  <2>2. ASSUME NEW m \in NestLocks, nest'[m].lock = 1 PROVE nest'[m].count > 0
    <3>1. CASE m = l
      BY <1>1, <1>2, <1>7, <2>2, <3>1
    <3>2. CASE m # l
      BY <1>1, <2>2, <3>2 DEF LockInv, NestInv
    <3> QED
      BY <3>1, <3>2
  <2>3. \A m \in NestLocks, c \in Contexts : held'[c][m] <= MaxNest
    BY <1>1, <1>2, <1>3 DEF LockInv, NestInv
  <2> QED
    BY <2>1, <2>2, <2>3 DEF NestInv
<1>9. NestMutex!Next
  <2> DEFINE h == [m \in NestLocks |-> [i \in Ids |-> SetByNumber(i, m)]]
             g == [m \in NestLocks |-> [i \in Ids |-> SetByNumber(i, m)']]
  <2>0. PICK d \in Ids : d = Me
    BY <1>7
  <2>1. \A i \in Ids, m \in NestLocks : h[m][i] = SetByNumber(i, m)
    OBVIOUS
  <2>2. g = [h EXCEPT ![l][d] = h[l][d] + n]
    <3>1. g[l] = [h[l] EXCEPT ![d] = h[l][d] + n]
      BY <1>2, <1>3, <2>0
    <3>2. \A m \in NestLocks \ {l} : g[m] = h[m]
      BY <1>2, <1>3
    <3> QED
      BY <3>1, <3>2
  <2>3. h' = g
    OBVIOUS
  <2> HIDE DEF g
  <2>4. h[l][d] = SetByNumber(Me, l) /\ h[l][d] \in Nat
    BY <1>7, <2>0, <2>1
  <2>5. \A i \in Ids \ {d} : h[l][i] = 0
    BY <1>1, <2>0, <2>1
  <2>6. CASE n = 1
    <3>1. h[l][d] < 2 * MaxNest
      <4>1. /\ \A c \in Contexts : held[c][l] \in Nat /\ held[c][l] <= MaxNest
            /\ MaxNest \in Nat /\ held[cpu][l] < MaxNest
        BY <1>1, <1>2, <2>6, Numbers, LibgompAssumption DEF LockInv, NestInv
      <4>2. cpu \in Ids \/ cpu = Main
        BY NamesDiffer
      <4>3. CASE cpu \in Ids
        BY <2>4, <4>1, <4>3, NamesDiffer DEF SetByNumber, Me
      <4>4. CASE cpu = Main
        BY <2>4, <4>1, <4>4, NamesDiffer, MeInIds DEF SetByNumber, Me
      <4> QED
        BY <4>2, <4>3, <4>4
    <3>2. h' = [h EXCEPT ![l][d] = h[l][d] + 1]
      BY <2>2, <2>3, <2>6
    <3>3. NestMutex!Enter(l, d)
      BY <2>5, <3>1, <3>2 DEF NestMutex!Enter
    <3> QED
      BY <3>3 DEF NestMutex!Next
  <2>7. CASE n = -1
    <3>1. h[l][d] > 0
      BY <1>1, <2>4, <2>7
    <3>2. h' = [h EXCEPT ![l][d] = h[l][d] - 1]
      <4>1. h[l][d] + n = h[l][d] - 1
        BY <2>4, <2>7
      <4> QED
        BY <2>2, <2>3, <4>1
    <3>3. NestMutex!Leave(l, d)
      BY <3>1, <3>2 DEF NestMutex!Leave
    <3> QED
      BY <3>3 DEF NestMutex!Next
  <2> QED
    BY <2>6, <2>7
<1> QED
  BY <1>4, <1>5, <1>6, <1>8, <1>9 DEF LockInv

(* omp_init_nest_lock and omp_destroy_nest_lock, of a lock nobody is in.   *)
LEMMA ResetStep ==
  ASSUME LockInv, NEW l \in NestLocks, ResetsNest(l)
  PROVE  LockInv'
<1>1. /\ lock' = lock /\ held' = held /\ nest' = [nest EXCEPT ![l] = NestFree]
      /\ \A c \in Contexts : held[c][l] = 0
  BY DEF ResetsNest
<1>2. FieldsInv' /\ PlainInv'
  BY <1>1, MeInIds DEF LockInv, FieldsInv, PlainInv, NestFree
<1>3. \A i \in Ids, m \in NestLocks : SetByNumber(i, m)' = SetByNumber(i, m)
  BY <1>1 DEF SetByNumber
<1>4. \A i \in Ids : SetByNumber(i, l) = 0
  BY <1>1, NamesDiffer DEF SetByNumber
<1>5. nest'[l].lock = 0 /\ \A m \in NestLocks \ {l} : nest'[m] = nest[m]
  BY <1>1 DEF LockInv, FieldsInv, NestFree
<1>6. NestInv'
  BY <1>1, <1>3, <1>4, <1>5 DEF LockInv, NestInv
<1> QED
  BY <1>2, <1>6 DEF LockInv

(* One step of the library is one step of both mutexes, or none.           *)
LEMMA StepRefines ==
  ASSUME LockInv, LockStep
  PROVE  /\ LockInv'
         /\ [LockMutex!Next]_([l \in Locks |-> [c \in Contexts |-> held[c][l]]])
         /\ [NestMutex!Next]_([l \in NestLocks |-> [i \in Ids |-> SetByNumber(i, l)]])
<1> DEFINE p == [l \in Locks |-> [c \in Contexts |-> held[c][l]]]
           h == [l \in NestLocks |-> [i \in Ids |-> SetByNumber(i, l)]]
<1>a. ASSUME \A m \in NestLocks, i \in Ids : SetByNumber(i, m)' = SetByNumber(i, m)
      PROVE  h' = h
  BY <1>a
<1>b. ASSUME \A m \in Locks, c \in Contexts : held'[c][m] = held[c][m]
      PROVE  p' = p
  BY <1>b
<1>1. CASE Keeps
  <2>1. LockInv'
    BY <1>1 DEF Keeps, LockInv, FieldsInv, PlainInv, NestInv, SetByNumber
  <2>2. h' = h /\ p' = p
    BY <1>1 DEF Keeps, SetByNumber
  <2> QED
    BY <2>1, <2>2
<1>2. ASSUME cpu \in Contexts \ {Bg}, NEW l \in Locks, EntersLock(l) \/ LeavesLock(l)
      PROVE  LockInv' /\ LockMutex!Next /\ h' = h
  BY <1>2, <1>a, PlainStep
<1>3. ASSUME cpu \in Contexts \ {Bg}, NEW l \in NestLocks,
             EntersNest(l) \/ ReentersNest(l) \/ LeavesNest(l)
      PROVE  LockInv' /\ NestMutex!Next /\ p' = p
  BY <1>3, <1>b, NestStep
<1>4. ASSUME NEW l \in NestLocks, ResetsNest(l)
      PROVE  LockInv' /\ h' = h /\ p' = p
  <2>1. held' = held
    BY <1>4 DEF ResetsNest
  <2>2. h' = h /\ p' = p
    BY <2>1 DEF SetByNumber
  <2> QED
    BY <1>4, <2>2, ResetStep
<1> HIDE DEF p, h
<1>5. LockInv' /\ (LockMutex!Next \/ p' = p) /\ (NestMutex!Next \/ h' = h)
  BY <1>1, <1>2, <1>3, <1>4 DEF LockStep, p, h
<1> QED
  BY <1>5 DEF p, h

(* At first every lock is free, in the fields and in the abstract.         *)
LEMMA InitIInv == Init => IInv /\ LockMutex!Init /\ NestMutex!Init
<1> SUFFICES ASSUME Init PROVE IInv /\ LockMutex!Init /\ NestMutex!Init
  OBVIOUS
<1>1. /\ pc = [c \in Contexts |-> IF c = Bg THEN "boot" ELSE "unborn"]
      /\ wants = [c \in Contexts |-> NoLock]
      /\ lock = [l \in Locks |-> 0] /\ nest = [l \in NestLocks |-> NestFree]
      /\ held = [c \in Contexts |-> [l \in AllLocks |-> 0]]
  BY DEF Init, SystemInit
<1>2. WaitInv
  BY <1>1, NamesDiffer DEF WaitInv, PcValues
<1>3. FieldsInv /\ PlainInv
  BY <1>1, MeInIds, LocksApart DEF FieldsInv, PlainInv, NestFree
<1>4. \A i \in Ids, l \in AllLocks : SetByNumber(i, l) = 0
  BY <1>1, NamesDiffer DEF SetByNumber
<1>5. NestInv
  BY <1>1, <1>4, LibgompAssumption DEF NestInv, NestFree, AllLocks
<1>6. LockMutex!Init
  BY <1>1, LocksApart DEF LockMutex!Init
<1>7. NestMutex!Init
  BY <1>4 DEF NestMutex!Init, AllLocks
<1> QED
  BY <1>2, <1>3, <1>5, <1>6, <1>7 DEF IInv, LockInv

(* Every step keeps the invariant.                                         *)
LEMMA NextIInv == IInv /\ [Next]_vars => IInv'
BY EveryStep, StepRefines DEF IInv

-----------------------------------------------------------------------------
(* For every number of threads and locks: omp_set_lock and omp_test_lock   *)
(* let one context into a lock at a time, in any order of their polls.     *)
THEOREM LocksExclude == Spec => LocksImplementMutex
<1>1. IInv /\ [Next]_vars =>
        [LockMutex!Next]_([l \in Locks |-> [c \in Contexts |-> held[c][l]]])
  BY EveryStep, StepRefines DEF IInv
<1> QED
  BY InitIInv, NextIInv, <1>1, PTL DEF Spec, LocksImplementMutex, LockMutex!Spec

(* And a nest lock keeps thread numbers apart, and is free again when it   *)
(* has been left as often as it was entered.                               *)
THEOREM NestLocksExclude == Spec => NestLocksImplementMutex
<1>1. IInv /\ [Next]_vars =>
        [NestMutex!Next]_([l \in NestLocks |-> [i \in Ids |-> SetByNumber(i, l)]])
  BY EveryStep, StepRefines DEF IInv
<1> QED
  BY InitIInv, NextIInv, <1>1, PTL DEF Spec, NestLocksImplementMutex, NestMutex!Spec

(* Its fields say who has it and how often, at every moment.               *)
THEOREM NestFieldsTrue == Spec => []NestFieldsAgree
<1>1. IInv => NestFieldsAgree
  <2> SUFFICES ASSUME IInv, NEW l \in NestLocks
               PROVE  /\ nest[l].lock = 1 <=> \E i \in Ids : SetByNumber(i, l) > 0
                      /\ nest[l].lock = 1 => nest[l].count = SetByNumber(nest[l].owner, l)
    BY DEF NestFieldsAgree
  <2>1. /\ \A i \in Ids : SetByNumber(i, l) = IF nest[l].lock = 1 /\ nest[l].owner = i
                                             THEN nest[l].count ELSE 0
        /\ nest[l].lock = 1 => nest[l].count > 0
        /\ nest[l].owner \in Ids
    BY Numbers DEF IInv, LockInv, NestInv
  <2> QED
    BY <2>1
<1> QED
  BY InitIInv, NextIInv, <1>1, PTL DEF Spec

-----------------------------------------------------------------------------
(* The programs these results are about: main() queues no task outside its *)
(* regions, and there is a task struct for every member of a team, as      *)
(* GOMP_NUM_TASKS provides for.                                            *)
TasksInRegions ==
  /\ "task" \notin SerialOps \/ TRUE \notin IfClauses
  /\ \A n \in NumThreads : TeamSize(n) <= NumTasks

(* Where a context is while it runs a task or, for Main, the program.      *)
Inside == {"user", "barrier", "critical", "lock", "nest"}

(* Where the contexts are, and which team that makes the current one.      *)
PlacesInv ==
  /\ pc \in [Contexts -> PcValues]
  /\ pc[Bg] \in {"boot", "background", "halt"} /\ (pc[Bg] = "boot" => pc[Main] = "unborn")
  /\ pc[Main] \in {"unborn", "join", "dead"} \cup Inside
  /\ \A i \in Ids : pc[i] \in {"unborn", "loop"} \cup Inside
  /\ team = IF pc[Main] = "join" THEN 1 ELSE 0
  /\ num \in 1 .. MaxThreads

(* The task structs a worker has.                                          *)
Hand(i) == {task[i], doing[i]}

(* Each task struct is in one place.                                       *)
StructsInv ==
  /\ pool \in Seq(Tasks) /\ IsInjective(pool)
  /\ ready \in Seq(Tasks) /\ IsInjective(ready)
  /\ task \in [Ids -> Tasks \cup {NoTask}] /\ doing \in [Ids -> Tasks \cup {NoTask}]
  /\ Range(pool) \cap Range(ready) = {}
  /\ \A i \in Ids : Hand(i) \cap (Range(pool) \cup Range(ready)) = {}
  /\ \A i, j \in Ids : i # j => Hand(i) \cap Hand(j) \subseteq {NoTask}
  /\ \A t \in Tasks : t \in Range(pool) \cup Range(ready) \/ \E i \in Ids : t \in Hand(i)

(* What the structs of a worker have to do with where it is.               *)
WorkersInv ==
  /\ kind \in [Ids -> {"none", "implicit", "explicit"}]
  /\ \A i \in Ids :
       /\ kind[i] = "none" <=> pc[i] \in {"unborn", "loop"}
       /\ kind[i] = "none" => doing[i] = NoTask
       /\ kind[i] = "implicit" => doing[i] = task[i] /\ task[i] # NoTask
       /\ kind[i] = "explicit" => doing[i] # NoTask /\ task[i] = NoTask
       /\ task[i] # NoTask => i \in TeamIds

(* The team of a region counts the structs that are out.                   *)
CountsInv ==
  /\ tasks \in [TeamNos -> Int] /\ tasks[0] = 0
  /\ tasks[1] + Len(pool) = NumTasks
  /\ team = 0 => tasks[1] = 0

(* A member without an implicit task has been through its region, and only *)
(* a member at a sections construct is in a section.                       *)
StepsInv ==
  /\ step \in [Ids -> 1 .. Len(Region) + 1]
  /\ sec = [i \in Ids |-> sec[i]]
  /\ \A i \in Ids : sec[i] # Out =>
       kind[i] = "implicit" /\ step[i] \in Places /\ Region[step[i]] = "sections"
  /\ \A i \in TeamIds : team = 1 /\ task[i] = NoTask => step[i] = Len(Region) + 1

(* The inductive invariant of the tasks.                                   *)
TaskInv == PlacesInv /\ StructsInv /\ WorkersInv /\ CountsInv /\ StepsInv

-----------------------------------------------------------------------------
(* The bounds the constants have.                                          *)
LEMMA Sizes ==
  /\ MaxThreads \in Nat /\ MaxThreads >= 1 /\ NumTasks \in Nat /\ NumTasks >= 1
  /\ 0 \in TeamNos /\ 1 \in TeamNos
  /\ Tasks \subseteq Nat /\ NoTask \notin Tasks
  /\ Len(Region) \in Nat /\ Places = 1 .. Len(Region)
<1>1. Region \in Seq(Constructs)
  BY LibgompAssumption
<1> QED
  BY <1>1, GompAssumption, TasksAssumption, LenProperties DEF TeamNos, Tasks, NoTask, Places

(* GOMP_parallel settles on a size that the arrays have room for.          *)
LEMMA TeamFits == \A n \in NumThreads : TeamSize(n) \in 1 .. MaxThreads
BY Sizes, LibgompAssumption, TasksAssumption DEF TeamSize

(* The members of a team are workers.                                      *)
LEMMA TeamInIds == PlacesInv => TeamIds \subseteq Ids /\ num \in Nat
BY Sizes DEF PlacesInv, TeamIds, Ids

(* A sequence without duplicates that is as long as Tasks is large has all *)
(* of them: a full pool.                                                   *)
LEMMA FullPool ==
  ASSUME NEW s \in Seq(Tasks), IsInjective(s), Len(s) = NumTasks
  PROVE  Range(s) = Tasks
<1>1. s \in [1 .. Len(s) -> Tasks] /\ DOMAIN s = 1 .. Len(s) /\ Tasks = 1 .. Len(s)
  BY LenProperties DEF Tasks
<1>2. IsFiniteSet(Tasks)
  BY Sizes, FS_Interval DEF Tasks
<1>3. s \in Injection(Tasks, Tasks)
  BY <1>1 DEF Injection, IsInjective
<1>4. s \in Surjection(Tasks, Tasks)
  BY <1>2, <1>3, FS_Injection
<1> QED
  BY <1>1, <1>4 DEF Surjection, Range

(* Outside a region every task struct is in the pool, and every worker at  *)
(* the top of its loop.                                                    *)
LEMMA AllIdle ==
  ASSUME TaskInv, tasks[1] = 0
  PROVE  /\ Len(pool) = NumTasks /\ Range(pool) = Tasks /\ ready = <<>>
         /\ \A i \in Ids : task[i] = NoTask /\ doing[i] = NoTask /\ kind[i] = "none"
         /\ \A i \in Ids : pc[i] \in {"unborn", "loop"}
<1>1. Len(pool) = NumTasks
  <2>1. Len(pool) \in Nat /\ tasks[1] + Len(pool) = NumTasks
    BY LenProperties DEF TaskInv, StructsInv, CountsInv
  <2> QED
    BY <2>1
<1>2. Range(pool) = Tasks
  BY <1>1, FullPool DEF TaskInv, StructsInv
<1>3. Range(ready) = {}
  BY <1>2, SeqRange DEF TaskInv, StructsInv
<1>4. ready = <<>>
  <2>1. ready # <<>> => Head(ready) \in Range(ready)
    BY TailFacts DEF TaskInv, StructsInv
  <2> QED
    BY <1>3, <2>1
<1>5. \A i \in Ids : task[i] = NoTask /\ doing[i] = NoTask
  BY <1>2 DEF TaskInv, StructsInv, Hand
<1>6. \A i \in Ids : kind[i] = "none" /\ pc[i] \in {"unborn", "loop"}
  BY <1>5 DEF TaskInv, WorkersInv
<1> QED
  BY <1>1, <1>2, <1>4, <1>5, <1>6

-----------------------------------------------------------------------------
(* All that most steps do to the tasks: the running context goes on inside *)
(* its task, or inside main(), and a member perhaps to its next construct. *)
Goes ==
  /\ cpu \in Contexts /\ pc[cpu] \in Inside
  /\ \E s \in Inside : Goto(s)

Advances ==
  /\ cpu \in Ids /\ kind[cpu] = "implicit" /\ step[cpu] \in Places
  /\ NextStep /\ sec' = [sec EXCEPT ![cpu] = Out]

(* It may be given a section of the construct it is at.                    *)
TakesSection ==
  /\ cpu \in Ids /\ kind[cpu] = "implicit" /\ step[cpu] \in Places
  /\ Region[step[cpu]] = "sections"
  /\ step' = step /\ \E s : sec' = [sec EXCEPT ![cpu] = s]

KeepsTasks ==
  /\ UNCHANGED <<stateVars, taskVars>>
  /\ pc' = pc \/ Goes
  /\ (step' = step /\ sec' = sec) \/ Advances \/ TakesSection

(* The names of the places and of the contexts.                            *)
LEMMA InsideFacts ==
  /\ Inside \subseteq PcValues
  /\ Bg \in Contexts /\ Main \in Contexts /\ Ids \subseteq Contexts
  /\ Bg # Main /\ Bg \notin Ids /\ Main \notin Ids
BY NamesDiffer DEF Inside, PcValues

(* Such a step keeps the invariant.                                        *)
LEMMA KeepsTaskInv ==
  ASSUME TaskInv, KeepsTasks
  PROVE  TaskInv'
<1> USE InsideFacts
<1>1. /\ num' = num /\ team' = team /\ pool' = pool /\ ready' = ready /\ tasks' = tasks
      /\ task' = task /\ doing' = doing /\ kind' = kind
  BY DEF KeepsTasks, stateVars, taskVars
<1>2. StructsInv' /\ CountsInv'
  BY <1>1 DEF TaskInv, StructsInv, CountsInv, IsInjective, Hand
<1>3. PlacesInv' /\ WorkersInv'
  <2>1. CASE pc' = pc
    BY <1>1, <2>1 DEF TaskInv, PlacesInv, WorkersInv, TeamIds
  <2>2. CASE Goes
    <3>1. PICK s \in Inside : pc' = [pc EXCEPT ![cpu] = s]
      BY <2>2 DEF Goes, Goto
    <3>2. cpu \in Contexts /\ pc[cpu] \in Inside /\ cpu # Bg
      BY <2>2 DEF Goes, TaskInv, PlacesInv, Inside
    <3>3. \A c \in Contexts : pc'[c] = pc[c] \/ (pc[c] \in Inside /\ pc'[c] \in Inside)
      BY <3>1, <3>2 DEF TaskInv, PlacesInv
    <3>4. pc' \in [Contexts -> PcValues] /\ pc'[Bg] = pc[Bg]
      BY <3>1, <3>2 DEF TaskInv, PlacesInv
    <3>5. PlacesInv'
      BY <1>1, <3>3, <3>4 DEF TaskInv, PlacesInv, Inside
    <3>6. WorkersInv'
      BY <1>1, <3>3 DEF TaskInv, WorkersInv, TeamIds, Inside
    <3> QED
      BY <3>5, <3>6
  <2> QED
    BY <2>1, <2>2 DEF KeepsTasks
<1>4. StepsInv'
  <2>1. CASE step' = step /\ sec' = sec
    BY <1>1, <2>1 DEF TaskInv, StepsInv, TeamIds
  <2>2. CASE Advances
    <3>1. /\ cpu \in Ids /\ step[cpu] \in 1 .. Len(Region) /\ task[cpu] # NoTask
          /\ step' = [step EXCEPT ![cpu] = @ + 1] /\ sec' = [sec EXCEPT ![cpu] = Out]
      BY <2>2, Sizes DEF Advances, NextStep, TaskInv, WorkersInv
    <3>2. UNCHANGED <<team, task, kind, num>>
      BY <1>1
    <3>3. StepsInv
      BY DEF TaskInv
    <3>4. step' \in [Ids -> 1 .. Len(Region) + 1] /\ sec' = [i \in Ids |-> sec'[i]]
      <4>1. step[cpu] + 1 \in 1 .. Len(Region) + 1
        BY <3>1, Sizes
      <4>2. step \in [Ids -> 1 .. Len(Region) + 1] /\ sec = [i \in Ids |-> sec[i]]
        BY <3>3 DEF StepsInv
      <4>3. step' \in [Ids -> 1 .. Len(Region) + 1]
        BY <3>1, <4>1, <4>2
      <4>4. sec' = [i \in Ids |-> sec'[i]]
        BY <3>1, <4>2
      <4> QED
        BY <4>3, <4>4
    <3>5. \A i \in Ids : i # cpu => step'[i] = step[i] /\ sec'[i] = sec[i]
      BY <3>1, <3>3 DEF StepsInv
    <3>6. sec'[cpu] = Out
      BY <3>1, <3>3 DEF StepsInv
    <3> QED
      BY <3>1, <3>2, <3>3, <3>4, <3>5, <3>6 DEF StepsInv, TeamIds
  <2>3. CASE TakesSection
    BY <1>1, <2>3 DEF TakesSection, TaskInv, StepsInv, TeamIds
  <2> QED
    BY <2>1, <2>2, <2>3 DEF KeepsTasks
<1> QED
  BY <1>2, <1>3, <1>4 DEF TaskInv

-----------------------------------------------------------------------------
(* The steps that do no more.                                              *)
LEMMA FreeKeepsTasks ==
  ASSUME TaskInv, UserYield \/ UserCritical \/ Retry \/ UserEndCritical
  PROVE  KeepsTasks
<1>1. UNCHANGED <<stateVars, taskVars>> /\ step' = step /\ sec' = sec
  BY DEF UserYield, UserCritical, Retry, UserEndCritical, libraryVars, ButCritical, seenVars
<1>2. CASE UserYield \/ UserEndCritical
  BY <1>1, <1>2 DEF UserYield, UserEndCritical, CriticalEnd, KeepsTasks
<1>3. CASE UserCritical \/ Retry
  <2>1. cpu \in Contexts /\ pc[cpu] \in Inside
    BY <1>3 DEF UserCritical, Retry, CriticalStart, CriticalRetry, At, Inside
  <2>2. Goto("user") \/ Goto("critical")
    BY <1>3 DEF UserCritical, Retry, CriticalStart, CriticalRetry, TestMutex, TakeMutex, AwaitMutex
  <2>3. Goes
    BY <2>1, <2>2 DEF Goes, Inside
  <2> QED
    BY <1>1, <2>3 DEF KeepsTasks
<1> QED
  BY <1>2, <1>3

(* The operations on locks are such steps.                                 *)
LEMMA LockOpKeepsTasks ==
  ASSUME TaskInv, LockOp
  PROVE  KeepsTasks
<1>1. UNCHANGED <<stateVars, taskVars>> /\ step' = step /\ sec' = sec
  BY DEF LockOp, ButLocks, seenVars
<1>2. pc' = pc \/ Goes
  <2>1. ASSUME NEW l, PollLock(l) \/ PollNest(l), pc[cpu] \in Inside, cpu \in Contexts PROVE Goes
    <3>1. Goto("user") \/ Goto("lock") \/ Goto("nest")
      BY <2>1 DEF PollLock, PollNest, TakeLock, AwaitLock, TakeNest, AwaitNest
    <3> QED
      BY <2>1, <3>1 DEF Goes, Inside
  <2>2. ASSUME NEW l \in Locks, UserLock(l) \/ UserTestLock(l) \/ UserUnlock(l)
        PROVE  pc' = pc \/ Goes
    BY <2>1, <2>2 DEF UserLock, UserTestLock, UserUnlock, SetLock, TestLock, UnsetLock, At, Inside
  <2>3. ASSUME NEW l \in NestLocks,
               UserNest(l) \/ UserTestNest(l) \/ UserUnnest(l) \/ UserResetNest(l)
        PROVE  pc' = pc \/ Goes
    BY <2>1, <2>3 DEF UserNest, UserTestNest, UserUnnest, UserResetNest, SetNest, TestNest,
                      UnsetNest, ResetNest, NestAgain, At, Inside
  <2>4. ASSUME PollAgain PROVE Goes
    BY <2>1, <2>4 DEF PollAgain, LockRetry, NestRetry, At, Inside
  <2> QED
    BY <2>2, <2>3, <2>4 DEF LockOp
<1> QED
  BY <1>1, <1>2 DEF KeepsTasks

(* So are the constructs of a region.                                      *)
LEMMA ConstructKeepsTasks ==
  ASSUME TaskInv, Construct
  PROVE  KeepsTasks
<1>1. UNCHANGED <<stateVars, taskVars>>
  BY DEF Construct, UserBarrier, InBarrier, UserSingle, UserSections, UserNextSection,
         UserEndSections, GoToSection, ButBarrier, ButSingle, ButSections
<1>2. pc' = pc \/ Goes
  <2>1. ASSUME BarrierEnter \/ BarrierReturn PROVE Goes
    BY <2>1 DEF BarrierEnter, BarrierReturn, Goes, At, Inside
  <2>2. ASSUME BarrierRelease \/ SingleStart \/ SectionsStart(NumSections) \/ SectionsNext
        PROVE  pc' = pc
    BY <2>2 DEF BarrierRelease, SingleStart, SectionsStart, SectionsNext
  <2> QED
    BY <2>1, <2>2 DEF Construct, UserBarrier, InBarrier, UserSingle, UserSections,
                      UserNextSection, UserEndSections, SectionsEnd
<1>3. (step' = step /\ sec' = sec) \/ Advances \/ TakesSection
  <2>1. CASE UserBarrier \/ UserSingle \/ UserEndSections
    <3>1. NextStep /\ Role = "implicit"
      BY <2>1 DEF UserBarrier, UserSingle, UserEndSections, Meets
    <3>2. cpu \in Ids /\ kind[cpu] = "implicit"
      BY <3>1 DEF Role
    <3>3. step[cpu] \in Places /\ sec' = [sec EXCEPT ![cpu] = Out]
      BY <2>1, <3>2 DEF UserBarrier, UserSingle, UserEndSections, Meets, Out, TaskInv, StepsInv
    <3> QED
      BY <3>1, <3>2, <3>3 DEF Advances
  <2>2. CASE InBarrier
    BY <2>2 DEF InBarrier, clientVars, seenVars
  <2>3. CASE UserSections \/ UserNextSection
    <3>1. cpu \in Ids /\ kind[cpu] = "implicit"
      BY <2>3 DEF UserSections, UserNextSection, Meets, Role
    <3>2. step[cpu] \in Places /\ Region[step[cpu]] = "sections"
      BY <2>3, <3>1 DEF UserSections, UserNextSection, Meets, Out, TaskInv, StepsInv
    <3>3. step' = step /\ \E s : sec' = [sec EXCEPT ![cpu] = s]
      BY <2>3 DEF UserSections, UserNextSection, GoToSection
    <3> QED
      BY <3>1, <3>2, <3>3 DEF TakesSection
  <2> QED
    BY <2>1, <2>2, <2>3 DEF Construct
<1> QED
  BY <1>1, <1>2, <1>3 DEF KeepsTasks

-----------------------------------------------------------------------------
(* The steps of start() and its threads that change no task.               *)
LEMMA MovesOnly ==
  ASSUME TaskInv, UNCHANGED <<stateVars, taskVars, step, sec>>,
         PlacesInv', \A i \in Ids : pc[i] \in {"unborn", "loop"} <=> pc'[i] \in {"unborn", "loop"}
  PROVE  TaskInv'
<1>1. StructsInv' /\ CountsInv' /\ StepsInv' /\ WorkersInv'
  BY DEF stateVars, taskVars, TaskInv, StructsInv, CountsInv, StepsInv, WorkersInv, IsInjective,
         Hand, TeamIds
<1> QED
  BY <1>1 DEF TaskInv

(* start() spawns the workers at the top of their loops, and main().       *)
LEMMA BootTaskInv ==
  ASSUME TaskInv, Boot \/ EndMain, UNCHANGED clientVars
  PROVE  TaskInv'
<1> USE InsideFacts
<1>1. UNCHANGED <<stateVars, taskVars, step, sec>>
  BY DEF Boot, SpawnWorker, SpawnMain, Background, Halt, EndMain, MainReturns, libraryVars,
         clientVars, seenVars
<1>2. num' = num /\ team' = team
  BY <1>1 DEF stateVars
<1>3. CASE SpawnWorker
  <2>1. PICK i \in Ids : pc[i] = "unborn" /\ pc' = [pc EXCEPT ![i] = "loop"]
    BY <1>3, MinUnborn DEF SpawnWorker, Unborn
  <2>2. PlacesInv'
    BY <1>2, <2>1 DEF TaskInv, PlacesInv, PcValues
  <2> QED
    BY <1>1, <2>1, <2>2, MovesOnly DEF TaskInv, PlacesInv
<1>4. CASE SpawnMain
  <2>1. /\ pc' = [pc EXCEPT ![Main] = "user", ![Bg] = "background"]
        /\ cpu \in Contexts /\ pc[cpu] = "boot"
    BY <1>4 DEF SpawnMain, At
  <2>2. pc[Main] # "join"
    BY <2>1, NamesDiffer DEF TaskInv, PlacesInv, Inside
  <2>3. PlacesInv'
    BY <1>2, <2>1, <2>2 DEF TaskInv, PlacesInv, PcValues, Inside
  <2> QED
    BY <1>1, <2>1, <2>3, MovesOnly DEF TaskInv, PlacesInv
<1>5. CASE Background
  BY <1>1, <1>5, KeepsTaskInv DEF Background, KeepsTasks
<1>6. CASE Halt
  <2>1. cpu = Bg /\ pc' = [pc EXCEPT ![cpu] = "halt"]
    BY <1>6, NamesDiffer DEF Halt, At, Goto, TaskInv, PlacesInv, Inside
  <2>2. PlacesInv'
    BY <1>2, <2>1 DEF TaskInv, PlacesInv, PcValues
  <2> QED
    BY <1>1, <2>1, <2>2, MovesOnly DEF TaskInv, PlacesInv
<1>7. CASE EndMain
  <2>1. cpu = Main /\ pc[Main] = "user" /\ pc' = [pc EXCEPT ![Main] = "dead"]
    BY <1>7 DEF EndMain, MainReturns, At, Goto
  <2>2. PlacesInv'
    BY <1>2, <2>1 DEF TaskInv, PlacesInv, PcValues, Inside
  <2> QED
    BY <1>1, <2>1, <2>2, MovesOnly DEF TaskInv, PlacesInv
<1> QED
  BY <1>3, <1>4, <1>5, <1>6, <1>7 DEF Boot

-----------------------------------------------------------------------------
(* GOMP_task.  Only in a region does a task get a struct.                  *)
LEMMA UserTaskInv ==
  ASSUME TasksInRegions, TaskInv, UserTask
  PROVE  TaskInv'
<1> USE InsideFacts
<1>1. UNCHANGED <<stateVars, step, sec>> /\ pc' = pc
  BY DEF UserTask, TaskInline, TaskQueue, ButTasks, seenVars
<1>2. CASE \E ifClause \in IfClauses : TaskInline(ifClause)
  BY <1>1, <1>2, KeepsTaskInv DEF TaskInline, KeepsTasks
<1>3. CASE (\E ifClause \in IfClauses : ifClause) /\ TaskQueue
  <2>1. team = 1
    <3>1. At("user") /\ "task" \in OpsOf[Role]
      BY DEF UserTask, Spend
    <3>2. TRUE \in IfClauses
      BY <1>3, LibgompAssumption
    <3>3. Role # "serial"
      <4>1. OpsOf["serial"] = SerialOps
        BY DEF OpsOf
      <4> QED
        BY <3>1, <3>2, <4>1 DEF TasksInRegions
    <3>4. cpu \in Ids /\ pc[cpu] = "user"
      BY <3>1, <3>3 DEF Role, At
    <3>5. tasks[1] # 0
      BY <3>4, AllIdle
    <3> QED
      BY <3>5 DEF TaskInv, PlacesInv, CountsInv
  <2> DEFINE t == Head(pool)
  <2>2. /\ pool # <<>> /\ pool' = Tail(pool) /\ tasks' = [tasks EXCEPT ![team] = @ + 1]
        /\ ready' = Append(ready, t) /\ UNCHANGED <<task, doing, kind>>
    BY <1>3 DEF TaskQueue
  <2>3. /\ pool' \in Seq(Tasks) /\ IsInjective(pool') /\ t \in Range(pool) /\ t \in Tasks
        /\ Range(pool') = Range(pool) \ {t} /\ Len(pool') = Len(pool) - 1
    BY <2>2, TailFacts, HeadTailProperties DEF TaskInv, StructsInv
  <2> HIDE DEF t
  <2>4. t \notin Range(ready)
    BY <2>3 DEF TaskInv, StructsInv
  <2>5. /\ ready' \in Seq(Tasks) /\ IsInjective(ready') /\ Range(ready') = Range(ready) \cup {t}
    BY <2>2, <2>3, <2>4, AppendFacts DEF TaskInv, StructsInv
  <2>6. \A i \in Ids : Hand(i)' = Hand(i) /\ t \notin Hand(i)
    BY <2>2, <2>3 DEF TaskInv, StructsInv, Hand
  <2>7. StructsInv'
    <3>1. IsInjective(pool)' /\ IsInjective(ready)' /\ Range(pool)' = Range(pool) \ {t}
          /\ Range(ready)' = Range(ready) \cup {t}
      BY <2>3, <2>5 DEF IsInjective, Range
    <3> QED
      BY <2>2, <2>3, <2>5, <2>6, <3>1 DEF TaskInv, StructsInv
  <2>8. CountsInv'
    <3>1. Len(pool) \in Nat
      BY LenProperties DEF TaskInv, StructsInv
    <3> QED
      BY <1>1, <2>1, <2>2, <2>3, <3>1, Sizes DEF TaskInv, CountsInv, stateVars
  <2>9. PlacesInv' /\ WorkersInv' /\ StepsInv'
    BY <1>1, <2>2 DEF TaskInv, PlacesInv, WorkersInv, StepsInv, stateVars, TeamIds
  <2> QED
    BY <2>7, <2>8, <2>9 DEF TaskInv
<1> QED
  BY <1>2, <1>3 DEF UserTask

(* The loop of gomp_worker takes a task, its own or the oldest ready one.  *)
LEMMA WorkerTaskInv ==
  ASSUME TaskInv, Worker
  PROVE  TaskInv'
<1> USE InsideFacts
<1>1. UNCHANGED <<stateVars, step, sec, pool, tasks, task>>
  BY DEF Worker, WorkerImplicit, WorkerExplicit, WorkerIdle, ButTasks, seenVars, taskVars
<1>2. CASE WorkerIdle
  BY <1>1, <1>2, KeepsTaskInv DEF WorkerIdle, KeepsTasks
<1>3. CASE WorkerImplicit \/ WorkerExplicit
  <2>1. cpu \in Contexts /\ pc[cpu] = "loop" /\ pc' = [pc EXCEPT ![cpu] = "user"]
    BY <1>3 DEF WorkerImplicit, WorkerExplicit, At, Goto
  <2>2. PICK w \in Ids : w = cpu /\ kind[w] = "none" /\ doing[w] = NoTask
    BY <2>1, NamesDiffer DEF TaskInv, PlacesInv, WorkersInv, Inside
  <2>3. PlacesInv' /\ CountsInv'
    BY <1>1, <2>1, <2>2 DEF TaskInv, PlacesInv, CountsInv, stateVars, Inside
  <2>4. sec[w] = Out
    BY <2>2 DEF TaskInv, StepsInv
  <2>5. CASE WorkerImplicit
    <3>1. /\ task[cpu] # NoTask /\ doing' = [doing EXCEPT ![cpu] = task[cpu]]
          /\ kind' = [kind EXCEPT ![cpu] = "implicit"] /\ ready' = ready
      BY <2>5 DEF WorkerImplicit
    <3>2. \A i \in Ids : Hand(i)' \subseteq Hand(i) /\ \A t \in Tasks : t \in Hand(i) => t \in Hand(i)'
      BY <1>1, <2>2, <3>1, Sizes DEF TaskInv, StructsInv, Hand
    <3>3. StructsInv'
      BY <1>1, <2>2, <3>1, <3>2 DEF TaskInv, StructsInv, IsInjective
    <3>4. WorkersInv' /\ StepsInv'
      BY <1>1, <2>1, <2>2, <2>4, <3>1 DEF TaskInv, PlacesInv, StructsInv, WorkersInv, StepsInv,
                                         stateVars, TeamIds
    <3> QED
      BY <2>3, <3>3, <3>4 DEF TaskInv
  <2>6. CASE WorkerExplicit
    <3> DEFINE t == Head(ready)
    <3>1. /\ task[cpu] = NoTask /\ ready # <<>> /\ doing' = [doing EXCEPT ![cpu] = t]
          /\ kind' = [kind EXCEPT ![cpu] = "explicit"] /\ ready' = Tail(ready)
      BY <2>6 DEF WorkerExplicit
    <3>2. /\ ready' \in Seq(Tasks) /\ IsInjective(ready') /\ t \in Range(ready) /\ t \in Tasks
          /\ Range(ready') = Range(ready) \ {t}
      BY <3>1, TailFacts, HeadTailProperties DEF TaskInv, StructsInv
    <3> HIDE DEF t
    <3>3. /\ Hand(w)' = {NoTask, t} /\ Hand(w) = {NoTask}
          /\ \A i \in Ids \ {w} : Hand(i)' = Hand(i) /\ t \notin Hand(i)
          /\ t \notin Range(pool) /\ t # NoTask
      BY <1>1, <2>2, <3>1, <3>2, Sizes DEF TaskInv, StructsInv, Hand
    <3>4. StructsInv'
      <4>1. /\ Range(ready)' = Range(ready) \ {t} /\ IsInjective(ready)'
            /\ IsInjective(pool)' /\ Range(pool)' = Range(pool)
        <5>1. pool' = pool /\ IsInjective(pool)
          BY <1>1 DEF TaskInv, StructsInv
        <5> QED
          BY <3>2, <5>1 DEF IsInjective, Range
      <4>2. doing' \in [Ids -> Tasks \cup {NoTask}]
        BY <2>2, <3>1, <3>2 DEF TaskInv, StructsInv
      <4>3. Range(pool)' \cap Range(ready)' = {}
        BY <4>1 DEF TaskInv, StructsInv
      <4>4. \A i \in Ids : Hand(i)' \cap (Range(pool)' \cup Range(ready)') = {}
        BY <3>3, <4>1 DEF TaskInv, StructsInv
      <4>5. \A i, j \in Ids : i # j => Hand(i)' \cap Hand(j)' \subseteq {NoTask}
        BY <3>3 DEF TaskInv, StructsInv
      <4>6. \A x \in Tasks : x \in Range(pool)' \cup Range(ready)' \/ \E i \in Ids : x \in Hand(i)'
        BY <2>2, <3>3, <4>1, Sizes DEF TaskInv, StructsInv
      <4> QED
        BY <1>1, <3>2, <4>1, <4>2, <4>3, <4>4, <4>5, <4>6 DEF TaskInv, StructsInv
    <3>5. WorkersInv' /\ StepsInv'
      BY <1>1, <2>1, <2>2, <2>4, <3>1, <3>3 DEF TaskInv, PlacesInv, StructsInv, WorkersInv, StepsInv,
                                         stateVars, TeamIds
    <3> QED
      BY <2>3, <3>4, <3>5 DEF TaskInv
  <2> QED
    BY <1>3, <2>5, <2>6
<1> QED
  BY <1>2, <1>3 DEF Worker

(* A task struct goes back to the pool when its task has returned.         *)
LEMMA EndTaskInv ==
  ASSUME TaskInv, EndTask
  PROVE  TaskInv'
<1> USE InsideFacts
<1>1. PICK w \in Ids : w = cpu
  BY DEF EndTask, WorkerDone
<1>2. /\ pc[w] = "user" /\ pc' = [pc EXCEPT ![w] = "loop"]
      /\ UNCHANGED <<stateVars, ready, step, sec>>
  BY <1>1 DEF EndTask, WorkerDone, At, Goto, ButTasks, clientVars, seenVars
<1>3. kind[w] # "none" /\ team = 1
  <2>1. kind[w] # "none"
    BY <1>2 DEF TaskInv, WorkersInv
  <2>2. tasks[1] # 0
    BY <2>1, AllIdle
  <2> QED
    BY <2>1, <2>2 DEF TaskInv, PlacesInv, CountsInv
<1> DEFINE d == doing[w]
<1>4. /\ d \in Tasks /\ d # NoTask /\ pool' = Append(pool, d)
      /\ tasks' = [tasks EXCEPT ![1] = @ - 1]
      /\ task' = IF kind[w] = "implicit" THEN [task EXCEPT ![w] = NoTask] ELSE task
      /\ doing' = [doing EXCEPT ![w] = NoTask] /\ kind' = [kind EXCEPT ![w] = "none"]
      /\ task[w] \in {d, NoTask}
  BY <1>1, <1>3 DEF EndTask, WorkerDone, TaskInv, StructsInv, WorkersInv
<1>5. d \in Hand(w) /\ Hand(w) \subseteq {d, NoTask} /\ Hand(w)' = {NoTask}
  BY <1>3, <1>4 DEF Hand, TaskInv, StructsInv, WorkersInv
<1>6. \A i \in Ids \ {w} : Hand(i)' = Hand(i)
  BY <1>4 DEF Hand
<1> HIDE DEF d
<1>7. d \notin Range(pool) /\ d \notin Range(ready)
  BY <1>5 DEF TaskInv, StructsInv
<1>8. /\ pool' \in Seq(Tasks) /\ IsInjective(pool)' /\ Range(pool)' = Range(pool) \cup {d}
      /\ Len(pool)' = Len(pool) + 1
  <2>1. /\ pool' \in Seq(Tasks) /\ IsInjective(pool') /\ Range(pool') = Range(pool) \cup {d}
        /\ Len(pool') = Len(pool) + 1
    BY <1>4, <1>7, AppendFacts DEF TaskInv, StructsInv
  <2> QED
    BY <2>1 DEF IsInjective, Range
<1>9. StructsInv'
  <2>1. ready' = ready /\ IsInjective(ready)' /\ Range(ready)' = Range(ready)
    BY <1>2 DEF TaskInv, StructsInv, IsInjective
  <2>2. /\ task' \in [Ids -> Tasks \cup {NoTask}] /\ doing' \in [Ids -> Tasks \cup {NoTask}]
    BY <1>4 DEF TaskInv, StructsInv
  <2>3. \A i \in Ids : Hand(i)' \cap (Range(pool)' \cup Range(ready)') = {}
    BY <1>5, <1>6, <1>8, <2>1, <1>4, Sizes, SeqRange DEF TaskInv, StructsInv
  <2>4. \A i, j \in Ids : i # j => Hand(i)' \cap Hand(j)' \subseteq {NoTask}
    BY <1>5, <1>6 DEF TaskInv, StructsInv
  <2>5. \A t \in Tasks : t \in Range(pool)' \cup Range(ready)' \/ \E i \in Ids : t \in Hand(i)'
    BY <1>5, <1>6, <1>8, <2>1, Sizes DEF TaskInv, StructsInv
  <2>6. Range(pool)' \cap Range(ready)' = {}
    BY <1>7, <1>8, <2>1 DEF TaskInv, StructsInv
  <2> QED
    BY <1>8, <2>1, <2>2, <2>3, <2>4, <2>5, <2>6 DEF TaskInv, StructsInv
<1>10. CountsInv'
  <2>1. Len(pool) \in Nat
    BY LenProperties DEF TaskInv, StructsInv
  <2> QED
    BY <1>2, <1>3, <1>4, <1>8, <2>1, Sizes DEF TaskInv, CountsInv, stateVars
<1>11. PlacesInv'
  BY <1>2 DEF TaskInv, PlacesInv, stateVars, PcValues
<1>12. WorkersInv'
  <2>1. num' = num /\ kind' \in [Ids -> {"none", "implicit", "explicit"}]
    BY <1>2, <1>4 DEF stateVars, TaskInv, WorkersInv
  <2>2. task'[w] = NoTask /\ doing'[w] = NoTask /\ kind'[w] = "none" /\ pc'[w] = "loop"
    BY <1>2, <1>3, <1>4 DEF TaskInv, PlacesInv, StructsInv, WorkersInv
  <2>3. \A i \in Ids \ {w} : /\ task'[i] = task[i] /\ doing'[i] = doing[i] /\ kind'[i] = kind[i]
                             /\ pc'[i] = pc[i]
    BY <1>2, <1>4
  <2> QED
    BY <2>1, <2>2, <2>3 DEF TaskInv, WorkersInv, TeamIds
<1>13. StepsInv'
  <2>1. sec[w] = Out /\ (kind[w] = "implicit" => step[w] = Len(Region) + 1)
    BY <1>1, <1>3, Sizes DEF EndTask, Role, TaskInv, StepsInv
  <2>2. \A i \in Ids \ {w} : task'[i] = task[i] /\ kind'[i] = kind[i]
    BY <1>4
  <2>3. \A i \in Ids : task'[i] = NoTask => task[i] = NoTask \/ (i = w /\ kind[w] = "implicit")
    BY <1>4
  <2> QED
    BY <1>2, <1>3, <2>1, <2>2, <2>3, TeamInIds DEF TaskInv, StepsInv, stateVars, TeamIds
<1> QED
  BY <1>9, <1>10, <1>11, <1>12, <1>13 DEF TaskInv

(* What is left of a sequence from its element m on.                       *)
LEMMA RestFacts ==
  ASSUME NEW S, NEW s \in Seq(S), IsInjective(s), NEW m \in Nat, 1 <= m, m <= Len(s) + 1
  PROVE  LET r == SubSeq(s, m, Len(s))
         IN  /\ r \in Seq(S) /\ IsInjective(r) /\ Len(r) = Len(s) - m + 1
             /\ \A x : x \in Range(r) <=> \E k \in 1 .. Len(s) : k >= m /\ x = s[k]
<1>1. PICK e \in Nat : e = Len(s)
  BY LenProperties
<1>2. PICK r : r = SubSeq(s, m, e)
  OBVIOUS
<1>3. DOMAIN s = 1 .. e /\ \A k \in 1 .. e : s[k] \in S
  BY <1>1, LenProperties, ElementOfSeq
<1>4. /\ r \in Seq(S) /\ Len(r) = e - m + 1
      /\ \A k \in 1 .. e - m + 1 : r[k] = s[m + k - 1]
  <2>1. \A k \in m .. e : s[k] \in S
    BY <1>3
  <2>2. /\ r \in Seq(S) /\ Len(r) = IF m <= e THEN e - m + 1 ELSE 0
        /\ \A k \in 1 .. e - m + 1 : r[k] = s[m + k - 1]
    BY <1>2, <2>1, SubSeqProperties
  <2>3. (IF m <= e THEN e - m + 1 ELSE 0) = e - m + 1
    BY <1>1
  <2> QED
    BY <2>2, <2>3
<1>5. DOMAIN r = 1 .. e - m + 1
  BY <1>4, LenProperties
<1>6. IsInjective(r)
  <2>1. ASSUME NEW j \in 1 .. e - m + 1, NEW k \in 1 .. e - m + 1, r[j] = r[k] PROVE j = k
    <3>1. s[m + j - 1] = s[m + k - 1] /\ m + j - 1 \in 1 .. e /\ m + k - 1 \in 1 .. e
      BY <1>4, <2>1
    <3>2. m + j - 1 = m + k - 1
      BY <1>3, <3>1 DEF IsInjective
    <3> QED
      BY <3>2
  <2> QED
    BY <1>5, <2>1 DEF IsInjective
<1>7. ASSUME NEW x PROVE x \in Range(r) <=> \E k \in 1 .. e : k >= m /\ x = s[k]
  <2>1. ASSUME NEW k \in 1 .. e, k >= m PROVE s[k] \in Range(r)
    <3>1. k - m + 1 \in 1 .. e - m + 1 /\ m + (k - m + 1) - 1 = k
      BY <2>1
    <3>2. r[k - m + 1] = s[k]
      BY <1>4, <3>1
    <3> QED
      BY <1>5, <3>1, <3>2 DEF Range
  <2>2. ASSUME NEW k \in 1 .. e - m + 1 PROVE \E j \in 1 .. e : j >= m /\ r[k] = s[j]
    <3>1. m + k - 1 \in 1 .. e /\ m + k - 1 >= m /\ r[k] = s[m + k - 1]
      BY <1>4
    <3> QED
      BY <3>1
  <2>3. x \in Range(r) <=> \E k \in 1 .. e - m + 1 : x = r[k]
    BY <1>5 DEF Range
  <2> QED
    BY <2>1, <2>2, <2>3
<1> QED
  BY <1>1, <1>2, <1>4, <1>6, <1>7

-----------------------------------------------------------------------------
(* Outside a region the CPU runs main() when a program step begins one.    *)
LEMMA SerialFacts ==
  ASSUME TaskInv, At("user"), Role = "serial"
  PROVE  cpu = Main /\ pc[Main] = "user" /\ team = 0 /\ tasks[1] = 0
<1>1. cpu \in Contexts /\ pc[cpu] = "user"
  BY DEF At
<1>2. cpu \notin Ids
  BY DEF Role, TaskInv, WorkersInv
<1>3. cpu = Main
  BY <1>1, <1>2 DEF Contexts, TaskInv, PlacesInv
<1> QED
  BY <1>1, <1>3 DEF TaskInv, PlacesInv, CountsInv

(* GOMP_parallel gives each member of the new team a struct of its own.    *)
LEMMA StartRegionInv ==
  ASSUME TasksInRegions, TaskInv, StartRegion
  PROVE  TaskInv'
<1>1. PICK n \in NumThreads : Parallel(n)
  BY DEF StartRegion
<1> PICK size : size = TeamSize(n)
  OBVIOUS
<1>2. cpu = Main /\ pc[Main] = "user" /\ team = 0 /\ tasks[1] = 0
  BY <1>1, SerialFacts DEF StartRegion, Parallel
<1>3. size \in 1 .. MaxThreads /\ size <= NumTasks
  BY TeamFits DEF TasksInRegions
<1>4. /\ pool \in Seq(Tasks) /\ IsInjective(pool) /\ Len(pool) = NumTasks /\ Range(pool) = Tasks
      /\ ready = <<>> /\ \A i \in Ids : task[i] = NoTask /\ doing[i] = NoTask /\ kind[i] = "none"
  BY <1>2, AllIdle DEF TaskInv, StructsInv
<1>5. /\ num' = size /\ team' = 1 /\ pool' = SubSeq(pool, size + 1, Len(pool))
      /\ tasks' = [tasks EXCEPT ![1] = @ + size]
      /\ task' = [i \in Ids |-> IF i \in 0 .. size - 1
                                THEN IF i < Len(pool) THEN pool[i + 1] ELSE NoTask ELSE task[i]]
      /\ pc' = [pc EXCEPT ![Main] = "join"]
      /\ ready' = ready /\ doing' = doing /\ kind' = kind
      /\ step' = [i \in Ids |-> 1] /\ sec' = sec
  <2>1. team + 1 = 1
    BY <1>2
  <2>2. /\ num' = size /\ team' = team + 1 /\ pool' = SubSeq(pool, size + 1, Len(pool))
        /\ tasks' = [tasks EXCEPT ![team + 1] = @ + size]
        /\ pc' = [pc EXCEPT ![cpu] = "join"]
        /\ ready' = ready /\ doing' = doing /\ kind' = kind
    BY <1>1 DEF Parallel, Goto
  <2>3. task' = [i \in Ids |-> IF i \in 0 .. size - 1
                              THEN IF i < Len(pool) THEN pool[i + 1] ELSE NoTask ELSE task[i]]
    BY <1>1 DEF Parallel
  <2>4. step' = [i \in Ids |-> 1] /\ sec' = sec
    BY DEF StartRegion
  <2> QED
    BY <1>2, <2>1, <2>2, <2>3, <2>4
<1>6. /\ \A i \in 0 .. size - 1 : i \in Ids /\ i < NumTasks /\ i + 1 \in 1 .. NumTasks
                                  /\ task'[i] = pool[i + 1]
      /\ \A i \in Ids : i \notin 0 .. size - 1 => task'[i] = NoTask
      /\ doing' = [i \in Ids |-> NoTask]
  <2>1. \A i \in 0 .. size - 1 : i \in Ids /\ i < NumTasks /\ i + 1 \in 1 .. NumTasks
    BY <1>3, Sizes DEF Ids
  <2>2. doing \in [Ids -> Tasks \cup {NoTask}]
    BY DEF TaskInv, StructsInv
  <2> QED
    BY <1>4, <1>5, <2>1, <2>2
<1>7. DOMAIN pool = 1 .. NumTasks /\ \A k \in 1 .. NumTasks : pool[k] \in Tasks
  BY <1>4, LenProperties, ElementOfSeq
<1>8. /\ pool' \in Seq(Tasks) /\ IsInjective(pool)' /\ Len(pool)' = NumTasks - size
      /\ \A x : x \in Range(pool)' <=> \E k \in 1 .. NumTasks : k > size /\ x = pool[k]
  <2>1. NumTasks \in Nat /\ size \in Nat
    BY <1>3, Sizes
  <2>2. /\ pool' \in Seq(Tasks) /\ IsInjective(pool') /\ Len(pool') = NumTasks - size
        /\ \A x : x \in Range(pool') <=> \E k \in 1 .. NumTasks : k > size /\ x = pool[k]
    <3>1. PICK m \in Nat : m = size + 1
      BY <2>1
    <3>2. pool' = SubSeq(pool, m, Len(pool)) /\ 1 <= m /\ m <= NumTasks + 1
      BY <1>3, <1>5, <2>1, <3>1
    <3>3. /\ pool' \in Seq(Tasks) /\ IsInjective(pool') /\ Len(pool') = NumTasks - m + 1
          /\ \A x : x \in Range(pool') <=> \E k \in 1 .. NumTasks : k >= m /\ x = pool[k]
      BY <1>4, <3>2, RestFacts
    <3>4. NumTasks - m + 1 = NumTasks - size /\ \A k \in 1 .. NumTasks : k >= m <=> k > size
      BY <2>1, <3>1
    <3> QED
      BY <3>3, <3>4
  <2> QED
    BY <2>2 DEF IsInjective, Range
<1>9. StructsInv'
  <2>1. ready' \in Seq(Tasks) /\ IsInjective(ready)' /\ Range(ready)' = {}
    <3>1. ready' = ready /\ ready \in Seq(Tasks) /\ IsInjective(ready)
      BY <1>5 DEF TaskInv, StructsInv
    <3>2. Range(ready) = {}
      BY <1>4 DEF Range
    <3> QED
      BY <3>1, <3>2 DEF IsInjective, Range
  <2>2. task' \in [Ids -> Tasks \cup {NoTask}] /\ doing' \in [Ids -> Tasks \cup {NoTask}]
    <3>1. \A i \in Ids : task'[i] \in Tasks \cup {NoTask}
      BY <1>6, <1>7
    <3> QED
      BY <1>5, <1>6, <3>1
  <2>3. \A i \in 0 .. size - 1 : \A k \in 1 .. NumTasks : pool[i + 1] = pool[k] => k = i + 1
    BY <1>4, <1>6, <1>7 DEF IsInjective
  <2>4. \A i \in Ids : Hand(i)' \subseteq {NoTask} \cup {task'[i]}
    BY <1>6 DEF Hand
  <2>5. \A i \in Ids : Hand(i)' \cap (Range(pool)' \cup Range(ready)') = {}
    <3>1. NoTask \notin Range(pool)'
      BY <1>8, SeqRange, Sizes
    <3>2. ASSUME NEW i \in 0 .. size - 1 PROVE task'[i] \notin Range(pool)'
      <4>1. ASSUME NEW k \in 1 .. NumTasks, k > size, pool[i + 1] = pool[k] PROVE FALSE
        <5>1. k > i + 1
          BY <1>3, <4>1, Sizes
        <5> QED
          BY <2>3, <4>1, <5>1
      <4> QED
        BY <1>6, <1>8, <4>1
    <3> QED
      BY <1>6, <2>1, <2>4, <3>1, <3>2
  <2>6. \A i, j \in Ids : i # j => Hand(i)' \cap Hand(j)' \subseteq {NoTask}
    <3>1. ASSUME NEW i \in 0 .. size - 1, NEW j \in 0 .. size - 1, task'[i] = task'[j] PROVE i = j
      <4>1. j + 1 = i + 1
        BY <1>6, <2>3, <3>1
      <4> QED
        BY <4>1
    <3> QED
      BY <1>6, <2>4, <3>1
  <2>7. \A t \in Tasks : t \in Range(pool)' \cup Range(ready)' \/ \E i \in Ids : t \in Hand(i)'
    <3> TAKE t \in Tasks
    <3>1. PICK k \in 1 .. NumTasks : t = pool[k]
      BY <1>4, <1>7 DEF Range
    <3>2. CASE k <= size
      <4>1. k - 1 \in 0 .. size - 1 /\ (k - 1) + 1 = k
        BY <1>3, <3>2
      <4>2. t = task'[k - 1] /\ k - 1 \in Ids
        BY <1>6, <3>1, <4>1
      <4> QED
        BY <4>2 DEF Hand
    <3>3. CASE k > size
      BY <1>8, <3>1, <3>3
    <3> QED
      BY <1>3, <3>2, <3>3
  <2> QED
    BY <1>8, <2>1, <2>2, <2>5, <2>6, <2>7 DEF StructsInv
<1>10. PlacesInv'
  BY <1>2, <1>3, <1>5, InsideFacts DEF TaskInv, PlacesInv, PcValues
<1>11. WorkersInv'
  <2>1. \A i \in Ids : kind'[i] = "none" /\ doing'[i] = NoTask /\ pc'[i] \in {"unborn", "loop"}
    BY <1>2, <1>4, <1>5, <1>6, InsideFacts DEF TaskInv, PlacesInv, WorkersInv
  <2>2. kind' \in [Ids -> {"none", "implicit", "explicit"}]
    BY <1>5 DEF TaskInv, WorkersInv
  <2>3. \A i \in Ids : task'[i] # NoTask => i \in TeamIds'
    BY <1>5, <1>6 DEF TeamIds
  <2> QED
    BY <2>1, <2>2, <2>3 DEF WorkersInv
<1>12. CountsInv'
  BY <1>2, <1>3, <1>4, <1>5, <1>8, Sizes DEF TaskInv, CountsInv
<1>13. StepsInv'
  <2>1. \A i \in Ids : sec[i] = Out
    BY <1>4 DEF TaskInv, StepsInv
  <2>2. ASSUME NEW i \in TeamIds' PROVE task'[i] # NoTask
    <3>1. i \in 0 .. size - 1
      BY <1>5, <2>2 DEF TeamIds
    <3> QED
      BY <1>6, <1>7, <3>1, Sizes
  <2>3. step' \in [Ids -> 1 .. Len(Region) + 1]
    BY <1>5, Sizes
  <2> QED
    BY <1>5, <2>1, <2>2, <2>3 DEF TaskInv, StepsInv
<1> QED
  BY <1>9, <1>10, <1>11, <1>12, <1>13 DEF TaskInv

(* GOMP_parallel waits for the tasks of its team, or returns.              *)
LEMMA JoinInv ==
  ASSUME TaskInv, Join
  PROVE  TaskInv'
<1> USE InsideFacts
<1>1. num' = num /\ UNCHANGED <<taskVars, step, sec>>
  BY DEF Join, JoinWait, JoinDone, seenVars
<1>2. CASE JoinWait
  BY <1>1, <1>2, KeepsTaskInv DEF JoinWait, KeepsTasks, stateVars
<1>3. CASE JoinDone
  <2>1. cpu \in Contexts /\ pc[cpu] = "join" /\ tasks[team] = 0 /\ team' = team - 1
        /\ pc' = [pc EXCEPT ![cpu] = "user"]
    BY <1>3 DEF JoinDone, At, Goto
  <2>2. cpu = Main
    BY <2>1 DEF Contexts, TaskInv, PlacesInv, Inside
  <2>3. team = 1 /\ team' = 0 /\ tasks[1] = 0
    BY <2>1, <2>2 DEF TaskInv, PlacesInv
  <2>4. PlacesInv'
    BY <1>1, <2>1, <2>2, <2>3 DEF TaskInv, PlacesInv, PcValues, Inside
  <2>5. StructsInv'
    BY <1>1 DEF taskVars, TaskInv, StructsInv, IsInjective, Hand
  <2>6. WorkersInv' /\ CountsInv' /\ StepsInv'
    BY <1>1, <2>1, <2>2, <2>3 DEF taskVars, TaskInv, WorkersInv, CountsInv, StepsInv, TeamIds
  <2> QED
    BY <2>4, <2>5, <2>6 DEF TaskInv
<1> QED
  BY <1>2, <1>3 DEF Join

-----------------------------------------------------------------------------
(* What libgomp_init leaves: a full pool, and nothing running.             *)
LEMMA InitTaskInv == Init => TaskInv
<1> SUFFICES ASSUME Init PROVE TaskInv
  OBVIOUS
<1> USE InsideFacts, Sizes DEF Init, SystemInit
<1>1. PlacesInv
  BY TasksAssumption, NamesDiffer DEF PlacesInv, PcValues
<1>2. StructsInv
  <2>1. pool \in [1 .. NumTasks -> Tasks] /\ DOMAIN pool = 1 .. NumTasks /\ NumTasks \in Nat
    BY DEF Tasks
  <2>2. pool \in Seq(Tasks) /\ IsInjective(pool) /\ Range(pool) = Tasks
    <3>1. pool \in Seq(Tasks)
      BY <2>1, SeqDef
    <3> QED
      BY <2>1, <3>1 DEF IsInjective, Range, Tasks
  <2>3. ready \in Seq(Tasks) /\ IsInjective(ready) /\ Range(ready) = {}
    BY DEF IsInjective, Range
  <2> QED
    BY <2>2, <2>3 DEF StructsInv, Hand
<1>3. WorkersInv
  BY DEF WorkersInv
<1>4. CountsInv
  <2>1. Len(pool) = NumTasks
    BY LenProperties DEF Tasks
  <2> QED
    BY <2>1 DEF CountsInv
<1>5. StepsInv
  BY DEF StepsInv
<1> QED
  BY <1>1, <1>2, <1>3, <1>4, <1>5 DEF TaskInv

(* Every step keeps the invariant.                                         *)
LEMMA NextTaskInv ==
  ASSUME TasksInRegions, TaskInv, [Next]_vars
  PROVE  TaskInv'
<1>1. CASE UNCHANGED vars
  BY <1>1, KeepsTaskInv DEF vars, systemVars, libraryVars, clientVars, seenVars, KeepsTasks
<1>2. CASE System
  BY <1>1, <1>2, BootTaskInv DEF System
<1>3. CASE FreeOp
  BY <1>3, KeepsTaskInv, FreeKeepsTasks, LockOpKeepsTasks, UserTaskInv DEF FreeOp
<1>4. CASE Construct
  BY <1>4, KeepsTaskInv, ConstructKeepsTasks
<1>5. CASE TaskLife
  <2>1. CASE EndMain
    BY <2>1, BootTaskInv DEF EndMain
  <2> QED
    BY <1>5, <2>1, WorkerTaskInv, EndTaskInv, StartRegionInv, JoinInv DEF TaskLife
<1> QED
  BY <1>1, <1>2, <1>3, <1>4, <1>5 DEF Next

-----------------------------------------------------------------------------
(* At any time each task struct is in the pool, ready, or with the worker  *)
(* that has or runs it, and the team counts those outside the pool:        *)
(* GOMP_parallel, GOMP_task and gomp_worker lose none and free none twice. *)
THEOREM StructsConserved ==
  ASSUME TasksInRegions
  PROVE  Spec => []TaskConservation
<1>1. Init => TaskInv
  BY InitTaskInv
<1>2. TaskInv /\ [Next]_vars => TaskInv'
  BY NextTaskInv
<1>3. TaskInv => TaskConservation
  <2> SUFFICES ASSUME TaskInv PROVE TaskConservation
    OBVIOUS
  <2>1. Range(pool) \subseteq Tasks /\ Range(ready) \subseteq Tasks /\ Len(pool) \in Nat
    BY SeqRange, LenProperties DEF TaskInv, StructsInv
  <2>2. \A x : x \in Held <=> x # NoTask /\ \E i \in Ids : x \in Hand(i)
    BY DEF Held, Hand
  <2>3. Held \subseteq Tasks
    BY <2>2 DEF TaskInv, StructsInv, Hand
  <2>4. Held \cap (Range(pool) \cup Range(ready)) = {}
    BY <2>2 DEF TaskInv, StructsInv
  <2>5. Range(pool) \cup Range(ready) \cup Held = Tasks
    <3>1. ASSUME NEW t \in Tasks PROVE t \in Range(pool) \cup Range(ready) \cup Held
      BY <2>2, Sizes DEF TaskInv, StructsInv
    <3> QED
      BY <2>1, <2>3, <3>1
  <2>6. tasks[team] = NumTasks - Len(pool)
    BY <2>1, Sizes DEF TaskInv, PlacesInv, CountsInv
  <2> QED
    BY <2>4, <2>5, <2>6 DEF TaskConservation, TaskInv, StructsInv, Hand
<1> QED
  BY <1>1, <1>2, <1>3, PTL DEF Spec

(* When GOMP_parallel is about to return, every member of its team has     *)
(* ended its implicit task after the last construct, no explicit task is   *)
(* left, and every struct is back in the pool.                             *)
THEOREM RegionEndsLast ==
  ASSUME TasksInRegions
  PROVE  Spec => []RegionOver
<1>1. Init => TaskInv
  BY InitTaskInv
<1>2. TaskInv /\ [Next]_vars => TaskInv'
  BY NextTaskInv
<1>3. TaskInv => RegionOver
  <2> SUFFICES ASSUME TaskInv, At("join"), tasks[team] = 0
               PROVE  /\ Len(pool) = NumTasks /\ ready = <<>>
                      /\ \A i \in Ids : kind[i] = "none" /\ task[i] = NoTask
                      /\ \A i \in TeamIds : step[i] = Len(Region) + 1
    BY DEF RegionOver
  <2>1. team = 1
    <3>1. cpu = Main
      BY NamesDiffer DEF At, TaskInv, PlacesInv, Inside
    <3> QED
      BY <3>1 DEF At, TaskInv, PlacesInv
  <2>2. tasks[1] = 0
    BY <2>1
  <2>3. TeamIds \subseteq Ids
    BY TeamInIds DEF TaskInv
  <2> QED
    BY <2>1, <2>2, <2>3, AllIdle DEF TaskInv, StepsInv
<1> QED
  BY <1>1, <1>2, <1>3, PTL DEF Spec

-----------------------------------------------------------------------------
(* Who is inside a critical construct has the mutex of the current team.   *)
CritInv ==
  /\ inCrit \subseteq Contexts /\ mutex \in [TeamNos -> BOOLEAN]
  /\ \A c \in inCrit : pc[c] = "user"
  /\ \A c, d \in inCrit : c = d
  /\ mutex[team] <=> inCrit # {}
  /\ team = 1 => ~mutex[0]

(* The steps that change neither the mutex nor who is inside.              *)
KeepsCrit ==
  /\ team' = team /\ mutex' = mutex /\ inCrit' = inCrit
  /\ \A c \in inCrit : pc'[c] = pc[c]

(* They keep the invariant.                                                *)
LEMMA KeepsCritInv ==
  ASSUME CritInv, KeepsCrit
  PROVE  CritInv'
BY DEF CritInv, KeepsCrit

(* A context outside the construct may go anywhere.                        *)
LEMMA OthersMove ==
  ASSUME TaskInv, CritInv, team' = team, mutex' = mutex, inCrit' = inCrit,
         pc' = pc \/ (cpu \notin inCrit /\ \E s : Goto(s))
  PROVE  KeepsCrit
BY DEF KeepsCrit, CritInv, TaskInv, PlacesInv, Goto

(* start() is such a step, and so is the end of main().                    *)
LEMMA BootKeepsCrit ==
  ASSUME TaskInv, CritInv, Boot \/ EndMain, UNCHANGED clientVars
  PROVE  KeepsCrit
<1>1. team' = team /\ mutex' = mutex /\ inCrit' = inCrit
  BY DEF Boot, SpawnWorker, SpawnMain, Background, Halt, EndMain, MainReturns, libraryVars,
         stateVars, criticalVars, clientVars
<1>2. CASE SpawnWorker
  <2>1. PICK i \in Ids : pc[i] = "unborn" /\ pc' = [pc EXCEPT ![i] = "loop"]
    BY <1>2, MinUnborn DEF SpawnWorker, Unborn
  <2> QED
    BY <1>1, <2>1 DEF KeepsCrit, CritInv, TaskInv, PlacesInv
<1>3. CASE SpawnMain
  <2>1. /\ pc' = [pc EXCEPT ![Main] = "user", ![Bg] = "background"]
        /\ cpu \in Contexts /\ pc[cpu] = "boot"
    BY <1>3 DEF SpawnMain, At
  <2>2. pc[Main] = "unborn" /\ pc[Bg] = "boot"
    BY <2>1, NamesDiffer DEF TaskInv, PlacesInv, Inside
  <2>3. Main \notin inCrit /\ Bg \notin inCrit
    BY <2>2 DEF CritInv
  <2> QED
    BY <1>1, <2>1, <2>3 DEF KeepsCrit, CritInv, TaskInv, PlacesInv
<1>4. CASE Background
  BY <1>1, <1>4 DEF Background, KeepsCrit
<1>5. CASE Halt \/ EndMain
  <2>1. cpu \notin inCrit /\ \E s : Goto(s)
    BY <1>5 DEF Halt, At, EndMain, Unencumbered, MainReturns, CritInv
  <2> QED
    BY <1>1, <2>1, OthersMove
<1> QED
  BY <1>2, <1>3, <1>4, <1>5 DEF Boot

(* So are the operations on locks.                                         *)
LEMMA LockOpKeepsCrit ==
  ASSUME TaskInv, CritInv, LockOp
  PROVE  KeepsCrit
<1>1. team' = team /\ mutex' = mutex /\ inCrit' = inCrit
  BY DEF LockOp, ButLocks, stateVars, criticalVars
<1>2. ASSUME NEW l, PollLock(l) \/ PollNest(l) PROVE \E s : Goto(s)
  BY <1>2 DEF PollLock, PollNest, TakeLock, AwaitLock, TakeNest, AwaitNest
<1>3. pc' = pc \/ (cpu \notin inCrit /\ \E s : Goto(s))
  <2>1. ASSUME NEW l \in Locks, UserLock(l) \/ UserTestLock(l) \/ UserUnlock(l)
        PROVE  pc' = pc \/ (cpu \notin inCrit /\ \E s : Goto(s))
    BY <1>2, <2>1 DEF UserLock, Unencumbered, UserTestLock, UserUnlock, SetLock, TestLock, UnsetLock
  <2>2. ASSUME NEW l \in NestLocks,
               UserNest(l) \/ UserTestNest(l) \/ UserUnnest(l) \/ UserResetNest(l)
        PROVE  pc' = pc \/ (cpu \notin inCrit /\ \E s : Goto(s))
    BY <1>2, <2>2 DEF UserNest, UserTestNest, UserUnnest, UserResetNest, SetNest, TestNest,
                      UnsetNest, ResetNest, NestAgain
  <2>3. ASSUME PollAgain PROVE cpu \notin inCrit /\ \E s : Goto(s)
    <3>1. cpu \notin inCrit
      BY <2>3 DEF PollAgain, LockRetry, NestRetry, At, CritInv
    <3> QED
      BY <1>2, <2>3, <3>1 DEF PollAgain, LockRetry, NestRetry
  <2> QED
    BY <2>1, <2>2, <2>3 DEF LockOp
<1> QED
  BY <1>1, <1>3, OthersMove

(* So are the constructs of a region: nobody inside a critical meets one.  *)
LEMMA ConstructKeepsCrit ==
  ASSUME TaskInv, CritInv, Construct
  PROVE  KeepsCrit
<1>1. team' = team /\ mutex' = mutex /\ inCrit' = inCrit
  BY DEF Construct, UserBarrier, InBarrier, UserSingle, UserSections, UserNextSection,
         UserEndSections, GoToSection, ButBarrier, ButSingle, ButSections, clientVars,
         stateVars, criticalVars
<1>2. CASE UserBarrier \/ UserEndSections
  <2>1. cpu \notin inCrit /\ \E s : Goto(s)
    BY <1>2 DEF UserBarrier, UserEndSections, Meets, Unencumbered, SectionsEnd, BarrierEnter
  <2> QED
    BY <1>1, <2>1, OthersMove
<1>3. CASE InBarrier
  <2>1. pc' = pc \/ (cpu \notin inCrit /\ \E s : Goto(s))
    BY <1>3 DEF InBarrier, BarrierRelease, BarrierReturn, At, CritInv
  <2> QED
    BY <1>1, <2>1, OthersMove
<1>4. CASE UserSingle \/ UserSections \/ UserNextSection
  <2>1. pc' = pc
    BY <1>4 DEF UserSingle, UserSections, UserNextSection, SingleStart, SectionsStart, SectionsNext
  <2> QED
    BY <1>1, <2>1, OthersMove
<1> QED
  BY <1>2, <1>3, <1>4 DEF Construct

(* So are the steps of the loop of gomp_worker.                            *)
LEMMA WorkerKeepsCrit ==
  ASSUME TaskInv, CritInv, Worker \/ EndTask
  PROVE  KeepsCrit
<1>1. team' = team /\ mutex' = mutex /\ inCrit' = inCrit
  BY DEF Worker, EndTask, ButTasks, clientVars, stateVars, criticalVars
<1>2. pc' = pc \/ (cpu \notin inCrit /\ \E s : Goto(s))
  BY DEF Worker, WorkerImplicit, WorkerExplicit, WorkerIdle, EndTask, Unencumbered, WorkerDone,
         At, CritInv
<1> QED
  BY <1>1, <1>2, OthersMove

(* GOMP_critical_start lets a context in only when the mutex is free, and  *)
(* GOMP_critical_end frees it when the one inside leaves.                  *)
LEMMA CriticalKeepsCritInv ==
  ASSUME TaskInv, CritInv, UserCritical \/ Retry \/ UserEndCritical
  PROVE  CritInv'
<1>1. team' = team /\ team \in TeamNos
  BY Sizes DEF UserCritical, Retry, UserEndCritical, ButCritical, stateVars, TaskInv, PlacesInv
<1>2. CASE UserEndCritical
  <2>1. cpu \in inCrit /\ inCrit' = inCrit \ {cpu} /\ pc' = pc
        /\ mutex' = [mutex EXCEPT ![team] = FALSE]
    BY <1>2 DEF UserEndCritical, CriticalEnd
  <2> QED
    BY <1>1, <2>1 DEF CritInv
<1>3. CASE UserCritical \/ Retry
  <2>1. cpu \in Contexts /\ cpu \notin inCrit /\ TestMutex /\ NowInCrit
    BY <1>3 DEF UserCritical, Retry, Unencumbered, CriticalStart, CriticalRetry, At, CritInv
  <2>2. pc \in [Contexts -> PcValues]
    BY DEF TaskInv, PlacesInv
  <2>3. CASE mutex[team]
    <3>1. pc' = [pc EXCEPT ![cpu] = "critical"] /\ mutex' = mutex
      BY <2>1, <2>3 DEF TestMutex, AwaitMutex, Goto
    <3>2. inCrit' = inCrit
      BY <2>1, <2>2, <3>1 DEF NowInCrit
    <3> QED
      BY <1>1, <2>1, <2>2, <3>1, <3>2 DEF CritInv
  <2>4. CASE ~mutex[team]
    <3>1. pc' = [pc EXCEPT ![cpu] = "user"] /\ mutex' = [mutex EXCEPT ![team] = TRUE]
      BY <2>1, <2>4 DEF TestMutex, TakeMutex, Goto
    <3>2. inCrit' = {cpu}
      BY <2>1, <2>2, <2>4, <3>1 DEF NowInCrit, CritInv
    <3> QED
      BY <1>1, <2>1, <2>2, <3>1, <3>2 DEF CritInv, TaskInv, PlacesInv
  <2> QED
    BY <2>3, <2>4
<1> QED
  BY <1>2, <1>3

(* Nobody is in a critical construct where a region begins or ends.        *)
LEMMA RegionKeepsCritInv ==
  ASSUME TaskInv, CritInv, StartRegion \/ Join
  PROVE  CritInv'
<1>1. inCrit' = inCrit
  BY DEF StartRegion, Join
<1>2. CASE StartRegion
  <2>1. PICK n \in NumThreads : Parallel(n)
    BY <1>2 DEF StartRegion
  <2>2. cpu = Main /\ team = 0 /\ tasks[1] = 0 /\ Main \notin inCrit
    BY <1>2, <2>1, SerialFacts DEF StartRegion, Parallel, Unencumbered
  <2>3. inCrit = {}
    <3>1. pc[Bg] # "user" /\ \A i \in Ids : pc[i] # "user"
      BY <2>2, AllIdle DEF TaskInv, PlacesInv
    <3> QED
      BY <2>2, <3>1, NamesDiffer DEF CritInv
  <2>4. team' = 1 /\ mutex' = [mutex EXCEPT ![1] = FALSE]
    BY <2>1, <2>2 DEF Parallel
  <2> QED
    BY <1>1, <2>2, <2>3, <2>4, Sizes DEF CritInv
<1>3. CASE JoinWait /\ Join
  BY <1>1, <1>3 DEF JoinWait, Join, criticalVars, CritInv
<1>4. CASE JoinDone /\ Join
  <2>1. cpu \in Contexts /\ pc[cpu] = "join" /\ tasks[team] = 0 /\ team' = team - 1 /\ mutex' = mutex
    BY <1>4 DEF JoinDone, Join, At, criticalVars
  <2>2. pc[Main] = "join" /\ team = 1
    BY <2>1, NamesDiffer DEF TaskInv, PlacesInv, Inside
  <2>3. inCrit = {}
    <3>1. pc[Bg] # "user" /\ pc[Main] # "user" /\ \A i \in Ids : pc[i] # "user"
      BY <2>1, <2>2, AllIdle DEF TaskInv, PlacesInv
    <3> QED
      BY <3>1, NamesDiffer DEF CritInv
  <2> QED
    BY <1>1, <2>1, <2>2, <2>3 DEF CritInv
<1> QED
  BY <1>2, <1>3, <1>4 DEF Join

(* At first the mutexes are free.                                          *)
LEMMA InitCritInv == Init => CritInv
BY Sizes DEF Init, SystemInit, CritInv

(* Every step keeps the invariant.                                         *)
LEMMA NextCritInv ==
  ASSUME TaskInv, CritInv, [Next]_vars
  PROVE  CritInv'
<1>1. CASE UNCHANGED vars
  BY <1>1 DEF vars, systemVars, libraryVars, stateVars, criticalVars, clientVars, CritInv
<1>2. CASE System
  BY <1>1, <1>2, BootKeepsCrit, KeepsCritInv DEF System
<1>3. CASE FreeOp
  <2>1. CASE UserYield \/ UserTask
    <3>1. KeepsCrit
      BY <2>1 DEF UserYield, UserTask, TaskInline, TaskQueue, ButTasks, libraryVars, stateVars,
                  criticalVars, KeepsCrit
    <3> QED
      BY <3>1, KeepsCritInv
  <2> QED
    BY <1>3, <2>1, CriticalKeepsCritInv, LockOpKeepsCrit, KeepsCritInv DEF FreeOp
<1>4. CASE Construct
  BY <1>4, ConstructKeepsCrit, KeepsCritInv
<1>5. CASE TaskLife
  <2>1. CASE EndMain
    BY <2>1, BootKeepsCrit, KeepsCritInv DEF EndMain
  <2> QED
    BY <1>5, <2>1, WorkerKeepsCrit, KeepsCritInv, RegionKeepsCritInv DEF TaskLife
<1> QED
  BY <1>1, <1>2, <1>3, <1>4, <1>5 DEF Next

(* At most one context is inside a critical or atomic construct, and the   *)
(* mutex of the current team is set exactly while one is: no interleaving  *)
(* of GOMP_critical_start's retries with GOMP_critical_end, and no end of  *)
(* a region, lets two in or leaves the mutex behind.                       *)
THEOREM CriticalExcludes ==
  ASSUME TasksInRegions
  PROVE  Spec => []MutualExclusion
<1>1. Init => TaskInv /\ CritInv
  BY InitTaskInv, InitCritInv
<1>2. TaskInv /\ CritInv /\ [Next]_vars => (TaskInv /\ CritInv)'
  BY NextTaskInv, NextCritInv
<1>3. CritInv => MutualExclusion
  <2> SUFFICES ASSUME CritInv PROVE MutualExclusion
    OBVIOUS
  <2>1. Cardinality(inCrit) <= 1
    <3>1. CASE inCrit = {}
      BY <3>1, FS_EmptySet
    <3>2. CASE inCrit # {}
      <4>1. PICK c : inCrit = {c}
        BY <3>2 DEF CritInv
      <4>2. Cardinality(inCrit) = 1
        BY <4>1, FS_Singleton
      <4> QED
        BY <4>2
    <3> QED
      BY <3>1, <3>2
  <2> QED
    BY <2>1 DEF MutualExclusion, CritInv
<1> QED
  BY <1>1, <1>2, <1>3, PTL DEF Spec

-----------------------------------------------------------------------------
(* The threads.  Where a context waits suspended in its own Thread object. *)
Waiting == {"barrier", "critical"}
Gone == {"unborn", "dead"}
Existing == {c \in Contexts : pc[c] \notin Gone}

(* Who has arrived is suspended in the barrier.  One releasing loop runs   *)
(* at a time, and those it has still to resume are suspended.              *)
BarrierFlags ==
  /\ arrived \in [Ids -> BOOLEAN] /\ toResume \in [Contexts -> SUBSET Ids]
  /\ \A i \in Ids : arrived[i] =>
       pc[i] = "barrier" /\ saved[i] = i /\ i \in TeamIds /\ toResume[i] = {}
  /\ \A c \in Contexts, i \in Ids : i \in toResume[c] =>
       /\ pc[c] = "barrier" /\ c \in TeamIds
       /\ i \in TeamIds \ {c} /\ pc[i] = "barrier" /\ saved[i] = i /\ ~arrived[i]
  /\ \A c, d \in Contexts : toResume[c] # {} /\ toResume[d] # {} => c = d

(* Who waits for the mutex is suspended, or has just been resumed to a     *)
(* free mutex.                                                             *)
CriticalFlags ==
  /\ mwaiting \in [Ids -> BOOLEAN] /\ mindex \in Ids
  /\ \A i \in Ids : mwaiting[i] <=> pc[i] = "critical"
  /\ \A i \in Ids : pc[i] = "critical" => saved[i] = i \/ (cpu = i /\ ~mutex[team])

(* The contexts are each in one place, in step with the flags of barriers  *)
(* and criticals.                                                          *)
ThreadInv ==
  /\ OpsInv(Existing)
  /\ DOMAIN saved = Ids /\ \A i \in Ids : saved[i] \in {i, NoContext}
  /\ pc[Main] \notin Waiting
  /\ BarrierFlags
  /\ CriticalFlags

-----------------------------------------------------------------------------
(* The context on the CPU exists and is not suspended.                     *)
LEMMA Running ==
  ASSUME TaskInv, ThreadInv
  PROVE  /\ cpu \in Contexts /\ pc[cpu] \notin Gone
         /\ NoContext \notin Contexts
         /\ \A i \in Ids : saved[i] = i => i # cpu
         /\ cpu \in Ids => saved[cpu] = NoContext
<1>1. cpu \in Existing
  BY DEF ThreadInv, OpsInv
<1>2. NoContext \notin Contexts /\ Ids \subseteq Contexts
  BY GompAssumption DEF Contexts
<1>3. ASSUME NEW i \in Ids, saved[i] = i PROVE i # cpu
  <2>1. i \in InObjects
    BY <1>2, <1>3 DEF InObjects, Range, ThreadInv
  <2> QED
    BY <2>1 DEF ThreadInv, OpsInv, OnePlaceEach
<1> QED
  BY <1>1, <1>2, <1>3 DEF Existing, ThreadInv

(* The invariant of the context switches, for the contexts there are after *)
(* the step.                                                               *)
LEMMA ExistingPrimed ==
  ASSUME NEW D, D = Existing', OpsInv(D)'
  PROVE  OpsInv(Existing)'
BY DEF OpsInv, OnePlaceEach

(* A switch of contexts none of which begins or ends.                      *)
LEMMA SwitchKeeps ==
  ASSUME TaskInv, ThreadInv, Existing' = Existing,
         \/ UNCHANGED threadVars
         \/ Undefer
         \/ cpu # Bg /\ Yield
         \/ cpu # Bg /\ \E o \in Ids : Suspend(o) /\ saved[o] = NoContext
         \/ \E o \in Ids : Resume(o) /\ saved[o] # NoContext
  PROVE  OpsInv(Existing)'
<1> PICK D : D = Existing
  OBVIOUS
<1>1. OpsInv(D) /\ D = Existing' /\ DOMAIN saved = Ids
  BY DEF ThreadInv
<1>2. OpsInv(D)'
  <2>1. CASE UNCHANGED threadVars
    BY <1>1, <2>1 DEF threadVars, OpsInv, OnePlaceEach, BgUnderneath, OnStack, InFifo,
                      InObjects, IsInjective
  <2>2. CASE Undefer
    BY <1>1, <2>2, UndeferKeeps
  <2>3. CASE cpu # Bg /\ Yield
    BY <1>1, <2>3, YieldKeeps
  <2>4. CASE cpu # Bg /\ \E o \in Ids : Suspend(o) /\ saved[o] = NoContext
    BY <1>1, <2>4, SuspendKeeps
  <2>5. CASE \E o \in Ids : Resume(o) /\ saved[o] # NoContext
    BY <1>1, <2>5, ResumeKeeps
  <2> QED
    BY <2>1, <2>2, <2>3, <2>4, <2>5
<1> QED
  BY <1>1, <1>2, ExistingPrimed

(* The steps that nobody at a barrier or waiting for the mutex sees.       *)
Quiet ==
  /\ UNCHANGED <<num, saved, barrierVars, mwaiting, mindex>>
  /\ pc[cpu] \notin Waiting
  /\ \A c \in Contexts : pc'[c] = pc[c] \/ (pc[c] \notin Waiting /\ pc'[c] \notin Waiting)

(* Those steps keep the flags of barriers and criticals true.              *)
LEMMA QuietKeeps ==
  ASSUME TaskInv, ThreadInv, Quiet, OpsInv(Existing)'
  PROVE  ThreadInv'
<1> USE NamesDiffer
<1>1. BarrierFlags'
  BY DEF Quiet, ThreadInv, BarrierFlags, Waiting, barrierVars, TeamIds
<1>2. CriticalFlags'
  <2>1. \A i \in Ids : pc'[i] = "critical" <=> pc[i] = "critical"
    BY DEF Quiet, Waiting
  <2>2. \A i \in Ids : pc[i] = "critical" => saved[i] = i
    BY DEF Quiet, Waiting, ThreadInv, CriticalFlags
  <2> QED
    BY <2>1, <2>2 DEF Quiet, ThreadInv, CriticalFlags
<1> QED
  BY <1>1, <1>2 DEF ThreadInv, Quiet

(* The steps of a thread that goes on with its program, or yields.         *)
RunsOn ==
  /\ UNCHANGED <<num, barrierVars, mwaiting, mindex>>
  /\ cpu # Bg /\ pc[cpu] \notin Waiting
  /\ pc' = pc \/ \E s \in PcValues \ (Waiting \cup Gone) : Goto(s)
  /\ UNCHANGED threadVars \/ Yield

(* Those steps are quiet ones.                                             *)
LEMMA RunsOnKeeps ==
  ASSUME TaskInv, ThreadInv, RunsOn
  PROVE  ThreadInv'
<1>1. cpu \in Contexts /\ pc[cpu] \notin Gone
  BY Running
<1>2. \A c \in Contexts :
        \/ pc'[c] = pc[c]
        \/ c = cpu /\ pc'[c] \notin Waiting /\ pc'[c] \notin Gone
  BY <1>1 DEF RunsOn, Goto, TaskInv, PlacesInv
<1>3. Existing' = Existing
  BY <1>1, <1>2 DEF Existing
<1>4. OpsInv(Existing)'
  BY <1>3, SwitchKeeps DEF RunsOn
<1>5. Quiet
  BY <1>2 DEF RunsOn, Quiet, Yield, threadVars
<1> QED
  BY <1>4, <1>5, QuietKeeps

(* The free operations of a task, but for criticals, are such steps.       *)
LEMMA FreeRunsOn ==
  ASSUME TaskInv, ThreadInv, UserYield \/ UserTask \/ LockOp
  PROVE  RunsOn
<1> DEFINE On == {"user", "lock", "nest"}
<1>1. On \subseteq PcValues \ (Waiting \cup Gone)
  BY DEF PcValues, Waiting, Gone
<1>2. UNCHANGED <<num, barrierVars, mwaiting, mindex>>
  BY DEF UserYield, UserTask, LockOp, ButTasks, ButLocks, libraryVars, stateVars, criticalVars
<1>3. ASSUME pc[cpu] \in On, pc' = pc \/ \E s \in On : Goto(s), UNCHANGED threadVars \/ Yield
      PROVE  RunsOn
  <2>1. cpu # Bg
    BY <1>3 DEF TaskInv, PlacesInv
  <2> QED
    BY <1>1, <1>2, <1>3, <2>1 DEF RunsOn
<1>4. ASSUME NEW l, PollLock(l) \/ PollNest(l)
      PROVE  (\E s \in On : Goto(s)) /\ (UNCHANGED threadVars \/ Yield)
  BY <1>4 DEF PollLock, PollNest, TakeLock, AwaitLock, TakeNest, AwaitNest
<1>5. CASE UserYield \/ UserTask
  BY <1>3, <1>5 DEF UserYield, UserTask, Spend, At, TaskInline, TaskQueue
<1>6. CASE \E l \in Locks : UserLock(l) \/ UserTestLock(l) \/ UserUnlock(l)
  BY <1>3, <1>4, <1>6 DEF UserLock, UserTestLock, UserUnlock, SetLock, TestLock, UnsetLock, At
<1>7. CASE \E l \in NestLocks : UserNest(l) \/ UserTestNest(l) \/ UserUnnest(l) \/ UserResetNest(l)
  BY <1>3, <1>4, <1>7 DEF UserNest, UserTestNest, UserUnnest, UserResetNest, SetNest, TestNest,
                          UnsetNest, ResetNest, NestAgain, At
<1>8. CASE PollAgain
  BY <1>3, <1>4, <1>8 DEF PollAgain, LockRetry, NestRetry, At
<1> QED
  BY <1>5, <1>6, <1>7, <1>8 DEF LockOp

(* So are singles, sections, and where tasks and regions end.              *)
LEMMA TaskRunsOn ==
  ASSUME TaskInv, ThreadInv,
         UserSingle \/ UserSections \/ UserNextSection \/ Worker \/ EndTask \/ Join
  PROVE  RunsOn
<1>1. UNCHANGED <<num, barrierVars, mwaiting, mindex>>
  BY DEF UserSingle, UserSections, UserNextSection, GoToSection, Worker, EndTask, Join, ButSingle,
         ButSections, ButTasks, stateVars, criticalVars
<1>2. pc[cpu] \in {"user", "loop", "join"} /\ cpu # Bg
  <2>1. pc[cpu] \in {"user", "loop", "join"}
    BY DEF UserSingle, SingleStart, UserSections, SectionsStart, UserNextSection, SectionsNext,
           Worker, WorkerImplicit, WorkerExplicit, WorkerIdle, EndTask, WorkerDone, Join, JoinWait,
           JoinDone, At
  <2> QED
    BY <2>1 DEF TaskInv, PlacesInv
<1>3. pc' = pc \/ Goto("user") \/ Goto("loop")
  BY DEF UserSingle, SingleStart, UserSections, SectionsStart, UserNextSection, SectionsNext,
         Worker, WorkerImplicit, WorkerExplicit, WorkerIdle, EndTask, WorkerDone, Join, JoinWait,
         JoinDone
<1>4. UNCHANGED threadVars \/ Yield
  BY DEF UserSingle, SingleStart, UserSections, SectionsStart, UserNextSection, SectionsNext,
         Worker, WorkerImplicit, WorkerExplicit, WorkerIdle, EndTask, WorkerDone, Join, JoinWait,
         JoinDone
<1> QED
  BY <1>1, <1>2, <1>3, <1>4 DEF RunsOn, PcValues, Waiting, Gone

-----------------------------------------------------------------------------
(* start(): threads begin, deferred ones go on, and main() ends.           *)
LEMMA BootKeeps ==
  ASSUME TaskInv, ThreadInv, Boot \/ EndMain, UNCHANGED clientVars
  PROVE  ThreadInv'
<1> USE InsideFacts
<1>1. UNCHANGED <<num, barrierVars, mwaiting, mindex>>
  BY DEF Boot, SpawnWorker, SpawnMain, Background, Halt, EndMain, MainReturns, libraryVars,
         stateVars, criticalVars
<1> PICK C : C = Existing
  OBVIOUS
<1> PICK D : D = Existing'
  OBVIOUS
<1>2. OpsInv(C) /\ NoContext \notin Contexts /\ pc \in [Contexts -> PcValues]
  BY Running DEF ThreadInv, TaskInv, PlacesInv
<1>3. CASE SpawnWorker
  <2>1. PICK i \in Ids : pc[i] = "unborn" /\ Start(i) /\ pc' = [pc EXCEPT ![i] = "loop"]
    BY <1>3, MinUnborn DEF SpawnWorker, Unborn
  <2>2. i \notin C /\ i # NoContext /\ D = C \cup {i}
    BY <1>2, <2>1 DEF Existing, Gone
  <2>3. OpsInv(Existing)'
    BY <1>2, <2>1, <2>2, StartKeeps, ExistingPrimed
  <2>4. Quiet
    BY <1>1, <1>2, <1>3, <2>1 DEF Quiet, SpawnWorker, Start, At, Waiting
  <2> QED
    BY <2>3, <2>4, QuietKeeps
<1>4. CASE SpawnMain
  <2>1. /\ pc' = [pc EXCEPT ![Main] = "user", ![Bg] = "background"] /\ Start(Main)
        /\ cpu \in Contexts /\ pc[cpu] = "boot"
    BY <1>4 DEF SpawnMain, At
  <2>2. pc[Main] = "unborn" /\ pc[Bg] = "boot"
    BY <2>1, NamesDiffer DEF TaskInv, PlacesInv, Inside
  <2>3. Main \notin C /\ Main # NoContext /\ D = C \cup {Main}
    BY <1>2, <2>1, <2>2 DEF Existing, Gone
  <2>4. OpsInv(Existing)'
    BY <1>2, <2>1, <2>3, StartKeeps, ExistingPrimed
  <2>5. Quiet
    BY <1>1, <1>2, <2>1, <2>2 DEF Quiet, Start, Waiting
  <2> QED
    BY <2>4, <2>5, QuietKeeps
<1>5. CASE Background
  <2>1. pc' = pc /\ Undefer /\ pc[cpu] = "background"
    BY <1>5 DEF Background, At
  <2>2. OpsInv(Existing)'
    BY <2>1, SwitchKeeps DEF Existing
  <2>3. Quiet
    BY <1>1, <2>1 DEF Quiet, Undefer, threadVars, Waiting
  <2> QED
    BY <2>2, <2>3, QuietKeeps
<1>6. CASE Halt
  <2>1. pc[cpu] = "background" /\ cpu \in Contexts /\ pc' = [pc EXCEPT ![cpu] = "halt"]
        /\ UNCHANGED threadVars
    BY <1>6 DEF Halt, At, Goto
  <2>2. OpsInv(Existing)'
    <3>1. Existing' = Existing
      BY <1>2, <2>1 DEF Existing, Gone
    <3> QED
      BY <2>1, <3>1, SwitchKeeps
  <2>3. Quiet
    BY <1>1, <1>2, <2>1 DEF Quiet, threadVars, Waiting
  <2> QED
    BY <2>2, <2>3, QuietKeeps
<1>7. CASE EndMain
  <2>1. cpu = Main /\ pc[Main] = "user" /\ pc' = [pc EXCEPT ![Main] = "dead"] /\ Return
    BY <1>7 DEF EndMain, MainReturns, At, Goto
  <2>2. D = C \ {cpu} /\ cpu # Bg
    BY <1>2, <2>1 DEF Existing, Gone
  <2>3. OpsInv(Existing)'
    BY <1>2, <2>1, <2>2, ReturnKeeps, ExistingPrimed
  <2>4. Quiet
    BY <1>1, <1>2, <2>1 DEF Quiet, Return, Waiting
  <2> QED
    BY <2>3, <2>4, QuietKeeps
<1> QED
  BY <1>3, <1>4, <1>5, <1>6, <1>7 DEF Boot

(* Nobody is at a barrier or waits for the mutex where a region begins.    *)
LEMMA StartRegionKeeps ==
  ASSUME TaskInv, ThreadInv, StartRegion
  PROVE  ThreadInv'
<1> USE InsideFacts
<1>1. PICK n \in NumThreads : Parallel(n)
  BY DEF StartRegion
<1>2. cpu = Main /\ pc[Main] = "user" /\ tasks[1] = 0
  BY <1>1, SerialFacts DEF StartRegion, Parallel
<1>3. /\ UNCHANGED <<threadVars, toResume, mindex>> /\ pc' = [pc EXCEPT ![cpu] = "join"]
      /\ \E S : /\ arrived' = [i \in Ids |-> i \notin S /\ arrived[i]]
                /\ mwaiting' = [i \in Ids |-> i \notin S /\ mwaiting[i]]
  <2>1. UNCHANGED <<threadVars, toResume, mindex>> /\ pc' = [pc EXCEPT ![cpu] = "join"]
    BY <1>1 DEF Parallel, Goto
  <2>2. /\ arrived' = [i \in Ids |-> i \notin 0 .. TeamSize(n) - 1 /\ arrived[i]]
        /\ mwaiting' = [i \in Ids |-> i \notin 0 .. TeamSize(n) - 1 /\ mwaiting[i]]
    BY <1>1 DEF Parallel
  <2> QED
    BY <2>1, <2>2
<1>4. \A i \in Ids : pc[i] \in {"unborn", "loop"} /\ pc'[i] = pc[i]
  BY <1>2, <1>3, AllIdle
<1>5. \A i \in Ids : ~arrived[i] /\ ~mwaiting[i]
  BY <1>4 DEF ThreadInv, BarrierFlags, CriticalFlags
<1>6. \A c \in Contexts : toResume[c] = {}
  BY <1>4 DEF ThreadInv, BarrierFlags
<1>7. arrived' = [i \in Ids |-> FALSE] /\ mwaiting' = [i \in Ids |-> FALSE]
  BY <1>3, <1>5
<1>8. OpsInv(Existing)'
  <2>1. Existing' = Existing
    BY <1>2, <1>3 DEF Existing, Gone, TaskInv, PlacesInv
  <2> QED
    BY <1>3, <2>1, SwitchKeeps
<1>9. BarrierFlags'
  BY <1>3, <1>6, <1>7 DEF ThreadInv, BarrierFlags
<1>10. CriticalFlags'
  BY <1>3, <1>4, <1>7 DEF ThreadInv, CriticalFlags
<1> QED
  BY <1>2, <1>3, <1>8, <1>9, <1>10 DEF ThreadInv, threadVars, Waiting, TaskInv, PlacesInv

-----------------------------------------------------------------------------
(* A member that comes to a barrier.                                       *)
LEMMA ArrivesFacts ==
  ASSUME TaskInv, ThreadInv, UserBarrier \/ UserEndSections
  PROVE  /\ cpu \in Ids /\ cpu \in TeamIds /\ Me = cpu /\ BarrierEnter
         /\ pc[cpu] = "user" /\ pc' = [pc EXCEPT ![cpu] = "barrier"]
         /\ saved[cpu] = NoContext /\ ~arrived[cpu] /\ toResume[cpu] = {}
         /\ \A c \in Contexts : cpu \notin toResume[c]
         /\ UNCHANGED <<num, team, mutex, mwaiting, mindex>>
<1>1. Role = "implicit" /\ BarrierEnter
  BY DEF UserBarrier, UserEndSections, Meets, SectionsEnd
<1>2. cpu \in Ids /\ kind[cpu] = "implicit"
  BY <1>1 DEF Role
<1>3. cpu \in TeamIds /\ Me = cpu
  BY <1>2 DEF Me, TaskInv, WorkersInv
<1>4. pc[cpu] = "user" /\ pc' = [pc EXCEPT ![cpu] = "barrier"]
  BY <1>1 DEF BarrierEnter, At, Goto
<1>5. UNCHANGED <<num, team, mutex, mwaiting, mindex>>
  BY DEF UserBarrier, UserEndSections, ButBarrier, stateVars, criticalVars
<1>6. ~arrived[cpu] /\ toResume[cpu] = {} /\ \A c \in Contexts : cpu \notin toResume[c]
  BY <1>2, <1>4, InsideFacts DEF ThreadInv, BarrierFlags
<1>7. saved[cpu] = NoContext
  BY <1>2, Running
<1> QED
  BY <1>1, <1>2, <1>3, <1>4, <1>5, <1>6, <1>7

(* It suspends in its own object, which is empty, or it clears the flags   *)
(* and sets out to resume the others, who are all suspended.               *)
LEMMA BarrierEnterKeeps ==
  ASSUME TaskInv, ThreadInv, UserBarrier \/ UserEndSections
  PROVE  ThreadInv'
<1> USE InsideFacts
<1>1. /\ cpu \in Ids /\ cpu \in TeamIds /\ Me = cpu /\ BarrierEnter
      /\ pc[cpu] = "user" /\ pc' = [pc EXCEPT ![cpu] = "barrier"]
      /\ saved[cpu] = NoContext /\ ~arrived[cpu] /\ toResume[cpu] = {}
      /\ \A c \in Contexts : cpu \notin toResume[c]
      /\ UNCHANGED <<num, team, mutex, mwaiting, mindex>>
  BY ArrivesFacts
<1>2. pc \in [Contexts -> PcValues] /\ saved \in [Ids -> (Existing \ {Bg}) \cup {NoContext}]
  BY DEF TaskInv, PlacesInv, ThreadInv, OpsInv
<1>3. Existing' = Existing
  BY <1>1, <1>2 DEF Existing, Gone
<1>4. PICK w \in Ids : w = cpu
  BY <1>1
<1>5. CASE BarrierWait
  <2>1. /\ arrived' = [arrived EXCEPT ![w] = TRUE] /\ Suspend(w) /\ toResume' = toResume
        /\ saved' = [saved EXCEPT ![w] = w]
    BY <1>1, <1>4, <1>5 DEF BarrierWait, Suspend
  <2>2. OpsInv(Existing)'
    BY <1>1, <1>3, <1>4, <2>1, SwitchKeeps
  <2>3. BarrierFlags'
    BY <1>1, <1>2, <1>4, <2>1 DEF ThreadInv, BarrierFlags, TeamIds
  <2>4. CriticalFlags'
    BY <1>1, <1>2, <1>4, <2>1 DEF ThreadInv, CriticalFlags
  <2> QED
    BY <1>1, <1>2, <2>1, <2>2, <2>3, <2>4 DEF ThreadInv
<1>6. CASE BarrierLast
  <2>1. /\ \A i \in TeamIds \ {w} : arrived[i]
        /\ arrived' = [i \in Ids |-> i \notin TeamIds /\ arrived[i]]
        /\ toResume' = [toResume EXCEPT ![w] = TeamIds \ {w}] /\ UNCHANGED threadVars
    BY <1>1, <1>4, <1>6 DEF BarrierLast, TeamToScan, ToRelease
  <2>2. OpsInv(Existing)'
    BY <1>3, <2>1, SwitchKeeps
  <2>3. arrived' = [i \in Ids |-> FALSE]
    BY <2>1 DEF ThreadInv, BarrierFlags
  <2>4. \A c \in Contexts : toResume[c] = {}
    BY <1>1, <1>4, <2>1 DEF ThreadInv, BarrierFlags
  <2>5. BarrierFlags'
    <3>1. TeamIds \subseteq Ids /\ TeamIds' = TeamIds
      BY <1>1, TeamInIds DEF TaskInv, TeamIds
    <3>2. \A c \in Contexts : toResume'[c] = IF c = w THEN TeamIds \ {w} ELSE {}
      BY <2>1, <2>4, <1>4 DEF ThreadInv, BarrierFlags
    <3>3. \A i \in TeamIds \ {w} : pc'[i] = "barrier" /\ saved'[i] = i
      BY <1>1, <1>2, <1>4, <2>1, <3>1 DEF ThreadInv, BarrierFlags, threadVars
    <3>4. toResume' \in [Contexts -> SUBSET Ids]
      BY <2>1, <3>1 DEF ThreadInv, BarrierFlags
    <3> QED
      BY <1>1, <1>2, <1>4, <2>3, <3>1, <3>2, <3>3, <3>4 DEF BarrierFlags
  <2>6. CriticalFlags'
    BY <1>1, <1>2, <1>4, <2>1 DEF ThreadInv, CriticalFlags, threadVars
  <2> QED
    BY <1>1, <1>2, <2>1, <2>2, <2>5, <2>6 DEF ThreadInv, threadVars
<1> QED
  BY <1>1, <1>5, <1>6 DEF BarrierEnter

(* The releasing loop resumes somebody suspended; those resumed go on.     *)
LEMMA InBarrierKeeps ==
  ASSUME TaskInv, ThreadInv, InBarrier
  PROVE  ThreadInv'
<1> USE InsideFacts
<1>1. cpu \in Contexts /\ pc[cpu] = "barrier" /\ UNCHANGED <<num, team, mutex, mwaiting, mindex>>
  BY DEF InBarrier, BarrierRelease, BarrierReturn, At, ButBarrier, stateVars, criticalVars
<1>2. PICK w \in Ids : w = cpu
  BY <1>1, NamesDiffer DEF ThreadInv, Waiting, TaskInv, PlacesInv
<1>3. /\ pc \in [Contexts -> PcValues] /\ saved \in [Ids -> (Existing \ {Bg}) \cup {NoContext}]
      /\ saved[w] = NoContext /\ NoContext \notin Contexts
  BY <1>2, Running DEF TaskInv, PlacesInv, ThreadInv, OpsInv
<1>4. CASE BarrierRelease
  <2>1. PICK o \in Ids : o \in toResume[w] /\ Resume(o) /\ pc' = pc /\ arrived' = arrived
                         /\ toResume' = [toResume EXCEPT ![w] = @ \ {o}]
    <3>1. toResume[w] \subseteq Nat /\ toResume[w] # {} /\ toResume[w] \subseteq Ids
      BY <1>2, <1>4, MeInIds DEF BarrierRelease, ThreadInv, BarrierFlags, Ids
    <3>2. Min(toResume[w]) \in toResume[w]
      BY <3>1, MinIn
    <3> QED
      BY <1>2, <1>4, <3>1, <3>2 DEF BarrierRelease
  <2>2. /\ saved[o] = o /\ pc[o] = "barrier" /\ ~arrived[o] /\ o # w
        /\ saved' = [saved EXCEPT ![o] = NoContext]
    BY <1>1, <1>2, <2>1 DEF ThreadInv, BarrierFlags, Resume
  <2>3. OpsInv(Existing)'
    <3>1. Existing' = Existing
      BY <2>1 DEF Existing
    <3> QED
      BY <1>3, <2>1, <2>2, <3>1, SwitchKeeps
  <2>4. BarrierFlags'
    <3>1. \A c \in Contexts : c # w => toResume[c] = {}
      BY <1>1, <1>2, <2>1 DEF ThreadInv, BarrierFlags
    <3> QED
      BY <1>1, <1>2, <1>3, <2>1, <2>2, <3>1 DEF ThreadInv, BarrierFlags, TeamIds
  <2>5. CriticalFlags'
    BY <1>1, <1>2, <1>3, <2>1, <2>2 DEF ThreadInv, CriticalFlags
  <2> QED
    BY <1>3, <2>1, <2>2, <2>3, <2>4, <2>5 DEF ThreadInv
<1>5. CASE BarrierReturn
  <2>1. toResume[w] = {} /\ pc' = [pc EXCEPT ![w] = "user"] /\ UNCHANGED <<threadVars, barrierVars>>
    BY <1>2, <1>5 DEF BarrierReturn, Goto
  <2>2. OpsInv(Existing)'
    <3>1. Existing' = Existing
      BY <1>1, <1>2, <1>3, <2>1 DEF Existing, Gone
    <3> QED
      BY <2>1, <3>1, SwitchKeeps
  <2>3. BarrierFlags'
    BY <1>1, <1>2, <1>3, <2>1 DEF ThreadInv, BarrierFlags, TeamIds, threadVars, barrierVars
  <2>4. CriticalFlags'
    BY <1>1, <1>2, <1>3, <2>1 DEF ThreadInv, CriticalFlags, threadVars
  <2> QED
    BY <1>2, <1>3, <2>1, <2>2, <2>3, <2>4 DEF ThreadInv, threadVars
<1> QED
  BY <1>4, <1>5 DEF InBarrier

-----------------------------------------------------------------------------
(* main() never waits for the mutex: outside a region nobody has it.       *)
LEMMA MainNeverWaits ==
  ASSUME TaskInv, CritInv, At("user"), Unencumbered, cpu \notin Ids
  PROVE  ~mutex[team]
<1>1. cpu = Main /\ pc[Main] = "user" /\ Main \notin inCrit
  BY NamesDiffer DEF At, Unencumbered, TaskInv, PlacesInv
<1>2. tasks[1] = 0
  BY <1>1 DEF TaskInv, PlacesInv, CountsInv
<1>3. pc[Bg] # "user" /\ \A i \in Ids : pc[i] # "user"
  BY <1>2, AllIdle DEF TaskInv, PlacesInv
<1> QED
  BY <1>1, <1>3, NamesDiffer DEF CritInv

(* GOMP_critical_start suspends the caller in its own object or takes a    *)
(* free mutex.                                                             *)
LEMMA CriticalStartKeeps ==
  ASSUME TaskInv, CritInv, ThreadInv, UserCritical \/ Retry
  PROVE  ThreadInv'
<1> USE InsideFacts
<1>1. /\ cpu \in Contexts /\ pc[cpu] \in {"user", "critical"} /\ TestMutex
      /\ UNCHANGED <<num, team, barrierVars, mindex>>
  BY DEF UserCritical, Retry, CriticalStart, CriticalRetry, TestMutex, At, ButCritical, stateVars
<1>2. pc \in [Contexts -> PcValues] /\ mutex \in [TeamNos -> BOOLEAN] /\ team \in TeamNos
  BY Sizes DEF TaskInv, PlacesInv, CritInv
<1>3. CASE ~mutex[team]
  <2>1. /\ pc' = [pc EXCEPT ![cpu] = "user"] /\ UNCHANGED threadVars
        /\ mutex' = [mutex EXCEPT ![team] = TRUE]
        /\ mwaiting' = IF pc[cpu] = "critical" THEN [mwaiting EXCEPT ![Me] = FALSE] ELSE mwaiting
    BY <1>1, <1>3 DEF TestMutex, TakeMutex, Goto, At
  <2>2. OpsInv(Existing)'
    <3>1. Existing' = Existing
      BY <1>1, <1>2, <2>1 DEF Existing, Gone
    <3> QED
      BY <2>1, <3>1, SwitchKeeps
  <2>3. CASE cpu = Main
    <3>1. pc' = pc /\ mwaiting' = mwaiting
      BY <1>1, <1>2, <2>1, <2>3 DEF ThreadInv, Waiting
    <3> QED
      BY <1>1, <2>1, <2>2, <2>3, <3>1, QuietKeeps DEF Quiet, threadVars, ThreadInv
  <2>4. CASE cpu \in Ids
    <3>1. PICK w \in Ids : w = cpu /\ Me = w
      BY <2>4 DEF Me
    <3>2. mwaiting' = [mwaiting EXCEPT ![w] = FALSE]
      BY <1>1, <2>1, <3>1 DEF ThreadInv, CriticalFlags
    <3>3. BarrierFlags'
      BY <1>1, <1>2, <2>1, <3>1 DEF ThreadInv, BarrierFlags, TeamIds, threadVars, barrierVars
    <3>4. CriticalFlags'
      BY <1>1, <1>2, <2>1, <3>1, <3>2 DEF ThreadInv, CriticalFlags, threadVars
    <3> QED
      BY <1>2, <2>1, <2>2, <3>1, <3>3, <3>4 DEF ThreadInv, threadVars
  <2> QED
    BY <1>1, <2>3, <2>4, NamesDiffer DEF TaskInv, PlacesInv
<1>4. CASE mutex[team]
  <2>1. PICK w \in Ids : w = cpu /\ Me = w
    <3>1. UserCritical => cpu \in Ids
      BY <1>4, MainNeverWaits DEF UserCritical, CriticalStart
    <3>2. Retry => cpu \in Ids
      BY NamesDiffer DEF Retry, CriticalRetry, At, ThreadInv, Waiting, TaskInv, PlacesInv
    <3> QED
      BY <3>1, <3>2 DEF Me
  <2>2. /\ pc' = [pc EXCEPT ![w] = "critical"] /\ Suspend(w) /\ mutex' = mutex
        /\ mwaiting' = [mwaiting EXCEPT ![w] = TRUE]
        /\ saved' = [saved EXCEPT ![w] = w]
    BY <1>1, <1>4, <2>1 DEF TestMutex, AwaitMutex, Goto, Suspend
  <2>3. saved[w] = NoContext /\ saved \in [Ids -> (Existing \ {Bg}) \cup {NoContext}]
    BY <2>1, Running DEF ThreadInv, OpsInv
  <2>4. OpsInv(Existing)'
    <3>1. Existing' = Existing
      BY <1>1, <1>2, <2>1, <2>2 DEF Existing, Gone
    <3> QED
      BY <2>1, <2>2, <2>3, <3>1, SwitchKeeps
  <2>5. BarrierFlags'
    BY <1>1, <1>2, <2>1, <2>2, <2>3 DEF ThreadInv, BarrierFlags, TeamIds, barrierVars
  <2>6. CriticalFlags'
    BY <1>1, <1>2, <2>1, <2>2, <2>3 DEF ThreadInv, CriticalFlags
  <2> QED
    BY <1>2, <2>1, <2>2, <2>3, <2>4, <2>5, <2>6 DEF ThreadInv
<1> QED
  BY <1>3, <1>4

(* The rotation of the commutator stays among the threads there are.       *)
LEMMA RotationFacts ==
  ASSUME PlacesInv, mindex \in Ids
  PROVE  /\ DOMAIN Rotation = TeamIds /\ DOMAIN Rotation \subseteq Nat
         /\ \A k \in DOMAIN Rotation : Rotation[k] \in Ids
         /\ \A n \in Nat : n % num \in TeamIds /\ n % num \in Ids
<1>1. num \in Nat /\ num >= 1 /\ TeamIds \subseteq Ids /\ TeamIds \subseteq Nat
  BY TeamInIds, Sizes DEF PlacesInv, TeamIds
<1>2. ASSUME NEW n \in Nat PROVE n % num \in TeamIds
  BY <1>1 DEF TeamIds
<1>3. ASSUME NEW k \in TeamIds PROVE Rotation[k] \in Ids
  <2>1. mindex + k \in Nat
    BY <1>1, Sizes DEF Ids
  <2> QED
    BY <1>1, <1>2, <2>1 DEF Rotation, TeamIds
<1> QED
  BY <1>1, <1>2, <1>3 DEF Rotation, TeamIds

(* GOMP_critical_end resumes a thread that is suspended for the mutex.     *)
LEMMA CriticalEndKeeps ==
  ASSUME TaskInv, CritInv, ThreadInv, UserEndCritical
  PROVE  ThreadInv'
<1> USE InsideFacts
<1>1. /\ CriticalEnd /\ cpu \in Contexts /\ pc[cpu] = "user" /\ pc' = pc /\ mwaiting' = mwaiting
      /\ mutex' = [mutex EXCEPT ![team] = FALSE] /\ UNCHANGED <<num, team, barrierVars>>
  BY DEF UserEndCritical, CriticalEnd, At, ButCritical, stateVars
<1>2. /\ mutex \in [TeamNos -> BOOLEAN] /\ team \in TeamNos /\ Existing' = Existing
      /\ saved \in [Ids -> (Existing \ {Bg}) \cup {NoContext}] /\ NoContext \notin Contexts
  BY <1>1, Sizes, Running DEF TaskInv, PlacesInv, CritInv, Existing, ThreadInv, OpsInv
<1>3. /\ DOMAIN Rotation \subseteq Nat /\ \A k \in DOMAIN Rotation : Rotation[k] \in Ids
      /\ \A n \in Nat : n % num \in Ids
  BY RotationFacts DEF TaskInv, ThreadInv, CriticalFlags
<1>4. mindex \in Nat /\ num \in Nat
  BY TeamInIds, Sizes DEF TaskInv, ThreadInv, CriticalFlags, Ids
<1>5. CASE Waiters = {}
  <2>1. mindex' = (mindex + num) % num /\ UNCHANGED threadVars
    BY <1>1, <1>5 DEF CriticalEnd
  <2>2. mindex' \in Ids
    BY <1>3, <1>4, <2>1
  <2>3. OpsInv(Existing)'
    BY <1>2, <2>1, SwitchKeeps
  <2>4. BarrierFlags'
    BY <1>1, <2>1 DEF ThreadInv, BarrierFlags, TeamIds, threadVars, barrierVars
  <2>5. CriticalFlags'
    BY <1>1, <1>2, <2>1, <2>2 DEF ThreadInv, CriticalFlags, threadVars
  <2> QED
    BY <1>1, <2>1, <2>3, <2>4, <2>5 DEF ThreadInv, threadVars
<1>6. CASE Waiters # {}
  <2>1. Min(Waiters) \in Waiters /\ Min(Waiters) \in Nat
    BY <1>3, <1>6, MinIn DEF Waiters
  <2>2. PICK o \in Ids : o = Rotation[Min(Waiters)] /\ mwaiting[o]
    BY <1>3, <2>1 DEF Waiters
  <2>3. /\ mindex' = (mindex + Min(Waiters) + 1) % num /\ Resume(o)
    BY <1>1, <1>6, <2>2 DEF CriticalEnd
  <2>4. mindex' \in Ids
    <3>1. mindex + Min(Waiters) + 1 \in Nat
      BY <1>4, <2>1
    <3> QED
      BY <1>3, <2>3, <3>1
  <2>5. /\ saved[o] = o /\ pc[o] = "critical" /\ o # cpu /\ cpu' = o
        /\ saved' = [saved EXCEPT ![o] = NoContext]
    BY <1>1, <2>2, <2>3 DEF ThreadInv, CriticalFlags, Resume
  <2>6. OpsInv(Existing)'
    BY <1>2, <2>3, <2>5, SwitchKeeps
  <2>7. BarrierFlags'
    BY <1>1, <1>2, <2>2, <2>5 DEF ThreadInv, BarrierFlags, TeamIds, barrierVars
  <2>8. CriticalFlags'
    BY <1>1, <1>2, <2>2, <2>4, <2>5 DEF ThreadInv, CriticalFlags
  <2> QED
    BY <1>1, <1>2, <2>5, <2>6, <2>7, <2>8 DEF ThreadInv
<1> QED
  BY <1>5, <1>6

-----------------------------------------------------------------------------
(* start() begins alone on the CPU.                                        *)
LEMMA InitThreadInv == Init => ThreadInv
<1> SUFFICES ASSUME Init PROVE ThreadInv
  OBVIOUS
<1> USE InsideFacts DEF Init, SystemInit
<1>1. /\ cpu = Bg /\ pending = <<>> /\ deferred = <<>> /\ saved = [o \in Ids |-> NoContext]
      /\ Existing = {Bg} /\ Bg # NoContext
  BY GompAssumption DEF Existing, Gone, Contexts
<1>2. Range(pending) = {} /\ Range(deferred) = {} /\ InObjects = {}
  BY <1>1 DEF Range, InObjects
<1>3. IsInjective(pending) /\ IsInjective(deferred)
  BY <1>1 DEF IsInjective
<1>4. OnePlaceEach({Bg})
  BY <1>1, <1>2, <1>3 DEF OnePlaceEach, OnStack, InFifo
<1>5. pending \in Seq({Bg}) /\ deferred \in Seq({Bg} \ {Bg})
  BY <1>1, EmptySeq
<1>6. OpsInv({Bg})
  <2>1. saved \in [DOMAIN saved -> ({Bg} \ {Bg}) \cup {NoContext}]
    BY <1>1
  <2> QED
    BY <1>1, <1>4, <1>5, <2>1 DEF OpsInv, BgUnderneath
<1>7. OpsInv(Existing)
  BY <1>1, <1>6
<1>8. BarrierFlags
  BY <1>1 DEF BarrierFlags
<1>9. CriticalFlags
  BY <1>1, Sizes, MeInIds DEF CriticalFlags
<1> QED
  BY <1>1, <1>7, <1>8, <1>9 DEF ThreadInv, Waiting

(* Every step keeps the invariant.                                         *)
LEMMA NextThreadInv ==
  ASSUME TaskInv, CritInv, ThreadInv, [Next]_vars
  PROVE  ThreadInv'
<1>1. CASE UNCHANGED vars
  <2>1. /\ UNCHANGED threadVars /\ pc' = pc /\ UNCHANGED <<team, mutex>>
        /\ UNCHANGED <<num, arrived, toResume, mwaiting, mindex>>
    BY <1>1 DEF vars, systemVars, libraryVars, stateVars, barrierVars, criticalVars
  <2>2. OpsInv(Existing)'
    BY <2>1, SwitchKeeps DEF Existing
  <2> QED
    BY <2>1, <2>2 DEF ThreadInv, BarrierFlags, CriticalFlags, threadVars, TeamIds
<1>2. CASE System
  BY <1>1, <1>2, BootKeeps DEF System
<1>3. CASE FreeOp
  BY <1>3, FreeRunsOn, RunsOnKeeps, CriticalStartKeeps, CriticalEndKeeps DEF FreeOp
<1>4. CASE Construct
  BY <1>4, TaskRunsOn, RunsOnKeeps, BarrierEnterKeeps, InBarrierKeeps DEF Construct
<1>5. CASE TaskLife
  <2>1. CASE EndMain
    BY <2>1, BootKeeps DEF EndMain
  <2> QED
    BY <1>5, <2>1, TaskRunsOn, RunsOnKeeps, StartRegionKeeps DEF TaskLife
<1> QED
  BY <1>1, <1>2, <1>3, <1>4, <1>5 DEF Next

(* The inductive invariant of the whole system.                            *)
SysInv == TaskInv /\ CritInv /\ ThreadInv

(* It holds at any time.                                                   *)
LEMMA SysInvariant ==
  ASSUME TasksInRegions
  PROVE  Spec => []SysInv
<1>1. Init => SysInv
  BY InitTaskInv, InitCritInv, InitThreadInv DEF SysInv
<1>2. SysInv /\ [Next]_vars => SysInv'
  BY NextTaskInv, NextCritInv, NextThreadInv DEF SysInv
<1> QED
  BY <1>1, <1>2, PTL DEF Spec

(* Each context of start() is on the CPU, pending, deferred or suspended   *)
(* in one Thread object, and in no two of these, whatever the barriers,    *)
(* the criticals, the yields, the tasks and the regions do.                *)
THEOREM SystemOnePlace ==
  ASSUME TasksInRegions
  PROVE  Spec => []OnePlace
<1>1. SysInv => OnePlace
  BY DEF SysInv, ThreadInv, OpsInv, OnePlace, Existing, Gone
<1> QED
  BY <1>1, SysInvariant, PTL

-----------------------------------------------------------------------------
(* Further on the programs, to keep clear of two defects of                *)
(* GOMP_critical_end, which looks for a waiter only among the members of   *)
(* the current team and may start from a place of the last one: all teams  *)
(* have the same size, and an explicit task, which a worker outside the    *)
(* team may run, meets a critical construct only if there is none outside. *)
CriticalsInTeam ==
  /\ \A m, n \in NumThreads : TeamSize(m) = TeamSize(n)
  /\ "critical" \notin TaskOps \/ \A n \in NumThreads : TeamSize(n) = MaxThreads

(* The search begins inside the team and finds every waiter, and so none   *)
(* is left when the mutex is free.                                         *)
WakeInv ==
  /\ team = 1 => \E n \in NumThreads : num = TeamSize(n)
  /\ mindex # 0 => mindex \in TeamIds /\ \E n \in NumThreads : num = TeamSize(n)
  /\ \A i \in Ids : mwaiting[i] => i \in TeamIds
  /\ NoLostWakeup

(* A place inside the team, as mindex is reduced.                          *)
LEMMA SmallMod ==
  ASSUME NEW n \in Nat, NEW i \in 0 .. n - 1
  PROVE  i % n = i /\ (i + n) % n = i
OBVIOUS

(* The rotation passes every member of the team.                           *)
LEMMA RotationCovers ==
  ASSUME PlacesInv, mindex \in TeamIds, NEW i \in TeamIds
  PROVE  \E k \in DOMAIN Rotation : Rotation[k] = i
<1>1. num \in Nat /\ mindex \in Nat /\ i \in Nat /\ mindex < num /\ i < num
  BY TeamInIds DEF TeamIds
<1>2. DOMAIN Rotation = 0 .. num - 1
  BY DEF Rotation
<1>3. CASE i = mindex
  <2>1. 0 \in DOMAIN Rotation /\ Rotation[0] = i
    BY <1>1, <1>2, <1>3 DEF Rotation
  <2> QED
    BY <2>1
<1>4. CASE i > mindex
  <2>1. i - mindex \in 0 .. num - 1 /\ i - mindex # 0 /\ mindex + (i - mindex) = i
    BY <1>1, <1>4
  <2>2. i % num = i
    BY <1>1, SmallMod DEF TeamIds
  <2>3. Rotation[i - mindex] = i
    BY <2>1, <2>2 DEF Rotation
  <2> QED
    BY <1>2, <2>1, <2>3
<1>5. CASE i < mindex
  <2> DEFINE k == i + num - mindex
  <2>1. k \in 0 .. num - 1 /\ k # 0 /\ mindex + k = i + num
    BY <1>1, <1>5
  <2>2. (i + num) % num = i
    BY <1>1, SmallMod DEF TeamIds
  <2> HIDE DEF k
  <2>3. Rotation[k] = i
    BY <2>1, <2>2 DEF Rotation
  <2> QED
    BY <1>2, <2>1, <2>3
<1> QED
  BY <1>1, <1>3, <1>4, <1>5

(* The steps that neither free the mutex nor wait for it.                  *)
LEMMA OthersKeepWake ==
  ASSUME WakeInv, UNCHANGED <<num, team, mutex, mwaiting, mindex>>, pc[cpu] # "critical"
  PROVE  WakeInv'
BY DEF WakeInv, NoLostWakeup, TeamIds, At

(* A worker that is in a task is so in a region.                           *)
LEMMA BusyInRegion ==
  ASSUME TaskInv, NEW i \in Ids, pc[i] \notin {"unborn", "loop"}
  PROVE  team = 1
BY AllIdle DEF TaskInv, PlacesInv, CountsInv

(* Who starts to wait finds the mutex taken, and is a member of the team.  *)
LEMMA CriticalStartKeepsWake ==
  ASSUME CriticalsInTeam, TaskInv, CritInv, ThreadInv, WakeInv, UserCritical \/ Retry
  PROVE  WakeInv'
<1>1. /\ cpu \in Contexts /\ pc[cpu] \in {"user", "critical"} /\ TestMutex
      /\ UNCHANGED <<num, team, mindex>>
  BY DEF UserCritical, Retry, CriticalStart, CriticalRetry, TestMutex, At, ButCritical, stateVars
<1>2. mutex \in [TeamNos -> BOOLEAN] /\ team \in TeamNos
  BY Sizes DEF TaskInv, PlacesInv, CritInv
<1>3. CASE ~mutex[team]
  <2>1. /\ mutex' = [mutex EXCEPT ![team] = TRUE]
        /\ mwaiting' = mwaiting \/ mwaiting' = [mwaiting EXCEPT ![Me] = FALSE]
    BY <1>1, <1>3 DEF TestMutex, TakeMutex
  <2>2. mutex'[team'] /\ \A i \in Ids : mwaiting'[i] => mwaiting[i]
    BY <1>1, <1>2, <2>1 DEF ThreadInv, CriticalFlags
  <2> QED
    BY <1>1, <2>2 DEF WakeInv, NoLostWakeup, TeamIds
<1>4. CASE mutex[team]
  <2>1. PICK w \in Ids : w = cpu /\ Me = w
    <3>1. UserCritical => cpu \in Ids
      BY <1>4, MainNeverWaits DEF UserCritical, CriticalStart
    <3>2. Retry => cpu \in Ids
      BY NamesDiffer DEF Retry, CriticalRetry, At, ThreadInv, Waiting, TaskInv, PlacesInv
    <3> QED
      BY <3>1, <3>2 DEF Me
  <2>2. mutex' = mutex /\ mwaiting' = [mwaiting EXCEPT ![w] = TRUE]
    BY <1>1, <1>4, <2>1 DEF TestMutex, AwaitMutex
  <2>3. w \in TeamIds
    <3>1. CASE Retry
      BY <2>1, <3>1 DEF Retry, CriticalRetry, At, ThreadInv, CriticalFlags, WakeInv
    <3>2. CASE UserCritical
      <4>1. pc[w] = "user" /\ "critical" \in OpsOf[kind[w]] /\ kind[w] # "none"
        BY <2>1, <3>2 DEF UserCritical, CriticalStart, At, Spend, Role, TaskInv, WorkersInv
      <4>2. CASE kind[w] = "implicit"
        BY <4>2 DEF TaskInv, WorkersInv
      <4>3. CASE kind[w] = "explicit"
        <5>1. OpsOf["explicit"] = TaskOps
          BY DEF OpsOf
        <5>2. num = MaxThreads
          BY <4>1, <4>3, <5>1, BusyInRegion DEF CriticalsInTeam, WakeInv
        <5> QED
          BY <5>2 DEF TeamIds, Ids
      <4> QED
        BY <4>1, <4>2, <4>3 DEF TaskInv, WorkersInv
    <3> QED
      BY <3>1, <3>2
  <2> QED
    BY <1>1, <1>4, <2>2, <2>3 DEF WakeInv, NoLostWakeup, TeamIds, ThreadInv, CriticalFlags
<1> QED
  BY <1>3, <1>4

(* GOMP_critical_end leaves no waiter behind: with none resumed there was  *)
(* none, and one that is resumed runs at once.                             *)
LEMMA CriticalEndKeepsWake ==
  ASSUME TaskInv, CritInv, ThreadInv, WakeInv, UserEndCritical
  PROVE  WakeInv'
<1>1. CriticalEnd /\ pc' = pc /\ mwaiting' = mwaiting /\ UNCHANGED <<num, team>>
  BY DEF UserEndCritical, CriticalEnd, ButCritical, stateVars
<1>2. PlacesInv /\ mindex \in Ids /\ num \in Nat /\ num >= 1 /\ mindex \in TeamIds /\ mindex \in Nat
  BY TeamInIds, Sizes DEF TaskInv, PlacesInv, ThreadInv, CriticalFlags, WakeInv, TeamIds, Ids
<1>3. CASE Waiters = {}
  <2>1. \A i \in Ids : ~mwaiting[i]
    BY <1>2, <1>3, RotationCovers DEF Waiters, WakeInv
  <2>2. mindex' = mindex
    <3>1. mindex' = (mindex + num) % num
      BY <1>1, <1>3 DEF CriticalEnd
    <3> QED
      BY <1>2, <3>1, SmallMod DEF TeamIds
  <2> QED
    BY <1>1, <2>1, <2>2 DEF WakeInv, NoLostWakeup, TeamIds
<1>4. CASE Waiters # {}
  <2>1. Min(Waiters) \in Waiters /\ Min(Waiters) \in Nat
    BY <1>2, <1>4, MinIn, RotationFacts DEF Waiters
  <2>2. PICK o \in Ids : o = Rotation[Min(Waiters)] /\ mwaiting[o]
    BY <1>2, <2>1, RotationFacts DEF Waiters
  <2>3. mindex' = (mindex + Min(Waiters) + 1) % num /\ Resume(o)
    BY <1>1, <1>4, <2>2 DEF CriticalEnd
  <2>4. mindex' \in TeamIds'
    <3>1. mindex + Min(Waiters) + 1 \in Nat
      BY <1>2, <2>1
    <3> QED
      BY <1>1, <1>2, <2>3, <3>1, RotationFacts DEF TeamIds
  <2>5. pc[o] = "critical" /\ team = 1
    BY <2>2, BusyInRegion DEF ThreadInv, CriticalFlags
  <2>6. cpu' = o /\ pc'[o] = "critical" /\ o \in Contexts
    <3>1. saved[o] = o
      BY <2>2, <2>5 DEF UserEndCritical, CriticalEnd, At, ThreadInv, CriticalFlags
    <3> QED
      BY <1>1, <2>3, <2>5, <3>1, NamesDiffer DEF Resume
  <2> QED
    BY <1>1, <2>4, <2>5, <2>6 DEF WakeInv, NoLostWakeup, TeamIds, At
<1> QED
  BY <1>3, <1>4

(* Nobody waits where a region begins or ends.                             *)
LEMMA RegionKeepsWake ==
  ASSUME CriticalsInTeam, TaskInv, ThreadInv, ThreadInv', WakeInv, StartRegion \/ (Join /\ JoinDone)
  PROVE  WakeInv'
<1> USE InsideFacts
<1>1. tasks[1] = 0 /\ \A i \in Ids : pc'[i] = pc[i]
  <2>1. CASE StartRegion
    <3>1. PICK n \in NumThreads : Parallel(n)
      BY <2>1 DEF StartRegion
    <3>2. cpu = Main /\ tasks[1] = 0
      BY <2>1, <3>1, SerialFacts DEF StartRegion, Parallel
    <3> QED
      BY <3>1, <3>2 DEF Parallel, Goto, TaskInv, PlacesInv
  <2>2. CASE JoinDone
    <3>1. pc[cpu] = "join" /\ cpu \in Contexts /\ tasks[team] = 0 /\ pc' = [pc EXCEPT ![cpu] = "user"]
      BY <2>2 DEF JoinDone, At, Goto
    <3>2. cpu = Main /\ team = 1
      BY <3>1, NamesDiffer DEF TaskInv, PlacesInv, Inside
    <3> QED
      BY <3>1, <3>2 DEF TaskInv, PlacesInv
  <2> QED
    BY <2>1, <2>2
<1>2. \A i \in Ids : ~mwaiting'[i]
  BY <1>1, AllIdle DEF ThreadInv, CriticalFlags
<1>3. CASE StartRegion
  <2>1. PICK n \in NumThreads : Parallel(n)
    BY <1>3 DEF StartRegion
  <2>2. num' = TeamSize(n) /\ mindex' = mindex
    BY <2>1 DEF Parallel
  <2>3. mindex # 0 => num' = num
    BY <2>2 DEF CriticalsInTeam, WakeInv
  <2> QED
    BY <1>2, <2>2, <2>3 DEF WakeInv, NoLostWakeup, TeamIds
<1>4. CASE Join /\ JoinDone
  <2>1. team = 1 /\ team' # 1 /\ num' = num /\ mindex' = mindex
    <3>1. pc[cpu] = "join" /\ cpu \in Contexts /\ team' = team - 1
      BY <1>4 DEF JoinDone, At
    <3>2. team = 1
      BY <3>1, NamesDiffer DEF TaskInv, PlacesInv, Inside
    <3> QED
      BY <1>4, <3>1, <3>2 DEF Join, criticalVars
  <2> QED
    BY <1>2, <2>1 DEF WakeInv, NoLostWakeup, TeamIds
<1> QED
  BY <1>3, <1>4

(* Every step keeps the invariant.                                         *)
LEMMA NextWakeInv ==
  ASSUME CriticalsInTeam, TasksInRegions, SysInv, WakeInv, [Next]_vars
  PROVE  WakeInv'
<1> USE DEF SysInv
<1>0. ThreadInv'
  BY NextThreadInv
<1>1. CASE UNCHANGED vars
  BY <1>1 DEF vars, systemVars, threadVars, libraryVars, stateVars, criticalVars, WakeInv,
              NoLostWakeup, TeamIds, At
<1>2. CASE System
  <2>1. CASE Boot /\ UNCHANGED clientVars
    <3>1. UNCHANGED <<num, team, mutex, mwaiting, mindex>>
      BY <2>1 DEF Boot, SpawnWorker, SpawnMain, Background, Halt, libraryVars, stateVars, criticalVars
    <3>2. pc[cpu] # "critical"
      BY <2>1 DEF Boot, SpawnWorker, SpawnMain, Background, Halt, At
    <3> QED
      BY <3>1, <3>2, OthersKeepWake
  <2> QED
    BY <1>1, <1>2, <2>1 DEF System
<1>3. CASE FreeOp
  <2>1. CASE UserYield \/ UserTask \/ LockOp
    <3>1. UNCHANGED <<num, team, mutex, mwaiting, mindex>> /\ pc[cpu] # "critical"
      <4>1. UNCHANGED <<num, mwaiting, mindex>> /\ pc[cpu] # "critical"
        BY <2>1, FreeRunsOn DEF RunsOn, Waiting
      <4>2. team' = team /\ mutex' = mutex
        BY <2>1 DEF UserYield, UserTask, LockOp, ButTasks, ButLocks, libraryVars, stateVars,
                    criticalVars
      <4> QED
        BY <4>1, <4>2
    <3> QED
      BY <3>1, OthersKeepWake
  <2> QED
    BY <1>3, <2>1, CriticalStartKeepsWake, CriticalEndKeepsWake DEF FreeOp
<1>4. CASE Construct
  <2>1. UNCHANGED <<num, team, mutex, mwaiting, mindex>>
    BY <1>4 DEF Construct, UserBarrier, InBarrier, UserSingle, UserSections, UserNextSection,
                UserEndSections, GoToSection, ButBarrier, ButSingle, ButSections, stateVars,
                criticalVars
  <2>2. pc[cpu] # "critical"
    BY <1>4 DEF Construct, UserBarrier, InBarrier, UserSingle, UserSections, UserNextSection,
                UserEndSections, BarrierEnter, BarrierRelease, BarrierReturn, SingleStart,
                SectionsStart, SectionsNext, SectionsEnd, At
  <2> QED
    BY <2>1, <2>2, OthersKeepWake
<1>5. CASE TaskLife
  <2>1. CASE Worker \/ EndTask \/ (Join /\ JoinWait)
    <3>1. UNCHANGED <<num, team, mutex, mwaiting, mindex>>
      BY <2>1 DEF Worker, EndTask, Join, JoinWait, ButTasks, stateVars, criticalVars
    <3>2. pc[cpu] # "critical"
      BY <2>1, TaskRunsOn DEF RunsOn, Waiting
    <3> QED
      BY <3>1, <3>2, OthersKeepWake
  <2>2. CASE EndMain
    <3>1. UNCHANGED <<num, team, mutex, mwaiting, mindex>> /\ pc[cpu] # "critical"
      BY <2>2 DEF EndMain, MainReturns, At, libraryVars, stateVars, criticalVars
    <3> QED
      BY <3>1, OthersKeepWake
  <2> QED
    BY <1>0, <1>5, <2>1, <2>2, RegionKeepsWake DEF TaskLife, Join
<1> QED
  BY <1>1, <1>2, <1>3, <1>4, <1>5 DEF Next

(* While a thread waits for the mutex, somebody has it or is about to test *)
(* it: no GOMP_critical_end frees the mutex over a waiting member, in the  *)
(* programs clear of its two defects.                                      *)
THEOREM MutexWakes ==
  ASSUME TasksInRegions, CriticalsInTeam
  PROVE  Spec => []NoLostWakeup
<1>1. Init => WakeInv
  BY DEF Init, SystemInit, WakeInv, NoLostWakeup
<1>2. SysInv /\ WakeInv /\ [Next]_vars => WakeInv'
  BY NextWakeInv
<1>3. WakeInv => NoLostWakeup
  BY DEF WakeInv
<1> QED
  BY <1>1, <1>2, <1>3, SysInvariant, PTL DEF Spec
=============================================================================
