------------------------------ MODULE Libgomp -------------------------------
(***************************************************************************)
(* libgomp.cpp under any program: main() runs parallel regions, and the    *)
(* members of a team run any mix of the operations the constants allow,    *)
(* giving up the CPU wherever the library or a yield lets them.            *)
(*                                                                         *)
(* What a program does between its calls of the library is left out: a     *)
(* region is a list of constructs every member meets in order, with up to  *)
(* Fuel free operations (yield, critical, task, locks) before, between and *)
(* after them.                                                             *)
(***************************************************************************)
EXTENDS GompSystem

CONSTANTS
  Region,        (* the constructs every member meets, in order            *)
  NumSections,   (* the sections of each "sections" construct              *)
  RegionOps,     (* the free operations of an implicit task                *)
  TaskOps,       (* those of an explicit task                              *)
  SerialOps,     (* those of main() before and between its regions         *)
  Fuel,          (* how many free operations a task has, or Endless        *)
  IfClauses,     (* the if clauses of its task constructs                  *)
  NumThreads,    (* the numbers of threads main() may ask for              *)
  MaxRegions,    (* how many parallel regions main() runs                  *)
  MaxExplicit,   (* how many task constructs the program meets             *)
  MaxNest        (* how often a context enters a nest lock it is in        *)

Constructs == {"barrier", "single", "sections"}
Endless == -1
FreeOps == {"yield", "critical", "task", "lock", "test", "nest", "testnest", "reset"}

ASSUME LibgompAssumption ==
  /\ Region \in Seq(Constructs)
  /\ RegionOps \subseteq FreeOps /\ TaskOps \subseteq FreeOps /\ SerialOps \subseteq FreeOps
  /\ NumThreads \subseteq Nat /\ IfClauses \subseteq BOOLEAN
  /\ {NumSections, MaxRegions, MaxExplicit, MaxNest} \subseteq Nat
  /\ Fuel \in Nat \cup {Endless}

VARIABLES
  step,      (* the next construct of Region each member meets             *)
  fuel,      (* the free operations each context has left                  *)
  inCrit,    (* the contexts inside a critical construct                   *)
  held,      (* how often each context has set each lock                   *)
  sec,       (* the section each member is in: 0 past the last, Out if none*)
  wins,      (* how many members GOMP_single_start told to run construct k *)
  ran,       (* how often construct k handed out section s                 *)
  regions,   (* the regions main() has yet to run                          *)
  created    (* the task constructs met so far                             *)

seenVars == <<step, sec, wins, ran, regions>>
clientVars == <<seenVars, fuel, inCrit, held, created>>
vars == <<systemVars, clientVars>>

Out == -1
Places == DOMAIN Region

Init ==
  /\ SystemInit
  /\ step = [i \in Ids |-> 1] /\ fuel = [c \in Contexts |-> Fuel] /\ inCrit = {}
  /\ held = [c \in Contexts |-> [l \in AllLocks |-> 0]]
  /\ sec = [i \in Ids |-> Out]
  /\ wins = [k \in Places |-> 0] /\ ran = [k \in Places |-> [s \in 1 .. NumSections |-> 0]]
  /\ regions = MaxRegions /\ created = 0

-----------------------------------------------------------------------------
OpsOf == [serial |-> SerialOps, implicit |-> RegionOps, explicit |-> TaskOps, none |-> {}]

(* The running context spends one of its operations on op. *)
Spend(op) ==
  /\ At("user") /\ op \in OpsOf[Role] /\ fuel[cpu] # 0
  /\ fuel' = [fuel EXCEPT ![cpu] = IF @ = Endless THEN @ ELSE @ - 1]

HoldsNo(S) == \A l \in S : held[cpu][l] = 0

(* The running context is in no critical construct and has no lock.  Only  *)
(* then does it wait for either, or for others: programs do not deadlock   *)
(* by themselves.                                                          *)
Unencumbered == cpu \notin inCrit /\ HoldsNo(AllLocks)

UserYield ==
  /\ Spend("yield")
  /\ Yield
  /\ UNCHANGED <<pc, libraryVars, seenVars, inCrit, held, created>>

(* GOMP_critical_start returns: the caller goes on inside the construct. *)
NowInCrit == inCrit' = IF pc'[cpu] = "user" THEN inCrit \cup {cpu} ELSE inCrit

UserCritical ==
  /\ Unencumbered
  /\ Spend("critical")
  /\ CriticalStart
  /\ NowInCrit
  /\ ButCritical /\ UNCHANGED <<seenVars, held, created>>

Retry ==
  /\ CriticalRetry
  /\ NowInCrit
  /\ ButCritical /\ UNCHANGED <<seenVars, fuel, held, created>>

UserEndCritical ==
  /\ cpu \in inCrit
  /\ CriticalEnd
  /\ inCrit' = inCrit \ {cpu}
  /\ ButCritical /\ UNCHANGED <<seenVars, fuel, held, created>>

UserTask ==
  /\ created < MaxExplicit /\ created' = created + 1
  /\ Spend("task")
  /\ \E ifClause \in IfClauses : TaskInline(ifClause) \/ (ifClause /\ TaskQueue)
  /\ ButTasks /\ UNCHANGED <<seenVars, inCrit, held>>

-----------------------------------------------------------------------------
(* The operations on locks. *)

(* The running context has entered, or left, lock l once more. *)
Entered(l) == held' = [held EXCEPT ![cpu][l] = @ + 1]
Left(l) == held' = [held EXCEPT ![cpu][l] = @ - 1]

(* Set functions have entered the lock when they return to the caller. *)
EnteredIfBack(l) == IF pc'[cpu] = "user" THEN Entered(l) ELSE UNCHANGED held

UserLock(l) ==
  /\ Unencumbered
  /\ Spend("lock") /\ SetLock(l) /\ EnteredIfBack(l)

UserTestLock(l) ==
  /\ Spend("test") /\ TestLock(l)
  /\ IF TestLockWins(l) THEN Entered(l) ELSE UNCHANGED held

UserUnlock(l) ==
  /\ held[cpu][l] > 0
  /\ UnsetLock(l) /\ Left(l)
  /\ UNCHANGED fuel

(* A nest lock may be set again by who has it. *)
UserNest(l) ==
  /\ cpu \notin inCrit /\ HoldsNo(AllLocks \ {l}) /\ held[cpu][l] < MaxNest
  /\ Spend("nest") /\ SetNest(l) /\ EnteredIfBack(l)

UserTestNest(l) ==
  /\ held[cpu][l] < MaxNest
  /\ Spend("testnest") /\ TestNest(l)
  /\ IF TestNestWins(l) THEN Entered(l) ELSE UNCHANGED held

UserUnnest(l) ==
  /\ held[cpu][l] > 0
  /\ UnsetNest(l) /\ Left(l)
  /\ UNCHANGED fuel

(* Initialised again between two uses: nobody has it or waits for it. *)
UserResetNest(l) ==
  /\ \A c \in Contexts : held[c][l] = 0 /\ wants[c] # l
  /\ Spend("reset") /\ ResetNest(l)
  /\ UNCHANGED held

PollAgain ==
  /\ LockRetry \/ NestRetry
  /\ EnteredIfBack(wants[cpu])
  /\ UNCHANGED fuel

LockOp ==
  /\ \/ \E l \in Locks : UserLock(l) \/ UserTestLock(l) \/ UserUnlock(l)
     \/ \E l \in NestLocks : UserNest(l) \/ UserTestNest(l) \/ UserUnnest(l) \/ UserResetNest(l)
     \/ PollAgain
  /\ ButLocks /\ UNCHANGED <<seenVars, inCrit, created>>

-----------------------------------------------------------------------------
(* The constructs of a region. *)

(* A member meets the construct of the given name next. *)
Meets(name) ==
  /\ At("user") /\ Role = "implicit" /\ Unencumbered /\ sec[cpu] = Out
  /\ step[cpu] \in Places /\ Region[step[cpu]] = name

NextStep == step' = [step EXCEPT ![cpu] = @ + 1]

UserBarrier ==
  /\ Meets("barrier")
  /\ BarrierEnter /\ NextStep
  /\ ButBarrier /\ UNCHANGED <<fuel, inCrit, held, sec, wins, ran, regions, created>>

InBarrier ==
  /\ BarrierRelease \/ BarrierReturn
  /\ ButBarrier /\ UNCHANGED clientVars

UserSingle ==
  /\ Meets("single")
  /\ SingleStart /\ NextStep
  /\ wins' = IF SingleWins THEN [wins EXCEPT ![step[cpu]] = @ + 1] ELSE wins
  /\ ButSingle /\ UNCHANGED <<fuel, inCrit, held, sec, ran, regions, created>>

(* The library returns section s to the running member. *)
GoToSection(s) ==
  /\ sec' = [sec EXCEPT ![cpu] = s]
  /\ ran' = IF s = 0 THEN ran ELSE [ran EXCEPT ![step[cpu]][s] = @ + 1]
  /\ ButSections /\ UNCHANGED <<step, fuel, inCrit, held, wins, regions, created>>

UserSections ==
  /\ Meets("sections")
  /\ SectionsStart(NumSections)
  /\ GoToSection(NextSection(SectionFrom, SectionsFor(NumSections)))

UserNextSection ==
  /\ Role = "implicit" /\ Unencumbered /\ sec[cpu] > 0
  /\ SectionsNext
  /\ GoToSection(NextSection(section[team], sections[team]))

UserEndSections ==
  /\ Role = "implicit" /\ Unencumbered /\ sec[cpu] = 0
  /\ SectionsEnd /\ NextStep
  /\ sec' = [sec EXCEPT ![cpu] = Out]
  /\ UNCHANGED <<stateVars, criticalVars, singleVars, taskVars, lockVars>>
  /\ UNCHANGED <<fuel, inCrit, held, wins, ran, regions, created>>

-----------------------------------------------------------------------------
(* Tasks begin and end, regions begin and end. *)

Worker ==
  /\ \/ /\ WorkerImplicit \/ WorkerExplicit
        /\ fuel' = [fuel EXCEPT ![cpu] = Fuel]
     \/ /\ WorkerIdle
        /\ UNCHANGED fuel
  /\ ButTasks /\ UNCHANGED <<seenVars, inCrit, held, created>>

EndTask ==
  /\ Unencumbered
  /\ Role = "implicit" => sec[cpu] = Out /\ step[cpu] \notin Places
  /\ WorkerDone
  /\ ButTasks /\ UNCHANGED clientVars

StartRegion ==
  /\ Role = "serial" /\ regions > 0 /\ Unencumbered
  /\ \E n \in NumThreads : Parallel(n)
  /\ regions' = regions - 1
  /\ step' = [i \in Ids |-> 1]
  /\ wins' = [k \in Places |-> 0] /\ ran' = [k \in Places |-> [s \in 1 .. NumSections |-> 0]]
  /\ UNCHANGED <<lockVars, fuel, inCrit, held, sec, created>>

Join ==
  /\ \/ JoinWait /\ UNCHANGED fuel
     \/ JoinDone /\ fuel' = [fuel EXCEPT ![cpu] = Fuel]
  /\ UNCHANGED <<num, barrierVars, criticalVars, singleVars, sectionVars, lockVars>>
  /\ UNCHANGED <<seenVars, inCrit, held, created>>

EndMain ==
  /\ regions = 0 /\ Unencumbered
  /\ MainReturns
  /\ UNCHANGED clientVars

System == (Boot /\ UNCHANGED clientVars) \/ (At("halt") /\ UNCHANGED vars)
FreeOp == UserYield \/ UserCritical \/ Retry \/ UserEndCritical \/ UserTask \/ LockOp
Construct == UserBarrier \/ InBarrier \/ UserSingle
             \/ UserSections \/ UserNextSection \/ UserEndSections
TaskLife == Worker \/ EndTask \/ StartRegion \/ Join \/ EndMain

Next == System \/ FreeOp \/ Construct \/ TaskLife

Spec == Init /\ [][Next]_vars

(* One CPU runs one context after another and is never halted before       *)
(* start() returns; nothing else is assumed of the scheduling.             *)
FairSpec == Spec /\ WF_vars(Next)

-----------------------------------------------------------------------------
(* What a context may have left of its operations. *)
Amounts == IF Fuel = Endless THEN {Endless} ELSE 0 .. Fuel

TypeOK ==
  /\ SystemTypeOK
  /\ step \in [Ids -> 1 .. Len(Region) + 1] /\ fuel \in [Contexts -> Amounts]
  /\ inCrit \subseteq Contexts /\ held \in [Contexts -> [AllLocks -> Nat]]
  /\ sec \in [Ids -> Out .. NumSections]
  /\ wins \in [Places -> Nat] /\ ran \in [Places -> [1 .. NumSections -> Nat]]
  /\ regions \in 0 .. MaxRegions /\ created \in 0 .. MaxExplicit

(* The context that arrived at the end of its barrier, at place k, is      *)
(* still in it; one past it has returned from it.                          *)
Past(i, k) == step[i] > k + 1 \/ (step[i] = k + 1 /\ pc[i] # "barrier")
Reached(i, k) == step[i] > k

(* Nobody in the team passes a barrier before all of the team have         *)
(* reached it, although the releaser resumes the members one by one and    *)
(* those may be at the next barrier before it is done.                     *)
BarrierOrder ==
  \A k \in Places, i, j \in TeamIds :
    Region[k] \in {"barrier", "sections"} /\ Past(i, k) => Reached(j, k)

(* GOMP_single_start tells exactly one member of the team to run each      *)
(* single construct, though no barrier keeps the members together.         *)
SingleOnce ==
  \A k \in Places : Region[k] = "single" =>
    /\ wins[k] <= 1
    /\ (\E i \in TeamIds : Reached(i, k)) => wins[k] = 1

(* Each section of each sections construct is handed out once, and has     *)
(* been when a member goes on past the construct.                          *)
SectionsOnce ==
  \A k \in Places, s \in 1 .. NumSections : Region[k] = "sections" =>
    /\ ran[k][s] <= 1
    /\ (\E i \in TeamIds : Past(i, k)) => ran[k][s] = 1

(* The mutex is set exactly while one context is in a critical construct.  *)
MutualExclusion ==
  /\ Cardinality(inCrit) <= 1
  /\ mutex[team] <=> inCrit # {}

(* Whenever a thread waits for the mutex somebody holds it, or the thread  *)
(* to which the mutex was handed is about to take it: a waiter is never    *)
(* left behind by a GOMP_critical_end that found nobody.                   *)
NoLostWakeup == (\E i \in Ids : mwaiting[i]) => mutex[team] \/ At("critical")

(* A thread suspended for the mutex always gets it in the end: every       *)
(* GOMP_critical_end resumes somebody who waits, and the rotation passes   *)
(* over nobody for ever.                                                   *)
GetsMutex == \A i \in Ids : mwaiting[i] ~> ~mwaiting[i]

(* Where the task structs are outside the pool. *)
Held == ({task[i] : i \in Ids} \cup {doing[i] : i \in Ids}) \ {NoTask}

(* No task struct is lost, used twice or freed twice: each is in the pool, *)
(* or ready, or with the worker that has or runs it; and the team counts   *)
(* those outside the pool.                                                 *)
TaskConservation ==
  /\ IsInjective(pool) /\ IsInjective(ready)
  /\ Range(pool) \cap Range(ready) = {} /\ Held \cap (Range(pool) \cup Range(ready)) = {}
  /\ Range(pool) \cup Range(ready) \cup Held = Tasks
  /\ \A i, j \in Ids : i # j => {task[i], doing[i]} \cap {task[j], doing[j]} \subseteq {NoTask}
  /\ tasks[team] = NumTasks - Len(pool)

(* GOMP_parallel returns only when every member has ended its implicit     *)
(* task and every explicit task has been run.                              *)
RegionOver ==
  At("join") /\ tasks[team] = 0 =>
    /\ Len(pool) = NumTasks /\ ready = <<>>
    /\ \A i \in Ids : kind[i] = "none" /\ task[i] = NoTask
    /\ \A i \in TeamIds : step[i] = Len(Region) + 1

(* A worker that is not merely looking for a task. *)
HasWork(i) == kind[i] # "none" \/ task[i] # NoTask \/ ready # <<>>

(* What a context waits for, if for anything, has happened: whenever it    *)
(* gets the CPU next, it leaves its wait.                                  *)
CanGoOn(c) ==
  /\ pc[c] # "unborn"
  /\ pc[c] = "join" => tasks[team] = 0
  /\ pc[c] \in {"barrier", "critical"} => c \notin InObjects
  /\ pc[c] = "critical" => ~mutex[team]
  /\ pc[c] = "lock" => lock[wants[c]] = 0
  /\ pc[c] = "nest" => nest[wants[c]].lock = 0

(* Until main() ends there is always somebody who need not wait: barriers, *)
(* criticals, locks and the end of a region never wait for one another in  *)
(* a circle, however the members of a team mix them.                       *)
NeverStuck ==
  pc[Main] \notin {"unborn", "dead"} =>
    CanGoOn(Main) \/ \E i \in Ids : HasWork(i) /\ CanGoOn(i)

(* main() returns and start() ends: no member waits for ever at a barrier, *)
(* for the mutex or for the end of its region, and every task gets run.    *)
Termination == <>(pc[Bg] = "halt")

-----------------------------------------------------------------------------
(* The plain locks and the nest locks each implement the abstract ones.    *)
LockMutex == INSTANCE Mutex WITH
  MutexSet <- Locks, Clients <- Contexts, MaxDepth <- 1,
  holds <- [l \in Locks |-> [c \in Contexts |-> held[c][l]]]

(* How often l was set by the contexts omp_get_thread_num gives number i:  *)
(* main() and worker 0 are both thread 0.                                  *)
SetByNumber(i, l) == held[i][l] + IF i = 0 THEN held[Main][l] ELSE 0

NestMutex == INSTANCE Mutex WITH
  MutexSet <- NestLocks, Clients <- Ids, MaxDepth <- 2 * MaxNest,
  holds <- [l \in NestLocks |-> [i \in Ids |-> SetByNumber(i, l)]]

(* omp_set_lock and omp_test_lock let a context in only when nobody is,    *)
(* although the waiting contexts poll in the order of DeferFIFO.           *)
LocksImplementMutex == LockMutex!Spec

(* A nest lock keeps out every other thread number, through any mixture of *)
(* set, test and unset.  It does not keep main() and worker 0 apart.       *)
NestLocksImplementMutex == NestMutex!Spec

(* The fields of a nest lock say who is in it, and how often: no unset     *)
(* frees it early or leaves it taken.                                      *)
NestFieldsAgree ==
  \A l \in NestLocks :
    /\ nest[l].lock = 1 <=> \E i \in Ids : SetByNumber(i, l) > 0
    /\ nest[l].lock = 1 => nest[l].count = SetByNumber(nest[l].owner, l)

(* A context that waits for a lock gets it, although nothing but the order *)
(* of DeferFIFO decides who polls next: when tasks end, so does the wait.  *)
GetsLock == \A c \in Contexts : pc[c] \in {"lock", "nest"} ~> pc[c] = "user" \/ At("halt")
=============================================================================
