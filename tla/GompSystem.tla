----------------------------- MODULE GompSystem -----------------------------
(***************************************************************************)
(* The whole library on the threads of thread.cpp, from start() to its     *)
(* return, but for what main() and the tasks do: start() boots the workers *)
(* and test_thread(), and its background loop resumes deferred contexts    *)
(* until main() returns.  The client programs EXTEND this module.          *)
(***************************************************************************)
EXTENDS GompTasks, GompLocks, FiniteSets

stateVars == <<num, team>>
libraryVars == <<stateVars, barrierVars, criticalVars, singleVars, sectionVars, taskVars,
                 lockVars>>
systemVars == <<threadVars, pc, libraryVars>>

(* What an operation of one component leaves alone. *)
ButBarrier == UNCHANGED <<stateVars, criticalVars, singleVars, sectionVars, taskVars, lockVars>>
ButCritical == UNCHANGED <<stateVars, barrierVars, singleVars, sectionVars, taskVars, lockVars>>
ButSingle == UNCHANGED <<stateVars, barrierVars, criticalVars, sectionVars, taskVars, lockVars>>
ButSections == UNCHANGED <<stateVars, barrierVars, criticalVars, singleVars, taskVars, lockVars>>
ButTasks == UNCHANGED <<stateVars, barrierVars, criticalVars, singleVars, sectionVars, lockVars>>
ButLocks == UNCHANGED <<stateVars, barrierVars, criticalVars, singleVars, sectionVars, taskVars>>

(* What start() finds after libgomp_init's first loop, before any spawn. *)
SystemInit ==
  /\ cpu = Bg /\ pending = <<>> /\ deferred = <<>>
  /\ saved = [o \in Ids |-> NoContext]
  /\ pc = [c \in Contexts |-> IF c = Bg THEN "boot" ELSE "unborn"]
  /\ num = DefaultThreads /\ team = 0
  /\ arrived = [i \in Ids |-> FALSE] /\ toResume = [c \in Contexts |-> {}]
  /\ mutex = [t \in TeamNos |-> FALSE] /\ mwaiting = [i \in Ids |-> FALSE] /\ mindex = 0
  /\ single = [i \in Ids |-> 0] /\ teamSingle = [t \in TeamNos |-> 0]
  /\ sectionsCount = [t \in TeamNos |-> 0]
  /\ sections = [t \in TeamNos |-> 0] /\ section = [t \in TeamNos |-> 0]
  /\ pool = [k \in Tasks |-> k] /\ ready = <<>>
  /\ tasks = [t \in TeamNos |-> 0] /\ task = [i \in Ids |-> NoTask]
  /\ doing = [i \in Ids |-> NoTask] /\ kind = [i \in Ids |-> "none"]
  /\ lock = [l \in Locks |-> 0] /\ nest = [l \in NestLocks |-> NestFree]
  /\ wants = [c \in Contexts |-> NoLock]

-----------------------------------------------------------------------------
Unborn == {i \in Ids : pc[i] = "unborn"}

(* libgomp_init spawns gomp_worker on the next stack; it runs at once. *)
SpawnWorker ==
  /\ At("boot") /\ Unborn # {}
  /\ pc' = [pc EXCEPT ![Min(Unborn)] = "loop"]
  /\ Start(Min(Unborn))
  /\ UNCHANGED libraryVars

SpawnMain ==
  /\ At("boot") /\ Unborn = {}
  /\ pc' = [pc EXCEPT ![Main] = "user", ![Bg] = "background"]
  /\ Start(Main)
  /\ UNCHANGED libraryVars

Background ==
  /\ At("background") /\ pc[Main] # "dead"
  /\ Undefer
  /\ UNCHANGED <<pc, libraryVars>>

(* Thread::done(stack): start() returns, and nothing runs any more. *)
Halt ==
  /\ At("background") /\ pc[Main] = "dead"
  /\ Goto("halt")
  /\ UNCHANGED <<threadVars, libraryVars>>

(* main() returns: test_thread is done. *)
MainReturns ==
  /\ At("user") /\ cpu = Main
  /\ Goto("dead")
  /\ Return
  /\ UNCHANGED libraryVars

Boot == SpawnWorker \/ SpawnMain \/ Background \/ Halt

(* The kind of task the running context is in; main() is in none. *)
Role == IF cpu \in Ids THEN kind[cpu] ELSE "serial"

-----------------------------------------------------------------------------
PcValues == {"boot", "background", "halt", "unborn", "loop", "user", "barrier", "critical",
             "lock", "nest", "join", "dead"}

(* Every variable of the library holds a value of its kind; the index of   *)
(* the current team stays inside teams[], and the CPU never runs garbage.  *)
SystemTypeOK ==
  /\ cpu \in Contexts /\ pending \in Seq(Contexts) /\ deferred \in Seq(Contexts)
  /\ saved \in [Ids -> Contexts \cup {NoContext}]
  /\ pc \in [Contexts -> PcValues] /\ num \in Nat \ {0} /\ team \in TeamNos
  /\ arrived \in [Ids -> BOOLEAN] /\ toResume \in [Contexts -> SUBSET Ids]
  /\ mutex \in [TeamNos -> BOOLEAN] /\ mwaiting \in [Ids -> BOOLEAN] /\ mindex \in Ids
  /\ single \in [Ids -> Nat] /\ teamSingle \in [TeamNos -> Nat]
  /\ sectionsCount \in [TeamNos -> Nat] /\ sections \in [TeamNos -> Nat]
  /\ section \in [TeamNos -> Nat]
  /\ pool \in Seq(Tasks) /\ ready \in Seq(Tasks) /\ tasks \in [TeamNos -> 0 .. NumTasks]
  /\ task \in [Ids -> Tasks \cup {NoTask}] /\ doing \in [Ids -> Tasks \cup {NoTask}]
  /\ kind \in [Ids -> {"none", "implicit", "explicit"}]
  /\ lock \in [Locks -> {0, 1}]
  /\ nest \in [NestLocks -> [lock : {0, 1}, count : Nat, owner : Ids]]
  /\ wants \in [Contexts -> AllLocks \cup {NoLock}]

(* No context is lost or runs twice, whatever the barriers, the criticals  *)
(* and the yields do: resume() of a barrier or a critical always finds     *)
(* somebody suspended in the thread it resumes, and suspend() never        *)
(* overwrites one that is.                                                 *)
OnePlace == OnePlaceEach({c \in Contexts : pc[c] \notin {"unborn", "dead"}})

(* The switches always do what their callers count on: thread_stack has    *)
(* room for whoever is resumed over others, a yield gives up the CPU, and  *)
(* the background loop finds a thread to go on with until main() returns.  *)
SwitchesWork ==
  /\ Len(pending) <= MaxThreads + 1
  /\ cpu # Bg => ~FifoFull
  /\ At("background") /\ pc[Main] # "dead" => deferred # <<>>
=============================================================================
