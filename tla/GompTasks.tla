------------------------------ MODULE GompTasks -----------------------------
(***************************************************************************)
(* The task structs and those that handle them: GOMP_parallel and its      *)
(* wait for the region to end, GOMP_task, and the loop of gomp_worker.     *)
(* Main is at "join" in that wait, a worker at "loop" between two tasks.   *)
(* Which function a task struct holds is left out but for its kind.        *)
(***************************************************************************)
EXTENDS GompWorkshare, GompCritical

CONSTANTS
  NumTasks,        (* GOMP_NUM_TASKS, the task structs there are           *)
  DefaultThreads   (* GOMP_DEFAULT_NUM_THREADS                             *)

VARIABLES
  pool,        (* task_pool, oldest first                                  *)
  ready,       (* ready_tasks, oldest first                                *)
  tasks,       (* teams[].tasks                                            *)
  task,        (* omp_threads[].task                                       *)
  doing,       (* the local variable "task" of each worker                 *)
  kind         (* which branch of its loop each worker runs a task from    *)

taskVars == <<pool, ready, tasks, task, doing, kind>>

Tasks == 1 .. NumTasks
NoTask == 0

ASSUME TasksAssumption == NumTasks \in Nat \ {0} /\ DefaultThreads \in 1 .. MaxThreads

-----------------------------------------------------------------------------
(* The number of threads GOMP_parallel settles on when asked for n. *)
TeamSize(n) == LET asked == IF n = 0 THEN DefaultThreads ELSE n
               IN  IF asked > MaxThreads THEN MaxThreads ELSE asked

(* GOMP_parallel up to its wait: a new team, and an implicit task for each *)
(* member.  Out of task structs, a member gets a null one all the same.    *)
Parallel(n) ==
  LET size == TeamSize(n)
      got(i) == IF i < Len(pool) THEN pool[i + 1] ELSE NoTask
      member == 0 .. size - 1
  IN  /\ At("user") /\ team + 1 \in TeamNos
      /\ num' = size
      /\ team' = team + 1
      /\ mutex' = [mutex EXCEPT ![team + 1] = FALSE]
      /\ teamSingle' = [teamSingle EXCEPT ![team + 1] = 0]
      /\ sectionsCount' = [sectionsCount EXCEPT ![team + 1] = 0]
      /\ sections' = [sections EXCEPT ![team + 1] = 0]
      /\ section' = [section EXCEPT ![team + 1] = 0]
      /\ pool' = SubSeq(pool, size + 1, Len(pool))
      /\ tasks' = [tasks EXCEPT ![team + 1] = @ + size]
      /\ task' = [i \in Ids |-> IF i \in member THEN got(i) ELSE task[i]]
      /\ arrived' = [i \in Ids |-> i \notin member /\ arrived[i]]
      /\ mwaiting' = [i \in Ids |-> i \notin member /\ mwaiting[i]]
      /\ single' = [i \in Ids |-> IF i \in member THEN 0 ELSE single[i]]
      /\ Goto("join")
      /\ UNCHANGED <<threadVars, toResume, mindex, ready, doing, kind>>

(* The wait of GOMP_parallel finds tasks of the team running, and yields. *)
JoinWait ==
  /\ At("join") /\ tasks[team] # 0
  /\ Yield
  /\ UNCHANGED <<pc, team, taskVars>>

(* The region is over: GOMP_parallel returns. *)
JoinDone ==
  /\ At("join") /\ tasks[team] = 0
  /\ team' = team - 1
  /\ Goto("user")
  /\ UNCHANGED <<threadVars, taskVars>>

-----------------------------------------------------------------------------
(* GOMP_task calls the function itself: the operations of the task's body  *)
(* are then the next ones of the caller.                                   *)
TaskInline(ifClause) ==
  /\ At("user")
  /\ ~ifClause \/ pool = <<>>
  /\ UNCHANGED <<pc, threadVars, taskVars>>

(* Mutant of TaskQueue: the team does not count the task. *)
TaskQueueNoCount ==
  /\ At("user")
  /\ pool # <<>>
  /\ pool' = Tail(pool)
  /\ ready' = Append(ready, Head(pool))
  /\ UNCHANGED <<pc, threadVars, tasks, task, doing, kind>>

(* GOMP_task hands a task struct to the workers. *)
TaskQueue ==
  /\ At("user")
  /\ pool # <<>>
  /\ pool' = Tail(pool)
  /\ tasks' = [tasks EXCEPT ![team] = @ + 1]
  /\ ready' = Append(ready, Head(pool))
  /\ UNCHANGED <<pc, threadVars, task, doing, kind>>

-----------------------------------------------------------------------------
(* The worker's implicit task comes first. *)
WorkerImplicit ==
  /\ At("loop") /\ task[cpu] # NoTask
  /\ doing' = [doing EXCEPT ![cpu] = task[cpu]]
  /\ kind' = [kind EXCEPT ![cpu] = "implicit"]
  /\ Goto("user")
  /\ UNCHANGED <<threadVars, pool, ready, tasks, task>>

WorkerExplicit ==
  /\ At("loop") /\ task[cpu] = NoTask /\ ready # <<>>
  /\ doing' = [doing EXCEPT ![cpu] = Head(ready)]
  /\ ready' = Tail(ready)
  /\ kind' = [kind EXCEPT ![cpu] = "explicit"]
  /\ Goto("user")
  /\ UNCHANGED <<threadVars, pool, tasks, task>>

WorkerIdle ==
  /\ At("loop") /\ task[cpu] = NoTask /\ ready = <<>>
  /\ Yield
  /\ UNCHANGED <<pc, taskVars>>

(* Mutant of WorkerDone: omp_threads[id].task is not cleared. *)
WorkerDoneKeepsTask ==
  /\ At("user") /\ cpu \in Ids
  /\ pool' = Append(pool, doing[cpu])
  /\ tasks' = [tasks EXCEPT ![team] = @ - 1]
  /\ Goto("loop")
  /\ Yield
  /\ doing' = [doing EXCEPT ![cpu] = NoTask]
  /\ kind' = [kind EXCEPT ![cpu] = "none"]
  /\ UNCHANGED <<ready, task>>

(* Mutant of WorkerDone: only implicit tasks are counted off. *)
WorkerDoneKeepsCount ==
  /\ At("user") /\ cpu \in Ids
  /\ pool' = Append(pool, doing[cpu])
  /\ tasks' = IF kind[cpu] = "implicit" THEN [tasks EXCEPT ![team] = @ - 1] ELSE tasks
  /\ task' = IF kind[cpu] = "implicit" THEN [task EXCEPT ![cpu] = NoTask] ELSE task
  /\ Goto("loop")
  /\ Yield
  /\ doing' = [doing EXCEPT ![cpu] = NoTask]
  /\ kind' = [kind EXCEPT ![cpu] = "none"]
  /\ UNCHANGED ready

(* Mutant of WorkerDone: the struct of an explicit task is not given back. *)
WorkerDoneLeaks ==
  /\ At("user") /\ cpu \in Ids
  /\ pool' = IF kind[cpu] = "implicit" THEN Append(pool, doing[cpu]) ELSE pool
  /\ tasks' = [tasks EXCEPT ![team] = @ - 1]
  /\ task' = IF kind[cpu] = "implicit" THEN [task EXCEPT ![cpu] = NoTask] ELSE task
  /\ Goto("loop")
  /\ Yield
  /\ doing' = [doing EXCEPT ![cpu] = NoTask]
  /\ kind' = [kind EXCEPT ![cpu] = "none"]
  /\ UNCHANGED ready

(* The function of a task returns: the struct goes back to the pool, the   *)
(* current team has one task less, and the worker yields.                  *)
WorkerDone ==
  /\ At("user") /\ cpu \in Ids
  /\ pool' = Append(pool, doing[cpu])
  /\ tasks' = [tasks EXCEPT ![team] = @ - 1]
  /\ task' = IF kind[cpu] = "implicit" THEN [task EXCEPT ![cpu] = NoTask] ELSE task
  /\ Goto("loop")
  /\ Yield
  /\ doing' = [doing EXCEPT ![cpu] = NoTask]
  /\ kind' = [kind EXCEPT ![cpu] = "none"]
  /\ UNCHANGED ready
=============================================================================
