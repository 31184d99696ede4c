# Verification of bmomp

bmomp is OpenMP for a bare-metal ARM processor: a single-core, non-preemptive
threading system (`thread.*`, `threadFIFO.hpp`, `fifo.hpp`), a subset of
libgomp on top of it (`libgomp.cpp`), and the programs that test and time them
(`omp1` to `omp10`, `permute`, `linpack`, `calibrate`).  This directory holds TLA+
models of all three, the TLC configurations that check them, and TLAPS proofs
about them.

## 1. Inventory

| component | state | operations | interacts with |
|---|---|---|---|
| FIFO ring (`fifo.hpp`) | `nextIn`, `nextOut`, `Data` | `add`, `take`, `operator bool` | one writer and one reader, perhaps on two cores; `task_pool`, `ready_tasks`, base of `threadFIFO` |
| thread switching (`thread.cpp`, `thread.hpp`) | CPU registers, `thread_stack` (r11), `Thread` objects, done flags | `spawn`/`start`, return, `suspend`, `resume`, `done` | everything: a switch is how any component waits |
| DeferFIFO (`threadFIFO.hpp`) | a FIFO of contexts | `suspend` (`yield`), `resume` (`undefer`) | shares `thread_stack` with thread switching |
| startup (`startup.cpp`) | done flag of `test_thread` | `start()` and its background loop | spawns the workers and `main()`, drains DeferFIFO |
| worker pool (`gomp_worker`, `libgomp_init`) | `omp_threads[].task`, the local `task` | run implicit task, run explicit task, idle | takes from `ready_tasks`, returns structs to `task_pool`, decrements `teams[team].tasks` |
| parallel regions (`GOMP_parallel`) | `team`, `gomp_num_threads`, `teams[]` | start a team, wait for its end | resets the state of all the constructs below |
| barrier (`GOMP_barrier`) | `arrived` | arrive and wait, or release | suspends in and resumes `omp_threads[].thread` |
| critical, atomic | `teams[].mutex`, `mwaiting`, `mindex` | start, end | same `Thread` objects as the barrier |
| single | `single` of thread and team | `GOMP_single_start` | none |
| sections | `sections_count`, `sections`, `section` | start, next, end | ends in a barrier |
| explicit tasks (`GOMP_task`) | `task_pool`, `ready_tasks`, argument memory | create, or run in place | the workers |
| locks | `omp_lock_t`, `omp_nest_lock_t` | init, set, unset, test, destroy | wait by `yield` |
| thread number | the stack pointer | `omp_get_thread_num` | index of everything per-thread |
| test programs (`omp1`-`omp10`, `permute`) | arrays, sums, buckets, what is printed | one or two parallel regions each | every entry point of the library |
| Linpack (`linpack.cpp`) | matrix, right hand side, pivots; sizes, repetitions | `matgen`, `dgefa`, `dgesl`, the vector routines; `linpack`, `main` | the clock |
| `calibrate.cpp`, `clock.cpp`, `atoi.cpp` | two registers; the timer | count down; tell the time; read digits | |

What is hard here.  Nothing is preemptive, so there are no data races on one
core; the difficulty is in who runs next.  Every wait is a context switch, every
wake-up runs the woken thread at once and leaves the waker pending under it, and
the only fairness is the order of DeferFIFO.  A wake-up given to nobody is lost.
State of one region (`mindex`, `teams[]`, flags) survives into the next.  Sizes
(`thread_stack`, DeferFIFO, `task_pool`, `teams[]`) are relied on, not tested.
`fifo.hpp`, alone, claims to be safe on several cores.  Locks wait by polling, so that
only the order of DeferFIFO decides who gets one.  Memory of task arguments is
laid out by hand.  The numeric programs have boundaries no test meets: zero
pivots, lengths that leave a remainder, a clock that wraps.

What makes each component correct:

- FIFO: it is a queue of N values, whatever the interleaving; the writer never
  touches a slot the reader uses.
- Threads: every live thread is in exactly one place; nothing overflows; a pop
  always finds something; a thread that gave up the CPU gets it back.
- Barrier: nobody passes before all have arrived; the threads it resumes are
  suspended there.
- Critical: mutual exclusion; no waiter is left behind.
- Single, sections: exactly one execution each.
- Tasks and regions: no task struct is lost or used twice; a region ends when, and
  only when, all its work is done.
- Locks: each is an abstract mutex, for contexts or (nest locks) for thread numbers;
  whoever waits gets in, once the others stop taking it again.
- Task arguments: each task has its own, aligned, and frees the block it was given.
- Thread number: that of the stack, at any depth of calls.
- Test programs: they compute and print what their directives say, in order.
- Linpack: the system is solved, unless it is singular; the times are real; it ends.
- All together: a program whose tasks all end, ends.

`PROJECT.json` lists each hazard with the line where it bites.  That `ready_tasks` could be full is none: it has as
many entries as there are task structs (`libgomp.cpp:55`, `:58`).

## 2. Modules

| module | models | composed of |
|---|---|---|
| `BoundedQueue` | abstract: what `fifo.hpp` promises | |
| `FIFO` | `add` and `take`, one action per shared access | refines `BoundedQueue` |
| `FIFOWeak` | `FIFO` on cores that reorder stores | `FIFO` |
| `ThreadOps` | the context switches, as operations on the CPU | |
| `Threads` | arbitrary legal threads on `ThreadOps` | `ThreadOps` |
| `GompState` | what every libgomp entry point reads | `ThreadOps` |
| `GompBarrier`, `GompWorkshare`, `GompCritical`, `GompTasks` | barrier; single and sections; critical and atomic; regions, workers and tasks | `GompState` and one another |
| `Mutex` | abstract: locks that a client may enter up to so often | |
| `GompLocks` | plain locks and nest locks | `GompState` |
| `GompSystem` | `start()`: boot, background loop, end; and the whole library under it | all `Gomp...` modules |
| `Libgomp` | any program on the library | `GompSystem`; refines `Mutex` twice |
| `OmpTests` | `omp1.cpp` to `omp9.cpp` | `GompSystem` |
| `Permute` | `permute.cpp` and `omp10.cpp`, beside the others | `OmpTests` |
| `TaskArgs` | the memory of task arguments | |
| `ThreadNumber` | `omp_get_thread_num` and the stacks | |
| `Unroll`, `Blas` | the loops of the unrolled routines; the vector routines | |
| `Linpack` | `matgen`, `dgefa`, `dgesl` | `Blas` |
| `LinpackBench` | `main()` and `linpack()`: sizes, repetitions, clock | |
| `Calibrate` | the countdown of `calibrate.cpp` | |
| `MCThreads`, `MCLibgomp`, `MCPrograms` | instances for TLC | |
| `MCSequential` | the parts nobody interrupts, one at a time | `TaskArgs`, `ThreadNumber`, `Linpack`, `LinpackBench`, `Calibrate` |
| `FIFOProofs` | proofs about the ring | `FIFO` |
| `ThreadOpsProofs`, `ThreadsProofs` | proofs about the context switches and their clients | `ThreadOps`, `Threads` |
| `SystemProofs`, `ConstructProofs` | proofs about the library: locks, tasks, mutex and contexts; then the order of constructs and what waits for what | `Libgomp`, `ThreadOpsProofs` |
| `ProgramProofs`, `OutputProofs` | proofs about the test programs: they refine `Libgomp`; what they print | `OmpTests`; an instance of `ConstructProofs` |
| `SequentialProofs` | proofs about task arguments, thread numbers, the countdown, the clock and the unrolled loops | `TaskArgs`, `ThreadNumber`, `Calibrate`, `LinpackBench`, `Unroll` |

### FIFO

`wpc`/`rpc` say where the writer and the reader are in `add` and `take`;
`curNextIn`, `curNextOut`, `value`, `loaded` are the locals.  Each action does one
access to `nextIn`, `nextOut` or `Data`.  The mapping to `BoundedQueue` is
`queue <- Contents`, the slots from `nextOut` up to `nextIn`; `AddPublish` is the
abstract accept, `AddFull` the refusal, `TakeRelease` and `TakeEmpty` the two
answers of take, and the rest stutters.

### Threads

A context (eight registers) is an opaque value, named by its thread.  `cpu` is in
the registers, `pending` is `thread_stack` up to r11, `saved[o]` is what is
suspended in object `o`, `deferred` is DeferFIFO.  `suspend`, `resume`, `start`,
`yield` and `undefer` are one action each: between the first and the last
instruction of each nothing else runs.  (In `threadFIFO.hpp` the index is stored
after the registers are exchanged, by the thread that was switched to, before it
returns to its caller; so that store belongs to the same step.)  A `Thread` object
keeps its bytes after a resume; the model puts `NoContext` there, so that resuming
it again is seen.

The clients of `Threads` may do anything `thread.hpp` allows, in any order.  What
they may not: suspend in an object in use, resume one that is not, leave the
background context.  `ThreadsAssumption` states the sizes the code relies on:
18 contexts against `THREAD_DEPTH` 40 and `DEFER_FIFO_DEPTH` 63.

### libgomp

`Me` is the caller's thread number (the stack of `main()` is none of
`gomp_stacks`, so `main()` is 0 too).  `pc[c]` is where context `c` goes on: in
user code, in the releasing loop of a barrier, in the loop of `GOMP_critical_start`,
in the wait of `GOMP_parallel`, at the head of the worker's loop.  A call that
does not switch is one action; one that does is split at each switch.  The release
of a barrier is one action per `resume`, since each member it resumes runs first.
`omp_threads[].team` is written and never read, and left out; so are `omp_verbose`
and `dyn_var`.  What `task->fn` names is kept as the kind of the task; its argument
is the business of `TaskArgs`.  A context waiting for a lock is at `"lock"` or `"nest"`
and polls whenever it gets the CPU; `wants` is the lock its loop tests.

`Libgomp` drives this with a client program: `main()` runs up to `MaxRegions`
regions of sizes from `NumThreads`; in a region every member meets the constructs
of `Region` in order and may do up to `Fuel` free operations (yield, critical, task,
set, test and unset of locks) anywhere between them; explicit tasks do up to `Fuel` of theirs (any number when
`Fuel` is `Endless`, as the proofs allow and no run does); at most `MaxExplicit` task constructs are met.  `step`, `wins`, `ran`, `inCrit`, `held`, `sec` record what
the program observes and are what the properties speak of.  A task run in place
adds nothing to the state: its operations are the next ones of the caller.  A client
waits for a lock or a critical only while it has none of either, so that no
program deadlocks by itself; it may test locks at any time.

### The test programs

A program of `OmpTests` is a record: its regions, each a list of statements, and its
arguments (LIMIT, the spins, the counts of its sections, the bucket of each sample).
`at` and `n` say which statement a member is at and how far.  The arithmetic is kept
(`A`, `B`, `sum`, `hist`), and what is printed, by whom and in which section, is `log`.
The static schedule is the compiler's and marked external.  `Permute` adds the program `permute`, with the
recursion of `permute()` as a stack of calls for each context; a queued task keeps its
call in `args`, by task struct.  All run on `GompSystem` unchanged: the programs never
choose who runs.

### Task arguments and thread numbers

`TaskArgs` has a memory of numbered bytes.  `malloc` and the stacks are external: they
give any free place.  A task queued stores its offset and its copy there, one run in
place only its copy; bodies assign to their copies; the end frees the address computed
from the byte.  In `ThreadNumber` stack pointers move down and up by calls and returns.

### Linpack and calibrate

Numbers are integers modulo a prime: sums, products and quotients are exact, so
that "solves" is an equation and not a tolerance; `fabs` picks the smaller of x and -x, which
orders candidates for the pivot in some way, as magnitudes do.  A step of
`Linpack` is a column.  `Times` says how often an unrolled loop takes an element, from
which the routines compute their result: an element taken twice is added twice.
`LinpackBench` leaves the numbers out and keeps sizes, repetitions and the
clock, which wraps (`clock.cpp`); what a repetition costs is any of `Costs`.

## 3. Runs

| run | instance | what it shows |
|---|---|---|
| `fifo` | ring of 3, two values | the ring refines the queue; `OwnedSlot` |
| `threads` | 5 threads, 3 objects, FIFO and stack of just 5 | `OnePlace`, `BgUnderneath`, `PendingFits`, `NeverFull`, `RunsAgain` |
| `team` | 3 workers, teams of 2 (the default) and 3, two regions; barrier, two singles, two sections of 2; one yield each | `BarrierOrder`, `SingleOnce`, `SectionsOnce`, `OnePlace`, `Termination` |
| `critical` | 3 workers in a team of 3, two regions of a barrier each; criticals, a plain lock and yields around it, 2 operations each | `MutualExclusion`, `NoLostWakeup`, `NeverStuck`, `GetsMutex` |
| `tasks` | 3 workers, teams of 2 and 3 (asked for 9), 4 structs, up to 3 tasks that create tasks, with and without an if clause | `TaskConservation`, `RegionOver`, `Termination` |
| `locks` | 3 workers in teams of 2, and `main()`; a lock and a nest lock entered up to twice, a queued task | `LocksImplementMutex`, `NestLocksImplementMutex`, `NestFieldsAgree`, `GetsLock` |
| `programs` | the eleven programs on 3 workers, LIMIT up to 4, spins up to 2 of each member and section, all histograms of 5 samples; 2 to 4 colors, plevel from none to all levels, 6 task structs | `Results`, `PrintedInOrder`, `AllFoundOnce`, `Termination` |
| `sequential` | a memory of 13 bytes with arguments of several sizes and alignments | `FreesItsOwn`, `ArgsIntact`, `OwnBlock` |
| | three adjoining stacks, calls down to their last byte | `OwnNumber` |
| | all matrices of orders 1 and 2 over the field of 5, those of 0 and 1 of order 3, the generated ones of orders 6 and 7, rolled and unrolled | `Solves`, `NanIfSingular` |
| | several argument lists and costs, a clock that wraps, started at any time | `ReportsRealTime`, `Finishes` |
| | words of 8 values, every number of ticks | `SpendsTicks`, `Terminates` |
| `fifo_weak`, `stale_commutator`, `task_outside_team`, `orphan_task` | | the disagreements of section 4 |

Why the bounds are enough.  A ring of 3 wraps and has a full, an empty and two
partial states with every offset.  With 5 threads the pending stack and the FIFO reach
their exact capacity.  Three members is the least with a releaser that has
somebody to resume while a resumed one is already ahead, and with a waiter that can
be overtaken; with a barrier, a critical and a lock at once each of them can be waiting for something else.
Two sections constructs in a row re-arm while members are still in
the first; two regions in a row show what one leaves to the next, and two team sizes
a member that sits a region out.  Four structs for three members and three tasks make
the pool run dry.  A team of 2, a task on
a third worker and `main()` have a lock taken, contexts polling it, and the two contexts of thread number 0.
In `programs` a LIMIT above and
below the number of threads gives loops with remainders and members without an
iteration; spins of 0, 1 and 2 let any member be first, last or between at what
follows.  A memory of a few blocks has room for tasks side by side and for a block used
again.  The field of 5 has elements that are neither 0, 1 nor -1; the
matrices have zero pivots at each column and every interchange, and orders 6 and 7 are the least at
which the loops unrolled to 4 and 5 have rounds with and without a remainder.  Words of 8 wrap as words of 2^32 do: the proofs of
section 5 are for all.

Fairness.  `FairSpec` of `Libgomp` is weak fairness of the whole next-state relation:
the CPU executes instructions until `start()` returns.  Which context runs is determined by
the code, never by a scheduler, so nothing else may be assumed, and nothing else is.
`FairSpec` of `Threads` has clients that are not programs but arbitrary choices: it asks
that the background loop goes on undeferring and that a thread which runs again and
again now and then suspends, yields or returns (strong fairness: it may do other things
in between).  A thread that never gives up the CPU stops a non-preemptive system, and
`thread.hpp` says so.  `GetsLock` needs no more than `FairSpec`: the order of DeferFIFO and the end of
every task are enough, which `Fuel` bounds; nothing is shown of tasks that take the lock without end.  The programs (`OmpTests`, `Permute`) and the parts of
`MCSequential` run on one CPU and have weak fairness of their next-state relation.

Deadlock is checked in every run; end states repeat themselves explicitly.

## 4. Where the code and its comments disagree

1. `fifo_weak`: `fifo.hpp:3-4` promises a FIFO for several cores; the barrier between its
   two stores is for the compiler only (`fifo.hpp:69`, `compiler.hpp:6`).  With stores that may be
   reordered the reader takes a value nobody added.
2. `stale_commutator`: `mindex` is reduced modulo the team size after its use, not before
   (`libgomp.cpp:286-287`).  In a team smaller than the last, the search of
   `GOMP_critical_end` can spend a turn outside the team and miss a waiting member, for ever.
3. `task_outside_team`: the search covers the ids of the team (`libgomp.cpp:284`), explicit
   tasks run on any worker.  One that waits for the mutex on a worker outside the team is never resumed.
4. `orphan_task`: a worker decrements the task counter of the team current at the end of
   the task (`libgomp.cpp:120`, `:134`).  A task created by `main()` before a region makes
   the region end early.  If the orphan ends outside regions it takes the counter of team 1 to -1, and the next
   `GOMP_parallel` waits for ever: `NeverStuck` fails in such a program, too.

Seen while translating the code, and inside what the runs instantiate; no run is for them alone:

- `omp2.cpp:70` says each element of A is filled.  Only those of the default team are (8, against a LIMIT of 32), and
  the last member copies an element nobody fills.  `Results` states this for every element; the run
  `programs` has LIMITs equal to the team and larger.
- The last loop of `dgesl` for the transposed system (`job` = 1) ends one row early (`linpack.cpp:533`).  `TransL` does so
  too, and so `Solves` is about `job` = 0, the only one `linpack` passes.
- A zero pivot in column 0 sets `info` to 0, the normal value (`linpack.cpp:356`).  `Pivot` does so too.  No
  property reads `info`; `NanIfSingular` is about the division by zero that follows.

Outside what the runs instantiate:

- `GOMP_parallel` called by a member stores its implicit tasks over those of the outer team
  (`libgomp.cpp:206`): a task that has not begun never does.
- `GOMP_parallel` with fewer structs in the pool than members reports it and goes on with a null pointer (`libgomp.cpp:194`).
- atomic and critical share the mutex (`libgomp.cpp:271`): an atomic inside a critical waits for its own thread.
- `omp_set_lock` waits in no order (`libgomp.cpp:382`): it may find the lock taken every time, if the others
  take it without end.  `GetsLock` is about programs in which each has a limited number of operations.
- The offset to a task's block is kept in one char (`libgomp.cpp:536`): 256 becomes 0, and `free` gets
  another address.  This is what `NarrowAligns` of section 5 excludes.
- `omp10.cpp:161` tests its inputs, prints "too many", and goes on; `permute.cpp` returns.
- With increments other than 1 `daxpy` and `idamax` index from 1, as in Fortran (`linpack.cpp:632`, `:895`).
- Array sizes are rounded down to even ones: with a step of 1 they never grow (`linpack.cpp:126`).  By the
  head of the file a size takes ten seconds, by the code half a second (`:16`, `:92`).

## 5. Proofs

`FIFOProofs`, for every `N` and `Values` that satisfy `FIFOAssumption`.  The inductive invariant
`IInv` says that each client's copy of its own index is current, that past its test the
writer has room and the reader something to take, and what each has already done to the
slot.  `OwnedSlot` alone is not inductive: it says nothing of a writer that is about to reach its
store.  The refinement rests on two lemmas about `Contents`: moving `nextIn` on
appends the slot it names, moving `nextOut` on removes the head.  `FIFOImplementsQueue` is the
full statement `Spec => Queue!Spec`.

`ThreadOpsProofs` states, for each context switch, that it keeps every context of a set
`C` in exactly one place and the background context at the bottom (`OpsInv`), for
any client.  `ThreadsProofs` applies it to `Threads` for any number of
threads and objects: `OnePlace` needs `BgUnderneath` (a pop must find something) and
`BgUnderneath` needs `OnePlace` (the background context is on the stack once), so the two
are proved together.  `PendingFits` and `NeverFull` then follow by counting: neither the stack nor
the FIFO can hold a context twice, and neither holds the running one, so each has at most
as many entries as there are threads.

`SystemProofs` is about all of `Libgomp`, for every value of its constants.  Its first part is the locks.  The invariant has three
parts: a context at `"lock"` or `"nest"` wants a lock of that kind (`WaitInv`), a lock is 1 exactly
when one context has it (`PlainInv`), and the fields of a nest lock are those of the thread number that has
entered it, which is why `main()` and worker 0 count as one client (`NestInv`).  Each action either leaves locks and holders alone
or is one of the operations, and for these the lemmas `PlainStep` and `NestStep` give both the
invariant and the step of `Mutex`.  `LocksExclude` and `NestLocksExclude` are the full refinements.

The rest of it, and `ConstructProofs`, are for any number of workers, task structs, constructs,
sections and regions.  Their theorems do not hold for every program, as findings 2 to 4 of section 4 show,
and so each names what it assumes of it:

- `TasksInRegions`: `main()` queues no task outside its regions, which is finding 4, and there is a task
  struct for every member of a team (`GOMP_NUM_TASKS`; otherwise the loop of `GOMP_parallel` takes from an
  empty pool).  The runs `team`, `critical` and `tasks` satisfy it; what a program does inside its regions is free.
- `CriticalsInTeam`, only for `NoLostWakeup` and `NeverStuck`: all teams are of one size, which is finding 2, and a task meets
  a critical only if no worker is outside the team, which is finding 3.  The run `critical` satisfies it.

The second part of `SystemProofs` follows the task structs.  `TaskConservation` is not inductive: a worker that ends a task must be
known to have one, and one that is no member must be known to have no implicit task.  `TaskInv` adds where each
context may be (`PlacesInv`: `main()` alone waits at the end of a region, and team 1 is the current one exactly then), what
a worker at each of these places has in hand (`WorkersInv`), and that only the team of a region counts
(`CountsInv`: its tasks and the pool are always `NumTasks` together).  `take` and `add` of the pool and of the ready tasks
are lemmas about injective sequences with disjoint ranges.  `RegionOver` follows from
`StepsInv`, by which a member without an implicit task has been through its region.  `MutualExclusion` needs
`CritInv`: who is inside runs user code, and the mutex outside regions is free while one runs.

The third part puts this on `ThreadOpsProofs`.  `OpsInv` is about any client; `ThreadInv` says which contexts
exist, that only worker `i` is ever suspended in object `i`, and how this agrees with the flags of
`GOMP_barrier` and `GOMP_critical_start` (`BarrierFlags`, `CriticalFlags`): a flag is set for a suspended member or for one that
has just been resumed.  Without the flags a `resume` might find an empty object, without `TaskInv` a worker
might be started twice.  `SystemOnePlace` is `OnePlace` from `SysInv`, the three invariants together.  `MutexWakes` adds
`WakeInv`: the search for a waiter starts inside the team and all that wait are in it.

`ConstructProofs` is about the order of constructs.  The members of a team go their own way between meetings, and the
barrier's own bookkeeping speaks of flags only; so `PhaseInv` says that all members have passed the same
barriers and sections, a member suspended in one counting as still there.  `SingleInv` turns the counters of
`GOMP_single_start` into places: a member's is the number of singles before the place it is at, the team's that of the
singles somebody has won.  `SectionsInv` says that `sections_count` counts the members that have started the current construct
until all have and it is 0 again, and that a section has been handed out once exactly when its construct is behind or `section` is
past it.  With these `BarrierOrder`, `SingleOnce` and `SectionsOnce` hold for any list of constructs; each invariant fails alone,
since a construct that re-arms early or a member one barrier behind would spoil the counts.  `TypesHold`
is the type invariant, which needs them all: that a counter is a natural number is
that nothing is taken from it more often than it was put in.

It ends with what waits for what.  `NeverStuck` says that, until `main()` ends, `main()` or a worker with work to do waits for
nothing, which is the absence of deadlock that a proof can reach without fairness.  It is far from inductive.  `WaitsInv` is all the
invariants above with three more: who holds a lock, a nest lock or the mutex, or has just been resumed with the mutex to take, is in
user code or waits for nothing (`HandsInv`); who waits in a barrier has arrived at one and somebody has yet to
(`MeetInv`); and no context is unborn once the boot is over (`AllBorn`).  The argument goes down the
waits: `main()` waits at the end of a region for work that somebody has (`WorkLeft`); if that one has arrived at a barrier,
another member has not and is not through its region (`ArrivedWaitsForWork`); who has not arrived waits for the mutex or
a lock at most, and their holder for nothing.  `NobodyStuck` holds for any mixture of constructs, locks and tasks.
`SwitchesAlwaysWork` counts contexts, as `ThreadsProofs` does: `thread_stack` never has more than the workers, `main()`
and the background loop less the one that runs (17 with the 16 workers of the code, against `THREAD_DEPTH` 40), DeferFIFO never is full
when somebody yields, and the background loop always finds a thread.

`ProgramProofs` shows that the test programs are among the programs these results are about.  `TheProgram` is any of
`omp1` to `omp9` with any arguments; `LooksAtOne` says so, that `omp9`'s locks are numbered from 0, and that there is a task
struct for each member, as above.  `Lib` is `ConstructProofs` with the variables `Libgomp` has and `OmpTests` has not
written as functions of the program's state: the constructs are the meetings of the body (`Constructs`), a member's place among them
follows from its statement (`StepAt`), the lines printed count the winners of a single and the sections run, and the fuel is `Endless`, since
a test program may spin or enter criticals as often as its arguments say.  `ProgramsUseLibrary` is the full refinement
`Spec => Lib!Spec`, one lemma per kind of statement.  A statement may be taken as a step of the library only where the
library allows one, so it needs `ProgInv`: each member is at a statement of the body of the current region or at its end, is half through a statement only if
that is a long one and its task implicit, and whoever is inside a critical or has a bucket's lock is
the one that runs; and nothing is printed before the region that prints.  Hence every
theorem about `Libgomp` is one about each test program (the lemma `LibAssumptions` shows that its assumptions hold); `ProgramsRunOn` puts three of them in terms of the programs.

`OutputProofs` is about the lines of `omp6`, `omp7` and `omp8`.  `PrintedInOrder` speaks of the whole output and of nobody's
place, so it is not inductive.  `LinesInv` counts each member's lines by its place, lets what is behind a
barrier be printed only when all first lines are, and has somebody inside every section that has begun and not ended;
`ThroughInv` says that a member without its implicit task is at the end of its region.  The steps use what the
library promises at the moment a line is printed, and no more: `BarrierOrder` for the lines behind a barrier,
`SingleOnce` for the one line of a single, `SectionsOnce` for the sections.

`SequentialProofs` has the parts that nobody interrupts.

- Task arguments, if every alignment is smaller than the number of values of a char (`NarrowAligns`; section 4 says why
  it must be).  The invariant says where the arguments of each task lie in its block, that blocks do not overlap, and
  that the byte before the arguments of a queued task holds its offset.
- Thread numbers: every stack pointer, and those to return to, stay between the bounds of their stack.
- The countdown: the ticks still to be spent, in both words, and those spent are always the ticks asked for.
- The clock of Linpack, if it runs for three times as long as a first measurement and six times as long as the least
  time asked for before it wraps (`SlowWrap`; a real one wraps after 71 minutes, so that this asks for repetitions and a least
  time of less than 12).  A measurement the clock wraps in looks negative and is done again with twice the repetitions, so soon after
  the wrap that it cannot wrap again; without the assumption it can, and a wrong time is printed.
- The rounds of a loop unrolled to any width take the elements the single loop leaves.

Assumptions: beyond those named here only the `...Assumption` of each module, which TLC also evaluates on each
instance.  `TasksAssumption` asks for at least one task struct and a default team no larger than the number of workers, as
the constants of the code have it.

Model-checked only:

- Liveness: `RunsAgain`, `GetsMutex`, `GetsLock`, `Termination`, `Finishes`, `Terminates`.  It is out of the prover's reach.
- `Solves` and `NanIfSingular` of Linpack, and `AllFoundOnce` of `permute`: that a sequence of row operations solves a system, and that a
  recursion finds each permutation once, are inductions over data.
- `Results` of the test programs: the sums of `omp3`, `omp4` and `omp5` are folds over arrays of any
  length, again an induction over data; its other parts (each iteration done once, the counts of `omp9`) are stated with them and not proved either.

## 6. Not modelled

- Regions inside regions, an atomic inside a critical, and arguments aligned to 256 or more: see section 4.
- The branches of the vector routines for increments other than 1, which nothing calls.
- Constructs of `main()` outside its regions, but for criticals, tasks and locks.
- A `malloc` that fails (`libgomp.cpp:534` prints a line and goes on); the overflow of a stack
  into the next one, of which the code takes no notice.
- Registers, the u-boot interface (`exports.hpp`), the link scripts, the FPU, and text conversion
  (`atoi.cpp` and all printing but the order of the lines of `omp6` to `omp8`).
- `omp_set_dynamic` and `omp_get_dynamic`: a variable nothing else reads.  The entry points that are only
  comments at the end of `libgomp.cpp`.
- `res.cpp` and the hello programs, which only print; the scenario of `threadtest.cpp` is one behaviour of
  `Threads` and has no module.
- The rounding of floating-point numbers, and the rates Linpack prints.
- The start() each `ompN.cpp` has of its own is that of `startup.cpp` and is modelled once.

## 7. Plan

Done: FIFO with its refinement and proof; threads with their proof; the library with locks, task
arguments and thread numbers, and the proofs of all its invariants; the programs, that they use the library as `Libgomp` allows, and the
order of what they print; Linpack; calibrate.

1. The scenario of `threadtest.cpp` as a client of `Threads`.
2. `permute.cpp` and `omp10.cpp` as clients in `ProgramProofs`: their tasks queue tasks, so that the place of a task is a
   tree rather than a statement.
