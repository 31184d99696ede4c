------------------------------ MODULE OmpTests ------------------------------
(***************************************************************************)
(* The test programs omp1.cpp to omp9.cpp on the library.  A program is a  *)
(* list of parallel regions, and a region what each member of its team     *)
(* does, statement by statement; what is printed, its arrays and its sums  *)
(* tell whether barrier, critical, single, sections, locks and the static  *)
(* schedule did what the directives say.                                   *)
(*                                                                         *)
(* The loops of a static schedule are the compiler's code: q iterations    *)
(* for each member, one more for the first r.  No member yields inside a   *)
(* critical construct or with a lock, so that none ever waits for one.     *)
(***************************************************************************)
EXTENDS GompSystem

CONSTANTS
  MaxLimit,    (* the arrays have room for LIMIT up to this                *)
  Programs     (* the programs, with their LIMIT, arguments and counts      *)

ASSUME OmpTestsAssumption == MaxLimit \in Nat \ {0}

VARIABLES
  prog,        (* the program                                               *)
  region,      (* the region main() is in, or comes to                      *)
  at,          (* the statement of the region each member is at             *)
  n,           (* how far it is within the statement                        *)
  sec,         (* the section it is in                                      *)
  A, B, sum,   (* what the programs compute                                 *)
  hist,
  wrote,       (* how often each element of A was assigned                  *)
  log          (* what was printed, by which section and whom               *)

dataVars == <<A, B, sum, hist, wrote, log>>
memberVars == <<at, n, sec>>
programVars == <<prog, region, memberVars, dataVars>>
vars == <<systemVars, programVars>>

-----------------------------------------------------------------------------
(* #pragma omp parallel, with num_threads or without. *)
TeamRegion(threads, body) == [threads |-> threads, body |-> body]

omp1(limit) ==
  [name |-> "omp1", limit |-> limit, regions |-> <<TeamRegion(limit, <<"for">>)>>]

omp2(limit) ==
  [name |-> "omp2", limit |-> limit, regions |-> <<TeamRegion(0, <<"fill", "barrier", "copy">>)>>]

omp3(limit) ==
  [name |-> "omp3", limit |-> limit,
   regions |-> <<TeamRegion(0, <<"fill", "barrier", "copy", "critical">>)>>]

omp4(limit) ==
  [name |-> "omp4", limit |-> limit,
   regions |-> <<TeamRegion(0, <<"fill", "barrier", "copy", "atomic">>)>>]

omp5(limit) ==
  [name |-> "omp5", limit |-> limit,
   regions |-> <<TeamRegion(0, <<"fill">>), TeamRegion(0, <<"reduction">>)>>]

omp6(limit) ==
  [name |-> "omp6", limit |-> limit,
   regions |-> <<TeamRegion(limit, <<"id1", "barrier", "master", "barrier", "id2">>)>>]

(* A single construct ends with a barrier. *)
omp7(limit, arg) ==
  [name |-> "omp7", limit |-> limit, arg |-> arg,
   regions |-> <<TeamRegion(limit, <<"id1", "barrier", "spin", "single", "barrier", "id2">>)>>]

omp8(threads, counts) ==
  [name |-> "omp8", limit |-> threads, counts |-> counts,
   regions |-> <<TeamRegion(threads, <<"id1", "sections", "id2">>)>>]

(* index is what the program makes of the sine of each i; it may be past   *)
(* the last bucket.                                                        *)
omp9(index) ==
  [name |-> "omp9", limit |-> Cardinality(DOMAIN index), index |-> index,
   regions |-> <<TeamRegion(0, <<"init">>), TeamRegion(0, <<"count">>)>>]

Init ==
  /\ SystemInit
  /\ prog \in Programs
  /\ region = 1
  /\ at = [i \in Ids |-> 1] /\ n = [i \in Ids |-> 0] /\ sec = [i \in Ids |-> 0]
  /\ A = [k \in 0 .. MaxLimit - 1 |-> 0] /\ B = A /\ sum = 0
  /\ hist = [l \in Locks |-> 0]
  /\ wrote = [k \in 0 .. MaxLimit - 1 |-> 0]
  /\ log = <<>>

-----------------------------------------------------------------------------
(* main() has done its regions, and prints. *)
Printing == region = Len(prog.regions) + 1
Body == prog.regions[region].body

(* main() *)
MainStarts ==
  /\ cpu = Main /\ region \in DOMAIN prog.regions
  /\ Parallel(prog.regions[region].threads)
  /\ at' = [i \in Ids |-> 1]
  /\ UNCHANGED <<prog, region, n, sec, dataVars, lockVars>>

Join ==
  /\ \/ JoinWait /\ UNCHANGED region
     \/ JoinDone /\ region' = region + 1
  /\ UNCHANGED <<num, barrierVars, criticalVars, singleVars, sectionVars, lockVars>>
  /\ UNCHANGED <<prog, memberVars, dataVars>>

(* The arrays are printed; omp9 destroys its locks as it goes. *)
MainPrints ==
  /\ At("user") /\ cpu = Main /\ Printing
  /\ region' = region + 1
  /\ lock' = [l \in Locks |-> 0]
  /\ UNCHANGED <<threadVars, pc, nest, wants>> /\ ButLocks
  /\ UNCHANGED <<prog, memberVars, dataVars>>

MainEnds ==
  /\ region > Len(prog.regions) + 1
  /\ MainReturns
  /\ UNCHANGED programVars

-----------------------------------------------------------------------------
(* The running member is at a statement op, of which it has done k parts. *)
Doing(op, k) ==
  /\ At("user") /\ Role = "implicit" /\ at[cpu] \in DOMAIN Body
  /\ Body[at[cpu]] = op /\ n[cpu] = k

Done ==
  /\ at' = [at EXCEPT ![cpu] = @ + 1]
  /\ n' = [n EXCEPT ![cpu] = 0]
  /\ UNCHANGED <<prog, region, sec>>

PartDone ==
  /\ n' = [n EXCEPT ![cpu] = @ + 1]
  /\ UNCHANGED <<prog, region, at, sec>>

NoOutput == UNCHANGED log
Says(what, s) == log' = Append(log, <<what, s, Me>>)

(* Mutant of Share: the iterations some members have more push nobody on. *)
ShareOverlaps(total) ==
  LET q == total \div num
      first == q * Me
  IN  first .. first + q - 1 + IF Me < total % num THEN 1 ELSE 0

(* The iterations of the running member, of a loop of so many. *)
Share(total) ==
  LET q == total \div num
      r == total % num
      first == q * Me + IF Me < r THEN Me ELSE r
  IN  first .. first + q - 1 + IF Me < r THEN 1 ELSE 0

(* parallel for: array[i] = omp_get_thread_num() *)
For ==
  /\ Doing("for", 0)
  /\ A' = [k \in DOMAIN A |-> IF k \in Share(prog.limit) THEN Me ELSE A[k]]
  /\ wrote' = [k \in DOMAIN A |-> IF k \in Share(prog.limit) THEN wrote[k] + 1 ELSE wrote[k]]
  /\ Done /\ UNCHANGED <<systemVars, B, sum, hist, log>>

(* A[i] = i *)
Fill ==
  /\ Doing("fill", 0)
  /\ A' = [A EXCEPT ![Me] = Me]
  /\ wrote' = [wrote EXCEPT ![Me] = @ + 1]
  /\ Done /\ UNCHANGED <<systemVars, B, sum, hist, log>>

(* B[i] = A[(i+1)%LIMIT] *)
Copy ==
  /\ Doing("copy", 0)
  /\ B' = [B EXCEPT ![Me] = A[(Me + 1) % prog.limit]]
  /\ Done /\ UNCHANGED <<systemVars, A, sum, hist, wrote, log>>

(* #pragma omp barrier *)
Barrier ==
  /\ Doing("barrier", 0)
  /\ BarrierEnter
  /\ Done /\ ButBarrier /\ UNCHANGED dataVars

InBarrier ==
  /\ BarrierRelease \/ BarrierReturn
  /\ ButBarrier /\ UNCHANGED programVars

EnterCritical ==
  /\ Doing("critical", 0) \/ Doing("reduction", 0)
  /\ CriticalStart
  /\ PartDone /\ ButCritical /\ UNCHANGED dataVars

(* What a member adds to sum: its B[i], or what it has of the reduction. *)
Mine == IF Body[at[cpu]] = "reduction" THEN SumFunctionOnSet(A, Share(prog.limit)) ELSE B[Me]

LeaveCritical ==
  /\ Doing("critical", 1) \/ Doing("reduction", 1)
  /\ CriticalEnd
  /\ sum' = sum + Mine
  /\ Done /\ ButCritical /\ UNCHANGED <<A, B, hist, wrote, log>>

(* An atomic the processor can do itself is no call of the library. *)
Atomic ==
  /\ Doing("atomic", 0)
  /\ sum' = sum + B[Me]
  /\ Done /\ UNCHANGED <<systemVars, A, B, hist, wrote, log>>

(* printf *)
PrintId ==
  /\ Doing("id1", 0) \/ Doing("id2", 0)
  /\ Says(Body[at[cpu]], 0)
  /\ Done /\ UNCHANGED <<systemVars, A, B, sum, hist, wrote>>

(* The compiler's code of a master construct: thread 0 runs it. *)
Master ==
  /\ Doing("master", 0)
  /\ IF Me = 0 THEN Says("master", 0) ELSE NoOutput
  /\ Done /\ UNCHANGED <<systemVars, A, B, sum, hist, wrote>>

Single ==
  /\ Doing("single", 0)
  /\ SingleStart
  /\ IF SingleWins THEN Says("single", 0) ELSE NoOutput
  /\ Done /\ ButSingle /\ UNCHANGED <<A, B, sum, hist, wrote>>

-----------------------------------------------------------------------------
(* spin(id ^ arg): the program gives the exclusive or for each id. *)
Spin ==
  /\ Doing("spin", n[cpu])
  /\ IF n[cpu] < prog.arg[Me]
     THEN Yield /\ PartDone
     ELSE Done /\ UNCHANGED threadVars
  /\ UNCHANGED <<pc, libraryVars, dataVars>>

NumSections == Len(prog.counts)

(* The library has returned section s: stuff() begins, or the construct   *)
(* ends.                                                                   *)
BeginSection(s) ==
  /\ sec' = [sec EXCEPT ![cpu] = s]
  /\ n' = [n EXCEPT ![cpu] = 1]
  /\ IF s = 0 THEN NoOutput ELSE Says("begin", s)
  /\ ButSections /\ UNCHANGED <<prog, region, at, A, B, sum, hist, wrote>>

StartSections ==
  /\ Doing("sections", 0)
  /\ SectionsStart(NumSections)
  /\ BeginSection(NextSection(SectionFrom, SectionsFor(NumSections)))

InSection == Doing("sections", n[cpu]) /\ n[cpu] > 0 /\ sec[cpu] > 0

(* spin(count), of which n - 1 turns have been made *)
SpinInSection ==
  /\ InSection /\ n[cpu] <= prog.counts[sec[cpu]]
  /\ Yield
  /\ PartDone /\ UNCHANGED <<pc, libraryVars, dataVars>>

(* stuff() prints that it ends and returns. *)
EndSection ==
  /\ InSection /\ n[cpu] = prog.counts[sec[cpu]] + 1
  /\ Says("end", sec[cpu])
  /\ PartDone /\ UNCHANGED <<systemVars, A, B, sum, hist, wrote>>

GetSection ==
  /\ InSection /\ n[cpu] = prog.counts[sec[cpu]] + 2
  /\ SectionsNext
  /\ BeginSection(NextSection(section[team], sections[team]))

EndSections ==
  /\ Doing("sections", 1) /\ sec[cpu] = 0
  /\ SectionsEnd
  /\ Done
  /\ UNCHANGED <<stateVars, criticalVars, singleVars, taskVars, lockVars, dataVars>>

-----------------------------------------------------------------------------
(* The locks of omp9, one for each bucket. *)
NBUCKETS == Cardinality(Locks)

InitLocks ==
  /\ Doing("init", 0)
  /\ hist' = [l \in Locks |-> IF l \in Share(NBUCKETS) THEN 0 ELSE hist[l]]
  /\ lock' = [l \in Locks |-> IF l \in Share(NBUCKETS) THEN 0 ELSE lock[l]]
  /\ Done
  /\ UNCHANGED <<threadVars, pc, nest, wants, A, B, sum, wrote, log>> /\ ButLocks

(* The iterations of the second loop take two steps each. *)
Turns == Cardinality(Share(prog.limit))
Index == prog.index[Min(Share(prog.limit)) + n[cpu] \div 2]
Sampling(k) == Doing("count", n[cpu]) /\ n[cpu] < 2 * Turns /\ n[cpu] % 2 = k

SetBucket ==
  /\ Sampling(0) /\ Index < NBUCKETS
  /\ SetLock(Index)
  /\ PartDone /\ ButLocks /\ UNCHANGED dataVars

SkipSample ==
  /\ Sampling(0) /\ Index >= NBUCKETS
  /\ n' = [n EXCEPT ![cpu] = @ + 2]
  /\ UNCHANGED <<systemVars, prog, region, at, sec, dataVars>>

CountSample ==
  /\ Sampling(1)
  /\ UnsetLock(Index)
  /\ hist' = [hist EXCEPT ![Index] = @ + 1]
  /\ PartDone /\ ButLocks /\ UNCHANGED <<A, B, sum, wrote, log>>

CountDone ==
  /\ Doing("count", 2 * Turns)
  /\ Done /\ UNCHANGED <<systemVars, dataVars>>

-----------------------------------------------------------------------------
Worker ==
  /\ WorkerImplicit \/ WorkerIdle
  /\ ButTasks /\ UNCHANGED programVars

TaskEnds ==
  /\ Role = "implicit" /\ at[cpu] \notin DOMAIN Body
  /\ WorkerDone
  /\ ButTasks /\ UNCHANGED programVars

System == (Boot /\ UNCHANGED programVars) \/ (At("halt") /\ UNCHANGED vars)
MainThread == MainStarts \/ Join \/ MainPrints \/ MainEnds
Arrays == For \/ Fill \/ Copy \/ EnterCritical \/ LeaveCritical \/ Atomic
Printed == PrintId \/ Master \/ Single
Sections == StartSections \/ SpinInSection \/ EndSection \/ GetSection \/ EndSections
Histogram == InitLocks \/ SetBucket \/ SkipSample \/ CountSample \/ CountDone

Next == System \/ MainThread \/ Arrays \/ Barrier \/ InBarrier \/ Printed \/ Spin
        \/ Sections \/ Histogram \/ Worker \/ TaskEnds

Spec == Init /\ [][Next]_vars /\ WF_vars(Next)

-----------------------------------------------------------------------------
(* The statements of the regions. *)
Has(op) == \E r \in DOMAIN prog.regions : op \in Range(prog.regions[r].body)

(* What a static schedule gives: each iteration to one member, in the      *)
(* order of their numbers, and to each as many as to the next or one more. *)
Elements == 0 .. prog.limit - 1
Load(i) == Cardinality({k \in Elements : A[k] = i})
Scheduled ==
  /\ \A k \in Elements : wrote[k] = 1 /\ A[k] \in TeamIds /\ (k > 0 => A[k - 1] <= A[k])
  /\ \A i, j \in TeamIds : i < j => Load(i) - Load(j) \in {0, 1}

(* A region without a loop fills the elements with a member's number: each *)
(* once, by that member, and none if LIMIT goes beyond the team.           *)
Filled ==
  \A k \in Elements :
    IF k \in TeamIds THEN A[k] = k /\ wrote[k] = 1 ELSE A[k] = 0 /\ wrote[k] = 0

(* Each member copies what its neighbour has filled; the last one of a     *)
(* team smaller than LIMIT copies an element that nobody fills.            *)
Copied ==
  \A k \in Elements :
    LET next == (k + 1) % prog.limit
    IN  B[k] = IF {k, next} \subseteq TeamIds THEN next ELSE 0

(* What a program prints when its regions are over, for every element of   *)
(* its arrays: loops are shared as a static schedule says; nobody copies   *)
(* its neighbour's element before that is there (omp2.cpp:71, the          *)
(* barrier); no addition to a sum or a bucket is lost.  The elements       *)
(* beyond the team are those omp2.cpp:70 says are filled and are not.      *)
Results ==
  Printing =>
    /\ Has("for") => Scheduled
    /\ Has("fill") => Filled
    /\ Has("copy") => Copied
    /\ Has("critical") \/ Has("atomic") => sum = SumFunction(B)
    /\ Has("reduction") => sum = SumFunction(A)
    /\ Has("count") =>
         \A l \in Locks :
           hist[l] = Cardinality({k \in DOMAIN prog.index : prog.index[k] = l}) /\ lock[l] = 0

(* The places of the output where what is printed, and where section s     *)
(* does so.                                                                *)
Prints(what) == {p \in DOMAIN log : log[p][1] = what}
PrintsIn(what, s) == {p \in Prints(what) : log[p][2] = s}
AllBefore(P, Q) == \A p \in P, q \in Q : p < q
EachOnce(what) == \A i \in TeamIds : Cardinality({p \in Prints(what) : log[p][3] = i}) = 1

(* The output is in the order the directives say, however the members      *)
(* spin: everybody's id1 before what is behind the barrier, one master and *)
(* one single, each section once and to its end before any id2.            *)
PrintedInOrder ==
  /\ Printing /\ Has("id1") => EachOnce("id1") /\ EachOnce("id2")
  /\ Has("barrier") => \A p \in Prints("id2") \cup Prints("master") \cup Prints("single") :
                         Cardinality({q \in Prints("id1") : q < p}) = num
  /\ AllBefore(Prints("master") \cup Prints("single"), Prints("id2"))
  /\ Printing /\ Has("master") => Cardinality(Prints("master")) = 1
  /\ Printing /\ Has("single") => Cardinality(Prints("single")) = 1
  /\ Has("sections") =>
       \A s \in 1 .. NumSections :
         /\ Cardinality(PrintsIn("begin", s)) <= 1
         /\ \A p \in Prints("id2") :
              \E b \in PrintsIn("begin", s), e \in PrintsIn("end", s) :
                b < e /\ e < p /\ log[b][3] = log[e][3]

(* The program ends, and with it start(). *)
Termination == <>(pc[Bg] = "halt")
=============================================================================
