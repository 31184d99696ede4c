---------------------------- MODULE OutputProofs ----------------------------
(***************************************************************************)
(* What the test programs print, omp6.cpp to omp8.cpp with any arguments   *)
(* and for any number of threads: it is in the order their directives ask  *)
(* for.  The barriers, singles and sections of the library see to that.    *)
(***************************************************************************)
EXTENDS ProgramProofs

(* What the members have printed, by how far they are.                     *)
LastStatement == Len(TheProgram.regions[1].body)
By(what, i) == {p \in Prints(what) : log[p][3] = i}
Later == Prints("id2") \cup Prints("master") \cup Prints("single")
Ahead(p) == {q \in Prints("id1") : q < p}
Through == {i \in TeamIds : at[i] > 1}

(* Each has printed its lines as it went.                                  *)
OwnLines ==
  \A i \in TeamIds :
    /\ Cardinality(By("id1", i)) = After(at[i], 1)
    /\ Cardinality(By("id2", i)) = After(at[i], LastStatement)

(* What is behind a barrier is printed when all have come to it.           *)
LinesInOrder ==
  /\ Cardinality(Prints("id1")) = Cardinality(Through)
  /\ Prints("id2") # {} => \A i \in TeamIds : at[i] >= LastStatement
  /\ \A p \in Later : Cardinality(Ahead(p)) = num
  /\ AllBefore(Prints("master") \cup Prints("single"), Prints("id2"))
  /\ Is({"omp6"}) => Cardinality(Prints("master")) = After(at[0], 3)

(* A section that has begun has ended, or somebody is in it.               *)
EndOf(b) == {e \in PrintsIn("end", log[b][2]) : b < e /\ log[e][3] = log[b][3]}
InIt(i, s) == sec[i] = s /\ n[i] \in 1 .. TheProgram.counts[s] + 1
Begun == \A b \in Prints("begin") :
           log[b][2] \in 1 .. SectionsOf /\ (EndOf(b) # {} \/ InIt(log[b][3], log[b][2]))
Ended == \A p \in Prints("id2"), s \in 1 .. SectionsOf :
           \E b \in PrintsIn("begin", s) : \E e \in EndOf(b) : e < p

LinesInv ==
  /\ \A p \in DOMAIN log : log[p][3] \in TeamIds
  /\ Is(Printers) => OwnLines /\ LinesInOrder
  /\ Is({"omp8"}) => Begun /\ Ended

(* Who has no task any more has been through the one region there is.      *)
ThroughInv ==
  Is(Printers) =>
    \A i \in TeamIds :
      (pc[Main] = "join" /\ task[i] = NoTask) \/ region > 1 => at[i] = LastStatement + 1

(* A region begins, or the program.                                        *)
StartsAfresh == log = <<>> /\ \A i \in Ids : at[i] = 1

(* What the library promises of the constructs.                            *)
Promised == Lib!BarrierOrder /\ Lib!SingleOnce /\ Lib!SectionsOnce /\ Lib!TypeOK

-----------------------------------------------------------------------------
(* The statements of the programs that print.                              *)
LEMMA PrinterFacts ==
  ASSUME LooksAtOne, LibInv, ProgInv, Is(Printers), NEW op, NEW k, Doing(op, k)
  PROVE  /\ LastStatement \in {3, 5, 6} /\ at[cpu] \in 1 .. LastStatement
         /\ Is({"omp6"}) => LastStatement = 5
         /\ Is({"omp7"}) => LastStatement = 6
         /\ Is({"omp8"}) => LastStatement = 3
         /\ op = "id1" <=> at[cpu] = 1
         /\ op = "id2" <=> at[cpu] = LastStatement
         /\ op = "master" <=> Is({"omp6"}) /\ at[cpu] = 3
         /\ op = "single" => Is({"omp7"}) /\ at[cpu] = 4
         /\ op = "sections" <=> Is({"omp8"}) /\ at[cpu] = 2
         /\ op \in Long <=> op \in {"spin", "sections"}
<1>1. /\ at[cpu] \in DOMAIN Body /\ Body[at[cpu]] = op /\ BodyIs(Body)
      /\ region \in DOMAIN TheProgram.regions /\ Body = TheProgram.regions[region].body
  BY Doer
<1>2. Len(TheProgram.regions) = 1
  BY RegionFacts DEF Is, Printers
<1>3. LastStatement = Len(Body)
  BY <1>1, <1>2, RegionFacts DEF LastStatement
<1>4. CASE Is({"omp6"})
  <2>1. Body = <<"id1", "barrier", "master", "barrier", "id2">>
    BY <1>1, <1>4 DEF BodyIs, Is
  <2> QED
    BY <1>1, <1>3, <1>4, <2>1 DEF Is, Long
<1>5. CASE Is({"omp7"})
  <2>1. Body = <<"id1", "barrier", "spin", "single", "barrier", "id2">>
    BY <1>1, <1>5 DEF BodyIs, Is
  <2> QED
    BY <1>1, <1>3, <1>5, <2>1 DEF Is, Long
<1>6. CASE Is({"omp8"})
  <2>1. Body = <<"id1", "sections", "id2">>
    BY <1>1, <1>6 DEF BodyIs, Is
  <2> QED
    BY <1>1, <1>3, <1>6, <2>1 DEF Is, Long
<1> QED
  BY <1>4, <1>5, <1>6 DEF Is, Printers

(* Whoever is behind a barrier knows that all have come to it.             *)
LEMMA Behind ==
  ASSUME LooksAtOne, LibInv, ProgInv, Promised, Is(Printers), NEW op, NEW k, Doing(op, k),
         op \in {"id2", "master", "single"}
  PROVE  \A i \in TeamIds : at[i] > 1 /\ (op = "id2" => at[i] >= LastStatement)
<1>1. /\ cpu \in TeamIds /\ cpu \in Ids /\ pc[cpu] = "user" /\ at \in [Ids -> Nat]
      /\ \A i \in TeamIds : i \in Ids
  BY Doer, LibFacts, GompAssumption DEF ProgInv, TeamIds, Ids
<1>2. ASSUME NEW j \in DOMAIN Constructs, Constructs[j] \in {"barrier", "sections"},
             StepAt(at[cpu]) = j + 1
      PROVE  \A i \in TeamIds : StepAt(at[i]) > j
  <2>1. Lib!Past(cpu, j)
    BY <1>1, <1>2 DEF Lib!Past, LibStep
  <2>2. \A i \in TeamIds : Lib!Reached(i, j)
    BY <1>1, <1>2, <2>1, SameOps DEF Promised, Lib!BarrierOrder, Lib!Places
  <2> QED
    BY <1>1, <2>2 DEF Lib!Reached, LibStep
<1>3. CASE Is({"omp6"})
  <2>1. Constructs = <<"barrier", "barrier">> /\ LastStatement = 5
    BY <1>3, PrinterFacts DEF Constructs, Is
  <2>2. \A m : StepAt(m) = 1 + After(m, 2) + After(m, 4)
    BY <1>3 DEF StepAt, Is
  <2>3. CASE op = "id2"
    <3>1. StepAt(at[cpu]) = 2 + 1
      BY <2>1, <2>2, <2>3, PrinterFacts DEF After
    <3>2. \A i \in TeamIds : StepAt(at[i]) > 2
      BY <1>2, <2>1, <3>1
    <3> QED
      BY <1>1, <2>1, <2>2, <3>2 DEF After
  <2>4. CASE op = "master"
    <3>1. StepAt(at[cpu]) = 1 + 1
      BY <2>1, <2>2, <2>4, PrinterFacts DEF After
    <3>2. \A i \in TeamIds : StepAt(at[i]) > 1
      BY <1>2, <2>1, <3>1
    <3> QED
      BY <1>1, <2>2, <2>4, <3>2 DEF After
  <2> QED
    BY <1>3, <2>3, <2>4, PrinterFacts DEF Is
<1>4. CASE Is({"omp7"})
  <2>1. Constructs = <<"barrier", "single", "barrier">> /\ LastStatement = 6
    BY <1>4, PrinterFacts DEF Constructs, Is
  <2>2. \A m : StepAt(m) = 1 + After(m, 2) + After(m, 4) + After(m, 5)
    BY <1>4 DEF StepAt, Is
  <2>3. CASE op = "id2"
    <3>1. StepAt(at[cpu]) = 3 + 1
      BY <2>1, <2>2, <2>3, PrinterFacts DEF After
    <3>2. \A i \in TeamIds : StepAt(at[i]) > 3
      BY <1>2, <2>1, <3>1
    <3> QED
      BY <1>1, <2>1, <2>2, <3>2 DEF After
  <2>4. CASE op = "single"
    <3>1. StepAt(at[cpu]) = 1 + 1
      BY <2>1, <2>2, <2>4, PrinterFacts DEF After
    <3>2. \A i \in TeamIds : StepAt(at[i]) > 1
      BY <1>2, <2>1, <3>1
    <3> QED
      BY <1>1, <2>2, <2>4, <3>2 DEF After
  <2> QED
    BY <1>4, <2>3, <2>4, PrinterFacts DEF Is
<1>5. CASE Is({"omp8"})
  <2>1. Constructs = <<"sections">> /\ LastStatement = 3 /\ op = "id2"
    BY <1>5, PrinterFacts DEF Constructs, Is
  <2>2. \A m : StepAt(m) = 1 + After(m, 2)
    BY <1>5 DEF StepAt, Is
  <2>3. StepAt(at[cpu]) = 1 + 1
    BY <2>1, <2>2, PrinterFacts DEF After
  <2>4. \A i \in TeamIds : StepAt(at[i]) > 1
    BY <1>2, <2>1, <2>3
  <2> QED
    BY <1>1, <2>1, <2>2, <2>4 DEF After
<1> QED
  BY <1>3, <1>4, <1>5 DEF Is, Printers

(* A line more by who prints it, and by what is ahead of it.               *)
LEMMA LinesGrow ==
  ASSUME log \in Seq(Range(log)), NEW what, NEW s, NEW i, log' = Append(log, <<what, s, i>>)
  PROVE  /\ \A w, j : Cardinality(By(w, j))' =
                        Cardinality(By(w, j)) + IF w = what /\ j = i THEN 1 ELSE 0
         /\ \A p \in DOMAIN log : Ahead(p)' = Ahead(p)
         /\ what # "id1" => \A p : p = Len(log) + 1 => Ahead(p)' = Prints("id1")
<1>1. /\ DOMAIN log' = DOMAIN log \cup {Len(log) + 1} /\ Len(log) \in Nat
      /\ log'[Len(log) + 1] = <<what, s, i>> /\ \A p \in DOMAIN log : log'[p] = log[p]
      /\ Len(log) + 1 \notin DOMAIN log /\ DOMAIN log = 1 .. Len(log)
  BY LogGrows
<1>2. \A w, j : By(w, j)' =
        IF w = what /\ j = i THEN By(w, j) \cup {Len(log) + 1} ELSE By(w, j)
  BY <1>1 DEF By, Prints
<1>3. \A w, j : Cardinality(By(w, j))' =
                  Cardinality(By(w, j)) + IF w = what /\ j = i THEN 1 ELSE 0
  <2> TAKE w, j
  <2>1. By(w, j) \subseteq DOMAIN log
    BY DEF By, Prints
  <2>2. Cardinality(By(w, j) \cup {Len(log) + 1}) = Cardinality(By(w, j)) + 1
        /\ Cardinality(By(w, j)) \in Nat
    BY <2>1, PlacesCount
  <2>3. CASE w = what /\ j = i
    BY <1>2, <2>2, <2>3
  <2>4. CASE ~(w = what /\ j = i)
    BY <1>2, <2>2, <2>4
  <2> QED
    BY <2>3, <2>4
<1>4. \A p \in DOMAIN log : ~(Len(log) + 1 < p)
  BY <1>1
<1>5. Prints("id1")' = IF "id1" = what THEN Prints("id1") \cup {Len(log) + 1} ELSE Prints("id1")
  BY PrintsGrow
<1>6. \A p \in DOMAIN log : Ahead(p)' = Ahead(p)
  BY <1>4, <1>5 DEF Ahead
<1>7. ASSUME what # "id1", NEW p, p = Len(log) + 1 PROVE Ahead(p)' = Prints("id1")
  <2>1. \A q \in Prints("id1") : q < p
    BY <1>1, <1>7 DEF Prints
  <2> QED
    BY <1>5, <1>7, <2>1 DEF Ahead
<1> QED
  BY <1>3, <1>6, <1>7

-----------------------------------------------------------------------------
(* What a member prints at a statement.                                    *)
Tells(op) ==
  /\ op \in {"id1", "id2"} => Says(op, 0)
  /\ op = "master" => IF cpu = 0 THEN Says("master", 0) ELSE log' = log
  /\ op = "single" => log' = log \/ Says("single", 0)
  /\ op = "sections" => log' = log \/ \E w \in {"begin", "end"} : \E s : Says(w, s)
  /\ op \notin Saying => log' = log

(* A member goes on with a statement.                                      *)
Moves(op) ==
  /\ Doing(op, n[cpu]) /\ num' = num /\ UNCHANGED <<prog, region, task, kind>>
  /\ pc'[Main] = "join"
  /\ \A i \in Ids : i # cpu => at'[i] = at[i] /\ n'[i] = n[i] /\ sec'[i] = sec[i]
  /\ at'[cpu] = at[cpu] + 1 \/ (op \in Long /\ at'[cpu] = at[cpu])
  /\ Tells(op)

(* So do the steps of one line, the last steps of the others and the rest. *)
LEMMA DoneMoves ==
  ASSUME LooksAtOne, LibInv, ProgInv, NEW op, NEW k, Doing(op, k), Done, Tells(op),
         UNCHANGED <<num, task, kind>>,
         pc' = pc \/ pc' = [pc EXCEPT ![cpu] = "barrier"]
  PROVE  Moves(op)
<1>1. /\ cpu \in Ids /\ at \in [Ids -> Nat] /\ n \in [Ids -> Nat] /\ pc[Main] = "join"
      /\ cpu # Main /\ n[cpu] = k
  BY Doer DEF ProgInv
<1>2. /\ at' = [at EXCEPT ![cpu] = @ + 1] /\ n' = [n EXCEPT ![cpu] = 0]
      /\ UNCHANGED <<prog, region, sec>>
  BY DEF Done
<1>3. pc'[Main] = "join"
  BY <1>1, LibFacts
<1> QED
  BY <1>1, <1>2, <1>3 DEF Moves

(* Each statement that takes one step moves its member one place on. *)
LEMMA StatementsMove ==
  ASSUME LooksAtOne, LibInv, ProgInv,
         \/ For \/ Fill \/ Copy \/ Atomic \/ PrintId \/ Master
         \/ Barrier \/ LeaveCritical \/ Single \/ EndSections \/ InitLocks \/ CountDone
         \/ (Spin /\ Done)
  PROVE  \E op : Moves(op) /\ Done
<1> USE DEF NoOutput, Saying, Tells
<1>1. CASE For \/ Fill \/ Copy \/ Atomic
  <2>1. PICK op \in {"for", "fill", "copy", "atomic"} : Doing(op, 0)
    BY <1>1 DEF For, Fill, Copy, Atomic
  <2>2. Done /\ log' = log /\ UNCHANGED systemVars
    BY <1>1 DEF For, Fill, Copy, Atomic
  <2> QED
    BY <2>1, <2>2, DoneMoves DEF systemVars, libraryVars, stateVars, taskVars
<1>2. CASE PrintId
  <2>1. PICK op \in {"id1", "id2"} : Doing(op, 0)
    BY <1>2 DEF PrintId
  <2>2. Done /\ Says(op, 0) /\ UNCHANGED systemVars
    BY <1>2, <2>1 DEF PrintId, Doing
  <2> QED
    BY <2>1, <2>2, DoneMoves DEF systemVars, libraryVars, stateVars, taskVars
<1>3. CASE Master
  <2>1. Doing("master", 0) /\ Done /\ UNCHANGED systemVars
    BY <1>3 DEF Master
  <2>2. Tells("master")
    BY <1>3, <2>1, Doer DEF Master
  <2> QED
    BY <2>1, <2>2, DoneMoves DEF systemVars, libraryVars, stateVars, taskVars
<1>4. CASE Barrier
  <2>1. /\ Doing("barrier", 0) /\ Done /\ log' = log /\ UNCHANGED <<num, task, kind>>
        /\ pc' = [pc EXCEPT ![cpu] = "barrier"]
    BY <1>4 DEF Barrier, BarrierEnter, Goto, ButBarrier, stateVars, taskVars, dataVars
  <2> QED
    BY <2>1, DoneMoves
<1>5. CASE LeaveCritical
  <2>1. PICK op \in {"critical", "reduction"} : Doing(op, 1)
    BY <1>5 DEF LeaveCritical
  <2>2. Done /\ log' = log /\ UNCHANGED <<num, task, kind, pc>>
    BY <1>5 DEF LeaveCritical, CriticalEnd, ButCritical, stateVars, taskVars
  <2> QED
    BY <2>1, <2>2, DoneMoves
<1>6. CASE Single
  <2>1. /\ Doing("single", 0) /\ Done /\ Tells("single") /\ UNCHANGED <<num, task, kind, pc>>
    BY <1>6 DEF Single, SingleStart, ButSingle, stateVars, taskVars
  <2> QED
    BY <2>1, DoneMoves
<1>7. CASE EndSections
  <2>1. /\ Doing("sections", 1) /\ Done /\ log' = log /\ UNCHANGED <<num, task, kind>>
        /\ pc' = [pc EXCEPT ![cpu] = "barrier"]
    BY <1>7 DEF EndSections, SectionsEnd, BarrierEnter, Goto, stateVars, taskVars, dataVars
  <2> QED
    BY <2>1, DoneMoves
<1>8. CASE InitLocks \/ CountDone
  <2>1. PICK op, k : op \in {"init", "count"} /\ Doing(op, k)
    BY <1>8 DEF InitLocks, CountDone
  <2>2. Done /\ log' = log /\ UNCHANGED <<num, task, kind, pc>>
    BY <1>8 DEF InitLocks, CountDone, ButLocks, systemVars, libraryVars, stateVars, taskVars,
       dataVars
  <2> QED
    BY <2>1, <2>2, DoneMoves
<1>9. CASE Spin /\ Done
  <2>1. Doing("spin", n[cpu]) /\ log' = log /\ UNCHANGED <<num, task, kind, pc>>
    BY <1>9 DEF Spin, libraryVars, stateVars, taskVars, dataVars
  <2> QED
    BY <1>9, <2>1, DoneMoves
<1> QED
  BY <1>1, <1>2, <1>3, <1>4, <1>5, <1>6, <1>7, <1>8, <1>9

(* A step inside a long statement leaves its member in its place. *)
LEMMA LongMove ==
  ASSUME LooksAtOne, LibInv, ProgInv,
         \/ EnterCritical \/ StartSections \/ SpinInSection \/ EndSection \/ GetSection
         \/ SetBucket \/ SkipSample \/ CountSample
         \/ (Spin /\ PartDone)
  PROVE  \E op \in Long : Moves(op) /\ at' = at
<1> USE DEF NoOutput, Saying, Tells, Long
<1>1. ASSUME NEW op \in Long, Doing(op, n[cpu]),
             UNCHANGED <<prog, region, at, num, task, kind, pc>>,
             NEW x, n' = [n EXCEPT ![cpu] = x], NEW s, sec' = sec \/ sec' = [sec EXCEPT ![cpu] = s],
             Tells(op)
      PROVE  Moves(op)
  <2>1. cpu \in Ids /\ n \in [Ids -> Nat] /\ sec = [i \in Ids |-> sec[i]] /\ pc[Main] = "join"
    BY <1>1, Doer DEF ProgInv
  <2> QED
    BY <1>1, <2>1 DEF Moves
<1>2. CASE Spin /\ PartDone
  <2>1. Doing("spin", n[cpu]) /\ UNCHANGED <<prog, region, at, num, task, kind, pc, sec, log>>
        /\ n' = [n EXCEPT ![cpu] = n[cpu] + 1]
    BY <1>2 DEF Spin, PartDone, libraryVars, stateVars, taskVars, dataVars
  <2> QED
    BY <1>1, <2>1
<1>3. CASE SpinInSection \/ EndSection
  <2>1. /\ Doing("sections", n[cpu]) /\ UNCHANGED <<prog, region, at, num, task, kind, pc, sec>>
        /\ n' = [n EXCEPT ![cpu] = n[cpu] + 1] /\ Tells("sections")
    BY <1>3 DEF SpinInSection, EndSection, InSection, PartDone, systemVars, libraryVars, stateVars,
       taskVars, dataVars
  <2> QED
    BY <1>1, <2>1
<1>4. CASE StartSections \/ GetSection
  <2>1. PICK k, s : Doing("sections", k) /\ BeginSection(s)
    BY <1>4 DEF StartSections, GetSection, InSection
  <2>2. /\ UNCHANGED <<prog, region, at, num, task, kind>> /\ n' = [n EXCEPT ![cpu] = 1]
        /\ sec' = [sec EXCEPT ![cpu] = s] /\ Tells("sections")
    BY <2>1 DEF BeginSection, ButSections, stateVars, taskVars
  <2>3. pc' = pc /\ Doing("sections", n[cpu])
    BY <1>4, <2>1, GetSteps DEF Doing
  <2> QED
    BY <1>1, <2>2, <2>3
<1>5. CASE EnterCritical
  <2>1. PICK op \in {"critical", "reduction"} : Doing(op, n[cpu])
    BY <1>5 DEF EnterCritical, Doing
  <2>2. /\ UNCHANGED <<prog, region, at, num, task, kind, sec, log>>
        /\ n' = [n EXCEPT ![cpu] = n[cpu] + 1]
    BY <1>5 DEF EnterCritical, PartDone, ButCritical, stateVars, taskVars, dataVars
  <2>3. pc' = pc
    BY <1>5, EnterSteps
  <2> QED
    BY <1>1, <2>1, <2>2, <2>3
<1>6. CASE SkipSample
  <2>1. /\ Doing("count", n[cpu]) /\ n' = [n EXCEPT ![cpu] = n[cpu] + 2]
        /\ UNCHANGED <<prog, region, at, num, task, kind, pc, sec, log>>
    BY <1>6 DEF SkipSample, Sampling, systemVars, libraryVars, stateVars, taskVars, dataVars
  <2> QED
    BY <1>1, <2>1
<1>7. CASE SetBucket \/ CountSample
  <2>1. /\ Doing("count", n[cpu]) /\ n' = [n EXCEPT ![cpu] = n[cpu] + 1]
        /\ UNCHANGED <<prog, region, at, num, task, kind, sec, log>>
    BY <1>7 DEF SetBucket, CountSample, Sampling, PartDone, ButLocks, stateVars, taskVars, dataVars
  <2>2. pc' = pc
    BY <1>7, BucketSteps
  <2> QED
    BY <1>1, <2>1, <2>2
<1> QED
  BY <1>1, <1>2, <1>3, <1>4, <1>5, <1>6, <1>7 DEF Moves

-----------------------------------------------------------------------------
(* The members of a team, and how far they come in a step of one.          *)
LEMMA TeamFacts ==
  ASSUME LooksAtOne, LibInv
  PROVE  /\ IsFiniteSet(TeamIds) /\ Cardinality(TeamIds) = num /\ num \in Nat /\ 0 \in TeamIds
         /\ \A i \in TeamIds : i \in Ids
<1>1. num \in 1 .. MaxThreads /\ num \in Nat
  BY LibFacts
<1>2. IsFiniteSet(0 .. num - 1) /\ Cardinality(0 .. num - 1) = num
  <2>1. 0 \in Int /\ num - 1 \in Int
    BY <1>1
  <2>2. /\ IsFiniteSet(0 .. num - 1)
        /\ Cardinality(0 .. num - 1) = IF 0 > num - 1 THEN 0 ELSE num - 1 - 0 + 1
    BY <2>1, FS_Interval, Zenon
  <2> QED
    BY <1>1, <2>2
<1> QED
  BY <1>1, <1>2, GompAssumption DEF TeamIds, Ids

(* What a move is: one member of the team, at its own place, that goes on by one or stays. *)
LEMMA MoverFacts ==
  ASSUME LooksAtOne, LibInv, ProgInv, NEW op, Moves(op)
  PROVE  /\ cpu \in TeamIds /\ Me = cpu /\ TeamIds' = TeamIds /\ num' = num
         /\ \A i \in TeamIds : at[i] \in Nat /\ at'[i] \in Nat /\ (i # cpu => at'[i] = at[i])
         /\ at'[cpu] \in {at[cpu], at[cpu] + 1} /\ (op \notin Long => at'[cpu] = at[cpu] + 1)
         /\ log \in Seq(Range(log)) /\ Len(log) \in Nat /\ DOMAIN log = 1 .. Len(log)
         /\ Doing(op, n[cpu]) /\ Tells(op)
<1>1. Doing(op, n[cpu]) /\ Tells(op) /\ num' = num /\ at \in [Ids -> Nat]
      /\ log \in Seq(Range(log))
  BY DEF Moves, ProgInv
<1>2. cpu \in TeamIds /\ Me = cpu /\ at[cpu] \in Nat
  BY <1>1, Doer
<1>3. \A i \in TeamIds : i \in Ids
  BY TeamFacts
<1>4. TeamIds' = TeamIds
  BY <1>1 DEF TeamIds
<1>5. Len(log) \in Nat /\ DOMAIN log = 1 .. Len(log)
  BY <1>1, LenProperties
<1> QED
  BY <1>1, <1>2, <1>3, <1>4, <1>5 DEF Moves

(* Whoever prints a line that tells how far it is goes on to what follows. *)
LEMMA OwnLinesStep ==
  ASSUME LooksAtOne, LibInv, ProgInv, Is(Printers), OwnLines, NEW op, Moves(op)
  PROVE  OwnLines'
<1> DEFINE Own(i) == /\ Cardinality(By("id1", i)) = After(at[i], 1)
                     /\ Cardinality(By("id2", i)) = After(at[i], LastStatement)
<1>1. \A i \in TeamIds : Own(i)
  BY DEF OwnLines
<1>2. /\ op = "id1" <=> at[cpu] = 1
      /\ op = "id2" <=> at[cpu] = LastStatement
      /\ at[cpu] \in 1 .. LastStatement /\ LastStatement \in {3, 5, 6}
      /\ op \in {"id1", "id2"} => at'[cpu] = at[cpu] + 1
  BY MoverFacts, PrinterFacts DEF Long
<1>3. \A i \in TeamIds :
        /\ Cardinality(By("id1", i))' =
             Cardinality(By("id1", i)) + IF op = "id1" /\ i = cpu THEN 1 ELSE 0
        /\ Cardinality(By("id2", i))' =
             Cardinality(By("id2", i)) + IF op = "id2" /\ i = cpu THEN 1 ELSE 0
        /\ Cardinality(By("id1", i)) \in Nat /\ Cardinality(By("id2", i)) \in Nat
  <2>1. \A w, i : By(w, i) \subseteq DOMAIN log
    BY DEF By, Prints
  <2>2. \A w, i : Cardinality(By(w, i)) \in Nat
    BY <2>1, MoverFacts, PlacesCount
  <2>3. CASE log' = log /\ op \notin {"id1", "id2"}
    <3>1. \A w, i : By(w, i)' = By(w, i)
      BY <2>3 DEF By, Prints
    <3> QED
      BY <2>2, <2>3, <3>1
  <2>4. ASSUME NEW what, NEW s, Says(what, s),
               what \in {"id1", "id2"} => what = op, op \in {"id1", "id2"} => what = op
        PROVE  \A w \in {"id1", "id2"} : \A i :
                 Cardinality(By(w, i))' =
                   Cardinality(By(w, i)) + IF w = op /\ i = cpu THEN 1 ELSE 0
    <3>1. log' = Append(log, <<what, s, cpu>>)
      BY <2>4, MoverFacts DEF Says
    <3>2. \A w, i : Cardinality(By(w, i))' =
                      Cardinality(By(w, i)) + IF w = what /\ i = cpu THEN 1 ELSE 0
      <4>1. log \in Seq(Range(log))
        BY MoverFacts
      <4> QED
        BY <3>1, <4>1, LinesGrow
    <3> QED
      BY <2>4, <3>2
  <2>5. (log' = log /\ op \notin {"id1", "id2"})
        \/ \E what, s : Says(what, s) /\ (what \in {"id1", "id2"} => what = op)
                        /\ (op \in {"id1", "id2"} => what = op)
    BY MoverFacts DEF Tells, Saying
  <2> QED
    BY <2>2, <2>3, <2>4, <2>5
<1>4. ASSUME NEW i \in TeamIds
      PROVE  /\ Cardinality(By("id1", i))' = After(at'[i], 1)
             /\ Cardinality(By("id2", i))' = After(at'[i], LastStatement)
  <2>1. Own(i) /\ at[i] \in Nat /\ at'[i] \in Nat
    BY <1>1, MoverFacts
  <2>2. CASE i # cpu
    BY <1>3, <2>1, <2>2, MoverFacts DEF After
  <2>3. CASE i = cpu
    BY <1>2, <1>3, <2>1, <2>3, MoverFacts DEF After
  <2> QED
    BY <2>2, <2>3
<1> QED
  BY <1>4, MoverFacts DEF OwnLines, After

(* What is behind a barrier is still behind it.                            *)
LEMMA InOrderStep ==
  ASSUME LooksAtOne, LibInv, ProgInv, Promised, Is(Printers), LinesInOrder, NEW op, Moves(op)
  PROVE  LinesInOrder'
<1>1. /\ cpu \in TeamIds /\ Me = cpu /\ TeamIds' = TeamIds /\ num' = num
      /\ \A i \in TeamIds : at[i] \in Nat /\ at'[i] \in Nat /\ (i # cpu => at'[i] = at[i])
      /\ at'[cpu] \in {at[cpu], at[cpu] + 1} /\ (op \notin Long => at'[cpu] = at[cpu] + 1)
      /\ log \in Seq(Range(log)) /\ Len(log) \in Nat /\ DOMAIN log = 1 .. Len(log)
      /\ Doing(op, n[cpu]) /\ Tells(op)
  BY MoverFacts
<1>2. /\ LastStatement \in {3, 5, 6} /\ at[cpu] \in 1 .. LastStatement
      /\ Is({"omp6"}) => LastStatement = 5
      /\ op = "id1" <=> at[cpu] = 1
      /\ op = "id2" <=> at[cpu] = LastStatement
      /\ op = "master" <=> Is({"omp6"}) /\ at[cpu] = 3
      /\ op = "single" => Is({"omp7"}) /\ at[cpu] = 4 /\ LastStatement = 6
      /\ op \in Long => op \notin {"id1", "id2", "master", "single"}
  BY <1>1, PrinterFacts DEF Long
<1>3. IsFiniteSet(TeamIds) /\ Cardinality(TeamIds) = num /\ 0 \in TeamIds
  BY TeamFacts
<1>4. \A i \in TeamIds : at'[i] >= at[i]
  BY <1>1
<1>5. Through' = IF op = "id1" THEN Through \cup {cpu} ELSE Through
  <2>1. Through' = {i \in TeamIds : at'[i] > 1}
    BY <1>1 DEF Through
  <2>2. CASE op = "id1"
    <3>1. at'[cpu] = 2
      BY <1>1, <1>2, <2>2
    <3> QED
      BY <1>1, <2>1, <2>2, <3>1 DEF Through
  <2>3. CASE op # "id1"
    <3>1. at[cpu] > 1 /\ at'[cpu] > 1
      BY <1>1, <1>2, <2>3
    <3> QED
      BY <1>1, <2>1, <2>3, <3>1 DEF Through
  <2> QED
    BY <2>2, <2>3
<1>6. Cardinality(Through)' = Cardinality(Through) + IF op = "id1" THEN 1 ELSE 0
  <2>1. IsFiniteSet(Through) /\ Cardinality(Through) \in Nat
    <3>1. Through \subseteq TeamIds
      BY DEF Through
    <3>2. IsFiniteSet(Through)
      BY <1>3, <3>1, FS_Subset
    <3> QED
      BY <3>2, FS_CardinalityType
  <2>2. CASE op = "id1"
    <3>1. cpu \notin Through
      BY <1>2, <2>2 DEF Through
    <3>2. Cardinality(Through \cup {cpu}) = Cardinality(Through) + 1
      BY <2>1, <3>1, FS_AddElement
    <3> QED
      BY <1>5, <2>2, <3>2
  <2>3. CASE op # "id1"
    BY <1>5, <2>1, <2>3
  <2> QED
    BY <2>2, <2>3
<1>7. (log' = log /\ op \notin {"id1", "id2"} /\ ~(op = "master" /\ cpu = 0))
      \/ \E what, s :
           /\ log' = Append(log, <<what, s, cpu>>)
           /\ what \in {"id1", "id2", "master", "single"} => what = op
           /\ op \in {"id1", "id2", "master"} => what = op
           /\ what = "master" => cpu = 0
  BY <1>1 DEF Tells, Saying, Says
<1>8. \A w : Prints(w) \subseteq DOMAIN log /\ Cardinality(Prints(w)) \in Nat
  <2>1. \A w : Prints(w) \subseteq DOMAIN log
    BY DEF Prints
  <2> QED
    BY <1>1, <2>1, PlacesCount
<1>9. CASE log' = log /\ op \notin {"id1", "id2"} /\ ~(op = "master" /\ cpu = 0)
  <2>1. (\A w : Prints(w)' = Prints(w)) /\ Later' = Later /\ \A p : Ahead(p)' = Ahead(p)
    BY <1>9 DEF Prints, Later, Ahead
  <2>2. Cardinality(Prints("id1"))' = Cardinality(Through)'
    BY <1>6, <1>8, <1>9, <2>1 DEF LinesInOrder
  <2>3. Prints("id2")' # {} => \A i \in TeamIds' : at'[i] >= LastStatement
    BY <1>1, <1>2, <1>4, <2>1 DEF LinesInOrder
  <2>4. (\A p \in Later : Cardinality(Ahead(p)) = num)'
    BY <1>1, <2>1 DEF LinesInOrder
  <2>5. AllBefore(Prints("master") \cup Prints("single"), Prints("id2"))'
    BY <2>1 DEF LinesInOrder, AllBefore
  <2>6. Is({"omp6"}) => Cardinality(Prints("master"))' = After(at'[0], 3)
    <3>1. Is({"omp6"}) => Cardinality(Prints("master")) = After(at[0], 3)
      BY DEF LinesInOrder
    <3>2. Is({"omp6"}) => After(at'[0], 3) = After(at[0], 3)
      <4>1. CASE cpu # 0
        BY <1>1, <1>3, <4>1
      <4>2. CASE cpu = 0 /\ Is({"omp6"})
        <5>1. at[0] # 3
          BY <1>2, <1>9, <4>2
        <5> QED
          BY <1>1, <1>3, <4>2, <5>1 DEF After
      <4> QED
        BY <4>1, <4>2
    <3> QED
      BY <2>1, <3>1, <3>2
  <2> QED
    BY <2>2, <2>3, <2>4, <2>5, <2>6 DEF LinesInOrder, After
<1>10. ASSUME NEW what, NEW s, log' = Append(log, <<what, s, cpu>>),
              what \in {"id1", "id2", "master", "single"} => what = op,
              op \in {"id1", "id2", "master"} => what = op,
              what = "master" => cpu = 0
       PROVE  LinesInOrder'
  <2>0. PICK last : last = Len(log) + 1
    OBVIOUS
  <2>1. /\ \A w : Prints(w)' = IF w = what THEN Prints(w) \cup {last} ELSE Prints(w)
        /\ \A w : Cardinality(Prints(w))' = Cardinality(Prints(w)) + IF w = what THEN 1 ELSE 0
    BY <1>1, <1>10, <2>0, PrintsGrow
  <2>2. /\ \A p \in DOMAIN log : Ahead(p)' = Ahead(p)
        /\ what # "id1" => Ahead(last)' = Prints("id1")
    BY <1>1, <1>10, <2>0, LinesGrow
  <2>3. what \in {"id2", "master", "single"} =>
          \A i \in TeamIds : at[i] > 1 /\ (what = "id2" => at[i] >= LastStatement)
    <3>1. op \in {"id2", "master", "single"} =>
            \A i \in TeamIds : at[i] > 1 /\ (op = "id2" => at[i] >= LastStatement)
      BY <1>1, Behind
    <3> QED
      BY <1>10, <3>1
  <2>4. Cardinality(Prints("id1"))' = Cardinality(Through)'
    BY <1>6, <1>8, <1>10, <2>1 DEF LinesInOrder
  <2>5. Prints("id2")' # {} => \A i \in TeamIds' : at'[i] >= LastStatement
    <3>1. Prints("id2") # {} \/ what = "id2" => \A i \in TeamIds : at[i] >= LastStatement
      BY <2>3 DEF LinesInOrder
    <3> QED
      BY <1>1, <1>2, <1>4, <2>1, <3>1
  <2>6. ASSUME what \in {"id2", "master", "single"}
        PROVE  Ahead(last)' = Prints("id1") /\ Cardinality(Prints("id1")) = num
    <3>1. Through = TeamIds
      BY <2>3, <2>6 DEF Through
    <3>2. Cardinality(Prints("id1")) = num
      BY <1>3, <3>1 DEF LinesInOrder
    <3>3. Ahead(last)' = Prints("id1")
      BY <2>2, <2>6
    <3> QED
      BY <3>2, <3>3
  <2>7. (\A p \in Later : Cardinality(Ahead(p)) = num)'
    <3>1. Later' \subseteq Later \cup (IF what \in {"id2", "master", "single"} THEN {last} ELSE {})
      BY <2>1 DEF Later
    <3>2. Later \subseteq DOMAIN log
      BY <1>8 DEF Later
    <3>3. \A p \in Later : Cardinality(Ahead(p)') = num'
      BY <1>1, <2>2, <3>2 DEF LinesInOrder
    <3>4. what \in {"id2", "master", "single"} => Cardinality(Ahead(last)') = num'
      BY <1>1, <2>6
    <3> QED
      BY <3>1, <3>3, <3>4
  <2>8. AllBefore(Prints("master") \cup Prints("single"), Prints("id2"))'
    <3>1. ASSUME what \in {"master", "single"} PROVE Prints("id2") = {}
      <4>1. at[cpu] < LastStatement
        BY <1>2, <1>10, <3>1
      <4> QED
        BY <1>1, <1>2, <4>1 DEF LinesInOrder
    <3>2. \A p \in Prints("master") \cup Prints("single") : p < last
      BY <1>1, <1>8, <2>0
    <3> QED
      BY <2>1, <3>1, <3>2 DEF LinesInOrder, AllBefore
  <2>9. Is({"omp6"}) => Cardinality(Prints("master"))' = After(at'[0], 3)
    <3>1. ASSUME Is({"omp6"}) PROVE Cardinality(Prints("master")) = After(at[0], 3)
      BY <3>1 DEF LinesInOrder
    <3>2. CASE Is({"omp6"}) /\ what = "master"
      <4>1. op = "master" /\ cpu = 0 /\ at[0] = 3 /\ at'[0] = 4
        BY <1>1, <1>2, <1>10, <3>2
      <4> QED
        BY <2>1, <3>1, <3>2, <4>1 DEF After
    <3>3. CASE Is({"omp6"}) /\ what # "master"
      <4>1. After(at'[0], 3) = After(at[0], 3)
        <5>1. CASE cpu # 0
          BY <1>1, <1>3, <5>1
        <5>2. CASE cpu = 0
          <6>1. at[0] # 3
            BY <1>2, <1>10, <3>3, <5>2
          <6> QED
            BY <1>1, <1>3, <5>2, <6>1 DEF After
        <5> QED
          BY <5>1, <5>2
      <4> QED
        BY <1>8, <2>1, <3>1, <3>3, <4>1
    <3> QED
      BY <3>2, <3>3
  <2> QED
    BY <2>4, <2>5, <2>7, <2>8, <2>9 DEF LinesInOrder, After
<1> QED
  BY <1>7, <1>9, <1>10

-----------------------------------------------------------------------------
(* A section that has ended has ended for good.                            *)
LEMMA EndsStay ==
  ASSUME log \in Seq(Range(log)),
         log' = log \/ \E what, s, i : log' = Append(log, <<what, s, i>>)
  PROVE  /\ DOMAIN log \subseteq DOMAIN log' /\ \A p \in DOMAIN log : log'[p] = log[p]
         /\ \A w : Prints(w) \subseteq Prints(w)'
         /\ \A w, t : PrintsIn(w, t) \subseteq PrintsIn(w, t)'
         /\ \A b \in DOMAIN log : EndOf(b) \subseteq EndOf(b)'
<1>1. DOMAIN log \subseteq DOMAIN log' /\ \A p \in DOMAIN log : log'[p] = log[p]
  <2>1. CASE log' = log
    BY <2>1
  <2>2. ASSUME NEW what, NEW s, NEW i, log' = Append(log, <<what, s, i>>)
        PROVE  DOMAIN log \subseteq DOMAIN log' /\ \A p \in DOMAIN log : log'[p] = log[p]
    BY <2>2, LogGrows
  <2> QED
    BY <2>1, <2>2
<1>2. \A w : Prints(w) \subseteq Prints(w)'
  BY <1>1 DEF Prints
<1>3. \A w, t : PrintsIn(w, t) \subseteq PrintsIn(w, t)'
  BY <1>1, <1>2 DEF PrintsIn, Prints
<1>4. ASSUME NEW b \in DOMAIN log PROVE EndOf(b) \subseteq EndOf(b)'
  <2>1. PICK s : s = log[b][2]
    OBVIOUS
  <2>2. log'[b] = log[b] /\ log'[b][2] = s
    BY <1>1, <2>1
  <2>3. EndOf(b) = {e \in PrintsIn("end", s) : b < e /\ log[e][3] = log[b][3]}
    BY <2>1 DEF EndOf
  <2>4. EndOf(b)' = {e \in PrintsIn("end", s)' : b < e /\ log'[e][3] = log'[b][3]}
    BY <2>2 DEF EndOf, PrintsIn
  <2>5. PrintsIn("end", s) \subseteq PrintsIn("end", s)' /\ PrintsIn("end", s) \subseteq DOMAIN log
    BY <1>3 DEF PrintsIn, Prints
  <2> QED
    BY <1>1, <2>2, <2>3, <2>4, <2>5
<1> QED
  BY <1>1, <1>2, <1>3, <1>4

(* A member is in a section only while it is at the construct.             *)
LEMMA InSections ==
  ASSUME LooksAtOne, LibInv, ProgInv, Is({"omp8"}), NEW i \in TeamIds, NEW s, InIt(i, s)
  PROVE  at[i] = 2 /\ Body[at[i]] = "sections"
<1>1. i \in Ids /\ n[i] # 0
  BY TeamFacts DEF InIt
<1>2. kind[i] = "implicit" /\ at[i] \in DOMAIN Body /\ Body[at[i]] \in Long
  BY <1>1 DEF ProgInv
<1>3. prog = TheProgram /\ region \in DOMAIN TheProgram.regions
  BY <1>1, <1>2, LibFacts DEF ProgInv
<1>4. Body = <<"id1", "sections", "id2">>
  BY <1>3, Bodies DEF BodyIs, Body, Is
<1> QED
  BY <1>2, <1>4 DEF Long

(* The section the library gives is one of the construct's.                *)
LEMMA SectionGiven ==
  ASSUME LooksAtOne, LibInv, ProgInv, Promised, (Lib!TypeOK)', StartSections \/ GetSection
  PROVE  /\ n[cpu] = 0 \/ n[cpu] = TheProgram.counts[sec[cpu]] + 2
         /\ \E s : BeginSection(s) /\ (s = 0 \/ s \in 1 .. SectionsOf)
<1>1. team \in TeamNos /\ section \in [TeamNos -> Nat]
  BY DEF Promised, Lib!TypeOK, Lib!SystemTypeOK, Lib!TeamNos, TeamNos
<1>2. ASSUME NEW k, Doing("sections", k), NEW s \in Nat, BeginSection(s)
      PROVE  s = 0 \/ s \in 1 .. SectionsOf
  <2>1. cpu \in Ids /\ Is({"omp8"}) /\ n \in [Ids -> Nat] /\ sec = [i \in Ids |-> sec[i]]
    BY <1>2, Doer, Owners DEF Owns, ProgInv
  <2>2. n'[cpu] = 1 /\ sec'[cpu] = s
    BY <1>2, <2>1 DEF BeginSection
  <2>3. LibSec' \in [Ids -> -1 .. SectionsOf]
    BY DEF Lib!TypeOK, Lib!Ids, Ids, Lib!Out
  <2>4. LibSec'[cpu] = IF n'[cpu] > 0 THEN sec'[cpu] ELSE -1
    BY <2>1 DEF LibSec, AtSections
  <2>5. LibSec'[cpu] \in -1 .. SectionsOf
    BY <2>1, <2>3
  <2>6. SectionsOf \in Nat
    BY LibAssumptions
  <2> QED
    BY <2>2, <2>4, <2>5, <2>6
<1>3. CASE StartSections
  <2>1. PICK s : s = NextSection(SectionFrom, SectionsFor(NumSections)) /\ BeginSection(s)
    BY <1>3 DEF StartSections
  <2>2. s \in Nat
    BY <1>1, <2>1 DEF NextSection, SectionFrom
  <2>3. Doing("sections", 0) /\ n[cpu] = 0
    BY <1>3 DEF StartSections, Doing
  <2> QED
    BY <1>2, <2>1, <2>2, <2>3
<1>4. CASE GetSection
  <2>1. PICK s : s = NextSection(section[team], sections[team]) /\ BeginSection(s)
    BY <1>4 DEF GetSection
  <2>2. s \in Nat
    BY <1>1, <2>1 DEF NextSection
  <2>3. Doing("sections", n[cpu]) /\ n[cpu] = TheProgram.counts[sec[cpu]] + 2
    BY <1>4 DEF GetSection, InSection, ProgInv
  <2> QED
    BY <1>2, <2>1, <2>2, <2>3
<1> QED
  BY <1>3, <1>4

(* How the steps of a sections construct move it.                          *)
SectionSteppers ==
  \/ StartSections \/ GetSection \/ SpinInSection \/ EndSection \/ EndSections

(* What the output has more after a step.                                  *)
LEMMA LineMore ==
  ASSUME LooksAtOne, LibInv, ProgInv, NEW op, Moves(op), \A p \in DOMAIN log : log[p][3] \in TeamIds
  PROVE  /\ log' = log \/ \E what, s : log' = Append(log, <<what, s, cpu>>)
         /\ \A p \in DOMAIN log' : log'[p][3] \in TeamIds'
<1>1. /\ cpu \in TeamIds /\ Me = cpu /\ TeamIds' = TeamIds /\ log \in Seq(Range(log)) /\ Tells(op)
  BY MoverFacts
<1>2. log' = log \/ \E what, s : log' = Append(log, <<what, s, cpu>>)
  BY <1>1 DEF Tells, Saying, Says
<1>3. ASSUME NEW what, NEW s, log' = Append(log, <<what, s, cpu>>)
      PROVE  \A p \in DOMAIN log' : log'[p][3] \in TeamIds'
  <2>1. /\ DOMAIN log' = DOMAIN log \cup {Len(log) + 1}
        /\ log'[Len(log) + 1] = <<what, s, cpu>> /\ \A p \in DOMAIN log : log'[p] = log[p]
    BY <1>1, <1>3, LogGrows
  <2>2. log'[Len(log) + 1][3] = cpu
    BY <2>1
  <2> QED
    BY <1>1, <2>1, <2>2
<1> QED
  BY <1>1, <1>2, <1>3

(* A section that has begun is one of the construct's, and whoever began   *)
(* it is in it or has ended it.                                            *)
LEMMA BegunStep ==
  ASSUME LooksAtOne, LibInv, ProgInv, Promised, (Lib!TypeOK)', Is({"omp8"}), Begun,
         \A p \in DOMAIN log : log[p][3] \in TeamIds,
         NEW op, Moves(op), op = "sections" => SectionSteppers
  PROVE  Begun'
<1>0. PICK c : c = cpu
  OBVIOUS
<1>1. /\ c \in TeamIds /\ c \in Ids /\ Me = c
      /\ log \in Seq(Range(log)) /\ Len(log) \in Nat /\ DOMAIN log = 1 .. Len(log)
      /\ Doing(op, n[cpu]) /\ Tells(op)
      /\ n \in [Ids -> Nat] /\ sec = [i \in Ids |-> sec[i]] /\ prog = TheProgram
  <2>1. /\ c \in TeamIds /\ Me = c
        /\ log \in Seq(Range(log)) /\ Len(log) \in Nat /\ DOMAIN log = 1 .. Len(log)
        /\ Doing(op, n[cpu]) /\ Tells(op)
    BY <1>0, MoverFacts
  <2>2. c \in Ids
    BY <2>1, TeamFacts
  <2> QED
    BY <2>1, <2>2 DEF ProgInv
<1>2. \A i \in TeamIds : \A s : i # c /\ InIt(i, s) => InIt(i, s)'
  <2>1. \A i \in TeamIds : i # c => n'[i] = n[i] /\ sec'[i] = sec[i]
    BY <1>0, TeamFacts DEF Moves
  <2> QED
    BY <2>1 DEF InIt
<1>3. /\ DOMAIN log \subseteq DOMAIN log' /\ \A p \in DOMAIN log : log'[p] = log[p]
      /\ \A b \in DOMAIN log : EndOf(b) \subseteq EndOf(b)'
  <2>1. log' = log \/ \E what, s, i : log' = Append(log, <<what, s, i>>)
    BY LineMore
  <2> QED
    BY <1>1, <2>1, EndsStay
<1> DEFINE Known(b) == /\ log[b][2] \in 1 .. SectionsOf
                       /\ EndOf(b) # {} \/ InIt(log[b][3], log[b][2])
(* It suffices to look at the running member. *)
<1>4. ASSUME \A b \in Prints("begin"), s \in 1 .. SectionsOf :
               log[b][3] = c /\ log[b][2] = s /\ InIt(c, s) => InIt(c, s)' \/ EndOf(b)' # {}
      PROVE  \A b \in Prints("begin") : Known(b)'
  <2> TAKE b \in Prints("begin")
  <2>1. PICK i, s : i = log[b][3] /\ s = log[b][2]
    OBVIOUS
  <2>2. b \in DOMAIN log /\ Known(b)
    BY DEF Begun, Prints
  <2>3. i \in TeamIds /\ s \in 1 .. SectionsOf /\ (EndOf(b) # {} \/ InIt(i, s))
    BY <2>1, <2>2
  <2>4. log'[b][3] = i /\ log'[b][2] = s
    BY <1>3, <2>1, <2>2
  <2>5. EndOf(b)' # {} \/ InIt(i, s)'
    BY <1>2, <1>3, <1>4, <2>1, <2>2, <2>3
  <2>6. InIt(i, s)' => InIt(log[b][3], log[b][2])'
    BY <2>4 DEF InIt
  <2> QED
    BY <2>3, <2>4, <2>5, <2>6
<1>5. CASE op # "sections"
  <2>1. \A s : ~InIt(c, s)
    <3>1. at[c] # 2
      BY <1>0, <1>1, <1>5, PrinterFacts DEF Printers, Is
    <3> QED
      BY <1>1, <3>1, InSections
  <2>2. Prints("begin")' = Prints("begin")
    <3>1. log' = log \/ \E what, s : what # "begin" /\ log' = Append(log, <<what, s, Me>>)
      BY <1>1, <1>5 DEF Tells, Saying, Says
    <3>2. ASSUME NEW what, NEW s, what # "begin", log' = Append(log, <<what, s, Me>>)
          PROVE  Prints("begin")' = Prints("begin")
      BY <1>1, <3>2, PrintsGrow
    <3>3. log' = log => Prints("begin")' = Prints("begin")
      BY DEF Prints
    <3> QED
      BY <3>1, <3>2, <3>3
  <2> QED
    BY <1>4, <2>1, <2>2 DEF Begun
<1>6. CASE SpinInSection
  <2>1. /\ n[c] \in Nat /\ n[c] > 0 /\ n[c] <= TheProgram.counts[sec[c]]
        /\ n' = [n EXCEPT ![c] = @ + 1] /\ sec' = sec /\ log' = log
    BY <1>0, <1>1, <1>6 DEF SpinInSection, InSection, PartDone, dataVars
  <2>2. SectionsOf = Len(TheProgram.counts) /\ TheProgram.counts \in Seq(Nat)
    BY Shapes DEF SectionsOf, Shape, Is
  <2>3. ASSUME NEW s \in 1 .. SectionsOf, InIt(c, s) PROVE InIt(c, s)'
    <3>1. TheProgram.counts[s] \in Nat
      BY <2>2, <2>3, LenProperties
    <3>2. sec[c] = s /\ n[c] <= TheProgram.counts[s] /\ n'[c] = n[c] + 1
      BY <1>1, <2>1, <2>3 DEF InIt
    <3>3. n'[c] \in 1 .. TheProgram.counts[s] + 1
      BY <2>1, <3>1, <3>2
    <3> QED
      BY <2>1, <3>2, <3>3 DEF InIt
  <2>4. Prints("begin")' = Prints("begin")
    BY <2>1 DEF Prints
  <2> QED
    BY <1>4, <2>3, <2>4 DEF Begun
<1>7. CASE EndSections
  <2>1. sec[c] = 0 /\ log' = log
    BY <1>0, <1>7 DEF EndSections, dataVars
  <2>2. \A s \in 1 .. SectionsOf : ~InIt(c, s)
    BY <2>1 DEF InIt
  <2>3. Prints("begin")' = Prints("begin")
    BY <2>1 DEF Prints
  <2> QED
    BY <1>4, <2>2, <2>3 DEF Begun
<1>8. CASE EndSection
  <2>1. PICK s : s = sec[c]
    OBVIOUS
  <2>2. log' = Append(log, <<"end", s, c>>)
    BY <1>0, <1>1, <1>8, <2>1 DEF EndSection, Says
  <2>3. PICK last : last = Len(log) + 1
    OBVIOUS
  <2>4. DOMAIN log' = DOMAIN log \cup {last} /\ log'[last] = <<"end", s, c>>
    BY <1>1, <2>2, <2>3, LogGrows
  <2>5. Prints("begin")' = Prints("begin") /\ last \in PrintsIn("end", s)'
    BY <1>1, <2>2, <2>3, PrintsGrow
  <2>6. ASSUME NEW b \in Prints("begin"), log[b][3] = c, log[b][2] = s PROVE EndOf(b)' # {}
    <3>1. b \in DOMAIN log /\ log'[b] = log[b]
      BY <1>3 DEF Prints
    <3>2. EndOf(b)' = {e \in PrintsIn("end", s)' : b < e /\ log'[e][3] = c}
      BY <2>6, <3>1 DEF EndOf, PrintsIn
    <3>3. b < last /\ log'[last][3] = c
      BY <1>1, <2>3, <2>4, <3>1
    <3> QED
      BY <2>5, <3>2, <3>3
  <2>7. \A t : InIt(c, t) => t = s
    BY <2>1 DEF InIt
  <2> QED
    BY <1>4, <2>5, <2>6, <2>7 DEF Begun
<1>9. CASE StartSections \/ GetSection
  <2>1. n[c] = 0 \/ n[c] = TheProgram.counts[sec[c]] + 2
    BY <1>0, <1>9, SectionGiven
  <2>2. PICK s : BeginSection(s) /\ (s = 0 \/ s \in 1 .. SectionsOf)
    BY <1>9, SectionGiven
  <2>3. /\ n' = [n EXCEPT ![c] = 1] /\ sec' = [sec EXCEPT ![c] = s]
        /\ IF s = 0 THEN log' = log ELSE log' = Append(log, <<"begin", s, c>>)
    BY <1>0, <1>1, <2>2 DEF BeginSection, NoOutput, Says
  <2>4. n'[c] = 1 /\ sec'[c] = s
    BY <1>1, <2>3
  <2>5. SectionsOf = Len(TheProgram.counts) /\ TheProgram.counts \in Seq(Nat)
    BY Shapes DEF SectionsOf, Shape, Is
  <2>6. ASSUME NEW t \in 1 .. SectionsOf PROVE ~InIt(c, t)
    <3>1. TheProgram.counts[t] \in Nat
      BY <2>5, <2>6, LenProperties
    <3> QED
      BY <1>1, <2>1, <3>1 DEF InIt
  <2>7. \A b \in Prints("begin") : Known(b)'
    BY <1>4, <2>6
  <2>8. CASE s = 0
    <3>1. Prints("begin")' = Prints("begin")
      BY <2>3, <2>8 DEF Prints
    <3> QED
      BY <2>7, <3>1 DEF Begun
  <2>9. CASE s \in 1 .. SectionsOf
    <3>1. log' = Append(log, <<"begin", s, c>>)
      BY <2>3, <2>5, <2>9
    <3>2. PICK last : last = Len(log) + 1
      OBVIOUS
    <3>3. log'[last] = <<"begin", s, c>> /\ Prints("begin")' = Prints("begin") \cup {last}
      BY <1>1, <3>1, <3>2, LogGrows, PrintsGrow
    <3>4. TheProgram.counts[s] \in Nat
      BY <2>5, <2>9, LenProperties
    <3>5. log'[last][2] = s /\ log'[last][3] = c /\ n'[c] \in 1 .. TheProgram.counts[s] + 1
      BY <2>4, <3>3, <3>4
    <3>6. Known(last)'
      BY <2>4, <2>9, <3>5 DEF InIt
    <3> QED
      BY <2>7, <3>3, <3>6 DEF Begun
  <2> QED
    BY <2>2, <2>8, <2>9
<1> QED
  BY <1>5, <1>6, <1>7, <1>8, <1>9 DEF SectionSteppers

(* When somebody is past the sections, all of them have ended.             *)
LEMMA EndedStep ==
  ASSUME LooksAtOne, LibInv, ProgInv, Promised, Is({"omp8"}), Begun, Ended,
         \A p \in DOMAIN log : log[p][3] \in TeamIds,
         NEW op, Moves(op)
  PROVE  Ended'
<1>1. /\ cpu \in TeamIds /\ cpu \in Ids /\ Me = cpu /\ pc[cpu] = "user" /\ at \in [Ids -> Nat]
      /\ log \in Seq(Range(log)) /\ Len(log) \in Nat /\ DOMAIN log = 1 .. Len(log)
      /\ Doing(op, n[cpu]) /\ Tells(op)
  <2>1. Doing(op, n[cpu]) /\ cpu \in TeamIds /\ cpu \in Ids
    BY MoverFacts, TeamFacts
  <2>2. pc[cpu] = "user" /\ at \in [Ids -> Nat]
    BY <2>1, Doer DEF ProgInv
  <2> QED
    BY <2>1, <2>2, MoverFacts
<1>2. log' = log \/ \E what, s : log' = Append(log, <<what, s, cpu>>)
  BY LineMore
<1>3. /\ DOMAIN log \subseteq DOMAIN log' /\ \A p \in DOMAIN log : log'[p] = log[p]
      /\ \A b \in DOMAIN log : EndOf(b) \subseteq EndOf(b)'
      /\ \A w, t : PrintsIn(w, t) \subseteq PrintsIn(w, t)'
  BY <1>1, <1>2, EndsStay
<1>4. \A w, t : PrintsIn(w, t) \subseteq DOMAIN log
  BY DEF PrintsIn, Prints
<1>5. ASSUME NEW p \in Prints("id2"), NEW s \in 1 .. SectionsOf
      PROVE  \E b \in PrintsIn("begin", s)' : \E e \in EndOf(b)' : e < p
  <2>1. PICK b \in PrintsIn("begin", s) : \E e \in EndOf(b) : e < p
    BY <1>5 DEF Ended
  <2>2. b \in PrintsIn("begin", s)' /\ EndOf(b) \subseteq EndOf(b)'
    BY <1>3, <1>4, <2>1
  <2> QED
    BY <2>1, <2>2
<1>6. CASE op # "id2"
  <2>1. log' = log \/ \E what, s : what # "id2" /\ log' = Append(log, <<what, s, cpu>>)
    BY <1>1, <1>6 DEF Tells, Saying, Says
  <2>2. ASSUME NEW what, NEW s, what # "id2", log' = Append(log, <<what, s, cpu>>)
        PROVE  Prints("id2")' = Prints("id2")
    BY <1>1, <2>2, PrintsGrow
  <2>3. log' = log => Prints("id2")' = Prints("id2")
    BY DEF Prints
  <2>4. Prints("id2")' = Prints("id2")
    BY <2>1, <2>2, <2>3
  <2> QED
    BY <1>5, <2>4 DEF Ended
<1>7. CASE op = "id2"
  <2>1. log' = Append(log, <<"id2", 0, cpu>>)
    BY <1>1, <1>7 DEF Tells, Says
  <2>2. Prints("id2")' = Prints("id2") \cup {Len(log) + 1}
    BY <1>1, <2>1, PrintsGrow
  <2>3. at[cpu] = 3 /\ \A i \in TeamIds : at[i] >= 3
    <3>1. Is(Printers)
      BY DEF Is, Printers
    <3>2. LastStatement = 3 /\ at[cpu] = LastStatement
      BY <1>1, <1>7, <3>1, PrinterFacts
    <3> QED
      BY <1>1, <1>7, <3>1, <3>2, Behind
  <2>4. ASSUME NEW s \in 1 .. SectionsOf
        PROVE  \E b \in PrintsIn("begin", s) : \E e \in EndOf(b) : e \in DOMAIN log
    <3>1. Constructs = <<"sections">> /\ StepAt(at[cpu]) = 2
      BY <2>3 DEF Constructs, StepAt, Is, After
    <3>2. Lib!Past(cpu, 1)
      BY <1>1, <3>1 DEF Lib!Past, LibStep
    <3>3. LibRan[1][s] = 1
      BY <1>1, <3>1, <3>2, SameOps DEF Promised, Lib!SectionsOnce, Lib!Places
    <3>4. Cardinality(PrintsIn("begin", s)) = 1
      BY <3>1, <3>3 DEF LibRan
    <3>5. PICK b : b \in PrintsIn("begin", s)
      BY <3>4, FS_EmptySet
    <3>6. b \in Prints("begin") /\ log[b][3] \in TeamIds /\ b \in DOMAIN log
      BY <3>5 DEF PrintsIn, Prints
    <3>7. ~InIt(log[b][3], log[b][2])
      BY <2>3, <3>6, InSections
    <3>8. EndOf(b) # {}
      BY <3>6, <3>7 DEF Begun
    <3>9. \A e \in EndOf(b) : e \in DOMAIN log
      BY DEF EndOf, PrintsIn, Prints
    <3> QED
      BY <3>5, <3>8, <3>9
  <2>5. ASSUME NEW s \in 1 .. SectionsOf
        PROVE  \E b \in PrintsIn("begin", s)' : \E e \in EndOf(b)' : e < Len(log) + 1
    <3>1. PICK b \in PrintsIn("begin", s) : \E e \in EndOf(b) : e \in DOMAIN log
      BY <2>4
    <3>2. b \in PrintsIn("begin", s)' /\ EndOf(b) \subseteq EndOf(b)'
      BY <1>3, <1>4, <3>1
    <3>3. \A e \in DOMAIN log : e < Len(log) + 1
      BY <1>1
    <3> QED
      BY <3>1, <3>2, <3>3
  <2> QED
    BY <1>5, <2>2, <2>5 DEF Ended
<1> QED
  BY <1>6, <1>7

(* The output is as it should be after each statement.                     *)
LEMMA MovesLines ==
  ASSUME LooksAtOne, LibInv, ProgInv, Promised, (Lib!TypeOK)', LinesInv,
         NEW op, Moves(op), op = "sections" => SectionSteppers
  PROVE  LinesInv'
<1>1. (\A p \in DOMAIN log : log[p][3] \in TeamIds)'
  BY LineMore DEF LinesInv
<1>2. Is(Printers) => OwnLines' /\ LinesInOrder'
  BY OwnLinesStep, InOrderStep DEF LinesInv
<1>3. Is({"omp8"}) => Begun' /\ Ended'
  BY BegunStep, EndedStep DEF LinesInv
<1> QED
  BY <1>1, <1>2, <1>3 DEF LinesInv

(* It is when a region begins and nothing is printed, and as long as none  *)
(* of its members goes on.                                                 *)
LEMMA NoLines ==
  ASSUME LooksAtOne, LibInv, StartsAfresh
  PROVE  LinesInv
<1> USE DEF StartsAfresh
<1>1. (\A w : Prints(w) = {}) /\ \A w, s : PrintsIn(w, s) = {}
  BY DEF Prints, PrintsIn
<1>2. Cardinality({}) = 0
  BY FS_EmptySet
<1>3. (\A w, i : By(w, i) = {}) /\ Later = {}
  BY <1>1 DEF By, Later
<1>4. \A i \in TeamIds : at[i] = 1
  BY TeamFacts
<1>5. Through = {} /\ 0 \in TeamIds
  BY <1>4, TeamFacts DEF Through
<1>6. LastStatement \in Nat \ {0}
  <2>1. 1 \in DOMAIN TheProgram.regions
    BY RegionFacts
  <2> QED
    BY <2>1, Bodies, BodyFollows DEF Follows, LastStatement
<1>7. After(1, 1) = 0 /\ After(1, 3) = 0 /\ After(1, LastStatement) = 0
  BY <1>6 DEF After
<1>8. OwnLines
  <2> SUFFICES ASSUME NEW i \in TeamIds
               PROVE  /\ Cardinality(By("id1", i)) = After(at[i], 1)
                      /\ Cardinality(By("id2", i)) = After(at[i], LastStatement)
    BY DEF OwnLines
  <2>1. By("id1", i) = {} /\ By("id2", i) = {} /\ at[i] = 1
    BY <1>3, <1>4
  <2> QED
    BY <1>2, <1>7, <2>1
<1>9. LinesInOrder
  <2>1. Cardinality(Prints("id1")) = Cardinality(Through)
    BY <1>1, <1>5
  <2>2. Cardinality(Prints("master")) = After(at[0], 3)
    BY <1>1, <1>2, <1>4, <1>5, <1>7
  <2> QED
    BY <1>1, <1>3, <2>1, <2>2 DEF LinesInOrder, AllBefore
<1>10. Begun /\ Ended
  BY <1>1 DEF Begun, Ended
<1>11. \A p \in DOMAIN log : log[p][3] \in TeamIds
  OBVIOUS
<1> QED
  BY <1>8, <1>9, <1>10, <1>11 DEF LinesInv

(* A step that changes neither the output nor anyone's place keeps the lines right. *)
LEMMA SameLines ==
  ASSUME LinesInv, UNCHANGED <<log, at, n, sec, num>>
  PROVE  LinesInv'
<1>1. /\ \A w : Prints(w)' = Prints(w)
      /\ \A w, s : PrintsIn(w, s)' = PrintsIn(w, s)
      /\ TeamIds' = TeamIds
  BY DEF Prints, PrintsIn, TeamIds
<1>2. /\ \A w, i : By(w, i)' = By(w, i)
      /\ Later' = Later /\ Through' = Through
      /\ \A p : Ahead(p)' = Ahead(p) /\ EndOf(p)' = EndOf(p)
      /\ \A i, s : InIt(i, s)' <=> InIt(i, s)
  BY <1>1 DEF By, Later, Ahead, Through, EndOf, InIt, Prints, PrintsIn
<1>3. OwnLines => OwnLines'
  BY <1>1, <1>2 DEF OwnLines
<1>4. LinesInOrder => LinesInOrder'
  BY <1>1, <1>2 DEF LinesInOrder, AllBefore
<1>5. Begun /\ Ended => Begun' /\ Ended'
  BY <1>1, <1>2 DEF Begun, Ended, InIt
<1> QED
  BY <1>1, <1>3, <1>4, <1>5 DEF LinesInv

(* The steps in which no member goes on: one more that is without a task   *)
(* has been through the region.                                            *)
LEMMA RestSteps ==
  ASSUME LooksAtOne, LibInv, ProgInv, Is(Printers),
         System \/ InBarrier \/ Worker \/ TaskEnds \/ MainEnds \/ UNCHANGED vars
  PROVE  /\ UNCHANGED <<at, region, num>>
         /\ pc'[Main] = "join" => pc[Main] = "join"
         /\ \A i \in Ids : task'[i] = task[i] \/ at[i] = LastStatement + 1
<1> USE DEF programVars, memberVars
<1>1. CASE System
  <2>1. CASE Boot /\ UNCHANGED programVars
    <3>1. task' = task
      BY <2>1 DEF Boot, SpawnWorker, SpawnMain, Background, Halt, libraryVars, taskVars
    <3> QED
      BY <2>1, <3>1, Boots
  <2>2. CASE UNCHANGED vars
    BY <2>2 DEF vars, systemVars, libraryVars, stateVars, taskVars
  <2> QED
    BY <1>1, <2>1, <2>2 DEF System
<1>2. CASE InBarrier
  <2>1. UNCHANGED programVars /\ num' = num /\ task' = task
    BY <1>2 DEF InBarrier, BarrierRelease, BarrierReturn, ButBarrier, stateVars, taskVars
  <2>2. pc' = pc \/ (At("barrier") /\ Goto("user"))
    BY <1>2 DEF InBarrier, BarrierRelease, BarrierReturn
  <2> QED
    BY <2>1, <2>2, NoJoin
<1>3. CASE Worker
  <2>1. UNCHANGED programVars /\ num' = num /\ task' = task
    BY <1>3 DEF Worker, WorkerImplicit, WorkerIdle, ButTasks, stateVars, taskVars
  <2>2. pc' = pc \/ (At("loop") /\ Goto("user"))
    BY <1>3 DEF Worker, WorkerImplicit, WorkerIdle
  <2> QED
    BY <2>1, <2>2, NoJoin
<1>4. CASE TaskEnds
  <2>1. /\ Role = "implicit" /\ at[cpu] \notin DOMAIN Body /\ At("user") /\ Goto("loop")
        /\ cpu \in Ids /\ UNCHANGED programVars /\ num' = num
        /\ task' = IF kind[cpu] = "implicit" THEN [task EXCEPT ![cpu] = NoTask] ELSE task
    BY <1>4 DEF TaskEnds, WorkerDone, ButTasks, stateVars
  <2>2. kind[cpu] = "implicit" /\ pc[Main] = "join"
    BY <2>1, LibFacts DEF Role
  <2>3. /\ region \in DOMAIN TheProgram.regions /\ at[cpu] \in 1 .. Len(Body) + 1
        /\ Body = TheProgram.regions[region].body
    BY <2>1, <2>2 DEF ProgInv, Body
  <2>4. Follows(Body)
    BY <2>3, Bodies, BodyFollows
  <2>5. at[cpu] = Len(Body) + 1
    <3>1. Len(Body) \in Nat /\ DOMAIN Body = 1 .. Len(Body)
      BY <2>4 DEF Follows
    <3>2. at[cpu] \in 1 .. Len(Body) + 1 /\ at[cpu] \notin 1 .. Len(Body)
      BY <2>1, <2>3, <3>1
    <3> QED
      BY <3>1, <3>2
  <2>6. Len(Body) = LastStatement
    BY <2>3, RegionFacts DEF LastStatement, Is, Printers
  <2>7. \A i \in Ids : i # cpu => task'[i] = task[i]
    BY <2>1
  <2> QED
    BY <2>1, <2>5, <2>6, <2>7, NoJoin
<1>5. CASE MainEnds
  <2>1. At("user") /\ Goto("dead") /\ UNCHANGED programVars /\ num' = num /\ task' = task
    BY <1>5 DEF MainEnds, MainReturns, libraryVars, stateVars, taskVars
  <2> QED
    BY <2>1, NoJoin
<1>6. CASE UNCHANGED vars
  BY <1>6 DEF vars, systemVars, libraryVars, stateVars, taskVars
<1> QED
  BY <1>1, <1>2, <1>3, <1>4, <1>5, <1>6

(* They print nothing.                                                     *)
LEMMA RestLines ==
  ASSUME LooksAtOne, LibInv, ProgInv, LinesInv,
         System \/ InBarrier \/ Worker \/ TaskEnds \/ MainEnds \/ UNCHANGED vars
         \/ Join \/ MainPrints
  PROVE  LinesInv'
<1>1. CASE System \/ InBarrier \/ Worker \/ TaskEnds \/ MainEnds
  <2>1. UNCHANGED programVars \/ UNCHANGED vars
    BY <1>1 DEF System, InBarrier, Worker, TaskEnds, MainEnds
  <2>2. num' = num
    <3>1. Boot => num' = num
      BY Boots
    <3>2. MainReturns => num' = num
      BY DEF MainReturns, libraryVars, stateVars
    <3>3. UNCHANGED vars => num' = num
      BY DEF vars, systemVars, libraryVars, stateVars
    <3> QED
      BY <1>1, <3>1, <3>2, <3>3 DEF System, InBarrier, Worker, TaskEnds, MainEnds, ButBarrier,
         ButTasks, stateVars
  <2> QED
    BY <2>1, <2>2, SameLines DEF vars, programVars, memberVars, dataVars
<1>2. CASE UNCHANGED vars
  BY <1>2, SameLines DEF vars, systemVars, libraryVars, stateVars, programVars, memberVars, dataVars
<1>3. CASE Join
  BY <1>3, SameLines DEF Join, memberVars, dataVars
<1>4. CASE MainPrints
  BY <1>4, SameLines DEF MainPrints, ButLocks, stateVars, memberVars, dataVars
<1> QED
  BY <1>1, <1>2, <1>3, <1>4

(* A step at a statement is one of the member that runs.                   *)
LEMMA MemberSteps ==
  ASSUME LooksAtOne, LibInv, ProgInv,
         Arrays \/ Barrier \/ Printed \/ Spin \/ Sections \/ Histogram
  PROVE  \E op : Moves(op) /\ (op = "sections" => SectionSteppers)
<1>1. \E op : Moves(op)
  <2>1. Spin => (Spin /\ Done) \/ (Spin /\ PartDone)
    BY DEF Spin
  <2> QED
    BY <2>1, StatementsMove, LongMove DEF Arrays, Printed, Sections, Histogram
<1>2. CASE Sections
  BY <1>1, <1>2 DEF Sections, SectionSteppers
<1>3. ASSUME ~Sections, NEW op, Doing(op, n[cpu]) PROVE op # "sections"
  <2>1. CASE Arrays
    BY <1>3, <2>1 DEF Arrays, For, Fill, Copy, EnterCritical, LeaveCritical, Atomic, Doing
  <2>2. CASE Barrier \/ Spin
    BY <1>3, <2>2 DEF Barrier, Spin, Doing
  <2>3. CASE Printed
    BY <1>3, <2>3 DEF Printed, PrintId, Master, Single, Doing
  <2>4. CASE Histogram
    BY <1>3, <2>4 DEF Histogram, InitLocks, SetBucket, SkipSample, CountSample, CountDone, Sampling,
       Doing
  <2> QED
    BY <1>3, <2>1, <2>2, <2>3, <2>4
<1>4. CASE ~Sections
  BY <1>1, <1>3, <1>4 DEF Moves
<1> QED
  BY <1>2, <1>4

(* Whoever is without a task has been through its region.                  *)
LEMMA NextThrough ==
  ASSUME LooksAtOne, LibInv, LibInv', ProgInv, ThroughInv, [Next]_vars
  PROVE  ThroughInv'
<1> SUFFICES ASSUME Is(Printers)
             PROVE  \A i \in TeamIds' :
                      (pc'[Main] = "join" /\ task'[i] = NoTask) \/ region' > 1 =>
                        at'[i] = LastStatement + 1
  BY DEF ThroughInv
<1>1. /\ prog = TheProgram /\ Len(TheProgram.regions) = 1 /\ DOMAIN TheProgram.regions = 1 .. 1
      /\ region \in Nat
  BY RegionFacts DEF Is, Printers, ProgInv
<1>2. /\ pc[Main] = "join" => region = 1
      /\ \A i \in TeamIds : i \in Ids
  BY <1>1, TeamFacts DEF ProgInv
<1>3. \A i \in TeamIds : (pc[Main] = "join" /\ task[i] = NoTask) \/ region > 1 =>
                           at[i] = LastStatement + 1
  BY DEF ThroughInv
<1>4. CASE System \/ InBarrier \/ Worker \/ TaskEnds \/ MainEnds \/ UNCHANGED vars
  <2>1. /\ UNCHANGED <<at, region, num>> /\ (pc'[Main] = "join" => pc[Main] = "join")
        /\ \A i \in Ids : task'[i] = task[i] \/ at[i] = LastStatement + 1
    BY <1>4, RestSteps
  <2>2. TeamIds' = TeamIds
    BY <2>1 DEF TeamIds
  <2> QED
    BY <1>2, <1>3, <2>1, <2>2
<1>5. CASE Arrays \/ Barrier \/ Printed \/ Spin \/ Sections \/ Histogram
  <2>1. PICK op : Moves(op)
    BY <1>5, MemberSteps
  <2>2. /\ TeamIds' = TeamIds /\ task' = task /\ region' = region
        /\ \A i \in TeamIds : i # cpu => at'[i] = at[i]
    BY <2>1, MoverFacts DEF Moves
  <2>3. pc[Main] = "join" /\ kind[cpu] = "implicit" /\ cpu \in Ids
    BY <2>1, Doer DEF Moves
  <2>4. task[cpu] # NoTask
    BY <2>3 DEF LibInv, Lib!SysInv, Lib!TaskInv, Lib!WorkersInv, Lib!Ids, Ids, Lib!NoTask, NoTask
  <2> QED
    BY <1>2, <1>3, <2>2, <2>3, <2>4
<1>6. CASE MainStarts
  <2>1. /\ region \in 1 .. 1 /\ region' = region /\ at' = [i \in Ids |-> 1] /\ Goto("join")
        /\ cpu = Main
    BY <1>1, <1>6 DEF MainStarts, Parallel
  <2>2. Lib!TaskInv'
    BY DEF LibInv, Lib!SysInv
  <2>3. pc'[Main] = "join"
    BY <2>1, LibFacts DEF Goto
  <2>4. ASSUME NEW i \in TeamIds', task'[i] = NoTask PROVE FALSE
    <3>1. team' = 1
      BY <2>2, <2>3 DEF Lib!TaskInv, Lib!PlacesInv
    <3>2. LibStep'[i] = Len(Constructs) + 1 /\ i \in Ids
      <4>1. num' \in 1 .. MaxThreads /\ MaxThreads \in Nat
        BY <2>2, GompAssumption DEF Lib!TaskInv, Lib!PlacesInv
      <4>2. i \in Ids
        <5>1. PICK m \in 1 .. MaxThreads : m = num'
          BY <4>1
        <5>2. i \in 0 .. m - 1
          BY <2>4, <5>1 DEF TeamIds
        <5>3. 0 .. m - 1 \subseteq 0 .. MaxThreads - 1
          BY <4>1
        <5> QED
          BY <5>2, <5>3 DEF Ids
      <4>3. LibStep'[i] = Len(Constructs) + 1
        BY <2>2, <2>4, <3>1 DEF Lib!TaskInv, Lib!StepsInv, Lib!TeamIds, TeamIds, Lib!NoTask, NoTask
      <4> QED
        BY <4>2, <4>3
    <3>3. LibStep'[i] = StepAt(1)
      BY <2>1, <3>2 DEF LibStep
    <3>4. StepAt(1) = 1
      BY <1>1, Bodies, BodyFollows DEF Follows
    <3>5. Len(Constructs) \in {1, 2, 3}
      BY DEF Constructs, Is, Printers
    <3> QED
      BY <3>2, <3>3, <3>4, <3>5
  <2> QED
    BY <2>1, <2>4
<1>7. CASE Join
  <2>1. UNCHANGED <<num, at>> /\ At("join") /\ TeamIds' = TeamIds
    BY <1>7 DEF Join, JoinWait, JoinDone, memberVars, TeamIds
  <2>2. CASE JoinWait /\ region' = region
    <3>1. pc' = pc /\ task' = task
      BY <2>2 DEF JoinWait, taskVars
    <3> QED
      BY <1>3, <2>1, <2>2, <3>1
  <2>3. CASE JoinDone
    <3>1. tasks[team] = 0
      BY <2>3 DEF JoinDone
    <3>2. cpu = Main /\ pc[Main] = "join"
      BY <2>1, LibFacts DEF At, Contexts
    <3>3. Lib!TaskInv
      BY DEF LibInv, Lib!SysInv
    <3>4. tasks[1] = 0
      BY <3>1, <3>2, <3>3 DEF Lib!TaskInv, Lib!PlacesInv
    <3>5. Lib!TaskInv /\ tasks[1] = 0 => \A i \in Ids : task[i] = NoTask
      BY LibAssumptions, GompAssumption, TasksAssumption, LocksAssumption, Lib!AllIdle
         DEF Lib!Contexts, Lib!Ids, Lib!AllLocks, Lib!FreeOps, Lib!Endless, Contexts, Ids, AllLocks,
             Lib!NoTask, NoTask
    <3> QED
      BY <1>2, <1>3, <2>1, <3>2, <3>3, <3>4, <3>5
  <2> QED
    BY <1>7, <2>2, <2>3 DEF Join
<1>8. CASE MainPrints
  <2>1. /\ UNCHANGED <<num, at, pc, task>> /\ region = 1 + 1 /\ TeamIds' = TeamIds
    BY <1>1, <1>8 DEF MainPrints, Printing, ButLocks, stateVars, taskVars, memberVars, TeamIds
  <2> QED
    BY <1>3, <2>1
<1> QED
  BY <1>4, <1>5, <1>6, <1>7, <1>8 DEF Next, MainThread

-----------------------------------------------------------------------------
(* The programs with a statement, as PrintedInOrder names them.            *)
LEMMA HasFacts ==
  ASSUME LooksAtOne, ProgInv
  PROVE  /\ Has("id1") => Is(Printers)
         /\ Has("master") => Is({"omp6"})
         /\ Has("single") => Is({"omp7"})
         /\ Has("sections") => Is({"omp8"})
<1>1. ASSUME NEW op, Has(op)
      PROVE  \E r \in DOMAIN TheProgram.regions : \E k \in DOMAIN TheProgram.regions[r].body :
               TheProgram.regions[r].body[k] = op
  BY <1>1 DEF Has, Range, ProgInv
<1>2. Has("id1") => Is(Printers)
  <2> SUFFICES ASSUME Has("id1") PROVE Is(Printers)
    OBVIOUS
  <2>1. PICK b : BodyIs(b) /\ \E k \in DOMAIN b : b[k] = "id1"
    BY <1>1, Bodies
  <2>2. Is({"omp6", "omp7", "omp8"})
    <3>1. CASE Is({"omp1", "omp2", "omp3", "omp4", "omp5", "omp9"})
      BY <2>1, <3>1 DEF BodyIs, Is
    <3>2. CASE ~Is({"omp1", "omp2", "omp3", "omp4", "omp5", "omp9"})
      BY <2>1, <3>2 DEF BodyIs, Is
    <3> QED
      BY <3>1, <3>2
  <2> QED
    BY <2>2 DEF Is, Printers
<1>3. \A op, name : Has(op) /\ Owns(op, name) => Is({name})
  BY <1>1 DEF Owns
<1> QED
  BY <1>2, <1>3, Owners

(* What the invariants say of the output is what the directives ask for.   *)
LEMMA InOrder ==
  ASSUME LooksAtOne, LibInv, ProgInv, Promised, LinesInv, ThroughInv
  PROVE  PrintedInOrder
<1>1. /\ prog = TheProgram /\ 0 \in TeamIds
      /\ \A i \in TeamIds : i \in Ids
  BY TeamFacts DEF ProgInv
<1>2. ~Is(Printers) => log = <<>>
  BY DEF ProgInv
<1>3. log = <<>> => \A w : Prints(w) = {}
  BY DEF Prints
<1>4. Is(Printers) => /\ Len(TheProgram.regions) = 1 /\ LastStatement \in {3, 5, 6}
                      /\ Is({"omp6"}) => LastStatement = 5
                      /\ Is({"omp7"}) => LastStatement = 6
                      /\ OwnLines /\ LinesInOrder
  <2> SUFFICES ASSUME Is(Printers)
               PROVE  /\ Len(TheProgram.regions) = 1 /\ LastStatement \in {3, 5, 6}
                      /\ Is({"omp6"}) => LastStatement = 5
                      /\ Is({"omp7"}) => LastStatement = 6
                      /\ OwnLines /\ LinesInOrder
    OBVIOUS
  <2>1. Len(TheProgram.regions) = 1 /\ 1 \in DOMAIN TheProgram.regions
    BY RegionFacts DEF Is, Printers
  <2>2. BodyIs(TheProgram.regions[1].body)
    BY <2>1, Bodies
  <2>3. /\ LastStatement \in {3, 5, 6} /\ (Is({"omp6"}) => LastStatement = 5)
        /\ (Is({"omp7"}) => LastStatement = 6)
    BY <2>2 DEF BodyIs, LastStatement, Is, Printers
  <2> QED
    BY <2>1, <2>3 DEF LinesInv
<1>5. Printing /\ Is(Printers) => \A i \in TeamIds : at[i] = LastStatement + 1
  <2> SUFFICES ASSUME Printing, Is(Printers) PROVE \A i \in TeamIds : at[i] = LastStatement + 1
    OBVIOUS
  <2>1. region = 1 + 1
    BY <1>1, <1>4 DEF Printing
  <2> QED
    BY <2>1 DEF ThroughInv
<1>6. Printing /\ Has("id1") => EachOnce("id1") /\ EachOnce("id2")
  <2> SUFFICES ASSUME Printing, Has("id1") PROVE EachOnce("id1") /\ EachOnce("id2")
    OBVIOUS
  <2>1. Is(Printers) /\ \A i \in TeamIds : at[i] = LastStatement + 1
    BY <1>5, HasFacts
  <2>2. \A i \in TeamIds : Cardinality(By("id1", i)) = 1 /\ Cardinality(By("id2", i)) = 1
    BY <1>4, <2>1 DEF OwnLines, After
  <2> QED
    BY <2>2 DEF EachOnce, By
<1>7. \A p \in Later : Cardinality(Ahead(p)) = num
  <2>1. CASE Is(Printers)
    BY <1>4, <2>1 DEF LinesInOrder
  <2>2. CASE ~Is(Printers)
    BY <1>2, <1>3, <2>2 DEF Later
  <2> QED
    BY <2>1, <2>2
<1>8. AllBefore(Prints("master") \cup Prints("single"), Prints("id2"))
  <2>1. CASE Is(Printers)
    BY <1>4, <2>1 DEF LinesInOrder
  <2>2. CASE ~Is(Printers)
    BY <1>2, <1>3, <2>2 DEF AllBefore
  <2> QED
    BY <2>1, <2>2
<1>9. Printing /\ Has("master") => Cardinality(Prints("master")) = 1
  <2> SUFFICES ASSUME Printing, Has("master") PROVE Cardinality(Prints("master")) = 1
    OBVIOUS
  <2>1. Is({"omp6"}) /\ Is(Printers)
    BY HasFacts DEF Is, Printers
  <2>2. at[0] = 6
    BY <1>1, <1>4, <1>5, <2>1
  <2>3. Cardinality(Prints("master")) = After(at[0], 3)
    BY <1>4, <2>1 DEF LinesInOrder
  <2> QED
    BY <2>2, <2>3 DEF After
<1>10. Printing /\ Has("single") => Cardinality(Prints("single")) = 1
  <2> SUFFICES ASSUME Printing, Has("single") PROVE Cardinality(Prints("single")) = 1
    OBVIOUS
  <2>1. Is({"omp7"}) /\ Is(Printers)
    BY HasFacts DEF Is, Printers
  <2>2. at[0] = 7
    BY <1>1, <1>4, <1>5, <2>1
  <2>3. Constructs = <<"barrier", "single", "barrier">> /\ LibStep[0] = 4
    <3>1. Constructs = <<"barrier", "single", "barrier">>
      BY <2>1 DEF Constructs, Is
    <3>2. StepAt(7) = 4
      BY <2>1 DEF StepAt, After, Is
    <3> QED
      BY <1>1, <2>2, <3>1, <3>2 DEF LibStep
  <2>4. LibWins[2] = 1
    BY <1>1, <2>3 DEF Promised, Lib!SingleOnce, Lib!Places, Lib!Reached, Lib!TeamIds, TeamIds
  <2> QED
    BY <2>3, <2>4 DEF LibWins
<1>11. ASSUME Has("sections"), NEW s \in 1 .. NumSections
       PROVE  /\ Cardinality(PrintsIn("begin", s)) <= 1
              /\ \A p \in Prints("id2") :
                   \E b \in PrintsIn("begin", s), e \in PrintsIn("end", s) :
                     b < e /\ e < p /\ log[b][3] = log[e][3]
  <2>1. Is({"omp8"})
    BY <1>11, HasFacts
  <2>2. s \in 1 .. SectionsOf /\ Constructs = <<"sections">>
    BY <1>1, <1>11, <2>1 DEF NumSections, SectionsOf, Constructs, Is
  <2>3. LibRan[1][s] <= 1 /\ LibRan[1][s] = Cardinality(PrintsIn("begin", s))
    BY <2>2 DEF Promised, Lib!SectionsOnce, Lib!Places, LibRan
  <2>4. ASSUME NEW p \in Prints("id2")
        PROVE  \E b \in PrintsIn("begin", s), e \in PrintsIn("end", s) :
                 b < e /\ e < p /\ log[b][3] = log[e][3]
    <3>1. PICK b \in PrintsIn("begin", s) : \E e \in EndOf(b) : e < p
      BY <2>1, <2>2, <2>4 DEF LinesInv, Ended
    <3>2. log[b][2] = s
      BY <3>1 DEF PrintsIn
    <3> QED
      BY <3>1, <3>2 DEF EndOf
  <2> QED
    BY <2>3, <2>4
<1> QED
  BY <1>6, <1>7, <1>8, <1>9, <1>10, <1>11 DEF PrintedInOrder, Later, Ahead

(* A step leaves the output as it should be, or nothing is printed yet.    *)
LEMMA NextLines ==
  ASSUME LooksAtOne, LibInv, LibInv', ProgInv, Promised, (Lib!TypeOK)', LinesInv, [Next]_vars
  PROVE  LinesInv' \/ StartsAfresh'
<1>1. CASE System \/ InBarrier \/ Worker \/ TaskEnds \/ MainEnds \/ UNCHANGED vars
           \/ Join \/ MainPrints
  BY <1>1, RestLines
<1>2. CASE Arrays \/ Barrier \/ Printed \/ Spin \/ Sections \/ Histogram
  BY <1>2, MemberSteps, MovesLines
<1>3. CASE MainStarts
  <2>1. region \in DOMAIN prog.regions /\ At("user") /\ cpu = Main /\ log' = log
        /\ at' = [i \in Ids |-> 1]
    BY <1>3 DEF MainStarts, Parallel, dataVars
  <2>2. pc[Main] # "join"
    BY <2>1 DEF At
  <2> QED
    BY <2>1, <2>2 DEF ProgInv, StartsAfresh
<1> QED
  BY <1>1, <1>2, <1>3 DEF Next, MainThread

(* What the library promises the constructs of TheProgram.                 *)
LEMMA LibPromises ==
  ASSUME LooksAtOne
  PROVE  Spec /\ prog = TheProgram => []Promised
<1> USE LibAssumptions, GompAssumption, TasksAssumption, LocksAssumption
        DEF Lib!Contexts, Lib!Ids, Lib!AllLocks, Lib!FreeOps, Lib!Endless, Lib!NoTask,
            Contexts, Ids, AllLocks
<1>1. Lib!Spec => []Lib!BarrierOrder
  BY Lib!BarriersHold
<1>2. Lib!Spec => []Lib!SingleOnce
  BY Lib!SinglesRunOnce
<1>3. Lib!Spec => []Lib!SectionsOnce
  BY Lib!SectionsRunOnce
<1>4. Lib!Spec => []Lib!TypeOK
  BY Lib!TypesHold
<1>5. Lib!BarrierOrder /\ Lib!SingleOnce /\ Lib!SectionsOnce /\ Lib!TypeOK => Promised
  BY DEF Promised
<1> QED
  BY <1>1, <1>2, <1>3, <1>4, <1>5, ProgramsUseLibrary, PTL

(* Each of the programs, with any arguments and for any number of threads, *)
(* prints in the order its directives ask for: everybody's first line      *)
(* before what is behind the barrier, one master and one single, each      *)
(* section once, and to its end before anybody's last line.                *)
THEOREM ProgramsPrintInOrder ==
  ASSUME LooksAtOne
  PROVE  Spec /\ prog = TheProgram => []PrintedInOrder
<1> DEFINE Lines == LinesInv /\ ThroughInv
<1>1. Init /\ prog = TheProgram => StartsAfresh /\ ThroughInv
  <2> SUFFICES ASSUME Init, prog = TheProgram PROVE StartsAfresh /\ ThroughInv
    OBVIOUS
  <2>1. /\ region = 1 /\ at = [i \in Ids |-> 1] /\ log = <<>> /\ pc[Main] = "unborn"
    BY GompAssumption DEF Init, SystemInit, Contexts
  <2> QED
    BY <2>1 DEF StartsAfresh, ThroughInv
<1>2. LibInv /\ StartsAfresh => LinesInv
  BY NoLines
<1>3. LibInv /\ LibInv' /\ ProgInv /\ Promised /\ Promised' /\ Lines /\ [Next]_vars
        => (LinesInv' \/ StartsAfresh') /\ ThroughInv'
  BY NextLines, NextThrough DEF Promised
<1>4. LibInv /\ ProgInv /\ Promised /\ Lines => PrintedInOrder
  BY InOrder
<1> QED
  BY <1>1, <1>2, <1>3, <1>4, ProgramInvariant, LibPromises, PTL DEF Spec
=============================================================================
