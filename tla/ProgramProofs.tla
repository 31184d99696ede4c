--------------------------- MODULE ProgramProofs ----------------------------
(***************************************************************************)
(* The test programs omp1.cpp to omp9.cpp, with any arguments and for any  *)
(* number of threads: each is one of the programs Libgomp is about, so     *)
(* that what holds for those holds for it.                                 *)
(***************************************************************************)
EXTENDS OmpTests, ThreadOpsProofs

CONSTANT TheProgram     (* the program looked at: any of OmpPrograms *)

OmpPrograms ==
  {omp1(l) : l \in Nat} \cup {omp2(l) : l \in Nat} \cup {omp3(l) : l \in Nat}
    \cup {omp4(l) : l \in Nat} \cup {omp5(l) : l \in Nat} \cup {omp6(l) : l \in Nat}
    \cup {omp7(l, arg) : l \in Nat, arg \in [Ids -> Nat]}
    \cup {omp8(threads, counts) : threads \in Nat, counts \in Seq(Nat)}
    \cup {omp9(index) : index \in UNION {[0 .. k - 1 -> Nat] : k \in Nat}}

(* The buckets of omp9 are numbered, and there is a task struct for every  *)
(* member of a team, as GOMP_NUM_TASKS provides for.                       *)
LooksAtOne ==
  /\ TheProgram \in OmpPrograms
  /\ \E k \in Nat : Locks = 0 .. k - 1
  /\ MaxThreads <= NumTasks

-----------------------------------------------------------------------------
(* TheProgram as a program of Libgomp.                                     *)
Is(names) == TheProgram.name \in names

(* The constructs its regions have, all in the first or none.              *)
Constructs ==
  IF Is({"omp2", "omp3", "omp4"}) THEN <<"barrier">>
  ELSE IF Is({"omp6"}) THEN <<"barrier", "barrier">>
  ELSE IF Is({"omp7"}) THEN <<"barrier", "single", "barrier">>
  ELSE IF Is({"omp8"}) THEN <<"sections">>
  ELSE <<>>

(* The construct a member at statement k meets next.                       *)
After(k, m) == IF k > m THEN 1 ELSE 0
StepAt(k) ==
  IF Is({"omp2", "omp3", "omp4", "omp8"}) THEN 1 + After(k, 2)
  ELSE IF Is({"omp6"}) THEN 1 + After(k, 2) + After(k, 4)
  ELSE IF Is({"omp7"}) THEN 1 + After(k, 2) + After(k, 4) + After(k, 5)
  ELSE 1

SectionsOf == IF Is({"omp8"}) THEN Len(TheProgram.counts) ELSE 0

(* The iterations of member i, and the bucket of the one it is at.         *)
ShareOf(i, total) ==
  LET q == total \div num
      r == total % num
      first == q * i + IF i < r THEN i ELSE r
  IN  first .. first + q - 1 + IF i < r THEN 1 ELSE 0

BucketOf(i) == TheProgram.index[Min(ShareOf(i, TheProgram.limit)) + n[i] \div 2]

(* What a member has begun and not ended: a critical, a sample, a section. *)
InCritical(i) == Is({"omp3", "omp5"}) /\ n[i] = 1
HasBucket(i, l) == Is({"omp9"}) /\ n[i] % 2 = 1 /\ l = BucketOf(i)
AtSections(i) == Is({"omp8"}) /\ n[i] > 0

(* What stands for the variables of Libgomp.                               *)
LibStep == [i \in Ids |-> StepAt(at[i])]
LibFuel == [c \in Contexts |-> -1]
LibInCrit == {i \in Ids : InCritical(i)}
LibHeld == [c \in Contexts |->
              [l \in AllLocks |-> IF c \in Ids /\ HasBucket(c, l) THEN 1 ELSE 0]]
LibSec == [i \in Ids |-> IF AtSections(i) THEN sec[i] ELSE -1]
LibWins == [k \in DOMAIN Constructs |->
              IF Constructs[k] = "single" THEN Cardinality(Prints("single")) ELSE 0]
LibRan == [k \in DOMAIN Constructs |->
             [s \in 1 .. SectionsOf |-> Cardinality(PrintsIn("begin", s))]]
LibRegions ==
  IF region > Len(TheProgram.regions) THEN 0
  ELSE Len(TheProgram.regions) - region + IF pc[Main] = "join" THEN 0 ELSE 1

Lib == INSTANCE ConstructProofs WITH
  Region <- Constructs, NumSections <- SectionsOf,
  RegionOps <- {"yield", "critical", "lock"}, TaskOps <- {}, SerialOps <- {},
  Fuel <- -1, IfClauses <- {}, MaxExplicit <- 0, MaxNest <- 0,
  NumThreads <- {TheProgram.regions[r].threads : r \in DOMAIN TheProgram.regions},
  MaxRegions <- Len(TheProgram.regions),
  step <- LibStep, fuel <- LibFuel, inCrit <- LibInCrit, held <- LibHeld, sec <- LibSec,
  wins <- LibWins, ran <- LibRan, regions <- LibRegions, created <- 0

-----------------------------------------------------------------------------
(* The regions of each program.                                            *)
OneRegion(threads, body) == TheProgram.regions = <<TeamRegion(threads, body)>>
TwoRegions(first, second) ==
  TheProgram.regions = <<TeamRegion(0, first), TeamRegion(0, second)>>

Shape ==
  \/ TheProgram.name = "omp1" /\ \E l \in Nat : OneRegion(l, <<"for">>)
  \/ TheProgram.name = "omp2" /\ OneRegion(0, <<"fill", "barrier", "copy">>)
  \/ TheProgram.name = "omp3" /\ OneRegion(0, <<"fill", "barrier", "copy", "critical">>)
  \/ TheProgram.name = "omp4" /\ OneRegion(0, <<"fill", "barrier", "copy", "atomic">>)
  \/ TheProgram.name = "omp5" /\ TwoRegions(<<"fill">>, <<"reduction">>)
  \/ /\ TheProgram.name = "omp6"
     /\ \E l \in Nat : OneRegion(l, <<"id1", "barrier", "master", "barrier", "id2">>)
  \/ /\ TheProgram.name = "omp7" /\ TheProgram.arg \in [Ids -> Nat]
     /\ \E l \in Nat : OneRegion(l, <<"id1", "barrier", "spin", "single", "barrier", "id2">>)
  \/ /\ TheProgram.name = "omp8" /\ TheProgram.counts \in Seq(Nat)
     /\ \E l \in Nat : OneRegion(l, <<"id1", "sections", "id2">>)
  \/ /\ TheProgram.name = "omp9" /\ TwoRegions(<<"init">>, <<"count">>)
     /\ \E k \in Nat : TheProgram.limit = k /\ TheProgram.index \in [0 .. k - 1 -> Nat]

(* Each test program has one of these shapes: one region or two, with the bodies the file has. *)
LEMMA Shapes ==
  ASSUME LooksAtOne
  PROVE  Shape
<1> USE DEF Shape, OneRegion, TwoRegions
<1>1. ASSUME NEW l \in Nat, TheProgram = omp1(l) PROVE Shape
  BY <1>1 DEF omp1
<1>2. ASSUME NEW l \in Nat, TheProgram = omp2(l) PROVE Shape
  BY <1>2 DEF omp2
<1>3. ASSUME NEW l \in Nat, TheProgram = omp3(l) PROVE Shape
  BY <1>3 DEF omp3
<1>4. ASSUME NEW l \in Nat, TheProgram = omp4(l) PROVE Shape
  BY <1>4 DEF omp4
<1>5. ASSUME NEW l \in Nat, TheProgram = omp5(l) PROVE Shape
  BY <1>5 DEF omp5
<1>6. ASSUME NEW l \in Nat, TheProgram = omp6(l) PROVE Shape
  BY <1>6 DEF omp6
<1>7. ASSUME NEW l \in Nat, NEW arg \in [Ids -> Nat], TheProgram = omp7(l, arg) PROVE Shape
  BY <1>7 DEF omp7
<1>8. ASSUME NEW l \in Nat, NEW counts \in Seq(Nat), TheProgram = omp8(l, counts) PROVE Shape
  BY <1>8 DEF omp8
<1>9. ASSUME NEW k \in Nat, NEW index \in [0 .. k - 1 -> Nat], TheProgram = omp9(index) PROVE Shape
  <2>1. Cardinality(0 .. k - 1) = k
    <3>1. 0 \in Int /\ k - 1 \in Int
      OBVIOUS
    <3>2. Cardinality(0 .. k - 1) = IF 0 > k - 1 THEN 0 ELSE k - 1 - 0 + 1
      BY <3>1, FS_Interval, Zenon
    <3> QED
      BY <3>2
  <2>2. DOMAIN index = 0 .. k - 1
    OBVIOUS
  <2>3. TheProgram.limit = k /\ TheProgram.index = index
    BY <1>9, <2>1, <2>2 DEF omp9
  <2>4. TheProgram.name = "omp9" /\ TwoRegions(<<"init">>, <<"count">>)
    BY <1>9 DEF omp9
  <2> QED
    BY <2>3, <2>4
<1> HIDE DEF Shape
<1>10. CASE TheProgram \in {omp1(l) : l \in Nat} \cup {omp2(l) : l \in Nat}
                              \cup {omp3(l) : l \in Nat}
  BY <1>1, <1>2, <1>3, <1>10
<1>11. CASE TheProgram \in {omp4(l) : l \in Nat} \cup {omp5(l) : l \in Nat}
                              \cup {omp6(l) : l \in Nat}
  BY <1>4, <1>5, <1>6, <1>11
<1>12. CASE TheProgram \in {omp7(l, arg) : l \in Nat, arg \in [Ids -> Nat]}
  BY <1>7, <1>12
<1>13. CASE TheProgram \in {omp8(threads, counts) : threads \in Nat, counts \in Seq(Nat)}
  BY <1>8, <1>13
<1>14. CASE TheProgram \in {omp9(index) : index \in UNION {[0 .. k - 1 -> Nat] : k \in Nat}}
  <2>1. PICK index \in UNION {[0 .. k - 1 -> Nat] : k \in Nat} : TheProgram = omp9(index)
    BY <1>14
  <2>2. PICK k \in Nat : index \in [0 .. k - 1 -> Nat]
    BY <2>1
  <2> QED
    BY <1>9, <2>1, <2>2
<1> QED
  BY <1>10, <1>11, <1>12, <1>13, <1>14 DEF LooksAtOne, OmpPrograms

(* The numbers of regions and of threads.                                  *)
LEMMA RegionFacts ==
  ASSUME LooksAtOne
  PROVE  /\ Len(TheProgram.regions) \in {1, 2}
         /\ DOMAIN TheProgram.regions = 1 .. Len(TheProgram.regions)
         /\ \A r \in DOMAIN TheProgram.regions : TheProgram.regions[r].threads \in Nat
         /\ Len(TheProgram.regions) = 2 =>
              /\ Is({"omp5", "omp9"})
              /\ \A r \in DOMAIN TheProgram.regions : TheProgram.regions[r].threads = 0
<1>1. ASSUME NEW t \in Nat, NEW b, OneRegion(t, b)
      PROVE  /\ Len(TheProgram.regions) = 1 /\ DOMAIN TheProgram.regions = 1 .. 1
             /\ TheProgram.regions[1].threads = t
  BY <1>1 DEF OneRegion, TeamRegion
<1>2. ASSUME NEW b, NEW d, TwoRegions(b, d)
      PROVE  /\ Len(TheProgram.regions) = 2 /\ DOMAIN TheProgram.regions = 1 .. 2
             /\ TheProgram.regions[1].threads = 0 /\ TheProgram.regions[2].threads = 0
  BY <1>2 DEF TwoRegions, TeamRegion
<1>3. CASE \E t \in Nat : \E b : OneRegion(t, b)
  BY <1>1, <1>3
<1>4. CASE Is({"omp5", "omp9"}) /\ \E b, d : TwoRegions(b, d)
  BY <1>2, <1>4
<1> QED
  BY <1>3, <1>4, Shapes, Zenon DEF Shape, Is

(* What the members of a team do, by program.                              *)
BodyIs(b) ==
  \/ Is({"omp1"}) /\ b = <<"for">>
  \/ Is({"omp2"}) /\ b = <<"fill", "barrier", "copy">>
  \/ Is({"omp3"}) /\ b = <<"fill", "barrier", "copy", "critical">>
  \/ Is({"omp4"}) /\ b = <<"fill", "barrier", "copy", "atomic">>
  \/ Is({"omp5"}) /\ b = <<"fill">>
  \/ Is({"omp5"}) /\ b = <<"reduction">>
  \/ Is({"omp6"}) /\ b = <<"id1", "barrier", "master", "barrier", "id2">>
  \/ Is({"omp7"}) /\ b = <<"id1", "barrier", "spin", "single", "barrier", "id2">>
  \/ Is({"omp8"}) /\ b = <<"id1", "sections", "id2">>
  \/ Is({"omp9"}) /\ b = <<"init">>
  \/ Is({"omp9"}) /\ b = <<"count">>

(* So the body of any of its regions is one of the bodies listed. *)
LEMMA Bodies ==
  ASSUME LooksAtOne, NEW r \in DOMAIN TheProgram.regions
  PROVE  BodyIs(TheProgram.regions[r].body)
<1>1. ASSUME NEW t \in Nat, NEW b, OneRegion(t, b)
      PROVE  TheProgram.regions[r].body = b
  BY <1>1 DEF OneRegion, TeamRegion
<1>2. ASSUME NEW b, NEW d, TwoRegions(b, d)
      PROVE  TheProgram.regions[r].body \in {b, d}
  BY <1>2 DEF TwoRegions, TeamRegion
<1>3. CASE \E t \in Nat : Is({"omp1"}) /\ OneRegion(t, <<"for">>)
  BY <1>1, <1>3 DEF BodyIs
<1>4. CASE Is({"omp2"}) /\ OneRegion(0, <<"fill", "barrier", "copy">>)
  BY <1>1, <1>4 DEF BodyIs
<1>5. CASE Is({"omp3"}) /\ OneRegion(0, <<"fill", "barrier", "copy", "critical">>)
  BY <1>1, <1>5 DEF BodyIs
<1>6. CASE Is({"omp4"}) /\ OneRegion(0, <<"fill", "barrier", "copy", "atomic">>)
  BY <1>1, <1>6 DEF BodyIs
<1>7. CASE Is({"omp5"}) /\ TwoRegions(<<"fill">>, <<"reduction">>)
  BY <1>2, <1>7 DEF BodyIs
<1>8. CASE \E t \in Nat :
             Is({"omp6"}) /\ OneRegion(t, <<"id1", "barrier", "master", "barrier", "id2">>)
  BY <1>1, <1>8 DEF BodyIs
<1>9. CASE \E t \in Nat :
             Is({"omp7"}) /\ OneRegion(t, <<"id1", "barrier", "spin", "single", "barrier", "id2">>)
  BY <1>1, <1>9 DEF BodyIs
<1>10. CASE \E t \in Nat : Is({"omp8"}) /\ OneRegion(t, <<"id1", "sections", "id2">>)
  BY <1>1, <1>10 DEF BodyIs
<1>11. CASE Is({"omp9"}) /\ TwoRegions(<<"init">>, <<"count">>)
  BY <1>2, <1>11 DEF BodyIs
<1> QED
  BY <1>3, <1>4, <1>5, <1>6, <1>7, <1>8, <1>9, <1>10, <1>11, Shapes, Zenon DEF Shape, Is

(* The programs that have a statement.                                     *)
Owns(op, name) == \A r \in DOMAIN TheProgram.regions :
                    \A k \in DOMAIN TheProgram.regions[r].body :
                      TheProgram.regions[r].body[k] = op => Is({name})

(* A statement of a special kind occurs only in its own program. *)
LEMMA Owners ==
  ASSUME LooksAtOne
  PROVE  /\ Owns("critical", "omp3") /\ Owns("reduction", "omp5")
         /\ Owns("spin", "omp7") /\ Owns("single", "omp7") /\ Owns("sections", "omp8")
         /\ Owns("init", "omp9") /\ Owns("count", "omp9") /\ Owns("master", "omp6")
<1>1. ASSUME NEW b, BodyIs(b)
      PROVE  \A k \in DOMAIN b :
               /\ b[k] = "critical" => Is({"omp3"})
               /\ b[k] = "reduction" => Is({"omp5"})
               /\ b[k] \in {"spin", "single"} => Is({"omp7"})
               /\ b[k] = "sections" => Is({"omp8"})
               /\ b[k] \in {"init", "count"} => Is({"omp9"})
               /\ b[k] = "master" => Is({"omp6"})
  <2>1. CASE Is({"omp1"}) /\ b = <<"for">>
    BY <2>1
  <2>2. CASE Is({"omp2"}) /\ b = <<"fill", "barrier", "copy">>
    BY <2>2
  <2>3. CASE Is({"omp3"}) /\ b = <<"fill", "barrier", "copy", "critical">>
    BY <2>3
  <2>4. CASE Is({"omp4"}) /\ b = <<"fill", "barrier", "copy", "atomic">>
    BY <2>4
  <2>5. CASE Is({"omp5"}) /\ b = <<"fill">>
    BY <2>5
  <2>6. CASE Is({"omp5"}) /\ b = <<"reduction">>
    BY <2>6
  <2>7. CASE Is({"omp6"}) /\ b = <<"id1", "barrier", "master", "barrier", "id2">>
    BY <2>7
  <2>8. CASE Is({"omp7"}) /\ b = <<"id1", "barrier", "spin", "single", "barrier", "id2">>
    BY <2>8
  <2>9. CASE Is({"omp8"}) /\ b = <<"id1", "sections", "id2">>
    BY <2>9
  <2>10. CASE Is({"omp9"}) /\ b = <<"init">>
    BY <2>10
  <2>11. CASE Is({"omp9"}) /\ b = <<"count">>
    BY <2>11
  <2> QED
    BY <1>1, <2>1, <2>2, <2>3, <2>4, <2>5, <2>6, <2>7, <2>8, <2>9, <2>10, <2>11 DEF BodyIs
<1> QED
  BY <1>1, Bodies DEF Owns

(* What the statements of a body mean for the constructs: each of those    *)
(* takes a member to the next, the others leave it where it is.            *)
Meeting == {"barrier", "single", "sections"}
Follows(b) ==
  /\ Len(b) \in Nat \ {0} /\ DOMAIN b = 1 .. Len(b)
  /\ StepAt(1) = 1 /\ StepAt(Len(b) + 1) = Len(Constructs) + 1
  /\ \A k \in DOMAIN b :
       IF b[k] \in Meeting
       THEN /\ StepAt(k) \in DOMAIN Constructs /\ Constructs[StepAt(k)] = b[k]
            /\ StepAt(k + 1) = StepAt(k) + 1
       ELSE StepAt(k + 1) = StepAt(k)

(* The library's program has one construct for each meeting of the team in the body. *)
LEMMA BodyFollows ==
  ASSUME LooksAtOne, NEW b, BodyIs(b)
  PROVE  Follows(b)
<1>1. CASE Is({"omp1"}) /\ b = <<"for">>
  <2>1. Constructs = <<>>
    BY <1>1 DEF Constructs, Is
  <2>2. \A k : StepAt(k) = 1
    BY <1>1 DEF StepAt, Is
  <2> QED
    BY <1>1, <2>1, <2>2 DEF Follows, After, Meeting
<1>2. CASE Is({"omp2"}) /\ b = <<"fill", "barrier", "copy">>
  <2>1. Constructs = <<"barrier">>
    BY <1>2 DEF Constructs, Is
  <2>2. \A k : StepAt(k) = 1 + After(k, 2)
    BY <1>2 DEF StepAt, Is
  <2> QED
    BY <1>2, <2>1, <2>2 DEF Follows, After, Meeting
<1>3. CASE Is({"omp3"}) /\ b = <<"fill", "barrier", "copy", "critical">>
  <2>1. Constructs = <<"barrier">>
    BY <1>3 DEF Constructs, Is
  <2>2. \A k : StepAt(k) = 1 + After(k, 2)
    BY <1>3 DEF StepAt, Is
  <2> QED
    BY <1>3, <2>1, <2>2 DEF Follows, After, Meeting
<1>4. CASE Is({"omp4"}) /\ b = <<"fill", "barrier", "copy", "atomic">>
  <2>1. Constructs = <<"barrier">>
    BY <1>4 DEF Constructs, Is
  <2>2. \A k : StepAt(k) = 1 + After(k, 2)
    BY <1>4 DEF StepAt, Is
  <2> QED
    BY <1>4, <2>1, <2>2 DEF Follows, After, Meeting
<1>5. CASE Is({"omp5"}) /\ b = <<"fill">>
  <2>1. Constructs = <<>>
    BY <1>5 DEF Constructs, Is
  <2>2. \A k : StepAt(k) = 1
    BY <1>5 DEF StepAt, Is
  <2> QED
    BY <1>5, <2>1, <2>2 DEF Follows, After, Meeting
<1>6. CASE Is({"omp5"}) /\ b = <<"reduction">>
  <2>1. Constructs = <<>>
    BY <1>6 DEF Constructs, Is
  <2>2. \A k : StepAt(k) = 1
    BY <1>6 DEF StepAt, Is
  <2> QED
    BY <1>6, <2>1, <2>2 DEF Follows, After, Meeting
<1>7. CASE Is({"omp6"}) /\ b = <<"id1", "barrier", "master", "barrier", "id2">>
  <2>1. Constructs = <<"barrier", "barrier">>
    BY <1>7 DEF Constructs, Is
  <2>2. \A k : StepAt(k) = 1 + After(k, 2) + After(k, 4)
    BY <1>7 DEF StepAt, Is
  <2> QED
    BY <1>7, <2>1, <2>2 DEF Follows, After, Meeting
<1>8. CASE Is({"omp7"}) /\ b = <<"id1", "barrier", "spin", "single", "barrier", "id2">>
  <2>1. Constructs = <<"barrier", "single", "barrier">>
    BY <1>8 DEF Constructs, Is
  <2>2. \A k : StepAt(k) = 1 + After(k, 2) + After(k, 4) + After(k, 5)
    BY <1>8 DEF StepAt, Is
  <2> QED
    BY <1>8, <2>1, <2>2 DEF Follows, After, Meeting
<1>9. CASE Is({"omp8"}) /\ b = <<"id1", "sections", "id2">>
  <2>1. Constructs = <<"sections">>
    BY <1>9 DEF Constructs, Is
  <2>2. \A k : StepAt(k) = 1 + After(k, 2)
    BY <1>9 DEF StepAt, Is
  <2> QED
    BY <1>9, <2>1, <2>2 DEF Follows, After, Meeting
<1>10. CASE Is({"omp9"}) /\ b = <<"init">>
  <2>1. Constructs = <<>>
    BY <1>10 DEF Constructs, Is
  <2>2. \A k : StepAt(k) = 1
    BY <1>10 DEF StepAt, Is
  <2> QED
    BY <1>10, <2>1, <2>2 DEF Follows, After, Meeting
<1>11. CASE Is({"omp9"}) /\ b = <<"count">>
  <2>1. Constructs = <<>>
    BY <1>11 DEF Constructs, Is
  <2>2. \A k : StepAt(k) = 1
    BY <1>11 DEF StepAt, Is
  <2> QED
    BY <1>11, <2>1, <2>2 DEF Follows, After, Meeting
<1> QED
  BY <1>1, <1>2, <1>3, <1>4, <1>5, <1>6, <1>7, <1>8, <1>9, <1>10, <1>11 DEF BodyIs

-----------------------------------------------------------------------------
(* What holds of TheProgram as a program of Libgomp.                       *)
LibInv == Lib!SysInv /\ Lib!IInv /\ Lib!HandsInv

(* It is one that keeps its tasks in regions, and all its teams have a     *)
(* size libgomp gives them.                                                *)
LEMMA LibAssumptions ==
  ASSUME LooksAtOne
  PROVE  /\ Constructs \in Seq(Lib!Constructs) /\ Len(Constructs) \in Nat
         /\ {TheProgram.regions[r].threads : r \in DOMAIN TheProgram.regions} \subseteq Nat
         /\ SectionsOf \in Nat /\ Len(TheProgram.regions) \in Nat
         /\ Lib!TasksInRegions /\ Lib!CriticalsInTeam
<1>1. Constructs \in Seq(Lib!Constructs) /\ Len(Constructs) \in Nat
  <2>1. /\ <<>> \in Seq(Lib!Constructs) /\ <<"barrier">> \in Seq(Lib!Constructs)
        /\ <<"barrier", "barrier">> \in Seq(Lib!Constructs)
        /\ <<"barrier", "single", "barrier">> \in Seq(Lib!Constructs)
        /\ <<"sections">> \in Seq(Lib!Constructs)
    BY DEF Lib!Constructs
  <2> QED
    BY <2>1, LenProperties DEF Constructs
<1>2. {TheProgram.regions[r].threads : r \in DOMAIN TheProgram.regions} \subseteq Nat
      /\ Len(TheProgram.regions) \in Nat
  BY RegionFacts
<1>3. SectionsOf \in Nat
  BY Shapes DEF SectionsOf, Shape, Is
<1>4. /\ MaxThreads \in Nat /\ DefaultThreads \in 1 .. MaxThreads
      /\ MaxThreads <= NumTasks /\ NumTasks \in Nat
  BY GompAssumption, TasksAssumption DEF LooksAtOne
<1>5. \A k \in Nat : Lib!TeamSize(k) <= NumTasks
  BY <1>4 DEF Lib!TeamSize
<1>6. Lib!TasksInRegions
  BY <1>2, <1>5 DEF Lib!TasksInRegions
<1>7. Lib!CriticalsInTeam
  BY RegionFacts DEF Lib!CriticalsInTeam
<1> QED
  BY <1>1, <1>2, <1>3, <1>6, <1>7

(* Its invariant holds at the start, and each step of the library keeps it. *)
LEMMA LibInitInv ==
  ASSUME LooksAtOne
  PROVE  Lib!Init => LibInv
<1> USE LibAssumptions, GompAssumption, TasksAssumption, LocksAssumption
        DEF Lib!Contexts, Lib!Ids, Lib!AllLocks, Lib!FreeOps, Lib!Endless, Lib!NoTask,
            Contexts, Ids, AllLocks
<1>1. Lib!Init => Lib!TaskInv
  BY Lib!InitTaskInv
<1>2. Lib!Init => Lib!CritInv
  BY Lib!InitCritInv
<1>3. Lib!Init => Lib!ThreadInv
  BY Lib!InitThreadInv
<1>4. Lib!Init => Lib!IInv
  BY Lib!InitIInv
<1>5. Lib!Init => Lib!HandsInv
  BY DEF Lib!Init, Lib!SystemInit, Lib!HandsInv
<1> QED
  BY <1>1, <1>2, <1>3, <1>4, <1>5 DEF LibInv, Lib!SysInv

(* The invariants proved of the library hold after any of its steps. *)
LEMMA LibNextInv ==
  ASSUME LooksAtOne, LibInv, [Lib!Next]_(Lib!vars)
  PROVE  LibInv'
<1> USE LibAssumptions, GompAssumption, TasksAssumption, LocksAssumption
        DEF Lib!Contexts, Lib!Ids, Lib!AllLocks, Lib!FreeOps, Lib!Endless, Lib!NoTask,
            Contexts, Ids, AllLocks
<1>1. Lib!TaskInv /\ Lib!CritInv /\ Lib!ThreadInv /\ Lib!IInv /\ Lib!HandsInv /\ Lib!SysInv
  BY DEF LibInv, Lib!SysInv
<1>2. Lib!TaskInv'
  BY <1>1, Lib!NextTaskInv
<1>3. Lib!CritInv'
  BY <1>1, Lib!NextCritInv
<1>4. Lib!ThreadInv'
  BY <1>1, Lib!NextThreadInv
<1>5. Lib!IInv'
  BY <1>1, Lib!NextIInv
<1>6. Lib!HandsInv'
  BY <1>1, Lib!NextHandsInv
<1> QED
  BY <1>2, <1>3, <1>4, <1>5, <1>6 DEF LibInv, Lib!SysInv

-----------------------------------------------------------------------------
(* The statements that take a member more than one step.                   *)
Long == {"critical", "reduction", "spin", "sections", "count"}

(* A member is in a critical construct, or has the lock of a bucket.       *)
Busy(i) == InCritical(i) \/ (Is({"omp9"}) /\ n[i] % 2 = 1)

(* The programs whose members print.                                       *)
Printers == {"omp6", "omp7", "omp8"}

(* Where main() and its members are in the program.  Nobody yields while   *)
(* it is busy, and so whoever is busy runs.                                *)
ProgInv ==
  /\ prog = TheProgram
  /\ region \in 1 .. Len(prog.regions) + 2
  /\ pc[Main] = "join" => region \in DOMAIN prog.regions
  /\ at \in [Ids -> Nat] /\ n \in [Ids -> Nat] /\ sec = [i \in Ids |-> sec[i]]
  /\ \A i \in Ids :
       /\ pc[Main] = "join" => at[i] \in 1 .. Len(Body) + 1
       /\ n[i] # 0 => kind[i] = "implicit" /\ at[i] \in DOMAIN Body /\ Body[at[i]] \in Long
       /\ Busy(i) => cpu = i /\ pc[i] = "user"
       /\ Is({"omp9"}) /\ n[i] % 2 = 1 => BucketOf(i) \in Locks
  /\ log \in Seq(Range(log))
  /\ ~Is(Printers) => log = <<>>
  /\ region \in DOMAIN prog.regions /\ pc[Main] # "join" => log = <<>>

(* What the invariant of the library says about who is where, and what     *)
(* those have who go on.                                                   *)
LEMMA LibFacts ==
  ASSUME LooksAtOne, LibInv
  PROVE  /\ pc \in [Contexts -> PcValues] /\ num \in 1 .. MaxThreads /\ num \in Nat
         /\ Main \in Contexts /\ Bg \in Contexts /\ Main \notin Ids
         /\ pc[Bg] \in {"boot", "background", "halt"} /\ (pc[Bg] = "boot" => pc[Main] = "unborn")
         /\ pc[Main] \notin {"boot", "background", "halt", "loop"}
         /\ \A i \in Ids : pc[i] \notin {"boot", "background", "halt", "join", "dead"}
         /\ \A i \in Ids : kind[i] = "implicit" => i \in TeamIds /\ pc[Main] = "join"
         /\ mutex[team] <=> LibInCrit # {}
         /\ lock = [l \in Locks |-> lock[l]]
         /\ \A l \in Locks : lock[l] \in {0, 1}
         /\ \A l \in Locks : lock[l] # 0 => \E c \in Contexts : LibHeld[c][l] > 0
<1> USE DEF Lib!Contexts, Lib!Ids, Contexts, Ids, AllLocks, Lib!AllLocks
<1>1. Lib!TaskInv /\ Lib!CritInv /\ Lib!IInv /\ Lib!HandsInv
  BY DEF LibInv, Lib!SysInv
<1>2. /\ pc \in [Contexts -> PcValues] /\ num \in 1 .. MaxThreads
      /\ pc[Bg] \in {"boot", "background", "halt"} /\ (pc[Bg] = "boot" => pc[Main] = "unborn")
      /\ pc[Main] \notin {"boot", "background", "halt", "loop"}
      /\ \A i \in Ids : pc[i] \notin {"boot", "background", "halt", "join", "dead"}
  BY <1>1 DEF Lib!TaskInv, Lib!PlacesInv, Lib!PcValues, PcValues, Lib!Inside
<1>3. ASSUME NEW i \in Ids, kind[i] = "implicit" PROVE i \in TeamIds /\ pc[Main] = "join"
  <2>1. task[i] # Lib!NoTask /\ i \in Lib!TeamIds /\ pc[i] \notin {"unborn", "loop"}
    BY <1>1, <1>3 DEF Lib!TaskInv, Lib!WorkersInv
  <2>2. i \in TeamIds
    BY <2>1 DEF Lib!TeamIds, TeamIds
  <2>3. CASE pc[Main] # "join"
    <3>1. tasks[1] = 0
      BY <1>1, <2>3 DEF Lib!TaskInv, Lib!PlacesInv, Lib!CountsInv
    <3>2. Lib!TaskInv /\ tasks[1] = 0 => \A j \in Ids : task[j] = Lib!NoTask
      BY LibAssumptions, GompAssumption, TasksAssumption, LocksAssumption, Lib!AllIdle
         DEF Lib!FreeOps, Lib!Endless
    <3> QED
      BY <1>1, <2>1, <3>1, <3>2
  <2> QED
    BY <2>2, <2>3
<1>4. mutex[team] <=> LibInCrit # {}
  BY <1>1 DEF Lib!CritInv
<1>5. lock = [l \in Locks |-> lock[l]] /\ \A l \in Locks : lock[l] \in {0, 1}
  BY <1>1 DEF Lib!IInv, Lib!LockInv, Lib!FieldsInv
<1>6. \A l \in Locks : lock[l] # 0 => \E c \in Contexts : LibHeld[c][l] > 0
  BY <1>1 DEF Lib!HandsInv
<1> QED
  BY <1>2, <1>3, <1>4, <1>5, <1>6, GompAssumption

-----------------------------------------------------------------------------
(* A line more of output.                                                  *)
LEMMA LogGrows ==
  ASSUME log \in Seq(Range(log)), NEW what, NEW s, NEW i, log' = Append(log, <<what, s, i>>)
  PROVE  /\ Len(log) \in Nat /\ DOMAIN log = 1 .. Len(log)
         /\ log' \in Seq(Range(log'))
         /\ DOMAIN log' = DOMAIN log \cup {Len(log) + 1}
         /\ log'[Len(log) + 1] = <<what, s, i>> /\ \A p \in DOMAIN log : log'[p] = log[p]
<1>0. PICK S : S = Range(log) \cup {<<what, s, i>>}
  OBVIOUS
<1>1. log \in Seq(S) /\ Len(log) \in Nat /\ DOMAIN log = 1 .. Len(log)
  BY <1>0, LenProperties, RangeInSeq
<1>2. /\ log' \in Seq(S) /\ Len(log') = Len(log) + 1
      /\ \A p \in 1 .. Len(log) : log'[p] = log[p] /\ log'[Len(log) + 1] = <<what, s, i>>
      /\ log'[Len(log) + 1] = <<what, s, i>>
  BY <1>0, <1>1, AppendProperties
<1>3. DOMAIN log' = 1 .. Len(log) + 1
  BY <1>2, LenProperties
<1>4. log' \in Seq(Range(log'))
  BY <1>2, RangeInSeq
<1> QED
  BY <1>1, <1>2, <1>3, <1>4

(* A subset of the output's places, and with the next place.               *)
LEMMA PlacesCount ==
  ASSUME log \in Seq(Range(log)), NEW S, S \subseteq DOMAIN log
  PROVE  /\ IsFiniteSet(S) /\ Cardinality(S) \in Nat
         /\ Cardinality(S \cup {Len(log) + 1}) = Cardinality(S) + 1
         /\ \A p \in S : p \in Nat /\ p < Len(log) + 1
<1>1. Len(log) \in Nat /\ DOMAIN log = 1 .. Len(log)
  BY LenProperties
<1>2. IsFiniteSet(1 .. Len(log))
  BY <1>1, FS_Interval
<1>3. IsFiniteSet(S)
  BY <1>1, <1>2, FS_Subset
<1>4. Len(log) + 1 \notin S /\ \A p \in S : p \in Nat /\ p < Len(log) + 1
  BY <1>1
<1> QED
  BY <1>3, <1>4, FS_AddElement, FS_CardinalityType

(* It is one place more of what it says, where it says it, by whom.        *)
LEMMA PrintsGrow ==
  ASSUME log \in Seq(Range(log)), NEW what, NEW s, NEW i, log' = Append(log, <<what, s, i>>)
  PROVE  /\ \A w : Prints(w)' = IF w = what THEN Prints(w) \cup {Len(log) + 1} ELSE Prints(w)
         /\ \A w, t : PrintsIn(w, t)' =
              IF w = what /\ t = s THEN PrintsIn(w, t) \cup {Len(log) + 1} ELSE PrintsIn(w, t)
         /\ \A w : Cardinality(Prints(w))' =
                     Cardinality(Prints(w)) + IF w = what THEN 1 ELSE 0
         /\ \A w, t : Cardinality(PrintsIn(w, t))' =
                        Cardinality(PrintsIn(w, t)) + IF w = what /\ t = s THEN 1 ELSE 0
<1>1. /\ DOMAIN log' = DOMAIN log \cup {Len(log) + 1}
      /\ log'[Len(log) + 1] = <<what, s, i>> /\ \A p \in DOMAIN log : log'[p] = log[p]
      /\ Len(log) + 1 \notin DOMAIN log
  BY LogGrows
<1>2. \A w : Prints(w)' = IF w = what THEN Prints(w) \cup {Len(log) + 1} ELSE Prints(w)
  BY <1>1 DEF Prints
<1>3. \A w, t : PrintsIn(w, t)' =
        IF w = what /\ t = s THEN PrintsIn(w, t) \cup {Len(log) + 1} ELSE PrintsIn(w, t)
  BY <1>1 DEF PrintsIn, Prints
<1>4. \A w, t : Prints(w) \subseteq DOMAIN log /\ PrintsIn(w, t) \subseteq DOMAIN log
  BY DEF PrintsIn, Prints
<1>5. \A w : Cardinality(Prints(w))' = Cardinality(Prints(w)) + IF w = what THEN 1 ELSE 0
  <2> TAKE w
  <2>1. Cardinality(Prints(w) \cup {Len(log) + 1}) = Cardinality(Prints(w)) + 1
        /\ Cardinality(Prints(w)) \in Nat
    BY <1>4, PlacesCount
  <2>2. CASE w = what
    BY <1>2, <2>1, <2>2
  <2>3. CASE w # what
    BY <1>2, <2>1, <2>3
  <2> QED
    BY <2>2, <2>3
<1>6. \A w, t : Cardinality(PrintsIn(w, t))' =
                  Cardinality(PrintsIn(w, t)) + IF w = what /\ t = s THEN 1 ELSE 0
  <2> TAKE w, t
  <2>1. Cardinality(PrintsIn(w, t) \cup {Len(log) + 1}) = Cardinality(PrintsIn(w, t)) + 1
        /\ Cardinality(PrintsIn(w, t)) \in Nat
    BY <1>4, PlacesCount
  <2>2. CASE w = what /\ t = s
    BY <1>3, <2>1, <2>2
  <2>3. CASE ~(w = what /\ t = s)
    BY <1>3, <2>1, <2>3
  <2> QED
    BY <2>2, <2>3
<1> QED
  BY <1>2, <1>3, <1>5, <1>6

(* The steps after which the output says no more for the library, and      *)
(* those that say what it says.                                            *)
LEMMA LogSame ==
  ASSUME log \in Seq(Range(log)),
         log' = log \/ \E what, s : what \notin {"single", "begin"} /\ Says(what, s)
  PROVE  LibWins' = LibWins /\ LibRan' = LibRan
<1>1. CASE log' = log
  BY <1>1 DEF LibWins, LibRan, Prints, PrintsIn
<1>2. ASSUME NEW what, NEW s, what \notin {"single", "begin"}, Says(what, s)
      PROVE  LibWins' = LibWins /\ LibRan' = LibRan
  <2>1. log' = Append(log, <<what, s, Me>>)
    BY <1>2 DEF Says
  <2>2. Prints("single")' = Prints("single") /\ \A t : PrintsIn("begin", t)' = PrintsIn("begin", t)
    BY <1>2, <2>1, PrintsGrow
  <2> QED
    BY <2>2 DEF LibWins, LibRan
<1> QED
  BY <1>1, <1>2

-----------------------------------------------------------------------------
(* The operations of the library are the same in both.                     *)
LEMMA SameOps ==
  /\ Lib!Ids = Ids
  /\ Lib!TeamIds = TeamIds
  /\ Lib!Contexts = Contexts
  /\ Lib!AllLocks = AllLocks
  /\ Lib!Me = Me
  /\ Lib!Role = Role
  /\ \A l : Lib!At(l) <=> At(l)
  /\ \A l : Lib!Goto(l) <=> Goto(l)
  /\ Lib!threadVars = threadVars
  /\ Lib!Yield <=> Yield
  /\ \A o : Lib!Suspend(o) <=> Suspend(o)
  /\ \A o : Lib!Resume(o) <=> Resume(o)
  /\ \A o : Lib!Start(o) <=> Start(o)
  /\ Lib!Return <=> Return
  /\ Lib!Undefer <=> Undefer
  /\ Lib!BarrierEnter <=> BarrierEnter
  /\ Lib!BarrierRelease <=> BarrierRelease
  /\ Lib!BarrierReturn <=> BarrierReturn
  /\ Lib!CriticalStart <=> CriticalStart
  /\ Lib!CriticalEnd <=> CriticalEnd
  /\ Lib!SingleStart <=> SingleStart
  /\ Lib!SingleWins <=> SingleWins
  /\ Lib!SectionsNext <=> SectionsNext
  /\ Lib!SectionsEnd <=> SectionsEnd
  /\ \A k : Lib!SectionsStart(k) <=> SectionsStart(k)
  /\ \A k : Lib!SectionsFor(k) = SectionsFor(k)
  /\ Lib!SectionFrom = SectionFrom
  /\ \A s, k : Lib!NextSection(s, k) = NextSection(s, k)
  /\ \A l : Lib!SetLock(l) <=> SetLock(l)
  /\ \A l : Lib!UnsetLock(l) <=> UnsetLock(l)
  /\ Lib!WorkerImplicit <=> WorkerImplicit
  /\ Lib!WorkerIdle <=> WorkerIdle
  /\ Lib!WorkerDone <=> WorkerDone
  /\ \A k : Lib!Parallel(k) <=> Parallel(k)
  /\ Lib!JoinWait <=> JoinWait
  /\ Lib!JoinDone <=> JoinDone
  /\ Lib!MainReturns <=> MainReturns
  /\ Lib!Boot <=> Boot
<1> USE DEF Lib!Ids, Ids, Lib!TeamIds, TeamIds, Lib!Contexts, Contexts, Lib!AllLocks, AllLocks,
        Lib!Me, Me, Lib!Role, Role, Lib!At, At, Lib!Goto, Goto, Lib!threadVars, threadVars
<1>1. /\ Lib!Ids = Ids
      /\ Lib!TeamIds = TeamIds
      /\ Lib!Contexts = Contexts
      /\ Lib!AllLocks = AllLocks
      /\ Lib!Me = Me
      /\ Lib!Role = Role
      /\ \A l : Lib!At(l) <=> At(l)
      /\ \A l : Lib!Goto(l) <=> Goto(l)
      /\ Lib!threadVars = threadVars
  OBVIOUS
<1>2. /\ Lib!Yield <=> Yield
      /\ \A o : Lib!Suspend(o) <=> Suspend(o)
      /\ \A o : Lib!Resume(o) <=> Resume(o)
      /\ \A o : Lib!Start(o) <=> Start(o)
      /\ Lib!Return <=> Return
      /\ Lib!Undefer <=> Undefer
  BY DEF Lib!Last, Last, Lib!Front, Front, Lib!Yield, Yield, Lib!FifoFull, FifoFull, Lib!Pop, Pop,
     Lib!Push, Push, Lib!Suspend, Suspend, Lib!Resume, Resume, Lib!Start, Start, Lib!Return,
     Return, Lib!Undefer, Undefer
<1>3. /\ Lib!BarrierEnter <=> BarrierEnter
      /\ Lib!BarrierRelease <=> BarrierRelease
      /\ Lib!BarrierReturn <=> BarrierReturn
  BY <1>2 DEF Lib!BarrierEnter, BarrierEnter, Lib!BarrierWait, BarrierWait, Lib!BarrierLast,
     BarrierLast, Lib!TeamToScan, TeamToScan, Lib!ToRelease, ToRelease, Lib!BarrierRelease,
     BarrierRelease, Lib!BarrierReturn, BarrierReturn, Lib!barrierVars, barrierVars, Lib!Min, Min
<1>4. /\ Lib!CriticalStart <=> CriticalStart
      /\ Lib!CriticalEnd <=> CriticalEnd
  BY <1>2 DEF Lib!CriticalStart, CriticalStart, Lib!TestMutex, TestMutex, Lib!AwaitMutex,
     AwaitMutex, Lib!TakeMutex, TakeMutex, Lib!CriticalEnd, CriticalEnd, Lib!Waiters, Waiters,
     Lib!Rotation, Rotation, Lib!Min, Min
<1>5. /\ Lib!SingleStart <=> SingleStart
      /\ Lib!SingleWins <=> SingleWins
  BY <1>2 DEF Lib!SingleStart, SingleStart, Lib!SingleWins, SingleWins
<1>6. /\ Lib!SectionsNext <=> SectionsNext
      /\ Lib!SectionsEnd <=> SectionsEnd
      /\ \A k : Lib!SectionsStart(k) <=> SectionsStart(k)
      /\ \A k : Lib!SectionsFor(k) = SectionsFor(k)
      /\ Lib!SectionFrom = SectionFrom
      /\ \A s, k : Lib!NextSection(s, k) = NextSection(s, k)
  BY <1>2, <1>3 DEF Lib!SectionsNext, SectionsNext, Lib!SectionsEnd, SectionsEnd,
     Lib!SectionsStart, SectionsStart, Lib!SectionsFor, SectionsFor, Lib!SectionFrom, SectionFrom,
     Lib!NextSection, NextSection, Lib!SectionAfter, SectionAfter, Lib!FirstInSections,
     FirstInSections
<1>7. /\ \A l : Lib!SetLock(l) <=> SetLock(l)
      /\ \A l : Lib!UnsetLock(l) <=> UnsetLock(l)
  BY <1>2 DEF Lib!SetLock, SetLock, Lib!PollLock, PollLock, Lib!AwaitLock, AwaitLock, Lib!TakeLock,
     TakeLock, Lib!UnsetLock, UnsetLock
<1>8. /\ Lib!WorkerImplicit <=> WorkerImplicit
      /\ Lib!WorkerIdle <=> WorkerIdle
      /\ Lib!WorkerDone <=> WorkerDone
  BY <1>2 DEF Lib!WorkerImplicit, WorkerImplicit, Lib!WorkerIdle, WorkerIdle, Lib!WorkerDone,
     WorkerDone, Lib!NoTask, NoTask, Lib!taskVars, taskVars
<1>9. /\ \A k : Lib!Parallel(k) <=> Parallel(k)
      /\ Lib!JoinWait <=> JoinWait
      /\ Lib!JoinDone <=> JoinDone
      /\ Lib!MainReturns <=> MainReturns
  BY <1>2 DEF Lib!Parallel, Parallel, Lib!TeamSize, TeamSize, Lib!NoTask, NoTask, Lib!TeamNos,
     TeamNos, Lib!JoinWait, JoinWait, Lib!JoinDone, JoinDone, Lib!taskVars, taskVars,
     Lib!MainReturns, MainReturns, Lib!libraryVars, libraryVars, Lib!stateVars, stateVars,
     Lib!barrierVars, barrierVars, Lib!criticalVars, criticalVars, Lib!singleVars, singleVars,
     Lib!sectionVars, sectionVars, Lib!lockVars, lockVars
<1>10. Lib!Boot <=> Boot
  BY <1>2 DEF Lib!Boot, Boot, Lib!SpawnWorker, SpawnWorker, Lib!SpawnMain, SpawnMain,
     Lib!Background, Background, Lib!Halt, Halt, Lib!Unborn, Unborn, Lib!Min, Min, Lib!libraryVars,
     libraryVars, Lib!stateVars, stateVars, Lib!barrierVars, barrierVars, Lib!criticalVars,
     criticalVars, Lib!singleVars, singleVars, Lib!sectionVars, sectionVars, Lib!taskVars,
     taskVars, Lib!lockVars, lockVars
<1> QED
  BY <1>1, <1>2, <1>3, <1>4, <1>5, <1>6, <1>7, <1>8, <1>9, <1>10

-----------------------------------------------------------------------------
(* A member at a statement of its region.                                  *)
LEMMA Doer ==
  ASSUME LooksAtOne, LibInv, ProgInv, NEW op, NEW k, Doing(op, k)
  PROVE  /\ At("user") /\ Role = "implicit"
         /\ cpu \in Ids /\ cpu \in Contexts /\ cpu # Main /\ Me = cpu /\ cpu \in TeamIds
         /\ pc[cpu] = "user" /\ pc[Main] = "join" /\ kind[cpu] = "implicit"
         /\ prog = TheProgram /\ region \in DOMAIN TheProgram.regions
         /\ Body = TheProgram.regions[region].body /\ BodyIs(Body) /\ Follows(Body)
         /\ at[cpu] \in DOMAIN Body /\ at[cpu] \in Nat /\ Body[at[cpu]] = op
         /\ n[cpu] = k /\ k \in Nat
<1>1. At("user") /\ Role = "implicit" /\ at[cpu] \in DOMAIN Body /\ Body[at[cpu]] = op /\ n[cpu] = k
  BY DEF Doing
<1>2. cpu \in Ids /\ kind[cpu] = "implicit" /\ pc[cpu] = "user"
  BY <1>1 DEF Role, At
<1>3. cpu \in TeamIds /\ pc[Main] = "join"
  BY <1>2, LibFacts
<1>4. prog = TheProgram /\ region \in DOMAIN TheProgram.regions
  BY <1>3 DEF ProgInv
<1>5. Body = TheProgram.regions[region].body
  BY <1>4 DEF Body
<1>6. BodyIs(Body)
  BY <1>4, <1>5, Bodies
<1>7. Follows(Body)
  BY <1>6, BodyFollows
<1>8. at[cpu] \in Nat /\ n[cpu] \in Nat
  BY <1>2 DEF ProgInv
<1>9. cpu # Main /\ cpu \in Contexts /\ Me = cpu
  BY <1>2, GompAssumption DEF Contexts, Me
<1> QED
  BY <1>1, <1>2, <1>3, <1>4, <1>5, <1>6, <1>7, <1>8, <1>9

(* Which construct it meets next, as it goes on.                           *)
LEMMA DoneSteps ==
  ASSUME LooksAtOne, LibInv, ProgInv, NEW op, NEW k, Doing(op, k), at' = [at EXCEPT ![cpu] = @ + 1]
  PROVE  /\ op \in Meeting =>
              /\ LibStep[cpu] \in DOMAIN Constructs /\ Constructs[LibStep[cpu]] = op
              /\ LibStep' = [LibStep EXCEPT ![cpu] = @ + 1]
         /\ op \notin Meeting => LibStep' = LibStep
<1>1. /\ cpu \in Ids /\ Follows(Body) /\ at[cpu] \in DOMAIN Body /\ Body[at[cpu]] = op
      /\ at \in [Ids -> Nat]
  BY Doer DEF ProgInv
<1>2. LibStep[cpu] = StepAt(at[cpu]) /\ LibStep'[cpu] = StepAt(at[cpu] + 1)
  BY <1>1 DEF LibStep
<1>3. /\ DOMAIN LibStep = Ids /\ DOMAIN LibStep' = Ids
      /\ LibStep = [i \in Ids |-> LibStep[i]] /\ LibStep' = [i \in Ids |-> LibStep'[i]]
      /\ \A i \in Ids : i # cpu => LibStep'[i] = LibStep[i]
  BY <1>1 DEF LibStep
<1>4. CASE op \in Meeting
  <2>1. /\ LibStep[cpu] \in DOMAIN Constructs /\ Constructs[LibStep[cpu]] = op
        /\ LibStep'[cpu] = LibStep[cpu] + 1
    BY <1>1, <1>2, <1>4 DEF Follows
  <2>2. LibStep' = [LibStep EXCEPT ![cpu] = @ + 1]
    BY <1>3, <2>1
  <2> QED
    BY <1>4, <2>1, <2>2
<1>5. CASE op \notin Meeting
  <2>1. LibStep'[cpu] = LibStep[cpu]
    BY <1>1, <1>2, <1>5 DEF Follows
  <2>2. LibStep' = LibStep
    BY <1>3, <2>1
  <2> QED
    BY <1>5, <2>2
<1> QED
  BY <1>4, <1>5

(* A step of a member that is not busy, nor is afterwards.                 *)
LEMMA NotBusy ==
  ASSUME num' = num, n \in [Ids -> Nat], NEW x, n' = [n EXCEPT ![cpu] = x],
         \A i \in Ids : i = cpu => ~Busy(i) /\ ~Busy(i)'
  PROVE  LibInCrit' = LibInCrit /\ LibHeld' = LibHeld
<1>1. \A i \in Ids : i # cpu => n'[i] = n[i]
  OBVIOUS
<1>2. \A i \in Ids : InCritical(i)' <=> InCritical(i)
  BY <1>1 DEF Busy, InCritical
<1>3. \A i \in Ids : \A l : HasBucket(i, l)' <=> HasBucket(i, l)
  BY <1>1 DEF Busy, HasBucket, BucketOf, ShareOf
<1>4. LibInCrit' = LibInCrit
  BY <1>2 DEF LibInCrit
<1>5. LibHeld' = LibHeld
  BY <1>3 DEF LibHeld
<1> QED
  BY <1>4, <1>5

(* Steps that change nothing there.                                        *)
LEMMA SameHands ==
  ASSUME num' = num, n' = n
  PROVE  LibInCrit' = LibInCrit /\ LibHeld' = LibHeld
<1>1. \A i : InCritical(i)' <=> InCritical(i)
  BY DEF InCritical
<1>2. \A i, l : HasBucket(i, l)' <=> HasBucket(i, l)
  BY DEF HasBucket, BucketOf, ShareOf
<1>3. LibInCrit' = LibInCrit
  BY <1>1 DEF LibInCrit
<1>4. LibHeld' = LibHeld
  BY <1>2 DEF LibHeld
<1> QED
  BY <1>3, <1>4

(* A member that is not busy has nothing that keeps others waiting.        *)
LEMMA NotBusyFree ==
  ASSUME cpu \in Contexts, cpu \in Ids => ~Busy(cpu)
  PROVE  Lib!Unencumbered
<1>1. cpu \notin LibInCrit
  BY DEF LibInCrit, Busy
<1>2. cpu \in Ids => \A l : ~HasBucket(cpu, l)
  BY DEF HasBucket, Busy
<1>3. \A c \in Contexts, l \in AllLocks : (c \in Ids => ~HasBucket(c, l)) => LibHeld[c][l] = 0
  BY DEF LibHeld
<1> QED
  BY <1>1, <1>2, <1>3 DEF Lib!Unencumbered, Lib!HoldsNo, Lib!AllLocks, AllLocks

(* Steps of others than main() are no steps between its regions.           *)
LEMMA SameRegions ==
  ASSUME region' = region, pc'[Main] = "join" <=> pc[Main] = "join"
  PROVE  LibRegions' = LibRegions
BY DEF LibRegions

(* What a member is in: only sections count.                               *)
LEMMA SameSections ==
  ASSUME sec' = sec, \A i \in Ids : AtSections(i)' <=> AtSections(i)
  PROVE  LibSec' = LibSec
BY DEF LibSec

(* A step the library knows nothing of.                                    *)
LEMMA Unseen ==
  ASSUME UNCHANGED systemVars, LibStep' = LibStep, LibInCrit' = LibInCrit, LibHeld' = LibHeld,
         LibSec' = LibSec, LibWins' = LibWins, LibRan' = LibRan, LibRegions' = LibRegions
  PROVE  UNCHANGED Lib!vars
<1>1. LibFuel' = LibFuel
  BY DEF LibFuel
<1> QED
  BY <1>1 DEF systemVars, threadVars, libraryVars, stateVars, barrierVars, criticalVars,
     singleVars, sectionVars, taskVars, lockVars, Lib!vars, Lib!clientVars, Lib!seenVars,
     Lib!systemVars, Lib!threadVars, Lib!libraryVars, Lib!stateVars, Lib!barrierVars,
     Lib!criticalVars, Lib!singleVars, Lib!sectionVars, Lib!taskVars, Lib!lockVars

(* The statements that call nothing of it.                                 *)
LEMMA SilentSteps ==
  ASSUME LooksAtOne, LibInv, ProgInv, For \/ Fill \/ Copy \/ Atomic \/ PrintId \/ Master
  PROVE  UNCHANGED Lib!vars
<1>1. PICK op \in {"for", "fill", "copy", "atomic", "id1", "id2", "master"} :
        Doing(op, 0) /\ Done /\ UNCHANGED systemVars
        /\ (log' = log \/ \E what, s : what \notin {"single", "begin"} /\ Says(what, s))
  <2>1. CASE For
    BY <2>1 DEF For
  <2>2. CASE Fill
    BY <2>2 DEF Fill
  <2>3. CASE Copy
    BY <2>3 DEF Copy
  <2>4. CASE Atomic
    BY <2>4 DEF Atomic
  <2>5. CASE PrintId
    <3>1. Body[at[cpu]] \in {"id1", "id2"} /\ Says(Body[at[cpu]], 0)
      BY <2>5 DEF PrintId, Doing
    <3> QED
      BY <2>5, <3>1 DEF PrintId
  <2>6. CASE Master
    BY <2>6 DEF Master, NoOutput
  <2> QED
    BY <2>1, <2>2, <2>3, <2>4, <2>5, <2>6
<1>2. n[cpu] = 0 /\ n' = n /\ at' = [at EXCEPT ![cpu] = @ + 1] /\ region' = region /\ sec' = sec
  BY <1>1 DEF Doing, Done, ProgInv
<1>3. LibStep' = LibStep
  BY <1>1, <1>2, DoneSteps DEF Meeting
<1>4. num' = num /\ pc' = pc
  BY <1>1 DEF systemVars, libraryVars, stateVars
<1>5. LibInCrit' = LibInCrit /\ LibHeld' = LibHeld
  BY <1>2, <1>4, SameHands
<1>6. LibSec' = LibSec
  BY <1>2, SameSections DEF AtSections
<1>7. LibWins' = LibWins /\ LibRan' = LibRan
  BY <1>1, LogSame DEF ProgInv
<1> QED
  BY <1>1, <1>2, <1>3, <1>4, <1>5, <1>6, <1>7, SameRegions, Unseen

(* What an operation of one component leaves alone is the same in both.    *)
LEMMA SameButs ==
  /\ Lib!ButBarrier <=> ButBarrier
  /\ Lib!ButCritical <=> ButCritical
  /\ Lib!ButSingle <=> ButSingle
  /\ Lib!ButSections <=> ButSections
  /\ Lib!ButTasks <=> ButTasks
  /\ Lib!ButLocks <=> ButLocks
BY DEF stateVars, barrierVars, criticalVars, singleVars, sectionVars, taskVars, lockVars,
   Lib!stateVars, Lib!barrierVars, Lib!criticalVars, Lib!singleVars, Lib!sectionVars,
   Lib!taskVars, Lib!lockVars, ButBarrier, ButCritical, ButSingle, ButSections, ButTasks, ButLocks,
   Lib!ButBarrier, Lib!ButCritical, Lib!ButSingle, Lib!ButSections, Lib!ButTasks, Lib!ButLocks

(* A member at the beginning of a statement is free to go into it.         *)
LEMMA Begins ==
  ASSUME LooksAtOne, LibInv, ProgInv, NEW op, Doing(op, 0)
  PROVE  /\ Lib!Unencumbered /\ \A i \in Ids : i = cpu => ~Busy(i)
         /\ LibSec[cpu] = Lib!Out
         /\ op \in Meeting => Lib!Meets(op)
<1>1. /\ cpu \in Ids /\ cpu \in Contexts /\ n[cpu] = 0 /\ at[cpu] \in DOMAIN Body
      /\ Body[at[cpu]] = op /\ Follows(Body) /\ At("user") /\ Role = "implicit"
  BY Doer
<1>2. ~Busy(cpu)
  BY <1>1 DEF Busy, InCritical
<1>3. LibSec[cpu] = Lib!Out
  BY <1>1 DEF LibSec, AtSections, Lib!Out
<1>4. op \in Meeting => LibStep[cpu] \in DOMAIN Constructs /\ Constructs[LibStep[cpu]] = op
  BY <1>1 DEF LibStep, Follows
<1> QED
  BY <1>1, <1>2, <1>3, <1>4, NotBusyFree, SameOps DEF Lib!Meets, Lib!Places

(* #pragma omp barrier                                                     *)
LEMMA BarrierSteps ==
  ASSUME LooksAtOne, LibInv, ProgInv, Barrier
  PROVE  Lib!UserBarrier
<1>1. Doing("barrier", 0) /\ BarrierEnter /\ Done /\ ButBarrier /\ UNCHANGED dataVars
  BY DEF Barrier
<1>2. cpu \in Ids /\ cpu # Main /\ n[cpu] = 0 /\ Lib!Meets("barrier")
  BY <1>1, Doer, Begins DEF Meeting
<1>3. LibStep' = [LibStep EXCEPT ![cpu] = @ + 1]
  BY <1>1, DoneSteps DEF Done, Meeting
<1>4. n' = n /\ region' = region /\ sec' = sec /\ log' = log
  BY <1>1, <1>2 DEF Done, ProgInv, dataVars
<1>5. num' = num /\ pc'[Main] = pc[Main]
  BY <1>1, <1>2 DEF BarrierEnter, Goto, ButBarrier, stateVars
<1>6. LibInCrit' = LibInCrit /\ LibHeld' = LibHeld /\ LibSec' = LibSec /\ LibFuel' = LibFuel
  BY <1>4, <1>5, SameHands, SameSections DEF AtSections, LibFuel
<1>7. LibWins' = LibWins /\ LibRan' = LibRan /\ LibRegions' = LibRegions
  BY <1>4, <1>5, LogSame, SameRegions DEF ProgInv
<1>8. Lib!BarrierEnter /\ Lib!ButBarrier
  BY <1>1, SameOps, SameButs
<1> QED
  BY <1>2, <1>3, <1>6, <1>7, <1>8 DEF Lib!UserBarrier, Lib!NextStep

(* main() begins or ends a wait for its region by no other step.           *)
LEMMA NoJoin ==
  ASSUME LooksAtOne, LibInv,
         pc' = pc \/ \E s, l : At(l) /\ Goto(s) /\ s # "join" /\ l # "join"
  PROVE  pc'[Main] = "join" <=> pc[Main] = "join"
<1>1. ASSUME NEW s, NEW l, At(l) /\ Goto(s) /\ s # "join" /\ l # "join"
      PROVE  pc'[Main] = "join" <=> pc[Main] = "join"
  BY <1>1, LibFacts DEF At, Goto
<1> QED
  BY <1>1

(* A step of the library that no program notices.                          *)
LEMMA Unnoticed ==
  ASSUME LooksAtOne, ProgInv, UNCHANGED programVars, num' = num,
         pc'[Main] = "join" <=> pc[Main] = "join"
  PROVE  UNCHANGED Lib!clientVars
<1>1. at' = at /\ n' = n /\ sec' = sec /\ log' = log /\ region' = region
  BY DEF programVars, memberVars, dataVars
<1>2. LibStep' = LibStep /\ LibFuel' = LibFuel
  BY <1>1 DEF LibStep, LibFuel
<1>3. LibInCrit' = LibInCrit /\ LibHeld' = LibHeld /\ LibSec' = LibSec
  BY <1>1, SameHands, SameSections DEF AtSections
<1>4. LibWins' = LibWins /\ LibRan' = LibRan /\ LibRegions' = LibRegions
  BY <1>1, LogSame, SameRegions DEF ProgInv
<1> QED
  BY <1>2, <1>3, <1>4 DEF Lib!clientVars, Lib!seenVars

(* The steps of GOMP_barrier.                                              *)
LEMMA InBarrierSteps ==
  ASSUME LooksAtOne, LibInv, ProgInv, InBarrier
  PROVE  Lib!InBarrier
<1>1. (BarrierRelease \/ BarrierReturn) /\ ButBarrier /\ UNCHANGED programVars
  BY DEF InBarrier
<1>2. UNCHANGED Lib!clientVars
  BY <1>1, NoJoin, Unnoticed DEF BarrierRelease, BarrierReturn, ButBarrier, stateVars
<1> QED
  BY <1>1, <1>2, SameOps, SameButs DEF Lib!InBarrier

(* Boot and the background loop do nothing to main() in its wait.          *)
LEMMA Boots ==
  ASSUME LooksAtOne, LibInv, Boot
  PROVE  num' = num /\ kind' = kind /\ cpu = Bg /\ (pc'[Main] = "join" <=> pc[Main] = "join")
<1>1. num' = num /\ kind' = kind
  BY DEF Boot, SpawnWorker, SpawnMain, Background, Halt, libraryVars, stateVars, taskVars
<1>2. cpu = Bg
  BY LibFacts DEF Boot, SpawnWorker, SpawnMain, Background, Halt, At, Contexts
<1>3. pc'[Main] = "join" <=> pc[Main] = "join"
  <2>1. CASE SpawnWorker
    <3>1. Unborn # {} => Min(Unborn) \in Ids
      BY Lib!MinUnborn, LibAssumptions, GompAssumption, TasksAssumption, LocksAssumption
         DEF Unborn, Min, Lib!Unborn, Lib!Min, Lib!Contexts, Lib!Ids, Lib!AllLocks,
             Lib!FreeOps, Lib!Endless, Contexts, Ids, AllLocks
    <3> QED
      BY <2>1, <3>1, LibFacts DEF SpawnWorker
  <2>2. CASE SpawnMain
    BY <2>2, LibFacts, GompAssumption DEF SpawnMain, At, Contexts
  <2>3. CASE Background \/ Halt
    BY <2>3, LibFacts, GompAssumption DEF Background, Halt, At, Goto
  <2> QED
    BY <2>1, <2>2, <2>3 DEF Boot
<1> QED
  BY <1>1, <1>2, <1>3

(* Boot and the background loop.                                           *)
LEMMA SystemSteps ==
  ASSUME LooksAtOne, LibInv, ProgInv, System
  PROVE  Lib!System \/ UNCHANGED Lib!vars
<1>1. CASE At("halt") /\ UNCHANGED vars
  <2>1. UNCHANGED systemVars /\ UNCHANGED programVars
    BY <1>1 DEF vars
  <2>2. pc' = pc /\ num' = num
    BY <2>1 DEF systemVars, libraryVars, stateVars
  <2>3. UNCHANGED Lib!clientVars
    BY <2>1, <2>2, NoJoin, Unnoticed
  <2>4. /\ LibStep' = LibStep /\ LibInCrit' = LibInCrit /\ LibHeld' = LibHeld /\ LibSec' = LibSec
        /\ LibWins' = LibWins /\ LibRan' = LibRan /\ LibRegions' = LibRegions
    BY <2>3 DEF Lib!clientVars, Lib!seenVars
  <2> QED
    BY <2>1, <2>4, Unseen
<1>2. CASE Boot /\ UNCHANGED programVars
  BY <1>2, Boots, Unnoticed, SameOps DEF Lib!System
<1> QED
  BY <1>1, <1>2 DEF System

(* What a program without them does not change.                            *)
LEMMA OtherPrograms ==
  /\ ~Is({"omp9"}) => LibHeld' = LibHeld
  /\ ~Is({"omp3", "omp5"}) => LibInCrit' = LibInCrit
  /\ ~Is({"omp8"}) => LibSec' = LibSec
BY DEF Is, LibHeld, HasBucket, LibInCrit, InCritical, LibSec, AtSections

(* Nobody waits for the mutex, since nobody yields who has it.             *)
LEMMA EnterSteps ==
  ASSUME LooksAtOne, LibInv, ProgInv, EnterCritical
  PROVE  Lib!UserCritical /\ pc' = pc /\ cpu' = cpu
<1>1. PICK op \in {"critical", "reduction"} : Doing(op, 0)
  BY DEF EnterCritical
<1>2. CriticalStart /\ PartDone /\ ButCritical /\ UNCHANGED dataVars
  BY DEF EnterCritical
<1>3. /\ cpu \in Ids /\ cpu \in Contexts /\ n[cpu] = 0 /\ pc[cpu] = "user" /\ Role = "implicit"
      /\ At("user") /\ n \in [Ids -> Nat]
  BY <1>1, Doer DEF ProgInv
<1>4. Is({"omp3", "omp5"}) /\ ~Is({"omp9"}) /\ ~Is({"omp8"})
  BY <1>1, Doer, Owners DEF Owns, Is
<1>5. LibInCrit = {} /\ ~mutex[team]
  <2>1. \A i \in Ids : ~InCritical(i)
    BY <1>3 DEF ProgInv, Busy, InCritical
  <2> QED
    BY <2>1, LibFacts DEF LibInCrit
<1>6. TakeMutex /\ mindex' = mindex
  BY <1>2, <1>5 DEF CriticalStart, TestMutex
<1>7. pc' = pc /\ cpu' = cpu
  BY <1>3, <1>6, LibFacts DEF TakeMutex, Goto, threadVars
<1>8. LibInCrit' = {cpu}
  BY <1>2, <1>3, <1>4, <1>5 DEF PartDone, LibInCrit, InCritical
<1>9. at' = at /\ sec' = sec /\ region' = region /\ log' = log
  BY <1>2 DEF PartDone, dataVars
<1>10. LibStep' = LibStep /\ LibHeld' = LibHeld /\ LibSec' = LibSec
  BY <1>4, <1>9, OtherPrograms DEF LibStep
<1>11. LibWins' = LibWins /\ LibRan' = LibRan /\ LibRegions' = LibRegions
  BY <1>7, <1>9, LogSame, SameRegions DEF ProgInv
<1>12. Lib!Spend("critical")
  <2>1. LibFuel[cpu] = -1 /\ LibFuel' = [LibFuel EXCEPT ![cpu] = -1]
    BY <1>3 DEF LibFuel
  <2> QED
    BY <1>3, <2>1, SameOps DEF Lib!Spend, Lib!OpsOf, Lib!Endless
<1>13. Lib!NowInCrit
  BY <1>3, <1>5, <1>7, <1>8 DEF Lib!NowInCrit
<1> QED
  BY <1>1, <1>2, <1>7, <1>10, <1>11, <1>12, <1>13, Begins, SameOps, SameButs
     DEF Lib!UserCritical, Lib!seenVars

(* The end of a critical construct.                                        *)
LEMMA LeaveSteps ==
  ASSUME LooksAtOne, LibInv, ProgInv, LeaveCritical
  PROVE  Lib!UserEndCritical /\ pc' = pc
<1>1. PICK op \in {"critical", "reduction"} : Doing(op, 1)
  BY DEF LeaveCritical
<1>2. CriticalEnd /\ Done /\ ButCritical /\ log' = log
  BY DEF LeaveCritical
<1>3. cpu \in Ids /\ n[cpu] = 1 /\ n \in [Ids -> Nat]
  BY <1>1, Doer DEF ProgInv
<1>4. Is({"omp3", "omp5"}) /\ ~Is({"omp9"}) /\ ~Is({"omp8"})
  BY <1>1, Doer, Owners DEF Owns, Is
<1>5. cpu \in LibInCrit /\ LibInCrit' = LibInCrit \ {cpu}
  BY <1>2, <1>3, <1>4 DEF Done, LibInCrit, InCritical
<1>6. LibStep' = LibStep
  BY <1>1, <1>2, DoneSteps DEF Done, Meeting
<1>7. LibHeld' = LibHeld /\ LibSec' = LibSec /\ LibFuel' = LibFuel
  BY <1>4, OtherPrograms DEF LibFuel
<1>8. pc' = pc /\ region' = region
  BY <1>2 DEF Done, CriticalEnd
<1>9. LibWins' = LibWins /\ LibRan' = LibRan /\ LibRegions' = LibRegions
  BY <1>2, <1>8, LogSame, SameRegions DEF ProgInv
<1> QED
  BY <1>2, <1>5, <1>6, <1>7, <1>8, <1>9, SameOps, SameButs DEF Lib!UserEndCritical, Lib!seenVars

(* Who wins a single construct says so.                                    *)
LEMMA SingleSteps ==
  ASSUME LooksAtOne, LibInv, ProgInv, Single
  PROVE  Lib!UserSingle
<1>1. Doing("single", 0) /\ SingleStart /\ Done /\ ButSingle
  BY DEF Single
<1>2. /\ cpu \in Ids /\ cpu # Main /\ n[cpu] = 0 /\ at[cpu] \in DOMAIN Body
      /\ Body[at[cpu]] = "single" /\ Lib!Meets("single")
  BY <1>1, Doer, Begins DEF Meeting
<1>3. Is({"omp7"}) /\ ~Is({"omp9"}) /\ ~Is({"omp8"}) /\ ~Is({"omp3", "omp5"})
  BY <1>1, Doer, Owners DEF Owns, Is
<1>4. /\ LibStep' = [LibStep EXCEPT ![cpu] = @ + 1]
      /\ LibStep[cpu] \in DOMAIN Constructs /\ Constructs[LibStep[cpu]] = "single"
  BY <1>1, DoneSteps DEF Done, Meeting
<1>5. LibInCrit' = LibInCrit /\ LibHeld' = LibHeld /\ LibSec' = LibSec /\ LibFuel' = LibFuel
  BY <1>3, OtherPrograms DEF LibFuel
<1>6. region' = region /\ pc' = pc
  BY <1>1 DEF Done, SingleStart
<1>7. /\ LibRegions' = LibRegions /\ LibRan' = LibRan
      /\ LibWins' = IF SingleWins THEN [LibWins EXCEPT ![LibStep[cpu]] = @ + 1] ELSE LibWins
  <2>1. LibRegions' = LibRegions
    BY <1>6, SameRegions
  <2>2. CASE ~SingleWins
    <3>1. log' = log
      BY <2>2 DEF Single, NoOutput
    <3> QED
      BY <2>1, <2>2, <3>1, LogSame DEF ProgInv
  <2>3. CASE SingleWins
    <3>1. log' = Append(log, <<"single", 0, Me>>) /\ log \in Seq(Range(log))
      BY <2>3 DEF Single, Says, ProgInv
    <3>2. /\ Cardinality(Prints("single"))' = Cardinality(Prints("single")) + 1
          /\ \A t : Cardinality(PrintsIn("begin", t))' = Cardinality(PrintsIn("begin", t)) + 0
          /\ \A t : PrintsIn("begin", t)' = PrintsIn("begin", t)
      BY <3>1, PrintsGrow
    <3>3. Constructs = <<"barrier", "single", "barrier">>
      BY <1>3 DEF Constructs, Is
    <3>4. LibStep[cpu] = 2
      BY <1>4, <3>3
    <3>5. LibWins' = [LibWins EXCEPT ![2] = @ + 1]
      <4>1. LibWins = [k \in 1 .. 3 |-> IF k = 2 THEN Cardinality(Prints("single")) ELSE 0]
        BY <3>3 DEF LibWins
      <4>2. LibWins' = [k \in 1 .. 3 |-> IF k = 2 THEN Cardinality(Prints("single")) + 1 ELSE 0]
        BY <3>2, <3>3 DEF LibWins
      <4> QED
        BY <4>1, <4>2
    <3>6. LibRan' = LibRan
      BY <3>2 DEF LibRan
    <3> QED
      BY <2>1, <2>3, <3>4, <3>5, <3>6
  <2> QED
    BY <2>2, <2>3
<1> QED
  BY <1>1, <1>2, <1>4, <1>5, <1>7, SameOps, SameButs DEF Lib!UserSingle, Lib!NextStep

(* A member yields.                                                        *)
LEMMA SpinSteps ==
  ASSUME LooksAtOne, LibInv, ProgInv, Spin \/ SpinInSection
  PROVE  (Lib!UserYield /\ pc' = pc) \/ UNCHANGED Lib!vars
<1>1. PICK op, k : /\ op \in {"spin", "sections"} /\ Doing(op, k)
                   /\ op = "sections" => k > 0
  BY DEF Spin, SpinInSection, InSection
<1>2. /\ cpu \in Ids /\ cpu \in Contexts /\ Role = "implicit" /\ At("user")
      /\ n[cpu] = k /\ k \in Nat /\ n \in [Ids -> Nat]
  BY <1>1, Doer DEF ProgInv
<1>3. ~Is({"omp9"}) /\ ~Is({"omp3", "omp5"}) /\ (op = "spin" => ~Is({"omp8"}))
  BY <1>1, Doer, Owners DEF Owns, Is
<1>4. LibHeld' = LibHeld /\ LibInCrit' = LibInCrit /\ LibFuel' = LibFuel
  BY <1>3, OtherPrograms DEF LibFuel
<1>5. pc' = pc /\ UNCHANGED libraryVars /\ log' = log /\ region' = region /\ sec' = sec
  BY DEF Spin, SpinInSection, PartDone, Done, dataVars
<1>6. LibWins' = LibWins /\ LibRan' = LibRan /\ LibRegions' = LibRegions
  BY <1>5, LogSame, SameRegions DEF ProgInv
<1>7. CASE Yield /\ PartDone
  <2>1. at' = at /\ n' = [n EXCEPT ![cpu] = @ + 1]
    BY <1>7 DEF PartDone
  <2>2. LibStep' = LibStep
    BY <2>1 DEF LibStep
  <2>3. LibSec' = LibSec
    <3>1. CASE op = "spin"
      BY <1>3, <3>1, OtherPrograms
    <3>2. CASE op = "sections"
      <4>1. \A i \in Ids : n'[i] > 0 <=> n[i] > 0
        BY <1>1, <1>2, <2>1, <3>2
      <4>2. \A i \in Ids : AtSections(i)' <=> AtSections(i)
        BY <4>1 DEF AtSections, Is
      <4> QED
        BY <1>5, <4>2, SameSections
    <3> QED
      BY <1>1, <3>1, <3>2
  <2>4. Lib!Spend("yield")
    <3>1. LibFuel[cpu] = -1 /\ LibFuel' = [LibFuel EXCEPT ![cpu] = -1]
      BY <1>2 DEF LibFuel
    <3> QED
      BY <1>2, <3>1, SameOps DEF Lib!Spend, Lib!OpsOf, Lib!Endless
  <2>5. UNCHANGED Lib!libraryVars
    BY <1>5 DEF libraryVars, stateVars, barrierVars, criticalVars, singleVars, sectionVars,
       taskVars, lockVars, Lib!libraryVars, Lib!stateVars, Lib!barrierVars, Lib!criticalVars,
       Lib!singleVars, Lib!sectionVars, Lib!taskVars, Lib!lockVars
  <2> QED
    BY <1>4, <1>5, <1>6, <1>7, <2>2, <2>3, <2>4, <2>5, SameOps DEF Lib!UserYield, Lib!seenVars
<1>8. CASE Spin /\ Done /\ UNCHANGED threadVars
  <2>1. Doing("spin", n[cpu])
    BY <1>8 DEF Spin
  <2>2. LibStep' = LibStep
    BY <1>8, <2>1, DoneSteps DEF Done, Meeting
  <2>3. LibSec' = LibSec
    BY <2>1, Doer, Owners, OtherPrograms DEF Owns, Is
  <2> QED
    BY <1>4, <1>5, <1>6, <1>8, <2>2, <2>3, Unseen DEF systemVars
<1> QED
  BY <1>7, <1>8 DEF Spin, SpinInSection

(* A member goes to a section, or out of the construct.                    *)
LEMMA SectionMoves ==
  ASSUME Is({"omp8"}), cpu \in Ids, n'[cpu] > 0,
         \A i \in Ids : i # cpu => sec'[i] = sec[i] /\ n'[i] = n[i]
  PROVE  LibSec' = [LibSec EXCEPT ![cpu] = sec'[cpu]]
<1>1. /\ DOMAIN LibSec = Ids /\ LibSec' = [i \in Ids |-> LibSec'[i]]
      /\ \A i \in Ids : LibSec[i] = IF n[i] > 0 THEN sec[i] ELSE -1
      /\ \A i \in Ids : LibSec'[i] = IF n'[i] > 0 THEN sec'[i] ELSE -1
  BY DEF LibSec, AtSections
<1>2. \A i \in Ids : LibSec'[i] = [LibSec EXCEPT ![cpu] = sec'[cpu]][i]
  BY <1>1
<1> QED
  BY <1>1, <1>2

(* A member that leaves its section has none. *)
LEMMA SectionLeft ==
  ASSUME Is({"omp8"}), cpu \in Ids, n'[cpu] = 0,
         \A i \in Ids : i # cpu => sec'[i] = sec[i] /\ n'[i] = n[i]
  PROVE  LibSec' = [LibSec EXCEPT ![cpu] = -1]
<1>1. /\ DOMAIN LibSec = Ids /\ LibSec' = [i \in Ids |-> LibSec'[i]]
      /\ \A i \in Ids : LibSec[i] = IF n[i] > 0 THEN sec[i] ELSE -1
      /\ \A i \in Ids : LibSec'[i] = IF n'[i] > 0 THEN sec'[i] ELSE -1
  BY DEF LibSec, AtSections
<1>2. \A i \in Ids : LibSec'[i] = [LibSec EXCEPT ![cpu] = -1][i]
  BY <1>1
<1> QED
  BY <1>1, <1>2

(* The library gives a member a section, or none.                          *)
LEMMA SectionSteps ==
  ASSUME LooksAtOne, LibInv, ProgInv, NEW k, Doing("sections", k), NEW s, BeginSection(s), pc' = pc
  PROVE  Lib!GoToSection(s)
<1>1. /\ cpu \in Ids /\ n \in [Ids -> Nat] /\ sec = [i \in Ids |-> sec[i]]
      /\ at[cpu] \in DOMAIN Body /\ Body[at[cpu]] = "sections" /\ Follows(Body)
  BY Doer DEF ProgInv
<1>2. Is({"omp8"}) /\ ~Is({"omp9"}) /\ ~Is({"omp3", "omp5"})
  BY Doer, Owners DEF Owns, Is
<1>3. LibHeld' = LibHeld /\ LibInCrit' = LibInCrit /\ LibFuel' = LibFuel
  BY <1>2, OtherPrograms DEF LibFuel
<1>4. /\ sec' = [sec EXCEPT ![cpu] = s] /\ n' = [n EXCEPT ![cpu] = 1]
      /\ at' = at /\ region' = region /\ ButSections
      /\ IF s = 0 THEN log' = log ELSE log' = Append(log, <<"begin", s, Me>>)
  BY DEF BeginSection, NoOutput, Says
<1>5. LibStep' = LibStep /\ LibRegions' = LibRegions
  BY <1>4, SameRegions DEF LibStep
<1>6. LibSec' = [LibSec EXCEPT ![cpu] = s]
  <2>1. /\ sec'[cpu] = s /\ n'[cpu] > 0
        /\ \A i \in Ids : i # cpu => sec'[i] = sec[i] /\ n'[i] = n[i]
    BY <1>1, <1>4
  <2> QED
    BY <1>1, <1>2, <2>1, SectionMoves
<1>7. Constructs = <<"sections">> /\ LibStep[cpu] = 1
  <2>1. Constructs = <<"sections">>
    BY <1>2 DEF Constructs, Is
  <2>2. LibStep[cpu] \in DOMAIN Constructs
    BY <1>1 DEF LibStep, Follows, Meeting
  <2> QED
    BY <2>1, <2>2
<1>8. LibWins' = LibWins /\ LibRan' = IF s = 0 THEN LibRan ELSE [LibRan EXCEPT ![1][s] = @ + 1]
  <2>1. CASE s = 0
    BY <1>4, <2>1, LogSame DEF ProgInv
  <2>2. CASE s # 0
    <3>1. /\ \A w : Prints(w)' = IF w = "begin" THEN Prints(w) \cup {Len(log) + 1} ELSE Prints(w)
          /\ \A t : Cardinality(PrintsIn("begin", t))' =
                      Cardinality(PrintsIn("begin", t)) + IF t = s THEN 1 ELSE 0
      BY <1>4, <2>2, PrintsGrow DEF ProgInv
    <3>2. Prints("single")' = Prints("single")
      BY <3>1
    <3>3. PICK R : R = [t \in 1 .. SectionsOf |-> Cardinality(PrintsIn("begin", t))]
      OBVIOUS
    <3>4. DOMAIN Constructs = {1}
      BY <1>7
    <3>5. LibRan = [x \in {1} |-> R]
      BY <3>3, <3>4 DEF LibRan
    <3>6. [t \in 1 .. SectionsOf |-> Cardinality(PrintsIn("begin", t))'] = [R EXCEPT ![s] = @ + 1]
      <4>1. \A t \in 1 .. SectionsOf :
               Cardinality(PrintsIn("begin", t))' = [R EXCEPT ![s] = @ + 1][t]
        <5> TAKE t \in 1 .. SectionsOf
        <5>1. Cardinality(PrintsIn("begin", t)) \in Nat
          BY PlacesCount DEF ProgInv, PrintsIn, Prints
        <5> QED
          BY <3>1, <3>3, <5>1
      <4> QED
        BY <3>3, <4>1
    <3>7. LibRan' = [x \in {1} |-> [R EXCEPT ![s] = @ + 1]]
      BY <3>4, <3>6 DEF LibRan
    <3>8. LibRan[1] = R
      BY <3>5
    <3>9. LibRan' = [LibRan EXCEPT ![1][s] = @ + 1]
      <4>1. LibRan' = [LibRan EXCEPT ![1] = [R EXCEPT ![s] = @ + 1]]
        BY <3>5, <3>7
      <4> QED
        BY <3>8, <4>1
    <3> QED
      BY <2>2, <3>2, <3>9 DEF LibWins
  <2> QED
    BY <2>1, <2>2
<1> QED
  BY <1>3, <1>4, <1>5, <1>6, <1>7, <1>8, SameButs DEF Lib!GoToSection

(* GOMP_sections_start and _next.                                          *)
LEMMA GetSteps ==
  ASSUME LooksAtOne, LibInv, ProgInv, StartSections \/ GetSection
  PROVE  (Lib!UserSections \/ Lib!UserNextSection) /\ pc' = pc
<1>1. CASE StartSections
  <2> DEFINE s == NextSection(SectionFrom, SectionsFor(NumSections))
  <2>1. Doing("sections", 0) /\ SectionsStart(NumSections) /\ BeginSection(s) /\ pc' = pc
    BY <1>1 DEF StartSections, SectionsStart
  <2>2. Lib!GoToSection(s) /\ Lib!Meets("sections")
    BY <2>1, SectionSteps, Begins DEF Meeting
  <2>3. NumSections = SectionsOf
    BY <2>1, Doer, Owners DEF Owns, NumSections, SectionsOf
  <2> QED
    BY <2>1, <2>2, <2>3, SameOps DEF Lib!UserSections
<1>2. CASE GetSection
  <2> DEFINE s == NextSection(section[team], sections[team])
  <2>1. Doing("sections", n[cpu]) /\ n[cpu] > 0 /\ sec[cpu] > 0 /\ SectionsNext /\ BeginSection(s)
        /\ pc' = pc
    BY <1>2 DEF GetSection, InSection, SectionsNext
  <2>2. Lib!GoToSection(s)
    BY <2>1, SectionSteps
  <2>3. cpu \in Ids /\ cpu \in Contexts /\ Role = "implicit" /\ Is({"omp8"})
    BY <2>1, Doer, Owners DEF Owns
  <2>4. Lib!Unencumbered
    BY <2>3, NotBusyFree DEF Busy, InCritical, Is
  <2>5. LibSec[cpu] > 0
    BY <2>1, <2>3 DEF LibSec, AtSections
  <2> QED
    BY <2>1, <2>2, <2>3, <2>4, <2>5, SameOps DEF Lib!UserNextSection
<1> QED
  BY <1>1, <1>2

(* stuff() returns.                                                        *)
LEMMA EndSectionSteps ==
  ASSUME LooksAtOne, LibInv, ProgInv, EndSection
  PROVE  UNCHANGED Lib!vars
<1>1. /\ Doing("sections", n[cpu]) /\ n[cpu] > 0 /\ Says("end", sec[cpu])
      /\ PartDone /\ UNCHANGED systemVars
  BY DEF EndSection, InSection
<1>2. cpu \in Ids /\ n \in [Ids -> Nat] /\ ~Is({"omp9"}) /\ ~Is({"omp3", "omp5"})
  <2>1. cpu \in Ids /\ n \in [Ids -> Nat]
    BY <1>1, Doer DEF ProgInv
  <2>2. Is({"omp8"})
    BY <1>1, Doer, Owners DEF Owns
  <2> QED
    BY <2>1, <2>2 DEF Is
<1>3. LibHeld' = LibHeld /\ LibInCrit' = LibInCrit
  BY <1>2, OtherPrograms
<1>4. /\ at' = at /\ sec' = sec /\ region' = region /\ n' = [n EXCEPT ![cpu] = @ + 1]
      /\ pc' = pc
  BY <1>1 DEF PartDone, systemVars
<1>5. \A i \in Ids : n'[i] > 0 <=> n[i] > 0
  BY <1>1, <1>2, <1>4
<1>6. LibSec' = LibSec
  BY <1>4, <1>5, SameSections DEF AtSections
<1>7. LibStep' = LibStep /\ LibWins' = LibWins /\ LibRan' = LibRan /\ LibRegions' = LibRegions
  BY <1>1, <1>4, LogSame, SameRegions DEF ProgInv, LibStep
<1> QED
  BY <1>1, <1>3, <1>6, <1>7, Unseen

(* GOMP_sections_end.                                                      *)
LEMMA EndSectionsSteps ==
  ASSUME LooksAtOne, LibInv, ProgInv, EndSections
  PROVE  Lib!UserEndSections
<1>1. /\ Doing("sections", 1) /\ sec[cpu] = 0 /\ SectionsEnd /\ Done
      /\ UNCHANGED <<stateVars, criticalVars, singleVars, taskVars, lockVars, dataVars>>
  BY DEF EndSections
<1>2. /\ cpu \in Ids /\ cpu \in Contexts /\ cpu # Main /\ n \in [Ids -> Nat] /\ n[cpu] = 1
      /\ Role = "implicit" /\ sec = [i \in Ids |-> sec[i]]
  BY <1>1, Doer DEF ProgInv
<1>3. Is({"omp8"}) /\ ~Is({"omp9"}) /\ ~Is({"omp3", "omp5"})
  BY <1>1, Doer, Owners DEF Owns, Is
<1>4. LibHeld' = LibHeld /\ LibInCrit' = LibInCrit /\ LibFuel' = LibFuel
  BY <1>3, OtherPrograms DEF LibFuel
<1>5. LibStep' = [LibStep EXCEPT ![cpu] = @ + 1]
  BY <1>1, DoneSteps DEF Done, Meeting
<1>6. n' = [n EXCEPT ![cpu] = 0] /\ region' = region /\ sec' = sec /\ log' = log
  BY <1>1 DEF Done, dataVars
<1>7. LibSec[cpu] = 0 /\ LibSec' = [LibSec EXCEPT ![cpu] = -1]
  <2>1. LibSec[cpu] = 0
    BY <1>1, <1>2, <1>3 DEF LibSec, AtSections
  <2>2. n'[cpu] = 0 /\ \A i \in Ids : i # cpu => sec'[i] = sec[i] /\ n'[i] = n[i]
    BY <1>2, <1>6
  <2> QED
    BY <1>2, <1>3, <2>1, <2>2, SectionLeft
<1>8. pc'[Main] = pc[Main]
  BY <1>1, <1>2 DEF SectionsEnd, BarrierEnter, Goto
<1>9. LibWins' = LibWins /\ LibRan' = LibRan /\ LibRegions' = LibRegions
  BY <1>6, <1>8, LogSame, SameRegions DEF ProgInv
<1>10. Lib!Unencumbered
  BY <1>2, <1>3, NotBusyFree DEF Busy, InCritical
<1>11. UNCHANGED <<Lib!stateVars, Lib!criticalVars, Lib!singleVars, Lib!taskVars, Lib!lockVars>>
  BY <1>1 DEF stateVars, criticalVars, singleVars, taskVars, lockVars,
     Lib!stateVars, Lib!criticalVars, Lib!singleVars, Lib!taskVars, Lib!lockVars
<1> QED
  BY <1>1, <1>2, <1>4, <1>5, <1>7, <1>9, <1>10, <1>11, SameOps
     DEF Lib!UserEndSections, Lib!NextStep, Lib!Out

-----------------------------------------------------------------------------
(* The iterations a static schedule gives member i: some in a row, all of  *)
(* them of the loop.                                                       *)
LEMMA ShareFacts ==
  ASSUME NEW total \in Nat, num \in Nat \ {0}, NEW i \in TeamIds
  PROVE  /\ Cardinality(ShareOf(i, total)) \in Nat
         /\ \A k \in Nat : k < Cardinality(ShareOf(i, total)) =>
              Min(ShareOf(i, total)) + k \in 0 .. total - 1
<1> DEFINE q == total \div num
           r == total % num
           first == q * i + IF i < r THEN i ELSE r
           last == first + q - 1 + IF i < r THEN 1 ELSE 0
<1>1. q \in Nat /\ r \in 0 .. num - 1 /\ total = q * num + r /\ i \in Nat /\ i + 1 <= num
  BY DEF TeamIds
<1> HIDE DEF q, r
<1>2. q * i \in Nat /\ q * num \in Nat /\ q * i + q <= q * num
  <2>1. \A a, b, c \in Nat : a + 1 <= b => c * a \in Nat /\ c * b \in Nat /\ c * a + c <= c * b
    OBVIOUS
  <2> QED
    BY <1>1, <2>1
<1>3. first \in Nat /\ last \in Int /\ last <= total - 1 /\ last - first + 1 \in Nat
  <2> DEFINE x == q * i
             y == q * num
  <2>1. x \in Nat /\ y \in Nat /\ x + q <= y /\ total = y + r
    BY <1>1, <1>2
  <2> HIDE DEF x, y
  <2>2. first = x + IF i < r THEN i ELSE r
    BY DEF x
  <2>3. CASE i < r
    BY <1>1, <2>1, <2>2, <2>3
  <2>4. CASE ~(i < r)
    BY <1>1, <2>1, <2>2, <2>4
  <2> QED
    BY <2>3, <2>4
<1>4. ShareOf(i, total) = first .. last
  BY DEF ShareOf, q, r
<1> HIDE DEF first, last
<1>5. Cardinality(first .. last) = IF first > last THEN 0 ELSE last - first + 1
  BY <1>3, FS_Interval
<1>6. ASSUME NEW k \in Nat, k < Cardinality(first .. last)
      PROVE  Min(first .. last) + k \in 0 .. total - 1
  <2>1. first <= last /\ k < last - first + 1
    BY <1>3, <1>5, <1>6
  <2>2. Min(first .. last) = first
    BY <1>3, <2>1 DEF Min
  <2> QED
    BY <1>3, <2>1, <2>2
<1>7. Cardinality(first .. last) \in Nat
  BY <1>3, <1>5
<1> QED
  BY <1>4, <1>6, <1>7

(* When a member is at no sample, no lock of a bucket is set.              *)
LEMMA LocksFree ==
  ASSUME LooksAtOne, LibInv, ProgInv, \A i \in Ids : i = cpu => ~Busy(i)
  PROVE  /\ \A l \in Locks : lock[l] = 0
         /\ lock = [l \in Locks |-> 0]
<1>1. \A i \in Ids : ~Busy(i)
  BY DEF ProgInv
<1>2. \A i \in Ids : \A l : ~HasBucket(i, l)
  BY <1>1 DEF Busy, HasBucket
<1>3. \A c \in Contexts, l \in Locks : LibHeld[c][l] = 0
  BY <1>2 DEF LibHeld, AllLocks
<1>4. \A l \in Locks : lock[l] = 0
  BY <1>3, LibFacts
<1> QED
  BY <1>4, LibFacts

(* A member of omp9's second region.                                       *)
LEMMA Sampler ==
  ASSUME LooksAtOne, LibInv, ProgInv, NEW k, Doing("count", k)
  PROVE  /\ Is({"omp9"}) /\ ~Is({"omp8"}) /\ ~Is({"omp3", "omp5"})
         /\ cpu \in Ids /\ cpu \in Contexts /\ n \in [Ids -> Nat] /\ n[cpu] = k
         /\ Role = "implicit" /\ At("user") /\ pc[cpu] = "user" /\ Body[at[cpu]] = "count"
         /\ Turns \in Nat /\ Index = BucketOf(cpu)
         /\ n[cpu] < 2 * Turns => Index \in Nat
         /\ \E m \in Nat : Locks = 0 .. m - 1 /\ NBUCKETS = m
<1>1. Is({"omp9"})
  BY Doer, Owners DEF Owns
<1>2. /\ cpu \in Ids /\ cpu \in Contexts /\ n \in [Ids -> Nat] /\ n[cpu] = k /\ Me = cpu
      /\ Role = "implicit" /\ At("user") /\ pc[cpu] = "user" /\ prog = TheProgram
      /\ cpu \in TeamIds /\ Body[at[cpu]] = "count"
  BY Doer DEF ProgInv
<1>3. num \in Nat \ {0}
  BY LibFacts
<1>4. PICK m \in Nat : TheProgram.limit = m /\ TheProgram.index \in [0 .. m - 1 -> Nat]
  BY <1>1, Shapes DEF Shape, Is
<1>5. \A t : Share(t) = ShareOf(cpu, t)
  BY <1>2 DEF Share, ShareOf
<1>6. Turns = Cardinality(ShareOf(cpu, m)) /\ Turns \in Nat
  BY <1>2, <1>3, <1>4, <1>5, ShareFacts DEF Turns
<1>7. Index = BucketOf(cpu)
  BY <1>2, <1>5 DEF Index, BucketOf
<1>8. ASSUME n[cpu] < 2 * Turns PROVE Index \in Nat
  <2>1. n[cpu] \div 2 \in Nat /\ n[cpu] \div 2 < Turns
    BY <1>2, <1>6, <1>8
  <2>2. Min(ShareOf(cpu, m)) + n[cpu] \div 2 \in 0 .. m - 1
    BY <1>2, <1>3, <1>6, <2>1, ShareFacts
  <2> QED
    BY <1>4, <1>7, <2>2 DEF BucketOf
<1>9. \E b \in Nat : Locks = 0 .. b - 1 /\ NBUCKETS = b
  <2>1. PICK b \in Nat : Locks = 0 .. b - 1
    BY DEF LooksAtOne
  <2>2. Cardinality(0 .. b - 1) = IF 0 > b - 1 THEN 0 ELSE b - 1 - 0 + 1
    <3>1. 0 \in Int /\ b - 1 \in Int
      OBVIOUS
    <3> QED
      BY <3>1, FS_Interval, Zenon
  <2> QED
    BY <2>1, <2>2 DEF NBUCKETS
<1> QED
  BY <1>1, <1>2, <1>6, <1>7, <1>8, <1>9 DEF Is

(* A member gets, or gives back, the lock of bucket b.                     *)
LEMMA HeldMoves ==
  ASSUME num' = num, cpu \in Ids, \A i \in Ids : i # cpu => n'[i] = n[i],
         NEW v \in {0, 1}, NEW b \in Locks,
         \A i \in Ids : \A l : i = cpu => /\ HasBucket(i, l) <=> v = 0 /\ l = b
                                          /\ HasBucket(i, l)' <=> v = 1 /\ l = b
  PROVE  /\ LibHeld' = [LibHeld EXCEPT ![cpu][b] = v]
         /\ LibHeld[cpu][b] = 1 - v
<1>1. \A i \in Ids : \A l : i # cpu => (HasBucket(i, l)' <=> HasBucket(i, l))
  BY DEF HasBucket, BucketOf, ShareOf
<1>2. /\ DOMAIN LibHeld = Contexts /\ cpu \in Contexts
      /\ \A c \in Contexts : LibHeld[c] =
           [l \in AllLocks |-> IF c \in Ids /\ HasBucket(c, l) THEN 1 ELSE 0]
      /\ \A c \in Contexts : LibHeld'[c] =
           [l \in AllLocks |-> IF c \in Ids /\ HasBucket(c, l)' THEN 1 ELSE 0]
      /\ LibHeld' = [c \in Contexts |-> LibHeld'[c]]
  BY DEF LibHeld, Contexts
<1>3. \A c \in Contexts : c # cpu => LibHeld'[c] = LibHeld[c]
  BY <1>1, <1>2
<1>4. LibHeld[cpu] = [l \in AllLocks |-> IF v = 0 /\ l = b THEN 1 ELSE 0]
  BY <1>2
<1>5. LibHeld'[cpu] = [l \in AllLocks |-> IF v = 1 /\ l = b THEN 1 ELSE 0]
  BY <1>2
<1>6. LibHeld'[cpu] = [LibHeld[cpu] EXCEPT ![b] = v]
  BY <1>4, <1>5
<1>7. LibHeld' = [LibHeld EXCEPT ![cpu] = [LibHeld[cpu] EXCEPT ![b] = v]]
  BY <1>2, <1>3, <1>6
<1>8. LibHeld[cpu][b] = 1 - v
  BY <1>4 DEF AllLocks
<1> QED
  BY <1>7, <1>8

(* The first loop of omp9 initialises locks that are free, and its second  *)
(* one passes over samples past the last bucket, or ends.                  *)
LEMMA PassSteps ==
  ASSUME LooksAtOne, LibInv, ProgInv, InitLocks \/ SkipSample \/ CountDone
  PROVE  UNCHANGED Lib!vars
<1>1. CASE InitLocks
  <2>1. Doing("init", 0) /\ Done /\ log' = log
    BY <1>1 DEF InitLocks
  <2>2. lock' = lock
    BY <1>1, <2>1, Begins, LocksFree DEF InitLocks
  <2>3. UNCHANGED systemVars
    BY <1>1, <2>2 DEF InitLocks, ButLocks, systemVars, libraryVars, lockVars
  <2>4. n' = n /\ region' = region /\ sec' = sec /\ num' = num /\ pc' = pc
    BY <2>1, <2>3, Doer DEF Done, ProgInv, systemVars, libraryVars, stateVars
  <2>5. LibStep' = LibStep
    BY <2>1, DoneSteps DEF Done, Meeting
  <2> QED
    BY <2>1, <2>3, <2>4, <2>5, SameHands, SameSections, LogSame, SameRegions, Unseen
       DEF AtSections, ProgInv
<1>2. ASSUME NEW k, Doing("count", k), NEW x \in Nat, x % 2 = 0, k % 2 = 0,
             n' = [n EXCEPT ![cpu] = x], UNCHANGED <<systemVars, region, log>>, LibStep' = LibStep
      PROVE  UNCHANGED Lib!vars
  <2>1. num' = num /\ pc' = pc
    BY <1>2 DEF systemVars, libraryVars, stateVars
  <2>2. \A i \in Ids : i = cpu => ~Busy(i) /\ ~Busy(i)'
    BY <1>2, Sampler DEF Busy, InCritical
  <2>3. LibInCrit' = LibInCrit /\ LibHeld' = LibHeld
    BY <1>2, <2>1, <2>2, Sampler, NotBusy
  <2>4. LibSec' = LibSec
    BY <1>2, Sampler, OtherPrograms
  <2> QED
    BY <1>2, <2>1, <2>3, <2>4, LogSame, SameRegions, Unseen DEF ProgInv
<1>3. CASE SkipSample
  <2>1. /\ Doing("count", n[cpu]) /\ n[cpu] % 2 = 0 /\ n' = [n EXCEPT ![cpu] = @ + 2] /\ at' = at
        /\ UNCHANGED <<systemVars, region, log>>
    BY <1>3 DEF SkipSample, Sampling, dataVars
  <2>2. n[cpu] + 2 \in Nat /\ (n[cpu] + 2) % 2 = 0
    BY <2>1, Sampler
  <2>3. LibStep' = LibStep
    BY <2>1 DEF LibStep
  <2> QED
    BY <1>2, <2>1, <2>2, <2>3
<1>4. CASE CountDone
  <2>1. Doing("count", 2 * Turns) /\ Done /\ UNCHANGED <<systemVars, region, log>>
    BY <1>4 DEF CountDone, Done, dataVars
  <2>2. (2 * Turns) % 2 = 0 /\ 0 \in Nat /\ 0 % 2 = 0
    BY <2>1, Sampler
  <2>3. LibStep' = LibStep
    BY <2>1, DoneSteps DEF Done, Meeting
  <2>4. n' = [n EXCEPT ![cpu] = 0]
    BY <2>1 DEF Done
  <2> QED
    BY <1>2, <2>1, <2>2, <2>3, <2>4
<1> QED
  BY <1>1, <1>3, <1>4

(* A bucket is counted up with its lock set, which nobody then waits for.  *)
LEMMA BucketSteps ==
  ASSUME LooksAtOne, LibInv, ProgInv, SetBucket \/ CountSample
  PROVE  Lib!LockOp /\ pc' = pc /\ cpu' = cpu /\ Index \in Locks
<1>1. Doing("count", n[cpu]) /\ n[cpu] < 2 * Turns /\ n[cpu] % 2 \in {0, 1}
  BY DEF SetBucket, CountSample, Sampling
<1>2. PartDone /\ ButLocks /\ log' = log
  BY DEF SetBucket, CountSample, dataVars
<1>3. /\ Is({"omp9"}) /\ ~Is({"omp8"}) /\ ~Is({"omp3", "omp5"})
      /\ cpu \in Ids /\ cpu \in Contexts /\ n \in [Ids -> Nat] /\ pc[cpu] = "user"
      /\ Role = "implicit" /\ At("user") /\ Index = BucketOf(cpu)
  BY <1>1, Sampler
<1>4. /\ n' = [n EXCEPT ![cpu] = @ + 1] /\ at' = at /\ region' = region /\ num' = num
      /\ prog' = prog
  BY <1>2 DEF PartDone, ButLocks, stateVars
<1>5. LibStep' = LibStep /\ LibSec' = LibSec /\ LibInCrit' = LibInCrit
  BY <1>3, <1>4, OtherPrograms DEF LibStep
<1>6. LibWins' = LibWins /\ LibRan' = LibRan
  BY <1>2, LogSame DEF ProgInv
<1>7. CASE SetBucket
  <2>1. n[cpu] % 2 = 0 /\ Index < NBUCKETS /\ SetLock(Index)
    BY <1>7 DEF SetBucket, Sampling
  <2>2. Index \in Locks
    BY <1>1, <2>1, Sampler
  <2>3. \A i \in Ids : i = cpu => ~Busy(i)
    BY <1>3, <2>1 DEF Busy, InCritical
  <2>4. lock[Index] = 0
    BY <2>2, <2>3, LocksFree
  <2>5. TakeLock(Index)
    BY <2>1, <2>4 DEF SetLock, PollLock
  <2>6. pc' = pc /\ cpu' = cpu
    BY <1>3, <2>5, LibFacts DEF TakeLock, Goto, threadVars
  <2>7. \A i \in Ids : \A l : i = cpu => /\ HasBucket(i, l) <=> FALSE
                                         /\ HasBucket(i, l)' <=> l = Index
    <3>1. n'[cpu] = n[cpu] + 1 /\ n'[cpu] % 2 = 1 /\ n'[cpu] \div 2 = n[cpu] \div 2
      BY <1>3, <1>4, <2>1
    <3>2. \A i \in Ids : i = cpu => BucketOf(i)' = BucketOf(i)
      BY <1>4, <3>1 DEF BucketOf, ShareOf
    <3>3. \A i \in Ids : i = cpu => BucketOf(i) = Index
      BY <1>3
    <3> QED
      BY <1>3, <2>1, <3>1, <3>2, <3>3 DEF HasBucket
  <2>8. LibHeld' = [LibHeld EXCEPT ![cpu][Index] = 1] /\ LibHeld[cpu][Index] = 0
    BY <1>3, <1>4, <2>2, <2>7, HeldMoves
  <2>9. Lib!Spend("lock")
    <3>1. LibFuel[cpu] = -1 /\ LibFuel' = [LibFuel EXCEPT ![cpu] = -1]
      BY <1>3 DEF LibFuel
    <3> QED
      BY <1>3, <3>1, SameOps DEF Lib!Spend, Lib!OpsOf, Lib!Endless
  <2>10. LibRegions' = LibRegions
    BY <1>4, <2>6, SameRegions
  <2>11. Lib!Unencumbered
    BY <1>3, <2>3, NotBusyFree
  <2>12. Lib!EnteredIfBack(Index)
    BY <1>3, <2>6, <2>8 DEF Lib!EnteredIfBack, Lib!Entered
  <2>13. Lib!UserLock(Index)
    BY <2>1, <2>9, <2>11, <2>12, SameOps DEF Lib!UserLock
  <2> QED
    BY <1>2, <1>5, <1>6, <2>2, <2>6, <2>10, <2>13, SameButs DEF Lib!LockOp, Lib!seenVars
<1>8. CASE CountSample
  <2>1. n[cpu] % 2 = 1 /\ UnsetLock(Index)
    BY <1>8 DEF CountSample, Sampling
  <2>2. Index \in Locks
    BY <1>3, <2>1 DEF ProgInv
  <2>3. pc' = pc /\ cpu' = cpu
    BY <2>1 DEF UnsetLock, threadVars
  <2>4. \A i \in Ids : \A l : i = cpu => /\ HasBucket(i, l) <=> l = Index
                                         /\ HasBucket(i, l)' <=> FALSE
    <3>1. n'[cpu] = n[cpu] + 1 /\ n'[cpu] % 2 = 0
      BY <1>3, <1>4, <2>1
    <3>2. \A i \in Ids : i = cpu => BucketOf(i) = Index
      BY <1>3
    <3> QED
      BY <1>3, <2>1, <3>1, <3>2 DEF HasBucket
  <2>5. LibHeld' = [LibHeld EXCEPT ![cpu][Index] = 0] /\ LibHeld[cpu][Index] = 1
    BY <1>3, <1>4, <2>2, <2>4, HeldMoves
  <2>6. LibRegions' = LibRegions
    BY <1>4, <2>3, SameRegions
  <2>7. Lib!UserUnlock(Index)
    BY <2>1, <2>5, SameOps DEF Lib!UserUnlock, Lib!Left, LibFuel
  <2> QED
    BY <1>2, <1>5, <1>6, <2>2, <2>3, <2>6, <2>7, SameButs DEF Lib!LockOp, Lib!seenVars
<1> QED
  BY <1>7, <1>8

-----------------------------------------------------------------------------
(* gomp_worker takes its implicit task, or looks for one.                  *)
LEMMA WorkerSteps ==
  ASSUME LooksAtOne, LibInv, ProgInv, Worker
  PROVE  Lib!Worker
<1>1. (WorkerImplicit \/ WorkerIdle) /\ ButTasks /\ UNCHANGED programVars
  BY DEF Worker
<1>2. num' = num /\ (pc' = pc \/ \E s, l : At(l) /\ Goto(s) /\ s # "join" /\ l # "join")
  BY <1>1 DEF WorkerImplicit, WorkerIdle, ButTasks, stateVars
<1>3. UNCHANGED Lib!clientVars
  BY <1>1, <1>2, NoJoin, Unnoticed
<1>4. WorkerImplicit => LibFuel' = [LibFuel EXCEPT ![cpu] = -1]
  BY DEF WorkerImplicit, At, LibFuel
<1> QED
  BY <1>1, <1>3, <1>4, SameOps, SameButs DEF Lib!Worker, Lib!clientVars, Lib!seenVars

(* It ends the task behind the last statement, and so behind the last      *)
(* construct.                                                              *)
LEMMA TaskEndsSteps ==
  ASSUME LooksAtOne, LibInv, ProgInv, TaskEnds
  PROVE  Lib!EndTask
<1>1. /\ Role = "implicit" /\ at[cpu] \notin DOMAIN Body /\ WorkerDone /\ ButTasks
      /\ UNCHANGED programVars /\ At("user") /\ cpu \in Ids /\ Goto("loop")
  BY DEF TaskEnds, WorkerDone
<1>2. num' = num /\ cpu \in Contexts
  BY <1>1 DEF ButTasks, stateVars, At
<1>3. UNCHANGED Lib!clientVars
  BY <1>1, <1>2, NoJoin, Unnoticed
<1>4. kind[cpu] = "implicit" /\ pc[Main] = "join"
  BY <1>1, LibFacts DEF Role
<1>5. /\ region \in DOMAIN TheProgram.regions /\ at[cpu] \in 1 .. Len(Body) + 1 /\ n[cpu] = 0
      /\ Body = TheProgram.regions[region].body
  BY <1>1, <1>4 DEF ProgInv, Body
<1>6. Follows(Body)
  BY <1>5, Bodies, BodyFollows
<1>7. at[cpu] = Len(Body) + 1
  BY <1>1, <1>5, <1>6 DEF Follows
<1>8. LibStep[cpu] = Len(Constructs) + 1
  BY <1>1, <1>6, <1>7 DEF LibStep, Follows
<1>9. LibStep[cpu] \notin DOMAIN Constructs
  BY <1>8, LibAssumptions, LenProperties
<1>10. LibSec[cpu] = -1 /\ ~Busy(cpu)
  BY <1>1, <1>5 DEF LibSec, AtSections, Busy, InCritical
<1>11. Lib!Unencumbered
  BY <1>2, <1>10, NotBusyFree
<1> QED
  BY <1>1, <1>3, <1>9, <1>10, <1>11, SameOps, SameButs DEF Lib!EndTask, Lib!Places, Lib!Out

(* GOMP_parallel: the team starts from the first construct, and nothing    *)
(* has been printed.                                                       *)
LEMMA StartSteps ==
  ASSUME LooksAtOne, LibInv, ProgInv, MainStarts
  PROVE  Lib!StartRegion
<1>1. /\ cpu = Main /\ region \in DOMAIN prog.regions /\ Parallel(prog.regions[region].threads)
      /\ at' = [i \in Ids |-> 1]
      /\ UNCHANGED <<prog, region, n, sec, log, lockVars>>
  BY DEF MainStarts, dataVars
<1>2. /\ prog = TheProgram /\ At("user") /\ pc[Main] = "user" /\ pc' = [pc EXCEPT ![Main] = "join"]
      /\ cpu \in Contexts /\ cpu \notin Ids /\ Role = "serial"
  BY <1>1, LibFacts DEF ProgInv, Parallel, At, Goto, Role
<1>3. \A i \in Ids : n[i] = 0
  BY <1>2, LibFacts DEF ProgInv
<1>4. LibHeld' = LibHeld /\ LibInCrit' = LibInCrit /\ LibSec' = LibSec /\ LibFuel' = LibFuel
  <2>1. \A i \in Ids : \A l : ~HasBucket(i, l) /\ ~HasBucket(i, l)'
    BY <1>1, <1>3 DEF HasBucket
  <2>2. \A i \in Ids : ~InCritical(i) /\ ~InCritical(i)' /\ ~AtSections(i) /\ ~AtSections(i)'
    BY <1>1, <1>3 DEF InCritical, AtSections
  <2> QED
    BY <2>1, <2>2 DEF LibHeld, LibInCrit, LibSec, LibFuel
<1>5. log = <<>>
  BY <1>1, <1>2 DEF ProgInv
<1>6. /\ LibWins' = [k \in DOMAIN Constructs |-> 0]
      /\ LibRan' = [k \in DOMAIN Constructs |-> [s \in 1 .. SectionsOf |-> 0]]
  <2>1. \A w, t : Prints(w)' = {} /\ PrintsIn(w, t)' = {}
    BY <1>1, <1>5 DEF Prints, PrintsIn
  <2>2. Cardinality({}) = 0
    BY FS_EmptySet
  <2> QED
    BY <2>1, <2>2 DEF LibWins, LibRan
<1>7. LibStep' = [i \in Ids |-> 1]
  <2>1. StepAt(1) = 1
    BY <1>1, <1>2, Bodies, BodyFollows DEF Follows
  <2> QED
    BY <1>1, <2>1 DEF LibStep
<1>8. LibRegions > 0 /\ LibRegions' = LibRegions - 1
  <2>1. region \in 1 .. Len(TheProgram.regions) /\ Len(TheProgram.regions) \in {1, 2}
    BY <1>1, <1>2, RegionFacts
  <2>2. pc'[Main] = "join"
    BY <1>2, LibFacts
  <2> QED
    BY <1>1, <1>2, <2>1, <2>2 DEF LibRegions
<1>9. Lib!Unencumbered
  BY <1>2, NotBusyFree
<1>10. Lib!Parallel(TheProgram.regions[region].threads)
  BY <1>1, <1>2, SameOps
<1> QED
  BY <1>1, <1>2, <1>4, <1>6, <1>7, <1>8, <1>9, <1>10, SameOps
     DEF Lib!StartRegion, Lib!Places, lockVars, Lib!lockVars

(* The wait of GOMP_parallel.                                              *)
LEMMA JoinSteps ==
  ASSUME LooksAtOne, LibInv, ProgInv, Join
  PROVE  Lib!Join
<1>1. /\ \/ JoinWait /\ region' = region
         \/ JoinDone /\ region' = region + 1
      /\ UNCHANGED <<num, barrierVars, criticalVars, singleVars, sectionVars, lockVars>>
      /\ UNCHANGED <<at, n, sec, log>>
  BY DEF Join, memberVars, dataVars
<1>2. /\ LibStep' = LibStep /\ LibInCrit' = LibInCrit /\ LibHeld' = LibHeld /\ LibSec' = LibSec
      /\ LibWins' = LibWins /\ LibRan' = LibRan /\ LibFuel' = LibFuel
  BY <1>1, SameHands, SameSections, LogSame DEF ProgInv, LibStep, AtSections, LibFuel
<1>3. LibRegions' = LibRegions
  <2>1. CASE JoinWait /\ region' = region
    BY <2>1, SameRegions DEF JoinWait
  <2>2. CASE JoinDone /\ region' = region + 1
    <3>1. cpu = Main /\ pc[Main] = "join"
      BY <2>2, LibFacts DEF JoinDone, At, Contexts
    <3>2. pc'[Main] = "user"
      BY <2>2, <3>1, LibFacts DEF JoinDone, Goto
    <3>3. region \in 1 .. Len(TheProgram.regions) /\ Len(TheProgram.regions) \in {1, 2}
      BY <3>1, RegionFacts DEF ProgInv
    <3> QED
      BY <2>2, <3>1, <3>2, <3>3 DEF LibRegions
  <2> QED
    BY <1>1, <2>1, <2>2
<1>4. JoinDone => LibFuel' = [LibFuel EXCEPT ![cpu] = -1]
  BY DEF JoinDone, At, LibFuel
<1>5. UNCHANGED <<Lib!barrierVars, Lib!criticalVars, Lib!singleVars, Lib!sectionVars, Lib!lockVars>>
  BY <1>1 DEF barrierVars, criticalVars, singleVars, sectionVars, lockVars, Lib!barrierVars,
     Lib!criticalVars, Lib!singleVars, Lib!sectionVars, Lib!lockVars
<1> QED
  BY <1>1, <1>2, <1>3, <1>4, <1>5, SameOps DEF Lib!Join, Lib!seenVars

(* main() prints, destroying locks that are free, and returns.             *)
LEMMA EndSteps ==
  ASSUME LooksAtOne, LibInv, ProgInv, MainPrints \/ MainEnds
  PROVE  Lib!EndMain \/ UNCHANGED Lib!vars
<1>0. prog = TheProgram /\ Len(TheProgram.regions) \in {1, 2} /\ cpu = Main /\ cpu \notin Ids
  BY RegionFacts, LibFacts DEF ProgInv, MainPrints, MainEnds, MainReturns
<1>1. CASE MainPrints
  <2>1. /\ region = Len(TheProgram.regions) + 1 /\ region' = region + 1
        /\ UNCHANGED <<threadVars, pc, nest, wants, num>> /\ ButLocks
        /\ UNCHANGED <<at, n, sec, log>> /\ lock' = [l \in Locks |-> 0]
    BY <1>0, <1>1 DEF MainPrints, Printing, memberVars, dataVars, ButLocks, stateVars
  <2>2. lock' = lock
    BY <1>0, <2>1, LocksFree
  <2>3. UNCHANGED systemVars
    BY <2>1, <2>2 DEF ButLocks, systemVars, libraryVars, lockVars
  <2>4. LibRegions' = LibRegions
    BY <1>0, <2>1 DEF LibRegions
  <2> QED
    BY <2>1, <2>3, <2>4, SameHands, SameSections, LogSame, Unseen DEF ProgInv, LibStep, AtSections
<1>2. CASE MainEnds
  <2>1. region > Len(TheProgram.regions) + 1 /\ MainReturns /\ UNCHANGED programVars
    BY <1>0, <1>2 DEF MainEnds
  <2>2. num' = num /\ At("user") /\ Goto("dead")
    BY <2>1 DEF MainReturns, libraryVars, stateVars
  <2>3. UNCHANGED Lib!clientVars
    BY <2>1, <2>2, NoJoin, Unnoticed
  <2>4. LibRegions = 0
    BY <1>0, <2>1 DEF LibRegions, ProgInv
  <2>5. Lib!Unencumbered
    BY <1>0, <2>2, NotBusyFree DEF At
  <2> QED
    BY <2>1, <2>3, <2>4, <2>5, SameOps DEF Lib!EndMain
<1> QED
  BY <1>1, <1>2

-----------------------------------------------------------------------------
(* The other programs print nothing in their regions.                      *)
Saying == {"id1", "id2", "master", "single", "sections"}
LEMMA OthersSayNothing ==
  ASSUME LooksAtOne, NEW b, BodyIs(b), ~Is(Printers), NEW k \in DOMAIN b
  PROVE  b[k] \notin Saying
<1>1. b \in {<<"for">>, <<"fill", "barrier", "copy">>, <<"fill", "barrier", "copy", "critical">>,
             <<"fill", "barrier", "copy", "atomic">>, <<"fill">>, <<"reduction">>, <<"init">>,
             <<"count">>}
  BY DEF BodyIs, Is, Printers
<1> QED
  BY <1>1 DEF Saying

(* A member goes on: it stays at a long statement, or goes to the next.    *)
LEMMA MemberKeeps ==
  ASSUME LooksAtOne, LibInv, ProgInv, NEW op, NEW k, Doing(op, k),
         prog' = prog, region' = region, kind' = kind, pc'[Main] = "join",
         sec' = [i \in Ids |-> sec'[i]],
         NEW x \in Nat, n' = [n EXCEPT ![cpu] = x],
         \/ x = 0 /\ at' = [at EXCEPT ![cpu] = @ + 1]
         \/ op \in Long /\ at' = at,
         \A i \in Ids : i = cpu /\ Busy(i)' => /\ cpu' = cpu /\ pc'[i] = "user"
                                               /\ Is({"omp9"}) => BucketOf(i)' \in Locks,
         log' = log \/ \E what, s : Says(what, s) /\ op \in Saying
  PROVE  ProgInv'
<1>1. /\ cpu \in Ids /\ kind[cpu] = "implicit" /\ pc[Main] = "join" /\ prog = TheProgram
      /\ region \in DOMAIN prog.regions /\ at[cpu] \in DOMAIN Body /\ Body[at[cpu]] = op
      /\ DOMAIN Body = 1 .. Len(Body) /\ Len(Body) \in Nat /\ BodyIs(Body)
      /\ at \in [Ids -> Nat] /\ n \in [Ids -> Nat]
  BY Doer DEF Follows, ProgInv
<1>2. Body' = Body
  BY DEF Body
<1>3. at' \in [Ids -> Nat] /\ n' \in [Ids -> Nat]
  BY <1>1
<1>4. ASSUME NEW i \in Ids
      PROVE  /\ at'[i] \in 1 .. Len(Body) + 1
             /\ n'[i] # 0 => kind'[i] = "implicit" /\ at'[i] \in DOMAIN Body /\ Body[at'[i]] \in Long
             /\ Busy(i)' => cpu' = i /\ pc'[i] = "user"
             /\ Is({"omp9"}) /\ n'[i] % 2 = 1 => BucketOf(i)' \in Locks
  <2>1. CASE i = cpu
    <3>1. n'[i] = x /\ (at'[i] = at[cpu] \/ (x = 0 /\ at'[i] = at[cpu] + 1))
      BY <1>1, <2>1
    <3>2. at'[i] \in 1 .. Len(Body) + 1
      BY <1>1, <3>1
    <3>3. n'[i] # 0 => op \in Long /\ at'[i] = at[cpu]
      BY <1>1, <2>1, <3>1
    <3>4. Is({"omp9"}) /\ n'[i] % 2 = 1 => Busy(i)'
      BY DEF Busy
    <3> QED
      BY <1>1, <2>1, <3>2, <3>3, <3>4
  <2>2. CASE i # cpu
    <3>1. n'[i] = n[i] /\ at'[i] = at[i]
      BY <1>1, <2>2
    <3>2. ~Busy(i)
      BY <2>2 DEF ProgInv
    <3>3. ~Busy(i)' /\ ~(Is({"omp9"}) /\ n'[i] % 2 = 1)
      BY <3>1, <3>2 DEF Busy, InCritical
    <3> QED
      BY <1>1, <3>1, <3>3 DEF ProgInv
  <2> QED
    BY <2>1, <2>2
<1>5. log' \in Seq(Range(log')) /\ (~Is(Printers) => log' = <<>>)
  <2>1. CASE log' = log
    BY <2>1 DEF ProgInv
  <2>2. ASSUME NEW what, NEW s, Says(what, s), op \in Saying
        PROVE  log' \in Seq(Range(log')) /\ Is(Printers)
    BY <1>1, <2>2, LogGrows, OthersSayNothing DEF Says, ProgInv
  <2> QED
    BY <2>1, <2>2
<1>6. region' \in 1 .. Len(prog'.regions) + 2 /\ region' \in DOMAIN prog'.regions
  BY <1>1 DEF ProgInv
<1> QED
  BY <1>1, <1>2, <1>3, <1>4, <1>5, <1>6 DEF ProgInv

(* It goes to the next.                                                    *)
LEMMA DoneKeeps ==
  ASSUME LooksAtOne, LibInv, ProgInv, NEW op, NEW k, Doing(op, k), Done, kind' = kind,
         pc'[Main] = "join",
         log' = log \/ \E what, s : Says(what, s) /\ op \in Saying
  PROVE  ProgInv'
<1>1. /\ prog' = prog /\ region' = region /\ n' = [n EXCEPT ![cpu] = 0]
      /\ at' = [at EXCEPT ![cpu] = @ + 1] /\ sec' = sec
  BY DEF Done
<1>2. \A i \in Ids : i = cpu => ~Busy(i)'
  BY <1>1 DEF ProgInv, Busy, InCritical
<1> QED
  BY <1>1, <1>2, MemberKeeps DEF ProgInv

(* Nobody's place in the program changes.                                  *)
LEMMA PlaceKeeps ==
  ASSUME LooksAtOne, ProgInv, UNCHANGED programVars, pc'[Main] = "join" <=> pc[Main] = "join",
         \A i \in Ids : kind'[i] = kind[i] \/ n[i] = 0,
         \A i \in Ids : i = cpu /\ Busy(i) => cpu' = cpu /\ pc' = pc
                                              /\ (Is({"omp9"}) => num' = num)
  PROVE  ProgInv'
<1>1. UNCHANGED <<prog, region, at, n, sec, log>> /\ Body' = Body
  BY DEF programVars, memberVars, dataVars, Body
<1>2. \A i \in Ids : Busy(i)' <=> Busy(i)
  BY <1>1 DEF Busy, InCritical
<1>3. \A i \in Ids : Is({"omp9"}) /\ n[i] % 2 = 1 => num' = num
  BY DEF ProgInv, Busy
<1>4. \A i \in Ids : Is({"omp9"}) /\ n[i] % 2 = 1 => BucketOf(i)' = BucketOf(i)
  BY <1>1, <1>3 DEF BucketOf, ShareOf
<1>5. \A i \in Ids : Busy(i)' => cpu' = i /\ pc'[i] = "user"
  BY <1>2 DEF ProgInv
<1> QED
  BY <1>1, <1>4, <1>5 DEF ProgInv

(* The statements of one step, and the last steps of the others.           *)
LEMMA StatementsKeep ==
  ASSUME LooksAtOne, LibInv, ProgInv,
         \/ For \/ Fill \/ Copy \/ Atomic \/ PrintId \/ Master
         \/ Barrier \/ LeaveCritical \/ Single \/ EndSections \/ InitLocks \/ CountDone
         \/ (Spin /\ Done)
  PROVE  ProgInv'
<1>1. PICK op, k : Doing(op, k) /\ Done /\ kind' = kind
        /\ (pc' = pc \/ pc' = [pc EXCEPT ![cpu] = "barrier"])
        /\ (log' = log \/ \E what, s : Says(what, s) /\ op \in Saying)
  <2> USE DEF NoOutput, Saying
  <2>1. CASE For
    <3>1. Doing("for", 0)
      BY <2>1 DEF For
    <3> QED
      BY <2>1, <3>1 DEF For, systemVars, libraryVars, taskVars
  <2>2. CASE Fill
    <3>1. Doing("fill", 0)
      BY <2>2 DEF Fill
    <3> QED
      BY <2>2, <3>1 DEF Fill, systemVars, libraryVars, taskVars
  <2>3. CASE Copy
    <3>1. Doing("copy", 0)
      BY <2>3 DEF Copy
    <3> QED
      BY <2>3, <3>1 DEF Copy, systemVars, libraryVars, taskVars
  <2>4. CASE Atomic
    <3>1. Doing("atomic", 0)
      BY <2>4 DEF Atomic
    <3> QED
      BY <2>4, <3>1 DEF Atomic, systemVars, libraryVars, taskVars
  <2>5. CASE PrintId
    <3>1. \E op \in {"id1", "id2"} : Doing(op, 0)
      BY <2>5 DEF PrintId
    <3> QED
      BY <2>5, <3>1 DEF PrintId, systemVars, libraryVars, taskVars
  <2>6. CASE Master
    <3>1. Doing("master", 0)
      BY <2>6 DEF Master
    <3> QED
      BY <2>6, <3>1 DEF Master, systemVars, libraryVars, taskVars
  <2>7. CASE Barrier
    <3>1. Doing("barrier", 0)
      BY <2>7 DEF Barrier
    <3> QED
      BY <2>7, <3>1 DEF Barrier, BarrierEnter, Goto, ButBarrier, taskVars, dataVars
  <2>8. CASE LeaveCritical
    <3>1. \E op : Doing(op, 1)
      BY <2>8 DEF LeaveCritical
    <3> QED
      BY <2>8, <3>1 DEF LeaveCritical, CriticalEnd, ButCritical, taskVars
  <2>9. CASE Single
    <3>1. Doing("single", 0)
      BY <2>9 DEF Single
    <3> QED
      BY <2>9, <3>1 DEF Single, SingleStart, ButSingle, taskVars
  <2>10. CASE EndSections
    <3>1. Doing("sections", 1)
      BY <2>10 DEF EndSections
    <3> QED
      BY <2>10, <3>1 DEF EndSections, SectionsEnd, BarrierEnter, Goto, taskVars, dataVars
  <2>11. CASE InitLocks
    <3>1. Doing("init", 0)
      BY <2>11 DEF InitLocks
    <3> QED
      BY <2>11, <3>1 DEF InitLocks, ButLocks, taskVars
  <2>12. CASE CountDone
    <3>1. Doing("count", 2 * Turns)
      BY <2>12 DEF CountDone
    <3> QED
      BY <2>12, <3>1 DEF CountDone, systemVars, libraryVars, taskVars, dataVars
  <2>13. CASE Spin /\ Done
    <3>1. Doing("spin", n[cpu])
      BY <2>13 DEF Spin
    <3> QED
      BY <2>13, <3>1 DEF Spin, libraryVars, taskVars, dataVars
  <2> QED
    BY <2>1, <2>2, <2>3, <2>4, <2>5, <2>6, <2>7, <2>8, <2>9, <2>10, <2>11, <2>12, <2>13
<1>2. cpu # Main /\ pc[Main] = "join"
  BY <1>1, Doer
<1>3. pc'[Main] = "join"
  BY <1>1, <1>2, LibFacts
<1> QED
  BY <1>1, <1>3, DoneKeeps

(* The other steps of the long statements.                                 *)
LEMMA LongKeep ==
  ASSUME LooksAtOne, LibInv, ProgInv,
         \/ EnterCritical \/ StartSections \/ SpinInSection \/ EndSection \/ GetSection
         \/ SetBucket \/ SkipSample \/ CountSample
         \/ (Spin /\ PartDone)
  PROVE  ProgInv'
<1> USE DEF Long, Saying
<1>1. ASSUME NEW op, NEW k, Doing(op, k), op \in Long, op \notin {"critical", "reduction", "count"},
             UNCHANGED <<prog, region, at, kind, pc>>, sec' = [i \in Ids |-> sec'[i]],
             NEW x \in Nat, n' = [n EXCEPT ![cpu] = x],
             log' = log \/ \E what, s : Says(what, s) /\ op \in Saying
      PROVE  ProgInv'
  <2>1. ~Is({"omp9"}) /\ ~Is({"omp3", "omp5"})
    BY <1>1, Doer, Owners DEF Owns, Is
  <2>2. \A i \in Ids : ~Busy(i)'
    BY <2>1 DEF Busy, InCritical
  <2>3. pc'[Main] = "join"
    BY <1>1, Doer
  <2> QED
    BY <1>1, <2>2, <2>3, MemberKeeps
<1>2. CASE Spin /\ PartDone
  <2>1. Doing("spin", n[cpu]) /\ UNCHANGED <<prog, region, at, kind, pc, sec, log>>
    BY <1>2 DEF Spin, PartDone, libraryVars, taskVars, dataVars
  <2>2. n[cpu] + 1 \in Nat /\ n' = [n EXCEPT ![cpu] = n[cpu] + 1] /\ sec' = [i \in Ids |-> sec'[i]]
    BY <1>2, <2>1, Doer DEF PartDone, ProgInv
  <2> QED
    BY <1>1, <2>1, <2>2
<1>3. CASE SpinInSection \/ EndSection
  <2>1. /\ Doing("sections", n[cpu]) /\ PartDone /\ UNCHANGED <<prog, region, at, kind, pc, sec>>
        /\ (log' = log \/ \E what, s : Says(what, s))
    BY <1>3 DEF SpinInSection, EndSection, InSection, PartDone, systemVars, libraryVars, taskVars,
       dataVars
  <2>2. n[cpu] + 1 \in Nat /\ n' = [n EXCEPT ![cpu] = n[cpu] + 1] /\ sec' = [i \in Ids |-> sec'[i]]
    BY <2>1, Doer DEF PartDone, ProgInv
  <2> QED
    BY <1>1, <2>1, <2>2
<1>4. CASE StartSections \/ GetSection
  <2>1. PICK k, s : Doing("sections", k) /\ BeginSection(s)
    BY <1>4 DEF StartSections, GetSection, InSection
  <2>2. /\ UNCHANGED <<prog, region, at, kind>> /\ n' = [n EXCEPT ![cpu] = 1]
        /\ sec' = [sec EXCEPT ![cpu] = s] /\ (log' = log \/ Says("begin", s))
    BY <2>1 DEF BeginSection, NoOutput, ButSections, taskVars
  <2>3. pc' = pc
    BY <1>4, GetSteps
  <2>4. sec' = [i \in Ids |-> sec'[i]] /\ 1 \in Nat
    BY <2>2 DEF ProgInv
  <2> QED
    BY <1>1, <2>1, <2>2, <2>3, <2>4
<1>5. CASE EnterCritical
  <2>1. PICK op \in {"critical", "reduction"} : Doing(op, 0)
    BY <1>5 DEF EnterCritical
  <2>2. PartDone /\ kind' = kind /\ log' = log
    BY <1>5 DEF EnterCritical, ButCritical, taskVars, dataVars
  <2>3. pc' = pc /\ cpu' = cpu
    BY <1>5, EnterSteps
  <2>4. pc[cpu] = "user" /\ pc[Main] = "join" /\ n[cpu] = 0 /\ ~Is({"omp9"})
    <3>1. Is({"omp3", "omp5"})
      BY <2>1, Doer, Owners DEF Owns, Is
    <3> QED
      BY <2>1, <3>1, Doer DEF Is
  <2>5. /\ n' = [n EXCEPT ![cpu] = 1] /\ UNCHANGED <<prog, region, at>>
        /\ sec' = [i \in Ids |-> sec'[i]]
    BY <2>2, <2>4 DEF PartDone, ProgInv
  <2> QED
    BY <2>1, <2>2, <2>3, <2>4, <2>5, MemberKeeps
<1>6. CASE SkipSample
  <2>1. /\ Doing("count", n[cpu]) /\ n[cpu] % 2 = 0 /\ n' = [n EXCEPT ![cpu] = n[cpu] + 2]
        /\ UNCHANGED <<prog, region, at, kind, pc, sec, log>>
    BY <1>6 DEF SkipSample, Sampling, systemVars, libraryVars, taskVars, dataVars
  <2>2. n[cpu] + 2 \in Nat /\ (n[cpu] + 2) % 2 = 0 /\ ~Is({"omp3", "omp5"}) /\ n \in [Ids -> Nat]
    BY <2>1, Sampler
  <2>3. \A i \in Ids : i = cpu => ~Busy(i)'
    BY <2>1, <2>2 DEF Busy, InCritical
  <2>4. pc'[Main] = "join" /\ sec' = [i \in Ids |-> sec'[i]]
    BY <2>1, Doer DEF ProgInv
  <2> QED
    BY <2>1, <2>2, <2>3, <2>4, MemberKeeps
<1>7. CASE SetBucket \/ CountSample
  <2>1. /\ Doing("count", n[cpu]) /\ n' = [n EXCEPT ![cpu] = n[cpu] + 1]
        /\ UNCHANGED <<prog, region, at, kind, num, sec, log>>
    BY <1>7 DEF SetBucket, CountSample, Sampling, PartDone, ButLocks, stateVars, taskVars, dataVars
  <2>2. pc' = pc /\ cpu' = cpu /\ Index \in Locks
    BY <1>7, BucketSteps
  <2>3. /\ n[cpu] \in Nat /\ n[cpu] + 1 \in Nat /\ ~Is({"omp3", "omp5"}) /\ n \in [Ids -> Nat]
        /\ Index = BucketOf(cpu) /\ cpu \in Ids /\ pc[cpu] = "user"
    BY <2>1, Sampler
  <2>4. \A i \in Ids : i = cpu /\ Busy(i)' => BucketOf(i)' \in Locks
    <3>1. ASSUME NEW i \in Ids, i = cpu, Busy(i)' PROVE BucketOf(i)' \in Locks
      <4>1. n'[i] = n[i] + 1 /\ n'[i] % 2 = 1 /\ n[i] \in Nat
        BY <2>1, <2>3, <3>1 DEF Busy, InCritical
      <4>2. n'[i] \div 2 = n[i] \div 2
        BY <4>1
      <4>3. BucketOf(i)' = BucketOf(i)
        BY <2>1, <4>2 DEF BucketOf, ShareOf
      <4> QED
        BY <2>2, <2>3, <3>1, <4>3
    <3> QED
      BY <3>1
  <2>5. pc'[Main] = "join" /\ sec' = [i \in Ids |-> sec'[i]]
    BY <2>1, <2>2, Doer DEF ProgInv
  <2> QED
    BY <2>1, <2>2, <2>3, <2>4, <2>5, MemberKeeps
<1> QED
  BY <1>2, <1>3, <1>4, <1>5, <1>6, <1>7

(* The steps of the library that no program notices.                       *)
LEMMA SystemKeeps ==
  ASSUME LooksAtOne, LibInv, ProgInv,
         System \/ InBarrier \/ Worker \/ TaskEnds \/ MainEnds \/ UNCHANGED vars
  PROVE  ProgInv'
<1>1. CASE UNCHANGED vars
  BY <1>1, PlaceKeeps DEF vars, systemVars, libraryVars, stateVars, taskVars, threadVars
<1>2. ASSUME UNCHANGED programVars, pc[cpu] # "user" \/ cpu \notin Ids,
             pc'[Main] = "join" <=> pc[Main] = "join",
             \A i \in Ids : kind'[i] = kind[i] \/ n[i] = 0
      PROVE  ProgInv'
  <2>1. \A i \in Ids : i = cpu => ~Busy(i)
    BY <1>2 DEF ProgInv
  <2> QED
    BY <1>2, <2>1, PlaceKeeps
<1>3. CASE System
  <2>1. CASE Boot /\ UNCHANGED programVars
    BY <1>2, <2>1, Boots, GompAssumption
  <2>2. CASE UNCHANGED vars
    BY <1>1, <2>2
  <2> QED
    BY <1>3, <2>1, <2>2 DEF System
<1>4. CASE InBarrier
  <2>1. UNCHANGED programVars /\ kind' = kind /\ At("barrier") /\ (pc' = pc \/ Goto("user"))
    BY <1>4 DEF InBarrier, BarrierRelease, BarrierReturn, ButBarrier, taskVars
  <2>2. pc'[Main] = "join" <=> pc[Main] = "join"
    BY <2>1, NoJoin
  <2> QED
    BY <1>2, <2>1, <2>2 DEF At
<1>5. CASE Worker
  <2>1. /\ UNCHANGED programVars /\ At("loop") /\ (pc' = pc \/ Goto("user"))
        /\ kind' = kind \/ kind' = [kind EXCEPT ![cpu] = "implicit"]
    BY <1>5 DEF Worker, WorkerImplicit, WorkerIdle, taskVars
  <2>2. pc'[Main] = "join" <=> pc[Main] = "join"
    BY <2>1, NoJoin
  <2>3. cpu \in Ids => n[cpu] = 0
    <3>1. cpu \in Ids => kind[cpu] # "implicit"
      BY <2>1 DEF At, LibInv, Lib!SysInv, Lib!TaskInv, Lib!WorkersInv, Lib!Ids, Ids
    <3> QED
      BY <3>1 DEF ProgInv
  <2>4. \A i \in Ids : kind'[i] = kind[i] \/ n[i] = 0
    <3>1. kind \in [Ids -> {"none", "implicit", "explicit"}]
      BY DEF LibInv, Lib!SysInv, Lib!TaskInv, Lib!WorkersInv, Lib!Ids, Ids
    <3>2. \A i \in Ids : i # cpu => kind'[i] = kind[i]
      BY <2>1, <3>1
    <3> QED
      BY <2>3, <3>2
  <2>5. pc[cpu] # "user"
    BY <2>1 DEF At
  <2> QED
    BY <1>2, <2>1, <2>2, <2>4, <2>5
<1>6. CASE TaskEnds
  <2>1. /\ UNCHANGED programVars /\ At("user") /\ Goto("loop") /\ cpu \in Ids
        /\ kind' = [kind EXCEPT ![cpu] = "none"] /\ at[cpu] \notin DOMAIN Body
    BY <1>6 DEF TaskEnds, WorkerDone
  <2>2. pc'[Main] = "join" <=> pc[Main] = "join"
    BY <2>1, NoJoin
  <2>3. n[cpu] = 0
    BY <2>1 DEF ProgInv
  <2>4. \A i \in Ids : i = cpu => ~Busy(i)
    BY <2>3 DEF Busy, InCritical
  <2> QED
    BY <2>1, <2>2, <2>3, <2>4, PlaceKeeps
<1>7. CASE MainEnds
  <2>1. /\ UNCHANGED programVars /\ At("user") /\ Goto("dead") /\ cpu = Main /\ kind' = kind
    BY <1>7 DEF MainEnds, MainReturns, libraryVars, taskVars
  <2>2. pc'[Main] = "join" <=> pc[Main] = "join"
    BY <2>1, NoJoin
  <2> QED
    BY <1>2, <2>1, <2>2, GompAssumption
<1> QED
  BY <1>1, <1>3, <1>4, <1>5, <1>6, <1>7

(* A step of main() between two regions, when no member is at a statement. *)
LEMMA BetweenKeeps ==
  ASSUME LooksAtOne, ProgInv, \A i \in Ids : n[i] = 0,
         UNCHANGED <<prog, n, sec, log>>, at' \in [Ids -> Nat],
         region' \in 1 .. Len(prog.regions) + 2,
         pc'[Main] = "join" => /\ region' \in DOMAIN prog.regions
                               /\ \A i \in Ids : at'[i] = 1,
         region' \in DOMAIN prog.regions /\ pc'[Main] # "join" => log = <<>>
  PROVE  ProgInv'
<1>1. \A i \in Ids : ~Busy(i)' /\ n'[i] = 0
  BY DEF Busy, InCritical
<1>2. pc'[Main] = "join" => 1 \in 1 .. Len(Body') + 1
  <2>1. ASSUME region' \in DOMAIN prog.regions PROVE 1 \in 1 .. Len(Body') + 1
    <3>1. BodyIs(TheProgram.regions[region'].body) /\ prog = TheProgram /\ prog' = TheProgram
      BY <2>1, Bodies DEF ProgInv
    <3>2. Len(Body') \in Nat \ {0}
      BY <3>1, BodyFollows DEF Body, Follows
    <3> QED
      BY <3>2
  <2> QED
    BY <2>1
<1> QED
  BY <1>1, <1>2 DEF ProgInv

(* main() begins or ends a region, or prints.                              *)
LEMMA MainKeeps ==
  ASSUME LooksAtOne, LibInv, ProgInv, MainStarts \/ Join \/ MainPrints
  PROVE  ProgInv'
<1>1. prog = TheProgram /\ Len(TheProgram.regions) \in {1, 2}
      /\ DOMAIN TheProgram.regions = 1 .. Len(TheProgram.regions)
  BY RegionFacts DEF ProgInv
<1>2. pc[Main] # "join" => \A i \in Ids : n[i] = 0
  BY LibFacts DEF ProgInv
<1>3. CASE MainStarts
  <2>1. /\ At("user") /\ cpu = Main /\ Goto("join") /\ region \in DOMAIN prog.regions
        /\ at' = [i \in Ids |-> 1] /\ UNCHANGED <<prog, region, n, sec, log>>
    BY <1>3 DEF MainStarts, Parallel, dataVars
  <2>2. pc[Main] = "user" /\ pc'[Main] = "join"
    BY <2>1, LibFacts DEF At, Goto
  <2> QED
    BY <1>1, <1>2, <2>1, <2>2, BetweenKeeps DEF ProgInv
<1>4. CASE Join
  <2>1. CASE JoinWait
    <3>1. UNCHANGED programVars /\ pc' = pc /\ kind' = kind /\ At("join")
      BY <1>4, <2>1 DEF Join, JoinWait, JoinDone, programVars, memberVars, taskVars
    <3>2. \A i \in Ids : i # cpu
      BY <3>1, LibFacts DEF At
    <3> QED
      BY <3>1, <3>2, PlaceKeeps
  <2>2. CASE JoinDone /\ region' = region + 1
    <3>1. /\ At("join") /\ tasks[team] = 0 /\ Goto("user")
          /\ UNCHANGED <<prog, at, n, sec, log>>
      BY <1>4, <2>2 DEF Join, JoinDone, memberVars, dataVars
    <3>2. cpu = Main /\ pc[Main] = "join" /\ pc'[Main] = "user"
      BY <3>1, LibFacts DEF At, Goto, Contexts
    <3>3. \A i \in Ids : kind[i] # "implicit"
      <4>1. Lib!TaskInv
        BY DEF LibInv, Lib!SysInv
      <4>2. tasks[1] = 0
        BY <3>1, <3>2, <4>1 DEF Lib!TaskInv, Lib!PlacesInv
      <4>3. Lib!TaskInv /\ tasks[1] = 0 => \A i \in Ids : kind[i] = "none"
        BY LibAssumptions, GompAssumption, TasksAssumption, LocksAssumption, Lib!AllIdle
           DEF Lib!Contexts, Lib!Ids, Lib!AllLocks, Lib!FreeOps, Lib!Endless, Contexts, Ids,
               AllLocks
      <4> QED
        BY <4>1, <4>2, <4>3
    <3>4. \A i \in Ids : n[i] = 0
      BY <3>3 DEF ProgInv
    <3>5. region \in DOMAIN prog.regions
      BY <3>2 DEF ProgInv
    <3>6. region + 1 \in DOMAIN prog.regions => log = <<>>
      <4>1. region + 1 \in DOMAIN prog.regions => Len(TheProgram.regions) = 2
        BY <1>1, <3>5
      <4>2. Len(TheProgram.regions) = 2 => ~Is(Printers)
        BY RegionFacts DEF Is, Printers
      <4> QED
        BY <4>1, <4>2 DEF ProgInv
    <3>7. region + 1 \in 1 .. Len(prog.regions) + 2
      BY <1>1, <3>5
    <3> QED
      BY <2>2, <3>1, <3>2, <3>4, <3>6, <3>7, BetweenKeeps DEF ProgInv
  <2> QED
    BY <1>4, <2>1, <2>2 DEF Join
<1>5. CASE MainPrints
  <2>1. /\ At("user") /\ cpu = Main /\ region = Len(prog.regions) + 1 /\ region' = region + 1
        /\ UNCHANGED <<prog, pc, at, n, sec, log>>
    BY <1>5 DEF MainPrints, Printing, memberVars, dataVars
  <2>2. pc[Main] = "user" /\ pc'[Main] = "user"
    BY <2>1 DEF At
  <2>3. region' \in 1 .. Len(prog.regions) + 2 /\ region' \notin DOMAIN prog.regions
    BY <1>1, <2>1
  <2> QED
    BY <1>2, <2>1, <2>2, <2>3, BetweenKeeps DEF ProgInv
<1> QED
  BY <1>3, <1>4, <1>5

(* Every step keeps the invariant of the program, and is one of the        *)
(* library's or none.                                                      *)
LEMMA NextProgInv ==
  ASSUME LooksAtOne, LibInv, ProgInv, [Next]_vars
  PROVE  ProgInv'
<1>1. CASE System \/ InBarrier \/ Worker \/ TaskEnds \/ MainEnds \/ UNCHANGED vars
  BY <1>1, SystemKeeps
<1>2. CASE MainStarts \/ Join \/ MainPrints
  BY <1>2, MainKeeps
<1>3. Spin => (Spin /\ Done) \/ (Spin /\ PartDone)
  BY DEF Spin
<1> QED
  BY <1>1, <1>2, <1>3, StatementsKeep, LongKeep
     DEF Next, MainThread, Arrays, Printed, Sections, Histogram

(* Every step of a test program is a step of the library, or does not touch it. *)
LEMMA Simulates ==
  ASSUME LooksAtOne, LibInv, ProgInv, [Next]_vars
  PROVE  [Lib!Next]_(Lib!vars)
<1>1. CASE UNCHANGED vars
  <2>1. UNCHANGED <<systemVars, at, n, sec, log, region, num, pc>>
    BY <1>1 DEF vars, programVars, memberVars, dataVars, systemVars, libraryVars, stateVars
  <2> QED
    BY <2>1, SameHands, SameSections, LogSame, SameRegions, Unseen DEF ProgInv, LibStep, AtSections
<1> USE DEF Lib!Next, Lib!FreeOp, Lib!Construct, Lib!TaskLife
<1>2. CASE System
  BY <1>2, SystemSteps
<1>3. CASE MainThread
  BY <1>3, StartSteps, JoinSteps, EndSteps DEF MainThread
<1>4. CASE Arrays
  BY <1>4, SilentSteps, EnterSteps, LeaveSteps DEF Arrays
<1>5. CASE Printed
  BY <1>5, SilentSteps, SingleSteps DEF Printed
<1>6. CASE Barrier \/ InBarrier \/ Spin
  BY <1>6, BarrierSteps, InBarrierSteps, SpinSteps
<1>7. CASE Sections
  BY <1>7, SpinSteps, GetSteps, EndSectionSteps, EndSectionsSteps DEF Sections
<1>8. CASE Histogram
  BY <1>8, PassSteps, BucketSteps DEF Histogram
<1>9. CASE Worker \/ TaskEnds
  BY <1>9, WorkerSteps, TaskEndsSteps
<1> QED
  BY <1>1, <1>2, <1>3, <1>4, <1>5, <1>6, <1>7, <1>8, <1>9 DEF Next

(* So it does from the start.                                              *)
LEMMA InitSimulates ==
  ASSUME LooksAtOne, Init, prog = TheProgram
  PROVE  Lib!Init /\ ProgInv
<1>1. /\ region = 1 /\ at = [i \in Ids |-> 1] /\ n = [i \in Ids |-> 0] /\ sec = [i \in Ids |-> 0]
      /\ log = <<>> /\ pc[Main] = "unborn" /\ pc[Main] # "join"
      /\ \A i \in Ids : kind[i] = "none"
  BY GompAssumption DEF Init, SystemInit, Contexts
<1>2. /\ Len(TheProgram.regions) \in {1, 2} /\ DOMAIN TheProgram.regions = 1 .. Len(TheProgram.regions)
      /\ 1 \in DOMAIN TheProgram.regions
  BY RegionFacts
<1>3. StepAt(1) = 1
  BY <1>2, Bodies, BodyFollows DEF Follows
<1>4. \A i \in Ids : ~Busy(i) /\ ~AtSections(i) /\ ~InCritical(i) /\ \A l : ~HasBucket(i, l)
  BY <1>1 DEF Busy, AtSections, InCritical, HasBucket
<1>5. \A w, t : Prints(w) = {} /\ PrintsIn(w, t) = {}
  BY <1>1 DEF Prints, PrintsIn
<1>6. Cardinality({}) = 0
  BY FS_EmptySet
<1>7. LibRegions = Len(TheProgram.regions)
  BY <1>1, <1>2 DEF LibRegions
<1>8. Lib!SystemInit
  BY DEF Init, SystemInit, Lib!SystemInit, Lib!Ids, Ids, Lib!Contexts, Contexts, Lib!TeamNos,
     TeamNos, Lib!Tasks, Tasks, Lib!NoTask, NoTask, Lib!NestFree, NestFree
<1>9. Lib!Init
  BY <1>1, <1>3, <1>4, <1>5, <1>6, <1>7, <1>8, SameOps
     DEF Lib!Init, Lib!Places, Lib!Out, LibStep, LibFuel, LibInCrit, LibHeld, LibSec, LibWins,
         LibRan
<1>10. ProgInv
  BY <1>1, <1>2, <1>4 DEF ProgInv
<1> QED
  BY <1>9, <1>10

-----------------------------------------------------------------------------
(* Each step of a test program keeps both invariants, and is one of the    *)
(* library's or none.                                                      *)
LEMMA ProgramStep ==
  ASSUME LooksAtOne
  PROVE  /\ Init /\ prog = TheProgram => LibInv /\ ProgInv /\ Lib!Init
         /\ LibInv /\ ProgInv /\ [Next]_vars => LibInv' /\ ProgInv' /\ [Lib!Next]_(Lib!vars)
BY InitSimulates, LibInitInv, Simulates, LibNextInv, NextProgInv

(* Each of the test programs, whatever its arguments and the number of     *)
(* threads, is one of the programs Libgomp is about: what its constructs   *)
(* do in the library is what a behaviour of Libgomp does.                  *)
THEOREM ProgramsUseLibrary ==
  ASSUME LooksAtOne
  PROVE  Spec /\ prog = TheProgram => Lib!Spec
BY ProgramStep, PTL DEF Spec, Lib!Spec

(* Both invariants hold for ever.                                          *)
LEMMA ProgramInvariant ==
  ASSUME LooksAtOne
  PROVE  Spec /\ prog = TheProgram => [](LibInv /\ ProgInv)
BY ProgramStep, PTL DEF Spec

(* While one of the programs runs, each context is in one place, every     *)
(* switch of the library works, and somebody of the team always has work   *)
(* and can go on with it.                                                  *)
THEOREM ProgramsRunOn ==
  ASSUME LooksAtOne
  PROVE  Spec /\ prog = TheProgram => [](OnePlace /\ SwitchesWork /\ Lib!NeverStuck)
<1>1. Lib!Spec => []Lib!OnePlace /\ []Lib!SwitchesWork /\ []Lib!NeverStuck
  BY Lib!SystemOnePlace, Lib!SwitchesAlwaysWork, Lib!NobodyStuck, LibAssumptions, GompAssumption,
     TasksAssumption, LocksAssumption
     DEF Lib!Contexts, Lib!Ids, Lib!AllLocks, Lib!FreeOps, Lib!Endless, Lib!NoTask, Contexts, Ids,
         AllLocks
<1>2. Lib!OnePlace => OnePlace
  BY DEF Lib!OnePlace, OnePlace, Lib!OnePlaceEach, OnePlaceEach, Lib!OnStack, OnStack, Lib!InFifo,
     InFifo, Lib!InObjects, InObjects, Lib!Contexts, Contexts, Lib!Ids, Ids, Lib!Range, Range,
     Lib!IsInjective, IsInjective
<1>3. Lib!SwitchesWork => SwitchesWork
  BY DEF Lib!SwitchesWork, SwitchesWork, Lib!At, At, Lib!FifoFull, FifoFull, Lib!Contexts, Contexts,
     Lib!Ids, Ids
<1> QED
  BY <1>1, <1>2, <1>3, ProgramsUseLibrary, PTL
=============================================================================
