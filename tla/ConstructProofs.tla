-------------------------- MODULE ConstructProofs ---------------------------
(***************************************************************************)
(* The constructs of a region of libgomp.cpp, for any team, any list of    *)
(* constructs and any number of sections: nobody passes a barrier before   *)
(* all have reached it, each single and each section is run once, and      *)
(* whatever waits for another in one of them does not do so in a circle.   *)
(***************************************************************************)
EXTENDS SystemProofs

(* The constructs that keep the members together: GOMP_sections_end ends   *)
(* with a barrier, GOMP_single_start does not.                             *)
Meetings == {k \in Places : Region[k] \in {"barrier", "sections"}}

(* The construct a member is at.  Suspended in a barrier, it is still at   *)
(* the last one; resumed, it is past it.                                   *)
Here(i) == IF arrived[i] THEN step[i] - 1 ELSE step[i]
Passed(i) == {k \in Meetings : k < Here(i)}

(* All members of the team have passed the same barriers.                  *)
PhaseInv ==
  /\ \A i \in Ids : arrived[i] => Here(i) \in Meetings /\ sec[i] = Out
  /\ \A i, j \in TeamIds : Passed(i) = Passed(j)

(* The singles before place n.                                             *)
Singles == {k \in Places : Region[k] = "single"}
Before(n) == Cardinality({k \in Singles : k < n})

(* Each member has counted the singles it went through, and the team those *)
(* that somebody won.                                                      *)
SingleInv ==
  /\ single \in [Ids -> Nat] /\ teamSingle \in [TeamNos -> Nat]
  /\ \A i \in TeamIds : single[i] = Before(step[i]) /\ single[i] <= teamSingle[1]
  /\ wins = [k \in Places |-> IF k \in Singles /\ Before(k) < teamSingle[1] THEN 1 ELSE 0]

(* The members inside a sections construct, or in the barrier at its end.  *)
AtSectionsEnd(i) == arrived[i] /\ Region[Here(i)] = "sections"
Started == {i \in TeamIds : sec[i] # Out \/ AtSectionsEnd(i)}

(* The sections given out so far of the construct they are in.             *)
GivenOut(s) == section[1] = 0 \/ s < section[1]

(* The team counts who has started until all have, and its other two       *)
(* fields stand for the construct they are in.                             *)
SectionsInv ==
  /\ sectionsCount \in [TeamNos -> Nat] /\ section \in [TeamNos -> Nat]
  /\ sections \in [TeamNos -> 0 .. NumSections] /\ sec \in [Ids -> Out .. NumSections]
  /\ section[1] <= NumSections + 1
  /\ sectionsCount[1] = Cardinality(Started) \/ (sectionsCount[1] = 0 /\ Started = TeamIds)
  /\ Started # {} => sections[1] = NumSections
  /\ \A i \in TeamIds : sec[i] = 0 \/ AtSectionsEnd(i) => section[1] = 0
  /\ ran \in [Places -> [1 .. NumSections -> {0, 1}]]
  /\ \A k \in Places, s \in 1 .. NumSections, i \in TeamIds : Region[k] = "sections" =>
       (ran[k][s] = 1 <=> k \in Passed(i) \/ (GivenOut(s) /\ \E j \in Started : Here(j) = k))

-----------------------------------------------------------------------------
(* How the singles before a place are counted.                             *)
LEMMA BeforeFacts ==
  /\ \A n \in Nat : Before(n) \in Nat
  /\ Before(1) = 0
  /\ \A n \in Places : Before(n + 1) = IF n \in Singles THEN Before(n) + 1 ELSE Before(n)
  /\ \A m, n \in Nat : m <= n => Before(m) <= Before(n)
<1> DEFINE Upto(n) == {k \in Singles : k < n}
<1>1. IsFiniteSet(Singles) /\ Singles \subseteq Nat \ {0}
  <2>1. IsFiniteSet(Places)
    BY Sizes, FS_Interval
  <2>2. Singles \subseteq Places
    BY DEF Singles
  <2>3. \A k \in Places : k \in Nat \ {0}
    BY Sizes
  <2> QED
    BY <2>1, <2>2, <2>3, FS_Subset
<1>2. \A n : IsFiniteSet(Upto(n)) /\ Cardinality(Upto(n)) \in Nat
  <2> TAKE n
  <2>1. Upto(n) \subseteq Singles
    OBVIOUS
  <2> QED
    BY <1>1, <2>1, FS_Subset, FS_CardinalityType
<1>3. Before(1) = 0
  <2>1. \A k \in Singles : ~(k < 1)
    BY <1>1
  <2>2. Upto(1) = {}
    BY <2>1
  <2> QED
    BY <2>2, FS_EmptySet DEF Before
<1>4. ASSUME NEW n \in Places
      PROVE  Before(n + 1) = IF n \in Singles THEN Before(n) + 1 ELSE Before(n)
  <2>1. \A k \in Singles : k < n + 1 <=> k < n \/ k = n
    <3>1. n \in Nat
      BY Sizes
    <3> QED
      BY <1>1, <3>1
  <2>2. CASE n \in Singles
    <3>1. Upto(n + 1) = Upto(n) \cup {n} /\ n \notin Upto(n)
      <4>1. ~(n < n)
        BY Sizes
      <4> QED
        BY <2>1, <2>2, <4>1
    <3>2. Cardinality(Upto(n) \cup {n}) = Cardinality(Upto(n)) + 1
      BY <1>2, <3>1, FS_AddElement
    <3> QED
      BY <2>2, <3>1, <3>2 DEF Before
  <2>3. CASE n \notin Singles
    <3>1. Upto(n + 1) = Upto(n)
      BY <2>1, <2>3
    <3> QED
      BY <2>3, <3>1 DEF Before
  <2> QED
    BY <2>2, <2>3
<1>5. ASSUME NEW m \in Nat, NEW n \in Nat, m <= n PROVE Before(m) <= Before(n)
  <2>1. \A k \in Singles : k < m => k < n
    BY <1>1, <1>5
  <2>2. Upto(m) \subseteq Upto(n)
    BY <2>1
  <2> QED
    BY <1>2, <2>2, FS_Subset DEF Before
<1> QED
  BY <1>2, <1>3, <1>4, <1>5 DEF Before

(* A single is counted at every later place, and so no two count the same. *)
LEMMA SinglesApart ==
  ASSUME NEW k \in Singles, NEW n \in Nat
  PROVE  /\ k < n => Before(k) < Before(n)
         /\ n \in Singles /\ Before(n) = Before(k) => n = k
<1>1. \A i \in Singles : i \in Places /\ i \in Nat /\ i + 1 \in Nat /\ Before(i) \in Nat
  BY Sizes, BeforeFacts DEF Singles
<1>2. \A i \in Singles, j \in Nat : i < j => Before(i) < Before(j)
  <2> TAKE i \in Singles, j \in Nat
  <2> HAVE i < j
  <2>1. Before(i + 1) = Before(i) + 1
    BY <1>1, BeforeFacts
  <2>2. PICK m \in Nat : m = i + 1
    BY <1>1
  <2>3. Before(m) <= Before(j) /\ Before(j) \in Nat /\ Before(m) = Before(i) + 1
    BY <1>1, <2>1, <2>2, BeforeFacts
  <2> QED
    BY <1>1, <2>3
<1> QED
  <2>1. ASSUME n \in Singles, Before(n) = Before(k) PROVE n = k
    <3>1. ~(n < k) /\ ~(k < n)
      BY <1>1, <1>2, <2>1
    <3> QED
      BY <1>1, <3>1
  <2> QED
    BY <1>2, <2>1


-----------------------------------------------------------------------------
(* The inductive invariant of the constructs.                              *)
ConstructInv == PhaseInv /\ SingleInv /\ SectionsInv

(* The steps that no construct sees.                                       *)
constructVars == <<num, arrived, single, teamSingle, sectionVars, step, sec, wins, ran>>

(* Those steps keep the invariant.                                         *)
LEMMA UnseenKeeps ==
  ASSUME ConstructInv, UNCHANGED constructVars
  PROVE  ConstructInv'
<1>1. /\ num' = num /\ arrived' = arrived /\ single' = single /\ teamSingle' = teamSingle
      /\ sectionsCount' = sectionsCount /\ sections' = sections /\ section' = section
      /\ step' = step /\ sec' = sec /\ wins' = wins /\ ran' = ran
  BY DEF constructVars, sectionVars
<1>2. /\ TeamIds' = TeamIds /\ Started' = Started
      /\ \A i : Here(i)' = Here(i) /\ Passed(i)' = Passed(i) /\ AtSectionsEnd(i)' = AtSectionsEnd(i)
  BY <1>1 DEF TeamIds, Started, Here, Passed, AtSectionsEnd
<1>3. PhaseInv'
  BY <1>1, <1>2 DEF ConstructInv, PhaseInv
<1>4. SingleInv'
  BY <1>1, <1>2 DEF ConstructInv, SingleInv
<1>5. SectionsInv'
  BY <1>1, <1>2 DEF ConstructInv, SectionsInv, GivenOut
<1> QED
  BY <1>3, <1>4, <1>5 DEF ConstructInv

(* A member that is about to do one of the constructs.                     *)
LEMMA MemberFacts ==
  ASSUME TaskInv, ThreadInv,
         UserBarrier \/ UserSingle \/ UserSections \/ UserNextSection \/ UserEndSections
  PROVE  /\ cpu \in Ids /\ cpu \in TeamIds /\ Me = cpu /\ team = 1
         /\ ~arrived[cpu] /\ Here(cpu) = step[cpu] /\ step[cpu] \in Places
         /\ UserSections => sec[cpu] = Out
         /\ UserSections \/ UserNextSection \/ UserEndSections => Region[step[cpu]] = "sections"
<1>1. Role = "implicit" /\ pc[cpu] = "user"
  BY DEF UserBarrier, UserSingle, UserSections, UserNextSection, UserEndSections, Meets,
         SectionsNext, SectionsEnd, BarrierEnter, At
<1>2. cpu \in Ids /\ kind[cpu] = "implicit"
  BY <1>1 DEF Role
<1>3. cpu \in TeamIds /\ Me = cpu /\ team = 1
  BY <1>1, <1>2, BusyInRegion DEF Me, TaskInv, WorkersInv
<1>4. ~arrived[cpu]
  BY <1>1, <1>2 DEF ThreadInv, BarrierFlags
<1>5. step[cpu] \in Places
  BY <1>2 DEF UserBarrier, UserSingle, UserSections, UserNextSection, UserEndSections, Meets,
              TaskInv, StepsInv, Out
<1>6. UserSections \/ UserNextSection \/ UserEndSections => Region[step[cpu]] = "sections"
  BY <1>2 DEF UserSections, UserNextSection, UserEndSections, Meets, TaskInv, StepsInv, Out
<1>7. UserSections => sec[cpu] = Out
  BY DEF UserSections, Meets
<1> QED
  BY <1>2, <1>3, <1>4, <1>5, <1>6, <1>7 DEF Here

(* Two members that are at barriers are at the same one.                   *)
LEMMA SameMeeting ==
  ASSUME PhaseInv, NEW i \in TeamIds, NEW j \in TeamIds, Here(i) \in Meetings, Here(j) \in Meetings
  PROVE  Here(i) = Here(j)
<1>1. Here(i) \in Nat /\ Here(j) \in Nat
  BY Sizes DEF Meetings
<1>2. \A k \in Meetings : k < Here(i) <=> k < Here(j)
  <2>1. Passed(i) = Passed(j)
    BY DEF PhaseInv
  <2> QED
    BY <2>1 DEF Passed
<1> QED
  BY <1>1, <1>2

(* A member comes to a barrier: it waits there, or it is the last and with *)
(* it the whole team is past that barrier.                                 *)
Joins(w, k) ==
  /\ arrived' = [arrived EXCEPT ![w] = TRUE]
  /\ \E i \in TeamIds \ {w} : ~arrived[i]
  /\ \A i \in Ids : Here(i)' = Here(i)

Frees(w, k) ==
  /\ \A i \in TeamIds : i # w => arrived[i]
  /\ \A i \in TeamIds : Here(i) = k /\ Here(i)' = k + 1
  /\ \A i \in Ids : ~arrived'[i]

(* Whatever brings it there, GOMP_barrier does one of the two.             *)
LEMMA Arrives ==
  ASSUME TaskInv, ThreadInv, PhaseInv, UserBarrier \/ UserEndSections
  PROVE  \E w \in TeamIds, k \in Meetings :
           /\ w = cpu /\ w \in Ids /\ k = step[w] /\ Here(w) = k /\ ~arrived[w]
           /\ num' = num /\ step' = [step EXCEPT ![w] = k + 1] /\ sec' = [sec EXCEPT ![w] = Out]
           /\ UNCHANGED <<singleVars, sections, section, wins, ran>>
           /\ Joins(w, k) \/ Frees(w, k)
<1>1. PICK w \in Ids : /\ w = cpu /\ w \in TeamIds /\ Me = w /\ team = 1 /\ ~arrived[w]
                       /\ Here(w) = step[w] /\ step[w] \in Places
  BY MemberFacts
<1>2. PICK k \in Places : k = step[w]
  BY <1>1
<1>3. k \in Meetings
  BY <1>1, <1>2, MemberFacts DEF UserBarrier, Meets, Meetings
<1>4. /\ step' = [step EXCEPT ![w] = k + 1] /\ num' = num /\ sec' = [sec EXCEPT ![w] = Out]
      /\ UNCHANGED <<singleVars, sections, section, wins, ran>>
  <2>1. step' = [step EXCEPT ![w] = k + 1] /\ num' = num
    BY <1>1, <1>2, ArrivesFacts DEF UserBarrier, UserEndSections, NextStep
  <2>2. sec' = [sec EXCEPT ![w] = Out]
    BY <1>1 DEF UserBarrier, UserEndSections, Meets, TaskInv, StepsInv
  <2>3. UNCHANGED <<singleVars, sections, section, wins, ran>>
    BY DEF UserBarrier, UserEndSections, SectionsEnd, ButBarrier, sectionVars
  <2> QED
    BY <2>1, <2>2, <2>3
<1>5. BarrierEnter
  BY ArrivesFacts
<1>6. arrived \in [Ids -> BOOLEAN] /\ step \in [Ids -> 1 .. Len(Region) + 1] /\ TeamIds \subseteq Ids
  BY TeamInIds DEF ThreadInv, BarrierFlags, TaskInv, StepsInv
<1>7. k \in Nat /\ \A i \in Ids : step[i] \in Nat
  BY <1>6, Sizes
<1>8. CASE BarrierWait
  <2>1. arrived' = [arrived EXCEPT ![w] = TRUE] /\ \E i \in TeamIds \ {w} : ~arrived[i]
    BY <1>1, <1>8 DEF BarrierWait, TeamToScan
  <2>2. ASSUME NEW i \in Ids PROVE Here(i)' = Here(i)
    <3>1. CASE i = w
      <4>1. arrived'[i] /\ step'[i] = k + 1 /\ (k + 1) - 1 = k
        BY <1>4, <1>6, <1>7, <2>1, <3>1
      <4> QED
        BY <1>1, <1>2, <3>1, <4>1 DEF Here
    <3>2. CASE i # w
      BY <1>4, <1>6, <2>1, <3>2 DEF Here
    <3> QED
      BY <3>1, <3>2
  <2> QED
    BY <1>1, <1>2, <1>3, <1>4, <2>1, <2>2 DEF Joins
<1>9. CASE BarrierLast
  <2>1. /\ \A i \in TeamIds : i # w => arrived[i]
        /\ arrived' = [i \in Ids |-> i \notin TeamIds /\ arrived[i]]
    BY <1>1, <1>9 DEF BarrierLast, TeamToScan
  <2>2. \A i \in Ids : ~arrived'[i]
    BY <2>1 DEF ThreadInv, BarrierFlags
  <2>3. ASSUME NEW i \in TeamIds PROVE Here(i) = k /\ Here(i)' = k + 1
    <3>1. Here(i) = k
      <4>1. Here(i) \in Meetings /\ Here(w) \in Meetings
        BY <1>1, <1>2, <1>3, <1>6, <2>1 DEF PhaseInv
      <4>2. Here(i) = Here(w)
        BY <1>1, <4>1, SameMeeting
      <4> QED
        BY <1>1, <1>2, <4>2
    <3>2. step'[i] = k + 1
      <4>1. CASE i = w
        BY <1>4, <1>6, <4>1
      <4>2. CASE i # w
        <5>1. step[i] - 1 = k /\ step[i] \in Nat
          BY <1>6, <1>7, <2>1, <3>1, <4>2 DEF Here
        <5> QED
          BY <1>4, <1>6, <4>2, <5>1
      <4> QED
        BY <4>1, <4>2
    <3> QED
      BY <1>6, <2>2, <3>1, <3>2 DEF Here
  <2> QED
    BY <1>1, <1>2, <1>3, <1>4, <2>1, <2>2, <2>3 DEF Frees
<1> QED
  BY <1>5, <1>8, <1>9 DEF BarrierEnter


-----------------------------------------------------------------------------
(* The barriers: only the last to arrive takes the team past one.          *)
LEMMA MeetKeepsPhase ==
  ASSUME TaskInv, ThreadInv, PhaseInv, UserBarrier \/ UserEndSections
  PROVE  PhaseInv'
<1>1. PICK w \in TeamIds, k \in Meetings :
           /\ w = cpu /\ w \in Ids /\ k = step[w] /\ Here(w) = k /\ ~arrived[w]
           /\ num' = num /\ step' = [step EXCEPT ![w] = k + 1] /\ sec' = [sec EXCEPT ![w] = Out]
           /\ UNCHANGED <<singleVars, sections, section, wins, ran>>
           /\ Joins(w, k) \/ Frees(w, k)
  BY Arrives
<1>2. TeamIds' = TeamIds /\ TeamIds \subseteq Ids
  BY <1>1, TeamInIds DEF TeamIds, TaskInv
<1>3. arrived \in [Ids -> BOOLEAN] /\ sec \in [Ids -> {sec[i] : i \in Ids}]
  BY DEF ThreadInv, BarrierFlags, TaskInv, StepsInv
<1>4. CASE Joins(w, k)
  <2>1. \A i \in Ids : Here(i)' = Here(i) /\ Passed(i)' = Passed(i)
    BY <1>4 DEF Joins, Passed
  <2>2. \A i \in Ids : arrived'[i] => Here(i) \in Meetings /\ sec'[i] = Out
    BY <1>1, <1>3, <1>4 DEF Joins, PhaseInv
  <2> QED
    BY <1>2, <2>1, <2>2 DEF PhaseInv
<1>5. CASE Frees(w, k)
  <2>1. \A i \in TeamIds : Passed(i)' = {m \in Meetings : m < k + 1}
    BY <1>5 DEF Frees, Passed
  <2> QED
    BY <1>2, <1>5, <2>1 DEF PhaseInv, Frees
<1> QED
  BY <1>1, <1>4, <1>5

(* A single construct is no meeting: its members go on one by one.         *)
LEMMA SingleKeepsPhase ==
  ASSUME TaskInv, ThreadInv, PhaseInv, UserSingle
  PROVE  PhaseInv' /\ \A i \in Ids : Passed(i)' = Passed(i)
<1>1. PICK w \in Ids : /\ w = cpu /\ w \in TeamIds /\ ~arrived[w] /\ Here(w) = step[w]
                       /\ step[w] \in Places
  BY MemberFacts
<1>2. /\ num' = num /\ arrived' = arrived /\ sec' = sec /\ step' = [step EXCEPT ![w] = @ + 1]
      /\ Region[step[w]] = "single"
  BY <1>1 DEF UserSingle, Meets, NextStep, ButSingle, stateVars, barrierVars
<1>3. TeamIds' = TeamIds /\ step \in [Ids -> 1 .. Len(Region) + 1] /\ TeamIds \subseteq Ids
  BY <1>2, TeamInIds DEF TeamIds, TaskInv, StepsInv
<1>4. \A i \in Ids : i # w => Here(i)' = Here(i) /\ Passed(i)' = Passed(i)
  BY <1>2, <1>3 DEF Here, Passed
<1>5. Passed(w)' = Passed(w)
  <2>1. Here(w)' = step[w] + 1
    BY <1>1, <1>2, <1>3 DEF Here
  <2>2. \A m \in Meetings : m # step[w] /\ m \in Nat
    BY <1>2, Sizes DEF Meetings
  <2>3. \A m \in Meetings : m < step[w] + 1 <=> m < step[w]
    BY <1>1, <2>2, Sizes
  <2> QED
    BY <1>1, <2>1, <2>3 DEF Passed
<1> QED
  BY <1>1, <1>2, <1>3, <1>4, <1>5 DEF PhaseInv

(* Nor does taking a section bring a member to the next construct.         *)
LEMMA SectionsKeepPhase ==
  ASSUME TaskInv, ThreadInv, PhaseInv, UserSections \/ UserNextSection
  PROVE  /\ PhaseInv' /\ num' = num /\ step' = step /\ arrived' = arrived
         /\ \A i : Here(i)' = Here(i) /\ Passed(i)' = Passed(i)
<1>1. cpu \in Ids /\ ~arrived[cpu]
  BY MemberFacts
<1>2. /\ num' = num /\ arrived' = arrived /\ step' = step
      /\ \E s : sec' = [sec EXCEPT ![cpu] = s]
  BY DEF UserSections, UserNextSection, GoToSection, ButSections, stateVars, barrierVars
<1>3. \A i : Here(i)' = Here(i) /\ Passed(i)' = Passed(i)
  BY <1>2 DEF Here, Passed
<1>4. TeamIds' = TeamIds
  BY <1>2 DEF TeamIds
<1> QED
  BY <1>1, <1>2, <1>3, <1>4 DEF PhaseInv, TaskInv, StepsInv


-----------------------------------------------------------------------------
(* GOMP_single_start: the member whose count is the team's is the first at *)
(* its construct.                                                          *)
LEMMA SingleKeepsSingle ==
  ASSUME TaskInv, ThreadInv, SingleInv, UserSingle
  PROVE  SingleInv'
<1>1. PICK w \in Ids : w = cpu /\ w \in TeamIds /\ Me = w /\ team = 1 /\ step[w] \in Places
  BY MemberFacts
<1>2. PICK k \in Places : k = step[w]
  BY <1>1
<1> PICK T : T = teamSingle[1]
  OBVIOUS
<1>3. /\ k \in Singles /\ step' = [step EXCEPT ![w] = k + 1] /\ num' = num
      /\ single' = [single EXCEPT ![w] = @ + 1]
      /\ SingleWins <=> single[w] = T
      /\ teamSingle' = IF SingleWins THEN [teamSingle EXCEPT ![1] = T + 1] ELSE teamSingle
      /\ wins' = IF SingleWins THEN [wins EXCEPT ![k] = @ + 1] ELSE wins
  BY <1>1, <1>2 DEF UserSingle, Meets, Singles, NextStep, SingleStart, SingleWins, ButSingle,
                    stateVars
<1>4. TeamIds' = TeamIds /\ TeamIds \subseteq Ids /\ step \in [Ids -> 1 .. Len(Region) + 1]
  BY <1>3, TeamInIds DEF TeamIds, TaskInv, StepsInv
<1>5. T \in Nat /\ single[w] = Before(k) /\ Before(k) <= T /\ Before(k) \in Nat
      /\ \A i \in TeamIds : single[i] \in Nat /\ single[i] = Before(step[i]) /\ single[i] <= T
  BY <1>1, <1>2, <1>4, Sizes DEF SingleInv
<1>6. Before(k + 1) = Before(k) + 1
  BY <1>3, BeforeFacts
<1>7. \A m \in Singles : m \in Nat /\ Before(m) \in Nat /\ (Before(m) = Before(k) => m = k)
  <2> TAKE m \in Singles
  <2>1. m \in Nat /\ Before(m) \in Nat
    BY Sizes, BeforeFacts DEF Singles
  <2>2. Before(m) = Before(k) => m = k
    BY <1>3, <2>1, SinglesApart
  <2> QED
    BY <2>1, <2>2
<1>8. single' \in [Ids -> Nat] /\ teamSingle' \in [TeamNos -> Nat]
  BY <1>3, <1>5, Sizes DEF SingleInv
<1>9. teamSingle'[1] = IF Before(k) = T THEN T + 1 ELSE T
  BY <1>3, <1>5, Sizes DEF SingleInv
<1>10. ASSUME NEW i \in TeamIds PROVE single'[i] = Before(step'[i]) /\ single'[i] <= teamSingle'[1]
  <2>1. CASE i = w
    <3>1. single'[i] = Before(k) + 1 /\ step'[i] = k + 1
      BY <1>3, <1>4, <1>5, <2>1 DEF SingleInv
    <3> QED
      BY <1>5, <1>6, <1>9, <3>1
  <2>2. CASE i # w
    <3>1. single'[i] = single[i] /\ step'[i] = step[i]
      BY <1>3, <1>4, <2>2 DEF SingleInv
    <3> QED
      BY <1>5, <1>9, <3>1
  <2> QED
    BY <2>1, <2>2
<1>11. wins' = [m \in Places |-> IF m \in Singles /\ Before(m) < teamSingle'[1] THEN 1 ELSE 0]
  <2>1. wins = [m \in Places |-> IF m \in Singles /\ Before(m) < T THEN 1 ELSE 0]
    BY DEF SingleInv
  <2>2. CASE Before(k) = T
    <3>1. wins[k] = 0 /\ wins' = [wins EXCEPT ![k] = @ + 1] /\ teamSingle'[1] = T + 1
      BY <1>3, <1>5, <1>9, <2>1, <2>2
    <3>2. \A m \in Singles : Before(m) < T + 1 <=> Before(m) < T \/ m = k
      BY <1>5, <1>7, <2>2
    <3>3. wins' = [m \in Places |-> IF m = k THEN 1 ELSE wins[m]]
      BY <2>1, <3>1
    <3>4. \A m \in Places : (IF m = k THEN 1 ELSE wins[m])
                             = IF m \in Singles /\ Before(m) < T + 1 THEN 1 ELSE 0
      BY <1>3, <2>1, <3>2
    <3> QED
      BY <3>1, <3>3, <3>4
  <2>3. CASE Before(k) # T
    BY <1>3, <1>5, <1>9, <2>1, <2>3
  <2> QED
    BY <2>2, <2>3
<1> QED
  BY <1>4, <1>8, <1>10, <1>11 DEF SingleInv

(* A barrier is no single: going past it changes no count of them.         *)
LEMMA MeetKeepsSingle ==
  ASSUME TaskInv, ThreadInv, PhaseInv, SingleInv, UserBarrier \/ UserEndSections
  PROVE  SingleInv'
<1>1. PICK w \in TeamIds, k \in Meetings :
           /\ w \in Ids /\ k = step[w] /\ num' = num /\ step' = [step EXCEPT ![w] = k + 1]
           /\ UNCHANGED <<singleVars, sections, section, wins, ran>>
  BY Arrives
<1>2. /\ TeamIds' = TeamIds /\ single' = single /\ teamSingle' = teamSingle /\ wins' = wins
      /\ TeamIds \subseteq Ids /\ step \in [Ids -> 1 .. Len(Region) + 1]
  BY <1>1, TeamInIds DEF TeamIds, singleVars, TaskInv, StepsInv
<1>3. Before(k + 1) = Before(k)
  BY BeforeFacts DEF Meetings, Singles
<1>4. \A i \in TeamIds : single'[i] = Before(step'[i])
  BY <1>1, <1>2, <1>3 DEF SingleInv
<1> QED
  BY <1>2, <1>4 DEF SingleInv


-----------------------------------------------------------------------------
(* The members inside a sections construct are inside the same one, and    *)
(* counting them tells whether any or all members are.                     *)
LEMMA StartedFacts ==
  ASSUME TaskInv, PhaseInv
  PROVE  /\ Started \subseteq TeamIds /\ TeamIds \subseteq Ids /\ num \in Nat /\ num >= 1
         /\ IsFiniteSet(Started) /\ Cardinality(Started) \in Nat
         /\ Cardinality(Started) = 0 <=> Started = {}
         /\ Cardinality(Started) = num <=> Started = TeamIds
         /\ \A j \in Started : Here(j) \in Meetings /\ Region[Here(j)] = "sections"
<1>1. Started \subseteq TeamIds /\ TeamIds \subseteq Ids /\ num \in Nat /\ num >= 1
  BY TeamInIds DEF Started, TaskInv, PlacesInv
<1>2. IsFiniteSet(TeamIds) /\ Cardinality(TeamIds) = num
  BY <1>1, FS_Interval DEF TeamIds
<1>3. /\ IsFiniteSet(Started) /\ Cardinality(Started) \in Nat
      /\ Cardinality(Started) = num <=> Started = TeamIds
  BY <1>1, <1>2, FS_Subset, FS_CardinalityType
<1>4. Cardinality(Started) = 0 <=> Started = {}
  BY <1>3, FS_EmptySet
<1>5. ASSUME NEW j \in Started PROVE Here(j) \in Meetings /\ Region[Here(j)] = "sections"
  <2>1. CASE arrived[j]
    BY <1>1, <1>5, <2>1 DEF PhaseInv, Started, AtSectionsEnd
  <2>2. CASE ~arrived[j]
    <3>1. step[j] \in Places /\ Region[step[j]] = "sections"
      BY <1>1, <2>2 DEF Started, AtSectionsEnd, TaskInv, StepsInv
    <3> QED
      BY <2>2, <3>1 DEF Here, Meetings
  <2> QED
    BY <2>1, <2>2
<1> QED
  BY <1>1, <1>3, <1>4, <1>5

(* GOMP_sections_next gives member w the next section of the construct at  *)
(* k when c of the sections are to come, or 0; GOMP_sections_start does so *)
(* from the first.                                                         *)
Gives(w, k, c) ==
  LET s == NextSection(c, NumSections)
  IN  /\ section' = [section EXCEPT ![1] = SectionAfter(c, NumSections)]
      /\ sections' = [sections EXCEPT ![1] = NumSections]
      /\ sec' = [sec EXCEPT ![w] = s]
      /\ ran' = IF s = 0 THEN ran ELSE [ran EXCEPT ![k][s] = @ + 1]
      /\ UNCHANGED <<num, singleVars, step, arrived, wins>>

(* The section given out is the next one, or 0 when none is left, and then *)
(* section latches at 0.                                                   *)
LEMMA GivesFacts ==
  ASSUME NEW c \in 0 .. NumSections + 1,
         NEW s, s = NextSection(c, NumSections), NEW a, a = SectionAfter(c, NumSections)
  PROVE  /\ NumSections \in Nat /\ s \in 0 .. NumSections /\ a \in 0 .. NumSections + 1
         /\ s = 0 => a = 0 /\ \A t \in 1 .. NumSections : c = 0 \/ t < c
         /\ s # 0 => s = c /\ a = c + 1
BY LibgompAssumption DEF NextSection, SectionAfter

(* Giving one section to one member keeps what the fields stand for.       *)
LEMMA GivesKeeps ==
  ASSUME TaskInv, ThreadInv, PhaseInv, SectionsInv,
         NEW w \in TeamIds, w \in Ids, ~arrived[w],
         NEW k \in Meetings, k = step[w], Here(w) = k, Region[k] = "sections",
         NEW c \in 0 .. NumSections + 1, Gives(w, k, c),
         Started = {} => c = 1, Started # {} => c = section[1],
         Started' = Started \cup {w},
         \A i \in Ids : Here(i)' = Here(i) /\ Passed(i)' = Passed(i),
         sectionsCount' \in [TeamNos -> Nat], sectionsCount'[1] = Cardinality(Started')
                                              \/ (sectionsCount'[1] = 0 /\ Started' = TeamIds')
  PROVE  SectionsInv'
<1> PICK N \in Nat : N = NumSections
  BY LibgompAssumption
<1> PICK s : s = NextSection(c, NumSections)
  OBVIOUS
<1> PICK a : a = SectionAfter(c, NumSections)
  OBVIOUS
<1>1. /\ s \in 0 .. N /\ a \in 0 .. N + 1
      /\ s = 0 => a = 0 /\ \A t \in 1 .. N : c = 0 \/ t < c
      /\ s # 0 => s = c /\ a = c + 1
  BY GivesFacts
<1>2. /\ section' = [section EXCEPT ![1] = a] /\ sections' = [sections EXCEPT ![1] = N]
      /\ sec' = [sec EXCEPT ![w] = s]
      /\ ran' = IF s = 0 THEN ran ELSE [ran EXCEPT ![k][s] = @ + 1]
      /\ num' = num /\ step' = step /\ arrived' = arrived
  BY DEF Gives
<1>3. TeamIds' = TeamIds /\ TeamIds \subseteq Ids /\ section[1] \in Nat /\ k \in Places
  BY <1>2, Sizes, TeamInIds DEF TeamIds, TaskInv, SectionsInv, Meetings
<1>4. /\ section' \in [TeamNos -> Nat] /\ sections' \in [TeamNos -> 0 .. N] /\ section'[1] = a
      /\ sections'[1] = N /\ sec' \in [Ids -> Out .. N]
  <2>1. a \in Nat /\ N \in 0 .. N /\ s \in Out .. N
    BY <1>1 DEF Out
  <2>2. section' \in [TeamNos -> Nat] /\ section'[1] = a
    BY <1>2, <2>1, Sizes DEF SectionsInv
  <2>3. sections' \in [TeamNos -> 0 .. N] /\ sections'[1] = N
    BY <1>2, <2>1, Sizes DEF SectionsInv
  <2>4. sec' \in [Ids -> Out .. N]
    BY <1>2, <2>1 DEF SectionsInv
  <2> QED
    BY <2>2, <2>3, <2>4
<1>5. ASSUME NEW i \in TeamIds, sec'[i] = 0 \/ AtSectionsEnd(i)' PROVE a = 0
  <2>1. CASE i = w /\ s = 0
    BY <1>1, <2>1
  <2>2. CASE ~(i = w /\ s = 0)
    <3>1. sec[i] = 0 \/ AtSectionsEnd(i)
      BY <1>2, <1>3, <1>4, <1>5, <2>2 DEF AtSectionsEnd, SectionsInv
    <3>2. i \in Started /\ section[1] = 0
      BY <3>1 DEF Started, SectionsInv, Out
    <3>3. c = 0 /\ 0 <= N
      BY <3>2
    <3> QED
      BY <1>1, <3>3
  <2> QED
    BY <2>1, <2>2
<1>6. \A j \in Started : Here(j) = k
  BY StartedFacts, SameMeeting
<1>7. \A i \in TeamIds : k \notin Passed(i)
  <2>1. k \notin Passed(w)
    BY Sizes DEF Passed, Meetings
  <2> QED
    BY <2>1 DEF PhaseInv
<1>8. \A t \in 1 .. N : ran[k][t] = 1 <=> c = 0 \/ t < c
  <2> TAKE t \in 1 .. N
  <2>1. ran[k][t] = 1 <=> GivenOut(t) /\ Started # {}
    BY <1>3, <1>6, <1>7 DEF SectionsInv
  <2>2. CASE Started = {}
    BY <2>1, <2>2
  <2>3. CASE Started # {}
    BY <2>1, <2>3 DEF GivenOut
  <2> QED
    BY <2>2, <2>3
<1>9. /\ ran' \in [Places -> [1 .. N -> {0, 1}]]
      /\ \A m \in Places : m # k => ran'[m] = ran[m]
      /\ \A t \in 1 .. N : ran'[k][t] = 1 <=> a = 0 \/ t < a
  <2>1. ran \in [Places -> [1 .. N -> {0, 1}]]
    BY DEF SectionsInv
  <2>2. CASE s = 0
    BY <1>1, <1>2, <1>8, <2>1, <2>2
  <2>3. CASE s # 0
    <3>1. ran[k] \in [1 .. N -> {0, 1}] /\ s \in 1 .. N /\ ran[k][s] = 0
      BY <1>1, <1>3, <1>8, <2>1, <2>3
    <3>2. ran' = [ran EXCEPT ![k] = [ran[k] EXCEPT ![s] = 1]]
      BY <1>2, <2>3, <3>1
    <3>3. \A t \in 1 .. N : t < a <=> t < c \/ t = s
      BY <1>1, <2>3
    <3>4. a # 0 /\ c # 0
      BY <1>1, <2>3
    <3> QED
      BY <1>3, <1>8, <2>1, <3>1, <3>2, <3>3, <3>4
  <2> QED
    BY <2>2, <2>3
<1>10. ASSUME NEW m \in Places, NEW t \in 1 .. N, NEW i \in TeamIds, Region[m] = "sections"
       PROVE  ran'[m][t] = 1 <=> m \in Passed(i)' \/ (GivenOut(t)' /\ \E j \in Started' : Here(j)' = m)
  <2>1. \A j \in Started' : Here(j)' = k
    BY <1>3, <1>6 DEF Started
  <2>2. CASE m = k
    <3>1. GivenOut(t)' <=> a = 0 \/ t < a
      BY <1>4 DEF GivenOut
    <3> QED
      BY <1>3, <1>7, <1>9, <2>1, <2>2, <3>1
  <2>3. CASE m # k
    <3>1. ran[m][t] = 1 <=> m \in Passed(i)
      BY <1>6, <1>10, <2>3 DEF SectionsInv
    <3> QED
      BY <1>3, <1>9, <2>1, <2>3, <3>1
  <2> QED
    BY <2>2, <2>3
<1> QED
  BY <1>1, <1>3, <1>4, <1>5, <1>9, <1>10 DEF SectionsInv


(* GOMP_sections_start sets the fields for the first member that comes to  *)
(* the construct, and takes them as they are for the others.               *)
LEMMA SectionsKeepSections ==
  ASSUME TaskInv, ThreadInv, PhaseInv, SectionsInv, UserSections \/ UserNextSection
  PROVE  SectionsInv'
<1>1. PICK w \in Ids : /\ w = cpu /\ w \in TeamIds /\ team = 1 /\ ~arrived[w] /\ Here(w) = step[w]
                       /\ step[w] \in Places /\ Region[step[w]] = "sections"
                       /\ UserSections => sec[w] = Out
  BY MemberFacts
<1>2. PICK k \in Meetings : k = step[w]
  BY <1>1 DEF Meetings
<1>3. /\ num' = num /\ step' = step /\ arrived' = arrived
      /\ \A i \in Ids : Here(i)' = Here(i) /\ Passed(i)' = Passed(i)
  BY SectionsKeepPhase
<1>4. UNCHANGED <<singleVars, wins>>
  BY DEF UserSections, UserNextSection, GoToSection, ButSections
<1>5. TeamIds' = TeamIds /\ TeamIds \subseteq Ids /\ sectionsCount \in [TeamNos -> Nat]
      /\ sections \in [TeamNos -> 0 .. NumSections]
  BY <1>3, TeamInIds DEF TeamIds, TaskInv, SectionsInv
<1>6. \A i \in TeamIds : i # w => sec'[i] = sec[i]
  BY <1>1, <1>5 DEF UserSections, UserNextSection, GoToSection, TaskInv, StepsInv
<1>7. \A i \in TeamIds : AtSectionsEnd(i)' = AtSectionsEnd(i)
  BY <1>3, <1>5 DEF AtSectionsEnd
<1>8. ASSUME sec'[w] # Out PROVE Started' = Started \cup {w}
  BY <1>1, <1>5, <1>6, <1>7, <1>8 DEF Started
<1>9. CASE UserSections
  <2>1. w \notin Started
    BY <1>1, <1>9 DEF Started, AtSectionsEnd
  <2>2. sectionsCount[1] = Cardinality(Started)
    BY <1>1, <2>1 DEF SectionsInv
  <2>3. FirstInSections <=> Started = {}
    BY <1>1, <2>2, StartedFacts DEF FirstInSections
  <2> PICK c : c = SectionFrom
    OBVIOUS
  <2>4. /\ c \in 0 .. NumSections + 1 /\ SectionsFor(NumSections) = NumSections
        /\ Started = {} => c = 1
        /\ Started # {} => c = section[1]
    <3>1. NumSections \in Nat /\ section[1] \in 0 .. NumSections + 1
      BY LibgompAssumption, Sizes DEF SectionsInv
    <3> QED
      BY <1>1, <2>3, <3>1 DEF SectionFrom, SectionsFor, SectionsInv
  <2>5. /\ sections' = [sections EXCEPT ![1] = NumSections]
        /\ section' = [section EXCEPT ![1] = SectionAfter(c, NumSections)]
        /\ sectionsCount' = [sectionsCount EXCEPT ![1] = @ + 1]
        /\ sec' = [sec EXCEPT ![w] = NextSection(c, NumSections)]
        /\ ran' = IF NextSection(c, NumSections) = 0 THEN ran
                  ELSE [ran EXCEPT ![k][NextSection(c, NumSections)] = @ + 1]
    BY <1>1, <1>2, <1>9, <2>4 DEF UserSections, SectionsStart, GoToSection
  <2>6. Gives(w, k, c)
    BY <1>3, <1>4, <2>5 DEF Gives
  <2>7. Started' = Started \cup {w}
    <3>1. NextSection(c, NumSections) \in 0 .. NumSections
      BY <2>4, GivesFacts
    <3>2. sec'[w] # Out
      BY <2>5, <3>1 DEF Out, SectionsInv
    <3> QED
      BY <1>8, <3>2
  <2>8. /\ sectionsCount' \in [TeamNos -> Nat]
        /\ sectionsCount'[1] = Cardinality(Started')
           \/ (sectionsCount'[1] = 0 /\ Started' = TeamIds')
    <3>1. Cardinality(Started') = Cardinality(Started) + 1
      BY <2>1, <2>7, StartedFacts, FS_AddElement
    <3> QED
      BY <1>5, <2>2, <2>5, <3>1, Sizes
  <2> QED
    BY <1>1, <1>2, <1>3, <2>4, <2>6, <2>7, <2>8, GivesKeeps
<1>10. CASE UserNextSection
  <2>1. sec[w] > 0 /\ sec[w] # Out /\ w \in Started
    BY <1>1, <1>10 DEF UserNextSection, Out, Started
  <2> PICK c : c = section[1]
    OBVIOUS
  <2>2. c \in 0 .. NumSections + 1 /\ sections[1] = NumSections
    BY <2>1, LibgompAssumption, Sizes DEF SectionsInv
  <2>3. /\ sections' = sections
        /\ section' = [section EXCEPT ![1] = SectionAfter(c, NumSections)]
        /\ sectionsCount' = sectionsCount
        /\ sec' = [sec EXCEPT ![w] = NextSection(c, NumSections)]
        /\ ran' = IF NextSection(c, NumSections) = 0 THEN ran
                  ELSE [ran EXCEPT ![k][NextSection(c, NumSections)] = @ + 1]
    BY <1>1, <1>2, <1>10, <2>2 DEF UserNextSection, SectionsNext, GoToSection
  <2>4. sections' = [sections EXCEPT ![1] = NumSections]
    BY <1>5, <2>2, <2>3
  <2>5. Gives(w, k, c)
    BY <1>3, <1>4, <2>3, <2>4 DEF Gives
  <2>6. Started' = Started \cup {w} /\ Started' = Started
    <3>1. NextSection(c, NumSections) \in 0 .. NumSections
      BY <2>2, GivesFacts
    <3>2. sec'[w] # Out
      BY <2>3, <3>1 DEF Out, SectionsInv
    <3> QED
      BY <1>8, <2>1, <3>2
  <2>7. /\ sectionsCount' \in [TeamNos -> Nat]
        /\ sectionsCount'[1] = Cardinality(Started')
           \/ (sectionsCount'[1] = 0 /\ Started' = TeamIds')
    BY <1>5, <2>3, <2>6 DEF SectionsInv
  <2> QED
    BY <1>1, <1>2, <1>3, <2>1, <2>2, <2>5, <2>6, <2>7, GivesKeeps
<1> QED
  BY <1>9, <1>10

(* The barrier at the end of a sections construct opens when all have      *)
(* started it, which GOMP_sections_end has found by then, and all sections *)
(* have been given out.                                                    *)
LEMMA MeetKeepsSections ==
  ASSUME TaskInv, ThreadInv, PhaseInv, SectionsInv, UserBarrier \/ UserEndSections
  PROVE  SectionsInv'
<1>1. PICK w \in TeamIds, k \in Meetings :
           /\ w = cpu /\ w \in Ids /\ k = step[w] /\ Here(w) = k /\ ~arrived[w]
           /\ num' = num /\ step' = [step EXCEPT ![w] = k + 1] /\ sec' = [sec EXCEPT ![w] = Out]
           /\ UNCHANGED <<singleVars, sections, section, wins, ran>>
           /\ Joins(w, k) \/ Frees(w, k)
  BY Arrives
<1>2. /\ Started \subseteq TeamIds /\ TeamIds \subseteq Ids /\ num \in Nat /\ num >= 1
      /\ Cardinality(Started) = 0 <=> Started = {}
      /\ Cardinality(Started) = num <=> Started = TeamIds
      /\ \A j \in Started : Here(j) \in Meetings /\ Region[Here(j)] = "sections"
  BY StartedFacts
<1>3. TeamIds' = TeamIds /\ arrived \in [Ids -> BOOLEAN] /\ sec \in [Ids -> Out .. NumSections]
  BY <1>1 DEF TeamIds, ThreadInv, BarrierFlags, SectionsInv
<1>4. sec' \in [Ids -> Out .. NumSections]
  BY <1>1, <1>3, LibgompAssumption DEF Out
<1>5. \A j \in Started : Here(j) = k
  BY <1>1, <1>2, SameMeeting
<1>6. UserBarrier => /\ Region[k] # "sections" /\ sec[w] = Out /\ sectionsCount' = sectionsCount
                     /\ Started = {}
  <2> HAVE UserBarrier
  <2>1. Region[k] # "sections" /\ sec[w] = Out /\ sectionsCount' = sectionsCount
    BY <1>1 DEF UserBarrier, Meets, ButBarrier, sectionVars
  <2> QED
    BY <1>2, <1>5, <2>1
<1>7. UserEndSections =>
        /\ Region[k] = "sections" /\ sec[w] = 0 /\ w \in Started /\ section[1] = 0
        /\ sectionsCount' = [sectionsCount EXCEPT ![1] = IF @ = num THEN 0 ELSE @]
  <2> HAVE UserEndSections
  <2>1. Region[k] = "sections" /\ sec[w] = 0 /\ team = 1
    BY <1>1, MemberFacts DEF UserEndSections
  <2> QED
    BY <1>1, <2>1 DEF UserEndSections, SectionsEnd, Started, SectionsInv, Out
<1>8. sectionsCount' \in [TeamNos -> Nat]
  BY <1>6, <1>7, Sizes DEF SectionsInv
<1>9. CASE Joins(w, k)
  <2>1. \A i \in Ids : Here(i)' = Here(i) /\ Passed(i)' = Passed(i)
    BY <1>9 DEF Joins, Passed
  <2>2. \A i \in TeamIds : AtSectionsEnd(i)' <=> AtSectionsEnd(i) \/ (i = w /\ Region[k] = "sections")
    BY <1>1, <1>2, <1>3, <1>9, <2>1 DEF AtSectionsEnd, Joins
  <2>3. \A i \in TeamIds : i # w => sec'[i] = sec[i]
    BY <1>1, <1>2, <1>3
  <2>4. sec'[w] = Out
    BY <1>1, <1>3
  <2>5. ASSUME NEW i \in TeamIds
        PROVE  sec'[i] # Out \/ AtSectionsEnd(i)' <=> sec[i] # Out \/ AtSectionsEnd(i)
    <3>1. CASE i # w
      BY <2>2, <2>3, <3>1
    <3>2. CASE i = w
      BY <1>6, <1>7, <2>2, <2>4, <3>2 DEF Out
    <3> QED
      BY <3>1, <3>2
  <2>6. Started' = Started
    BY <1>3, <2>5 DEF Started
  <2>7. sectionsCount'[1] = Cardinality(Started') \/ (sectionsCount'[1] = 0 /\ Started' = TeamIds')
    <3>1. CASE UserBarrier
      BY <1>3, <1>6, <2>6, <3>1 DEF SectionsInv
    <3>2. CASE UserEndSections
      <4>1. sectionsCount'[1] = IF sectionsCount[1] = num THEN 0 ELSE sectionsCount[1]
        BY <1>7, <3>2, Sizes DEF SectionsInv
      <4>2. sectionsCount[1] = Cardinality(Started) \/ (sectionsCount[1] = 0 /\ Started = TeamIds)
        BY DEF SectionsInv
      <4> QED
        BY <1>2, <1>3, <2>6, <4>1, <4>2
    <3> QED
      BY <3>1, <3>2
  <2>8. \A i \in TeamIds : sec'[i] = 0 \/ AtSectionsEnd(i)' => section[1] = 0
    <3> TAKE i \in TeamIds
    <3>1. CASE i # w
      BY <2>2, <2>3, <3>1 DEF SectionsInv
    <3>2. CASE i = w
      <4>1. ~AtSectionsEnd(w) /\ sec'[w] # 0
        BY <1>1, <2>4 DEF AtSectionsEnd, Out
      <4> QED
        BY <1>6, <1>7, <2>2, <3>2, <4>1
    <3> QED
      BY <3>1, <3>2
  <2>9. \A m \in Places, s \in 1 .. NumSections, i \in TeamIds : Region[m] = "sections" =>
          (ran[m][s] = 1 <=> m \in Passed(i)' \/ (GivenOut(s) /\ \E j \in Started' : Here(j)' = m))
    <3>1. \A m : (\E j \in Started' : Here(j)' = m) <=> \E j \in Started : Here(j) = m
      BY <1>2, <2>1, <2>6
    <3> QED
      BY <1>2, <2>1, <3>1 DEF SectionsInv
  <2> QED
    BY <1>1, <1>3, <1>4, <1>8, <2>6, <2>7, <2>8, <2>9 DEF SectionsInv, GivenOut
<1>10. CASE Frees(w, k)
  <2>1. \A i \in TeamIds : i # w => sec[i] = Out
    BY <1>2, <1>10 DEF Frees, PhaseInv
  <2>2. \A i \in TeamIds : sec'[i] = Out /\ ~AtSectionsEnd(i)'
    BY <1>1, <1>2, <1>3, <1>10, <2>1 DEF Frees, AtSectionsEnd
  <2>3. Started' = {}
    BY <1>3, <2>2 DEF Started
  <2>4. UserEndSections => Started = TeamIds
    <3> HAVE UserEndSections
    <3>1. ASSUME NEW i \in TeamIds PROVE i \in Started
      <4>1. CASE i = w
        BY <1>7, <4>1
      <4>2. CASE i # w
        BY <1>7, <1>10, <4>2 DEF Frees, Started, AtSectionsEnd
      <4> QED
        BY <4>1, <4>2
    <3> QED
      BY <1>2, <3>1
  <2>5. sectionsCount'[1] = Cardinality(Started')
    <3>1. sectionsCount[1] = Cardinality(Started) \/ (sectionsCount[1] = 0 /\ Started = TeamIds)
      BY DEF SectionsInv
    <3>2. CASE UserBarrier
      BY <1>2, <1>6, <2>3, <3>1, <3>2
    <3>3. CASE UserEndSections
      <4>1. sectionsCount'[1] = IF sectionsCount[1] = num THEN 0 ELSE sectionsCount[1]
        BY <1>7, <3>3, Sizes DEF SectionsInv
      <4>2. Cardinality(Started') = 0
        BY <2>3, FS_EmptySet
      <4> QED
        BY <1>2, <2>4, <3>1, <3>3, <4>1, <4>2
    <3> QED
      BY <3>2, <3>3
  <2>6. ASSUME NEW m \in Places, NEW s \in 1 .. NumSections, NEW i \in TeamIds,
               Region[m] = "sections"
        PROVE  ran[m][s] = 1 <=> m \in Passed(i)'
    <3>1. m \in Meetings /\ m \in Nat /\ k \in Nat
      BY <2>6, Sizes DEF Meetings
    <3>2. m \in Passed(i) <=> m < k
      BY <1>10, <3>1 DEF Frees, Passed
    <3>3. m \in Passed(i)' <=> m < k + 1
      BY <1>10, <3>1 DEF Frees, Passed
    <3>4. ran[m][s] = 1 <=> m < k \/ (GivenOut(s) /\ \E j \in Started : Here(j) = m)
      BY <2>6, <3>2 DEF SectionsInv
    <3>5. (GivenOut(s) /\ \E j \in Started : Here(j) = m) <=> m = k
      <4>1. CASE UserBarrier
        BY <1>6, <2>6, <4>1
      <4>2. CASE UserEndSections
        BY <1>5, <1>7, <4>2 DEF GivenOut
      <4> QED
        BY <4>1, <4>2
    <3> QED
      BY <3>1, <3>3, <3>4, <3>5
  <2>7. \A i \in TeamIds : ~(sec'[i] = 0 \/ AtSectionsEnd(i)')
    BY <2>2 DEF Out
  <2> QED
    BY <1>1, <1>3, <1>4, <1>8, <2>3, <2>5, <2>6, <2>7 DEF SectionsInv
<1> QED
  BY <1>1, <1>9, <1>10


(* A single is no part of a sections construct, and its count no part of   *)
(* theirs.                                                                 *)
LEMMA SingleKeepsSections ==
  ASSUME TaskInv, ThreadInv, PhaseInv, SectionsInv, UserSingle
  PROVE  SectionsInv'
<1>1. PICK w \in Ids : w = cpu /\ w \in TeamIds /\ ~arrived[w]
  BY MemberFacts
<1>2. /\ num' = num /\ arrived' = arrived /\ sec' = sec /\ ran' = ran /\ sec[w] = Out
      /\ UNCHANGED sectionVars /\ step' = [step EXCEPT ![w] = @ + 1]
  BY <1>1 DEF UserSingle, Meets, NextStep, ButSingle, stateVars, barrierVars
<1>3. TeamIds' = TeamIds /\ TeamIds \subseteq Ids
  BY <1>2, TeamInIds DEF TeamIds, TaskInv
<1>4. \A i \in Ids : i # w => Here(i)' = Here(i)
  BY <1>2 DEF Here, TaskInv, StepsInv
<1>5. \A i \in TeamIds : AtSectionsEnd(i)' <=> AtSectionsEnd(i)
  BY <1>1, <1>2, <1>3, <1>4 DEF AtSectionsEnd
<1>6. Started' = Started /\ w \notin Started
  BY <1>1, <1>2, <1>3, <1>5 DEF Started, AtSectionsEnd
<1>7. \A m : (\E j \in Started' : Here(j)' = m) <=> \E j \in Started : Here(j) = m
  BY <1>3, <1>4, <1>6 DEF Started
<1>8. \A i \in TeamIds : Passed(i)' = Passed(i)
  BY <1>3, SingleKeepsPhase
<1>9. /\ sectionsCount' = sectionsCount /\ sections' = sections /\ section' = section
      /\ \A s : GivenOut(s)' <=> GivenOut(s)
  BY <1>2 DEF sectionVars, GivenOut
<1>10. \A k \in Places, s \in 1 .. NumSections, i \in TeamIds : Region[k] = "sections" =>
        (ran[k][s] = 1 <=> k \in Passed(i)' \/ (GivenOut(s) /\ \E j \in Started' : Here(j)' = k))
  BY <1>7, <1>8 DEF SectionsInv
<1> QED
  BY <1>2, <1>3, <1>5, <1>6, <1>9, <1>10 DEF SectionsInv

(* The singles need nothing of the sections.                               *)
LEMMA SectionsKeepSingle ==
  ASSUME TaskInv, ThreadInv, PhaseInv, SingleInv, UserSections \/ UserNextSection
  PROVE  SingleInv'
<1>1. UNCHANGED <<num, step, singleVars, wins>>
  BY DEF UserSections, UserNextSection, GoToSection, ButSections, stateVars
<1> QED
  BY <1>1 DEF SingleInv, TeamIds, singleVars

-----------------------------------------------------------------------------
(* A state in which no member has met a construct, as at the start of a    *)
(* region and of the program.                                              *)
Fresh ==
  /\ TeamIds \subseteq Ids
  /\ step = [i \in Ids |-> 1] /\ (\A i \in Ids : ~arrived[i]) /\ sec = [i \in Ids |-> Out]
  /\ single \in [Ids -> Nat] /\ (\A i \in TeamIds : single[i] = 0)
  /\ teamSingle \in [TeamNos -> Nat] /\ sectionsCount \in [TeamNos -> Nat]
  /\ sections \in [TeamNos -> 0 .. NumSections] /\ section \in [TeamNos -> Nat]
  /\ teamSingle[1] = 0 /\ sectionsCount[1] = 0 /\ section[1] = 0
  /\ wins = [k \in Places |-> 0] /\ ran = [k \in Places |-> [s \in 1 .. NumSections |-> 0]]

(* There the invariant holds.                                              *)
LEMMA FreshInv == Fresh => ConstructInv
<1> SUFFICES ASSUME Fresh PROVE ConstructInv
  OBVIOUS
<1>1. \A i \in TeamIds : Here(i) = 1 /\ Passed(i) = {} /\ ~AtSectionsEnd(i)
  <2>1. \A i \in TeamIds : Here(i) = 1 /\ ~AtSectionsEnd(i)
    BY DEF Fresh, Here, AtSectionsEnd
  <2>2. \A m \in Meetings : ~(m < 1)
    BY Sizes DEF Meetings
  <2> QED
    BY <2>1, <2>2 DEF Passed
<1>2. Started = {} /\ Cardinality({}) = 0
  BY <1>1, FS_EmptySet DEF Started, Fresh
<1>3. PhaseInv
  BY <1>1 DEF PhaseInv, Fresh
<1>4. SingleInv
  <2>1. \A k \in Places : ~(Before(k) < 0)
    BY Sizes, BeforeFacts
  <2>2. wins = [k \in Places |-> IF k \in Singles /\ Before(k) < teamSingle[1] THEN 1 ELSE 0]
    BY <2>1 DEF Fresh
  <2> QED
    BY <2>2, BeforeFacts DEF SingleInv, Fresh
<1>5. SectionsInv
  <2>1. NumSections \in Nat /\ Out \in Out .. NumSections
    BY LibgompAssumption DEF Out
  <2>2. sec \in [Ids -> Out .. NumSections] /\ \A i \in TeamIds : sec[i] # 0
    BY <2>1 DEF Fresh, Out
  <2>3. ran \in [Places -> [1 .. NumSections -> {0, 1}]]
    BY DEF Fresh
  <2>4. \A k \in Places, s \in 1 .. NumSections : ran[k][s] # 1
    BY DEF Fresh
  <2>5. section[1] <= NumSections + 1
    BY <2>1 DEF Fresh
  <2> QED
    BY <1>1, <1>2, <2>2, <2>3, <2>4, <2>5 DEF SectionsInv, Fresh
<1> QED
  BY <1>3, <1>4, <1>5 DEF ConstructInv

(* GOMP_parallel gives a team in which nothing is left of the last.        *)
LEMMA RegionIsFresh ==
  ASSUME TaskInv, TaskInv', ThreadInv, ConstructInv, StartRegion
  PROVE  ConstructInv'
<1>1. PICK n \in NumThreads : Parallel(n)
  BY DEF StartRegion
<1>2. cpu = Main /\ team = 0 /\ tasks[1] = 0 /\ team + 1 = 1
  BY <1>1, SerialFacts DEF StartRegion, Parallel
<1>3. \A i \in Ids : kind[i] = "none" /\ pc[i] \in {"unborn", "loop"}
  BY <1>2, AllIdle
<1>4. sec = [i \in Ids |-> Out] /\ \A i \in Ids : ~arrived[i]
  BY <1>3 DEF TaskInv, StepsInv, ThreadInv, BarrierFlags
<1>5. /\ num' = TeamSize(n)
      /\ arrived' = [i \in Ids |-> i \notin 0 .. TeamSize(n) - 1 /\ arrived[i]]
      /\ single' = [i \in Ids |-> IF i \in 0 .. TeamSize(n) - 1 THEN 0 ELSE single[i]]
      /\ teamSingle' = [teamSingle EXCEPT ![1] = 0]
      /\ sectionsCount' = [sectionsCount EXCEPT ![1] = 0]
      /\ sections' = [sections EXCEPT ![1] = 0] /\ section' = [section EXCEPT ![1] = 0]
  BY <1>1, <1>2 DEF Parallel
<1>6. /\ step' = [i \in Ids |-> 1] /\ sec' = sec /\ wins' = [k \in Places |-> 0]
      /\ ran' = [k \in Places |-> [s \in 1 .. NumSections |-> 0]]
  BY DEF StartRegion
<1>7. TeamIds' = 0 .. TeamSize(n) - 1 /\ TeamIds' \subseteq Ids
  BY <1>5, TeamFits, Sizes DEF TeamIds, Ids
<1>8. \A i \in Ids : ~arrived'[i]
  BY <1>4, <1>5
<1>9. single' \in [Ids -> Nat] /\ \A i \in TeamIds' : single'[i] = 0
  BY <1>5, <1>7 DEF ConstructInv, SingleInv
<1>10. /\ teamSingle' \in [TeamNos -> Nat] /\ sectionsCount' \in [TeamNos -> Nat]
       /\ section' \in [TeamNos -> Nat]
       /\ teamSingle'[1] = 0 /\ sectionsCount'[1] = 0 /\ section'[1] = 0
  BY <1>5, Sizes DEF ConstructInv, SingleInv, SectionsInv
<1>11. sections' \in [TeamNos -> 0 .. NumSections]
  <2>1. 0 \in 0 .. NumSections
    BY LibgompAssumption
  <2> QED
    BY <1>5, <2>1 DEF ConstructInv, SectionsInv
<1>12. Fresh'
  BY <1>4, <1>6, <1>7, <1>8, <1>9, <1>10, <1>11 DEF Fresh
<1>13. Fresh' => ConstructInv'
  BY FreshInv, PTL
<1> QED
  BY <1>12, <1>13

(* libgomp_init leaves such a state.                                       *)
LEMMA InitConstructInv == Init => ConstructInv
<1> SUFFICES ASSUME Init PROVE ConstructInv
  OBVIOUS
<1>1. TeamIds \subseteq Ids
  BY TasksAssumption, Sizes DEF Init, SystemInit, TeamIds, Ids
<1>2. 0 \in 0 .. NumSections
  BY LibgompAssumption
<1>3. Fresh
  BY <1>1, <1>2, Sizes DEF Init, SystemInit, Fresh
<1> QED
  BY <1>3, FreshInv

(* Every step keeps the invariant.                                         *)
LEMMA NextConstructInv ==
  ASSUME TasksInRegions, SysInv, ConstructInv, [Next]_vars
  PROVE  ConstructInv'
<1> USE DEF SysInv
<1>1. CASE UNCHANGED vars
  BY <1>1, UnseenKeeps DEF vars, systemVars, libraryVars, stateVars, barrierVars, singleVars,
                           clientVars, seenVars, constructVars
<1>2. CASE System
  <2>1. CASE Boot
    BY <1>1, <1>2, <2>1, UnseenKeeps DEF System, Boot, SpawnWorker, SpawnMain, Background, Halt,
         libraryVars, stateVars, barrierVars, singleVars, clientVars, seenVars, constructVars
  <2> QED
    BY <1>1, <1>2, <2>1 DEF System
<1>3. CASE FreeOp
  BY <1>3, UnseenKeeps DEF FreeOp, UserYield, UserCritical, Retry, UserEndCritical, UserTask,
       LockOp, ButCritical, ButTasks, ButLocks, libraryVars, stateVars, barrierVars, singleVars,
       seenVars, constructVars
<1>4. CASE Construct
  <2>1. CASE UserBarrier \/ UserEndSections
    BY <2>1, MeetKeepsPhase, MeetKeepsSingle, MeetKeepsSections DEF ConstructInv
  <2>2. CASE UserSingle
    BY <2>2, SingleKeepsPhase, SingleKeepsSingle, SingleKeepsSections DEF ConstructInv
  <2>3. CASE UserSections \/ UserNextSection
    BY <2>3, SectionsKeepPhase, SectionsKeepSingle, SectionsKeepSections DEF ConstructInv
  <2>4. CASE InBarrier
    BY <2>4, UnseenKeeps DEF InBarrier, BarrierRelease, BarrierReturn, ButBarrier, stateVars,
         barrierVars, singleVars, clientVars, seenVars, constructVars
  <2> QED
    BY <1>4, <2>1, <2>2, <2>3, <2>4 DEF Construct
<1>5. CASE TaskLife
  <2>1. CASE StartRegion
    BY <2>1, NextTaskInv, RegionIsFresh DEF Next, TaskLife
  <2>2. CASE Worker \/ EndTask
    BY <2>2, UnseenKeeps DEF Worker, EndTask, ButTasks, stateVars, barrierVars, singleVars,
         clientVars, seenVars, constructVars
  <2>3. CASE Join
    BY <2>3, UnseenKeeps DEF Join, stateVars, barrierVars, singleVars, seenVars, constructVars
  <2>4. CASE EndMain
    BY <2>4, UnseenKeeps DEF EndMain, MainReturns, libraryVars, stateVars, barrierVars,
         singleVars, clientVars, seenVars, constructVars
  <2> QED
    BY <1>5, <2>1, <2>2, <2>3, <2>4 DEF TaskLife
<1> QED
  BY <1>1, <1>2, <1>3, <1>4, <1>5 DEF Next


(* What holds of a region's constructs in every state of a program that    *)
(* keeps its tasks in regions.                                             *)
LEMMA ConstructInvariant ==
  ASSUME TasksInRegions
  PROVE  Spec => [](SysInv /\ ConstructInv)
<1>1. SysInv /\ ConstructInv /\ [Next]_vars => ConstructInv'
  BY NextConstructInv
<1> QED
  BY <1>1, InitConstructInv, SysInvariant, PTL DEF Spec

(* A member that is past a barrier by Past has passed it by Here.          *)
LEMMA PastIsPassed ==
  ASSUME TaskInv, ThreadInv, NEW i \in TeamIds, NEW k \in Meetings, Past(i, k)
  PROVE  k \in Passed(i)
<1>1. i \in Ids /\ step[i] \in Nat /\ k \in Nat
  BY TeamInIds, Sizes DEF TaskInv, StepsInv, Meetings
<1>2. arrived[i] => step[i] > k + 1
  BY <1>1 DEF Past, ThreadInv, BarrierFlags
<1> QED
  BY <1>1, <1>2 DEF Past, Passed, Here

(* No member of a team passes a barrier, or the one that ends a sections   *)
(* construct, before all members have reached it.                          *)
THEOREM BarriersHold ==
  ASSUME TasksInRegions
  PROVE  Spec => []BarrierOrder
<1>1. SysInv /\ ConstructInv => BarrierOrder
  <2> SUFFICES ASSUME SysInv, ConstructInv,
                      NEW k \in Places, NEW i \in TeamIds, NEW j \in TeamIds,
                      Region[k] \in {"barrier", "sections"}, Past(i, k)
               PROVE  Reached(j, k)
    BY DEF BarrierOrder
  <2>1. k \in Meetings
    BY DEF Meetings
  <2>2. k \in Passed(j)
    BY <2>1, PastIsPassed DEF SysInv, ConstructInv, PhaseInv
  <2>3. j \in Ids /\ step[j] \in Nat /\ k \in Nat
    BY TeamInIds, Sizes DEF SysInv, TaskInv, StepsInv
  <2> QED
    BY <2>2, <2>3 DEF Passed, Here, Reached
<1> QED
  BY <1>1, ConstructInvariant, PTL

(* GOMP_single_start tells no two members to run the same single, and has  *)
(* told one when the first member is past it.                              *)
THEOREM SinglesRunOnce ==
  ASSUME TasksInRegions
  PROVE  Spec => []SingleOnce
<1>1. SysInv /\ ConstructInv => SingleOnce
  <2> SUFFICES ASSUME SysInv, ConstructInv, NEW k \in Places, Region[k] = "single"
               PROVE  /\ wins[k] <= 1
                      /\ (\E i \in TeamIds : Reached(i, k)) => wins[k] = 1
    BY DEF SingleOnce
  <2>1. k \in Singles /\ wins[k] = IF Before(k) < teamSingle[1] THEN 1 ELSE 0
    BY DEF Singles, ConstructInv, SingleInv
  <2>2. ASSUME NEW i \in TeamIds, Reached(i, k) PROVE Before(k) < teamSingle[1]
    <3>1. PICK n \in Nat : n = step[i]
      BY TeamInIds, Sizes DEF SysInv, TaskInv, StepsInv
    <3>2. Before(n) <= teamSingle[1] /\ teamSingle[1] \in Nat
      BY <3>1, Sizes DEF ConstructInv, SingleInv
    <3>3. Before(k) < Before(n) /\ Before(n) \in Nat /\ Before(k) \in Nat
      <4>1. k \in Nat /\ k < n
        BY <2>2, <3>1, Sizes DEF Reached
      <4> QED
        BY <2>1, <4>1, SinglesApart, BeforeFacts
    <3> QED
      BY <3>2, <3>3
  <2> QED
    BY <2>1, <2>2
<1> QED
  BY <1>1, ConstructInvariant, PTL

(* Each section of each sections construct is given out at most once, and  *)
(* has been when the first member is past the construct, though the team   *)
(* has one set of fields for all its sections constructs.                  *)
THEOREM SectionsRunOnce ==
  ASSUME TasksInRegions
  PROVE  Spec => []SectionsOnce
<1>1. SysInv /\ ConstructInv => SectionsOnce
  <2> SUFFICES ASSUME SysInv, ConstructInv, NEW k \in Places, NEW s \in 1 .. NumSections,
                      Region[k] = "sections"
               PROVE  /\ ran[k][s] <= 1
                      /\ (\E i \in TeamIds : Past(i, k)) => ran[k][s] = 1
    BY DEF SectionsOnce
  <2>1. ran[k][s] \in {0, 1}
    BY DEF ConstructInv, SectionsInv
  <2>2. ASSUME NEW i \in TeamIds, Past(i, k) PROVE ran[k][s] = 1
    <3>1. k \in Passed(i)
      BY <2>2, PastIsPassed DEF Meetings, SysInv
    <3> QED
      BY <3>1 DEF ConstructInv, SectionsInv
  <2> QED
    BY <2>1, <2>2
<1> QED
  BY <1>1, ConstructInvariant, PTL


-----------------------------------------------------------------------------
(* What TypeOK says beyond the other invariants: the bounds of the program *)
(* are spent one by one, and no team but the first two is used.            *)
BoundsInv ==
  /\ fuel \in [Contexts -> Amounts] /\ regions \in 0 .. MaxRegions
  /\ created \in 0 .. MaxExplicit
  /\ \A t \in TeamNos : t \notin {0, 1} => tasks[t] = 0

(* What is left of the operations of a task after one more.                *)
Less(x) == IF x = Endless THEN x ELSE x - 1

(* A step spends at most one free operation, and a new task has Fuel.      *)
LEMMA FuelSteps ==
  ASSUME [Next]_vars
  PROVE  \/ fuel' = fuel
         \/ cpu \in Contexts /\ fuel[cpu] # 0 /\ fuel' = [fuel EXCEPT ![cpu] = Less(@)]
         \/ fuel' = [fuel EXCEPT ![cpu] = Fuel]
<1> USE DEF Less
<1> DEFINE Spends == cpu \in Contexts /\ fuel[cpu] # 0 /\ fuel' = [fuel EXCEPT ![cpu] = Less(@)]
<1>1. ASSUME NEW op, Spend(op) PROVE Spends
  BY <1>1 DEF Spend, At
<1> HIDE DEF Spends
<1>2. CASE UNCHANGED vars \/ System
  BY <1>2 DEF vars, System, clientVars
<1>3. CASE FreeOp
  <2>1. CASE LockOp
    <3>1. CASE \E l \in Locks : UserLock(l) \/ UserTestLock(l) \/ UserUnlock(l)
      BY <1>1, <3>1 DEF UserLock, UserTestLock, UserUnlock, Spends
    <3>2. CASE \E l \in NestLocks :
                 UserNest(l) \/ UserTestNest(l) \/ UserUnnest(l) \/ UserResetNest(l)
      BY <1>1, <3>2 DEF UserNest, UserTestNest, UserUnnest, UserResetNest, Spends
    <3> QED
      BY <2>1, <3>1, <3>2 DEF LockOp, PollAgain
  <2> QED
    BY <1>1, <1>3, <2>1 DEF FreeOp, UserYield, UserCritical, Retry, UserEndCritical, UserTask, Spends
<1>4. CASE Construct
  BY <1>4 DEF Construct, UserBarrier, InBarrier, UserSingle, UserSections, UserNextSection,
              UserEndSections, GoToSection, clientVars
<1>5. CASE TaskLife
  BY <1>5 DEF TaskLife, Worker, EndTask, StartRegion, Join, EndMain, clientVars
<1> QED
  BY <1>2, <1>3, <1>4, <1>5 DEF Next, Spends

(* A step begins at most one region and meets at most one task construct.  *)
LEMMA CountSteps ==
  ASSUME [Next]_vars
  PROVE  /\ regions' = regions \/ (regions > 0 /\ regions' = regions - 1)
         /\ created' = created \/ (created < MaxExplicit /\ created' = created + 1)
<1>1. CASE UNCHANGED vars \/ System
  BY <1>1 DEF vars, System, clientVars, seenVars
<1>2. CASE FreeOp
  BY <1>2 DEF FreeOp, UserYield, UserCritical, Retry, UserEndCritical, UserTask, LockOp, seenVars
<1>3. CASE Construct
  BY <1>3 DEF Construct, UserBarrier, InBarrier, UserSingle, UserSections, UserNextSection,
              UserEndSections, GoToSection, clientVars, seenVars
<1>4. CASE TaskLife
  BY <1>4 DEF TaskLife, Worker, EndTask, StartRegion, Join, EndMain, clientVars, seenVars
<1> QED
  BY <1>1, <1>2, <1>3, <1>4 DEF Next

(* A step changes the count of at most one of the first two teams.         *)
LEMMA TasksSteps ==
  ASSUME SysInv, [Next]_vars
  PROVE  \E x : tasks' = tasks \/ tasks' = [tasks EXCEPT ![0] = x] \/ tasks' = [tasks EXCEPT ![1] = x]
<1>1. team = 0 \/ team = 1
  BY DEF SysInv, TaskInv, PlacesInv
<1>2. CASE UNCHANGED vars \/ System
  BY <1>2 DEF vars, systemVars, System, Boot, SpawnWorker, SpawnMain, Background, Halt,
              libraryVars, taskVars
<1>3. CASE FreeOp
  BY <1>1, <1>3 DEF FreeOp, UserYield, UserCritical, Retry, UserEndCritical, UserTask, TaskInline,
       TaskQueue, LockOp, ButCritical, ButLocks, libraryVars, taskVars
<1>4. CASE Construct
  BY <1>4, ConstructKeepsTasks DEF KeepsTasks, taskVars, SysInv
<1>5. CASE TaskLife
  <2>1. CASE StartRegion
    <3>1. PICK n \in NumThreads : Parallel(n)
      BY <2>1 DEF StartRegion
    <3>2. team + 1 = 1
      BY <2>1, <3>1, SerialFacts DEF SysInv, StartRegion, Parallel
    <3>3. tasks' = [tasks EXCEPT ![1] = @ + TeamSize(n)]
      BY <3>1, <3>2 DEF Parallel
    <3> QED
      BY <3>3
  <2>2. CASE Worker \/ EndTask \/ Join \/ EndMain
    BY <1>1, <2>2 DEF Worker, WorkerImplicit, WorkerExplicit, WorkerIdle, EndTask, WorkerDone, Join,
         JoinWait, JoinDone, EndMain, MainReturns, libraryVars, taskVars
  <2> QED
    BY <1>5, <2>1, <2>2 DEF TaskLife
<1> QED
  BY <1>2, <1>3, <1>4, <1>5 DEF Next

(* Every step keeps the bounds.                                            *)
LEMMA NextBoundsInv ==
  ASSUME SysInv, BoundsInv, [Next]_vars
  PROVE  BoundsInv'
<1>1. Fuel \in Nat \cup {Endless} /\ MaxRegions \in Nat /\ MaxExplicit \in Nat
  BY LibgompAssumption
<1>2. fuel' \in [Contexts -> Amounts]
  <2>1. Fuel \in Amounts /\ \A x \in Amounts : x # 0 => Less(x) \in Amounts
    BY <1>1 DEF Amounts, Endless, Less
  <2> QED
    BY <2>1, FuelSteps DEF BoundsInv
<1>3. regions' \in 0 .. MaxRegions /\ created' \in 0 .. MaxExplicit
  BY <1>1, CountSteps DEF BoundsInv
<1>4. \A t \in TeamNos : t \notin {0, 1} => tasks'[t] = tasks[t]
  BY TasksSteps DEF SysInv, TaskInv, CountsInv
<1> QED
  BY <1>2, <1>3, <1>4 DEF BoundsInv

(* A pool without duplicates holds no more structs than there are.         *)
LEMMA PoolFits ==
  ASSUME NEW s \in Seq(Tasks), IsInjective(s)
  PROVE  Len(s) \in 0 .. NumTasks
<1>1. IsFiniteSet(Tasks) /\ Cardinality(Tasks) = NumTasks
  BY Sizes, FS_Interval DEF Tasks
<1>2. Len(s) <= NumTasks
  BY <1>1, NoLongerThan
<1> QED
  BY <1>2, Sizes, LenProperties

(* Every variable of the library holds a value of its kind at any time:    *)
(* the CPU has a context that exists, teams[] and the arrays of the        *)
(* workers are indexed inside their bounds, and no count goes below zero.  *)
THEOREM TypesHold ==
  ASSUME TasksInRegions
  PROVE  Spec => []TypeOK
<1>1. Init => BoundsInv
  BY LibgompAssumption DEF Init, SystemInit, BoundsInv, Amounts
<1>2. SysInv /\ BoundsInv /\ [Next]_vars => BoundsInv'
  BY NextBoundsInv
<1>3. SysInv /\ ConstructInv /\ BoundsInv /\ IInv => TypeOK
  <2> SUFFICES ASSUME SysInv, ConstructInv, BoundsInv, IInv PROVE TypeOK
    OBVIOUS
  <2> USE DEF SysInv
  <2>1. Existing \subseteq Contexts /\ OpsInv(Existing)
    BY DEF Existing, ThreadInv
  <2>2. cpu \in Contexts /\ pending \in Seq(Contexts) /\ deferred \in Seq(Contexts)
    <3>1. pending \in Seq(Existing) /\ deferred \in Seq(Existing \ {Bg})
      BY <2>1 DEF OpsInv
    <3> QED
      BY <2>1, <3>1, Running, SeqRange, RangeInSeq
  <2>3. saved \in [Ids -> Contexts \cup {NoContext}]
    BY <2>1 DEF ThreadInv, OpsInv
  <2>4. /\ pc \in [Contexts -> PcValues] /\ num \in Nat \ {0} /\ team \in TeamNos
        /\ arrived \in [Ids -> BOOLEAN] /\ toResume \in [Contexts -> SUBSET Ids]
        /\ mutex \in [TeamNos -> BOOLEAN] /\ mwaiting \in [Ids -> BOOLEAN] /\ mindex \in Ids
    BY Sizes DEF TaskInv, PlacesInv, CritInv, ThreadInv, BarrierFlags, CriticalFlags
  <2>5. /\ single \in [Ids -> Nat] /\ teamSingle \in [TeamNos -> Nat]
        /\ sectionsCount \in [TeamNos -> Nat] /\ sections \in [TeamNos -> Nat]
        /\ section \in [TeamNos -> Nat]
    <3>1. 0 .. NumSections \subseteq Nat
      BY LibgompAssumption
    <3> QED
      BY <3>1 DEF ConstructInv, SingleInv, SectionsInv
  <2>6. tasks \in [TeamNos -> 0 .. NumTasks]
    <3>1. tasks[1] = NumTasks - Len(pool) /\ Len(pool) \in 0 .. NumTasks
      <4>1. Len(pool) \in 0 .. NumTasks
        BY PoolFits DEF TaskInv, StructsInv
      <4>2. tasks[1] \in Int /\ tasks[1] + Len(pool) = NumTasks
        BY Sizes DEF TaskInv, CountsInv
      <4> QED
        BY <4>1, <4>2, Sizes
    <3>2. \A t \in TeamNos : tasks[t] \in 0 .. NumTasks
      BY <3>1, Sizes DEF BoundsInv, TaskInv, CountsInv
    <3> QED
      BY <3>2 DEF TaskInv, CountsInv
  <2>7. SystemTypeOK
    BY <2>2, <2>3, <2>4, <2>5, <2>6
       DEF SystemTypeOK, TaskInv, StructsInv, WorkersInv, IInv, WaitInv, LockInv, FieldsInv
  <2>8. wins \in [Places -> Nat] /\ ran \in [Places -> [1 .. NumSections -> Nat]]
    BY DEF ConstructInv, SingleInv, SectionsInv
  <2> QED
    BY <2>7, <2>8 DEF TypeOK, TaskInv, StepsInv, CritInv, IInv, LockInv, FieldsInv, BoundsInv,
                      ConstructInv, SectionsInv
<1>4. Spec => []IInv
  BY InitIInv, NextIInv, PTL DEF Spec
<1> QED
  BY <1>1, <1>2, <1>3, <1>4, ConstructInvariant, PTL DEF Spec


-----------------------------------------------------------------------------
(* Only a context that goes on with its program has a lock, and a plain    *)
(* lock that is set somebody has.                                          *)
HandsInv ==
  /\ \A c \in Contexts, l \in AllLocks : held[c][l] > 0 => pc[c] = "user"
  /\ \A l \in Locks : lock[l] # 0 => \E c \in Contexts : held[c][l] > 0

(* What a step may do to a context: move it if it has no lock, change what *)
(* it has if it goes on with its program.                                  *)
HandsStep ==
  \A c \in Contexts :
    /\ pc'[c] \in {"user", pc[c]} \/ \A l \in AllLocks : held[c][l] = 0
    /\ held'[c] = held[c] \/ pc'[c] = "user"

(* Such steps leave locks with those that go on.                           *)
LEMMA HandsStepKeeps ==
  ASSUME IInv, HandsInv, HandsStep, [Next]_vars
  PROVE  HandsInv'
<1>1. ASSUME NEW c \in Contexts, NEW l \in AllLocks, held'[c][l] > 0 PROVE pc'[c] = "user"
  BY <1>1 DEF HandsInv, HandsStep, IInv, LockInv, FieldsInv
<1>2. LockStep
  BY EveryStep
<1>3. ASSUME NEW l \in Locks, lock'[l] # 0 PROVE \E c \in Contexts : held'[c][l] > 0
  <2> USE LocksApart DEF IInv, LockInv, FieldsInv
  <2>1. CASE Keeps
    BY <1>3, <2>1 DEF Keeps, HandsInv
  <2>2. ASSUME NEW m \in Locks, cpu \in Contexts, EntersLock(m)
        PROVE  \E c \in Contexts : held'[c][l] > 0
    <3>1. m \in AllLocks /\ l \in AllLocks
      OBVIOUS
    <3>2. CASE l = m
      <4>1. held[cpu][m] \in Nat /\ held'[cpu][m] = held[cpu][m] + 1
        BY <2>2, <3>1 DEF EntersLock, Entered
      <4> QED
        BY <2>2, <3>2, <4>1
    <3>3. CASE l # m
      <4>1. lock[l] # 0 /\ \A c \in Contexts : held'[c][l] = held[c][l]
        BY <1>3, <2>2, <3>1, <3>3 DEF EntersLock, Entered
      <4> QED
        BY <4>1 DEF HandsInv
    <3> QED
      BY <3>2, <3>3
  <2>3. ASSUME NEW m \in Locks, LeavesLock(m) PROVE \E c \in Contexts : held'[c][l] > 0
    <3>1. l # m /\ lock[l] # 0 /\ \A c \in Contexts : held'[c][l] = held[c][l]
      BY <1>3, <2>3 DEF LeavesLock, Left
    <3> QED
      BY <3>1 DEF HandsInv
  <2>4. ASSUME NEW m \in NestLocks,
               EntersNest(m) \/ ReentersNest(m) \/ LeavesNest(m) \/ ResetsNest(m)
        PROVE  \E c \in Contexts : held'[c][l] > 0
    <3>1. m \in AllLocks /\ l \in AllLocks /\ l # m
      BY DEF AllLocks
    <3>2. lock' = lock /\ (held' = held \/ Entered(m) \/ Left(m))
      BY <2>4 DEF EntersNest, ReentersNest, LeavesNest, ResetsNest
    <3>3. \A c \in Contexts : held'[c][l] = held[c][l]
      BY <3>1, <3>2 DEF Entered, Left
    <3> QED
      BY <1>3, <3>2, <3>3 DEF HandsInv
  <2> QED
    BY <1>2, <2>1, <2>2, <2>3, <2>4 DEF LockStep
<1> QED
  BY <1>1, <1>3 DEF HandsInv

(* A context that is waiting, or has no lock, may go anywhere.             *)
LEMMA EmptyHands ==
  ASSUME IInv, HandsInv, held' = held,
         pc' = pc \/ ((pc[cpu] # "user" \/ Unencumbered) /\ \E s : Goto(s))
  PROVE  HandsStep
<1>1. \A c \in Contexts : pc[c] # "user" => \A l \in AllLocks : held[c][l] = 0
  BY DEF HandsInv, IInv, LockInv, FieldsInv
<1>2. CASE pc' = pc
  BY <1>2 DEF HandsStep
<1>3. CASE (pc[cpu] # "user" \/ Unencumbered) /\ \E s : Goto(s)
  <2>1. \A c \in Contexts : pc'[c] = pc[c] \/ c = cpu
    BY <1>3 DEF Goto, IInv, WaitInv
  <2> QED
    BY <1>1, <1>3, <2>1 DEF HandsStep, Unencumbered, HoldsNo
<1> QED
  BY <1>2, <1>3

(* The operations on locks: only a context without a lock waits for one,   *)
(* or one that would enter its own again, and that does not wait.          *)
LEMMA LockOpHands ==
  ASSUME IInv, HandsInv, LockOp
  PROVE  HandsStep
<1> USE DEF IInv, LockInv, FieldsInv, WaitInv
<1>1. ASSUME NEW l \in AllLocks, PollLock(l) \/ PollNest(l), EnteredIfBack(l),
             cpu \in Contexts, \A m \in AllLocks : held[cpu][m] = 0
      PROVE  HandsStep
  <2>1. PICK s \in {"user", "lock", "nest"} : Goto(s)
    BY <1>1 DEF PollLock, PollNest, TakeLock, AwaitLock, TakeNest, AwaitNest
  <2>2. \A c \in Contexts : pc'[c] = IF c = cpu THEN s ELSE pc[c]
    BY <2>1 DEF Goto
  <2>3. \A c \in Contexts : held'[c] = held[c] \/ (c = cpu /\ s = "user")
    BY <1>1, <2>2 DEF EnteredIfBack, Entered
  <2> QED
    BY <1>1, <2>2, <2>3 DEF HandsStep
<1>2. ASSUME NEW l \in AllLocks, pc[cpu] = "user", pc' = pc, held' = held \/ Entered(l) \/ Left(l)
      PROVE  HandsStep
  BY <1>2 DEF HandsStep, Entered, Left
<1>3. ASSUME NEW l \in Locks, UserLock(l) \/ UserTestLock(l) \/ UserUnlock(l)
      PROVE  HandsStep
  <2>1. l \in AllLocks
    BY LocksApart
  <2>2. CASE UserLock(l)
    BY <1>1, <2>1, <2>2 DEF UserLock, Unencumbered, HoldsNo, SetLock, At
  <2>3. CASE UserTestLock(l) \/ UserUnlock(l)
    BY <1>2, <2>1, <2>3 DEF UserTestLock, UserUnlock, TestLock, UnsetLock, At
  <2> QED
    BY <1>3, <2>2, <2>3
<1>4. ASSUME NEW l \in NestLocks,
             UserNest(l) \/ UserTestNest(l) \/ UserUnnest(l) \/ UserResetNest(l)
      PROVE  HandsStep
  <2>1. l \in AllLocks
    BY DEF AllLocks
  <2>2. cpu \in Contexts /\ pc[cpu] = "user"
    BY <1>4 DEF UserNest, UserTestNest, UserUnnest, UserResetNest, SetNest, TestNest, UnsetNest,
                ResetNest, At
  <2>3. CASE UserNest(l)
    <3>1. CASE OwnsNest(l)
      BY <1>2, <2>1, <2>2, <2>3, <3>1 DEF UserNest, SetNest, NestAgain, EnteredIfBack
    <3>2. CASE ~OwnsNest(l)
      <4>1. PollNest(l) /\ EnteredIfBack(l)
        BY <2>3, <3>2 DEF UserNest, SetNest
      <4>2. held[cpu][l] = 0
        <5>1. SetByNumber(Me, l) = 0
          BY <3>2, MeInIds DEF NestInv, OwnsNest
        <5>2. \A c \in Contexts : held[c][l] \in Nat
          BY <2>1
        <5>3. cpu # Bg
          BY <2>2
        <5> QED
          BY <2>2, <5>1, <5>2, <5>3, MeInIds, NamesDiffer DEF SetByNumber, Me
      <4>3. \A m \in AllLocks : held[cpu][m] = 0
        BY <2>3, <4>2 DEF UserNest, HoldsNo
      <4> QED
        BY <1>1, <2>1, <2>2, <4>1, <4>3
    <3> QED
      BY <3>1, <3>2
  <2>4. CASE UserTestNest(l)
    BY <1>2, <2>1, <2>2, <2>4 DEF UserTestNest, TestNest, NestAgain
  <2>5. CASE UserUnnest(l) \/ UserResetNest(l)
    BY <1>2, <2>1, <2>2, <2>5 DEF UserUnnest, UnsetNest, UserResetNest, ResetNest
  <2> QED
    BY <1>4, <2>3, <2>4, <2>5
<1>5. CASE PollAgain
  <2>1. cpu \in Contexts /\ pc[cpu] \in {"lock", "nest"}
    BY <1>5 DEF PollAgain, LockRetry, NestRetry, At
  <2>2. wants[cpu] \in AllLocks /\ (PollLock(wants[cpu]) \/ PollNest(wants[cpu]))
    BY <1>5, <2>1 DEF PollAgain, LockRetry, NestRetry, At, AllLocks
  <2>3. \A m \in AllLocks : held[cpu][m] = 0
    BY <2>1 DEF HandsInv
  <2> QED
    BY <1>1, <1>5, <2>1, <2>2, <2>3 DEF PollAgain
<1> QED
  BY <1>3, <1>4, <1>5 DEF LockOp


(* start() moves only contexts that have run no program yet, or the        *)
(* background context.                                                     *)
LEMMA BootHands ==
  ASSUME TaskInv, IInv, HandsInv, Boot, UNCHANGED clientVars
  PROVE  HandsStep
<1> USE DEF TaskInv, PlacesInv
<1>1. held' = held
  BY DEF clientVars
<1>2. \A c \in Contexts : pc[c] # "user" => \A l \in AllLocks : held[c][l] = 0
  BY DEF HandsInv, IInv, LockInv, FieldsInv
<1>3. CASE SpawnWorker
  <2>1. PICK i \in Ids : pc[i] = "unborn" /\ pc' = [pc EXCEPT ![i] = "loop"]
    BY <1>3, MinUnborn DEF SpawnWorker, Unborn
  <2>2. \A c \in Contexts : pc'[c] = pc[c] \/ (c = i /\ pc[c] = "unborn")
    BY <2>1
  <2> QED
    BY <1>1, <1>2, <2>2 DEF HandsStep
<1>4. CASE SpawnMain
  <2>1. pc' = [pc EXCEPT ![Main] = "user", ![Bg] = "background"]
    BY <1>4 DEF SpawnMain
  <2>2. \A c \in Contexts : pc'[c] = pc[c] \/ c = Main \/ (c = Bg /\ pc[c] # "user")
    BY <2>1
  <2> QED
    BY <1>1, <1>2, <2>1, <2>2, NamesDiffer DEF HandsStep
<1>5. CASE Background \/ Halt
  <2>1. pc' = pc \/ (pc[cpu] # "user" /\ \E s : Goto(s))
    BY <1>5 DEF Background, Halt, At
  <2> QED
    BY <1>1, <2>1, EmptyHands
<1> QED
  BY <1>3, <1>4, <1>5 DEF Boot

(* Every step keeps the invariant.                                         *)
LEMMA NextHandsInv ==
  ASSUME SysInv, IInv, HandsInv, [Next]_vars
  PROVE  HandsInv'
<1> DEFINE Away == pc' = pc \/ ((pc[cpu] # "user" \/ Unencumbered) /\ \E s : Goto(s))
<1>1. HandsStep
  <2>1. CASE UNCHANGED vars
    BY <2>1, EmptyHands DEF vars, systemVars, clientVars
  <2>2. CASE System
    BY <2>1, <2>2, BootHands DEF System, SysInv
  <2>3. CASE FreeOp
    <3>1. CASE UserYield \/ UserCritical \/ Retry \/ UserEndCritical \/ UserTask
      <4>1. held' = held
        BY <3>1 DEF UserYield, UserCritical, Retry, UserEndCritical, UserTask
      <4>2. Away
        BY <3>1 DEF UserYield, UserCritical, Retry, UserEndCritical, UserTask, TaskInline, TaskQueue,
             CriticalStart, CriticalRetry, TestMutex, AwaitMutex, TakeMutex, CriticalEnd, At
      <4> QED
        BY <4>1, <4>2, EmptyHands
    <3> QED
      BY <2>3, <3>1, LockOpHands DEF FreeOp
  <2>4. CASE Construct
    <3>1. held' = held
      BY <2>4 DEF Construct, UserBarrier, InBarrier, UserSingle, UserSections, UserNextSection,
                  UserEndSections, GoToSection, clientVars
    <3>2. Away
      <4>1. CASE UserBarrier \/ UserEndSections
        BY <4>1 DEF UserBarrier, Meets, UserEndSections, SectionsEnd, BarrierEnter
      <4>2. CASE InBarrier
        BY <4>2 DEF InBarrier, BarrierRelease, BarrierReturn, At
      <4>3. CASE UserSingle \/ UserSections \/ UserNextSection
        BY <4>3 DEF UserSingle, UserSections, UserNextSection, SingleStart, SectionsStart, SectionsNext
      <4> QED
        BY <2>4, <4>1, <4>2, <4>3 DEF Construct
    <3> QED
      BY <3>1, <3>2, EmptyHands
  <2>5. CASE TaskLife
    <3>1. held' = held
      BY <2>5 DEF TaskLife, Worker, EndTask, StartRegion, Join, EndMain, clientVars
    <3>2. Away
      BY <2>5 DEF TaskLife, Worker, WorkerImplicit, WorkerExplicit, WorkerIdle, EndTask, WorkerDone,
           StartRegion, Parallel, Join, JoinWait, JoinDone, EndMain, MainReturns, At
    <3> QED
      BY <3>1, <3>2, EmptyHands
  <2> QED
    BY <2>1, <2>2, <2>3, <2>4, <2>5 DEF Next
<1> QED
  BY <1>1, HandsStepKeeps

-----------------------------------------------------------------------------
(* At a barrier the team waits for a member that has not arrived, and who  *)
(* is suspended there has arrived or is still to be resumed.               *)
MeetInv ==
  /\ \A i \in Ids : arrived[i] => \E j \in TeamIds : ~arrived[j]
  /\ \A i \in Ids : pc[i] = "barrier" /\ saved[i] = i =>
       arrived[i] \/ \E c \in Contexts : i \in toResume[c]

(* A step that touches no flag of a barrier and suspends nobody at one.    *)
LEMMA NoMeeting ==
  ASSUME MeetInv, UNCHANGED <<num, barrierVars>>,
         \A i \in Ids : pc'[i] = "barrier" /\ saved'[i] = i => pc[i] = "barrier" /\ saved[i] = i
  PROVE  MeetInv'
BY DEF MeetInv, barrierVars, TeamIds

(* The same, of a thread that goes on with its program, or yields.         *)
LEMMA RunsOnMeets ==
  ASSUME TaskInv, MeetInv, RunsOn
  PROVE  MeetInv'
<1>1. saved' = saved /\ UNCHANGED <<num, barrierVars>>
  BY DEF RunsOn, Yield, threadVars
<1>2. \A i \in Ids : pc'[i] = "barrier" => pc[i] = "barrier"
  BY NamesDiffer DEF RunsOn, Goto, Waiting, TaskInv, PlacesInv
<1> QED
  BY <1>1, <1>2, NoMeeting

(* A barrier: who does not wait for the others is the last, and resumes    *)
(* all of them.                                                            *)
LEMMA BarrierMeets ==
  ASSUME TaskInv, ThreadInv, MeetInv, UserBarrier \/ UserEndSections
  PROVE  MeetInv'
<1>1. PICK w \in Ids :
        /\ w = cpu /\ w \in TeamIds /\ Me = w /\ BarrierEnter
        /\ saved[w] = NoContext /\ pc' = [pc EXCEPT ![w] = "barrier"] /\ toResume[w] = {} /\ num' = num
  BY ArrivesFacts
<1>2. /\ pc \in [Contexts -> PcValues] /\ DOMAIN saved = Ids /\ w # NoContext
      /\ arrived \in [Ids -> BOOLEAN] /\ toResume \in [Contexts -> SUBSET Ids] /\ Ids \subseteq Contexts
  BY GompAssumption, NamesDiffer DEF TaskInv, PlacesInv, ThreadInv, BarrierFlags
<1>3. TeamIds' = TeamIds
  BY <1>1 DEF TeamIds
<1>4. CASE BarrierWait
  <2>1. /\ \E j \in TeamIds \ {w} : ~arrived[j]
        /\ arrived' = [arrived EXCEPT ![w] = TRUE] /\ toResume' = toResume
        /\ saved' = [saved EXCEPT ![w] = w]
    BY <1>1, <1>4 DEF BarrierWait, TeamToScan, Suspend
  <2>2. \E j \in TeamIds : ~arrived'[j]
    BY <1>2, <2>1, TeamInIds DEF TaskInv
  <2>3. ASSUME NEW i \in Ids, pc'[i] = "barrier", saved'[i] = i
        PROVE  arrived'[i] \/ \E c \in Contexts : i \in toResume'[c]
    BY <1>1, <1>2, <2>1, <2>3 DEF MeetInv
  <2> QED
    BY <1>3, <2>2, <2>3 DEF MeetInv
<1>5. CASE BarrierLast
  <2>1. /\ arrived' = [i \in Ids |-> i \notin TeamIds /\ arrived[i]]
        /\ toResume' = [toResume EXCEPT ![w] = TeamIds \ {w}] /\ saved' = saved
    BY <1>1, <1>5 DEF BarrierLast, ToRelease, threadVars
  <2>2. \A i \in Ids : arrived[i] => i \in TeamIds
    BY DEF ThreadInv, BarrierFlags
  <2>3. ASSUME NEW i \in Ids, pc'[i] = "barrier", saved'[i] = i
        PROVE  \E c \in Contexts : i \in toResume'[c]
    <3>1. i # w /\ pc[i] = "barrier" /\ saved[i] = i
      BY <1>1, <1>2, <2>1, <2>3
    <3>2. CASE arrived[i]
      <4>1. i \in toResume'[w]
        BY <1>2, <2>1, <2>2, <3>1, <3>2
      <4> QED
        BY <1>2, <4>1
    <3>3. ASSUME NEW c \in Contexts, i \in toResume[c] PROVE \E d \in Contexts : i \in toResume'[d]
      BY <1>1, <1>2, <2>1, <3>3
    <3> QED
      BY <3>1, <3>2, <3>3 DEF MeetInv
  <2> QED
    BY <2>1, <2>2, <2>3 DEF MeetInv
<1> QED
  BY <1>1, <1>4, <1>5 DEF BarrierEnter

(* The releasing loop, and those that return from the barrier.             *)
LEMMA InBarrierMeets ==
  ASSUME TaskInv, ThreadInv, MeetInv, InBarrier
  PROVE  MeetInv'
<1>1. num' = num /\ arrived' = arrived /\ cpu \in Contexts
  BY DEF InBarrier, ButBarrier, stateVars, BarrierRelease, BarrierReturn, barrierVars, At
<1>2. CASE BarrierReturn
  <2>1. UNCHANGED <<barrierVars, saved>> /\ pc' = [pc EXCEPT ![cpu] = "user"]
    BY <1>2 DEF BarrierReturn, threadVars, Goto
  <2>2. \A i \in Ids : pc'[i] = "barrier" => pc[i] = "barrier"
    BY <2>1 DEF TaskInv, PlacesInv
  <2> QED
    BY <1>1, <2>1, <2>2, NoMeeting
<1>3. CASE BarrierRelease
  <2>1. toResume[cpu] \subseteq Ids /\ Ids \subseteq Nat /\ toResume \in [Contexts -> SUBSET Ids]
    BY <1>1, MeInIds DEF ThreadInv, BarrierFlags, Ids
  <2>2. PICK o \in Ids : /\ o \in toResume[cpu] /\ Resume(o) /\ pc' = pc
                         /\ toResume' = [toResume EXCEPT ![cpu] = @ \ {o}]
    BY <1>3, <2>1, MinIn DEF BarrierRelease
  <2>3. saved' = [saved EXCEPT ![o] = NoContext] /\ o # NoContext /\ DOMAIN saved = Ids
    BY <2>2, GompAssumption, NamesDiffer DEF Resume, ThreadInv
  <2>4. \A i \in Ids, c \in Contexts : i # o /\ i \in toResume[c] => i \in toResume'[c]
    BY <2>1, <2>2
  <2>5. \A i \in Ids : saved'[i] = i => i # o /\ saved[i] = i
    BY <2>3
  <2> QED
    BY <1>1, <2>2, <2>4, <2>5 DEF MeetInv, TeamIds
<1> QED
  BY <1>2, <1>3 DEF InBarrier

(* Every step keeps the invariant.                                         *)
LEMMA NextMeetInv ==
  ASSUME SysInv, SysInv', MeetInv, [Next]_vars
  PROVE  MeetInv'
<1> USE DEF SysInv
<1>1. CASE UNCHANGED vars
  BY <1>1, NoMeeting DEF vars, systemVars, threadVars, libraryVars, stateVars, barrierVars
<1>2. CASE System \/ EndMain
  <2>1. CASE Boot \/ EndMain
    <3>1. /\ UNCHANGED <<num, barrierVars>> /\ saved' = saved
      BY <2>1 DEF Boot, SpawnWorker, SpawnMain, Background, Halt, EndMain, MainReturns, libraryVars,
           stateVars, Start, Undefer, Return, threadVars
    <3>2. \A i \in Ids : pc'[i] = "barrier" => pc[i] = "barrier"
      BY <2>1, NamesDiffer DEF Boot, SpawnWorker, SpawnMain, Background, Halt, EndMain, MainReturns,
           Goto, TaskInv, PlacesInv
    <3> QED
      BY <3>1, <3>2, NoMeeting
  <2> QED
    BY <1>1, <1>2, <2>1 DEF System
<1>3. CASE FreeOp
  <2>1. CASE UserYield \/ UserTask \/ LockOp
    BY <2>1, FreeRunsOn, RunsOnMeets
  <2>2. CASE UserCritical \/ Retry \/ UserEndCritical
    <3>1. UNCHANGED <<num, barrierVars>> /\ cpu \in Contexts
      BY <2>2, Running DEF UserCritical, Retry, UserEndCritical, ButCritical, stateVars
    <3>2. \A i \in Ids : pc'[i] = "barrier" => pc[i] = "barrier" /\ pc'[i] = pc[i] /\ i # cpu
      <4>1. /\ pc[cpu] \in {"user", "critical"}
            /\ pc' = pc \/ \E s \in {"user", "critical"} : pc' = [pc EXCEPT ![cpu] = s]
        BY <2>2 DEF UserCritical, Retry, UserEndCritical, CriticalStart, CriticalRetry, TestMutex,
                    TakeMutex, AwaitMutex, CriticalEnd, Goto, At
      <4> QED
        BY <4>1, NamesDiffer DEF TaskInv, PlacesInv
    <3>3. \A i \in Ids : saved'[i] = i => saved[i] = i \/ i = cpu
      <4>1. UNCHANGED threadVars \/ Suspend(Me) \/ \E o : Resume(o)
        BY <2>2 DEF UserCritical, Retry, UserEndCritical, CriticalStart, CriticalRetry, TestMutex,
                    TakeMutex, AwaitMutex, CriticalEnd
      <4> QED
        BY <4>1, GompAssumption, NamesDiffer DEF threadVars, Suspend, Resume, ThreadInv
    <3> QED
      BY <3>1, <3>2, <3>3, NoMeeting
  <2> QED
    BY <1>3, <2>1, <2>2 DEF FreeOp
<1>4. CASE Construct
  BY <1>4, TaskRunsOn, RunsOnMeets, BarrierMeets, InBarrierMeets DEF Construct
<1>5. CASE TaskLife
  <2>1. CASE StartRegion
    <3>1. cpu = Main /\ tasks[1] = 0 /\ \A i \in Ids : pc'[i] = pc[i]
      <4>1. PICK n \in NumThreads : Parallel(n)
        BY <2>1 DEF StartRegion
      <4>2. cpu = Main /\ tasks[1] = 0
        BY <2>1, <4>1, SerialFacts DEF StartRegion, Parallel
      <4> QED
        BY <4>1, <4>2, NamesDiffer DEF Parallel, Goto, TaskInv, PlacesInv
    <3>2. \A i \in Ids : pc'[i] # "barrier"
      BY <3>1, AllIdle
    <3> QED
      BY <3>2 DEF MeetInv, ThreadInv, BarrierFlags
  <2> QED
    BY <1>2, <1>5, <2>1, TaskRunsOn, RunsOnMeets DEF TaskLife
<1> QED
  BY <1>1, <1>2, <1>3, <1>4, <1>5 DEF Next


(* main() starts when the workers have, and the background loop with it.   *)
AllBorn ==
  /\ pc[Main] # "unborn" => \A i \in Ids : pc[i] # "unborn"
  /\ pc[Bg] # "boot" => pc[Main] # "unborn"

(* No thread is unborn again, nor is start() at its beginning.             *)
LEMMA NextAllBorn ==
  ASSUME SysInv, AllBorn, [Next]_vars
  PROVE  AllBorn'
<1> USE DEF SysInv, TaskInv, PlacesInv
<1>1. ASSUME pc' = pc \/ (pc[cpu] \notin {"unborn", "boot"} /\ \E s : s # "unborn" /\ Goto(s))
      PROVE  AllBorn'
  <2>1. \A c \in Contexts : /\ pc'[c] = "unborn" => pc[c] = "unborn"
                            /\ pc[c] \in {"unborn", "boot"} => pc'[c] = pc[c]
    BY <1>1 DEF Goto
  <2> QED
    BY <2>1, NamesDiffer DEF AllBorn
<1>2. ASSUME pc' = pc \/ (cpu # Bg /\ pc[cpu] # "unborn" /\ \E s : s # "unborn" /\ Goto(s))
      PROVE  AllBorn'
  <2>1. pc[cpu] = "boot" => cpu = Bg
    BY Running, NamesDiffer DEF Inside
  <2> QED
    BY <1>1, <1>2, <2>1
<1>3. CASE UNCHANGED vars
  BY <1>1, <1>3 DEF vars, systemVars
<1>4. CASE System
  <2>1. CASE SpawnWorker
    <3>1. pc[Main] = "unborn"
      <4>1. cpu \in Contexts /\ pc[cpu] = "boot"
        BY <2>1 DEF SpawnWorker, At
      <4> QED
        BY <4>1, NamesDiffer DEF Inside
    <3>2. PICK i \in Ids : pc' = [pc EXCEPT ![i] = "loop"]
      BY <2>1, MinUnborn DEF SpawnWorker, Unborn
    <3> QED
      BY <3>1, <3>2, NamesDiffer DEF AllBorn
  <2>2. CASE SpawnMain
    BY <2>2, NamesDiffer DEF SpawnMain, Unborn, AllBorn
  <2>3. CASE Background \/ Halt
    BY <1>1, <2>3 DEF Background, Halt, At
  <2> QED
    BY <1>3, <1>4, <2>1, <2>2, <2>3 DEF System, Boot
<1>5. CASE FreeOp
  <2>1. CASE UserYield \/ UserTask \/ LockOp
    BY <1>2, <2>1, FreeRunsOn, Running DEF RunsOn, Gone
  <2>2. CASE UserCritical \/ Retry \/ UserEndCritical
    BY <1>1, <2>2 DEF UserCritical, Retry, UserEndCritical, CriticalStart, CriticalRetry, TestMutex,
                      TakeMutex, AwaitMutex, CriticalEnd, At
  <2> QED
    BY <1>5, <2>1, <2>2 DEF FreeOp
<1>6. CASE Construct
  <2>1. CASE UserBarrier \/ UserEndSections \/ InBarrier
    BY <1>1, <2>1 DEF UserBarrier, UserEndSections, SectionsEnd, BarrierEnter, InBarrier,
                      BarrierRelease, BarrierReturn, At
  <2> QED
    BY <1>2, <1>6, <2>1, TaskRunsOn, Running DEF Construct, RunsOn, Gone
<1>7. CASE TaskLife
  <2>1. CASE StartRegion \/ EndMain
    BY <1>1, <2>1 DEF StartRegion, Parallel, EndMain, MainReturns, At
  <2> QED
    BY <1>2, <1>7, <2>1, TaskRunsOn, Running DEF TaskLife, RunsOn, Gone
<1> QED
  BY <1>3, <1>4, <1>5, <1>6, <1>7 DEF Next

-----------------------------------------------------------------------------
(* While structs are out of the pool somebody has work to do.              *)
LEMMA WorkLeft ==
  ASSUME TaskInv, tasks[1] # 0
  PROVE  \E i \in Ids : HasWork(i)
<1> SUFFICES ASSUME \A i \in Ids : ~HasWork(i) PROVE FALSE
  OBVIOUS
<1> USE DEF TaskInv
<1>1. ready = <<>> /\ \A i \in Ids : Hand(i) = {NoTask}
  BY MeInIds DEF HasWork, WorkersInv, Hand
<1>2. Range(ready) = {}
  BY <1>1 DEF Range
<1>3. \A t \in Tasks : t \in Range(pool)
  BY <1>1, <1>2, Sizes DEF StructsInv
<1> PICK n \in Nat : n = Len(pool)
  BY LenProperties DEF StructsInv
<1>4. pool \in [1 .. n -> Tasks] /\ DOMAIN pool = 1 .. n
  BY LenProperties DEF StructsInv
<1>5. pool \in Surjection(1 .. n, Tasks)
  BY <1>3, <1>4 DEF Surjection, Range
<1>6. IsFiniteSet(1 .. n) /\ Cardinality(1 .. n) = n
  <2>1. 1 \in Int /\ n \in Int
    OBVIOUS
  <2>2. IsFiniteSet(1 .. n) /\ Cardinality(1 .. n) = IF 1 > n THEN 0 ELSE n - 1 + 1
    BY <2>1, FS_Interval, Zenon
  <2> QED
    BY <2>2
<1>7. Cardinality(Tasks) = NumTasks
  BY Sizes, FS_Interval DEF Tasks
<1>8. NumTasks <= n
  BY <1>5, <1>6, <1>7, FS_Surjection
<1>9. n <= NumTasks
  BY PoolFits, Sizes DEF StructsInv
<1> QED
  BY <1>8, <1>9, Sizes DEF CountsInv

(* Who is suspended is so in its own Thread object.                        *)
LEMMA InOwnObject ==
  ASSUME ThreadInv, NEW i \in Ids, saved[i] # i
  PROVE  i \notin InObjects
<1>1. \A o \in Ids : saved[o] # i
  BY GompAssumption, NamesDiffer DEF ThreadInv
<1> QED
  BY <1>1 DEF InObjects, Range, ThreadInv

(* The invariant of the waits, and what it rests on.                       *)
WaitsInv == SysInv /\ ConstructInv /\ WakeInv /\ IInv /\ HandsInv /\ MeetInv /\ AllBorn

(* A worker that goes on with its program can go on.                       *)
LEMMA AtUserGoesOn ==
  ASSUME WaitsInv, team = 1, NEW c \in Contexts, pc[c] = "user"
  PROVE  \E j \in Ids : HasWork(j) /\ CanGoOn(j)
<1>1. c \in Ids
  BY NamesDiffer DEF WaitsInv, SysInv, TaskInv, PlacesInv
<1>2. kind[c] # "none"
  BY <1>1 DEF WaitsInv, SysInv, TaskInv, WorkersInv
<1> QED
  BY <1>1, <1>2 DEF HasWork, CanGoOn

(* A lock that is taken is so by a context that goes on with its program.  *)
LEMMA HolderGoesOn ==
  ASSUME IInv, HandsInv
  PROVE  /\ \A l \in Locks : lock[l] = 0 \/ \E c \in Contexts : pc[c] = "user"
         /\ \A l \in NestLocks : nest[l].lock = 0 \/ \E c \in Contexts : pc[c] = "user"
<1> USE DEF IInv, LockInv, FieldsInv
<1>1. ASSUME NEW l \in Locks, lock[l] # 0 PROVE \E c \in Contexts : pc[c] = "user"
  BY <1>1, LocksApart DEF HandsInv
<1>2. ASSUME NEW l \in NestLocks, nest[l].lock # 0 PROVE \E c \in Contexts : pc[c] = "user"
  <2>1. nest[l].lock = 1 /\ nest[l].count > 0
    BY <1>2 DEF NestInv
  <2>2. PICK i \in Ids : i = nest[l].owner
    OBVIOUS
  <2>3. SetByNumber(i, l) > 0
    BY <2>1, <2>2 DEF NestInv
  <2>4. l \in AllLocks /\ i \in Contexts /\ Main \in Contexts
    BY NamesDiffer DEF AllLocks
  <2>5. held[i][l] > 0 \/ held[Main][l] > 0
    BY <2>3, <2>4 DEF SetByNumber
  <2> QED
    BY <2>4, <2>5 DEF HandsInv
<1> QED
  BY <1>1, <1>2

(* Somebody suspended in a barrier that is over is waiting for the         *)
(* releasing loop, whose thread is not suspended.                          *)
LEMMA ReleaserGoesOn ==
  ASSUME WaitsInv, NEW i \in Ids, pc[i] = "barrier", ~arrived[i]
  PROVE  \E j \in Ids : HasWork(j) /\ CanGoOn(j)
<1> USE DEF WaitsInv, SysInv
<1>1. ASSUME NEW j \in Ids, pc[j] = "barrier", saved[j] # j
      PROVE  HasWork(j) /\ CanGoOn(j)
  BY <1>1, InOwnObject DEF HasWork, CanGoOn, TaskInv, WorkersInv
<1>2. CASE saved[i] = i
  <2>1. PICK c \in Contexts : i \in toResume[c]
    BY <1>2 DEF MeetInv
  <2>2. c \in Ids /\ pc[c] = "barrier"
    BY <2>1, TeamInIds DEF ThreadInv, BarrierFlags, TaskInv
  <2>3. saved[c] # c
    BY <2>1, <2>2 DEF ThreadInv, BarrierFlags, MeetInv
  <2> QED
    BY <1>1, <2>2, <2>3
<1> QED
  BY <1>1, <1>2

(* While a thread waits for the mutex, whoever has it or was handed it     *)
(* goes on.                                                                *)
LEMMA MutexGoesOn ==
  ASSUME WaitsInv, team = 1, NEW i \in Ids, pc[i] = "critical"
  PROVE  \E j \in Ids : HasWork(j) /\ CanGoOn(j)
<1> USE DEF WaitsInv, SysInv
<1>1. CASE mutex[team]
  <2>1. PICK c \in inCrit : c \in Contexts /\ pc[c] = "user"
    BY <1>1 DEF CritInv
  <2> QED
    BY <2>1, AtUserGoesOn
<1>2. CASE ~mutex[team]
  <2>1. At("critical")
    BY <1>2 DEF WakeInv, NoLostWakeup, ThreadInv, CriticalFlags
  <2>2. cpu \in Ids /\ pc[cpu] = "critical"
    BY <2>1, NamesDiffer DEF At, ThreadInv, Waiting, TaskInv, PlacesInv
  <2>3. saved[cpu] # cpu
    BY <2>2, Running
  <2> QED
    BY <1>2, <2>2, <2>3, InOwnObject DEF HasWork, CanGoOn, TaskInv, WorkersInv
<1> QED
  BY <1>1, <1>2

(* A worker with work that has not arrived at a barrier goes on, or waits  *)
(* for somebody who does.                                                  *)
LEMMA NotArrivedGoesOn ==
  ASSUME WaitsInv, team = 1, NEW i \in Ids, HasWork(i), ~arrived[i]
  PROVE  \E j \in Ids : HasWork(j) /\ CanGoOn(j)
<1> USE DEF WaitsInv, SysInv
<1>1. i \in Contexts /\ pc[i] \in {"loop"} \cup Inside
  BY NamesDiffer DEF TaskInv, PlacesInv, AllBorn
<1>2. CASE pc[i] \in {"loop", "user"}
  BY <1>2 DEF CanGoOn
<1>3. CASE pc[i] = "barrier"
  BY <1>3, ReleaserGoesOn
<1>4. CASE pc[i] = "critical"
  BY <1>4, MutexGoesOn
<1>5. CASE pc[i] \in {"lock", "nest"}
  <2>1. CanGoOn(i) \/ \E c \in Contexts : pc[c] = "user"
    BY <1>1, <1>5, HolderGoesOn DEF CanGoOn, IInv, WaitInv
  <2> QED
    BY <2>1, AtUserGoesOn
<1> QED
  BY <1>1, <1>2, <1>3, <1>4, <1>5 DEF Inside

(* A member that waits at a barrier waits for one that has not reached it, *)
(* and so has not ended its implicit task.                                 *)
LEMMA ArrivedWaitsForWork ==
  ASSUME WaitsInv, team = 1, NEW i \in Ids, arrived[i]
  PROVE  \E j \in Ids : HasWork(j) /\ ~arrived[j]
<1> USE DEF WaitsInv, SysInv
<1>1. i \in TeamIds /\ Here(i) \in Meetings
  BY DEF ThreadInv, BarrierFlags, ConstructInv, PhaseInv
<1>2. PICK j \in TeamIds : ~arrived[j]
  BY DEF MeetInv
<1>3. j \in Ids /\ step[j] \in Nat /\ Here(j) = step[j] /\ Len(Region) \in Nat
  BY <1>2, TeamInIds, Sizes DEF TaskInv, StepsInv, Here
<1>4. Here(i) \in 1 .. Len(Region)
  BY <1>1, Sizes DEF Meetings
<1>5. ~(Here(i) < step[j])
  <2>1. Here(i) \notin Passed(i)
    BY <1>4 DEF Passed
  <2>2. Passed(i) = Passed(j)
    BY <1>1, <1>2 DEF ConstructInv, PhaseInv
  <2> QED
    BY <1>1, <1>3, <2>1, <2>2 DEF Passed
<1>6. step[j] # Len(Region) + 1
  BY <1>3, <1>4, <1>5
<1>7. task[j] # NoTask
  BY <1>2, <1>6 DEF TaskInv, StepsInv
<1> QED
  BY <1>2, <1>3, <1>7 DEF HasWork

(* Nobody waits in a circle: at any time until main() ends, main() or a    *)
(* worker that has work to do waits for nothing.                           *)
THEOREM NobodyStuck ==
  ASSUME TasksInRegions, CriticalsInTeam
  PROVE  Spec => []NeverStuck
<1>1. Init => WakeInv /\ IInv /\ HandsInv /\ MeetInv /\ AllBorn
  <2>1. Init => WakeInv
    BY DEF Init, SystemInit, WakeInv, NoLostWakeup
  <2>2. Init => HandsInv
    BY LocksApart DEF Init, SystemInit, HandsInv
  <2>3. Init => MeetInv /\ AllBorn
    BY NamesDiffer DEF Init, SystemInit, MeetInv, AllBorn
  <2> QED
    BY <2>1, <2>2, <2>3, InitIInv
<1>2. SysInv /\ SysInv' /\ IInv /\ WakeInv /\ HandsInv /\ MeetInv /\ AllBorn /\ [Next]_vars
        => (WakeInv /\ IInv /\ HandsInv /\ MeetInv /\ AllBorn)'
  BY NextWakeInv, NextIInv, NextHandsInv, NextMeetInv, NextAllBorn
<1>3. WaitsInv => NeverStuck
  <2> SUFFICES ASSUME WaitsInv, pc[Main] \notin {"unborn", "dead"}
               PROVE  CanGoOn(Main) \/ \E j \in Ids : HasWork(j) /\ CanGoOn(j)
    BY DEF NeverStuck
  <2> USE DEF WaitsInv, SysInv
  <2>1. CASE pc[Main] = "join"
    <3>1. team = 1
      BY <2>1 DEF TaskInv, PlacesInv
    <3>2. CASE tasks[1] = 0
      BY <2>1, <3>1, <3>2 DEF CanGoOn
    <3>3. CASE tasks[1] # 0
      <4>1. PICK i \in Ids : HasWork(i)
        BY <3>3, WorkLeft
      <4>2. PICK j \in Ids : HasWork(j) /\ ~arrived[j]
        BY <3>1, <4>1, ArrivedWaitsForWork
      <4> QED
        BY <3>1, <4>2, NotArrivedGoesOn
    <3> QED
      BY <3>2, <3>3
  <2>2. CASE pc[Main] = "user"
    BY <2>2 DEF CanGoOn
  <2>3. CASE pc[Main] \in {"lock", "nest"}
    <3>1. tasks[1] = 0
      BY <2>3 DEF TaskInv, PlacesInv, CountsInv
    <3>2. \A c \in Contexts : pc[c] # "user"
      BY <2>3, <3>1, AllIdle, NamesDiffer DEF TaskInv, PlacesInv
    <3>3. Main \in Contexts
      BY NamesDiffer
    <3> QED
      BY <2>3, <3>2, <3>3, HolderGoesOn DEF CanGoOn, IInv, WaitInv
  <2> QED
    BY <2>1, <2>2, <2>3 DEF TaskInv, PlacesInv, Inside, ThreadInv, Waiting
<1> QED
  BY <1>1, <1>2, <1>3, ConstructInvariant, PTL DEF Spec, WaitsInv


-----------------------------------------------------------------------------
(* How many contexts there are.                                            *)
LEMMA ContextsCount ==
  /\ IsFiniteSet(Contexts) /\ Cardinality(Contexts) = MaxThreads + 2
  /\ \A c \in Contexts : IsFiniteSet(Contexts \ {c}) /\ Cardinality(Contexts \ {c}) = MaxThreads + 1
  /\ \A c \in Contexts \ {Bg} :
       IsFiniteSet(Contexts \ {Bg, c}) /\ Cardinality(Contexts \ {Bg, c}) = MaxThreads
<1>1. IsFiniteSet(Ids) /\ Cardinality(Ids) = MaxThreads /\ MaxThreads \in Nat
  <2>1. 0 \in Int /\ MaxThreads - 1 \in Int /\ MaxThreads \in Nat /\ MaxThreads >= 1
    BY Sizes
  <2>2. /\ IsFiniteSet(0 .. MaxThreads - 1)
        /\ Cardinality(0 .. MaxThreads - 1)
             = IF 0 > MaxThreads - 1 THEN 0 ELSE (MaxThreads - 1) - 0 + 1
    BY <2>1, FS_Interval, Zenon
  <2> QED
    BY <2>1, <2>2 DEF Ids
<1>2. IsFiniteSet(Ids \cup {Main}) /\ Cardinality(Ids \cup {Main}) = MaxThreads + 1
  BY <1>1, FS_AddElement, NamesDiffer
<1>3. /\ IsFiniteSet(Contexts) /\ Cardinality(Contexts) = MaxThreads + 2
  <2>1. Contexts = (Ids \cup {Main}) \cup {Bg} /\ Bg \notin Ids \cup {Main}
    BY NamesDiffer
  <2>2. /\ IsFiniteSet((Ids \cup {Main}) \cup {Bg})
        /\ Cardinality((Ids \cup {Main}) \cup {Bg}) = Cardinality(Ids \cup {Main}) + 1
    BY <1>2, <2>1, FS_AddElement
  <2> QED
    BY <1>1, <1>2, <2>1, <2>2
<1>4. ASSUME NEW c \in Contexts
      PROVE  IsFiniteSet(Contexts \ {c}) /\ Cardinality(Contexts \ {c}) = MaxThreads + 1
  <2>1. IsFiniteSet(Contexts \ {c}) /\ Cardinality(Contexts \ {c}) = Cardinality(Contexts) - 1
    BY <1>3, FS_RemoveElement
  <2> QED
    BY <1>1, <1>3, <2>1
<1>5. ASSUME NEW c \in Contexts \ {Bg}
      PROVE  IsFiniteSet(Contexts \ {Bg, c}) /\ Cardinality(Contexts \ {Bg, c}) = MaxThreads
  <2>1. c \in Contexts \ {Bg} /\ Bg \in Contexts
    BY NamesDiffer
  <2>2. Contexts \ {Bg, c} = (Contexts \ {Bg}) \ {c}
    OBVIOUS
  <2>3. /\ IsFiniteSet((Contexts \ {Bg}) \ {c})
        /\ Cardinality((Contexts \ {Bg}) \ {c}) = Cardinality(Contexts \ {Bg}) - 1
    BY <1>4, <2>1, FS_RemoveElement
  <2> QED
    BY <1>1, <1>4, <2>1, <2>2, <2>3
<1> QED
  BY <1>3, <1>4, <1>5

(* However many threads the members of a team, the criticals and the locks *)
(* suspend, resume and defer, thread_stack and DeferFIFO have room, and    *)
(* nobody is left where the background loop does not reach: main() is in   *)
(* DeferFIFO when no other thread is.                                      *)
THEOREM SwitchesAlwaysWork ==
  ASSUME TasksInRegions
  PROVE  Spec => []SwitchesWork
<1>1. SysInv /\ AllBorn => SwitchesWork
  <2> SUFFICES ASSUME SysInv, AllBorn PROVE SwitchesWork
    OBVIOUS
  <2> USE DEF SysInv
  <2>1. OpsInv(Existing) /\ cpu \in Contexts /\ Existing \subseteq Contexts /\ MaxThreads \in Nat
    BY Running, Sizes DEF ThreadInv, Existing
  <2>2. Len(pending) <= MaxThreads + 1
    <3>1. pending \in Seq(Existing) /\ IsInjective(pending) /\ cpu \notin Range(pending)
      BY <2>1 DEF OpsInv, OnePlaceEach, OnStack
    <3>2. pending \in Seq(Contexts \ {cpu})
      BY <2>1, <3>1, SeqRange, RangeInSeq
    <3>3. Len(pending) <= Cardinality(Contexts \ {cpu})
      BY <2>1, <3>1, <3>2, ContextsCount, NoLongerThan
    <3> QED
      BY <2>1, <3>3, ContextsCount
  <2>3. ASSUME cpu # Bg PROVE ~FifoFull
    <3>1. deferred \in Seq(Existing \ {Bg}) /\ IsInjective(deferred) /\ cpu \notin Range(deferred)
      BY <2>1 DEF OpsInv, OnePlaceEach, InFifo
    <3>2. deferred \in Seq(Contexts \ {Bg, cpu})
      BY <2>1, <3>1, SeqRange, RangeInSeq
    <3>3. Len(deferred) <= Cardinality(Contexts \ {Bg, cpu})
      BY <2>1, <2>3, <3>1, <3>2, ContextsCount, NoLongerThan
    <3>4. Len(deferred) <= MaxThreads /\ Len(deferred) \in Nat
      BY <2>1, <2>3, <3>1, <3>3, ContextsCount, LenProperties
    <3> QED
      BY <2>1, <3>4, GompAssumption DEF FifoFull
  <2>4. ASSUME At("background"), pc[Main] # "dead" PROVE deferred # <<>>
    <3>1. cpu = Bg /\ pc[Bg] = "background"
      BY <2>4, NamesDiffer DEF At, TaskInv, PlacesInv, Inside
    <3>2. Main \in Existing /\ Main # cpu
      BY <2>4, <3>1, NamesDiffer DEF AllBorn, Existing, Gone
    <3>3. Main \notin OnStack
      BY <2>1, <3>1 DEF OpsInv, BgUnderneath, OnStack, Range
    <3>4. Main \notin InObjects
      BY NamesDiffer DEF ThreadInv, InObjects, Range
    <3>5. Main \in Range(deferred)
      BY <2>1, <3>2, <3>3, <3>4 DEF OpsInv, OnePlaceEach, InFifo
    <3> QED
      BY <3>5 DEF Range
  <2> QED
    BY <2>2, <2>3, <2>4 DEF SwitchesWork
<1>2. Init => AllBorn
  BY NamesDiffer DEF Init, SystemInit, AllBorn
<1>3. SysInv /\ AllBorn /\ [Next]_vars => AllBorn'
  BY NextAllBorn
<1> QED
  BY <1>1, <1>2, <1>3, SysInvariant, PTL DEF Spec
=============================================================================
