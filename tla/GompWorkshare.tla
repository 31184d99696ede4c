--------------------------- MODULE GompWorkshare ----------------------------
(***************************************************************************)
(* GOMP_single_start and GOMP_sections_start, _next and _end.              *)
(***************************************************************************)
EXTENDS GompBarrier

VARIABLES
  single,        (* omp_threads[].single                                    *)
  teamSingle,    (* teams[].single                                          *)
  sectionsCount, (* teams[].sections_count                                  *)
  sections,      (* teams[].sections                                        *)
  section        (* teams[].section                                         *)

singleVars == <<single, teamSingle>>
sectionVars == <<sectionsCount, sections, section>>

(* GOMP_single_start() returns true. *)
SingleWins == single[Me] = teamSingle[team]

(* Mutant of SingleStart: only the winner counts the construct. *)
SingleStartLoserKeepsCount ==
  /\ At("user")
  /\ single' = IF SingleWins THEN [single EXCEPT ![Me] = @ + 1] ELSE single
  /\ teamSingle' = IF SingleWins THEN [teamSingle EXCEPT ![team] = @ + 1] ELSE teamSingle
  /\ UNCHANGED <<pc, threadVars>>

SingleStart ==
  /\ At("user")
  /\ single' = [single EXCEPT ![Me] = @ + 1]
  /\ teamSingle' = IF SingleWins THEN [teamSingle EXCEPT ![team] = @ + 1] ELSE teamSingle
  /\ UNCHANGED <<pc, threadVars>>

(* Mutant of NextSection: the last section is not handed out. *)
NextSectionLosesLast(s, n) == IF s >= n THEN 0 ELSE s

(* What GOMP_sections_next() returns when section and sections are s and n. *)
NextSection(s, n) == IF s > n THEN 0 ELSE s

(* What it leaves in section: past the last section it latches at zero. *)
SectionAfter(s, n) == IF NextSection(s, n) = 0 THEN 0 ELSE s + 1

SectionsNext ==
  /\ At("user")
  /\ section' = [section EXCEPT ![team] = SectionAfter(@, sections[team])]
  /\ UNCHANGED <<sectionsCount, sections, pc, threadVars>>

(* The first thread to get here captures the number of sections. *)
FirstInSections == sectionsCount[team] = 0

SectionsFor(n) == IF FirstInSections THEN n ELSE sections[team]
SectionFrom == IF FirstInSections THEN 1 ELSE section[team]

(* GOMP_sections_start(n) counts the caller, and goes on as sections_next. *)
SectionsStart(n) ==
  /\ At("user")
  /\ sections' = [sections EXCEPT ![team] = SectionsFor(n)]
  /\ section' = [section EXCEPT ![team] = SectionAfter(SectionFrom, SectionsFor(n))]
  /\ sectionsCount' = [sectionsCount EXCEPT ![team] = @ + 1]
  /\ UNCHANGED <<pc, threadVars>>

(* Mutant of SectionsEnd: the start is never re-armed. *)
SectionsEndNoRearm ==
  /\ BarrierEnter
  /\ UNCHANGED <<sectionsCount, sections, section>>

(* Re-arm the start once every member has started, then GOMP_barrier(). *)
SectionsEnd ==
  /\ sectionsCount' = [sectionsCount EXCEPT ![team] = IF @ = num THEN 0 ELSE @]
  /\ BarrierEnter
  /\ UNCHANGED <<sections, section>>
=============================================================================
