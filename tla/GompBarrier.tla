---------------------------- MODULE GompBarrier -----------------------------
(***************************************************************************)
(* GOMP_barrier.  A context inside it is at "barrier"; toResume holds the  *)
(* ids its releasing loop has still to resume.                             *)
(***************************************************************************)
EXTENDS GompState

VARIABLES
  arrived,      (* omp_threads[].arrived                                    *)
  toResume      (* per context: what is left of the releasing loop          *)

barrierVars == <<arrived, toResume>>

(* Mutant of TeamToScan: the scan misses the last member. *)
TeamToScanShort == 0 .. num - 2

(* The members whose flags GOMP_barrier looks at. *)
TeamToScan == TeamIds

(* Some other team member has not arrived: suspend in omp_threads[id]. *)
BarrierWait ==
  /\ \E i \in TeamToScan \ {Me} : ~arrived[i]
  /\ arrived' = [arrived EXCEPT ![Me] = TRUE]
  /\ Suspend(Me)
  /\ UNCHANGED toResume

(* Mutant of ToRelease: the loop starts at the second member. *)
ToReleaseFromOne == TeamIds \ {0, Me}

(* The members the releasing loop resumes. *)
ToRelease == TeamIds \ {Me}

(* Mutant of BarrierLast: the arrived flags are left set. *)
BarrierLastKeepsFlags ==
  /\ \A i \in TeamToScan \ {Me} : arrived[i]
  /\ toResume' = [toResume EXCEPT ![cpu] = ToRelease]
  /\ UNCHANGED <<arrived, threadVars>>

(* Everybody has arrived: clear the team's flags before resuming anybody. *)
BarrierLast ==
  /\ \A i \in TeamToScan \ {Me} : arrived[i]
  /\ arrived' = [i \in Ids |-> i \notin TeamIds /\ arrived[i]]
  /\ toResume' = [toResume EXCEPT ![cpu] = ToRelease]
  /\ UNCHANGED threadVars

BarrierEnter ==
  /\ At("user")
  /\ Goto("barrier")
  /\ BarrierWait \/ BarrierLast

(* The releasing loop resumes one member; the releaser is pending meanwhile. *)
BarrierRelease ==
  /\ At("barrier") /\ toResume[cpu] # {}
  /\ Resume(Min(toResume[cpu]))
  /\ toResume' = [toResume EXCEPT ![cpu] = @ \ {Min(@)}]
  /\ UNCHANGED <<pc, arrived>>

(* A resumed member, and the releaser after its loop, return to the caller. *)
BarrierReturn ==
  /\ At("barrier") /\ toResume[cpu] = {}
  /\ Goto("user")
  /\ UNCHANGED <<threadVars, barrierVars>>
=============================================================================
