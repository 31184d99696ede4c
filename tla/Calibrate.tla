----------------------------- MODULE Calibrate ------------------------------
(***************************************************************************)
(* The countdown of calibrate.cpp: one clock for each of 64 bits of ticks, *)
(* counted in two registers of 32.  The first run through the inner loop   *)
(* counts the low word, each later one a whole word: the low word wraps.   *)
(***************************************************************************)
EXTENDS Integers

CONSTANT Word          (* the number of values of a register *)

ASSUME WordAssumption == Word \in Nat \ {0}

VARIABLES
  ticks,   (* the clocks to spend                                           *)
  tl, th,  (* its words                                                     *)
  label,   (* the label the code is at                                      *)
  spent    (* how often the inner loop has been run                         *)

countVars == <<ticks, tl, th, label, spent>>

(* ticks is what atoll makes of the argument; the code begins with cbz tl. *)
CountFrom(counts) ==
  /\ ticks \in counts
  /\ tl = ticks % Word /\ th = ticks \div Word
  /\ label = IF tl = 0 THEN "2" ELSE "1"
  /\ spent = 0

CountInit == CountFrom(0 .. Word * Word - 1)

(* 1: subs tl, #1; bne 1b *)
Inner ==
  /\ label = "1"
  /\ tl' = (tl - 1) % Word
  /\ spent' = spent + 1
  /\ label' = IF tl' = 0 THEN "2" ELSE "1"
  /\ UNCHANGED <<ticks, th>>

(* Mutant of Outer: the loop is left when the high word becomes zero. *)
OuterEarly ==
  /\ label = "2"
  /\ IF th \in {0, 1} THEN label' = "3" /\ UNCHANGED th ELSE label' = "1" /\ th' = th - 1
  /\ UNCHANGED <<ticks, tl, spent>>

(* Mutant of Outer: it branches to its own test, th not counted. *)
OuterSpins ==
  /\ label = "2" /\ label' = IF th = 0 THEN "3" ELSE "2"
  /\ UNCHANGED <<ticks, tl, th, spent>>

(* 2: cbz th, 3f; subs th, #1; b 1b *)
Outer ==
  /\ label = "2"
  /\ IF th = 0 THEN label' = "3" /\ UNCHANGED th ELSE label' = "1" /\ th' = th - 1
  /\ UNCHANGED <<ticks, tl, spent>>

CountNext == Inner \/ Outer \/ (label = "3" /\ UNCHANGED countVars)

CountSpec == CountInit /\ [][CountNext]_countVars /\ WF_countVars(CountNext)

-----------------------------------------------------------------------------
(* As the head of the file says, the program spins for the defined number  *)
(* of clocks, also where the low word is zero and where it wraps.          *)
SpendsTicks == spent <= ticks /\ (label = "3" => spent = ticks)

(* And then it terminates: once the inner loop has begun, the label behind *)
(* both loops is reached.                                                  *)
Terminates == spent > 0 ~> label = "3"
=============================================================================
