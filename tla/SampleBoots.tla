----------------------------- MODULE SampleBoots -----------------------------
(***************************************************************************)
(* What the samples of both file systems have in common: a board that is   *)
(* booted several times, a place in the program, and calls that fail.      *)
(***************************************************************************)
EXTENDS Integers

CONSTANTS
  MAX_BOOTS,     \* bound: boots
  MAX_FAULTS     \* bound: calls that fail

ASSUME BootsAssumption == MAX_BOOTS \in Nat \ {0} /\ MAX_FAULTS \in Nat

VARIABLES
  pc,
  boots, faults  \* history

Goto(label) == pc' = label
Works == UNCHANGED <<boots, faults>>
Fails == faults < MAX_FAULTS /\ faults' = faults + 1 /\ UNCHANGED boots
=============================================================================
