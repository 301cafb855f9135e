------------------------------ MODULE MCIntake ------------------------------
(***************************************************************************)
(* Intake with interchangeable requests, events and birthdays.             *)
(***************************************************************************)
EXTENDS Intake, TLC

Symmetry ==
  Permutations(Requests) \cup Permutations(Events) \cup Permutations(Birthdays)
  \cup Permutations(Occurrences)
=============================================================================
