---------------------------- MODULE MCAttendance ----------------------------
(***************************************************************************)
(* Attendance with interchangeable requests.                               *)
(***************************************************************************)
EXTENDS Attendance, TLC

Symmetry == Permutations(Requests)
=============================================================================
