------------------------------ MODULE Discipleship ------------------------------
(***************************************************************************)
(* The pages of a discipleship program: an operator is on the page of the  *)
(* program or on that of its first batch, while other operators change the *)
(* same records.  What follows from a gesture is not bounded.              *)
(***************************************************************************)
EXTENDS ProgramPage, BatchPage

CONSTANTS
  Mountings,     \* the sets of prefixes that the routes may be mounted under
  MaxGestures    \* bound on the gestures of the operator and of others

ASSUME GesturesAssumption == MaxGestures \in Nat

VARIABLES page, gestures

vars == <<page, prefixes, gestures, records, pageVars, gridVars>>

Init ==
  /\ page \in {"program", "batch"} /\ prefixes \in Mountings /\ gestures = 0
  /\ RecordsInit /\ ProgramInit /\ BatchInit

Next ==
  /\ UNCHANGED <<page, prefixes>>
  /\ \/ /\ gestures < MaxGestures /\ gestures' = gestures + 1
        /\ \/ OtherOperators /\ UNCHANGED <<pageVars, gridVars>>
           \/ page = "program" /\ ProgramGesture /\ UNCHANGED gridVars
           \/ page = "batch" /\ BatchGesture /\ UNCHANGED pageVars
     \/ /\ UNCHANGED gestures
        /\ \/ page = "program" /\ ProgramConsequence /\ UNCHANGED gridVars
           \/ page = "batch" /\ BatchConsequence /\ UNCHANGED pageVars

Spec == Init /\ [][Next]_vars

-----------------------------------------------------------------------------
(* The variables have their types; what the dialog of a new enrollment     *)
(* shows is what it sends (SelectedAgrees); and a cell without a mark is   *)
(* as the server sent it (CleanIsSeen).                                    *)
ShownIsMeant ==
  /\ gestures \in 0..MaxGestures /\ ProgramTypeOK /\ GridTypeOK
  /\ SelectedAgrees /\ CleanIsSeen
=============================================================================
