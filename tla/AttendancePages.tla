---------------------------- MODULE AttendancePages ----------------------------
(***************************************************************************)
(* The attendance pages of the system: a device shows the desk of a        *)
(* running event or the list of a church activity.  The gestures at the    *)
(* desk are bounded; what follows from them is not.                        *)
(***************************************************************************)
EXTENDS AttendanceDesk, Rosters

CONSTANT MaxGestures   \* bound on the gestures at the desk

PagesConstants == DeskConstants /\ RosterConstants /\ MaxGestures \in Nat

ASSUME PagesAssumption == PagesConstants

VARIABLES kind, gestures

pagesVars == <<kind, gestures, deskVars, rosterVars>>

PagesInit ==
  /\ kind \in {"desk", "list"} /\ gestures = 0
  /\ DeskInit /\ RosterInit
  /\ kind = "desk" => roster = "church"

PagesNext ==
  \/ /\ kind = "desk" /\ UNCHANGED <<kind, rosterVars>>
     /\ \/ Gesture /\ gestures < MaxGestures /\ gestures' = gestures + 1
        \/ Consequence /\ UNCHANGED gestures
  \/ kind = "list" /\ (Others \/ RosterNext) /\ UNCHANGED <<kind, gestures, deskVars>>

PagesSpec == PagesInit /\ [][PagesNext]_pagesVars

-----------------------------------------------------------------------------
(* The variables have their types; and a list is sound (see Rosters).      *)
ListsSound == DeskTypeOK /\ gestures \in 0..MaxGestures /\ RosterTypeOK /\ ListSound
=============================================================================
