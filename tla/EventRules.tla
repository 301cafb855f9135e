----------------------------- MODULE EventRules -----------------------------
(***************************************************************************)
(* The lifecycle rules of an event: the transition tables of EventStatus   *)
(* and ChurchEventStatus and the predicates of the Event model.  Every     *)
(* predicate takes the event row it is asked about, because the code asks  *)
(* it sometimes of a row read under a lock and sometimes of the copy the   *)
(* router bound when the request arrived.                                  *)
(***************************************************************************)
EXTENDS Integers

CONSTANT FinalizeDelay    \* addHour() of canFinalize, in clock ticks

ASSUME RulesAssumption == FinalizeDelay \in Nat

None == -1          \* a time column that is null

Statuses == {"draft", "registration_open", "registration_closed",
             "ongoing", "completed", "cancelled"}
ChurchStatuses == {"upcoming", "ongoing", "completed", "cancelled"}

allowedTransitions(status) ==
  CASE status = "draft" -> {"registration_open", "cancelled"}
    [] status = "registration_open" ->
         {"registration_closed", "ongoing", "cancelled"}
    [] status = "registration_closed" ->
         {"registration_open", "ongoing", "cancelled"}
    [] status = "ongoing" -> {"completed", "cancelled"}
    [] OTHER -> {}

churchTransitions(status) ==
  CASE status = "upcoming" -> {"ongoing", "cancelled"}
    [] status = "ongoing"  -> {"completed", "cancelled"}
    [] OTHER -> {}

-----------------------------------------------------------------------------
(* An event row: its kind, the status column of its kind, the switch and   *)
(* the slug of its public link, the number of the last save of its         *)
(* registration form (0 while registration_form_saved_at is null), its     *)
(* scheduled start and registration_end.                                   *)
EventRow == [kind : {"running", "church"},
             status : Statuses, churchStatus : ChurchStatuses,
             churchOpen : BOOLEAN, slug : Nat, form : Nat,
             start : Nat, regEnd : Nat \cup {None}]

isRunningEvent(e) == e.kind = "running"
isChurchEvent(e)  == e.kind = "church"

canEdit_AnyRunning(e) ==      \* mutant: no status check for running events
  \/ isChurchEvent(e) /\ e.churchStatus \in {"upcoming", "ongoing"}
  \/ isRunningEvent(e)
canEdit(e) ==
  \/ isChurchEvent(e) /\ e.churchStatus \in {"upcoming", "ongoing"}
  \/ isRunningEvent(e) /\ e.status \in {"draft", "registration_open",
                                        "registration_closed"}

canEditRegistrationForm(e) == isRunningEvent(e) /\ e.status = "draft"

canOpenRegistration_NoForm(e) ==      \* mutant: the saved form is not required
  isRunningEvent(e) /\ e.status = "draft"
canOpenRegistration(e) ==
  isRunningEvent(e) /\ e.status = "draft" /\ e.form # 0

acceptsPublicRegistration(e, t) ==
  /\ isRunningEvent(e)
  /\ e.status \in {"registration_open", "ongoing"}
  /\ e.regEnd = None \/ t < e.regEnd

acceptsChurchPublicRegistration(e) ==
  isChurchEvent(e) /\ e.churchOpen /\ e.churchStatus \in {"upcoming", "ongoing"}

canCloseRegistration(e, t) == acceptsPublicRegistration(e, t)

canReopenRegistration(e, t) ==
  /\ isRunningEvent(e)
  /\ \/ e.status = "registration_closed"
     \/ /\ e.status \in {"registration_open", "ongoing"}
        /\ ~ acceptsPublicRegistration(e, t)

canFinalize_AtStart(e, t) ==      \* mutant: addHour() forgotten
  isRunningEvent(e) /\ e.status = "ongoing" /\ t >= e.start
canFinalize(e, t) ==
  isRunningEvent(e) /\ e.status = "ongoing" /\ t >= e.start + FinalizeDelay

(* EnsureRegistrationIsOpen and assertOpen: may a visitor of the public    *)
(* link start a registration?                                              *)
TakesVisitors(e, t) ==
  acceptsPublicRegistration(e, t) \/ acceptsChurchPublicRegistration(e)
=============================================================================
