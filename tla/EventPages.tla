------------------------------ MODULE EventPages ------------------------------
(***************************************************************************)
(* The two pages on which the staff of an event work towards its           *)
(* registration: the page of the event and its form builder.  A behaviour  *)
(* is one of them in use.                                                  *)
(***************************************************************************)
EXTENDS FormBuilder, EventPage

VARIABLE use   \* "event" or "builder"; does not change

vars == <<use, builderVars, eventVars>>

Init ==
  /\ use \in {"event", "builder"}
  /\ BuilderInit /\ EventInit
  /\ use = "event" => saved.rows = << >>
  /\ use = "builder" => isRunningEvent(event) /\ event.start = 0 /\ ~ requires_otp

Next ==
  /\ UNCHANGED use
  /\ \/ use = "builder" /\ BuilderNext /\ UNCHANGED eventVars
     \/ use = "event" /\ EventNext /\ UNCHANGED builderVars

Spec == Init /\ [][Next]_vars
=============================================================================
