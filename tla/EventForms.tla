------------------------------ MODULE EventForms ------------------------------
(***************************************************************************)
(* The form of an event: its wizard, and the fields in it that keep state  *)
(* of their own beside the value of the form.  The wizard takes a value as *)
(* a whole, whatever gestures it is made of, so that a behaviour follows   *)
(* the wizard or one of the fields.                                        *)
(***************************************************************************)
EXTENDS EventWizard, Pickers

VARIABLE follows   \* "wizard" or "field"; does not change

formVars == <<follows, vars, fieldVars>>

FormInit ==
  /\ follows \in {"wizard", "field"}
  /\ Init /\ FieldInit
  /\ follows = "wizard" => field = "distance"
  /\ follows = "field" => flow = "create" /\ kind = "running"

FormNext ==
  \/ follows = "wizard" /\ Next /\ UNCHANGED <<follows, fieldVars>>
  \/ follows = "field" /\ FieldNext /\ UNCHANGED <<follows, vars>>

FormSpec == FormInit /\ [][FormNext]_formVars
=============================================================================
