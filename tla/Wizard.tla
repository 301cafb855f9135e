-------------------------------- MODULE Wizard --------------------------------
(***************************************************************************)
(* The multi-step form that staff use to make an event and visitors use to *)
(* register: a page in the browser, its draft in localStorage, and one     *)
(* request at a time.  A page gives its steps (a sequence of sets of       *)
(* fields) and checks[i], the fields with an error in step i of the form.  *)
(*                                                                         *)
(* An action is an event of the page together with the effects React runs  *)
(* after it: the draft is saved, the errors in view are computed again,    *)
(* and a server error moves the page to the step that owns it.             *)
(***************************************************************************)
EXTENDS Naturals, SequencesExt

VARIABLES
  open,        \* the page is mounted
  data,        \* useForm: the form, part by part
  cur, max,    \* currentStep and maxStep
  stepErr,     \* stepErrors: fields with an error found by the browser
  srvErr,      \* useForm errors: fields with an error found by the server
  sending,     \* the form of the request in progress, or NoForm
  draft        \* the snapshot in localStorage, or NoDraft

page == <<open, data, cur, max, stepErr, srvErr, sending>>

NoForm == [none |-> TRUE]
NoDraft == [none |-> TRUE]

Snapshot(step, d) == [step |-> step, data |-> d]

(* The fields whose value differs.                                         *)
Changed(old, new) == {f \in DOMAIN old : old[f] # new[f]}

-----------------------------------------------------------------------------
(* Effects.                                                                *)

(* The first step that owns one of the errors, or the step in view.        *)
JumpTarget(steps, errs) ==
  LET owners == {i \in DOMAIN steps : steps[i] \cap errs # {}}
  IN  IF owners = {} THEN cur ELSE CHOOSE i \in owners : \A j \in owners : i <= j

(* Errors in view are computed again when the form or the step changed;    *)
(* a step without errors in view is left alone.                            *)
Revalidated_Once(checks, errs, i, j) == IF errs = {} THEN {} ELSE checks[i]

Revalidated(checks, errs, i, j) ==
  IF errs = {} \/ checks[i] = {} THEN {} ELSE checks[j]

-----------------------------------------------------------------------------
(* Mounting the page.  The draft, when there is one, replaces the form the *)
(* page begins with; then saving begins, so the draft exists from here on. *)
Mount(initial) ==
  /\ ~ open /\ open' = TRUE
  /\ IF draft = NoDraft THEN data' = initial /\ cur' = 1
     ELSE data' = draft.data /\ cur' = draft.step
  /\ max' = cur'
  /\ draft' = Snapshot(max', data')
  /\ UNCHANGED <<stepErr, srvErr, sending>>

Unmounted(blank) ==
  /\ open' = FALSE /\ data' = blank /\ cur' = 1 /\ max' = 1
  /\ stepErr' = {} /\ srvErr' = {} /\ sending' = NoForm

(* The form becomes d.  The server errors of the changed fields are        *)
(* cleared, which makes the remaining ones move the page to the step that  *)
(* owns them; steps that every render builds anew have the same effect.    *)
Type(steps, checks, d, keys, rebuilt) ==
  LET errs == srvErr \ keys
  IN /\ open
     /\ data' = d
     /\ srvErr' = errs
     /\ cur' = IF errs # srvErr \/ rebuilt THEN JumpTarget(steps, errs) ELSE cur
     /\ stepErr' = Revalidated(checks, stepErr, cur, cur')
     /\ draft' = Snapshot(max, d)
     /\ UNCHANGED <<open, max, sending>>

NextStep_SavesStepInView(steps, checks) ==
  /\ open /\ cur < Len(steps)
  /\ stepErr' = checks[cur]
  /\ IF stepErr' # {} THEN UNCHANGED <<cur, max, draft>>
     ELSE /\ cur' = cur + 1
          /\ max' = IF cur' > max THEN cur' ELSE max
          /\ draft' = Snapshot(cur', data)
  /\ UNCHANGED <<open, data, srvErr, sending>>

NextStep(steps, checks) ==
  /\ open /\ cur < Len(steps)
  /\ stepErr' = checks[cur]
  /\ IF stepErr' # {} THEN UNCHANGED <<cur, max, draft>>
     ELSE /\ cur' = cur + 1
          /\ max' = IF cur' > max THEN cur' ELSE max
          /\ draft' = IF max' # max THEN Snapshot(max', data) ELSE draft
  /\ UNCHANGED <<open, data, srvErr, sending>>

(* Back, and a pill of the progress bar up to the furthest step reached.   *)
BackStep ==
  /\ open /\ cur > 1 /\ sending = NoForm
  /\ cur' = cur - 1 /\ stepErr' = {}
  /\ UNCHANGED <<open, data, max, srvErr, sending, draft>>

JumpTo(i) ==
  /\ open /\ i <= max
  /\ cur' = i /\ stepErr' = {}
  /\ UNCHANGED <<open, data, max, srvErr, sending, draft>>

(* Only the last step is validated; the draft may be cleared first.        *)
Submit_KeepsDraft(steps, checks, clears) ==
  /\ open /\ cur = Len(steps) /\ sending = NoForm
  /\ stepErr' = checks[cur]
  /\ sending' = IF stepErr' # {} THEN sending ELSE data
  /\ UNCHANGED <<open, data, cur, max, srvErr, draft>>

Submit(steps, checks, clears) ==
  /\ open /\ cur = Len(steps) /\ sending = NoForm
  /\ stepErr' = checks[cur]
  /\ IF stepErr' # {} THEN UNCHANGED <<draft, sending>>
     ELSE /\ sending' = data
          /\ draft' = IF clears THEN NoDraft ELSE draft
  /\ UNCHANGED <<open, data, cur, max, srvErr>>

(* An answer with errors, and no answer.                                   *)
Refuse(steps, checks, errs) ==
  /\ sending # NoForm /\ errs # {}
  /\ srvErr' = errs
  /\ cur' = JumpTarget(steps, errs)
  /\ stepErr' = IF cur' = cur \/ stepErr = {} THEN stepErr ELSE checks[cur']
  /\ sending' = NoForm
  /\ UNCHANGED <<open, data, max, draft>>

Unheard ==
  /\ sending # NoForm /\ sending' = NoForm
  /\ UNCHANGED <<open, data, cur, max, stepErr, srvErr, draft>>
=============================================================================
