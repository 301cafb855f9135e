--------------------------- MODULE EventLifecycle ---------------------------
(***************************************************************************)
(* One event row and the staff requests that move it through its life.     *)
(*                                                                         *)
(* A request is three steps, and requests interleave between them:         *)
(*   Bind     the router reads the {event} row into the request;           *)
(*   Advance  the event.advance middleware starts an event whose time has  *)
(*            come, judging by the row the request bound;                  *)
(*   handler  the controller method.  Some handlers lock the row and read  *)
(*            it again, others write from the row the request bound.       *)
(***************************************************************************)
EXTENDS EventRules

CONSTANTS
  Requests,     \* the requests in progress at one time
  Kinds,        \* the kinds of event to consider
  MaxTime,      \* bound on the clock
  MaxForm       \* bound on the number of saves of the registration form

ASSUME LifecycleAssumption == /\ Kinds \subseteq {"running", "church"}
                              /\ MaxTime \in Nat
                              /\ MaxForm \in Nat

VARIABLES
  now,          \* the clock
  ev,           \* the events row in the database
  phase,        \* phase[r]: how far request r is
  snap,         \* snap[r]: the row request r bound (its $event)
  overlapped    \* history: two requests have been in progress at one time

vars == <<now, ev, phase, snap, overlapped>>

TypeOK ==
  /\ now \in Nat
  /\ ev \in EventRow
  /\ phase \in [Requests -> {"idle", "bound", "advanced"}]
  /\ snap \in [Requests -> EventRow]
  /\ overlapped \in BOOLEAN

(* The columns of a new row; also what an idle request remembers.          *)
Blank == [kind |-> "running", status |-> "draft", churchStatus |-> "upcoming",
          churchOpen |-> FALSE, slug |-> 0, form |-> 0, start |-> 0,
          regEnd |-> None]

(* EventController::store: validation has the start not in the past.       *)
Init ==
  /\ now = 0
  /\ \E k \in Kinds, s \in 0 .. MaxTime :
       ev = [Blank EXCEPT !.kind = k, !.start = s]
  /\ phase = [r \in Requests |-> "idle"]
  /\ snap = [r \in Requests |-> Blank]
  /\ overlapped = FALSE

Tick ==
  /\ now < MaxTime
  /\ now' = now + 1
  /\ UNCHANGED <<ev, phase, snap, overlapped>>

-----------------------------------------------------------------------------
Bind(r) ==
  /\ phase[r] = "idle"
  /\ phase' = [phase EXCEPT ![r] = "bound"]
  /\ snap' = [snap EXCEPT ![r] = ev]
  /\ overlapped' = (overlapped \/ \E q \in Requests : phase[q] # "idle")
  /\ UNCHANGED <<now, ev>>

(* What EventWorkflow::transition leaves in a row it read as s and saves   *)
(* over e: only the columns it changed are written.                        *)
Transitioned(e, s, target) ==
  IF target = "ongoing" /\ s.status = "registration_closed" /\ s.regEnd = None
  THEN [e EXCEPT !.status = target, !.regEnd = now]
  ELSE [e EXCEPT !.status = target]

canTransition(s, target) ==
  isRunningEvent(s) /\ target \in allowedTransitions(s.status)

StartIsDue_ClosedOnly(s) ==      \* mutant: what the class comment describes
  isRunningEvent(s) /\ s.status = "registration_closed" /\ now >= s.start
StartIsDue(s) ==
  /\ isRunningEvent(s)
  /\ s.status \in {"registration_open", "registration_closed"}
  /\ now >= s.start

Advance(r) ==
  /\ phase[r] = "bound"
  /\ phase' = [phase EXCEPT ![r] = "advanced"]
  /\ IF StartIsDue(snap[r]) /\ canTransition(snap[r], "ongoing")
     THEN /\ ev' = Transitioned(ev, snap[r], "ongoing")
          /\ snap' = [snap EXCEPT ![r] = Transitioned(@, @, "ongoing")]
     ELSE UNCHANGED <<ev, snap>>
  /\ UNCHANGED <<now, overlapped>>

(* The request ends; its copy of the row is gone.                          *)
Done(r) ==
  /\ phase[r] = "advanced"
  /\ phase' = [phase EXCEPT ![r] = "idle"]
  /\ snap' = [snap EXCEPT ![r] = Blank]
  /\ UNCHANGED <<now, overlapped>>

(* A page is shown, or the handler refuses (403, or a validation error).   *)
Show(r) == Done(r) /\ UNCHANGED ev

(* EventController::update: a running event gets a new start.  Eloquent    *)
(* writes a column only if it differs from the row the request bound.      *)
UpdateRunning(r) ==
  /\ Done(r)
  /\ isRunningEvent(snap[r]) /\ canEdit(snap[r])
  /\ \E s \in now .. MaxTime :
       ev' = IF s = snap[r].start THEN ev ELSE [ev EXCEPT !.start = s]

assertChurchStatusTransitionIsLegal_Any(s, requested) ==      \* mutant
  requested \in ChurchStatuses
assertChurchStatusTransitionIsLegal(s, requested) ==
  requested = s.churchStatus \/ requested \in churchTransitions(s.churchStatus)

(* EventController::update of a church event, which may also move its      *)
(* church_status.                                                          *)
UpdateChurch(r) ==
  /\ Done(r)
  /\ isChurchEvent(snap[r]) /\ canEdit(snap[r])
  /\ \E s \in now .. MaxTime, cs \in ChurchStatuses :
       /\ assertChurchStatusTransitionIsLegal(snap[r], cs)
       /\ ev' = [ev EXCEPT
            !.start = IF s = snap[r].start THEN @ ELSE s,
            !.churchStatus = IF cs = snap[r].churchStatus THEN @ ELSE cs]

(* RegistrationFormController::update: checked, then checked again on the  *)
(* locked row.                                                             *)
SaveForm_Unlocked(r) ==      \* mutant: the second check is missing
  /\ Done(r)
  /\ canEditRegistrationForm(snap[r])
  /\ ev.form < MaxForm
  /\ ev' = [ev EXCEPT !.form = @ + 1]
SaveForm(r) ==
  /\ Done(r)
  /\ canEditRegistrationForm(snap[r])
  /\ canEditRegistrationForm(ev)
  /\ ev.form < MaxForm
  /\ ev' = [ev EXCEPT !.form = @ + 1]

(* The three registration switches re-read the row under a lock.  A slug   *)
(* is counted: each generated slug differs from every earlier one.         *)
OpenRegistration_Stale(r) ==      \* mutant: the bound row is trusted
  /\ Done(r)
  /\ canOpenRegistration(snap[r]) /\ canTransition(snap[r], "registration_open")
  /\ ev' = [ev EXCEPT !.status = "registration_open",
                      !.slug = @ + 1, !.regEnd = None]
OpenRegistration(r) ==
  /\ Done(r)
  /\ canOpenRegistration(ev) /\ canTransition(ev, "registration_open")
  /\ ev' = [ev EXCEPT !.status = "registration_open",
                      !.slug = @ + 1, !.regEnd = None]

CloseRegistration_NoEnd(r) ==      \* mutant: registration_end is left alone
  /\ Done(r)
  /\ canCloseRegistration(snap[r], now)
  /\ canCloseRegistration(ev, now)
  /\ ev' = [ev EXCEPT
              !.status = IF @ = "ongoing" THEN @ ELSE "registration_closed"]
CloseRegistration(r) ==
  /\ Done(r)
  /\ canCloseRegistration(snap[r], now)
  /\ canCloseRegistration(ev, now)
  /\ ev' = [ev EXCEPT !.regEnd = now,
              !.status = IF @ = "ongoing" THEN @ ELSE "registration_closed"]

ReopenRegistration_AlwaysOpen(r) ==      \* mutant: an ongoing event is reset
  /\ Done(r)
  /\ canReopenRegistration(snap[r], now)
  /\ canReopenRegistration(ev, now)
  /\ ev' = [ev EXCEPT !.regEnd = None, !.status = "registration_open"]
ReopenRegistration(r) ==
  /\ Done(r)
  /\ canReopenRegistration(snap[r], now)
  /\ canReopenRegistration(ev, now)
  /\ ev' = [ev EXCEPT !.regEnd = None,
              !.status = IF @ = "registration_closed"
                         THEN "registration_open" ELSE @]

(* EventController::finalize judges by the bound row and does not lock.    *)
Finalize(r) ==
  /\ Done(r)
  /\ canFinalize(snap[r], now) /\ canTransition(snap[r], "completed")
  /\ ev' = Transitioned(ev, snap[r], "completed")

(* ChurchRegistrationBridgeController::publish switches the public link of *)
(* a church event on or off, on the locked row.                            *)
Publish_Toggle(r) ==      \* mutant: closing the link removes the slug
  /\ Done(r)
  /\ isChurchEvent(snap[r])
  /\ \E open \in BOOLEAN :
       ev' = [ev EXCEPT !.churchOpen = open,
                        !.slug = IF open THEN 1 ELSE None,
                        !.form = IF @ = 0 THEN 1 ELSE @]
Publish(r) ==
  /\ Done(r)
  /\ isChurchEvent(snap[r])
  /\ \E open \in BOOLEAN :
       ev' = [ev EXCEPT !.churchOpen = open,
                        !.slug = IF @ = 0 THEN 1 ELSE @,
                        !.form = IF @ = 0 THEN 1 ELSE @]

-----------------------------------------------------------------------------
Handler(r) ==
  \/ Show(r)
  \/ UpdateRunning(r)
  \/ UpdateChurch(r)
  \/ SaveForm(r)
  \/ OpenRegistration(r)
  \/ CloseRegistration(r)
  \/ ReopenRegistration(r)
  \/ Finalize(r)
  \/ Publish(r)

Next == Tick \/ \E r \in Requests : Bind(r) \/ Advance(r) \/ Handler(r)

Spec == Init /\ [][Next]_vars

(* A request that has begun is answered, and staff keep opening the pages  *)
(* of the event.                                                           *)
Visited == \A r \in Requests : /\ WF_vars(Bind(r))
                             /\ WF_vars(Advance(r))
                             /\ WF_vars(Handler(r))

FairSpec == Spec /\ Visited

-----------------------------------------------------------------------------
(* Properties.                                                             *)

Published(e) == IF isRunningEvent(e) THEN e.status # "draft" ELSE e.slug # 0
Started(e) == e.status \in {"ongoing", "completed"}

(* An event that left draft or lets visitors in has a saved form and a     *)
(* public link, and a draft has no link: openRegistration is the only way  *)
(* out of draft, no stale write re-creates a draft, and publish() never    *)
(* takes a link back.                                                      *)
PublishedHasFormAndLink ==
  /\ Published(ev) \/ TakesVisitors(ev, now) => ev.form # 0 /\ ev.slug # 0
  /\ isRunningEvent(ev) /\ ev.slug # 0 => ev.status # "draft"

(* The registration form of a running event never changes once the event   *)
(* is published, whatever requests overlap: answers refer to its fields.   *)
FormFrozenOncePublished ==
  [][isRunningEvent(ev) /\ Published(ev) => ev'.form = ev.form]_vars

(* A closed registration has an end in the past, so its public page stays  *)
(* shut even when a stale request moves the event to ongoing.              *)
ClosedHasEnd ==
  /\ ev.status = "registration_closed" => ev.regEnd # None
  /\ ev.regEnd # None => ev.regEnd <= now

(* However requests overlap, the row implements what holders of the public *)
(* link are promised: see PublicLink.  The link and the form are fixed by  *)
(* the one publication, and no stale write undoes a start.                 *)
Link == INSTANCE PublicLink WITH
          stage <- IF isRunningEvent(ev) /\ Started(ev) THEN "started"
                   ELSE IF Published(ev) THEN "published" ELSE "draft",
          form <- ev.form,
          link <- ev.slug
LinkKept == Link!Spec

(* The status column only takes the steps of EventStatus, as long as no    *)
(* two requests have overlapped.                                           *)
StatusStep ==
  ev'.status # ev.status => ev'.status \in allowedTransitions(ev.status)
StatusFollowsWorkflow == [][~ overlapped => StatusStep]_vars

(* Finalization is for good where the schedule is concerned: while an      *)
(* event is completed, no request writes its other columns (canEdit),      *)
(* unless it overlaps with the finalization.                               *)
FinalizedDataUnchanged ==
  [][~ overlapped /\ ev.status = "completed" /\ ev'.status = "completed"
       => ev' = ev]_vars

(* The church_status column only takes the steps of ChurchEventStatus:     *)
(* completed and cancelled are final, unless two updates overlap.          *)
ChurchStatusFollowsWorkflow ==
  [][~ overlapped /\ ev'.churchStatus # ev.churchStatus
       => ev'.churchStatus \in churchTransitions(ev.churchStatus)]_vars

(* An event that is ongoing or over has reached its start, and an event    *)
(* that is over lasted until it could be finalized (AdvanceEventStatus,    *)
(* canFinalize), unless its start was moved by an overlapping update.      *)
StartedOnTime ==
  ~ overlapped =>
    /\ Started(ev) => now >= ev.start
    /\ ev.status = "completed" => now >= ev.start + FinalizeDelay

(* A published event whose start has come is started by the next visit,    *)
(* unless its start is moved first, also one whose registration is open.   *)
Overdue == /\ ev.status \in {"registration_open", "registration_closed"}
           /\ now >= ev.start
StartsWhenVisited == Overdue ~> ~ Overdue

(* The row makes sense at every moment: published with its form and link,  *)
(* closed with its end, and started no sooner than it may be.              *)
RowConsistent ==
  TypeOK /\ PublishedHasFormAndLink /\ ClosedHasEnd /\ StartedOnTime

(* The row moves along the two workflows of the application, and a         *)
(* completed event is left alone, as long as no two requests overlapped:   *)
(* finalize, the middleware and both updates judge by a row read earlier.  *)
WorkflowFollowed ==
  /\ StatusFollowsWorkflow
  /\ ChurchStatusFollowsWorkflow
  /\ FinalizedDataUnchanged
=============================================================================
