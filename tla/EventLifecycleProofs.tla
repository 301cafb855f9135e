------------------------ MODULE EventLifecycleProofs ------------------------
(***************************************************************************)
(* Theorems about EventLifecycle, for any number of overlapping requests   *)
(* and any bounds.                                                         *)
(***************************************************************************)
EXTENDS EventLifecycle, TLAPS

(* What a request remembers of the row may be old, but never ahead of the  *)
(* database: an event it saw published is published, one it saw started is *)
(* started.  Without this nothing can be said of the handlers that write   *)
(* from the bound row.                                                     *)
SnapOld(r) ==
  phase[r] # "idle" =>
    /\ snap[r].kind = ev.kind
    /\ snap[r].status # "cancelled"
    /\ snap[r].status # "draft" => ev.status # "draft"
    /\ Started(snap[r]) => Started(ev)

KindInv ==
  /\ ev.status # "cancelled"
  /\ isChurchEvent(ev) => ev.status = "draft"
  /\ isChurchEvent(ev) /\ ev.churchOpen => ev.form # 0 /\ ev.slug # 0

IInv == /\ TypeOK
        /\ KindInv
        /\ PublishedHasFormAndLink
        /\ ClosedHasEnd
        /\ \A r \in Requests : SnapOld(r)

USE DEF None, isRunningEvent, isChurchEvent

LEMMA BlankTyped == Blank \in EventRow
BY DEF Blank, EventRow, Statuses, ChurchStatuses

(* What the workflow leaves in a row is a row.                             *)
LEMMA TransitionedTyped ==
  ASSUME NEW e \in EventRow, NEW s \in EventRow, NEW t \in Statuses,
         now \in Nat
  PROVE  /\ Transitioned(e, s, t) \in EventRow
         /\ Transitioned(e, s, t).kind = e.kind
         /\ Transitioned(e, s, t).status = t
         /\ Transitioned(e, s, t).form = e.form
         /\ Transitioned(e, s, t).slug = e.slug
         /\ Transitioned(e, s, t).regEnd \in {e.regEnd, now}
BY DEF Transitioned, EventRow

(* Every reachable state is well typed.                                    *)
LEMMA InitTyped == Init => TypeOK
<1> SUFFICES ASSUME Init PROVE TypeOK
  OBVIOUS
<1>1. ev \in EventRow
  <2>1. PICK k \in Kinds, s \in 0 .. MaxTime :
          ev = [Blank EXCEPT !.kind = k, !.start = s]
    BY DEF Init
  <2>2. k \in {"running", "church"} /\ s \in Nat
    BY LifecycleAssumption
  <2> QED
    BY <2>1, <2>2, BlankTyped DEF EventRow
<1> QED
  BY <1>1, BlankTyped DEF Init, TypeOK

LEMMA NextTyped == TypeOK /\ [Next]_vars => TypeOK'
<1> SUFFICES ASSUME TypeOK, [Next]_vars PROVE TypeOK'
  OBVIOUS
<1> USE DEF TypeOK
<1>1. CASE Tick
  BY <1>1 DEF Tick
<1>2. ASSUME NEW r \in Requests, Bind(r) PROVE TypeOK'
  BY <1>2 DEF Bind
<1>3. ASSUME NEW r \in Requests, Advance(r) PROVE TypeOK'
  <2>1. CASE StartIsDue(snap[r]) /\ canTransition(snap[r], "ongoing")
    <3>1. "ongoing" \in Statuses
      BY DEF Statuses
    <3>2. ev' \in EventRow
      BY <1>3, <2>1, <3>1, TransitionedTyped DEF Advance
    <3>3. Transitioned(snap[r], snap[r], "ongoing") \in EventRow
      BY <3>1, TransitionedTyped
    <3> QED
      BY <1>3, <2>1, <3>2, <3>3 DEF Advance
  <2>2. CASE ~ (StartIsDue(snap[r]) /\ canTransition(snap[r], "ongoing"))
    BY <1>3, <2>2 DEF Advance
  <2> QED
    BY <2>1, <2>2
<1>4. ASSUME NEW r \in Requests, Handler(r) PROVE TypeOK'
  <2>1. Done(r)
    BY <1>4 DEF Handler, Show, UpdateRunning, UpdateChurch, SaveForm,
                OpenRegistration, CloseRegistration, ReopenRegistration,
                Finalize, Publish
  <2>2. /\ now' \in Nat
        /\ phase' \in [Requests -> {"idle", "bound", "advanced"}]
        /\ snap' \in [Requests -> EventRow]
        /\ overlapped' \in BOOLEAN
    BY <2>1, BlankTyped DEF Done
  <2>3. ev' \in EventRow
    <3>1. CASE Show(r)
      BY <3>1 DEF Show
    <3>2. CASE UpdateRunning(r)
      BY <3>2, LifecycleAssumption DEF UpdateRunning, EventRow
    <3>3. CASE UpdateChurch(r)
      <4>1. PICK s \in now .. MaxTime, cs \in ChurchStatuses :
              ev' = [ev EXCEPT
                !.start = IF s = snap[r].start THEN @ ELSE s,
                !.churchStatus = IF cs = snap[r].churchStatus THEN @ ELSE cs]
        BY <3>3 DEF UpdateChurch
      <4> DEFINE st == IF s = snap[r].start THEN ev.start ELSE s
                 ch == IF cs = snap[r].churchStatus THEN ev.churchStatus
                       ELSE cs
      <4>2. ev' = [ev EXCEPT !.start = st, !.churchStatus = ch]
        BY <4>1
      <4>3. st \in Nat /\ ch \in ChurchStatuses
        BY LifecycleAssumption DEF EventRow
      <4> HIDE DEF st, ch
      <4> QED
        BY <4>2, <4>3 DEF EventRow
    <3>4. CASE SaveForm(r)
      BY <3>4 DEF SaveForm, EventRow
    <3>5. CASE OpenRegistration(r)
      <4> DEFINE slug == ev.slug + 1
      <4>1. ev' = [ev EXCEPT !.status = "registration_open",
                             !.slug = slug, !.regEnd = None]
        BY <3>5 DEF OpenRegistration
      <4>2. slug \in Nat
        BY DEF EventRow
      <4> HIDE DEF slug
      <4> QED
        BY <4>1, <4>2 DEF EventRow, Statuses
    <3>6. CASE CloseRegistration(r)
      BY <3>6 DEF CloseRegistration, EventRow, Statuses
    <3>7. CASE ReopenRegistration(r)
      BY <3>7 DEF ReopenRegistration, EventRow, Statuses
    <3>8. CASE Finalize(r)
      <4>1. "completed" \in Statuses
        BY DEF Statuses
      <4> QED
        BY <3>8, <4>1, TransitionedTyped DEF Finalize
    <3>9. CASE Publish(r)
      <4> DEFINE slug == IF ev.slug = 0 THEN 1 ELSE ev.slug
                 form == IF ev.form = 0 THEN 1 ELSE ev.form
      <4>1. PICK open \in BOOLEAN :
              ev' = [ev EXCEPT !.churchOpen = open, !.slug = slug,
                               !.form = form]
        BY <3>9 DEF Publish
      <4>2. slug \in Nat /\ form \in Nat
        BY DEF EventRow
      <4> HIDE DEF slug, form
      <4> QED
        BY <4>1, <4>2 DEF EventRow
    <3> QED
      BY <1>4, <3>1, <3>2, <3>3, <3>4, <3>5, <3>6, <3>7, <3>8, <3>9
      DEF Handler
  <2> QED
    BY <2>2, <2>3
<1>5. CASE UNCHANGED vars
  BY <1>5 DEF vars
<1> QED
  BY <1>1, <1>2, <1>3, <1>4, <1>5 DEF Next

THEOREM TypeCorrect == Spec => []TypeOK
<1>1. Init => TypeOK
  BY InitTyped
<1>2. TypeOK /\ [Next]_vars => TypeOK'
  BY NextTyped
<1> QED
  BY <1>1, <1>2, PTL DEF Spec

-----------------------------------------------------------------------------
(* What one step can do to the columns that decide who may register.       *)
Untouched ==
  /\ ev'.status = ev.status /\ ev'.slug = ev.slug
  /\ ev'.form = ev.form /\ ev'.regEnd = ev.regEnd
  /\ ev'.churchOpen = ev.churchOpen

FormSaved ==
  /\ isRunningEvent(ev) /\ ev.status = "draft"
  /\ ev'.status = ev.status /\ ev'.slug = ev.slug
  /\ ev'.form = ev.form + 1 /\ ev'.regEnd = ev.regEnd

Opened ==
  /\ isRunningEvent(ev) /\ ev.status = "draft" /\ ev.form # 0
  /\ ev'.status = "registration_open" /\ ev'.slug = ev.slug + 1
  /\ ev'.form = ev.form /\ ev'.regEnd = None

Switched ==
  /\ isRunningEvent(ev)
  /\ ev'.slug = ev.slug /\ ev'.form = ev.form
  /\ \/ /\ ev.status \in {"registration_open", "ongoing"}
        /\ ev'.regEnd = now
        /\ ev'.status = IF ev.status = "ongoing" THEN "ongoing"
                        ELSE "registration_closed"
     \/ /\ ev.status \in {"registration_open", "registration_closed",
                          "ongoing"}
        /\ ev'.regEnd = None
        /\ ev'.status = IF ev.status = "ongoing" THEN "ongoing"
                        ELSE "registration_open"

Begun ==
  /\ isRunningEvent(ev) /\ ev.status # "draft"
  /\ ev'.status = "ongoing" /\ ev'.slug = ev.slug
  /\ ev'.form = ev.form /\ ev'.regEnd \in {ev.regEnd, now}

Ended ==
  /\ isRunningEvent(ev) /\ Started(ev)
  /\ ev'.status = "completed" /\ ev'.slug = ev.slug
  /\ ev'.form = ev.form /\ ev'.regEnd = ev.regEnd

Linked ==
  /\ isChurchEvent(ev)
  /\ ev'.status = ev.status /\ ev'.regEnd = ev.regEnd
  /\ ev'.slug = IF ev.slug = 0 THEN 1 ELSE ev.slug
  /\ ev'.form = IF ev.form = 0 THEN 1 ELSE ev.form

RowStep ==
  /\ ev'.kind = ev.kind
  /\ \/ Untouched \/ FormSaved \/ Opened \/ Switched
     \/ Begun \/ Ended \/ Linked

(* A handler that works from the bound row, or from the locked row, does   *)
(* one of these things to the row that is in the database.                 *)
LEMMA HandlerRowStep ==
  ASSUME TypeOK, KindInv, NEW r \in Requests, SnapOld(r), Handler(r)
  PROVE  RowStep
<1> USE DEF TypeOK, RowStep
<1>1. ev \in EventRow /\ snap[r] \in EventRow
  OBVIOUS
<1>2. phase[r] = "advanced"
  BY DEF Handler, Done, Show, UpdateRunning, UpdateChurch, SaveForm,
         OpenRegistration, CloseRegistration, ReopenRegistration,
         Finalize, Publish
<1>3. CASE Show(r)
  BY <1>3 DEF Show, Untouched
<1>4. CASE UpdateRunning(r)
  BY <1>1, <1>4 DEF UpdateRunning, EventRow, Untouched
<1>5. CASE UpdateChurch(r)
  BY <1>1, <1>5 DEF UpdateChurch, EventRow, Untouched
<1>6. CASE SaveForm(r)
  BY <1>1, <1>6 DEF SaveForm, EventRow, canEditRegistrationForm, FormSaved
<1>7. CASE OpenRegistration(r)
  BY <1>1, <1>7 DEF OpenRegistration, EventRow, canOpenRegistration, Opened
<1>8. CASE CloseRegistration(r)
  <2>1. isRunningEvent(ev) /\ ev.status \in {"registration_open", "ongoing"}
    BY <1>8 DEF CloseRegistration, canCloseRegistration,
                acceptsPublicRegistration
  <2> QED
    BY <1>1, <1>8, <2>1 DEF CloseRegistration, EventRow, Switched
<1>9. CASE ReopenRegistration(r)
  <2>1. /\ isRunningEvent(ev)
        /\ ev.status \in {"registration_open", "registration_closed",
                          "ongoing"}
    BY <1>9 DEF ReopenRegistration, canReopenRegistration
  <2> QED
    BY <1>1, <1>9, <2>1 DEF ReopenRegistration, EventRow, Switched
<1>10. CASE Finalize(r)
  <2>1. isRunningEvent(snap[r]) /\ snap[r].status = "ongoing"
    BY <1>10 DEF Finalize, canFinalize
  <2>2. isRunningEvent(ev) /\ Started(ev)
    BY <1>2, <2>1 DEF SnapOld, Started
  <2>3. ev' = [ev EXCEPT !.status = "completed"]
    BY <1>10 DEF Finalize, Transitioned
  <2> QED
    BY <1>1, <2>2, <2>3 DEF EventRow, Ended
<1>11. CASE Publish(r)
  <2>1. isChurchEvent(ev)
    BY <1>2, <1>11 DEF Publish, SnapOld
  <2> QED
    BY <1>1, <1>11, <2>1 DEF Publish, EventRow, Linked
<1> QED
  BY <1>3, <1>4, <1>5, <1>6, <1>7, <1>8, <1>9, <1>10, <1>11 DEF Handler

LEMMA AdvanceRowStep ==
  ASSUME TypeOK, NEW r \in Requests, SnapOld(r), Advance(r)
  PROVE  /\ RowStep
         /\ \/ snap'[r] = snap[r] /\ ev' = ev
            \/ /\ snap'[r].kind = snap[r].kind
               /\ snap'[r].status = "ongoing" /\ ev'.status = "ongoing"
<1> USE DEF TypeOK
<1>1. ev \in EventRow /\ snap[r] \in EventRow /\ "ongoing" \in Statuses
  BY DEF Statuses
<1>2. CASE StartIsDue(snap[r]) /\ canTransition(snap[r], "ongoing")
  <2>1. isRunningEvent(ev) /\ ev.status # "draft"
    BY <1>2 DEF SnapOld, Advance, StartIsDue
  <2>2. /\ ev' = Transitioned(ev, snap[r], "ongoing")
        /\ snap'[r] = Transitioned(snap[r], snap[r], "ongoing")
    BY <1>2 DEF Advance
  <2>3. /\ ev'.kind = ev.kind /\ ev'.status = "ongoing"
        /\ ev'.form = ev.form /\ ev'.slug = ev.slug
        /\ ev'.regEnd \in {ev.regEnd, now}
    BY <1>1, <2>2, TransitionedTyped
  <2>4. snap'[r].kind = snap[r].kind /\ snap'[r].status = "ongoing"
    BY <1>1, <2>2, TransitionedTyped
  <2> QED
    BY <2>1, <2>3, <2>4 DEF RowStep, Begun
<1>3. CASE ~ (StartIsDue(snap[r]) /\ canTransition(snap[r], "ongoing"))
  BY <1>3 DEF Advance, RowStep, Untouched
<1> QED
  BY <1>2, <1>3

LEMMA NextRowStep ==
  ASSUME TypeOK, KindInv, \A r \in Requests : SnapOld(r), [Next]_vars
  PROVE  RowStep
<1>1. CASE UNCHANGED vars
  BY <1>1 DEF vars, RowStep, Untouched
<1>2. CASE Tick
  BY <1>2 DEF Tick, RowStep, Untouched
<1>3. ASSUME NEW r \in Requests, Bind(r) PROVE RowStep
  BY <1>3 DEF Bind, RowStep, Untouched
<1>4. ASSUME NEW r \in Requests, Advance(r) PROVE RowStep
  BY <1>4, AdvanceRowStep
<1>5. ASSUME NEW r \in Requests, Handler(r) PROVE RowStep
  BY <1>5, HandlerRowStep
<1> QED
  BY <1>1, <1>2, <1>3, <1>4, <1>5 DEF Next

(* A published event stays published, a started one stays started.         *)
LEMMA RowStepMonotone ==
  ASSUME RowStep
  PROVE  /\ ev'.kind = ev.kind
         /\ ev.status # "draft" => ev'.status # "draft"
         /\ Started(ev) => Started(ev)'
BY DEF RowStep, Untouched, FormSaved, Opened, Switched, Begun, Ended, Linked,
       Started

LEMMA RowStepKeeps ==
  ASSUME TypeOK, KindInv, PublishedHasFormAndLink, ClosedHasEnd, RowStep,
         now' \in Nat, now' >= now
  PROVE  KindInv' /\ PublishedHasFormAndLink' /\ ClosedHasEnd'
<1> USE DEF RowStep, Untouched, FormSaved, Opened, Switched, Begun, Ended,
            Linked
<1>1. /\ ev.form \in Nat /\ ev.slug \in Nat /\ now \in Nat
      /\ ev.regEnd \in Nat \cup {None} /\ ev.kind \in {"running", "church"}
  BY DEF TypeOK, EventRow
<1>2. KindInv'
  BY <1>1 DEF KindInv
<1>3. PublishedHasFormAndLink'
  <2>1. isRunningEvent(ev)' => (PublishedHasFormAndLink)'
    BY <1>1 DEF KindInv, PublishedHasFormAndLink, Published, Started,
                TakesVisitors, acceptsPublicRegistration,
                acceptsChurchPublicRegistration
  <2>2. isChurchEvent(ev)' => (PublishedHasFormAndLink)'
    BY <1>1, <1>2 DEF KindInv, PublishedHasFormAndLink, Published, Started,
                TakesVisitors, acceptsPublicRegistration,
                acceptsChurchPublicRegistration
  <2> QED
    BY <1>1, <2>1, <2>2 DEF PublishedHasFormAndLink
<1>4. ClosedHasEnd'
  BY <1>1 DEF ClosedHasEnd
<1> QED
  BY <1>2, <1>3, <1>4

LEMMA NextKeepsOld ==
  ASSUME TypeOK, KindInv, \A r \in Requests : SnapOld(r), [Next]_vars,
         NEW q \in Requests
  PROVE  SnapOld(q)'
<1>1. RowStep
  BY NextRowStep
<1>2. /\ ev'.kind = ev.kind
      /\ ev.status # "draft" => ev'.status # "draft"
      /\ Started(ev) => Started(ev)'
  BY <1>1, RowStepMonotone
<1>3. ASSUME phase'[q] = phase[q], snap'[q] = snap[q] PROVE SnapOld(q)'
  BY <1>2, <1>3 DEF SnapOld, Started
<1>4. CASE UNCHANGED vars
  BY <1>3, <1>4 DEF vars
<1>5. CASE Tick
  BY <1>3, <1>5 DEF Tick
<1>6. ASSUME NEW r \in Requests, Bind(r) PROVE SnapOld(q)'
  <2>1. CASE q = r
    BY <1>6, <2>1 DEF Bind, SnapOld, TypeOK, KindInv, Started
  <2>2. CASE q # r
    BY <1>3, <1>6, <2>2 DEF Bind, TypeOK
  <2> QED
    BY <2>1, <2>2
<1>7. ASSUME NEW r \in Requests, Advance(r) PROVE SnapOld(q)'
  <2>1. CASE q = r
    <3>1. phase[r] # "idle" /\ SnapOld(r)
      BY <1>7 DEF Advance
    <3>2. CASE snap'[r] = snap[r] /\ ev' = ev
      BY <2>1, <3>1, <3>2 DEF SnapOld, Started
    <3>3. CASE /\ snap'[r].kind = snap[r].kind
               /\ snap'[r].status = "ongoing" /\ ev'.status = "ongoing"
      BY <1>2, <2>1, <3>1, <3>3 DEF SnapOld, Started
    <3> QED
      BY <1>7, <3>1, <3>2, <3>3, AdvanceRowStep
  <2>2. CASE q # r
    <3>1. phase'[q] = phase[q] /\ snap'[q] = snap[q]
      BY <1>7, <2>2 DEF Advance, TypeOK
    <3> QED
      BY <1>3, <3>1
  <2> QED
    BY <2>1, <2>2
<1>8. ASSUME NEW r \in Requests, Handler(r) PROVE SnapOld(q)'
  <2>1. Done(r)
    BY <1>8 DEF Handler, Show, UpdateRunning, UpdateChurch, SaveForm,
                OpenRegistration, CloseRegistration, ReopenRegistration,
                Finalize, Publish
  <2>2. CASE q = r
    BY <2>1, <2>2 DEF Done, SnapOld, TypeOK
  <2>3. CASE q # r
    BY <1>3, <2>1, <2>3 DEF Done, TypeOK
  <2> QED
    BY <2>2, <2>3
<1> QED
  BY <1>4, <1>5, <1>6, <1>7, <1>8 DEF Next

-----------------------------------------------------------------------------
LEMMA InitInv == Init => IInv
<1> SUFFICES ASSUME Init PROVE IInv
  OBVIOUS
<1>1. TypeOK
  BY InitTyped
<1>2. /\ ev.status = "draft" /\ ev.slug = 0 /\ ev.form = 0
      /\ ev.regEnd = None /\ ev.churchOpen = FALSE
  BY DEF Init, Blank
<1> QED
  BY <1>1, <1>2 DEF IInv, KindInv, PublishedHasFormAndLink, Published,
                    ClosedHasEnd, SnapOld, Init, TakesVisitors,
                    acceptsPublicRegistration, acceptsChurchPublicRegistration

LEMMA NextInv == IInv /\ [Next]_vars => IInv'
<1> SUFFICES ASSUME IInv, [Next]_vars PROVE IInv'
  OBVIOUS
<1>1. TypeOK'
  BY NextTyped DEF IInv
<1>2. now' >= now
  <2>1. CASE Tick \/ UNCHANGED vars
    BY <2>1 DEF Tick, vars, IInv, TypeOK
  <2>2. ASSUME NEW r \in Requests, Bind(r) \/ Advance(r) \/ Done(r)
        PROVE  now' = now
    BY <2>2 DEF Bind, Advance, Done
  <2>3. ASSUME NEW r \in Requests, Handler(r) PROVE Done(r)
    BY <2>3 DEF Handler, Show, UpdateRunning, UpdateChurch, SaveForm,
                OpenRegistration, CloseRegistration, ReopenRegistration,
                Finalize, Publish
  <2>4. now' = now => now' >= now
    BY DEF IInv, TypeOK
  <2> QED
    BY <2>1, <2>2, <2>3, <2>4 DEF Next
<1>3. RowStep
  BY NextRowStep DEF IInv
<1>4. KindInv' /\ PublishedHasFormAndLink' /\ ClosedHasEnd'
  BY <1>1, <1>2, <1>3, RowStepKeeps DEF IInv, TypeOK
<1>5. ASSUME NEW r \in Requests PROVE SnapOld(r)'
  BY <1>5, NextKeepsOld DEF IInv
<1> QED
  BY <1>1, <1>4, <1>5 DEF IInv

THEOREM Invariance == Spec => []IInv
<1>1. Init => IInv
  BY InitInv
<1>2. IInv /\ [Next]_vars => IInv'
  BY NextInv
<1> QED
  BY <1>1, <1>2, PTL DEF Spec

(* However many requests overlap, an event that left draft has a form and  *)
(* a public link, and a draft has no link.                                 *)
THEOREM PublishedComplete == Spec => []PublishedHasFormAndLink
<1>1. IInv => PublishedHasFormAndLink
  BY DEF IInv
<1> QED
  BY <1>1, Invariance, PTL

(* However many requests overlap, a closed registration has an end that    *)
(* is not in the future.                                                   *)
THEOREM ClosedIsClosed == Spec => []ClosedHasEnd
<1>1. IInv => ClosedHasEnd
  BY DEF IInv
<1> QED
  BY <1>1, Invariance, PTL

(* However many requests overlap, the form of a published running event is *)
(* never written again.                                                    *)
THEOREM FormFrozen == Spec => FormFrozenOncePublished
<1>1. IInv /\ [Next]_vars
        => [isRunningEvent(ev) /\ Published(ev) => ev'.form = ev.form]_vars
  <2> SUFFICES ASSUME IInv, [Next]_vars, isRunningEvent(ev), Published(ev)
               PROVE  ev'.form = ev.form
    OBVIOUS
  <2>1. RowStep
    BY NextRowStep DEF IInv
  <2> QED
    BY <2>1 DEF RowStep, Untouched, FormSaved, Opened, Switched, Begun,
                Ended, Linked, Published
<1> QED
  BY <1>1, Invariance, PTL DEF Spec, FormFrozenOncePublished

(* The events row implements the promise PublicLink makes to the holders   *)
(* of the public link.                                                     *)
THEOREM LinkImplemented == Spec => LinkKept
<1>1. Init => Link!Init
  <2> SUFFICES ASSUME Init PROVE Link!Init
    OBVIOUS
  <2>1. ev.status = "draft" /\ ev.slug = 0 /\ ev.form = 0
    BY DEF Init, Blank
  <2>2. ~ Published(ev) /\ ~ Started(ev)
    BY <2>1 DEF Published, Started, Init, Blank
  <2> QED
    BY <2>1, <2>2 DEF Link!Init
<1>2. IInv /\ [Next]_vars => [Link!Next]_Link!linkVars
  <2> SUFFICES ASSUME IInv, [Next]_vars
               PROVE  Link!Next \/ UNCHANGED Link!linkVars
    OBVIOUS
  <2>1. RowStep
    BY NextRowStep DEF IInv
  <2>2. ev.form \in Nat /\ ev.slug \in Nat /\ ev.kind \in {"running", "church"}
    BY DEF IInv, TypeOK, EventRow
  <2> USE DEF Link!linkVars, Link!Next, Published, Started, RowStep
  <2>3. CASE Untouched
    BY <2>1, <2>3 DEF Untouched
  <2>4. CASE FormSaved
    BY <2>1, <2>4 DEF FormSaved, Link!Prepare
  <2>5. CASE Opened
    BY <2>1, <2>2, <2>5 DEF Opened, Link!Publish
  <2>6. CASE Switched
    BY <2>1, <2>6 DEF Switched
  <2>7. CASE Begun
    BY <2>1, <2>7 DEF Begun, Link!Start
  <2>8. CASE Ended
    BY <2>1, <2>8 DEF Ended
  <2>9. CASE Linked
    BY <2>1, <2>2, <2>9 DEF Linked, Link!Publish, IInv,
                            PublishedHasFormAndLink
  <2> QED
    BY <2>1, <2>3, <2>4, <2>5, <2>6, <2>7, <2>8, <2>9
<1> QED
  BY <1>1, <1>2, Invariance, PTL DEF Spec, LinkKept, Link!Spec

-----------------------------------------------------------------------------
(* As long as no two requests have overlapped, a request's copy of the row *)
(* is the row, and the checks the handlers make of the copy are as good as *)
(* a lock.                                                                 *)
Fresh(r) == phase[r] # "idle" => snap[r] = ev
OneAtATime == \A q, r \in Requests :
                phase[q] # "idle" /\ phase[r] # "idle" => q = r
AloneInv == ~ overlapped => OneAtATime /\ \A r \in Requests : Fresh(r)

(* What a handler makes of a fresh copy follows both workflows, leaves a   *)
(* completed event alone, and starts and ends an event in time.            *)
TimedStep ==
  \/ ev'.status \notin {"ongoing", "completed"}
  \/ ev'.start = ev.start /\ ev'.status = ev.status
  \/ ev'.start = ev.start /\ ev'.status = "ongoing" /\ now >= ev.start
  \/ /\ ev'.start = ev.start
     /\ now >= ev.start /\ now >= ev.start + FinalizeDelay

AloneStep ==
  /\ StatusStep
  /\ TimedStep
  /\ ev.status = "completed" /\ isRunningEvent(ev) => ev' = ev
  /\ ev'.churchStatus # ev.churchStatus
       => ev'.churchStatus \in churchTransitions(ev.churchStatus)

LEMMA FreshHandler ==
  ASSUME TypeOK, KindInv, NEW r \in Requests, snap[r] = ev, Handler(r)
  PROVE  AloneStep
<1> USE DEF TypeOK, AloneStep, StatusStep, TimedStep
<1>1. ev \in EventRow
  OBVIOUS
<1>2. CASE Show(r)
  BY <1>2 DEF Show
<1>3. CASE UpdateRunning(r)
  BY <1>1, <1>3 DEF UpdateRunning, EventRow, canEdit
<1>4. CASE UpdateChurch(r)
  BY <1>1, <1>4 DEF UpdateChurch, EventRow, KindInv,
                    assertChurchStatusTransitionIsLegal
<1>5. CASE SaveForm(r)
  BY <1>1, <1>5 DEF SaveForm, EventRow, canEditRegistrationForm
<1>6. CASE OpenRegistration(r)
  BY <1>1, <1>6 DEF OpenRegistration, EventRow, canOpenRegistration,
                    canTransition
<1>7. CASE CloseRegistration(r)
  <2>1. ev.status \in {"registration_open", "ongoing"}
    BY <1>7 DEF CloseRegistration, canCloseRegistration,
                acceptsPublicRegistration
  <2> QED
    BY <1>1, <1>7, <2>1 DEF CloseRegistration, EventRow, allowedTransitions
<1>8. CASE ReopenRegistration(r)
  <2>1. ev.status \in {"registration_open", "registration_closed", "ongoing"}
    BY <1>8 DEF ReopenRegistration, canReopenRegistration
  <2> QED
    BY <1>1, <1>8, <2>1 DEF ReopenRegistration, EventRow, allowedTransitions
<1>9. CASE Finalize(r)
  <2>1. ev' = [ev EXCEPT !.status = "completed"]
    BY <1>9 DEF Finalize, Transitioned
  <2> QED
    BY <1>1, <1>9, <2>1, RulesAssumption
    DEF Finalize, canTransition, EventRow, canFinalize
<1>10. CASE Publish(r)
  BY <1>1, <1>10 DEF Publish, EventRow
<1> QED
  BY <1>2, <1>3, <1>4, <1>5, <1>6, <1>7, <1>8, <1>9, <1>10 DEF Handler

LEMMA FreshAdvance ==
  ASSUME TypeOK, NEW r \in Requests, snap[r] = ev, Advance(r)
  PROVE  AloneStep /\ snap'[r] = ev'
<1> USE DEF TypeOK, AloneStep, StatusStep, TimedStep
<1>1. CASE StartIsDue(ev) /\ canTransition(ev, "ongoing")
  <2>1. /\ ev' = Transitioned(ev, ev, "ongoing")
        /\ snap'[r] = Transitioned(ev, ev, "ongoing")
    BY <1>1 DEF Advance
  <2>2. /\ ev'.status = "ongoing" /\ ev'.churchStatus = ev.churchStatus
        /\ ev'.start = ev.start
    BY <2>1 DEF EventRow, Transitioned
  <2> QED
    BY <1>1, <2>1, <2>2 DEF canTransition, StartIsDue
<1>2. CASE ~ (StartIsDue(ev) /\ canTransition(ev, "ongoing"))
  BY <1>2 DEF Advance
<1> QED
  BY <1>1, <1>2

LEMMA NextAlone ==
  ASSUME TypeOK, KindInv, AloneInv, [Next]_vars
  PROVE  AloneInv' /\ (~ overlapped => AloneStep)
<1> USE DEF TypeOK
<1>1. CASE overlapped
  <2>1. ASSUME NEW r \in Requests, Handler(r) PROVE Done(r)
    BY <2>1 DEF Handler, Show, UpdateRunning, UpdateChurch, SaveForm,
                OpenRegistration, CloseRegistration, ReopenRegistration,
                Finalize, Publish
  <2>2. overlapped'
    BY <1>1, <2>1 DEF Next, Tick, Bind, Advance, Done, vars
  <2> QED
    BY <1>1, <2>2 DEF AloneInv
<1>2. CASE ~ overlapped
  <2>1. OneAtATime /\ \A r \in Requests : Fresh(r)
    BY <1>2 DEF AloneInv
  <2> USE DEF AloneInv, OneAtATime, Fresh
  <2>2. CASE UNCHANGED vars
    BY <2>1, <2>2 DEF vars, AloneStep, StatusStep, TimedStep
  <2>3. CASE Tick
    BY <2>1, <2>3 DEF Tick, AloneStep, StatusStep, TimedStep
  <2>4. ASSUME NEW r \in Requests, Bind(r) PROVE AloneInv' /\ AloneStep
    <3>1. CASE \E q \in Requests : phase[q] # "idle"
      BY <2>4, <3>1 DEF Bind, AloneStep, StatusStep, TimedStep
    <3>2. CASE \A q \in Requests : phase[q] = "idle"
      BY <2>4, <3>2 DEF Bind, AloneStep, StatusStep, TimedStep
    <3> QED
      BY <3>1, <3>2
  <2>5. ASSUME NEW r \in Requests, Advance(r) PROVE AloneInv' /\ AloneStep
    <3>1. phase[r] # "idle" /\ snap[r] = ev
      BY <2>1, <2>5 DEF Advance
    <3>2. AloneStep /\ snap'[r] = ev'
      BY <2>5, <3>1, FreshAdvance
    <3>3. \A q \in Requests : phase[q] # "idle" <=> q = r
      BY <2>1, <3>1
    <3>4. \A q \in Requests : phase'[q] # "idle" <=> q = r
      BY <2>5, <3>3 DEF Advance
    <3> QED
      BY <3>2, <3>4
  <2>6. ASSUME NEW r \in Requests, Handler(r) PROVE AloneInv' /\ AloneStep
    <3>1. Done(r)
      BY <2>6 DEF Handler, Show, UpdateRunning, UpdateChurch, SaveForm,
                  OpenRegistration, CloseRegistration, ReopenRegistration,
                  Finalize, Publish
    <3>2. phase[r] # "idle" /\ snap[r] = ev
      BY <2>1, <3>1 DEF Done
    <3>3. \A q \in Requests : phase'[q] = "idle"
      BY <2>1, <3>1, <3>2 DEF Done
    <3>4. AloneStep
      BY <2>6, <3>2, FreshHandler
    <3> QED
      BY <3>3, <3>4
  <2> QED
    BY <2>2, <2>3, <2>4, <2>5, <2>6 DEF Next
<1> QED
  BY <1>1, <1>2

THEOREM AloneInvariance == Spec => [](IInv /\ AloneInv)
<1>1. Init => IInv /\ AloneInv
  BY InitInv DEF Init, AloneInv, OneAtATime, Fresh
<1>2. IInv /\ AloneInv /\ [Next]_vars => (IInv /\ AloneInv)'
  BY NextInv, NextAlone DEF IInv
<1> QED
  BY <1>1, <1>2, PTL DEF Spec

(* As long as no two requests have overlapped, the status column takes     *)
(* only the steps EventStatus allows, although finalize and the middleware *)
(* take no lock.                                                           *)
THEOREM AloneStatus == Spec => StatusFollowsWorkflow
<1>1. IInv /\ AloneInv /\ [Next]_vars => [~ overlapped => StatusStep]_vars
  BY NextAlone DEF AloneStep, IInv
<1> QED
  BY <1>1, AloneInvariance, PTL DEF Spec, StatusFollowsWorkflow

(* As long as no two requests have overlapped, the church_status column    *)
(* takes only the steps ChurchEventStatus allows.                          *)
THEOREM AloneChurchStatus == Spec => ChurchStatusFollowsWorkflow
<1>1. IInv /\ AloneInv /\ [Next]_vars
        => [~ overlapped /\ ev'.churchStatus # ev.churchStatus
              => ev'.churchStatus \in churchTransitions(ev.churchStatus)]_vars
  BY NextAlone DEF AloneStep, IInv
<1> QED
  BY <1>1, AloneInvariance, PTL DEF Spec, ChurchStatusFollowsWorkflow

(* As long as no two requests have overlapped, nothing writes to the row   *)
(* of a completed event.                                                   *)
THEOREM AloneFinal == Spec => FinalizedDataUnchanged
<1>1. IInv /\ AloneInv /\ [Next]_vars
        => [~ overlapped /\ ev.status = "completed" /\ ev'.status = "completed"
              => ev' = ev]_vars
  <2> SUFFICES ASSUME IInv, AloneInv, [Next]_vars, ~ overlapped,
                      ev.status = "completed"
               PROVE  ev' = ev
    OBVIOUS
  <2>1. isRunningEvent(ev)
    BY DEF IInv, KindInv, TypeOK, EventRow
  <2> QED
    BY <2>1, NextAlone DEF AloneStep, IInv
<1> QED
  BY <1>1, AloneInvariance, PTL DEF Spec, FinalizedDataUnchanged

(* As long as no two requests have overlapped, an event that is ongoing or *)
(* over has reached its start, and its end.                                *)
THEOREM AloneOnTime == Spec => []StartedOnTime
<1>1. Init => StartedOnTime
  BY DEF Init, Blank, StartedOnTime, Started
<1>2. IInv /\ AloneInv /\ StartedOnTime /\ [Next]_vars => StartedOnTime'
  <2> SUFFICES ASSUME IInv, AloneInv, StartedOnTime, [Next]_vars,
                      ~ overlapped'
               PROVE  /\ Started(ev)' => now' >= ev'.start
                      /\ ev'.status = "completed"
                           => now' >= ev'.start + FinalizeDelay
    BY DEF StartedOnTime
  <2>1. ASSUME NEW r \in Requests, Handler(r) PROVE Done(r)
    BY <2>1 DEF Handler, Show, UpdateRunning, UpdateChurch, SaveForm,
                OpenRegistration, CloseRegistration, ReopenRegistration,
                Finalize, Publish
  <2>2. ~ overlapped /\ now' >= now
    BY <2>1 DEF Next, Tick, Bind, Advance, Done, vars, IInv, TypeOK
  <2>3. AloneStep
    BY <2>2, NextAlone DEF IInv
  <2>4. now \in Nat /\ now' \in Nat /\ ev.start \in Nat /\ FinalizeDelay \in Nat
    BY NextTyped, RulesAssumption DEF IInv, TypeOK, EventRow
  <2> QED
    BY <2>2, <2>3, <2>4 DEF AloneStep, TimedStep, StartedOnTime, Started
<1> QED
  BY <1>1, <1>2, AloneInvariance, PTL DEF Spec

(* The row makes sense in every reachable state, for any set of requests.  *)
THEOREM RowStaysConsistent == Spec => []RowConsistent
BY TypeCorrect, PublishedComplete, ClosedIsClosed, AloneOnTime, PTL
   DEF RowConsistent

(* The row moves along both workflows and is left alone once completed,    *)
(* until two requests have overlapped, for any set of requests.            *)
THEOREM AloneWorkflow == Spec => WorkflowFollowed
BY AloneStatus, AloneChurchStatus, AloneFinal DEF WorkflowFollowed
=============================================================================
