-------------------------- MODULE EventWizardProofs --------------------------
(***************************************************************************)
(* Theorems about EventWizard, for any values the user enters, any pages   *)
(* and any bounds; and about the fields of its forms (Pickers).            *)
(***************************************************************************)
EXTENDS EventWizard, Pickers, TLAPS

(* The page, its answer and its draft are in step.  A request is sent from *)
(* the last step, so that the checkpoint is at its end as long as the page *)
(* waits for the answer or shows its errors; sending removes the draft,    *)
(* and only a key that is typed meanwhile brings it back.                  *)
InStep ==
  /\ cur =< max
  /\ open /\ draft # NoDraft => draft = Snapshot(max, data)
  /\ sending # NoForm => open /\ max = Last_ /\ (late = 0 => draft = NoDraft)
  /\ srvErr # {} => open /\ max = Last_
  /\ stepErr \subseteq Steps[cur] /\ (stepErr # {} => open)
  /\ draft = NoDraft /\ sending # NoForm => data = sending

IInv == TypeOK /\ InStep

(* What a step does to the checkpoint of the draft.                        *)
NotBack == draft # NoDraft /\ draft' # NoDraft => draft'.step >= draft.step

-----------------------------------------------------------------------------
LEMMA StepsOK ==
  ASSUME TypeOK
  PROVE  /\ Last_ \in {3, 4} /\ DOMAIN Steps = 1 .. Last_
         /\ \A i \in 1 .. Last_ : Steps[i] \subseteq UNION ToSet(Steps)
<1>1. kind \in Kinds
  BY WizardAssumption DEF TypeOK
<1>2. /\ Len(RunningSteps) = 4 /\ DOMAIN RunningSteps = 1 .. 4
      /\ Len(ChurchSteps) = 3 /\ DOMAIN ChurchSteps = 1 .. 3
  BY DEF RunningSteps, ChurchSteps
<1>3. Len(SpecialistSteps) = 3 /\ DOMAIN SpecialistSteps = 1 .. 3
  BY DEF SpecialistSteps, ChurchSteps
<1>4. Steps \in {RunningSteps, ChurchSteps, SpecialistSteps}
  BY <1>1 DEF Steps, EditSteps, CreateSteps, Kinds
<1>5. Last_ \in {3, 4} /\ DOMAIN Steps = 1 .. Last_
  BY <1>2, <1>3, <1>4 DEF Last_
<1> QED BY <1>5 DEF ToSet

(* A snapshot is not the missing one.                                      *)
LEMMA SnapshotOK ==
  ASSUME NEW i, NEW d
  PROVE  Snapshot(i, d) # NoDraft /\ Snapshot(i, d).step = i /\ Snapshot(i, d).data = d
<1>1. DOMAIN Snapshot(i, d) = {"step", "data"} /\ DOMAIN NoDraft = {"none"}
  BY DEF Snapshot, NoDraft
<1> QED BY <1>1 DEF Snapshot

(* Neither is a form.                                                      *)
LEMMA FormOK ==
  ASSUME NEW d, IsForm(d)
  PROVE  d # NoForm
BY DEF IsForm, NoForm, Parts

(* An error the browser finds in a step is owned by that step.             *)
LEMMA ChecksOwned ==
  ASSUME TypeOK, NEW d, NEW i \in 1 .. Last_
  PROVE  checks(d)[i] \subseteq Steps[i]
<1>1. kind \in Kinds /\ flow \in {"create", "edit"}
  BY WizardAssumption DEF TypeOK
<1>2. checks(d)[i] = validate(i, d)
  BY StepsOK DEF checks
<1>3. /\ PartOf(1) = "basics" /\ PartOf(2) = "schedule"
      /\ PartOf(3) = "venue" /\ PartOf(4) = "extras"
  BY DEF PartOf
<1>4. \A k : validateBasics(d["basics"], k)
               \subseteq {"event_name", "description"}
                           \cup (IF k = "specialist" THEN {"church_activity_category"} ELSE {})
  BY DEF validateBasics, Fails
<1>5. \A n : validateSchedule(d["schedule"], kind, n)
               \subseteq {"event_date", "start_time", "end_time"}
                           \cup (IF kind = "running" THEN {"distance_value"} ELSE {})
  BY DEF validateSchedule, Fails
<1>6. validateVenue(d["venue"]) \subseteq {"venue", "venue_address", "venue_map_url"}
  BY DEF validateVenue, Fails
<1>7. validateExtras(d["extras"]) \subseteq {"partners", "partners_name"}
  BY DEF validateExtras, Fails
<1>8. \A f \in {"event_name", "description", "church_category", "details"} : f \in ChurchSteps[1]
  BY DEF ChurchSteps
<1>9. CASE kind = "running"
  <2>1. Steps = RunningSteps
    BY <1>9 DEF Steps, CreateSteps, EditSteps
  <2>2. i \in 1 .. 4
    BY <2>1 DEF Last_, RunningSteps
  <2>3. CASE i = 1
    BY <1>2, <1>3, <1>4, <1>9, <2>1, <2>3 DEF validate, RunningSteps
  <2>4. CASE i = 2
    BY <1>2, <1>3, <1>5, <2>1, <2>4 DEF validate, RunningSteps
  <2>5. CASE i = 3
    BY <1>2, <1>3, <1>6, <2>1, <2>5 DEF validate, RunningSteps
  <2>6. CASE i = 4
    BY <1>2, <1>3, <1>7, <2>1, <2>6 DEF validate, RunningSteps
  <2> QED BY <2>2, <2>3, <2>4, <2>5, <2>6
<1>10. CASE kind # "running"
  <2>1. Steps = IF flow = "create" /\ kind = "specialist" THEN SpecialistSteps ELSE ChurchSteps
    BY <1>1, <1>10 DEF Steps, CreateSteps, EditSteps, Kinds
  <2>2. i \in 1 .. 3
    <3>1. Len(ChurchSteps) = 3 /\ Len(SpecialistSteps) = 3
      BY DEF SpecialistSteps, ChurchSteps
    <3> QED BY <2>1, <3>1 DEF Last_
  <2>3. /\ SpecialistSteps[1] = ChurchSteps[1] \cup {"church_activity_category"}
        /\ SpecialistSteps[2] = ChurchSteps[2] /\ SpecialistSteps[3] = ChurchSteps[3]
    BY DEF SpecialistSteps, ChurchSteps
  <2>4. CASE i = 1
    BY <1>1, <1>2, <1>3, <1>4, <1>8, <2>1, <2>3, <2>4 DEF validate
  <2>5. CASE i = 2
    BY <1>2, <1>3, <1>5, <1>10, <2>1, <2>3, <2>5 DEF validate, ChurchSteps
  <2>6. CASE i = 3
    BY <1>2, <1>3, <1>6, <2>1, <2>3, <2>6 DEF validate, ChurchSteps
  <2> QED BY <2>2, <2>4, <2>5, <2>6
<1> QED BY <1>9, <1>10

-----------------------------------------------------------------------------
(* A part of a form that takes a value of its own leaves a form.           *)
ValueOf(p, v) == IF p = "extras" THEN v \in BoundedSeq(Partners, MaxRows) ELSE v \in Values(p)

LEMMA PartChanged ==
  ASSUME NEW d, IsForm(d), NEW p \in Parts, NEW v, ValueOf(p, v)
  PROVE  IsForm([d EXCEPT ![p] = v])
<1> DEFINE e == [d EXCEPT ![p] = v]
<1>1. DOMAIN e = Parts /\ e[p] = v /\ \A q \in Parts \ {p} : e[q] = d[q]
  BY DEF IsForm
<1> HIDE DEF e
<1>2. "extras" \in Parts
  BY DEF Parts
<1>3. \A q \in Parts \ {"extras"} : e[q] \in Values(q)
  BY <1>1 DEF IsForm, ValueOf
<1>4. e["extras"] \in BoundedSeq(Partners, MaxRows)
  BY <1>1, <1>2 DEF IsForm, ValueOf
<1> QED BY <1>1, <1>3, <1>4 DEF IsForm, e

LEMMA BoundedSeqs ==
  ASSUME NEW S, NEW n \in Nat
  PROVE  \A s : s \in BoundedSeq(S, n) <=> s \in Seq(S) /\ Len(s) =< n
<1> SUFFICES ASSUME NEW s PROVE s \in BoundedSeq(S, n) <=> s \in Seq(S) /\ Len(s) =< n
  OBVIOUS
<1>1. ASSUME s \in BoundedSeq(S, n) PROVE s \in Seq(S) /\ Len(s) =< n
  <2>1. PICK m \in 0 .. n : s \in [1 .. m -> S]
    BY <1>1 DEF BoundedSeq, SeqOf
  <2> QED BY <2>1
<1>2. ASSUME s \in Seq(S), Len(s) =< n PROVE s \in BoundedSeq(S, n)
  <2>1. s \in [1 .. Len(s) -> S] /\ Len(s) \in 0 .. n
    BY <1>2
  <2> QED BY <2>1 DEF BoundedSeq, SeqOf
<1> QED BY <1>1, <1>2

LEMMA Bounds ==
  /\ MaxRows \in Nat /\ MaxEdits \in Nat /\ MaxLate \in Nat
  /\ StartTime \in Nat /\ MaxTime \in Nat /\ StartTime =< MaxTime
BY WizardAssumption

LEMMA BlankOK == IsForm(Blank)
<1>1. << >> \in BoundedSeq(Partners, MaxRows)
  <2>1. << >> \in [1 .. 0 -> Partners] /\ 0 \in 0 .. MaxRows
    BY Bounds
  <2> QED BY <2>1 DEF BoundedSeq, SeqOf
<1>2. DOMAIN Blank = Parts /\ Blank["extras"] = << >>
  BY DEF Blank, Parts
<1> QED BY <1>1, <1>2, ValuesAssumption DEF IsForm

LEMMA LeastStep ==
  ASSUME NEW S, S \subseteq 1 .. 4, S # {}
  PROVE  \E i \in S : \A j \in S : i <= j
<1>1. \A j \in S : j \in {1, 2, 3, 4}
  OBVIOUS
<1>2. CASE 1 \in S
  BY <1>1, <1>2
<1>3. CASE 1 \notin S /\ 2 \in S
  BY <1>1, <1>3
<1>4. CASE 1 \notin S /\ 2 \notin S /\ 3 \in S
  BY <1>1, <1>4
<1>5. CASE 1 \notin S /\ 2 \notin S /\ 3 \notin S
  <2>1. PICK k \in S : TRUE
    OBVIOUS
  <2>2. \A j \in S : j = 4
    BY <1>1, <1>5
  <2> QED BY <2>1, <2>2
<1> QED BY <1>2, <1>3, <1>4, <1>5

(* The step an error moves to is one of the page's.                        *)
LEMMA JumpOK ==
  ASSUME TypeOK, NEW errs
  PROVE  /\ JumpTarget(Steps, errs) \in 1 .. Last_
         /\ errs = {} => JumpTarget(Steps, errs) = cur
<1> DEFINE owners == {i \in DOMAIN Steps : Steps[i] \cap errs # {}}
<1>1. owners \subseteq 1 .. 4 /\ owners \subseteq 1 .. Last_
  BY StepsOK
<1>2. errs = {} => owners = {}
  OBVIOUS
<1>3. ASSUME owners # {} PROVE \E i \in owners : \A j \in owners : i <= j
  BY <1>1, <1>3, LeastStep
<1>4. JumpTarget(Steps, errs) =
        IF owners = {} THEN cur ELSE CHOOSE i \in owners : \A j \in owners : i <= j
  BY DEF JumpTarget
<1>5. cur \in 1 .. Last_
  BY DEF TypeOK
<1> HIDE DEF owners
<1>6. CASE owners = {}
  BY <1>4, <1>5, <1>6
<1>7. CASE owners # {}
  BY <1>1, <1>2, <1>3, <1>4, <1>7
<1> QED BY <1>6, <1>7

LEMMA StepsStay ==
  ASSUME flow' = flow, kind' = kind
  PROVE  Steps' = Steps /\ Last_' = Last_
BY DEF Steps, Last_

-----------------------------------------------------------------------------
(* A part of the form takes a new value.                                   *)
LEMMA TypeKeeps ==
  ASSUME IInv, NEW p \in Parts, NEW v, ValueOf(p, v), NEW keys, setData(p, v, keys)
  PROVE  IInv' /\ NotBack
<1> DEFINE d == [data EXCEPT ![p] = v]
           errs == srvErr \ keys
<1>1. IsForm(d)
  BY PartChanged DEF IInv, TypeOK
<1>2. \E rebuilt \in BOOLEAN : Type(Steps, checks(d), d, keys, rebuilt)
  BY DEF setData
<1>3. UNCHANGED world
  BY DEF setData
<1> HIDE DEF d
<1>4. /\ open /\ data' = d /\ srvErr' = errs
      /\ cur' = cur \/ cur' = JumpTarget(Steps, errs)
      /\ stepErr' = Revalidated(checks(d), stepErr, cur, cur')
      /\ draft' = Snapshot(max, d)
      /\ UNCHANGED <<open, max, sending>>
  BY <1>2 DEF Type
<1>5. late \in Nat /\ late' \in 0 .. MaxLate /\ (sending # NoForm => late' # 0)
  <2>1. late \in 0 .. MaxLate /\ (sending # NoForm => late < MaxLate)
    BY DEF IInv, TypeOK, setData
  <2>2. late' = IF sending = NoForm THEN late ELSE late + 1
    BY DEF setData
  <2> QED BY <2>1, <2>2, Bounds
<1>6. Steps' = Steps /\ Last_' = Last_
  BY <1>3, StepsStay DEF world
<1>7. cur' \in 1 .. Last_ /\ cur' =< max
  <2>1. cur \in 1 .. Last_ /\ cur =< max /\ max \in 1 .. Last_
    BY DEF IInv, TypeOK, InStep
  <2>2. errs # {} => max = Last_
    BY DEF IInv, InStep
  <2>3. JumpTarget(Steps, errs) \in 1 .. Last_ /\ (errs = {} => JumpTarget(Steps, errs) = cur)
    BY JumpOK DEF IInv
  <2> HIDE DEF errs
  <2>4. Last_ \in Nat
    BY StepsOK DEF IInv
  <2> QED BY <1>4, <2>1, <2>2, <2>3, <2>4
<1>8. stepErr' \subseteq Steps[cur']
  BY <1>4, <1>7, ChecksOwned DEF IInv, Revalidated
<1>9. draft' # NoDraft /\ draft'.step = max /\ draft'.data = d
  BY <1>4, SnapshotOK
<1>10. TypeOK'
  <2>1. stepErr' \subseteq UNION ToSet(Steps)
    BY <1>7, <1>8, StepsOK DEF IInv
  <2> QED BY <1>1, <1>3, <1>4, <1>5, <1>6, <1>7, <1>9, <2>1 DEF IInv, TypeOK, world, IsForm
<1>11. InStep'
  BY <1>4, <1>5, <1>6, <1>7, <1>8, <1>9 DEF IInv, InStep, Snapshot
<1>12. NotBack
  <2>1. draft # NoDraft => draft.step = max
    BY <1>4, SnapshotOK DEF IInv, InStep
  <2> QED BY <1>9, <2>1 DEF NotBack, IInv, TypeOK
<1> QED BY <1>10, <1>11, <1>12 DEF IInv

(* Each gesture at a field is such a change.                               *)
LEMMA FieldKeeps ==
  ASSUME IInv, NEW p \in Parts \ {"extras"}, NEW f, SetField(p, f)
  PROVE  IInv' /\ NotBack
<1>1. PICK v \in Values(p) : setData(p, v, {f})
  BY DEF SetField
<1>2. ValueOf(p, v)
  BY DEF ValueOf
<1> QED BY <1>1, <1>2, TypeKeeps

LEMMA FieldsKeep ==
  ASSUME IInv,
         \/ BasicsStep \/ ChooseActivity \/ ScheduleStep \/ VenueStep \/ LeaveMapUrl
  PROVE  IInv' /\ NotBack
<1>1. {"basics", "schedule", "venue"} \subseteq Parts \ {"extras"}
  BY DEF Parts
<1>2. CASE LeaveMapUrl
  <2> DEFINE w == [data["venue"] EXCEPT !.venue_map_url = normalizeMapUrl(@)]
  <2>1. data["venue"] \in Values("venue")
    BY <1>1 DEF IInv, TypeOK, IsForm
  <2>2. w \in Values("venue")
    BY <2>1, ValuesAssumption
  <2>3. ValueOf("venue", w)
    BY <2>2 DEF ValueOf
  <2> QED BY <1>1, <1>2, <2>3, TypeKeeps DEF LeaveMapUrl
<1>3. CASE BasicsStep \/ ChooseActivity \/ ScheduleStep \/ VenueStep
  BY <1>1, <1>3, FieldKeeps DEF BasicsStep, ChooseActivity, ScheduleStep, VenueStep
<1> QED BY <1>2, <1>3

LEMMA PartnersKeep ==
  ASSUME IInv, addPartner \/ removePartner \/ updatePartner
  PROVE  IInv' /\ NotBack
<1> DEFINE rows == data["extras"]
<1>1. rows \in Seq(Partners) /\ Len(rows) =< MaxRows
  BY BoundedSeqs, Bounds DEF IInv, TypeOK, IsForm
<1>2. ASSUME NEW s \in Seq(Partners), Len(s) =< MaxRows, setPartners(s) PROVE IInv' /\ NotBack
  <2>1. "extras" \in Parts /\ ValueOf("extras", s)
    BY <1>2, BoundedSeqs, Bounds DEF Parts, ValueOf
  <2> QED BY <1>2, <2>1, TypeKeeps DEF setPartners
<1> HIDE DEF rows
<1>3. CASE addPartner
  <2> DEFINE s == Append(rows, [name |-> "", type |-> "host"])
  <2>1. Len(rows) < MaxRows /\ setPartners(s)
    BY <1>3 DEF addPartner, rows
  <2>2. [name |-> "", type |-> "host"] \in Partners
    BY ValuesAssumption
  <2>3. \A e \in Partners : Append(rows, e) \in Seq(Partners) /\ Len(Append(rows, e)) = Len(rows) + 1
    BY <1>1
  <2>4. s \in Seq(Partners) /\ Len(s) = Len(rows) + 1
    BY <2>2, <2>3
  <2> HIDE DEF s
  <2>5. Len(s) =< MaxRows
    BY <1>1, <2>1, <2>4, Bounds
  <2> QED BY <1>2, <2>1, <2>4, <2>5
<1>4. CASE removePartner
  <2>1. PICK i \in DOMAIN rows : setPartners(RemoveAt(rows, i))
    BY <1>4 DEF removePartner, rows
  <2>2. i \in 1 .. Len(rows)
    BY <1>1, <2>1
  <2>3. /\ SubSeq(rows, 1, i - 1) \in Seq(Partners) /\ Len(SubSeq(rows, 1, i - 1)) = i - 1
        /\ SubSeq(rows, i + 1, Len(rows)) \in Seq(Partners)
        /\ Len(SubSeq(rows, i + 1, Len(rows))) = Len(rows) - i
    BY <1>1, <2>2
  <2>4. RemoveAt(rows, i) \in Seq(Partners) /\ Len(RemoveAt(rows, i)) =< MaxRows
    BY <1>1, <2>2, <2>3, Bounds DEF RemoveAt
  <2> QED BY <1>2, <2>1, <2>4
<1>5. CASE updatePartner
  <2>1. PICK i \in DOMAIN rows, partner \in Partners : setPartners([rows EXCEPT ![i] = partner])
    BY <1>5 DEF updatePartner, rows
  <2>2. [rows EXCEPT ![i] = partner] \in Seq(Partners) /\ Len([rows EXCEPT ![i] = partner]) = Len(rows)
    BY <1>1, <2>1
  <2> QED BY <1>1, <1>2, <2>1, <2>2
<1> QED BY <1>3, <1>4, <1>5

-----------------------------------------------------------------------------
(* The page is opened: the draft, if there is one, is a form at a step.    *)
LEMMA OpenKeeps ==
  ASSUME IInv, Open
  PROVE  IInv' /\ NotBack
<1>1. /\ ~ open /\ open' = TRUE /\ max' = cur' /\ draft' = Snapshot(max', data')
      /\ UNCHANGED <<stepErr, srvErr, sending, late>> /\ UNCHANGED world
  BY DEF Open, Mount
<1>2. \/ draft = NoDraft /\ data' = row /\ cur' = 1
      \/ draft # NoDraft /\ data' = draft.data /\ cur' = draft.step
  BY DEF Open, Mount
<1>3. Steps' = Steps /\ Last_' = Last_
  BY <1>1, StepsStay DEF world
<1>4. cur' \in 1 .. Last_ /\ IsForm(data')
  BY <1>2, StepsOK DEF IInv, TypeOK
<1>5. draft' # NoDraft /\ draft'.step = cur' /\ draft'.data = data'
  BY <1>1, SnapshotOK
<1>6. TypeOK'
  BY <1>1, <1>3, <1>4, <1>5 DEF IInv, TypeOK, world, IsForm
<1>7. stepErr = {} /\ srvErr = {} /\ sending = NoForm
  BY <1>1 DEF IInv, InStep, Blank
<1>8. InStep'
  BY <1>1, <1>3, <1>4, <1>7 DEF InStep
<1>9. NotBack
  BY <1>2, <1>4, <1>5 DEF NotBack
<1> QED BY <1>6, <1>8, <1>9 DEF IInv

(* The page is left, by the user or by the answer to a submit.             *)
LEMMA CloseKeeps ==
  ASSUME IInv, Unmounted(Blank), late' = 0, UNCHANGED <<draft, flow, kind, ahead, now, edits>>,
         IsForm(row')
  PROVE  IInv' /\ NotBack
<1>1. Steps' = Steps /\ Last_' = Last_
  BY StepsStay
<1>2. 1 \in 1 .. Last_
  BY StepsOK DEF IInv
<1>3. IsForm(Blank)
  BY BlankOK
<1>4. /\ data' = Blank /\ cur' = 1 /\ max' = 1 /\ stepErr' = {} /\ sending' = NoForm
      /\ open' = FALSE /\ 0 \in 0 .. MaxLate
  BY Bounds DEF Unmounted
<1>5. IsForm(data')
  BY <1>3, <1>4
<1>6. TypeOK'
  BY <1>1, <1>2, <1>4, <1>5 DEF IInv, TypeOK, IsForm
<1>7. InStep'
  BY <1>1 DEF InStep, Unmounted
<1>8. NotBack
  BY DEF NotBack, IInv, TypeOK
<1> QED BY <1>6, <1>7, <1>8 DEF IInv

LEMMA MovesKeep ==
  ASSUME IInv, NEW i \in 1 .. Last_, handleNext \/ handleBack \/ handleStepJump(i)
  PROVE  IInv' /\ NotBack
<1>1. UNCHANGED <<late, world>> /\ UNCHANGED <<open, data, srvErr, sending>>
  BY DEF handleNext, handleBack, handleStepJump, NextStep, BackStep, JumpTo
<1>2. Steps' = Steps /\ Last_' = Last_
  BY <1>1, StepsStay DEF world
<1>3. cur \in 1 .. Last_ /\ max \in 1 .. Last_ /\ cur =< max /\ Last_ \in Nat /\ open
  BY StepsOK DEF IInv, TypeOK, InStep, handleNext, handleBack, handleStepJump,
              NextStep, BackStep, JumpTo
<1>4. /\ cur' \in 1 .. Last_ /\ max' \in 1 .. Last_ /\ cur' =< max' /\ max =< max'
      /\ stepErr' \subseteq Steps[cur']
      /\ (draft' = draft /\ max' = max) \/ (draft' = Snapshot(max', data) /\ max # Last_)
  <2>1. CASE handleBack \/ handleStepJump(i)
    <3>1. /\ (cur > 1 /\ cur' = cur - 1) \/ (i <= max /\ cur' = i)
          /\ stepErr' = {} /\ max' = max /\ draft' = draft
      BY <2>1 DEF handleBack, handleStepJump, BackStep, JumpTo
    <3>2. cur' \in 1 .. Last_ /\ cur' =< max
      BY <1>3, <3>1
    <3> QED BY <1>3, <3>1, <3>2
  <2>2. CASE handleNext
    <3>1. cur < Last_ /\ stepErr' = checks(data)[cur]
      BY <2>2 DEF handleNext, NextStep, Last_
    <3>2. CASE stepErr' # {}
      <4>1. cur' = cur /\ max' = max /\ draft' = draft
        BY <2>2, <3>2 DEF handleNext, NextStep
      <4>2. checks(data)[cur] \subseteq Steps[cur]
        BY <1>3, ChecksOwned DEF IInv
      <4> QED BY <1>3, <3>1, <4>1, <4>2
    <3>3. CASE stepErr' = {}
      <4>1. /\ cur' = cur + 1 /\ max' = IF cur' > max THEN cur' ELSE max
            /\ draft' = IF max' # max THEN Snapshot(max', data) ELSE draft
        BY <2>2, <3>3 DEF handleNext, NextStep
      <4>2. cur' \in 1 .. Last_ /\ max' \in 1 .. Last_ /\ cur' =< max' /\ max =< max'
        BY <1>3, <3>1, <4>1
      <4>3. max' # max => max # Last_
        BY <1>3, <3>1, <4>1
      <4>4. stepErr' \subseteq Steps[cur']
        BY <3>3
      <4> QED BY <4>1, <4>2, <4>3, <4>4
    <3> QED BY <3>2, <3>3
  <2> QED BY <2>1, <2>2
<1>5. draft' = Snapshot(max', data) => draft' # NoDraft /\ draft'.step = max' /\ draft'.data = data
  BY SnapshotOK
<1>6. stepErr' \subseteq UNION ToSet(Steps)
  BY <1>4, StepsOK DEF IInv
<1>7. TypeOK'
  BY <1>1, <1>2, <1>4, <1>5, <1>6 DEF IInv, TypeOK, world, IsForm
<1>8. InStep'
  BY <1>1, <1>2, <1>3, <1>4 DEF IInv, InStep
<1>9. NotBack
  <2>1. draft # NoDraft => draft.step = max
    BY <1>3, SnapshotOK DEF IInv, InStep
  <2> QED BY <1>3, <1>4, <1>5, <2>1 DEF NotBack, IInv, TypeOK
<1> QED BY <1>7, <1>8, <1>9 DEF IInv

(* The form is sent, from the last step, and the draft is removed.         *)
LEMMA SubmitKeeps ==
  ASSUME IInv, handleSubmit
  PROVE  IInv' /\ NotBack
<1>1. /\ open /\ cur = Last_ /\ sending = NoForm /\ stepErr' = checks(data)[cur]
      /\ UNCHANGED <<open, data, cur, max, srvErr>> /\ UNCHANGED world
      /\ late' = IF sending' = sending THEN late ELSE 0
  BY DEF handleSubmit, Submit, Last_
<1>2. \/ draft' = draft /\ sending' = NoForm
      \/ draft' = NoDraft /\ sending' = data
  BY <1>1 DEF handleSubmit, Submit
<1>3. Steps' = Steps /\ Last_' = Last_
  BY <1>1, StepsStay DEF world
<1>4. /\ cur \in 1 .. Last_ /\ max \in 1 .. Last_ /\ cur =< max /\ Last_ \in Nat
      /\ IsForm(data) /\ late \in 0 .. MaxLate
  BY StepsOK DEF IInv, TypeOK, InStep
<1>5. stepErr' \subseteq Steps[cur] /\ Steps[cur] \subseteq UNION ToSet(Steps)
  BY <1>1, <1>4, ChecksOwned, StepsOK DEF IInv
<1>6. late' \in 0 .. MaxLate /\ (sending' # NoForm => late' = 0)
  BY <1>1, <1>4, Bounds
<1>7. TypeOK'
  BY <1>1, <1>2, <1>3, <1>5, <1>6 DEF IInv, TypeOK, world, IsForm
<1>8. max = Last_
  BY <1>1, <1>4
<1>9. InStep'
  BY <1>1, <1>2, <1>3, <1>5, <1>8 DEF IInv, InStep
<1>10. NotBack
  BY <1>2 DEF NotBack, IInv, TypeOK
<1> QED BY <1>7, <1>9, <1>10 DEF IInv

(* It is refused: the page moves to the step that owns an error.           *)
LEMMA RejectedKeeps ==
  ASSUME IInv, Rejected
  PROVE  IInv' /\ NotBack
<1> DEFINE errs == eventRules(sending, kind, ServerClock)
<1>1. /\ sending # NoForm /\ srvErr' = errs /\ cur' = JumpTarget(Steps, errs)
      /\ stepErr' = IF cur' = cur \/ stepErr = {} THEN stepErr ELSE checks(data)[cur']
      /\ sending' = NoForm /\ late' = 0
      /\ UNCHANGED <<open, data, max, draft>> /\ UNCHANGED world
  BY DEF Rejected, Refuse
<1> HIDE DEF errs
<1>2. Steps' = Steps /\ Last_' = Last_
  BY <1>1, StepsStay DEF world
<1>3. cur' \in 1 .. Last_ /\ max = Last_ /\ open /\ cur' =< max
  BY <1>1, JumpOK, StepsOK DEF IInv, InStep
<1>4. checks(data)[cur'] \subseteq Steps[cur']
  BY <1>3, ChecksOwned DEF IInv
<1>5. stepErr' \subseteq Steps[cur'] /\ Steps[cur'] \subseteq UNION ToSet(Steps)
  BY <1>1, <1>3, <1>4, StepsOK DEF IInv, InStep
<1>6. TypeOK'
  <2>1. 0 \in 0 .. MaxLate
    BY Bounds
  <2> QED BY <1>1, <1>2, <1>3, <1>5, <2>1 DEF IInv, TypeOK, world, IsForm
<1>7. InStep'
  BY <1>1, <1>2, <1>3, <1>5 DEF IInv, InStep
<1>8. NotBack
  BY <1>1 DEF NotBack, IInv, TypeOK
<1> QED BY <1>6, <1>7, <1>8 DEF IInv

(* No answer, a draft that grew too old, and what happens elsewhere.       *)
LEMMA ElsewhereKeeps ==
  ASSUME IInv, Unanswered \/ Expire \/ OtherEdits \/ Tick \/ UNCHANGED vars
  PROVE  IInv' /\ NotBack
<1>1. UNCHANGED <<open, data, cur, max, stepErr, srvErr, flow, kind, ahead>>
  BY DEF Unanswered, Unheard, Expire, OtherEdits, Tick, page, world, vars
<1>2. Steps' = Steps /\ Last_' = Last_
  BY <1>1, StepsStay
<1>3. /\ sending' = NoForm \/ (sending' = sending /\ late' = late)
      /\ draft' = draft \/ (draft' = NoDraft /\ ~ open /\ sending' = sending)
      /\ late' = late \/ late' = 0
  BY DEF Unanswered, Unheard, Expire, OtherEdits, Tick, page, world, vars
<1>4. IsForm(row') /\ now' \in StartTime .. MaxTime /\ edits' \in 0 .. MaxEdits
  <2>1. row' = row \/ row' \in Stored
    BY DEF Unanswered, Expire, OtherEdits, Tick, world, vars
  <2>2. IsForm(row')
    BY <2>1, ValuesAssumption DEF IInv, TypeOK
  <2>3. /\ now' = now \/ (now < MaxTime /\ now' = now + 1)
        /\ edits' = edits \/ (edits < MaxEdits /\ edits' = edits + 1)
    BY DEF Unanswered, Expire, OtherEdits, Tick, world, vars
  <2>4. now \in StartTime .. MaxTime /\ edits \in 0 .. MaxEdits
    BY DEF IInv, TypeOK
  <2> QED BY <2>2, <2>3, <2>4, Bounds
<1>5. TypeOK'
  BY <1>1, <1>2, <1>3, <1>4, Bounds DEF IInv, TypeOK, IsForm
<1>6. InStep'
  BY <1>1, <1>2, <1>3 DEF IInv, InStep
<1>7. NotBack
  BY <1>3 DEF NotBack, IInv, TypeOK
<1> QED BY <1>5, <1>6, <1>7 DEF IInv

-----------------------------------------------------------------------------
LEMMA StepKeeps == IInv /\ [Next]_vars => IInv' /\ NotBack
<1> SUFFICES ASSUME IInv, [Next]_vars PROVE IInv' /\ NotBack
  OBVIOUS
<1>1. CASE \/ BasicsStep \/ ChooseActivity \/ ScheduleStep \/ VenueStep \/ LeaveMapUrl
  BY <1>1, FieldsKeep
<1>2. CASE addPartner \/ removePartner \/ updatePartner
  BY <1>2, PartnersKeep
<1>3. CASE handleNext \/ handleBack \/ \E i \in 1 .. Last_ : handleStepJump(i)
  <2>1. 1 \in 1 .. Last_
    BY StepsOK DEF IInv
  <2> QED BY <1>3, <2>1, MovesKeep
<1>4. CASE Leave \/ Accepted
  <2>1. Unmounted(Blank) /\ late' = 0 /\ UNCHANGED <<draft, flow, kind, ahead, now, edits>>
    BY <1>4 DEF Leave, Accepted, world
  <2>2. row' = row \/ (row' = sending /\ sending # NoForm)
    BY <1>4 DEF Leave, Accepted, world
  <2>3. IsForm(row')
    BY <2>2 DEF IInv, TypeOK
  <2> QED BY <2>1, <2>3, CloseKeeps
<1>5. CASE Open \/ handleSubmit \/ Rejected
  BY <1>5, OpenKeeps, SubmitKeeps, RejectedKeeps
<1>6. CASE Unanswered \/ Expire \/ OtherEdits \/ Tick \/ UNCHANGED vars
  BY <1>6, ElsewhereKeeps
<1> QED BY <1>1, <1>2, <1>3, <1>4, <1>5, <1>6 DEF Next

LEMMA InitIInv == Init => IInv
<1> SUFFICES ASSUME Init PROVE IInv
  OBVIOUS
<1>1. <<flow, kind, ahead>> \in Pages
  BY WizardAssumption DEF Init
<1>2. IsForm(row) /\ IsForm(data)
  BY BlankOK, ValuesAssumption DEF Init
<1>3. Last_ \in {3, 4}
  <2>1. kind \in Kinds
    BY <1>1, WizardAssumption
  <2>2. Len(RunningSteps) = 4 /\ Len(ChurchSteps) = 3 /\ Len(SpecialistSteps) = 3
    BY DEF RunningSteps, ChurchSteps, SpecialistSteps
  <2> QED BY <2>1, <2>2 DEF Last_, Steps, EditSteps, CreateSteps, Kinds
<1>4. TypeOK
  <2>1. /\ open = FALSE /\ cur = 1 /\ max = 1 /\ stepErr = {} /\ sending = NoForm
        /\ draft = NoDraft /\ now = StartTime /\ edits = 0 /\ late = 0
    BY DEF Init
  <2>2. 1 \in 1 .. Last_ /\ StartTime \in StartTime .. MaxTime /\ 0 \in 0 .. MaxEdits /\ 0 \in 0 .. MaxLate
    BY <1>3, Bounds
  <2> QED BY <1>1, <1>2, <2>1, <2>2 DEF TypeOK
<1>5. InStep
  BY DEF Init, InStep
<1> QED BY <1>4, <1>5 DEF IInv

LEMMA SpecIInv == Spec => []IInv
BY InitIInv, StepKeeps, PTL DEF Spec

(* However staff type, leave, come back and submit, with keys that arrive  *)
(* while a request is out: the page, its checkpoint, its errors and its    *)
(* draft stay in step.                                                     *)
THEOREM WizardStaysConsistent == Spec => []WizardConsistent
<1>1. IInv => WizardConsistent
  BY DEF IInv, InStep, WizardConsistent
<1> QED BY <1>1, SpecIInv, PTL

(* The checkpoint of a draft never moves back, over leaving and returning. *)
THEOREM CheckpointStays == Spec => CheckpointKept
<1>1. IInv /\ [Next]_vars => [NotBack]_vars
  BY StepKeeps
<1>2. Spec => [][NotBack]_vars
  BY <1>1, SpecIInv, PTL DEF Spec
<1> QED BY <1>2 DEF NotBack, CheckpointKept

(* An accepted event leaves no draft, unless keys were typed meanwhile.    *)
THEOREM AcceptedClears == Spec => AcceptedLeavesNoDraft
<1>1. IInv => (Accepted /\ late = 0 => draft' = NoDraft)
  BY DEF IInv, InStep, Accepted
<1>2. Spec => [][Accepted /\ late = 0 => draft' = NoDraft]_vars
  BY <1>1, SpecIInv, PTL DEF Spec
<1> QED BY <1>2 DEF AcceptedLeavesNoDraft

-----------------------------------------------------------------------------
(* The pages have no step for partners but when the event is a run, and    *)
(* the edit page none for the activity of a specialist event.  What they   *)
(* cannot edit came from an event that was accepted, or is empty: so the   *)
(* server finds no error that no step owns.                                *)
Owned(d) ==
  /\ kind # "running" => serverExtras(d["extras"]) = {}
  /\ flow = "edit" /\ kind = "specialist" => d["basics"].church_activity_category
OwnedInv ==
  /\ Owned(row) /\ (open => Owned(data))
  /\ draft # NoDraft => Owned(draft.data)
  /\ sending # NoForm => Owned(sending)

LEMMA ErrorsOwned ==
  ASSUME TypeOK, NEW d, Owned(d), NEW c, NEW f \in eventRules(d, kind, c)
  PROVE  \E i \in DOMAIN Steps : f \in Steps[i]
<1>1. kind \in Kinds /\ flow \in {"create", "edit"}
  BY WizardAssumption DEF TypeOK
<1>2. /\ serverBasics(d["basics"], kind)
           \subseteq {"event_name", "description"} \cup (IF kind # "running" THEN {"details"} ELSE {})
              \cup (IF kind = "specialist" /\ ~ d["basics"].church_activity_category
                    THEN {"church_activity_category"} ELSE {})
      /\ serverVenue(d["venue"]) \subseteq {"venue", "venue_address", "venue_map_url"}
  BY DEF serverBasics, serverVenue, Fails
<1>3. /\ serverSchedule(d["schedule"], kind, c)
           \subseteq {"event_date", "start_time", "end_time"}
              \cup (IF kind = "running" THEN {"distance_value"} ELSE {})
      /\ serverExtras(d["extras"]) \subseteq {"partners", "partners_name"}
  BY DEF serverSchedule, serverExtras, Fails
<1>4. f \in serverBasics(d["basics"], kind) \cup serverSchedule(d["schedule"], kind, c)
              \cup serverVenue(d["venue"]) \cup serverExtras(d["extras"])
  BY DEF eventRules
<1>5. CASE kind = "running"
  <2>1. Steps = RunningSteps
    BY <1>5 DEF Steps, CreateSteps, EditSteps
  <2>2. f \in RunningSteps[1] \cup RunningSteps[2] \cup RunningSteps[3] \cup RunningSteps[4]
    BY <1>2, <1>3, <1>4, <1>5 DEF RunningSteps
  <2>3. DOMAIN RunningSteps = 1 .. 4
    BY DEF RunningSteps
  <2> QED BY <2>1, <2>2, <2>3
<1>6. CASE kind # "running"
  <2>1. Steps = IF flow = "create" /\ kind = "specialist" THEN SpecialistSteps ELSE ChurchSteps
    BY <1>1, <1>6 DEF Steps, CreateSteps, EditSteps, Kinds
  <2>2. /\ SpecialistSteps[1] = ChurchSteps[1] \cup {"church_activity_category"}
        /\ SpecialistSteps[2] = ChurchSteps[2] /\ SpecialistSteps[3] = ChurchSteps[3]
        /\ DOMAIN SpecialistSteps = 1 .. 3 /\ DOMAIN ChurchSteps = 1 .. 3
    BY DEF SpecialistSteps, ChurchSteps
  <2>3. serverExtras(d["extras"]) = {}
    BY <1>6 DEF Owned
  <2>4. \/ f \in ChurchSteps[1] \cup ChurchSteps[2] \cup ChurchSteps[3]
        \/ /\ f = "church_activity_category" /\ kind = "specialist"
           /\ ~ d["basics"].church_activity_category
    BY <1>2, <1>3, <1>4, <1>6, <2>3 DEF ChurchSteps
  <2>5. CASE f \in ChurchSteps[1] \cup ChurchSteps[2] \cup ChurchSteps[3]
    BY <2>1, <2>2, <2>5
  <2>6. CASE f = "church_activity_category" /\ kind = "specialist"
             /\ ~ d["basics"].church_activity_category
    <3>1. flow = "create"
      BY <1>1, <2>6 DEF Owned
    <3> QED BY <2>1, <2>2, <2>6, <3>1
  <2> QED BY <2>4, <2>5, <2>6
<1> QED BY <1>5, <1>6

(* The page jumps to a step that owns one of the errors, if there is one.  *)
LEMMA JumpOwns ==
  ASSUME TypeOK, NEW errs, NEW f \in errs, NEW k \in DOMAIN Steps, f \in Steps[k]
  PROVE  Steps[JumpTarget(Steps, errs)] \cap errs # {}
<1> DEFINE owners == {i \in DOMAIN Steps : Steps[i] \cap errs # {}}
<1>1. owners \subseteq 1 .. 4 /\ k \in owners
  BY StepsOK
<1>2. JumpTarget(Steps, errs) =
        IF owners = {} THEN cur ELSE CHOOSE i \in owners : \A j \in owners : i <= j
  BY DEF JumpTarget
<1>3. \A i \in owners : Steps[i] \cap errs # {}
  OBVIOUS
<1> HIDE DEF owners
<1>4. \E i \in owners : \A j \in owners : i <= j
  BY <1>1, LeastStep
<1>5. JumpTarget(Steps, errs) \in owners
  BY <1>1, <1>2, <1>4
<1> QED BY <1>3, <1>5

(* A rejected submit leaves the page on a step that owns an error.         *)
LEMMA RejectedOwns ==
  ASSUME IInv, OwnedInv, Rejected
  PROVE  Steps[cur'] \cap srvErr' # {}
<1>1. /\ sending # NoForm /\ srvErr' = eventRules(sending, kind, ServerClock) /\ srvErr' # {}
      /\ cur' = JumpTarget(Steps, srvErr')
  BY DEF Rejected, Refuse
<1>2. PICK f \in srvErr' : TRUE
  BY <1>1
<1>3. PICK k \in DOMAIN Steps : f \in Steps[k]
  BY <1>1, <1>2, ErrorsOwned DEF IInv, OwnedInv
<1> QED BY <1>1, <1>2, <1>3, JumpOwns DEF IInv

(* A gesture at a field leaves the form owned.                             *)
LEMMA FieldOwned ==
  ASSUME TypeOK, Owned(data), NEW p \in {"basics", "schedule", "venue"}, NEW v,
         p = "basics" /\ flow = "edit" =>
           v.church_activity_category = data["basics"].church_activity_category
  PROVE  Owned([data EXCEPT ![p] = v])
<1>1. DOMAIN data = Parts /\ "basics" \in Parts /\ p \in Parts
  BY DEF TypeOK, IsForm, Parts
<1>2. [data EXCEPT ![p] = v]["extras"] = data["extras"]
  BY <1>1 DEF Parts
<1>3. [data EXCEPT ![p] = v]["basics"] = IF p = "basics" THEN v ELSE data["basics"]
  BY <1>1
<1> QED BY <1>2, <1>3 DEF Owned

LEMMA PartnersOwned ==
  ASSUME TypeOK, Owned(data), kind = "running", NEW v
  PROVE  Owned([data EXCEPT !["extras"] = v])
BY DEF Owned

LEMMA OwnedTyping ==
  ASSUME TypeOK, open => Owned(data),
         \/ BasicsStep \/ ChooseActivity \/ ScheduleStep \/ VenueStep \/ LeaveMapUrl
         \/ addPartner \/ removePartner \/ updatePartner
  PROVE  open /\ Owned(data') /\ draft' = Snapshot(max, data') /\ sending' = sending
         /\ UNCHANGED world
<1>1. ASSUME NEW p, NEW v, NEW keys, setData(p, v, keys)
      PROVE  /\ open /\ PartOf(cur) = p /\ data' = [data EXCEPT ![p] = v]
             /\ draft' = Snapshot(max, data') /\ sending' = sending /\ UNCHANGED world
  BY <1>1 DEF setData, Type
<1>2. CASE BasicsStep
  <2>1. PICK f \in {"event_name", "description", "details"}, v \in Values("basics") :
               Changed(data["basics"], v) = {f} /\ setData("basics", v, {f})
    BY <1>2 DEF BasicsStep, SetField
  <2>2. data["basics"] \in Values("basics")
    BY DEF TypeOK, IsForm, Parts
  <2>3. v["church_activity_category"] = data["basics"]["church_activity_category"]
    <3>1. "church_activity_category" \in DOMAIN data["basics"]
      BY <2>2, ValuesAssumption
    <3>2. "church_activity_category" \notin Changed(data["basics"], v)
      BY <2>1
    <3> QED BY <3>1, <3>2 DEF Changed
  <2> QED BY <1>1, <2>1, <2>3, FieldOwned
<1>3. CASE ChooseActivity
  <2>1. flow # "edit"
    BY <1>3 DEF ChooseActivity
  <2> QED BY <1>1, <1>3, <2>1, FieldOwned DEF ChooseActivity, SetField
<1>4. CASE ScheduleStep \/ VenueStep \/ LeaveMapUrl
  <2>1. PICK p \in {"schedule", "venue"} : \E v, keys : setData(p, v, keys)
    BY <1>4 DEF ScheduleStep, VenueStep, LeaveMapUrl, SetField
  <2> QED BY <1>1, <2>1, FieldOwned
<1>5. CASE addPartner \/ removePartner \/ updatePartner
  <2>1. PICK v, keys : setData("extras", v, keys)
    BY <1>5 DEF addPartner, removePartner, updatePartner, setPartners
  <2>2. kind = "running"
    <3>1. cur \in 1 .. Last_ /\ PartOf(cur) = "extras" /\ kind \in Kinds /\ Last_ \in {3, 4}
      BY <1>1, <2>1, StepsOK, WizardAssumption DEF TypeOK
    <3>2. cur = 4
      BY <3>1 DEF PartOf
    <3>3. Len(ChurchSteps) = 3 /\ Len(SpecialistSteps) = 3
      BY DEF SpecialistSteps, ChurchSteps
    <3> QED BY <3>1, <3>2, <3>3 DEF Last_, Steps, CreateSteps, EditSteps, Kinds
  <2> QED BY <1>1, <2>1, <2>2, PartnersOwned
<1> QED BY <1>2, <1>3, <1>4, <1>5

(* An event that was accepted is owned, and so is the empty form of a new  *)
(* one.                                                                    *)
LEMMA AcceptedOwned ==
  ASSUME NEW d, NEW c, eventRules(d, kind, c) = {}
  PROVE  Owned(d)
<1>1. serverBasics(d["basics"], kind) = {} /\ serverExtras(d["extras"]) = {}
  BY DEF eventRules
<1>2. kind = "specialist" => d["basics"].church_activity_category
  BY <1>1 DEF serverBasics, Fails
<1> QED BY <1>1, <1>2 DEF Owned

LEMMA BlankOwned ==
  ASSUME flow # "edit"
  PROVE  Owned(Blank)
<1>1. Blank["extras"] = << >>
  BY DEF Blank, Parts
<1>2. serverExtras(<< >>) = {}
  <2>1. Len(<< >>) = 0 /\ DOMAIN << >> = {} /\ ~ (0 > MaxPartners)
    BY FormAssumption
  <2> QED BY <2>1 DEF serverExtras, Repeats, Fails
<1> QED BY <1>1, <1>2 DEF Owned

LEMMA OwnedInit == Init => OwnedInv
<1> SUFFICES ASSUME Init PROVE OwnedInv
  OBVIOUS
<1>1. CASE flow = "create"
  <2>1. row = Blank
    BY <1>1 DEF Init
  <2>2. Owned(Blank)
    BY <1>1, BlankOwned
  <2> QED BY <2>1, <2>2 DEF Init, OwnedInv
<1>2. CASE flow # "create"
  <2>1. row # Blank /\ row \in {d \in Stored : eventRules(d, kind, Clock(StartTime)) = {}} \cup {Blank}
    BY <1>2 DEF Init
  <2>2. eventRules(row, kind, Clock(StartTime)) = {}
    BY <2>1
  <2>3. Owned(row)
    BY <2>2, AcceptedOwned
  <2> QED BY <2>3 DEF Init, OwnedInv
<1> QED BY <1>1, <1>2

LEMMA OwnedStep == IInv /\ OwnedInv /\ [Next]_vars => OwnedInv'
<1> SUFFICES ASSUME IInv, OwnedInv, [Next]_vars PROVE OwnedInv'
  OBVIOUS
<1>1. flow' = flow /\ kind' = kind
  BY DEF Next, Open, Leave, Expire, BasicsStep, ChooseActivity, ScheduleStep, VenueStep,
         SetField, LeaveMapUrl, setData, addPartner, removePartner, updatePartner, setPartners,
         handleNext, handleBack, handleStepJump, handleSubmit, Accepted, Rejected, Unanswered,
         OtherEdits, Tick, vars, world
<1>2. ASSUME /\ Owned(row') /\ (open' => Owned(data'))
             /\ draft' # NoDraft => Owned(draft'.data)
             /\ sending' # NoForm => Owned(sending')
      PROVE  OwnedInv'
  BY <1>1, <1>2 DEF OwnedInv, Owned
<1>3. TypeOK
  BY DEF IInv
<1>4. CASE \/ BasicsStep \/ ChooseActivity \/ ScheduleStep \/ VenueStep \/ LeaveMapUrl
           \/ addPartner \/ removePartner \/ updatePartner
  <2>1. /\ open /\ Owned(data') /\ draft' = Snapshot(max, data') /\ sending' = sending
        /\ UNCHANGED world
    BY <1>3, <1>4, OwnedTyping DEF OwnedInv
  <2> QED BY <1>2, <2>1, SnapshotOK DEF OwnedInv, world
<1>5. CASE Open
  <2>1. /\ draft' = Snapshot(max', data') /\ sending' = sending /\ row' = row
        /\ \/ draft = NoDraft /\ data' = row
           \/ draft # NoDraft /\ data' = draft.data
    BY <1>5 DEF Open, Mount, world
  <2> QED BY <1>2, <2>1, SnapshotOK DEF OwnedInv
<1>6. CASE Leave \/ Accepted
  <2>1. /\ open' = FALSE /\ sending' = NoForm /\ draft' = draft
        /\ row' = row \/ (row' = sending /\ sending # NoForm)
    BY <1>6 DEF Leave, Accepted, Unmounted, world
  <2> QED BY <1>2, <2>1 DEF OwnedInv
<1>7. CASE handleNext \/ handleBack \/ (\E i \in 1 .. Last_ : handleStepJump(i)) \/ handleSubmit
  <2>1. /\ open /\ data' = data /\ open' = open /\ row' = row
        /\ sending' = sending \/ sending' = data
        /\ draft' = draft \/ draft' = NoDraft \/ \E i : draft' = Snapshot(i, data)
    BY <1>7 DEF handleNext, handleBack, handleStepJump, handleSubmit, NextStep, BackStep,
                JumpTo, Submit, world
  <2> QED BY <1>2, <2>1, SnapshotOK DEF OwnedInv
<1>8. CASE Expire \/ Rejected \/ Unanswered \/ Tick \/ UNCHANGED vars
  <2>1. /\ data' = data /\ open' = open /\ row' = row
        /\ sending' = sending \/ sending' = NoForm
        /\ draft' = draft \/ draft' = NoDraft
    BY <1>8 DEF Expire, Rejected, Unanswered, Tick, Refuse, Unheard, page, world, vars
  <2> QED BY <1>2, <2>1 DEF OwnedInv
<1>9. CASE OtherEdits
  <2>1. /\ data' = data /\ open' = open /\ sending' = sending /\ draft' = draft
        /\ eventRules(row', kind, ServerClock) = {}
    BY <1>9 DEF OtherEdits, page
  <2> QED BY <1>2, <2>1, AcceptedOwned DEF OwnedInv
<1> QED BY <1>4, <1>5, <1>6, <1>7, <1>8, <1>9 DEF Next

(* No form is refused without a word: a rejected submit leaves the page on *)
(* a step that owns one of the errors.                                     *)
THEOREM RejectionIsShown == Spec => RejectionShown
<1>1. Spec => []OwnedInv
  BY OwnedInit, OwnedStep, SpecIInv, PTL DEF Spec
<1>2. IInv /\ OwnedInv => (Rejected => Steps[cur'] \cap srvErr' # {})
  BY RejectedOwns
<1>3. Spec => [][Rejected => Steps[cur'] \cap srvErr' # {}]_vars
  BY <1>1, <1>2, SpecIInv, PTL DEF Spec
<1> QED BY <1>3 DEF RejectionShown

-----------------------------------------------------------------------------
(* The two programs that judge an event.                                   *)

LEMMA ClockGoesOn ==
  ASSUME NEW s \in Int, NEW t \in Int, s =< t
  PROVE  /\ Clock(s).day \in Int /\ Clock(t).day \in Int /\ Clock(s).day =< Clock(t).day
         /\ Clock(s).time \in Int /\ Clock(t).time \in Int
         /\ Clock(s).day = Clock(t).day => Clock(s).time =< Clock(t).time
BY DEF Clock, Day

LEMMA ScheduleAgrees ==
  ASSUME NEW v, {v.event_date, v.start_time, v.end_time} \subseteq Int, NEW k,
         NEW t \in Int, NEW lead \in Int, serverSchedule(v, k, Clock(t)) = {}
  PROVE  validateSchedule(v, k, Clock(t + lead)) \subseteq OddClock(v, Clock(t + lead), lead)
<1> DEFINE server == Clock(t)
           browser == Clock(t + lead)
           good == GoodDate(v.event_date, browser)
           passed == Passed(v, browser)
<1>1. /\ GoodDay(v.event_date, server) /\ v.start_time # None /\ ~ Passed(v, server)
      /\ ~ (v.end_time # None /\ v.end_time - v.start_time < MinDuration)
      /\ ~ (k = "running" /\ v.distance_value \notin 1..MaxDistance)
  BY DEF serverSchedule, Fails
<1>2. /\ server.day \in Int /\ browser.day \in Int /\ server.time \in Int /\ browser.time \in Int
      /\ lead >= 0 => server.day =< browser.day
      /\ lead =< 0 => /\ browser.day =< server.day
                      /\ browser.day = server.day => browser.time =< server.time
  <2>1. CASE lead >= 0
    BY <2>1, ClockGoesOn
  <2>2. CASE lead =< 0
    BY <2>2, ClockGoesOn
  <2> QED BY <2>1, <2>2
<1>3. lead = 0 => browser = server
  OBVIOUS
<1> HIDE DEF server, browser
<1>4. validateSchedule(v, k, browser)
        = Fails("event_date", ~ good) \cup Fails("start_time", good /\ passed)
  BY <1>1 DEF validateSchedule, Fails
<1>5. lead > 0 /\ ~ good => passed
  BY <1>1, <1>2, FormAssumption DEF GoodDay, GoodDate, Passed
<1>6. lead =< 0 => ~ passed
  BY <1>1, <1>2 DEF GoodDay, Passed
<1>7. lead =< 0 /\ ~ good => lead < 0 /\ v.event_date > browser.day + MaxAhead
  BY <1>1, <1>2, <1>3, FormAssumption DEF GoodDay, GoodDate
<1> HIDE DEF good, passed
<1>8. OddClock(v, browser, lead)
        = IF lead > 0 /\ passed THEN {"event_date", "start_time"}
          ELSE Fails("event_date", lead < 0 /\ v.event_date > browser.day + MaxAhead)
  BY DEF OddClock, passed
<1>9. validateSchedule(v, k, browser) \subseteq OddClock(v, browser, lead)
  <2>1. CASE lead > 0
    BY <1>4, <1>5, <1>8, <2>1 DEF Fails
  <2>2. CASE lead =< 0
    BY <1>4, <1>6, <1>7, <1>8, <2>2 DEF Fails
  <2> QED BY <2>1, <2>2
<1> QED BY <1>9 DEF browser

LEMMA BasicsAgree ==
  ASSUME NEW v, NEW k, serverBasics(v, k) = {}
  PROVE  validateBasics(v, k) \subseteq OddBasics(v) /\ validateBasics(v, "church") \subseteq OddBasics(v)
BY DEF serverBasics, validateBasics, OddBasics, Fails, FewUnits, FewPoints, ManyUnits, ManyPoints

LEMMA VenueAgrees ==
  ASSUME NEW v, serverVenue(v) = {}
  PROVE  validateVenue(v) \subseteq OddVenue(v)
BY DEF serverVenue, validateVenue, OddVenue, Fails, FewUnits, FewPoints, ManyUnits, ManyPoints

(* Two names that differ for the server and not for the browser are the    *)
(* two that differ in the case of a letter outside ASCII.                  *)
LEMMA LowerAgrees ==
  ASSUME NEW a \in PartnerNames, NEW b \in PartnerNames,
         normalizePartnerPart[a] = normalizePartnerPart[b], AsciiLower[a] # AsciiLower[b]
  PROVE  {a, b} = {"ano", "Ano"}
<1>1. ASSUME NEW c \in PartnerNames
      PROVE  normalizePartnerPart[c] = IF c = "Ano" THEN "ano" ELSE IF c = "Acme" THEN "acme" ELSE c
  BY DEF normalizePartnerPart, AsciiLower
<1>2. ASSUME NEW c \in PartnerNames PROVE AsciiLower[c] = IF c = "Acme" THEN "acme" ELSE c
  BY DEF AsciiLower
<1>3. /\ (IF a = "Ano" THEN "ano" ELSE IF a = "Acme" THEN "acme" ELSE a)
            = (IF b = "Ano" THEN "ano" ELSE IF b = "Acme" THEN "acme" ELSE b)
      /\ (IF a = "Acme" THEN "acme" ELSE a) # (IF b = "Acme" THEN "acme" ELSE b)
  BY <1>1, <1>2
<1> QED BY <1>3

LEMMA ExtrasAgree ==
  ASSUME NEW partners, \A i \in DOMAIN partners : partners[i].name \in PartnerNames,
         serverExtras(partners) = {}
  PROVE  validateExtras(partners) \subseteq OddPartners(partners)
<1> DEFINE names == {partners[i].name : i \in DOMAIN partners}
<1>1. /\ ~ (Len(partners) > MaxPartners) /\ ~ Repeats(partners, AsciiLower)
      /\ \A i \in DOMAIN partners : ~ BadPartner(partners[i], FewPoints \cup ManyPoints)
  BY DEF serverExtras, Fails
<1>2. \A i \in DOMAIN partners :
         BadPartner(partners[i], FewUnits \cup ManyUnits) => partners[i].name = "wide"
  BY <1>1 DEF BadPartner, FewUnits, FewPoints, ManyUnits, ManyPoints
<1>3. Repeats(partners, normalizePartnerPart) => {"ano", "Ano"} \subseteq names
  <2> SUFFICES ASSUME Repeats(partners, normalizePartnerPart) PROVE {"ano", "Ano"} \subseteq names
    OBVIOUS
  <2>1. PICK i \in DOMAIN partners, j \in DOMAIN partners :
          /\ i < j /\ partners[i].name # "" /\ partners[i].type = partners[j].type
          /\ normalizePartnerPart[partners[i].name] = normalizePartnerPart[partners[j].name]
    BY DEF Repeats
  <2>2. AsciiLower[partners[i].name] # AsciiLower[partners[j].name]
    BY <1>1, <2>1 DEF Repeats
  <2>3. {partners[i].name, partners[j].name} = {"ano", "Ano"}
    BY <2>1, <2>2, LowerAgrees
  <2> QED BY <2>3
<1>4. CASE Repeats(partners, normalizePartnerPart)
  BY <1>3, <1>4 DEF validateExtras, OddPartners, Fails
<1>5. CASE ~ Repeats(partners, normalizePartnerPart)
  BY <1>1, <1>2, <1>5 DEF validateExtras, OddPartners, Fails
<1> QED BY <1>4, <1>5

(* What the property says of every text, every pair of clocks and every    *)
(* editor of two partners.                                                 *)
LEMMA EditorsAgree == TextsAgree /\ ClocksAgree /\ PartnersAgree
<1>1. TextsAgree
  BY BasicsAgree, VenueAgrees DEF TextsAgree
<1>2. ClocksAgree
  <2> SUFFICES ASSUME NEW t \in (Day - 1)..(Day + 1), NEW lead \in -2..2,
                      NEW v \in [event_date : {None} \cup 0..(MaxAhead + 2), start_time : {None, 0, 1, Day - 1},
                                end_time : {None, 0, 1, Day - 1}, distance_value : {None, 1}],
                      serverSchedule(v, "running", Clock(t)) = {}
               PROVE  validateSchedule(v, "running", Clock(t + lead))
                        \subseteq OddClock(v, Clock(t + lead), lead)
    BY DEF ClocksAgree
  <2>1. {v.event_date, v.start_time, v.end_time} \subseteq Int /\ t \in Int /\ lead \in Int
    BY FormAssumption DEF None, Day
  <2> QED BY <2>1, ScheduleAgrees
<1>3. PartnersAgree
  <2> SUFFICES ASSUME NEW partners \in BoundedSeq([name : PartnerNames, type : {"host", "sponsor"}], 2),
                      serverExtras(partners) = {}
               PROVE  validateExtras(partners) \subseteq OddPartners(partners)
    BY DEF PartnersAgree
  <2>1. PICK m \in 0..2 : partners \in [1..m -> [name : PartnerNames, type : {"host", "sponsor"}]]
    BY DEF BoundedSeq, SeqOf
  <2>2. \A i \in DOMAIN partners : partners[i].name \in PartnerNames
    BY <2>1
  <2> QED BY <2>2, ExtrasAgree
<1> QED BY <1>1, <1>2, <1>3

(* The browser refuses nothing that the server would take, but for a text  *)
(* that is too long in UTF-16 units only, a link with an odd space, a date *)
(* that the two clocks judge differently, and partners that differ in the  *)
(* case of a letter outside ASCII: whatever is entered, on whatever page,  *)
(* however far the clock of its browser is ahead or behind.                *)
THEOREM BrowserNotStricter == Spec => []ClientNotStricter
<1>1. IInv => ClientNotStricter
  <2> SUFFICES ASSUME TypeOK, eventRules(data, kind, ServerClock) = {}, NEW i \in 1..Last_
               PROVE  validate(i, data) \subseteq OddBasics(data["basics"]) \cup OddVenue(data["venue"])
                                                \cup OddClock(data["schedule"], BrowserClock, ahead)
                                                \cup OddPartners(data["extras"])
    BY EditorsAgree DEF IInv, ClientNotStricter
  <2>1. /\ serverBasics(data["basics"], kind) = {} /\ serverSchedule(data["schedule"], kind, ServerClock) = {}
        /\ serverVenue(data["venue"]) = {} /\ serverExtras(data["extras"]) = {}
    BY DEF eventRules
  <2>2. validateBasics(data["basics"], IF flow = "edit" THEN "church" ELSE kind) \subseteq OddBasics(data["basics"])
    BY <2>1, BasicsAgree
  <2>3. validateVenue(data["venue"]) \subseteq OddVenue(data["venue"])
    BY <2>1, VenueAgrees
  <2>4. validateSchedule(data["schedule"], kind, BrowserClock)
          \subseteq OddClock(data["schedule"], BrowserClock, ahead)
    <3>1. data["schedule"] \in Values("schedule")
      BY DEF TypeOK, IsForm, Parts
    <3>2. {data["schedule"].event_date, data["schedule"].start_time, data["schedule"].end_time} \subseteq Int
      BY <3>1, ValuesAssumption DEF Parts
    <3>3. now \in Int /\ ahead \in Int
      <4>1. <<flow, kind, ahead>> \in {"create", "edit"} \X Kinds \X Int
        BY WizardAssumption DEF TypeOK
      <4> QED BY <4>1, Bounds DEF TypeOK
    <3> QED BY <2>1, <3>2, <3>3, ScheduleAgrees DEF ServerClock, BrowserClock
  <2>5. validateExtras(data["extras"]) \subseteq OddPartners(data["extras"])
    <3>1. PICK m \in 0..MaxRows : data["extras"] \in [1..m -> Partners]
      BY DEF TypeOK, IsForm, BoundedSeq, SeqOf
    <3>2. \A j \in DOMAIN data["extras"] : data["extras"][j].name \in PartnerNames
      BY <3>1, WizardAssumption
    <3> QED BY <2>1, <3>2, ExtrasAgree
  <2>6. PartOf(i) \in Parts
    <3>1. i = 1 \/ i = 2 \/ i = 3 \/ i = 4
      BY StepsOK DEF TypeOK
    <3> QED BY <3>1 DEF PartOf, Parts
  <2> QED BY <2>2, <2>3, <2>4, <2>5, <2>6 DEF validate, Parts
<1> QED BY <1>1, SpecIInv, PTL

-----------------------------------------------------------------------------
(* The fields of the wizard's forms: one date, time or distance field in   *)
(* use (Pickers).                                                          *)

(* A distance is the one that was typed, or what one or two conversions    *)
(* made of it; switching the unit again comes back to one of the two.      *)
Journey ==
  LET d == entered.distance IN
  \/ d = Missing /\ value = Missing
  \/ d \in Nat /\ value = d /\ unit = entered.unit
  \/ d \in Nat /\ value = toMiles(d) /\ entered.unit = "km" /\ unit = "mi"
  \/ d \in Nat /\ value = toKm(toMiles(d)) /\ entered.unit = "km" /\ unit = "km"
  \/ d \in Nat /\ value = toKm(d) /\ entered.unit = "mi" /\ unit = "km"

DistanceOK ==
  /\ whole \in Nat \cup {Missing} /\ decimal \in 0..99 \cup {Missing}
  /\ {unit, entered.unit} \subseteq {"km", "mi"}
  /\ value = combined(whole, decimal)
  /\ Journey

DateOK ==
  /\ value \in Days \cup {Missing} /\ typed \in Days \cup {Missing, Garbage}
  /\ hadCommitError = typedError /\ (typedError => popover)

ClockOK == day \in Today..LastDay /\ minDate \in Int /\ maxDate \in Int

FieldInv ==
  /\ field \in {"date", "time", "distance"} /\ ClockOK
  /\ field = "date" => DateOK
  /\ field = "time" => value \in Nat \cup {Missing}
  /\ field = "distance" => DistanceOK

LEMMA ToMilesNat == ASSUME NEW k \in Nat PROVE toMiles(k) \in Nat
  BY DEF toMiles

LEMMA ToKmNat == ASSUME NEW m \in Nat PROVE toKm(m) \in Nat
  BY DEF toKm

(* A kilometre is less than a mile: a rounded distance in kilometres still *)
(* determines the miles it came from.                                      *)
LEMMA MilesComeBack == ASSUME NEW m \in Nat PROVE toMiles(toKm(m)) = m
  BY DEF toMiles, toKm

LEMMA KmDrift == ASSUME NEW k \in Nat PROVE toKm(toMiles(k)) - k \in -1..1
  BY DEF toMiles, toKm

LEMMA SplitCombines ==
  ASSUME NEW v \in Nat \cup {Missing}
  PROVE  /\ splitWhole(v) \in Nat \cup {Missing} /\ splitDecimal(v) \in 0..99 \cup {Missing}
         /\ combined(splitWhole(v), splitDecimal(v)) = v
  BY DEF splitWhole, splitDecimal, combined, Missing

LEMMA CombinedType ==
  ASSUME NEW w \in Nat \cup {Missing}, NEW d \in 0..99 \cup {Missing}
  PROVE  combined(w, d) \in Nat \cup {Missing}
  BY DEF combined, Missing

Quarters == {0, 15, 30, 45}

(* The three lists of a time: what was chosen is what is shown.            *)
LEMMA TimeShown ==
  ASSUME NEW h \in 1..12, NEW m \in Quarters, NEW p \in {"AM", "PM"}
  PROVE  /\ to24(h, m, p) \in Nat
         /\ parse(to24(h, m, p)) = [hour |-> h, minute |-> m, period |-> p]
<1>0. m \in {0, 15, 30, 45}
  BY DEF Quarters
<1> DEFINE hour == IF p = "AM" /\ h = 12 THEN 0 ELSE IF p = "PM" /\ h # 12 THEN h + 12 ELSE h
<1>1. to24(h, m, p) = 60 * hour + m
  BY DEF to24
<1>2. hour \in 0..23
  OBVIOUS
<1>3. (60 * hour + m) \div 60 = hour /\ (60 * hour + m) % 60 = m
  <2> HIDE DEF hour
  <2> QED BY <1>0, <1>2
<1>4. ((2 * m + 15) \div 30) * 15 = m /\ m =< 45
  BY <1>0
<1>5. IF hour % 12 = 0 THEN h = 12 ELSE h = hour % 12
  OBVIOUS
<1>6. (hour >= 12) <=> p = "PM"
  OBVIOUS
<1> HIDE DEF hour
<1>7. parse(60 * hour + m) = [hour |-> h, minute |-> m, period |-> p]
  BY <1>0, <1>3, <1>4, <1>5, <1>6 DEF parse
<1> QED BY <1>0, <1>1, <1>2, <1>7

LEMMA ParseType ==
  ASSUME NEW v \in Nat
  PROVE  parse(v) \in [hour : 1..12, minute : Quarters, period : {"AM", "PM"}]
  BY DEF parse, Quarters

LEMMA FieldStarts == ASSUME PickerConstants, FieldInit PROVE FieldInv
<1> USE PickerConstants DEF PickerConstants
<1>1. field \in {"date", "time", "distance"} /\ ClockOK
  BY DEF FieldInit, ClockOK
<1>2. CASE field = "date"
  <2>1. value \in Days \cup {Missing}
    BY <1>2 DEF FieldInit
  <2>2. typed = Missing /\ hadCommitError = FALSE /\ typedError = FALSE
    BY DEF FieldInit
  <2>3. value \in Days \cup {Missing} /\ typed \in Days \cup {Missing, Garbage}
    BY <2>1, <2>2 DEF Missing
  <2>4. DateOK
    BY <2>2, <2>3, Zenon DEF DateOK
  <2> QED BY <1>1, <1>2, <2>4 DEF FieldInv
<1>3. CASE field = "time"
  <2>1. value \in Legacy \cup {Missing}
    BY <1>3 DEF FieldInit
  <2> QED BY <1>1, <1>3, <2>1 DEF FieldInv, Missing
<1>4. CASE field = "distance"
  <2>1. value = Missing
    BY <1>4 DEF FieldInit, Missing
  <2>2. DistanceOK
    BY <2>1 DEF FieldInit, DistanceOK, Journey, Missing, combined, Missing
  <2> QED BY <1>1, <1>4, <2>2 DEF FieldInv
<1> QED BY <1>1, <1>2, <1>3, <1>4

(* What a gesture may do to a date: nothing, take it away, choose a day    *)
(* within the bounds, or choose today.                                     *)
DateChosen == value' \in {value, Missing} \/ value' \in minDate..maxDate \/ value' = day

(* A typed text enters the form only if it is a day within the bounds.     *)
LEMMA Between ==
  ASSUME PickerConstants, ClockOK, NEW d \in Days, ~ isCellDisabled(d)
  PROVE  d \in minDate..maxDate
<1>1. d \in Nat
  BY DEF PickerConstants
<1> QED BY <1>1 DEF ClockOK, isCellDisabled

LEMMA TodayIsDay == ASSUME PickerConstants, ClockOK PROVE day \in Days
  BY DEF ClockOK, PickerConstants

LEMMA CommitKeeps ==
  ASSUME PickerConstants, ClockOK, DateOK, popover, commitTyped
  PROVE  DateOK' /\ DateChosen
<1> DEFINE parsed == parseTyped(typed)
<1>1. CASE parsed = Missing \/ isCellDisabled(parsed)
  BY <1>1 DEF DateOK, DateChosen, commitTyped
<1>2. CASE ~ (parsed = Missing \/ isCellDisabled(parsed))
  <2>1. ValueEffect(parsed) /\ CloseEffect
    BY <1>2 DEF commitTyped
  <2>2. parsed \in Days
    BY <1>2 DEF DateOK, Missing, parseTyped
  <2>3. value' = parsed
    BY <2>1 DEF ValueEffect
  <2>4. popover' = FALSE /\ typedError' = FALSE /\ hadCommitError' = FALSE /\ typed' = typed
    BY <2>1 DEF CloseEffect
  <2>5. parsed \in minDate..maxDate
    BY <1>2, <2>2, Between
  <2> QED BY <2>2, <2>3, <2>4, <2>5 DEF DateOK, DateChosen
<1> QED BY <1>1, <1>2

LEMMA DateStep ==
  ASSUME PickerConstants, ClockOK, DateOK, DatePicker
  PROVE  DateOK' /\ DateChosen
<1>1. CASE onTypedChange
  BY <1>1 DEF onTypedChange, DateOK, DateChosen, Missing
<1>2. CASE onTypedBlur \/ onTypedEnter
  <2>1. CASE commitTyped
    BY <1>2, <2>1, CommitKeeps DEF onTypedBlur, onTypedEnter
  <2>2. CASE ~ commitTyped
    BY <1>2, <2>2 DEF onTypedBlur, onTypedEnter, DateOK, DateChosen
  <2> QED BY <2>1, <2>2
<1>3. CASE toggleOpen
  <2>1. CASE ~ popover
    BY <1>3, <2>1 DEF toggleOpen, OpenEffect, DateOK, DateChosen
  <2>2. CASE popover /\ typed # Missing
    BY <1>3, <2>2, CommitKeeps DEF toggleOpen
  <2>3. CASE popover /\ typed = Missing
    BY <1>3, <2>3 DEF toggleOpen, CloseEffect, DateOK, DateChosen
  <2> QED BY <2>1, <2>2, <2>3
<1>4. CASE clickOutside \/ Close
  BY <1>4 DEF clickOutside, Close, CloseEffect, DateOK, DateChosen
<1>5. CASE pick
  <2>1. PICK d \in cells : ~ isCellDisabled(d) /\ ValueEffect(d)
    BY <1>5 DEF pick
  <2>2. d \in Days /\ value' = d
    BY <2>1 DEF cells, ValueEffect
  <2>3. d \in minDate..maxDate
    BY <2>1, <2>2, Between
  <2> QED BY <1>5, <2>2, <2>3 DEF pick, CloseEffect, DateOK, DateChosen
<1>6. CASE goToday
  BY <1>6, TodayIsDay DEF goToday, CloseEffect, DateOK, DateChosen
<1>7. CASE clear
  BY <1>7 DEF clear, ValueEffect, DateOK, DateChosen, Missing
<1>8. CASE \/ stepMonth \/ chooseYear \/ chooseMonth
           \/ showYears \/ previousYears
  BY <1>8 DEF stepMonth, chooseYear, chooseMonth, Navigate,
              showYears, previousYears, turnPage, DateOK, DateChosen
<1> QED BY <1>1, <1>2, <1>3, <1>4, <1>5, <1>6, <1>7, <1>8 DEF DatePicker

(* Only one of the three lists shows something else than before.           *)
OneListMoves ==
  \E l \in {"hour", "minute", "period"} :
    \A k \in {"hour", "minute", "period"} \ {l} : shown'[k] = shown[k]

LEMMA TimeStep ==
  ASSUME PickerConstants, value \in Nat \cup {Missing}, TimePicker
  PROVE  value' \in Nat \cup {Missing} /\ (value' # Missing => OneListMoves)
<1>1. /\ shown.hour \in 1..12 /\ shown.minute \in Quarters
      /\ shown.period \in {"AM", "PM"} /\ DOMAIN shown = {"hour", "minute", "period"}
  <2>1. CASE value = Missing
    BY <2>1 DEF shown, Quarters
  <2>2. CASE value # Missing
    BY <2>2, ParseType DEF shown, Missing
  <2> QED BY <2>1, <2>2
<1>2. ASSUME NEW h \in 1..12, NEW m \in Quarters, NEW p \in {"AM", "PM"}, value' = to24(h, m, p)
      PROVE  value' \in Nat /\ shown' = [hour |-> h, minute |-> m, period |-> p]
  <2>1. PICK v : v = to24(h, m, p)
    OBVIOUS
  <2>2. v \in Nat /\ parse(v) = [hour |-> h, minute |-> m, period |-> p]
    BY <2>1, TimeShown
  <2>3. value' = v /\ value' # Missing
    BY <1>2, <2>1, <2>2 DEF Missing
  <2>4. shown' = parse(v)
    BY <2>3 DEF shown, parse
  <2> QED BY <2>2, <2>3, <2>4
<1>3. CASE \E h \in 1..12 : value' = to24(h, shown.minute, shown.period)
  BY <1>1, <1>2, <1>3 DEF OneListMoves
<1>4. CASE \E m \in Quarters : value' = to24(shown.hour, m, shown.period)
  BY <1>1, <1>2, <1>4 DEF OneListMoves
<1>5. CASE \E p \in {"AM", "PM"} : value' = to24(shown.hour, shown.minute, p)
  BY <1>1, <1>2, <1>5 DEF OneListMoves
<1>6. CASE clearTime
  BY <1>6 DEF clearTime, Missing
<1> QED BY <1>3, <1>4, <1>5, <1>6 DEF TimePicker, update, Quarters

LEMMA DistanceStep ==
  ASSUME PickerConstants, DistanceOK, DistancePicker
  PROVE  DistanceOK'
<1> USE DEF DistanceOK
<1>1. ASSUME NEW w \in Nat \cup {Missing}, NEW d \in 0..99 \cup {Missing}, emit(w, d)
      PROVE  DistanceOK'
  <2>1. PICK v : v = combined(w, d)
    OBVIOUS
  <2>2. v \in Nat \cup {Missing} /\ value' = v
    BY <1>1, <2>1, CombinedType DEF emit
  <2>3. \/ whole' = w /\ decimal' = d
        \/ whole' = splitWhole(v) /\ decimal' = splitDecimal(v)
    BY <1>1, <2>2 DEF emit
  <2>4. /\ whole' \in Nat \cup {Missing} /\ decimal' \in 0..99 \cup {Missing}
        /\ v = combined(whole', decimal')
    BY <2>1, <2>2, <2>3, SplitCombines
  <2>5. entered' = [distance |-> v, unit |-> unit] /\ unit' = unit
    BY <1>1, <2>2 DEF emit
  <2>6. Journey' /\ {unit', entered'.unit} \subseteq {"km", "mi"}
    BY <2>2, <2>5 DEF Journey
  <2>7. combined(whole, decimal)' = combined(whole', decimal')
    BY DEF combined
  <2> QED BY <2>2, <2>4, <2>6, <2>7
<1>2. CASE handleWholeChange \/ handleDecimalChange
  BY <1>1, <1>2 DEF handleWholeChange, handleDecimalChange, PickerConstants, Missing
<1>3. CASE handleUnitChange
  <2> DEFINE there == IF value = Missing THEN Missing
                      ELSE IF unit = "km" THEN toMiles(value) ELSE toKm(value)
  <2>1. PICK v : v = there
    OBVIOUS
  <2>2. /\ value' = v /\ unit' = (IF unit = "km" THEN "mi" ELSE "km") /\ entered' = entered
        /\ IF v = Missing /\ value = Missing THEN UNCHANGED <<whole, decimal>>
           ELSE whole' = splitWhole(v) /\ decimal' = splitDecimal(v)
    BY <1>3, <2>1 DEF handleUnitChange
  <2>3. value \in Nat \cup {Missing}
    BY CombinedType
  <2>4. v \in Nat \cup {Missing}
    BY <2>1, <2>3, ToMilesNat, ToKmNat DEF Missing
  <2>5. /\ whole' \in Nat \cup {Missing} /\ decimal' \in 0..99 \cup {Missing}
        /\ v = combined(whole', decimal')
    BY <2>2, <2>4, SplitCombines DEF Missing
  <2>6. combined(whole, decimal)' = combined(whole', decimal')
    BY DEF combined
  <2>7. Journey'
    <3>1. PICK d : d = entered.distance
      OBVIOUS
    <3>2. \/ d = Missing /\ v = Missing
          \/ d \in Nat /\ v = d /\ unit' = entered.unit
          \/ d \in Nat /\ v = toMiles(d) /\ entered.unit = "km" /\ unit' = "mi"
          \/ d \in Nat /\ v = toKm(toMiles(d)) /\ entered.unit = "km" /\ unit' = "km"
          \/ d \in Nat /\ v = toKm(d) /\ entered.unit = "mi" /\ unit' = "km"
      <4>1. CASE d = Missing /\ value = Missing
        BY <2>1, <4>1 DEF Missing
      <4>2. CASE d \in Nat
        <5>1. toMiles(d) \in Nat /\ toKm(d) \in Nat
          BY <4>2, ToMilesNat, ToKmNat
        <5>2. toMiles(toKm(d)) = d /\ toMiles(toKm(toMiles(d))) = toMiles(d)
          BY <4>2, <5>1, MilesComeBack
        <5>3. \A n \in Nat : n # Missing
          BY DEF Missing
        <5>4. toKm(toMiles(d)) \in Nat
          BY <5>1, ToKmNat
        <5> QED BY <2>1, <2>2, <3>1, <4>2, <5>1, <5>2, <5>3, <5>4 DEF Journey, Missing
      <4> QED BY <3>1, <4>1, <4>2 DEF Journey
    <3>3. toMiles(entered.distance)' = toMiles(d) /\ toKm(entered.distance)' = toKm(d)
      BY <2>2, <3>1
    <3> QED BY <2>2, <3>1, <3>2 DEF Journey, toMiles, toKm
  <2> QED BY <2>2, <2>5, <2>6, <2>7
<1> QED BY <1>2, <1>3 DEF DistancePicker

(* A day passes, and the form computes its bounds anew.                    *)
LEMMA ClockStep ==
  ASSUME PickerConstants, ClockOK, Midnight \/ Render
  PROVE  ClockOK' /\ value' = value /\ field' = "date" /\ field = "date"
<1>1. CASE Midnight
  <2>1. day' = day + 1 /\ day < LastDay /\ UNCHANGED <<minDate, maxDate, value, field>> /\ field = "date"
    BY <1>1 DEF Midnight
  <2> QED BY <2>1 DEF ClockOK, PickerConstants
<1>2. CASE Render
  <2>1. minDate' = day + Lo /\ maxDate' = day + Hi /\ UNCHANGED <<day, value, field>> /\ field = "date"
    BY <1>2 DEF Render
  <2> QED BY <2>1 DEF ClockOK, PickerConstants
<1> QED BY <1>1, <1>2

LEMMA FieldSteps ==
  ASSUME PickerConstants, FieldInv, [FieldNext]_fieldVars
  PROVE  /\ FieldInv'
         /\ field = "date" => DateChosen
         /\ field = "time" /\ value' # Missing => OneListMoves
<1> USE DEF FieldInv
<1>1. CASE DatePicker
  <2>1. field = "date" /\ field' = field /\ DateOK' /\ DateChosen
    BY <1>1, DateStep DEF DatePicker, onTypedChange, onTypedBlur, onTypedEnter,
       toggleOpen, clickOutside, Close, pick, goToday, clear,
       stepMonth, chooseYear, chooseMonth, Navigate, showYears,
       previousYears, turnPage, UNCHANGED_others
  <2>2. UNCHANGED <<day, minDate, maxDate>>
    BY <1>1 DEF DatePicker, onTypedChange, onTypedBlur, onTypedEnter,
       toggleOpen, clickOutside, Close, pick, goToday, clear,
       stepMonth, chooseYear, chooseMonth, Navigate, showYears,
       previousYears, turnPage, UNCHANGED_others, clock
  <2>3. ClockOK'
    BY <2>2 DEF ClockOK
  <2> QED BY <2>1, <2>3
<1>2. CASE TimePicker
  <2>1. field = "time" /\ field' = field /\ UNCHANGED <<day, minDate, maxDate>>
    BY <1>2 DEF TimePicker, clock
  <2>2. value' \in Nat \cup {Missing} /\ (value' # Missing => OneListMoves)
    BY <1>2, <2>1, TimeStep
  <2>3. ClockOK'
    BY <2>1 DEF ClockOK
  <2> QED BY <2>1, <2>2, <2>3
<1>3. CASE DistancePicker
  <2>1. field = "distance" /\ field' = field /\ UNCHANGED <<day, minDate, maxDate>>
    BY <1>3 DEF DistancePicker, clock
  <2>2. ClockOK'
    BY <2>1 DEF ClockOK
  <2> QED BY <1>3, <2>1, <2>2, DistanceStep
<1>4. CASE Midnight \/ Render
  <2>1. ClockOK' /\ value' = value /\ field' = "date" /\ field = "date"
    BY <1>4, ClockStep
  <2>2. UNCHANGED <<typed, typedError, hadCommitError, popover>>
    BY <1>4 DEF Midnight, Render, dateVars
  <2>3. DateOK'
    BY <2>1, <2>2 DEF DateOK
  <2> QED BY <2>1, <2>3 DEF DateChosen
<1>5. CASE UNCHANGED fieldVars
  <2>1. UNCHANGED <<field, value, day, minDate, maxDate, popover, typed, typedError, hadCommitError>>
    BY <1>5 DEF fieldVars, clock, dateVars
  <2>2. UNCHANGED <<whole, decimal, unit, entered>>
    BY <1>5 DEF fieldVars, distanceVars
  <2>3. shown' = shown
    BY <2>1 DEF shown, parse
  <2>4. ClockOK' /\ (field = "date" => DateOK') /\ DateChosen /\ OneListMoves
    BY <2>1, <2>3 DEF ClockOK, DateOK, DateChosen, OneListMoves
  <2>5. field = "distance" => DistanceOK'
    BY <2>1, <2>2 DEF DistanceOK, Journey, combined
  <2> QED BY <2>1, <2>4, <2>5
<1> QED BY <1>1, <1>2, <1>3, <1>4, <1>5 DEF FieldNext

LEMMA FieldAlways == FieldSpec => []FieldInv
<1>1. FieldInit => FieldInv
  BY FieldStarts, PickerAssumption
<1>2. FieldInv /\ [FieldNext]_fieldVars => FieldInv'
  BY FieldSteps, PickerAssumption
<1> QED BY <1>1, <1>2, PTL DEF FieldSpec

(* What a field shows is what the form holds, and its popover stays open   *)
(* for an error exactly while there is one.                                *)
THEOREM FieldStaysConsistent == FieldSpec => []FieldConsistent
<1>1. FieldInv => FieldConsistent
  <2> SUFFICES ASSUME FieldInv PROVE FieldConsistent
    OBVIOUS
  <2>1. CASE field = "date"
    <3>1. value \in Days \cup {Missing}
      BY <2>1 DEF FieldInv, DateOK, Missing
    <3>2. value \in Nat \cup {Missing}
      BY <3>1, PickerAssumption DEF PickerConstants
    <3> QED BY <2>1, <3>2 DEF FieldInv, DateOK, FieldConsistent
  <2>2. CASE field = "time"
    BY <2>2 DEF FieldInv, FieldConsistent, Missing
  <2>3. CASE field = "distance"
    <3>1. value \in Nat \cup {Missing} /\ value = combined(whole, decimal)
      BY <2>3, CombinedType DEF FieldInv, DistanceOK, Missing
    <3> QED BY <2>3, <3>1 DEF FieldConsistent
  <2> QED BY <2>1, <2>2, <2>3 DEF FieldInv
<1> QED BY <1>1, FieldAlways, PTL

(* However often the unit is switched, the distance stays within ten       *)
(* metres of the one that was typed.                                       *)
THEOREM DriftStaysBounded == FieldSpec => []DriftBounded
<1>1. FieldInv => DriftBounded
  <2> SUFFICES ASSUME FieldInv, field = "distance", value # Missing PROVE DriftBounded
    BY DEF DriftBounded
  <2>1. PICK d : d = entered.distance
    OBVIOUS
  <2>2. d \in Nat /\ {unit, entered.unit} \subseteq {"km", "mi"}
    BY <2>1 DEF FieldInv, DistanceOK, Journey, Missing
  <2>3. /\ toMiles(d) \in Nat /\ toKm(d) \in Nat
        /\ toKm(toMiles(d)) \in Nat /\ toKm(toMiles(d)) - d \in -1..1
    BY <2>2, ToMilesNat, ToKmNat, KmDrift
  <2>4. \/ value = d /\ unit = entered.unit
        \/ value = toMiles(d) /\ entered.unit = "km" /\ unit = "mi"
        \/ value = toKm(toMiles(d)) /\ entered.unit = "km" /\ unit = "km"
        \/ value = toKm(d) /\ entered.unit = "mi" /\ unit = "km"
    BY <2>1 DEF FieldInv, DistanceOK, Journey, Missing
  <2> DEFINE km(v, u) == IF u = "km" THEN v ELSE toKm(v)
  <2>5. km(value, unit) - km(d, entered.unit) \in -1..1
    BY <2>2, <2>3, <2>4
  <2> QED BY <2>1, <2>5 DEF DriftBounded
<1> QED BY <1>1, FieldAlways, PTL

(* A date is chosen within its bounds or is today, and a choice in one of  *)
(* the lists of a time leaves the other two.                               *)
THEOREM ChoicesStayRespected == FieldSpec => ChoicesRespected
<1>1. FieldInv /\ [FieldNext]_fieldVars
      => [field = "date" /\ value' \notin {value, Missing}
            => value' \in minDate..maxDate \/ value' = day]_fieldVars
  BY FieldSteps, PickerAssumption DEF DateChosen, Missing
<1>2. FieldInv /\ [FieldNext]_fieldVars => AtMostOneListMoves
  BY FieldSteps, PickerAssumption DEF OneListMoves, AtMostOneListMoves, Missing
<1>3. FieldSpec => PickedInBounds
  BY <1>1, FieldAlways, PTL DEF FieldSpec, PickedInBounds
<1>4. FieldSpec => TimeListsIndependent
  BY <1>2, FieldAlways, PTL DEF FieldSpec, TimeListsIndependent
<1> QED BY <1>3, <1>4 DEF ChoicesRespected
=============================================================================
