-------------------------- MODULE DiscipleshipProofs --------------------------
(***************************************************************************)
(* Theorems about Discipleship, for any participants and any bounds.       *)
(***************************************************************************)
EXTENDS Discipleship, TLAPS

Enrollments == [status : Statuses \cup {"never"}, batch : Nat]

(* The records are well formed: only one who never enrolled has the status *)
(* "never", and then no batch.                                             *)
RecordsOK ==
  /\ enrolled \in [Participants -> Enrollments]
  /\ \A p \in Participants : enrolled[p].status = "never" => enrolled[p] = Nobody
  /\ DOMAIN attended = Cells
  /\ batches \subseteq Nat /\ batchesMade \in Nat

(* The server takes the status of an edit as the page sends it, so that    *)
(* what the page shows, holds in the dialog and has sent is a status that  *)
(* an enrollment may have.  Otherwise an edit could undo an enrollment     *)
(* under the attendance that refers to it.                                 *)
DialogOK == /\ "kind" \in DOMAIN dialog
            /\ dialog.kind = "edit" => "status" \in DOMAIN dialog /\ dialog.status \in Statuses
VisitOK == /\ "op" \in DOMAIN visit
           /\ visit.op = "edit" => "status" \in DOMAIN visit /\ visit.status \in Statuses
ShownOK == \A p \in DOMAIN given.rows : given.rows[p].status \in Statuses
PageOK == DialogOK /\ VisitOK /\ ShownOK

IInv == RecordsOK /\ PageOK /\ NoDangling

(* What a step may do to the records: one operation of the server.         *)
RecordStep ==
  \/ \E p, b : storeEnrollment(p, b)
  \/ \E p, b : \E st \in Statuses : updateEnrollment(p, st, b)
  \/ \E p : destroyEnrollment(p)
  \/ storeBatch
  \/ \E b : destroyBatch(b)
  \/ storeSession
  \/ \E s : destroySession(s)
  \/ \E status : bulkUpsert(status)
  \/ UNCHANGED records

-----------------------------------------------------------------------------
(* Nobody who enrolled is ever as if they had not, and a batch in an       *)
(* enrollment is one of those there are.                                   *)
LEMMA EnrollmentStep ==
  ASSUME RecordsOK, NoDangling, NEW p, NEW b \in batches \cup {0}, NEW st \in Statuses,
         enrolled' = [enrolled EXCEPT ![p] = [status |-> st, batch |-> b]],
         UNCHANGED <<batches, batchesMade, sessions, attended>>
  PROVE  RecordsOK' /\ NoDangling'
<1>1. RecordsOK'
  <2>1. b \in Nat /\ st # "never"
    BY DEF RecordsOK, Statuses
  <2>2. [status |-> st, batch |-> b] \in Enrollments
    BY <2>1 DEF Enrollments
  <2>3. enrolled' \in [Participants -> Enrollments]
    BY <2>2 DEF RecordsOK
  <2>4. ASSUME NEW q \in Participants, enrolled'[q].status = "never" PROVE enrolled'[q] = Nobody
    <3>1. CASE q = p
      BY <2>1, <2>4, <3>1 DEF RecordsOK
    <3>2. CASE q # p
      BY <2>4, <3>2 DEF RecordsOK
    <3> QED BY <3>1, <3>2
  <2> QED BY <2>3, <2>4 DEF RecordsOK, Nobody, Cells
<1>2. ASSUME NEW q \in Participants
      PROVE  enrolled'[q].batch \in batches' \cup {0} /\ (q \in Enrolled => q \in Enrolled')
  <2>1. CASE q = p
    BY <2>1 DEF RecordsOK, NoDangling, Enrollments, Enrolled, Nobody, Statuses
  <2>2. CASE q # p
    BY <2>2 DEF RecordsOK, NoDangling, Enrolled
  <2> QED BY <2>1, <2>2
<1>3. \A c \in Cells : attended'[c] # "" => c[1] \in Enrolled' /\ c[2] \in sessions'
  BY <1>2 DEF NoDangling, Enrolled
<1> QED
  BY <1>1, <1>2, <1>3 DEF NoDangling, Cells

(* Every operation of the server leaves the records well formed, and no    *)
(* pointer to what is gone.                                                *)
LEMMA RecordStepKeeps ==
  ASSUME RecordsOK, NoDangling, RecordStep
  PROVE  RecordsOK' /\ NoDangling'
<1>1. ASSUME NEW p, NEW b, storeEnrollment(p, b) PROVE RecordsOK' /\ NoDangling'
  <2>1. "enrolled" \in Statuses
    BY DEF Statuses
  <2> QED
    BY <1>1, <2>1, EnrollmentStep DEF storeEnrollment
<1>2. ASSUME NEW p, NEW b, NEW st \in Statuses, updateEnrollment(p, st, b)
      PROVE RecordsOK' /\ NoDangling'
  BY <1>2, EnrollmentStep DEF updateEnrollment
<1>3. ASSUME NEW p, destroyEnrollment(p) PROVE RecordsOK' /\ NoDangling'
  <2>1. CASE p \in Participants
    <3>1. PICK b : b = enrolled[p].batch
      OBVIOUS
    <3>2. b \in batches \cup {0}
      BY <2>1, <3>1 DEF NoDangling
    <3>3. enrolled[p] \in Enrollments
      BY <2>1 DEF RecordsOK
    <3>4. [enrolled[p] EXCEPT !.status = "withdrawn"] = [status |-> "withdrawn", batch |-> b]
      BY <3>1, <3>3 DEF Enrollments
    <3>5. enrolled' = [enrolled EXCEPT ![p] = [status |-> "withdrawn", batch |-> b]]
      BY <1>3, <3>4 DEF destroyEnrollment
    <3>6. "withdrawn" \in Statuses /\ UNCHANGED <<batches, batchesMade, sessions, attended>>
      BY <1>3 DEF Statuses, destroyEnrollment
    <3> QED
      BY <3>2, <3>5, <3>6, EnrollmentStep
  <2>2. CASE p \notin Participants
    <3>1. UNCHANGED records
      BY <1>3, <2>2 DEF destroyEnrollment, RecordsOK, records
    <3> QED BY <3>1 DEF records, RecordsOK, NoDangling, Enrolled, Cells
  <2> QED BY <2>1, <2>2
<1>4. CASE storeBatch
  <2>1. RecordsOK'
    BY <1>4 DEF storeBatch, RecordsOK, Nobody, Cells
  <2>2. NoDangling'
    BY <1>4 DEF storeBatch, NoDangling, Enrolled, Cells
  <2> QED BY <2>1, <2>2
<1>5. ASSUME NEW b, destroyBatch(b) PROVE RecordsOK' /\ NoDangling'
  <2>1. RecordsOK'
    BY <1>5 DEF destroyBatch, RecordsOK, Enrollments, Nobody, Cells
  <2>2. ASSUME NEW q \in Participants
        PROVE  enrolled'[q].batch \in batches' \cup {0} /\ (q \in Enrolled => q \in Enrolled')
    <3>1. enrolled[q] \in Enrollments /\ enrolled[q].batch \in batches \cup {0}
      BY DEF RecordsOK, NoDangling
    <3>2. CASE enrolled[q].batch = b
      <4>1. enrolled'[q] = [enrolled[q] EXCEPT !.batch = 0]
        BY <1>5, <3>2 DEF destroyBatch
      <4>2. enrolled'[q].batch = 0 /\ enrolled'[q].status = enrolled[q].status
        BY <4>1, <3>1 DEF Enrollments
      <4> QED
        BY <4>2, <3>1 DEF Enrolled, Nobody, RecordsOK
    <3>3. CASE enrolled[q].batch # b
      BY <1>5, <3>1, <3>3 DEF destroyBatch, Enrolled
    <3> QED BY <3>2, <3>3
  <2>3. \A c \in Cells : attended'[c] # "" => attended'[c] = attended[c] /\ c[2] \in sessions'
    BY <1>5 DEF destroyBatch, NoDangling
  <2>4. \A c \in Cells : c[1] \in Enrolled => c[1] \in Enrolled'
    BY <2>2 DEF Enrolled
  <2> QED
    BY <2>1, <2>2, <2>3, <2>4 DEF NoDangling, Cells
<1>6. CASE storeSession
  BY <1>6 DEF storeSession, RecordsOK, NoDangling, Enrolled, Cells
<1>7. ASSUME NEW s, destroySession(s) PROVE RecordsOK' /\ NoDangling'
  <2>1. RecordsOK'
    BY <1>7 DEF destroySession, RecordsOK, Cells
  <2>2. \A c \in Cells : attended'[c] # "" => attended'[c] = attended[c] /\ c[2] # s
    BY <1>7 DEF destroySession
  <2> QED
    BY <1>7, <2>1, <2>2 DEF destroySession, NoDangling, Enrolled, Cells
<1>8. ASSUME NEW status, bulkUpsert(status) PROVE RecordsOK' /\ NoDangling'
  <2>1. RecordsOK'
    BY <1>8 DEF bulkUpsert, RecordsOK, Cells
  <2>2. \A c \in Cells : c \in DOMAIN status \/ attended'[c] = attended[c]
    BY <1>8 DEF bulkUpsert
  <2> QED
    BY <1>8, <2>1, <2>2 DEF bulkUpsert, NoDangling, Enrolled, Cells
<1>9. CASE UNCHANGED records
  BY <1>9 DEF records, RecordsOK, NoDangling, Enrolled, Cells
<1> QED
  BY <1>1, <1>2, <1>3, <1>4, <1>5, <1>6, <1>7, <1>8, <1>9 DEF RecordStep

-----------------------------------------------------------------------------
(* The pages change the records only by the operations of the server.      *)
LEMMA HandleVisitStep ==
  ASSUME VisitOK, HandleVisit
  PROVE  RecordStep
BY DEF VisitOK, HandleVisit, Controllers, NotFound, RecordStep

LEMMA HandleRequestStep ==
  ASSUME HandleRequest
  PROVE  RecordStep
BY DEF HandleRequest, Handled, Unrouted, RecordStep

LEMMA OtherOperatorsStep ==
  ASSUME OtherOperators
  PROVE  RecordStep
BY DEF OtherOperators, RecordStep

(* What a visit asks is what it was begun with.                            *)
LEMMA BeginKeeps ==
  ASSUME DialogOK, NEW v, "op" \in DOMAIN v, Begin(v),
         v.op = "edit" => "status" \in DOMAIN v /\ v.status \in Statuses
  PROVE  VisitOK' /\ DialogOK'
<1>1. visit' = Sent(v)
  BY DEF Begin
<1>2. /\ "op" \in DOMAIN visit' /\ visit'.op = v.op
      /\ "status" \in DOMAIN v => "status" \in DOMAIN visit' /\ visit'.status = v.status
  BY <1>1 DEF Sent
<1>3. DialogOK'
  BY DEF Begin, Ended, DialogOK, NoDialog
<1> QED BY <1>2, <1>3 DEF VisitOK

(* What the page shows are statuses of people who enrolled.                *)
LEMMA ShowsStatuses ==
  ASSUME RecordsOK, NEW query, NEW p \in DOMAIN show(query).rows
  PROVE  show(query).rows[p].status \in Statuses
<1>1. p \in Enrolled /\ show(query).rows[p] = enrolled[p]
  BY DEF show
<1>2. enrolled[p] \in Enrollments /\ enrolled[p].status # "never"
  BY <1>1 DEF RecordsOK, Enrolled
<1> QED BY <1>1, <1>2 DEF Enrollments

LEMMA ProgramConsequenceKeeps ==
  ASSUME RecordsOK, PageOK, ProgramConsequence
  PROVE  PageOK' /\ RecordStep
<1> USE DEF PageOK
<1>1. CASE HandleVisit
  <2>1. VisitOK'
    BY <1>1 DEF HandleVisit, Controllers, NotFound, VisitOK
  <2>2. DialogOK' /\ ShownOK'
    BY <1>1 DEF HandleVisit, Controllers, NotFound, DialogOK, ShownOK
  <2> QED BY <1>1, <2>1, <2>2, HandleVisitStep
<1>2. CASE AnswerArrives
  <2>1. VisitOK'
    BY <1>2 DEF AnswerArrives, VisitOK, NoVisit
  <2>2. dialog' \in {NoDialog, dialog}
    BY <1>2 DEF AnswerArrives, Ended
  <2>3. DialogOK'
    BY <2>2 DEF DialogOK, NoDialog
  <2>4. given' = given \/ \E query : given'.rows = show(query).rows
    BY <1>2 DEF AnswerArrives, show
  <2>5. ShownOK'
    BY <2>4, ShowsStatuses DEF ShownOK
  <2>6. UNCHANGED records
    BY <1>2 DEF AnswerArrives
  <2> QED BY <2>1, <2>3, <2>5, <2>6 DEF RecordStep
<1>3. CASE SearchFires
  <2>1. UNCHANGED <<records, given>>
    BY <1>3 DEF SearchFires
  <2>2. CASE UNCHANGED <<visit, dialog>>
    BY <2>1, <2>2 DEF RecordStep, VisitOK, DialogOK, ShownOK
  <2>3. ASSUME NEW query, Get(query) PROVE VisitOK' /\ DialogOK'
    BY <2>3, BeginKeeps DEF Get
  <2> QED
    BY <1>3, <2>1, <2>2, <2>3 DEF SearchFires, RecordStep, ShownOK
<1>4. CASE fetchParticipants
  BY <1>4 DEF fetchParticipants, RecordStep, VisitOK, DialogOK, ShownOK
<1>5. ASSUME NEW q, fetched(q) PROVE PageOK' /\ RecordStep
  <2>1. PICK found : dialog' = [dialog EXCEPT !.results = found]
    BY <1>5 DEF fetched
  <2>2. DialogOK'
    BY <2>1 DEF DialogOK
  <2> QED
    BY <1>5, <2>2 DEF fetched, RecordStep, VisitOK, ShownOK
<1> QED
  BY <1>1, <1>2, <1>3, <1>4, <1>5 DEF ProgramConsequence

(* A gesture on the page of the program changes no record; the status of   *)
(* the edit it shows or sends is one of a row or of the list.              *)
LEMMA ProgramGestureKeeps ==
  ASSUME PageOK, ProgramGesture
  PROVE  PageOK' /\ UNCHANGED records
<1> USE DEF PageOK
<1>a. ASSUME NEW v, "op" \in DOMAIN v, Submit(v),
             v.op = "edit" => "status" \in DOMAIN v /\ v.status \in Statuses
      PROVE  PageOK' /\ UNCHANGED records
  <2>1. VisitOK' /\ DialogOK'
    BY <1>a, BeginKeeps DEF Submit
  <2> QED BY <1>a, <2>1 DEF Submit, ShownOK
<1>b. ASSUME NEW d, Show(d) \/ Fill(d), "kind" \in DOMAIN d,
             d.kind = "edit" => "status" \in DOMAIN d /\ d.status \in Statuses
      PROVE  PageOK' /\ UNCHANGED records
  BY <1>b DEF Show, Fill, DialogOK, VisitOK, ShownOK
<1>c. ASSUME NEW query, Get(query) PROVE VisitOK' /\ DialogOK'
  BY <1>c, BeginKeeps DEF Get
<1>1. ASSUME NEW text, typeSearch(text) PROVE PageOK' /\ UNCHANGED records
  BY <1>1 DEF typeSearch, DialogOK, VisitOK, ShownOK
<1>2. ASSUME NEW key, NEW value, applyFilter(key, value) PROVE PageOK' /\ UNCHANGED records
  BY <1>2, <1>c DEF applyFilter, ShownOK
<1>3. CASE clearFilters
  BY <1>3, <1>c DEF clearFilters, ShownOK
<1>4. CASE onOpenChange
  <2>1. visit' = visit \/ visit' = [visit EXCEPT !.mine = FALSE]
    BY <1>4 DEF onOpenChange
  <2>2. VisitOK'
    BY <2>1 DEF VisitOK
  <2> QED BY <1>4, <2>2 DEF onOpenChange, DialogOK, NoDialog, ShownOK
<1>5. CASE BatchFormDialog
  <2>1. CASE Show([kind |-> "create"])
    BY <2>1, <1>b
  <2>2. ASSUME NEW b, Show([kind |-> "rename", batch |-> b]) PROVE PageOK' /\ UNCHANGED records
    BY <2>2, <1>b
  <2>3. CASE dialog.kind \in {"create", "rename"} /\ Submit([op |-> dialog.kind])
    BY <2>3, <1>a
  <2> QED BY <1>5, <2>1, <2>2, <2>3 DEF BatchFormDialog
<1>6. CASE deleteBatch
  <2>1. ASSUME NEW b, Show([kind |-> "delete", batch |-> b]) PROVE PageOK' /\ UNCHANGED records
    BY <2>1, <1>b
  <2>2. CASE visit' = [op |-> "delete", batch |-> dialog.batch, state |-> "sent", mine |-> FALSE]
             /\ dialog' = NoDialog /\ UNCHANGED <<records, given>>
    BY <2>2 DEF VisitOK, DialogOK, ShownOK, NoDialog
  <2> QED BY <1>6, <2>1, <2>2 DEF deleteBatch
<1>7. CASE openAdd
  <2>1. PICK none : none = [p \in {} |-> TRUE]
    OBVIOUS
  <2>2. PICK d : d = [kind |-> "add", query |-> "", due |-> TRUE, results |-> none,
                      selected |-> NoOne, participant_id |-> NoOne, batch |-> 0]
    OBVIOUS
  <2>3. "kind" \in DOMAIN d /\ d.kind = "add"
    BY <2>2
  <2>4. Show(d)
    BY <1>7, <2>1, <2>2 DEF openAdd
  <2> QED BY <2>3, <2>4, <1>b
<1>8. CASE AddEnrollmentDialog
  <2>1. ASSUME NEW d, Fill(d), DOMAIN d = DOMAIN dialog, d.kind = "add"
        PROVE PageOK' /\ UNCHANGED records
    BY <2>1, <1>b DEF DialogOK
  <2>2. dialog.kind = "add" /\ "kind" \in DOMAIN dialog
    BY <1>8 DEF AddEnrollmentDialog, DialogOK
  <2>3. ASSUME NEW q, Fill([dialog EXCEPT !.query = q, !.due = TRUE])
        PROVE PageOK' /\ UNCHANGED records
    BY <2>1, <2>2, <2>3
  <2>4. ASSUME NEW p, pick(p) PROVE PageOK' /\ UNCHANGED records
    BY <2>1, <2>2, <2>4 DEF pick
  <2>5. CASE clearPick
    BY <2>1, <2>2, <2>5 DEF clearPick
  <2>6. ASSUME NEW b, Fill([dialog EXCEPT !.batch = b]) PROVE PageOK' /\ UNCHANGED records
    BY <2>1, <2>2, <2>6
  <2>7. CASE Submit([op |-> "add", who |-> dialog.participant_id, batch |-> dialog.batch])
    BY <2>7, <1>a
  <2> QED
    BY <1>8, <2>3, <2>4, <2>5, <2>6, <2>7 DEF AddEnrollmentDialog
<1>9. CASE openEdit
  <2>1. PICK p \in DOMAIN given.rows :
          Show([kind |-> "edit", who |-> p, status |-> given.rows[p].status,
                batch |-> given.rows[p].batch])
    BY <1>9 DEF openEdit
  <2>2. given.rows[p].status \in Statuses
    BY DEF ShownOK
  <2> QED BY <2>1, <2>2, <1>b
<1>10. CASE EditEnrollmentDialog
  <2>1. /\ dialog.kind = "edit" /\ {"kind", "status"} \subseteq DOMAIN dialog
        /\ dialog.status \in Statuses
    BY <1>10 DEF EditEnrollmentDialog, DialogOK
  <2>2. ASSUME NEW st \in Statuses, Fill([dialog EXCEPT !.status = st])
        PROVE PageOK' /\ UNCHANGED records
    <3>1. PICK d : d = [dialog EXCEPT !.status = st]
      OBVIOUS
    <3>2. "kind" \in DOMAIN d /\ "status" \in DOMAIN d /\ d.status = st
      BY <2>1, <3>1
    <3> QED BY <2>2, <3>1, <3>2, <1>b
  <2>3. ASSUME NEW b, Fill([dialog EXCEPT !.batch = b]) PROVE PageOK' /\ UNCHANGED records
    <3>1. PICK d : d = [dialog EXCEPT !.batch = b]
      OBVIOUS
    <3>2. "kind" \in DOMAIN d /\ "status" \in DOMAIN d /\ d.status = dialog.status
      BY <2>1, <3>1
    <3> QED BY <2>1, <2>3, <3>1, <3>2, <1>b
  <2>4. CASE Submit([op |-> "edit", who |-> dialog.who, status |-> dialog.status,
                     batch |-> dialog.batch])
    BY <2>1, <2>4, <1>a
  <2> QED BY <1>10, <2>2, <2>3, <2>4 DEF EditEnrollmentDialog
<1>11. CASE WithdrawDialog
  <2>1. ASSUME NEW p, Show([kind |-> "withdraw", who |-> p]) PROVE PageOK' /\ UNCHANGED records
    BY <2>1, <1>b
  <2>2. CASE Submit([op |-> "withdraw", who |-> dialog.who])
    BY <2>2, <1>a
  <2> QED BY <1>11, <2>1, <2>2 DEF WithdrawDialog
<1> QED
  BY <1>1, <1>2, <1>3, <1>4, <1>5, <1>6, <1>7, <1>8, <1>9, <1>10, <1>11 DEF ProgramGesture

(* The page of the batch changes records by its requests alone.            *)
LEMMA BatchPageStep ==
  ASSUME BatchGesture \/ BatchConsequence
  PROVE  RecordStep
<1>1. BatchGesture => UNCHANGED records
  BY DEF BatchGesture, setCell, save, openDialog, closeDialog, SessionFormDialog, deleteSession
<1>2. AnswerSeen => UNCHANGED records
  BY DEF AnswerSeen
<1> QED
  BY <1>1, <1>2, HandleRequestStep DEF BatchConsequence, RecordStep

-----------------------------------------------------------------------------
(* The page opens on what is on record, and the records start well formed. *)
LEMMA InitIInv == Init => IInv
<1> SUFFICES ASSUME Init PROVE IInv
  OBVIOUS
<1>1. /\ batches = {1} /\ batchesMade = 1 /\ sessions = {1}
      /\ enrolled \in [Participants -> {Nobody, [status |-> "enrolled", batch |-> 1]}]
  BY DEF Init, RecordsInit
<1>2. PICK st : attended = [c \in Cells |-> IF c[2] = 1 /\ c[1] \in Enrolled THEN st ELSE ""]
  BY DEF Init, RecordsInit
<1>3. ASSUME NEW p \in Participants
      PROVE  /\ enrolled[p] \in Enrollments
             /\ enrolled[p].status = "never" => enrolled[p] = Nobody
             /\ enrolled[p].batch \in batches \cup {0}
  <2>1. enrolled[p] = Nobody \/ enrolled[p] = [status |-> "enrolled", batch |-> 1]
    BY <1>1
  <2> QED BY <1>1, <2>1 DEF Enrollments, Statuses, Nobody
<1>4. RecordsOK
  <2>1. enrolled \in [Participants -> Enrollments]
    BY <1>1, <1>3
  <2>2. DOMAIN attended = Cells
    BY <1>2
  <2>3. batches \subseteq Nat /\ batchesMade \in Nat
    BY <1>1
  <2> QED BY <1>3, <2>1, <2>2, <2>3 DEF RecordsOK
<1>5. NoDangling
  BY <1>1, <1>2, <1>3 DEF NoDangling
<1>6. DialogOK /\ VisitOK
  BY DEF Init, ProgramInit, DialogOK, VisitOK, NoDialog, NoVisit
<1>7. ShownOK
  BY <1>4, ShowsStatuses DEF Init, ProgramInit, ShownOK
<1> QED BY <1>4, <1>5, <1>6, <1>7 DEF IInv, PageOK

(* Whoever acts next, the invariant is kept.                               *)
LEMMA StepIInv == IInv /\ [Next]_vars => IInv'
<1> SUFFICES ASSUME IInv, [Next]_vars PROVE IInv'
  OBVIOUS
<1> USE DEF IInv
<1>1. ASSUME RecordStep, PageOK' PROVE IInv'
  BY <1>1, RecordStepKeeps
<1>2. ASSUME UNCHANGED pageVars PROVE PageOK'
  BY <1>2 DEF pageVars, PageOK, DialogOK, VisitOK, ShownOK
<1>3. CASE OtherOperators /\ UNCHANGED pageVars
  BY <1>1, <1>2, <1>3, OtherOperatorsStep
<1>4. CASE ProgramGesture
  BY <1>1, <1>4, ProgramGestureKeeps DEF RecordStep
<1>5. CASE ProgramConsequence
  BY <1>1, <1>5, ProgramConsequenceKeeps
<1>6. CASE (BatchGesture \/ BatchConsequence) /\ UNCHANGED pageVars
  BY <1>1, <1>2, <1>6, BatchPageStep
<1>7. CASE UNCHANGED vars
  BY <1>1, <1>2, <1>7 DEF vars, RecordStep
<1> QED
  BY <1>3, <1>4, <1>5, <1>6, <1>7 DEF Next

(* However the operators of the two pages and the others interleave, every *)
(* enrollment points at a batch that exists or at none, and every          *)
(* attendance row is of an enrolled participant at a session that exists.  *)
THEOREM NeverDangling == Spec => []NoDangling
<1>1. IInv => NoDangling
  BY DEF IInv
<1> QED
  BY <1>1, InitIInv, StepIInv, PTL DEF Spec

-----------------------------------------------------------------------------
(* A save that is on its way holds no cell but those changed when it was   *)
(* sent.                                                                   *)
SaveOK ==
  /\ "op" \in DOMAIN request
  /\ request.op = "save" =>
       /\ {"cells", "changed"} \subseteq DOMAIN request
       /\ DOMAIN request.cells \subseteq request.changed

(* What is posted is what was asked, but for the state of the request.     *)
LEMMA PostKeeps ==
  ASSUME NEW q, Post(q), "op" \in DOMAIN q, "state" \notin DOMAIN q,
         q.op = "save" => /\ {"cells", "changed"} \subseteq DOMAIN q
                          /\ DOMAIN q.cells \subseteq q.changed
  PROVE  SaveOK'
<1>1. \A x \in DOMAIN q : x \in DOMAIN request' /\ request'[x] = q[x]
  BY DEF Post
<1>2. "op" \in DOMAIN request' /\ request'.op = q.op
  BY <1>1
<1>3. ASSUME q.op = "save"
      PROVE  /\ {"cells", "changed"} \subseteq DOMAIN request'
             /\ request'.cells = q.cells /\ request'.changed = q.changed
  BY <1>1, <1>3
<1> QED BY <1>2, <1>3 DEF SaveOK

(* A save carries changed cells only, from the gesture to the server.      *)
LEMMA SaveOKStep == SaveOK /\ [Next]_vars => SaveOK'
<1> SUFFICES ASSUME SaveOK, [Next]_vars PROVE SaveOK'
  OBVIOUS
<1>1. CASE UNCHANGED request
  BY <1>1 DEF SaveOK
<1>2. CASE HandleRequest
  <2>1. \E st : request' = [request EXCEPT !.state = st]
    BY <1>2 DEF HandleRequest, Handled, Unrouted
  <2>2. /\ DOMAIN request' = DOMAIN request
        /\ \A x \in DOMAIN request : x = "state" \/ request'[x] = request[x]
    BY <2>1
  <2> QED BY <2>2 DEF SaveOK
<1>3. CASE AnswerSeen
  BY <1>3 DEF AnswerSeen, SaveOK, NoRequest
<1>4. CASE save
  <2>1. PICK sent : sent = [c \in payload |-> cells[c]]
    OBVIOUS
  <2>2. DOMAIN sent \subseteq dirty
    BY <2>1 DEF payload
  <2>3. PICK q : q = [op |-> "save", changed |-> dirty, cells |-> sent]
    OBVIOUS
  <2>4. Post(q)
    BY <1>4, <2>1, <2>3 DEF save
  <2>5. /\ "op" \in DOMAIN q /\ "state" \notin DOMAIN q
        /\ {"cells", "changed"} \subseteq DOMAIN q /\ DOMAIN q.cells \subseteq q.changed
    BY <2>2, <2>3
  <2> QED BY <2>4, <2>5, PostKeeps
<1>5. CASE SessionFormDialog
  <2>1. PICK q : q = [op |-> asking, session |-> session]
    OBVIOUS
  <2>2. Post(q) /\ asking # "save"
    BY <1>5, <2>1 DEF SessionFormDialog
  <2>3. "op" \in DOMAIN q /\ "state" \notin DOMAIN q /\ q.op # "save"
    BY <2>1, <2>2
  <2> QED BY <2>2, <2>3, PostKeeps
<1>6. CASE deleteSession
  <2>1. PICK q : q = [op |-> "delete", session |-> session]
    OBVIOUS
  <2>2. Post(q)
    BY <1>6, <2>1 DEF deleteSession
  <2>3. "op" \in DOMAIN q /\ "state" \notin DOMAIN q /\ q.op # "save"
    BY <2>1
  <2> QED BY <2>2, <2>3, PostKeeps
<1>7. BatchGesture => UNCHANGED request \/ save \/ SessionFormDialog \/ deleteSession
  BY DEF BatchGesture, setCell, openDialog, closeDialog
<1>8. BatchConsequence => HandleRequest \/ AnswerSeen
  BY DEF BatchConsequence
<1> QED
  BY <1>1, <1>2, <1>3, <1>4, <1>5, <1>6, <1>7, <1>8 DEF Next, vars, gridVars

(* A save writes only cells the operator changed, as they were shown when  *)
(* it was sent: whatever others record meanwhile in the rest of the grid   *)
(* stays.                                                                  *)
THEOREM WritesOnlyChanged == Spec => OnlyChangedWritten
<1>1. Init => SaveOK
  BY DEF Init, BatchInit, SaveOK, NoRequest
<1>2. ASSUME RecordsOK, SaveOK, HandleRequest, request.op = "save", NEW c \in Cells,
             attended'[c] # attended[c]
      PROVE  Routed /\ c \in request.changed /\ attended'[c] = request.cells[c]
  <2>1. /\ Routed
        /\ attended' = [x \in Cells |-> IF x \in DOMAIN request.cells THEN request.cells[x]
                                        ELSE attended[x]]
    BY <1>2 DEF HandleRequest, Handled, Unrouted, bulkUpsert, records
  <2> QED BY <1>2, <2>1 DEF SaveOK
<1>3. IInv /\ SaveOK /\ [Next]_vars =>
        [HandleRequest /\ request.op = "save" =>
           \A c \in Cells : attended'[c] # attended[c] =>
              Routed /\ c \in request.changed /\ attended'[c] = request.cells[c]]_<<records, gridVars>>
  BY <1>2 DEF IInv
<1> QED
  BY <1>1, <1>3, InitIInv, StepIInv, SaveOKStep, PTL DEF Spec, OnlyChangedWritten

-----------------------------------------------------------------------------
(* What the page of the program holds: the form of a dialog has its        *)
(* fields, and that of a new enrollment sends whom it shows.               *)
DialogKinds == {"none", "create", "rename", "delete", "add", "edit", "withdraw"}
Form(d) ==
  /\ "kind" \in DOMAIN d /\ d.kind \in DialogKinds
  /\ d.kind = "add" =>
       /\ {"query", "due", "results", "selected", "participant_id", "batch"} \subseteq DOMAIN d
       /\ d.query \in Searches /\ d.participant_id = d.selected

ListsOK ==
  /\ localSearch \in Searches /\ fetches \subseteq Searches /\ DOMAIN given.rows \subseteq Participants
SentOK ==
  "state" \in DOMAIN visit /\ visit.state \in {"none", "sent", "done", "invalid", "ended"}
ProgramOK == Form(dialog) /\ ListsOK /\ SentOK

LEMMA NoForm == Form(NoDialog)
BY DEF Form, NoDialog, DialogKinds

LEMMA BeginIsSent ==
  ASSUME Form(dialog), NEW v, Begin(v)
  PROVE  Form(dialog') /\ SentOK'
<1>1. "state" \in DOMAIN visit' /\ visit'.state = "sent"
  BY DEF Begin, Sent
<1>2. dialog' \in {NoDialog, dialog}
  BY DEF Begin, Ended
<1> QED BY <1>1, <1>2, NoForm DEF SentOK

LEMMA ShowsParticipants ==
  ASSUME NEW query
  PROVE  DOMAIN show(query).rows \subseteq Participants
BY DEF show, Enrolled

LEMMA ProgramConsequenceShows ==
  ASSUME ProgramOK, ProgramConsequence
  PROVE  ProgramOK'
<1> USE DEF ProgramOK
<1>1. CASE HandleVisit
  <2>1. \E st \in {"done", "invalid", "ended"} : visit' = [visit EXCEPT !.state = st]
    BY <1>1 DEF HandleVisit, Controllers, NotFound
  <2>2. SentOK'
    BY <2>1 DEF SentOK
  <2> QED BY <1>1, <2>2 DEF HandleVisit, Controllers, NotFound, ListsOK
<1>2. CASE AnswerArrives
  <2>1. SentOK'
    BY <1>2 DEF AnswerArrives, SentOK, NoVisit
  <2>2. dialog' \in {NoDialog, dialog}
    BY <1>2 DEF AnswerArrives, Ended
  <2>3. given' = given \/ \E query : given'.rows = show(query).rows
    BY <1>2 DEF AnswerArrives, show
  <2>4. localSearch' = localSearch /\ fetches' \subseteq fetches
    BY <1>2 DEF AnswerArrives
  <2>5. ListsOK'
    BY <2>3, <2>4, ShowsParticipants DEF ListsOK
  <2> QED BY <2>1, <2>2, <2>5, NoForm
<1>3. CASE SearchFires
  <2>1. UNCHANGED <<given, localSearch, fetches>>
    BY <1>3 DEF SearchFires
  <2>2. CASE UNCHANGED <<visit, dialog>>
    BY <2>1, <2>2 DEF SentOK, ListsOK
  <2>3. ASSUME NEW query, Get(query) PROVE Form(dialog') /\ SentOK'
    BY <2>3, BeginIsSent DEF Get
  <2> QED BY <1>3, <2>1, <2>2, <2>3 DEF SearchFires, ListsOK
<1>4. CASE fetchParticipants
  <2>1. PICK d : d = [dialog EXCEPT !.due = FALSE]
    OBVIOUS
  <2>2. Form(d) /\ dialog.query \in Searches
    BY <1>4, <2>1 DEF fetchParticipants, Form
  <2> QED BY <1>4, <2>1, <2>2 DEF fetchParticipants, SentOK, ListsOK
<1>5. ASSUME NEW q, fetched(q) PROVE ProgramOK'
  <2>1. PICK found : dialog' = [dialog EXCEPT !.results = found]
    BY <1>5 DEF fetched
  <2>2. Form(dialog')
    BY <2>1 DEF Form
  <2> QED BY <1>5, <2>2 DEF fetched, SentOK, ListsOK
<1> QED BY <1>1, <1>2, <1>3, <1>4, <1>5 DEF ProgramConsequence

(* A pick and its removal change what is shown and what is sent together.  *)
LEMMA ProgramGestureShows ==
  ASSUME ProgramOK, ProgramGesture
  PROVE  ProgramOK'
<1> USE DEF ProgramOK
<1>a. ASSUME NEW v, Submit(v) PROVE ProgramOK'
  BY <1>a, BeginIsSent DEF Submit, ListsOK
<1>b. ASSUME NEW d, Show(d) \/ Fill(d), Form(d) PROVE ProgramOK'
  BY <1>b DEF Show, Fill, SentOK, ListsOK
<1>c. ASSUME NEW query, Get(query) PROVE Form(dialog') /\ SentOK'
  BY <1>c, BeginIsSent DEF Get
<1>d. ASSUME NEW d, Show(d), "kind" \in DOMAIN d,
             d.kind \in {"create", "rename", "delete", "edit", "withdraw"}
      PROVE  ProgramOK'
  BY <1>b, <1>d DEF Form, DialogKinds
<1>1. ASSUME NEW text \in Searches, typeSearch(text) PROVE ProgramOK'
  BY <1>1 DEF typeSearch, SentOK, ListsOK
<1>2. ASSUME NEW key, NEW value, applyFilter(key, value) PROVE ProgramOK'
  BY <1>2, <1>c DEF applyFilter, ListsOK
<1>3. CASE clearFilters
  <2>1. "" \in Searches
    BY DEF Searches
  <2> QED BY <1>3, <1>c, <2>1 DEF clearFilters, ListsOK
<1>4. CASE onOpenChange
  <2>1. visit' = visit \/ visit' = [visit EXCEPT !.mine = FALSE]
    BY <1>4 DEF onOpenChange
  <2>2. SentOK'
    BY <2>1 DEF SentOK
  <2> QED BY <1>4, <2>2, NoForm DEF onOpenChange, ListsOK
<1>5. CASE BatchFormDialog
  <2>1. CASE Show([kind |-> "create"])
    BY <2>1, <1>d
  <2>2. ASSUME NEW b, Show([kind |-> "rename", batch |-> b]) PROVE ProgramOK'
    BY <2>2, <1>d
  <2> QED BY <1>5, <1>a, <2>1, <2>2 DEF BatchFormDialog
<1>6. CASE deleteBatch
  <2>1. ASSUME NEW b, Show([kind |-> "delete", batch |-> b]) PROVE ProgramOK'
    BY <2>1, <1>d
  <2>2. CASE /\ visit' = [op |-> "delete", batch |-> dialog.batch, state |-> "sent", mine |-> FALSE]
             /\ dialog' = NoDialog /\ UNCHANGED <<given, localSearch, fetches>>
    BY <2>2, NoForm DEF SentOK, ListsOK
  <2> QED BY <1>6, <2>1, <2>2 DEF deleteBatch
<1>7. CASE openAdd
  <2>1. PICK none : none = [p \in {} |-> TRUE]
    OBVIOUS
  <2>2. PICK d : d = [kind |-> "add", query |-> "", due |-> TRUE, results |-> none,
                      selected |-> NoOne, participant_id |-> NoOne, batch |-> 0]
    OBVIOUS
  <2>3. Form(d)
    BY <2>2 DEF Form, DialogKinds, Searches
  <2>4. Show(d)
    BY <1>7, <2>1, <2>2 DEF openAdd
  <2> QED BY <2>3, <2>4, <1>b
<1>8. CASE AddEnrollmentDialog
  <2>1. dialog.kind = "add" /\ Form(dialog)
    BY <1>8 DEF AddEnrollmentDialog
  <2>2. ASSUME NEW q \in Searches, Fill([dialog EXCEPT !.query = q, !.due = TRUE]) PROVE ProgramOK'
    <3>1. PICK d : d = [dialog EXCEPT !.query = q, !.due = TRUE]
      OBVIOUS
    <3>2. Form(d)
      BY <2>1, <3>1 DEF Form
    <3> QED BY <2>2, <3>1, <3>2, <1>b
  <2>3. ASSUME NEW p, pick(p) PROVE ProgramOK'
    <3>1. PICK d : d = [dialog EXCEPT !.selected = p, !.participant_id = p, !.due = FALSE]
      OBVIOUS
    <3>2. Form(d)
      BY <2>1, <3>1 DEF Form
    <3> QED BY <2>3, <3>1, <3>2, <1>b DEF pick
  <2>4. CASE clearPick
    <3>1. PICK d : d = [dialog EXCEPT !.selected = NoOne, !.participant_id = NoOne,
                                      !.query = "", !.due = TRUE]
      OBVIOUS
    <3>2. Form(d)
      BY <2>1, <3>1 DEF Form, Searches
    <3> QED BY <2>4, <3>1, <3>2, <1>b DEF clearPick
  <2>5. ASSUME NEW b, Fill([dialog EXCEPT !.batch = b]) PROVE ProgramOK'
    <3>1. PICK d : d = [dialog EXCEPT !.batch = b]
      OBVIOUS
    <3>2. Form(d)
      BY <2>1, <3>1 DEF Form
    <3> QED BY <2>5, <3>1, <3>2, <1>b
  <2> QED BY <1>8, <1>a, <2>2, <2>3, <2>4, <2>5 DEF AddEnrollmentDialog
<1>9. CASE openEdit
  BY <1>9, <1>d DEF openEdit
<1>10. CASE EditEnrollmentDialog
  <2>1. dialog.kind = "edit" /\ Form(dialog)
    BY <1>10 DEF EditEnrollmentDialog
  <2>2. ASSUME NEW d, DOMAIN d = DOMAIN dialog, d.kind = "edit", Fill(d) PROVE ProgramOK'
    BY <2>1, <2>2, <1>b DEF Form
  <2>3. ASSUME NEW st, Fill([dialog EXCEPT !.status = st]) PROVE ProgramOK'
    <3>1. PICK d : d = [dialog EXCEPT !.status = st]
      OBVIOUS
    <3>2. DOMAIN d = DOMAIN dialog /\ d.kind = "edit"
      BY <2>1, <3>1 DEF Form
    <3> QED BY <2>2, <2>3, <3>1, <3>2
  <2>4. ASSUME NEW b, Fill([dialog EXCEPT !.batch = b]) PROVE ProgramOK'
    <3>1. PICK d : d = [dialog EXCEPT !.batch = b]
      OBVIOUS
    <3>2. DOMAIN d = DOMAIN dialog /\ d.kind = "edit"
      BY <2>1, <3>1 DEF Form
    <3> QED BY <2>2, <2>4, <3>1, <3>2
  <2> QED BY <1>10, <1>a, <2>3, <2>4 DEF EditEnrollmentDialog
<1>11. CASE WithdrawDialog
  <2>1. ASSUME NEW p, Show([kind |-> "withdraw", who |-> p]) PROVE ProgramOK'
    BY <2>1, <1>d
  <2> QED BY <1>11, <1>a, <2>1 DEF WithdrawDialog
<1> QED
  BY <1>1, <1>2, <1>3, <1>4, <1>5, <1>6, <1>7, <1>8, <1>9, <1>10, <1>11 DEF ProgramGesture

(* The grid shows statuses, because the records hold nothing else; a cell  *)
(* that differs from what the server sent is marked as changed.            *)
Marks == {"", "present", "absent", "excused"}
MarksOK == attended \in [Cells -> Marks]
AskedOK ==
  /\ "op" \in DOMAIN request /\ "state" \in DOMAIN request
  /\ request.state \in {"none", "sent", "done", "invalid", "ended"}
  /\ request.op = "save" =>
       "cells" \in DOMAIN request /\ \A c \in DOMAIN request.cells : request.cells[c] \in Marks
GridOK ==
  /\ cells \in [Cells -> Marks] /\ dirty \subseteq Cells /\ saving \in BOOLEAN
  /\ MarksOK /\ AskedOK /\ CleanIsSeen

LEMMA MarksStep ==
  ASSUME MarksOK, \/ UNCHANGED attended
                  \/ \E p, b : storeEnrollment(p, b)
                  \/ \E p, st, b : updateEnrollment(p, st, b)
                  \/ \E p : destroyEnrollment(p)
                  \/ storeBatch \/ storeSession
                  \/ \E b : destroyBatch(b)
                  \/ \E s : destroySession(s)
                  \/ \E status : bulkUpsert(status) /\ \A c \in DOMAIN status : status[c] \in Marks
  PROVE  MarksOK'
<1>1. UNCHANGED attended => MarksOK'
  BY DEF MarksOK, Cells
<1>2. ASSUME NEW b, destroyBatch(b) PROVE MarksOK'
  BY <1>2 DEF destroyBatch, MarksOK, Marks, Cells
<1>3. ASSUME NEW s, destroySession(s) PROVE MarksOK'
  BY <1>3 DEF destroySession, MarksOK, Marks, Cells
<1>4. ASSUME NEW status, bulkUpsert(status), \A c \in DOMAIN status : status[c] \in Marks
      PROVE  MarksOK'
  <2>1. attended' = [c \in Cells |-> IF c \in DOMAIN status THEN status[c] ELSE attended[c]]
    BY <1>4 DEF bulkUpsert
  <2> QED BY <1>4, <2>1 DEF MarksOK
<1> QED
  BY <1>1, <1>2, <1>3, <1>4
  DEF storeEnrollment, updateEnrollment, destroyEnrollment, storeBatch, storeSession

LEMMA PostAsks ==
  ASSUME NEW q, Post(q), "op" \in DOMAIN q, "state" \notin DOMAIN q,
         q.op = "save" => "cells" \in DOMAIN q /\ \A c \in DOMAIN q.cells : q.cells[c] \in Marks
  PROVE  AskedOK'
<1>1. \A x \in DOMAIN q : x \in DOMAIN request' /\ request'[x] = q[x]
  BY DEF Post
<1>2. "state" \in DOMAIN request' /\ request'.state = "sent"
  BY DEF Post
<1>3. "op" \in DOMAIN request' /\ request'.op = q.op
  BY <1>1
<1>4. ASSUME q.op = "save" PROVE "cells" \in DOMAIN request' /\ request'.cells = q.cells
  BY <1>1, <1>4
<1> QED BY <1>2, <1>3, <1>4 DEF AskedOK

LEMMA GridStays ==
  ASSUME GridOK, UNCHANGED gridVars, MarksOK'
  PROVE  GridOK'
BY DEF GridOK, gridVars, AskedOK, CleanIsSeen, Cells

LEMMA HandledShows ==
  ASSUME GridOK, HandleRequest
  PROVE  GridOK'
<1>1. \E st \in {"done", "invalid", "ended"} : request' = [request EXCEPT !.state = st]
  BY DEF HandleRequest, Handled, Unrouted
<1>2. AskedOK'
  BY <1>1 DEF GridOK, AskedOK
<1>3. CASE UNCHANGED records
  BY <1>2, <1>3 DEF HandleRequest, Handled, Unrouted, GridOK, MarksOK, CleanIsSeen, records, Cells
<1>4. ASSUME MarksOK' PROVE GridOK'
  BY <1>2, <1>4 DEF HandleRequest, Handled, Unrouted, GridOK, CleanIsSeen, Cells
<1>5. MarksOK'
  <2>1. CASE request.op = "save" /\ bulkUpsert(request.cells)
    BY <2>1, MarksStep DEF GridOK, AskedOK
  <2>2. CASE storeSession \/ destroySession(request.session) \/ UNCHANGED records
    BY <2>2, MarksStep DEF GridOK, records
  <2> QED BY <2>1, <2>2 DEF HandleRequest, Handled, Unrouted
<1> QED BY <1>4, <1>5

LEMMA AnswerShows ==
  ASSUME GridOK, AnswerSeen
  PROVE  GridOK'
<1>1. MarksOK' /\ AskedOK'
  BY DEF GridOK, MarksOK, AnswerSeen, records, AskedOK, NoRequest, Cells
<1>2. saving' \in BOOLEAN
  BY DEF AnswerSeen
<1>3. cells' \in [Cells -> Marks] /\ dirty' \subseteq Cells /\ CleanIsSeen'
  <2>1. CASE UNCHANGED <<seen, cells, dirty>>
    BY <2>1 DEF GridOK, CleanIsSeen, Cells
  <2>2. CASE seen' = showBatch /\ Refill
    <3>1. CASE cells' = seen'.attendances /\ dirty' = {}
      <4>1. cells' = [c \in Cells |-> IF c[1] \in {p \in Enrolled : enrolled[p].batch \in {0, 1}}
                                     THEN attended[c] ELSE ""]
        BY <2>2, <3>1 DEF showBatch
      <4>2. cells' \in [Cells -> Marks]
        BY <4>1 DEF GridOK, MarksOK, Marks
      <4> QED BY <3>1, <4>2 DEF CleanIsSeen
    <3>2. CASE seen'.attendances = seen.attendances /\ UNCHANGED <<cells, dirty>>
      BY <3>2 DEF GridOK, CleanIsSeen, Cells
    <3> QED BY <2>2, <3>1, <3>2 DEF Refill
  <2> QED BY <2>1, <2>2 DEF AnswerSeen
<1> QED BY <1>1, <1>2, <1>3 DEF GridOK

LEMMA BatchGestureShows ==
  ASSUME GridOK, BatchGesture
  PROVE  GridOK'
<1>1. UNCHANGED records
  BY DEF BatchGesture, setCell, save, openDialog, closeDialog, SessionFormDialog, deleteSession
<1>2. MarksOK'
  BY <1>1, MarksStep DEF GridOK, records
<1>3. ASSUME NEW c \in Cells, NEW status \in Selectable, setCell(c, status) PROVE GridOK'
  <2>1. cells' = [cells EXCEPT ![c] = status] /\ dirty' = dirty \cup {c} /\ status \in Marks
    BY <1>3 DEF setCell, Selectable, Marks
  <2>2. cells' \in [Cells -> Marks] /\ \A x \in Cells \ {c} : cells'[x] = cells[x]
    BY <2>1 DEF GridOK
  <2>3. UNCHANGED <<seen, saving, request>>
    BY <1>3 DEF setCell
  <2>4. CleanIsSeen'
    BY <2>1, <2>2, <2>3 DEF GridOK, CleanIsSeen, Cells
  <2>5. AskedOK'
    BY <2>3 DEF GridOK, AskedOK
  <2> QED BY <1>2, <2>1, <2>2, <2>3, <2>4, <2>5 DEF GridOK
<1>4. ASSUME UNCHANGED <<seen, cells, dirty>>, saving' \in BOOLEAN, AskedOK' PROVE GridOK'
  BY <1>2, <1>4 DEF GridOK, CleanIsSeen, Cells
<1>5. CASE save
  <2>1. PICK sent : sent = [c \in payload |-> cells[c]]
    OBVIOUS
  <2>2. DOMAIN sent \subseteq Cells /\ \A c \in DOMAIN sent : sent[c] \in Marks
    BY <2>1 DEF payload, GridOK
  <2>3. PICK q : q = [op |-> "save", changed |-> dirty, cells |-> sent]
    OBVIOUS
  <2>4. Post(q)
    BY <1>5, <2>1, <2>3 DEF save
  <2>5. AskedOK'
    BY <2>2, <2>3, <2>4, PostAsks
  <2> QED BY <1>4, <1>5, <2>5 DEF save
<1>6. CASE openDialog \/ closeDialog
  BY <1>4, <1>6 DEF openDialog, closeDialog, GridOK, AskedOK
<1>7. CASE SessionFormDialog
  <2>1. PICK q : q = [op |-> asking, session |-> session]
    OBVIOUS
  <2>2. Post(q) /\ q.op # "save"
    BY <1>7, <2>1 DEF SessionFormDialog
  <2>3. AskedOK'
    BY <2>1, <2>2, PostAsks
  <2> QED BY <1>4, <1>7, <2>3 DEF SessionFormDialog
<1>8. CASE deleteSession
  <2>1. PICK q : q = [op |-> "delete", session |-> session]
    OBVIOUS
  <2>2. Post(q) /\ q.op # "save"
    BY <1>8, <2>1 DEF deleteSession
  <2>3. AskedOK'
    BY <2>1, <2>2, PostAsks
  <2> QED BY <1>4, <1>8, <2>3 DEF deleteSession
<1> QED BY <1>3, <1>5, <1>6, <1>7, <1>8 DEF BatchGesture

(* What other operators and the page of the program record are marks, too. *)
LEMMA OthersMark ==
  ASSUME MarksOK, OtherOperators \/ ProgramGesture \/ ProgramConsequence
  PROVE  MarksOK'
<1>1. CASE OtherOperators
  <2>1. ASSUME NEW c \in Enrolled \X sessions, NEW st \in {"present", "absent"},
               bulkUpsert([x \in {c} |-> st])
        PROVE  MarksOK'
    <3>1. PICK status : status = [x \in {c} |-> st]
      OBVIOUS
    <3>2. \A x \in DOMAIN status : status[x] \in Marks
      BY <3>1 DEF Marks
    <3> QED BY <2>1, <3>1, <3>2, MarksStep
  <2> QED BY <1>1, <2>1, MarksStep DEF OtherOperators
<1>2. CASE ProgramGesture
  <2>1. UNCHANGED records
    BY <1>2
    DEF ProgramGesture, typeSearch, applyFilter, clearFilters, onOpenChange, BatchFormDialog,
        deleteBatch, openAdd, AddEnrollmentDialog, openEdit, EditEnrollmentDialog, WithdrawDialog,
        Show, Fill, Submit, pick, clearPick
  <2> QED BY <2>1, MarksStep DEF records
<1>3. CASE HandleVisit
  BY <1>3, MarksStep DEF HandleVisit, Controllers, NotFound, records
<1>4. CASE ProgramConsequence /\ ~ HandleVisit
  <2>1. UNCHANGED records
    BY <1>4 DEF ProgramConsequence, AnswerArrives, SearchFires, fetchParticipants, fetched
  <2> QED BY <2>1, MarksStep DEF records
<1> QED BY <1>1, <1>2, <1>3, <1>4

LEMMA ShownInit == Init => gestures \in 0..MaxGestures /\ ProgramOK /\ GridOK
<1> SUFFICES ASSUME Init PROVE gestures \in 0..MaxGestures /\ ProgramOK /\ GridOK
  OBVIOUS
<1>1. gestures \in 0..MaxGestures
  BY GesturesAssumption DEF Init
<1>2. ProgramOK
  BY NoForm, ShowsParticipants
  DEF Init, ProgramInit, ProgramOK, ListsOK, SentOK, Searches, NoVisit
<1>3. MarksOK
  <2>1. PICK st \in {"", "present", "excused"} :
          attended = [c \in Cells |-> IF c[2] = 1 /\ c[1] \in Enrolled THEN st ELSE ""]
    BY DEF Init, RecordsInit
  <2> QED BY <2>1 DEF MarksOK, Marks
<1>4. AskedOK /\ saving \in BOOLEAN /\ dirty \subseteq Cells
  BY DEF Init, BatchInit, AskedOK, NoRequest
<1>5. cells = seen.attendances /\ cells \in [Cells -> Marks]
  <2>1. cells = [c \in Cells |-> IF c[1] \in {p \in Enrolled : enrolled[p].batch \in {0, 1}}
                                 THEN attended[c] ELSE ""]
    BY DEF Init, BatchInit, showBatch
  <2>2. cells \in [Cells -> Marks]
    BY <1>3, <2>1 DEF MarksOK, Marks
  <2> QED BY <2>2 DEF Init, BatchInit
<1> QED BY <1>1, <1>2, <1>3, <1>4, <1>5 DEF GridOK, CleanIsSeen

LEMMA ShownStep ==
  ASSUME gestures \in 0..MaxGestures, ProgramOK, GridOK, [Next]_vars
  PROVE  gestures' \in 0..MaxGestures /\ ProgramOK' /\ GridOK'
<1>1. gestures' \in 0..MaxGestures
  BY GesturesAssumption DEF Next, vars
<1>2. UNCHANGED pageVars => ProgramOK'
  BY DEF pageVars, ProgramOK, ListsOK, SentOK
<1>3. UNCHANGED gridVars /\ MarksOK' => GridOK'
  BY GridStays
<1>4. CASE OtherOperators /\ UNCHANGED <<pageVars, gridVars>>
  BY <1>1, <1>2, <1>3, <1>4, OthersMark DEF GridOK
<1>5. CASE (ProgramGesture \/ ProgramConsequence) /\ UNCHANGED gridVars
  BY <1>1, <1>3, <1>5, OthersMark, ProgramGestureShows, ProgramConsequenceShows DEF GridOK
<1>6. CASE (BatchGesture \/ BatchConsequence) /\ UNCHANGED pageVars
  BY <1>1, <1>2, <1>6, BatchGestureShows, HandledShows, AnswerShows DEF BatchConsequence
<1>7. CASE UNCHANGED vars
  <2>1. MarksOK'
    BY <1>7, MarksStep DEF vars, records, GridOK
  <2> QED BY <1>1, <1>2, <1>3, <1>7, <2>1 DEF vars
<1> QED BY <1>4, <1>5, <1>6, <1>7 DEF Next

(* The dialog of a new enrollment sends the participant it shows, whatever *)
(* late answers replaced its list; and a cell without a mark is as the     *)
(* server sent it, whatever answers filled the grid anew.                  *)
THEOREM ShownIsAlwaysMeant == Spec => []ShownIsMeant
<1>1. Init => gestures \in 0..MaxGestures /\ ProgramOK /\ GridOK
  BY ShownInit
<1>2. (gestures \in 0..MaxGestures /\ ProgramOK /\ GridOK) /\ [Next]_vars
        => (gestures \in 0..MaxGestures /\ ProgramOK /\ GridOK)'
  BY ShownStep
<1>3. gestures \in 0..MaxGestures /\ ProgramOK /\ GridOK => ShownIsMeant
  BY DEF ShownIsMeant, ProgramOK, Form, DialogKinds, ListsOK, SentOK, ProgramTypeOK,
         SelectedAgrees, GridOK, Marks, AskedOK, GridTypeOK
<1> QED BY <1>1, <1>2, <1>3, PTL DEF Spec
=============================================================================
