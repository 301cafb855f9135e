--------------------------- MODULE AttendanceProofs ---------------------------
(***************************************************************************)
(* Theorems about Attendance, for any number of registrations and of       *)
(* overlapping requests; and about the pages that send the requests        *)
(* (AttendancePages), for any names, people, bounds and gestures.          *)
(***************************************************************************)
EXTENDS Attendance, AttendancePages, Sequences, TLAPS

RegStates == {"none", "confirmed", "uncoded", "held", "duplicate", "gone"}
Counts(x) == Active(x) \/ reg[x] = "held"
Exists(x) == Active(x) \/ reg[x] = "duplicate"

EventOK ==
  /\ event \in [kind : EventKinds, readOnly : BOOLEAN]
  /\ reg \in [Regs -> RegStates] /\ original \in [Regs -> SUBSET Regs]
  /\ proven \subseteq Regs /\ started \in 0 .. MaxRequests /\ overlapped \in BOOLEAN

(* The attendance of one registration: only of one that counts, and proved *)
(* only by a code.                                                         *)
AttOK(x) ==
  /\ att[x] \in Row /\ (att[x].status = "none" <=> att[x] = NoRow)
  /\ att[x] # NoRow => Counts(x)
  /\ att[x].verified => x \in proven
SheetOK == att \in [Regs -> Row] /\ \A x \in Regs : AttOK(x)

(* The pointers of duplicates.                                             *)
PointerOK(x) ==
  /\ reg[x] = "duplicate" <=> original[x] # {}
  /\ \A y \in original[x] : Exists(y)
Acyclic == \A xs \in (SUBSET Regs) \ {{}} : \E x \in xs : original[x] \cap xs = {}
PointersOK == (\A x \in Regs : PointerOK(x)) /\ Acyclic

(* What a request was bound to and wants to write, whoever overlaps it.    *)
ReqType ==
  [pc : {"idle", "bound", "loaded", "selected"}, kind : Kinds \cup {"none"},
   xs : SUBSET Regs, want : Row, stamp : BOOLEAN, read : [Regs -> Row]]
WantOK(q) ==
  /\ q.want.status = "absent" => ~ q.want.timed /\ ~ q.want.verified
  /\ q.want.status = "present" => q.want.timed
  /\ q.want.status = "none" => q.want = NoRow
  /\ q.stamp => q.want.status = "present"
  /\ q.stamp \/ q.want.verified => q.xs \subseteq proven
KindOK(q) ==
  /\ q.kind \in {"bulkMark", "walkIn", "bulkWalkIn"} => ~ Church
  /\ q.kind = "mark" => \E x \in Regs : q.xs = {x}
  /\ q.kind = "mark" /\ ~ Church => q.want.status \in {"present", "absent"}
  /\ q.kind = "mark" /\ Church => q.pc = "selected" /\ ~ q.want.verified
  /\ q.kind = "bulkMark" => q.want = Present
ReqOK(q) == q \in ReqType /\ WantOK(q) /\ KindOK(q)
RequestsOK == req \in [Requests -> ReqType] /\ \A r \in Requests : ReqOK(req[r])

(* While no two requests overlap, what a request has read is what is       *)
(* there, and after the end of the event nothing but a removal is bound.   *)
FreshOK(q) ==
  /\ q.kind = "mark" /\ ~ Church /\ q.pc \in {"loaded", "selected"} =>
       \A x \in q.xs :
         q.want.verified <=> q.want.status = "present" /\ (att[x].verified \/ q.stamp)
  /\ q.kind \in {"mark", "bulkMark"} /\ ~ Church /\ q.pc = "selected" =>
       \A x \in q.xs : q.read[x] = att[x]
  /\ event.readOnly => q = Idle \/ (q.kind = "remove" /\ Church)
Sensible(row) ==
  /\ row.status = "absent" => ~ row.timed /\ ~ row.verified
  /\ row.status = "present" => row.timed
Alone ==
  /\ \A q, r \in Requests : req[q] # Idle /\ req[r] # Idle => q = r
  /\ \A r \in Requests : FreshOK(req[r])
  /\ \A x \in Regs : Sensible(att[x])
AloneInv == ~ overlapped => Alone

IInv == EventOK /\ SheetOK /\ PointersOK /\ RequestsOK /\ AloneInv

-----------------------------------------------------------------------------
LEMMA RowFacts ==
  /\ NoRow \in Row /\ NoRow.status = "none" /\ ~ NoRow.verified /\ ~ NoRow.timed
  /\ Present \in Row /\ Present.status = "present" /\ ~ Present.verified /\ Present.timed
  /\ \A s \in {"none", "present", "absent"} :
       /\ Wanted(s) \in Row /\ Wanted(s).status = s /\ ~ Wanted(s).verified
       /\ Wanted(s).timed <=> s = "present"
  /\ Wanted("none") = NoRow
BY DEF NoRow, Row, Present, Wanted

LEMMA IdleOK ==
  Idle \in ReqType /\ WantOK(Idle) /\ Idle.kind = "none" /\ Idle.pc = "idle"
<1>1. [x \in Regs |-> NoRow] \in [Regs -> Row]
  BY RowFacts
<1>2. Idle \in ReqType
  BY <1>1, RowFacts DEF Idle, ReqType
<1>3. Idle.want = NoRow /\ ~ Idle.stamp /\ Idle.kind = "none" /\ Idle.pc = "idle"
  BY DEF Idle
<1> QED BY <1>2, <1>3, RowFacts DEF WantOK

LEMMA IdleReq == ReqOK(Idle) /\ FreshOK(Idle)
<1>1. KindOK(Idle)
  BY IdleOK DEF KindOK
<1>2. FreshOK(Idle)
  <2>1. Idle.kind \notin {"mark", "bulkMark"}
    BY IdleOK
  <2> QED BY <2>1 DEF FreshOK
<1> QED BY <1>1, <1>2, IdleOK DEF ReqOK

LEMMA RowsTyped ==
  ASSUME SheetOK, NEW xs \in SUBSET Regs
  PROVE  Rows(xs) \in [Regs -> Row] /\ \A x \in xs : Rows(xs)[x] = att[x]
BY RowFacts DEF SheetOK, Rows

(* The columns of a row that save() leaves are its own, the others are     *)
(* what is wanted; read as it is, the row becomes what is wanted.          *)
LEMMA UpdatedRow ==
  ASSUME NEW row \in Row, NEW read \in Row, NEW want \in Row, NEW stamp \in BOOLEAN
  PROVE  /\ Updated(row, read, want, stamp) \in Row
         /\ row.status = "none" => Updated(row, read, want, stamp) = row
         /\ row.status # "none" =>
              /\ Updated(row, read, want, stamp).status \in {row.status, want.status}
              /\ Updated(row, read, want, stamp).verified
                   => row.verified \/ want.verified
         /\ row.status # "none" /\ read = row => Updated(row, read, want, stamp) = want
<1>1. CASE row.status = "none"
  BY <1>1 DEF Updated
<1>2. CASE row.status # "none"
  <2>1. DOMAIN row = {"status", "timed", "verified"} /\ DOMAIN want = DOMAIN row
    BY DEF Row
  <2>2. PICK D : D = Dirty(read, want, stamp)
    OBVIOUS
  <2>3. Updated(row, read, want, stamp) =
          [status   |-> IF "status" \in D THEN want.status ELSE row.status,
           timed    |-> IF "timed" \in D THEN want.timed ELSE row.timed,
           verified |-> IF "verified" \in D THEN want.verified ELSE row.verified]
    BY <1>2, <2>1, <2>2 DEF Updated
  <2>4. Updated(row, read, want, stamp) \in Row
    BY <2>3 DEF Row
  <2>5. ASSUME read = row PROVE Updated(row, read, want, stamp) = want
    <3>1. \A k \in {"status", "timed", "verified"} : k \in D \/ row[k] = want[k]
      BY <2>1, <2>2, <2>5 DEF Dirty
    <3>2. want = [status |-> want.status, timed |-> want.timed, verified |-> want.verified]
      BY DEF Row
    <3> QED BY <2>3, <3>1, <3>2
  <2> QED BY <1>2, <2>3, <2>4, <2>5
<1> QED BY <1>1, <1>2

-----------------------------------------------------------------------------
(* Requests and what they have to answer for.                              *)

(* What may change under a request: proofs are added, the kind of the      *)
(* event stays.                                                            *)
LEMMA ReqStays ==
  ASSUME NEW q, ReqOK(q), proven \subseteq proven', event'.kind = event.kind
  PROVE  ReqOK(q)'
BY DEF ReqOK, WantOK, KindOK, Church

LEMMA RequestsKeep ==
  ASSUME RequestsOK, NEW r \in Requests, NEW q, req' = [req EXCEPT ![r] = q], ReqOK(q)',
         proven \subseteq proven', event'.kind = event.kind
  PROVE  RequestsOK'
<1>1. q \in ReqType
  BY DEF ReqOK
<1>2. req' \in [Requests -> ReqType]
  BY <1>1 DEF RequestsOK
<1>3. ASSUME NEW s \in Requests PROVE ReqOK(req[s])'
  <2>1. PICK t : t = req'[s]
    OBVIOUS
  <2>2. ReqOK(t)'
    <3>1. CASE s = r
      BY <2>1, <3>1 DEF RequestsOK
    <3>2. CASE s # r
      <4>1. t = req[s]
        BY <2>1, <3>2 DEF RequestsOK
      <4>2. ReqOK(t)
        BY <4>1 DEF RequestsOK
      <4> QED BY <4>2, ReqStays
    <3> QED BY <3>1, <3>2
  <2> QED BY <2>1, <2>2 DEF ReqOK, WantOK, KindOK
<1> QED BY <1>2, <1>3 DEF RequestsOK

LEMMA DoneKeeps ==
  ASSUME RequestsOK, NEW r \in Requests, Done(r),
         proven \subseteq proven', event'.kind = event.kind
  PROVE  RequestsOK'
<1>1. ReqOK(Idle)'
  BY IdleReq, ReqStays
<1> QED BY <1>1, RequestsKeep DEF Done

(* While requests do not overlap, the request that acts is the only one.   *)
LEMMA OnlyOne ==
  ASSUME Alone, RequestsOK, NEW r \in Requests, req[r].kind # "none"
  PROVE  \A s \in Requests \ {r} : req[s] = Idle
<1>1. req[r] # Idle
  BY IdleOK
<1> QED BY <1>1 DEF Alone

LEMMA AloneKeeps ==
  ASSUME RequestsOK, NEW r \in Requests, NEW q, req' = [req EXCEPT ![r] = q], FreshOK(q)',
         \A s \in Requests \ {r} : req[s] = Idle,
         \A x \in Regs : Sensible(att'[x])
  PROVE  Alone'
<1>1. ASSUME NEW s \in Requests \ {r} PROVE req'[s] = Idle
  BY <1>1 DEF RequestsOK
<1>2. req'[r] = q
  BY DEF RequestsOK
<1>3. FreshOK(Idle)'
  BY IdleOK DEF FreshOK
<1>4. ASSUME NEW s \in Requests PROVE FreshOK(req[s])'
  <2>1. CASE s = r
    BY <1>2, <2>1 DEF FreshOK
  <2>2. CASE s # r
    BY <1>1, <1>3, <2>2 DEF FreshOK
  <2> QED BY <2>1, <2>2
<1>5. \A s, t \in Requests : req'[s] # Idle /\ req'[t] # Idle => s = t
  BY <1>1
<1> QED BY <1>4, <1>5 DEF Alone, Sensible

-----------------------------------------------------------------------------
(* The attendance sheet.  A step leaves the row of a registration, empties *)
(* it, or writes what is proved as far as it claims to be.                 *)
Fate(x) ==
  \/ att'[x] = att[x] /\ (Counts(x) => Counts(x)')
  \/ att'[x] = NoRow
  \/ /\ Counts(x)' /\ att'[x] \in Row /\ att'[x].status # "none"
     /\ att'[x].verified => x \in proven'

LEMMA SheetKeeps ==
  ASSUME SheetOK, att' \in [Regs -> Row], proven \subseteq proven', \A x \in Regs : Fate(x)
  PROVE  SheetOK'
<1>1. ASSUME NEW x \in Regs PROVE AttOK(x)'
  <2>1. CASE att'[x] = att[x] /\ (Counts(x) => Counts(x)')
    BY <2>1 DEF SheetOK, AttOK
  <2>2. CASE att'[x] = NoRow
    BY <2>2, RowFacts DEF AttOK
  <2>3. CASE /\ Counts(x)' /\ att'[x] \in Row /\ att'[x].status # "none"
             /\ att'[x].verified => x \in proven'
    BY <2>3, RowFacts DEF AttOK
  <2> QED BY <2>1, <2>2, <2>3 DEF Fate
<1> QED BY <1>1 DEF SheetOK

(* Attendance is not touched, and whoever counts still does.               *)
LEMMA SheetStays ==
  ASSUME SheetOK, UNCHANGED att, proven \subseteq proven',
         \A x \in Regs : Counts(x) => Counts(x)'
  PROVE  SheetOK'
<1>1. att' \in [Regs -> Row] /\ \A x \in Regs : Fate(x)
  BY DEF SheetOK, Fate
<1> QED BY <1>1, SheetKeeps

(* One row is written.                                                     *)
LEMMA OneWritten ==
  ASSUME SheetOK, NEW x \in Regs, NEW row \in Row, att' = [att EXCEPT ![x] = row],
         proven \subseteq proven', \A y \in Regs : Counts(y) => Counts(y)',
         row = NoRow \/ /\ Counts(x)' /\ row.status # "none"
                        /\ row.verified => x \in proven'
  PROVE  SheetOK'
<1>1. att' \in [Regs -> Row]
  BY DEF SheetOK
<1>2. att'[x] = row /\ \A y \in Regs \ {x} : att'[y] = att[y]
  BY DEF SheetOK
<1>3. Fate(x)
  BY <1>2 DEF Fate
<1>4. \A y \in Regs \ {x} : Fate(y)
  BY <1>2 DEF Fate
<1> QED BY <1>1, <1>3, <1>4, SheetKeeps

-----------------------------------------------------------------------------
(* A step that changes no registration and no attendance.                  *)
LEMMA SteadyKeeps ==
  ASSUME SheetOK, PointersOK, UNCHANGED <<reg, original, att>>, proven \subseteq proven'
  PROVE  SheetOK' /\ PointersOK'
<1>1. SheetOK'
  BY SheetStays DEF Counts, Active
<1>2. PointersOK'
  BY DEF PointersOK, PointerOK, Exists, Active, Acyclic
<1> QED BY <1>1, <1>2

(* A request starts: alone if and only if all others were idle.            *)
LEMMA ArrivesKeeps ==
  ASSUME EventOK, RequestsOK, AloneInv, NEW r \in Requests, NEW q,
         req' = [req EXCEPT ![r] = q], Arrives, UNCHANGED <<event, att>>,
         overlapped' \/ FreshOK(q)'
  PROVE  AloneInv'
<1> SUFFICES ASSUME ~ overlapped' PROVE Alone'
  BY DEF AloneInv
<1>1. ~ overlapped /\ \A s \in Requests : req[s] = Idle
  BY DEF Arrives
<1>2. Alone
  BY <1>1 DEF AloneInv
<1>3. \A x \in Regs : Sensible(att'[x])
  BY <1>2 DEF Alone
<1> QED BY <1>1, <1>3, AloneKeeps

-----------------------------------------------------------------------------
(* The operations, one by one.  First those that bind a request.           *)
LEMMA ReqUpdates ==
  ASSUME NEW q \in ReqType
  PROVE  /\ \A p \in {"idle", "bound", "loaded", "selected"} : [q EXCEPT !.pc = p] \in ReqType
         /\ \A k \in Kinds : [q EXCEPT !.kind = k] \in ReqType
         /\ \A xs \in SUBSET Regs : [q EXCEPT !.xs = xs] \in ReqType
         /\ \A w \in Row : [q EXCEPT !.want = w] \in ReqType
         /\ \A b \in BOOLEAN : [q EXCEPT !.stamp = b] \in ReqType
         /\ \A read \in [Regs -> Row] : [q EXCEPT !.read = read] \in ReqType
<1>1. \A p \in {"idle", "bound", "loaded", "selected"} : [q EXCEPT !.pc = p] \in ReqType
  BY DEF ReqType
<1>2. \A k \in Kinds : [q EXCEPT !.kind = k] \in ReqType
  BY DEF ReqType
<1>3. \A xs \in SUBSET Regs : [q EXCEPT !.xs = xs] \in ReqType
  BY DEF ReqType
<1>4. \A w \in Row : [q EXCEPT !.want = w] \in ReqType
  BY DEF ReqType
<1>5. \A b \in BOOLEAN : [q EXCEPT !.stamp = b] \in ReqType
  BY DEF ReqType
<1>6. \A read \in [Regs -> Row] : [q EXCEPT !.read = read] \in ReqType
  BY DEF ReqType
<1> QED BY <1>1, <1>2, <1>3, <1>4, <1>5, <1>6

LEMMA StartFields ==
  ASSUME NEW r, NEW k \in Kinds, NEW xs \in SUBSET Regs
  PROVE  /\ Start(r, k, xs) \in ReqType
         /\ Start(r, k, xs).pc = "bound" /\ Start(r, k, xs).kind = k
         /\ Start(r, k, xs).xs = xs /\ Start(r, k, xs).want = NoRow
         /\ ~ Start(r, k, xs).stamp
<1>1. PICK i \in ReqType : i = Idle /\ i.want = NoRow /\ ~ i.stamp
  <2>1. Idle.want = NoRow /\ ~ Idle.stamp
    BY DEF Idle
  <2> QED BY <2>1, IdleOK
<1>2. PICK a \in ReqType : a = [i EXCEPT !.pc = "bound"]
  BY ReqUpdates
<1>3. PICK b \in ReqType : b = [a EXCEPT !.kind = k]
  BY ReqUpdates
<1>4. PICK c \in ReqType : c = [b EXCEPT !.xs = xs]
  BY ReqUpdates
<1>5. /\ c.pc = "bound" /\ c.kind = k /\ c.xs = xs /\ c.want = i.want /\ c.stamp = i.stamp
  BY <1>2, <1>3, <1>4 DEF ReqType
<1>6. Start(r, k, xs) = [i EXCEPT !.pc = "bound", !.kind = k, !.xs = xs]
  BY <1>1 DEF Start
<1>7. [i EXCEPT !.pc = "bound", !.kind = k, !.xs = xs] = c
  BY <1>2, <1>3, <1>4
<1> QED BY <1>1, <1>5, <1>6, <1>7

LEMMA ArrivesTyped ==
  ASSUME EventOK, Arrives, UNCHANGED <<event, reg, original>>, proven' \subseteq Regs
  PROVE  EventOK'
<1>1. started' \in 0 .. MaxRequests /\ overlapped' \in BOOLEAN
  BY AttendanceAssumption DEF EventOK, Arrives
<1> QED BY <1>1 DEF EventOK

(* What a bound request needs so that all is kept.                         *)
LEMMA BindKeeps ==
  ASSUME IInv, NEW r \in Requests, NEW q, req' = [req EXCEPT ![r] = q], Arrives,
         ReqOK(q)', overlapped' \/ FreshOK(q)', UNCHANGED <<event, reg, original, att>>,
         proven \subseteq proven', proven' \subseteq Regs
  PROVE  IInv'
<1>1. EventOK'
  BY ArrivesTyped DEF IInv
<1>2. SheetOK' /\ PointersOK'
  BY SteadyKeeps DEF IInv
<1>3. RequestsOK'
  BY RequestsKeep DEF IInv
<1>4. AloneInv'
  BY ArrivesKeeps DEF IInv
<1> QED BY <1>1, <1>2, <1>3, <1>4 DEF IInv

LEMMA BindMarkKeeps ==
  ASSUME IInv, NEW r \in Requests, BindMark(r)
  PROVE  IInv'
<1>1. PICK x \in Regs, s \in {"present", "absent"}, code \in BOOLEAN :
        /\ req' = [req EXCEPT ![r] = [Start(r, "mark", {x}) EXCEPT
                                        !.want = Wanted(s), !.stamp = s = "present" /\ code]]
        /\ proven' = IF s = "present" /\ code THEN proven \cup {x} ELSE proven
  BY DEF BindMark
<1>2. PICK stamp \in BOOLEAN : stamp = (s = "present" /\ code)
  OBVIOUS
<1>3. PICK q : q = [Start(r, "mark", {x}) EXCEPT !.want = Wanted(s), !.stamp = stamp]
  OBVIOUS
<1>4. /\ "mark" \in Kinds /\ ~ Church /\ ~ event.readOnly /\ Arrives
      /\ UNCHANGED <<event, reg, original, att>>
  BY DEF BindMark, isAttendanceReadOnly
<1>5. PICK t \in ReqType :
        /\ t = Start(r, "mark", {x}) /\ t.pc = "bound" /\ t.kind = "mark" /\ t.xs = {x}
        /\ t.want = NoRow /\ ~ t.stamp
  BY <1>4, StartFields
<1>6. q \in ReqType
  <2>1. PICK a \in ReqType : a = [t EXCEPT !.want = Wanted(s)]
    BY RowFacts, ReqUpdates
  <2>2. q = [a EXCEPT !.stamp = stamp]
    BY <1>3, <1>5, <2>1
  <2> QED BY <2>2, RowFacts, ReqUpdates
<1>7. /\ q.pc = "bound" /\ q.kind = "mark" /\ q.xs = {x} /\ q.want = Wanted(s)
      /\ q.stamp = stamp
  BY <1>3, <1>5 DEF ReqType
<1>8. proven \subseteq proven' /\ proven' \subseteq Regs /\ (stamp => x \in proven')
  BY <1>1, <1>2 DEF IInv, EventOK
<1>9. WantOK(q)'
  BY <1>2, <1>7, <1>8, RowFacts DEF WantOK
<1>10. KindOK(q)'
  BY <1>4, <1>7, RowFacts DEF KindOK, Church
<1>11. FreshOK(q)'
  BY <1>4, <1>7 DEF FreshOK
<1> QED
  BY <1>1, <1>2, <1>3, <1>4, <1>6, <1>8, <1>9, <1>10, <1>11, BindKeeps DEF ReqOK

LEMMA BindChurchMarkKeeps ==
  ASSUME IInv, NEW r \in Requests, BindChurchMark(r)
  PROVE  IInv'
<1>1. PICK x \in Regs, s \in {"present", "absent", "none"} :
        req' = [req EXCEPT ![r] = [Start(r, "mark", {x}) EXCEPT
                                     !.pc = "selected", !.want = Wanted(s)]]
  BY DEF BindChurchMark
<1>2. PICK q : q = [Start(r, "mark", {x}) EXCEPT !.pc = "selected", !.want = Wanted(s)]
  OBVIOUS
<1>3. /\ "mark" \in Kinds /\ Church /\ ~ event.readOnly /\ Arrives
      /\ UNCHANGED <<event, reg, original, att, proven>>
  BY DEF BindChurchMark, isAttendanceReadOnly
<1>4. PICK t \in ReqType :
        /\ t = Start(r, "mark", {x}) /\ t.pc = "bound" /\ t.kind = "mark" /\ t.xs = {x}
        /\ t.want = NoRow /\ ~ t.stamp
  BY <1>3, StartFields
<1>5. q \in ReqType
  <2>1. PICK a \in ReqType : a = [t EXCEPT !.pc = "selected"]
    BY RowFacts, ReqUpdates
  <2>2. q = [a EXCEPT !.want = Wanted(s)]
    BY <1>2, <1>4, <2>1
  <2> QED BY <2>2, RowFacts, ReqUpdates
<1>6. /\ q.pc = "selected" /\ q.kind = "mark" /\ q.xs = {x} /\ q.want = Wanted(s)
      /\ ~ q.stamp
  BY <1>2, <1>4 DEF ReqType
<1>7. WantOK(q)'
  BY <1>6, RowFacts DEF WantOK
<1>8. KindOK(q)'
  BY <1>3, <1>6, RowFacts DEF KindOK, Church
<1>9. FreshOK(q)'
  BY <1>3, <1>6 DEF FreshOK, Church
<1> QED
  BY <1>1, <1>2, <1>3, <1>5, <1>7, <1>8, <1>9, BindKeeps DEF ReqOK, IInv, EventOK

LEMMA BindBulkKeeps ==
  ASSUME IInv, NEW r \in Requests, BindBulk(r)
  PROVE  IInv'
<1>1. PICK xs \in SUBSET Regs :
        req' = [req EXCEPT ![r] = [Start(r, "bulkMark", xs) EXCEPT !.want = Present]]
  BY AttendanceAssumption DEF BindBulk
<1>2. PICK q : q = [Start(r, "bulkMark", xs) EXCEPT !.want = Present]
  OBVIOUS
<1>3. /\ "bulkMark" \in Kinds /\ ~ Church /\ ~ event.readOnly /\ Arrives
      /\ UNCHANGED <<event, reg, original, att, proven>>
  BY DEF BindBulk, isAttendanceReadOnly
<1>4. PICK t \in ReqType :
        /\ t = Start(r, "bulkMark", xs) /\ t.pc = "bound" /\ t.kind = "bulkMark" /\ t.xs = xs
        /\ t.want = NoRow /\ ~ t.stamp
  BY <1>3, StartFields
<1>5. q \in ReqType
  <2>1. PICK a \in ReqType : a = [t EXCEPT !.want = Present]
    BY RowFacts, ReqUpdates
  <2> QED BY <1>2, <1>4, <2>1
<1>6. q.pc = "bound" /\ q.kind = "bulkMark" /\ q.want = Present /\ ~ q.stamp
  BY <1>2, <1>4 DEF ReqType
<1>7. WantOK(q)'
  BY <1>6, RowFacts DEF WantOK
<1>8. KindOK(q)'
  BY <1>3, <1>6 DEF KindOK, Church
<1>9. FreshOK(q)'
  BY <1>3, <1>6 DEF FreshOK
<1> QED
  BY <1>1, <1>2, <1>3, <1>5, <1>7, <1>8, <1>9, BindKeeps DEF ReqOK, IInv, EventOK

(* A walk-in, a removal and the end of the event bind no row to write.     *)
LEMMA BindPlainKeeps ==
  ASSUME IInv, NEW r \in Requests, NEW k \in Kinds, NEW xs \in SUBSET Regs,
         req' = [req EXCEPT ![r] = Start(r, k, xs)], Arrives,
         UNCHANGED <<event, reg, original, att, proven>>,
         k \notin {"mark", "bulkMark"}, k \in {"walkIn", "bulkWalkIn"} => ~ Church,
         event.readOnly => k = "remove" /\ Church
  PROVE  IInv'
<1>1. PICK q : q = Start(r, k, xs)
  OBVIOUS
<1>2. q \in ReqType /\ q.kind = k /\ q.want = NoRow /\ ~ q.stamp
  BY <1>1, StartFields
<1>3. WantOK(q)'
  BY <1>2, RowFacts DEF WantOK
<1>4. KindOK(q)'
  BY <1>2 DEF KindOK, Church
<1>5. FreshOK(q)'
  BY <1>2 DEF FreshOK, Church
<1> QED
  BY <1>1, <1>2, <1>3, <1>4, <1>5, BindKeeps DEF ReqOK, IInv, EventOK

LEMMA BindOtherKeeps ==
  ASSUME IInv, NEW r \in Requests, BindWalkIn(r) \/ BindRemove(r) \/ BindFinalize(r)
  PROVE  IInv'
<1>1. CASE BindWalkIn(r)
  <2>1. PICK k \in {"walkIn", "bulkWalkIn"} \cap Kinds : req' = [req EXCEPT ![r] = Start(r, k, {})]
    BY <1>1 DEF BindWalkIn
  <2>2. /\ Arrives /\ UNCHANGED <<event, reg, original, att, proven>> /\ ~ Church
        /\ ~ event.readOnly
    BY <1>1 DEF BindWalkIn, isAttendanceReadOnly
  <2>3. {} \in SUBSET Regs
    OBVIOUS
  <2> QED BY <2>1, <2>2, <2>3, BindPlainKeeps
<1>2. CASE BindRemove(r)
  <2>1. PICK xs \in SUBSET Regs : req' = [req EXCEPT ![r] = Start(r, "remove", xs)]
    BY <1>2 DEF BindRemove
  <2>2. /\ Arrives /\ UNCHANGED <<event, reg, original, att, proven>>
        /\ Church \/ ~ event.readOnly
    BY <1>2 DEF BindRemove, isAttendanceReadOnly
  <2>3. "remove" \in Kinds
    BY <1>2 DEF BindRemove
  <2> QED BY <2>1, <2>2, <2>3, BindPlainKeeps
<1>3. CASE BindFinalize(r)
  <2>1. req' = [req EXCEPT ![r] = Start(r, "finalize", {})] /\ "finalize" \in Kinds
    BY <1>3 DEF BindFinalize
  <2>2. Arrives /\ UNCHANGED <<event, reg, original, att, proven>> /\ ~ event.readOnly
    BY <1>3 DEF BindFinalize, isAttendanceReadOnly
  <2>3. {} \in SUBSET Regs
    OBVIOUS
  <2> QED BY <2>1, <2>2, <2>3, BindPlainKeeps
<1> QED BY <1>1, <1>2, <1>3

-----------------------------------------------------------------------------
(* Then those of a bound request.  What is known of it, and what is left   *)
(* to show.                                                                *)
LEMMA Turn ==
  ASSUME IInv, NEW r \in Requests, req[r].kind # "none"
  PROVE  /\ req[r] \in ReqType /\ WantOK(req[r]) /\ KindOK(req[r])
         /\ ~ overlapped => /\ Alone /\ FreshOK(req[r])
                            /\ \A s \in Requests \ {r} : req[s] = Idle
<1>1. ReqOK(req[r])
  BY DEF IInv, RequestsOK
<1>2. ASSUME ~ overlapped
      PROVE  Alone /\ FreshOK(req[r]) /\ \A s \in Requests \ {r} : req[s] = Idle
  <2>1. Alone
    BY <1>2 DEF IInv, AloneInv
  <2>2. FreshOK(req[r])
    BY <2>1 DEF Alone
  <2> QED BY <2>1, <2>2, OnlyOne DEF IInv
<1> QED BY <1>1, <1>2 DEF ReqOK

LEMMA TurnKeeps ==
  ASSUME IInv, NEW r \in Requests, req[r].kind # "none", NEW q,
         req' = [req EXCEPT ![r] = q], ReqOK(q)',
         UNCHANGED <<proven, started, overlapped>>, event'.kind = event.kind,
         ~ overlapped => FreshOK(q)' /\ \A x \in Regs : Sensible(att'[x])
  PROVE  RequestsOK' /\ AloneInv'
<1>1. RequestsOK'
  BY RequestsKeep DEF IInv
<1>2. AloneInv'
  <2> SUFFICES ASSUME ~ overlapped PROVE Alone'
    BY DEF AloneInv
  <2> QED BY Turn, AloneKeeps DEF IInv
<1> QED BY <1>1, <1>2

LEMMA DoneTurn ==
  ASSUME IInv, NEW r \in Requests, req[r].kind # "none", Done(r),
         UNCHANGED <<proven, started, overlapped>>, event'.kind = event.kind,
         ~ overlapped => \A x \in Regs : Sensible(att'[x])
  PROVE  RequestsOK' /\ AloneInv'
<1>1. PICK q : q = Idle
  OBVIOUS
<1>2. ReqOK(q)' /\ FreshOK(q)'
  <2>1. q \in ReqType /\ WantOK(q) /\ q.kind = "none" /\ q.pc = "idle" /\ q = Idle
    BY <1>1, IdleOK
  <2>2. ReqOK(q)'
    BY <1>1, IdleReq, ReqStays
  <2>3. FreshOK(q)'
    BY <2>1 DEF FreshOK
  <2> QED BY <2>2, <2>3
<1> QED BY <1>1, <1>2, TurnKeeps DEF Done

LEMMA LoadKeeps ==
  ASSUME IInv, NEW r \in Requests, Load(r)
  PROVE  IInv'
<1>1. /\ req[r].kind = "mark" /\ req[r].pc = "bound"
      /\ UNCHANGED <<event, reg, original, att, proven, started, overlapped>>
  BY DEF Load, Step
<1>2. PICK old \in ReqType : old = req[r] /\ WantOK(old) /\ KindOK(old)
  BY <1>1, Turn
<1>3. ~ Church
  BY <1>1, <1>2 DEF KindOK
<1>4. PICK x \in Regs : old.xs = {x}
  BY <1>1, <1>2 DEF KindOK
<1>5. PICK v \in BOOLEAN :
        v = Verified(r, x) /\ v = (old.want.status = "present" /\ (att[x].verified \/ old.stamp))
  <2>1. Verified(r, x) \in BOOLEAN
    BY DEF Verified
  <2> QED BY <1>2, <2>1 DEF Verified
<1>6. PICK want : want = [old.want EXCEPT !.verified = v]
  OBVIOUS
<1>7. /\ want \in Row /\ want.status = old.want.status /\ want.timed = old.want.timed
      /\ want.verified = v
  <2>1. old.want \in Row
    BY DEF ReqType
  <2> QED BY <1>6, <2>1 DEF Row
<1>8. PICK q : q = [old EXCEPT !.pc = "loaded", !.want = want]
  OBVIOUS
<1>9. req' = [req EXCEPT ![r] = q]
  <2>1. req' = [req EXCEPT ![r].pc = "loaded", ![r].want.verified = v]
    BY <1>2, <1>4, <1>5 DEF Load
  <2>2. req \in [Requests -> ReqType]
    BY DEF IInv, RequestsOK
  <2>3. PICK a \in ReqType : a = [old EXCEPT !.pc = "loaded"]
    BY ReqUpdates
  <2>4. PICK f : f = [req EXCEPT ![r].pc = "loaded"]
    OBVIOUS
  <2>5. f = [req EXCEPT ![r] = a] /\ f[r] = a
    BY <1>2, <2>2, <2>3, <2>4
  <2>6. q = [a EXCEPT !.want.verified = v]
    <3>1. a.want = old.want
      BY <2>3 DEF ReqType
    <3> QED BY <1>6, <1>8, <2>3, <3>1
  <2>7. req' = [f EXCEPT ![r].want.verified = v]
    BY <2>1, <2>4
  <2>8. req' = [f EXCEPT ![r] = q]
    BY <2>5, <2>6, <2>7
  <2> QED BY <2>2, <2>5, <2>8
<1>10. q \in ReqType
  <2>1. PICK a \in ReqType : a = [old EXCEPT !.pc = "loaded"]
    BY ReqUpdates
  <2>2. q = [a EXCEPT !.want = want]
    BY <1>8, <2>1
  <2> QED BY <1>7, <2>2, ReqUpdates
<1>11. q.kind = "mark" /\ q.pc = "loaded" /\ q.xs = {x} /\ q.want = want /\ q.stamp = old.stamp
  BY <1>1, <1>2, <1>4, <1>8 DEF ReqType
<1>12. old.want.status # "none"
  BY <1>1, <1>2, <1>3 DEF KindOK
<1>13. WantOK(q)
  <2>1. att[x].verified => x \in proven
    BY DEF IInv, SheetOK, AttOK
  <2>2. old.stamp => x \in proven
    BY <1>2, <1>4 DEF WantOK
  <2> QED BY <1>2, <1>5, <1>7, <1>11, <1>12, <2>1, <2>2 DEF WantOK
<1>14. KindOK(q)
  BY <1>1, <1>2, <1>3, <1>7, <1>11 DEF KindOK
<1>15. ReqOK(q)'
  BY <1>1, <1>10, <1>13, <1>14, ReqStays DEF ReqOK
<1>16. ASSUME ~ overlapped PROVE FreshOK(q)' /\ \A y \in Regs : Sensible(att'[y])
  <2>1. Alone /\ FreshOK(old)
    BY <1>1, <1>2, <1>16, Turn
  <2>2. ~ event.readOnly
    BY <1>1, <1>2, <2>1, IdleOK DEF FreshOK
  <2>3. \A y \in q.xs : q.want.verified <=> q.want.status = "present"
                                            /\ (att'[y].verified \/ q.stamp)
    BY <1>1, <1>5, <1>7, <1>11
  <2>4. FreshOK(q)'
    BY <1>1, <1>11, <2>2, <2>3 DEF FreshOK
  <2> QED BY <1>1, <2>1, <2>4 DEF Alone
<1>17. RequestsOK' /\ AloneInv'
  BY <1>1, <1>9, <1>15, <1>16, TurnKeeps
<1>18. EventOK' /\ SheetOK' /\ PointersOK'
  BY <1>1, SteadyKeeps DEF IInv, EventOK
<1> QED BY <1>17, <1>18 DEF IInv

LEMMA SelectKeeps ==
  ASSUME IInv, NEW r \in Requests, Select(r)
  PROVE  IInv'
<1>1. /\ req[r].kind = "mark" /\ req[r].pc = "loaded"
      /\ UNCHANGED <<event, reg, original, att, proven, started, overlapped>>
  BY DEF Select, Step
<1>2. PICK old \in ReqType : old = req[r] /\ WantOK(old) /\ KindOK(old)
  BY <1>1, Turn
<1>3. old.xs \in SUBSET Regs
  BY DEF ReqType
<1>4. PICK read \in [Regs -> Row] : read = Rows(old.xs) /\ \A x \in old.xs : read[x] = att[x]
  BY <1>3, RowsTyped DEF IInv
<1>5. PICK q : q = [old EXCEPT !.pc = "selected", !.read = read]
  OBVIOUS
<1>6. req' = [req EXCEPT ![r] = q]
  BY <1>2, <1>4, <1>5 DEF Select
<1>7. q \in ReqType
  <2>1. PICK a \in ReqType : a = [old EXCEPT !.pc = "selected"]
    BY ReqUpdates
  <2>2. q = [a EXCEPT !.read = read]
    BY <1>5, <2>1
  <2> QED BY <2>2, ReqUpdates
<1>8. /\ q.kind = old.kind /\ q.pc = "selected" /\ q.xs = old.xs /\ q.want = old.want
      /\ q.stamp = old.stamp /\ q.read = read
  BY <1>5 DEF ReqType
<1>9. WantOK(q) /\ KindOK(q)
  BY <1>2, <1>8 DEF WantOK, KindOK
<1>10. ReqOK(q)'
  BY <1>1, <1>7, <1>9, ReqStays DEF ReqOK
<1>11. ASSUME ~ overlapped PROVE FreshOK(q)' /\ \A y \in Regs : Sensible(att'[y])
  <2>1. Alone /\ FreshOK(old)
    BY <1>1, <1>2, <1>11, Turn
  <2>2. FreshOK(q)'
    BY <1>1, <1>2, <1>4, <1>8, <2>1, IdleOK DEF FreshOK, Church
  <2> QED BY <1>1, <2>1, <2>2 DEF Alone
<1>12. RequestsOK' /\ AloneInv'
  BY <1>1, <1>6, <1>10, <1>11, TurnKeeps
<1>13. EventOK' /\ SheetOK' /\ PointersOK'
  BY <1>1, SteadyKeeps DEF IInv, EventOK
<1> QED BY <1>12, <1>13 DEF IInv

(* A request that ends: without an effect on the sheet, or with one row.   *)
LEMMA LeaveKeeps ==
  ASSUME IInv, NEW r \in Requests, req[r].kind # "none", Done(r),
         UNCHANGED <<event, reg, original, att, proven, started, overlapped>>
  PROVE  IInv'
<1>1. ~ overlapped => \A x \in Regs : Sensible(att'[x])
  BY Turn DEF Alone
<1>2. RequestsOK' /\ AloneInv'
  BY <1>1, DoneTurn
<1>3. EventOK' /\ SheetOK' /\ PointersOK'
  BY SteadyKeeps DEF IInv, EventOK
<1> QED BY <1>2, <1>3 DEF IInv

LEMMA PointersStay ==
  ASSUME PointersOK, UNCHANGED <<reg, original>>
  PROVE  PointersOK'
BY DEF PointersOK, PointerOK, Exists, Active, Acyclic

LEMMA SensibleWritten ==
  ASSUME SheetOK, NEW x \in Regs, NEW row, att' = [att EXCEPT ![x] = row], Sensible(row),
         \A y \in Regs : Sensible(att[y])
  PROVE  \A y \in Regs : Sensible(att'[y])
<1>1. att'[x] = row /\ \A y \in Regs \ {x} : att'[y] = att[y]
  BY DEF SheetOK
<1> QED BY <1>1 DEF Sensible

LEMMA WriteKeeps ==
  ASSUME IInv, NEW r \in Requests, req[r].kind # "none", Done(r),
         UNCHANGED <<event, reg, original, proven, started, overlapped>>,
         NEW x \in Regs, Active(x), NEW row \in Row, att' = [att EXCEPT ![x] = row],
         row = NoRow \/ (row.status # "none" /\ (row.verified => x \in proven)),
         ~ overlapped => Sensible(row)
  PROVE  IInv'
<1>1. ~ overlapped => \A y \in Regs : Sensible(att'[y])
  BY Turn, SensibleWritten DEF Alone, IInv
<1>2. RequestsOK' /\ AloneInv'
  BY <1>1, DoneTurn
<1>3. \A y \in Regs : Counts(y) => Counts(y)'
  BY DEF Counts, Active
<1>4. Counts(x)'
  BY DEF Counts, Active
<1>5. SheetOK'
  BY <1>3, <1>4, OneWritten DEF IInv
<1>6. EventOK' /\ PointersOK'
  BY PointersStay DEF IInv, EventOK
<1> QED BY <1>2, <1>5, <1>6 DEF IInv

LEMMA SaveKeeps ==
  ASSUME IInv, NEW r \in Requests, Save(r)
  PROVE  IInv'
<1>1. /\ req[r].kind = "mark" /\ req[r].pc = "selected" /\ ~ Church
      /\ UNCHANGED <<event, reg, original, proven, started, overlapped>>
  BY DEF Save, Step
<1>2. PICK old \in ReqType : old = req[r] /\ WantOK(old) /\ KindOK(old)
  BY <1>1, Turn
<1>3. PICK x \in Regs : old.xs = {x}
  BY <1>1, <1>2 DEF KindOK
<1>4. PICK want \in Row, read \in Row, stamp \in BOOLEAN :
        want = old.want /\ read = old.read[x] /\ stamp = old.stamp
  BY DEF ReqType
<1>5. PICK row \in Row : row = att[x] /\ (row.status = "none" <=> row = NoRow)
                         /\ (row.verified => x \in proven)
  BY DEF IInv, SheetOK, AttOK
<1>6. want.status # "none" /\ (want.verified => x \in proven)
  BY <1>1, <1>2, <1>3, <1>4, RowFacts DEF KindOK, WantOK
<1>7. ~ overlapped => Alone /\ FreshOK(old) /\ Sensible(want) /\ read = row
  <2> SUFFICES ASSUME ~ overlapped PROVE Alone /\ FreshOK(old) /\ Sensible(want) /\ read = row
    OBVIOUS
  <2>1. Alone /\ FreshOK(old)
    BY <1>1, <1>2, Turn
  <2>2. Sensible(want)
    BY <1>2, <1>4 DEF WantOK, Sensible
  <2>3. read = row
    BY <1>1, <1>2, <1>3, <1>4, <1>5, <2>1 DEF FreshOK
  <2> QED BY <2>1, <2>2, <2>3
<1>8. \/ Done(r) /\ UNCHANGED att
      \/ Active(x) /\ att' = [att EXCEPT ![x] = want] /\ Done(r)
      \/ req' = [req EXCEPT ![r].read = Rows({x})] /\ UNCHANGED att
      \/ Active(x) /\ att' = [att EXCEPT ![x] = Updated(row, read, want, stamp)] /\ Done(r)
  BY <1>2, <1>3, <1>4, <1>5 DEF Save
<1>9. CASE Done(r) /\ UNCHANGED att
  BY <1>1, <1>9, LeaveKeeps
<1>10. CASE Active(x) /\ att' = [att EXCEPT ![x] = want] /\ Done(r)
  BY <1>1, <1>6, <1>7, <1>10, WriteKeeps
<1>11. CASE req' = [req EXCEPT ![r].read = Rows({x})] /\ UNCHANGED att
  <2>1. PICK again \in [Regs -> Row] : again = Rows({x}) /\ again[x] = att[x]
    BY RowsTyped DEF IInv
  <2>2. PICK q : q = [old EXCEPT !.read = again]
    OBVIOUS
  <2>3. req' = [req EXCEPT ![r] = q]
    BY <1>2, <1>11, <2>1, <2>2
  <2>4. q \in ReqType
    BY <2>2, ReqUpdates
  <2>5. /\ q.kind = old.kind /\ q.pc = "selected" /\ q.xs = {x} /\ q.want = old.want
        /\ q.stamp = old.stamp /\ q.read = again
    BY <1>1, <1>2, <1>3, <2>2 DEF ReqType
  <2>6. WantOK(q) /\ KindOK(q)
    BY <1>1, <1>2, <1>3, <2>5 DEF WantOK, KindOK
  <2>7. ReqOK(q)'
    BY <1>1, <2>4, <2>6, ReqStays DEF ReqOK
  <2>8. ASSUME ~ overlapped PROVE FreshOK(q)' /\ \A y \in Regs : Sensible(att'[y])
    <3>1. FreshOK(q)'
      BY <1>1, <1>2, <1>3, <1>7, <1>11, <2>1, <2>5, <2>8, IdleOK DEF FreshOK, Church
    <3> QED BY <1>7, <1>11, <2>8, <3>1 DEF Alone
  <2>9. RequestsOK' /\ AloneInv'
    BY <1>1, <2>3, <2>7, <2>8, TurnKeeps
  <2>10. EventOK' /\ SheetOK' /\ PointersOK'
    BY <1>1, <1>11, SteadyKeeps DEF IInv, EventOK
  <2> QED BY <2>9, <2>10 DEF IInv
<1>12. CASE Active(x) /\ att' = [att EXCEPT ![x] = Updated(row, read, want, stamp)] /\ Done(r)
  <2>1. PICK new \in Row :
          /\ new = Updated(row, read, want, stamp)
          /\ row.status = "none" => new = row
          /\ row.status # "none" => /\ new.status \in {row.status, want.status}
                                    /\ new.verified => row.verified \/ want.verified
                                    /\ read = row => new = want
    BY UpdatedRow
  <2>2. new = NoRow \/ (new.status # "none" /\ (new.verified => x \in proven))
    <3>1. CASE row.status = "none"
      BY <1>5, <2>1, <3>1
    <3>2. CASE row.status # "none"
      BY <1>5, <1>6, <2>1, <3>2
    <3> QED BY <3>1, <3>2
  <2>3. ~ overlapped => Sensible(new)
    <3>1. CASE row.status = "none"
      BY <1>5, <2>1, <3>1, RowFacts DEF Sensible
    <3>2. CASE row.status # "none"
      BY <1>7, <2>1, <3>2
    <3> QED BY <3>1, <3>2
  <2> QED BY <1>1, <1>12, <2>1, <2>2, <2>3, WriteKeeps
<1> QED BY <1>8, <1>9, <1>10, <1>11, <1>12

LEMMA SelectBulkKeeps ==
  ASSUME IInv, NEW r \in Requests, SelectBulk(r)
  PROVE  IInv'
<1>1. /\ req[r].kind = "bulkMark" /\ req[r].pc = "bound"
      /\ UNCHANGED <<event, reg, original, att, proven, started, overlapped>>
  BY DEF SelectBulk, Step
<1>2. PICK old \in ReqType : old = req[r] /\ WantOK(old) /\ KindOK(old)
  BY <1>1, Turn
<1>3. PICK xs \in SUBSET Regs : xs = {x \in old.xs : Active(x)} /\ xs \subseteq old.xs
  BY DEF ReqType
<1>4. PICK read \in [Regs -> Row] : read = Rows(xs) /\ \A x \in xs : read[x] = att[x]
  BY RowsTyped DEF IInv
<1>5. PICK q : q = [old EXCEPT !.pc = "selected", !.xs = xs, !.read = read]
  OBVIOUS
<1>6. req' = [req EXCEPT ![r] = q]
  BY <1>2, <1>3, <1>4, <1>5 DEF SelectBulk
<1>7. q \in ReqType
  <2>1. PICK a \in ReqType : a = [old EXCEPT !.pc = "selected"]
    BY ReqUpdates
  <2>2. PICK b \in ReqType : b = [a EXCEPT !.xs = xs]
    BY ReqUpdates
  <2>3. q = [b EXCEPT !.read = read]
    BY <1>5, <2>1, <2>2
  <2> QED BY <2>3, ReqUpdates
<1>8. /\ q.kind = "bulkMark" /\ q.pc = "selected" /\ q.xs = xs /\ q.want = old.want
      /\ q.stamp = old.stamp /\ q.read = read
  BY <1>1, <1>2, <1>5 DEF ReqType
<1>9. WantOK(q) /\ KindOK(q)
  BY <1>1, <1>2, <1>3, <1>8 DEF WantOK, KindOK
<1>10. ReqOK(q)'
  BY <1>1, <1>7, <1>9, ReqStays DEF ReqOK
<1>11. ASSUME ~ overlapped PROVE FreshOK(q)' /\ \A y \in Regs : Sensible(att'[y])
  <2>1. Alone /\ FreshOK(old)
    BY <1>1, <1>2, <1>11, Turn
  <2>2. FreshOK(q)'
    BY <1>1, <1>2, <1>4, <1>8, <2>1, IdleOK DEF FreshOK, Church
  <2> QED BY <1>1, <2>1, <2>2 DEF Alone
<1>12. RequestsOK' /\ AloneInv'
  BY <1>1, <1>6, <1>10, <1>11, TurnKeeps
<1>13. EventOK' /\ SheetOK' /\ PointersOK'
  BY <1>1, SteadyKeeps DEF IInv, EventOK
<1> QED BY <1>12, <1>13 DEF IInv

(* Each row of a batch is left, inserted for a registration that is        *)
(* active, or updated if somebody has not deleted it.                      *)
LEMMA SaveBulkKeeps ==
  ASSUME IInv, NEW r \in Requests, SaveBulk(r)
  PROVE  IInv'
<1>1. /\ req[r].kind = "bulkMark" /\ req[r].pc = "selected" /\ Done(r)
      /\ UNCHANGED <<event, reg, original, proven, started, overlapped>>
  BY DEF SaveBulk, Step
<1>2. CASE Collides(r)
  <2>1. UNCHANGED att
    BY <1>2 DEF SaveBulk
  <2> QED BY <1>1, <2>1, LeaveKeeps
<1>3. CASE ~ Collides(r)
  <2>1. PICK old \in ReqType : old = req[r] /\ WantOK(old) /\ KindOK(old)
    BY <1>1, Turn
  <2>2. PICK read \in [Regs -> Row] : read = old.read
    BY DEF ReqType
  <2>3. old.want = Present /\ ~ Church
    BY <1>1, <2>1 DEF KindOK
  <2>4. att' = [x \in Regs |->
                  IF x \notin old.xs THEN att[x]
                  ELSE IF read[x] = NoRow THEN Present
                  ELSE Updated(att[x], read[x], Present, FALSE)]
    BY <1>3, <2>1, <2>2, <2>3 DEF SaveBulk
  <2>5. ASSUME NEW x \in Regs
        PROVE  /\ att'[x] \in Row /\ Fate(x)
               /\ ~ overlapped => Sensible(att'[x])
    <3>1. PICK row \in Row : /\ row = att[x] /\ (row.status = "none" <=> row = NoRow)
                             /\ row.verified => x \in proven
                             /\ row # NoRow => Counts(x)
      BY DEF IInv, SheetOK, AttOK
    <3>2. ~ overlapped => Sensible(row)
      BY <1>1, <3>1, Turn DEF Alone
    <3>3. Counts(x) => Counts(x)'
      BY <1>1 DEF Counts, Active
    <3>4. CASE x \notin old.xs
      <4>1. att'[x] = row
        BY <2>4, <3>1, <3>4
      <4> QED BY <3>1, <3>2, <3>3, <4>1 DEF Fate
    <3>5. CASE x \in old.xs /\ read[x] = NoRow
      <4>1. att'[x] = Present
        BY <2>4, <3>5
      <4>2. Active(x)
        BY <1>3, <2>1, <2>2, <3>5 DEF Collides
      <4>3. Counts(x)'
        BY <3>3, <4>2 DEF Counts
      <4>4. Fate(x)
        BY <4>1, <4>3, RowFacts DEF Fate
      <4>5. Sensible(att'[x])
        BY <4>1, RowFacts DEF Sensible
      <4> QED BY <4>1, <4>4, <4>5, RowFacts
    <3>6. CASE x \in old.xs /\ read[x] # NoRow
      <4>1. PICK had \in Row, want \in Row, stamp \in BOOLEAN :
              had = read[x] /\ want = Present /\ stamp = FALSE
        BY <2>2, RowFacts
      <4>2. PICK new \in Row :
              /\ new = Updated(row, had, want, stamp)
              /\ row.status = "none" => new = row
              /\ row.status # "none" => /\ new.status \in {row.status, want.status}
                                        /\ new.verified => row.verified \/ want.verified
                                        /\ had = row => new = want
        BY UpdatedRow
      <4>3. att'[x] = new
        BY <2>4, <3>1, <3>6, <4>1, <4>2
      <4>4. CASE row.status = "none"
        <5>1. new = row
          BY <4>2, <4>4
        <5> QED BY <3>1, <3>2, <3>3, <4>3, <5>1 DEF Fate
      <4>5. CASE row.status # "none"
        <5>1. new.status # "none" /\ (new.verified => x \in proven)
          BY <3>1, <4>1, <4>2, <4>5, RowFacts
        <5>2. Fate(x)
          BY <1>1, <3>1, <3>3, <4>3, <4>5, <5>1, RowFacts DEF Fate
        <5>3. ASSUME ~ overlapped PROVE Sensible(new)
          <6>1. FreshOK(old)
            BY <1>1, <2>1, <5>3, Turn
          <6>2. had = row
            BY <1>1, <2>1, <2>2, <2>3, <3>1, <3>6, <4>1, <6>1 DEF FreshOK
          <6> QED BY <4>1, <4>2, <4>5, <6>2, RowFacts DEF Sensible
        <5> QED BY <4>3, <5>2, <5>3
      <4> QED BY <4>4, <4>5
    <3> QED BY <3>4, <3>5, <3>6
  <2>6. att' \in [Regs -> Row]
    <3>1. att' = [x \in Regs |-> att'[x]]
      BY <2>4
    <3> QED BY <2>5, <3>1
  <2>7. SheetOK'
    BY <1>1, <2>5, <2>6, SheetKeeps DEF IInv
  <2>8. RequestsOK' /\ AloneInv'
    BY <1>1, <2>5, DoneTurn
  <2>9. EventOK' /\ PointersOK'
    BY <1>1, PointersStay DEF IInv, EventOK
  <2> QED BY <2>7, <2>8, <2>9 DEF IInv
<1> QED BY <1>2, <1>3

LEMMA ChurchMarkKeeps ==
  ASSUME IInv, NEW r \in Requests, ChurchMark(r)
  PROVE  IInv'
<1>1. /\ req[r].kind = "mark" /\ Church /\ Done(r)
      /\ UNCHANGED <<event, reg, original, proven, started, overlapped>>
  BY DEF ChurchMark, Step
<1>2. PICK x \in req[r].xs :
        att' = IF ChurchWritable /\ Active(x) THEN [att EXCEPT ![x] = req[r].want] ELSE att
  BY DEF ChurchMark
<1>3. PICK old \in ReqType : old = req[r] /\ WantOK(old) /\ KindOK(old)
  BY <1>1, Turn
<1>4. PICK want \in Row : want = old.want
  BY DEF ReqType
<1>5. x \in Regs
  BY <1>2, <1>3 DEF ReqType
<1>6. CASE ChurchWritable /\ Active(x)
  <2>1. att' = [att EXCEPT ![x] = want]
    BY <1>2, <1>3, <1>4, <1>6
  <2>2. want = NoRow \/ (want.status # "none" /\ (want.verified => x \in proven))
    BY <1>1, <1>3, <1>4 DEF WantOK, KindOK
  <2>3. Sensible(want)
    BY <1>3, <1>4 DEF WantOK, Sensible
  <2> QED BY <1>1, <1>5, <1>6, <2>1, <2>2, <2>3, WriteKeeps
<1>7. CASE ~ (ChurchWritable /\ Active(x))
  <2>1. UNCHANGED att
    BY <1>2, <1>7
  <2> QED BY <1>1, <2>1, LeaveKeeps
<1> QED BY <1>6, <1>7

-----------------------------------------------------------------------------
(* One registration changes its status and no pointer changes: it was no   *)
(* duplicate, and if a duplicate points to it, it still exists.            *)
LEMMA StatusKeeps ==
  ASSUME EventOK, PointersOK, NEW x \in Regs, NEW s \in RegStates,
         reg' = [reg EXCEPT ![x] = s], UNCHANGED original,
         reg[x] # "duplicate", s # "duplicate",
         \/ s \in {"confirmed", "uncoded"}
         \/ \A y \in Regs : x \notin original[y]
  PROVE  PointersOK' /\ reg' \in [Regs -> RegStates]
<1>1. reg'[x] = s /\ \A y \in Regs \ {x} : reg'[y] = reg[y]
  BY DEF EventOK
<1>2. ASSUME NEW y \in Regs PROVE PointerOK(y)'
  <2>1. reg'[y] = "duplicate" <=> original'[y] # {}
    BY <1>1 DEF PointersOK, PointerOK
  <2>2. ASSUME NEW z \in original[y] PROVE Exists(z)'
    <3>1. Exists(z) /\ z \in Regs
      BY DEF PointersOK, PointerOK, EventOK
    <3>2. CASE z = x
      BY <1>1, <3>2 DEF Exists, Active
    <3>3. CASE z # x
      BY <1>1, <3>1, <3>3 DEF Exists, Active
    <3> QED BY <3>2, <3>3
  <2> QED BY <2>1, <2>2 DEF PointerOK
<1>3. Acyclic'
  BY DEF PointersOK, Acyclic
<1>4. reg' \in [Regs -> RegStates]
  BY DEF EventOK
<1> QED BY <1>2, <1>3, <1>4 DEF PointersOK

(* Who counts goes on counting when somebody is confirmed.                 *)
LEMMA CountsKeep ==
  ASSUME EventOK, NEW x \in Regs, NEW s \in {"confirmed", "uncoded"},
         reg' = [reg EXCEPT ![x] = s]
  PROVE  Counts(x)' /\ \A y \in Regs : Counts(y) => Counts(y)'
<1>1. reg'[x] = s /\ \A y \in Regs \ {x} : reg'[y] = reg[y]
  BY DEF EventOK
<1> QED BY <1>1 DEF Counts, Active

LEMMA WalkInKeeps ==
  ASSUME IInv, NEW r \in Requests, WalkIn(r)
  PROVE  IInv'
<1>1. /\ req[r].kind \in {"walkIn", "bulkWalkIn"} /\ req[r].kind # "none"
      /\ UNCHANGED <<event, original, proven, started, overlapped>>
  BY DEF WalkIn
<1>2. PICK old \in ReqType : old = req[r] /\ WantOK(old) /\ KindOK(old)
  BY <1>1, Turn
<1>3. /\ EventOK' /\ SheetOK' /\ PointersOK'
      /\ ~ overlapped => \A y \in Regs : Sensible(att'[y])
  <2>1. CASE UNCHANGED <<reg, att>>
    <3>1. ~ overlapped => \A y \in Regs : Sensible(att'[y])
      BY <1>1, <2>1, Turn DEF Alone
    <3> QED BY <1>1, <2>1, <3>1, SteadyKeeps DEF IInv, EventOK
  <2>2. ASSUME NEW x \in Regs, reg[x] = "none", reg' = [reg EXCEPT ![x] = "uncoded"],
               att' = [att EXCEPT ![x] = Present] \/ UNCHANGED att
        PROVE  /\ EventOK' /\ SheetOK' /\ PointersOK'
               /\ ~ overlapped => \A y \in Regs : Sensible(att'[y])
    <3>1. PICK s \in RegStates : s = "uncoded"
      BY DEF RegStates
    <3>2. PointersOK' /\ EventOK'
      BY <1>1, <2>2, <3>1, StatusKeeps DEF IInv, EventOK
    <3>3. Counts(x)' /\ \A y \in Regs : Counts(y) => Counts(y)'
      BY <2>2, <3>1, CountsKeep DEF IInv
    <3>4. PICK row \in Row : row = Present
      BY RowFacts
    <3>5. SheetOK'
      <4>1. CASE att' = [att EXCEPT ![x] = Present]
        BY <1>1, <3>3, <3>4, <4>1, RowFacts, OneWritten DEF IInv
      <4>2. CASE UNCHANGED att
        BY <1>1, <3>3, <4>2, SheetStays DEF IInv
      <4> QED BY <2>2, <4>1, <4>2
    <3>6. ~ overlapped => \A y \in Regs : Sensible(att'[y])
      <4>1. ~ overlapped => \A y \in Regs : Sensible(att[y])
        BY <1>1, Turn DEF Alone
      <4>2. Sensible(row)
        BY <3>4, RowFacts DEF Sensible
      <4>3. CASE att' = [att EXCEPT ![x] = Present]
        BY <3>4, <4>1, <4>2, <4>3, SensibleWritten DEF IInv
      <4>4. CASE UNCHANGED att
        BY <4>1, <4>4 DEF Sensible
      <4> QED BY <2>2, <4>3, <4>4
    <3> QED BY <3>2, <3>5, <3>6
  <2> QED BY <2>1, <2>2 DEF WalkIn
<1>4. CASE Done(r)
  <2>1. RequestsOK' /\ AloneInv'
    BY <1>1, <1>3, <1>4, DoneTurn
  <2> QED BY <1>3, <2>1 DEF IInv
<1>5. CASE UNCHANGED req
  <2>1. req' = [req EXCEPT ![r] = old]
    BY <1>2, <1>5 DEF IInv, RequestsOK
  <2>2. ReqOK(old)'
    BY <1>1, <1>2, ReqStays DEF ReqOK
  <2>3. ~ overlapped => FreshOK(old)'
    <3>1. ~ overlapped => FreshOK(old)
      BY <1>1, <1>2, Turn
    <3> QED BY <1>1, <1>2, <3>1 DEF FreshOK, Church
  <2>4. RequestsOK' /\ AloneInv'
    BY <1>1, <1>3, <2>1, <2>2, <2>3, TurnKeeps
  <2> QED BY <1>3, <2>4 DEF IInv
<1> QED BY <1>4, <1>5 DEF WalkIn

LEMMA RemoveKeeps ==
  ASSUME IInv, NEW r \in Requests, Remove(r)
  PROVE  IInv'
<1>1. /\ req[r].kind = "remove" /\ Done(r)
      /\ UNCHANGED <<event, original, proven, started, overlapped>>
  BY DEF Remove
<1>2. PICK x \in req[r].xs :
        IF Active(x) /\ ~ Restricted(x)
        THEN reg' = [reg EXCEPT ![x] = "gone"] /\ att' = Cascaded(x)
        ELSE UNCHANGED <<reg, att>>
  BY DEF Remove
<1>3. x \in Regs
  <2>1. req[r].xs \in SUBSET Regs
    BY <1>1, Turn DEF ReqType
  <2> QED BY <1>2, <2>1
<1>4. CASE ~ (Active(x) /\ ~ Restricted(x))
  <2>1. UNCHANGED <<reg, att>>
    BY <1>2, <1>4
  <2> QED BY <1>1, <2>1, LeaveKeeps
<1>5. CASE Active(x) /\ ~ Restricted(x)
  <2>1. reg' = [reg EXCEPT ![x] = "gone"] /\ att' = [att EXCEPT ![x] = NoRow]
    BY <1>2, <1>5 DEF Cascaded
  <2>2. PICK s \in RegStates : s = "gone"
    BY DEF RegStates
  <2>3. PointersOK' /\ EventOK'
    BY <1>1, <1>3, <1>5, <2>1, <2>2, StatusKeeps DEF IInv, EventOK, Restricted, Active
  <2>4. PICK row \in Row : row = NoRow
    BY RowFacts
  <2>5. SheetOK'
    <3>1. att' \in [Regs -> Row]
      BY <2>1, <2>4 DEF IInv, SheetOK
    <3>2. Fate(x)
      BY <1>3, <2>1 DEF Fate, IInv, SheetOK
    <3>3. ASSUME NEW y \in Regs \ {x} PROVE Fate(y)
      <4>1. att'[y] = att[y] /\ reg'[y] = reg[y]
        BY <2>1, <3>3 DEF IInv, SheetOK, EventOK
      <4> QED BY <4>1 DEF Fate, Counts, Active
    <3> QED BY <1>1, <3>1, <3>2, <3>3, SheetKeeps DEF IInv
  <2>6. ~ overlapped => \A y \in Regs : Sensible(att'[y])
    <3>1. Sensible(row)
      BY <2>4, RowFacts DEF Sensible
    <3> QED BY <1>1, <1>3, <2>1, <2>4, <3>1, Turn, SensibleWritten DEF IInv, Alone
  <2>7. RequestsOK' /\ AloneInv'
    BY <1>1, <2>6, DoneTurn
  <2> QED BY <2>3, <2>5, <2>7 DEF IInv
<1> QED BY <1>4, <1>5

LEMMA FinalizeKeeps ==
  ASSUME IInv, NEW r \in Requests, Finalize(r)
  PROVE  IInv'
<1>1. /\ req[r].kind = "finalize" /\ Done(r) /\ event' = [event EXCEPT !.readOnly = TRUE]
      /\ UNCHANGED <<reg, original, att, proven, started, overlapped>>
  BY DEF Finalize
<1>2. event' \in [kind : EventKinds, readOnly : BOOLEAN] /\ event'.kind = event.kind
  BY <1>1 DEF IInv, EventOK
<1>3. ~ overlapped => \A x \in Regs : Sensible(att'[x])
  BY <1>1, Turn DEF Alone
<1>4. RequestsOK' /\ AloneInv'
  BY <1>1, <1>2, <1>3, DoneTurn
<1>5. EventOK'
  BY <1>1, <1>2 DEF IInv, EventOK
<1>6. SheetOK' /\ PointersOK'
  BY <1>1, SteadyKeeps DEF IInv
<1> QED BY <1>4, <1>5, <1>6 DEF IInv

(* What no request does leaves the requests as they are.                   *)
LEMMA OutsideKeeps ==
  ASSUME IInv, UNCHANGED <<event, att, req, proven, started, overlapped>>
  PROVE  RequestsOK' /\ AloneInv'
<1>1. RequestsOK'
  BY DEF IInv, RequestsOK, ReqOK, WantOK, KindOK, Church
<1>2. AloneInv'
  BY DEF IInv, AloneInv, Alone, FreshOK, Church
<1> QED BY <1>1, <1>2

LEMMA SubmitKeeps ==
  ASSUME IInv, NEW x \in Regs, Submit(x)
  PROVE  IInv'
<1>1. /\ UNCHANGED <<event, original, att, req, proven, started, overlapped>>
      /\ reg[x] \in {"none", "uncoded"} /\ reg' = [reg EXCEPT ![x] = "confirmed"]
  BY DEF Submit
<1>2. PICK s \in RegStates : s = "confirmed"
  BY DEF RegStates
<1>3. PointersOK' /\ EventOK'
  BY <1>1, <1>2, StatusKeeps DEF IInv, EventOK
<1>4. SheetOK'
  BY <1>1, <1>2, CountsKeep, SheetStays DEF IInv
<1>5. RequestsOK' /\ AloneInv'
  BY <1>1, OutsideKeeps
<1> QED BY <1>3, <1>4, <1>5 DEF IInv

(* Nobody points to a held registration, so a pointer out of it closes no  *)
(* circle.                                                                 *)
LEMMA ResolveKeeps ==
  ASSUME IInv, NEW x \in Regs, resolveHeld(x)
  PROVE  IInv'
<1>1. reg[x] = "held" /\ UNCHANGED <<event, att, req, proven, started, overlapped>>
  BY DEF resolveHeld
<1>2. RequestsOK' /\ AloneInv'
  BY <1>1, OutsideKeeps
<1>3. CASE reg' = [reg EXCEPT ![x] = "confirmed"] /\ UNCHANGED original
  <2>1. PICK s \in RegStates : s = "confirmed"
    BY DEF RegStates
  <2>2. PointersOK' /\ EventOK'
    BY <1>1, <1>3, <2>1, StatusKeeps DEF IInv, EventOK
  <2>3. SheetOK'
    BY <1>1, <1>3, <2>1, CountsKeep, SheetStays DEF IInv
  <2> QED BY <1>2, <2>2, <2>3 DEF IInv
<1>4. ASSUME NEW y \in Regs \ {x}, DuplicateOf(x, y), reg' = [reg EXCEPT ![x] = "duplicate"],
             original' = [original EXCEPT ![x] = {y}]
      PROVE  IInv'
  <2>1. reg'[x] = "duplicate" /\ \A z \in Regs \ {x} : reg'[z] = reg[z]
    BY <1>4 DEF IInv, EventOK
  <2>2. original'[x] = {y} /\ \A z \in Regs \ {x} : original'[z] = original[z]
    BY <1>4 DEF IInv, EventOK
  <2>3. EventOK'
    <3>1. reg' \in [Regs -> RegStates]
      BY <1>4 DEF IInv, EventOK, RegStates
    <3>2. original' \in [Regs -> SUBSET Regs]
      BY <1>4 DEF IInv, EventOK
    <3> QED BY <1>1, <3>1, <3>2 DEF IInv, EventOK
  <2>4. SheetOK'
    <3>1. att[x] = NoRow
      BY <1>4 DEF DuplicateOf
    <3>2. Fate(x)
      BY <1>1, <3>1 DEF Fate
    <3>3. \A z \in Regs \ {x} : Fate(z)
      BY <1>1, <2>1 DEF Fate, Counts, Active
    <3> QED BY <1>1, <3>2, <3>3, SheetKeeps DEF IInv, SheetOK
  <2>5. \A z \in Regs : x \notin original[z]
    BY <1>1 DEF IInv, PointersOK, PointerOK, Exists, Active
  <2>6. Exists(y)'
    <3>1. reg[y] \in RegStates /\ reg[y] \notin {"none", "held", "gone"}
      BY <1>4 DEF DuplicateOf, IInv, EventOK
    <3> QED BY <2>1, <3>1 DEF Exists, Active, RegStates
  <2>7. ASSUME NEW z \in Regs PROVE PointerOK(z)'
    <3>1. CASE z = x
      BY <2>1, <2>2, <2>6, <3>1 DEF PointerOK
    <3>2. CASE z # x
      <4>1. PointerOK(z)
        BY DEF IInv, PointersOK
      <4>2. original[z] \subseteq Regs \ {x}
        BY <2>5 DEF IInv, EventOK
      <4>3. \A w \in original'[z] : Exists(w)'
        BY <2>1, <2>2, <3>2, <4>1, <4>2 DEF PointerOK, Exists, Active
      <4> QED BY <2>1, <2>2, <3>2, <4>1, <4>3 DEF PointerOK
    <3> QED BY <3>1, <3>2
  <2>8. ASSUME NEW xs \in (SUBSET Regs) \ {{}} PROVE \E z \in xs : original'[z] \cap xs = {}
    <3>1. CASE \A z \in xs : z = x
      <4>1. PICK z \in xs : z = x
        BY <3>1
      <4>2. y \notin xs
        BY <3>1
      <4> QED BY <2>2, <4>1, <4>2
    <3>2. CASE \E z \in xs : z # x
      <4>1. xs \ {x} \in (SUBSET Regs) \ {{}}
        BY <3>2
      <4>2. PICK z \in xs \ {x} : original[z] \cap (xs \ {x}) = {}
        BY <4>1 DEF IInv, PointersOK, Acyclic
      <4> QED BY <2>2, <2>5, <4>2
    <3> QED BY <3>1, <3>2
  <2>9. PointersOK'
    BY <2>7, <2>8 DEF PointersOK, Acyclic
  <2> QED BY <1>2, <2>3, <2>4, <2>9 DEF IInv
<1> QED BY <1>3, <1>4 DEF resolveHeld

-----------------------------------------------------------------------------
LEMMA InitIInv == Init => IInv
<1> SUFFICES ASSUME Init PROVE IInv
  OBVIOUS
<1>1. PICK marked \in SUBSET Held : att = [x \in Regs |-> IF x \in marked THEN Present ELSE NoRow]
  BY DEF Init
<1>2. EventOK
  <2>1. reg \in [Regs -> RegStates] /\ original \in [Regs -> SUBSET Regs]
    BY DEF Init, RegStates
  <2>2. event \in [kind : EventKinds, readOnly : BOOLEAN]
    BY DEF Init
  <2>3. proven \subseteq Regs /\ started \in 0 .. MaxRequests /\ overlapped \in BOOLEAN
    <3>1. proven = {} /\ started = 0 /\ overlapped = FALSE
      BY DEF Init
    <3>2. MaxRequests \in Nat
      BY AttendanceAssumption
    <3>3. started \in 0 .. MaxRequests
      BY <3>1, <3>2
    <3>4. overlapped \in BOOLEAN /\ proven \subseteq Regs
      BY <3>1
    <3> QED BY <3>3, <3>4
  <2> QED BY <2>1, <2>2, <2>3 DEF EventOK
<1>3. SheetOK
  <2>1. att \in [Regs -> Row]
    BY <1>1, RowFacts
  <2>2. ASSUME NEW x \in Regs PROVE AttOK(x)
    <3>1. CASE x \in marked
      <4>1. att[x] = Present
        BY <1>1, <3>1
      <4>2. reg[x] = "held"
        BY <1>1, <3>1, AttendanceAssumption DEF Init
      <4> QED BY <4>1, <4>2, RowFacts DEF AttOK, Counts
    <3>2. CASE x \notin marked
      <4>1. att[x] = NoRow
        BY <1>1, <3>2
      <4> QED BY <4>1, RowFacts DEF AttOK
    <3> QED BY <3>1, <3>2
  <2> QED BY <2>1, <2>2 DEF SheetOK
<1>4. PointersOK
  <2>1. \A x \in Regs : original[x] = {} /\ reg[x] # "duplicate"
    BY DEF Init
  <2>2. Acyclic
    BY <2>1 DEF Acyclic
  <2> QED BY <2>1, <2>2 DEF PointersOK, PointerOK
<1>5. RequestsOK
  <2>1. req \in [Requests -> ReqType]
    BY IdleOK DEF Init
  <2>2. \A r \in Requests : req[r] = Idle
    BY DEF Init
  <2> QED BY <2>1, <2>2, IdleReq DEF RequestsOK
<1>6. AloneInv
  <2>1. \A r \in Requests : req[r] = Idle
    BY DEF Init
  <2>2. \A x \in Regs : att[x] = Present \/ att[x] = NoRow
    BY <1>1
  <2>3. \A x \in Regs : Sensible(att[x])
    BY <2>2, RowFacts DEF Sensible
  <2> QED BY <2>1, <2>3, IdleReq DEF AloneInv, Alone
<1> QED BY <1>2, <1>3, <1>4, <1>5, <1>6 DEF IInv

LEMMA StepIInv == IInv /\ [Next]_vars => IInv'
<1> SUFFICES ASSUME IInv, [Next]_vars PROVE IInv'
  OBVIOUS
<1>1. CASE UNCHANGED vars
  <2>1. UNCHANGED <<event, reg, original, att, req, proven, started, overlapped>>
    BY <1>1 DEF vars
  <2>2. RequestsOK' /\ AloneInv'
    BY <2>1, OutsideKeeps
  <2>3. EventOK' /\ SheetOK' /\ PointersOK'
    BY <2>1, SteadyKeeps DEF IInv, EventOK
  <2> QED BY <2>2, <2>3 DEF IInv
<1>2. ASSUME NEW r \in Requests, BindMark(r) \/ Load(r) \/ Select(r) \/ Save(r)
      PROVE  IInv'
  BY <1>2, BindMarkKeeps, LoadKeeps, SelectKeeps, SaveKeeps
<1>3. ASSUME NEW r \in Requests, BindBulk(r) \/ SelectBulk(r) \/ SaveBulk(r)
      PROVE  IInv'
  BY <1>3, BindBulkKeeps, SelectBulkKeeps, SaveBulkKeeps
<1>4. ASSUME NEW r \in Requests, BindWalkIn(r) \/ BindRemove(r) \/ BindFinalize(r)
      PROVE  IInv'
  BY <1>4, BindOtherKeeps
<1>5. ASSUME NEW r \in Requests, WalkIn(r) \/ Remove(r) \/ Finalize(r)
      PROVE  IInv'
  BY <1>5, WalkInKeeps, RemoveKeeps, FinalizeKeeps
<1>6. ASSUME NEW r \in Requests, BindChurchMark(r) \/ ChurchMark(r)
      PROVE  IInv'
  BY <1>6, BindChurchMarkKeeps, ChurchMarkKeeps
<1>7. ASSUME NEW x \in Regs, resolveHeld(x) \/ Submit(x)
      PROVE  IInv'
  BY <1>7, ResolveKeeps, SubmitKeeps
<1> QED BY <1>1, <1>2, <1>3, <1>4, <1>5, <1>6, <1>7 DEF Next

LEMMA SpecIInv == Spec => []IInv
BY InitIInv, StepIInv, PTL DEF Spec

LEMMA SheetFromIInv == IInv => SheetConsistent
<1> SUFFICES ASSUME IInv PROVE SheetConsistent
  OBVIOUS
<1>1. TypeOK
  <2>1. req \in [Requests -> ReqType]
    BY DEF IInv, RequestsOK
  <2>2. /\ event \in [kind : EventKinds, readOnly : BOOLEAN]
        /\ reg \in [Regs -> RegStates] /\ original \in [Regs -> SUBSET Regs]
        /\ proven \subseteq Regs /\ started \in 0 .. MaxRequests /\ overlapped \in BOOLEAN
    BY DEF IInv, EventOK
  <2>3. /\ att \in [Regs -> Row]
        /\ \A x \in Regs : att[x].status = "none" <=> att[x] = NoRow
    BY DEF IInv, SheetOK, AttOK
  <2> QED BY <2>1, <2>2, <2>3 DEF TypeOK, ReqType, RegStates
<1>2. AttendanceOnlyActive
  BY DEF IInv, SheetOK, AttOK, Counts, AttendanceOnlyActive
<1>3. DuplicateHasOriginal
  BY DEF IInv, PointersOK, PointerOK, Acyclic, Exists, DuplicateHasOriginal
<1>4. VerifiedNeedsCode
  BY DEF IInv, SheetOK, AttOK, VerifiedNeedsCode
<1>5. AbsenceConsistent
  <2> SUFFICES ASSUME ~ overlapped, NEW x \in Regs
               PROVE  /\ Absent(x) => ~ att[x].verified
                      /\ att[x] # NoRow => (Absent(x) <=> ~ att[x].timed)
    BY DEF AbsenceConsistent, VerifiedIsPresent
  <2>1. Sensible(att[x])
    BY DEF IInv, AloneInv, Alone
  <2>2. att[x].status \in {"none", "present", "absent"}
        /\ (att[x].status = "none" => att[x] = NoRow)
    BY DEF IInv, SheetOK, AttOK, Row
  <2> QED BY <2>1, <2>2 DEF Sensible, Absent
<1> QED BY <1>1, <1>2, <1>3, <1>4, <1>5 DEF SheetConsistent

(* However many requests overlap, the sheet agrees with the registrations: *)
(* only people who count have attendance, a duplicate leads to an original *)
(* and a proof was typed; and without an overlap an absence has neither a  *)
(* proof nor a time of arrival.                                            *)
THEOREM SheetStaysConsistent == Spec => []SheetConsistent
BY SpecIInv, SheetFromIInv, PTL

-----------------------------------------------------------------------------
(* A church event takes no codes, so that nothing is proved at it.         *)
ChurchUnproven == Church => proven = {}

LEMMA SpecChurch == Spec => []ChurchUnproven
<1>1. Init => ChurchUnproven
  BY DEF Init, ChurchUnproven
<1>2. ChurchUnproven /\ IInv /\ [Next]_vars => ChurchUnproven'
  <2> SUFFICES ASSUME ChurchUnproven, IInv, [Next]_vars PROVE ChurchUnproven'
    OBVIOUS
  <2>1. ASSUME UNCHANGED proven, event'.kind = event.kind PROVE ChurchUnproven'
    BY <2>1 DEF ChurchUnproven, Church
  <2>2. CASE UNCHANGED vars
    BY <2>1, <2>2 DEF vars
  <2>3. ASSUME NEW r \in Requests, BindMark(r) PROVE ChurchUnproven'
    BY <2>3 DEF BindMark, ChurchUnproven, Church
  <2>4. ASSUME NEW r \in Requests, Load(r) \/ Select(r) \/ Save(r) PROVE ChurchUnproven'
    BY <2>1, <2>4 DEF Load, Select, Save
  <2>5. ASSUME NEW r \in Requests, BindBulk(r) \/ SelectBulk(r) \/ SaveBulk(r)
        PROVE  ChurchUnproven'
    BY <2>1, <2>5 DEF BindBulk, SelectBulk, SaveBulk
  <2>6. ASSUME NEW r \in Requests, BindWalkIn(r) \/ WalkIn(r) \/ BindRemove(r) \/ Remove(r)
        PROVE  ChurchUnproven'
    BY <2>1, <2>6 DEF BindWalkIn, WalkIn, BindRemove, Remove
  <2>7. ASSUME NEW r \in Requests, BindChurchMark(r) \/ ChurchMark(r) \/ BindFinalize(r)
        PROVE  ChurchUnproven'
    BY <2>1, <2>7 DEF BindChurchMark, ChurchMark, BindFinalize
  <2>8. ASSUME NEW r \in Requests, Finalize(r) PROVE ChurchUnproven'
    <3>1. event'.kind = event.kind /\ UNCHANGED proven
      BY <2>8 DEF Finalize, IInv, EventOK
    <3> QED BY <2>1, <3>1
  <2>9. ASSUME NEW x \in Regs, resolveHeld(x) \/ Submit(x) PROVE ChurchUnproven'
    BY <2>1, <2>9 DEF resolveHeld, Submit
  <2> QED BY <2>2, <2>3, <2>4, <2>5, <2>6, <2>7, <2>8, <2>9 DEF Next
<1> QED BY <1>1, <1>2, SpecIInv, PTL DEF Spec

(* What a step does to one row and to a completed event's sheet, while no  *)
(* two requests have overlapped and whenever they have.                    *)
KeptStep(x) ==
  att[x].verified /\ att'[x].status = "present" =>
    \/ att'[x].verified
    \/ overlapped
    \/ \E r \in Requests : req[r].kind = "bulkMark" /\ x \in req[r].xs
FrozenStep == event.readOnly /\ att' # att => \E r \in Requests : LateWriter(r)

LEMMA SteadyStep ==
  ASSUME UNCHANGED att PROVE FrozenStep /\ \A x \in Regs : KeptStep(x)
BY DEF FrozenStep, KeptStep

(* Only one row differs, and it is as before or was not proved.            *)
LEMMA OneRowKept ==
  ASSUME SheetOK, NEW x \in Regs, NEW row, att' = [att EXCEPT ![x] = row],
         \/ ~ att[x].verified \/ overlapped
         \/ row.status = "present" => row.verified
  PROVE  \A y \in Regs : KeptStep(y)
<1>1. att'[x] = row /\ \A y \in Regs \ {x} : att'[y] = att[y]
  BY DEF SheetOK
<1> QED BY <1>1 DEF KeptStep

(* Alone, nothing but a removal acts on an event that is completed.        *)
LEMMA OnlyRemovalLate ==
  ASSUME IInv, NEW r \in Requests, req[r].kind \notin {"none", "remove"}, event.readOnly
  PROVE  overlapped
<1> SUFFICES ASSUME ~ overlapped PROVE FALSE
  BY DEF IInv, EventOK
<1>1. FreshOK(req[r])
  BY DEF IInv, AloneInv, Alone
<1> QED BY <1>1, IdleOK DEF FreshOK

LEMMA SaveRecord ==
  ASSUME IInv, NEW r \in Requests, Save(r)
  PROVE  FrozenStep /\ \A x \in Regs : KeptStep(x)
<1>1. req[r].kind = "mark" /\ req[r].pc = "selected" /\ ~ Church
  BY DEF Save, Step
<1>2. FrozenStep
  BY <1>1, OnlyRemovalLate DEF FrozenStep, LateWriter
<1>3. PICK old \in ReqType : old = req[r] /\ KindOK(old)
  BY <1>1, Turn
<1>4. PICK x \in Regs : old.xs = {x}
  BY <1>1, <1>3 DEF KindOK
<1>5. PICK want \in Row, read \in Row, stamp \in BOOLEAN :
        want = old.want /\ read = old.read[x] /\ stamp = old.stamp
  BY DEF ReqType
<1>6. PICK row \in Row : row = att[x]
  BY DEF IInv, SheetOK
<1>7. \/ UNCHANGED att
      \/ row = NoRow /\ att' = [att EXCEPT ![x] = want]
      \/ att' = [att EXCEPT ![x] = Updated(row, read, want, stamp)]
  BY <1>3, <1>4, <1>5, <1>6 DEF Save
<1>8. CASE UNCHANGED att
  BY <1>2, <1>8, SteadyStep
<1>9. CASE row = NoRow /\ att' = [att EXCEPT ![x] = want]
  <2>1. ~ att[x].verified
    BY <1>6, <1>9, RowFacts
  <2> QED BY <1>2, <1>9, <2>1, OneRowKept DEF IInv
<1>10. CASE att' = [att EXCEPT ![x] = Updated(row, read, want, stamp)]
  <2>1. PICK new \in Row :
          /\ new = Updated(row, read, want, stamp)
          /\ row.status = "none" => new = row
          /\ row.status # "none" /\ read = row => new = want
    BY UpdatedRow
  <2>2. \/ ~ att[x].verified \/ overlapped
        \/ new.status = "present" => new.verified
    <3> SUFFICES ASSUME row.verified, ~ overlapped, new.status = "present" PROVE new.verified
      BY <1>6
    <3>1. FreshOK(old)
      BY <1>1, <1>3, Turn
    <3>2. /\ read = row
          /\ want.verified <=> want.status = "present" /\ (row.verified \/ stamp)
      BY <1>1, <1>3, <1>4, <1>5, <1>6, <3>1 DEF FreshOK
    <3>3. CASE row.status = "none"
      BY <2>1, <3>3
    <3>4. CASE row.status # "none"
      <4>1. new = want
        BY <2>1, <3>2, <3>4
      <4> QED BY <3>2, <4>1
    <3> QED BY <3>3, <3>4
  <2> QED BY <1>2, <1>10, <2>1, <2>2, OneRowKept DEF IInv
<1> QED BY <1>7, <1>8, <1>9, <1>10

LEMMA BulkRecord ==
  ASSUME IInv, NEW r \in Requests, SaveBulk(r)
  PROVE  FrozenStep /\ \A x \in Regs : KeptStep(x)
<1>1. req[r].kind = "bulkMark"
  BY DEF SaveBulk, Step
<1>2. ~ Church
  BY <1>1, Turn DEF KindOK
<1>3. FrozenStep
  BY <1>1, <1>2, OnlyRemovalLate DEF FrozenStep, LateWriter
<1>4. ASSUME NEW x \in Regs PROVE KeptStep(x)
  <2>1. CASE x \in req[r].xs
    BY <1>1, <2>1 DEF KeptStep
  <2>2. CASE x \notin req[r].xs
    <3>1. att'[x] = att[x]
      BY <2>2 DEF SaveBulk
    <3> QED BY <3>1 DEF KeptStep
  <2> QED BY <2>1, <2>2
<1> QED BY <1>3, <1>4

LEMMA WalkInRecord ==
  ASSUME IInv, NEW r \in Requests, WalkIn(r)
  PROVE  FrozenStep /\ \A x \in Regs : KeptStep(x)
<1>1. req[r].kind \in {"walkIn", "bulkWalkIn"}
  BY DEF WalkIn
<1>2. ~ Church
  BY <1>1, Turn DEF KindOK
<1>3. CASE UNCHANGED att
  BY <1>3, SteadyStep
<1>4. ASSUME NEW x \in Regs, reg[x] = "none", att' = [att EXCEPT ![x] = Present],
             ensureAttendanceWritable(r)
      PROVE  FrozenStep /\ \A y \in Regs : KeptStep(y)
  <2>1. FrozenStep
    BY <1>1, <1>2, <1>4, OnlyRemovalLate DEF FrozenStep, LateWriter, ensureAttendanceWritable
  <2>2. ~ att[x].verified
    BY <1>4, RowFacts DEF IInv, SheetOK, AttOK, Counts, Active
  <2> QED BY <1>4, <2>1, <2>2, OneRowKept DEF IInv
<1> QED BY <1>3, <1>4 DEF WalkIn

LEMMA ChurchMarkRecord ==
  ASSUME IInv, ChurchUnproven, NEW r \in Requests, ChurchMark(r)
  PROVE  FrozenStep /\ \A x \in Regs : KeptStep(x)
<1>1. Church /\ req[r].kind = "mark"
  BY DEF ChurchMark, Step
<1>2. PICK x \in req[r].xs :
        att' = IF ChurchWritable /\ Active(x) THEN [att EXCEPT ![x] = req[r].want] ELSE att
  BY DEF ChurchMark
<1>3. x \in Regs
  <2>1. req[r].xs \in SUBSET Regs
    BY <1>1, Turn DEF ReqType
  <2> QED BY <1>2, <2>1
<1>4. CASE UNCHANGED att
  BY <1>4, SteadyStep
<1>5. CASE ~ event.readOnly /\ att' = [att EXCEPT ![x] = req[r].want]
  <2>1. FrozenStep
    BY <1>5 DEF FrozenStep
  <2>2. ~ att[x].verified
    BY <1>1, <1>3 DEF ChurchUnproven, IInv, SheetOK, AttOK
  <2> QED BY <1>3, <1>5, <2>1, <2>2, OneRowKept DEF IInv
<1> QED BY <1>2, <1>4, <1>5 DEF ChurchWritable

LEMMA RemoveRecord ==
  ASSUME IInv, NEW r \in Requests, Remove(r)
  PROVE  FrozenStep /\ \A x \in Regs : KeptStep(x)
<1>1. req[r].kind = "remove"
  BY DEF Remove
<1>2. PICK x \in req[r].xs : att' = [att EXCEPT ![x] = NoRow] \/ UNCHANGED att
  BY DEF Remove, Cascaded
<1>3. x \in Regs
  <2>1. req[r].xs \in SUBSET Regs
    BY <1>1, Turn DEF ReqType
  <2> QED BY <1>2, <2>1
<1>4. \A y \in Regs : KeptStep(y)
  BY <1>2, <1>3, RowFacts, SteadyStep, OneRowKept DEF IInv
<1>5. FrozenStep
  <2> SUFFICES ASSUME event.readOnly PROVE LateWriter(r)
    BY DEF FrozenStep
  <2>1. CASE overlapped
    BY <1>1, <2>1 DEF LateWriter
  <2>2. CASE ~ overlapped
    <3>1. FreshOK(req[r])
      BY <2>2 DEF IInv, AloneInv, Alone
    <3> QED BY <1>1, <3>1, IdleOK DEF FreshOK, LateWriter
  <2> QED BY <2>1, <2>2
<1> QED BY <1>4, <1>5

LEMMA StepRecord ==
  IInv /\ ChurchUnproven /\ [Next]_vars => FrozenStep /\ \A x \in Regs : KeptStep(x)
<1> SUFFICES ASSUME IInv, ChurchUnproven, [Next]_vars
             PROVE  FrozenStep /\ \A x \in Regs : KeptStep(x)
  OBVIOUS
<1>1. CASE UNCHANGED vars
  BY <1>1, SteadyStep DEF vars
<1>2. ASSUME NEW r \in Requests, \/ BindMark(r) \/ Load(r) \/ Select(r) \/ BindBulk(r)
                                 \/ SelectBulk(r) \/ BindWalkIn(r) \/ BindChurchMark(r)
                                 \/ BindRemove(r) \/ BindFinalize(r) \/ Finalize(r)
      PROVE  FrozenStep /\ \A x \in Regs : KeptStep(x)
  <2>1. UNCHANGED att
    BY <1>2 DEF BindMark, Load, Select, BindBulk, SelectBulk, BindWalkIn, BindChurchMark,
                BindRemove, BindFinalize, Finalize
  <2> QED BY <2>1, SteadyStep
<1>3. ASSUME NEW r \in Requests, \/ Save(r) \/ SaveBulk(r) \/ WalkIn(r) \/ ChurchMark(r)
                                 \/ Remove(r)
      PROVE  FrozenStep /\ \A x \in Regs : KeptStep(x)
  BY <1>3, SaveRecord, BulkRecord, WalkInRecord, ChurchMarkRecord, RemoveRecord
<1>4. ASSUME NEW x \in Regs, resolveHeld(x) \/ Submit(x)
      PROVE  FrozenStep /\ \A y \in Regs : KeptStep(y)
  <2>1. UNCHANGED att
    BY <1>4 DEF resolveHeld, Submit
  <2> QED BY <2>1, SteadyStep
<1> QED BY <1>1, <1>2, <1>3, <1>4 DEF Next

(* A proof by code outlives every later marking as present that no other   *)
(* request overlaps, but for a batch; and the sheet of a completed event   *)
(* is changed by nobody but a removal at a church event or a request that  *)
(* another one overlaps.                                                   *)
THEOREM RecordStaysKept == Spec => RecordKept
<1>1. IInv /\ ChurchUnproven /\ [Next]_vars => [FrozenStep /\ \A x \in Regs : KeptStep(x)]_vars
  BY StepRecord
<1>2. Spec => [][FrozenStep /\ \A x \in Regs : KeptStep(x)]_vars
  BY <1>1, SpecIInv, SpecChurch, PTL DEF Spec
<1>3. (FrozenStep /\ \A x \in Regs : KeptStep(x)) =>
        /\ \A x \in Regs : att[x].verified /\ att'[x].status = "present" =>
             \/ att'[x].verified
             \/ overlapped
             \/ \E r \in Requests : req[r].kind = "bulkMark" /\ x \in req[r].xs
        /\ event.readOnly /\ att' # att => \E r \in Requests : LateWriter(r)
  BY DEF FrozenStep, KeptStep
<1> QED BY <1>2, <1>3, PTL DEF RecordKept, VerificationKept, AttendanceFrozen
-----------------------------------------------------------------------------
(* The pages that send these requests: the desk of an event, or the list   *)
(* of a church activity (AttendancePages).                                 *)

(* The list is sound, and its rows have their columns.                     *)
Columns == {"person", "track", "status", "group"}
ListOK ==
  /\ RosterTypeOK /\ ListSound
  /\ \A r \in DOMAIN rows : DOMAIN rows[r] = Columns

(* A request that adds names a person and one of the lists.                *)
AskOK(q) == q.op = "add" => q.person \in Persons /\ q.track \in Lists

(* The dialog that adds a person, whatever was entered so far.             *)
FormOK(a) == a.person \in Persons \cup {""} /\ DOMAIN a = {"open", "person", "group"}

ListInv ==
  /\ ListOK
  /\ FormOK(adding)
  /\ request # NoRequest => AskOK(request.ask) /\ DOMAIN request = {"ask", "state"}
  /\ confirm # NoDialog => confirm.op # "add"

LEMMA ListInit == ASSUME RosterConstants, RosterInit PROVE ListInv
<1>1. FormOK(adding) /\ request = NoRequest /\ confirm = NoDialog
  BY DEF RosterInit, FormOK
<1>2. roster \in {"fellowship", "service", "church"} /\ added = 0 /\ closed = FALSE /\ tab = "member"
  BY DEF RosterInit
<1>3. tab \in Lists /\ "member" \in Lists
  BY <1>2 DEF Lists, Tracks
<1>6. added \in 0..MaxRows
  <2>1. MaxRows \in Nat
    BY DEF RosterConstants
  <2> QED BY <1>2, <2>1
<1>4. CASE roster = "church"
  <2>1. PICK p : p \in Persons /\ p = CHOOSE q \in Persons : TRUE
    BY DEF RosterConstants
  <2>2. rows = [r \in 1..1 |-> RowOf(p, "member", "unmarked", NoGroup)]
    BY <1>4, <2>1 DEF RosterInit
  <2>3. \A r \in DOMAIN rows : r = 1 /\ rows[r] = [person |-> p, track |-> "member", status |-> "unmarked", group |-> NoGroup]
    BY <2>2 DEF RowOf
  <2>4. ListSound /\ \A r \in DOMAIN rows : rows[r].person \in Persons /\ rows[r].track \in Lists
    BY <1>3, <2>1, <2>3 DEF ListSound
  <2>5. \A r \in DOMAIN rows : DOMAIN rows[r] = Columns
    BY <2>3 DEF Columns
  <2>6. ListOK
    BY <1>2, <1>3, <1>6, <2>4, <2>5 DEF ListOK, RosterTypeOK
  <2> QED BY <1>1, <2>6 DEF ListInv
<1>5. CASE roster # "church"
  <2>3. rows = << >>
    BY <1>5 DEF RosterInit
  <2>1. DOMAIN rows = {}
    BY <2>3
  <2>2. ListSound
    BY <2>1 DEF ListSound
  <2>4. ListOK
    BY <1>2, <1>3, <1>6, <2>1, <2>2 DEF ListOK, RosterTypeOK
  <2> QED BY <1>1, <2>4 DEF ListInv
<1> QED BY <1>4, <1>5

(* Each of the server's operations keeps the list sound.                   *)
LEMMA StoreKeeps ==
  ASSUME RosterConstants, ListOK, UNCHANGED <<roster, tab, closed>>, NEW p \in Persons, NEW t \in Lists, NEW g,
         store(p, t, g)
  PROVE  ListOK'
<1> DEFINE row == RowOf(p, t, "present", g)
<1>1. /\ added < MaxRows /\ added' = added + 1 /\ rows' = WithRow(added', row) /\ groups' = groups
      /\ g \in groups \cup {NoGroup}
  BY DEF store
<1>2. \A r \in DOMAIN rows : rows[r].person # p
  <2>1. t \in Tracks /\ \A r \in DOMAIN rows : rows[r].track \in Tracks
    BY DEF ListOK, RosterTypeOK, Lists, Tracks
  <2> QED BY <2>1 DEF store, OnOtherTrack, OnSameTrack
<1>3. row.person = p /\ row.track = t /\ row.group = g /\ DOMAIN row = Columns
  BY DEF RowOf, Columns
<1>4. PICK id : id = added'
  OBVIOUS
<1>5. /\ DOMAIN rows' = DOMAIN rows \cup {id}
      /\ \A r \in DOMAIN rows' : rows'[r] = IF r = id THEN row ELSE rows[r]
  BY <1>1, <1>4 DEF WithRow
<1>6. added' \in 0..MaxRows
  <2>1. MaxRows \in Nat /\ added \in 0..MaxRows
    BY DEF ListOK, RosterTypeOK, RosterConstants
  <2> QED BY <1>1, <2>1
<1>7. Lists' = Lists
  BY DEF Lists
<1> HIDE DEF row
<1>8. RosterTypeOK'
  BY <1>3, <1>5, <1>6, <1>7 DEF ListOK, RosterTypeOK
<1>9. ListSound'
  BY <1>1, <1>2, <1>3, <1>5 DEF ListOK, ListSound
<1>10. \A r \in DOMAIN rows' : DOMAIN rows'[r] = Columns
  BY <1>3, <1>5 DEF ListOK
<1> QED BY <1>8, <1>9, <1>10 DEF ListOK

LEMMA MarkKeeps ==
  ASSUME ListOK, UNCHANGED <<roster, tab, closed>>, NEW r, NEW s, NEW g, markRow(r, s, g)
  PROVE  ListOK'
<1>1. /\ rows' = [rows EXCEPT ![r].status = s, ![r].group = g] /\ UNCHANGED <<added, groups>>
      /\ r \in DOMAIN rows /\ g \in groups \cup {NoGroup}
  BY DEF markRow
<1>2. /\ DOMAIN rows' = DOMAIN rows
      /\ \A x \in DOMAIN rows : rows'[x] = IF x = r THEN [rows[r] EXCEPT !.status = s, !.group = g] ELSE rows[x]
  BY <1>1
<1>3. \A x \in DOMAIN rows : /\ rows'[x].person = rows[x].person /\ rows'[x].track = rows[x].track
                             /\ rows'[x].group \in {rows[x].group, g} /\ DOMAIN rows'[x] = Columns
  BY <1>2 DEF ListOK, Columns
<1>4. Lists' = Lists
  BY DEF Lists
<1> QED BY <1>1, <1>2, <1>3, <1>4 DEF ListOK, RosterTypeOK, ListSound

LEMMA RemovalKeeps ==
  ASSUME ListOK, UNCHANGED <<roster, tab, closed>>,
         (\E r : destroyRow(r)) \/ (\E g : destroyGroup(g)) \/ storeGroup
  PROVE  ListOK'
<1>0. Lists' = Lists
  BY DEF Lists
<1>1. ASSUME NEW r, destroyRow(r) PROVE ListOK'
  <2>1. /\ DOMAIN rows' \subseteq DOMAIN rows /\ UNCHANGED <<added, groups>>
        /\ \A x \in DOMAIN rows' : rows'[x] = rows[x]
    BY <1>1 DEF destroyRow, Restrict
  <2> QED BY <1>0, <2>1 DEF ListOK, RosterTypeOK, ListSound
<1>2. ASSUME NEW g, destroyGroup(g) PROVE ListOK'
  <2>1. /\ DOMAIN rows' = DOMAIN rows /\ added' = added /\ groups' = groups \ {g}
        /\ \A x \in DOMAIN rows : rows'[x] = IF rows[x].group = g THEN [rows[x] EXCEPT !.group = NoGroup] ELSE rows[x]
    BY <1>2 DEF destroyGroup
  <2>2. \A x \in DOMAIN rows : /\ rows'[x].person = rows[x].person /\ rows'[x].track = rows[x].track
                               /\ rows'[x].group \in groups' \cup {NoGroup} /\ DOMAIN rows'[x] = Columns
    <3> SUFFICES ASSUME NEW x \in DOMAIN rows
                 PROVE  /\ rows'[x].person = rows[x].person /\ rows'[x].track = rows[x].track
                        /\ rows'[x].group \in groups' \cup {NoGroup} /\ DOMAIN rows'[x] = Columns
      OBVIOUS
    <3>1. rows[x].group \in groups \cup {NoGroup} /\ DOMAIN rows[x] = Columns
      BY DEF ListOK, ListSound
    <3> QED BY <2>1, <3>1 DEF Columns
  <2> QED BY <1>0, <2>1, <2>2 DEF ListOK, RosterTypeOK, ListSound
<1>3. CASE storeGroup
  <2>1. groups \subseteq groups' /\ UNCHANGED <<rows, added>>
    BY <1>3 DEF storeGroup
  <2> QED BY <1>0, <2>1 DEF ListOK, RosterTypeOK, ListSound
<1> QED BY <1>1, <1>2, <1>3

LEMMA OthersKeep == ASSUME RosterConstants, ListInv, Others PROVE ListInv'
<1>1. UNCHANGED <<roster, tab, adding, confirm, request>>
  BY DEF Others, dialogs
<1>2. CASE ~ closed /\ closed' = TRUE /\ UNCHANGED <<rows, added, groups>>
  BY <1>1, <1>2 DEF ListInv, ListOK, AskOK, RosterTypeOK, ListSound, Lists
<1>3. CASE UNCHANGED closed
  <2>1. ListOK'
    <3>1. CASE \E p \in Persons, t \in Lists, g \in groups \cup {NoGroup} : store(p, t, g)
      BY <1>1, <1>3, <3>1, StoreKeeps DEF ListInv
    <3>2. CASE \E r \in DOMAIN rows, st \in Statuses : markRow(r, st, rows[r].group)
      BY <1>1, <1>3, <3>2, MarkKeeps DEF ListInv
    <3>3. CASE (\E r \in DOMAIN rows : destroyRow(r)) \/ \E g \in groups : destroyGroup(g)
      BY <1>1, <1>3, <3>3, RemovalKeeps DEF ListInv
    <3>4. CASE UNCHANGED <<rows, added, groups>>
      BY <1>1, <1>3, <3>4 DEF ListInv, ListOK, RosterTypeOK, ListSound, Lists
    <3> QED BY <1>3, <3>1, <3>2, <3>3, <3>4 DEF Others
  <2> QED BY <1>1, <2>1 DEF ListInv, AskOK, Lists
<1> QED BY <1>2, <1>3 DEF Others

LEMMA RequestKeeps == ASSUME RosterConstants, ListInv, HandleRequest PROVE ListInv'
<1>1. /\ UNCHANGED <<roster, tab, adding, confirm>> /\ request # NoRequest
      /\ request' = [request EXCEPT !.state = "done"]
  BY DEF HandleRequest, dialogs
<1>2. PICK q : q = request.ask
  OBVIOUS
<1>3. AskOK(q) /\ ListOK
  BY <1>1, <1>2 DEF ListInv
<1>4. ASSUME Performed(q), UNCHANGED closed PROVE ListOK'
  <2>1. CASE q.op = "add" /\ store(q.person, q.track, q.group)
    BY <1>1, <1>3, <1>4, <2>1, StoreKeeps DEF AskOK
  <2>2. CASE markRow(q.row, q.status, q.group)
    BY <1>1, <1>3, <1>4, <2>2, MarkKeeps
  <2>3. CASE destroyRow(q.row) \/ storeGroup \/ destroyGroup(q.group)
    BY <1>1, <1>3, <1>4, <2>3, RemovalKeeps
  <2>4. CASE UNCHANGED <<rows, added, groups>>
    BY <1>1, <1>3, <1>4, <2>4 DEF ListOK, RosterTypeOK, ListSound, Lists
  <2> QED BY <1>4, <2>1, <2>2, <2>3, <2>4 DEF Performed
<1>5. ASSUME Bridged(q) PROVE ListOK'
  <2>1. closed' = TRUE /\ UNCHANGED <<rows, added, groups>>
    BY <1>5 DEF Bridged
  <2> QED BY <1>1, <1>3, <2>1 DEF ListOK, RosterTypeOK, ListSound, Lists
<1>6. ListOK'
  <2>1. (Performed(q) /\ UNCHANGED closed) \/ Bridged(q)
    BY <1>2 DEF HandleRequest
  <2> QED BY <1>4, <1>5, <2>1
<1>7. request'.ask = q /\ DOMAIN request' = {"ask", "state"}
  BY <1>1, <1>2 DEF ListInv
<1> QED BY <1>1, <1>3, <1>6, <1>7 DEF ListInv, AskOK, Lists

(* What the operator does on the page leaves the list alone.               *)
LEMMA PageKeeps ==
  ASSUME ListInv, UNCHANGED list, tab' \in Lists, FormOK(adding)',
         \/ request' \in {request, NoRequest}
         \/ \E q : Send(q) /\ AskOK(q),
         confirm' \in {confirm, NoDialog} \/ confirm'.op # "add"
  PROVE  ListInv'
<1>1. UNCHANGED <<roster, rows, added, groups, closed>> /\ Lists' = Lists
  BY DEF list, Lists
<1>2. ListOK'
  BY <1>1 DEF ListInv, ListOK, RosterTypeOK, ListSound
<1>3. request' # NoRequest => AskOK(request'.ask) /\ DOMAIN request' = {"ask", "state"}
  <2>1. CASE request' \in {request, NoRequest}
    BY <2>1 DEF ListInv
  <2>2. CASE \E q : Send(q) /\ AskOK(q)
    <3>1. PICK q : request' = [ask |-> q, state |-> "sent"] /\ AskOK(q)
      BY <2>2 DEF Send
    <3> QED BY <3>1
  <2> QED BY <2>1, <2>2
<1>4. confirm' # NoDialog => confirm'.op # "add"
  BY DEF ListInv
<1>5. \A q : AskOK(q) => AskOK(q)'
  BY <1>1 DEF AskOK
<1> QED BY <1>1, <1>2, <1>3, <1>4 DEF ListInv, AskOK

LEMMA GestureKeeps ==
  ASSUME ListInv, RosterNext, ~ HandleRequest
  PROVE  ListInv'
<1>0. tab \in Lists /\ FormOK(adding) /\ (confirm # NoDialog => confirm.op # "add")
  BY DEF ListInv, ListOK, RosterTypeOK
<1>1. CASE setTab
  <2>1. /\ UNCHANGED list /\ tab' \in Tracks /\ Lists = Tracks
        /\ FormOK(adding)' /\ UNCHANGED <<confirm, request>>
    BY <1>1 DEF setTab, Lists, FormOK
  <2> QED BY <2>1, PageKeeps
<1>2. CASE (\E r, st : updateStatus(r, st)) \/ (\E r, g : updateGroup(r, g)) \/ activate
  <2>1. UNCHANGED list /\ UNCHANGED <<tab, adding, confirm>>
    BY <1>2 DEF updateStatus, updateGroup, activate, dialogs
  <2>2. \E q : Send(q) /\ AskOK(q)
    <3>1. CASE \E r, st : updateStatus(r, st)
      <4>1. PICK r, st : Send([op |-> "mark", row |-> r, status |-> st, group |-> shown.rows[r].group])
        BY <3>1 DEF updateStatus
      <4> QED BY <4>1 DEF AskOK
    <3>2. CASE \E r, g : updateGroup(r, g)
      <4>1. PICK r, g : Send([op |-> "mark", row |-> r, status |-> shown.rows[r].status, group |-> g])
        BY <3>2 DEF updateGroup
      <4> QED BY <4>1 DEF AskOK
    <3>3. CASE activate
      BY <3>3 DEF activate, AskOK
    <3> QED BY <1>2, <3>1, <3>2, <3>3
  <2> QED BY <1>0, <2>1, <2>2, PageKeeps
<1>3. CASE (\E r : confirmDeleteRow(r)) \/ (\E g : confirmDeleteGroup(g))
  <2>1. UNCHANGED list /\ UNCHANGED <<tab, adding, request>> /\ confirm'.op # "add"
    BY <1>3 DEF confirmDeleteRow, confirmDeleteGroup
  <2> QED BY <1>0, <2>1, PageKeeps
<1>4. CASE handleConfirm
  <2>1. UNCHANGED list /\ UNCHANGED <<tab, adding>> /\ confirm' = NoDialog
        /\ Send(confirm) /\ AskOK(confirm)
    BY <1>0, <1>4 DEF handleConfirm, AskOK
  <2> QED BY <1>0, <2>1, PageKeeps
<1>5. CASE closeConfirm \/ openGroup \/ closeGroup \/ AnsweredNot \/ Visit
  <2>1. /\ UNCHANGED list /\ UNCHANGED <<tab, adding>>
        /\ request' \in {request, NoRequest} /\ confirm' \in {confirm, NoDialog}
    BY <1>5 DEF closeConfirm, openGroup, closeGroup, AnsweredNot, Visit, dialogs
  <2> QED BY <1>0, <2>1, PageKeeps
<1>6. CASE openAdd \/ cancelAdd \/ EnterPerson
  <2>1. /\ UNCHANGED list /\ UNCHANGED <<tab, request, confirm>>
    BY <1>6 DEF openAdd, cancelAdd, EnterPerson
  <2>2. FormOK(adding)'
    <3>1. CASE openAdd \/ cancelAdd
      BY <1>0, <3>1 DEF openAdd, cancelAdd, FormOK
    <3>2. CASE EnterPerson
      <4>1. PICK p, g : p \in Persons /\ adding' = [open |-> TRUE, person |-> p, group |-> g]
        BY <3>2 DEF EnterPerson
      <4> QED BY <4>1 DEF FormOK
    <3> QED BY <1>6, <3>1, <3>2
  <2> QED BY <1>0, <2>1, <2>2, PageKeeps
<1>7. CASE submitAdd
  <2>1. UNCHANGED list /\ UNCHANGED <<tab, adding, confirm>>
    BY <1>7 DEF submitAdd, dialogs
  <2>2. PICK q : q = [op |-> "add", person |-> adding.person, track |-> tab, group |-> adding.group]
    OBVIOUS
  <2>3. Send(q) /\ AskOK(q)
    BY <1>0, <1>7, <2>2 DEF submitAdd, AskOK, FormOK
  <2> QED BY <1>0, <2>1, <2>3, PageKeeps
<1>8. CASE saveGroup
  <2>1. UNCHANGED list /\ UNCHANGED <<tab, adding, confirm>>
    BY <1>8 DEF saveGroup, dialogs
  <2>2. PICK q : q = [op |-> IF grouping.group = "new" THEN "group" ELSE "rename", group |-> grouping.group]
    OBVIOUS
  <2>3. Send(q) /\ q.op \in {"group", "rename"}
    BY <1>8, <2>2 DEF saveGroup
  <2>4. AskOK(q)
    BY <2>3 DEF AskOK
  <2> QED BY <1>0, <2>1, <2>3, <2>4, PageKeeps
<1>9. CASE AnsweredDone
  <2>1. /\ UNCHANGED list /\ UNCHANGED <<tab, confirm>> /\ request' = NoRequest
    BY <1>9 DEF AnsweredDone
  <2>2. FormOK(adding)'
    BY <1>0, <1>9 DEF AnsweredDone, FormOK
  <2> QED BY <1>0, <2>1, <2>2, PageKeeps
<1> QED BY <1>1, <1>2, <1>3, <1>4, <1>5, <1>6, <1>7, <1>8, <1>9 DEF RosterNext

-----------------------------------------------------------------------------
(* The desk: everything on the page is a registration, a name or a code of *)
(* the event, and what a visit brings back fits what is shown.             *)
Texts == Names \cup {""}
Numbers == 0..MaxRegs
People == [name : Names, status : {"none", "present", "absent"}, verified : BOOLEAN]

QueryOK(q) == q.q \in Texts /\ q.code \in Numbers

(* What a page shows of a query: while a code is active, at most its row.  *)
ShownOK(p, q) ==
  /\ DOMAIN p = All /\ p.code = q.code
  /\ p.code # 0 => DOMAIN p.rows \subseteq {p.code}

(* What a visit posts is about a registration of the list; a code that a   *)
(* mark sends as the proof of presence is the code of that registration.   *)
PostOK(post, ids) ==
  /\ post.kind \in {"none", "mark", "match", "quick", "paper"}
  /\ post.kind \in {"mark", "match"} => post.id \in ids /\ post.status \in {"present", "absent"}
  /\ post.kind = "mark" /\ post.code # 0 => post.code = post.id
  /\ post.kind \in {"quick", "paper"} => post.name \in Names

(* What its answer may change: the rows, what a search changes, or the     *)
(* override, the last only for the code that is shown.                     *)
OnlyOK(v, code) ==
  /\ v.post.kind = "mark" => v.only = {"rows"}
  /\ v.post.kind = "none" /\ ~ v.fresh =>
       \/ v.only = Search
       \/ v.only = {"can_mark", "force_open"} /\ v.query.code = code

VisitFine(v, ids, code) ==
  /\ DOMAIN v = {"query", "only", "post", "state", "fresh"}
  /\ QueryOK(v.query) /\ PostOK(v.post, ids) /\ OnlyOK(v, code)

TimerOK(t) == t # NoTimer => QueryOK(t.query) /\ t.query.code = 0

ServerOK == phase \in {"before", "day", "after", "completed"} /\ regs \in Seq(People) /\ Len(regs) \in 1..MaxRegs
GivenOK == QueryOK(url) /\ ShownOK(props, url)
BoxesOK == search \in Texts /\ codeBox \in Numbers /\ message \in BOOLEAN /\ TimerOK(timer)
WalkInOK ==
  /\ mode \in {"check-in", "quick", "paper"} /\ asked \in Texts
  /\ entry.name \in Texts /\ DOMAIN entry = {"name", "force"}
  /\ \A i \in found.matches : i \in DOMAIN regs /\ regs[i].name = found.query
VisitOK == visit # NoVisit => VisitFine(visit, DOMAIN regs, props.code)

DeskInv == ServerOK /\ GivenOK /\ BoxesOK /\ marking \in Numbers /\ WalkInOK /\ VisitOK

LEMMA NumbersOK == ASSUME DeskConstants, ServerOK PROVE 0 \in Numbers /\ DOMAIN regs \subseteq Numbers
<1>1. MaxRegs \in Nat
  BY DEF DeskConstants
<1>2. DOMAIN regs = 1..Len(regs) /\ Len(regs) \in 1..MaxRegs
  BY DEF ServerOK
<1> QED BY <1>1, <1>2 DEF Numbers

LEMMA ShowOK == ASSUME NEW q PROVE ShownOK(show(q), q)
<1>1. PICK p : p = show(q)
  OBVIOUS
<1>2. DOMAIN p = All /\ p.code = q.code
  BY <1>1 DEF show, All
<1>3. p.rows = [i \in {j \in DOMAIN regs : Matches(j, q)} |-> regs[i].status]
  BY <1>1 DEF show
<1>4. q.code # 0 => DOMAIN p.rows \subseteq {q.code}
  BY <1>3 DEF Matches
<1> QED BY <1>1, <1>2, <1>4 DEF ShownOK

LEMMA MergeOK ==
  ASSUME GivenOK, NEW q, NEW only,
         \/ only = Search
         \/ only = {"can_mark", "force_open"} /\ q.code = props.code
         \/ only = {"rows"} /\ q = url
  PROVE  ShownOK(Merged(only, show(q)), q)
<1>1. PICK new : new = show(q)
  OBVIOUS
<1>2. ShownOK(new, q) /\ ShownOK(props, url)
  BY <1>1, ShowOK DEF GivenOK
<1>3. PICK p : p = Merged(only, new)
  OBVIOUS
<1>4. /\ DOMAIN p = All
      /\ p.code = IF "code" \in only THEN new.code ELSE props.code
      /\ p.rows = IF "rows" \in only THEN new.rows ELSE props.rows
  BY <1>2, <1>3 DEF ShownOK, Merged, All
<1>5. p.code = q.code
  BY <1>2, <1>4 DEF ShownOK, Search
<1>6. p.code # 0 => DOMAIN p.rows \subseteq {p.code}
  BY <1>2, <1>4, <1>5 DEF ShownOK, Search
<1> QED BY <1>1, <1>3, <1>4, <1>5, <1>6 DEF ShownOK

LEMMA WaitingOK ==
  ASSUME DeskConstants, ServerOK, NEW p, NEW t \in Texts
  PROVE  TimerOK(Waiting(p, t))
<1>1. 0 \in Numbers
  BY NumbersOK
<1> QED BY <1>1 DEF TimerOK, Waiting, Query, QueryOK

(* Registrations are added, never removed or renamed.                      *)
Grown == DOMAIN regs \subseteq DOMAIN regs' /\ \A i \in DOMAIN regs : regs'[i].name = regs[i].name

LEMMA GrownRefl == ASSUME regs' = regs PROVE Grown
  BY DEF Grown

LEMMA WalkInStays == ASSUME WalkInOK, Grown, UNCHANGED <<mode, entry, asked, found>> PROVE WalkInOK'
  BY DEF WalkInOK, Grown

(* The parts of the invariant that an action leaves alone.                 *)
LEMMA ServerStays == ASSUME ServerOK, UNCHANGED server PROVE ServerOK' /\ Grown
  BY DEF ServerOK, server, Grown

LEMMA GivenStays == ASSUME GivenOK, UNCHANGED given PROVE GivenOK' /\ props' = props /\ url' = url
  BY DEF GivenOK, given

LEMMA BoxesStay == ASSUME BoxesOK, UNCHANGED boxes PROVE BoxesOK'
  BY DEF BoxesOK, boxes

LEMMA VisitStays ==
  ASSUME VisitOK, Grown, props'.code = props.code,
         visit' \in {visit, NoVisit} \/ (visit # NoVisit /\ \E st : visit' = [visit EXCEPT !.state = st])
  PROVE  VisitOK'
<1>1. CASE visit' = NoVisit
  BY <1>1 DEF VisitOK
<1>2. CASE visit' = visit
  BY <1>2 DEF VisitOK, VisitFine, PostOK, Grown
<1>3. CASE visit # NoVisit /\ \E st : visit' = [visit EXCEPT !.state = st]
  <2>1. VisitFine(visit, DOMAIN regs, props.code)
    BY <1>3 DEF VisitOK
  <2>2. PICK v : v = visit'
    OBVIOUS
  <2>3. /\ DOMAIN v = DOMAIN visit /\ v.query = visit.query /\ v.only = visit.only
        /\ v.post = visit.post /\ v.fresh = visit.fresh
    BY <1>3, <2>1, <2>2 DEF VisitFine
  <2>4. VisitFine(v, DOMAIN regs', props'.code)
    BY <2>1, <2>3 DEF VisitFine, PostOK, OnlyOK, Grown
  <2> QED BY <2>2, <2>4 DEF VisitOK
<1> QED BY <1>1, <1>2, <1>3

LEMMA Begun ==
  ASSUME NEW q, QueryOK(q), NEW only, NEW post, PostOK(post, DOMAIN regs'),
         post.kind = "mark" => only = {"rows"},
         post.kind = "none" =>
           only = Search \/ (only = {"can_mark", "force_open"} /\ q.code = props'.code),
         Begin(q, only, post)
  PROVE  VisitOK'
<1>1. PICK v : v = visit'
  OBVIOUS
<1>2. v = [query |-> q, only |-> only, post |-> post, state |-> "sent", fresh |-> FALSE]
  BY <1>1 DEF Begin
<1>3. DOMAIN v = {"query", "only", "post", "state", "fresh"} /\ v.query = q /\ v.only = only /\ v.post = post
  BY <1>2
<1>4. VisitFine(v, DOMAIN regs', props'.code)
  BY <1>3 DEF VisitFine, OnlyOK
<1> QED BY <1>1, <1>4 DEF VisitOK

LEMMA NoPostOK == ASSUME NEW ids PROVE PostOK(NoPost, ids) /\ NoPost.kind = "none"
  BY DEF PostOK, NoPost

LEMMA BareOK == ASSUME DeskConstants, ServerOK, NEW f PROVE QueryOK(Bare(f))
<1>1. 0 \in Numbers
  BY NumbersOK
<1> QED BY <1>1 DEF Bare, Query, QueryOK, Texts

LEMMA SearchQueryOK ==
  ASSUME DeskConstants, DeskInv, NEW t \in Texts, NEW c \in Numbers, NEW flt, NEW f
  PROVE  QueryOK(Query(t, c, flt, f))
  BY DEF Query, QueryOK

LEMMA MarkedOK ==
  ASSUME ServerOK, NEW i \in DOMAIN regs, NEW s \in {"present", "absent"}, NEW c,
         regs' = Marked(i, s, c), phase' = phase
  PROVE  ServerOK' /\ Grown
<1>1. regs[i] \in People /\ regs \in Seq(People)
  BY DEF ServerOK
<1>2. PICK b : b = (s = "present" /\ (regs[i].verified \/ c = i))
  OBVIOUS
<1>3. b \in BOOLEAN
  BY <1>2, Zenon
<1>4. PICK p : p = [regs[i] EXCEPT !.status = s, !.verified = b]
  OBVIOUS
<1>5. p \in People /\ p.name = regs[i].name
  BY <1>1, <1>3, <1>4 DEF People
<1>6. regs' = [regs EXCEPT ![i] = p]
  BY <1>1, <1>2, <1>4 DEF Marked, People
<1>7. regs' \in Seq(People) /\ Len(regs') = Len(regs) /\ DOMAIN regs' = DOMAIN regs
  BY <1>1, <1>5, <1>6
<1>8. Grown
  BY <1>5, <1>6, <1>7 DEF Grown
<1> QED BY <1>7, <1>8 DEF ServerOK
LEMMA DeskStarts == ASSUME DeskConstants, DeskInit PROVE DeskInv
<1>1. ServerOK
  <2>1. PICK names \in Registered :
          regs = [i \in DOMAIN names |-> [name |-> names[i], status |-> "none", verified |-> FALSE]]
    BY DEF DeskInit
  <2>2. PICK n \in 1..MaxRegs : names \in [1..n -> Names]
    BY <2>1 DEF DeskConstants
  <2>3. MaxRegs \in Nat
    BY DEF DeskConstants
  <2>4. n \in Nat /\ regs = [i \in 1..n |-> [name |-> names[i], status |-> "none", verified |-> FALSE]]
    BY <2>1, <2>2, <2>3
  <2>5. \A i \in 1..n : [name |-> names[i], status |-> "none", verified |-> FALSE] \in People
    BY <2>2 DEF People
  <2>6. regs \in Seq(People) /\ Len(regs) = n
    BY <2>4, <2>5
  <2> QED BY <2>2, <2>6 DEF ServerOK, DeskInit
<1>2. 0 \in Numbers /\ "" \in Texts
  BY <1>1, NumbersOK DEF Texts
<1>3. GivenOK
  <2>1. url = Bare(FALSE) /\ props = show(Bare(FALSE))
    BY DEF DeskInit
  <2> QED BY <1>1, <2>1, ShowOK, BareOK DEF GivenOK
<1>4. BoxesOK
  <2>1. TimerOK(timer)
    BY <1>1, <1>2, WaitingOK DEF DeskInit
  <2> QED BY <1>2, <2>1 DEF BoxesOK, DeskInit
<1>5. WalkInOK
  BY <1>2 DEF WalkInOK, DeskInit, NoEntry, NoResult
<1>6. VisitOK /\ marking \in Numbers
  BY <1>2 DEF VisitOK, DeskInit
<1> QED BY <1>1, <1>3, <1>4, <1>5, <1>6 DEF DeskInv

(* The server, another desk, and the day.                                  *)
LEMMA HandledKeeps == ASSUME DeskConstants, DeskInv, Handle PROVE DeskInv'
<1>1. /\ visit # NoVisit /\ Handled(visit.post) /\ phase' = phase
      /\ UNCHANGED given /\ UNCHANGED boxes /\ marking' = marking /\ UNCHANGED walkIn
  BY DEF Handle
<1>2. PostOK(visit.post, DOMAIN regs)
  BY <1>1 DEF DeskInv, VisitOK, VisitFine
<1>3. PICK post : post = visit.post
  OBVIOUS
<1>4. /\ ServerOK' /\ Grown
      /\ \E st : visit' = [visit EXCEPT !.state = st]
  <2>1. CASE UNCHANGED regs
    <3>1. ServerOK' /\ Grown
      BY <1>1, <2>1, ServerStays DEF DeskInv, server
    <3>2. \E st : visit' = [visit EXCEPT !.state = st]
      BY <1>1 DEF Handled
    <3> QED BY <3>1, <3>2
  <2>2. CASE post.kind \in {"mark", "match"} /\ regs' = Marked(post.id, post.status, post.code)
             /\ visit' = [visit EXCEPT !.state = "done"]
    <3>1. post.id \in DOMAIN regs /\ post.status \in {"present", "absent"}
      BY <1>2, <1>3, <2>2 DEF PostOK
    <3> QED BY <1>1, <2>2, <3>1, MarkedOK DEF DeskInv
  <2>3. CASE /\ post.kind \in {"quick", "paper"} /\ Len(regs) < MaxRegs
             /\ regs' = Append(regs, [name |-> post.name, status |-> "present", verified |-> FALSE])
             /\ visit' = [visit EXCEPT !.state = "done"]
    <3>1. PICK p : p = [name |-> post.name, status |-> "present", verified |-> FALSE]
      OBVIOUS
    <3>2. p \in People
      BY <1>2, <1>3, <2>3, <3>1 DEF PostOK, People
    <3>3. regs \in Seq(People) /\ Len(regs) \in 1..MaxRegs /\ MaxRegs \in Nat
      BY DEF DeskInv, ServerOK, DeskConstants
    <3>4. regs' = Append(regs, p)
      BY <2>3, <3>1
    <3>5. /\ regs' \in Seq(People) /\ Len(regs') = Len(regs) + 1
          /\ \A i \in 1..Len(regs) : regs'[i] = regs[i]
      BY <3>2, <3>3, <3>4
    <3>6. Len(regs') \in 1..MaxRegs
      BY <2>3, <3>3, <3>5
    <3>7. DOMAIN regs = 1..Len(regs) /\ DOMAIN regs' = 1..Len(regs')
      BY <3>3, <3>5
    <3>8. \A i \in DOMAIN regs : i \in DOMAIN regs' /\ regs'[i] = regs[i]
      BY <3>3, <3>5, <3>7
    <3>9. Grown
      BY <3>8 DEF Grown
    <3>10. ServerOK'
      BY <1>1, <3>5, <3>6 DEF DeskInv, ServerOK
    <3> QED BY <2>3, <3>9, <3>10
  <2> QED BY <1>1, <1>3, <2>1, <2>2, <2>3 DEF Handled
<1>5. GivenOK' /\ props' = props /\ BoxesOK' /\ marking' \in Numbers' /\ WalkInOK'
  BY <1>1, <1>4, GivenStays, BoxesStay, WalkInStays DEF DeskInv, walkIn, Numbers
<1>6. VisitOK'
  BY <1>1, <1>4, <1>5, VisitStays DEF DeskInv
<1> QED BY <1>4, <1>5, <1>6 DEF DeskInv

LEMMA OthersAtDesk == ASSUME DeskConstants, DeskInv, OtherDesk \/ Day PROVE DeskInv'
<1>1. /\ UNCHANGED given /\ UNCHANGED boxes /\ marking' = marking /\ UNCHANGED walkIn
      /\ visit' = visit
  BY DEF OtherDesk, Day
<1>2. ServerOK' /\ Grown
  <2>1. CASE OtherDesk
    BY <2>1, MarkedOK DEF OtherDesk, DeskInv
  <2>2. CASE Day
    <3>1. regs' = regs
      BY <2>2 DEF Day
    <3>2. phase' \in {"before", "day", "after", "completed"}
      BY <2>2 DEF Day, DeskInv, ServerOK
    <3> QED BY <3>1, <3>2 DEF DeskInv, ServerOK, Grown
  <2> QED BY <2>1, <2>2
<1>3. GivenOK' /\ props' = props /\ BoxesOK' /\ marking' \in Numbers' /\ WalkInOK'
  BY <1>1, <1>2, GivenStays, BoxesStay, WalkInStays DEF DeskInv, walkIn, Numbers
<1>4. VisitOK'
  BY <1>1, <1>2, <1>3, VisitStays DEF DeskInv
<1> QED BY <1>2, <1>3, <1>4 DEF DeskInv
(* What is typed, the forms and the boxes: no visit begins.                *)
LEMMA TypingKeeps ==
  ASSUME DeskConstants, DeskInv,
         \/ typeSearch \/ typeCode \/ typeName \/ NamesFound
         \/ \E m \in {"check-in", "quick", "paper"} : setMode(m)
  PROVE  DeskInv'
<1>1. UNCHANGED server /\ UNCHANGED given /\ marking' = marking /\ visit' = visit
  BY DEF typeSearch, typeCode, typeName, NamesFound, setMode
<1>2. ServerOK' /\ Grown /\ GivenOK' /\ props' = props /\ marking' \in Numbers'
  BY <1>1, ServerStays, GivenStays DEF DeskInv, Numbers
<1>3. VisitOK'
  BY <1>1, <1>2, VisitStays DEF DeskInv
<1>4. 0 \in Numbers /\ "" \in Texts
  BY NumbersOK DEF DeskInv, Texts
<1>5. CASE typeSearch
  <2>1. search' \in Texts /\ timer' = Waiting(props, search')
    BY <1>5 DEF typeSearch, Texts
  <2>2. TimerOK(timer')
    BY <2>1, WaitingOK DEF DeskInv
  <2>3. BoxesOK'
    BY <1>5, <2>1, <2>2 DEF typeSearch, DeskInv, BoxesOK, Numbers, Texts, TimerOK, QueryOK
  <2>4. WalkInOK'
    BY <1>2, <1>5, WalkInStays DEF typeSearch, walkIn, DeskInv
  <2> QED BY <1>2, <1>3, <2>3, <2>4 DEF DeskInv
<1>6. CASE typeCode
  <2>1. BoxesOK'
    BY <1>6 DEF typeCode, DeskInv, BoxesOK, Numbers, Texts, TimerOK, QueryOK
  <2>2. WalkInOK'
    BY <1>2, <1>6, WalkInStays DEF typeCode, walkIn, DeskInv
  <2> QED BY <1>2, <1>3, <2>1, <2>2 DEF DeskInv
<1>7. CASE typeName
  <2>1. BoxesOK' /\ mode' = mode /\ found' = found
    BY <1>7, BoxesStay DEF typeName, DeskInv
  <2>2. PICK n \in Texts : entry' = [entry EXCEPT !.name = n] /\ asked' = n
    BY <1>7 DEF typeName, Texts
  <2>3. WalkInOK'
    BY <1>2, <2>1, <2>2 DEF DeskInv, WalkInOK, Grown, Texts
  <2> QED BY <1>2, <1>3, <2>1, <2>3 DEF DeskInv
<1>8. CASE NamesFound
  <2>1. BoxesOK' /\ mode' = mode /\ entry' = entry /\ asked' = "" /\ regs' = regs
    BY <1>8, BoxesStay DEF NamesFound, DeskInv, server
  <2>2. PICK ids \in {{i \in DOMAIN regs : regs[i].name = asked}, {}} : found' = [query |-> asked, matches |-> ids]
    BY <1>8 DEF NamesFound
  <2>3. \A i \in found'.matches : i \in DOMAIN regs' /\ regs'[i].name = found'.query
    BY <2>1, <2>2
  <2>4. WalkInOK'
    BY <1>4, <2>1, <2>3 DEF DeskInv, WalkInOK, Texts
  <2> QED BY <1>2, <1>3, <2>1, <2>4 DEF DeskInv
<1>9. CASE \E m \in {"check-in", "quick", "paper"} : setMode(m)
  <2>1. BoxesOK'
    BY <1>9, BoxesStay DEF setMode, DeskInv
  <2>2. PICK m \in {"check-in", "quick", "paper"} : setMode(m)
    BY <1>9
  <2>4. mode' \in {"check-in", "quick", "paper"} /\ asked' = ""
    BY <2>2 DEF setMode
  <2>5. PICK f : f = props.force_open
    OBVIOUS
  <2>6. entry' = [name |-> "", force |-> f]
    BY <2>2, <2>5 DEF setMode
  <2>7. entry'.name = "" /\ DOMAIN entry' = {"name", "force"}
    BY <2>6
  <2>8. found'.matches = {}
    BY <2>2 DEF setMode, NoResult
  <2>3. WalkInOK'
    BY <1>4, <2>4, <2>7, <2>8 DEF WalkInOK, Texts
  <2> QED BY <1>2, <1>3, <2>1, <2>3 DEF DeskInv
<1> QED BY <1>5, <1>6, <1>7, <1>8, <1>9

(* A visit begins: what it asks for and posts is what the page holds.      *)
LEMMA VisitsBegin ==
  ASSUME DeskConstants, DeskInv,
         \/ SearchFires \/ submitCode \/ clearCode
         \/ toggleForceOpen \/ \E f \in Filters : go(f)
  PROVE  DeskInv'
<1>1. UNCHANGED server /\ UNCHANGED given /\ UNCHANGED walkIn /\ search' = search
  BY DEF SearchFires, submitCode, clearCode, toggleForceOpen, go, boxes
<1>2. ServerOK' /\ Grown /\ GivenOK' /\ props' = props
  BY <1>1, ServerStays, GivenStays DEF DeskInv
<1>3. WalkInOK'
  BY <1>1, <1>2, WalkInStays DEF DeskInv, walkIn
<1>4. 0 \in Numbers /\ "" \in Texts /\ search \in Texts /\ codeBox \in Numbers /\ props.code \in Numbers
  BY NumbersOK DEF DeskInv, Texts, BoxesOK, GivenOK, ShownOK, QueryOK
<1>5. /\ marking' \in {0, marking}
      /\ codeBox' \in {0, codeBox} /\ message' \in {FALSE, message} /\ timer' \in {NoTimer, timer}
  BY DEF SearchFires, submitCode, clearCode, toggleForceOpen, go, boxes
<1>6. message' \in BOOLEAN
  <2>1. message \in BOOLEAN
    BY DEF DeskInv, BoxesOK
  <2> QED BY <1>5, <2>1
<1>7. BoxesOK' /\ marking' \in Numbers'
  BY <1>1, <1>4, <1>5, <1>6 DEF DeskInv, BoxesOK, Numbers, Texts, TimerOK, QueryOK
<1>8. VisitOK'
  <2>1. CASE visit' = visit
    BY <1>2, <2>1, VisitStays DEF DeskInv
  <2>2. CASE \E q, only : /\ Begin(q, only, NoPost) /\ QueryOK(q)
                          /\ \/ only = Search
                             \/ only = {"can_mark", "force_open"} /\ q.code = props.code
    BY <1>2, <2>2, NoPostOK, Begun
  <2>3. CASE SearchFires
    <3>1. visit' = visit \/ Begin(timer.query, Search, NoPost)
      BY <2>3 DEF SearchFires
    <3>2. QueryOK(timer.query)
      BY <2>3 DEF SearchFires, DeskInv, BoxesOK, TimerOK
    <3> QED BY <2>1, <2>2, <3>1, <3>2
  <2>4. CASE submitCode
    <3>1. visit' = visit \/ Begin(Query("", codeBox, "all", props.force_open), Search, NoPost)
      BY <2>4 DEF submitCode
    <3> QED BY <1>4, <2>1, <2>2, <3>1, SearchQueryOK
  <2>5. CASE clearCode
    <3>1. Begin(Bare(props.force_open), Search, NoPost)
      BY <2>5 DEF clearCode
    <3>2. QueryOK(Bare(props.force_open))
      BY BareOK DEF DeskInv
    <3> QED BY <2>2, <3>1, <3>2
  <2>6. CASE toggleForceOpen
    <3>1. PICK f : f = ~ props.force_open
      OBVIOUS
    <3>2. Begin(sharedQuery(f), {"can_mark", "force_open"}, NoPost)
      BY <2>6, <3>1 DEF toggleForceOpen
    <3>3. QueryOK(sharedQuery(f)) /\ sharedQuery(f).code = props.code
      <4>1. CASE props.code # 0
        <5>1. sharedQuery(f) = Query("", props.code, "all", f)
          BY <4>1 DEF sharedQuery, codeActive
        <5>2. Query("", props.code, "all", f).code = props.code
          BY DEF Query
        <5> QED BY <1>4, <5>1, <5>2, SearchQueryOK
      <4>2. CASE props.code = 0
        <5>1. sharedQuery(f) = Query(search, 0, props.filter, f)
          BY <4>2 DEF sharedQuery, codeActive
        <5>2. Query(search, 0, props.filter, f).code = 0
          BY DEF Query
        <5> QED BY <1>4, <4>2, <5>1, <5>2, SearchQueryOK
      <4> QED BY <4>1, <4>2
    <3> QED BY <2>2, <3>2, <3>3
  <2>7. CASE \E f \in Filters : go(f)
    <3>1. PICK f : Begin(Query(search, 0, f, FALSE), Search, NoPost)
      BY <2>7 DEF go
    <3> QED BY <1>4, <2>2, <3>1, SearchQueryOK
  <2> QED BY <2>3, <2>4, <2>5, <2>6, <2>7
<1> QED BY <1>2, <1>3, <1>7, <1>8 DEF DeskInv
(* A visit that posts, or that opens the page anew.                        *)
LEMMA PostsBegin ==
  ASSUME DeskConstants, DeskInv,
         \/ \E i \in DOMAIN regs, s \in {"present", "absent"} : mark(i, s)
         \/ \E i \in DOMAIN regs : markMatch(i) \/ openMatch(i)
         \/ saveWalkIn
  PROVE  DeskInv'
<1>1. UNCHANGED server /\ UNCHANGED given /\ UNCHANGED boxes /\ UNCHANGED walkIn
  BY DEF mark, markMatch, openMatch, saveWalkIn
<1>2. ServerOK' /\ Grown /\ GivenOK' /\ props' = props /\ BoxesOK' /\ regs' = regs
  BY <1>1, ServerStays, GivenStays, BoxesStay DEF DeskInv, server
<1>3. WalkInOK'
  BY <1>1, <1>2, WalkInStays DEF DeskInv, walkIn
<1>4. 0 \in Numbers /\ DOMAIN regs \subseteq Numbers /\ QueryOK(url)
  BY NumbersOK DEF DeskInv, GivenOK
<1>5. CASE \E i \in DOMAIN regs, s \in {"present", "absent"} : mark(i, s)
  <2>1. PICK i \in DOMAIN regs, s \in {"present", "absent"} : mark(i, s)
    BY <1>5
  <2>2. marking' \in Numbers' /\ i \in DOMAIN props.rows
    BY <1>4, <2>1 DEF mark, Numbers
  <2>3. PICK c, f : /\ c = (IF codeActive /\ s = "present" THEN props.code ELSE 0)
                    /\ f = props.force_open
    OBVIOUS
  <2>4. PICK post : post = [kind |-> "mark", id |-> i, status |-> s, force |-> f, code |-> c]
    OBVIOUS
  <2>5. Begin(url, {"rows"}, post)
    BY <2>1, <2>3, <2>4 DEF mark
  <2>6. post.kind = "mark" /\ post.id = i /\ post.status = s /\ post.code = c
    BY <2>4
  <2>7. c # 0 => c = i
    <3>1. props.code # 0 => DOMAIN props.rows \subseteq {props.code}
      BY DEF DeskInv, GivenOK, ShownOK
    <3> QED BY <2>2, <2>3, <3>1
  <2>8. PostOK(post, DOMAIN regs')
    BY <1>2, <2>6, <2>7 DEF PostOK
  <2>9. VisitOK'
    BY <1>4, <2>5, <2>6, <2>8, Begun
  <2> QED BY <1>2, <1>3, <2>2, <2>9 DEF DeskInv
<1>6. CASE \E i \in DOMAIN regs : markMatch(i)
  <2>1. PICK i \in DOMAIN regs : markMatch(i)
    BY <1>6
  <2>2. marking' \in Numbers'
    BY <1>4, <2>1 DEF markMatch, Numbers
  <2>3. PICK post : post = [kind |-> "match", id |-> i, status |-> "present",
                            force |-> props.force_open, code |-> 0]
    OBVIOUS
  <2>4. Begin(url, All, post)
    BY <2>1, <2>3 DEF markMatch
  <2>5. post.kind = "match" /\ post.id = i /\ post.status = "present"
    BY <2>3
  <2>6. PostOK(post, DOMAIN regs')
    BY <1>2, <2>5 DEF PostOK
  <2>7. VisitOK'
    BY <1>4, <2>4, <2>5, <2>6, Begun
  <2> QED BY <1>2, <1>3, <2>2, <2>7 DEF DeskInv
<1>7. CASE \E i \in DOMAIN regs : openMatch(i)
  <2>1. PICK i \in DOMAIN regs : openMatch(i)
    BY <1>7
  <2>2. marking' \in Numbers'
    BY <1>4, <2>1 DEF openMatch, Numbers
  <2>3. PICK q : q = Query(regs[i].name, 0, "all", FALSE)
    OBVIOUS
  <2>4. regs[i].name \in Names
    <3>1. regs \in Seq(People)
      BY DEF DeskInv, ServerOK
    <3>2. regs[i] \in People
      BY <3>1
    <3> QED BY <3>2 DEF People
  <2>5. QueryOK(q)
    BY <1>4, <2>3, <2>4, SearchQueryOK DEF Texts
  <2>6. PICK v : v = visit'
    OBVIOUS
  <2>7. v = [query |-> q, only |-> All, post |-> NoPost, state |-> "sent", fresh |-> TRUE]
    BY <2>1, <2>3, <2>6 DEF openMatch
  <2>8. /\ DOMAIN v = {"query", "only", "post", "state", "fresh"} /\ v.query = q /\ v.post = NoPost
    BY <2>7
  <2>9. v.fresh
    BY <2>7, Zenon
  <2>10. OnlyOK(v, props'.code)
    BY <2>8, <2>9, NoPostOK DEF OnlyOK
  <2>11. VisitFine(v, DOMAIN regs', props'.code)
    BY <2>5, <2>8, <2>10, NoPostOK DEF VisitFine
  <2>12. VisitOK'
    BY <2>6, <2>11 DEF VisitOK
  <2> QED BY <1>2, <1>3, <2>2, <2>12 DEF DeskInv
<1>8. CASE saveWalkIn
  <2>1. marking' \in Numbers'
    BY <1>4, <1>8 DEF saveWalkIn, Numbers
  <2>2. PICK f : f = IF mode = "quick" THEN entry.force ELSE props.force_open
    OBVIOUS
  <2>3. PICK post : post = [kind |-> mode, name |-> entry.name, force |-> f]
    OBVIOUS
  <2>4. Begin(Bare(FALSE), All, post)
    BY <1>8, <2>2, <2>3 DEF saveWalkIn
  <2>5. post.kind = mode /\ post.name = entry.name
    BY <2>3
  <2>6. mode \in {"quick", "paper"} /\ entry.name \in Names
    BY <1>8 DEF saveWalkIn, DeskInv, WalkInOK, Texts
  <2>7. PostOK(post, DOMAIN regs')
    BY <2>5, <2>6 DEF PostOK
  <2>8. QueryOK(Bare(FALSE))
    BY BareOK DEF DeskInv
  <2>9. VisitOK'
    BY <2>4, <2>5, <2>6, <2>7, <2>8, Begun
  <2> QED BY <1>2, <1>3, <2>1, <2>9 DEF DeskInv
<1> QED BY <1>5, <1>6, <1>7, <1>8

(* New props: what the boxes and the search that waits become.             *)
LEMMA ReceiveKeeps ==
  ASSUME DeskConstants, DeskInv, NEW new, new.code \in Numbers,
         Receive(new), UNCHANGED <<search, message>>
  PROVE  BoxesOK' /\ props' = new
<1>1. props' = new /\ codeBox' \in {new.code, codeBox}
  BY DEF Receive
<1>2. timer' = timer \/ timer' = Waiting(new, search)
  BY DEF Receive
<1>3. TimerOK(Waiting(new, search)) /\ TimerOK(timer)
  BY WaitingOK DEF DeskInv, BoxesOK
<1>4. TimerOK(timer')
  BY <1>2, <1>3
<1>5. BoxesOK'
  BY <1>1, <1>4 DEF DeskInv, BoxesOK, Numbers, Texts, TimerOK, QueryOK
<1> QED BY <1>1, <1>5
(* Answers, and visits that end without one.                               *)
LEMMA AnsweredKeeps == ASSUME DeskConstants, DeskInv, Answered PROVE DeskInv'
<1>1. UNCHANGED server /\ visit # NoVisit /\ visit.post = NoPost /\ visit' = NoVisit
  BY DEF Answered
<1>2. ServerOK' /\ Grown
  BY <1>1, ServerStays DEF DeskInv
<1>3. QueryOK(visit.query) /\ OnlyOK(visit, props.code)
  BY <1>1 DEF DeskInv, VisitOK, VisitFine
<1>4. PICK q : q = visit.query
  OBVIOUS
<1>5. VisitOK'
  BY <1>1 DEF VisitOK
<1>6. 0 \in Numbers /\ "" \in Texts /\ q.q \in Texts /\ q.code \in Numbers
  BY <1>3, <1>4, NumbersOK DEF DeskInv, Texts, QueryOK
<1>7. CASE visit.fresh
  <2>1. Mounted(q)
    BY <1>4, <1>7 DEF Answered
  <2>2. PICK new : new = show(q)
    OBVIOUS
  <2>3. /\ url' = q /\ props' = new /\ search' = q.q /\ codeBox' = q.code /\ message' = FALSE
        /\ marking' = 0 /\ timer' = Waiting(new, q.q)
        /\ mode' = "check-in" /\ entry' = NoEntry /\ asked' = "" /\ found' = NoResult
    BY <2>1, <2>2 DEF Mounted
  <2>4. GivenOK'
    BY <1>3, <1>4, <2>2, <2>3, ShowOK DEF GivenOK, QueryOK, ShownOK, Texts, Numbers
  <2>5. TimerOK(timer')
    BY <1>6, <2>3, WaitingOK DEF DeskInv
  <2>6. BoxesOK' /\ marking' \in Numbers'
    BY <1>6, <2>3, <2>5 DEF BoxesOK, Numbers, Texts, TimerOK, QueryOK
  <2>7. WalkInOK'
    BY <1>6, <2>3 DEF WalkInOK, NoEntry, NoResult, Texts
  <2> QED BY <1>2, <1>5, <2>4, <2>6, <2>7 DEF DeskInv
<1>8. CASE ~ visit.fresh
  <2>1. PICK new : new = Merged(visit.only, show(q))
    OBVIOUS
  <2>2. /\ url' = q /\ Receive(new) /\ UNCHANGED <<search, message, marking>>
        /\ UNCHANGED walkIn
    BY <1>4, <1>8, <2>1 DEF Answered
  <2>3. \/ visit.only = Search
        \/ visit.only = {"can_mark", "force_open"} /\ q.code = props.code
    BY <1>1, <1>3, <1>4, <1>8, NoPostOK DEF OnlyOK
  <2>4. ShownOK(new, q)
    BY <2>1, <2>3, MergeOK DEF DeskInv
  <2>5. new.code \in Numbers
    BY <1>6, <2>4 DEF ShownOK
  <2>6. BoxesOK' /\ props' = new
    BY <2>2, <2>5, ReceiveKeeps
  <2>7. GivenOK'
    BY <1>3, <1>4, <2>2, <2>4, <2>6 DEF GivenOK, QueryOK, ShownOK, Texts, Numbers
  <2>8. WalkInOK' /\ marking' \in Numbers'
    BY <1>2, <2>2, WalkInStays DEF DeskInv, walkIn, Numbers
  <2> QED BY <1>2, <1>5, <2>6, <2>7, <2>8 DEF DeskInv
<1> QED BY <1>7, <1>8

LEMMA CheckedInKeeps == ASSUME DeskConstants, DeskInv, CheckedIn PROVE DeskInv'
<1>1. /\ UNCHANGED server /\ UNCHANGED <<search, timer>> /\ UNCHANGED walkIn
      /\ visit # NoVisit /\ visit.post.kind = "mark" /\ url' = url /\ marking' = 0
      /\ props' = Merged(visit.only, show(url))
  BY DEF CheckedIn
<1>2. ServerOK' /\ Grown /\ WalkInOK'
  BY <1>1, ServerStays, WalkInStays DEF DeskInv, walkIn
<1>3. visit.only = {"rows"}
  BY <1>1 DEF DeskInv, VisitOK, VisitFine, OnlyOK
<1>4. GivenOK'
  <2>1. ShownOK(Merged(visit.only, show(url)), url) /\ QueryOK(url)
    BY <1>3, MergeOK DEF DeskInv, GivenOK
  <2> QED BY <1>1, <2>1 DEF GivenOK, QueryOK, ShownOK, Texts, Numbers
<1>5. 0 \in Numbers
  BY NumbersOK DEF DeskInv
<1>6. codeBox' \in {0, codeBox} /\ message' \in {TRUE, message}
  BY DEF CheckedIn
<1>7. message' \in BOOLEAN
  <2>1. message \in BOOLEAN
    BY DEF DeskInv, BoxesOK
  <2> QED BY <1>6, <2>1
<1>8. BoxesOK' /\ marking' \in Numbers'
  BY <1>1, <1>5, <1>6, <1>7 DEF DeskInv, BoxesOK, Numbers, Texts, TimerOK, QueryOK
<1>9. VisitOK'
  <2>1. CASE visit' = NoVisit
    BY <2>1 DEF VisitOK
  <2>2. CASE \E f : Begin(Bare(f), Search, NoPost)
    <3>1. PICK q : QueryOK(q) /\ Begin(q, Search, NoPost)
      BY <2>2, BareOK DEF DeskInv
    <3> QED BY <3>1, NoPostOK, Begun
  <2> QED BY <2>1, <2>2 DEF CheckedIn
<1> QED BY <1>2, <1>4, <1>8, <1>9 DEF DeskInv

LEMMA SavedKeeps == ASSUME DeskConstants, DeskInv, MatchMarked \/ Saved \/ Invalid PROVE DeskInv'
<1>1. /\ UNCHANGED server /\ UNCHANGED <<search, message, marking>> /\ UNCHANGED <<mode, found>>
      /\ visit # NoVisit /\ visit' = NoVisit
      /\ \E q \in {url, visit.query} : url' = q /\ Receive(show(q))
  BY DEF MatchMarked, Saved, Invalid, processing, walkIn
<1>2. PICK q \in {url, visit.query} : url' = q /\ Receive(show(q))
  BY <1>1
<1>3. QueryOK(q)
  BY <1>1, <1>2 DEF DeskInv, GivenOK, VisitOK, VisitFine
<1>4. PICK new : new = show(q)
  OBVIOUS
<1>5. ShownOK(new, q)
  BY <1>4, ShowOK
<1>6. BoxesOK' /\ props' = new
  <2>1. new.code \in Numbers
    BY <1>3, <1>5 DEF ShownOK, QueryOK
  <2> QED BY <1>1, <1>2, <1>4, <2>1, ReceiveKeeps
<1>7. GivenOK'
  BY <1>2, <1>3, <1>5, <1>6 DEF GivenOK, QueryOK, ShownOK, Texts, Numbers
<1>8. ServerOK' /\ Grown /\ VisitOK' /\ marking' \in Numbers'
  BY <1>1, ServerStays DEF DeskInv, VisitOK, Numbers
<1>9. WalkInOK'
  <2>1. CASE UNCHANGED walkIn
    BY <1>8, <2>1, WalkInStays DEF DeskInv, walkIn
  <2>2. CASE Saved
    <3>1. entry' = [entry EXCEPT !.name = ""] /\ asked' = ""
      BY <2>2 DEF Saved
    <3>2. entry'.name = "" /\ DOMAIN entry' = {"name", "force"}
      BY <3>1 DEF DeskInv, WalkInOK
    <3> QED BY <1>1, <1>8, <3>1, <3>2 DEF DeskInv, WalkInOK, Grown, Texts
  <2> QED BY <2>1, <2>2 DEF MatchMarked, Invalid
<1> QED BY <1>6, <1>7, <1>8, <1>9 DEF DeskInv

LEMMA EndedKeeps ==
  ASSUME DeskConstants, DeskInv, Ended \/ UNCHANGED deskVars PROVE DeskInv'
<1>1. /\ UNCHANGED server /\ UNCHANGED given /\ UNCHANGED boxes /\ UNCHANGED walkIn
      /\ marking' \in {0, marking} /\ visit' \in {NoVisit, visit}
  BY DEF Ended, deskVars
<1>2. ServerOK' /\ Grown /\ GivenOK' /\ props' = props /\ BoxesOK' /\ 0 \in Numbers
  BY <1>1, ServerStays, GivenStays, BoxesStay, NumbersOK DEF DeskInv
<1>3. WalkInOK' /\ marking' \in Numbers'
  BY <1>1, <1>2, WalkInStays DEF DeskInv, walkIn, Numbers
<1>4. VisitOK'
  BY <1>1, <1>2, VisitStays DEF DeskInv
<1> QED BY <1>2, <1>3, <1>4 DEF DeskInv

-----------------------------------------------------------------------------
(* Both pages.                                                             *)
PagesInv == ListInv /\ DeskInv /\ gestures \in 0..MaxGestures

LEMMA PagesStart == ASSUME PagesConstants, PagesInit PROVE PagesInv
<1>1. DeskConstants /\ RosterConstants /\ MaxGestures \in Nat
  BY DEF PagesConstants
<1>2. DeskInit /\ RosterInit /\ gestures = 0
  BY DEF PagesInit
<1> QED BY <1>1, <1>2, DeskStarts, ListInit DEF PagesInv

LEMMA ListStays == ASSUME ListInv, UNCHANGED rosterVars PROVE ListInv'
<1>1. UNCHANGED <<roster, rows, added, groups, closed, tab, confirm, adding, request>>
  BY DEF rosterVars, list, dialogs
<1>2. ListOK'
  BY <1>1 DEF ListInv, ListOK, RosterTypeOK, ListSound, Lists
<1>3. FormOK(adding)' /\ Lists' = Lists
  BY <1>1 DEF ListInv, FormOK, Lists
<1>4. (request # NoRequest => AskOK(request.ask) /\ DOMAIN request = {"ask", "state"})'
  BY <1>1, <1>3 DEF ListInv, AskOK
<1>5. (confirm # NoDialog => confirm.op # "add")'
  BY <1>1 DEF ListInv
<1> QED BY <1>2, <1>3, <1>4, <1>5 DEF ListInv

LEMMA DeskSteps ==
  ASSUME DeskConstants, DeskInv, Gesture \/ Consequence PROVE DeskInv'
<1>1. CASE Gesture
  BY <1>1, OthersAtDesk, TypingKeeps, VisitsBegin, PostsBegin DEF Gesture
<1>2. CASE Consequence
  BY <1>2, HandledKeeps, OthersAtDesk, TypingKeeps, VisitsBegin, PostsBegin, AnsweredKeeps, CheckedInKeeps,
     SavedKeeps, EndedKeeps DEF Consequence
<1> QED BY <1>1, <1>2

LEMMA PagesStep == ASSUME PagesConstants, PagesInv, [PagesNext]_pagesVars PROVE PagesInv'
<1>1. DeskConstants /\ RosterConstants /\ MaxGestures \in Nat /\ gestures \in 0..MaxGestures
  BY DEF PagesConstants, PagesInv
<1>2. CASE /\ kind = "desk" /\ UNCHANGED <<kind, rosterVars>>
           /\ \/ Gesture /\ gestures < MaxGestures /\ gestures' = gestures + 1
              \/ Consequence /\ UNCHANGED gestures
  <2>1. ListInv'
    BY <1>2, ListStays DEF PagesInv
  <2>2. DeskInv'
    BY <1>1, <1>2, DeskSteps DEF PagesInv
  <2>3. gestures' \in 0..MaxGestures
    BY <1>1, <1>2
  <2> QED BY <2>1, <2>2, <2>3 DEF PagesInv
<1>3. CASE kind = "list" /\ (Others \/ RosterNext) /\ UNCHANGED <<kind, gestures, deskVars>>
  <2>1. ListInv'
    BY <1>1, <1>3, OthersKeep, RequestKeeps, GestureKeeps DEF PagesInv
  <2> QED BY <1>1, <1>3, <2>1, EndedKeeps DEF PagesInv
<1>4. CASE UNCHANGED pagesVars
  <2>1. UNCHANGED rosterVars /\ UNCHANGED deskVars /\ gestures' = gestures
    BY <1>4 DEF pagesVars
  <2> QED BY <1>1, <2>1, ListStays, EndedKeeps DEF PagesInv
<1> QED BY <1>2, <1>3, <1>4 DEF PagesNext

THEOREM PagesInvariant == PagesSpec => []PagesInv
<1>1. PagesInit => PagesInv
  BY PagesStart, PagesAssumption
<1>2. PagesInv /\ [PagesNext]_pagesVars => PagesInv'
  BY PagesStep, PagesAssumption
<1> QED BY <1>1, <1>2, PTL DEF PagesSpec

(* On the list of a church activity nobody stands twice, on one list or on *)
(* both lists of a service, and every row is in a group that exists,       *)
(* however many operators add, mark, move and remove at the same time.     *)
THEOREM ListsStaySound == PagesSpec => []ListsSound
<1>1. PagesInv => ListsSound
  <2> SUFFICES ASSUME PagesInv PROVE ListsSound
    OBVIOUS
  <2>1. RosterTypeOK /\ ListSound /\ gestures \in 0..MaxGestures
    BY DEF PagesInv, ListInv, ListOK
  <2>2. DeskTypeOK
    BY DEF PagesInv, DeskInv, ServerOK, BoxesOK, WalkInOK, DeskTypeOK, Texts, Numbers
  <2> QED BY <2>1, <2>2 DEF ListsSound
<1> QED BY <1>1, PagesInvariant, PTL

(* While a code is active, the desk's list holds at most its registration. *)
THEOREM RowsAreOfCode == PagesSpec => []RowsOfCode
<1>1. PagesInv => RowsOfCode
  BY DEF PagesInv, DeskInv, GivenOK, ShownOK, RowsOfCode, codeActive
<1> QED BY <1>1, PagesInvariant, PTL

(* A walk-in form offers only registrations under the name that is in it.  *)
THEOREM OfferedByName == PagesSpec => []NamesOffered
<1>1. PagesInv => NamesOffered
  BY DEF PagesInv, DeskInv, WalkInOK, NamesOffered, Offered
<1> QED BY <1>1, PagesInvariant, PTL

(* The page confirms a check-in only after the server has marked the very  *)
(* registration whose code was looked up.                                  *)
THEOREM ConfirmedByCode == PagesSpec => CheckInConfirmed
<1> DEFINE Confirms == message' /\ ~ message =>
                         /\ visit.post.kind = "mark" /\ visit.state = "done"
                         /\ visit.post.code = visit.post.id
<1>1. ASSUME PagesInv, CheckedIn PROVE Confirms
  <2>1. visit # NoVisit /\ visit.post.kind = "mark" /\ visit.state = "done"
    BY <1>1 DEF CheckedIn
  <2>2. visit.post.code # 0 => visit.post.code = visit.post.id
    BY <1>1, <2>1 DEF PagesInv, DeskInv, VisitOK, VisitFine, PostOK
  <2>3. visit.post.code = 0 => message' = message
    BY <1>1 DEF CheckedIn
  <2> QED BY <2>1, <2>2, <2>3, Zenon
<1>2. ASSUME Gesture PROVE message' = message
  BY <1>2 DEF Gesture, OtherDesk, typeSearch, typeCode, typeName,
     toggleForceOpen, go, setMode, mark, markMatch, openMatch, boxes
<1>3. ASSUME Consequence, ~ CheckedIn PROVE message' \in {FALSE, message}
  BY <1>3 DEF Consequence, Handle, Day, SearchFires, submitCode, clearCode,
     NamesFound, saveWalkIn, Answered, Mounted, MatchMarked, Saved,
     Invalid, Ended, boxes
<1>4. PagesInv /\ [PagesNext]_pagesVars => [Confirms]_deskVars
  <2> SUFFICES ASSUME PagesInv, [PagesNext]_pagesVars PROVE Confirms \/ UNCHANGED deskVars
    OBVIOUS
  <2>1. CASE Gesture \/ Consequence
    BY <1>1, <1>2, <1>3, <2>1
  <2>2. CASE UNCHANGED deskVars
    BY <2>2
  <2> QED BY <2>1, <2>2 DEF PagesNext, pagesVars
<1> QED BY <1>4, PagesInvariant, PTL DEF PagesSpec, CheckInConfirmed
=============================================================================
