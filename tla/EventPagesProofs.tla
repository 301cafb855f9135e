--------------------------- MODULE EventPagesProofs ---------------------------
(***************************************************************************)
(* Theorems about EventPages: the page of an event keeps its word; and the *)
(* form builder shows errors at their rows, keeps the photos it lists, and *)
(* asks the server for nothing it could have refused itself.               *)
(***************************************************************************)
EXTENDS EventPages, SequenceTheorems, FiniteSetTheorems, TLAPS

-----------------------------------------------------------------------------
(* The page of the event.                                                  *)

Rows == [kind : {"running", "church"}, status : Statuses, churchStatus : ChurchStatuses,
         form : {0, 1}, start : Nat, regEnd : Int]

(* A row that was read at t: registration never ends in the future.        *)
RowAt(e, t) == e \in Rows /\ e.regEnd <= t

(* What an event can become.                                               *)
Started(e) == isRunningEvent(e) /\ e.status \in {"ongoing", "completed"}
Becomes(e, f) == f = Gone \/ (f.kind = e.kind /\ (Started(e) => Started(f)))

(* The handler takes this row, now and at any later time.                  *)
Offered(post, row) ==
  CASE post \in {"request", "verify"} -> TRUE
    [] post = "report" -> isRunningEvent(row) => Started(row)
    [] OTHER -> Allowed(post, row)

Posts == {"open", "close", "reopen", "finalize", "edit", "report", "attendance",
          "delete", "request", "verify"}
Rides == [post : Posts, basis : Rows, code : 0..WrongCode,
          state : {"sent", "done", "invalid", "refused"},
          error : {"none", "wait", "unsent", "expired", "locked", "wrong", "failed", "password"},
          stale : BOOLEAN]

ServerOK ==
  /\ clock \in 0..MaxClock /\ mails \in 0..MaxMails
  /\ event = Gone \/ RowAt(event, clock)
  /\ otp \in [live : BOOLEAN, attempts : 0..(MAX_ATTEMPTS - 1), cooling : BOOLEAN]

ShownOK ==
  /\ shown.time \in 0..clock /\ RowAt(shown.row, shown.time) /\ Becomes(shown.row, event)
  /\ toggle => closes \/ reopens
  /\ at = "left" => asked = NotAsked /\ ~ toggle /\ ~ otpOpen

AskedOK ==
  asked # NotAsked =>
    /\ asked \in [what : {"open", "finalize", "delete"}, row : Rows]
    /\ RowAt(asked.row, clock) /\ Becomes(asked.row, event) /\ Offered(asked.what, asked.row)

RideOK ==
  ride # NoRide =>
    /\ ride \in Rides /\ RowAt(ride.basis, clock) /\ Becomes(ride.basis, event)
    /\ ride.state = "sent" => Offered(ride.post, ride.basis)
    /\ ride.state = "done" /\ ride.post = "request" => ride.error = "none" /\ mails > 0

EventInv ==
  /\ EventPageSound /\ ServerOK /\ ShownOK /\ AskedOK /\ RideOK

-----------------------------------------------------------------------------
(* The form builder.                                                       *)

Fields == [id : Nat, label : Labels, type : Types, options : Seq(Options)]
Sizes == Reserved \cup Custom

ChoicesOK(c) ==
  /\ c \in Seq(Sizes) /\ Reserved \subseteq Images(c) /\ Len(c) <= MAX_CHOICES
  /\ \A k, j \in DOMAIN c : c[k] = c[j] /\ k # j => c[k] \notin Reserved

(* An element of the T-shirt, with photos of the first n.                  *)
Shirts(n) == [on : BOOLEAN, label : ShirtLabels, choices : Seq(Sizes),
              existing : SUBSET (1..n), new : SUBSET (1..n)]
ShirtAt(s, n) == s \in Shirts(n) /\ ChoicesOK(s.choices)

(* Switched off, it holds nothing but photos that the page does not show.  *)
Off(s) == ~ s.on => s.new = {} /\ s.label = "T-shirt Size" /\ Len(s.choices) <= 3

FormOK(f) == f \in Seq(Fields) /\ Len(f) <= MAX_FIELDS

FormAt(f, n) ==
  /\ f = [rows |-> f.rows, disclaimer |-> f.disclaimer, tshirt |-> f.tshirt]
  /\ FormOK(f.rows) /\ f.disclaimer \in Disclaimers
  /\ f.tshirt # NoShirt =>
       /\ f.tshirt = [label |-> f.tshirt.label, choices |-> f.tshirt.choices, photos |-> f.tshirt.photos]
       /\ f.tshirt.label \in ShirtLabels /\ ChoicesOK(f.tshirt.choices)
  /\ Photos(f.tshirt) \subseteq 1..n

(* A save that has passed the rules asks for no photos of a shirt that is  *)
(* switched off.                                                           *)
RequestAt(r, n) ==
  /\ r = [state |-> r.state, errors |-> r.errors, known |-> r.known, data |-> r.data]
  /\ r.data = [rows |-> r.data.rows, shirt |-> r.data.shirt,
               disclaimer |-> r.data.disclaimer, shown |-> r.data.shown]
  /\ r.state \in States \ {"none"} /\ r.known \subseteq 1..n
  /\ FormOK(r.data.rows) /\ ShirtAt(r.data.shirt, n) /\ r.data.disclaimer \in Disclaimers
  /\ r.state \in {"bound", "tidying"} /\ ~ r.data.shirt.on =>
       r.data.shirt.existing = {} /\ r.data.shirt.new = {}

SavedOK == FormAt(saved, uploads) /\ stored \cup revived \cup orphans \subseteq 1..uploads

DraftOK ==
  /\ FormOK(rows) /\ nextId \in Nat /\ \A i \in DOMAIN rows : rows[i].id < nextId
  /\ ShirtAt(shirt, uploads) /\ Off(shirt) /\ disclaimer \in Disclaimers
  /\ locked \in BOOLEAN /\ page \in {"open", "closed"} /\ {contact, attempted, mixed} \subseteq BOOLEAN
  /\ uploads \in 1..MaxUploads /\ gestures \in 0..MaxGestures

TabOK ==
  /\ other # NoVisit => RequestAt(other, uploads)
  /\ otherTab # NoTab => other = NoVisit /\ otherTab.open /\ FormAt(otherTab.form, uploads)

(* The photos of the draft that are not stored yet, or by a save that can  *)
(* still fail; those that a save brings; and the list it has read.         *)
Mine == IF page = "open" /\ visit.state \notin {"tidying", "done"} THEN shirt.new ELSE {}
Chosen(r) == IF r.state \in {"sent", "bound"} THEN r.data.shirt.new ELSE {}
Read(r) == IF r.state \in {"bound", "tidying"} THEN r.known ELSE {}

(* What a save has stored is there, and what it is to delete is not listed.*)
Filed(list, kept, back, left, r, o) ==
  /\ list \ kept \subseteq back
  /\ kept \ list \subseteq left \cup UnderWay(r) \cup UnderWay(o)
  /\ r.state = "bound" => r.data.shirt.new \subseteq kept
  /\ o.state = "bound" => o.data.shirt.new \subseteq kept
  /\ r.state = "tidying" => Unwanted(r) \cap list \subseteq back
  /\ o.state = "tidying" => Unwanted(o) \cap list \subseteq back

(* What one side brings, neither the form nor the other side knows.        *)
Apart(list, a, b, r, o) ==
  a \cap b = {} /\ (a \cup b) \cap (list \cup Read(r) \cup Read(o)) = {}

PhotosOK ==
  /\ Filed(Listed, stored, revived, orphans, visit, other)
  /\ Apart(Listed, Mine \cup Chosen(visit), Chosen(other), visit, other)

DialogOK ==
  /\ dialog = NoDialog \/ dialog = [ask |-> "save"]
     \/ dialog = [ask |-> "remove", row |-> dialog.row, errors |-> dialog.errors]
  /\ dialog # NoDialog => page = "open"
  /\ dialog.ask = "remove" => dialog.row \in DOMAIN rows
  /\ dialog.ask = "save" => visit = NoVisit /\ clientErrors = {} /\ disclaimer # "blank"

(* What the rules of the page have seen of a save.                         *)
Checked(q) ==
  /\ validateRegistrationForm(q.rows) = {} /\ q.disclaimer # "blank"
  /\ validateTshirt(q.shirt, q.shown) = {} /\ Off(q.shirt)

SameRows(f, g) == Len(f) = Len(g) /\ \A i \in 1..Len(f) : f[i].id = g[i].id
AtRows(some, f) == \A e \in some : e.row # 0 => e.row \in DOMAIN f /\ f[e.row].id = e.of

VisitOK ==
  visit # NoVisit =>
    /\ RequestAt(visit, uploads)
    /\ visit.state = "sent" => Checked(visit.data)
    /\ visit.state = "invalid" => AtRows(visit.errors, visit.data.rows)
    /\ page = "open" /\ ~ mixed => SameRows(visit.data.rows, rows)

ErrorsOK == page = "open" /\ ~ mixed => AtRows(errors, rows)

BuilderInv ==
  /\ SavedOK /\ DraftOK /\ TabOK /\ PhotosOK /\ DialogOK /\ VisitOK /\ ErrorsOK /\ OnlyServerKnows

-----------------------------------------------------------------------------
(* What the operations make of a row.                                      *)

LEMMA RowFacts ==
  ASSUME NEW e, NEW t \in Nat, RowAt(e, t)
  PROVE  /\ e # Gone /\ e.kind \in {"running", "church"} /\ e.status \in Statuses
         /\ e = [kind |-> e.kind, status |-> e.status, churchStatus |-> e.churchStatus,
                 form |-> e.form, start |-> e.start, regEnd |-> e.regEnd]
BY DEF RowAt, Rows, Gone

LEMMA BecomesTrans ==
  ASSUME NEW e, NEW f, NEW g, e # Gone, Becomes(e, f), f = Gone => g = Gone, f # Gone => Becomes(f, g)
  PROVE  Becomes(e, g)
BY DEF Becomes, Started, isRunningEvent

LEMMA LaterRow ==
  ASSUME NEW e, NEW t \in Nat, NEW u \in Nat, t <= u, RowAt(e, t)
  PROVE  RowAt(e, u)
BY DEF RowAt, Rows

LEMMA StatusRow ==
  ASSUME NEW e, NEW t \in Nat, RowAt(e, t), NEW s \in Statuses,
         Started(e) => s \in {"ongoing", "completed"}
  PROVE  RowAt([e EXCEPT !.status = s], t) /\ Becomes(e, [e EXCEPT !.status = s])
<1>1. [e EXCEPT !.status = s] \in Rows /\ [e EXCEPT !.status = s].regEnd = e.regEnd
      /\ [e EXCEPT !.status = s].kind = e.kind /\ [e EXCEPT !.status = s].status = s
  BY DEF RowAt, Rows
<1> QED BY <1>1 DEF RowAt, Becomes, Started, isRunningEvent

LEMMA VisitedRow ==
  ASSUME NEW e, clock \in Nat, RowAt(e, clock)
  PROVE  RowAt(Visited(e), clock) /\ Becomes(e, Visited(e)) /\ Visited(e) # Gone
<1>1. Becomes(e, e)
  BY DEF Becomes
<1>2. RowAt([e EXCEPT !.status = "ongoing"], clock) /\ Becomes(e, [e EXCEPT !.status = "ongoing"])
  BY StatusRow DEF Statuses
<1>3. Visited(e) = e \/ Visited(e) = [e EXCEPT !.status = "ongoing"]
  BY DEF Visited
<1>4. RowAt(Visited(e), clock) /\ Becomes(e, Visited(e))
  BY <1>1, <1>2, <1>3
<1> QED BY <1>4, RowFacts

LEMMA EndRow ==
  ASSUME NEW e, NEW t \in Nat, RowAt(e, t), NEW s \in Statuses, NEW end \in Int, end <= t,
         Started(e) => s \in {"ongoing", "completed"}
  PROVE  /\ RowAt([e EXCEPT !.regEnd = end, !.status = s], t)
         /\ Becomes(e, [e EXCEPT !.regEnd = end, !.status = s])
<1> DEFINE f == [e EXCEPT !.regEnd = end, !.status = s]
<1>1. f \in Rows
  BY DEF RowAt, Rows
<1>2. f.regEnd = end /\ f.kind = e.kind /\ f.status = s
  BY DEF RowAt, Rows
<1> HIDE DEF f
<1>3. RowAt(f, t) /\ Becomes(e, f)
  BY <1>1, <1>2 DEF RowAt, Becomes, Started, isRunningEvent
<1> QED BY <1>3 DEF f

LEMMA OtherColumns ==
  ASSUME NEW e, NEW t \in Nat, RowAt(e, t)
  PROVE  /\ RowAt([e EXCEPT !.form = 1], t) /\ Becomes(e, [e EXCEPT !.form = 1])
         /\ \A s \in ChurchStatuses :
              RowAt([e EXCEPT !.churchStatus = s], t) /\ Becomes(e, [e EXCEPT !.churchStatus = s])
BY DEF RowAt, Rows, Becomes, Started, isRunningEvent

LEMMA ClosedRow ==
  ASSUME NEW e, clock \in Nat, RowAt(e, clock), canCloseRegistration(e, clock)
  PROVE  RowAt(closed(e), clock) /\ Becomes(e, closed(e))
<1>1. e.status \in {"registration_open", "ongoing"}
  BY DEF canCloseRegistration, acceptsPublicRegistration
<1> DEFINE s == IF e.status = "ongoing" THEN e.status ELSE "registration_closed"
<1>2. closed(e) = [e EXCEPT !.regEnd = clock, !.status = s]
  BY RowFacts DEF closed
<1>3. s \in Statuses /\ (Started(e) => s \in {"ongoing", "completed"})
  BY <1>1 DEF Statuses, Started
<1>4. clock \in Int /\ clock <= clock
  OBVIOUS
<1> HIDE DEF s
<1>5. RowAt([e EXCEPT !.regEnd = clock, !.status = s], clock)
      /\ Becomes(e, [e EXCEPT !.regEnd = clock, !.status = s])
  BY <1>3, <1>4, EndRow
<1> QED BY <1>2, <1>5

LEMMA ReopenedRow ==
  ASSUME NEW e, clock \in Nat, RowAt(e, clock)
  PROVE  RowAt(reopened(e), clock) /\ Becomes(e, reopened(e))
<1> DEFINE s == IF e.status = "registration_closed" THEN "registration_open" ELSE e.status
<1>2. reopened(e) = [e EXCEPT !.regEnd = None, !.status = s]
  BY RowFacts DEF reopened
<1>3. s \in Statuses /\ (Started(e) => s \in {"ongoing", "completed"})
  BY RowFacts DEF Statuses, Started
<1>4. None \in Int /\ None <= clock
  BY DEF None
<1> HIDE DEF s
<1>5. RowAt([e EXCEPT !.regEnd = None, !.status = s], clock)
      /\ Becomes(e, [e EXCEPT !.regEnd = None, !.status = s])
  BY <1>3, <1>4, EndRow
<1> QED BY <1>2, <1>5

(* Opening registration forgets when it ended.                             *)
LEMMA OpenedRow ==
  ASSUME NEW e, clock \in Nat, RowAt(e, clock), canOpenRegistration(e)
  PROVE  LET f == [e EXCEPT !.status = "registration_open", !.regEnd = None]
         IN RowAt(f, clock) /\ Becomes(e, f)
<1>1. [e EXCEPT !.status = "registration_open", !.regEnd = None]
        = [e EXCEPT !.regEnd = None, !.status = "registration_open"]
  BY RowFacts
<1>2. ~ Started(e)
  BY DEF canOpenRegistration, Started
<1>3. "registration_open" \in Statuses /\ None \in Int /\ None <= clock
  BY DEF Statuses, None
<1> QED BY <1>1, <1>2, <1>3, EndRow

-----------------------------------------------------------------------------
(* What an action does to the row of the event.                            *)
EventMoves ==
  \/ event' = Gone
  \/ event # Gone /\ RowAt(event', clock) /\ Becomes(event, event')

LEMMA OthersMove ==
  ASSUME ServerOK, OtherStaff
  PROVE  EventMoves
<1> DEFINE e == Visited(event)
<1>1. clock \in Nat /\ event # Gone /\ RowAt(event, clock)
  BY DEF ServerOK, OtherStaff
<1>2. e # Gone /\ RowAt(e, clock) /\ Becomes(event, e)
  BY <1>1, VisitedRow
<1>3. \/ canEditRegistrationForm(e) /\ event' = [e EXCEPT !.form = 1]
      \/ canOpenRegistration(e) /\ event' = [e EXCEPT !.status = "registration_open"]
      \/ canCloseRegistration(e, clock) /\ event' = closed(e)
      \/ canReopenRegistration(e, clock) /\ event' = reopened(e)
      \/ canFinalize(e, clock) /\ event' = [e EXCEPT !.status = "completed"]
      \/ isChurchEvent(e) /\ \E s \in churchTransitions(e.churchStatus) :
           event' = [e EXCEPT !.churchStatus = s]
      \/ event' = Gone
  BY DEF OtherStaff
<1> HIDE DEF e
<1>4. SUFFICES ASSUME event' # Gone
               PROVE  RowAt(event', clock) /\ Becomes(e, event')
  BY <1>1, <1>2, <1>4, BecomesTrans, RowFacts DEF EventMoves
<1>5. CASE canEditRegistrationForm(e) /\ event' = [e EXCEPT !.form = 1]
  BY <1>1, <1>2, <1>5, OtherColumns
<1>6. CASE canOpenRegistration(e) /\ event' = [e EXCEPT !.status = "registration_open"]
  <2>1. "registration_open" \in Statuses /\ ~ Started(e)
    BY <1>6 DEF canOpenRegistration, Started, Statuses
  <2> QED BY <1>1, <1>2, <1>6, <2>1, StatusRow
<1>7. CASE canCloseRegistration(e, clock) /\ event' = closed(e)
  BY <1>1, <1>2, <1>7, ClosedRow
<1>8. CASE canReopenRegistration(e, clock) /\ event' = reopened(e)
  BY <1>1, <1>2, <1>8, ReopenedRow
<1>9. CASE canFinalize(e, clock) /\ event' = [e EXCEPT !.status = "completed"]
  <2>1. "completed" \in Statuses
    BY DEF Statuses
  <2> QED BY <1>1, <1>2, <1>9, <2>1, StatusRow
<1>10. CASE isChurchEvent(e) /\ \E s \in churchTransitions(e.churchStatus) :
              event' = [e EXCEPT !.churchStatus = s]
  <2>1. PICK s \in churchTransitions(e.churchStatus) : event' = [e EXCEPT !.churchStatus = s]
    BY <1>10
  <2>2. s \in ChurchStatuses
    BY DEF churchTransitions, ChurchStatuses
  <2>3. RowAt([e EXCEPT !.churchStatus = s], clock) /\ Becomes(e, [e EXCEPT !.churchStatus = s])
    BY <1>1, <1>2, <2>2, OtherColumns
  <2> QED BY <2>1, <2>3
<1> QED BY <1>3, <1>4, <1>5, <1>6, <1>7, <1>8, <1>9, <1>10

LEMMA HandledMoves ==
  ASSUME ServerOK, HandleEvent
  PROVE  EventMoves
<1> DEFINE e == Visited(event)
<1>1. CASE event = Gone
  BY <1>1 DEF HandleEvent, EventMoves
<1>2. ASSUME event # Gone, ~ (ride.post \notin {"request", "verify"}) PROVE EventMoves
  <2>1. event' = Gone \/ event' = e
    BY <1>2 DEF HandleEvent, issue, verifyOtp
  <2>2. clock \in Nat /\ RowAt(event, clock)
    BY <1>2 DEF ServerOK
  <2> QED BY <1>2, <2>1, <2>2, VisitedRow DEF EventMoves
<1>3. ASSUME event # Gone, ride.post \notin {"request", "verify"} PROVE EventMoves
  <2>1. clock \in Nat /\ RowAt(event, clock)
    BY <1>3 DEF ServerOK
  <2>2. e # Gone /\ RowAt(e, clock) /\ Becomes(event, e)
    BY <2>1, VisitedRow
  <2>3. event' = e \/ (Allowed(ride.post, e) /\ event' = Written(ride.post, e))
    BY <1>3 DEF HandleEvent
  <2>4. CASE event' = e
    BY <1>3, <2>2, <2>4 DEF EventMoves
  <2>5. CASE Allowed(ride.post, e) /\ event' = Written(ride.post, e)
    <3> HIDE DEF e
    <3>1. SUFFICES ASSUME event' # Gone
                   PROVE  RowAt(event', clock) /\ Becomes(e, event')
      BY <1>3, <2>1, <2>2, <3>1, BecomesTrans, RowFacts DEF EventMoves
    <3>2. CASE ride.post = "open"
      <4>1. canOpenRegistration(e) /\ event' = [e EXCEPT !.status = "registration_open", !.regEnd = None]
        BY <2>5, <3>2 DEF Allowed, Written
      <4> QED BY <2>1, <2>2, <4>1, OpenedRow
    <3>3. CASE ride.post = "close"
      <4>1. canCloseRegistration(e, clock) /\ event' = closed(e)
        BY <2>5, <3>3 DEF Allowed, Written
      <4> QED BY <2>1, <2>2, <4>1, ClosedRow
    <3>4. CASE ride.post = "reopen"
      <4>1. event' = reopened(e)
        BY <2>5, <3>4 DEF Written
      <4> QED BY <2>1, <2>2, <4>1, ReopenedRow
    <3>5. CASE ride.post = "finalize"
      <4>1. event' = [e EXCEPT !.status = "completed"]
        BY <2>5, <3>5 DEF Written
      <4>2. "completed" \in Statuses
        BY DEF Statuses
      <4> QED BY <2>1, <2>2, <4>1, <4>2, StatusRow
    <3>6. CASE ride.post = "delete"
      BY <2>5, <3>1, <3>6 DEF Written
    <3>7. CASE ride.post \notin {"open", "close", "reopen", "finalize", "delete"}
      <4>1. Written(ride.post, e) = e
        BY <3>7 DEF Written
      <4>2. event' = e
        BY <2>5, <4>1
      <4>3. Becomes(e, e)
        BY DEF Becomes
      <4> QED BY <2>2, <4>2, <4>3
    <3> QED BY <3>2, <3>3, <3>4, <3>5, <3>6, <3>7
  <2> QED BY <2>3, <2>4, <2>5
<1> QED BY <1>1, <1>2, <1>3

(* Time, codes and the row of the event stay well formed, and an event     *)
(* that is gone stays gone.                                                *)
ServerMoves ==
  /\ clock \in Nat /\ clock' \in Nat /\ clock <= clock' /\ mails <= mails' /\ mails \in Nat
  /\ event' = Gone \/ (event # Gone /\ Becomes(event, event'))

LEMMA ServerStep ==
  ASSUME ServerOK, EventNext
  PROVE  ServerOK' /\ ServerMoves
<1> USE EventPageAssumption
<1>0. clock \in Nat /\ mails \in Nat /\ clock \in 0..MaxClock /\ mails \in 0..MaxMails
  BY DEF ServerOK
<1>1. ASSUME clock' = clock, mails' = mails, UNCHANGED otp, EventMoves
      PROVE  ServerOK' /\ ServerMoves
  BY <1>0, <1>1 DEF ServerOK, ServerMoves, EventMoves
<1>2. ASSUME UNCHANGED <<rowVars, otpServer>> PROVE ServerOK' /\ ServerMoves
  BY <1>0, <1>2 DEF ServerOK, ServerMoves, rowVars, otpServer, Becomes
<1>3. CASE OtherStaff
  BY <1>1, <1>3, OthersMove DEF OtherStaff, otpServer
<1>4. CASE TimePasses
  <2>1. clock' = clock + 1 /\ clock < MaxClock /\ event' = event /\ mails' = mails /\ otp' = otp
    BY <1>4 DEF TimePasses, otpServer
  <2>2. clock' \in 0..MaxClock /\ clock' \in Nat /\ clock <= clock'
    BY <1>0, <2>1
  <2>3. event = Gone \/ RowAt(event, clock')
    BY <1>0, <2>2, LaterRow DEF ServerOK
  <2> QED BY <1>0, <2>1, <2>2, <2>3 DEF ServerOK, ServerMoves, Becomes
<1>5. CASE CooldownOver
  <2>1. \E alive \in {otp.live, FALSE} : otp' = [otp EXCEPT !.cooling = FALSE, !.live = alive]
    BY <1>5 DEF CooldownOver
  <2>2. otp' \in [live : BOOLEAN, attempts : 0..(MAX_ATTEMPTS - 1), cooling : BOOLEAN]
    BY <2>1 DEF ServerOK
  <2>3. clock' = clock /\ event' = event /\ mails' = mails
    BY <1>5 DEF CooldownOver, rowVars
  <2> QED BY <1>0, <2>2, <2>3 DEF ServerOK, ServerMoves, Becomes
<1>6. CASE HandleEvent
  <2>1. EventMoves /\ clock' = clock
    BY <1>6, HandledMoves DEF HandleEvent
  <2>2. \/ mails < MaxMails /\ mails' = mails + 1 /\ otp' = [live |-> TRUE, attempts |-> 0, cooling |-> TRUE]
        \/ mails' = mails /\ otp' \in {NoCode, otp, [otp EXCEPT !.live = FALSE]}
        \/ mails' = mails /\ otp.attempts + 1 # MAX_ATTEMPTS /\ otp' = [otp EXCEPT !.attempts = @ + 1]
    BY <1>6 DEF HandleEvent, issue, verifyOtp, otpServer
  <2> DEFINE Codes == [live : BOOLEAN, attempts : 0..(MAX_ATTEMPTS - 1), cooling : BOOLEAN]
  <2>8. otp \in Codes /\ 0 \in 0..(MAX_ATTEMPTS - 1)
    BY DEF ServerOK
  <2>9. ASSUME otp.attempts + 1 # MAX_ATTEMPTS PROVE otp.attempts + 1 \in 0..(MAX_ATTEMPTS - 1)
    <3>1. otp.attempts \in 0..(MAX_ATTEMPTS - 1)
      BY <2>8
    <3> QED BY <3>1, <2>9
  <2>10. ASSUME otp.attempts + 1 # MAX_ATTEMPTS, otp' = [otp EXCEPT !.attempts = @ + 1]
         PROVE  otp' \in Codes
    <3>1. PICK n \in 0..(MAX_ATTEMPTS - 1) : otp.attempts + 1 = n
      BY <2>9, <2>10
    <3>2. otp' = [otp EXCEPT !.attempts = n]
      BY <2>10, <3>1
    <3> QED BY <2>8, <3>2
  <2>11. NoCode \in Codes /\ [otp EXCEPT !.live = FALSE] \in Codes
         /\ [live |-> TRUE, attempts |-> 0, cooling |-> TRUE] \in Codes
    BY <2>8 DEF NoCode
  <2> HIDE DEF Codes
  <2>3. otp' \in Codes
    BY <2>2, <2>8, <2>10, <2>11
  <2>4. mails' \in 0..MaxMails /\ mails <= mails'
    BY <1>0, <2>2 DEF otpServer
  <2>5. event' = Gone \/ RowAt(event', clock')
    BY <2>1 DEF EventMoves
  <2>6. event' = Gone \/ (event # Gone /\ Becomes(event, event'))
    BY <2>1 DEF EventMoves
  <2> QED BY <1>0, <2>1, <2>3, <2>4, <2>5, <2>6 DEF ServerOK, ServerMoves, Codes
<1>7. CASE Back
  <2>1. event # Gone /\ event' = Visited(event) /\ clock' = clock /\ UNCHANGED otpServer
    BY <1>7 DEF Back
  <2>2. EventMoves
    BY <1>0, <2>1, VisitedRow DEF ServerOK, EventMoves
  <2> QED BY <1>1, <2>1, <2>2 DEF otpServer
<1>8. CASE Return
  <2>1. event # Gone /\ event' = Visited(event) /\ clock' = clock /\ UNCHANGED otpServer
    BY <1>8 DEF Return
  <2>2. EventMoves
    BY <1>0, <2>1, VisitedRow DEF ServerOK, EventMoves
  <2> QED BY <1>1, <2>1, <2>2 DEF otpServer
<1> QED
  BY <1>2, <1>3, <1>4, <1>5, <1>6, <1>7, <1>8
     DEF EventNext, Ask, CancelAsked, ConfirmAsked, Follow, openToggle, closeToggle, submitToggle,
         requestOtp, onCodeChange, verify, closeOtp, Second, Left, NoAnswer

(* An offer stands while time passes: registration never ends in the       *)
(* future, so nothing but what others do can take it back.                 *)
LEMMA OfferStands ==
  ASSUME NEW row, NEW post \in Posts, clock \in Nat, clock' \in Nat, clock <= clock',
         RowAt(row, clock), Offered(post, row)
  PROVE  Offered(post, row)'
<1>1. CASE post \in {"open", "edit", "report", "attendance", "delete", "request", "verify"}
  BY <1>1 DEF Offered, Allowed
<1>2. CASE post = "close"
  <2>1. canCloseRegistration(row, clock)
    BY <1>2 DEF Offered, Allowed
  <2>2. row.regEnd \in Int /\ row.regEnd <= clock
    BY DEF RowAt, Rows
  <2>3. canCloseRegistration(row, clock')
    BY <2>1, <2>2 DEF canCloseRegistration, acceptsPublicRegistration
  <2> QED BY <1>2, <2>3 DEF Offered, Allowed
<1>3. CASE post = "reopen"
  <2>1. canReopenRegistration(row, clock)
    BY <1>3 DEF Offered, Allowed
  <2>2. row.regEnd \in Int /\ row.regEnd <= clock
    BY DEF RowAt, Rows
  <2>3. canReopenRegistration(row, clock')
    BY <2>1, <2>2 DEF canReopenRegistration, acceptsPublicRegistration
  <2> QED BY <1>3, <2>3 DEF Offered, Allowed
<1>4. CASE post = "finalize"
  <2>1. canFinalize(row, clock)
    BY <1>4 DEF Offered, Allowed
  <2>2. row.start \in Nat
    BY DEF RowAt, Rows
  <2>3. canFinalize(row, clock')
    BY <2>1, <2>2, RulesAssumption DEF canFinalize
  <2> QED BY <1>4, <2>3 DEF Offered, Allowed
<1> QED BY <1>1, <1>2, <1>3, <1>4 DEF Posts

LEMMA StillBecomes ==
  ASSUME NEW e, NEW t \in Nat, RowAt(e, t), Becomes(e, event), ServerMoves
  PROVE  Becomes(e, event') /\ e # Gone
<1>1. e # Gone
  BY RowFacts
<1>2. event = Gone => event' = Gone
  BY DEF ServerMoves
<1>3. CASE event' = Gone
  BY <1>1, <1>3 DEF Becomes
<1>4. CASE event' # Gone
  <2>1. event # Gone /\ Becomes(event, event')
    BY <1>4 DEF ServerMoves
  <2> QED BY <1>1, <1>2, <2>1, BecomesTrans
<1> QED BY <1>3, <1>4

(* What is shown is a row read not long ago, and an open dialog of the     *)
(* toggle has something to do.                                             *)
LEMMA ShownStep ==
  ASSUME ServerOK, ServerOK', ServerMoves, ShownOK, EventNext
  PROVE  ShownOK'
<1>0. clock \in Nat /\ clock' \in Nat /\ clock <= clock'
  BY DEF ServerMoves
<1>1. ASSUME shown' = shown
      PROVE  shown'.time \in 0..clock' /\ RowAt(shown'.row, shown'.time) /\ Becomes(shown'.row, event')
  BY <1>0, <1>1, StillBecomes DEF ShownOK
<1>2. ASSUME UNCHANGED <<shown, toggle, at, asked, otpOpen>> PROVE ShownOK'
  BY <1>1, <1>2 DEF ShownOK, closes, reopens
<1>3. ASSUME UNCHANGED <<shown, at>>, toggle' => toggle,
             at = "left" => asked' = NotAsked /\ ~ otpOpen'
      PROVE  ShownOK'
  BY <1>1, <1>3 DEF ShownOK, closes, reopens
<1>4. CASE OtherStaff \/ TimePasses \/ CooldownOver \/ HandleEvent \/ Follow \/ submitToggle \/ requestOtp
           \/ onCodeChange \/ verify \/ Second \/ NoAnswer
  BY <1>2, <1>4
     DEF OtherStaff, TimePasses, CooldownOver, HandleEvent, Follow, submitToggle, requestOtp,
         onCodeChange, verify, Second, NoAnswer, otpDialog, pageState
<1>5. CASE Ask \/ CancelAsked \/ ConfirmAsked \/ closeToggle \/ closeOtp
  BY <1>3, <1>5 DEF Ask, CancelAsked, ConfirmAsked, closeToggle, closeOtp, InReach, ShownOK, otpDialog, pageState
<1>6. CASE openToggle
  <2>1. UNCHANGED <<shown, at>> /\ at = "event" /\ (closes \/ reopens)
    BY <1>6 DEF openToggle, InReach, pageState
  <2> QED BY <1>1, <2>1 DEF ShownOK, closes, reopens
<1>7. CASE Left
  BY <1>1, <1>7 DEF Left, ShownOK
<1>8. ASSUME event # Gone, event' = Visited(event), shown' = [row |-> event', time |-> clock], clock' = clock
      PROVE  shown'.time \in 0..clock' /\ RowAt(shown'.row, shown'.time) /\ Becomes(shown'.row, event')
  <2>1. shown'.row = event' /\ shown'.time = clock
    BY <1>8
  <2>2. RowAt(event', clock)
    BY <1>0, <1>8, VisitedRow DEF ServerOK
  <2>3. Becomes(event', event')
    BY DEF Becomes
  <2> QED BY <1>0, <1>8, <2>1, <2>2, <2>3
<1>9. CASE Back
  <2>1. shown'.time \in 0..clock' /\ RowAt(shown'.row, shown'.time) /\ Becomes(shown'.row, event')
    BY <1>8, <1>9 DEF Back
  <2>2. (toggle' => toggle /\ (closes' \/ reopens')) /\ UNCHANGED <<at, asked, otpOpen>>
    BY <1>9 DEF Back
  <2> QED BY <2>1, <2>2 DEF ShownOK
<1>10. CASE Return
  <2>1. shown'.time \in 0..clock' /\ RowAt(shown'.row, shown'.time) /\ Becomes(shown'.row, event')
    BY <1>8, <1>10 DEF Return
  <2>2. at = "left" /\ at' = "event" /\ toggle' = toggle
    BY <1>10 DEF Return
  <2> QED BY <2>1, <2>2 DEF ShownOK
<1> QED BY <1>4, <1>5, <1>6, <1>7, <1>9, <1>10 DEF EventNext

(* What a page offers is offered at any time since.                        *)
LEMMA ShownOffers ==
  ASSUME ShownOK, clock \in Nat
  PROVE  /\ RowAt(shown.row, clock) /\ Becomes(shown.row, event) /\ shown.row \in Rows
         /\ opens => Offered("open", shown.row)
         /\ finalizes => Offered("finalize", shown.row)
         /\ closes => Offered("close", shown.row)
         /\ reopens => Offered("reopen", shown.row)
         /\ Offered("delete", shown.row) /\ Offered("request", shown.row) /\ Offered("verify", shown.row)
         /\ \A link \in Links : link \in Posts /\ Offered(link, shown.row)
<1>1. shown.time \in Nat /\ shown.time <= clock /\ RowAt(shown.row, shown.time) /\ Becomes(shown.row, event)
  BY DEF ShownOK
<1>2. RowAt(shown.row, clock) /\ shown.row \in Rows /\ shown.row.regEnd \in Int
      /\ shown.row.regEnd <= shown.time /\ shown.row.start \in Nat
  BY <1>1, LaterRow DEF RowAt, Rows
<1>3. opens => Offered("open", shown.row)
  BY DEF opens, Offered, Allowed
<1>4. finalizes => Offered("finalize", shown.row)
  <2>1. finalizes => canFinalize(shown.row, clock)
    BY <1>1, <1>2, RulesAssumption DEF finalizes, canFinalize
  <2> QED BY <2>1 DEF Offered, Allowed
<1>5. closes => Offered("close", shown.row)
  <2>1. closes => canCloseRegistration(shown.row, clock)
    BY <1>1, <1>2 DEF closes, canCloseRegistration, acceptsPublicRegistration
  <2> QED BY <2>1 DEF Offered, Allowed
<1>6. reopens => Offered("reopen", shown.row)
  <2>1. reopens => canReopenRegistration(shown.row, clock)
    BY <1>1, <1>2 DEF reopens, canReopenRegistration, acceptsPublicRegistration
  <2> QED BY <2>1 DEF Offered, Allowed
<1>7. Offered("delete", shown.row) /\ Offered("request", shown.row) /\ Offered("verify", shown.row)
  BY DEF Offered, Allowed
<1>8. \A link \in Links : link \in Posts /\ Offered(link, shown.row)
  <2>1. canEdit(shown.row) => Offered("edit", shown.row)
    BY DEF Offered, Allowed
  <2>2. canViewReport => Offered("report", shown.row)
    BY <1>2 DEF canViewReport, Offered, isChurchEvent, isRunningEvent, Started
  <2>3. can_record_attendance => Offered("attendance", shown.row)
    BY DEF can_record_attendance, Offered, Allowed
  <2> QED BY <2>1, <2>2, <2>3 DEF Links, Posts
<1> QED BY <1>1, <1>2, <1>3, <1>4, <1>5, <1>6, <1>7, <1>8

(* A question is about a row that was shown, and stands.                   *)
LEMMA AskedStep ==
  ASSUME ServerOK, ServerOK', ServerMoves, ShownOK, AskedOK, EventNext
  PROVE  AskedOK'
<1>0. clock \in Nat /\ clock' \in Nat /\ clock <= clock'
  BY DEF ServerMoves
<1>1. ASSUME asked' = asked PROVE AskedOK'
  <2>1. SUFFICES ASSUME asked # NotAsked PROVE AskedOK'
    BY <1>1 DEF AskedOK
  <2>2. PICK a : a = asked
    OBVIOUS
  <2>3. a \in [what : {"open", "finalize", "delete"}, row : Rows]
        /\ RowAt(a.row, clock) /\ Becomes(a.row, event) /\ Offered(a.what, a.row)
    BY <2>1, <2>2 DEF AskedOK
  <2>4. a.what \in Posts
    BY <2>3 DEF Posts
  <2>5. Offered(a.what, a.row)'
    BY <1>0, <2>3, <2>4, OfferStands
  <2>6. RowAt(a.row, clock') /\ Becomes(a.row, event')
    BY <1>0, <2>3, LaterRow, StillBecomes
  <2>7. a = asked'
    BY <1>1, <2>2
  <2> QED BY <2>3, <2>5, <2>6, <2>7 DEF AskedOK
<1>2. ASSUME asked' = NotAsked PROVE AskedOK'
  BY <1>2 DEF AskedOK
<1>3. CASE Ask
  <2>1. PICK w \in {"open", "finalize", "delete"} :
          asked' = [what |-> w, row |-> shown.row] /\ Offered(w, shown.row)
    BY <1>0, <1>3, ShownOffers DEF Ask, askOpen, askFinalize, askDelete
  <2>2. UNCHANGED <<clock, event>>
    BY <1>3 DEF Ask, rowVars
  <2>3. PICK r : r = shown.row
    OBVIOUS
  <2>4. r \in Rows /\ RowAt(r, clock) /\ Becomes(r, event) /\ Offered(w, r)
    BY <1>0, <2>1, <2>3, ShownOffers
  <2>5. asked' = [what |-> w, row |-> r]
    BY <2>1, <2>3
  <2>6. Offered(w, r)'
    BY <2>2, <2>4 DEF Offered, Allowed
  <2> QED BY <2>2, <2>4, <2>5, <2>6 DEF AskedOK
<1>4. CASE CancelAsked \/ ConfirmAsked \/ Left
  BY <1>2, <1>4 DEF CancelAsked, ConfirmAsked, Left
<1> QED
  BY <1>1, <1>3, <1>4
     DEF EventNext, OtherStaff, TimePasses, CooldownOver, HandleEvent, Follow, openToggle, closeToggle,
         submitToggle, requestOtp, onCodeChange, verify, closeOtp, Second, Back, NoAnswer, Return

LEMMA BeginsOK ==
  ASSUME NEW post \in Posts, NEW row, NEW with \in 0..WrongCode, row \in Rows, RowAt(row, clock),
         Becomes(row, event), Offered(post, row), UNCHANGED <<clock, event>>,
         Begins(post, row, with), Replacing(post)
  PROVE  RideOK' /\ RefusedOnlyWhenStale' /\ NeverStuck'
<1>1. ride' = [post |-> post, basis |-> row, code |-> with,
               state |-> "sent", error |-> "none", stale |-> FALSE]
  BY DEF Begins
<1>2. ride' \in Rides /\ ride'.state = "sent" /\ ride'.post = post /\ ride'.basis = row
  BY <1>1 DEF Rides
<1>3. Offered(post, row)'
  BY DEF Offered, Allowed
<1>4. Offered(ride.post, ride.basis)'
  BY <1>2, <1>3
<1>5. RideOK'
  BY <1>2, <1>4 DEF RideOK
<1>6. RefusedOnlyWhenStale'
  BY <1>2 DEF RefusedOnlyWhenStale
<1>7. NeverStuck'
  BY <1>2 DEF Replacing, NeverStuck
<1> QED BY <1>5, <1>6, <1>7

(* The answer to a visit: of a visit that was offered, a refusal says that *)
(* the event has changed.                                                  *)
LEMMA HandledRide ==
  ASSUME ServerOK, ServerOK', ServerMoves, RideOK, NeverStuck, HandleEvent
  PROVE  RideOK' /\ RefusedOnlyWhenStale' /\ NeverStuck'
<1> DEFINE e == Visited(event)
<1>1. ride # NoRide /\ ride.state = "sent" /\ UNCHANGED <<clock, sending, verifying>>
  BY DEF HandleEvent, otpDialog
<1>2. ride \in Rides /\ RowAt(ride.basis, clock) /\ Becomes(ride.basis, event) /\ Offered(ride.post, ride.basis)
      /\ clock \in Nat
  BY <1>1 DEF RideOK, ServerMoves
<1>3. PICK s \in {"done", "invalid", "refused"},
           err \in {"none", "wait", "unsent", "expired", "locked", "wrong", "failed", "password"} :
        /\ Outcome(s, err)
        /\ s = "done" => err = "none"
        /\ s = "done" /\ ride.post = "request" => mails' > 0
        /\ s = "refused" => event = Gone \/ (event # Gone /\ ride.post \notin {"request", "verify"}
                                             /\ ~ Allowed(ride.post, e))
  <2>1. mails + 1 > 0 /\ mails \in Nat
    BY DEF ServerMoves
  <2>2. CASE event = Gone /\ Outcome("refused", "none")
    BY <2>2
  <2>3. CASE event # Gone /\ ride.post = "request" /\ issue
    BY <2>1, <2>3 DEF issue
  <2>4. CASE event # Gone /\ ride.post = "verify" /\ verifyOtp
    BY <2>4 DEF verifyOtp
  <2>5. ASSUME event # Gone, ride.post \notin {"request", "verify"},
               \/ Allowed(ride.post, e) /\ Outcome("done", "none")
               \/ ~ Allowed(ride.post, e) /\ Outcome("refused", "none")
               \/ Outcome("invalid", "password")
               \/ Outcome("done", "none")
        PROVE  \E s \in {"done", "invalid", "refused"},
                  err \in {"none", "wait", "unsent", "expired", "locked", "wrong", "failed", "password"} :
                 /\ Outcome(s, err)
                 /\ s = "done" => err = "none"
                 /\ s = "done" /\ ride.post = "request" => mails' > 0
                 /\ s = "refused" => event = Gone \/ (event # Gone /\ ride.post \notin {"request", "verify"}
                                                      /\ ~ Allowed(ride.post, e))
    BY <2>5
  <2> QED BY <2>2, <2>3, <2>4, <2>5 DEF HandleEvent
<1>4. ride' = [ride EXCEPT !.state = s, !.error = err, !.stale = e # ride.basis]
  BY <1>3 DEF Outcome
<1>5. ride' \in Rides /\ ride'.post = ride.post /\ ride'.basis = ride.basis /\ ride'.state = s
      /\ ride'.error = err /\ ride'.stale = (e # ride.basis)
  BY <1>2, <1>4 DEF Rides
<1>6. Becomes(ride.basis, event') /\ ride.basis # Gone
  BY <1>2, StillBecomes
<1>7. ride' # NoRide /\ s # "sent"
  BY <1>5 DEF NoRide, Rides
<1>8. RideOK'
  BY <1>1, <1>2, <1>3, <1>5, <1>6, <1>7 DEF RideOK
<1>9. NeverStuck'
  BY <1>1, <1>5 DEF NeverStuck
<1>10. ASSUME s = "refused", event = Gone PROVE RefusedOnlyWhenStale'
  <2>1. e = Gone /\ event' = Gone
    BY <1>10 DEF Visited, ServerMoves
  <2>2. ride'.stale
    BY <1>5, <1>6, <2>1
  <2> QED BY <2>1, <2>2 DEF RefusedOnlyWhenStale
<1>11. ASSUME s = "refused", event # Gone, ride.post \notin {"request", "verify"}, ~ Allowed(ride.post, e)
       PROVE  RefusedOnlyWhenStale'
  <2>1. RowAt(event, clock)
    BY <1>11 DEF ServerOK
  <2>2. e # Gone /\ Becomes(event, e)
    BY <1>2, <2>1, VisitedRow
  <2> HIDE DEF e
  <2>3. CASE ride.post = "report"
    <3>1. Becomes(ride.basis, e)
      BY <1>2, <1>6, <1>11, <2>2, BecomesTrans
    <3>2. isRunningEvent(ride.basis) => Started(e)
      BY <1>2, <2>2, <2>3, <3>1 DEF Becomes, Offered
    <3>3. ~ Started(e)
      BY <1>11, <2>3 DEF Allowed, Started
    <3> QED BY <1>5, <2>3, <3>2, <3>3 DEF RefusedOnlyWhenStale
  <2>4. CASE ride.post # "report"
    <3>1. Allowed(ride.post, ride.basis)
      BY <1>2, <1>11, <2>4 DEF Offered
    <3>2. e # ride.basis
      BY <1>11, <3>1
    <3> QED BY <1>5, <2>4, <3>2 DEF RefusedOnlyWhenStale
  <2> QED BY <2>3, <2>4
<1>12. ASSUME s # "refused" PROVE RefusedOnlyWhenStale'
  BY <1>5, <1>12 DEF RefusedOnlyWhenStale
<1>13. RefusedOnlyWhenStale'
  BY <1>3, <1>10, <1>11, <1>12
<1> QED BY <1>8, <1>9, <1>13

LEMMA RideStep ==
  ASSUME ServerOK, ServerOK', ServerMoves, ShownOK, AskedOK, RideOK, RefusedOnlyWhenStale, NeverStuck,
         code \in 0..WrongCode, EventNext
  PROVE  RideOK' /\ RefusedOnlyWhenStale' /\ NeverStuck'
<1>0. clock \in Nat /\ clock' \in Nat /\ clock <= clock' /\ mails <= mails' /\ mails \in Nat /\ mails' \in Nat
  BY DEF ServerMoves, ServerOK
<1>z. 0 \in 0..WrongCode
  BY EventPageAssumption DEF WrongCode
<1>1. ASSUME ride' = ride, UNCHANGED <<sending, verifying>>
      PROVE  RideOK' /\ RefusedOnlyWhenStale' /\ NeverStuck'
  <2>1. NeverStuck'
    BY <1>1 DEF NeverStuck
  <2>2. RefusedOnlyWhenStale'
    BY <1>1 DEF RefusedOnlyWhenStale, ServerMoves
  <2>3. CASE ride = NoRide
    BY <1>1, <2>1, <2>2, <2>3 DEF RideOK
  <2>4. CASE ride # NoRide
    <3>1. PICK r : r = ride
      OBVIOUS
    <3>2. r \in Rides /\ RowAt(r.basis, clock) /\ Becomes(r.basis, event)
          /\ (r.state = "sent" => Offered(r.post, r.basis))
          /\ (r.state = "done" /\ r.post = "request" => r.error = "none" /\ mails > 0)
      BY <2>4, <3>1 DEF RideOK
    <3>3. r.post \in Posts
      BY <3>2 DEF Rides
    <3>4. RowAt(r.basis, clock') /\ Becomes(r.basis, event')
      BY <1>0, <3>2, LaterRow, StillBecomes
    <3>5. r.state = "sent" => Offered(r.post, r.basis)'
      BY <1>0, <3>2, <3>3, OfferStands
    <3>6. r = ride' /\ (mails > 0 => mails' > 0)
      BY <1>0, <1>1, <3>1
    <3> QED BY <2>1, <2>2, <3>2, <3>4, <3>5, <3>6 DEF RideOK
  <2> QED BY <2>3, <2>4
<1>2. ASSUME Finish PROVE RideOK' /\ RefusedOnlyWhenStale' /\ NeverStuck'
  BY <1>2 DEF Finish, RideOK, RefusedOnlyWhenStale, NeverStuck
<1>3. CASE HandleEvent
  BY <1>3, HandledRide
<1>4. CASE ConfirmAsked
  <2>1. asked # NotAsked /\ asked.what \in Posts /\ asked.row \in Rows
        /\ RowAt(asked.row, clock) /\ Becomes(asked.row, event) /\ Offered(asked.what, asked.row)
    BY <1>4 DEF ConfirmAsked, AskedOK, Posts
  <2>2. PICK post : post = IF asked.what = "delete" /\ requires_otp THEN "request" ELSE asked.what
    OBVIOUS
  <2>3. Begins(post, asked.row, 0) /\ Replacing(post) /\ UNCHANGED <<clock, event>>
    BY <1>4, <2>2 DEF ConfirmAsked, rowVars
  <2>4. Offered("request", asked.row) /\ "request" \in Posts
    BY DEF Offered, Posts
  <2>5. post \in Posts /\ Offered(post, asked.row)
    BY <2>1, <2>2, <2>4
  <2> QED BY <1>z, <2>1, <2>3, <2>5, BeginsOK
<1>5. CASE Follow
  <2>1. PICK link \in Links : Begins(link, shown.row, 0) /\ Replacing(link)
    BY <1>5 DEF Follow
  <2>2. UNCHANGED <<clock, event>>
    BY <1>5 DEF Follow, rowVars
  <2>3. link \in Posts /\ Offered(link, shown.row) /\ shown.row \in Rows
        /\ RowAt(shown.row, clock) /\ Becomes(shown.row, event)
    BY <1>0, ShownOffers
  <2> QED BY <1>z, <2>1, <2>2, <2>3, BeginsOK
<1>6. CASE submitToggle
  <2>1. PICK post : post = IF closes THEN "close" ELSE "reopen"
    OBVIOUS
  <2>2. Begins(post, shown.row, 0) /\ Replacing(post) /\ toggle /\ UNCHANGED <<clock, event>>
    BY <1>6, <2>1 DEF submitToggle, rowVars
  <2>3. closes \/ reopens
    BY <2>2 DEF ShownOK
  <2>4. post \in Posts
    BY <2>1 DEF Posts
  <2>5. Offered(post, shown.row) /\ shown.row \in Rows
        /\ RowAt(shown.row, clock) /\ Becomes(shown.row, event)
    BY <1>0, <2>1, <2>3, ShownOffers
  <2> QED BY <1>z, <2>2, <2>4, <2>5, BeginsOK
<1>7. CASE requestOtp \/ verify
  <2>1. PICK post \in {"request", "verify"}, with \in {0, code} :
          Begins(post, shown.row, with) /\ Replacing(post)
    BY <1>7 DEF requestOtp, verify
  <2>2. UNCHANGED <<clock, event>>
    BY <1>7 DEF requestOtp, verify, rowVars
  <2>3. post \in Posts /\ with \in 0..WrongCode
    BY <1>z, <2>1 DEF Posts
  <2>4. Offered(post, shown.row) /\ shown.row \in Rows
        /\ RowAt(shown.row, clock) /\ Becomes(shown.row, event)
    BY <1>0, <2>1, ShownOffers
  <2> QED BY <2>1, <2>2, <2>3, <2>4, BeginsOK
<1>8. CASE Left \/ Back \/ NoAnswer
  BY <1>2, <1>8 DEF Left, Back, NoAnswer
<1>9. CASE Return
  BY <1>9, <1>2 DEF Return, Finish
<1> QED
  BY <1>1, <1>3, <1>4, <1>5, <1>6, <1>7, <1>8, <1>9
     DEF EventNext, OtherStaff, TimePasses, CooldownOver, Ask, CancelAsked, openToggle, closeToggle,
         onCodeChange, closeOtp, Second, otpDialog

(* The rest of the types, and the countdown.                               *)
LEMMA EventTypesStep ==
  ASSUME ServerOK, ServerOK', ServerMoves, EventPageTypeOK, AskedOK', RideOK, CountdownAfterCode, EventNext
  PROVE  EventPageTypeOK' /\ CountdownAfterCode'
<1> USE EventPageAssumption
<1>0. /\ clock' \in 0..MaxClock /\ mails' \in 0..MaxMails /\ mails \in Nat /\ mails' \in Nat /\ mails <= mails'
      /\ otp'.attempts < MAX_ATTEMPTS
  <2>1. otp'.attempts \in 0..(MAX_ATTEMPTS - 1)
    BY DEF ServerOK
  <2> QED BY <2>1 DEF ServerOK, ServerMoves
<1>1. asked'.what \in {"nothing", "open", "finalize", "delete"}
  <2>1. CASE asked' = NotAsked
    BY <2>1 DEF NotAsked
  <2>2. CASE asked' # NotAsked
    BY <2>2 DEF AskedOK
  <2> QED BY <2>1, <2>2
<1>2. clicks' \in 0..MaxClicks
  BY DEF EventNext, EventPageTypeOK, OtherStaff, TimePasses, CooldownOver, HandleEvent, Ask, CancelAsked,
         ConfirmAsked, Follow, openToggle, closeToggle, submitToggle, requestOtp, onCodeChange, verify,
         closeOtp, Second, Left, Back, NoAnswer, Return, Click
<1>3. at' \in {"event", "left"} /\ code' \in 0..WrongCode
  <2>1. mails \in 0..WrongCode /\ WrongCode \in 0..WrongCode /\ 0 \in 0..WrongCode
    BY DEF ServerOK, WrongCode
  <2> QED
    BY <2>1
       DEF EventNext, EventPageTypeOK, OtherStaff, TimePasses, CooldownOver, HandleEvent, Ask, CancelAsked,
         ConfirmAsked, Follow, openToggle, closeToggle, submitToggle, requestOtp, onCodeChange, verify,
         closeOtp, Second, Left, Back, NoAnswer, Return, otpDialog, pageState
<1>4. {requires_otp, toggle, otpOpen, sending, verifying}' \subseteq BOOLEAN
  <2>1. UNCHANGED requires_otp /\ toggle' \in BOOLEAN
    BY DEF EventNext, EventPageTypeOK, OtherStaff, TimePasses, CooldownOver, HandleEvent, Ask, CancelAsked,
         ConfirmAsked, Follow, openToggle, closeToggle, submitToggle, requestOtp, onCodeChange, verify,
         closeOtp, Second, Left, Back, NoAnswer, Return, otpDialog, pageState
  <2>2. otpOpen' \in BOOLEAN
    BY DEF EventNext, EventPageTypeOK, OtherStaff, TimePasses, CooldownOver, HandleEvent, Ask, CancelAsked,
         ConfirmAsked, Follow, openToggle, closeToggle, submitToggle, requestOtp, onCodeChange, verify,
         closeOtp, Second, Left, Back, NoAnswer, Return, otpDialog
  <2>3. sending' \in BOOLEAN /\ verifying' \in BOOLEAN
    BY DEF EventNext, EventPageTypeOK, OtherStaff, TimePasses, CooldownOver, HandleEvent, Ask, CancelAsked,
         ConfirmAsked, Follow, openToggle, closeToggle, submitToggle, requestOtp, onCodeChange, verify,
         closeOtp, Second, Left, Back, NoAnswer, Return, otpDialog, Replacing, Finish
  <2>4. requires_otp \in BOOLEAN
    BY DEF EventPageTypeOK
  <2> QED BY <2>1, <2>2, <2>3, <2>4
<1>5. countdown' \in 0..Countdown /\ CountdownAfterCode'
  <2>0. countdown \in 0..Countdown /\ (countdown > 0 => serverError = "none" /\ mails > 0)
    BY DEF EventPageTypeOK, CountdownAfterCode
  <2>1. ASSUME UNCHANGED <<countdown, serverError>>
        PROVE  countdown' \in 0..Countdown /\ CountdownAfterCode'
    BY <1>0, <2>0, <2>1 DEF CountdownAfterCode
  <2>2. CASE Second
    BY <1>0, <2>0, <2>2 DEF Second, CountdownAfterCode
  <2>3. CASE Back
    <3>1. PICK err : err = IF ride.error = "password" THEN "none" ELSE ride.error
      OBVIOUS
    <3>2. serverError' = err
          /\ countdown' = IF ride.state = "done" THEN Countdown
                          ELSE IF err # "none" /\ err # serverError THEN 0 ELSE countdown
      BY <2>3, <3>1 DEF Back, resetsCountdown
    <3>3. CASE ride.state = "done"
      <4>1. ride # NoRide /\ ride.post = "request"
        BY <2>3, <3>3 DEF Back
      <4>2. err = "none" /\ mails > 0
        BY <3>1, <3>3, <4>1 DEF RideOK
      <4> QED BY <1>0, <3>2, <3>3, <4>2 DEF CountdownAfterCode
    <3>4. CASE ride.state # "done"
      <4>1. CASE err # "none" /\ err # serverError
        BY <3>2, <3>4, <4>1 DEF CountdownAfterCode
      <4>2. CASE ~ (err # "none" /\ err # serverError)
        <5>1. countdown' = countdown /\ serverError' = err
          BY <3>2, <3>4, <4>2
        <5>2. countdown > 0 => err = "none"
          BY <2>0, <4>2
        <5> QED BY <1>0, <2>0, <5>1, <5>2 DEF CountdownAfterCode
      <4> QED BY <4>1, <4>2
    <3> QED BY <3>3, <3>4
  <2>4. CASE Return
    BY <2>4 DEF Return, CountdownAfterCode
  <2> QED
    BY <2>1, <2>2, <2>3, <2>4
       DEF EventNext, OtherStaff, TimePasses, CooldownOver, HandleEvent, Ask, CancelAsked,
         ConfirmAsked, Follow, openToggle, closeToggle, submitToggle, requestOtp, onCodeChange, verify,
         closeOtp, Left, NoAnswer, otpDialog
<1> QED BY <1>0, <1>1, <1>2, <1>3, <1>4, <1>5 DEF EventPageTypeOK

LEMMA EventInvInit == Init => EventInv
<1> SUFFICES ASSUME Init PROVE EventInv
  OBVIOUS
<1> USE EventPageAssumption
<1>1. PICK k \in EventKinds, s \in 0..MaxClock : event = NewEvent(k, s)
  BY DEF Init, EventInit
<1>2. event \in Rows /\ event.regEnd = None
  BY <1>1 DEF NewEvent, Rows, Statuses, ChurchStatuses, None
<1>3. /\ clock = 0 /\ otp = NoCode /\ mails = 0 /\ requires_otp \in BOOLEAN
      /\ at = "event" /\ shown = [row |-> event, time |-> 0]
      /\ asked = NotAsked /\ toggle = FALSE
      /\ otpOpen = FALSE /\ code = 0 /\ sending = FALSE /\ verifying = FALSE
      /\ countdown = 0 /\ serverError = "none" /\ ride = NoRide /\ clicks = 0
  BY DEF Init, EventInit
<1>4. RowAt(event, 0)
  BY <1>2 DEF RowAt, None
<1>5. ServerOK
  <2>1. NoCode \in [live : BOOLEAN, attempts : 0..(MAX_ATTEMPTS - 1), cooling : BOOLEAN]
    BY DEF NoCode
  <2> QED BY <1>3, <1>4, <2>1 DEF ServerOK
<1>6. ShownOK
  <2>1. shown.row = event /\ shown.time = 0
    BY <1>3
  <2> QED BY <1>3, <1>4, <2>1 DEF ShownOK, Becomes
<1>7. AskedOK /\ RideOK /\ RefusedOnlyWhenStale /\ CountdownAfterCode
  BY <1>3 DEF AskedOK, RideOK, RefusedOnlyWhenStale, CountdownAfterCode
<1>8. NeverStuck
  BY <1>3 DEF NeverStuck
<1>9. EventPageTypeOK
  <2>1. otp.attempts < MAX_ATTEMPTS
    BY <1>3 DEF NoCode
  <2>2. asked.what = "nothing"
    BY <1>3 DEF NotAsked
  <2>3. clock \in 0..MaxClock /\ mails \in 0..MaxMails /\ countdown \in 0..Countdown /\ clicks \in 0..MaxClicks
    BY <1>3
  <2>4. code \in 0..WrongCode
    BY <1>3 DEF WrongCode
  <2>5. {requires_otp, toggle, otpOpen, sending, verifying} \subseteq BOOLEAN /\ at \in {"event", "left"}
    BY <1>3
  <2> QED BY <2>1, <2>2, <2>3, <2>4, <2>5 DEF EventPageTypeOK
<1> QED BY <1>5, <1>6, <1>7, <1>8, <1>9 DEF EventInv, EventPageSound

LEMMA EventInvStep == EventInv /\ [Next]_vars => EventInv'
<1> SUFFICES ASSUME EventInv, [Next]_vars PROVE EventInv'
  OBVIOUS
<1>1. CASE EventNext
  <2>1. ServerOK' /\ ServerMoves
    BY <1>1, ServerStep DEF EventInv
  <2>2. ShownOK' /\ AskedOK'
    BY <1>1, <2>1, ShownStep, AskedStep DEF EventInv
  <2>3. code \in 0..WrongCode
    BY DEF EventInv, EventPageSound, EventPageTypeOK
  <2>4. RideOK' /\ RefusedOnlyWhenStale' /\ NeverStuck'
    BY <1>1, <2>1, <2>3, RideStep DEF EventInv, EventPageSound
  <2>5. EventPageTypeOK' /\ CountdownAfterCode'
    BY <1>1, <2>1, <2>2, EventTypesStep DEF EventInv, EventPageSound
  <2> QED BY <2>1, <2>2, <2>4, <2>5 DEF EventInv, EventPageSound
<1>2. CASE UNCHANGED eventVars
  <2>1. UNCHANGED <<clock, event, otp, mails, otpOpen, code, sending, verifying, countdown, serverError,
                    requires_otp, at, shown, asked, toggle, ride, clicks>>
    BY <1>2 DEF eventVars, rowVars, otpServer, otpDialog, pageState
  <2>2. ServerOK' /\ ShownOK' /\ AskedOK'
    BY <2>1 DEF EventInv, ServerOK, ShownOK, AskedOK, closes, reopens, Offered, Allowed
  <2>3. RideOK'
    BY <2>1 DEF EventInv, RideOK, Offered, Allowed
  <2>4. EventPageSound'
    BY <2>1 DEF EventInv, EventPageSound, EventPageTypeOK, RefusedOnlyWhenStale, NeverStuck, CountdownAfterCode
  <2> QED BY <2>2, <2>3, <2>4 DEF EventInv
<1> QED BY <1>1, <1>2 DEF Next, vars

(* A button of the page of the event is refused only after somebody else   *)
(* changed the event, no button of the deletion dialog waits for a request *)
(* that is over, and nothing counts down while there is an error to read:  *)
(* whatever others do meanwhile, whichever visits replace each other, and  *)
(* whatever dialogs stood open.                                            *)
THEOREM EventPageKeepsItsWord == Spec => []EventPageSound
<1>1. EventInv => EventPageSound
  BY DEF EventInv
<1> QED BY <1>1, EventInvInit, EventInvStep, PTL DEF Spec

-----------------------------------------------------------------------------
(* Removing, inserting and moving in a sequence.                           *)

RemovedFrom(S, s, k, t) ==
  /\ t \in Seq(S) /\ Len(t) = Len(s) - 1
  /\ \A i \in 1..(Len(s) - 1) : t[i] = IF i < k THEN s[i] ELSE s[i + 1]

InsertedIn(S, s, k, x, t) ==
  /\ t \in Seq(S) /\ Len(t) = Len(s) + 1
  /\ \A i \in 1..(Len(s) + 1) : t[i] = IF i < k THEN s[i] ELSE IF i = k THEN x ELSE s[i - 1]

LEMMA RemoveAtFacts ==
  ASSUME NEW S, NEW s \in Seq(S), NEW k \in 1..Len(s)
  PROVE  RemovedFrom(S, s, k, RemoveAt(s, k))
<1> DEFINE a == SubSeq(s, 1, k - 1)
           b == SubSeq(s, k + 1, Len(s))
<1>0. Len(s) \in Nat /\ k \in Nat /\ k >= 1 /\ k <= Len(s)
  BY LenProperties
<1>1. a \in Seq(S) /\ Len(a) = k - 1 /\ \A i \in 1..(k - 1) : a[i] = s[i]
  <2>1. \A i \in 1..(k - 1) : s[i] \in S
    BY <1>0, ElementOfSeq
  <2>2. /\ SubSeq(s, 1, k - 1) \in Seq(S)
        /\ Len(SubSeq(s, 1, k - 1)) = IF 1 <= k - 1 THEN (k - 1) - 1 + 1 ELSE 0
        /\ \A i \in 1..((k - 1) - 1 + 1) : SubSeq(s, 1, k - 1)[i] = s[1 + i - 1]
    BY <1>0, <2>1, SubSeqProperties
  <2> QED BY <1>0, <2>2
<1>2. b \in Seq(S) /\ Len(b) = Len(s) - k /\ \A i \in 1..(Len(s) - k) : b[i] = s[k + i]
  <2>1. \A i \in (k + 1)..Len(s) : s[i] \in S
    BY <1>0, ElementOfSeq
  <2>2. /\ SubSeq(s, k + 1, Len(s)) \in Seq(S)
        /\ Len(SubSeq(s, k + 1, Len(s))) = IF k + 1 <= Len(s) THEN Len(s) - (k + 1) + 1 ELSE 0
        /\ \A i \in 1..(Len(s) - (k + 1) + 1) : SubSeq(s, k + 1, Len(s))[i] = s[(k + 1) + i - 1]
    BY <1>0, <2>1, SubSeqProperties
  <2>3. Len(b) = Len(s) - k
    BY <1>0, <2>2
  <2>4. ASSUME NEW i \in 1..(Len(s) - k) PROVE b[i] = s[k + i]
    <3>1. i \in 1..(Len(s) - (k + 1) + 1) /\ (k + 1) + i - 1 = k + i
      BY <1>0
    <3> QED BY <2>2, <3>1
  <2> QED BY <2>2, <2>3, <2>4
<1>3. RemoveAt(s, k) = a \o b
  BY DEF RemoveAt
<1> HIDE DEF a, b
<1>4. /\ a \o b \in Seq(S) /\ Len(a \o b) = Len(a) + Len(b)
      /\ \A i \in 1..(Len(a) + Len(b)) : (a \o b)[i] = IF i <= Len(a) THEN a[i] ELSE b[i - Len(a)]
  BY <1>1, <1>2, ConcatProperties
<1>5. ASSUME NEW i \in 1..(Len(s) - 1)
      PROVE  (a \o b)[i] = IF i < k THEN s[i] ELSE s[i + 1]
  <2>1. i \in 1..(Len(a) + Len(b))
    BY <1>0, <1>1, <1>2
  <2>2. CASE i < k
    <3>1. i <= Len(a) /\ i \in 1..(k - 1)
      BY <1>0, <1>1, <2>2
    <3> QED BY <1>1, <1>4, <2>1, <2>2, <3>1
  <2>3. CASE ~ (i < k)
    <3>1. ~ (i <= Len(a)) /\ i - Len(a) \in 1..(Len(s) - k) /\ k + (i - Len(a)) = i + 1
      BY <1>0, <1>1, <2>3
    <3>2. b[i - Len(a)] = s[k + (i - Len(a))]
      BY <1>2, <3>1
    <3> QED BY <1>4, <2>1, <2>3, <3>1, <3>2
  <2> QED BY <2>2, <2>3
<1>6. a \o b \in Seq(S) /\ Len(a \o b) = Len(s) - 1
  BY <1>0, <1>1, <1>2, <1>4
<1> QED BY <1>3, <1>5, <1>6 DEF RemovedFrom

LEMMA InsertAtFacts ==
  ASSUME NEW S, NEW s \in Seq(S), NEW k \in 1..(Len(s) + 1), NEW x \in S
  PROVE  InsertedIn(S, s, k, x, InsertAt(s, k, x))
<1> DEFINE a == SubSeq(s, 1, k - 1)
           b == SubSeq(s, k, Len(s))
           c == <<x>>
<1>0. Len(s) \in Nat /\ k \in Nat /\ k >= 1 /\ k <= Len(s) + 1
  BY LenProperties
<1>1. a \in Seq(S) /\ Len(a) = k - 1 /\ \A i \in 1..(k - 1) : a[i] = s[i]
  <2>1. \A i \in 1..(k - 1) : s[i] \in S
    BY <1>0, ElementOfSeq
  <2>2. /\ SubSeq(s, 1, k - 1) \in Seq(S)
        /\ Len(SubSeq(s, 1, k - 1)) = IF 1 <= k - 1 THEN (k - 1) - 1 + 1 ELSE 0
        /\ \A i \in 1..((k - 1) - 1 + 1) : SubSeq(s, 1, k - 1)[i] = s[1 + i - 1]
    BY <1>0, <2>1, SubSeqProperties
  <2> QED BY <1>0, <2>2
<1>2. b \in Seq(S) /\ Len(b) = Len(s) - k + 1 /\ \A i \in 1..(Len(s) - k + 1) : b[i] = s[k + i - 1]
  <2>1. \A i \in k..Len(s) : s[i] \in S
    BY <1>0, ElementOfSeq
  <2>2. /\ SubSeq(s, k, Len(s)) \in Seq(S)
        /\ Len(SubSeq(s, k, Len(s))) = IF k <= Len(s) THEN Len(s) - k + 1 ELSE 0
        /\ \A i \in 1..(Len(s) - k + 1) : SubSeq(s, k, Len(s))[i] = s[k + i - 1]
    BY <1>0, <2>1, SubSeqProperties
  <2> QED BY <1>0, <2>2
<1>3. c \in Seq(S) /\ Len(c) = 1 /\ c[1] = x
  OBVIOUS
<1> DEFINE d == a \o c
           w == d \o b
<1>4. InsertAt(s, k, x) = w
  BY DEF InsertAt
<1> HIDE DEF a, b, c
<1>5. d \in Seq(S) /\ Len(d) = k /\ \A i \in 1..k : d[i] = IF i <= k - 1 THEN a[i] ELSE c[i - (k - 1)]
  <2>1. /\ a \o c \in Seq(S) /\ Len(a \o c) = Len(a) + Len(c)
        /\ \A i \in 1..(Len(a) + Len(c)) : (a \o c)[i] = IF i <= Len(a) THEN a[i] ELSE c[i - Len(a)]
    BY <1>1, <1>3, ConcatProperties
  <2>2. Len(a) + Len(c) = k /\ Len(a) = k - 1
    BY <1>0, <1>1, <1>3
  <2> QED BY <2>1, <2>2
<1> HIDE DEF d
<1>6. /\ w \in Seq(S) /\ Len(w) = Len(s) + 1
      /\ \A i \in 1..(Len(s) + 1) : w[i] = IF i <= k THEN d[i] ELSE b[i - k]
  <2>1. /\ d \o b \in Seq(S) /\ Len(d \o b) = Len(d) + Len(b)
        /\ \A i \in 1..(Len(d) + Len(b)) : (d \o b)[i] = IF i <= Len(d) THEN d[i] ELSE b[i - Len(d)]
    BY <1>2, <1>5, ConcatProperties
  <2>2. Len(d) + Len(b) = Len(s) + 1 /\ Len(d) = k
    BY <1>0, <1>2, <1>5
  <2> QED BY <2>1, <2>2
<1> HIDE DEF w
<1>7. ASSUME NEW i \in 1..(Len(s) + 1)
      PROVE  w[i] = IF i < k THEN s[i] ELSE IF i = k THEN x ELSE s[i - 1]
  <2>1. CASE i < k
    <3>1. i <= k /\ i \in 1..k /\ i <= k - 1 /\ i \in 1..(k - 1)
      BY <1>0, <2>1
    <3>2. w[i] = a[i] /\ a[i] = s[i]
      BY <1>1, <1>5, <1>6, <3>1
    <3> QED BY <2>1, <3>2
  <2>2. CASE i = k
    <3>1. i <= k /\ i \in 1..k /\ ~ (i <= k - 1) /\ i - (k - 1) = 1 /\ ~ (i < k)
      BY <1>0, <2>2
    <3>2. w[i] = d[i] /\ d[i] = c[i - (k - 1)]
      BY <1>5, <1>6, <3>1
    <3> QED BY <1>3, <2>2, <3>1, <3>2
  <2>3. CASE i > k
    <3>1. ~ (i <= k) /\ i - k \in 1..(Len(s) - k + 1) /\ k + (i - k) - 1 = i - 1 /\ ~ (i < k) /\ i # k
      BY <1>0, <2>3
    <3>2. b[i - k] = s[k + (i - k) - 1]
      BY <1>2, <3>1
    <3>3. w[i] = b[i - k]
      BY <1>6, <3>1
    <3> QED BY <3>1, <3>2, <3>3
  <2> QED BY <1>0, <2>1, <2>2, <2>3
<1> QED BY <1>4, <1>6, <1>7 DEF InsertedIn

(* A move is a permutation: what is at i comes from Origin(i), and goes    *)
(* back there by the opposite move.                                        *)
Origin(from, to, i) ==
  IF i = to THEN from
  ELSE LET j == IF i < to THEN i ELSE i - 1 IN IF j < from THEN j ELSE j + 1

MovedIn(S, s, from, to, t) ==
  /\ t \in Seq(S) /\ Len(t) = Len(s)
  /\ \A i \in 1..Len(s) : \E j \in 1..Len(s) : j = Origin(from, to, i) /\ t[i] = s[j]

LEMMA MoveFacts ==
  ASSUME NEW S, NEW s \in Seq(S), NEW from \in 1..Len(s), NEW to \in 1..Len(s)
  PROVE  MovedIn(S, s, from, to, InsertAt(RemoveAt(s, from), to, s[from]))
<1> DEFINE r == RemoveAt(s, from)
           x == s[from]
           m == InsertAt(r, to, x)
<1>0. Len(s) \in Nat /\ x \in S /\ Len(s) >= 1
  BY LenProperties, ElementOfSeq
<1>1. r \in Seq(S) /\ Len(r) = Len(s) - 1 /\ \A i \in 1..(Len(s) - 1) : r[i] = IF i < from THEN s[i] ELSE s[i + 1]
  <2>1. RemovedFrom(S, s, from, RemoveAt(s, from))
    BY RemoveAtFacts
  <2> QED BY <2>1 DEF RemovedFrom
<1> HIDE DEF r, x
<1>2. to \in 1..(Len(r) + 1) /\ Len(r) + 1 = Len(s)
  BY <1>0, <1>1
<1>3. /\ m \in Seq(S) /\ Len(m) = Len(r) + 1
      /\ \A i \in 1..(Len(r) + 1) : m[i] = IF i < to THEN r[i] ELSE IF i = to THEN x ELSE r[i - 1]
  <2>1. r \in Seq(S) /\ x \in S /\ to \in 1..(Len(r) + 1)
    BY <1>0, <1>1, <1>2
  <2>2. InsertedIn(S, r, to, x, InsertAt(r, to, x))
    BY <2>1, InsertAtFacts
  <2> QED BY <2>2 DEF InsertedIn
<1> HIDE DEF m
<1>4. ASSUME NEW i \in 1..Len(s)
      PROVE  Origin(from, to, i) \in 1..Len(s) /\ m[i] = s[Origin(from, to, i)]
  <2>1. CASE i = to
    BY <1>2, <1>3, <2>1 DEF Origin, x
  <2>2. CASE i < to
    <3>1. i \in 1..(Len(s) - 1) /\ m[i] = r[i]
      BY <1>0, <1>2, <1>3, <2>2
    <3>2. Origin(from, to, i) = IF i < from THEN i ELSE i + 1
      BY <2>2 DEF Origin
    <3> QED BY <1>0, <1>1, <3>1, <3>2
  <2>3. CASE i > to
    <3>1. i - 1 \in 1..(Len(s) - 1) /\ m[i] = r[i - 1]
      BY <1>0, <1>2, <1>3, <2>3
    <3>2. Origin(from, to, i) = IF i - 1 < from THEN i - 1 ELSE (i - 1) + 1
      BY <2>3 DEF Origin
    <3> QED BY <1>0, <1>1, <3>1, <3>2
  <2> QED BY <1>0, <2>1, <2>2, <2>3
<1>5. m \in Seq(S) /\ Len(m) = Len(s)
  BY <1>2, <1>3
<1>6. MovedIn(S, s, from, to, m)
  BY <1>4, <1>5 DEF MovedIn
<1> QED BY <1>6 DEF m, r, x

LEMMA MovesBack ==
  ASSUME NEW n \in Nat, NEW from \in 1..n, NEW to \in 1..n, NEW i \in 1..n
  PROVE  Origin(from, to, Origin(to, from, i)) = i /\ Origin(to, from, i) \in 1..n
BY DEF Origin

-----------------------------------------------------------------------------
(* The choices of the T-shirt: the reserved sizes are there, once.         *)

LEMMA ChoicesFacts ==
  ASSUME NEW c, ChoicesOK(c)
  PROVE  /\ c \in Seq(Sizes) /\ Len(c) \in Nat /\ DOMAIN c = 1..Len(c) /\ Len(c) <= MAX_CHOICES
         /\ \A i \in 1..Len(c) : c[i] \in Sizes
         /\ \A r \in Reserved : \E i \in 1..Len(c) : c[i] = r
         /\ \A k, j \in 1..Len(c) : c[k] = c[j] /\ k # j => c[k] \notin Reserved
<1>1. c \in Seq(Sizes) /\ Len(c) \in Nat /\ DOMAIN c = 1..Len(c) /\ Len(c) <= MAX_CHOICES
  BY LenProperties DEF ChoicesOK
<1>2. \A i \in 1..Len(c) : c[i] \in Sizes
  BY <1>1, ElementOfSeq
<1> QED BY <1>1, <1>2 DEF ChoicesOK, Images

LEMMA ChoicesFrom ==
  ASSUME NEW c, c \in Seq(Sizes), Len(c) <= MAX_CHOICES,
         \A r \in Reserved : \E i \in 1..Len(c) : c[i] = r,
         \A k, j \in 1..Len(c) : c[k] = c[j] /\ k # j => c[k] \notin Reserved
  PROVE  ChoicesOK(c)
<1>1. DOMAIN c = 1..Len(c)
  BY LenProperties
<1> QED BY <1>1 DEF ChoicesOK, Images

LEMMA DefaultChoices == ChoicesOK(<<"S", "M", "L">>)
<1>1. <<"S", "M", "L">> \in Seq(Sizes) /\ Len(<<"S", "M", "L">>) = 3 /\ 3 <= MAX_CHOICES
  <2>1. "S" \in Sizes /\ "M" \in Sizes /\ "L" \in Sizes
    BY DEF Sizes, Reserved
  <2>2. 3 <= MAX_CHOICES
    BY BuilderAssumption
  <2> QED BY <2>1, <2>2
<1>2. <<"S", "M", "L">>[1] = "S" /\ <<"S", "M", "L">>[2] = "M" /\ <<"S", "M", "L">>[3] = "L"
  OBVIOUS
<1>3. PICK c : c = <<"S", "M", "L">>
  OBVIOUS
<1>4. c \in Seq(Sizes) /\ Len(c) = 3 /\ c[1] = "S" /\ c[2] = "M" /\ c[3] = "L"
  BY <1>1, <1>2, <1>3
<1>5. \A r \in Reserved : \E i \in 1..Len(c) : c[i] = r
  <2>1. 1 \in 1..Len(c) /\ 2 \in 1..Len(c) /\ 3 \in 1..Len(c)
    BY <1>4
  <2> QED BY <1>4, <2>1 DEF Reserved
<1>6. \A k, j \in 1..Len(c) : c[k] = c[j] /\ k # j => c[k] \notin Reserved
  <2>1. \A k \in 1..Len(c) : k = 1 \/ k = 2 \/ k = 3
    BY <1>4
  <2> QED BY <1>4, <2>1
<1>7. Len(c) <= MAX_CHOICES
  BY <1>1, <1>4
<1>8. ChoicesOK(c)
  BY <1>4, <1>5, <1>6, <1>7, ChoicesFrom
<1> QED BY <1>3, <1>8

LEMMA ChoicesMove ==
  ASSUME NEW c, ChoicesOK(c), NEW from \in DOMAIN c, NEW to \in DOMAIN c
  PROVE  ChoicesOK(InsertAt(RemoveAt(c, from), to, c[from]))
<1> DEFINE m == InsertAt(RemoveAt(c, from), to, c[from])
<1>1. /\ c \in Seq(Sizes) /\ Len(c) \in Nat /\ DOMAIN c = 1..Len(c) /\ Len(c) <= MAX_CHOICES
      /\ \A r \in Reserved : \E i \in 1..Len(c) : c[i] = r
      /\ \A k, j \in 1..Len(c) : c[k] = c[j] /\ k # j => c[k] \notin Reserved
  BY ChoicesFacts
<1>2. from \in 1..Len(c) /\ to \in 1..Len(c)
  BY <1>1
<1>3. /\ m \in Seq(Sizes) /\ Len(m) = Len(c)
      /\ \A i \in 1..Len(c) : Origin(from, to, i) \in 1..Len(c) /\ m[i] = c[Origin(from, to, i)]
  <2>1. c \in Seq(Sizes) /\ from \in 1..Len(c) /\ to \in 1..Len(c)
    BY <1>1, <1>2
  <2>2. MovedIn(Sizes, c, from, to, InsertAt(RemoveAt(c, from), to, c[from]))
    BY <2>1, MoveFacts
  <2> QED BY <2>2 DEF MovedIn
<1> HIDE DEF m
<1>4. ASSUME NEW r \in Reserved PROVE \E i \in 1..Len(m) : m[i] = r
  <2>1. PICK j \in 1..Len(c) : c[j] = r
    BY <1>1
  <2>2. Origin(from, to, Origin(to, from, j)) = j /\ Origin(to, from, j) \in 1..Len(c)
    BY <1>1, <1>2, MovesBack
  <2> QED BY <1>3, <2>1, <2>2
<1>5. ASSUME NEW k \in 1..Len(m), NEW j \in 1..Len(m), m[k] = m[j], k # j PROVE m[k] \notin Reserved
  <2>1. Origin(from, to, k) \in 1..Len(c) /\ Origin(from, to, j) \in 1..Len(c)
        /\ m[k] = c[Origin(from, to, k)] /\ m[j] = c[Origin(from, to, j)]
    BY <1>3, <1>5
  <2>2. Origin(from, to, k) # Origin(from, to, j)
    <3>1. Origin(to, from, Origin(from, to, k)) = k /\ Origin(to, from, Origin(from, to, j)) = j
      BY <1>1, <1>2, <1>3, MovesBack
    <3> QED BY <1>5, <3>1
  <2> QED BY <1>1, <1>5, <2>1, <2>2
<1> QED BY <1>1, <1>3, <1>4, <1>5, ChoicesFrom DEF m

LEMMA ChoicesEdit ==
  ASSUME NEW c, ChoicesOK(c), NEW k \in DOMAIN c, NEW text \in Sizes,
         c[k] \notin Reserved, text \notin Reserved
  PROVE  ChoicesOK([c EXCEPT ![k] = text])
<1> DEFINE m == [c EXCEPT ![k] = text]
<1>1. /\ c \in Seq(Sizes) /\ Len(c) \in Nat /\ DOMAIN c = 1..Len(c) /\ Len(c) <= MAX_CHOICES
      /\ \A r \in Reserved : \E i \in 1..Len(c) : c[i] = r
      /\ \A i, j \in 1..Len(c) : c[i] = c[j] /\ i # j => c[i] \notin Reserved
  BY ChoicesFacts
<1>2. /\ m \in Seq(Sizes) /\ Len(m) = Len(c)
      /\ \A j \in 1..Len(c) : m[j] = IF j = k THEN text ELSE c[j]
  BY <1>1, ExceptSeq
<1> HIDE DEF m
<1>3. \A r \in Reserved : \E i \in 1..Len(m) : m[i] = r
  BY <1>1, <1>2
<1>4. \A i, j \in 1..Len(m) : m[i] = m[j] /\ i # j => m[i] \notin Reserved
  BY <1>1, <1>2
<1> QED BY <1>1, <1>2, <1>3, <1>4, ChoicesFrom DEF m

LEMMA ChoicesRemove ==
  ASSUME NEW c, ChoicesOK(c), NEW k \in DOMAIN c, c[k] \notin Reserved
  PROVE  ChoicesOK(RemoveAt(c, k))
<1> DEFINE m == RemoveAt(c, k)
<1>0. MAX_CHOICES \in Nat
  BY BuilderAssumption
<1>1. /\ c \in Seq(Sizes) /\ Len(c) \in Nat /\ DOMAIN c = 1..Len(c) /\ Len(c) <= MAX_CHOICES
      /\ \A r \in Reserved : \E i \in 1..Len(c) : c[i] = r
      /\ \A i, j \in 1..Len(c) : c[i] = c[j] /\ i # j => c[i] \notin Reserved
  BY ChoicesFacts
<1>2. /\ m \in Seq(Sizes) /\ Len(m) = Len(c) - 1 /\ k \in 1..Len(c)
      /\ \A i \in 1..(Len(c) - 1) : m[i] = IF i < k THEN c[i] ELSE c[i + 1]
  <2>1. c \in Seq(Sizes) /\ k \in 1..Len(c)
    BY <1>1
  <2>2. RemovedFrom(Sizes, c, k, RemoveAt(c, k))
    BY <2>1, RemoveAtFacts
  <2> QED BY <1>1, <2>2 DEF RemovedFrom
<1> HIDE DEF m
<1>3. ASSUME NEW r \in Reserved PROVE \E i \in 1..Len(m) : m[i] = r
  <2>1. PICK j \in 1..Len(c) : c[j] = r
    BY <1>1
  <2>2. j # k
    BY <2>1
  <2>3. CASE j < k
    <3>1. j \in 1..Len(m) /\ m[j] = c[j]
      BY <1>1, <1>2, <2>3
    <3> QED BY <2>1, <3>1
  <2>4. CASE j > k
    <3>1. j - 1 \in 1..Len(m) /\ ~ (j - 1 < k) /\ (j - 1) + 1 = j
      BY <1>1, <1>2, <2>4
    <3>2. m[j - 1] = c[j]
      BY <1>2, <3>1
    <3> QED BY <2>1, <3>1, <3>2
  <2> QED BY <1>1, <1>2, <2>2, <2>3, <2>4
<1>4. ASSUME NEW i \in 1..Len(m), NEW j \in 1..Len(m), m[i] = m[j], i # j PROVE m[i] \notin Reserved
  <2>1. PICK p \in 1..Len(c) : p = (IF i < k THEN i ELSE i + 1) /\ m[i] = c[p]
    BY <1>1, <1>2
  <2>2. PICK q \in 1..Len(c) : q = (IF j < k THEN j ELSE j + 1) /\ m[j] = c[q]
    BY <1>1, <1>2
  <2>3. p # q
    BY <1>1, <1>2, <1>4, <2>1, <2>2
  <2> QED BY <1>1, <1>4, <2>1, <2>2, <2>3
<1>5. Len(m) <= MAX_CHOICES
  BY <1>0, <1>1, <1>2
<1> QED BY <1>2, <1>3, <1>4, <1>5, ChoicesFrom DEF m

LEMMA ChoicesAdd ==
  ASSUME NEW c, ChoicesOK(c), Len(c) < MAX_CHOICES, NEW text \in Sizes, text \notin Reserved
  PROVE  ChoicesOK(Append(c, text))
<1> DEFINE m == Append(c, text)
<1>0. MAX_CHOICES \in Nat
  BY BuilderAssumption
<1>1. /\ c \in Seq(Sizes) /\ Len(c) \in Nat
      /\ \A r \in Reserved : \E i \in 1..Len(c) : c[i] = r
      /\ \A i, j \in 1..Len(c) : c[i] = c[j] /\ i # j => c[i] \notin Reserved
  BY ChoicesFacts
<1>2. /\ m \in Seq(Sizes) /\ Len(m) = Len(c) + 1 /\ m[Len(c) + 1] = text
      /\ \A i \in 1..Len(c) : m[i] = c[i]
  <2>1. c \in Seq(Sizes)
    BY <1>1
  <2> QED BY <2>1, AppendProperties
<1> HIDE DEF m
<1>3. \A r \in Reserved : \E i \in 1..Len(m) : m[i] = r
  <2>1. \A i \in 1..Len(c) : i \in 1..Len(m)
    BY <1>1, <1>2
  <2> QED BY <1>1, <1>2, <2>1
<1>4. ASSUME NEW i \in 1..Len(m), NEW j \in 1..Len(m), m[i] = m[j], i # j PROVE m[i] \notin Reserved
  <2>1. \A h \in 1..Len(m) : h \in 1..Len(c) \/ h = Len(c) + 1
    BY <1>1, <1>2
  <2> QED BY <1>0, <1>1, <1>2, <1>4, <2>1
<1>5. Len(m) <= MAX_CHOICES
  BY <1>0, <1>1, <1>2
<1> QED BY <1>2, <1>3, <1>4, <1>5, ChoicesFrom DEF m

-----------------------------------------------------------------------------
(* The server.                                                             *)

LEMMA FormFacts ==
  ASSUME NEW f, FormOK(f)
  PROVE  f \in Seq(Fields) /\ Len(f) \in Nat /\ Len(f) <= MAX_FIELDS /\ DOMAIN f = 1..Len(f)
         /\ \A i \in 1..Len(f) : f[i] \in Fields /\ f[i].id \in Nat
<1>1. f \in Seq(Fields) /\ Len(f) \in Nat /\ Len(f) <= MAX_FIELDS /\ DOMAIN f = 1..Len(f)
  BY LenProperties DEF FormOK
<1>2. \A i \in 1..Len(f) : f[i] \in Fields
  BY <1>1, ElementOfSeq
<1> QED BY <1>1, <1>2 DEF Fields

(* With more photos chosen, everything stays what it is.                   *)
LEMMA Grows ==
  ASSUME NEW n \in Nat, NEW m \in Nat, n <= m
  PROVE  /\ \A s : ShirtAt(s, n) => ShirtAt(s, m)
         /\ \A f : FormAt(f, n) => FormAt(f, m)
         /\ \A r : RequestAt(r, n) => RequestAt(r, m)
<1>1. 1..n \subseteq 1..m
  OBVIOUS
<1>2. ASSUME NEW s, ShirtAt(s, n) PROVE ShirtAt(s, m)
  BY <1>1, <1>2 DEF ShirtAt, Shirts
<1>3. ASSUME NEW f, FormAt(f, n) PROVE FormAt(f, m)
  BY <1>1, <1>3 DEF FormAt
<1>4. ASSUME NEW r, RequestAt(r, n) PROVE RequestAt(r, m)
  <2>1. ShirtAt(r.data.shirt, m) /\ r.known \subseteq 1..m
    BY <1>1, <1>2, <1>4 DEF RequestAt
  <2> QED BY <1>4, <2>1 DEF RequestAt
<1> QED BY <1>2, <1>3, <1>4

(* What a step of a save makes of it.                                      *)
Moved(r, s, state) ==
  s = [state |-> state, errors |-> s.errors, known |-> s.known, data |-> r.data]

LEMMA Steps ==
  ASSUME NEW n, NEW r, NEW s, RequestAt(r, n), update(r, s)
  PROVE  \/ /\ r.state = "sent" /\ Moved(r, s, "invalid") /\ s.known = Listed
            /\ s.errors = rules(r.data, Listed) /\ UNCHANGED <<saved, files>>
         \/ r.state = "sent" /\ Moved(r, s, "ended") /\ s.known = Listed /\ UNCHANGED <<saved, files>>
         \/ /\ r.state = "sent" /\ Moved(r, s, "bound") /\ s.known = Listed
            /\ ~ r.data.shirt.on => r.data.shirt.existing = {} /\ r.data.shirt.new = {}
            /\ stored' = stored \cup r.data.shirt.new /\ UNCHANGED <<saved, revived, orphans>>
         \/ /\ r.state = "bound" /\ Moved(r, s, "tidying") /\ s.known = r.known
            /\ saved' = written(r)
            /\ revived' = revived \cup ((r.known \cap r.data.shirt.existing) \ Listed)
            /\ orphans' = orphans \cup (Listed \ r.known) /\ stored' = stored
         \/ /\ r.state = "bound" /\ Moved(r, s, "ended") /\ s.known = r.known
            /\ \/ stored' = stored \ r.data.shirt.new /\ orphans' = orphans
               \/ orphans' = orphans \cup r.data.shirt.new /\ stored' = stored
            /\ UNCHANGED <<saved, revived>>
         \/ /\ r.state = "tidying" /\ Moved(r, s, "done") /\ s.known = r.known
            /\ \/ stored' = stored \ Unwanted(r) /\ orphans' = orphans
               \/ orphans' = orphans \cup Unwanted(r) /\ stored' = stored
            /\ UNCHANGED <<saved, revived>>
<1>1. r = [state |-> r.state, errors |-> r.errors, known |-> r.known, data |-> r.data]
  BY DEF RequestAt
<1>2. ASSUME NEW state, NEW known, NEW some, s = [r EXCEPT !.state = state, !.known = known, !.errors = some]
      PROVE  Moved(r, s, state) /\ s.known = known /\ s.errors = some
  BY <1>1, <1>2 DEF Moved
<1>3. ASSUME NEW state, s = [r EXCEPT !.state = state] PROVE Moved(r, s, state) /\ s.known = r.known
  BY <1>1, <1>3 DEF Moved
<1>4. CASE bind(r, s)
  <2>1. PICK errs : errs = rules(r.data, Listed)
    OBVIOUS
  <2>2. r.state = "sent" /\ UNCHANGED saved
    BY <1>4 DEF bind
  <2>3. \/ s = [r EXCEPT !.state = "invalid", !.known = Listed, !.errors = errs] /\ UNCHANGED files
        \/ s = [r EXCEPT !.state = "ended", !.known = Listed, !.errors = errs] /\ UNCHANGED files
        \/ /\ errs = {} /\ s = [r EXCEPT !.state = "bound", !.known = Listed, !.errors = errs]
           /\ stored' = stored \cup r.data.shirt.new /\ UNCHANGED <<revived, orphans>>
    BY <1>4, <2>1 DEF bind
  <2>4. CASE s = [r EXCEPT !.state = "invalid", !.known = Listed, !.errors = errs] /\ UNCHANGED files
    BY <1>2, <2>1, <2>2, <2>4
  <2>5. CASE s = [r EXCEPT !.state = "ended", !.known = Listed, !.errors = errs] /\ UNCHANGED files
    BY <1>2, <2>2, <2>5
  <2>6. CASE /\ errs = {} /\ s = [r EXCEPT !.state = "bound", !.known = Listed, !.errors = errs]
             /\ stored' = stored \cup r.data.shirt.new /\ UNCHANGED <<revived, orphans>>
    <3>1. photoRules(r.data, Listed) = {}
      BY <2>1, <2>6 DEF rules
    <3>2. If(~ r.data.shirt.on /\ r.data.shirt.existing \cup r.data.shirt.new # {}, "enabled") = {}
      BY <3>1 DEF photoRules
    <3>3. ~ r.data.shirt.on => r.data.shirt.existing = {} /\ r.data.shirt.new = {}
      BY <3>2 DEF If
    <3> QED BY <1>2, <2>2, <2>6, <3>3
  <2> QED BY <2>3, <2>4, <2>5, <2>6
<1>5. CASE replaceForm(r, s)
  BY <1>3, <1>5 DEF replaceForm
<1>6. CASE undo(r, s)
  BY <1>3, <1>6 DEF undo
<1>7. CASE tidy(r, s)
  BY <1>3, <1>7 DEF tidy
<1> QED BY <1>4, <1>5, <1>6, <1>7 DEF update

(* The form that a save writes, and its photos.                            *)
LEMMA WrittenForm ==
  ASSUME NEW n, NEW r, RequestAt(r, n), r.state = "bound"
  PROVE  /\ FormAt(written(r), n)
         /\ Photos(written(r).tshirt) = (r.known \cap r.data.shirt.existing) \cup r.data.shirt.new
<1> DEFINE q == r.data
           some == [label |-> q.shirt.label, choices |-> q.shirt.choices,
                    photos |-> (r.known \cap q.shirt.existing) \cup q.shirt.new]
           t == IF q.shirt.on THEN some ELSE NoShirt
<1>1. /\ q.shirt \in Shirts(n) /\ ChoicesOK(q.shirt.choices) /\ FormOK(q.rows) /\ q.disclaimer \in Disclaimers
      /\ r.known \subseteq 1..n
      /\ ~ q.shirt.on => q.shirt.existing = {} /\ q.shirt.new = {}
  BY DEF RequestAt, ShirtAt
<1>2. q.shirt.label \in ShirtLabels /\ q.shirt.existing \subseteq 1..n /\ q.shirt.new \subseteq 1..n
      /\ q.shirt.on \in BOOLEAN
  BY <1>1 DEF Shirts
<1>3. written(r) = [rows |-> q.rows, disclaimer |-> q.disclaimer, tshirt |-> t]
  BY DEF written
<1>4. some # NoShirt /\ some.label = q.shirt.label /\ some.choices = q.shirt.choices
      /\ some.photos = (r.known \cap q.shirt.existing) \cup q.shirt.new
  BY DEF NoShirt
<1>5. Photos(t) = (r.known \cap q.shirt.existing) \cup q.shirt.new
  <2>1. CASE q.shirt.on
    BY <1>4, <2>1 DEF Photos
  <2>2. CASE ~ q.shirt.on
    BY <1>1, <2>2 DEF Photos
  <2> QED BY <2>1, <2>2
<1>6. t # NoShirt => /\ t = [label |-> t.label, choices |-> t.choices, photos |-> t.photos]
                     /\ t.label \in ShirtLabels /\ ChoicesOK(t.choices)
  BY <1>1, <1>2, <1>4
<1>7. Photos(t) \subseteq 1..n
  BY <1>1, <1>2, <1>5
<1> HIDE DEF t
<1>8. written(r).rows = q.rows /\ written(r).disclaimer = q.disclaimer /\ written(r).tshirt = t
  BY <1>3
<1>9. FormAt(written(r), n)
  BY <1>1, <1>3, <1>6, <1>7, <1>8 DEF FormAt
<1> QED BY <1>5, <1>8, <1>9

(* A step of a save leaves a form, files and a save.                       *)
LEMMA UpdateKeeps ==
  ASSUME NEW n, NEW r, NEW s, FormAt(saved, n), stored \cup revived \cup orphans \subseteq 1..n,
         RequestAt(r, n), update(r, s)
  PROVE  /\ FormAt(saved', n) /\ stored' \cup revived' \cup orphans' \subseteq 1..n
         /\ RequestAt(s, n) /\ s.data = r.data
<1>1. Listed \subseteq 1..n
  BY DEF FormAt, Listed
<1>2. /\ r.data.shirt.new \subseteq 1..n /\ r.data.shirt.existing \subseteq 1..n /\ r.known \subseteq 1..n
      /\ r.state = "tidying" => Unwanted(r) \subseteq 1..n
  BY DEF RequestAt, ShirtAt, Shirts, Unwanted
<1>3. ASSUME NEW state \in States \ {"none"}, Moved(r, s, state), s.known \subseteq 1..n,
             state \in {"bound", "tidying"} /\ ~ r.data.shirt.on =>
               r.data.shirt.existing = {} /\ r.data.shirt.new = {}
      PROVE  RequestAt(s, n) /\ s.data = r.data
  <2>1. s = [state |-> state, errors |-> s.errors, known |-> s.known, data |-> r.data]
    BY <1>3 DEF Moved
  <2>2. s.state = state /\ s.data = r.data
    BY <2>1
  <2>3. s = [state |-> s.state, errors |-> s.errors, known |-> s.known, data |-> s.data]
    BY <2>1, <2>2
  <2> QED BY <1>3, <2>2, <2>3 DEF RequestAt
<1>4. {"bound", "tidying", "done", "invalid", "ended"} \subseteq States \ {"none"}
  BY DEF States
<1>5. CASE /\ r.state = "sent" /\ (Moved(r, s, "invalid") \/ Moved(r, s, "ended"))
           /\ s.known = Listed /\ UNCHANGED <<saved, files>>
  BY <1>1, <1>3, <1>4, <1>5 DEF files
<1>6. CASE /\ r.state = "sent" /\ Moved(r, s, "bound") /\ s.known = Listed
           /\ ~ r.data.shirt.on => r.data.shirt.existing = {} /\ r.data.shirt.new = {}
           /\ stored' = stored \cup r.data.shirt.new /\ UNCHANGED <<saved, revived, orphans>>
  BY <1>1, <1>2, <1>3, <1>4, <1>6
<1>7. CASE /\ r.state = "bound" /\ Moved(r, s, "tidying") /\ s.known = r.known
           /\ saved' = written(r)
           /\ revived' = revived \cup ((r.known \cap r.data.shirt.existing) \ Listed)
           /\ orphans' = orphans \cup (Listed \ r.known) /\ stored' = stored
  <2>1. FormAt(saved', n)
    BY <1>7, WrittenForm
  <2>2. ~ r.data.shirt.on => r.data.shirt.existing = {} /\ r.data.shirt.new = {}
    BY <1>7 DEF RequestAt
  <2> QED BY <1>1, <1>2, <1>3, <1>4, <1>7, <2>1, <2>2
<1>8. CASE /\ r.state = "bound" /\ Moved(r, s, "ended") /\ s.known = r.known
           /\ \/ stored' = stored \ r.data.shirt.new /\ orphans' = orphans
              \/ orphans' = orphans \cup r.data.shirt.new /\ stored' = stored
           /\ UNCHANGED <<saved, revived>>
  BY <1>2, <1>3, <1>4, <1>8
<1>9. CASE /\ r.state = "tidying" /\ Moved(r, s, "done") /\ s.known = r.known
           /\ \/ stored' = stored \ Unwanted(r) /\ orphans' = orphans
              \/ orphans' = orphans \cup Unwanted(r) /\ stored' = stored
           /\ UNCHANGED <<saved, revived>>
  BY <1>2, <1>3, <1>4, <1>9
<1> QED BY <1>5, <1>6, <1>7, <1>8, <1>9, Steps

(* The files, over a step of r while o stands still: what r brings is in   *)
(* its part a, what o brings in b.                                         *)
LEMMA PartsOf ==
  ASSUME NEW r
  PROVE  /\ r.state = "bound" => UnderWay(r) = r.data.shirt.new /\ Chosen(r) = r.data.shirt.new /\ Read(r) = r.known
         /\ r.state = "tidying" => UnderWay(r) = Unwanted(r) /\ Chosen(r) = {} /\ Read(r) = r.known
         /\ r.state = "sent" => UnderWay(r) = {} /\ Chosen(r) = r.data.shirt.new /\ Read(r) = {}
         /\ r.state \notin {"sent", "bound", "tidying"} => UnderWay(r) = {} /\ Chosen(r) = {} /\ Read(r) = {}
BY DEF UnderWay, Chosen, Read

LEMMA MovedParts ==
  ASSUME NEW r, NEW s, NEW state, Moved(r, s, state)
  PROVE  s.state = state /\ s.data = r.data
BY DEF Moved

LEMMA UpdateFiles ==
  ASSUME NEW n, NEW r, NEW s, NEW o, NEW a, NEW b, RequestAt(r, n), update(r, s),
         Filed(Listed, stored, revived, orphans, r, o), Apart(Listed, a, b, r, o),
         Chosen(r) \subseteq a, Chosen(o) \subseteq b
  PROVE  Filed(Listed', stored', revived', orphans', s, o)
<1> DEFINE new == r.data.shirt.new
<1>1. /\ Listed \ stored \subseteq revived
      /\ stored \ Listed \subseteq orphans \cup UnderWay(r) \cup UnderWay(o)
      /\ r.state = "bound" => r.data.shirt.new \subseteq stored
      /\ o.state = "bound" => o.data.shirt.new \subseteq stored
      /\ r.state = "tidying" => Unwanted(r) \cap Listed \subseteq revived
      /\ o.state = "tidying" => Unwanted(o) \cap Listed \subseteq revived
  BY DEF Filed
<1>2. /\ Chosen(r) \cap Chosen(o) = {}
      /\ (Chosen(r) \cup Chosen(o)) \cap (Listed \cup Read(r) \cup Read(o)) = {}
  BY DEF Apart
<1>3. UNCHANGED saved => Listed' = Listed
  BY DEF Listed
<1>4. CASE /\ r.state = "sent" /\ (Moved(r, s, "invalid") \/ Moved(r, s, "ended"))
           /\ UNCHANGED <<saved, files>>
  <2>1. s.state \in {"invalid", "ended"} /\ UnderWay(s) = {} /\ UnderWay(r) = {}
    BY <1>4, MovedParts, PartsOf
  <2>2. Listed' = Listed /\ UNCHANGED <<stored, revived, orphans>>
    BY <1>3, <1>4 DEF files
  <2> QED BY <1>1, <2>1, <2>2 DEF Filed
<1>5. CASE /\ r.state = "sent" /\ Moved(r, s, "bound")
           /\ stored' = stored \cup new /\ UNCHANGED <<saved, revived, orphans>>
  <2>1. s.state = "bound" /\ s.data.shirt.new = new /\ UnderWay(s) = new /\ UnderWay(r) = {}
    BY <1>5, MovedParts, PartsOf
  <2> QED BY <1>1, <1>3, <1>5, <2>1 DEF Filed
<1>6. CASE /\ r.state = "bound" /\ Moved(r, s, "tidying") /\ s.known = r.known
           /\ saved' = written(r)
           /\ revived' = revived \cup ((r.known \cap r.data.shirt.existing) \ Listed)
           /\ orphans' = orphans \cup (Listed \ r.known) /\ stored' = stored
  <2>1. s.state = "tidying" /\ UnderWay(s) = Unwanted(s) /\ Unwanted(s) = r.known \ r.data.shirt.existing
    BY <1>6, MovedParts, PartsOf DEF Unwanted
  <2>2. UnderWay(r) = new /\ Chosen(r) = new /\ Read(r) = r.known
    BY <1>6, PartsOf
  <2>3. Listed' = (r.known \cap r.data.shirt.existing) \cup new
    BY <1>6, WrittenForm DEF Listed
  <2>4. o.state = "tidying" => Unwanted(o) \cap Listed' \subseteq revived'
    <3>1. o.state = "tidying" => Unwanted(o) \subseteq Read(o)
      BY PartsOf DEF Unwanted
    <3> QED BY <1>1, <1>2, <1>6, <2>2, <2>3, <3>1
  <2>5. Listed' \ stored' \subseteq revived' /\ Unwanted(s) \cap Listed' \subseteq revived'
    BY <1>1, <1>2, <1>6, <2>1, <2>2, <2>3
  <2>6. stored' \ Listed' \subseteq orphans' \cup UnderWay(s) \cup UnderWay(o)
    BY <1>1, <1>6, <2>1, <2>2, <2>3
  <2> QED BY <1>1, <1>6, <2>1, <2>4, <2>5, <2>6 DEF Filed
<1>7. CASE /\ r.state = "bound" /\ Moved(r, s, "ended")
           /\ \/ stored' = stored \ new /\ orphans' = orphans
              \/ orphans' = orphans \cup new /\ stored' = stored
           /\ UNCHANGED <<saved, revived>>
  <2>1. s.state = "ended" /\ UnderWay(s) = {} /\ UnderWay(r) = new /\ Chosen(r) = new
    BY <1>7, MovedParts, PartsOf
  <2>2. o.state = "bound" => o.data.shirt.new \subseteq stored'
    <3>1. o.state = "bound" => Chosen(o) = o.data.shirt.new
      BY PartsOf
    <3> QED BY <1>1, <1>2, <1>7, <2>1, <3>1
  <2>3. Listed' \ stored' \subseteq revived' /\ stored' \ Listed' \subseteq orphans' \cup UnderWay(o)
    BY <1>1, <1>2, <1>3, <1>7, <2>1
  <2> QED BY <1>1, <1>3, <1>7, <2>1, <2>2, <2>3 DEF Filed
<1>8. CASE /\ r.state = "tidying" /\ Moved(r, s, "done")
           /\ \/ stored' = stored \ Unwanted(r) /\ orphans' = orphans
              \/ orphans' = orphans \cup Unwanted(r) /\ stored' = stored
           /\ UNCHANGED <<saved, revived>>
  <2>1. s.state = "done" /\ UnderWay(s) = {} /\ UnderWay(r) = Unwanted(r)
    BY <1>8, MovedParts, PartsOf
  <2>2. o.state = "bound" => o.data.shirt.new \subseteq stored'
    <3>1. (o.state = "bound" => Chosen(o) = o.data.shirt.new) /\ Unwanted(r) \subseteq Read(r)
      BY <1>8, PartsOf DEF Unwanted
    <3> QED BY <1>1, <1>2, <1>8, <3>1
  <2>3. Listed' \ stored' \subseteq revived' /\ stored' \ Listed' \subseteq orphans' \cup UnderWay(o)
    BY <1>1, <1>3, <1>8, <2>1
  <2> QED BY <1>1, <1>3, <1>8, <2>1, <2>2, <2>3 DEF Filed
<1> QED BY <1>4, <1>5, <1>6, <1>7, <1>8, Steps

LEMMA UpdateApart ==
  ASSUME NEW n, NEW r, NEW s, NEW o, NEW a, NEW b, NEW c, RequestAt(r, n), update(r, s),
         Apart(Listed, a, b, r, o), Chosen(r) \subseteq a, c \subseteq a,
         s.state \in {"tidying", "done"} => c = {}
  PROVE  Apart(Listed', c, b, s, o)
<1>1. a \cap b = {} /\ (a \cup b) \cap (Listed \cup Read(r) \cup Read(o)) = {}
  BY DEF Apart
<1>2. UNCHANGED saved => Listed' = Listed
  BY DEF Listed
<1>3. CASE /\ r.state = "sent" /\ (Moved(r, s, "invalid") \/ Moved(r, s, "ended"))
           /\ UNCHANGED <<saved, files>>
  <2>1. Read(s) = {}
    BY <1>3, MovedParts, PartsOf
  <2> QED BY <1>1, <1>2, <1>3, <2>1 DEF Apart
<1>4. CASE r.state = "sent" /\ Moved(r, s, "bound") /\ s.known = Listed /\ UNCHANGED saved
  <2>1. Read(s) = Listed
    BY <1>4, MovedParts, PartsOf
  <2> QED BY <1>1, <1>2, <1>4, <2>1 DEF Apart
<1>5. CASE r.state = "bound" /\ Moved(r, s, "tidying") /\ s.known = r.known /\ saved' = written(r)
  <2>1. Read(s) = r.known /\ Read(r) = r.known /\ Chosen(r) = r.data.shirt.new /\ s.state = "tidying"
    BY <1>5, MovedParts, PartsOf
  <2>2. Listed' = (r.known \cap r.data.shirt.existing) \cup r.data.shirt.new
    BY <1>5, WrittenForm DEF Listed
  <2> QED BY <1>1, <2>1, <2>2 DEF Apart
<1>6. CASE r.state = "bound" /\ Moved(r, s, "ended") /\ UNCHANGED saved
  <2>1. Read(s) = {}
    BY <1>6, MovedParts, PartsOf
  <2> QED BY <1>1, <1>2, <1>6, <2>1 DEF Apart
<1>7. CASE r.state = "tidying" /\ Moved(r, s, "done") /\ UNCHANGED saved
  <2>1. Read(s) = {}
    BY <1>7, MovedParts, PartsOf
  <2> QED BY <1>1, <1>2, <1>7, <2>1 DEF Apart
<1> QED BY <1>3, <1>4, <1>5, <1>6, <1>7, Steps

-----------------------------------------------------------------------------
(* The rows.                                                               *)

LEMMA SameRowsKeep ==
  ASSUME NEW f, NEW g, NEW some, NEW more, SameRows(f, g), DOMAIN f = 1..Len(f), DOMAIN g = 1..Len(g)
  PROVE  /\ some \subseteq more /\ AtRows(more, f) => AtRows(some, g)
         /\ \A h : SameRows(h, f) => SameRows(h, g)
BY DEF SameRows, AtRows

LEMMA UpdatedRow ==
  ASSUME FormOK(rows), NEW i \in DOMAIN rows, NEW row \in Fields, row.id = rows[i].id, updateField(i, row)
  PROVE  FormOK(rows') /\ SameRows(rows, rows') /\ errors' \subseteq errors /\ nextId' = nextId
<1>1. rows \in Seq(Fields) /\ i \in 1..Len(rows) /\ Len(rows) <= MAX_FIELDS
  BY FormFacts
<1>2. rows' = [rows EXCEPT ![i] = row] /\ errors' \subseteq errors /\ nextId' = nextId
  BY DEF updateField, clearServerErrors
<1>3. /\ [rows EXCEPT ![i] = row] \in Seq(Fields) /\ Len([rows EXCEPT ![i] = row]) = Len(rows)
      /\ \A j \in 1..Len(rows) : [rows EXCEPT ![i] = row][j] = IF j = i THEN row ELSE rows[j]
  BY <1>1, ExceptSeq
<1> QED BY <1>1, <1>2, <1>3 DEF FormOK, SameRows

(* Whatever is done to one row, it stays a row with its id.                *)
LEMMA EditedRow ==
  ASSUME NEW r \in Fields
  PROVE  /\ \A text \in Labels : [r EXCEPT !.label = text] \in Fields /\ [r EXCEPT !.label = text].id = r.id
         /\ \A type \in Types, options \in Seq(Options) :
              /\ [r EXCEPT !.type = type, !.options = options] \in Fields
              /\ [r EXCEPT !.type = type, !.options = options].id = r.id
         /\ \A options \in Seq(Options) :
              [r EXCEPT !.options = options] \in Fields /\ [r EXCEPT !.options = options].id = r.id
BY DEF Fields

(* The ways to edit rows: add one, move one, or change one in its place.   *)
LEMMA EditRowsKeeps ==
  ASSUME FormOK(rows), nextId \in Nat, \A i \in DOMAIN rows : rows[i].id < nextId, EditRows
  PROVE  /\ FormOK(rows') /\ nextId' \in Nat /\ \A i \in DOMAIN rows' : rows'[i].id < nextId'
         /\ \/ SameRows(rows, rows') /\ errors' \subseteq errors /\ UNCHANGED mixed
            \/ mixed' = (mixed \/ Saving) /\ \A e \in errors' : e.row = 0
<1>0. rows \in Seq(Fields) /\ Len(rows) \in Nat /\ Len(rows) <= MAX_FIELDS /\ DOMAIN rows = 1..Len(rows)
      /\ MAX_FIELDS \in Nat /\ \A i \in 1..Len(rows) : rows[i] \in Fields /\ rows[i].id \in Nat
  BY FormFacts, BuilderAssumption
<1>1. CASE addField /\ mixed' = (mixed \/ Saving)
  <2>1. PICK new : new = [id |-> nextId, label |-> "", type |-> "text", options |-> <<>>]
    OBVIOUS
  <2>2. new \in Fields /\ new.id = nextId
    <3>1. <<>> \in Seq(Options)
      BY EmptySeq
    <3>2. "" \in Labels /\ "text" \in Types
      BY BuilderAssumption DEF Types
    <3> QED BY <2>1, <3>1, <3>2 DEF Fields
  <2>3. rows' = Append(rows, new) /\ nextId' = nextId + 1 /\ Len(rows) < MAX_FIELDS
    BY <1>1, <2>1 DEF addField
  <2>4. /\ rows' \in Seq(Fields) /\ Len(rows') = Len(rows) + 1
        /\ \A i \in 1..Len(rows) : rows'[i] = rows[i]
        /\ rows'[Len(rows) + 1] = new
    BY <1>0, <2>2, <2>3, AppendProperties
  <2>5. FormOK(rows')
    BY <1>0, <2>3, <2>4 DEF FormOK
  <2>6. ASSUME NEW i \in DOMAIN rows' PROVE rows'[i].id < nextId'
    <3>1. i \in 1..Len(rows) \/ i = Len(rows) + 1
      BY <1>0, <2>4, <2>5, FormFacts
    <3>2. CASE i \in 1..Len(rows)
      <4>1. rows'[i].id = rows[i].id /\ rows[i].id \in Nat /\ rows[i].id < nextId
        BY <1>0, <2>4, <3>2
      <4> QED BY <2>3, <4>1
    <3>3. CASE i = Len(rows) + 1
      BY <2>2, <2>3, <2>4, <3>3
    <3> QED BY <3>1, <3>2, <3>3
  <2>7. \A e \in errors' : e.row = 0
    BY <1>1 DEF addField, clearServerErrors, OfRows
  <2> QED BY <1>1, <2>3, <2>5, <2>6, <2>7
<1>2. CASE \E i, j \in DOMAIN rows : reorderFields(i, j) /\ mixed' = (mixed \/ Saving)
  <2>1. PICK i \in 1..Len(rows), j \in 1..Len(rows) : reorderFields(i, j) /\ mixed' = (mixed \/ Saving)
    BY <1>0, <1>2
  <2>2. rows' = InsertAt(RemoveAt(rows, i), j, rows[i]) /\ nextId' = nextId
    BY <2>1 DEF reorderFields
  <2>3. /\ InsertAt(RemoveAt(rows, i), j, rows[i]) \in Seq(Fields)
        /\ Len(InsertAt(RemoveAt(rows, i), j, rows[i])) = Len(rows)
        /\ \A h \in 1..Len(rows) : \E k \in 1..Len(rows) :
             k = Origin(i, j, h) /\ InsertAt(RemoveAt(rows, i), j, rows[i])[h] = rows[k]
    <3>1. rows \in Seq(Fields)
      BY <1>0
    <3>2. MovedIn(Fields, rows, i, j, InsertAt(RemoveAt(rows, i), j, rows[i]))
      BY <3>1, MoveFacts
    <3> QED BY <3>2 DEF MovedIn
  <2>4. FormOK(rows')
    BY <1>0, <2>2, <2>3 DEF FormOK
  <2>5. DOMAIN rows' = 1..Len(rows) /\ \A h \in 1..Len(rows) : \E k \in 1..Len(rows) : rows'[h] = rows[k]
    BY <2>2, <2>3, <2>4, FormFacts
  <2>6. \A h \in DOMAIN rows' : rows'[h].id < nextId'
    BY <1>0, <2>2, <2>5
  <2>7. \A e \in errors' : e.row = 0
    BY <2>1 DEF reorderFields, clearServerErrors, OfRows
  <2> QED BY <2>1, <2>2, <2>4, <2>6, <2>7
<1>3. ASSUME UNCHANGED mixed, NEW i \in DOMAIN rows, NEW row \in Fields, row.id = rows[i].id, updateField(i, row)
      PROVE  /\ FormOK(rows') /\ nextId' \in Nat /\ \A j \in DOMAIN rows' : rows'[j].id < nextId'
             /\ SameRows(rows, rows') /\ errors' \subseteq errors /\ UNCHANGED mixed
  <2>1. FormOK(rows') /\ SameRows(rows, rows') /\ errors' \subseteq errors /\ nextId' = nextId
    BY <1>3, UpdatedRow
  <2>2. DOMAIN rows' = 1..Len(rows')
    BY <2>1, FormFacts
  <2> QED BY <1>0, <1>3, <2>1, <2>2 DEF SameRows
<1>4. CASE /\ UNCHANGED mixed
           /\ \E i \in DOMAIN rows :
                \/ \E text \in Labels : label(i, text)
                \/ \E type \in Types : handleTypeChange(i, type)
                \/ addOption(i)
                \/ \E k \in DOMAIN rows[i].options :
                     removeOption(i, k) \/ \E text \in Options : updateOption(i, k, text)
  <2>1. PICK i \in DOMAIN rows :
                \/ \E text \in Labels : label(i, text)
                \/ \E type \in Types : handleTypeChange(i, type)
                \/ addOption(i)
                \/ \E k \in DOMAIN rows[i].options :
                     removeOption(i, k) \/ \E text \in Options : updateOption(i, k, text)
    BY <1>4
  <2>2. PICK r : r = rows[i]
    OBVIOUS
  <2>3. r \in Fields /\ r.options \in Seq(Options) /\ r.id = rows[i].id
    BY <1>0, <2>2 DEF Fields
  <2>4. \E row \in Fields : row.id = rows[i].id /\ updateField(i, row)
    <3>1. CASE \E text \in Labels : label(i, text)
      <4>1. PICK text \in Labels : updateField(i, [r EXCEPT !.label = text])
        BY <2>2, <3>1 DEF label
      <4> QED BY <2>3, <4>1, EditedRow
    <3>2. CASE \E type \in Types : handleTypeChange(i, type)
      <4>1. PICK type \in Types : updateField(i, [r EXCEPT !.type = type, !.options = IF type = "select" THEN @ ELSE <<>>])
        BY <2>2, <3>2 DEF handleTypeChange
      <4>2. PICK options : options = IF type = "select" THEN r.options ELSE <<>>
        OBVIOUS
      <4>3. options \in Seq(Options)
        BY <2>3, <4>2, EmptySeq
      <4>4. [r EXCEPT !.type = type, !.options = IF type = "select" THEN @ ELSE <<>>]
              = [r EXCEPT !.type = type, !.options = options]
        BY <2>3, <4>2 DEF Fields
      <4>5. updateField(i, [r EXCEPT !.type = type, !.options = options])
        BY <4>1, <4>4
      <4>6. /\ [r EXCEPT !.type = type, !.options = options] \in Fields
            /\ [r EXCEPT !.type = type, !.options = options].id = rows[i].id
        <5>1. r \in Fields /\ type \in Types /\ options \in Seq(Options)
          BY <2>3, <4>3
        <5>2. /\ [r EXCEPT !.type = type, !.options = options] \in Fields
              /\ [r EXCEPT !.type = type, !.options = options].id = r.id
          BY <5>1, EditedRow
        <5> QED BY <2>3, <5>2
      <4> QED BY <4>5, <4>6
    <3>3. CASE addOption(i)
      <4>1. updateField(i, [r EXCEPT !.options = Append(@, "")])
        BY <2>2, <3>3 DEF addOption
      <4>2. PICK options : options = Append(r.options, "")
        OBVIOUS
      <4>3. "" \in Options
        BY DEF Options
      <4>4. options \in Seq(Options)
        BY <2>3, <4>2, <4>3, AppendProperties
      <4>5. [r EXCEPT !.options = Append(@, "")] = [r EXCEPT !.options = options]
        BY <4>2
      <4> QED BY <2>3, <4>1, <4>4, <4>5, EditedRow
    <3>4. CASE \E k \in DOMAIN rows[i].options : removeOption(i, k)
      <4>1. PICK k \in DOMAIN r.options : updateField(i, [r EXCEPT !.options = RemoveAt(@, k)])
        BY <2>2, <3>4 DEF removeOption
      <4>2. PICK options : options = RemoveAt(r.options, k)
        OBVIOUS
      <4>3. k \in 1..Len(r.options)
        BY <2>3, <4>1, LenProperties
      <4>4. options \in Seq(Options)
        <5>1. RemovedFrom(Options, r.options, k, RemoveAt(r.options, k))
          BY <2>3, <4>3, RemoveAtFacts
        <5> QED BY <4>2, <5>1 DEF RemovedFrom
      <4>5. [r EXCEPT !.options = RemoveAt(@, k)] = [r EXCEPT !.options = options]
        BY <4>2
      <4>6. [r EXCEPT !.options = options] \in Fields /\ [r EXCEPT !.options = options].id = rows[i].id
        BY <2>3, <4>4, EditedRow
      <4>7. updateField(i, [r EXCEPT !.options = options])
        BY <4>1, <4>5
      <4> QED BY <4>6, <4>7
    <3>5. CASE \E k \in DOMAIN rows[i].options, text \in Options : updateOption(i, k, text)
      <4>1. PICK k \in DOMAIN r.options, text \in Options : updateField(i, [r EXCEPT !.options[k] = text])
        BY <2>2, <3>5 DEF updateOption
      <4>2. PICK options : options = [r.options EXCEPT ![k] = text]
        OBVIOUS
      <4>3. k \in 1..Len(r.options)
        BY <2>3, <4>1, LenProperties
      <4>4. options \in Seq(Options)
        BY <2>3, <4>2, <4>3, ExceptSeq
      <4>5. [r EXCEPT !.options[k] = text] = [r EXCEPT !.options = options]
        BY <4>2
      <4> QED BY <2>3, <4>1, <4>4, <4>5, EditedRow
    <3> QED BY <2>1, <3>1, <3>2, <3>3, <3>4, <3>5
  <2> QED BY <1>3, <1>4, <2>4
<1> QED BY <1>1, <1>2, <1>4 DEF EditRows

LEMMA RemovedRow ==
  ASSUME FormOK(rows), NEW k \in DOMAIN rows, nextId \in Nat, \A i \in DOMAIN rows : rows[i].id < nextId
  PROVE  FormOK(RemoveAt(rows, k)) /\ \A i \in DOMAIN RemoveAt(rows, k) : RemoveAt(rows, k)[i].id < nextId
<1>1. rows \in Seq(Fields) /\ Len(rows) \in Nat /\ Len(rows) <= MAX_FIELDS /\ MAX_FIELDS \in Nat
      /\ DOMAIN rows = 1..Len(rows) /\ k \in 1..Len(rows)
  BY FormFacts, BuilderAssumption
<1>2. PICK f : f = RemoveAt(rows, k)
  OBVIOUS
<1>3. /\ f \in Seq(Fields) /\ Len(f) = Len(rows) - 1
      /\ \A i \in 1..(Len(rows) - 1) : f[i] = IF i < k THEN rows[i] ELSE rows[i + 1]
  <2>1. rows \in Seq(Fields) /\ k \in 1..Len(rows)
    BY <1>1
  <2>2. RemovedFrom(Fields, rows, k, RemoveAt(rows, k))
    BY <2>1, RemoveAtFacts
  <2> QED BY <1>2, <2>2 DEF RemovedFrom
<1>4. FormOK(f)
  BY <1>1, <1>3 DEF FormOK
<1>5. ASSUME NEW i \in DOMAIN f PROVE f[i].id < nextId
  <2>1. i \in 1..(Len(rows) - 1)
    BY <1>3, <1>4, FormFacts
  <2>2. PICK j \in 1..Len(rows) : f[i] = rows[j]
    BY <1>1, <1>3, <2>1
  <2> QED BY <1>1, <2>2
<1> QED BY <1>2, <1>4, <1>5

-----------------------------------------------------------------------------
(* The T-shirt element.                                                    *)

(* A change keeps it well formed; new photos are newly chosen, and it is   *)
(* switched off only when it has nothing of its own.                       *)
ShirtChange(s) ==
  /\ ShirtAt(s, uploads') /\ Off(s)
  /\ s.new \subseteq shirt.new \cup ((uploads + 1)..uploads')

LEMMA ShirtFacts ==
  ASSUME ShirtAt(shirt, uploads), uploads \in Nat, uploads' \in Nat, uploads <= uploads', shirt.on
  PROVE  ShirtChange(shirt)
<1>1. ShirtAt(shirt, uploads')
  BY Grows
<1> QED BY <1>1 DEF Off, ShirtChange

(* A change of one part only.                                              *)
LEMMA PartChange ==
  ASSUME ShirtChange(shirt), shirt.on
  PROVE  /\ \A c : ChoicesOK(c) => ShirtChange([shirt EXCEPT !.choices = c])
         /\ \A text \in ShirtLabels : ShirtChange([shirt EXCEPT !.label = text])
         /\ \A some : some \subseteq shirt.existing => ShirtChange([shirt EXCEPT !.existing = some])
         /\ \A some : some \subseteq shirt.new \cup ((uploads + 1)..uploads') /\ some \subseteq 1..uploads'
              => ShirtChange([shirt EXCEPT !.new = some])
<1>0. shirt \in Shirts(uploads') /\ ChoicesOK(shirt.choices)
      /\ shirt.new \subseteq shirt.new \cup ((uploads + 1)..uploads')
  BY DEF ShirtChange, ShirtAt
<1>1. ASSUME NEW c, ChoicesOK(c) PROVE ShirtChange([shirt EXCEPT !.choices = c])
  <2>1. c \in Seq(Sizes)
    BY <1>1 DEF ChoicesOK
  <2>2. [shirt EXCEPT !.choices = c] \in Shirts(uploads')
    BY <1>0, <2>1 DEF Shirts
  <2> QED BY <1>0, <1>1, <2>2 DEF ShirtChange, ShirtAt, Off, Shirts
<1>2. ASSUME NEW text \in ShirtLabels PROVE ShirtChange([shirt EXCEPT !.label = text])
  <2>1. [shirt EXCEPT !.label = text] \in Shirts(uploads')
    BY <1>0 DEF Shirts
  <2> QED BY <1>0, <2>1 DEF ShirtChange, ShirtAt, Off, Shirts
<1>3. ASSUME NEW some, some \subseteq shirt.existing PROVE ShirtChange([shirt EXCEPT !.existing = some])
  <2>1. [shirt EXCEPT !.existing = some] \in Shirts(uploads')
    BY <1>0, <1>3 DEF Shirts
  <2> QED BY <1>0, <2>1 DEF ShirtChange, ShirtAt, Off, Shirts
<1>4. ASSUME NEW some, some \subseteq shirt.new \cup ((uploads + 1)..uploads'), some \subseteq 1..uploads'
      PROVE  ShirtChange([shirt EXCEPT !.new = some])
  <2>1. [shirt EXCEPT !.new = some] \in Shirts(uploads')
    BY <1>0, <1>4 DEF Shirts
  <2> QED BY <1>0, <1>4, <2>1 DEF ShirtChange, ShirtAt, Off, Shirts
<1> QED BY <1>1, <1>2, <1>3, <1>4

LEMMA EditShirtKeeps ==
  ASSUME DraftOK, EditShirt
  PROVE  /\ uploads' \in 1..MaxUploads /\ uploads <= uploads' /\ errors' = {} /\ ShirtChange(shirt')
<1>0. uploads \in 1..MaxUploads /\ uploads \in Nat /\ uploads <= uploads /\ ShirtAt(shirt, uploads)
      /\ Off(shirt) /\ MaxUploads \in Nat
  <2>1. uploads \in 1..MaxUploads /\ ShirtAt(shirt, uploads) /\ Off(shirt)
    BY DEF DraftOK
  <2>2. MaxUploads \in Nat
    BY BuilderAssumption
  <2> QED BY <2>1, <2>2
<1>1. CASE enableShirt
  <2>1. uploads' = uploads /\ errors' = {} /\ shirt' = [shirt EXCEPT !.on = ~ @] /\ ~ (shirt.on /\ hasData)
    BY <1>1 DEF enableShirt, onShirtChange
  <2>2. shirt \in Shirts(uploads') /\ ChoicesOK(shirt.choices)
    BY <1>0, <2>1 DEF ShirtAt
  <2>3. Len(shirt.choices) \in Nat
    BY <2>2, ChoicesFacts
  <2>4. shirt.on => shirt.new = {} /\ shirt.label = "T-shirt Size" /\ ~ (Len(shirt.choices) > 3)
    BY <2>1 DEF hasData
  <2>5. shirt'.on = ~ shirt.on /\ shirt'.new = shirt.new /\ shirt'.choices = shirt.choices
        /\ shirt'.label = shirt.label /\ shirt' \in Shirts(uploads')
    BY <2>1, <2>2 DEF Shirts
  <2>6. ~ shirt'.on => shirt.on
    BY <2>2, <2>5 DEF Shirts
  <2>7. ~ (Len(shirt.choices) > 3) => Len(shirt.choices) <= 3
    BY <2>3
  <2>8. Off(shirt')
    BY <2>4, <2>5, <2>6, <2>7 DEF Off
  <2>9. ShirtChange(shirt')
    BY <2>2, <2>5, <2>8 DEF ShirtChange, ShirtAt
  <2> QED BY <1>0, <2>1, <2>9
<1>2. ASSUME shirt.on, UNCHANGED uploads,
             \/ addChoice
             \/ \E text \in ShirtLabels : onShirtChange([shirt EXCEPT !.label = text])
             \/ \E k \in DOMAIN shirt.choices :
                  \/ removeChoice(k)
                  \/ \E text \in Custom \cup {"S"} : editChoice(k, text)
                  \/ \E j \in DOMAIN shirt.choices : move(k, j)
             \/ \E p \in keptPhotos : onShirtChange([shirt EXCEPT !.existing = @ \ {p}])
             \/ \E p \in shirt.new : onShirtChange([shirt EXCEPT !.new = @ \ {p}])
      PROVE  errors' = {} /\ ShirtChange(shirt')
  <2>1. ShirtChange(shirt) /\ ChoicesOK(shirt.choices)
    BY <1>0, <1>2, ShirtFacts DEF ShirtAt
  <2>2. ASSUME NEW c, ChoicesOK(c), onShirtChange([shirt EXCEPT !.choices = c])
        PROVE  errors' = {} /\ ShirtChange(shirt')
    BY <1>2, <2>1, <2>2, PartChange DEF onShirtChange
  <2>3. CASE addChoice
    <3>1. "" \in Sizes /\ "" \notin Reserved
      BY DEF Sizes, Custom, Reserved
    <3>2. Len(shirt.choices) < MAX_CHOICES /\ onShirtChange([shirt EXCEPT !.choices = Append(@, "")])
      BY <2>3 DEF addChoice
    <3>3. ChoicesOK(Append(shirt.choices, ""))
      BY <2>1, <3>1, <3>2, ChoicesAdd
    <3>4. onShirtChange([shirt EXCEPT !.choices = Append(shirt.choices, "")])
      BY <3>2
    <3> QED BY <2>2, <3>3, <3>4
  <2>4. ASSUME NEW k \in DOMAIN shirt.choices, removeChoice(k) PROVE errors' = {} /\ ShirtChange(shirt')
    <3>1. shirt.choices[k] \notin Reserved /\ onShirtChange([shirt EXCEPT !.choices = RemoveAt(shirt.choices, k)])
      BY <2>4 DEF removeChoice
    <3>2. ChoicesOK(RemoveAt(shirt.choices, k))
      BY <2>1, <3>1, ChoicesRemove
    <3> QED BY <2>2, <3>1, <3>2
  <2>5. ASSUME NEW k \in DOMAIN shirt.choices, NEW text \in Custom \cup {"S"}, editChoice(k, text)
        PROVE  errors' = {} /\ ShirtChange(shirt')
    <3>1. shirt.choices[k] \notin Reserved /\ text \notin Reserved /\ text \in Sizes
          /\ onShirtChange([shirt EXCEPT !.choices[k] = text])
      BY <2>5 DEF editChoice, Sizes, Reserved
    <3>2. ChoicesOK([shirt.choices EXCEPT ![k] = text])
      BY <2>1, <3>1, ChoicesEdit
    <3>3. onShirtChange([shirt EXCEPT !.choices = [shirt.choices EXCEPT ![k] = text]])
      BY <3>1
    <3> QED BY <2>2, <3>2, <3>3
  <2>6. ASSUME NEW k \in DOMAIN shirt.choices, NEW j \in DOMAIN shirt.choices, move(k, j)
        PROVE  errors' = {} /\ ShirtChange(shirt')
    <3>1. onShirtChange([shirt EXCEPT !.choices = InsertAt(RemoveAt(shirt.choices, k), j, shirt.choices[k])])
      BY <2>6 DEF move
    <3>2. ChoicesOK(InsertAt(RemoveAt(shirt.choices, k), j, shirt.choices[k]))
      BY <2>1, ChoicesMove
    <3> QED BY <2>2, <3>1, <3>2
  <2>7. CASE \E p \in keptPhotos : onShirtChange([shirt EXCEPT !.existing = @ \ {p}])
    <3>1. PICK p \in keptPhotos : onShirtChange([shirt EXCEPT !.existing = shirt.existing \ {p}])
      BY <2>7
    <3>2. ShirtChange([shirt EXCEPT !.existing = shirt.existing \ {p}])
      BY <1>2, <2>1, PartChange
    <3> QED BY <3>1, <3>2 DEF onShirtChange
  <2>8. CASE \E p \in shirt.new : onShirtChange([shirt EXCEPT !.new = @ \ {p}])
    <3>1. PICK p \in shirt.new : onShirtChange([shirt EXCEPT !.new = shirt.new \ {p}])
      BY <2>8
    <3>2. shirt.new \subseteq 1..uploads'
      BY <2>1 DEF ShirtChange, ShirtAt, Shirts
    <3>3. ShirtChange([shirt EXCEPT !.new = shirt.new \ {p}])
      BY <1>2, <2>1, <3>2, PartChange
    <3> QED BY <3>1, <3>3 DEF onShirtChange
  <2>9. CASE \E text \in ShirtLabels : onShirtChange([shirt EXCEPT !.label = text])
    BY <1>2, <2>1, <2>9, PartChange DEF onShirtChange
  <2> QED BY <1>2, <2>3, <2>4, <2>5, <2>6, <2>7, <2>8, <2>9
<1>3. CASE shirt.on /\ \E p \in (uploads + 1)..MaxUploads :
             uploads' \in p..MaxUploads /\ onShirtChange([shirt EXCEPT !.new = @ \cup p..uploads'])
  <2>1. PICK p \in (uploads + 1)..MaxUploads :
          uploads' \in p..MaxUploads /\ onShirtChange([shirt EXCEPT !.new = shirt.new \cup p..uploads'])
    BY <1>3
  <2>2. uploads' \in 1..MaxUploads /\ uploads <= uploads' /\ uploads' \in Nat
        /\ p..uploads' \subseteq (uploads + 1)..uploads' /\ p..uploads' \subseteq 1..uploads'
    BY <1>0, <2>1
  <2>3. ShirtChange(shirt)
    BY <1>0, <1>3, <2>2, ShirtFacts
  <2>4. shirt.new \subseteq 1..uploads'
    BY <2>3 DEF ShirtChange, ShirtAt, Shirts
  <2>5. ShirtChange([shirt EXCEPT !.new = shirt.new \cup p..uploads'])
    BY <1>3, <2>2, <2>3, <2>4, PartChange
  <2> QED BY <2>1, <2>2, <2>5 DEF onShirtChange
<1>4. \/ enableShirt
      \/ shirt.on /\ UNCHANGED uploads /\
             (\/ addChoice
              \/ \E text \in ShirtLabels : onShirtChange([shirt EXCEPT !.label = text])
              \/ \E k \in DOMAIN shirt.choices :
                   \/ removeChoice(k)
                   \/ \E text \in Custom \cup {"S"} : editChoice(k, text)
                   \/ \E j \in DOMAIN shirt.choices : move(k, j)
              \/ \E p \in keptPhotos : onShirtChange([shirt EXCEPT !.existing = @ \ {p}])
              \/ \E p \in shirt.new : onShirtChange([shirt EXCEPT !.new = @ \ {p}]))
      \/ shirt.on /\ \E p \in (uploads + 1)..MaxUploads :
             uploads' \in p..MaxUploads /\ onShirtChange([shirt EXCEPT !.new = @ \cup p..uploads'])
  BY DEF EditShirt
<1> QED BY <1>0, <1>1, <1>2, <1>3, <1>4

-----------------------------------------------------------------------------
(* The draft.                                                              *)

LEMMA GestureStep ==
  ASSUME DraftOK, BuilderNext
  PROVE  gestures' \in 0..MaxGestures
<1>1. gestures' = gestures \/ (gestures < MaxGestures /\ gestures' = gestures + 1)
  BY DEF BuilderNext, Handle, HandleOther, Publish, OtherTab, Open, Leave, EditRows, removeField, confirmRemove,
       closeDialog, EditShirt, toggleRequirement, editDisclaimer, saveForm, confirmSave, Answered,
       Gesture, SaveTab, addField, reorderFields, label, handleTypeChange, addOption, updateOption, removeOption,
       updateField, enableShirt, addChoice, removeChoice, editChoice, move, onShirtChange
<1>2. gestures \in 0..MaxGestures
  BY DEF DraftOK
<1>3. MaxGestures \in Nat
  BY BuilderAssumption
<1> QED BY <1>1, <1>2, <1>3

(* A page that opens shows the saved rows, numbered from one.              *)
LEMMA OpenRows ==
  ASSUME SavedOK, Open
  PROVE  FormOK(rows') /\ nextId' \in Nat /\ \A i \in DOMAIN rows' : rows'[i].id < nextId'
<1>1. PICK f : f = saved.rows
  OBVIOUS
<1>2. FormOK(f)
  BY <1>1 DEF SavedOK, FormAt
<1>3. f \in Seq(Fields) /\ Len(f) \in Nat /\ Len(f) <= MAX_FIELDS /\ DOMAIN f = 1..Len(f)
      /\ \A i \in 1..Len(f) : f[i] \in Fields
  BY <1>2, FormFacts
<1>4. rows' = [i \in DOMAIN f |-> [f[i] EXCEPT !.id = i]] /\ nextId' = Len(f) + 1
  BY <1>1 DEF Open, initialFields
<1>5. ASSUME NEW i \in 1..Len(f)
      PROVE  [f[i] EXCEPT !.id = i] \in Fields /\ [f[i] EXCEPT !.id = i].id = i
  <2>1. PICK r : r = f[i]
    OBVIOUS
  <2>2. r \in Fields /\ i \in Nat
    BY <1>3, <2>1
  <2>3. [r EXCEPT !.id = i] \in Fields /\ [r EXCEPT !.id = i].id = i
    BY <2>2 DEF Fields
  <2> QED BY <2>1, <2>3
<1>6. PICK g : g = [i \in 1..Len(f) |-> [f[i] EXCEPT !.id = i]]
  OBVIOUS
<1>7. rows' = g
  BY <1>3, <1>4, <1>6
<1>8. g \in [1..Len(f) -> Fields]
  BY <1>5, <1>6
<1>9. g \in Seq(Fields)
  BY <1>3, <1>8, SeqDef
<1>10. DOMAIN g = 1..Len(f) /\ Len(g) = Len(f)
  <2>1. DOMAIN g = 1..Len(f)
    BY <1>6
  <2>2. Len(g) \in Nat /\ DOMAIN g = 1..Len(g)
    BY <1>9, LenProperties
  <2> QED BY <1>3, <2>1, <2>2
<1>11. FormOK(g)
  BY <1>3, <1>9, <1>10 DEF FormOK
<1>12. \A i \in DOMAIN g : g[i].id < Len(f) + 1
  <2>1. \A i \in 1..Len(f) : g[i].id = i
    BY <1>5, <1>6
  <2> QED BY <1>3, <1>10, <2>1
<1>13. nextId' = Len(f) + 1 /\ Len(f) + 1 \in Nat
  BY <1>3, <1>4
<1>14. \A i \in DOMAIN rows' : rows'[i].id < nextId'
  BY <1>7, <1>12, <1>13
<1> QED BY <1>7, <1>11, <1>13, <1>14

LEMMA RowsStep ==
  ASSUME SavedOK, DraftOK, DialogOK, BuilderNext
  PROVE  FormOK(rows)' /\ nextId' \in Nat /\ (\A i \in DOMAIN rows : rows[i].id < nextId)'
<1>0. FormOK(rows) /\ nextId \in Nat /\ \A i \in DOMAIN rows : rows[i].id < nextId
  BY DEF DraftOK
<1> SUFFICES FormOK(rows') /\ nextId' \in Nat /\ \A i \in DOMAIN rows' : rows'[i].id < nextId'
  BY DEF FormOK
<1>1. CASE UNCHANGED <<rows, nextId>>
  BY <1>0, <1>1
<1>2. CASE Open
  BY <1>2, OpenRows
<1>3. CASE EditRows
  BY <1>0, <1>3, EditRowsKeeps
<1>4. CASE confirmRemove
  <2>1. rows' = RemoveAt(rows, dialog.row) /\ nextId' = nextId /\ dialog.row \in DOMAIN rows
    BY <1>4 DEF confirmRemove, DialogOK
  <2>2. PICK k : k = dialog.row
    OBVIOUS
  <2>3. k \in DOMAIN rows
    BY <2>1, <2>2
  <2>4. FormOK(RemoveAt(rows, k)) /\ \A i \in DOMAIN RemoveAt(rows, k) : RemoveAt(rows, k)[i].id < nextId
    BY <1>0, <2>3, RemovedRow
  <2> QED BY <1>0, <2>1, <2>2, <2>4
<1>5. CASE Handle \/ HandleOther \/ Publish \/ OtherTab \/ Leave \/ removeField \/ closeDialog \/ EditShirt
           \/ toggleRequirement \/ editDisclaimer \/ saveForm \/ confirmSave \/ Answered
  <2>1. UNCHANGED <<rows, nextId>>
    BY <1>5 DEF Handle, HandleOther, Publish, OtherTab, Leave, removeField, closeDialog, EditShirt, enableShirt,
         addChoice, removeChoice, editChoice, move, onShirtChange, toggleRequirement, editDisclaimer,
         saveForm, confirmSave, Answered, draft
  <2> QED BY <1>1, <2>1
<1> QED BY <1>2, <1>3, <1>4, <1>5 DEF BuilderNext

LEMMA ShirtStep ==
  ASSUME SavedOK, DraftOK, BuilderNext, uploads \in Nat, uploads' \in Nat, uploads <= uploads'
  PROVE  ShirtAt(shirt', uploads') /\ Off(shirt')
<1>0. ShirtAt(shirt, uploads) /\ Off(shirt) /\ \A s : ShirtAt(s, uploads) => ShirtAt(s, uploads')
  BY Grows DEF DraftOK
<1>1. CASE UNCHANGED shirt
  BY <1>0, <1>1
<1>2. CASE Open
  <2>1. PICK t : t = saved.tshirt
    OBVIOUS
  <2>2. Photos(t) \subseteq 1..uploads
    BY <2>1 DEF SavedOK, FormAt
  <2>3. Listed = Photos(t)
    BY <2>1 DEF Listed
  <2>4. CASE t = NoShirt
    <3>1. shirt' = [on |-> FALSE, label |-> "T-shirt Size", choices |-> <<"S", "M", "L">>, existing |-> {}, new |-> {}]
      BY <1>2, <2>1, <2>4 DEF Open, DefaultShirt
    <3>2. PICK c : c = <<"S", "M", "L">>
      OBVIOUS
    <3>3. ChoicesOK(c) /\ c \in Seq(Sizes) /\ Len(c) <= 3
      <4>1. Len(c) = 3
        BY <3>2
      <4> QED BY <3>2, <4>1, DefaultChoices DEF ChoicesOK
    <3>4. shirt' = [on |-> FALSE, label |-> "T-shirt Size", choices |-> c, existing |-> {}, new |-> {}]
      BY <3>1, <3>2
    <3>5. "T-shirt Size" \in ShirtLabels
      BY DEF ShirtLabels
    <3> QED BY <3>3, <3>4, <3>5 DEF ShirtAt, Shirts, Off
  <2>5. CASE t # NoShirt
    <3>1. shirt' = [on |-> TRUE, label |-> t.label, choices |-> t.choices, existing |-> Photos(t), new |-> {}]
      BY <1>2, <2>1, <2>3, <2>5 DEF Open
    <3>2. t.label \in ShirtLabels /\ ChoicesOK(t.choices)
      BY <2>1, <2>5 DEF SavedOK, FormAt
    <3>3. t.choices \in Seq(Sizes)
      BY <3>2 DEF ChoicesOK
    <3>4. ShirtAt(shirt', uploads) /\ Off(shirt')
      BY <2>2, <3>1, <3>2, <3>3 DEF ShirtAt, Shirts, Off
    <3> QED BY <1>0, <3>4
  <2> QED BY <2>4, <2>5
<1>3. CASE EditShirt
  BY <1>3, EditShirtKeeps DEF ShirtChange
<1>4. CASE Handle \/ HandleOther \/ Publish \/ OtherTab \/ Leave \/ EditRows \/ removeField \/ confirmRemove
           \/ closeDialog \/ toggleRequirement \/ editDisclaimer \/ saveForm \/ confirmSave \/ Answered
  <2>1. UNCHANGED shirt
    BY <1>4 DEF Handle, HandleOther, Publish, OtherTab, Leave, EditRows, removeField, confirmRemove, closeDialog,
         toggleRequirement, editDisclaimer, saveForm, confirmSave, Answered, draft
  <2> QED BY <1>1, <2>1
<1> QED BY <1>2, <1>3, <1>4 DEF BuilderNext

LEMMA UploadsStep ==
  ASSUME DraftOK, BuilderNext
  PROVE  uploads \in Nat /\ uploads' \in Nat /\ uploads <= uploads' /\ uploads' \in 1..MaxUploads
<1>1. uploads \in 1..MaxUploads /\ MaxUploads \in Nat
  BY BuilderAssumption DEF DraftOK
<1>2. CASE uploads' = uploads \/ (uploads < MaxUploads /\ uploads' = uploads + 1)
  BY <1>1, <1>2
<1>3. CASE EditShirt
  BY <1>1, <1>3, EditShirtKeeps
<1>4. CASE OtherTab
  <2>1. CASE SaveTab
    <3>1. PICK new \in {{}, {uploads + 1}} :
            (new # {} => uploads < MaxUploads) /\ uploads' = IF new = {} THEN uploads ELSE uploads + 1
      BY <2>1 DEF SaveTab
    <3> QED BY <1>2, <3>1
  <2>2. CASE uploads' = uploads
    BY <1>2, <2>2
  <2> QED BY <1>4, <2>1, <2>2 DEF OtherTab, OpenTab
<1>5. CASE Handle \/ HandleOther \/ Publish \/ Open \/ Leave \/ EditRows \/ removeField \/ confirmRemove
           \/ closeDialog \/ toggleRequirement \/ editDisclaimer \/ saveForm \/ confirmSave \/ Answered
  <2>1. uploads' = uploads
    BY <1>5 DEF Handle, HandleOther, Publish, Open, Leave, EditRows, removeField, confirmRemove, closeDialog,
         toggleRequirement, editDisclaimer, saveForm, confirmSave, Answered
  <2> QED BY <1>2, <2>1
<1> QED BY <1>3, <1>4, <1>5 DEF BuilderNext

LEMMA DraftStep ==
  ASSUME SavedOK, DraftOK, DialogOK, BuilderNext
  PROVE  DraftOK'
<1>1. FormOK(rows)' /\ nextId' \in Nat /\ (\A i \in DOMAIN rows : rows[i].id < nextId)'
  BY RowsStep
<1>2. ShirtAt(shirt', uploads') /\ Off(shirt') /\ gestures' \in 0..MaxGestures /\ uploads' \in 1..MaxUploads
  BY UploadsStep, ShirtStep, GestureStep
<1>3. disclaimer' \in Disclaimers
  <2>1. disclaimer' = disclaimer \/ disclaimer' = saved.disclaimer \/ disclaimer' \in Disclaimers
    BY DEF BuilderNext, Handle, HandleOther, Publish, OtherTab, Open, Leave, EditRows, removeField, confirmRemove,
       closeDialog, EditShirt, enableShirt, addChoice, removeChoice, editChoice, move, onShirtChange,
       toggleRequirement, editDisclaimer, saveForm, confirmSave, Answered, draft, Disclaimers
  <2> QED BY <2>1 DEF DraftOK, SavedOK, FormAt
<1>4. locked' \in BOOLEAN /\ page' \in {"open", "closed"}
  <2>1. (locked' = locked \/ locked' = TRUE) /\ (page' = page \/ page' \in {"open", "closed"})
    BY DEF BuilderNext, Handle, HandleOther, Publish, OtherTab, Open, Leave, EditRows, removeField, confirmRemove,
       closeDialog, EditShirt, enableShirt, addChoice, removeChoice, editChoice, move, onShirtChange,
       toggleRequirement, editDisclaimer, saveForm, confirmSave, Answered, draft, database
  <2> QED BY <2>1 DEF DraftOK
<1>5. contact' \in BOOLEAN /\ attempted' \in BOOLEAN
  <2>1. (contact' = contact \/ contact' = ~ contact) /\ (attempted' = attempted \/ attempted' \in BOOLEAN)
    BY DEF BuilderNext, Handle, HandleOther, Publish, OtherTab, Open, Leave, EditRows, removeField, confirmRemove,
       closeDialog, EditShirt, enableShirt, addChoice, removeChoice, editChoice, move, onShirtChange,
       toggleRequirement, editDisclaimer, saveForm, confirmSave, Answered, draft
  <2>2. contact \in BOOLEAN /\ attempted \in BOOLEAN
    BY DEF DraftOK
  <2> QED BY <2>1, <2>2
<1>6. mixed' \in BOOLEAN
  <2>1. mixed' = mixed \/ mixed' \in BOOLEAN
    BY DEF BuilderNext, Handle, HandleOther, Publish, OtherTab, Open, Leave, EditRows, removeField, confirmRemove,
       closeDialog, EditShirt, enableShirt, addChoice, removeChoice, editChoice, move, onShirtChange,
       toggleRequirement, editDisclaimer, saveForm, confirmSave, Answered, draft
  <2>2. mixed \in BOOLEAN
    BY DEF DraftOK
  <2> QED BY <2>1, <2>2
<1> QED BY <1>1, <1>2, <1>3, <1>4, <1>5, <1>6 DEF DraftOK

-----------------------------------------------------------------------------
(* The server's side, and the other tab.                                   *)

LEMMA SaveStep ==
  ASSUME SavedOK, DraftOK, TabOK, VisitOK, BuilderNext
  PROVE  SavedOK' /\ TabOK'
<1>0. uploads \in Nat /\ uploads' \in Nat /\ uploads <= uploads'
  BY UploadsStep
<1>1. /\ \A f : FormAt(f, uploads) => FormAt(f, uploads')
      /\ \A r : RequestAt(r, uploads) => RequestAt(r, uploads')
      /\ 1..uploads \subseteq 1..uploads'
  BY <1>0, Grows
<1>2. ASSUME UNCHANGED <<saved, files>> PROVE SavedOK'
  BY <1>1, <1>2 DEF SavedOK, files
<1>3. ASSUME UNCHANGED <<other, otherTab>> PROVE TabOK'
  BY <1>1, <1>3 DEF TabOK
<1>4. CASE Handle
  <2>1. visit # NoVisit /\ update(visit, visit') /\ uploads' = uploads /\ UNCHANGED <<other, otherTab>>
    BY <1>4 DEF Handle, NoVisit
  <2>2. PICK r, s : r = visit /\ s = visit'
    OBVIOUS
  <2>3. RequestAt(r, uploads) /\ update(r, s)
    BY <2>1, <2>2 DEF VisitOK
  <2>4. FormAt(saved', uploads) /\ stored' \cup revived' \cup orphans' \subseteq 1..uploads
    BY <2>3, UpdateKeeps DEF SavedOK
  <2> QED BY <1>3, <2>1, <2>4 DEF SavedOK
<1>5. CASE HandleOther
  <2>1. other # NoVisit /\ update(other, other') /\ uploads' = uploads /\ otherTab' = otherTab
    BY <1>5 DEF HandleOther, NoVisit
  <2>2. PICK r, s : r = other /\ s = other'
    OBVIOUS
  <2>3. RequestAt(r, uploads) /\ update(r, s) /\ otherTab = NoTab
    BY <2>1, <2>2 DEF TabOK
  <2>4. FormAt(saved', uploads) /\ stored' \cup revived' \cup orphans' \subseteq 1..uploads /\ RequestAt(s, uploads)
    BY <2>3, UpdateKeeps DEF SavedOK
  <2> QED BY <2>1, <2>2, <2>3, <2>4 DEF SavedOK, TabOK
<1>6. CASE OtherTab
  <2>1. SavedOK'
    BY <1>2, <1>6 DEF OtherTab
  <2>2. CASE OpenTab
    <3>1. otherTab' = [open |-> TRUE, form |-> saved] /\ other' = other /\ other = NoVisit
      BY <2>2 DEF OpenTab
    <3>2. otherTab'.open /\ FormAt(otherTab'.form, uploads')
      BY <1>1, <3>1 DEF SavedOK
    <3> QED BY <2>1, <3>1, <3>2 DEF TabOK
  <2>3. CASE SaveTab
    <3>1. PICK kept \in SUBSET Photos(otherTab.form.tshirt), new \in {{}, {uploads + 1}}, on \in BOOLEAN :
            /\ uploads' = IF new = {} THEN uploads ELSE uploads + 1
            /\ other' = Save(otherTab.form.rows,
                        [on |-> on, label |-> "T-shirt Size", choices |-> <<"S", "M", "L">>,
                         existing |-> kept, new |-> new],
                        otherTab.form.disclaimer, Photos(otherTab.form.tshirt))
      BY <2>3 DEF SaveTab
    <3>2. otherTab' = NoTab /\ FormAt(otherTab.form, uploads')
      <4>1. otherTab.open /\ otherTab' = NoTab
        BY <2>3 DEF SaveTab
      <4>2. otherTab # NoTab
        BY <4>1 DEF NoTab
      <4>3. FormAt(otherTab.form, uploads)
        BY <4>2 DEF TabOK
      <4> QED BY <1>1, <4>1, <4>3
    <3>3. new \subseteq 1..uploads'
      <4>1. CASE new = {}
        BY <4>1
      <4>2. CASE new = {uploads + 1}
        <5>1. new # {} /\ uploads' = uploads + 1
          BY <3>1, <4>2
        <5> QED BY <1>0, <4>2, <5>1
      <4> QED BY <4>1, <4>2
    <3>4. PICK c, f, q : /\ c = <<"S", "M", "L">> /\ f = otherTab.form
                         /\ q = [on |-> on, label |-> "T-shirt Size", choices |-> c, existing |-> kept, new |-> new]
      OBVIOUS
    <3>5. ShirtAt(q, uploads')
      <4>1. ChoicesOK(c)
        BY <3>4, DefaultChoices
      <4>2. "T-shirt Size" \in ShirtLabels /\ c \in Seq(Sizes)
        BY <4>1 DEF ShirtLabels, ChoicesOK
      <4>3. kept \subseteq 1..uploads'
        BY <3>2 DEF FormAt
      <4>4. q \in Shirts(uploads') /\ q.choices = c
        BY <3>3, <3>4, <4>2, <4>3 DEF Shirts
      <4> QED BY <4>1, <4>4 DEF ShirtAt
    <3>6. PICK r : r = Save(f.rows, q, f.disclaimer, Photos(f.tshirt))
      OBVIOUS
    <3>7. r = [state |-> "sent", errors |-> {}, known |-> {},
               data |-> [rows |-> f.rows, shirt |-> q, disclaimer |-> f.disclaimer, shown |-> Photos(f.tshirt)]]
      BY <3>6 DEF Save
    <3>8. FormOK(f.rows) /\ f.disclaimer \in Disclaimers
      BY <3>2, <3>4 DEF FormAt
    <3>9. RequestAt(r, uploads')
      BY <3>5, <3>7, <3>8 DEF RequestAt, States
    <3>10. other' = r
      BY <3>1, <3>4, <3>6
    <3> QED BY <2>1, <3>2, <3>9, <3>10 DEF TabOK
  <2>4. CASE other.state \in Answers /\ other' = NoVisit /\ UNCHANGED otherTab
    <3>1. other # NoVisit
      BY <2>4 DEF Answers, NoVisit
    <3> QED BY <2>1, <2>4, <3>1 DEF TabOK
  <2> QED BY <1>6, <2>2, <2>3, <2>4 DEF OtherTab
<1>7. CASE Publish \/ Open \/ Leave \/ EditRows \/ removeField \/ confirmRemove \/ closeDialog \/ EditShirt
           \/ toggleRequirement \/ editDisclaimer \/ saveForm \/ confirmSave \/ Answered
  <2>1. UNCHANGED <<saved, files, other, otherTab>>
    BY <1>7 DEF Publish, Open, Leave, EditRows, removeField, confirmRemove, closeDialog, EditShirt, enableShirt,
         addChoice, removeChoice, editChoice, move, onShirtChange, toggleRequirement, editDisclaimer,
         saveForm, confirmSave, Answered, database
  <2> QED BY <1>2, <1>3, <2>1
<1> QED BY <1>4, <1>5, <1>6, <1>7 DEF BuilderNext

-----------------------------------------------------------------------------
(* The photos.                                                             *)

LEMMA PhaseFacts ==
  ASSUME NEW n, NEW r, NEW s, RequestAt(r, n), update(r, s)
  PROVE  /\ r.state = "tidying" => s.state = "done"
         /\ Chosen(s) \subseteq Chosen(r)
         /\ s.state \in {"tidying", "done"} => Chosen(s) = {}
         /\ s.state \in States \ {"none"} /\ s.data = r.data
<1>1. \/ r.state = "sent" /\ (Moved(r, s, "invalid") \/ Moved(r, s, "ended") \/ Moved(r, s, "bound"))
      \/ r.state = "bound" /\ (Moved(r, s, "tidying") \/ Moved(r, s, "ended"))
      \/ r.state = "tidying" /\ Moved(r, s, "done")
  BY Steps
<1>2. \/ r.state = "sent" /\ s.state \in {"invalid", "ended", "bound"}
      \/ r.state = "bound" /\ s.state \in {"tidying", "ended"}
      \/ r.state = "tidying" /\ s.state = "done"
  BY <1>1, MovedParts
<1>3. s.data = r.data
  BY <1>1, MovedParts
<1> QED BY <1>2, <1>3 DEF Chosen, States

(* Saves that store or delete nothing do not count.                        *)
LEMMA IdleFiles ==
  ASSUME NEW list, NEW kept, NEW back, NEW left, NEW r, NEW o, NEW s, NEW p,
         Filed(list, kept, back, left, r, o),
         s = r \/ {r.state, s.state} \cap {"bound", "tidying"} = {},
         p = o \/ {o.state, p.state} \cap {"bound", "tidying"} = {}
  PROVE  Filed(list, kept, back, left, s, p)
<1>1. r.state \notin {"bound", "tidying"} => UnderWay(r) = {}
  BY PartsOf
<1>2. o.state \notin {"bound", "tidying"} => UnderWay(o) = {}
  BY PartsOf
<1>3. s = r \/ (UnderWay(r) = {} /\ s.state \notin {"bound", "tidying"})
  BY <1>1
<1>4. p = o \/ (UnderWay(o) = {} /\ p.state \notin {"bound", "tidying"})
  BY <1>2
<1> QED BY <1>3, <1>4 DEF Filed

(* What is known is known by its number, so a photo just chosen is not.    *)
LEMMA KnownPhotos ==
  ASSUME SavedOK, DraftOK, TabOK, VisitOK
  PROVE  /\ Listed \subseteq 1..uploads /\ Mine \subseteq 1..uploads
         /\ Read(visit) \subseteq 1..uploads /\ Read(other) \subseteq 1..uploads
         /\ Chosen(visit) \subseteq 1..uploads /\ Chosen(other) \subseteq 1..uploads
<1>1. ASSUME NEW r, r # NoVisit => RequestAt(r, uploads)
      PROVE  Read(r) \subseteq 1..uploads /\ Chosen(r) \subseteq 1..uploads
  <2>1. CASE r = NoVisit
    BY <2>1 DEF Read, Chosen, NoVisit
  <2>2. CASE r # NoVisit
    BY <1>1, <2>2 DEF Read, Chosen, RequestAt, ShirtAt, Shirts
  <2> QED BY <2>1, <2>2
<1>2. Listed \subseteq 1..uploads
  BY DEF SavedOK, FormAt, Listed
<1>3. Mine \subseteq 1..uploads
  BY DEF DraftOK, ShirtAt, Shirts, Mine
<1> QED BY <1>1, <1>2, <1>3 DEF TabOK, VisitOK

LEMMA PhotosStep ==
  ASSUME SavedOK, DraftOK, TabOK, PhotosOK, DialogOK, VisitOK, BuilderNext
  PROVE  PhotosOK'
<1> DEFINE a == Mine \cup Chosen(visit)
           b == Chosen(other)
<1>0. uploads \in Nat /\ uploads' \in Nat /\ uploads <= uploads'
  BY UploadsStep
<1>1. Filed(Listed, stored, revived, orphans, visit, other) /\ Apart(Listed, a, b, visit, other)
  BY DEF PhotosOK
<1>2. UNCHANGED saved => Listed' = Listed
  BY DEF Listed
<1>3. /\ Chosen(visit)' = Chosen(visit') /\ Chosen(other)' = Chosen(other')
      /\ Mine' = IF page' = "open" /\ visit'.state \notin {"tidying", "done"} THEN shirt'.new ELSE {}
  BY DEF Mine, Chosen
<1>4. SUFFICES /\ Filed(Listed', stored', revived', orphans', visit', other')
               /\ Apart(Listed', Mine' \cup Chosen(visit'), Chosen(other'), visit', other')
  BY <1>3 DEF PhotosOK, Filed, Apart, UnderWay, Unwanted, Read
<1>5. CASE Handle
  <2>1. visit # NoVisit /\ update(visit, visit') /\ UNCHANGED <<page, shirt, other>>
    BY <1>5 DEF Handle, NoVisit, draft
  <2>2. PICK r, s, o, c : r = visit /\ s = visit' /\ o = other /\ c = Mine' \cup Chosen(visit')
    OBVIOUS
  <2>3. RequestAt(r, uploads) /\ update(r, s)
    BY <2>1, <2>2 DEF VisitOK
  <2>4. /\ r.state = "tidying" => s.state = "done"
        /\ Chosen(s) \subseteq Chosen(r)
        /\ s.state \in {"tidying", "done"} => Chosen(s) = {}
    BY <2>3, PhaseFacts
  <2>5. Mine' \subseteq Mine /\ (s.state \in {"tidying", "done"} => Mine' = {})
    <3>1. visit.state \in {"sent", "bound", "tidying"}
      BY <1>5 DEF Handle
    <3> QED BY <1>3, <2>1, <2>2, <2>4, <3>1 DEF Mine
  <2> HIDE DEF a, b
  <2>6. c \subseteq a /\ Chosen(r) \subseteq a /\ Chosen(o) \subseteq b /\ (s.state \in {"tidying", "done"} => c = {})
    BY <2>2, <2>4, <2>5 DEF a, b
  <2>7. Filed(Listed', stored', revived', orphans', s, o) /\ Apart(Listed', c, b, s, o)
    BY <1>1, <2>2, <2>3, <2>6, UpdateFiles, UpdateApart
  <2> QED BY <2>1, <2>2, <2>7 DEF b
<1>6. CASE HandleOther
  <2>1. other # NoVisit /\ update(other, other') /\ UNCHANGED <<page, shirt, visit>>
    BY <1>6 DEF HandleOther, NoVisit, draft
  <2>2. PICK r, s, o, c : r = other /\ s = other' /\ o = visit /\ c = Chosen(other')
    OBVIOUS
  <2>3. RequestAt(r, uploads) /\ update(r, s)
    BY <2>1, <2>2 DEF TabOK
  <2>4. /\ Chosen(s) \subseteq Chosen(r)
        /\ s.state \in {"tidying", "done"} => Chosen(s) = {}
    BY <2>3, PhaseFacts
  <2>5. Mine' = Mine
    BY <1>3, <2>1 DEF Mine
  <2> HIDE DEF a, b
  <2>6. c \subseteq b /\ Chosen(r) \subseteq b /\ Chosen(o) \subseteq a /\ (s.state \in {"tidying", "done"} => c = {})
    BY <2>2, <2>4 DEF a, b
  <2>7. Filed(Listed, stored, revived, orphans, r, o) /\ Apart(Listed, b, a, r, o)
    BY <1>1, <2>2 DEF Filed, Apart
  <2>8. Filed(Listed', stored', revived', orphans', s, o) /\ Apart(Listed', c, a, s, o)
    BY <2>3, <2>6, <2>7, UpdateFiles, UpdateApart
  <2>9. Filed(Listed', stored', revived', orphans', o, s) /\ Apart(Listed', a, c, o, s)
    BY <2>8 DEF Filed, Apart
  <2> QED BY <2>1, <2>2, <2>5, <2>9 DEF a
<1>7. ASSUME UNCHANGED <<saved, files>>,
             visit' = visit \/ {visit.state, visit'.state} \cap {"bound", "tidying"} = {},
             other' = other \/ {other.state, other'.state} \cap {"bound", "tidying"} = {},
             Mine' \cup Chosen(visit') \subseteq a \cup ((uploads + 1)..uploads'),
             Chosen(other') \subseteq b \/ (Chosen(other') \subseteq b \cup ((uploads + 1)..uploads')
                                            /\ Mine' \cup Chosen(visit') \subseteq a)
      PROVE  /\ Filed(Listed', stored', revived', orphans', visit', other')
             /\ Apart(Listed', Mine' \cup Chosen(visit'), Chosen(other'), visit', other')
  <2>1. Listed' = Listed /\ UNCHANGED <<stored, revived, orphans>>
    BY <1>2, <1>7 DEF files
  <2>2. Filed(Listed', stored', revived', orphans', visit', other')
    BY <1>1, <1>7, <2>1, IdleFiles
  <2>3. Read(visit') \subseteq Read(visit) /\ Read(other') \subseteq Read(other)
    BY <1>7 DEF Read
  <2>4. a \subseteq 1..uploads /\ b \subseteq 1..uploads /\ Listed \subseteq 1..uploads
        /\ Read(visit) \subseteq 1..uploads /\ Read(other) \subseteq 1..uploads
    BY KnownPhotos
  <2>5. ((uploads + 1)..uploads') \cap (1..uploads) = {}
    BY <1>0
  <2> HIDE DEF a, b
  <2>6. a \cap b = {} /\ (a \cup b) \cap (Listed \cup Read(visit) \cup Read(other)) = {}
    BY <1>1 DEF Apart
  <2>7. PICK fresh : fresh = (uploads + 1)..uploads'
    OBVIOUS
  <2>8. fresh \cap (a \cup b \cup Listed \cup Read(visit) \cup Read(other)) = {}
    BY <2>4, <2>5, <2>7
  <2>9. Apart(Listed', Mine' \cup Chosen(visit'), Chosen(other'), visit', other')
    BY <1>7, <2>1, <2>3, <2>6, <2>7, <2>8 DEF Apart
  <2> QED BY <2>2, <2>9
<1>8. CASE OtherTab
  <2>1. UNCHANGED <<saved, files, page, shirt, visit>>
    BY <1>8 DEF OtherTab, draft
  <2>2. Mine' = Mine /\ Chosen(visit') = Chosen(visit)
    BY <1>3, <2>1 DEF Mine
  <2>3. CASE other' = other
    BY <1>7, <2>1, <2>2, <2>3
  <2>4. CASE SaveTab
    <3>0. PICK kept \in SUBSET Photos(otherTab.form.tshirt), new \in {{}, {uploads + 1}}, on \in BOOLEAN :
            /\ uploads' = IF new = {} THEN uploads ELSE uploads + 1
            /\ other' = Save(otherTab.form.rows,
                        [on |-> on, label |-> "T-shirt Size", choices |-> <<"S", "M", "L">>,
                         existing |-> kept, new |-> new],
                        otherTab.form.disclaimer, Photos(otherTab.form.tshirt))
      BY <2>4 DEF SaveTab
    <3>1. other'.state = "sent" /\ other'.data.shirt.new = new
      BY <3>0 DEF Save
    <3>2. new \subseteq (uploads + 1)..uploads'
      <4>1. uploads' = IF new = {} THEN uploads ELSE uploads + 1
        BY <3>0
      <4> QED BY <1>0, <4>1
    <3>3. Chosen(other') = new
      BY <3>1 DEF Chosen
    <3>4. other = NoVisit
      <4>1. otherTab.open
        BY <2>4 DEF SaveTab
      <4> QED BY <4>1 DEF TabOK, NoTab
    <3>5. other.state = "none"
      BY <3>4 DEF NoVisit
    <3> QED BY <1>7, <2>1, <2>2, <3>1, <3>2, <3>3, <3>5
  <2>5. CASE other.state \in Answers /\ other' = NoVisit
    <3>1. other'.state = "none" /\ Chosen(other') = {}
      BY <2>5 DEF NoVisit, Chosen
    <3> QED BY <1>7, <2>1, <2>2, <2>5, <3>1 DEF Answers
  <2> QED BY <1>8, <2>3, <2>4, <2>5 DEF OtherTab, OpenTab
<1>9. CASE EditShirt
  <2>1. ShirtChange(shirt')
    BY <1>9, EditShirtKeeps
  <2>2. UNCHANGED <<saved, files, page, visit, other>>
    BY <1>9 DEF EditShirt, enableShirt, addChoice, removeChoice, editChoice, move, onShirtChange, database
  <2>3. Mine' \subseteq Mine \cup ((uploads + 1)..uploads') /\ Chosen(visit') = Chosen(visit)
    BY <1>3, <2>1, <2>2 DEF Mine, ShirtChange
  <2> QED BY <1>7, <2>2, <2>3
<1>10. CASE confirmSave
  <2>1. visit = NoVisit /\ page = "open"
    BY <1>10 DEF confirmSave, DialogOK, NoDialog
  <2>2. UNCHANGED <<saved, files, page, shirt, other>> /\ visit'.state = "sent" /\ visit'.data.shirt.new = shirt.new
    BY <1>10 DEF confirmSave, Save, database, draft
  <2>3. visit.state = "none"
    BY <2>1 DEF NoVisit
  <2>4. Mine' \subseteq Mine /\ Chosen(visit') \subseteq Mine
    BY <1>3, <2>1, <2>2, <2>3 DEF Mine, Chosen
  <2> QED BY <1>7, <2>2, <2>3, <2>4
<1>11. CASE Answered
  <2>1. visit' = NoVisit /\ visit.state \in Answers /\ UNCHANGED <<saved, files, shirt, other>>
    BY <1>11 DEF Answered, database, draft
  <2>2. visit'.state = "none" /\ Chosen(visit') = {}
    BY <2>1 DEF NoVisit, Chosen
  <2>3. Mine' \subseteq Mine
    BY <1>3, <1>11, <2>1 DEF Answered, Answers, Mine
  <2> QED BY <1>7, <2>1, <2>2, <2>3 DEF Answers
<1>12. CASE Open
  <2>1. UNCHANGED <<saved, files, visit, other>> /\ shirt'.new = {}
    BY <1>12 DEF Open, DefaultShirt, database
  <2>2. Mine' = {} /\ Chosen(visit') = Chosen(visit)
    BY <1>3, <2>1
  <2> QED BY <1>7, <2>1, <2>2
<1>13. CASE Publish \/ Leave \/ EditRows \/ removeField \/ confirmRemove \/ closeDialog
            \/ toggleRequirement \/ editDisclaimer \/ saveForm
  <2>1. UNCHANGED <<saved, files, shirt, visit, other>> /\ (page' = page \/ page' = "closed")
    BY <1>13 DEF Publish, Leave, EditRows, removeField, confirmRemove, closeDialog,
         toggleRequirement, editDisclaimer, saveForm, database, draft
  <2>2. Mine' \subseteq Mine /\ Chosen(visit') = Chosen(visit)
    BY <1>3, <2>1 DEF Mine
  <2> QED BY <1>7, <2>1, <2>2
<1> QED BY <1>5, <1>6, <1>8, <1>9, <1>10, <1>11, <1>12, <1>13 DEF BuilderNext

(* The dialogs: a question is about a row that is there, and what is asked *)
(* to be saved has passed the rules of the page.                           *)
LEMMA DialogStep ==
  ASSUME DraftOK, DialogOK, BuilderNext
  PROVE  DialogOK'
<1> USE DEF NoDialog
<1>1. ASSUME dialog' = NoDialog PROVE DialogOK'
  BY <1>1 DEF DialogOK
<1>2. ASSUME dialog = NoDialog, dialog' = dialog PROVE DialogOK'
  BY <1>1, <1>2
<1>3. ASSUME UNCHANGED <<dialog, page, rows, shirt, photos, disclaimer, visit>> PROVE DialogOK'
  <2>1. clientErrors' = clientErrors
    BY <1>3 DEF clientErrors, validateRegistrationForm, validateTshirt
  <2> QED BY <1>3, <2>1 DEF DialogOK
<1>4. CASE Open
  <2>1. dialog = NoDialog /\ dialog' = dialog
    BY <1>4 DEF Open, DialogOK
  <2> QED BY <1>2, <2>1
<1>5. CASE Leave \/ EditRows \/ EditShirt \/ toggleRequirement \/ editDisclaimer
  <2>1. dialog = NoDialog /\ dialog' = dialog
    BY <1>5 DEF Leave, EditRows, addField, reorderFields, label, handleTypeChange, addOption, updateOption,
         removeOption, updateField, EditShirt, enableShirt, addChoice, removeChoice, editChoice, move,
         onShirtChange, toggleRequirement, editDisclaimer, Editable
  <2> QED BY <1>2, <2>1
<1>6. CASE confirmRemove \/ closeDialog \/ confirmSave
  BY <1>1, <1>6 DEF confirmRemove, closeDialog, confirmSave
<1>7. CASE HandleOther \/ Publish \/ OtherTab
  BY <1>3, <1>7 DEF HandleOther, Publish, OtherTab, draft
<1>8. CASE removeField
  <2>1. PICK i \in DOMAIN rows : dialog' = [ask |-> "remove", row |-> i, errors |-> errors]
    BY <1>8 DEF removeField
  <2>2. page' = "open" /\ rows' = rows
    BY <1>8 DEF removeField, Editable, draft
  <2> QED BY <2>1, <2>2 DEF DialogOK
<1>9. CASE saveForm
  <2>1. page = "open" /\ visit = NoVisit /\ dialog = NoDialog
        /\ UNCHANGED <<page, rows, shirt, photos, disclaimer, visit>>
    BY <1>9 DEF saveForm, Editable, Saving, draft
  <2>2. clientErrors' = clientErrors
    BY <2>1 DEF clientErrors, validateRegistrationForm, validateTshirt
  <2>3. dialog' = NoDialog \/ (dialog' = [ask |-> "save"] /\ clientErrors = {} /\ disclaimer # "blank")
    BY <1>9, <2>1 DEF saveForm
  <2>4. CASE dialog' = [ask |-> "save"] /\ clientErrors = {} /\ disclaimer # "blank"
    BY <2>1, <2>2, <2>4 DEF DialogOK
  <2> QED BY <1>1, <2>3, <2>4
<1>10. CASE Handle
  <2>1. visit # NoVisit /\ UNCHANGED <<dialog, page, rows>>
    BY <1>10 DEF Handle, NoVisit, draft
  <2>2. dialog.ask # "save"
    BY <2>1 DEF DialogOK
  <2> QED BY <2>1, <2>2 DEF DialogOK
<1>11. CASE Answered
  <2>1. visit # NoVisit /\ UNCHANGED rows
    BY <1>11 DEF Answered, Answers, NoVisit, draft
  <2>2. dialog.ask # "save"
    BY <2>1 DEF DialogOK
  <2>3. dialog' = NoDialog \/ UNCHANGED <<dialog, page>>
    BY <1>11 DEF Answered
  <2>4. ASSUME UNCHANGED <<dialog, page>> PROVE DialogOK'
    BY <2>1, <2>2, <2>4 DEF DialogOK
  <2> QED BY <1>1, <2>3, <2>4
<1> QED BY <1>4, <1>5, <1>6, <1>7, <1>8, <1>9, <1>10, <1>11 DEF BuilderNext

-----------------------------------------------------------------------------
(* The save in progress, and the errors.                                   *)

LEMMA CleanForm ==
  ASSUME NEW f, validateRegistrationForm(f) = {}
  PROVE  \A i \in DOMAIN f : f[i].label \notin PageRefuses /\ ~ EarlierSame(f, i) /\ ~ BadOptions(f[i], {""})
<1>0. BadRows(f, PageRefuses, {""}) = {}
  BY DEF validateRegistrationForm
<1>1. ASSUME NEW i \in DOMAIN f, f[i].label \in PageRefuses \/ EarlierSame(f, i) PROVE FALSE
  <2>1. Key(i, "label", f[i].id) \in BadRows(f, PageRefuses, {""})
    BY <1>1 DEF BadRows
  <2> QED BY <1>0, <2>1
<1>2. ASSUME NEW i \in DOMAIN f, BadOptions(f[i], {""}) PROVE FALSE
  <2>1. Key(i, "options", f[i].id) \in BadRows(f, PageRefuses, {""})
    BY <1>2 DEF BadRows
  <2> QED BY <1>0, <2>1
<1> QED BY <1>1, <1>2

(* The three sizes are three choices, and alone they are fine.             *)
LEMMA PlainChoices ==
  ASSUME NEW c, ChoicesOK(c)
  PROVE  Len(c) >= 3 /\ (Len(c) <= 3 => ~ BadChoices(c))
<1>1. /\ Len(c) \in Nat /\ DOMAIN c = 1..Len(c) /\ Len(c) <= MAX_CHOICES
      /\ \A r \in Reserved : \E i \in 1..Len(c) : c[i] = r
      /\ \A k, j \in 1..Len(c) : c[k] = c[j] /\ k # j => c[k] \notin Reserved
  BY ChoicesFacts
<1>2. PICK i, j, k : /\ i \in 1..Len(c) /\ j \in 1..Len(c) /\ k \in 1..Len(c)
                     /\ c[i] = "S" /\ c[j] = "M" /\ c[k] = "L"
  BY <1>1 DEF Reserved
<1>3. i # j /\ j # k /\ i # k
  BY <1>2
<1>4. Len(c) >= 3
  BY <1>1, <1>2, <1>3
<1>5. ASSUME Len(c) <= 3 PROVE ~ BadChoices(c)
  <2>1. \A h \in 1..Len(c) : h = i \/ h = j \/ h = k
    BY <1>1, <1>2, <1>3, <1>5
  <2>2. \A h \in 1..Len(c) : c[h] \in Reserved
    BY <1>2, <2>1 DEF Reserved
  <2>3. \A h \in 1..Len(c) : c[h] # "" /\ Fold(c[h]) = c[h]
    BY <2>2 DEF Reserved, Fold
  <2>4. ASSUME NEW h \in 1..Len(c), NEW l \in 1..(h - 1), Fold(c[h]) = Fold(c[l]) PROVE FALSE
    <3>1. l \in 1..Len(c) /\ l # h
      BY <1>1
    <3> QED BY <1>1, <2>2, <2>3, <2>4, <3>1
  <2>5. ~ (Len(c) > MAX_CHOICES)
    <3>1. MAX_CHOICES \in Nat
      BY BuilderAssumption
    <3> QED BY <1>1, <3>1
  <2> QED BY <1>1, <2>3, <2>4, <2>5 DEF BadChoices
<1> QED BY <1>4, <1>5

(* What the rules of the page have seen of the element.                    *)
LEMMA CheckedShirt ==
  ASSUME NEW q, NEW n \in Nat, Checked(q), ShirtAt(q.shirt, n)
  PROVE  /\ q.shirt.label # "" /\ ~ BadChoices(q.shirt.choices) /\ Len(q.shirt.choices) >= 3
         /\ q.shirt.on => Reserved \subseteq Images(q.shirt.choices)
         /\ ~ q.shirt.on => q.shirt.new = {}
         /\ ~ (Cardinality(q.shirt.new) > MAX_PHOTOS)
         /\ (q.shirt.on \/ q.shirt.existing = {}) /\ q.shirt.existing \subseteq q.shown =>
                /\ ~ (Cardinality(q.shirt.existing) + Cardinality(q.shirt.new) > MAX_PHOTOS)
                /\ ~ (Cardinality(q.shirt.existing) > MAX_PHOTOS)
                /\ q.shirt.existing \cup q.shirt.new \notin Heavy
<1> DEFINE s == q.shirt
           m == q.shown \cap s.existing
<1>1. validateTshirt(s, q.shown) = {} /\ Off(s) /\ ChoicesOK(s.choices) /\ s \in Shirts(n)
  BY DEF Checked, ShirtAt
<1>2. MAX_PHOTOS \in Nat /\ {} \notin Heavy
  BY BuilderAssumption
<1>3. /\ Cardinality(s.existing) \in Nat /\ Cardinality(s.new) \in Nat /\ Cardinality(m) \in Nat
      /\ Cardinality({}) = 0
  <2>1. s.existing \subseteq 1..n /\ s.new \subseteq 1..n /\ m \subseteq 1..n
    BY <1>1 DEF Shirts
  <2>2. IsFiniteSet(1..n)
    BY FS_Interval
  <2>3. IsFiniteSet(s.existing) /\ IsFiniteSet(s.new) /\ IsFiniteSet(m)
    BY <2>1, <2>2, FS_Subset
  <2> QED BY <2>3, FS_CardinalityType, FS_EmptySet
<1>4. Len(s.choices) >= 3 /\ (Len(s.choices) <= 3 => ~ BadChoices(s.choices))
  BY <1>1, PlainChoices
<1>5. CASE s.on
  <2>1. /\ If(s.label = "", "shirt label") = {}
        /\ If(BadChoices(s.choices) \/ ~ Reserved \subseteq Images(s.choices), "choices") = {}
        /\ If(Cardinality(m) + Cardinality(s.new) > MAX_PHOTOS \/ m \cup s.new \in Heavy, "photos") = {}
    BY <1>1, <1>5 DEF validateTshirt
  <2>2. /\ s.label # "" /\ ~ BadChoices(s.choices) /\ Reserved \subseteq Images(s.choices)
        /\ ~ (Cardinality(m) + Cardinality(s.new) > MAX_PHOTOS) /\ m \cup s.new \notin Heavy
    BY <2>1 DEF If
  <2>3. ~ (Cardinality(s.new) > MAX_PHOTOS)
    <3>1. ~ (Cardinality(m) + Cardinality(s.new) > MAX_PHOTOS)
      BY <2>2
    <3> HIDE DEF s, m
    <3> QED BY <1>2, <1>3, <3>1
  <2>4. ASSUME s.existing \subseteq q.shown
        PROVE  /\ ~ (Cardinality(s.existing) + Cardinality(s.new) > MAX_PHOTOS)
               /\ ~ (Cardinality(s.existing) > MAX_PHOTOS)
               /\ s.existing \cup s.new \notin Heavy
    <3>1. m = s.existing
      BY <2>4
    <3>2. ~ (Cardinality(s.existing) + Cardinality(s.new) > MAX_PHOTOS) /\ s.existing \cup s.new \notin Heavy
      BY <2>2, <3>1
    <3> QED BY <1>2, <1>3, <3>2
  <2> QED BY <1>4, <1>5, <2>2, <2>3, <2>4
<1>6. CASE ~ s.on
  <2>1. s.new = {} /\ s.label = "T-shirt Size" /\ Len(s.choices) <= 3
    BY <1>1, <1>6 DEF Off
  <2>2. ~ (Cardinality(s.new) > MAX_PHOTOS)
    <3>1. Cardinality(s.new) = 0
      BY <1>3, <2>1
    <3> HIDE DEF s
    <3> QED BY <1>2, <3>1
  <2>3. ASSUME s.existing = {}
        PROVE  /\ ~ (Cardinality(s.existing) + Cardinality(s.new) > MAX_PHOTOS)
               /\ ~ (Cardinality(s.existing) > MAX_PHOTOS)
               /\ s.existing \cup s.new \notin Heavy
    <3>1. Cardinality(s.existing) = 0 /\ Cardinality(s.new) = 0
      BY <1>3, <2>1, <2>3
    <3>2. s.existing \cup s.new = {}
      BY <2>1, <2>3
    <3> QED BY <1>2, <3>1, <3>2
  <2> QED BY <1>4, <1>6, <2>1, <2>2, <2>3
<1> QED BY <1>5, <1>6

(* What the rules of the server can still say of a save that passed those  *)
(* of the page.                                                            *)
ServersOwn(q, known, e) ==
  \/ \E i \in DOMAIN q.rows : e = Key(i, "label", q.rows[i].id) /\ q.rows[i].label \in ServerRefuses \ PageRefuses
  \/ \E i \in DOMAIN q.rows : e = Key(i, "options", q.rows[i].id) /\ "long" \in Images(q.rows[i].options)
  \/ e = Elsewhere("disclaimer") /\ q.disclaimer = "long"
  \/ e = Elsewhere("shirt label") /\ q.shirt.label = "glyph"
  \/ e = Elsewhere("file") /\ q.shirt.new \cap BadFiles # {}
  \/ /\ e = Elsewhere("existing") \/ e = Elsewhere("photos") \/ e = Elsewhere("enabled")
     /\ ~ q.shirt.existing \subseteq known \cap q.shown \/ (~ q.shirt.on /\ q.shirt.existing # {})

LEMMA OwnParts ==
  ASSUME NEW q, NEW known, NEW e, ServersOwn(q, known, e)
  PROVE  \/ e.part = "label" /\ q.rows[e.row].label \in ServerRefuses \ PageRefuses
         \/ e.part = "options" /\ "long" \in Images(q.rows[e.row].options)
         \/ e.part = "disclaimer" /\ q.disclaimer = "long"
         \/ e.part = "shirt label" /\ q.shirt.label = "glyph"
         \/ e.part = "file" /\ q.shirt.new \cap BadFiles # {}
         \/ /\ e.part \in {"existing", "photos", "enabled"}
            /\ \/ ~ q.shirt.existing \subseteq known \cap q.shown
               \/ ~ q.shirt.on /\ q.shirt.existing # {}
<1>1. CASE \E i \in DOMAIN q.rows :
             e = Key(i, "label", q.rows[i].id) /\ q.rows[i].label \in ServerRefuses \ PageRefuses
  BY <1>1 DEF Key
<1>2. CASE \E i \in DOMAIN q.rows : e = Key(i, "options", q.rows[i].id) /\ "long" \in Images(q.rows[i].options)
  BY <1>2 DEF Key
<1>3. CASE e = Elsewhere("disclaimer") /\ q.disclaimer = "long"
  BY <1>3 DEF Elsewhere, Key
<1>5. CASE e = Elsewhere("shirt label") /\ q.shirt.label = "glyph"
  BY <1>5 DEF Elsewhere, Key
<1>6. CASE e = Elsewhere("file") /\ q.shirt.new \cap BadFiles # {}
  BY <1>6 DEF Elsewhere, Key
<1>4. CASE /\ e = Elsewhere("existing") \/ e = Elsewhere("photos") \/ e = Elsewhere("enabled")
           /\ ~ q.shirt.existing \subseteq known \cap q.shown \/ (~ q.shirt.on /\ q.shirt.existing # {})
  <2>1. e.part \in {"existing", "photos", "enabled"}
    BY <1>4 DEF Elsewhere, Key
  <2> QED BY <1>4, <2>1
<1> QED BY <1>1, <1>2, <1>3, <1>4, <1>5, <1>6 DEF ServersOwn

LEMMA ReportedRow ==
  ASSUME NEW q, Checked(q), NEW e \in BadRows(q.rows, ServerRefuses, {"", "long"})
  PROVE  \/ \E i \in DOMAIN q.rows : e = Key(i, "label", q.rows[i].id) /\ q.rows[i].label \in ServerRefuses \ PageRefuses
         \/ \E i \in DOMAIN q.rows : e = Key(i, "options", q.rows[i].id) /\ "long" \in Images(q.rows[i].options)
<1>0. \A i \in DOMAIN q.rows :
        q.rows[i].label \notin PageRefuses /\ ~ EarlierSame(q.rows, i) /\ ~ BadOptions(q.rows[i], {""})
  BY CleanForm DEF Checked
<1>1. \/ \E i \in DOMAIN q.rows : /\ e = Key(i, "label", q.rows[i].id)
                                  /\ q.rows[i].label \in ServerRefuses \/ EarlierSame(q.rows, i)
      \/ \E i \in DOMAIN q.rows : e = Key(i, "options", q.rows[i].id) /\ BadOptions(q.rows[i], {"", "long"})
      \/ \E i \in DOMAIN q.rows : EarlierSame(q.rows, i)
  BY DEF BadRows
<1>2. ASSUME NEW i \in DOMAIN q.rows, BadOptions(q.rows[i], {"", "long"})
      PROVE  "long" \in Images(q.rows[i].options)
  <2>1. ~ BadOptions(q.rows[i], {""})
    BY <1>0
  <2> QED BY <1>2, <2>1 DEF BadOptions
<1> QED BY <1>0, <1>1, <1>2

LEMMA Reported ==
  ASSUME NEW q, NEW n \in Nat, NEW known, Checked(q), ShirtAt(q.shirt, n), NEW e \in rules(q, known)
  PROVE  ServersOwn(q, known, e)
<1>0. /\ q.shirt.label # "" /\ ~ BadChoices(q.shirt.choices) /\ Len(q.shirt.choices) >= 3
      /\ q.shirt.on => Reserved \subseteq Images(q.shirt.choices)
      /\ ~ q.shirt.on => q.shirt.new = {}
      /\ ~ (Cardinality(q.shirt.new) > MAX_PHOTOS)
      /\ q.disclaimer # "blank"
  BY CheckedShirt DEF Checked
<1>1. ASSUME ~ (~ q.shirt.existing \subseteq known \cap q.shown \/ (~ q.shirt.on /\ q.shirt.existing # {}))
      PROVE  /\ ~ (Cardinality(q.shirt.existing) + Cardinality(q.shirt.new) > MAX_PHOTOS)
             /\ ~ (Cardinality(q.shirt.existing) > MAX_PHOTOS)
             /\ (known \cap q.shirt.existing) \cup q.shirt.new \notin Heavy
  <2>1. q.shirt.existing \subseteq known /\ q.shirt.existing \subseteq q.shown /\ (q.shirt.on \/ q.shirt.existing = {})
    BY <1>1
  <2>2. known \cap q.shirt.existing = q.shirt.existing
    BY <2>1
  <2> QED BY <2>1, <2>2, CheckedShirt
<1>2. CASE e \in fieldRules(q)
  <2>1. \/ e \in BadRows(q.rows, ServerRefuses, {"", "long"})
        \/ e \in If(q.disclaimer = "long", "disclaimer")
        \/ e \in If(q.shirt.label \in {"", "glyph"}, "shirt label")
        \/ e \in If(BadChoices(q.shirt.choices) \/ Len(q.shirt.choices) < 3, "choices")
        \/ e \in If(q.shirt.new \cap BadFiles # {}, "file")
        \/ e \in If(Cardinality(q.shirt.new) > MAX_PHOTOS, "photos")
        \/ e \in If(Cardinality(q.shirt.existing) > MAX_PHOTOS, "existing")
    BY <1>2 DEF fieldRules
  <2>2. CASE e \in BadRows(q.rows, ServerRefuses, {"", "long"})
    <3>1. \/ \E i \in DOMAIN q.rows :
               e = Key(i, "label", q.rows[i].id) /\ q.rows[i].label \in ServerRefuses \ PageRefuses
          \/ \E i \in DOMAIN q.rows : e = Key(i, "options", q.rows[i].id) /\ "long" \in Images(q.rows[i].options)
      BY <2>2, ReportedRow
    <3> QED BY <3>1 DEF ServersOwn
  <2>3. CASE e \in If(BadChoices(q.shirt.choices) \/ Len(q.shirt.choices) < 3, "choices")
    <3>1. BadChoices(q.shirt.choices) \/ Len(q.shirt.choices) < 3
      BY <2>3 DEF If
    <3>2. PICK l : l = Len(q.shirt.choices)
      OBVIOUS
    <3>3. l \in Nat /\ l >= 3
      BY <1>0, <3>2, ChoicesFacts DEF ShirtAt
    <3>4. ~ (l < 3)
      BY <3>3
    <3> QED BY <1>0, <3>1, <3>2, <3>4
  <2>4. CASE e \in If(Cardinality(q.shirt.existing) > MAX_PHOTOS, "existing")
    BY <1>1, <2>4 DEF If, ServersOwn
  <2>5. CASE e \in If(q.disclaimer = "long", "disclaimer")
    BY <2>5 DEF If, ServersOwn
  <2>6. CASE e \in If(q.shirt.label \in {"", "glyph"}, "shirt label")
    BY <1>0, <2>6 DEF If, ServersOwn
  <2>7. CASE e \in If(q.shirt.new \cap BadFiles # {}, "file")
    BY <2>7 DEF If, ServersOwn
  <2>8. CASE e \in If(Cardinality(q.shirt.new) > MAX_PHOTOS, "photos")
    BY <1>0, <2>8 DEF If
  <2> QED BY <2>1, <2>2, <2>3, <2>4, <2>5, <2>6, <2>7, <2>8
<1>3. CASE e \in photoRules(q, known)
  <2>1. \/ e \in If(~ q.shirt.existing \subseteq known, "existing")
        \/ e \in If(\/ Cardinality(q.shirt.existing) + Cardinality(q.shirt.new) > MAX_PHOTOS
                   \/ (known \cap q.shirt.existing) \cup q.shirt.new \in Heavy, "photos")
        \/ e \in If(~ q.shirt.on /\ q.shirt.existing \cup q.shirt.new # {}, "enabled")
        \/ e \in If(q.shirt.on /\ ~ Reserved \subseteq Images(q.shirt.choices), "choices")
        \/ e \in If(q.disclaimer = "blank", "disclaimer")
    BY <1>3 DEF photoRules
  <2>2. CASE e \in If(~ q.shirt.existing \subseteq known, "existing")
    <3>1. ~ q.shirt.existing \subseteq known /\ e = Elsewhere("existing")
      BY <2>2 DEF If
    <3> QED BY <3>1 DEF ServersOwn
  <2>3. CASE e \in If(\/ Cardinality(q.shirt.existing) + Cardinality(q.shirt.new) > MAX_PHOTOS
                     \/ (known \cap q.shirt.existing) \cup q.shirt.new \in Heavy, "photos")
    <3>1. /\ \/ Cardinality(q.shirt.existing) + Cardinality(q.shirt.new) > MAX_PHOTOS
             \/ (known \cap q.shirt.existing) \cup q.shirt.new \in Heavy
          /\ e = Elsewhere("photos")
      BY <2>3 DEF If
    <3> QED BY <1>1, <3>1 DEF ServersOwn
  <2>4. CASE e \in If(~ q.shirt.on /\ q.shirt.existing \cup q.shirt.new # {}, "enabled")
    <3>1. ~ q.shirt.on /\ q.shirt.existing \cup q.shirt.new # {} /\ e = Elsewhere("enabled")
      BY <2>4 DEF If
    <3>2. q.shirt.existing # {}
      BY <1>0, <3>1
    <3> QED BY <3>1, <3>2 DEF ServersOwn
  <2>5. CASE e \in If(q.shirt.on /\ ~ Reserved \subseteq Images(q.shirt.choices), "choices")
    BY <1>0, <2>5 DEF If
  <2>6. CASE e \in If(q.disclaimer = "blank", "disclaimer")
    BY <1>0, <2>6 DEF If
  <2> QED BY <2>1, <2>2, <2>3, <2>4, <2>5, <2>6
<1> QED BY <1>2, <1>3 DEF rules

(* While a save is in progress and no row has moved, every row stays.      *)
LEMMA RowsStay ==
  ASSUME DraftOK, DialogOK, BuilderNext, visit # NoVisit, page' = "open", ~ mixed', visit' # NoVisit
  PROVE  page = "open" /\ ~ mixed /\ SameRows(rows, rows')
<1>0. FormOK(rows) /\ nextId \in Nat /\ (\A i \in DOMAIN rows : rows[i].id < nextId) /\ mixed \in BOOLEAN
  BY DEF DraftOK
<1>1. SameRows(rows, rows)
  BY DEF SameRows
<1>2. CASE EditRows
  <2>1. page' = page
    BY <1>2 DEF EditRows
  <2>2. \/ SameRows(rows, rows') /\ UNCHANGED mixed
        \/ mixed' = (mixed \/ Saving)
    BY <1>0, <1>2, EditRowsKeeps
  <2>3. mixed' # (mixed \/ Saving)
    BY DEF Saving
  <2>4. SameRows(rows, rows') /\ mixed' = mixed
    BY <2>2, <2>3
  <2> QED BY <2>1, <2>4
<1>3. CASE confirmRemove
  <2>1. mixed' = (mixed \/ Saving \/ dialog.errors # errors)
    BY <1>3 DEF confirmRemove
  <2>2. Saving
    BY DEF Saving
  <2> QED BY <2>1, <2>2
<1>4. CASE Open \/ Leave \/ Answered \/ confirmSave
  <2>1. ~ Open
    BY DEF Open, Saving
  <2>2. ~ Leave
    BY DEF Leave
  <2>3. ~ Answered
    BY DEF Answered
  <2>4. ~ confirmSave
    BY DEF confirmSave, DialogOK
  <2> QED BY <1>4, <2>1, <2>2, <2>3, <2>4
<1>5. CASE Handle \/ HandleOther \/ Publish \/ OtherTab \/ removeField \/ closeDialog \/ EditShirt \/ toggleRequirement
           \/ editDisclaimer \/ saveForm
  <2>1. UNCHANGED <<page, mixed, rows>>
    BY <1>5 DEF Handle, HandleOther, Publish, OtherTab, removeField, closeDialog, EditShirt, enableShirt,
         addChoice, removeChoice, editChoice, move, onShirtChange, toggleRequirement, editDisclaimer,
         saveForm, draft
  <2> QED BY <1>1, <2>1
<1> QED BY <1>2, <1>3, <1>4, <1>5 DEF BuilderNext

LEMMA VisitStep ==
  ASSUME SavedOK, DraftOK, DialogOK, VisitOK, BuilderNext
  PROVE  VisitOK'
<1>0. uploads \in Nat /\ uploads' \in Nat /\ uploads <= uploads'
  BY UploadsStep
<1>1. CASE visit' = NoVisit
  BY <1>1 DEF VisitOK, NoVisit
<1>2. ASSUME visit # NoVisit, visit' # NoVisit, visit'.data = visit.data, RequestAt(visit', uploads'),
             visit'.state = "sent" => visit.state = "sent",
             visit'.state = "invalid" => AtRows(visit'.errors, visit.data.rows)
      PROVE  VisitOK'
  <2>1. /\ visit.state = "sent" => Checked(visit.data)
        /\ page = "open" /\ ~ mixed => SameRows(visit.data.rows, rows)
    BY <1>2 DEF VisitOK
  <2>2. ASSUME page' = "open", ~ mixed' PROVE SameRows(visit'.data.rows, rows')
    <3>1. page = "open" /\ ~ mixed /\ SameRows(rows, rows')
      BY <1>2, <2>2, RowsStay
    <3> QED BY <1>2, <2>1, <3>1 DEF SameRows
  <2>3. visit'.state = "sent" => Checked(visit'.data)
    BY <1>2, <2>1
  <2> QED BY <1>2, <2>2, <2>3 DEF VisitOK, RequestAt, ShirtAt, Shirts, FormOK, ChoicesOK, AtRows, SameRows,
        Checked, validateRegistrationForm, validateTshirt, Off
<1>3. CASE Handle
  <2>1. visit # NoVisit /\ update(visit, visit') /\ uploads' = uploads
    BY <1>3 DEF Handle, NoVisit
  <2>2. PICK r, s : r = visit /\ s = visit'
    OBVIOUS
  <2>3. RequestAt(r, uploads) /\ update(r, s) /\ (r.state = "sent" => Checked(r.data))
    BY <2>1, <2>2 DEF VisitOK
  <2>4. RequestAt(s, uploads) /\ s.data = r.data
    BY <2>3, UpdateKeeps DEF SavedOK
  <2>5. s.state # "sent" /\ s.state # "none"
    <3>1. s.state = "sent" => FALSE
      BY <2>3, Steps, MovedParts
    <3> QED BY <2>3, <3>1, PhaseFacts
  <2>6. ASSUME s.state = "invalid" PROVE AtRows(s.errors, r.data.rows)
    <3>1. r.state = "sent" /\ s.errors = rules(r.data, Listed)
      BY <2>3, <2>6, Steps, MovedParts
    <3>2. PICK q : q = r.data
      OBVIOUS
    <3>3. Checked(q) /\ ShirtAt(q.shirt, uploads)
      BY <2>3, <3>1, <3>2 DEF RequestAt
    <3>4. ASSUME NEW e \in rules(q, Listed), e.row # 0
          PROVE  e.row \in DOMAIN q.rows /\ q.rows[e.row].id = e.of
      <4>1. ServersOwn(q, Listed, e)
        BY <1>0, <3>3, Reported
      <4>2. \A part : Elsewhere(part).row = 0
        BY DEF Elsewhere, Key
      <4>3. PICK i \in DOMAIN q.rows, part \in {"label", "options"} : e = Key(i, part, q.rows[i].id)
        BY <3>4, <4>1, <4>2 DEF ServersOwn
      <4> QED BY <4>3 DEF Key
    <3> QED BY <3>1, <3>2, <3>4 DEF AtRows
  <2> QED BY <1>2, <2>1, <2>2, <2>4, <2>5, <2>6 DEF NoVisit
<1>4. CASE confirmSave
  <2>1. /\ visit' = [state |-> "sent", errors |-> {}, known |-> {},
                     data |-> [rows |-> rows, shirt |-> shirt, disclaimer |-> disclaimer, shown |-> photos]]
        /\ UNCHANGED <<rows, uploads>> /\ dialog.ask = "save"
    BY <1>4 DEF confirmSave, Save, database, draft
  <2>2. clientErrors = {} /\ disclaimer # "blank"
    BY <2>1 DEF DialogOK, NoDialog
  <2>3. /\ visit'.state = "sent" /\ visit'.known = {}
        /\ visit'.data = [rows |-> rows, shirt |-> shirt, disclaimer |-> disclaimer, shown |-> photos]
        /\ visit' = [state |-> visit'.state, errors |-> visit'.errors, known |-> visit'.known, data |-> visit'.data]
    BY <2>1
  <2>4. visit'.data.rows = rows /\ visit'.data.shirt = shirt /\ visit'.data.disclaimer = disclaimer
        /\ visit'.data.shown = photos
    BY <2>3
  <2>5. FormOK(rows) /\ ShirtAt(shirt, uploads) /\ Off(shirt) /\ disclaimer \in Disclaimers
    BY DEF DraftOK
  <2>6. Checked(visit'.data)
    BY <2>2, <2>4, <2>5 DEF Checked, clientErrors
  <2>7. RequestAt(visit', uploads')
    BY <2>1, <2>3, <2>4, <2>5 DEF RequestAt, States
  <2>8. SameRows(visit'.data.rows, rows')
    BY <2>1, <2>4 DEF SameRows
  <2> QED BY <2>3, <2>6, <2>7, <2>8 DEF VisitOK, RequestAt, ShirtAt, Shirts, FormOK, ChoicesOK, AtRows, SameRows,
        Checked, validateRegistrationForm, validateTshirt, Off
<1>5. CASE visit' = visit
  <2>1. CASE visit # NoVisit
    <3>1. RequestAt(visit, uploads') /\ (visit.state = "invalid" => AtRows(visit.errors, visit.data.rows))
      BY <1>0, <2>1, Grows DEF VisitOK
    <3> QED BY <1>2, <1>5, <2>1, <3>1
  <2> QED BY <1>1, <1>5, <2>1
<1>6. CASE HandleOther \/ Publish \/ OtherTab \/ Open \/ Leave \/ EditRows \/ removeField \/ confirmRemove
           \/ closeDialog \/ EditShirt \/ toggleRequirement \/ editDisclaimer \/ saveForm
  <2>1. visit' = visit
    BY <1>6 DEF HandleOther, Publish, OtherTab, Open, Leave, EditRows, removeField, confirmRemove, closeDialog,
         EditShirt, enableShirt, addChoice, removeChoice, editChoice, move, onShirtChange,
         toggleRequirement, editDisclaimer, saveForm
  <2> QED BY <1>5, <2>1
<1>7. CASE Answered
  BY <1>1, <1>7 DEF Answered
<1> QED BY <1>3, <1>4, <1>6, <1>7 DEF BuilderNext

LEMMA ErrorsStep ==
  ASSUME DraftOK, DialogOK, VisitOK, ErrorsOK, BuilderNext
  PROVE  ErrorsOK'
<1> SUFFICES ASSUME page' = "open", ~ mixed' PROVE AtRows(errors', rows')
  BY DEF ErrorsOK, AtRows
<1>0. FormOK(rows) /\ nextId \in Nat /\ (\A i \in DOMAIN rows : rows[i].id < nextId) /\ DOMAIN rows = 1..Len(rows)
  BY FormFacts DEF DraftOK
<1>1. ASSUME \A e \in errors' : e.row = 0 PROVE AtRows(errors', rows')
  BY <1>1 DEF AtRows
<1>2. ASSUME page = "open", ~ mixed, rows' = rows, \A e \in errors' : e \in errors \/ e.row = 0
      PROVE  AtRows(errors', rows')
  <2>1. AtRows(errors, rows)
    BY <1>2 DEF ErrorsOK
  <2> QED BY <1>2, <2>1 DEF AtRows
<1>3. CASE Open \/ EditShirt
  <2>1. errors' = {}
    <3>1. CASE EditShirt
      BY <3>1, EditShirtKeeps
    <3> QED BY <1>3, <3>1 DEF Open
  <2> QED BY <1>1, <2>1
<1>4. CASE EditRows
  <2>1. /\ FormOK(rows')
        /\ \/ SameRows(rows, rows') /\ errors' \subseteq errors /\ UNCHANGED mixed
           \/ \A e \in errors' : e.row = 0
    BY <1>0, <1>4, EditRowsKeeps
  <2>2. CASE SameRows(rows, rows') /\ errors' \subseteq errors /\ UNCHANGED mixed
    <3>1. page = "open" /\ ~ mixed
      BY <1>4, <2>2 DEF EditRows
    <3>2. AtRows(errors, rows)
      BY <3>1 DEF ErrorsOK
    <3>3. DOMAIN rows' = 1..Len(rows')
      BY <2>1, FormFacts
    <3> QED BY <1>0, <2>2, <3>2, <3>3, SameRowsKeep
  <2> QED BY <1>1, <2>1, <2>2
<1>5. CASE confirmRemove
  <2>1. mixed' = (mixed \/ Saving \/ dialog.errors # errors)
        /\ errors' = errors \ {e \in dialog.errors : e \in OfRows(dialog.errors)}
    BY <1>5 DEF confirmRemove, clearServerErrors
  <2>2. dialog.errors = errors
    BY <2>1
  <2> QED BY <1>1, <2>1, <2>2 DEF OfRows
<1>6. CASE toggleRequirement \/ editDisclaimer \/ saveForm
  <2>1. UNCHANGED <<page, mixed, rows>>
    BY <1>6 DEF toggleRequirement, editDisclaimer, saveForm, draft
  <2>2. \A e \in errors' : e \in errors \/ e = Elsewhere("disclaimer")
    BY <1>6 DEF toggleRequirement, editDisclaimer, saveForm, clearServerErrors
  <2>3. Elsewhere("disclaimer").row = 0
    BY DEF Elsewhere, Key
  <2> QED BY <1>2, <2>1, <2>2, <2>3
<1>7. CASE confirmSave
  <2>1. mixed' = (mixed /\ errors # {}) /\ UNCHANGED <<page, rows, errors>>
    BY <1>7 DEF confirmSave, draft
  <2>2. CASE errors = {}
    BY <1>1, <2>1, <2>2
  <2>3. CASE ~ mixed
    BY <1>2, <2>1, <2>3
  <2> QED BY <2>1, <2>2, <2>3
<1>8. CASE Answered
  <2>1. UNCHANGED <<rows, mixed>>
    BY <1>8 DEF Answered, draft
  <2>2. CASE UNCHANGED <<page, errors>>
    BY <1>2, <2>1, <2>2
  <2>3. CASE visit.state = "invalid" /\ page = "open" /\ errors' = visit.errors
    <3>1. visit # NoVisit
      BY <2>3 DEF NoVisit
    <3>2. AtRows(visit.errors, visit.data.rows) /\ SameRows(visit.data.rows, rows) /\ FormOK(visit.data.rows)
      BY <2>1, <2>3, <3>1 DEF VisitOK, RequestAt
    <3>3. PICK f : f = visit.data.rows
      OBVIOUS
    <3>4. DOMAIN f = 1..Len(f)
      BY <3>2, <3>3, FormFacts
    <3>5. AtRows(errors', f) /\ SameRows(f, rows)
      BY <2>3, <3>2, <3>3
    <3> QED BY <1>0, <2>1, <3>4, <3>5, SameRowsKeep
  <2> QED BY <1>8, <2>2, <2>3 DEF Answered
<1>9. CASE Handle \/ HandleOther \/ Publish \/ OtherTab \/ Leave \/ removeField \/ closeDialog
  <2>1. UNCHANGED <<mixed, rows, errors>> /\ page = "open"
    BY <1>9 DEF Handle, HandleOther, Publish, OtherTab, Leave, removeField, closeDialog, draft
  <2> QED BY <1>2, <2>1
<1> QED BY <1>3, <1>4, <1>5, <1>6, <1>7, <1>8, <1>9 DEF BuilderNext

LEMMA OnlyServerKnowsStep ==
  ASSUME DraftOK, VisitOK, OnlyServerKnows, BuilderNext
  PROVE  OnlyServerKnows'
<1>1. CASE visit' = visit
  BY <1>1 DEF OnlyServerKnows, Images
<1>2. CASE Handle
  <2> SUFFICES ASSUME visit'.state = "invalid", NEW e \in visit'.errors
               PROVE  LET q == visit'.data IN
                      \/ e.part = "label" /\ q.rows[e.row].label \in ServerRefuses \ PageRefuses
                      \/ e.part = "options" /\ "long" \in Images(q.rows[e.row].options)
                      \/ e.part = "disclaimer" /\ q.disclaimer = "long"
                      \/ e.part = "shirt label" /\ q.shirt.label = "glyph"
                      \/ e.part = "file" /\ q.shirt.new \cap BadFiles # {}
                      \/ /\ e.part \in {"existing", "photos", "enabled"}
                         /\ \/ ~ q.shirt.existing \subseteq visit'.known \cap q.shown
                            \/ ~ q.shirt.on /\ q.shirt.existing # {}
    BY DEF OnlyServerKnows, Images
  <2>1. visit # NoVisit /\ update(visit, visit')
    BY <1>2 DEF Handle, NoVisit
  <2>2. PICK r, s : r = visit /\ s = visit'
    OBVIOUS
  <2>3. RequestAt(r, uploads) /\ update(r, s) /\ (r.state = "sent" => Checked(r.data)) /\ uploads \in Nat
    BY <2>1, <2>2 DEF VisitOK, DraftOK
  <2>4. r.state = "sent" /\ s.errors = rules(r.data, Listed) /\ s.known = Listed /\ s.data = r.data
    BY <2>2, <2>3, Steps, MovedParts
  <2>5. PICK q : q = r.data
    OBVIOUS
  <2>6. ServersOwn(q, Listed, e)
    BY <2>2, <2>3, <2>4, <2>5, Reported DEF RequestAt
  <2>7. q = visit'.data /\ visit'.known = Listed
    BY <2>2, <2>4, <2>5
  <2>8. PICK known : known = Listed
    OBVIOUS
  <2>9. ServersOwn(q, known, e) /\ visit'.known = known
    BY <2>6, <2>7, <2>8
  <2> QED BY <2>7, <2>9, OwnParts
<1>3. CASE confirmSave \/ Answered
  <2>1. visit'.state # "invalid"
    BY <1>3 DEF confirmSave, Save, Answered, NoVisit
  <2> QED BY <2>1 DEF OnlyServerKnows, Images
<1>4. CASE HandleOther \/ Publish \/ OtherTab \/ Open \/ Leave \/ EditRows \/ removeField \/ confirmRemove
           \/ closeDialog \/ EditShirt \/ toggleRequirement \/ editDisclaimer \/ saveForm
  <2>1. visit' = visit
    BY <1>4 DEF HandleOther, Publish, OtherTab, Open, Leave, EditRows, removeField, confirmRemove, closeDialog,
         EditShirt, enableShirt, addChoice, removeChoice, editChoice, move, onShirtChange,
         toggleRequirement, editDisclaimer, saveForm
  <2> QED BY <1>1, <2>1
<1> QED BY <1>2, <1>3, <1>4 DEF BuilderNext

-----------------------------------------------------------------------------
(* The theorems about the builder.                                         *)

LEMMA BuilderInvStep == BuilderInv /\ [Next]_vars => BuilderInv'
<1> SUFFICES ASSUME BuilderInv, [Next]_vars PROVE BuilderInv'
  OBVIOUS
<1>0. SavedOK /\ DraftOK /\ TabOK /\ PhotosOK /\ DialogOK /\ VisitOK /\ ErrorsOK /\ OnlyServerKnows
  BY DEF BuilderInv
<1>1. CASE BuilderNext
  <2>1. SavedOK' /\ TabOK'
    BY <1>0, <1>1, SaveStep
  <2>2. DraftOK'
    BY <1>0, <1>1, DraftStep
  <2>3. PhotosOK'
    BY <1>0, <1>1, PhotosStep
  <2>4. DialogOK'
    BY <1>0, <1>1, DialogStep
  <2>5. VisitOK'
    BY <1>0, <1>1, VisitStep
  <2>6. ErrorsOK' /\ OnlyServerKnows'
    BY <1>0, <1>1, ErrorsStep, OnlyServerKnowsStep
  <2> QED BY <2>1, <2>2, <2>3, <2>4, <2>5, <2>6 DEF BuilderInv
<1>2. CASE UNCHANGED builderVars
  <2>1. UNCHANGED <<saved, stored, revived, orphans, locked, page, rows, nextId, shirt, disclaimer, contact,
                    photos, errors, attempted, dialog, visit, other, otherTab, uploads, gestures, mixed>>
    BY <1>2 DEF builderVars, database, files, draft
  <2>2. SavedOK'
    BY <1>0, <2>1 DEF SavedOK
  <2>3. DraftOK'
    BY <1>0, <2>1 DEF DraftOK
  <2>4. TabOK'
    BY <1>0, <2>1 DEF TabOK
  <2>5. Listed' = Listed /\ Mine' = Mine
    BY <2>1 DEF Listed, Mine
  <2>6. PhotosOK'
    BY <1>0, <2>1, <2>5 DEF PhotosOK
  <2>7. clientErrors' = clientErrors
    BY <2>1 DEF clientErrors, validateRegistrationForm, validateTshirt
  <2>8. DialogOK'
    BY <1>0, <2>1, <2>7 DEF DialogOK
  <2>9. VisitOK'
    BY <1>0, <2>1 DEF VisitOK
  <2>10. ErrorsOK'
    BY <1>0, <2>1 DEF ErrorsOK
  <2>11. OnlyServerKnows'
    BY <1>0, <2>1 DEF OnlyServerKnows, Images
  <2> QED BY <2>2, <2>3, <2>4, <2>6, <2>8, <2>9, <2>10, <2>11 DEF BuilderInv
<1> QED BY <1>1, <1>2 DEF Next, vars

LEMMA BuilderInvInit == Init => BuilderInv
<1> SUFFICES ASSUME Init PROVE BuilderInv
  OBVIOUS
<1>b. MAX_FIELDS \in Nat \ {0} /\ MaxUploads \in Nat \ {0} /\ MaxGestures \in Nat
  BY BuilderAssumption
<1>0. /\ saved \in Forms /\ stored = Listed /\ locked = FALSE /\ revived = {} /\ orphans = {}
      /\ page = "closed" /\ rows = <<>> /\ nextId = 1 /\ shirt = DefaultShirt
      /\ disclaimer = "default" /\ contact = TRUE /\ photos = {} /\ errors = {}
      /\ attempted = FALSE /\ dialog = NoDialog /\ visit = NoVisit /\ other = NoVisit /\ otherTab = NoTab
      /\ uploads = 1 /\ gestures = 0 /\ mixed = FALSE
  BY DEF Init, BuilderInit
<1>1. FormOK(<<>>)
  <2>1. <<>> \in Seq(Fields) /\ Len(<<>>) = 0
    BY EmptySeq
  <2>2. 0 <= MAX_FIELDS
    BY <1>b
  <2> QED BY <2>1, <2>2 DEF FormOK
<1>2. PICK c : c = <<"S", "M", "L">>
  OBVIOUS
<1>3. ChoicesOK(c) /\ c \in Seq(Sizes) /\ Len(c) = 3 /\ "T-shirt Size" \in ShirtLabels
  BY <1>2, DefaultChoices DEF ChoicesOK, ShirtLabels
<1>4. FormAt(saved, 1)
  <2>1. PICK l : l = CHOOSE x \in Labels : x \notin PageRefuses \cup ServerRefuses
    OBVIOUS
  <2>2. l \in Labels
    BY <2>1, BuilderAssumption
  <2>3. PICK row : row = [id |-> 1, label |-> l, type |-> "select", options |-> <<"x", "x">>]
    OBVIOUS
  <2>4. row \in Fields
    <3>1. "x" \in Options /\ "select" \in Types
      BY DEF Options, Types
    <3>2. <<"x", "x">> \in Seq(Options)
      BY <3>1
    <3> QED BY <2>2, <2>3, <3>1, <3>2 DEF Fields
  <2>5. FormOK(<<row>>)
    <3>1. <<row>> \in Seq(Fields) /\ Len(<<row>>) = 1
      BY <2>4
    <3>2. 1 <= MAX_FIELDS
      BY <1>b
    <3> QED BY <3>1, <3>2 DEF FormOK
  <2>6. PICK t : t = [label |-> "T-shirt Size", choices |-> c, photos |-> {1}]
    OBVIOUS
  <2>7. \/ saved = [rows |-> <<>>, disclaimer |-> "default", tshirt |-> NoShirt]
        \/ saved = [rows |-> <<row>>, disclaimer |-> "text", tshirt |-> t]
    BY <1>0, <1>2, <2>1, <2>3, <2>6 DEF Forms
  <2>8. CASE saved = [rows |-> <<>>, disclaimer |-> "default", tshirt |-> NoShirt]
    <3>1. saved.rows = <<>> /\ saved.disclaimer = "default" /\ saved.tshirt = NoShirt
      BY <2>8
    <3>2. Photos(saved.tshirt) = {}
      BY <3>1 DEF Photos
    <3> QED BY <1>1, <2>8, <3>1, <3>2 DEF FormAt, Disclaimers
  <2>9. CASE saved = [rows |-> <<row>>, disclaimer |-> "text", tshirt |-> t]
    <3>1. /\ t # NoShirt /\ t.label = "T-shirt Size" /\ t.choices = c /\ t.photos = {1}
          /\ t = [label |-> t.label, choices |-> t.choices, photos |-> t.photos]
      BY <2>6 DEF NoShirt
    <3>2. saved.rows = <<row>> /\ saved.disclaimer = "text" /\ saved.tshirt = t
      BY <2>9
    <3>3. Photos(saved.tshirt) \subseteq 1..1
      <4>1. Photos(saved.tshirt) = {1}
        BY <3>1, <3>2 DEF Photos
      <4>2. {1} \subseteq 1..1
        OBVIOUS
      <4> QED BY <4>1, <4>2
    <3>4. saved = [rows |-> saved.rows, disclaimer |-> saved.disclaimer, tshirt |-> saved.tshirt]
      BY <2>9
    <3> QED BY <1>3, <2>5, <3>1, <3>2, <3>3, <3>4 DEF FormAt, Disclaimers
  <2> QED BY <2>7, <2>8, <2>9
<1>5. SavedOK
  <2>1. Listed \subseteq 1..1
    BY <1>4 DEF FormAt, Listed
  <2> QED BY <1>0, <1>4, <2>1 DEF SavedOK
<1>6. DraftOK
  <2>1. uploads \in 1..MaxUploads /\ gestures \in 0..MaxGestures
    BY <1>b, <1>0
  <2>2. FormOK(rows) /\ nextId \in Nat /\ \A i \in DOMAIN rows : rows[i].id < nextId
    <3>1. DOMAIN <<>> = {}
      OBVIOUS
    <3> QED BY <1>0, <1>1, <3>1
  <2>3. shirt = [on |-> FALSE, label |-> "T-shirt Size", choices |-> c, existing |-> {}, new |-> {}]
    BY <1>0, <1>2 DEF DefaultShirt
  <2>4. PICK n : n = uploads
    OBVIOUS
  <2>5. ShirtAt(shirt, n)
    <3>1. shirt \in Shirts(n)
      BY <1>3, <2>3 DEF Shirts
    <3> QED BY <1>3, <2>3, <3>1 DEF ShirtAt
  <2>6. Off(shirt)
    <3>1. Len(c) <= 3
      <4>1. PICK l : l = Len(c)
        OBVIOUS
      <4>2. l = 3
        BY <1>3, <4>1
      <4>3. l <= 3
        BY <4>2
      <4> QED BY <4>1, <4>3
    <3> QED BY <2>3, <3>1 DEF Off
  <2>7. disclaimer \in Disclaimers
    BY <1>0 DEF Disclaimers
  <2> QED BY <1>0, <2>1, <2>2, <2>4, <2>5, <2>6, <2>7 DEF DraftOK
<1>7. PhotosOK
  <2>1. UnderWay(NoVisit) = {} /\ NoVisit.state \notin {"sent", "bound", "tidying"}
    BY DEF UnderWay, NoVisit
  <2>2. Mine = {} /\ Chosen(NoVisit) = {} /\ Read(NoVisit) = {}
    BY <1>0, <2>1 DEF Mine, Chosen, Read
  <2> QED BY <1>0, <2>1, <2>2 DEF PhotosOK, Filed, Apart
<1>8. TabOK /\ VisitOK /\ ErrorsOK
  BY <1>0 DEF TabOK, VisitOK, ErrorsOK
<1>9. DialogOK /\ OnlyServerKnows
  BY <1>0 DEF DialogOK, NoDialog, OnlyServerKnows, NoVisit
<1> QED BY <1>5, <1>6, <1>7, <1>8, <1>9 DEF BuilderInv

LEMMA BuilderAlways == Spec => []BuilderInv
BY BuilderInvInit, BuilderInvStep, PTL DEF Spec

LEMMA FormOfItsType == BuilderInv => BuilderTypeOK /\ ReservedKept
<1> SUFFICES ASSUME BuilderInv PROVE BuilderTypeOK /\ ReservedKept
  OBVIOUS
<1>0. SavedOK /\ DraftOK /\ DialogOK /\ VisitOK /\ TabOK
  BY DEF BuilderInv
<1>1. stored \cup revived \cup orphans \subseteq 1..MaxUploads
  <2>1. stored \cup revived \cup orphans \subseteq 1..uploads /\ uploads \in 1..MaxUploads
    BY <1>0 DEF SavedOK, DraftOK
  <2>2. MaxUploads \in Nat
    BY BuilderAssumption
  <2>3. 1..uploads \subseteq 1..MaxUploads
    BY <2>1, <2>2
  <2> QED BY <2>1, <2>3
<1>2. dialog.ask \in {"nothing", "save", "remove"}
  BY <1>0 DEF DialogOK, NoDialog
<1>3. ASSUME NEW r, r # NoVisit => RequestAt(r, uploads) PROVE r.state \in States
  BY <1>3 DEF RequestAt, NoVisit, States
<1>4. {visit.state, other.state} \subseteq States
  BY <1>0, <1>3 DEF VisitOK, TabOK
<1>5. shirt.existing \cup shirt.new \subseteq 1..uploads
  BY <1>0 DEF DraftOK, ShirtAt, Shirts
<1>6. Len(rows) <= MAX_FIELDS
  BY <1>0 DEF DraftOK, FormOK
<1>7. BuilderTypeOK
  BY <1>0, <1>1, <1>2, <1>4, <1>5, <1>6 DEF BuilderTypeOK, DraftOK
<1>8. ReservedKept
  BY <1>0 DEF ReservedKept, DraftOK, ShirtAt, ChoicesOK
<1> QED BY <1>7, <1>8

(* Whatever two tabs save at the same time, and wherever a save fails: a   *)
(* photo that the form lists has its file, unless a save that had read the *)
(* photos earlier listed it again; and a file that the form does not list  *)
(* belongs to a save under way, unless its deletion failed or the save     *)
(* that dropped it had never read it.                                      *)
THEOREM PhotosAreStored == Spec => []PhotosStored
<1>1. BuilderInv => PhotosStored
  BY DEF BuilderInv, PhotosOK, Filed, PhotosStored
<1> QED BY <1>1, BuilderAlways, PTL

(* A save that passed the rules of the page is sent back only for what the *)
(* page leaves to the server - labels it knows to be no words, texts and   *)
(* options that are too long, files that are too big or no pictures - and  *)
(* for photos of the draft that another save has removed from the list.    *)
THEOREM OnlyServerEverKnows == Spec => []OnlyServerKnows
<1>1. BuilderInv => OnlyServerKnows
  BY DEF BuilderInv
<1> QED BY <1>1, BuilderAlways, PTL

(* The form of the page keeps its reserved sizes and its limits; and the   *)
(* errors that the server reported stay at their rows, unless rows moved   *)
(* while the answer was due.                                               *)
THEOREM ErrorsStayOnTheirRow == Spec => []ErrorsOnOwnRow
<1>1. BuilderInv => ErrorsOnOwnRow
  <2> SUFFICES ASSUME BuilderInv PROVE ErrorsOnOwnRow
    OBVIOUS
  <2>1. BuilderTypeOK /\ ReservedKept
    BY FormOfItsType
  <2>2. ErrorsOK
    BY DEF BuilderInv
  <2> QED BY <2>1, <2>2 DEF ErrorsOnOwnRow, ErrorsOK, AtRows
<1> QED BY <1>1, BuilderAlways, PTL
=============================================================================
