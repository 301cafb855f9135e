------------------------------- MODULE Intake -------------------------------
(***************************************************************************)
(* How a submission becomes a participant and a registration: the public   *)
(* form (RegistrationVerificationService::finalize), the desk (walkIn,     *)
(* encodePaper, ChurchRegistrationController::store), batches of paper     *)
(* forms (bulkWalkIn), names added to a church service or fellowship, and  *)
(* the correction of a participant in the monitor.                         *)
(*                                                                         *)
(* Every submission here carries the same name, which is when contacts and *)
(* birthdays decide who is who.  A transaction that holds the locks it     *)
(* needs is one action; it waits for the rows others have locked, and      *)
(* InnoDB ends a cycle of waits by rolling back one of them.               *)
(***************************************************************************)
EXTENDS Naturals, Sequences, FiniteSets

CONSTANTS
  Requests,      \* requests in progress at one time
  Events,
  Occurrences,   \* services and fellowships of a date
  Emails, Phones, Birthdays,
  Kinds,         \* the intakes in use
  MaxRequests,   \* bound on the requests started
  MaxRows,       \* bound on the rows of a batch
  NONE           \* no contact, no birthday

ASSUME IntakeAssumption ==
  /\ Kinds \subseteq {"form", "desk", "batch", "service", "edit"}
  /\ NONE \notin Emails \cup Phones \cup Birthdays
  /\ MaxRequests \in Nat /\ MaxRows \in Nat \ {0}

VARIABLES
  pool,        \* the pool of participants: running or church events
  people,      \* its participants, with (history) the number of participants
               \* that matched when each was inserted
  regs,        \* the registrations, with (history) the intake and the number
               \* of exact repeats among the others when each was inserted
  eventLock,   \* eventLock[e]: the transactions holding the row of e, an event
               \* or an occurrence
  poolLock,    \* the batch transaction holding the row of the pool
  req,         \* req[r]: where request r is, and what it submits and read
  started,     \* requests started so far
  overlapped,  \* history: the intakes of requests in progress together
  cutShort     \* history: a batch ended with rows it had not looked at

vars ==
  <<pool, people, regs, eventLock, poolLock, req, started, overlapped, cutShort>>

Contacts == {"email", "phone"}
Identity == [email : Emails \cup {NONE}, phone : Phones \cup {NONE},
             birthday : Birthdays \cup {NONE}]
Nobody == [email |-> NONE, phone |-> NONE, birthday |-> NONE]
Reachable == {who \in Identity : \E c \in Contacts : who[c] # NONE}

Idle == [pc |-> "idle", kind |-> "none", event |-> NONE, who |-> Nobody,
         id |-> Nobody, pid |-> 0, rows |-> 0, tries |-> 0]

TypeOK ==
  /\ people \in Seq([who : Identity, among : Nat])
  /\ Len(people) =< MaxRequests * MaxRows + 1
  /\ \A g \in regs :
       /\ DOMAIN g = {"event", "pid", "who", "active", "by", "among"}
       /\ g.event \in Events /\ g.pid \in DOMAIN people /\ g.who \in Identity
       /\ g.active \in BOOLEAN /\ g.by \in Kinds \cup {"legacy"}
  /\ \A g, h \in regs : g.event = h.event /\ g.pid = h.pid => g = h
  /\ eventLock \in [Events \cup Occurrences -> SUBSET Requests]
  /\ \A e \in DOMAIN eventLock : Cardinality(eventLock[e]) =< 1
  /\ poolLock \subseteq Requests /\ Cardinality(poolLock) =< 1
  /\ req \in [Requests ->
       [pc : {"idle", "begin", "event", "row", "found"},
        kind : Kinds \cup {"none"},
        event : Events \cup Occurrences \cup {NONE},
        who : Identity, id : Identity, pid : 0 .. Len(people),
        rows : 0 .. MaxRows, tries : 0 .. 3]]
  /\ pool \in {"running", "church"}
  /\ started \in 0 .. MaxRequests
  /\ overlapped \subseteq Kinds /\ cutShort \in BOOLEAN

(* Nobody is known, or one person whose registration has been removed.     *)
Init ==
  /\ \/ people = <<>> /\ regs = {}
     \/ \E who \in Reachable, e \in Events :
          /\ people = <<[who |-> who, among |-> 0]>>
          /\ regs = {[event |-> e, pid |-> 1, who |-> who, active |-> FALSE,
                      by |-> "legacy", among |-> 0]}
  /\ eventLock = [e \in Events \cup Occurrences |-> {}] /\ poolLock = {}
  /\ req = [r \in Requests |-> Idle]
  /\ pool \in {"running", "church"}
  /\ started = 0 /\ overlapped = {} /\ cutShort = FALSE

-----------------------------------------------------------------------------
(* Participant::findCandidatesByComposite: the same name, one contact in   *)
(* common, and no two known birthdays that differ.                         *)
Shares(a, b) == \E c \in Contacts : a[c] # NONE /\ a[c] = b[c]
Agrees(a, b) == NONE \in {a.birthday, b.birthday} \/ a.birthday = b.birthday

findCandidatesByComposite(who) ==
  {p \in DOMAIN people : Shares(who, people[p].who)
                         /\ Agrees(who, people[p].who)}

(* DuplicateReview::findExact, before it settles on a single row.  A form  *)
(* trusts the contacts of the participant only.                            *)
Repeats(e, who, trusted) ==
  {g \in regs : /\ g.event = e
                /\ Agrees(who, people[g.pid].who)
                /\ \/ Shares(who, people[g.pid].who)
                   \/ ~ trusted /\ Shares(who, g.who)}

Single(s) == Cardinality(s) = 1
TheOne(s) == CHOOSE x \in s : TRUE

(* The participant a submission resolves to; 0 is a new one.  Only a       *)
(* single candidate is reused.                                             *)
Resolved_First(who) ==      \* mutant: two of several are merged, none reused
  IF Cardinality(findCandidatesByComposite(who)) > 1
  THEN TheOne(findCandidatesByComposite(who)) ELSE 0
Resolved(who) ==
  IF Single(findCandidatesByComposite(who))
  THEN TheOne(findCandidatesByComposite(who)) ELSE 0

Registered_Not(e, p) == FALSE     \* mutant: no unique index, no test of it
Registered(e, p) == \E g \in regs : g.event = e /\ g.pid = p

(* What an intake looks for: additions to services leave out the birthday. *)
Key(r) ==
  IF req[r].kind = "service" THEN [req[r].id EXCEPT !.birthday = NONE]
  ELSE req[r].id

(* The rows a transaction commits.                                         *)
WithPerson(r, pid) ==
  IF pid # 0 THEN people
  ELSE Append(people, [who |-> req[r].id,
                among |-> Cardinality(findCandidatesByComposite(Key(r)))])

Registration(r, pid) ==
  [event |-> req[r].event, pid |-> IF pid # 0 THEN pid ELSE Len(people) + 1,
   who |-> req[r].who, active |-> TRUE, by |-> req[r].kind,
   among |-> Cardinality(Repeats(req[r].event, req[r].id,
                                 req[r].kind = "form"))]

Insert(r, pid) ==
  /\ people' = WithPerson(r, pid)
  /\ regs' = regs \cup {Registration(r, pid)}

(* The intakes of a pool: batches and corrections are of running events.   *)
Offered ==
  Kinds \cap (IF pool = "church" THEN {"form", "desk", "service"}
              ELSE {"form", "desk", "batch", "edit"})

Start(k) ==
  LET busy == {r \in Requests : req[r] # Idle}
  IN /\ k \in Offered /\ started < MaxRequests
     /\ started' = started + 1
     /\ overlapped' = IF busy = {} THEN overlapped
                      ELSE overlapped \cup {k} \cup {req[r].kind : r \in busy}

Done(r) == req' = [req EXCEPT ![r] = Idle]
Step(r, ks, p) == req[r].kind \in ks /\ req[r].pc = p
Unlocked(e, r) == [eventLock EXCEPT ![e] = @ \ {r}]

-----------------------------------------------------------------------------
(* A form identifies by the contacts that were verified: the chosen one,   *)
(* or all of them on a form from before the choice.                        *)
Verified(who) ==
  {id \in Reachable : /\ id.birthday = who.birthday
                      /\ \A c \in Contacts : id[c] \in {who[c], NONE}}

Bind(r) ==
  /\ req[r] = Idle
  /\ \E k \in {"form", "desk", "service"}, who \in Reachable :
       /\ Start(k)
       /\ \E e \in IF k = "service" THEN Occurrences ELSE Events,
             id \in IF k = "form" THEN Verified(who) ELSE {who} :
            req' = [req EXCEPT ![r] = [Idle EXCEPT !.pc = "begin", !.kind = k,
                                       !.event = e, !.who = who, !.id = id]]
  /\ UNCHANGED <<pool, people, regs, eventLock, poolLock, cutShort>>

(* finalize(), walkIn(), encodePaper(), store(): the lock of the event row, *)
(* then findExact.  In finalize() the lock of the pool comes in between,   *)
(* but the snapshot it reads is taken before, when the pending answers are *)
(* validated; registrations of the event cannot change under its lock.     *)
Admissible_Always(r) == TRUE      \* mutant: no test for an exact repeat
Admissible(r) ==
  LET same == Repeats(req[r].event, req[r].id, req[r].kind = "form")
  IN ~ Single(same)

LockEvent(r) ==
  /\ Step(r, {"form", "desk"}, "begin")
  /\ eventLock[req[r].event] = {}
  /\ IF Admissible(r)
     THEN /\ eventLock' = [eventLock EXCEPT ![req[r].event] = {r}]
          /\ req' = [req EXCEPT ![r].pc = "event"]
     ELSE Done(r) /\ UNCHANGED eventLock      \* recovered or rejected
  /\ UNCHANGED <<pool, people, regs, poolLock, started, overlapped, cutShort>>

(* The lock of the pool, the candidates as they are now, and the commit.   *)
(* A participant who is registered already ends it without a change:       *)
(* identityConflict() or the unique index.                                 *)
Admit(r) ==
  /\ Step(r, {"form", "desk"}, "event")
  /\ poolLock = {}
  /\ LET pid == Resolved(req[r].id)
     IN IF Registered(req[r].event, pid) THEN UNCHANGED <<people, regs>>
        ELSE Insert(r, pid)
  /\ eventLock' = Unlocked(req[r].event, r)
  /\ Done(r)
  /\ UNCHANGED <<pool, poolLock, started, overlapped, cutShort>>

-----------------------------------------------------------------------------
BindBatch(r) ==
  /\ req[r] = Idle /\ Start("batch")
  /\ \E e \in Events, n \in 1 .. MaxRows :
       req' = [req EXCEPT ![r] = [Idle EXCEPT !.pc = "begin", !.rows = n,
                                    !.kind = "batch", !.event = e]]
  /\ UNCHANGED <<pool, people, regs, eventLock, poolLock, cutShort>>

NextRow(r) ==
  req' = [req EXCEPT ![r] =
            IF @.rows = 1 THEN Idle
            ELSE [Idle EXCEPT !.pc = "begin", !.kind = "batch",
                              !.event = req[r].event, !.rows = req[r].rows - 1]]

(* persistBulkWalkInRow(): the tests before the transaction.  Participants *)
(* seen earlier in the batch are registered by then.                       *)
Rejected_ByParticipant(e, who) == Registered(e, Resolved(who))    \* mutant
Rejected_ExactOnly(e, who) == Single(Repeats(e, who, FALSE))      \* mutant
Rejected(e, who) ==
  \/ Single(Repeats(e, who, FALSE))
  \/ Registered(e, Resolved(who))

CheckRow(r) ==
  /\ Step(r, {"batch"}, "begin")
  /\ \E who \in Reachable :
       IF Rejected(req[r].event, who) THEN NextRow(r)
       ELSE req' = [req EXCEPT ![r].pc = "row", ![r].who = who, ![r].id = who]
  /\ UNCHANGED <<pool, people, regs, eventLock, poolLock, started,
                 overlapped, cutShort>>

(* The transaction of a row takes the lock of the pool and keeps it ...    *)
LockPool(r) ==
  /\ Step(r, {"batch"}, "row")
  /\ poolLock = {}
  /\ poolLock' = {r}
  /\ req' = [req EXCEPT ![r].pc = "found", ![r].pid = Resolved(req[r].id)]
  /\ UNCHANGED <<pool, people, regs, eventLock, started, overlapped, cutShort>>

(* ... while the insert waits for the event row, which the foreign key     *)
(* reads.  The unique index ends the request: nobody catches it.           *)
Abandon(r) ==
  /\ cutShort' = (cutShort \/ req[r].rows > 1)
  /\ Done(r)

InsertRow(r) ==
  /\ Step(r, {"batch"}, "found")
  /\ eventLock[req[r].event] = {}
  /\ IF Registered(req[r].event, req[r].pid)
     THEN Abandon(r) /\ UNCHANGED <<people, regs>>
     ELSE Insert(r, req[r].pid) /\ NextRow(r) /\ UNCHANGED cutShort
  /\ poolLock' = {}
  /\ UNCHANGED <<pool, eventLock, started, overlapped>>

(* A transaction that has the event row and waits for the pool, and one    *)
(* that has the pool and waits for the event row.  finalize() is tried     *)
(* three times, the others once.                                           *)
Deadlocked(r, b) ==
  /\ req[r].pc = "event" /\ b \in poolLock
  /\ req[b].event = req[r].event

Rollback(r, b) ==
  /\ Deadlocked(r, b)
  /\ \/ /\ eventLock' = Unlocked(req[r].event, r)
        /\ req' = [req EXCEPT ![r] =
                     IF @.kind = "form" /\ @.tries < 2
                     THEN [@ EXCEPT !.pc = "begin", !.tries = req[r].tries + 1]
                     ELSE Idle]
        /\ UNCHANGED <<poolLock, cutShort>>
     \/ /\ poolLock' = {}
        /\ Abandon(b)
        /\ UNCHANGED eventLock
  /\ UNCHANGED <<pool, people, regs, started, overlapped>>

-----------------------------------------------------------------------------
(* ServiceAttendanceController and FellowshipAttendanceController lock the *)
(* occurrence, look for the participant without the lock of the pool (and  *)
(* without the birthday), and insert one if there is no single match.      *)
Look(r) ==
  /\ Step(r, {"service"}, "begin")
  /\ eventLock[req[r].event] = {}
  /\ eventLock' = [eventLock EXCEPT ![req[r].event] = {r}]
  /\ req' = [req EXCEPT ![r].pc = "found",
                        ![r].pid = Resolved(Key(r))]
  /\ UNCHANGED <<pool, people, regs, poolLock, started, overlapped, cutShort>>

AddToService(r) ==
  /\ Step(r, {"service"}, "found")
  /\ people' = WithPerson(r, req[r].pid)
  /\ eventLock' = Unlocked(req[r].event, r)
  /\ Done(r)
  /\ UNCHANGED <<pool, regs, poolLock, started, overlapped, cutShort>>

(* RegistrationMonitorController::editParticipant: the request rejects     *)
(* contacts of another participant, then the columns that differ from what *)
(* was read are saved.                                                     *)
Collides_Not(p, who) == FALSE      \* mutant: the other rows are not looked at
Collides(p, who) ==
  \E q \in DOMAIN people \ {p} : Shares(who, people[q].who)

CheckEdit(r) ==
  /\ req[r] = Idle /\ Start("edit")
  /\ \E g \in {h \in regs : h.active}, who \in Identity :
       /\ who.birthday = people[g.pid].who.birthday
       /\ ~ Collides(g.pid, who)
       /\ req' = [req EXCEPT ![r] = [Idle EXCEPT !.pc = "found", !.kind = "edit",
                    !.pid = g.pid, !.who = who, !.id = people[g.pid].who]]
  /\ UNCHANGED <<pool, people, regs, eventLock, poolLock, cutShort>>

SaveEdit(r) ==
  /\ Step(r, {"edit"}, "found")
  /\ people' = [people EXCEPT ![req[r].pid].who =
       [c \in DOMAIN @ |-> IF req[r].who[c] # req[r].id[c] THEN req[r].who[c]
                           ELSE @[c]]]
  /\ Done(r)
  /\ UNCHANGED <<pool, regs, eventLock, poolLock, started, overlapped,
                 cutShort>>

Next ==
  \/ \E r \in Requests :
       \/ Bind(r) \/ LockEvent(r) \/ Admit(r)
       \/ BindBatch(r) \/ CheckRow(r) \/ LockPool(r) \/ InsertRow(r)
       \/ Look(r) \/ AddToService(r) \/ CheckEdit(r) \/ SaveEdit(r)
  \/ \E r, b \in Requests : Rollback(r, b)

Spec == Init /\ [][Next]_vars

-----------------------------------------------------------------------------
(* One exact match is reused: no intake inserts a new participant while    *)
(* exactly one participant matches, in whatever event and by whatever      *)
(* intake the match came in (resolveFrom and the lock of the identity      *)
(* pool), until an addition to a service or a correction, which do not     *)
(* take that lock, overlap with another request.                           *)
ReusedWhenUnambiguous ==
  {"service", "edit"} \cap overlapped = {} =>
    \A p \in DOMAIN people : people[p].among # 1

(* A form that repeats exactly one registration of its event does not      *)
(* become a second one, nor does it revive a removed one, and the desk     *)
(* does not add a repeat (finalize, walkIn, encodePaper and store test     *)
(* under the lock of the event row), unless a correction overlaps.         *)
NoExactRepeat ==
  "edit" \notin overlapped =>
    \A g \in regs : g.by \in {"form", "desk"} => g.among # 1

(* A batch, which takes no lock on the event, does not repeat a            *)
(* registration or stop at a row that fails while no other request is in   *)
(* progress (persistBulkWalkInRow, bulkWalkIn).                            *)
BatchIsIndependent ==
  "batch" \notin overlapped =>
    /\ \A g \in regs : g.by = "batch" => g.among # 1
    /\ ~ cutShort

(* A correction does not make its participant match another one, whatever  *)
(* was corrected or taken in before (EditParticipantRequest), unless       *)
(* another request overlaps with one.                                      *)
Twins(p, q) ==
  p # q /\ Shares(people[p].who, people[q].who)
        /\ Agrees(people[p].who, people[q].who)

CorrectionKeepsApart ==
  [][\A p, q \in DOMAIN people :
       Twins(p, q)' => Twins(p, q) \/ "edit" \in overlapped]_vars

(* The people and their registrations agree with one lock per pool and per *)
(* event: nobody is entered twice where one match was found, no form or    *)
(* desk registers a repeat, and a batch alone repeats nobody.              *)
IntakeConsistent ==
  TypeOK /\ ReusedWhenUnambiguous /\ NoExactRepeat /\ BatchIsIndependent
=============================================================================
