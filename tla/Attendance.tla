----------------------------- MODULE Attendance -----------------------------
(***************************************************************************)
(* The attendance of one event: AttendanceController (running events),     *)
(* ChurchAttendanceController and ChurchRegistrationController (church     *)
(* events), RegistrationDeletionController, the release of held            *)
(* registrations by AutomaticIdentityResolution, and the forms that come   *)
(* in meanwhile.                                                           *)
(*                                                                         *)
(* mark() and bulkMark() check the event and the registration they were    *)
(* bound to and then read and save attendance rows without a lock; Eloquent *)
(* writes only the columns that differ from the row it read.  walkIn() and *)
(* the church handlers lock the event row and check again, so what they do *)
(* under the lock is one action here.                                      *)
(***************************************************************************)
EXTENDS Naturals

CONSTANTS
  Requests,    \* staff requests in progress at one time
  Regs,        \* rows of registrations
  FromForm,    \* those that are confirmed, with an attendance code, at first
  Held,        \* those a retired manual review left on hold
  EventKinds,  \* the kinds of event to consider
  Kinds,       \* the operations staff use
  BulkIds,     \* bound: the registrations a batch may name
  MaxRequests  \* bound on the requests started

ASSUME AttendanceAssumption ==
  /\ FromForm \subseteq Regs /\ Held \subseteq Regs \ FromForm
  /\ Kinds \subseteq {"mark", "bulkMark", "walkIn", "bulkWalkIn", "remove",
                      "finalize"}
  /\ EventKinds \subseteq {"running", "church"} /\ BulkIds \subseteq Regs
  /\ MaxRequests \in Nat

VARIABLES
  event,      \* the event row: its kind, and isAttendanceReadOnly
  reg,        \* reg[x]: registration_status, "none" before it is inserted and
              \* "gone" once it is deleted; "uncoded" is confirmed with a null
              \* attendance_code
  original,   \* original[x]: duplicate_of_registration_id
  att,        \* att[x]: the attendances row of x
  req,        \* req[r]: where request r is, and what it was bound to and read
  proven,     \* history: registrations whose code was typed in a mark()
  started,    \* requests started so far
  overlapped  \* history: two requests have been in progress at one time

vars == <<event, reg, original, att, req, proven, started, overlapped>>

NoRow == [status |-> "none", timed |-> FALSE, verified |-> FALSE]
Row == [status : {"none", "present", "absent"}, timed : BOOLEAN,
        verified : BOOLEAN]
(* What the handlers write: time_in goes with presence.                    *)
Wanted_Timed(s) ==      \* mutant: time_in => now() whatever is marked
  [status |-> s, timed |-> s # "none", verified |-> FALSE]
Wanted(s) == [status |-> s, timed |-> s = "present", verified |-> FALSE]
Present == Wanted("present")

Idle == [pc |-> "idle", kind |-> "none", xs |-> {}, want |-> NoRow,
         stamp |-> FALSE, read |-> [x \in Regs |-> NoRow]]

TypeOK ==
  /\ event \in [kind : EventKinds, readOnly : BOOLEAN]
  /\ reg \in [Regs -> {"none", "confirmed", "uncoded", "held", "duplicate",
                   "gone"}]
  /\ original \in [Regs -> SUBSET Regs]
  /\ att \in [Regs -> Row]
  /\ req \in [Requests ->
       [pc : {"idle", "bound", "loaded", "selected"},
        kind : Kinds \cup {"none"}, xs : SUBSET Regs, want : Row,
        stamp : BOOLEAN, read : [Regs -> Row]]]
  /\ proven \subseteq Regs
  /\ started \in 0 .. MaxRequests
  /\ overlapped \in BOOLEAN
  /\ \A x \in Regs : att[x].status = "none" <=> att[x] = NoRow

(* A held row may have been marked before it was put on hold.              *)
Init ==
  /\ event \in [kind : EventKinds, readOnly : {FALSE}]
  /\ reg = [x \in Regs |-> IF x \in FromForm THEN "confirmed"
                           ELSE IF x \in Held THEN "held" ELSE "none"]
  /\ original = [x \in Regs |-> {}]
  /\ \E marked \in SUBSET Held :
       att = [x \in Regs |-> IF x \in marked THEN Present ELSE NoRow]
  /\ req = [r \in Requests |-> Idle]
  /\ proven = {}
  /\ started = 0 /\ overlapped = FALSE

-----------------------------------------------------------------------------
(* The columns save() writes: those in which what is wanted differs from   *)
(* the row that was read.  A fresh now() always differs.                   *)
Dirty(read, want, stamp) ==
  {c \in DOMAIN want : \/ read[c] # want[c]
                       \/ c = "timed" /\ want.timed
                       \/ c = "verified" /\ stamp}

Updated_Upsert(row, read, want, stamp) ==      \* mutant: no WHERE id
  [c \in DOMAIN row |-> IF c \in Dirty(read, want, stamp) THEN want[c]
                        ELSE row[c]]
Updated(row, read, want, stamp) ==
  IF row.status = "none" THEN row      \* the row was deleted: nothing matches
  ELSE [c \in DOMAIN row |-> IF c \in Dirty(read, want, stamp) THEN want[c]
                             ELSE row[c]]

(* A SELECT of the rows of xs.                                             *)
Rows(xs) == [x \in Regs |-> IF x \in xs THEN att[x] ELSE NoRow]
Active(x) == reg[x] \in {"confirmed", "uncoded"}
HasCode(x) == reg[x] = "confirmed"
Step(r, k, p) == req[r].kind = k /\ req[r].pc = p
Done(r) == req' = [req EXCEPT ![r] = Idle]
Church == event.kind = "church"
Arrives ==
  /\ started < MaxRequests /\ started' = started + 1
  /\ overlapped' = (overlapped \/ \E q \in Requests : req[q] # Idle)
Start(r, k, xs) == [Idle EXCEPT !.pc = "bound", !.kind = k, !.xs = xs]

isAttendanceReadOnly_Not == FALSE      \* mutant: completion is not looked at
isAttendanceReadOnly == event.readOnly

(* mark(): the guards, on the event and the registration of the route.     *)
BindMark(r) ==
  /\ req[r] = Idle /\ "mark" \in Kinds /\ ~ Church
  /\ ~ isAttendanceReadOnly
  /\ \E x \in Regs, s \in {"present", "absent"}, code \in BOOLEAN :
       /\ Active(x)
       /\ code => HasCode(x)
       /\ req' = [req EXCEPT ![r] =
            [Start(r, "mark", {x}) EXCEPT
               !.want = Wanted(s),
               !.stamp = s = "present" /\ code]]
       /\ proven' = IF s = "present" /\ code THEN proven \cup {x} ELSE proven
  /\ Arrives
  /\ UNCHANGED <<event, reg, original, att>>

(* mark(): verified_at is kept if the row had it, or stamped by the code.  *)
Verified_Wiped(r, x) ==      \* mutant: ISSUE-016, only this request's code
  req[r].want.status = "present" /\ req[r].stamp
Verified_Absent(r, x) ==     \* mutant: whatever is marked
  att[x].verified \/ req[r].stamp
Verified_ByStaff(r, x) ==    \* mutant: being marked present is the proof
  req[r].want.status = "present"
Verified(r, x) ==
  /\ req[r].want.status = "present"
  /\ att[x].verified \/ req[r].stamp

Load(r) ==
  /\ Step(r, "mark", "bound")
  /\ \E x \in req[r].xs :
       req' = [req EXCEPT ![r].pc = "loaded",
                          ![r].want.verified = Verified(r, x)]
  /\ UNCHANGED <<event, reg, original, att, proven, started, overlapped>>

(* updateOrCreate(): the row is looked for ...                             *)
Select(r) ==
  /\ Step(r, "mark", "loaded")
  /\ req' = [req EXCEPT ![r].pc = "selected", ![r].read = Rows(req[r].xs)]
  /\ UNCHANGED <<event, reg, original, att, proven, started, overlapped>>

(* ... and saved.  The saving hook refuses a registration that is not      *)
(* active.  A row inserted meanwhile breaks the unique index: it is read   *)
(* and updated instead.                                                    *)
Save(r) ==
  /\ ~ Church /\ Step(r, "mark", "selected")
  /\ \E x \in req[r].xs :
       LET read == req[r].read[x]
           want == req[r].want
       IN \/ /\ ~ Active(x)
             /\ Done(r) /\ UNCHANGED att
          \/ /\ Active(x) /\ read = NoRow /\ att[x] = NoRow
             /\ att' = [att EXCEPT ![x] = want]
             /\ Done(r)
          \/ /\ Active(x) /\ read = NoRow /\ att[x] # NoRow
             /\ req' = [req EXCEPT ![r].read = Rows({x})]
             /\ UNCHANGED att
          \/ /\ Active(x) /\ read # NoRow
             /\ att' = [att EXCEPT
                          ![x] = Updated(@, read, want, req[r].stamp)]
             /\ Done(r)
  /\ UNCHANGED <<event, reg, original, proven, started, overlapped>>

-----------------------------------------------------------------------------
(* bulkMark(): registrations of the event that are active when the ids are *)
(* resolved.                                                               *)
BindBulk(r) ==
  /\ req[r] = Idle /\ "bulkMark" \in Kinds /\ ~ Church
  /\ ~ isAttendanceReadOnly
  /\ \E xs \in SUBSET {x \in BulkIds : Active(x)} :
       /\ xs # {}
       /\ req' = [req EXCEPT ![r] =
                    [Start(r, "bulkMark", xs) EXCEPT !.want = Present]]
  /\ Arrives
  /\ UNCHANGED <<event, reg, original, att, proven>>

(* The transaction reads one snapshot: what is active, and its rows.       *)
SelectBulk(r) ==
  /\ Step(r, "bulkMark", "bound")
  /\ LET xs == {x \in req[r].xs : Active(x)}
     IN req' = [req EXCEPT ![r].pc = "selected", ![r].xs = xs,
                           ![r].read = Rows(xs)]
  /\ UNCHANGED <<event, reg, original, att, proven, started, overlapped>>

(* The registration of a row to insert was deleted, or somebody inserted   *)
(* the row: the snapshot does not see it, and the exception takes the      *)
(* whole batch back.                                                       *)
Collides(r) ==
  \E x \in req[r].xs :
    req[r].read[x] = NoRow /\ (~ Active(x) \/ att[x] # NoRow)

SaveBulk(r) ==
  /\ Step(r, "bulkMark", "selected")
  /\ att' = IF Collides(r) THEN att
            ELSE [x \in Regs |->
                    IF x \notin req[r].xs THEN att[x]
                    ELSE IF req[r].read[x] = NoRow THEN req[r].want
                    ELSE Updated(att[x], req[r].read[x], req[r].want, FALSE)]
  /\ Done(r)
  /\ UNCHANGED <<event, reg, original, proven, started, overlapped>>

-----------------------------------------------------------------------------
(* Walk-ins become a registration and its attendance in one transaction.   *)
(* walkIn(), encodePaper() and quickWalkIn() check once more under the     *)
(* lock of the event row; a row of bulkWalkIn() does not.                  *)
BindWalkIn(r) ==
  /\ req[r] = Idle /\ ~ Church
  /\ ~ isAttendanceReadOnly
  /\ \E k \in {"walkIn", "bulkWalkIn"} \cap Kinds :
       req' = [req EXCEPT ![r] = Start(r, k, {})]
  /\ Arrives
  /\ UNCHANGED <<event, reg, original, att, proven>>

ensureAttendanceWritable_Once(r) == TRUE      \* mutant: not checked again
ensureAttendanceWritable(r) == req[r].kind = "walkIn" => ~ event.readOnly

WalkIn(r) ==
  /\ req[r].kind \in {"walkIn", "bulkWalkIn"}
  /\ \/ /\ ensureAttendanceWritable(r)
        /\ \E x \in Regs :
             /\ reg[x] = "none"
             /\ reg' = [reg EXCEPT ![x] = "uncoded"]
             /\ \/ att' = [att EXCEPT ![x] = Present]
                \/ req[r].kind = "walkIn" /\ UNCHANGED att  \* not mark_present
     \/ ~ ensureAttendanceWritable(r) /\ UNCHANGED <<reg, att>>
  /\ \/ Done(r)
     \/ req[r].kind = "bulkWalkIn" /\ UNCHANGED req      \* more rows
  /\ UNCHANGED <<event, original, proven, started, overlapped>>

(* ChurchAttendanceController::mark(), under the locks of the event and    *)
(* the registration.                                                       *)
BindChurchMark(r) ==
  /\ req[r] = Idle /\ "mark" \in Kinds /\ Church
  /\ ~ isAttendanceReadOnly
  /\ \E x \in Regs, s \in {"present", "absent", "none"} :
       req' = [req EXCEPT ![r] =
                 [Start(r, "mark", {x}) EXCEPT
                    !.pc = "selected",
                    !.want = Wanted(s)]]
  /\ Arrives
  /\ UNCHANGED <<event, reg, original, att, proven>>

ChurchWritable_Once == TRUE      \* mutant: not checked again
ChurchWritable == ~ event.readOnly

ChurchMark(r) ==
  /\ Church /\ Step(r, "mark", "selected")
  /\ \E x \in req[r].xs :
       att' = IF ChurchWritable /\ Active(x)
              THEN [att EXCEPT ![x] = req[r].want] ELSE att
  /\ Done(r)
  /\ UNCHANGED <<event, reg, original, proven, started, overlapped>>

-----------------------------------------------------------------------------
(* RegistrationDeletionController::destroy() checks the bound rows; the    *)
(* church handler locks the event and refuses a row a duplicate points to. *)
(* The foreign key refuses that in either case, and takes the attendance   *)
(* along.                                                                  *)
BindRemove(r) ==
  /\ req[r] = Idle /\ "remove" \in Kinds
  /\ Church \/ ~ isAttendanceReadOnly
  /\ \E x \in Regs : /\ Active(x)
                     /\ req' = [req EXCEPT ![r] = Start(r, "remove", {x})]
  /\ Arrives
  /\ UNCHANGED <<event, reg, original, att, proven>>

Cascaded_Kept(x) == att      \* mutant: the foreign key does not cascade
Cascaded(x) == [att EXCEPT ![x] = NoRow]

Restricted_Not(x) == FALSE   \* mutant: nor does it restrict
Restricted(x) == \E y \in Regs : x \in original[y]

Remove(r) ==
  /\ req[r].kind = "remove"
  /\ \E x \in req[r].xs :
       IF Active(x) /\ ~ Restricted(x)
       THEN /\ reg' = [reg EXCEPT ![x] = "gone"]
            /\ att' = Cascaded(x)
       ELSE UNCHANGED <<reg, att>>
  /\ Done(r)
  /\ UNCHANGED <<event, original, proven, started, overlapped>>

(* EventController::finalize(), or the church update() that completes:     *)
(* both check the bound event and write its status.                        *)
BindFinalize(r) ==
  /\ req[r] = Idle /\ "finalize" \in Kinds
  /\ ~ isAttendanceReadOnly
  /\ req' = [req EXCEPT ![r] = Start(r, "finalize", {})]
  /\ Arrives
  /\ UNCHANGED <<event, reg, original, att, proven>>

Finalize(r) ==
  /\ req[r].kind = "finalize"
  /\ event' = [event EXCEPT !.readOnly = TRUE]
  /\ Done(r)
  /\ UNCHANGED <<reg, original, att, proven, started, overlapped>>

(* resolveHeld(), under the locks of the event, the pool and the row: an   *)
(* exact match makes the held row a duplicate unless it has attendance.    *)
DuplicateOf_Marked(x, y) ==      \* mutant: the attendance is not looked at
  reg[y] \notin {"none", "held", "gone"} /\ x \notin original[y]
DuplicateOf(x, y) ==
  /\ reg[y] \notin {"none", "held", "gone"}
  /\ x \notin original[y]
  /\ att[x] = NoRow

resolveHeld(x) ==
  /\ reg[x] = "held"
  /\ \/ /\ reg' = [reg EXCEPT ![x] = "confirmed"]
        /\ UNCHANGED original
     \/ \E y \in Regs \ {x} :
          /\ DuplicateOf(x, y)
          /\ reg' = [reg EXCEPT ![x] = "duplicate"]
          /\ original' = [original EXCEPT ![x] = {y}]
  /\ UNCHANGED <<event, att, req, proven, started, overlapped>>

(* A form is finalized, or a church registration stored: a new row with a   *)
(* code, or a code for the walk-in the form turns out to repeat.           *)
Submit(x) ==
  /\ Church \/ ~ event.readOnly
  /\ reg[x] \in {"none", "uncoded"}
  /\ reg' = [reg EXCEPT ![x] = "confirmed"]
  /\ UNCHANGED <<event, original, att, req, proven, started, overlapped>>

Next ==
  \/ \E r \in Requests :
       \/ BindMark(r) \/ Load(r) \/ Select(r) \/ Save(r)
       \/ BindBulk(r) \/ SelectBulk(r) \/ SaveBulk(r)
       \/ BindWalkIn(r) \/ WalkIn(r)
       \/ BindChurchMark(r) \/ ChurchMark(r)
       \/ BindRemove(r) \/ Remove(r)
       \/ BindFinalize(r) \/ Finalize(r)
  \/ \E x \in Regs : resolveHeld(x) \/ Submit(x)

Spec == Init /\ [][Next]_vars

-----------------------------------------------------------------------------
(* Attendance belongs to a registration that counts: neither a duplicate   *)
(* nor a deleted registration has any, and what a held row was marked with *)
(* before its hold survives (Attendance's saving hook, resolveHeld and the *)
(* cascading foreign key).                                                 *)
AttendanceOnlyActive ==
  \A x \in Regs : att[x] # NoRow => Active(x) \/ reg[x] = "held"

(* A duplicate points to a registration that exists and is not on hold,    *)
(* and no set of duplicates point to each other only, so following the     *)
(* pointers ends at a confirmed one (resolveHeld, the deletion handlers    *)
(* and the restricting foreign key).                                       *)
DuplicateHasOriginal ==
  /\ \A x \in Regs : reg[x] = "duplicate" =>
       \E y \in original[x] : Active(y) \/ reg[y] = "duplicate"
  /\ \A xs \in (SUBSET Regs) \ {{}} :
       \E x \in xs : original[x] \cap xs = {}

(* verified_at is set only on a registration whose code somebody typed     *)
(* while marking it, however requests overlap (mark()).                    *)
VerifiedNeedsCode == \A x \in Regs : att[x].verified => x \in proven

(* A row marked absent; mark()'s comment: "A verified absence is a         *)
(* contradiction".                                                         *)
Absent(x) == att[x].status = "absent"
VerifiedIsPresent == \A x \in Regs : Absent(x) => ~ att[x].verified

(* No absence is verified until requests overlap, nor does an absent row   *)
(* tell a time of arrival then, and any other row does.                    *)
AbsenceConsistent ==
  ~ overlapped => /\ VerifiedIsPresent
                  /\ \A x \in Regs : att[x] # NoRow =>
                                       (Absent(x) <=> ~ att[x].timed)

(* Marking a participant present again does not lose the proof by code     *)
(* that was recorded before (mark() preserves verified_at; bulkMark()      *)
(* discards it on purpose), until requests overlap.                        *)
VerificationKept ==
  [][\A x \in Regs :
       att[x].verified /\ att'[x].status = "present" =>
         \/ att'[x].verified
         \/ overlapped
         \/ \E r \in Requests : req[r].kind = "bulkMark" /\ x \in req[r].xs
    ]_vars

(* Attendance does not change once the event is completed, except by       *)
(* requests that had passed their one check before it was (mark, bulkMark, *)
(* bulkWalkIn, destroy), and by the removal of a church registration.      *)
LateWriter(r) ==
  \/ req[r].kind = "remove" /\ (Church \/ overlapped)
  \/ /\ req[r].kind \in {"mark", "bulkMark", "bulkWalkIn"}
     /\ ~ Church /\ overlapped
AttendanceFrozen ==
  [][event.readOnly /\ att' # att => \E r \in Requests : LateWriter(r)]_vars

(* The attendance sheet agrees with the registrations: rows of people who  *)
(* count, duplicates that lead to an original, proofs somebody typed and   *)
(* absences without a time of arrival.                                     *)
SheetConsistent ==
  /\ TypeOK /\ AttendanceOnlyActive /\ DuplicateHasOriginal
  /\ VerifiedNeedsCode /\ AbsenceConsistent

(* What was recorded stays recorded: a proof by code while its holder is   *)
(* present, and the whole sheet once the event is completed.               *)
RecordKept == VerificationKept /\ AttendanceFrozen
=============================================================================
