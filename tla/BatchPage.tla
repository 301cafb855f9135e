------------------------------- MODULE BatchPage -------------------------------
(***************************************************************************)
(* The page of batch 1: its sessions, and the grid of attendance.  The     *)
(* operator changes cells of the grid, which are saved together; every     *)
(* answer with new attendance starts the grid afresh.                      *)
(***************************************************************************)
EXTENDS DiscipleshipRecords

VARIABLES
  seen,           \* the props: enrollments, sessions, attendances
  cells, dirty,   \* the grid, and the cells changed since it was filled
  saving,         \* the button says that it is saving
  asking,         \* the dialog: "none", "create", "edit", "delete"
  session,        \* the session the dialog is about
  request         \* the visit in progress

gridVars == <<seen, cells, dirty, saving, asking, session, request>>

NoRequest == [op |-> "none", state |-> "none"]
Selectable == {"", "present", "absent"}

(* DiscipleshipBatchController.show: who is in the batch or in none.       *)
showBatch ==
  LET people == {p \in Enrolled : enrolled[p].batch \in {0, 1}}
  IN [people |-> people, sessions |-> sessions,
      attendances |-> [c \in Cells |-> IF c[1] \in people THEN attended[c] ELSE ""]]

-----------------------------------------------------------------------------
(* A request takes the place of the one in progress.                       *)
Post(q) == request' = [f \in DOMAIN q \cup {"state"} |-> IF f = "state" THEN "sent" ELSE q[f]]

(* What the controllers do; a request without a route ends in a 404.       *)
Handled ==
  /\ Routed
  /\ \/ /\ \/ request.op = "save" /\ bulkUpsert(request.cells)
           \/ request.op = "create" /\ storeSession
           \/ request.op = "delete" /\ destroySession(request.session)
           \/ request.op = "edit" /\ request.session \in sessions /\ UNCHANGED records
        /\ request' = [request EXCEPT !.state = "done"]
     \/ /\ UNCHANGED records
        /\ request.op \in {"create", "edit"} /\ request' = [request EXCEPT !.state = "invalid"]
     \/ /\ UNCHANGED records
        /\ \/ request.op \in {"edit", "delete"} /\ request.session \notin sessions
           \/ request.op = "create" /\ 1 \notin batches
           \/ request.op = "save" /\ \E c \in DOMAIN request.cells :
                ~ (c[1] \in Enrolled /\ c[2] \in sessions)
        /\ request' = [request EXCEPT !.state = "ended"]

Unrouted == ~ Routed /\ UNCHANGED records /\ request' = [request EXCEPT !.state = "ended"]

HandleRequest ==
  /\ request.state = "sent" /\ (Handled \/ Unrouted)
  /\ UNCHANGED <<seen, cells, dirty, saving, asking, session>>

(* An answer with the page fills the grid anew, unsaved changes or not; it *)
(* may leave it alone only when the attendance is what it was.             *)
Refill ==
  \/ cells' = seen'.attendances /\ dirty' = {}
  \/ seen'.attendances = seen.attendances /\ UNCHANGED <<cells, dirty>>

AnswerSeen ==
  /\ request.state \in {"done", "invalid", "ended"} /\ request' = NoRequest
  /\ saving' = (saving /\ request.op # "save")
  /\ asking' = IF request.state = "done" /\ asking = request.op THEN "none" ELSE asking
  /\ IF request.state = "ended" \/ 1 \notin batches
     THEN UNCHANGED <<seen, cells, dirty>> ELSE seen' = showBatch /\ Refill
  /\ UNCHANGED <<records, session>>

-----------------------------------------------------------------------------
Grid == {c \in Cells : c[1] \in seen.people /\ c[2] \in seen.sessions}

setCell_Quietly(c, status) ==
  /\ asking = "none" /\ c \in Grid /\ status # cells[c]
  /\ cells' = [cells EXCEPT ![c] = status] /\ UNCHANGED dirty
  /\ UNCHANGED <<records, seen, saving, asking, session, request>>

setCell(c, status) ==
  /\ asking = "none" /\ c \in Grid /\ status # cells[c]
  /\ cells' = [cells EXCEPT ![c] = status] /\ dirty' = dirty \cup {c}
  /\ UNCHANGED <<records, seen, saving, asking, session, request>>

(* The changed cells with a status are sent: none that was cleared.        *)
payload_WholeGrid == {c \in Grid : cells[c] \notin {"", "excused"}}

payload == {c \in dirty : cells[c] \notin {"", "excused"}}

save ==
  /\ asking = "none" /\ dirty # {} /\ ~ saving
  /\ payload # {} /\ saving' = TRUE
  /\ Post([op |-> "save", changed |-> dirty, cells |-> [c \in payload |-> cells[c]]])
  /\ UNCHANGED <<records, seen, cells, dirty, asking, session>>

(* The dialogs of a session; a save that another request replaces ends.    *)
openDialog ==
  /\ asking = "none"
  /\ \/ asking' = "create" /\ session' = 0
     \/ asking' \in {"edit", "delete"} /\ session' \in seen.sessions
  /\ UNCHANGED <<records, seen, cells, dirty, saving, request>>

closeDialog ==
  /\ asking # "none" /\ asking' = "none"
  /\ UNCHANGED <<records, seen, cells, dirty, saving, session, request>>

SessionFormDialog ==
  /\ asking \in {"create", "edit"} /\ request.op \notin {"create", "edit"}
  /\ Post([op |-> asking, session |-> session])
  /\ saving' = FALSE
  /\ UNCHANGED <<records, seen, cells, dirty, asking, session>>

deleteSession ==
  /\ asking = "delete" /\ asking' = "none"
  /\ Post([op |-> "delete", session |-> session]) /\ saving' = FALSE
  /\ UNCHANGED <<records, seen, cells, dirty, session>>

BatchInit ==
  /\ seen = showBatch /\ cells = seen.attendances /\ dirty = {} /\ saving = FALSE
  /\ asking = "none" /\ session = 0 /\ request = NoRequest

BatchGesture ==
  \/ \E c \in Cells, status \in Selectable : setCell(c, status)
  \/ save \/ openDialog \/ closeDialog \/ SessionFormDialog \/ deleteSession

BatchConsequence == HandleRequest \/ AnswerSeen

-----------------------------------------------------------------------------
GridTypeOK ==
  /\ cells \in [Cells -> {"", "present", "absent", "excused"}]
  /\ dirty \subseteq Cells /\ saving \in BOOLEAN
  /\ request.state \in {"none", "sent", "done", "invalid", "ended"}

(* A cell that is not marked as changed shows what the server last sent:   *)
(* what the operator reads without a ring around it is on record, or was.  *)
CleanIsSeen == \A c \in Cells : c \in dirty \/ cells[c] = seen.attendances[c]

(* A save writes only cells that the operator changed, as they were shown  *)
(* when it was sent, and nothing if its URL has no route; what other       *)
(* operators recorded in the cells between is left alone.                  *)
OnlyChangedWritten ==
  [][HandleRequest /\ request.op = "save" =>
       \A c \in Cells : attended'[c] # attended[c] =>
          Routed /\ c \in request.changed /\ attended'[c] = request.cells[c]]_<<records, gridVars>>

(* A save of the grid whose enrollments and sessions all exist is answered *)
(* as done: the routes document says that the bulk upsert is served where  *)
(* the page posts it.                                                      *)
SaveReachesServer ==
  [][HandleRequest /\ request.op = "save"
       /\ (\A c \in DOMAIN request.cells : c[1] \in Enrolled /\ c[2] \in sessions)
     => request'.state = "done"]_<<records, gridVars>>
=============================================================================
