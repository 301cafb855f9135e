-------------------------- MODULE DiscipleshipRecords --------------------------
(***************************************************************************)
(* The records of a discipleship program, as the server changes them: its  *)
(* batches, the enrollments of church participants (one per participant,   *)
(* kept when they withdraw), the sessions of batch 1 and the attendance of *)
(* an enrolled participant at a session.  A batch is numbered from 1, and  *)
(* 0 stands for no batch; a session likewise.                              *)
(***************************************************************************)
EXTENDS Naturals

CONSTANTS
  Participants,            \* church participants, also what is searched for
  MaxBatches, MaxSessions  \* bounds on the batches and sessions ever created

VARIABLES
  prefixes,                \* where the routes of discipleship are mounted; does not change
  batches, batchesMade,    \* the batches, and how many there have been
  enrolled,                \* for every participant the enrollment
  sessions, sessionsMade,  \* the sessions of batch 1
  attended                 \* the attendance rows: the status, or "" for no row

records == <<batches, batchesMade, enrolled, sessions, sessionsMade, attended>>

(* The routes are mounted under "/events/church/discipleship"; both pages  *)
(* ask for URLs under the prefix they had before, so that a request of     *)
(* theirs finds no handler unless it is mounted there, too.                *)
Asked == "/discipleship"
Routed == Asked \in prefixes

Statuses == {"enrolled", "withdrawn"}
Nobody == [status |-> "never", batch |-> 0]
Cells == Participants \X (1..MaxSessions)
Enrolled == {p \in Participants : enrolled[p] # Nobody}

(* DiscipleshipEnrollmentController: a second enrollment is refused, and a *)
(* withdrawal only sets the status.                                        *)
storeEnrollment(p, batch) ==
  /\ enrolled[p] = Nobody /\ batch \in batches \cup {0}
  /\ enrolled' = [enrolled EXCEPT ![p] = [status |-> "enrolled", batch |-> batch]]
  /\ UNCHANGED <<batches, batchesMade, sessions, sessionsMade, attended>>

updateEnrollment(p, status, batch) ==
  /\ enrolled[p] # Nobody /\ batch \in batches \cup {0}
  /\ enrolled' = [enrolled EXCEPT ![p] = [status |-> status, batch |-> batch]]
  /\ UNCHANGED <<batches, batchesMade, sessions, sessionsMade, attended>>

destroyEnrollment(p) ==
  /\ enrolled[p] # Nobody
  /\ enrolled' = [enrolled EXCEPT ![p].status = "withdrawn"]
  /\ UNCHANGED <<batches, batchesMade, sessions, sessionsMade, attended>>

storeBatch ==
  /\ batchesMade < MaxBatches /\ batchesMade' = batchesMade + 1
  /\ batches' = batches \cup {batchesMade'}
  /\ UNCHANGED <<enrolled, sessions, sessionsMade, attended>>

(* The enrollments of a deleted batch lose it; its sessions and their      *)
(* attendance go with it.                                                  *)
destroyBatch_KeepsPointers(b) ==
  /\ b \in batches /\ batches' = batches \ {b}
  /\ sessions' = IF b = 1 THEN {} ELSE sessions
  /\ attended' = IF b = 1 THEN [c \in Cells |-> ""] ELSE attended
  /\ UNCHANGED <<batchesMade, sessionsMade, enrolled>>

destroyBatch(b) ==
  /\ b \in batches /\ batches' = batches \ {b}
  /\ enrolled' = [p \in Participants |->
                    IF enrolled[p].batch = b THEN [enrolled[p] EXCEPT !.batch = 0] ELSE enrolled[p]]
  /\ sessions' = IF b = 1 THEN {} ELSE sessions
  /\ attended' = IF b = 1 THEN [c \in Cells |-> ""] ELSE attended
  /\ UNCHANGED <<batchesMade, sessionsMade>>

storeSession ==
  /\ 1 \in batches /\ sessionsMade < MaxSessions /\ sessionsMade' = sessionsMade + 1
  /\ sessions' = sessions \cup {sessionsMade'}
  /\ UNCHANGED <<batches, batchesMade, enrolled, attended>>

destroySession(s) ==
  /\ s \in sessions /\ sessions' = sessions \ {s}
  /\ attended' = [c \in Cells |-> IF c[2] = s THEN "" ELSE attended[c]]
  /\ UNCHANGED <<batches, batchesMade, enrolled, sessionsMade>>

(* DiscipleshipAttendanceController.bulkUpsert: all cells, or none when    *)
(* one is of no enrollment of the program or no session of the batch.      *)
bulkUpsert(status) ==
  /\ \A c \in DOMAIN status : c[1] \in Enrolled /\ c[2] \in sessions
  /\ attended' = [c \in Cells |-> IF c \in DOMAIN status THEN status[c] ELSE attended[c]]
  /\ UNCHANGED <<batches, batchesMade, enrolled, sessions, sessionsMade>>

(* Whoever else reaches the handlers, at URLs that are mounted; "excused"  *)
(* is in older rows.                                                       *)
OtherOperators ==
  \/ \E p \in Participants, b \in batches \cup {0} : storeEnrollment(p, b)
  \/ \E p \in Participants, st \in Statuses, b \in batches \cup {0} : updateEnrollment(p, st, b)
  \/ \E b \in batches : destroyBatch(b)
  \/ \E s \in sessions : destroySession(s)
  \/ \E c \in Enrolled \X sessions, st \in {"present", "absent"} : bulkUpsert([x \in {c} |-> st])

RecordsInit ==
  /\ batches = {1} /\ batchesMade = 1
  /\ enrolled \in [Participants -> {Nobody, [status |-> "enrolled", batch |-> 1]}]
  /\ sessions = {1} /\ sessionsMade = 1
  /\ attended \in {[c \in Cells |-> IF c[2] = 1 /\ c[1] \in Enrolled THEN st ELSE ""]
                     : st \in {"", "present", "excused"}}

-----------------------------------------------------------------------------
(* Every enrollment points at a batch that exists or at none, and every    *)
(* attendance row is of an enrolled participant at a session that exists - *)
(* whichever of them are deleted, in whichever order.                      *)
NoDangling ==
  /\ \A p \in Participants : enrolled[p].batch \in batches \cup {0}
  /\ \A c \in Cells : attended[c] # "" => c[1] \in Enrolled /\ c[2] \in sessions
=============================================================================
