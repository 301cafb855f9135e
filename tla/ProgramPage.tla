------------------------------ MODULE ProgramPage ------------------------------
(***************************************************************************)
(* The page of a discipleship program: the enrollments under a search and  *)
(* two filters, and the dialogs that create, rename and delete batches and *)
(* that enroll a participant, edit an enrollment and withdraw it.  One     *)
(* visit at a time, as on the other pages: a new one takes the place of    *)
(* the one in progress, which the server may have handled.                 *)
(***************************************************************************)
EXTENDS DiscipleshipRecords

VARIABLES
  address,           \* the query of the address
  given,             \* the props: filters, rows (enrollments), batches
  localSearch,
  timer,             \* the search that waits for 300 ms, or NoTimer
  dialog,            \* the dialog that is open, with its form
  fetches,           \* the participant searches without an answer yet
  visit              \* the visit in progress

pageVars == <<address, given, localSearch, timer, dialog, fetches, visit>>

Query(q, status, batch) == [q |-> q, status |-> status, batch |-> batch]
Bare == Query("", "all", "all")
NoTimer == [none |-> TRUE]
NoDialog == [kind |-> "none"]
NoVisit == [op |-> "none", state |-> "none"]
NoOne == "nobody"

Searches == {""} \cup Participants
BatchFilters == {"all", "unassigned", "first"}
OfBatch(filter, batch) ==
  batch \in CASE filter = "all" -> 0..MaxBatches [] filter = "unassigned" -> {0} [] OTHER -> {1}

(* DiscipleshipController.show and participantSearch.                      *)
show(query) ==
  [filters |-> query, batches |-> batches,
   rows |-> [p \in {x \in Enrolled : /\ query.q \in {"", x}
                                     /\ query.status \in {"all", enrolled[x].status}
                                     /\ OfBatch(query.batch, enrolled[x].batch)} |-> enrolled[p]]]

participantSearch(q) ==
  [p \in {x \in Participants : q \in {"", x}} |-> p \in Enrolled]

-----------------------------------------------------------------------------
(* Visits.                                                                 *)

(* The dialog of a withdrawal closes when its visit ends, however it ends. *)
Ended == IF visit.op = "withdraw" /\ dialog.kind = "withdraw" THEN NoDialog ELSE dialog

Sent(v) == [f \in DOMAIN v \cup {"state", "mine"} |->
              CASE f = "state" -> "sent" [] f = "mine" -> TRUE [] OTHER -> v[f]]

Begin(v) == visit' = Sent(v) /\ dialog' = Ended
Processing == visit # NoVisit /\ visit.mine

Get(query) == Begin([op |-> "get", query |-> query])

(* A visit without a route is answered with 404: no page of the program.   *)
NotFound ==
  /\ ~ Routed /\ visit' = [visit EXCEPT !.state = "ended"] /\ UNCHANGED records

Controllers ==
  /\ Routed
  /\ \/ visit.op \in {"get", "rename"} /\ visit' = [visit EXCEPT !.state = "done"] /\ UNCHANGED records
     \/ /\ \/ visit.op = "add" /\ storeEnrollment(visit.who, visit.batch)
           \/ visit.op = "edit" /\ updateEnrollment(visit.who, visit.status, visit.batch)
           \/ visit.op = "withdraw" /\ destroyEnrollment(visit.who)
           \/ visit.op = "create" /\ storeBatch
           \/ visit.op = "delete" /\ destroyBatch(visit.batch)
        /\ visit' = [visit EXCEPT !.state = "done"]
     \/ /\ \/ visit.op \in {"add", "edit"} /\ visit.batch \notin batches \cup {0}
           \/ visit.op \in {"create", "rename"}
        /\ visit' = [visit EXCEPT !.state = "invalid"] /\ UNCHANGED records
     \/ /\ \/ visit.op = "add" /\ visit.who \in Enrolled
           \/ visit.op = "delete" /\ visit.batch \notin batches
        /\ visit' = [visit EXCEPT !.state = "ended"] /\ UNCHANGED records

HandleVisit ==
  /\ visit.state = "sent" /\ (Controllers \/ NotFound)
  /\ UNCHANGED <<address, given, localSearch, timer, dialog, fetches>>

(* An answer: a search reloads a part of the props; a change leads back to *)
(* the page without a query; errors lead back to the page as it was.  A    *)
(* change that is done closes the dialog of its kind.                      *)
AnswerArrives ==
  /\ visit.state \in {"done", "invalid", "ended"} /\ visit' = NoVisit
  /\ LET query == CASE visit.op = "get" -> visit.query
                    [] visit.op # "get" /\ visit.state = "done" -> Bare
                    [] OTHER -> address
         answer == show(query)
     IN IF visit.state = "ended" THEN dialog' = Ended /\ UNCHANGED <<address, given>>
        ELSE /\ address' = query
             /\ given' = IF visit.op = "get" THEN [answer EXCEPT !.batches = given.batches] ELSE answer
             /\ dialog' = IF visit.state = "done" /\ dialog.kind = visit.op THEN NoDialog ELSE Ended
  /\ fetches' = IF dialog'.kind = "add" THEN fetches ELSE {}
  /\ UNCHANGED <<records, localSearch, timer>>

-----------------------------------------------------------------------------
(* Search and filters.                                                     *)
NoModal == dialog = NoDialog

(* The search that waits knows the filters of the moment it was typed.     *)
typeSearch(text) ==
  /\ NoModal /\ text # localSearch /\ localSearch' = text
  /\ timer' = [text |-> text, filters |-> given.filters]
  /\ UNCHANGED <<records, address, given, dialog, fetches, visit>>

SearchFires ==
  /\ timer # NoTimer /\ timer' = NoTimer
  /\ IF timer.text = timer.filters.q THEN UNCHANGED <<visit, dialog>>
     ELSE Get([timer.filters EXCEPT !.q = timer.text])
  /\ UNCHANGED <<records, address, given, localSearch, fetches>>

applyFilter(key, value) ==
  /\ NoModal /\ Get([given.filters EXCEPT ![key] = value])
  /\ UNCHANGED <<records, address, given, localSearch, timer, fetches>>

(* Emptying the box is a change of it: a search for nothing waits, too.    *)
clearFilters ==
  /\ NoModal /\ given.filters # Bare
  /\ localSearch' = ""
  /\ timer' = IF localSearch = "" THEN timer ELSE [text |-> "", filters |-> given.filters]
  /\ Get(Bare)
  /\ UNCHANGED <<records, address, given, fetches>>

-----------------------------------------------------------------------------
(* Dialogs.                                                                *)
Show(d) ==
  /\ NoModal /\ dialog' = d
  /\ UNCHANGED <<records, address, given, localSearch, timer, fetches, visit>>

Fill(d) ==
  /\ d # dialog /\ dialog' = d
  /\ UNCHANGED <<records, address, given, localSearch, timer, fetches, visit>>

Submit(v) ==
  /\ ~ Processing /\ Begin(v)
  /\ UNCHANGED <<records, address, given, localSearch, timer, fetches>>

(* Cancel, Escape or the close button; a visit in progress goes on.        *)
onOpenChange ==
  /\ dialog # NoDialog /\ dialog' = NoDialog /\ fetches' = {}
  /\ visit' = IF visit = NoVisit THEN visit ELSE [visit EXCEPT !.mine = FALSE]
  /\ UNCHANGED <<records, address, given, localSearch, timer>>

(* A batch is created or renamed in a form, and deleted after a question.  *)
BatchFormDialog ==
  \/ Show([kind |-> "create"])
  \/ \E b \in given.batches : Show([kind |-> "rename", batch |-> b])
  \/ dialog.kind \in {"create", "rename"} /\ Submit([op |-> dialog.kind])

deleteBatch ==
  \/ \E b \in given.batches : Show([kind |-> "delete", batch |-> b])
  \/ /\ dialog.kind = "delete"
     /\ visit' = [op |-> "delete", batch |-> dialog.batch, state |-> "sent", mine |-> FALSE]
     /\ dialog' = NoDialog
     /\ UNCHANGED <<records, address, given, localSearch, timer, fetches>>

(* A participant is searched for, picked, and enrolled.                    *)
openAdd ==
  Show([kind |-> "add", query |-> "", due |-> TRUE, results |-> [p \in {} |-> TRUE],
        selected |-> NoOne, participant_id |-> NoOne, batch |-> 0])

(* A search is sent 250 ms after the box was changed, while nobody is      *)
(* picked; the answers may come in any order.                              *)
fetchParticipants ==
  /\ dialog.kind = "add" /\ dialog.due /\ dialog.selected = NoOne
  /\ dialog' = [dialog EXCEPT !.due = FALSE] /\ fetches' = fetches \cup {dialog.query}
  /\ UNCHANGED <<records, address, given, localSearch, timer, visit>>

(* The list, or an empty one when the search failed or has no route.       *)
fetched(q) ==
  /\ fetches' = fetches \ {q}
  /\ \E found \in {participantSearch(q), [p \in {} |-> TRUE]} :
       /\ Routed \/ found = [p \in {} |-> TRUE]
       /\ dialog' = [dialog EXCEPT !.results = found]
  /\ UNCHANGED <<records, address, given, localSearch, timer, visit>>

pick(p) ==
  /\ dialog.selected = NoOne /\ p \in DOMAIN dialog.results /\ ~ dialog.results[p]
  /\ Fill([dialog EXCEPT !.selected = p, !.participant_id = p, !.due = FALSE])

clearPick_ShownOnly ==
  /\ dialog.selected # NoOne
  /\ Fill([dialog EXCEPT !.selected = NoOne, !.query = "", !.due = TRUE])

clearPick ==
  /\ dialog.selected # NoOne
  /\ Fill([dialog EXCEPT !.selected = NoOne, !.participant_id = NoOne, !.query = "", !.due = TRUE])

AddEnrollmentDialog ==
  /\ dialog.kind = "add"
  /\ \/ \E q \in Searches : /\ dialog.selected = NoOne /\ q # dialog.query
                            /\ Fill([dialog EXCEPT !.query = q, !.due = TRUE])
     \/ \E p \in Participants : pick(p)
     \/ clearPick
     \/ \E b \in given.batches \cup {0} : Fill([dialog EXCEPT !.batch = b])
     \/ /\ dialog.selected # NoOne
        /\ Submit([op |-> "add", who |-> dialog.participant_id, batch |-> dialog.batch])

(* An enrollment is edited from the row as it was shown.                   *)
openEdit ==
  \E p \in DOMAIN given.rows :
    Show([kind |-> "edit", who |-> p, status |-> given.rows[p].status, batch |-> given.rows[p].batch])

EditEnrollmentDialog ==
  /\ dialog.kind = "edit"
  /\ \/ \E st \in Statuses : Fill([dialog EXCEPT !.status = st])
     \/ \E b \in given.batches \cup {0} : Fill([dialog EXCEPT !.batch = b])
     \/ Submit([op |-> "edit", who |-> dialog.who, status |-> dialog.status, batch |-> dialog.batch])

WithdrawDialog ==
  \/ \E p \in DOMAIN given.rows :
       given.rows[p].status # "withdrawn" /\ Show([kind |-> "withdraw", who |-> p])
  \/ dialog.kind = "withdraw" /\ Submit([op |-> "withdraw", who |-> dialog.who])

-----------------------------------------------------------------------------
ProgramInit ==
  /\ address = Bare /\ given = show(Bare) /\ localSearch = "" /\ timer = NoTimer
  /\ dialog = NoDialog /\ fetches = {} /\ visit = NoVisit

ProgramGesture ==
  \/ \E text \in Searches : typeSearch(text)
  \/ \E st \in Statuses \cup {"all"} : applyFilter("status", st)
  \/ \E b \in BatchFilters : applyFilter("batch", b)
  \/ clearFilters \/ onOpenChange
  \/ BatchFormDialog \/ deleteBatch
  \/ openAdd \/ AddEnrollmentDialog \/ openEdit \/ EditEnrollmentDialog \/ WithdrawDialog

ProgramConsequence ==
  HandleVisit \/ AnswerArrives \/ SearchFires \/ fetchParticipants \/ \E q \in fetches : fetched(q)

-----------------------------------------------------------------------------
ProgramTypeOK ==
  /\ localSearch \in Searches /\ fetches \subseteq Searches
  /\ DOMAIN given.rows \subseteq Participants
  /\ visit.state \in {"none", "sent", "done", "invalid", "ended"}
  /\ dialog.kind \in {"none", "create", "rename", "delete", "add", "edit", "withdraw"}

(* The participant that the dialog of a new enrollment shows as picked is  *)
(* the one it would enroll, whoever was picked and changed before and      *)
(* whichever late answers replaced the list.                               *)
SelectedAgrees == dialog.kind = "add" => dialog.participant_id = dialog.selected
=============================================================================
