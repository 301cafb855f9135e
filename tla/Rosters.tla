-------------------------------- MODULE Rosters --------------------------------
(***************************************************************************)
(* The attendance pages of church activities: the list of a fellowship     *)
(* gathering with its groups, the two lists (members and first-timers) of  *)
(* a service, and the list of a church event with shared registration.     *)
(* The page is one operator's; others work on the same list directly.      *)
(* Every change is one request: the browser sends what the page shows, the *)
(* server locks the occurrence, checks, writes, and sends the page back.   *)
(***************************************************************************)
EXTENDS Naturals, Functions

CONSTANTS
  Persons,      \* church participants, found again by name and contact
  MaxRows       \* bound on the rows ever added

RosterConstants == MaxRows \in Nat /\ Persons # {} /\ "" \notin Persons

VARIABLES
  roster,       \* "fellowship", "service" or "church"
  rows, added,  \* the server: the rows by id, and how many were ever added
  groups,       \* the groups of a gathering
  closed,       \* moved to the shared workflow, or the church event ended
  shown,        \* the rows and the groups the page last received
  tab,          \* "member" or "first_timer"
  confirm,      \* the row whose removal the dialog asks about, or NoDialog
  adding,       \* the form of the dialog that adds a person, or NoDialog
  grouping,     \* the dialog of a group: the group renamed, "new", NoDialog
  request       \* the visit in progress, or NoRequest

list == <<roster, rows, added, groups, closed>>
dialogs == <<confirm, adding, grouping>>
rosterVars == <<list, shown, tab, dialogs, request>>

Statuses == {"present", "absent"}
Tracks == {"member", "first_timer"}
NoGroup == "none"
NoDialog == [none |-> TRUE]
NoRequest == [none |-> TRUE]

(* The lists of this roster: only a service has two.                       *)
Lists == IF roster = "service" THEN Tracks ELSE {"member"}

RowOf(p, track, status, group) ==
  [person |-> p, track |-> track, status |-> status, group |-> group]

-----------------------------------------------------------------------------
(* The server.                                                             *)

OnOtherTrack(p, track) == \E r \in DOMAIN rows : rows[r].person = p /\ rows[r].track # track
OnSameTrack(p, track) == \E r \in DOMAIN rows : rows[r].person = p /\ rows[r].track = track

WithRow(id, row) == [r \in DOMAIN rows \cup {id} |-> IF r = id THEN row ELSE rows[r]]

store_ThisTrackOnly(p, track, group) ==
  /\ ~ closed /\ roster # "church" /\ added < MaxRows
  /\ ~ OnSameTrack(p, track)
  /\ group \in groups \cup {NoGroup}
  /\ added' = added + 1
  /\ rows' = WithRow(added', RowOf(p, track, "present", group))
  /\ UNCHANGED groups

store(p, track, group) ==
  /\ ~ closed /\ roster # "church" /\ added < MaxRows
  /\ ~ OnOtherTrack(p, track) /\ ~ OnSameTrack(p, track)
  /\ group \in groups \cup {NoGroup}
  /\ added' = added + 1
  /\ rows' = WithRow(added', RowOf(p, track, "present", group))
  /\ UNCHANGED groups

markRow(r, status, group) ==
  /\ ~ closed /\ r \in DOMAIN rows
  /\ group \in groups \cup {NoGroup}
  /\ status = "unmarked" => roster = "church"
  /\ rows' = [rows EXCEPT ![r].status = status, ![r].group = group]
  /\ UNCHANGED <<added, groups>>

destroyRow(r) ==
  /\ ~ closed /\ roster # "church" /\ r \in DOMAIN rows
  /\ rows' = Restrict(rows, DOMAIN rows \ {r})
  /\ UNCHANGED <<added, groups>>

(* A group keeps its id; deleting it leaves its rows without a group.      *)
storeGroup == ~ closed /\ groups = {} /\ groups' = {"g"} /\ UNCHANGED <<rows, added>>
destroyGroup(g) ==
  /\ ~ closed /\ g \in groups /\ groups' = groups \ {g}
  /\ rows' = [r \in DOMAIN rows |->
                IF rows[r].group = g THEN [rows[r] EXCEPT !.group = NoGroup] ELSE rows[r]]
  /\ UNCHANGED added

Performed(q) ==
  \/ q.op = "add" /\ store(q.person, q.track, q.group)
  \/ q.op = "mark" /\ markRow(q.row, q.status, q.group)
  \/ q.op = "remove" /\ destroyRow(q.row)
  \/ q.op = "group" /\ storeGroup
  \/ q.op = "rename" /\ ~ closed /\ q.group \in groups /\ UNCHANGED <<rows, added, groups>>
  \/ q.op = "ungroup" /\ destroyGroup(q.group)

Bridged(q) == q.op = "activate" /\ ~ closed /\ closed' = TRUE /\ UNCHANGED <<rows, added, groups>>

(* The request of this page, if it is not refused; and those of others.    *)
HandleRequest ==
  /\ request # NoRequest /\ request.state = "sent"
  /\ \/ Performed(request.ask) /\ request' = [request EXCEPT !.state = "done"] /\ UNCHANGED closed
     \/ Bridged(request.ask) /\ request' = [request EXCEPT !.state = "done"]
  /\ UNCHANGED <<roster, shown, tab, dialogs>>

Others ==
  /\ \/ /\ UNCHANGED closed
        /\ \/ \E p \in Persons, t \in Lists, g \in groups \cup {NoGroup} : store(p, t, g)
           \/ \E r \in DOMAIN rows, st \in Statuses : markRow(r, st, rows[r].group)
           \/ \E r \in DOMAIN rows : destroyRow(r)
           \/ \E g \in groups : destroyGroup(g)
     \/ ~ closed /\ closed' = TRUE /\ UNCHANGED <<rows, added, groups>>
  /\ UNCHANGED <<roster, shown, tab, dialogs, request>>

-----------------------------------------------------------------------------
(* The page.                                                               *)
Send(q) == request' = [ask |-> q, state |-> "sent"]
Busy(ops) == request # NoRequest /\ request.ask.op \in ops
Modal == confirm # NoDialog \/ adding.open \/ grouping # NoDialog

(* The rows in view: one of the two lists of a service.                    *)
Visible == {r \in DOMAIN shown.rows : roster # "service" \/ shown.rows[r].track = tab}

setTab ==
  /\ roster = "service" /\ ~ Modal /\ tab' \in Tracks \ {tab}
  /\ adding' = [open |-> FALSE, person |-> "", group |-> NoGroup]
  /\ UNCHANGED <<list, shown, confirm, grouping, request>>

(* The select of the status: the group goes with it as it is shown.        *)
updateStatus(r, status) ==
  /\ ~ Modal /\ r \in Visible /\ status # shown.rows[r].status
  /\ roster = "church" => ~ shown.closed
  /\ status = "unmarked" => roster = "church"
  /\ Send([op |-> "mark", row |-> r, status |-> status, group |-> shown.rows[r].group])
  /\ UNCHANGED <<list, shown, tab, dialogs>>

(* The select of the group: the status goes with it as it is shown.        *)
updateGroup(r, group) ==
  /\ ~ Modal /\ roster = "fellowship" /\ r \in Visible /\ group # shown.rows[r].group
  /\ Send([op |-> "mark", row |-> r, status |-> shown.rows[r].status, group |-> group])
  /\ UNCHANGED <<list, shown, tab, dialogs>>

(* The dialog that asks before a removal holds what it will send.          *)
confirmDeleteRow(r) ==
  /\ ~ Modal /\ roster # "church" /\ r \in Visible
  /\ confirm' = [op |-> "remove", row |-> r]
  /\ UNCHANGED <<list, shown, tab, adding, grouping, request>>

confirmDeleteGroup(g) ==
  /\ ~ Modal /\ roster = "fellowship" /\ g \in shown.groups
  /\ confirm' = [op |-> "ungroup", group |-> g]
  /\ UNCHANGED <<list, shown, tab, adding, grouping, request>>

handleConfirm ==
  /\ confirm # NoDialog /\ confirm' = NoDialog /\ Send(confirm)
  /\ UNCHANGED <<list, shown, tab, adding, grouping>>

closeConfirm ==
  /\ confirm # NoDialog /\ confirm' = NoDialog
  /\ UNCHANGED <<list, shown, tab, adding, grouping, request>>

(* The dialog that adds a person keeps what was entered when it is closed. *)
openAdd ==
  /\ ~ Modal /\ roster # "church" /\ adding' = [adding EXCEPT !.open = TRUE]
  /\ UNCHANGED <<list, shown, tab, confirm, grouping, request>>

EnterPerson ==
  /\ adding.open
  /\ \E p \in Persons, g \in IF roster = "fellowship" THEN shown.groups \cup {NoGroup} ELSE {NoGroup} :
       adding' = [open |-> TRUE, person |-> p, group |-> g] /\ adding' # adding
  /\ UNCHANGED <<list, shown, tab, confirm, grouping, request>>

submitAdd ==
  /\ adding.open /\ adding.person # "" /\ ~ Busy({"add"})
  /\ Send([op |-> "add", person |-> adding.person, track |-> tab, group |-> adding.group])
  /\ UNCHANGED <<list, shown, tab, dialogs>>

cancelAdd ==
  /\ adding.open /\ adding' = [adding EXCEPT !.open = FALSE]
  /\ UNCHANGED <<list, shown, tab, confirm, grouping, request>>

openGroup ==
  /\ ~ Modal /\ roster = "fellowship"
  /\ grouping' \in {[group |-> g] : g \in shown.groups \cup {"new"}}
  /\ UNCHANGED <<list, shown, tab, confirm, adding, request>>

saveGroup ==
  /\ grouping # NoDialog /\ ~ Busy({"group", "rename"})
  /\ Send([op |-> IF grouping.group = "new" THEN "group" ELSE "rename", group |-> grouping.group])
  /\ UNCHANGED <<list, shown, tab, dialogs>>

closeGroup ==
  /\ grouping # NoDialog /\ grouping' = NoDialog
  /\ UNCHANGED <<list, shown, tab, confirm, adding, request>>

activate ==
  /\ ~ Modal /\ roster # "church" /\ Send([op |-> "activate"])
  /\ UNCHANGED <<list, shown, tab, dialogs>>

(* What the page shows after an answer; also when the operator looks again *)
(* (a visit of the page).                                                  *)
Fresh == [rows |-> rows, groups |-> groups, closed |-> closed]

(* The answer: a dialog of the kind that asked is closed and cleared,      *)
(* whichever one is open by then.                                          *)
AnsweredDone ==
  /\ request # NoRequest /\ request.state = "done" /\ request' = NoRequest
  /\ shown' = Fresh
  /\ adding' = IF request.ask.op = "add"
               THEN [open |-> FALSE, group |-> NoGroup,
                     person |-> IF request.ask.track = tab THEN "" ELSE adding.person] 
               ELSE adding
  /\ grouping' = IF request.ask.op \in {"group", "rename"} THEN NoDialog ELSE grouping
  /\ UNCHANGED <<list, tab, confirm>>

(* A refusal (404, 409, 422), or no answer: the page stays as it is.       *)
AnsweredNot ==
  /\ request # NoRequest /\ request' = NoRequest
  /\ UNCHANGED <<list, shown, tab, dialogs>>

Visit ==
  /\ request = NoRequest /\ ~ Modal /\ shown # Fresh /\ shown' = Fresh
  /\ UNCHANGED <<list, tab, dialogs, request>>

RosterInit ==
  /\ roster \in {"fellowship", "service", "church"}
  /\ rows = IF roster # "church" THEN <<>>
            ELSE [r \in 1..1 |-> RowOf(CHOOSE p \in Persons : TRUE, "member", "unmarked", NoGroup)]
  /\ added = 0 /\ groups = {} /\ closed = FALSE
  /\ shown = Fresh /\ tab = "member" /\ confirm = NoDialog
  /\ adding = [open |-> FALSE, person |-> "", group |-> NoGroup]
  /\ grouping = NoDialog /\ request = NoRequest

(* What happens on this page; Others is what may happen besides.           *)
RosterNext ==
  \/ HandleRequest \/ setTab
  \/ (\E r \in DOMAIN shown.rows, s \in Statuses \cup {"unmarked"} : updateStatus(r, s))
  \/ (\E r \in DOMAIN shown.rows, g \in shown.groups \cup {NoGroup} : updateGroup(r, g))
  \/ (\E r \in DOMAIN shown.rows : confirmDeleteRow(r))
  \/ (\E g \in shown.groups : confirmDeleteGroup(g)) \/ handleConfirm \/ closeConfirm
  \/ openAdd \/ EnterPerson \/ submitAdd \/ cancelAdd
  \/ openGroup \/ saveGroup \/ closeGroup \/ activate
  \/ AnsweredDone \/ AnsweredNot \/ Visit

-----------------------------------------------------------------------------
RosterTypeOK ==
  /\ roster \in {"fellowship", "service", "church"} /\ added \in 0..MaxRows
  /\ \A r \in DOMAIN rows : rows[r].person \in Persons /\ rows[r].track \in Lists
  /\ tab \in Lists /\ closed \in BOOLEAN

(* Nobody is on the list of an occurrence twice, on one list or on both    *)
(* lists of a service, and every row is in a group that still exists:      *)
(* whatever the operators send at the same time, from pages that show an   *)
(* older list.                                                             *)
ListSound ==
  /\ \A r, s \in DOMAIN rows : rows[r].person = rows[s].person => r = s
  /\ \A r \in DOMAIN rows : rows[r].group \in groups \cup {NoGroup}
=============================================================================
