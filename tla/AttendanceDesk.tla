---------------------------- MODULE AttendanceDesk ----------------------------
(***************************************************************************)
(* The attendance page of a running event: looking a registration up by    *)
(* its code or by name, marking it, and entering walk-ins and paper forms. *)
(* The page shows what the last answer of the server said, holds what is   *)
(* typed in its boxes, a search that waits for 300 ms, and one visit       *)
(* (request) at a time: a new one takes the place of the one in progress,  *)
(* whose answer is then ignored, but which the server may have handled.    *)
(*                                                                         *)
(* Registration i is regs[i] and has the code i; 0 stands for no code and  *)
(* no registration, "" for no name and no search.                          *)
(***************************************************************************)
EXTENDS Naturals, Sequences

CONSTANTS
  Names,       \* names of people, which are also what is searched for
  Registered,  \* the names on the list at first, in the order of the ids
  IsAdmin,     \* the operator is an admin
  MaxRegs      \* bound on the registrations

DeskConstants ==
  /\ MaxRegs \in Nat /\ "" \notin Names
  /\ \A names \in Registered :
       \E n \in 1..MaxRegs : names \in [1..n -> Names]

VARIABLES
  phase, regs,           \* the server: the event, and its registrations
  url,                   \* the query in the address of the page
  props,                 \* what the server's answers gave the page
  search, codeBox,       \* localSearch and localCode
  message, marking,      \* checkInMessage is shown; the row being marked
  timer,                 \* the search that waits, or NoTimer
  mode,                  \* "check-in", or the walk-in form: "quick", "paper"
  entry,                 \* the walk-in form
  asked, found,          \* EncoderNameSearch: the name asked for, the result
  visit                  \* the visit in progress, or NoVisit

server == <<phase, regs>>
given == <<url, props>>
boxes == <<search, codeBox, message, timer>>
walkIn == <<mode, entry, asked, found>>
deskVars == <<server, given, boxes, marking, walkIn, visit>>

Filters == {"all", "present"}
Query(q, code, filter, force) == [q |-> q, code |-> code, filter |-> filter, force |-> force]
Bare(force) == Query("", 0, "all", force)

NoTimer == [none |-> TRUE]
NoVisit == [none |-> TRUE]
NoPost == [kind |-> "none"]
NoEntry == [name |-> "", force |-> FALSE]
NoResult == [query |-> "", matches |-> {}]

codeActive == props.code # 0

-----------------------------------------------------------------------------
(* The server.                                                             *)

Matches(i, query) ==
  IF query.code # 0 THEN i = query.code
  ELSE /\ query.q \in {"", regs[i].name}
       /\ query.filter \in {"all", regs[i].status}

show(query) ==
  LET over == IsAdmin /\ query.force /\ phase # "completed"
  IN  [rows |-> [i \in {j \in DOMAIN regs : Matches(j, query)} |-> regs[i].status],
       q |-> query.q, filter |-> query.filter, code |-> query.code,
       force_open |-> over, read_only |-> phase = "completed",
       can_mark |-> over \/ phase = "day"]

Writable(force) == phase # "completed" /\ ((IsAdmin /\ force) \/ phase = "day")

Marked(i, status, code) ==
  [regs EXCEPT ![i].status = status,
               ![i].verified = status = "present" /\ (@ \/ code = i)]

(* What a request of the page does: done, refused (403, or 404), or sent   *)
(* back with an error in the form.                                         *)
Handled(post) ==
  LET ok == Writable(post.force)
  IN \/ ~ ok /\ visit' = [visit EXCEPT !.state = "refused"] /\ UNCHANGED regs
     \/ /\ ok /\ post.kind \in {"mark", "match"}
        /\ regs' = Marked(post.id, post.status, post.code)
        /\ visit' = [visit EXCEPT !.state = "done"]
     \/ /\ ok /\ post.kind \in {"quick", "paper"} /\ Len(regs) < MaxRegs
        /\ post.kind = "paper" => \A i \in DOMAIN regs : regs[i].name # post.name
        /\ regs' = Append(regs, [name |-> post.name, status |-> "present", verified |-> FALSE])
        /\ visit' = [visit EXCEPT !.state = "done"]
     \/ /\ ok /\ post.kind = "paper" /\ \E i \in DOMAIN regs : regs[i].name = post.name
        /\ visit' = [visit EXCEPT !.state = "invalid"] /\ UNCHANGED regs

Handle ==
  /\ visit # NoVisit /\ visit.state = "sent" /\ visit.post # NoPost
  /\ Handled(visit.post)
  /\ UNCHANGED <<phase, given, boxes, marking, walkIn>>

(* Another desk, and the day.                                              *)
OtherDesk ==
  /\ phase = "day"
  /\ \E i \in DOMAIN regs, s \in {"present", "absent"} : regs' = Marked(i, s, 0)
  /\ UNCHANGED <<phase, given, boxes, marking, walkIn, visit>>

Day ==
  /\ phase' = CASE phase = "before" -> "day" [] phase = "day" -> "after"
                [] phase = "after" -> "completed" [] OTHER -> phase
  /\ UNCHANGED <<regs, given, boxes, marking, walkIn, visit>>

-----------------------------------------------------------------------------
(* The page.                                                               *)

(* The search waits with what the page knew when it was typed.             *)
Waiting(p, typed) ==
  IF p.code # 0 THEN NoTimer
  ELSE [old |-> p.q, query |-> Query(typed, 0, p.filter, p.force_open)]

(* The query of the page as it is now.                                     *)
sharedQuery_DropsCode(force) == Query(search, 0, props.filter, force)

sharedQuery(force) ==
  IF codeActive THEN Query("", props.code, "all", force)
  ELSE Query(search, 0, props.filter, force)

(* A visit begins.  The one it replaces ends without an answer: the page   *)
(* stops showing a row, or a form, as being saved.                         *)
Begin(query, only, post) ==
  visit' = [query |-> query, only |-> only, post |-> post, state |-> "sent", fresh |-> FALSE]

(* New props, and the effects that depend on them.                         *)
Receive(new) ==
  /\ props' = new
  /\ codeBox' = IF new.code # props.code THEN new.code ELSE codeBox
  /\ timer' = IF (new.code = 0) # (props.code = 0) THEN Waiting(new, search) ELSE timer

Merged(only, new) ==
  [k \in DOMAIN props |-> IF k \in only THEN new[k] ELSE props[k]]

All == {"rows", "q", "filter", "code", "can_mark", "force_open", "read_only"}
Search == {"rows", "q", "filter", "code"}

(* The page mounts with the answer to a query.                             *)
Mounted(query) ==
  /\ url' = query /\ props' = show(query)
  /\ search' = query.q /\ codeBox' = query.code /\ message' = FALSE /\ marking' = 0
  /\ timer' = Waiting(props', query.q)
  /\ mode' = "check-in" /\ entry' = NoEntry /\ asked' = "" /\ found' = NoResult

DeskInit ==
  /\ phase = "before"
  /\ \E names \in Registered :
       regs = [i \in DOMAIN names |-> [name |-> names[i], status |-> "none", verified |-> FALSE]]
  /\ url = Bare(FALSE) /\ props = show(Bare(FALSE))
  /\ search = "" /\ codeBox = 0 /\ message = FALSE /\ marking = 0
  /\ timer = Waiting(props, "")
  /\ mode = "check-in" /\ entry = NoEntry /\ asked = "" /\ found = NoResult
  /\ visit = NoVisit

typeSearch ==
  /\ mode = "check-in" /\ ~ codeActive
  /\ search' \in Names \cup {""} /\ search' # search
  /\ timer' = Waiting(props, search')
  /\ UNCHANGED <<server, given, codeBox, message, marking, walkIn, visit>>

SearchFires ==
  /\ timer # NoTimer /\ timer' = NoTimer
  /\ IF timer.query.q = timer.old THEN UNCHANGED <<marking, visit>>
     ELSE Begin(timer.query, Search, NoPost) /\ marking' = 0
  /\ UNCHANGED <<server, given, search, codeBox, message, walkIn>>

typeCode ==
  /\ mode = "check-in" /\ codeBox' \in 0..MaxRegs /\ codeBox' # codeBox
  /\ UNCHANGED <<server, given, search, message, timer, marking, walkIn, visit>>

(* Enter submits the form also when its button reads "Clear code".         *)
submitCode ==
  /\ mode = "check-in" /\ (codeActive \/ codeBox # 0)
  /\ message' = FALSE
  /\ IF codeBox = 0 THEN UNCHANGED <<marking, visit>>
     ELSE Begin(Query("", codeBox, "all", props.force_open), Search, NoPost) /\ marking' = 0
  /\ UNCHANGED <<server, given, search, codeBox, timer, walkIn>>

clearCode ==
  /\ mode = "check-in" /\ codeActive
  /\ codeBox' = 0
  /\ Begin(Bare(props.force_open), Search, NoPost) /\ marking' = 0
  /\ UNCHANGED <<server, given, search, message, timer, walkIn>>

(* The two buttons of a row of the table, and the one of the card that     *)
(* shows whose code was looked up.                                         *)
rowButton(i, status) == marking # i /\ (status = "present" => props.rows[i] # "present")
codeCard(status) == codeActive /\ status = "present" /\ marking = 0

(* Replacing the mark of another row ends that one, which also clears      *)
(* "marking".                                                              *)
mark(i, status) ==
  /\ mode = "check-in" /\ props.can_mark /\ i \in DOMAIN props.rows
  /\ rowButton(i, status) \/ codeCard(status)
  /\ marking' = IF visit # NoVisit /\ visit.post.kind = "mark" THEN 0 ELSE i
  /\ Begin(url, {"rows"},
           [kind |-> "mark", id |-> i, status |-> status, force |-> props.force_open,
            code |-> IF codeActive /\ status = "present" THEN props.code ELSE 0])
  /\ UNCHANGED <<server, given, boxes, walkIn>>

toggleForceOpen ==
  /\ IsAdmin /\ ~ props.read_only /\ (~ props.can_mark \/ props.force_open)
  /\ Begin(sharedQuery(~ props.force_open), {"can_mark", "force_open"}, NoPost)
  /\ marking' = 0
  /\ UNCHANGED <<server, given, boxes, walkIn>>

(* A chip keeps the search and drops the override.                         *)
go(filter) ==
  /\ mode = "check-in" /\ ~ codeActive /\ filter # props.filter
  /\ Begin(Query(search, 0, filter, FALSE), Search, NoPost) /\ marking' = 0
  /\ UNCHANGED <<server, given, boxes, walkIn>>

-----------------------------------------------------------------------------
(* Walk-ins and paper forms.  The quick form keeps the override it was     *)
(* opened with; the paper form posts the one in view.  The walk-in mode    *)
(* opens on the form that was used last.                                   *)
setMode(m) ==
  /\ m # mode /\ (props.can_mark \/ (mode # "check-in" /\ m # "check-in"))
  /\ mode' = m /\ entry' = [name |-> "", force |-> props.force_open]
  /\ asked' = "" /\ found' = NoResult
  /\ UNCHANGED <<server, given, boxes, marking, visit>>

processing == visit # NoVisit /\ visit.post.kind \in {"quick", "paper"}

(* Each name typed is looked up; the lookup of the one before is aborted.  *)
typeName ==
  /\ mode # "check-in" /\ ~ processing
  /\ \E n \in (Names \cup {""}) \ {entry.name} :
       entry' = [entry EXCEPT !.name = n] /\ asked' = n
  /\ UNCHANGED <<server, given, boxes, marking, mode, found, visit>>

NamesFound ==
  /\ asked # "" /\ asked' = ""
  /\ \E ids \in {{i \in DOMAIN regs : regs[i].name = asked}, {}} :
       found' = [query |-> asked, matches |-> ids]
  /\ UNCHANGED <<server, given, boxes, marking, mode, entry, visit>>

Offered_Unguarded == IF mode = "check-in" \/ entry.name = "" THEN {} ELSE found.matches

Offered ==
  IF mode = "check-in" \/ entry.name = "" \/ found.query # entry.name THEN {} ELSE found.matches

markMatch(i) ==
  /\ i \in Offered /\ ~ (visit # NoVisit /\ visit.post.kind = "match")
  /\ Begin(url, All, [kind |-> "match", id |-> i, status |-> "present",
                      force |-> props.force_open, code |-> 0])
  /\ marking' = 0
  /\ UNCHANGED <<server, given, boxes, walkIn>>

(* The link of a match opens the page anew, with a search for the name.    *)
openMatch(i) ==
  /\ i \in Offered
  /\ visit' = [query |-> Query(regs[i].name, 0, "all", FALSE), only |-> All,
              post |-> NoPost, state |-> "sent", fresh |-> TRUE]
  /\ marking' = 0
  /\ UNCHANGED <<server, given, boxes, walkIn>>

saveWalkIn ==
  /\ mode # "check-in" /\ entry.name # "" /\ ~ processing
  /\ Begin(Bare(FALSE), All, [kind |-> mode, name |-> entry.name,
       force |-> IF mode = "quick" THEN entry.force ELSE props.force_open])
  /\ marking' = 0
  /\ UNCHANGED <<server, given, boxes, walkIn>>

-----------------------------------------------------------------------------
(* Answers.                                                                *)

Answered ==
  /\ visit # NoVisit /\ visit.post = NoPost /\ visit' = NoVisit
  /\ IF visit.fresh THEN Mounted(visit.query)
     ELSE /\ url' = visit.query /\ Receive(Merged(visit.only, show(visit.query)))
          /\ UNCHANGED <<search, message, marking, walkIn>>
  /\ UNCHANGED server

(* The answer to a mark sends the browser back to the address it is at.    *)
(* After a mark by code the page says so and clears the code.              *)
CheckedIn_OnFinish ==
  /\ visit # NoVisit /\ visit.post.kind = "mark" /\ visit.state \in {"done", "refused"}
  /\ url' = url /\ marking' = 0
  /\ props' = Merged(visit.only, show(url))
  /\ IF visit.post.code = 0 THEN visit' = NoVisit /\ UNCHANGED <<message, codeBox>>
     ELSE message' = TRUE /\ codeBox' = 0 /\ Begin(Bare(visit.post.force), Search, NoPost)
  /\ UNCHANGED <<server, search, timer, walkIn>>

CheckedIn ==
  /\ visit # NoVisit /\ visit.post.kind = "mark" /\ visit.state = "done"
  /\ url' = url /\ marking' = 0
  /\ props' = Merged(visit.only, show(url))
  /\ IF visit.post.code = 0 THEN visit' = NoVisit /\ UNCHANGED <<message, codeBox>>
     ELSE message' = TRUE /\ codeBox' = 0 /\ Begin(Bare(visit.post.force), Search, NoPost)
  /\ UNCHANGED <<server, search, timer, walkIn>>

MatchMarked ==
  /\ visit # NoVisit /\ visit.post.kind = "match" /\ visit.state = "done"
  /\ visit' = NoVisit /\ url' = url /\ Receive(show(url))
  /\ UNCHANGED <<server, search, message, marking, walkIn>>

(* A saved walk-in leads to the bare page, without search or override; the *)
(* boxes stay as they are.                                                 *)
Saved ==
  /\ processing /\ visit.state = "done"
  /\ visit' = NoVisit /\ url' = visit.query /\ Receive(show(visit.query))
  /\ entry' = [entry EXCEPT !.name = ""] /\ asked' = ""
  /\ UNCHANGED <<server, search, message, marking, mode, found>>

Invalid ==
  /\ visit # NoVisit /\ visit.state = "invalid"
  /\ visit' = NoVisit /\ url' = url /\ Receive(show(url))
  /\ UNCHANGED <<server, search, message, marking, walkIn>>

(* Refused, or no answer at all: nothing but the end of the visit.         *)
Ended ==
  /\ visit # NoVisit /\ visit' = NoVisit /\ marking' = 0
  /\ UNCHANGED <<server, given, boxes, walkIn>>

(* What the operator, and another desk, may do at any time.                *)
Gesture ==
  \/ OtherDesk
  \/ typeSearch \/ typeCode \/ typeName
  \/ toggleForceOpen \/ (\E f \in Filters : go(f))
  \/ (\E m \in {"check-in", "quick", "paper"} : setMode(m))
  \/ (\E i \in DOMAIN regs, s \in {"present", "absent"} : mark(i, s))
  \/ (\E i \in DOMAIN regs : markMatch(i) \/ openMatch(i))

(* What follows from it, and the day.                                      *)
Consequence ==
  \/ Handle \/ Day
  \/ SearchFires \/ submitCode \/ clearCode \/ NamesFound \/ saveWalkIn
  \/ Answered \/ CheckedIn \/ MatchMarked \/ Saved \/ Invalid \/ Ended

-----------------------------------------------------------------------------
DeskTypeOK ==
  /\ phase \in {"before", "day", "after", "completed"} /\ Len(regs) \in 1..MaxRegs
  /\ search \in Names \cup {""} /\ codeBox \in 0..MaxRegs
  /\ message \in BOOLEAN /\ marking \in 0..MaxRegs
  /\ mode \in {"check-in", "quick", "paper"} /\ asked \in Names \cup {""}

(* While a code is active the list holds no registration but the one with  *)
(* that code, whatever was searched, filtered, overridden or marked        *)
(* before: the card, and the code it sends as the proof of presence, are   *)
(* of one person.                                                          *)
RowsOfCode == codeActive => DOMAIN props.rows \subseteq {props.code}

(* "Checked in successfully" appears only after the server has marked the  *)
(* very registration that was looked up by its code.                       *)
CheckInConfirmed ==
  [][message' /\ ~ message =>
       /\ visit.post.kind = "mark" /\ visit.state = "done"
       /\ visit.post.code = visit.post.id]_deskVars

(* The walk-in forms offer to mark only registrations under the name that  *)
(* is in the form now, although every name typed on the way is looked up.  *)
NamesOffered == \A i \in Offered : regs[i].name = entry.name
=============================================================================
