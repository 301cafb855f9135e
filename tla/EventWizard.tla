----------------------------- MODULE EventWizard -----------------------------
(***************************************************************************)
(* The wizard in which staff create and edit an event: one browser, one    *)
(* storage key, one event on the server that other staff edit as well.     *)
(***************************************************************************)
EXTENDS EventForm, Wizard

CONSTANTS Values(_),     \* what the user may enter in a part
          Partners,      \* rows of the partner editor
          MaxRows,       \* bound on the rows of the partner editor
          StartTime, MaxTime,    \* the server's clock runs from one to the other
          MaxEdits,      \* bound on the edits of other staff
          MaxLate,       \* bound on the keys typed while a request is out
          Pages,         \* the pages of this instance: flow, kind, and how far
                         \* the clock of their browser is ahead of the server's
          Stored         \* events an edit page may be opened for

ASSUME WizardAssumption ==
  /\ {StartTime, MaxTime, MaxEdits, MaxLate, MaxRows} \subseteq Nat /\ StartTime =< MaxTime
  /\ Pages \subseteq {"create", "edit"} \X Kinds \X Int
  /\ Partners \subseteq [name : PartnerNames, type : {"host", "sponsor"}]

VARIABLES
  flow, kind, ahead,  \* which page this is, and its clock; they do not change
  row,         \* the event on the server
  now, edits,  \* the server's clock, and edits of other staff so far
  late         \* history: keys typed while a request is out

world == <<flow, kind, ahead, row, now, edits>>
vars == <<page, draft, late, world>>

Blank == [p \in Parts |->
            CASE p = "basics" -> [event_name |-> "", description |-> "", church_activity_category |-> FALSE,
                                 details |-> "short"]
              [] p = "schedule" -> [event_date |-> None, start_time |-> None, end_time |-> None,
                                   distance_value |-> None]
              [] p = "venue" -> [venue |-> "", venue_address |-> "", venue_map_url |-> ""]
              [] p = "extras" -> << >>]

IsForm(d) ==
  /\ DOMAIN d = Parts
  /\ \A p \in Parts \ {"extras"} : d[p] \in Values(p)
  /\ d["extras"] \in BoundedSeq(Partners, MaxRows)

(* The values are closed under what the page does to them, and the events  *)
(* that are stored are forms.                                              *)
ASSUME ValuesAssumption ==
  /\ \A p \in Parts \ {"extras"} : Blank[p] \in Values(p)
  /\ \A v \in Values("venue") :
       [v EXCEPT !.venue_map_url = normalizeMapUrl(@)] \in Values("venue")
  /\ \A v \in Values("basics") : "church_activity_category" \in DOMAIN v
  /\ \A v \in Values("schedule") : {v.event_date, v.start_time, v.end_time} \subseteq Int
  /\ [name |-> "", type |-> "host"] \in Partners
  /\ \A d \in Stored : IsForm(d)

Steps == IF flow = "create" THEN CreateSteps(kind) ELSE EditSteps(kind)
Last_ == Len(Steps)

ServerClock == Clock(now)
BrowserClock == Clock(now + ahead)

validate(i, d) ==
  CASE PartOf(i) = "basics" -> validateBasics(d["basics"], IF flow = "edit" THEN "church" ELSE kind)
    [] PartOf(i) = "schedule" -> validateSchedule(d["schedule"], kind, BrowserClock)
    [] PartOf(i) = "venue" -> validateVenue(d["venue"])
    [] PartOf(i) = "extras" -> validateExtras(d["extras"])

checks(d) == [i \in DOMAIN Steps |-> validate(i, d)]

TypeOK ==
  /\ <<flow, kind, ahead>> \in Pages /\ open \in BOOLEAN
  /\ IsForm(data) /\ IsForm(row)
  /\ cur \in 1..Last_ /\ max \in 1..Last_
  /\ stepErr \subseteq UNION ToSet(Steps)
  /\ sending = NoForm \/ IsForm(sending)
  /\ draft = NoDraft \/ (draft.step \in 1..Last_ /\ IsForm(draft.data))
  /\ now \in StartTime..MaxTime /\ edits \in 0..MaxEdits
  /\ late \in 0..MaxLate

Init ==
  /\ \E page_ \in Pages : flow = page_[1] /\ kind = page_[2] /\ ahead = page_[3]
  /\ row \in {d \in Stored : eventRules(d, kind, Clock(StartTime)) = {}} \cup {Blank}
  /\ (flow = "create") <=> (row = Blank)
  /\ data = Blank /\ cur = 1 /\ max = 1 /\ stepErr = {} /\ srvErr = {}
  /\ open = FALSE /\ sending = NoForm /\ draft = NoDraft
  /\ now = StartTime /\ edits = 0 /\ late = 0

-----------------------------------------------------------------------------
Open == Mount(row) /\ UNCHANGED <<late, world>>

Leave ==
  /\ open /\ sending = NoForm
  /\ Unmounted(Blank) /\ late' = 0
  /\ UNCHANGED <<draft, world>>

(* MAX_AGE_MS after the last save the snapshot is not read any more.       *)
Expire ==
  /\ ~ open /\ draft # NoDraft
  /\ draft' = NoDraft
  /\ UNCHANGED <<page, late, world>>

(* setData: a part of the step in view takes a new value.                  *)
setData(p, v, keys) ==
  /\ PartOf(cur) = p
  /\ sending # NoForm => late < MaxLate
  /\ LET d == [data EXCEPT ![p] = v]
     IN Type(Steps, checks(d), d, keys, flow = "create" /\ kind = "specialist")
  /\ late' = IF sending = NoForm THEN late ELSE late + 1
  /\ UNCHANGED world

(* One field of a part.                                                    *)
SetField(p, f) ==
  \E v \in Values(p) :
     /\ Changed(data[p], v) = {f}
     /\ setData(p, v, {f})

BasicsStep ==
  \E f \in {"event_name", "description", "details"} :
     /\ f = "details" => kind # "running"
     /\ SetField("basics", f)

(* An activity that was chosen can be changed, not taken back.             *)
ChooseActivity ==
  /\ flow = "create" /\ kind = "specialist" /\ ~ data["basics"].church_activity_category
  /\ SetField("basics", "church_activity_category")

ScheduleStep ==
  \E f \in {"event_date", "start_time", "end_time", "distance_value"} :
     /\ f = "distance_value" => kind = "running"
     /\ SetField("schedule", f)

VenueStep == \E f \in {"venue", "venue_address", "venue_map_url"} : SetField("venue", f)

LeaveMapUrl ==
  setData("venue", [data["venue"] EXCEPT !.venue_map_url = normalizeMapUrl(@)], {"venue_map_url"})

setPartners(partners) == setData("extras", partners, {"partners", "partners_name"})

addPartner ==
  /\ Len(data["extras"]) < MaxRows
  /\ setPartners(Append(data["extras"], [name |-> "", type |-> "host"]))

removePartner == \E i \in DOMAIN data["extras"] : setPartners(RemoveAt(data["extras"], i))

updatePartner ==
  \E i \in DOMAIN data["extras"], partner \in Partners :
     /\ partner # data["extras"][i]
     /\ partner.name = data["extras"][i].name \/ partner.type = data["extras"][i].type
     /\ setPartners([data["extras"] EXCEPT ![i] = partner])

handleNext == NextStep(Steps, checks(data)) /\ UNCHANGED <<late, world>>

handleBack == BackStep /\ UNCHANGED <<late, world>>

handleStepJump(i) == JumpTo(i) /\ UNCHANGED <<late, world>>

handleSubmit ==
  /\ Submit(Steps, checks(data), TRUE)
  /\ late' = IF sending' = sending THEN late ELSE 0
  /\ UNCHANGED world

-----------------------------------------------------------------------------
(* The answer: the page is left, or gets the errors, or nothing arrives.   *)
Accepted ==
  /\ sending # NoForm /\ eventRules(sending, kind, ServerClock) = {}
  /\ row' = IF flow = "edit" THEN sending ELSE row
  /\ Unmounted(Blank) /\ late' = 0
  /\ UNCHANGED <<draft, flow, kind, ahead, now, edits>>

Rejected ==
  /\ Refuse(Steps, checks(data), eventRules(sending, kind, ServerClock))
  /\ late' = 0 /\ UNCHANGED world

Unanswered == Unheard /\ late' = 0 /\ UNCHANGED world

-----------------------------------------------------------------------------
OtherEdits ==
  /\ flow = "edit" /\ edits < MaxEdits /\ edits' = edits + 1
  /\ \E d \in Stored :
       /\ d # row /\ eventRules(d, kind, ServerClock) = {}
       /\ row' = d
  /\ UNCHANGED <<page, draft, late, flow, kind, ahead, now>>

Tick ==
  /\ now < MaxTime /\ now' = now + 1
  /\ UNCHANGED <<page, draft, late, flow, kind, ahead, row, edits>>

Next == \/ Open \/ Leave \/ Expire
        \/ BasicsStep \/ ChooseActivity \/ ScheduleStep \/ VenueStep \/ LeaveMapUrl
        \/ addPartner \/ removePartner \/ updatePartner
        \/ handleNext \/ handleBack \/ (\E i \in 1..Last_ : handleStepJump(i))
        \/ handleSubmit \/ Accepted \/ Rejected \/ Unanswered
        \/ OtherEdits \/ Tick

Spec == Init /\ [][Next]_vars

-----------------------------------------------------------------------------
(* The variables have their types; the step in view never lies past the    *)
(* checkpoint, and the checkpoint of the draft is the page's; the draft    *)
(* holds what is typed (unless a submit removed it), and an error found by *)
(* the browser is one of the step in view: "safeMaxStep", the save effect  *)
(* and the live re-validation keep these in step.                          *)
WizardConsistent ==
  /\ TypeOK
  /\ open => /\ cur <= max
             /\ draft # NoDraft => draft = Snapshot(max, data)
             /\ stepErr \subseteq Steps[cur]
             /\ draft = NoDraft /\ sending # NoForm => data = sending

(* A rejected submit leaves the page on a step that owns an error, so that *)
(* no form is refused without a word: the step lists own every key the     *)
(* rules of the server report.                                             *)
RejectionShown == [][Rejected => Steps[cur'] \cap srvErr' # {}]_vars

(* "going back doesn't reduce the checkpoint" (wizard.tsx): neither does   *)
(* leaving and coming back while the draft lives.                          *)
CheckpointKept ==
  [][draft # NoDraft /\ draft' # NoDraft => draft'.step >= draft.step]_vars

(* An accepted submit leaves no draft behind that would fill the next form *)
(* with the event just made, unless keys were typed while it was out.      *)
AcceptedLeavesNoDraft == [][Accepted /\ late = 0 => draft' = NoDraft]_vars

(* What the browser may refuse although the server would take it: a text   *)
(* that is too long in UTF-16 units only, or a link with an odd space; an  *)
(* event that has begun by a clock that is ahead of the server's, or lies  *)
(* two years ahead by one that is behind; and partners whose names differ  *)
(* in the case of a letter outside ASCII.                                  *)
OddBasics(v) ==
  Fails("event_name", v.event_name = "wide") \cup Fails("description", v.description = "wide")

OddVenue(v) ==
  Fails("venue", v.venue = "wide") \cup Fails("venue_address", v.venue_address = "wide")
    \cup Fails("venue_map_url", v.venue_map_url \in LinksOfServer \ LinksOfBrowser)

OddClock(v, clock, lead) ==
  IF lead > 0 /\ Passed(v, clock) THEN {"event_date", "start_time"}
  ELSE Fails("event_date", lead < 0 /\ v.event_date > clock.day + MaxAhead)

OddPartners(partners) ==
  LET names == {partners[i].name : i \in DOMAIN partners}
  IN  IF {"ano", "Ano"} \subseteq names THEN {"partners", "partners_name"}
      ELSE Fails("partners_name", "wide" \in names)

(* That holds for every text, every link and every editor of two partners, *)
(* and for every date and start around a midnight and two clocks that are  *)
(* up to an hour apart.                                                    *)
Texts == {"", "short", "thin", "good", "mashed", "taken", "wide", "long"}
Links == LinksOfServer \cup {"google, no scheme", "google, long", "elsewhere"}

TextsAgree ==
  /\ \A v \in [event_name : Texts, description : Texts, church_activity_category : BOOLEAN,
               details : {"short", "long"}], k \in Kinds :
       serverBasics(v, k) = {} => validateBasics(v, k) \subseteq OddBasics(v)
  /\ \A v \in [venue : Texts, venue_address : Texts, venue_map_url : Links] :
       serverVenue(v) = {} => validateVenue(v) \subseteq OddVenue(v)

ClocksAgree ==
  \A t \in (Day - 1)..(Day + 1), lead \in -2..2,
     v \in [event_date : {None} \cup 0..(MaxAhead + 2), start_time : {None, 0, 1, Day - 1},
           end_time : {None, 0, 1, Day - 1}, distance_value : {None, 1}] :
     serverSchedule(v, "running", Clock(t)) = {} =>
       validateSchedule(v, "running", Clock(t + lead)) \subseteq OddClock(v, Clock(t + lead), lead)

PartnersAgree ==
  \A partners \in BoundedSeq([name : PartnerNames, type : {"host", "sponsor"}], 2) :
     serverExtras(partners) = {} => validateExtras(partners) \subseteq OddPartners(partners)

(* The browser refuses nothing else that the server would take, so nobody  *)
(* is stuck on a step with a good event.                                   *)
ClientNotStricter ==
  /\ TextsAgree /\ ClocksAgree /\ PartnersAgree
  /\ open /\ eventRules(data, kind, ServerClock) = {} =>
       \A i \in 1..Last_ :
          validate(i, data) \subseteq OddBasics(data["basics"]) \cup OddVenue(data["venue"])
                                    \cup OddClock(data["schedule"], BrowserClock, ahead)
                                    \cup OddPartners(data["extras"])
=============================================================================
