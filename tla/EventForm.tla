------------------------------ MODULE EventForm ------------------------------
(***************************************************************************)
(* What the steps of the event wizard hold, and who accepts it: the        *)
(* validators of the browser (lib/event-validation.ts) and the rules of    *)
(* the server (EventValidationRules.php), which each other's comments say  *)
(* to keep in sync.  They differ in two ways: each judges the date by its  *)
(* own clock, and the browser counts UTF-16 units where the server counts  *)
(* code points, so that a character such as an emoji is one or two.        *)
(*                                                                         *)
(* A text is a member of a small set that tells apart what a rule tells    *)
(* apart.  A date is a number of days, a time of day a number of half      *)
(* hours; None when not chosen.                                            *)
(***************************************************************************)
EXTENDS Integers, Sequences, FiniteSets

CONSTANTS MinDuration,   \* MIN_EVENT_DURATION_MINUTES, in half hours
          MaxPartners,   \* MAX_PARTNERS
          MaxDistance,   \* the largest distance
          MaxAhead       \* MAX_EVENT_YEARS_AHEAD, in days

ASSUME FormAssumption ==
  MinDuration \in Nat \ {0} /\ MaxPartners \in Nat /\ MaxDistance \in Nat \ {0}
  /\ MaxAhead \in Nat

None == -1

Kinds == {"running", "church", "specialist"}

(* The steps of each kind, in order, with the fields each step owns.       *)
RunningSteps == << {"event_name", "description"},
                   {"event_date", "start_time", "end_time", "distance_value"},
                   {"venue", "venue_address", "venue_map_url"},
                   {"partners", "partners_name"} >>

ChurchSteps_NoDetails == << {"event_name", "description", "church_category"},
                            {"event_date", "start_time", "end_time"},
                            {"venue", "venue_address", "venue_map_url"} >>

ChurchSteps == << {"event_name", "description", "church_category", "details"},
                  {"event_date", "start_time", "end_time"},
                  {"venue", "venue_address", "venue_map_url"} >>

SpecialistSteps == [ChurchSteps EXCEPT ![1] = @ \cup {"church_activity_category"}]

(* The edit page has no steps of its own for specialist activities.        *)
EditSteps(k) == IF k = "running" THEN RunningSteps ELSE ChurchSteps

CreateSteps(k) == CASE k = "running" -> RunningSteps
                    [] k = "church" -> ChurchSteps
                    [] k = "specialist" -> SpecialistSteps

Parts == {"basics", "schedule", "venue", "extras"}
PartOf(i) == <<"basics", "schedule", "venue", "extras">>[i]

-----------------------------------------------------------------------------
(* What the programs measure with.                                         *)

Fails(f, broken) == IF broken THEN {f} ELSE {}

(* The length of a text against the limits of its field: "thin" is long    *)
(* enough in UTF-16 units only, "wide" is too long in UTF-16 units only.   *)
FewUnits == {"", "short"}
FewPoints == FewUnits \cup {"thin"}
ManyUnits == {"wide", "long"}
ManyPoints == {"long"}

(* The day and the time of day that a clock shows.                         *)
Day == 48
Clock(t) == [day |-> t \div Day, time |-> t % Day]

(* Whether a date with a time of day has passed by a clock.                *)
Passed(v, clock) ==
  v.event_date < clock.day \/ (v.event_date = clock.day /\ v.start_time < clock.time)

(* humanNameQualityError: a name begins with a letter or a digit, has a    *)
(* vowel and a consonant, and no character three times in a row.  "taken"  *)
(* is a good name that another active event of this user bears.            *)
humanNameQualityError(name) == name = "mashed"

-----------------------------------------------------------------------------
(* The validators of the browser: the fields of a part that get an error.  *)

validateBasics(v, k) ==
  Fails("event_name", \/ v.event_name \in FewUnits \cup ManyUnits
                      \/ humanNameQualityError(v.event_name))
    \cup Fails("description", v.description \in ManyUnits)
    \cup Fails("church_activity_category", k = "specialist" /\ ~ v.church_activity_category)

(* From today to the day that is MAX_EVENT_YEARS_AHEAD from today.         *)
GoodDate(date, clock) == date # None /\ date \in clock.day..(clock.day + MaxAhead)

validateSchedule(v, k, clock) ==
  LET noStart == v.start_time = None \/ (GoodDate(v.event_date, clock) /\ Passed(v, clock))
  IN  Fails("event_date", ~ GoodDate(v.event_date, clock))
        \cup Fails("start_time", noStart)
        \cup Fails("end_time", /\ v.end_time # None /\ ~ noStart
                               /\ v.end_time - v.start_time < MinDuration)
        \cup Fails("distance_value", k = "running" /\ v.distance_value \notin 1..MaxDistance)

(* A link to Google Maps: "google, wide" has more UTF-16 units than the    *)
(* limit and no more code points, "google, odd space" holds a space that   *)
(* is one only where patterns know Unicode, as in the browser.             *)
LinksOfServer == {"", "google", "google, wide", "google, odd space"}
LinksOfBrowser == {"", "google"}

validateVenue_MapRequired(v) ==
  Fails("venue", v.venue \in FewUnits \cup ManyUnits)
    \cup Fails("venue_address", v.venue_address \in FewUnits \cup ManyUnits)
    \cup Fails("venue_map_url", v.venue_map_url \notin LinksOfBrowser \ {""})

validateVenue(v) ==
  Fails("venue", v.venue \in FewUnits \cup ManyUnits)
    \cup Fails("venue_address", v.venue_address \in FewUnits \cup ManyUnits)
    \cup Fails("venue_map_url", v.venue_map_url \notin LinksOfBrowser)

(* A link without a scheme gets one when the field is left.                *)
normalizeMapUrl(url) == CASE url = "google, no scheme" -> "google"
                          [] url = "elsewhere, no scheme" -> "elsewhere"
                          [] OTHER -> url

(* Names of partners: "acme" and "Acme" differ in the case of an ASCII     *)
(* letter, "ano" and "Ano" stand for names that differ in the case of a    *)
(* letter outside ASCII.  JavaScript lowers both, strtolower() only ASCII. *)
PartnerNames == {"", "short", "thin", "mashed", "acme", "Acme", "ano", "Ano", "wide", "long"}
AsciiLower == [name \in PartnerNames |-> IF name = "Acme" THEN "acme" ELSE name]
normalizePartnerPart == [AsciiLower EXCEPT !["Ano"] = "ano"]

Repeats(partners, lower) ==
  \E i, j \in DOMAIN partners :
     /\ i < j /\ partners[i].name # "" /\ partners[i].type = partners[j].type
     /\ lower[partners[i].name] = lower[partners[j].name]

BadPartner(p, lengths) == p.name \in lengths \/ humanNameQualityError(p.name)

validateExtras(partners) ==
  IF Len(partners) > MaxPartners THEN {"partners"}
  ELSE Fails("partners_name", \/ \E i \in DOMAIN partners : BadPartner(partners[i], FewUnits \cup ManyUnits)
                              \/ Repeats(partners, normalizePartnerPart))
         \cup Fails("partners", Repeats(partners, normalizePartnerPart))

-----------------------------------------------------------------------------
(* The rules of the server.                                                *)

serverBasics(v, k) ==
  Fails("event_name", \/ v.event_name \in FewPoints \cup ManyPoints \cup {"taken"}
                      \/ humanNameQualityError(v.event_name))
    \cup Fails("description", v.description \in ManyPoints)
    \cup Fails("church_activity_category", k = "specialist" /\ ~ v.church_activity_category)
    \cup Fails("details", k # "running" /\ v.details = "long")

(* "after_or_equal:today" and "before:+2 years": the start of the day lies *)
(* before this time of day two years ahead.                                *)
GoodDay(date, clock) ==
  /\ date # None /\ date >= clock.day
  /\ date < clock.day + MaxAhead \/ (date = clock.day + MaxAhead /\ clock.time > 0)

serverSchedule(v, k, clock) ==
  Fails("event_date", ~ GoodDay(v.event_date, clock))
    \cup Fails("start_time", v.start_time = None \/ (GoodDay(v.event_date, clock) /\ Passed(v, clock)))
    \cup Fails("end_time", /\ None \notin {v.end_time, v.start_time}
                           /\ v.end_time - v.start_time < MinDuration)
    \cup Fails("distance_value", k = "running" /\ v.distance_value \notin 1..MaxDistance)

serverVenue(v) ==
  Fails("venue", v.venue \in FewPoints \cup ManyPoints)
    \cup Fails("venue_address", v.venue_address \in FewPoints \cup ManyPoints)
    \cup Fails("venue_map_url", v.venue_map_url \notin LinksOfServer)

serverExtras(partners) ==
  LET repeats == Repeats(partners, AsciiLower)
      bad == \E i \in DOMAIN partners : BadPartner(partners[i], FewPoints \cup ManyPoints)
  IN  Fails("partners", Len(partners) > MaxPartners \/ repeats)
        \cup Fails("partners_name", bad \/ repeats)

eventRules(d, k, clock) ==
  serverBasics(d["basics"], k) \cup serverSchedule(d["schedule"], k, clock)
    \cup serverVenue(d["venue"]) \cup serverExtras(d["extras"])
=============================================================================
