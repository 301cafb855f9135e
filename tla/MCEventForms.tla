---------------------------- MODULE MCEventForms ----------------------------
(* EventForms for TLC: the values a user enters in the wizard, each reached *)
(* from the one before it by changing one field, while the clock of the    *)
(* server passes the first half hour of day 1.                             *)
EXTENDS EventForms

B(name, activity, details) ==
  [event_name |-> name, description |-> "", church_activity_category |-> activity, details |-> details]
S(date, start, end, distance) ==
  [event_date |-> date, start_time |-> start, end_time |-> end, distance_value |-> distance]
V(venue, address, url) == [venue |-> venue, venue_address |-> address, venue_map_url |-> url]

MCValues(p) ==
  CASE p = "basics" -> {B("", FALSE, "short"), B("good", FALSE, "short"), B("good", TRUE, "short"),
                        B("good", FALSE, "long")}
    [] p = "schedule" -> {S(None, None, None, None), S(1, None, None, None), S(1, 0, None, None),
                          S(1, 0, 0, None), S(1, 0, None, 1), S(2, 0, None, None)}
    [] p = "venue" -> {V("", "", ""), V("good", "", ""), V("good", "good", ""),
                       V("good", "good", "google, no scheme"), V("good", "good", "google")}

MCPartners == [name : {"", "acme"}, type : {"host"}]

Event(url) == [basics |-> B("good", FALSE, "short"), schedule |-> S(2, 0, None, None),
               venue |-> V("good", "good", url), extras |-> << >>]

MCStored == {Event(""), Event("google")}
MCPages == {<<"create", "specialist", 0>>, <<"create", "running", 0>>, <<"edit", "church", 1>>}

(* For the fields: three years of four days, every tenth minute of a day,  *)
(* and distances of up to 21 whole units.                                  *)
MCDays == 0..11
MCLo == -2
MCLegacy == {10 * i : i \in 0..143}
MCWholes == {0, 1, 3, 5, 10, 21}
MCDecimals == {0, 5, 10, 19, 50, 98}
=============================================================================
