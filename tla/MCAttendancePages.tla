--------------------------- MODULE MCAttendancePages ---------------------------
(* AttendancePages for TLC: two names at the desk, one person on the lists. *)
EXTENDS AttendancePages

MCNames == {"ana", "ben"}
MCRegistered == {<<"ana">>, <<"ana", "ben">>}
MCPersons == {"ana"}
=============================================================================
