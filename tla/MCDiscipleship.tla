---------------------------- MODULE MCDiscipleship ----------------------------
(***************************************************************************)
(* Discipleship for TLC: two participants, and the routes as the code      *)
(* mounts them, alone or with those that the pages ask for.                *)
(***************************************************************************)
EXTENDS Discipleship

AsMounted == {"/events/church/discipleship"}
MCMountings == {AsMounted, AsMounted \cup {Asked}}
MCRoutes == {AsMounted}

MCParticipants == {"ana", "ben"}
=============================================================================
