----------------------------- MODULE MCEventPages -----------------------------
(* EventPages for TLC: at most two custom fields, two options, two custom  *)
(* choices and two photos of four, one of them bad and two of them heavy;  *)
(* an event of either kind, and two codes.                                 *)
EXTENDS EventPages

MCLabels == {"", "size", "phone"}
MCPageRefuses == {""}
MCServerRefuses == {"", "phone"}
MCBadFiles == {2}
MCHeavy == {s \in SUBSET (1..4) : {1, 4} \subseteq s}
=============================================================================
