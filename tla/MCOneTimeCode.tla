--------------------------- MODULE MCOneTimeCode ---------------------------
(***************************************************************************)
(* OneTimeCode with interchangeable requests.                              *)
(***************************************************************************)
EXTENDS OneTimeCode, TLC

Symmetry == Permutations(Requests)
=============================================================================
