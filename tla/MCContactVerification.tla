----------------------- MODULE MCContactVerification -----------------------
(* ContactVerification for TLC.                                            *)
EXTENDS ContactVerification, TLC

CONSTANTS b1, b2, c1, c2, p1, e1

OneAddress == p1 :> e1
=============================================================================
