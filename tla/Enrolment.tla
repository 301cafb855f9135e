------------------------------ MODULE Enrolment ------------------------------
(***************************************************************************)
(* What contact verification promises: a challenge is begun, proved,       *)
(* enrolled and gone, in that order and without return; it may be gone     *)
(* earlier; and it creates a registration only when it is enrolled.        *)
(***************************************************************************)
EXTENDS Naturals

CONSTANT Challenges

VARIABLES
  stage,     \* stage[c]
  created    \* created[c]: the registrations c created

enrolmentVars == <<stage, created>>

Init == /\ stage \in [Challenges -> {"unused", "begun"}]
        /\ created = [c \in Challenges |-> 0]

Move(c, from, to) == stage[c] = from /\ stage' = [stage EXCEPT ![c] = to]

(* A new challenge may put an end to the one it replaces.                  *)
Begin(c) ==
  /\ stage[c] = "unused"
  /\ \E S \in SUBSET (Challenges \ {c}) :
       /\ \A d \in S : stage[d] \in {"begun", "proved", "gone"}
       /\ stage' = [d \in Challenges |-> IF d = c THEN "begun"
                                         ELSE IF d \in S THEN "gone"
                                         ELSE stage[d]]
  /\ UNCHANGED created

Prove(c) == Move(c, "begun", "proved") /\ UNCHANGED created

Enrol(c) ==
  /\ Move(c, "proved", "enrolled")
  /\ created' \in {created, [created EXCEPT ![c] = @ + 1]}

Expire ==
  /\ \E S \in SUBSET Challenges :
       /\ \A d \in S : stage[d] # "unused"
       /\ stage' = [d \in Challenges |-> IF d \in S THEN "gone" ELSE stage[d]]
  /\ UNCHANGED created

Next == Expire \/ \E c \in Challenges : Begin(c) \/ Prove(c) \/ Enrol(c)

Spec == Init /\ [][Next]_enrolmentVars
=============================================================================
