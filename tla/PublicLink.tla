----------------------------- MODULE PublicLink -----------------------------
(***************************************************************************)
(* What the lifecycle of an event promises to the people who hold its      *)
(* public link.  The form may change while the event is a draft; it is     *)
(* published once, with a form and a link that never change again; once    *)
(* started, it is never taken back to a mere registration.                 *)
(***************************************************************************)
EXTENDS Naturals

VARIABLES
  stage,   \* "draft", "published" or "started"
  form,    \* the version of the form, 0 when there is none
  link     \* the public link, 0 when there is none

linkVars == <<stage, form, link>>

Init == stage = "draft" /\ form = 0 /\ link = 0

Prepare == stage = "draft" /\ form' = form + 1 /\ UNCHANGED <<stage, link>>

Publish ==
  /\ stage = "draft" /\ stage' = "published"
  /\ form' = IF form = 0 THEN 1 ELSE form
  /\ link' = link + 1

Start == stage = "published" /\ stage' = "started" /\ UNCHANGED <<form, link>>

Next == Prepare \/ Publish \/ Start

Spec == Init /\ [][Next]_linkVars
=============================================================================
