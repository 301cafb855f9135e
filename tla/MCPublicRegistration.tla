------------------------- MODULE MCPublicRegistration -------------------------
(* PublicRegistration for TLC: the values a visitor enters, each reached   *)
(* from another by changing one field.                                     *)
EXTENDS PublicRegistration

P(email, number, address) ==
  [first_name |-> "good", suffix |-> "", email |-> email, contact_number |-> number,
   birthday |-> "good", address |-> address, tshirt_choice |-> "", responses |-> "",
   guardian_contact |-> ""]
E(name, relation, other, number) ==
  [emergency_contact_name |-> name, emergency_contact_relationship |-> relation,
   emergency_contact_relationship_other |-> other, emergency_contact_number |-> number]

Empty == [f \in DOMAIN P("", "", "") |-> ""]
Filled == P("good", "mobile", "good")
MCValues(p) ==
  CASE p = "disclaimer" -> [consent_accepted : BOOLEAN]
    [] p = "personal" ->
         {Empty, [Empty EXCEPT !.first_name = "good"], Filled,
          [Filled EXCEPT !.tshirt_choice = "M"], [Filled EXCEPT !.responses = "bad"],
          P("good", "mobile", "junk"), P("", "landline", "good"), P("strange", "mobile", "good")}
    [] p = "emergency" ->
         {E("", "Parent", "", ""), E("good", "Parent", "", "mobile"), E("good", "Other", "one", "mobile")}

MCSetups == {<<"v1", {"contact_number"}, 0>>, <<"v2", {"tshirt_choice"}, 1>>, <<"church", {}, 0>>}
MCSkews == {0, 1}
MCPeople == {"ana", "ben"}
=============================================================================
