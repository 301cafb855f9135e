--------------------------- MODULE RegistrationForm ---------------------------
(***************************************************************************)
(* The public registration form as tables: what each step of the page      *)
(* refuses in the browser, and what the rules of the server refuse when    *)
(* the form arrives, for the three forms there are:                        *)
(*   "v1", "v2"  a running event, with the old or the email-only form      *)
(*   "church"    a church event.                                           *)
(* A table gives for each field the classes of text that are refused:      *)
(*   ""         nothing           "good", "mobile", "M"  fine everywhere   *)
(*   "bad"      malformed         "junk"  no vowel, or no consonant        *)
(*   "odd"      with a digit      "one"   one letter, not of ASCII         *)
(*   "tiny", "short"    an address of one or two, of three or four letters *)
(*   "lengthy"  too long for some forms only: a name over 50, a suffix     *)
(*              over 10, an address over 255 characters                    *)
(*   "long"     too long for every rule on length there is                 *)
(*   "thin"     long enough, "wide" too long, for the browser only: it     *)
(*              counts UTF-16 units and, at places, the spaces around a    *)
(*              text; the server counts the characters of the trimmed text *)
(*   "padded"   with spaces around it, which the server trims first        *)
(*   "dotless", "strange"  an email address that only the pattern of the   *)
(*              browser refuses ("a@b"), or lets through ("a..b@c.ph")     *)
(*   "spaced", "landline"  a mobile number with spaces, another number     *)
(*   "out", "out_here", "out_there"  a birthday out of bounds by every     *)
(*              clock, by the browser's only, by the server's only         *)
(*   "loose", "strict"  an answer that only the browser refuses ("1e5" for *)
(*              a number), or only the server (as with email addresses)    *)
(*   "dashes"   signs of a name without a letter.                          *)
(***************************************************************************)
Forms == {"v1", "v2", "church"}
Parts == {"disclaimer", "personal", "emergency"}

(* common_field_requirements: what the organizer made required; the email  *)
(* and the address always are once the form is email-only.                 *)
Requirements == SUBSET {"email", "contact_number", "address", "tshirt_choice", "responses"}

isRequired(kind, must, f) ==
  f \in must \/ (kind # "v1" /\ f \in {"email", "address"})

Where(cond, texts) == IF cond THEN texts ELSE {}
required(kind, must, f) == Where(isRequired(kind, must, f), {""})

(* The fields of a part whose value a table refuses.                       *)
Failing(table, d) == {f \in DOMAIN table : d[f] \in table[f]}

-----------------------------------------------------------------------------
(* The browser.                                                            *)
validateNameValue == {"", "junk", "padded", "wide", "long"}
nameKeys == {"", "one", "odd", "lengthy", "wide", "long"}
validateContactNumber == {"bad"}
notMobile == {"bad", "landline", "spaced"}
validateAddress == {"tiny", "short", "junk", "wide", "long"}
validateBirthday == {"out", "out_here"}
EMAIL_PATTERN == {"bad", "dotless"}

(* Of the custom fields, one stands for all: required or not, and a value  *)
(* that its type takes or not.                                             *)
validateResponses(must) == Where("responses" \in must, {""}) \cup {"bad", "loose"}

(* The personal step of public.tsx: what validateRegistrationForm reports, *)
(* after the step's own check of the quality of a name.                    *)
validatePersonal(kind, must) ==
  [first_name |-> {"junk"} \cup (IF kind = "v1" THEN validateNameValue ELSE nameKeys),
   suffix |-> {"odd", "padded", "wide", "long"} \cup Where(kind = "v2", {"lengthy"}),
   email |-> required(kind, must, "email") \cup EMAIL_PATTERN,
   contact_number |-> required(kind, must, "contact_number") \cup validateContactNumber
                      \cup Where(kind = "v2", notMobile),
   birthday |-> {""} \cup validateBirthday,
   address |-> required(kind, must, "address") \cup validateAddress
               \cup Where(kind = "v2", {"", "tiny", "lengthy"}),
   tshirt_choice |-> Where("tshirt_choice" \in must, {""}),
   responses |-> validateResponses(must)]

(* The emergency step; "other": the relationship is "Other".               *)
validateEmergency_NoOther(kind, other) ==
  [emergency_contact_name |-> IF kind = "v1" THEN validateNameValue ELSE nameKeys \cup {"junk"},
   emergency_contact_relationship |-> {"", "wide", "long"},
   emergency_contact_relationship_other |-> {},
   emergency_contact_number |-> {""} \cup notMobile]

validateEmergency(kind, other) ==
  [validateEmergency_NoOther(kind, other) EXCEPT !.emergency_contact_relationship_other =
     Where(kind = "v2" /\ other, {"", "one", "thin", "odd", "dashes", "long"})]

(* The steps of church-public.tsx, with what the browser itself refuses to *)
(* submit: a blank required input, a date out of bounds.                   *)
churchPersonal(must) ==
  [first_name |-> {"", "junk"},
   email |-> required("church", must, "email") \cup EMAIL_PATTERN,
   contact_number |-> notMobile,
   birthday |-> {"", "out", "out_here"},
   address |-> required("church", must, "address")]

churchEmergency(other) ==
  [emergency_contact_name |-> nameKeys \cup {"junk"},
   emergency_contact_relationship_other |-> Where(other, {""}),
   emergency_contact_number |-> {""} \cup notMobile]

personalTable(kind, must) ==
  IF kind = "church" THEN churchPersonal(must) ELSE validatePersonal(kind, must)

emergencyTable(kind, other) ==
  IF kind = "church" THEN churchEmergency(other) ELSE validateEmergency(kind, other)

-----------------------------------------------------------------------------
(* The server.  The contact numbers are normalized before the rules see    *)
(* them, but for the guardian's.                                           *)
personNameRules == {"", "junk", "long"}
shortName == {"", "one", "thin", "odd", "lengthy", "long"}
addressQualityRules == {"tiny", "short", "thin", "junk"}

(* A custom field left blank, and validateType for an answer.              *)
validateType(must) == Where("responses" \in must, {""}) \cup {"bad", "strict", "long"}

serverPersonal(kind, must) ==
  [first_name |-> IF kind = "v1" THEN personNameRules
                  ELSE shortName \cup Where(kind = "church", {"junk"}),
   suffix |-> {"long"} \cup Where(kind # "v1", {"lengthy"}) \cup Where(kind # "church", {"odd"}),
   email |-> required(kind, must, "email") \cup {"bad", "strange", "long"},
   contact_number |-> {"bad"} \cup Where(kind # "v1", {"landline"})
                      \cup Where(kind # "church", required(kind, must, "contact_number")),
   birthday |-> {"", "out", "out_there"},
   address |-> required(kind, must, "address") \cup {"tiny", "lengthy", "long"}
               \cup Where(kind # "v2", addressQualityRules),
   guardian_contact |-> Where(kind = "church", notMobile),
   tshirt_choice |-> Where(kind # "church" /\ "tshirt_choice" \in must, {""}),
   responses |-> Where(kind # "church", validateType(must))]

serverEmergency(kind, other) ==
  [emergency_contact_name |-> IF kind = "v1" THEN personNameRules ELSE shortName \cup {"junk"},
   emergency_contact_relationship |-> {"", "long"} \cup Where(kind # "v1", {"wide"}),
   emergency_contact_relationship_other |->
     Where(kind # "v1" /\ other, {"", "one", "thin", "odd", "long"} \cup Where(kind = "v2", {"dashes"})),
   emergency_contact_number |-> {"", "bad", "landline"}]

(* "identity": no required contact that can be verified.                   *)
noIdentity(kind, must, email, number) ==
  /\ ~ (isRequired(kind, must, "email") /\ email # "")
  /\ ~ (isRequired(kind, must, "contact_number") /\ number \in {"mobile", "spaced"})

-----------------------------------------------------------------------------
(* The two sides are meant to mirror each other, and do but for the texts  *)
(* below: those that the browser lets through and the server refuses, and  *)
(* those that the browser refuses although the server would take them.     *)
ServerOnly(kind) ==
  LET church == kind = "church"
  IN [first_name |-> Where(kind # "v1", {"thin"}) \cup Where(church, {"one", "odd", "lengthy", "long"}),
      suffix |-> Where(church, {"lengthy", "long"}),
      email |-> {"strange", "long"},
      birthday |-> {"out_there"},
      address |-> Where(kind = "v1", {"thin", "lengthy"})
                  \cup Where(church, {"lengthy", "long"} \cup addressQualityRules),
      guardian_contact |-> Where(church, notMobile),
      responses |-> Where(~ church, {"strict", "long"}),
      emergency_contact_name |-> Where(kind # "v1", {"thin"}),
      emergency_contact_relationship |-> Where(church, {"", "wide", "long"}),  \* the page offers a list
      emergency_contact_relationship_other |-> Where(church, {"one", "thin", "odd", "long"})]

BrowserOnly(kind) ==
  LET church == kind = "church"
  IN [first_name |-> Where(kind = "v1", {"wide", "padded"}) \cup Where(kind = "v2", {"wide", "junk"}),
      suffix |-> Where(~ church, {"wide", "padded"}),
      email |-> {"dotless"},
      contact_number |-> Where(kind # "v1", {"spaced"}),
      birthday |-> {"out_here"},
      address |-> Where(~ church, {"wide"}) \cup Where(kind = "v2", {"short", "junk"}),
      responses |-> Where(~ church, {"loose"}),
      emergency_contact_name |-> {"wide"} \cup Where(kind = "v1", {"padded"}),
      emergency_contact_relationship |-> Where(kind = "v1", {"wide"}),
      emergency_contact_number |-> {"spaced"}]

Texts(table, f) == IF f \in DOMAIN table THEN table[f] ELSE {}

(* All that one table refuses is refused by another, but for some texts.   *)
Covered(table, other, but) ==
  \A f \in DOMAIN table : table[f] \subseteq Texts(other, f) \cup Texts(but, f)

Mirror(kind, browser, server) ==
  Covered(server, browser, ServerOnly(kind)) /\ Covered(browser, server, BrowserOnly(kind))

Mirrored(kind) ==
  /\ \A must \in Requirements :
       /\ Mirror(kind, personalTable(kind, must), serverPersonal(kind, must))
       /\ \A email \in {"", "good"}, number \in {"", "mobile", "spaced", "landline"} :
            noIdentity(kind, must, email, number) /\ kind # "v1" =>
              email \in personalTable(kind, must).email
  /\ \A other \in BOOLEAN : Mirror(kind, emergencyTable(kind, other), serverEmergency(kind, other))

Mirrors == {kind \in Forms : Mirrored(kind)}
=============================================================================
