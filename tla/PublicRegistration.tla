-------------------------- MODULE PublicRegistration --------------------------
(***************************************************************************)
(* Registering for one event in the browser of a device that several       *)
(* people use: the form, its draft in localStorage, the page that verifies *)
(* an email address, and back to a blank form for the next one.            *)
(***************************************************************************)
EXTENDS RegistrationForm, Wizard, VerifyPage

CONSTANTS People,       \* who uses the device
          Setups,       \* form and requirements of an event, skew of the device
          Values(_)     \* what a visitor may enter in a part

(* The consent is a tick; the other parts have a blank value, in which     *)
(* only the relationship is filled in.                                     *)
PublicConstants ==
  /\ VerifyConstants /\ "nobody" \notin People
  /\ \A setup \in Setups :
       /\ setup[1] \in Forms /\ setup[2] \in Requirements /\ setup[3] \in Skews
       /\ setup = <<setup[1], setup[2], setup[3]>>
  /\ Values("disclaimer") = [consent_accepted : BOOLEAN]
  /\ \E v \in Values("personal") : \A f \in DOMAIN v : v[f] = ""
  /\ \E v \in Values("emergency") :
       \A f \in DOMAIN v : v[f] = "" \/ f = "emergency_contact_relationship"

ASSUME PublicAssumption == PublicConstants

VARIABLES
  form, reqs,  \* the event's form; they do not change
  person,      \* who is at the device
  by,          \* history: who entered something in the form
  draftBy,     \* history: the same, for the draft
  ticked,      \* history: the consent was given on this visit, and not taken back
  owner,       \* history: who submitted the pending form
  confirmed    \* history: people whose registration was confirmed here

event == <<form, reqs>>
history == <<person, by, draftBy, ticked, owner, confirmed>>
deviceVars == <<page, draft, verify, event, history>>

Blank == [disclaimer |-> [consent_accepted |-> FALSE],
          personal |-> CHOOSE v \in Values("personal") : \A f \in DOMAIN v : v[f] = "",
          emergency |-> CHOOSE v \in Values("emergency") :
            \A f \in DOMAIN v : v[f] = "" \/ f = "emergency_contact_relationship"]
IsForm(d) == DOMAIN d = Parts /\ \A p \in Parts : d[p] \in Values(p)

PartOf(i) == << "disclaimer", "personal", "emergency" >>[i]

(* The fields each step owns, for the keys the server reports.             *)
steps_NoAddress ==
  << {"consent_accepted"},
     {"first_name", "suffix", "email", "contact_number", "birthday"}
       \cup (IF form = "church" THEN {"guardian_contact"} ELSE {"responses", "tshirt_choice"}),
     {"emergency_contact_name", "emergency_contact_relationship",
      "emergency_contact_relationship_other", "emergency_contact_number"} >>

steps == << {"consent_accepted"},
            {"first_name", "suffix", "email", "contact_number", "birthday", "address"}
              \cup (IF form = "church" THEN {"guardian_contact"} ELSE {"responses", "tshirt_choice"}),
            {"emergency_contact_name", "emergency_contact_relationship",
             "emergency_contact_relationship_other", "emergency_contact_number"} >>

RelationOther(d) == d.emergency.emergency_contact_relationship = "Other"

validate(i, d) ==
  CASE PartOf(i) = "disclaimer" -> Where(~ d.disclaimer.consent_accepted, {"consent_accepted"})
    [] PartOf(i) = "personal" -> Failing(personalTable(form, reqs), d.personal)
    [] OTHER -> Failing(emergencyTable(form, RelationOther(d)), d.emergency)

checks(d) == [i \in DOMAIN steps |-> validate(i, d)]

(* What the server refuses of a form; a church form's consent too.         *)
serverRules_NoConsent(d) ==
  Failing(serverPersonal(form, reqs), d.personal)
  \cup Failing(serverEmergency(form, RelationOther(d)), d.emergency)
  \cup Where(noIdentity(form, reqs, d.personal.email, d.personal.contact_number), {"identity"})

serverRules(d) ==
  serverRules_NoConsent(d)
  \cup Where(form = "church" /\ ~ d.disclaimer.consent_accepted, {"consent_accepted"})

DeviceInit ==
  /\ \E setup \in Setups : form = setup[1] /\ reqs = setup[2] /\ skew = setup[3]
  /\ VerifyInit /\ (email_only <=> form # "v1")
  /\ open = FALSE /\ data = Blank /\ cur = 1 /\ max = 1 /\ stepErr = {} /\ srvErr = {}
  /\ sending = NoForm /\ draft = NoDraft
  /\ person \in People /\ by = {} /\ draftBy = {} /\ ticked = FALSE
  /\ owner = "nobody" /\ confirmed = {}

Away == ~ open /\ ~ verifying

-----------------------------------------------------------------------------
(* The form.  The page of a church event keeps a draft of its own: it      *)
(* never expires and restores neither the step nor the consent.            *)
churchMount_KeepsConsent ==
  /\ ~ open /\ open' = TRUE
  /\ data' = IF draft = NoDraft THEN Blank ELSE draft.data
  /\ cur' = 1 /\ max' = 1
  /\ draft' = Snapshot(1, data')
  /\ UNCHANGED <<stepErr, srvErr, sending>>

churchMount ==
  /\ ~ open /\ open' = TRUE
  /\ data' = IF draft = NoDraft THEN Blank
             ELSE [draft.data EXCEPT !.disclaimer.consent_accepted = FALSE]
  /\ cur' = 1 /\ max' = 1
  /\ draft' = Snapshot(1, data')
  /\ UNCHANGED <<stepErr, srvErr, sending>>

Opens ==
  /\ IF form = "church" THEN churchMount ELSE Mount(Blank)
  /\ by' = draftBy /\ draftBy' = by' /\ ticked' = FALSE

(* Nobody registers again after a confirmation (an abstraction).           *)
Open ==
  /\ Away /\ person \notin confirmed /\ Opens
  /\ UNCHANGED <<verify, event, person, owner, confirmed>>

Closes == Unmounted(Blank) /\ by' = {} /\ ticked' = FALSE

Leave ==
  /\ open /\ sending = NoForm /\ Closes
  /\ UNCHANGED <<draft, verify, event, person, draftBy, owner, confirmed>>

Expire ==
  /\ ~ open /\ draft # NoDraft /\ form # "church"
  /\ draft' = NoDraft /\ draftBy' = {}
  /\ UNCHANGED <<page, verify, event, person, by, ticked, owner, confirmed>>

(* A field of the church page: its own errors go, and clearing them moves  *)
(* the page to the first step that owns one that is left.                  *)
churchType(d, keys) ==
  /\ open /\ data' = d
  /\ srvErr' = srvErr \ keys /\ cur' = JumpTarget(steps, srvErr')
  /\ stepErr' = stepErr \ keys
  /\ draft' = Snapshot(1, d)
  /\ UNCHANGED <<open, max, sending>>

(* One or more fields of a group, entered one after the other.             *)
onCommonChange(group) ==
  /\ sending = NoForm
  /\ \E v \in Values(PartOf(cur)) :
       LET keys == Changed(data[PartOf(cur)], v)
           d == [data EXCEPT ![PartOf(cur)] = v]
       IN  /\ keys # {} /\ keys \subseteq group
           /\ IF form = "church" THEN churchType(d, keys) ELSE Type(steps, checks(d), d, keys, FALSE)
  /\ by' = by \cup {person} /\ draftBy' = by'
  /\ ticked' = IF cur = 1 THEN data'.disclaimer.consent_accepted ELSE ticked
  /\ UNCHANGED <<verify, event, person, owner, confirmed>>

Consent == cur = 1 /\ onCommonChange({"consent_accepted"})
EditPerson == cur = 2 /\ onCommonChange({"first_name", "suffix"})
EditContact == cur = 2 /\ onCommonChange({"email", "contact_number", "birthday", "address", "guardian_contact"})
chooseTshirt == cur = 2 /\ form # "church" /\ onCommonChange({"tshirt_choice"})
setResponse == cur = 2 /\ form # "church" /\ onCommonChange({"responses"})
EditEmergency ==
  cur = 3 /\ onCommonChange({"emergency_contact_name", "emergency_contact_relationship",
                            "emergency_contact_relationship_other", "emergency_contact_number"})

handleNext == NextStep(steps, checks(data)) /\ UNCHANGED <<verify, event, history>>

(* Back and the pills; the church page's pills leave the errors alone.     *)
handleBack == BackStep /\ UNCHANGED <<verify, event, history>>

handleStepJump(i) ==
  /\ \/ form # "church" /\ JumpTo(i)
     \/ /\ form = "church" /\ open /\ i <= max /\ cur' = i
        /\ UNCHANGED <<open, data, max, stepErr, srvErr, sending, draft>>
  /\ UNCHANGED <<verify, event, history>>

submit ==
  /\ Submit(steps, checks(data), FALSE)
  /\ UNCHANGED <<verify, event, history>>

-----------------------------------------------------------------------------
(* The answer to the form: the page that verifies the email address, or    *)
(* the errors; "identity" is also what the page gets when the server could *)
(* not start.                                                              *)
begun ==
  /\ sending # NoForm /\ serverRules(sending) = {}
  /\ Closes /\ Enter(NewChallenge) /\ owner' = person
  /\ UNCHANGED <<draft, event, person, draftBy, confirmed>>

Refused ==
  /\ \/ Refuse(steps, checks(data), serverRules(sending))
     \/ Refuse(steps, checks(data), {"identity"})
  /\ UNCHANGED <<verify, event, history>>

Unanswered == Unheard /\ UNCHANGED <<verify, event, history>>

(* The page that verifies, with its own actions.                           *)
Verifying ==
  /\ \/ Reload \/ Solve \/ Lapse \/ SendCode \/ SendLost \/ Complete \/ Tick
     \/ \E outcome \in {"captcha", "refused", "too early", "sent", "failed", "trusted"} :
          SendAnswered(outcome)
     \/ \E right \in BOOLEAN : VerifyCode(right)
  /\ UNCHANGED <<page, draft, event, history>>

(* Going back to the form from a challenge that is not finalized, which    *)
(* stays pending; and to the challenge again.                              *)
ReturnToForm ==
  /\ verifying /\ ~ seen.finalized /\ posting = "no"
  /\ Unmounts /\ ch' = ch /\ person \notin confirmed /\ Opens
  /\ UNCHANGED <<event, person, owner, confirmed>>

ReturnToVerify ==
  /\ Away /\ ch.email # "none" /\ Enter(ch)
  /\ UNCHANGED <<page, draft, event, history>>

LeaveVerify ==
  /\ verifying /\ posting = "no" /\ Unmounts /\ ch' = ch
  /\ UNCHANGED <<page, draft, event, history>>

(* Confirm: the draft goes first; then the server closes the challenge and *)
(* sends the browser to the form, or does not.                             *)
acknowledge_OtherKey ==
  /\ verifying /\ seen.finalized /\ posting = "no"
  /\ UNCHANGED <<draft, draftBy>>

acknowledge ==
  /\ verifying /\ seen.finalized /\ posting = "no"
  /\ draft' = NoDraft /\ draftBy' = {}

Confirm ==
  /\ acknowledge
  /\ \/ Unmounts /\ ch' = NoChallenge /\ confirmed' = confirmed \cup {owner}
     \/ UNCHANGED <<verify, confirmed>>
  /\ UNCHANGED <<page, event, person, by, ticked, owner>>

NextPerson ==
  /\ Away /\ person' \in People \ (confirmed \cup {person})
  /\ UNCHANGED <<page, draft, verify, event, by, draftBy, ticked, owner, confirmed>>

DeviceNext ==
  \/ Open \/ Leave \/ Expire
  \/ Consent \/ EditPerson \/ EditContact \/ chooseTshirt \/ setResponse \/ EditEmergency
  \/ handleNext \/ handleBack \/ (\E i \in 1..Len(steps) : handleStepJump(i))
  \/ submit \/ begun \/ Refused \/ Unanswered
  \/ Verifying \/ ReturnToForm \/ ReturnToVerify \/ LeaveVerify \/ Confirm
  \/ NextPerson

DeviceSpec == DeviceInit /\ [][DeviceNext]_deviceVars

-----------------------------------------------------------------------------
DeviceTypeOK ==
  /\ <<form, reqs, skew>> \in Setups /\ VerifyTypeOK
  /\ open \in BOOLEAN /\ IsForm(data) /\ ~ (open /\ verifying)
  /\ cur \in 1..3 /\ max \in 1..3
  /\ sending = NoForm \/ IsForm(sending)
  /\ draft = NoDraft \/ IsForm(draft.data)
  /\ person \in People /\ confirmed \subseteq People
  /\ by \subseteq People /\ draftBy \subseteq People /\ owner \in People \cup {"nobody"}

(* The device is in order: the variables have their types, and the page of *)
(* the code lets its visitor get on (CaptchaConsistent).                   *)
DeviceConsistent == DeviceTypeOK /\ CaptchaConsistent

(* Whatever is entered in the form that is open: a text of a field that    *)
(* the page lets through and the server refuses, or that the page refuses  *)
(* and the server would take, is one of those ServerOnly and BrowserOnly   *)
(* name.  The validators of the browser and the rules of the server are    *)
(* two programs, each with three versions of the form; they count lengths, *)
(* tell the date and recognize an email address in ways of their own.      *)
RulesMirror == open => form \in Mirrors

(* Once a registration was confirmed on this device, nothing its owner     *)
(* entered is left for the next person who opens the form: "Confirm" is    *)
(* the only thing that removes a draft, by a key of its own for each kind  *)
(* of event.                                                               *)
ConfirmedLeavesNothing ==
  \A p \in confirmed : p # person =>
    /\ draft # NoDraft => p \notin draftBy
    /\ open => p \notin by

(* A church registration is begun only with a consent that was given on    *)
(* this visit of the form and not taken back: never with one that a draft  *)
(* brought back, and not by the visitor who unticks it, skips the first    *)
(* step by its pill and submits - the page sends that form (it checks the  *)
(* step in view only), and the server refuses it.                          *)
ConsentGivenHere == [][begun /\ form = "church" => ticked]_deviceVars

(* A refused form shows an error on the step in view, or above it: nothing *)
(* is refused without a word, but for "identity" on a running event's      *)
(* page, which no step owns.                                               *)
RejectionShown ==
  [][Refused => \/ steps[cur'] \cap srvErr' # {}
                 \/ srvErr' = {"identity"}]_deviceVars
=============================================================================
