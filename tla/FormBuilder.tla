------------------------------ MODULE FormBuilder ------------------------------
(***************************************************************************)
(* The page on which the organizers of a running event build its           *)
(* registration form: the rows of custom fields, the T-shirt element with  *)
(* its choices and photos, the requirement of a contact number, and the    *)
(* disclaimer.  Nothing is written until it is saved, as one batch, until  *)
(* registration opens.  The server works on a save in three steps, each    *)
(* on its own: it reads the event, checks the batch and stores the new     *)
(* photos; it replaces the form, under a lock; it deletes the photos that  *)
(* are no longer wanted.  A second tab saves the same form, so that the    *)
(* steps of two saves interleave.                                          *)
(*                                                                         *)
(* A text is an atom that stands for its class; a photo is a number, given *)
(* when its file is chosen, and two photos are never the same file.        *)
(***************************************************************************)
EXTENDS Integers, Sequences, FiniteSets, SequencesExt

CONSTANTS
  Labels,        \* what can be typed as a label; "" is the empty one
  PageRefuses, ServerRefuses,   \* the labels that each refuses
  MAX_FIELDS, MAX_OPTIONS_PER_FIELD, MAX_CHOICES, MAX_PHOTOS,
  BadFiles,      \* photos over 10 MB, or no pictures by their content
  Heavy,         \* the sets of photos over 25 MB
  MaxUploads,    \* bound on the photos ever chosen
  MaxGestures    \* bound on the operator's gestures

ASSUME BuilderAssumption ==
  /\ MAX_FIELDS \in Nat \ {0} /\ MAX_CHOICES \in Nat /\ MAX_CHOICES >= 3 /\ MAX_PHOTOS \in Nat
  /\ MaxUploads \in Nat \ {0} /\ MaxGestures \in Nat /\ {} \notin Heavy
  /\ "" \in Labels \cap PageRefuses \cap ServerRefuses
  /\ \E l \in Labels : l \notin PageRefuses \cup ServerRefuses

VARIABLES
  saved,         \* the form in the database: rows, tshirt, disclaimer
  stored,        \* the photos in the storage
  locked,        \* registration has opened
  page,          \* the builder is open, or "closed"
  rows, nextId,  \* form.data.fields, and the id of the next row
  shirt,         \* form.data.tshirt_*
  disclaimer,    \* form.data.disclaimer_html: "default", "text", "blank"
  contact,       \* form.data.common_field_requirements.contact_number
  photos,        \* the photos of the props: the saved ones, as last received
  errors,        \* form.errors: where each is shown, and the row it is about
  attempted,     \* hasAttemptedSave
  dialog,        \* the dialog that is open
  visit, other,  \* the save of the page and of the second tab, or NoVisit
  otherTab,      \* the form the second tab was opened with, or NoTab
  uploads, gestures,
  revived,       \* photos listed again by a save that read them before they
                 \* were dropped from the list
  orphans,       \* photos of a deletion that failed, and photos dropped from
                 \* the list by a save that had not read them
  mixed          \* the rows moved while the answer of a save was due, or by a
                 \* question that was asked before it (for ErrorsOnOwnRow)

files == <<stored, revived, orphans>>
database == <<saved, files, locked, other>>
draft == <<rows, nextId, shirt, disclaimer, contact>>
builderVars == <<database, page, draft, photos, errors, attempted, dialog, visit,
          otherTab, uploads, gestures, mixed>>

Reserved == {"S", "M", "L"}
Custom == {"", "xl", "XL"}
Fold(c) == IF c = "XL" THEN "xl" ELSE c
Types == {"text", "select"}
Options == {"", "x", "long"}          \* "long" has over 255 characters
Disclaimers == {"default", "text", "blank", "long"}  \* "long" has over 30000
ShirtLabels == {"T-shirt Size", "Size", "", "glyph"} \* one character of two code units
NoShirt == [none |-> TRUE]
NoTab == [open |-> FALSE]
NoDialog == [ask |-> "nothing"]
NoVisit == [state |-> "none"]

Key(row, part, of) == [row |-> row, part |-> part, of |-> of]
Elsewhere(part) == Key(0, part, 0)
Images(f) == {f[i] : i \in DOMAIN f}
Photos(tshirt) == IF tshirt = NoShirt THEN {} ELSE tshirt.photos

-----------------------------------------------------------------------------
(* The rules of the browser.                                               *)

EarlierSame(f, i) == f[i].label # "" /\ \E j \in 1..(i - 1) : f[j].label = f[i].label

BadOptions(row, refused) ==
  IF row.type = "text" THEN row.options # <<>>
  ELSE \/ Len(row.options) < 2 \/ Len(row.options) > MAX_OPTIONS_PER_FIELD
       \/ refused \cap Images(row.options) # {}

(* Both report a later row with the label of an earlier one.               *)
BadRows(f, refused, options) ==
  {Key(i, "label", f[i].id) : i \in {j \in DOMAIN f : f[j].label \in refused \/ EarlierSame(f, j)}}
  \cup {Key(i, "options", f[i].id) : i \in {j \in DOMAIN f : BadOptions(f[j], options)}}
  \cup (IF \E j \in DOMAIN f : EarlierSame(f, j) THEN {Elsewhere("fields")} ELSE {})

validateRegistrationForm(f) == BadRows(f, PageRefuses, {""})

BadChoices(c) ==
  \/ Len(c) > MAX_CHOICES
  \/ \E i \in DOMAIN c : c[i] = "" \/ \E j \in 1..(i - 1) : Fold(c[i]) = Fold(c[j])

If(bad, part) == IF bad THEN {Elsewhere(part)} ELSE {}

(* The page counts the photos that it shows.                               *)
validateTshirt(s, shown) ==
  IF ~ s.on THEN {}
  ELSE If(s.label = "", "shirt label")
       \cup If(BadChoices(s.choices) \/ ~ Reserved \subseteq Images(s.choices), "choices")
       \cup If(\/ Cardinality(shown \cap s.existing) + Cardinality(s.new) > MAX_PHOTOS
              \/ (shown \cap s.existing) \cup s.new \in Heavy, "photos")

-----------------------------------------------------------------------------
(* The rules of the server, RegistrationFieldRequest: those of one field,  *)
(* and only when none of them fails those of the photos, against the list  *)
(* it has read.                                                            *)
fieldRules(q) ==
  BadRows(q.rows, ServerRefuses, {"", "long"})
  \cup If(q.disclaimer = "long", "disclaimer")
  \cup If(q.shirt.label \in {"", "glyph"}, "shirt label")
  \cup If(BadChoices(q.shirt.choices) \/ Len(q.shirt.choices) < 3, "choices")
  \cup If(q.shirt.new \cap BadFiles # {}, "file")
  \cup If(Cardinality(q.shirt.new) > MAX_PHOTOS, "photos")
  \cup If(Cardinality(q.shirt.existing) > MAX_PHOTOS, "existing")

(* Every photo that was sent counts, also one that is not listed any more. *)
photoRules(q, known) ==
  If(~ q.shirt.existing \subseteq known, "existing")
  \cup If(\/ Cardinality(q.shirt.existing) + Cardinality(q.shirt.new) > MAX_PHOTOS
         \/ (known \cap q.shirt.existing) \cup q.shirt.new \in Heavy, "photos")
  \cup If(~ q.shirt.on /\ q.shirt.existing \cup q.shirt.new # {}, "enabled")
  \cup If(q.shirt.on /\ ~ Reserved \subseteq Images(q.shirt.choices), "choices")
  \cup If(q.disclaimer = "blank", "disclaimer")

rules(q, known) == IF fieldRules(q) # {} THEN fieldRules(q) ELSE photoRules(q, known)

-----------------------------------------------------------------------------
(* The server: the steps that make s of the save r.                        *)

Listed == Photos(saved.tshirt)
Unwanted_All(r) == r.known
Unwanted(r) == r.known \ r.data.shirt.existing

(* The event is read once, for the rules, the first guard and the photos.  *)
bind(r, s) ==
  /\ r.state = "sent"
  /\ LET errs == rules(r.data, Listed)
         as(state) == [r EXCEPT !.state = state, !.known = Listed, !.errors = errs]
     IN \/ errs # {} /\ s = as("invalid") /\ UNCHANGED files
        \/ errs = {} /\ locked /\ s = as("ended") /\ UNCHANGED files
        \/ /\ errs = {} /\ ~ locked /\ s = as("bound")
           /\ stored' = stored \cup r.data.shirt.new /\ UNCHANGED <<revived, orphans>>
  /\ UNCHANGED saved

(* The photos are those of the list that was read.                         *)
written(r) ==
  [rows |-> r.data.rows, disclaimer |-> r.data.disclaimer,
   tshirt |-> IF r.data.shirt.on
              THEN [label |-> r.data.shirt.label, choices |-> r.data.shirt.choices,
                    photos |-> (r.known \cap r.data.shirt.existing) \cup r.data.shirt.new]
              ELSE NoShirt]

(* The second guard holds the lock of the event.                           *)
replaceForm(r, s) ==
  /\ r.state = "bound" /\ ~ locked
  /\ s = [r EXCEPT !.state = "tidying"] /\ saved' = written(r)
  /\ revived' = revived \cup ((r.known \cap r.data.shirt.existing) \ Listed)
  /\ orphans' = orphans \cup (Listed \ r.known)
  /\ UNCHANGED stored

(* Any exception, also while the photos are stored: the new ones go again. *)
undo(r, s) ==
  /\ r.state = "bound" /\ s = [r EXCEPT !.state = "ended"]
  /\ \/ stored' = stored \ r.data.shirt.new /\ UNCHANGED orphans
     \/ orphans' = orphans \cup r.data.shirt.new /\ UNCHANGED stored
  /\ UNCHANGED <<saved, revived>>

(* A deletion that fails is not noticed.                                   *)
tidy(r, s) ==
  /\ r.state = "tidying" /\ s = [r EXCEPT !.state = "done"]
  /\ \/ stored' = stored \ Unwanted(r) /\ UNCHANGED orphans
     \/ orphans' = orphans \cup Unwanted(r) /\ UNCHANGED stored
  /\ UNCHANGED <<saved, revived>>

update(r, s) == bind(r, s) \/ replaceForm(r, s) \/ undo(r, s) \/ tidy(r, s)

Answers == {"done", "invalid", "ended"}

Handle ==
  /\ visit.state \in {"sent", "bound", "tidying"}
  /\ update(visit, visit')
  /\ UNCHANGED <<locked, page, draft, photos, errors, attempted, dialog, other,
                 otherTab, uploads, gestures, mixed>>

HandleOther ==
  /\ other.state \in {"sent", "bound", "tidying"}
  /\ update(other, other')
  /\ UNCHANGED <<locked, page, draft, photos, errors, attempted, dialog, visit,
                 otherTab, uploads, gestures, mixed>>

Publish ==
  /\ ~ locked /\ locked' = TRUE
  /\ UNCHANGED <<saved, files, other, page, draft, photos, errors, attempted, dialog,
                 visit, otherTab, uploads, gestures, mixed>>

-----------------------------------------------------------------------------
Save(f, shirtOf, text, shown) ==
  [state |-> "sent", errors |-> {}, known |-> {},
   data |-> [rows |-> f, shirt |-> shirtOf, disclaimer |-> text, shown |-> shown]]

(* What an operator does, in either tab, is bounded.                       *)
Gesture == gestures < MaxGestures /\ gestures' = gestures + 1

(* The second tab is opened on the saved form; later it saves that form,   *)
(* some of its photos removed, one added, or the element switched off.     *)
OpenTab ==
  /\ ~ locked /\ otherTab = NoTab /\ other = NoVisit /\ otherTab' = [open |-> TRUE, form |-> saved]
  /\ UNCHANGED <<other, uploads>>

SaveTab ==
  /\ otherTab.open /\ otherTab' = NoTab
  /\ \E kept \in SUBSET Photos(otherTab.form.tshirt), new \in {{}, {uploads + 1}}, on \in BOOLEAN :
       /\ new # {} => uploads < MaxUploads
       /\ kept \cup new # {} => on
       /\ uploads' = IF new = {} THEN uploads ELSE uploads + 1
       /\ other' = Save(otherTab.form.rows,
                        [on |-> on, label |-> "T-shirt Size", choices |-> <<"S", "M", "L">>,
                         existing |-> kept, new |-> new],
                        otherTab.form.disclaimer, Photos(otherTab.form.tshirt))

OtherTab ==
  /\ \/ OpenTab /\ UNCHANGED gestures
     \/ Gesture /\ SaveTab
     \/ other.state \in Answers /\ other' = NoVisit /\ UNCHANGED <<otherTab, uploads, gestures>>
  /\ UNCHANGED <<saved, files, locked, page, draft, photos, errors, attempted, dialog, visit, mixed>>

(* The page.                                                               *)

Editable == page = "open" /\ dialog = NoDialog
Saving == visit # NoVisit

(* The props become the draft; with no T-shirt element, its defaults.      *)
initialFields(f) == [i \in DOMAIN f |-> [f[i] EXCEPT !.id = i]]

DefaultShirt ==
  [on |-> FALSE, label |-> "T-shirt Size", choices |-> <<"S", "M", "L">>, existing |-> {}, new |-> {}]

Open ==
  /\ Gesture /\ page = "closed" /\ ~ Saving /\ ~ locked
  /\ page' = "open"
  /\ rows' = initialFields(saved.rows) /\ nextId' = Len(saved.rows) + 1
  /\ shirt' = IF saved.tshirt = NoShirt THEN DefaultShirt
              ELSE [on |-> TRUE, label |-> saved.tshirt.label, choices |-> saved.tshirt.choices,
                    existing |-> Listed, new |-> {}]
  /\ photos' = Listed
  /\ disclaimer' = saved.disclaimer
  /\ errors' = {} /\ attempted' = FALSE /\ mixed' = FALSE
  /\ UNCHANGED <<database, contact, dialog, visit, otherTab, uploads>>

(* Left, with a save in progress or without: the answer finds no page.     *)
Leave ==
  /\ Editable /\ Gesture /\ page' = "closed"
  /\ UNCHANGED <<database, draft, photos, errors, attempted, dialog, visit,
                 otherTab, uploads, mixed>>

clearServerErrors(shown, some) == errors' = errors \ {e \in shown : e \in some}
OfRow(i) == {e \in errors : e.row = i}
OfRows(shown) == {e \in shown : e.row # 0 \/ e.part = "fields"}

(* A row is added, changed, or dragged to another place.                   *)
addField_KeepsErrors ==
  /\ Editable /\ Gesture /\ Len(rows) < MAX_FIELDS
  /\ rows' = <<[id |-> nextId, label |-> "", type |-> "text", options |-> <<>>]>> \o rows
  /\ nextId' = nextId + 1 /\ UNCHANGED errors

addField ==
  /\ Editable /\ Gesture /\ Len(rows) < MAX_FIELDS
  /\ clearServerErrors(errors, OfRows(errors))
  /\ rows' = Append(rows, [id |-> nextId, label |-> "", type |-> "text", options |-> <<>>])
  /\ nextId' = nextId + 1

updateField(i, row) ==
  /\ Editable /\ Gesture /\ row # rows[i]
  /\ clearServerErrors(errors, OfRow(i))
  /\ rows' = [rows EXCEPT ![i] = row] /\ UNCHANGED nextId

reorderFields_KeepsErrors(i, j) ==
  /\ Editable /\ Gesture /\ i # j
  /\ rows' = InsertAt(RemoveAt(rows, i), j, rows[i]) /\ UNCHANGED <<nextId, errors>>

reorderFields(i, j) ==
  /\ Editable /\ Gesture /\ i # j
  /\ clearServerErrors(errors, OfRows(errors))
  /\ rows' = InsertAt(RemoveAt(rows, i), j, rows[i]) /\ UNCHANGED nextId

label(i, text) == updateField(i, [rows[i] EXCEPT !.label = text])

(* A type without choices loses them.                                      *)
handleTypeChange(i, type) ==
  updateField(i, [rows[i] EXCEPT !.type = type, !.options = IF type = "select" THEN @ ELSE <<>>])

addOption(i) ==
  /\ rows[i].type = "select" /\ Len(rows[i].options) < MAX_OPTIONS_PER_FIELD
  /\ updateField(i, [rows[i] EXCEPT !.options = Append(@, "")])

updateOption(i, k, text) ==
  rows[i].type = "select" /\ updateField(i, [rows[i] EXCEPT !.options[k] = text])

removeOption(i, k) ==
  rows[i].type = "select" /\ updateField(i, [rows[i] EXCEPT !.options = RemoveAt(@, k)])

EditRows ==
  /\ \/ addField /\ mixed' = (mixed \/ Saving)
     \/ \E i, j \in DOMAIN rows : reorderFields(i, j) /\ mixed' = (mixed \/ Saving)
     \/ /\ UNCHANGED mixed
        /\ \E i \in DOMAIN rows :
             \/ \E text \in Labels : label(i, text)
             \/ \E type \in Types : handleTypeChange(i, type)
             \/ addOption(i)
             \/ \E k \in DOMAIN rows[i].options :
                  removeOption(i, k) \/ \E text \in Options : updateOption(i, k, text)
  /\ UNCHANGED <<database, page, shirt, disclaimer, contact, photos, attempted,
                 dialog, visit, otherTab, uploads>>

(* The question before a row is removed is about its place, and remembers  *)
(* the errors of the moment it was asked.                                  *)
removeField ==
  /\ Editable /\ Gesture
  /\ \E i \in DOMAIN rows : dialog' = [ask |-> "remove", row |-> i, errors |-> errors]
  /\ UNCHANGED <<database, page, draft, photos, errors, attempted, visit,
                 otherTab, uploads, mixed>>

confirmRemove ==
  /\ dialog.ask = "remove" /\ dialog' = NoDialog
  /\ clearServerErrors(dialog.errors, OfRows(dialog.errors))
  /\ rows' = RemoveAt(rows, dialog.row)
  /\ mixed' = (mixed \/ Saving \/ dialog.errors # errors)
  /\ UNCHANGED <<database, page, nextId, shirt, disclaimer, contact, photos,
                 attempted, visit, otherTab, uploads, gestures>>

closeDialog ==
  /\ dialog # NoDialog /\ dialog' = NoDialog
  /\ UNCHANGED <<database, page, draft, photos, errors, attempted, visit,
                 otherTab, uploads, gestures, mixed>>

(* The T-shirt element: any change of it clears every error.               *)
keptPhotos == photos \cap shirt.existing

(* It can be switched off only while it holds nothing of its own.          *)
hasData_SavedPhotosOnly ==
  keptPhotos # {} \/ Len(shirt.choices) > 3 \/ shirt.label # "T-shirt Size"

hasData ==
  keptPhotos \cup shirt.new # {} \/ Len(shirt.choices) > 3 \/ shirt.label # "T-shirt Size"

onShirtChange(s) ==
  /\ Editable /\ Gesture /\ s # shirt /\ shirt' = s /\ errors' = {}
  /\ UNCHANGED <<database, page, rows, nextId, disclaimer, contact, photos,
                 attempted, dialog, visit, otherTab, mixed>>

enableShirt ==
  /\ ~ (shirt.on /\ hasData) /\ onShirtChange([shirt EXCEPT !.on = ~ @])
  /\ UNCHANGED uploads

move(from, to) ==
  onShirtChange([shirt EXCEPT !.choices = InsertAt(RemoveAt(@, from), to, @[from])])

(* The reserved sizes are not edited, nor typed a second time, nor removed. *)
editChoice(k, text) ==
  /\ shirt.choices[k] \notin Reserved /\ text \notin Reserved
  /\ onShirtChange([shirt EXCEPT !.choices[k] = text])

removeChoice_Any(k) == onShirtChange([shirt EXCEPT !.choices = RemoveAt(@, k)])

removeChoice(k) ==
  shirt.choices[k] \notin Reserved /\ onShirtChange([shirt EXCEPT !.choices = RemoveAt(@, k)])

addChoice ==
  Len(shirt.choices) < MAX_CHOICES /\ onShirtChange([shirt EXCEPT !.choices = Append(@, "")])

EditShirt ==
  \/ enableShirt
  \/ /\ shirt.on
     /\ \/ /\ UNCHANGED uploads
           /\ \/ addChoice
              \/ \E text \in ShirtLabels : onShirtChange([shirt EXCEPT !.label = text])
              \/ \E k \in DOMAIN shirt.choices :
                   \/ removeChoice(k)
                   \/ \E text \in Custom \cup {"S"} : editChoice(k, text)
                   \/ \E j \in DOMAIN shirt.choices : move(k, j)
              \/ \E p \in keptPhotos : onShirtChange([shirt EXCEPT !.existing = @ \ {p}])
              \/ \E p \in shirt.new : onShirtChange([shirt EXCEPT !.new = @ \ {p}])
        \/ \E p \in (uploads + 1)..MaxUploads :
             uploads' \in p..MaxUploads /\ onShirtChange([shirt EXCEPT !.new = @ \cup p..uploads'])

(* The rest of the form.                                                   *)
toggleRequirement ==
  /\ Editable /\ Gesture /\ contact' = ~ contact
  /\ clearServerErrors(errors, {Elsewhere("requirements")})
  /\ UNCHANGED <<database, page, rows, nextId, shirt, disclaimer, photos, attempted,
                 dialog, visit, otherTab, uploads, mixed>>

(* The editor of the disclaimer clears its error; the default does not.    *)
editDisclaimer ==
  /\ Editable /\ Gesture
  /\ \/ disclaimer' \in Disclaimers \ {"default"} /\ clearServerErrors(errors, {Elsewhere("disclaimer")})
     \/ disclaimer # "default" /\ disclaimer' = "default" /\ UNCHANGED errors
  /\ UNCHANGED <<database, page, rows, nextId, shirt, contact, photos, attempted,
                 dialog, visit, otherTab, uploads, mixed>>

(* What is shown after the first attempt, besides what the server reported.*)
clientErrors == validateRegistrationForm(rows) \cup validateTshirt(shirt, photos)

saveForm ==
  /\ Editable /\ Gesture /\ ~ Saving /\ attempted' = TRUE
  /\ IF disclaimer = "blank"
     THEN errors' = errors \cup {Elsewhere("disclaimer")} /\ UNCHANGED dialog
     ELSE /\ dialog' = IF clientErrors = {} THEN [ask |-> "save"] ELSE NoDialog
          /\ UNCHANGED errors
  /\ UNCHANGED <<database, page, draft, photos, visit, otherTab, uploads, mixed>>

confirmSave ==
  /\ dialog.ask = "save" /\ dialog' = NoDialog /\ mixed' = (mixed /\ errors # {})
  /\ visit' = Save(rows, shirt, disclaimer, photos)
  /\ UNCHANGED <<database, page, draft, photos, errors, attempted, otherTab, uploads, gestures>>

(* The answer: on to the page of the event; or the errors, with the props  *)
(* of now; or nothing the page hears of.                                   *)
Answered ==
  /\ visit.state \in Answers /\ visit' = NoVisit
  /\ \/ visit.state = "ended" /\ UNCHANGED <<page, dialog, errors, photos>>
     \/ page = "closed" /\ UNCHANGED <<page, dialog, errors, photos>>
     \/ visit.state = "done" /\ page = "open" /\ page' = "closed"
        /\ dialog' = NoDialog /\ UNCHANGED <<errors, photos>>
     \/ visit.state = "invalid" /\ page = "open"
        /\ errors' = visit.errors /\ photos' = Listed /\ UNCHANGED <<page, dialog>>
  /\ UNCHANGED <<database, draft, attempted, otherTab, uploads, gestures, mixed>>

-----------------------------------------------------------------------------
Forms ==
  {[rows |-> <<>>, disclaimer |-> "default", tshirt |-> NoShirt],
   [rows |-> <<[id |-> 1, label |-> CHOOSE l \in Labels : l \notin PageRefuses \cup ServerRefuses,
                type |-> "select", options |-> <<"x", "x">>]>>,
    disclaimer |-> "text",
    tshirt |-> [label |-> "T-shirt Size", choices |-> <<"S", "M", "L">>, photos |-> {1}]]}

BuilderInit ==
  /\ saved \in Forms /\ stored = Listed /\ locked = FALSE /\ revived = {} /\ orphans = {}
  /\ page = "closed" /\ rows = <<>> /\ nextId = 1 /\ shirt = DefaultShirt
  /\ disclaimer = "default" /\ contact = TRUE /\ photos = {} /\ errors = {}
  /\ attempted = FALSE /\ dialog = NoDialog /\ visit = NoVisit
  /\ other = NoVisit /\ otherTab = NoTab
  /\ uploads = 1 /\ gestures = 0 /\ mixed = FALSE

BuilderNext ==
  \/ Handle \/ HandleOther \/ Publish \/ OtherTab
  \/ Open \/ Leave \/ EditRows \/ removeField \/ confirmRemove \/ closeDialog
  \/ EditShirt \/ toggleRequirement \/ editDisclaimer
  \/ saveForm \/ confirmSave \/ Answered

-----------------------------------------------------------------------------
States == {"none", "sent", "bound", "tidying", "done", "invalid", "ended"}

BuilderTypeOK ==
  /\ stored \cup revived \cup orphans \subseteq 1..MaxUploads
  /\ locked \in BOOLEAN /\ page \in {"open", "closed"}
  /\ Len(rows) <= MAX_FIELDS /\ \A i \in DOMAIN rows : rows[i].id < nextId
  /\ shirt.existing \cup shirt.new \subseteq 1..uploads
  /\ disclaimer \in Disclaimers /\ {contact, attempted, mixed} \subseteq BOOLEAN
  /\ dialog.ask \in {"nothing", "save", "remove"}
  /\ {visit.state, other.state} \subseteq States
  /\ uploads \in 1..MaxUploads /\ gestures \in 0..MaxGestures

(* Small, Medium and Large never leave the choices, whatever is typed,     *)
(* moved or removed, and there are never more than six choices.            *)
ReservedKept ==
  /\ Reserved \subseteq Images(shirt.choices) /\ Len(shirt.choices) <= MAX_CHOICES
  /\ \A k, j \in DOMAIN shirt.choices : shirt.choices[k] = shirt.choices[j] /\ k # j => shirt.choices[k] \notin Reserved

(* The form of the page is of its type and keeps the reserved sizes; and   *)
(* an error that the server reported about a row is shown at that very     *)
(* row, however rows are added, dragged or removed after it arrived -      *)
(* unless rows were moved while the save was in progress, or a removal was *)
(* asked for before the errors arrived (mixed).                            *)
ErrorsOnOwnRow ==
  /\ BuilderTypeOK /\ ReservedKept
  /\ page = "open" /\ ~ mixed =>
       \A e \in errors : e.row # 0 => e.row \in DOMAIN rows /\ rows[e.row].id = e.of

(* The photos that a save under way has stored or is to delete.            *)
UnderWay(r) ==
  CASE r.state = "bound" -> r.data.shirt.new
    [] r.state = "tidying" -> Unwanted(r)
    [] OTHER -> {}

(* However the steps of two saves interleave, and wherever one of them     *)
(* fails: a photo that the form lists has its file, unless a save listed   *)
(* it again from a list it had read before another save dropped it; and a  *)
(* file that the form does not list belongs to a save under way, unless    *)
(* its deletion failed or a save dropped it without having read it.  So    *)
(* one save at a time, with deletions that work, leaves exactly the files  *)
(* that are listed, whether it is done, refused or undone.                 *)
PhotosStored ==
  /\ Listed \ stored \subseteq revived
  /\ stored \ Listed \subseteq orphans \cup UnderWay(visit) \cup UnderWay(other)

(* A save that passed the rules of the page is sent back only for what the *)
(* page does not check - a label that only the server refuses, an option   *)
(* or a disclaimer that is too long, a label of the element that is one    *)
(* character, a photo that is too big or no picture - or cannot know: a    *)
(* photo of its draft that another save has removed, and may have brought  *)
(* back once the element was switched off.                                 *)
OnlyServerKnows ==
  visit.state = "invalid" =>
    \A e \in visit.errors :
      LET q == visit.data IN
      \/ e.part = "label" /\ q.rows[e.row].label \in ServerRefuses \ PageRefuses
      \/ e.part = "options" /\ "long" \in Images(q.rows[e.row].options)
      \/ e.part = "disclaimer" /\ q.disclaimer = "long"
      \/ e.part = "shirt label" /\ q.shirt.label = "glyph"
      \/ e.part = "file" /\ q.shirt.new \cap BadFiles # {}
      \/ /\ e.part \in {"existing", "photos", "enabled"}
         /\ \/ ~ q.shirt.existing \subseteq visit.known \cap q.shown
            \/ ~ q.shirt.on /\ q.shirt.existing # {}
=============================================================================
