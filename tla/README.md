# WDEMS: a formal model of its core

WDEMS is a Laravel application (MySQL/InnoDB in production, sqlite in its tests)
with React pages (Inertia), with which a church runs community runs and church
events: staff create an event in a wizard, build and publish a registration form,
take in participants from the form, from paper and at the desk, record attendance,
and finalize the event. This directory holds TLA+ modules of the parts that decide
something, the TLC configurations that check them, and proofs checked by TLAPS.

The system has two halves, and each has its own kind of difficulty.

The *server* is a set of PHP processes that share a database and a cache. A process
serves one request at a time and keeps nothing between requests. So the state is what
the tables and the cache hold, the actors are requests, and what is hard is what
happens *between* the steps of a request: the router binds the `{event}` row when the
request arrives, middleware and validation work on that copy, some handlers lock the
row and read it again, others do not; cache entries are read and written back without
a lock; mails leave the transaction. The one concurrency test of the repository
(`tests/Integration/RegistrationVerificationConcurrencyTest.php`) covers one pair of
requests.

The *pages* keep what was typed, what the last answer said, timers, a draft in
`localStorage`, and one visit (request) in progress. What is hard is that the last
answer is old: others work on the same rows, time passes, an answer arrives after the
form changed, a visit is replaced by another and its answer never heard, a timer fires
with the values of an earlier render. The repository has no test of the pages.

Contents: [inventory](#inventory), [modules](#modules-and-their-correspondence-to-the-code),
[runs](#runs), [proofs](#proofs), [disagreements](#disagreements-between-the-code-and-what-is-said-of-it),
[not modelled](#what-is-not-modelled), [plan](#plan).

## Inventory

Paths are under `src/app` unless they say otherwise.

| Component | State | Operations | Hard behaviour | What makes it correct |
|---|---|---|---|---|
| **Event lifecycle** `Models/Event`, `Enums/EventStatus`, `Enums/ChurchEventStatus`, `Services/EventWorkflow`, `Middleware/AdvanceEventStatus`, `EventController`, `RegistrationFormController`, `ChurchRegistrationBridgeController` | `status` / `church_status`, `registration_slug`, `registration_form_saved_at`, schedule, `registration_end`, `church_registration_open` | create, update, save form, open / close / reopen registration, automatic start, finalize, publish | stale bound rows; locks in some handlers only; start happens only on a visit | a published event has a form and a link, which never change; the status follows its table; an event ends only after it lasted; a completed one is left alone |
| **Contact verification** `Services/RegistrationVerification`, `RegistrationVerificationController`, `PublicRegistrationController`, `Models/RegistrationVerificationChallenge`, `Models/EmailDeviceVerification` | challenge rows, trust rows, two cache entries per address | begin, choose channel, send code, verify, finalize, acknowledge, prune | retries, late and replaced requests, expiry, cache outside the transaction | one registration at most per challenge; dead challenges stay dead; verified only by who reads the mailbox; wrong guesses are bounded; payloads are erased |
| **One-time codes** `Services/EventDeletion/EventDeletionOtpService`, `Services/TwoFactor/EmailTwoFactorService`, their controllers | two cache entries per user (and event) | issue, verify, invalidate | non-atomic read-change-write | single use, bounded guesses, newest code counts, lifetime, distance between mails |
| **Attendance** `AttendanceController`, `ChurchAttendanceController`, `RegistrationDeletionController`, `Models/Attendance`, `Services/Participants/AutomaticIdentityResolution` | `attendances`, `registrations` (status, code, duplicate pointer) | mark, bulk mark, walk-in, paper, batch, remove, complete, release held rows | two staff at one registration; completion and removal in between | attendance only of registrations that count; a proof by code is neither made up nor lost; nothing changes after completion |
| **Intake and identity** `Models/Participant`, `Services/Participants/DuplicateReview`, `RegistrationMonitorController`, `EditParticipantRequest`, and every handler that admits somebody | `participants`, `registrations`, a lock row per pool | form, desk, batch, addition to a service or fellowship, correction | lookup-then-insert; two lock orders; deadlocks; rows tested before their transaction | a single match is reused; no exact repeat in an event; a correction makes nobody ambiguous |
| **Church occurrences** `ServiceController`, `ServiceAttendanceController`, `Fellowship*Controller`, `Services/Church/*` | occurrences, two attendance tracks, groups, `registration_event_id` | create, recurring schedule, add, mark, remove, activate as an event, backfill | activation copies rows while they change | one track per person; activation happens once and carries the history |
| **Event deletion** `Services/EventDeletion/EventDeletionService` | rows of an event | delete after a code | restricting foreign keys, rows that arrive meanwhile | all or nothing |
| **Trusted devices** `Services/TwoFactor/EmailTwoFactorService`, `Middleware/EnsureDeviceIsTrusted` | JSON list of at most ten devices per user | trust, revoke, revoke all | lost updates | what was revoked stays revoked |
| **Release of held rows** `Console/Commands/ResolveHeldRegistrations` | held registrations | scheduled every minute | one row that throws | every held row is resolved in the end |
| **Confirmation mail** `Services/RegistrationConfirmationService` | `confirmation_email_sent_at` | send after commit | failure, crash between mail and record | sent once if at all |
| **Discipleship** `Discipleship*Controller`, `DiscipleshipProgressService` | programs, batches, sessions, enrolments, attendance matrix | CRUD, bulk upsert, progress | overlapping upserts, moved enrolments | one enrolment per program; progress counts what it says |
| **Monitor, review, reports, dashboard, audit, administration, settings** | mostly none of their own | read, flag, note, log | none beyond single statements | — |

Paths from here are under `src/resources/js`.

| Pages | State | Operations | Hard behaviour | What makes them correct |
|---|---|---|---|---|
| **Event wizard** `pages/events/create.tsx`, `edit.tsx`, `components/wizard.tsx`, `hooks/use-wizard-persistence.ts`, `lib/event-validation.ts` | form, step, checkpoint, errors of two origins, draft in `localStorage` | type, next, back, jump, submit, leave, come back | late keys, draft cleared before the answer, the start passing, two validators | the draft is what is typed, rejections are seen, nothing legal is refused |
| **Form fields** `components/date-picker.tsx`, `time-picker.tsx`, `distance-picker.tsx` | value, texts, popover, error flag | typing, picking, clearing, switching units | commits on closing, midnight, rounding | text and value agree; bounds are kept |
| **Public registration** `pages/registrations/public.tsx`, `church-public.tsx`, `verify.tsx`, `lib/public-registration-validation.ts` | form, draft, challenge, cooldowns on two clocks, captcha | fill in, submit, send code, verify, confirm | a shared device, lost answers, spent captcha tokens, three pairs of rule sets | nothing is left behind; consent is given anew; codes are not asked for too early |
| **Attendance** `pages/events/attendance.tsx`, `pages/services/attendance.tsx`, `pages/fellowship/attendance.tsx`, `components/encoder-name-search.tsx` and the entry forms | rows, search, code, override, dialogs | look up, search, mark, walk-in, add, move, remove | debounced search, replaced visits, late suggestions, other devices | the list is the code's; success only after success |
| **Event page, form builder** `pages/events/show.tsx`, `pages/events/registration-form.tsx`, `components/event-deletion-otp-dialog.tsx`, `registration-status-toggle.tsx` | props, dialogs, countdown; rows, photos, errors by index | buttons of the workflow, deletion; edit, drag, upload, save | stale props, replaced visits; errors that arrive after a drag, files outside the transaction | offers what the server takes; errors stay with rows; files are those of the form |
| **Discipleship** `pages/discipleship/show.tsx`, `batch-show.tsx` | filters, search, dialogs, grid with changed cells | search, enroll, edit, withdraw, batches, sessions, grid | late search results, answers that refill the grid | what is shown is what is sent |

How they interact. The event row is the hub: every other component asks its
predicates (`canEdit`, `acceptsPublicRegistration`, `isAttendanceReadOnly`...)
and most lock it (`lockForUpdate`) for the decision that matters. Contact
verification ends in intake (`finalize` resolves a participant and inserts a
registration). Intake of walk-ins ends in attendance (both rows in one
transaction). The scheduler prunes challenges hourly and releases held rows every
minute (`src/routes/console.php`). A registration that is deleted takes its attendance
along and is refused while a duplicate points to it (foreign keys). One-time codes
guard deletion and staff sign-in. Services and fellowships share the church pool of
participants with church events.

A page talks to the server by Inertia visits only (and two `fetch` calls for
suggestions). The semantics of a visit, which every page module follows: one synchronous
visit is in progress, a new one takes its place (its `onFinish` runs, its answer is
dropped, the server may have handled it or may still); validation errors run `onError`
and bring fresh props; a refusal (403, 404, 409, 422 by `abort`) runs neither `onSuccess` nor `onError`;
a partial reload replaces the props it names and no others; `post`, `put` and `delete` keep
the state of the page. Inertia itself is external.

The full list of components with their status, and the list of hazards with the
properties that would catch each, are `components` and `hazards` of `PROJECT.json`.

## Modules and their correspondence to the code

| Module | What it models |
|---|---|
| `EventRules` | transition tables and predicates of the Event model, as functions of a row |
| `EventLifecycle` | one event row, requests in three steps |
| `PublicLink` | abstract: what the holder of the public link is promised |
| `EventLifecycleProofs` | theorems about `EventLifecycle` |
| `ContactVerification` | challenges, trust, guess counters of one event |
| `Enrolment` | abstract: the life of a challenge |
| `ContactVerificationProofs` | theorems about `ContactVerification` |
| `OneTimeCode` | both code services, one user and one target |
| `OneTimeCodeProofs` | theorems about `OneTimeCode` |
| `Attendance` | attendance of one event, with the operations that delete, complete and release around it |
| `AttendanceProofs` | theorems about `Attendance` and about `AttendancePages` |
| `Intake` | from a submission to a participant and a registration |
| `IntakeProofs` | theorems about `Intake` and about `PublicRegistration` |
| `EventForm`, `Wizard`, `EventWizard` | what the steps of the event wizard hold and both rule sets; the wizard itself (any steps, any validator); the page with its three flows |
| `EventWizardProofs` | theorems about `EventWizard` and about `Pickers` |
| `Pickers`, `EventForms` | one date, time or distance field in use; the wizard or one of its fields |
| `RegistrationForm` | both rule sets of the three registration forms, as tables of the texts they refuse |
| `VerifyPage` | the page of the code: challenge, props, captcha, two clocks |
| `PublicRegistration` | one device: form, draft, `VerifyPage`, confirmation |
| `AttendanceDesk`, `Rosters` | the desk of a running event; the lists of church activities |
| `AttendancePages` | both on one device |
| `EventPage`, `FormBuilder`, `EventPages` | the page of an event with its deletion dialog; the form builder; either in use |
| `EventPagesProofs` | theorems about `EventPages` |
| `DiscipleshipRecords` | the handlers of discipleship, one step each |
| `ProgramPage`, `BatchPage`, `Discipleship` | the page of a program, that of a batch; either, with other operators |
| `DiscipleshipProofs` | theorems about `Discipleship` |
| `MC...` | symmetry sets, functions and small sets of values for the configurations |

**EventLifecycle.** A request is `Bind` (route model binding), `Advance` (the
`event.advance` middleware) and a handler. `snap[r]` is the `$event` of request r;
handlers that say `canX(snap[r])` judge by it, handlers that say `canX(ev)` have
locked the row and read it again, and those that need both do both in the code.
A save writes what Eloquent calls dirty: only the columns that differ from `snap[r]`
(`Transitioned`, `UpdateRunning`, `UpdateChurch`). A slug is a number, since each
generated slug is new; the form is the number of its saves. The clock counts ticks,
`FinalizeDelay` is the hour of `canFinalize`. No operation cancels a running event, so
`cancelled` is reached only by church events.
`overlapped` is a history variable, in every module with requests: it becomes TRUE when a request
arrives while another is in progress. Properties that the code keeps only for requests
that do not overlap say `~ overlapped => ...`; the others hold for every
interleaving. Which is which is one of the results. What such a guard exempts is not caught: see
[what the guards leave out](#what-the-guards-leave-out).

**ContactVerification.** Every operation of `RegistrationVerificationService` locks
the event row before it reads the challenge, so each is one action; what
interleaves is *when* requests come and *which* challenge they name. A time column is
kept as the time left (`ttl`, `codeLeft`, `cooldown`, `trust`, `hitsLeft`, `lockLeft`),
which makes the state space finite without a bound on the clock. `gate` is what the
event row says (open, only finishing, closed); `EventMoves` and `StaffMoves` are the
rest of the system. `GuessElsewhere` is the same code running for another event, which
shares the cache and not the event lock. `VerifyWrong` lets the transaction fail after
the cache was written. `reg[p]` is what `findExact` would return for payload p. `Legacy`
rows date from before a channel was chosen at `begin()`.

**OneTimeCode.** No lock anywhere: a request is the sequence of its cache operations.
`issue` is `MayIssue` (has), `Store`, `StoreCooldown`, then the controller's
`Deliver` or `DeliveryFails`; `verify` is `Get` and an answer. `service` selects the
controller: a deletion takes a code back when its mail fails, a login leaves it. `otp.expires` is the
`expires_at` inside the entry and `otp.until` the lifetime of the entry itself; they
differ because a wrong guess rewrites the entry for at least one second more.

**Attendance.** `mark()` is `BindMark` (guards), `Load` (the verified_at it preserves), `Select` and
`Save` (the two halves of `updateOrCreate`). `Updated` writes the columns in which the
wanted row differs from the row that was read, as Eloquent does, and matches nothing
when the row was deleted. `bulkMark()` reads one snapshot in its transaction and is
rolled back as a whole. Walk-ins, the church handlers, the release of a held row and submitted
forms hold the event lock and are one action each. `proven` is the history of codes
typed in while marking.

**Intake.** Every submission carries the same full name, the only case in which
contacts and birthdays decide. The lock of an event (or occurrence) and the lock of the pool
are functions to the set of holders, so waiting is a disabled action; a cycle of waits ends with
`Rollback` of either transaction, as InnoDB does. A `form` and the `desk` lock the event, then the
pool; a `batch` tests before its transaction, locks the pool and then waits for the
event through the foreign key; a `service` locks its occurrence and never the pool; an `edit` locks
nothing. `among` is the history of how many rows matched when a row was inserted.

**The pages.** An action is one event of the page (a gesture, a timer, an answer, the server
handling a visit) together with everything React runs after it: a `useEffect` is part of the
action that triggers it, never an action of its own. `Gesture` and `Consequence` separate what a user chooses (bounded) from what
follows (not bounded). Props are kept apart from the rows of the server, so that what a page
judges by can be old; a closure is a copy taken when it was made (the search timers
of `AttendanceDesk` and `ProgramPage`). A text is a member of a set that tells apart what a rule tells apart.

`Wizard` is shared: its operations take the steps and `checks` (the fields in error, step by step) as
parameters, and `EventWizard` and `PublicRegistration` supply theirs, as the event pages and `public.tsx` do with
`components/wizard.tsx`. The church registration page has three steps of its own code, which behave alike, but restores and
saves its draft itself (`churchMount`) and looks for the first error after every key (`churchType`). In `EventWizard` keys typed while a request is out are counted (`late`), because they
write the draft again.

`EventForm` and `RegistrationForm` hold the rules of the browser and those of the server side by side,
each translated from its own source and with no operator in common where the code has none, so that they can be compared. They differ where the
programs do. In `EventForm` each judges the date by its own clock (`ServerClock`, `BrowserClock`: `ahead` is the distance, which
stands for a wrong clock and for another time zone alike), and the browser's `length` counts UTF-16 units where
Laravel counts code points, so that texts are "thin" or "wide" for one of them only. What the browser refuses although the server
would take it is named: `OddBasics`, `OddVenue`, `OddClock`, `OddPartners`. In `RegistrationForm` a
table gives for each field the classes of text that are refused, and `ServerOnly` and `BrowserOnly` are the differences, field
by field and form by form: the address of the old form (500 characters in the browser, 255 on the server), email patterns, custom
answers, birthdays by two clocks, trimming, UTF-16. The page of a church event sends its consent, and the
server's rules refuse a form without it; `ticked` is the history of a consent that was given on this visit and not taken back.

`VerifyPage` keeps times as what is left on the server's clock; `skew` is how far the browser's clock
is ahead. `doubt` is the history of what the page cannot know: an answer that was lost, a reload.

`AttendanceDesk` numbers registrations by their codes. `visit` is the request in progress with what it asked, `found`
the suggestions with the name they were fetched for. `Rosters` covers three lists by one
module: `roster` selects the rules, which are of one shape in the three controllers.

`EventPage` extends `EventRules`, so the guards of handlers are those of `EventLifecycle`. `basis` is the row the
page showed when a button was pressed and `stale` whether the row has changed since.
A save of `FormBuilder` is `RegistrationFormController::update` in its steps. `bind` reads the event once, with its list of photos, runs
the rules of `RegistrationFieldRequest` (before the first guard, as a form request does; the rules of photos only when none of the
others fails, against the list that was read), takes the first guard and stores the new photos. `replaceForm` looks again under
the lock of the event and replaces the form, with the photos of the list that was read. `undo` is any exception on the way: the new
photos go again. `tidy` deletes what is no longer wanted after the commit; a deletion that fails is not noticed. A second
tab (`OpenTab`, `SaveTab`) saves the same form, so the steps of two saves interleave. Photos are numbers, so a file
keeps its identity. `revived` are photos that a save lists again from a list it had read too early, `orphans` files whose
deletion failed or that no save had read before they were dropped. The server refuses more than the page knows of: labels,
options, a disclaimer and a label of the element by their lengths and letters, files by size and content. `mixed` marks saves in
whose progress rows were moved.

`DiscipleshipRecords` has one operation per handler; other operators use the same ones. `prefixes` says where the routes are
mounted. At this commit that is below `/events/church/discipleship` (`src/routes/web.php:242,368-392`), while the
pages ask for `/discipleship/...` (`Asked`): no route answers, so every search, dialog and save of the two pages ends in a 404 (`NotFound`,
`Unrouted`), and only the operators at the handlers (`OtherOperators`) change anything. `docs/restructure/phase-1-navigation.md:73-75`
accepts this. `Mountings` is a constant, so both the routes of this commit and routes that are also mounted where the pages ask,
as `docs/discipleship.md:281` describes them, are checked: what the pages promise is a question about the second. The list pages for
services and fellowships (`Rosters`) ask for URLs without the prefix too; there a request may end unanswered
at any time (`AnsweredNot`), which includes a 404 each time, and the invariant is about the rows of the server.

## Runs

All configurations use the specifications as they are: no definition is replaced.
Every property of a passing run has a mutant (`PROJECT.json`) that makes TLC report
it. The mutants are the operators named `X_Variant` before `X`, with a comment that says
what the plausible bug is.

| Run | Question | Result |
|---|---|---|
| `lifecycle` | one event of either kind, two requests, every interleaving | published complete, closed means ended, form and link fixed, a start never undone (refinement of `PublicLink`); both status columns follow their tables, a completed row is left alone and events start and end on time until requests overlap; a due event is started when visited |
| `verification_guesses` | an email-only or a two-channel event, two browsers, two people, a legacy challenge | count and lock of an address stay together, one registration per challenge, verified only by who reads the mailbox, dead is dead, no code in the cooldown, refinement of `Enrolment`, payloads are erased |
| `otp` | two requests of one user, both services | no code is accepted late, in every interleaving; single use, bounded guesses, newest counts, rollback of an undelivered code, spaced mails until requests overlap |
| `attendance` | two requests of any kind, three registrations, both kinds of event | attendance only of active or held rows, duplicates lead to a confirmed row, no made-up proof; what checks under a lock keeps a completed event; consistent absences and kept proofs until requests overlap |
| `intake` | all intakes of both pools, two at a time | a single match is reused, no exact repeat, an undisturbed batch is independent, a correction keeps people apart, each up to the overlaps its code does not protect |
| `wizard` | three flows of the event wizard, with leaving, late keys, other staff, a clock that is ahead, the start passing, lost answers; or one of its fields, with every sequence of gestures | the draft is what is typed, the checkpoint never moves back, a rejection is shown, an accepted event leaves no draft, the browser refuses nothing that the server would take but what the two measure differently; texts of a field denote its value, chosen days are in bounds, lists of a time are independent, the drift of units is ten metres at most |
| `registration` | one device, two people, three forms | a confirmation leaves nothing of its owner, a church registration begins with a consent that was given on the visit and not taken back, rejections are shown, a spent captcha is replaced, codes are asked for in time, and the two rule sets differ on the listed texts only |
| `attendance_pages` | the desk and the lists on one device, with others at work | rows of the code only, check-in announced only after the mark of that registration, suggestions fit the name, lists and dialogs consistent |
| `event_pages` | the event's page and the form builder, with other staff | a button is refused only when the event changed, no button stays disabled, the countdown follows a mail; errors stay with rows; whatever two saves do at the same time, a listed photo has its file and an unlisted file is about to go, but for lists read too early and deletions that failed; a passed save is refused only for what the page leaves to the server or cannot know |
| `report_link` | does the link to the report always lead somewhere? | no: a church event shows it and the server answers 404 |
| `discipleship` | the pages of a program and of a batch, with other operators, over the routes of this commit and over routes mounted where the pages ask | dialogs send what they show, no dangling pointers, a save writes changed cells only, and nothing where no route answers |
| `discipleship_routes` | does a save of the grid reach its handler, over the routes of this commit? | no: it ends in a 404 |

**Bounds, and why they are enough.** Two requests: every race in this code is between
what one request read and what another wrote, and a third request adds only another
writer of the same column, which the two can be one after the other because requests end and begin
again (no bound on their number in `EventLifecycle` and `OneTimeCode`; `MaxRequests` 5
in `attendance`, where releases and forms come in without a request; 3 in `intake`). `EventLifecycle`: the clock runs to 3
with a delay of 1, so that a start can be in the past, moved, reached, and outlasted by
the delay; two saves of the form tell first from later. What two requests show there is proved for any number.
`ContactVerification`: `MaxAttempts` 2 separates the last permitted guess from the
first, lifetimes of 1 and 2 ticks let a code, a cooldown, a challenge, a trust and a
lock each expire before and after the others; `MaxHits` 2 is the count at
which the address is locked, reached here or by guesses at other events; the challenge
that is there at first belongs to one browser, the two being alike; `MaxCreated` 2 is one more than allowed.
`OneTimeCode`: two codes, a lifetime of 2, a cooldown of 1 and a clock to 5 let a
code be issued, expire, be written back, and be replaced; three guesses are one more than the limit.
`Attendance`: three registrations are the least in which a duplicate's original can be a
duplicate or be deleted. `Intake`: one email and one phone make matches that are not
transitive (one person matches two who do not match each other), two events and two occurrences let a match come
from elsewhere, two rows make a batch that can be cut short; birthdays are left unknown, because
they multiply the identities beyond what the run's time allows. Symmetry is used over requests, events and occurrences in
runs that check safety only.

*Pages.* A page has one user; the others and the clock are the second actor. `EventWizard`: one lost or
late step of each sort is enough to separate form, draft and request; the server's clock runs from the first half hour of a day
to the next (48 to 49 half hours), where the first start lies, and the browser of the edit page is one half hour ahead, so that each
clock passes the start before and after the other. The forms in use hold
the values that decide a step; whatever else may be entered is compared outside the flows (`TextsAgree` over every class of text,
`ClocksAgree` half an hour around midnight and clocks up to an hour ahead or behind, `PartnersAgree` over every pair of partners).
The wizard treats a field as a whole, so `EventForms` follows the wizard or one field, never both.
`Pickers`: twelve days, months of two days and years of two months let a page of the calendar turn in every
direction; the clock makes one step over midnight; distances
include the values whose conversion rounds up and down. `PublicRegistration`: two people are the least
of which one can find the other's data; lifetimes of one tick
let each clock expire before the other. The device of the
version 2 form, whose captcha waits for the cooldown, has a clock that is ahead, the other two a right one. `AttendanceDesk`: five gestures are a search, a code, an override, a mark and one that disturbs them;
two registrations tell the code's from another. `Rosters`: two rows and one person, who can be added twice or moved; the theorem `ListsStaySound` is for any number of people. `EventPage`:
five clicks are opening the dialog, two requests for a code, a guess and one that replaces it; `MAX_ATTEMPTS` 2, two mails
and a countdown of one tick. `FormBuilder`: five gestures, one of which is the save of the other tab; two rows, which is
the least that can be reordered; five sizes of which three are reserved; four photos ever, two at a time, one of which is bad and two of which
are too heavy together, so that one photo is dropped, one added in each tab, and every rule of photos is met. `Discipleship`: four gestures are an edit, another operator's, and a save,
with one to spare; existing rows may be of any status.

**Deadlock.** `lifecycle` and `verification_guesses` are checked for deadlock: an event page can always be
visited, a challenge can always be pruned or time passes. The other runs set `CHECK_DEADLOCK FALSE`: their clocks,
requests or gestures are bounded, so a finished history stops. The database deadlock of `Intake`
is not a TLC deadlock; it is the guard of `Rollback`.

**Fairness.** `EventLifecycle.FairSpec`: a request that was bound is answered (PHP runs it
to its end), and staff keep opening the pages of the event; nothing else starts an event, so
without visits there is no promise, and `StartsWhenVisited` makes no more than that.
`ContactVerification.FairSpec`: time passes and the scheduler prunes hourly
(`src/routes/console.php`). No other module states fairness: nothing obliges the
user of a page to go on, and an answer may be lost.

### What the guards leave out

Some promises are kept by this code only while requests do not overlap, or while nothing else goes on during a visit. Their
properties say so by a guard, hold under it, and do *not* catch the race itself, which the code has:

- `RowConsistent` (events start and end on time), `WorkflowFollowed`: a handler that writes from a row bound before another
  wrote. The refinement of `PublicLink` does not see a completed event that is set back to ongoing either.
- `CodeConsistent` (single use, bounded guesses, newest code, spaced mails): requests between `has`, `get` and `put` of the cache.
- `SheetConsistent` (consistent absences), `RecordKept` (kept proofs): two marks of one registration.
- `IntakeConsistent` (a batch on its own), `CorrectionKeepsApart`: rows tested before a transaction that locks too late or not at all.
- `AcceptedLeavesNoDraft`: keys typed while the request is out. `ErrorsOnOwnRow`: rows moved while the answer is due (`mixed`).
- `PhotosStored`: two overlapping saves, for the photos they make `revived` or `orphans`, and deletions that fail.

The entries under `hazards` in `PROJECT.json` say the same where they are concerned.

## Proofs

`EventLifecycleProofs` proves, for any set of requests, any `FinalizeDelay` and any bounds:

| Theorem | Statement |
|---|---|
| `TypeCorrect` | `Spec => []TypeOK` |
| `PublishedComplete` | `Spec => []PublishedHasFormAndLink` |
| `ClosedIsClosed` | `Spec => []ClosedHasEnd` |
| `FormFrozen` | `Spec => FormFrozenOncePublished` |
| `LinkImplemented` | `Spec => LinkKept`: every step is a step of `PublicLink` or leaves it alone |
| `AloneStatus`, `AloneChurchStatus`, `AloneFinal`, `AloneOnTime` | the four properties that hold until requests overlap |
| `RowStaysConsistent` | `Spec => []RowConsistent`: the invariant that the run `lifecycle` checks, from the theorems above |
| `AloneWorkflow` | `Spec => WorkflowFollowed`: its action property, likewise |

From `LifecycleAssumption` and `RulesAssumption` only. The argument:

1. The safety properties are not inductive, because handlers write from the copy they
   bound. What saves them is that a copy is *old but never ahead*: an event a request saw
   published is published, one it saw started is started, and its kind does not change
   (`SnapOld`). `IInv` is `TypeOK`, `KindInv` (no running event is cancelled, a church
   event keeps the draft in its unused column, an open church link is complete), the two
   invariants, and `SnapOld` of every request.
2. `HandlerRowStep` and `AdvanceRowStep` show that from `IInv` a step does one of seven
   things to the row (`RowStep`: untouched, form saved, opened, switched, begun, ended,
   linked). Everything about the row follows from `RowStep` alone: monotonicity
   (`RowStepMonotone`, hence `SnapOld'`), the invariants (`RowStepKeeps`), the frozen
   form, and the refinement.
3. Until requests overlap, a copy is not only old but the row itself (`AloneInv`: at
   most one request in progress, and its copy is fresh). `FreshHandler` and `FreshAdvance` show
   that a fresh copy makes every handler follow both tables, respect completion and
   start and end on time (`AloneStep`).

So every safety property of `lifecycle` is a theorem.

`DiscipleshipProofs` proves, for any participants, any mounting of the routes and any bounds; only `ShownIsAlwaysMeant`
assumes anything (`GesturesAssumption`: the bound on gestures is a number):

| Theorem | Statement |
|---|---|
| `NeverDangling` | `Spec => []NoDangling` |
| `WritesOnlyChanged` | `Spec => OnlyChangedWritten` |
| `ShownIsAlwaysMeant` | `Spec => []ShownIsMeant` |

1. `NoDangling` is not inductive: `updateEnrollment` writes the status it is given. It
   would unmake an enrollment, under the attendance that refers to it, if a page could
   send the status of one who never enrolled. `IInv` adds that the records are well formed
   (`RecordsOK`) and follows the status from the row that is shown (`ShownOK`) into the
   dialog (`DialogOK`) and into the request (`VisitOK`).
2. Every step does one operation of the server to the records or none (`RecordStep`:
   `HandleVisitStep`, `HandleRequestStep`, `OtherOperatorsStep`), and each of those
   keeps `RecordsOK` and `NoDangling` (`RecordStepKeeps`). Gestures and
   consequences on the page keep `PageOK` (`ProgramGestureKeeps`, `ProgramConsequenceKeeps`).
3. A save on its way holds only cells that were changed when it was sent (`SaveOK`), and
   the request is all that the server writes from, where a route answers; where none does, nothing is written. The property
   asks for both: a cell that a save writes was changed, got what was sent, and the pages' URL is routed.
4. `ProgramOK` gives each kind of dialog its fields, and makes the one of a new enrollment send whom it
   shows: a pick and its removal change both together (`ProgramGestureShows`), an answer to the search changes
   neither. `GridOK` says that the records hold marks and nothing else (`MarksOK`, kept by what others
   record, too), so a cell of the grid is of its type; an answer fills exactly the cells without a mark.

`ContactVerificationProofs` proves, for any browsers, challenges, addresses, forms and
durations, from `VerificationAssumption` (durations and limits are numbers, each payload has an
address) and `NullAssumption` (no payload is the missing one, nobody is no browser):

| Theorem | Statement |
|---|---|
| `ChallengesStayConsistent` | `Spec => []ChallengesConsistent` |
| `LateIsRefused` | `Spec => NothingLate` |
| `EnrolmentImplemented` | `Spec => EnrolmentKept` |

1. `IInv` strengthens the invariants with what the handlers rely on and never test: a
   challenge that may still be completed has its payload and its browser (`LiveHasPayload`), one that created
   a registration stays finalized until it is pruned (`CreatedIsFinal`), a device is trusted for an address
   only because it typed its code (`TrustIsTyped`), and what the rate limiter counts it has not forgotten (`CountIsTimed`).
2. Each action changes the row of one challenge or lets time pass for all of them. The lemmas about one row
   say what issuing, proving, completing and ageing do to it; the steps only name the row.
3. A late request is refused because the code looks at the row under the lock of
   the event (`Timely`), and the refinement maps each row to a stage (`StageOf`): only proving and completing move
   it, in that order.

Liveness aside (`PayloadErased`), every property of `verification_guesses` is a theorem.

`AttendanceProofs` proves, for any registrations, any requests and both kinds of event, from
`AttendanceAssumption`:

| Theorem | Statement |
|---|---|
| `SheetStaysConsistent` | `Spec => []SheetConsistent` |
| `RecordStaysKept` | `Spec => RecordKept` |

1. Whoever overlaps, a request writes only what it was bound to (`WantOK`, `KindOK`): an absence
   without a proof, and a proof only if the code of its registration was typed. A row that is read too
   early does no harm to that, because a save writes a column of one or the other
   (`UpdatedRow`), and nothing to a row that was deleted. So a step leaves a row, empties it, or writes a proved or
   unproved one to a registration that counts (`Fate`, `SheetKeeps`).
2. Pointers of duplicates form no circle because nobody points to a held
   registration: only what exists and is not held is pointed to (`PointerOK`), and the
   foreign key keeps it existing (`ResolveKeeps`, `StatusKeeps`).
3. Until requests overlap (`Alone`), the one request there is has read what is
   there, and on a completed event it is a removal or nothing (`FreshOK`). Then what is saved is what was wanted,
   so an absence is consistent and a proof is kept. At church events nothing is ever proved
   (`ChurchUnproven`), which is why their plain write loses nothing.

Every property of `attendance` is a theorem.

The same module extends `AttendancePages` too, for any names, people and lists of
registrations and any bounds, from `PagesConstants` (the empty text is nobody's name; at first there are
registrations, no more than the bound allows):

| Theorem | Statement |
|---|---|
| `ListsStaySound` | `PagesSpec => []ListsSound` |
| `RowsAreOfCode` | `PagesSpec => []RowsOfCode` |
| `OfferedByName` | `PagesSpec => []NamesOffered` |
| `ConfirmedByCode` | `PagesSpec => CheckInConfirmed` |

1. The lists (`ListInv`): the server tests both tracks under the lock, so an addition meets nobody of its own name on
   either (`StoreKeeps`), and a group that is deleted leaves no row behind (`RemovalKeeps`). What a page shows does not matter;
   only that a request names a person and one of the lists (`AskOK`), also after a dialog was closed and opened on the other tab (`FormOK`).
2. The desk (`DeskInv`): an answer may bring a part of the props only. The override is fetched without the rows, for a
   query with the code that is on the page (`OnlyOK`), and the code on the page does not change under a visit in progress; a mark fetches
   the rows for the address of the page, which has its code (`ShownOK`). So rows and code belong together after every
   answer (`MergeOK`).
3. A mark sends the code that is active with a row that is in view, which is therefore the row of that code (`PostOK`); and
   registrations are never renamed (`Grown`), so suggestions keep the name they were found under (`WalkInOK`).

Every property of `attendance_pages` is a theorem.

`OneTimeCodeProofs` proves, for any number of requests, codes and guesses and any lifetimes, from
`CodeAssumption`:

| Theorem | Statement |
|---|---|
| `CodeStaysConsistent` | `Spec => []CodeConsistent` |
| `NeverLate` | `Spec => NoLateVerify` |

1. `max(1, remaining)` lets an entry outlive its code, and every wrong guess writes the entry back.
   But what is in the cache, or was read from it, carries the expiry of the code that was
   issued (`EntryOK`), however often and in whatever order it is written back. The code is accepted by
   that expiry, so `NeverLate` holds for every interleaving.
2. Until requests overlap (`Alone`), the entry is that of the newest code, unused, and counts the
   guesses it was compared with (`NewestOK`); at most one request is between two of its cache operations, and
   what it read is what is there (`TurnOK`).
3. Mails keep their distance although a cooldown may be forgotten: it is forgotten only after its
   code was used or could not be mailed, and every code that is still open lies behind the cooldown or is
   protected by it (`DistanceOK`).

Every property of `otp` is a theorem.

`EventWizardProofs` proves, for any values a user enters, any stored events, any of the pages and any bounds, from
`WizardAssumption`, `FormAssumption` and `ValuesAssumption` (the values are closed under what the page does to them, and stored
events are forms):

| Theorem | Statement |
|---|---|
| `WizardStaysConsistent` | `Spec => []WizardConsistent` |
| `RejectionIsShown` | `Spec => RejectionShown` |
| `CheckpointStays` | `Spec => CheckpointKept` |
| `AcceptedClears` | `Spec => AcceptedLeavesNoDraft` |
| `BrowserNotStricter` | `Spec => []ClientNotStricter` |

1. A rejection may throw the page to any step, past the checkpoint for all the handler knows. It does not,
   because a form is sent from the last step, so that the checkpoint is at the end while an answer is awaited or its
   errors are shown; and the draft that was removed stays away until a key is typed (`InStep`). Whatever
   the user types goes through `TypeKeeps`.
2. The church pages have no step for partners, and the edit page none for the activity of a specialist event, though
   the server's rules look at both. No error of theirs can come back, because what a page cannot edit
   is empty or came from an event that passed the same rules (`Owned`, `ErrorsOwned`); this
   is an invariant of the page, the draft, the request and the row together (`OwnedInv`).

3. The two rule sets are compared part by part (`BasicsAgree`, `ScheduleAgrees`, `VenueAgrees`, `ExtrasAgree`, together
   `EditorsAgree`), for any distance between the two clocks. What the browser refuses although the server takes it is what the
   exemptions name and no more: texts that are too long in UTF-16 units only, a link with a space that only the browser takes for
   one, a start that has passed by a clock that is ahead or a day beyond two years by one that is behind, and partners whose names differ in the case of a letter
   outside ASCII, which are repeats to the browser and two partners to the server.

Every property of the wizard is a theorem.

The same module extends `Pickers` too, for any calendar
of days, any bounds and any distances, from `PickerConstants`, which the run evaluates as `PickerAssumption`:

| Theorem | Statement |
|---|---|
| `FieldStaysConsistent` | `FieldSpec => []FieldConsistent` |
| `DriftStaysBounded` | `FieldSpec => []DriftBounded` |
| `ChoicesStayRespected` | `FieldSpec => ChoicesRespected` |

1. Drift does not add up. A mile is longer than a kilometre, so a whole number of hundredths of a mile survives
   the way to kilometres and back (`MilesComeBack`), and only the first conversion of what was typed may lose one
   (`KmDrift`). So the value is what was typed, its conversion, or the conversion back of that
   (`Journey`), whichever unit is in view.
2. Each list of a time is read from the same minute of the day, and `to24` undoes `parse` (`TimeShown`); so a choice in
   one list moves no other.
3. A date is committed after the test of its bounds, clicked in a cell that passed the same test, or today
   (`DateChosen`). The flag of an error and the popover change together in every effect (`CommitKeeps`, `DateStep`).

Every property of the fields is a theorem, too. The run checks the two under one specification (`FormSpec`); the theorems are
about each on its own.

`IntakeProofs` proves, for any requests, events, occurrences and identities and any bounds, from
`IntakeAssumption` (the kinds of intake are the five there are, "no contact" is not a contact):

| Theorem | Statement |
|---|---|
| `IntakeIsConsistent` | `Spec => []IntakeConsistent` |
| `CorrectionsKeepApart` | `Spec => CorrectionKeepsApart` |

1. A transaction holds a lock exactly between its statements (`LocksOK`, `Holding`, `InPool`), and two
   requests in progress have overlapped (`OverlapOK`).
2. What a request found is still so when it commits (`FactOf`): no single repeat under the lock of the
   event (`FoundNoRepeat`), the same single match under the lock of the pool (`FoundPerson`), the tests before the
   transaction of a row (`FoundRow`), and those of a correction (`FoundApart`), where nothing is locked
   and the fact lasts as long as nothing overlaps. A commit changes rows under the locks it
   needs (`RowsMove`), so it spares what the others found (`OthersFind`).
3. Hence the history of each new row (`InsertHistory`). That a participant is registered once per event does not
   need the locks: it is the unique index (`InsertRows`).
4. The bound on the participants needs the sum of the rows that requests in progress may still insert. Sums
   over sets are induction over data, so the sum is a set: one token per request and row (`Tokens`), of
   which a commit uses one up (`BudgetSpent`).

Every property of `intake` is a theorem.

The same module extends `PublicRegistration`, the device on which the forms that `Intake` takes in are filled in, and
proves for any people, setups of the event, values, lifetimes and skews, from `PublicAssumption` (the parts that may be
entered have a blank value, one browser has the right time and one the slowest clock, nobody is called "nobody"):

| Theorem | Statement |
|---|---|
| `NothingIsLeft` | `DeviceSpec => []ConfirmedLeavesNothing` |
| `RulesStayMirrored` | `DeviceSpec => []RulesMirror` |
| `ConsentIsGiven` | `DeviceSpec => ConsentGivenHere` |
| `RejectionsShow` | `DeviceSpec => RejectionShown` |
| `SendsStayPaced` | `DeviceSpec => SendsPaced` |
| `DeviceStaysInOrder` | `DeviceSpec => []DeviceConsistent` |

1. One inductive invariant, `DeviceInv`, has a side for the form (`FormSide`) and one for the verification page
   (`VerifySide`), which meet only where a challenge has an owner and where the form and the page replace each other.
   Each action keeps the side it works on by a lemma of its own, and the other because it leaves it alone.
2. Whoever is confirmed entered nothing in the draft (`PeopleInv`): "Confirm" removes the draft and confirms its owner in one
   step, and a person who has left the device confirmed does not return to its form. The form that is open
   is blank or comes from that draft.
3. Opening a church form takes the consent out of its draft, and unticking the box takes it back. So a consent in the form, or in a form on
   its way, was given on this visit and not taken back (`ConsentInv`); the steps let a user untick it and go on, and it is the
   server's own rule that refuses such a form.
4. The server's clock for the next mail is bounded by what the page shows unless an answer was lost; a reload takes away the
   page's own countdown, and then only a clock that is ahead lets the page ask early (`PacedInv`). The captcha's section
   follows the props (`WidgetInv`).
5. The mirror of the two rule sets needs no invariant. `AllMirrored` compares the tables field by field, in both directions
   (`PersonalServer`, `PersonalBrowser`, `EmergencyServer`, `EmergencyBrowser`), for all three forms and whatever is required, of which the run takes three
   setups: what one side refuses the other refuses too, but for the texts of `ServerOnly` and `BrowserOnly`.

Every property of `registration` is a theorem.

`EventPagesProofs` proves, for either kind of event, any fields, labels and photos and any bounds, from
`EventPageAssumption`, `BuilderAssumption` and `RulesAssumption` (limits are numbers, there are places for the
reserved sizes, no photos at all are not too heavy, and some label is acceptable to both programs):

| Theorem | Statement |
|---|---|
| `EventPageKeepsItsWord` | `Spec => []EventPageSound` |
| `PhotosAreStored` | `Spec => []PhotosStored` |
| `OnlyServerEverKnows` | `Spec => []OnlyServerKnows` |
| `ErrorsStayOnTheirRow` | `Spec => []ErrorsOnOwnRow` |

1. The page of an event shows a row of the past and asks the server of today. What it shows, what a dialog stands open
   for and what a visit was begun with can only have *become* what the server has (`Becomes`), and as long as nothing
   changed but the time, every offer stands (`Offered`): registration never ends in the future, and time takes no event out of the
   states its buttons are for. Each visit has a purpose (`EventInv`), so no button waits for one that is gone.
2. The builder's invariant, `BuilderInv`, holds between any two steps of two saves. `PhotosOK` has two parts. `Filed` relates the list,
   the files and what is under way: what a save has stored is there, what it is to delete is not listed, and both but for `revived` and `orphans`. `Apart` says
   why two saves do not disturb each other's new photos: what one side brings is in neither the list, nor what the other brings or has read. Each
   step of a save moves both (`UpdateFiles`, `UpdateApart`, from the cases of `Steps`).
   A form passed the page's rules when it was sent (`Checked`, `VisitOK`; a shirt that is off is empty but for photos the page does not show, `Off`). So whatever
   the rules of the server still report (`Reported`) is the server's own (`ServersOwn`): texts, files, or photos that are no longer in the list it has read. That
   the numbers agree needs the page's count for the very photos that were sent (`CheckedShirt`).
3. Rows are moved by permutations, inserted and removed at an index. An error follows its row because the handlers
   drop the errors that would not move along (`RemovedFrom`, `InsertedIn`, `MovedIn`, `EditRowsKeeps`, `RemovedRow`, `ErrorsOK`).

Every invariant of `event_pages` is a theorem.

Only model-checked: liveness (`StartsWhenVisited`, `PayloadErased`), which is out of the prover's reach. Every other
property of a passing run is a theorem.

## Disagreements between the code and what is said of it

Two runs expect a violation.

`pages/events/show.tsx:171-173` says of the link to the
report that "the link never leads to a 404", because it mirrors the guard of
`ReportController::show()`. The guard also asks for a running event; the page of an ongoing
or completed church event shows the link, and following it is a 404
(`ReportLinkLives`, run `report_link`).

`docs/discipleship.md:281` says of the routes of discipleship "All under the `/discipleship` prefix" and lists
`/discipleship/batches/{batch}/attendances/bulk`. They are mounted below `/events/church` only, and the pages ask for
`/discipleship/...`: a save of the grid is a 404 (`SaveReachesServer`, run `discipleship_routes`), and so is
every other request of the two pages. `docs/restructure/phase-1-navigation.md:73-75` accepts that for the time being. The pages `services/attendance.tsx`,
`fellowship/attendance.tsx` and `fellowship/show.tsx` call URLs without the prefix in the same way.

Seen while modelling, without a run of their own. Most are visible in the properties as the
exception they make (`~ overlapped`, a kind of request, a named step, a history variable).

*Server.*
- `AdvanceEventStatus.php:28-30` calls a race of two requests harmless. It is not: the workflow judges by the
  row a request bound, so that a stale start takes a completed event back (`StatusFollowsWorkflow`). An update
  bound before the finalization rewrites the schedule after it, and two updates of a church event undo each other's status.
- `docs/known-issues.md:1322-1323` counts on the resend floor; two overlapping requests pass it (`MailsSpaced`).
  Overlapping requests with the right code are both confirmed, overlapping guesses are counted once (ISSUE-018 knows).
- `AttendanceController.php:319-320` calls a verified absence a contradiction; two overlapping marks make one
  (`AbsenceConsistent`). Marks, batches and removals that passed their check before the completion write after it (`LateWriter`).
- `docs/automatic-duplicate-management.md:9,19`: one exact match is reused; services and fellowships look
  without the lock of the pool, so two additions insert one person twice (`ReusedWhenUnambiguous`).
- `bulkWalkIn()` says that one bad row does not fail the batch; an exception ends it (`BatchIsIndependent`).
- `RegistrationVerificationService.php:428` says that expired device trust is pruned by the schedule;
  `src/routes/console.php` prunes challenges only.
- The comment of `DiscipleshipAttendanceController::destroy` describes how a cell is cleared; no page calls it,
  and cleared cells are never sent.

*Wizard and fields.*
- The browser judges dates by its own clock and time zone, the server by its own: a start that lies ahead for the server has passed for a browser that
  is ahead. The browser counts UTF-16 units, so texts with emoji can be too long for it alone. (`OddClock`, `OddBasics`, `OddVenue`.)
- "Progress is saved automatically": a key typed after the submit of an accepted event saves the draft again (`AcceptedLeavesNoDraft`).
- A date that was cleared with the popover open is committed again, from the text, when the popover closes;
  "Today" is the day the page was rendered (`docs/fixes.md:894`); the pages of years differ from the comment at `date-picker.tsx:459-460`.

*Registration.*
- The draft survives the submit and goes with "Confirm" only. A mail that fails has spent the captcha token.
  With a clock that is ahead the form of a live code is hidden.
- "identity" rejections of running events belong to no step. On the church page every keystroke runs the jump to the first error again.
- The browser lets a person type an address of 500 characters into the old form, the server takes 255; the version 2 form is stricter in the
  browser (names, address), the church form on the server. `ServerOnly` and `BrowserOnly` list the fields and texts.
- On the church page a consent can be unticked from a later step, by the pills; the form is then sent and comes back with the server's error.

*Attendance.*
- The quick form keeps the override of an earlier render; after the redirect of a walk-in the override is
  off and the search box and the query differ; the filter chips drop `force_open`; marking a second row enables the first again.
- `attendance.tsx:392-395`: "new marks cannot be added" holds for the controls, not for a request on its way.
- A late success of the dialog "Add" or "Group" closes whichever is open. The fellowship page sends both fields of a
  row when one is edited (its comment at 121-127 promises less), reverts what others changed, and leaves out notes, which the server then empties.

*Form builder and event page.*
- The comment of `registration-field-validation.ts:39-44` says it mirrors the server: the shortest label of the
  strict comparison is 5 there and 2 in PHP (`OnlyServerKnows` names the labels).
- A save takes the photos to keep and to delete from the row that was read before the lock. Two saves that overlap can list a photo whose file
  is deleted (`revived`), or leave a file that no form lists (`orphans`), and so does a deletion that fails after the commit.
- A photo that another tab removed stays in the draft's list of kept photos, so that every save is refused until a reload; it is counted
  with the new ones, too, and cannot be removed because it is not shown. Edits made while a save is
  out are lost by its redirect. `registration-form.tsx:214-216` promises that errors follow a removal; a removal asked for before they arrive breaks it (`mixed`).
- The deletion dialog asks for a code each time it is opened; inside the server's cooldown the error resets the countdown, so
  "Resend" is enabled and refused. A resend that "Verify" replaces has mailed a code without a countdown. The box keeps an old code. The
  confirmation shows the related records as of the page load.

*Discipleship.*
- `show.tsx:229-230` promises that filters are preserved; a search that waits puts back the filters of its render, also after "Clear filters".
- The dialog of a withdrawal says that enrolling again resets the record; the server refuses it with 422.
- A dirty cell of a deleted session makes every save a 404 until a reload; any answer with new attendance drops unsaved cells.

## What is not modelled

- Rate limiters of routes and Fortify's throttles, the password pages and sign-in: they bound
  how often a request comes, and no property here counts that. The per-address limiter inside `verify()` is modelled.
- The phone channel's Firebase assertion and reCAPTCHA's verdict: answers of services.
- The 60-second `client_uuid` entries of batch rows: they decide what the answer says.
- People without any contact (church additions, quick walk-ins as provisional participants), the `replicate()` of a church update,
  and the refusal to remove a registration that a held row names as its candidate.
- The recurring schedule and the activation of church occurrences, the cascade of an event's deletion, the loop of the
  scheduled release, the list of trusted devices, and the record of a confirmation mail: no room in the runs this project allows itself; they are in the plan.
- Pages of long lists, the poll of the attendance page, the church list's own search form, one group at a time in a
  gathering, the map picker, posters, custom answers and rich text.
- `FormBuilder` has one save of the page and one of another tab at a time. Left out of its rules: files whose declared type is wrong, the requirement of a field
  (the page sends booleans), choices that are equal only by Unicode case folding, and what the two programs trim of a
  text. `EventPage` leaves out the link of a church event to its registrations, to its form and to its duplicates, and the page of the password.
- Reports, dashboards, ranking, administration and settings: they read, or write one row. Three components
  (`walk-in-dialog`, `bulk-walk-in-table`, `bulk-mark-toolbar`) are rendered by no page.
- The library under `components/ui` and the layout.

## Plan

In this order, most important first.

1. `ChurchOccurrence`: tracks, groups, activation (`RegistrationBridge`), recurring schedule.
2. `HeldRelease`: the scheduled command over rows that may throw, with weak fairness of the scheduler.
3. `EventDeletion` and `TrustedDevices`.
4. A composition of `EventLifecycle` and `Attendance` over one event row.
