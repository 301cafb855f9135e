------------------------------ MODULE EventPage ------------------------------
(***************************************************************************)
(* The page of one event, on which its staff follow the workflow: links to *)
(* the other pages, the buttons that open, close and reopen registration   *)
(* and finalize the event, and the deletion, which an admin confirms and   *)
(* any other member of the staff confirms with a code that is mailed.      *)
(*                                                                         *)
(* The page shows the event as the last answer gave it, while others work  *)
(* on it and time passes.  One visit is in progress at a time; a new one   *)
(* ends the one before it without an answer.                               *)
(***************************************************************************)
EXTENDS EventRules

CONSTANTS
  EventKinds,     \* the kinds of event to consider
  MAX_ATTEMPTS,   \* wrong guesses that end a code
  Countdown,      \* RESEND_COOLDOWN_SECONDS of the dialog
  MaxMails,       \* bound on the codes mailed
  MaxClock,       \* bound on the clock
  MaxClicks       \* bound on what the operator and others do

ASSUME EventPageAssumption ==
  /\ MAX_ATTEMPTS \in Nat \ {0} /\ Countdown \in Nat \ {0}
  /\ EventKinds \subseteq {"running", "church"}
  /\ MaxMails \in Nat /\ MaxClock \in Nat /\ MaxClicks \in Nat

VARIABLES
  clock, event,         \* the server: the time, and the row, or Gone
  otp, mails,           \* the code of the deletion, and the codes mailed
  requires_otp,         \* the operator is no admin
  at,                   \* the operator is on the "event" page, or has "left" it
  shown,                \* the props: the row, and when it was read
  asked,                \* the confirmation that is open, and what was shown then
  toggle,               \* the dialog of RegistrationStatusToggle is open
  otpOpen, code,        \* the dialog of the deletion, and the code in it
  sending, verifying, countdown, serverError,
  ride,                 \* the visit in progress, or NoRide
  clicks

rowVars == <<clock, event>>
otpServer == <<otp, mails>>
otpDialog == <<otpOpen, code, sending, verifying, countdown, serverError>>
pageState == <<requires_otp, at, shown>>
eventVars == <<rowVars, otpServer, otpDialog, pageState, asked, toggle, ride, clicks>>

Gone == [kind |-> "none"]
NoCode == [live |-> FALSE, attempts |-> 0, cooling |-> FALSE]
NotAsked == [what |-> "nothing"]
NoRide == [post |-> "none"]
WrongCode == MaxMails + 1

-----------------------------------------------------------------------------
(* The server.  A request for an event whose time has come starts it.      *)
Visited(e) ==
  IF e # Gone /\ isRunningEvent(e) /\ clock >= e.start
     /\ e.status \in {"registration_open", "registration_closed"}
  THEN [e EXCEPT !.status = "ongoing"] ELSE e

closed(e) == [e EXCEPT !.regEnd = clock,
                       !.status = IF @ = "ongoing" THEN @ ELSE "registration_closed"]
reopened(e) == [e EXCEPT !.regEnd = None,
                         !.status = IF @ = "registration_closed" THEN "registration_open" ELSE @]

(* What others do: save the form, move the event along, delete it.         *)
OtherStaff ==
  /\ clicks < MaxClicks /\ clicks' = clicks + 1
  /\ event # Gone
  /\ LET e == Visited(event)
     IN \/ canEditRegistrationForm(e) /\ event' = [e EXCEPT !.form = 1]
        \/ canOpenRegistration(e) /\ event' = [e EXCEPT !.status = "registration_open"]
        \/ canCloseRegistration(e, clock) /\ event' = closed(e)
        \/ canReopenRegistration(e, clock) /\ event' = reopened(e)
        \/ canFinalize(e, clock) /\ event' = [e EXCEPT !.status = "completed"]
        \/ isChurchEvent(e) /\ \E s \in churchTransitions(e.churchStatus) :
             event' = [e EXCEPT !.churchStatus = s]
        \/ event' = Gone
  /\ UNCHANGED <<clock, otpServer, otpDialog, pageState, asked, toggle, ride>>

TimePasses ==
  /\ clock < MaxClock /\ clock' = clock + 1
  /\ UNCHANGED <<event, otpServer, otpDialog, pageState, asked, toggle, ride, clicks>>

(* The cooldown of the server ends (the code of an ended one is gone, too, *)
(* when the ten minutes are over).                                         *)
CooldownOver ==
  /\ otp.cooling
  /\ \E alive \in {otp.live, FALSE} : otp' = [otp EXCEPT !.cooling = FALSE, !.live = alive]
  /\ UNCHANGED <<rowVars, mails, otpDialog, pageState, asked, toggle, ride, clicks>>

Outcome(state, error) ==
  ride' = [ride EXCEPT !.state = state, !.error = error,
                       !.stale = Visited(event) # ride.basis]

(* EventDeletionOtpService::issue; a mail that fails takes the code back.  *)
issue ==
  /\ event' = Visited(event)
  /\ \/ otp.cooling /\ Outcome("invalid", "wait") /\ UNCHANGED otpServer
     \/ /\ ~ otp.cooling /\ mails < MaxMails
        /\ mails' = mails + 1 /\ otp' = [live |-> TRUE, attempts |-> 0, cooling |-> TRUE]
        /\ Outcome("done", "none")
     \/ ~ otp.cooling /\ otp' = NoCode /\ Outcome("invalid", "unsent") /\ UNCHANGED mails

(* EventDeletionOtpService::verify, and the deletion, which may fail.      *)
verifyOtp ==
  /\ UNCHANGED mails
  /\ \/ /\ ~ otp.live /\ Outcome("invalid", "expired")
        /\ event' = Visited(event) /\ UNCHANGED otp
     \/ /\ otp.live /\ ride.code # mails
        /\ event' = Visited(event)
        /\ IF otp.attempts + 1 = MAX_ATTEMPTS
           THEN otp' = [otp EXCEPT !.live = FALSE] /\ Outcome("invalid", "locked")
           ELSE otp' = [otp EXCEPT !.attempts = @ + 1] /\ Outcome("invalid", "wrong")
     \/ /\ otp.live /\ ride.code = mails /\ otp' = NoCode
        /\ \/ event' = Gone /\ Outcome("done", "none")
           \/ event' = Visited(event) /\ Outcome("invalid", "failed")

(* The guards of the other handlers.                                       *)
Allowed(post, e) ==
  CASE post = "open" -> canOpenRegistration(e)
    [] post = "close" -> canCloseRegistration(e, clock)
    [] post = "reopen" -> canReopenRegistration(e, clock)
    [] post = "finalize" -> canFinalize(e, clock)
    [] post = "edit" -> canEdit(e)
    [] post = "report" -> isRunningEvent(e) /\ e.status \in {"ongoing", "completed"}
    [] post = "attendance" -> isRunningEvent(e) /\ e.status # "draft"
    [] post = "delete" -> TRUE

Written(post, e) ==
  CASE post = "open" -> [e EXCEPT !.status = "registration_open", !.regEnd = None]
    [] post = "close" -> closed(e)
    [] post = "reopen" -> reopened(e)
    [] post = "finalize" -> [e EXCEPT !.status = "completed"]
    [] post = "delete" -> Gone
    [] OTHER -> e

(* A wrong password is an error of the toggle; finalizing may first ask    *)
(* for the password on a page of its own.                                  *)
HandleEvent ==
  /\ ride # NoRide /\ ride.state = "sent"
  /\ \/ event = Gone /\ Outcome("refused", "none") /\ UNCHANGED <<event, otpServer>>
     \/ event # Gone /\ ride.post = "request" /\ issue
     \/ event # Gone /\ ride.post = "verify" /\ verifyOtp
     \/ /\ event # Gone /\ ride.post \notin {"request", "verify"}
        /\ LET e == Visited(event)
           IN \/ Allowed(ride.post, e) /\ event' = Written(ride.post, e) /\ Outcome("done", "none")
              \/ ~ Allowed(ride.post, e) /\ event' = e /\ Outcome("refused", "none")
              \/ /\ ride.post \in {"close", "reopen"} /\ Allowed(ride.post, e)
                 /\ event' = e /\ Outcome("invalid", "password")
              \/ ride.post = "finalize" /\ event' = e /\ Outcome("done", "none")
        /\ UNCHANGED otpServer
  /\ UNCHANGED <<clock, otpDialog, pageState, asked, toggle, clicks>>

-----------------------------------------------------------------------------
(* The page.  What it offers depends on the event it shows.                *)
opens == canOpenRegistration(shown.row)
closes == canCloseRegistration(shown.row, shown.time)
reopens == canReopenRegistration(shown.row, shown.time)
finalizes_AnyOngoing == isRunningEvent(shown.row) /\ shown.row.status = "ongoing"
finalizes ==
  isRunningEvent(shown.row) /\ shown.row.status = "ongoing" /\ canFinalize(shown.row, shown.time)
canViewReport ==
  (IF isChurchEvent(shown.row) THEN shown.row.churchStatus ELSE shown.row.status)
    \in {"ongoing", "completed"}
can_record_attendance ==
  isRunningEvent(shown.row) /\ shown.row.status \in {"registration_open", "registration_closed", "ongoing"}

(* The dialogs are modal: none of the buttons is in reach while one is     *)
(* open, but all of them are while a visit is in progress.                 *)
InReach == at = "event" /\ asked = NotAsked /\ ~ toggle /\ ~ otpOpen
Click == clicks < MaxClicks /\ clicks' = clicks + 1

Begins(post, basis, with) ==
  ride' = [post |-> post, basis |-> basis, code |-> with,
           state |-> "sent", error |-> "none", stale |-> FALSE]

(* A visit that is replaced ends, and its onFinish runs: after setSending  *)
(* or setVerifying of the new one.                                         *)
Replacing(post) ==
  /\ sending' = (post = "request" /\ ride.post # "request")
  /\ verifying' = (post = "verify" /\ ride.post # "verify")

askOpen == opens /\ asked' = [what |-> "open", row |-> shown.row]
askFinalize == finalizes /\ asked' = [what |-> "finalize", row |-> shown.row]
askDelete == asked' = [what |-> "delete", row |-> shown.row]

Ask ==
  /\ InReach /\ Click /\ (askOpen \/ askFinalize \/ askDelete)
  /\ UNCHANGED <<rowVars, otpServer, otpDialog, pageState, toggle, ride>>

CancelAsked ==
  /\ asked # NotAsked /\ asked' = NotAsked
  /\ UNCHANGED <<rowVars, otpServer, otpDialog, pageState, toggle, ride, clicks>>

(* A confirmed deletion opens the dialog of the code, which asks for one   *)
(* each time it opens.                                                     *)
ConfirmAsked ==
  /\ asked # NotAsked /\ asked' = NotAsked
  /\ LET post == IF asked.what = "delete" /\ requires_otp THEN "request" ELSE asked.what
     IN /\ Begins(post, asked.row, 0) /\ Replacing(post)
        /\ otpOpen' = (post = "request")
  /\ UNCHANGED <<rowVars, otpServer, pageState, code, countdown, serverError, toggle, clicks>>

Links ==
  (IF canEdit(shown.row) THEN {"edit"} ELSE {})
  \cup (IF canViewReport THEN {"report"} ELSE {})
  \cup (IF can_record_attendance THEN {"attendance"} ELSE {})

Follow ==
  /\ InReach /\ Click
  /\ \E link \in Links : Begins(link, shown.row, 0) /\ Replacing(link)
  /\ UNCHANGED <<rowVars, otpServer, otpOpen, code, countdown, serverError, pageState, asked, toggle>>

(* RegistrationStatusToggle.                                               *)
processingToggle == ride.post \in {"close", "reopen"}

openToggle ==
  /\ InReach /\ Click /\ ~ opens /\ (closes \/ reopens) /\ ~ processingToggle /\ toggle' = TRUE
  /\ UNCHANGED <<rowVars, otpServer, otpDialog, pageState, asked, ride>>

closeToggle ==
  /\ toggle /\ ~ processingToggle /\ toggle' = FALSE
  /\ UNCHANGED <<rowVars, otpServer, otpDialog, pageState, asked, ride, clicks>>

submitToggle ==
  /\ toggle /\ ~ processingToggle /\ Click
  /\ LET post == IF closes THEN "close" ELSE "reopen"
     IN Begins(post, shown.row, 0) /\ Replacing(post)
  /\ UNCHANGED <<rowVars, otpServer, otpOpen, code, countdown, serverError, pageState, asked, toggle>>

-----------------------------------------------------------------------------
(* EventDeletionOtpDialog.                                                 *)
lockedOut == serverError = "locked"

requestOtp ==
  /\ otpOpen /\ ~ lockedOut /\ ~ sending /\ countdown = 0 /\ ~ verifying /\ Click
  /\ Begins("request", shown.row, 0) /\ Replacing("request")
  /\ UNCHANGED <<rowVars, otpServer, otpOpen, code, countdown, serverError, pageState, asked, toggle>>

onCodeChange ==
  /\ otpOpen /\ ~ lockedOut /\ ~ verifying /\ Click
  /\ code' \in {mails, WrongCode} \ {code}
  /\ UNCHANGED <<rowVars, otpServer, otpOpen, sending, verifying, countdown, serverError,
                 pageState, asked, toggle, ride>>

verify ==
  /\ otpOpen /\ ~ lockedOut /\ ~ verifying /\ code # 0 /\ Click
  /\ Begins("verify", shown.row, code) /\ Replacing("verify")
  /\ UNCHANGED <<rowVars, otpServer, otpOpen, code, countdown, serverError, pageState, asked, toggle>>

(* Cancel, Dismiss, Escape, or a click outside.                            *)
closeOtp ==
  /\ otpOpen /\ otpOpen' = FALSE
  /\ UNCHANGED <<rowVars, otpServer, code, sending, verifying, countdown, serverError,
                 pageState, asked, toggle, ride, clicks>>

(* One second of the button "Resend": the setInterval of its effect.       *)
Second ==
  /\ countdown > 0 /\ countdown' = countdown - 1
  /\ UNCHANGED <<rowVars, otpServer, otpOpen, code, sending, verifying, serverError,
                 pageState, asked, toggle, ride, clicks>>

-----------------------------------------------------------------------------
(* Answers.                                                                *)
Finish == ride' = NoRide /\ sending' = FALSE /\ verifying' = FALSE

(* The browser leaves for the page the server sends it to.                 *)
Left ==
  /\ ride # NoRide /\ ride.state = "done" /\ ride.post # "request"
  /\ Finish /\ at' = "left" /\ asked' = NotAsked /\ toggle' = FALSE /\ otpOpen' = FALSE
  /\ UNCHANGED <<rowVars, otpServer, code, countdown, serverError, requires_otp, shown, clicks>>

(* The answer comes back to the page, with its props read again.  An error *)
(* that was not there before stops the countdown; a code that was sent     *)
(* starts it.                                                              *)
resetsCountdown_Never(error) == FALSE
resetsCountdown(error) == error # "none" /\ error # serverError

Back ==
  /\ ride # NoRide /\ event # Gone
  /\ ride.state = "invalid" \/ (ride.state = "done" /\ ride.post = "request")
  /\ Finish
  /\ event' = Visited(event) /\ shown' = [row |-> event', time |-> clock]
  /\ LET error == IF ride.error = "password" THEN "none" ELSE ride.error
     IN /\ serverError' = error
        /\ countdown' = IF ride.state = "done" THEN Countdown
                        ELSE IF resetsCountdown(error) THEN 0 ELSE countdown
  /\ toggle' = (toggle /\ ~ opens' /\ (closes' \/ reopens'))
  /\ UNCHANGED <<clock, otpServer, otpOpen, code, requires_otp, at, asked, clicks>>

(* Refused, or no answer at all.                                           *)
NoAnswer ==
  /\ ride # NoRide /\ Finish
  /\ UNCHANGED <<rowVars, otpServer, otpOpen, code, countdown, serverError,
                 pageState, asked, toggle, clicks>>

(* The operator opens the page of the event again.                         *)
Return ==
  /\ at = "left" /\ event # Gone /\ ride = NoRide /\ Click
  /\ at' = "event" /\ event' = Visited(event) /\ shown' = [row |-> event', time |-> clock]
  /\ code' = 0 /\ sending' = FALSE /\ verifying' = FALSE /\ countdown' = 0 /\ serverError' = "none"
  /\ UNCHANGED <<clock, otpServer, otpOpen, requires_otp, asked, toggle, ride>>

-----------------------------------------------------------------------------
NewEvent(kind, start) ==
  [kind |-> kind, status |-> "draft", churchStatus |-> "upcoming", form |-> 0,
   start |-> start, regEnd |-> None]

EventInit ==
  /\ clock = 0 /\ \E k \in EventKinds, s \in 0..MaxClock : event = NewEvent(k, s)
  /\ otp = NoCode /\ mails = 0 /\ requires_otp \in BOOLEAN
  /\ at = "event" /\ shown = [row |-> event, time |-> 0]
  /\ asked = NotAsked /\ toggle = FALSE
  /\ otpOpen = FALSE /\ code = 0 /\ sending = FALSE /\ verifying = FALSE
  /\ countdown = 0 /\ serverError = "none" /\ ride = NoRide /\ clicks = 0

EventNext ==
  \/ OtherStaff \/ TimePasses \/ CooldownOver \/ HandleEvent
  \/ Ask \/ CancelAsked \/ ConfirmAsked \/ Follow
  \/ openToggle \/ closeToggle \/ submitToggle
  \/ requestOtp \/ onCodeChange \/ verify \/ closeOtp \/ Second
  \/ Left \/ Back \/ NoAnswer \/ Return

-----------------------------------------------------------------------------
EventPageTypeOK ==
  /\ clock \in 0..MaxClock /\ mails \in 0..MaxMails /\ otp.attempts < MAX_ATTEMPTS
  /\ {requires_otp, toggle, otpOpen, sending, verifying} \subseteq BOOLEAN
  /\ at \in {"event", "left"} /\ code \in 0..WrongCode /\ countdown \in 0..Countdown
  /\ asked.what \in {"nothing", "open", "finalize", "delete"}
  /\ clicks \in 0..MaxClicks

(* A button or a link of the page is refused by the server only after the  *)
(* event changed since the page showed it: what the page offers agrees     *)
(* with the guard of every handler, also when the start of the event       *)
(* passes in between, and when a dialog stood open meanwhile.  The report  *)
(* of a running event is never refused while the event is there: what      *)
(* became ongoing never goes back.  (A church event: see ReportLinkLives.) *)
RefusedOnlyWhenStale ==
  ride # NoRide /\ ride.state = "refused" =>
    IF ride.post = "report" THEN isRunningEvent(ride.basis) => event = Gone ELSE ride.stale

(* No button of the deletion dialog stays disabled for a request that is   *)
(* no longer in progress, whichever visits replaced each other.            *)
NeverStuck ==
  /\ sending => ride.post = "request"
  /\ verifying => ride.post = "verify"

(* While the Resend button counts down there is no error to be read, and a *)
(* code has been mailed.                                                   *)
CountdownAfterCode == countdown > 0 => serverError = "none" /\ mails > 0

(* The page of an event keeps its word: see the parts above.               *)
EventPageSound ==
  EventPageTypeOK /\ RefusedOnlyWhenStale /\ NeverStuck /\ CountdownAfterCode

(* "The report is reachable when the event has attendance data to report   *)
(* on. This mirrors ReportController::show()'s guard, so the link never    *)
(* leads to a 404" (pages/events/show.tsx).                                *)
ReportLinkLives ==
  ride # NoRide /\ ride.post = "report" /\ ride.state = "refused" => event = Gone
=============================================================================
