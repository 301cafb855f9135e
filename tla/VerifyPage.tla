------------------------------ MODULE VerifyPage ------------------------------
(***************************************************************************)
(* The page on which a visitor proves an email address: the pending        *)
(* challenge of this browser on the server, the props the page was last    *)
(* given, the captcha, and the clocks of both.                             *)
(*                                                                         *)
(* Times are what is left, in ticks, on the server's clock; the browser's  *)
(* clock is ahead by skew, so that it sees less left (or, behind, more).   *)
(***************************************************************************)
EXTENDS Integers

CONSTANTS Cooldown,   \* RESEND_COOLDOWN_SECONDS: 100 s between two mails
          CodeLife,   \* how long a code is good
          MaxTries,   \* MAX_ATTEMPTS
          Skews       \* how far the clock of a browser may be ahead

(* Some browser's clock is right, and one is the furthest behind.          *)
VerifyConstants ==
  /\ Cooldown \in Nat \ {0} /\ CodeLife \in Nat \ {0} /\ MaxTries \in Nat \ {0}
  /\ Skews \subseteq Int /\ 0 \in Skews
  /\ \E t \in Skews : \A s \in Skews : t <= s

VARIABLES
  verifying,  \* the page is mounted
  email_only, \* the mail needs a captcha; it does not change
  skew,       \* how far the browser's clock is ahead; it does not change
  ch,         \* the challenge on the server: the email channel, finalized
  seen,       \* the props: the challenge as the last answer showed it
  cooldown,   \* the page's own countdown after a mail it asked for
  token,      \* captchaToken: "", "fresh", or "spent" when Google has seen it
  widget,     \* the captcha: "none", "empty" or "solved"
  posting,    \* the token of the mail request in progress, or "no"
  doubt,      \* history: why the page may not know when the next mail may go
  failed      \* history: the last mail asked for here did not go out

verify == <<verifying, email_only, skew, ch, seen, cooldown, token, widget, posting, doubt, failed>>

(* The lowest skew bounds how long what has passed can still matter.       *)
Past == CHOOSE t \in Skews : \A s \in Skews : t <= s

NoChallenge == [email |-> "none", retry |-> Past, life |-> Past, tries |-> 0, finalized |-> FALSE]
NewChallenge == [NoChallenge EXCEPT !.email = "waiting"]
EmailStates == {"none", "waiting", "sent", "delivery_failed", "locked", "verified"}
Challenges == [email : EmailStates, retry : Past..Cooldown, life : Past..CodeLife,
               tries : 0..MaxTries, finalized : BOOLEAN]

wait == IF seen.retry - skew > 0 THEN seen.retry - skew ELSE 0
expired == seen.life - skew <= 0

remainingCooldown_Props == wait

remainingCooldown == IF cooldown > wait THEN cooldown ELSE wait

emailNeedsWork(s) == s.email \in {"waiting", "sent", "delivery_failed"}
captchaShown(s) ==
  email_only /\ emailNeedsWork(s) /\ ~ s.finalized /\ (s.email = "sent" => s.retry - skew <= 0)

(* The widget comes and goes with its section, always empty when it comes; *)
(* resetKey empties one that stays.                                        *)
WidgetFor(s, reset) ==
  CASE ~ captchaShown(s) -> "none"
    [] captchaShown(s) /\ (widget = "none" \/ reset) -> "empty"
    [] OTHER -> widget

VerifyInit ==
  /\ verifying = FALSE /\ email_only \in BOOLEAN /\ skew \in Skews
  /\ ch = NoChallenge /\ seen = NoChallenge
  /\ cooldown = 0 /\ token = "" /\ widget = "none" /\ posting = "no"
  /\ doubt = {} /\ failed = FALSE

-----------------------------------------------------------------------------
(* Mounting the page, also by a reload: everything but the cookie is new.  *)
Enter(challenge) ==
  /\ verifying' = TRUE /\ ch' = challenge /\ seen' = challenge
  /\ cooldown' = 0 /\ token' = "" /\ posting' = "no" /\ failed' = FALSE
  /\ widget' = IF captchaShown(challenge) THEN "empty" ELSE "none"
  /\ doubt' = IF challenge.retry > 0 THEN {"reload"} ELSE {}
  /\ UNCHANGED <<email_only, skew>>

Unmounts ==
  /\ verifying' = FALSE /\ seen' = NoChallenge /\ cooldown' = 0
  /\ token' = "" /\ widget' = "none" /\ posting' = "no" /\ doubt' = {} /\ failed' = FALSE
  /\ UNCHANGED <<email_only, skew>>

Reload == verifying /\ posting = "no" /\ Enter(ch)

(* The callbacks of the captcha.                                           *)
Solve ==
  /\ verifying /\ widget = "empty"
  /\ widget' = "solved" /\ token' = "fresh"
  /\ UNCHANGED <<verifying, email_only, skew, ch, seen, cooldown, posting, doubt, failed>>

Lapse ==
  /\ verifying /\ widget = "solved"
  /\ widget' = "empty" /\ token' = ""
  /\ UNCHANGED <<verifying, email_only, skew, ch, seen, cooldown, posting, doubt, failed>>

(* The button that asks for a mail.                                        *)
SendCode ==
  /\ verifying /\ posting = "no" /\ emailNeedsWork(seen) /\ ~ seen.finalized
  /\ remainingCooldown = 0 /\ (email_only => token # "")
  /\ posting' = token
  /\ failed' = FALSE
  /\ UNCHANGED <<verifying, email_only, skew, ch, seen, cooldown, token, widget, doubt>>

(* resendEmail: the captcha first, then the lock, then the cooldown.       *)
Outcomes ==
  LET checked == IF ~ emailNeedsWork(ch) THEN {"refused"}
                 ELSE IF ch.retry > 0 THEN {"too early"} ELSE {"sent", "failed", "trusted"}
  IN  IF ~ email_only THEN checked
      ELSE {"captcha"} \cup (IF posting = "spent" THEN {} ELSE checked)

After(outcome) ==
  CASE outcome = "sent" -> [ch EXCEPT !.email = "sent", !.retry = Cooldown, !.life = CodeLife]
    [] outcome = "failed" -> [ch EXCEPT !.email = "delivery_failed", !.retry = Cooldown, !.life = Past]
    [] outcome = "trusted" -> [ch EXCEPT !.email = "verified"]
    [] OTHER -> ch

Spent(t) == IF t = "" THEN "" ELSE "spent"

(* onSuccess starts the countdown and drops the token; onError leaves both.*)
onSent_NoReset(outcome) ==
  LET ok == outcome \in {"sent", "trusted"} IN
  /\ cooldown' = IF ok THEN Cooldown ELSE cooldown
  /\ token' = IF ok THEN "" ELSE Spent(token)
  /\ widget' = WidgetFor(seen', FALSE)

onSent(outcome) ==
  LET ok == outcome \in {"sent", "trusted"} IN
  /\ cooldown' = IF ok THEN Cooldown ELSE cooldown
  /\ token' = IF ok THEN "" ELSE Spent(token)
  /\ widget' = WidgetFor(seen', ok)

SendAnswered(outcome) ==
  /\ posting # "no" /\ outcome \in Outcomes
  /\ ch' = After(outcome) /\ seen' = ch'
  /\ onSent(outcome)
  /\ posting' = "no"
  /\ failed' = (outcome \notin {"sent", "trusted"})
  /\ doubt' = CASE outcome = "sent" -> {} [] outcome = "failed" -> doubt \cup {"reload"} [] OTHER -> doubt
  /\ UNCHANGED <<verifying, email_only, skew>>

(* The answer is lost, before or after the server did its part.            *)
SendLost ==
  /\ posting # "no" /\ posting' = "no"
  /\ \/ ch' = ch /\ token' = token
     \/ \E outcome \in Outcomes : ch' = After(outcome) /\ token' = Spent(token)
  /\ doubt' = IF ch' # ch THEN doubt \cup {"lost"} ELSE doubt
  /\ failed' = TRUE
  /\ UNCHANGED <<verifying, email_only, skew, seen, cooldown, widget>>

(* The six digits, right or wrong; the form is there while the browser     *)
(* thinks the code is good.                                                *)
VerifyCode(right) ==
  /\ verifying /\ posting = "no" /\ seen.email = "sent" /\ ~ expired
  /\ ch' = IF ch.email # "sent" \/ ch.life <= 0 THEN ch
           ELSE IF right THEN [ch EXCEPT !.email = "verified"]
           ELSE [ch EXCEPT !.tries = @ + 1,
                           !.email = IF ch.tries + 1 = MaxTries THEN "locked" ELSE @]
  /\ seen' = ch'
  /\ widget' = WidgetFor(seen', FALSE)
  /\ UNCHANGED <<verifying, email_only, skew, cooldown, token, posting, doubt, failed>>

Complete ==
  /\ verifying /\ seen.email = "verified" /\ ~ seen.finalized
  /\ ch' = [ch EXCEPT !.finalized = TRUE] /\ seen' = ch'
  /\ UNCHANGED <<verifying, email_only, skew, cooldown, token, widget, posting, doubt, failed>>

(* A tick of the clock; the page's countdown may fall behind, as a timer   *)
(* of a page in the background does.                                       *)
Less(t) == IF t > Past THEN t - 1 ELSE t
Older(c) == IF c.email = "none" THEN c ELSE [c EXCEPT !.retry = Less(@), !.life = Less(@)]
Tick ==
  /\ verifying
  /\ ch' = Older(ch) /\ seen' = Older(seen)
  /\ cooldown' \in {cooldown} \cup (IF cooldown > 0 THEN {cooldown - 1} ELSE {})
  /\ widget' = WidgetFor(seen', FALSE)
  /\ doubt' = IF ch'.retry > 0 THEN doubt ELSE {}
  /\ UNCHANGED <<verifying, email_only, skew, token, posting, failed>>

-----------------------------------------------------------------------------
VerifyTypeOK ==
  /\ verifying \in BOOLEAN /\ email_only \in BOOLEAN /\ skew \in Skews
  /\ ch \in Challenges /\ seen \in Challenges
  /\ cooldown \in 0..Cooldown
  /\ token \in {"", "fresh", "spent"} /\ widget \in {"none", "empty", "solved"}
  /\ posting \in {"no", "", "fresh", "spent"}
  /\ doubt \subseteq {"reload", "lost"} /\ failed \in BOOLEAN

(* The visitor can always get on: while a mail may be asked for the widget *)
(* is there; one that looks solved has given the page its token; and the   *)
(* page holds a token Google has seen, or one of a widget that is gone,    *)
(* only when it said that something failed.                                *)
CaptchaConsistent ==
  verifying /\ posting = "no" =>
    /\ captchaShown(seen) <=> widget # "none"
    /\ widget = "solved" => token # ""
    /\ token = "spent" \/ (token = "fresh" /\ widget = "empty") => failed

(* The server never tells the visitor to wait when the page did not: not   *)
(* even with a clock that is ahead, as long as the page sent the last mail *)
(* itself and heard of it.                                                 *)
SendsPaced ==
  [][SendAnswered("too early") =>
       "lost" \in doubt \/ (skew > 0 /\ "reload" \in doubt)]_verify
=============================================================================
