---------------------------- MODULE OneTimeCode ----------------------------
(***************************************************************************)
(* The one-time codes of EventDeletionOtpService (a staff member deletes   *)
(* an event) and EmailTwoFactorService (a staff member signs in on a new   *)
(* device), for one user and one target.  Both keep the code and the       *)
(* resend cooldown in two cache entries that they read, change and write   *)
(* back without a lock, so a request is a sequence of cache operations     *)
(* with other requests of the same user between them.                      *)
(***************************************************************************)
EXTENDS Integers

CONSTANTS
  Requests,       \* HTTP requests in progress at one time
  CodeTTL,        \* CODE_TTL_SECONDS, in clock ticks
  Cooldown,       \* RESEND_COOLDOWN_SECONDS
  MaxAttempts,    \* MAX_ATTEMPTS
  Services,       \* the services to consider: "EventDeletion", whose
                  \* controller acts on a right code and takes back a code it
                  \* could not mail, and "TwoFactor", whose controller leaves
                  \* that code stored
  MaxCodes,       \* bound on the codes issued
  MaxNow,         \* bound on the clock
  MaxGuesses      \* bound on the history counters

ASSUME CodeAssumption ==
  /\ {CodeTTL, Cooldown, MaxAttempts} \subseteq Nat \ {0}
  /\ Services \subseteq {"EventDeletion", "TwoFactor"}
  /\ {MaxCodes, MaxNow, MaxGuesses} \subseteq Nat

VARIABLES
  now,
  service,   \* the service these entries belong to
  otp,       \* the cache entry of otpKey: code, attempts, expires_at, and the
             \* time the entry itself lives until
  resend,    \* the time until which the entry of resendKey lives
  issued,    \* the codes 1 .. issued have been generated
  gone,      \* the event has been deleted
  req,       \* req[r]: where request r is, and what it read or wrote
  born,      \* history: when code c was stored
  mail,      \* history: what became of the mail with code c
  wrong,     \* history: how many wrong guesses were compared with code c
  used,      \* history: how often code c was answered Verified
  overlapped \* history: two requests have been in progress at one time

vars == <<now, service, otp, resend, issued, gone, req, born, mail, wrong,
          used, overlapped>>
history == <<born, mail, wrong, used>>

Codes == 1 .. MaxCodes
NoCode == 0                     \* also a guess that is no code at all
NoOtp == [code |-> NoCode, attempts |-> 0, expires |-> 0, until |-> 0]
Idle == [pc |-> "idle", code |-> NoCode, payload |-> NoOtp]

Otp == [code : Codes \cup {NoCode}, attempts : 0 .. MaxAttempts - 1,
        expires : 0 .. MaxNow + CodeTTL, until : 0 .. MaxNow + CodeTTL]

TypeOK ==
  /\ now \in 0 .. MaxNow
  /\ service \in Services
  /\ otp \in Otp
  /\ resend \in 0 .. MaxNow + Cooldown
  /\ issued \in 0 .. MaxCodes
  /\ gone \in BOOLEAN
  /\ req \in [Requests -> [pc : {"idle", "issuing", "stored", "sending",
                                "failed", "read", "verified"},
                          code : Codes \cup {NoCode}, payload : Otp]]
  /\ born \in [Codes -> 0 .. MaxNow]
  /\ mail \in [Codes -> {"none", "sent", "failed"}]
  /\ wrong \in [Codes -> 0 .. MaxGuesses]
  /\ used \in [Codes -> 0 .. MaxGuesses]
  /\ overlapped \in BOOLEAN

Init ==
  /\ now = 0 /\ otp = NoOtp /\ resend = 0 /\ issued = 0 /\ gone = FALSE
  /\ req = [r \in Requests |-> Idle]
  /\ born = [c \in Codes |-> 0]
  /\ mail = [c \in Codes |-> "none"]
  /\ wrong = [c \in Codes |-> 0]
  /\ used = [c \in Codes |-> 0]
  /\ service \in Services /\ overlapped = FALSE

Tick == /\ now < MaxNow
        /\ now' = now + 1
        /\ UNCHANGED <<service, otp, resend, issued, gone,
                       req, history, overlapped>>

-----------------------------------------------------------------------------
(* issue(): Cache::has(resendKey).  A request that comes too soon changes  *)
(* nothing.                                                                *)
MayIssue(r) ==
  /\ req[r].pc = "idle" /\ ~ gone
  /\ now >= resend
  /\ req' = [req EXCEPT ![r].pc = "issuing"]
  /\ overlapped' = (overlapped \/ \E q \in Requests : req[q] # Idle)
  /\ UNCHANGED <<now, service, otp, resend, issued, gone, history>>

(* issue(): a new code and Cache::put(otpKey) ...                          *)
NewOtp(c) == [code |-> c, attempts |-> 0, expires |-> now + CodeTTL,
              until |-> now + CodeTTL]
Stored_KeepsLive(c) ==      \* mutant: Cache::add, which keeps a live entry
  IF now < otp.until THEN otp ELSE NewOtp(c)
Stored(c) == NewOtp(c)

Store(r) ==
  /\ req[r].pc = "issuing" /\ issued < MaxCodes
  /\ issued' = issued + 1
  /\ otp' = Stored(issued + 1)
  /\ born' = [born EXCEPT ![issued + 1] = now]
  /\ req' = [req EXCEPT ![r] = [Idle EXCEPT !.pc = "stored",
                                            !.code = issued + 1]]
  /\ UNCHANGED <<now, service, resend, gone, mail, wrong, used, overlapped>>

(* ... and Cache::put(resendKey).                                          *)
CooldownFrom_Short(t) == t + Cooldown - 1     \* mutant: off by one
CooldownFrom(t) == t + Cooldown

StoreCooldown(r) ==
  /\ req[r].pc = "stored"
  /\ resend' = CooldownFrom(now)
  /\ req' = [req EXCEPT ![r].pc = "sending"]
  /\ UNCHANGED <<now, service, otp, issued, gone, history, overlapped>>

Deliver(r) ==
  /\ req[r].pc = "sending"
  /\ mail' = [mail EXCEPT ![req[r].code] = "sent"]
  /\ req' = [req EXCEPT ![r] = Idle]
  /\ UNCHANGED <<now, service, otp, resend, issued, gone, born,
                 wrong, used, overlapped>>

(* The transport fails.  requestOtp() then calls invalidate(), which       *)
(* forgets both entries whoever wrote them; the login code stays.          *)
forgetOtp_Not == otp' = otp      \* mutant: only the cooldown is forgotten
forgetOtp == otp' = NoOtp

DeliveryFails(r) ==
  /\ req[r].pc = "sending"
  /\ mail' = [mail EXCEPT ![req[r].code] = "failed"]
  /\ IF service = "EventDeletion"
     THEN forgetOtp /\ req' = [req EXCEPT ![r] = [Idle EXCEPT !.pc = "failed"]]
     ELSE UNCHANGED otp /\ req' = [req EXCEPT ![r] = Idle]
  /\ UNCHANGED <<now, service, resend, issued, gone, born,
                 wrong, used, overlapped>>

-----------------------------------------------------------------------------
(* verify(): Cache::get(otpKey).  The user types a code from a mail or     *)
(* anything else; with no live entry the answer is NotFound.               *)
Get(r) ==
  /\ req[r].pc = "idle" /\ ~ gone
  /\ now < otp.until
  /\ \E guess \in {NoCode} \cup {c \in Codes : mail[c] = "sent"} :
       req' = [req EXCEPT ![r] = [pc |-> "read", code |-> guess,
                                  payload |-> otp]]
  /\ overlapped' = (overlapped \/ \E q \in Requests : req[q] # Idle)
  /\ UNCHANGED <<now, service, otp, resend, issued, gone, history>>

(* What verify() answers from the entry it read.                           *)
outcome_OneMore(p, guess) ==      \* mutant: the bound is off by one
  CASE p.expires < now -> "expired"
    [] p.expires >= now /\ guess = p.code -> "verified"
    [] p.expires >= now /\ p.attempts < MaxAttempts /\ guess # p.code
         -> "invalid"
    [] OTHER -> "locked"
outcome_CacheOnly(p, guess) ==    \* mutant: trusts the entry's own lifetime
  CASE guess = p.code -> "verified"
    [] guess # p.code /\ p.attempts + 1 < MaxAttempts -> "invalid"
    [] OTHER -> "locked"
outcome(p, guess) ==
  CASE p.expires < now -> "expired"
    [] p.expires >= now /\ guess = p.code /\ p.attempts < MaxAttempts
         -> "verified"
    [] p.expires >= now /\ p.attempts + 1 < MaxAttempts /\ guess # p.code
         -> "invalid"
    [] OTHER -> "locked"

PutBack(p) == [p EXCEPT !.attempts = p.attempts + 1,
                        !.until = IF p.expires > now THEN p.expires
                                  ELSE now + 1]

(* A wrong guess: the attempts are written back, with the lifetime that is *)
(* left but one second at the least; the last one forgets the code.        *)
AnswerWrong(r) ==
  LET p == req[r].payload
      o == outcome(p, req[r].code)
  IN /\ req[r].pc = "read" /\ o \in {"invalid", "locked"}
     /\ wrong[p.code] < MaxGuesses
     /\ otp' = IF o = "invalid" THEN PutBack(p) ELSE NoOtp
     /\ wrong' = [wrong EXCEPT ![p.code] = @ + 1]
     /\ req' = [req EXCEPT ![r] = Idle]
     /\ UNCHANGED <<now, service, resend, issued, gone, born,
                    mail, used, overlapped>>

AnswerExpired(r) ==
  /\ req[r].pc = "read"
  /\ outcome(req[r].payload, req[r].code) = "expired"
  /\ otp' = NoOtp
  /\ req' = [req EXCEPT ![r] = Idle]
  /\ UNCHANGED <<now, service, resend, issued, gone, history, overlapped>>

(* The right code: the entry is forgotten, then the cooldown, and then the *)
(* event is deleted.  That may fail: verifyOtp() reports it, and the event *)
(* stays.                                                                  *)
AnswerRight(r) ==
  LET p == req[r].payload
  IN /\ req[r].pc = "read" /\ outcome(p, req[r].code) = "verified"
     /\ used[p.code] < MaxGuesses
     /\ forgetOtp
     /\ used' = [used EXCEPT ![p.code] = @ + 1]
     /\ req' = [req EXCEPT ![r] = [Idle EXCEPT !.pc = "verified"]]
     /\ UNCHANGED <<now, service, resend, issued, gone, born,
                    mail, wrong, overlapped>>

ForgetCooldown(r) ==
  /\ req[r].pc \in {"verified", "failed"}
  /\ resend' = 0
  /\ \/ UNCHANGED gone
     \/ service = "EventDeletion" /\ req[r].pc = "verified" /\ gone' = TRUE
  /\ req' = [req EXCEPT ![r] = Idle]
  /\ UNCHANGED <<now, service, otp, issued, history, overlapped>>

Next == \/ Tick
        \/ \E r \in Requests :
             \/ MayIssue(r) \/ Store(r) \/ StoreCooldown(r)
             \/ Deliver(r) \/ DeliveryFails(r)
             \/ Get(r) \/ AnswerWrong(r) \/ AnswerExpired(r)
             \/ AnswerRight(r) \/ ForgetCooldown(r)

Spec == Init /\ [][Next]_vars

-----------------------------------------------------------------------------
(* A code is answered Verified once at the most, although the deletion it  *)
(* confirms may fail and leave the event, and the dialog, in place: what   *)
(* verify()'s comment "Success - single use" says, until requests overlap. *)
SingleUse == ~ overlapped => \A c \in Codes : used[c] =< 1

(* A code is compared with MAX_ATTEMPTS wrong guesses at the most before   *)
(* it stops being accepted (verify()), until requests overlap.             *)
GuessesBounded == ~ overlapped => \A c \in Codes : wrong[c] =< MaxAttempts

(* The code the cache holds is the newest one: a user who was mailed       *)
(* another code can use that one, and an older mail is worthless           *)
(* (issue() overwrites, verify() writes back what it read).                *)
NewestCodeCounts == ~ overlapped /\ now < otp.until => otp.code = issued

(* A code whose mail failed is not left behind as one that can be guessed  *)
(* (requestOtp() rolls back what issue() stored).                          *)
UndeliveredUnusable ==
  ~ overlapped /\ service = "EventDeletion" =>
    \A c \in Codes : mail[c] = "failed" => otp.code # c

(* Two codes are mailed RESEND_COOLDOWN_SECONDS apart, unless the earlier  *)
(* one was used in between (issue() and the cooldown entry), until         *)
(* requests overlap.                                                       *)
Spaced ==
  \A c, d \in Codes :
    c < d /\ mail[c] = "sent" /\ mail[d] = "sent" /\ used[c] = 0
      => born[d] >= born[c] + Cooldown
MailsSpaced == ~ overlapped => Spaced

(* However requests overlap, no code is accepted after CODE_TTL_SECONDS,   *)
(* although a wrong guess may write an expired entry back (verify() checks *)
(* the expires_at it read against the clock).                              *)
NoLateVerify ==
  [][\A c \in Codes : used'[c] > used[c] => now =< born[c] + CodeTTL]_vars

(* Until two requests overlap, the code in the cache is the last one       *)
(* mailed, is used once, is guessed at MAX_ATTEMPTS times and never        *)
(* outlives a mail that failed, and mails keep their distance.             *)
CodeConsistent ==
  /\ TypeOK /\ SingleUse /\ GuessesBounded
  /\ NewestCodeCounts /\ UndeliveredUnusable /\ MailsSpaced
=============================================================================
