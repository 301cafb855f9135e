------------------------- MODULE ContactVerification -------------------------
(***************************************************************************)
(* Public registration of one event: RegistrationVerificationService and   *)
(* its challenge rows, the device trust rows, and the cache entries that   *)
(* limit wrong guesses per email address.                                  *)
(*                                                                         *)
(* Every operation of the service locks the event row first and works on   *)
(* the locked challenge, so each is one action.  A request names its       *)
(* challenge by the cookie as it was when the request was sent: it may be  *)
(* any challenge its browser ever began, and a request may come late,      *)
(* twice, or after the challenge was replaced.                             *)
(*                                                                         *)
(* A time column is kept as the time left until it, which is all the code  *)
(* ever asks of it: 0 is "not in the future", or null.                     *)
(***************************************************************************)
EXTENDS Naturals

CONSTANTS
  Browsers,        \* device identifiers, one per browser
  Challenges,      \* rows of registration_verification_challenges
  Payloads,        \* what may be submitted in the form
  Emails,
  EmailOf,         \* EmailOf[p]: the email address in payload p
  Legacy,          \* challenges that date from before the channel choice
  LegacyOwner,     \* the browser they belong to
  Forms,           \* the forms events use, out of FormKinds
  ChallengeTTL, CodeTTL, Cooldown, TrustTTL, LockTTL,   \* in clock ticks
  MaxAttempts,     \* MAX_ATTEMPTS
  MaxHits,         \* bound on the rate limiter's count
  MaxCreated       \* bound on the registrations counted per challenge

(* Which contacts the form of the event requires.                          *)
FormKinds == {"emailOnly", "both", "email", "phone", "neither"}

ASSUME VerificationAssumption ==
  /\ EmailOf \in [Payloads -> Emails]
  /\ Legacy \subseteq Challenges /\ LegacyOwner \in Browsers
  /\ Forms \subseteq FormKinds
  /\ {ChallengeTTL, CodeTTL, Cooldown, TrustTTL, LockTTL} \subseteq Nat \ {0}
  /\ MaxAttempts \in Nat \ {0} /\ MaxCreated \in Nat
  /\ MaxHits \in Nat

CONSTANTS NoPayload, Nobody
ASSUME NullAssumption == NoPayload \notin Payloads /\ Nobody \notin Browsers

VARIABLES
  gate,      \* what the event row says: "open", "finishing" (no new visitors,
             \* begun registrations may be completed) or "closed"
  form,      \* the kind of its form, which is fixed once it is published
  ch,        \* ch[c]: the challenge row
  trust,     \* trust[b, e]: time left of email_device_verifications (e, b)
  hits,      \* hits[e]: the rate limiter's count of wrong guesses for e
  hitsLeft,  \* hitsLeft[e]: until the rate limiter forgets them
  lockLeft,  \* lockLeft[e]: until the ':locked' entry of e expires
  reg,       \* reg[p]: the registration findExact returns for payload p
  created,   \* history: created[c] counts the registrations c created
  typed      \* history: the <<b, e>> such that browser b typed a right code
             \* that had been sent to e

vars == <<gate, form, ch, trust, hits, hitsLeft, lockLeft, reg, created, typed>>
eventVars == <<gate, form>>
cacheVars == <<hits, hitsLeft, lockLeft>>

EmailOnly == form = "emailOnly"             \* usesEmailOnlyRegistration
EmailRequired == form \in {"emailOnly", "both", "email"}
PhoneRequired == form \in {"both", "phone"}     \* isCommonFieldRequired

Row == [row : {"none", "live", "pruned"}, owner : Browsers \cup {Nobody},
        payload : Payloads \cup {NoPayload},
        emailReq : BOOLEAN, phoneReq : BOOLEAN,
        chosen : {"none", "email", "phone"},
        ttl : 0 .. ChallengeTTL, verified : BOOLEAN,
        code : BOOLEAN, codeLeft : 0 .. CodeTTL, cooldown : 0 .. Cooldown,
        attempts : 0 .. MaxAttempts, finalized : BOOLEAN, ack : BOOLEAN]

TypeOK ==
  /\ gate \in {"open", "finishing", "closed"} /\ form \in Forms
  /\ ch \in [Challenges -> Row]
  /\ trust \in [Browsers \X Emails -> 0 .. TrustTTL]
  /\ hits \in [Emails -> Nat]
  /\ hitsLeft \in [Emails -> 0 .. LockTTL]
  /\ lockLeft \in [Emails -> 0 .. LockTTL]
  /\ reg \in [Payloads -> {"none", "active", "inactive"}]
  /\ created \in [Challenges -> Nat]
  /\ typed \subseteq Browsers \X Emails

NoRow == [row |-> "none", owner |-> Nobody, payload |-> NoPayload,
          emailReq |-> FALSE, phoneReq |-> FALSE, chosen |-> "none",
          ttl |-> 0, verified |-> FALSE, code |-> FALSE, codeLeft |-> 0,
          cooldown |-> 0, attempts |-> 0, finalized |-> FALSE, ack |-> FALSE]

(* The row begin() inserts: with both channels required the email one is   *)
(* chosen, and nothing is left for the participant to choose.              *)
NewRow(b, p) ==
  [NoRow EXCEPT !.row = "live", !.owner = b, !.payload = p,
     !.emailReq = EmailRequired, !.phoneReq = PhoneRequired,
     !.chosen = IF EmailRequired THEN "email"
                ELSE IF PhoneRequired THEN "phone" ELSE "none",
     !.ttl = ChallengeTTL]

LegacyRow(b, p) == [NewRow(b, p) EXCEPT !.chosen = "none"]

Init ==
  /\ gate = "open" /\ form \in Forms
  /\ \E p \in Payloads :
       ch = [c \in Challenges |-> IF c \in Legacy THEN LegacyRow(LegacyOwner, p)
                                  ELSE NoRow]
  /\ trust = [be \in Browsers \X Emails |-> 0]
  /\ hits = [e \in Emails |-> 0]
  /\ hitsLeft = [e \in Emails |-> 0]
  /\ lockLeft = [e \in Emails |-> 0]
  /\ reg = [p \in Payloads |-> "none"]
  /\ created = [c \in Challenges |-> 0]
  /\ typed = {}

-----------------------------------------------------------------------------
(* challengeState, in the order the code asks.                             *)
challengeState_FinalizedFirst(c) ==      \* mutant: the order is swapped
  CASE ch[c].row # "live" -> "missing"
    [] ch[c].row = "live" /\ ch[c].finalized -> "finalized"
    [] ch[c].row = "live" /\ ~ ch[c].finalized /\ ch[c].ttl = 0 -> "expired"
    [] OTHER -> IF gate = "closed" THEN "closed" ELSE "pending"
challengeState(c) ==
  CASE ch[c].row # "live"        -> "missing"
    [] ch[c].row = "live" /\ ch[c].ttl = 0  -> "expired"
    [] ch[c].row = "live" /\ ch[c].ttl > 0 /\ ch[c].finalized -> "finalized"
    [] OTHER ->
         IF gate = "closed" THEN "closed"
         ELSE IF \/ ch[c].emailReq # EmailRequired
                 \/ ch[c].phoneReq # PhoneRequired
                 \/ ~ ch[c].emailReq /\ ~ ch[c].phoneReq THEN "changed"
         ELSE "pending"

Pending(c) == challengeState(c) = "pending"

emailLocked(c) == EmailOnly /\ lockLeft[EmailOf[ch[c].payload]] > 0

allVerified_Chosen(c) ==      \* mutant: a choice is taken for a proof
  ch[c].chosen # "none"
allVerified(c) ==
  CASE ch[c].chosen = "email" -> ch[c].verified
    [] ch[c].chosen = "phone" -> FALSE
    [] OTHER -> /\ ch[c].emailReq \/ ch[c].phoneReq
                /\ ch[c].emailReq => ch[c].verified
                /\ ~ ch[c].phoneReq

(* expires_at = now(), payload and code hashes null: what begin() does to  *)
(* the challenge it replaces.                                              *)
Replaced(r) ==
  IF r.row = "live" /\ ~ r.finalized
  THEN [r EXCEPT !.ttl = 0, !.payload = NoPayload, !.code = FALSE]
  ELSE r

(* begin(): keep the challenge the cookie names if it is still good and    *)
(* the form says the same, or else replace it by a new one.                *)
Reusable(old, p) ==
  Pending(old) /\ ch[old].attempts < MaxAttempts /\ ch[old].payload = p

Begin(b, p) ==
  /\ gate = "open"
  /\ \E c \in Challenges :
       /\ ch[c].row = "none"
       /\ \/ ch' = [ch EXCEPT ![c] = NewRow(b, p)]
          \/ \E old \in Challenges :
               /\ ch[old].owner = b /\ ~ Reusable(old, p)
               /\ ch' = [ch EXCEPT ![old] = Replaced(@), ![c] = NewRow(b, p)]
  /\ UNCHANGED <<eventVars, trust, cacheVars, reg, created, typed>>

chooseChannel(c) ==
  /\ Pending(c)
  /\ ch[c].chosen = "none" /\ ch[c].emailReq /\ ch[c].phoneReq
  /\ \E channel \in {"email", "phone"} :
       ch' = [ch EXCEPT ![c].chosen = channel]
  /\ UNCHANGED <<eventVars, trust, cacheVars, reg, created, typed>>

(* sendEmail() on a device that is trusted for the address: no code.       *)
hasEmailDeviceTrust_AnyDevice(b, e) ==      \* mutant: not scoped to the device
  \E d \in Browsers : trust[<<d, e>>] > 0
hasEmailDeviceTrust(b, e) == trust[<<b, e>>] > 0

Trusted(c) ==
  /\ ch[c].emailReq /\ ch[c].chosen # "phone" /\ ~ ch[c].verified
  /\ hasEmailDeviceTrust(ch[c].owner, EmailOf[ch[c].payload])

SkipCode(c) ==
  /\ Pending(c) /\ ~ emailLocked(c) /\ Trusted(c)
  /\ ch' = [ch EXCEPT ![c].verified = TRUE, ![c].chosen = "email"]
  /\ UNCHANGED <<eventVars, trust, cacheVars, reg, created, typed>>

(* issuanceError() = null                                                  *)
Issuable_NoCooldown(c) ==      \* mutant: issued_at is not looked at
  /\ ch[c].emailReq /\ ch[c].chosen # "phone"
  /\ ~ ch[c].verified /\ ch[c].attempts < MaxAttempts
Issuable(c) ==
  /\ ch[c].emailReq /\ ch[c].chosen # "phone"
  /\ ~ ch[c].verified
  /\ ch[c].attempts < MaxAttempts
  /\ ch[c].cooldown = 0

(* sendEmail() with a mail transport that accepts, or refuses, the mail.   *)
(* Either way the cooldown runs from the attempt.                          *)
SendCode_LongCode(c) ==      \* mutant: the lifetime runs from the cooldown
  /\ Pending(c) /\ ~ emailLocked(c) /\ ~ Trusted(c) /\ Issuable(c)
  /\ ch' = [ch EXCEPT ![c].code = TRUE, ![c].cooldown = Cooldown,
                      ![c].codeLeft = Cooldown + CodeTTL]
  /\ UNCHANGED <<eventVars, trust, cacheVars, reg, created, typed>>
SendCode(c) ==
  /\ Pending(c) /\ ~ emailLocked(c) /\ ~ Trusted(c) /\ Issuable(c)
  /\ \E delivered \in BOOLEAN :
       ch' = [ch EXCEPT ![c].code = delivered,
                        ![c].codeLeft = IF delivered THEN CodeTTL ELSE 0,
                        ![c].cooldown = Cooldown]
  /\ UNCHANGED <<eventVars, trust, cacheVars, reg, created, typed>>

(* verify(): the code may be compared.                                     *)
Comparable_NoLock(c) ==      \* mutant: the lock of the address is forgotten
  /\ Pending(c)
  /\ ch[c].emailReq /\ ch[c].chosen # "phone" /\ ~ ch[c].verified
  /\ ch[c].attempts < MaxAttempts
  /\ ch[c].code /\ ch[c].codeLeft > 0
Comparable(c) ==
  /\ Pending(c) /\ ~ emailLocked(c)
  /\ ch[c].emailReq /\ ch[c].chosen # "phone"
  /\ ~ ch[c].verified
  /\ ch[c].attempts < MaxAttempts
  /\ ch[c].code /\ ch[c].codeLeft > 0

(* The right code consumes itself and makes the device trusted.            *)
VerifyRight(c) ==
  LET be == <<ch[c].owner, EmailOf[ch[c].payload]>> IN
  /\ Comparable(c)
  /\ ch' = [ch EXCEPT ![c].verified = TRUE, ![c].code = FALSE,
                      ![c].codeLeft = 0]
  /\ trust' = [trust EXCEPT ![be] = TrustTTL]
  /\ typed' = typed \cup {be}
  /\ UNCHANGED <<eventVars, cacheVars, reg, created>>

(* RateLimiter::hit and, at the limit, the two-hour lock of the address.   *)
CountGuess_OneMore(e) ==      \* mutant: > for >=
  /\ hits' = [hits EXCEPT ![e] = @ + 1]
  /\ hitsLeft' = [hitsLeft EXCEPT ![e] = IF hits[e] = 0 THEN LockTTL ELSE @]
  /\ lockLeft' = [lockLeft EXCEPT
                    ![e] = IF hits[e] + 1 > MaxAttempts THEN LockTTL ELSE @]
CountGuess(e) ==
  /\ hits' = [hits EXCEPT ![e] = @ + 1]
  /\ hitsLeft' = [hitsLeft EXCEPT ![e] = IF hits[e] = 0 THEN LockTTL ELSE @]
  /\ lockLeft' = [lockLeft EXCEPT
                    ![e] = IF hits[e] + 1 >= MaxAttempts THEN LockTTL ELSE @]

(* A wrong code is counted on the challenge and, for an email-only event,  *)
(* on the address.  The cache is not part of the transaction: the guess    *)
(* stays counted there when the transaction fails to commit.               *)
VerifyWrong(c) ==
  /\ Comparable(c)
  /\ \E committed \in BOOLEAN :
       ch' = IF committed THEN [ch EXCEPT ![c].attempts = @ + 1] ELSE ch
  /\ IF EmailOnly THEN CountGuess(EmailOf[ch[c].payload])
                  ELSE UNCHANGED cacheVars
  /\ UNCHANGED <<eventVars, trust, reg, created, typed>>

(* The rate limiter is shared by all events, the event lock is not: a wrong *)
(* guess for the same address at another event, which found the address    *)
(* not locked, may be counted at any time.                                 *)
GuessElsewhere(e) ==
  /\ EmailOnly /\ hits[e] < MaxHits
  /\ CountGuess(e)
  /\ UNCHANGED <<eventVars, ch, trust, reg, created, typed>>

(* What finalize() leaves of a challenge.                                  *)
Finalized_NoMarker(r) == r      \* mutant: finalized_at is not written
Finalized(r) == [r EXCEPT !.finalized = TRUE, !.payload = NoPayload,
                          !.code = FALSE]

(* finalize() of a verified challenge: with no registration of this        *)
(* identity it creates one, with an active one it hands that one back.     *)
(* With an inactive one, or once finalized, nothing changes.               *)
finalize(c) ==
  LET p == ch[c].payload IN
  /\ Pending(c) /\ allVerified(c)
  /\ \/ /\ reg[p] = "none" /\ created[c] < MaxCreated
        /\ reg' = [reg EXCEPT ![p] = "active"]
        /\ created' = [created EXCEPT ![c] = @ + 1]
     \/ reg[p] = "active" /\ UNCHANGED <<reg, created>>
  /\ ch' = [ch EXCEPT ![c] = Finalized(@)]
  /\ UNCHANGED <<eventVars, trust, cacheVars, typed>>

acknowledgeCode(c) ==
  /\ challengeState(c) = "finalized" /\ ~ ch[c].ack
  /\ ch' = [ch EXCEPT ![c].ack = TRUE]
  /\ UNCHANGED <<eventVars, trust, cacheVars, reg, created, typed>>

(* model:prune deletes expired challenges every hour.                      *)
Prune_Finalized ==      \* mutant: abandoned challenges are kept
  /\ \E c \in Challenges : ch[c].finalized /\ ch[c].ttl = 0
  /\ ch' = [c \in Challenges |->
              IF ch[c].finalized /\ ch[c].ttl = 0
              THEN [NoRow EXCEPT !.row = "pruned"] ELSE ch[c]]
  /\ UNCHANGED <<eventVars, trust, cacheVars, reg, created, typed>>
Prune ==
  /\ \E c \in Challenges : ch[c].row = "live" /\ ch[c].ttl = 0
  /\ ch' = [c \in Challenges |->
              IF ch[c].row = "live" /\ ch[c].ttl = 0
              THEN [NoRow EXCEPT !.row = "pruned"] ELSE ch[c]]
  /\ UNCHANGED <<eventVars, trust, cacheVars, reg, created, typed>>

-----------------------------------------------------------------------------
(* The rest of the system: staff open, close, start and finalize the event *)
(* (see EventLifecycle), and create, set aside or delete registrations.    *)
EventMoves ==
  /\ gate' \in {"open", "finishing", "closed"} \ {gate}
  /\ UNCHANGED <<form, ch, trust, cacheVars, reg, created, typed>>

StaffMoves ==
  /\ \E p \in Payloads, s \in {"none", "active", "inactive"} :
       reg[p] # s /\ reg' = [reg EXCEPT ![p] = s]
  /\ UNCHANGED <<eventVars, ch, trust, cacheVars, created, typed>>

Less(n) == IF n = 0 THEN 0 ELSE n - 1

Tick ==
  /\ ch' = [c \in Challenges |->
              [ch[c] EXCEPT !.ttl = Less(@), !.codeLeft = Less(@),
                            !.cooldown = Less(@)]]
  /\ trust' = [be \in Browsers \X Emails |-> Less(trust[be])]
  /\ hitsLeft' = [e \in Emails |-> Less(hitsLeft[e])]
  /\ hits' = [e \in Emails |-> IF hitsLeft[e] > 1 THEN hits[e] ELSE 0]
  /\ lockLeft' = [e \in Emails |-> Less(lockLeft[e])]
  /\ UNCHANGED <<eventVars, reg, created, typed>>

-----------------------------------------------------------------------------
Next ==
  \/ \E b \in Browsers, p \in Payloads : Begin(b, p)
  \/ \E c \in Challenges : \/ chooseChannel(c) \/ SkipCode(c) \/ SendCode(c)
                           \/ VerifyRight(c) \/ VerifyWrong(c)
                           \/ finalize(c) \/ acknowledgeCode(c)
  \/ \E e \in Emails : GuessElsewhere(e)
  \/ Prune \/ EventMoves \/ StaffMoves \/ Tick

Spec == Init /\ [][Next]_vars

(* The scheduler prunes every hour, and time passes.                       *)
FairSpec == Spec /\ WF_vars(Prune) /\ WF_vars(Tick)

-----------------------------------------------------------------------------
(* Properties.                                                             *)

EmailAt(c) == EmailOf[ch[c].payload]

(* The lock of an address outlives the count that caused it: the count is  *)
(* never forgotten into a fresh allowance while guesses are refused, and a *)
(* full count never goes without its lock, across events, resends and      *)
(* replacement challenges.                                                 *)
LockOutlivesCount ==
  \A e \in Emails :
    hits[e] >= MaxAttempts => hitsLeft[e] > 0 /\ lockLeft[e] >= hitsLeft[e]

(* A challenge counts as verified only on a device that itself once typed  *)
(* a code sent to the address in this challenge, whether the code was for  *)
(* this challenge or for an earlier one.                                   *)
VerifiedByMailboxOwner ==
  \A c \in Challenges :
    ch[c].verified /\ ch[c].payload # NoPayload
      => <<ch[c].owner, EmailAt(c)>> \in typed

(* A challenge creates one registration at the most, although its          *)
(* completion is retried and staff may delete the registration meanwhile.  *)
CreatedAtMostOnce == \A c \in Challenges : created[c] <= 1

(* An expired or replaced challenge is dead: no late request verifies it,  *)
(* counts a guess on it, completes it or acknowledges it.                  *)
DeadIsDead ==
  [][\A c \in Challenges :
       ch[c].row = "live" /\ ch[c].ttl = 0 /\ ch'[c].row = "live"
         => /\ ch'[c].ttl = 0 /\ ch'[c].verified = ch[c].verified
            /\ ch'[c].attempts = ch[c].attempts /\ ch'[c].ack = ch[c].ack
            /\ ch'[c].finalized = ch[c].finalized
            /\ created'[c] = created[c]]_vars

(* While the cooldown runs no code replaces the one that was refused by    *)
(* the transport, or consumed.                                             *)
NoCodeInCooldown ==
  [][\A c \in Challenges :
       ch[c].cooldown > 0 /\ ~ ch[c].code => ~ ch'[c].code]_vars

(* A channel that is locked, on the challenge or for the address, can only *)
(* be verified by a device already trusted for the address, and not at all *)
(* while the address is locked.                                            *)
LockedStaysUnverified ==
  [][\A c \in Challenges :
       ~ ch[c].verified /\ ch'[c].verified
         => /\ ~ emailLocked(c)
            /\ \/ ch[c].attempts < MaxAttempts
               \/ hasEmailDeviceTrust(ch[c].owner, EmailAt(c))]_vars

(* The challenges implement the promise of Enrolment.                      *)
StageOf(r) == CASE r.row = "none" -> "unused"
                [] r.row = "pruned" -> "gone"
                [] r.row = "live" /\ r.ttl = 0 -> "gone"
                [] OTHER -> IF r.finalized THEN "enrolled"
                            ELSE IF r.verified THEN "proved" ELSE "begun"

Promise == INSTANCE Enrolment WITH
             stage <- [c \in Challenges |-> StageOf(ch[c])]
EnrolmentKept == Promise!Spec

(* What a participant submitted does not stay in the challenge for ever.   *)
PayloadErased ==
  \A c \in Challenges : ch[c].payload # NoPayload ~> ch[c].payload = NoPayload

(* A challenge and what it stands for agree, whatever is repeated: one     *)
(* registration at the most, verified by who reads the mailbox, and a      *)
(* count of wrong guesses that the lock of the address outlives.           *)
ChallengesConsistent ==
  TypeOK /\ LockOutlivesCount /\ CreatedAtMostOnce /\ VerifiedByMailboxOwner

(* Nothing late gets through: no request brings an expired challenge back  *)
(* to life, opens a locked channel or forces a code through a cooldown.    *)
NothingLate == DeadIsDead /\ LockedStaysUnverified /\ NoCodeInCooldown
=============================================================================
