---------------------- MODULE ContactVerificationProofs ----------------------
(***************************************************************************)
(* Theorems about ContactVerification, for any browsers, challenges,       *)
(* payloads and durations, and any number of late or repeated requests.    *)
(***************************************************************************)
EXTENDS ContactVerification, TLAPS

(* A challenge a request may still work on has what was submitted.         *)
LiveHasPayload ==
  \A c \in Challenges :
    ch[c].row = "live" /\ ch[c].ttl > 0 /\ ~ ch[c].finalized
      => ch[c].payload \in Payloads /\ ch[c].owner \in Browsers

(* A challenge that created a registration is finalized until it is pruned.*)
CreatedIsFinal ==
  \A c \in Challenges :
    created[c] # 0 => \/ ch[c].row = "live" /\ ch[c].finalized
                      \/ ch[c].row = "pruned"

(* A device is trusted for an address only because it typed its code.      *)
TrustIsTyped ==
  \A be \in Browsers \X Emails : trust[be] > 0 => be \in typed

(* The rate limiter counts nothing that it has forgotten.                  *)
CountIsTimed == \A e \in Emails : hits[e] > 0 => hitsLeft[e] > 0

IInv ==
  /\ TypeOK /\ LiveHasPayload /\ CreatedIsFinal /\ TrustIsTyped /\ CountIsTimed
  /\ LockOutlivesCount /\ CreatedAtMostOnce /\ VerifiedByMailboxOwner

ChOK == ch \in [Challenges -> Row]
Others(c) == \A d \in Challenges \ {c} : ch'[d] = ch[d]

-----------------------------------------------------------------------------
(* The durations and limits, one by one.                                   *)
LEMMA Durations ==
  /\ ChallengeTTL \in Nat /\ ChallengeTTL > 0 /\ CodeTTL \in Nat /\ CodeTTL > 0
  /\ Cooldown \in Nat /\ Cooldown > 0 /\ TrustTTL \in Nat /\ TrustTTL > 0
  /\ LockTTL \in Nat /\ LockTTL > 0 /\ MaxAttempts \in Nat /\ MaxAttempts > 0
BY VerificationAssumption

(* A row that was never used, or was deleted, is a row.                    *)
LEMMA NoRowTyped ==
  NoRow \in Row /\ NoRow.row = "none" /\ NoRow.ttl = 0 /\ NoRow.owner = Nobody
BY Durations DEF NoRow, Row

(* What the answers of challengeState say of the row.                      *)
LEMMA PendingRow ==
  ASSUME ChOK, NEW c \in Challenges, Pending(c)
  PROVE  ch[c].row = "live" /\ ch[c].ttl \in Nat /\ ch[c].ttl > 0 /\ ~ ch[c].finalized
<1>1. ch[c] \in Row
  BY DEF ChOK
<1>2. ch[c].ttl \in Nat /\ ch[c].finalized \in BOOLEAN
  BY <1>1, Durations DEF Row
<1> QED BY <1>2 DEF Pending, challengeState

LEMMA FinalizedRow ==
  ASSUME ChOK, NEW c \in Challenges, challengeState(c) = "finalized"
  PROVE  ch[c].row = "live" /\ ch[c].ttl \in Nat /\ ch[c].ttl > 0 /\ ch[c].finalized
<1>1. ch[c] \in Row
  BY DEF ChOK
<1>2. ch[c].ttl \in Nat /\ ch[c].finalized \in BOOLEAN
  BY <1>1, Durations DEF Row
<1> QED BY <1>2 DEF challengeState

(* Only a challenge whose email address is proved passes for verified.     *)
LEMMA AllVerifiedRow ==
  ASSUME ChOK, NEW c \in Challenges, allVerified(c)
  PROVE  ch[c].verified
<1>1. ch[c] \in Row
  BY DEF ChOK
<1> QED BY <1>1 DEF Row, allVerified

-----------------------------------------------------------------------------
(* What each operation does to the rows.                                   *)
LEMMA ChooseRow ==
  ASSUME ChOK, NEW c \in Challenges, chooseChannel(c)
  PROVE  /\ ChOK' /\ Others(c)
         /\ \E k \in {"email", "phone"} : ch'[c] = [ch[c] EXCEPT !.chosen = k]
<1>1. PICK k \in {"email", "phone"} : ch' = [ch EXCEPT ![c].chosen = k]
  BY DEF chooseChannel
<1>2. ch'[c] = [ch[c] EXCEPT !.chosen = k]
  BY <1>1 DEF ChOK
<1>3. Others(c) /\ ch[c] \in Row
  BY <1>1 DEF ChOK, Others
<1>4. ch'[c] \in Row
  BY <1>2, <1>3 DEF Row
<1>5. ChOK'
  BY <1>1, <1>3, <1>4 DEF ChOK, Others
<1> QED BY <1>2, <1>3, <1>5

LEMMA SkipRow ==
  ASSUME ChOK, NEW c \in Challenges, SkipCode(c)
  PROVE  /\ ChOK' /\ Others(c)
         /\ ch'[c] = [ch[c] EXCEPT !.verified = TRUE, !.chosen = "email"]
<1>1. ch' = [ch EXCEPT ![c].verified = TRUE, ![c].chosen = "email"]
  BY DEF SkipCode
<1>2. ch'[c] = [ch[c] EXCEPT !.verified = TRUE, !.chosen = "email"]
  BY <1>1 DEF ChOK
<1>3. Others(c) /\ ch[c] \in Row
  BY <1>1 DEF ChOK, Others
<1>4. ch'[c] \in Row
  <2>1. PICK s : s = [ch[c] EXCEPT !.verified = TRUE]
    OBVIOUS
  <2>2. s \in Row
    BY <1>3, <2>1 DEF Row
  <2>3. ch'[c] = [s EXCEPT !.chosen = "email"]
    BY <1>2, <2>1
  <2> QED BY <2>2, <2>3 DEF Row
<1>5. ChOK'
  BY <1>1, <1>3, <1>4 DEF ChOK, Others
<1> QED BY <1>2, <1>3, <1>5

(* A row stays one when its code is sent, refused or consumed.             *)
LEMMA CodeFields ==
  ASSUME NEW r \in Row, NEW k \in BOOLEAN, NEW left \in 0 .. CodeTTL
  PROVE  [r EXCEPT !.code = k, !.codeLeft = left] \in Row
<1>1. PICK s : s = [r EXCEPT !.code = k]
  OBVIOUS
<1>2. s \in Row
  BY <1>1 DEF Row
<1>3. [r EXCEPT !.code = k, !.codeLeft = left] = [s EXCEPT !.codeLeft = left]
  BY <1>1
<1> QED BY <1>2, <1>3 DEF Row

LEMMA SendRow ==
  ASSUME ChOK, NEW c \in Challenges, SendCode(c)
  PROVE  /\ ChOK' /\ Others(c)
         /\ \E delivered \in BOOLEAN, left \in 0 .. CodeTTL :
              ch'[c] = [ch[c] EXCEPT !.code = delivered, !.codeLeft = left,
                                     !.cooldown = Cooldown]
<1>1. PICK delivered \in BOOLEAN :
        ch' = [ch EXCEPT ![c].code = delivered,
                         ![c].codeLeft = IF delivered THEN CodeTTL ELSE 0,
                         ![c].cooldown = Cooldown]
  BY DEF SendCode
<1>2. PICK left \in 0 .. CodeTTL : left = IF delivered THEN CodeTTL ELSE 0
  <2>1. 0 \in 0 .. CodeTTL /\ CodeTTL \in 0 .. CodeTTL
    BY Durations
  <2> QED BY <2>1
<1>3. ch'[c] = [ch[c] EXCEPT !.code = delivered, !.codeLeft = left, !.cooldown = Cooldown]
  BY <1>1, <1>2 DEF ChOK
<1>4. Others(c) /\ ch[c] \in Row
  BY <1>1 DEF ChOK, Others
<1>5. ch'[c] \in Row
  <2>1. PICK s : s = [ch[c] EXCEPT !.code = delivered, !.codeLeft = left]
    OBVIOUS
  <2>2. s \in Row
    BY <1>4, <2>1, CodeFields
  <2>3. ch'[c] = [s EXCEPT !.cooldown = Cooldown]
    BY <1>3, <2>1
  <2>4. Cooldown \in 0 .. Cooldown
    BY Durations
  <2> QED BY <2>2, <2>3, <2>4 DEF Row
<1>6. ChOK'
  BY <1>1, <1>4, <1>5 DEF ChOK, Others
<1> QED BY <1>3, <1>4, <1>6

LEMMA RightRow ==
  ASSUME ChOK, NEW c \in Challenges, VerifyRight(c)
  PROVE  /\ ChOK' /\ Others(c)
         /\ ch'[c] = [ch[c] EXCEPT !.verified = TRUE, !.code = FALSE, !.codeLeft = 0]
<1>1. ch' = [ch EXCEPT ![c].verified = TRUE, ![c].code = FALSE, ![c].codeLeft = 0]
  BY DEF VerifyRight
<1>2. ch'[c] = [ch[c] EXCEPT !.verified = TRUE, !.code = FALSE, !.codeLeft = 0]
  BY <1>1 DEF ChOK
<1>3. Others(c) /\ ch[c] \in Row
  BY <1>1 DEF ChOK, Others
<1>4. ch'[c] \in Row
  <2>1. PICK s : s = [ch[c] EXCEPT !.verified = TRUE]
    OBVIOUS
  <2>2. s \in Row
    BY <1>3, <2>1 DEF Row
  <2>3. ch'[c] = [s EXCEPT !.code = FALSE, !.codeLeft = 0]
    BY <1>2, <2>1
  <2>4. FALSE \in BOOLEAN /\ 0 \in 0 .. CodeTTL
    BY Durations
  <2> QED BY <2>2, <2>3, <2>4, CodeFields
<1>5. ChOK'
  BY <1>1, <1>3, <1>4 DEF ChOK, Others
<1> QED BY <1>2, <1>3, <1>5

LEMMA WrongRow ==
  ASSUME ChOK, NEW c \in Challenges, VerifyWrong(c)
  PROVE  /\ ChOK' /\ Others(c)
         /\ \E n \in 0 .. MaxAttempts : ch'[c] = [ch[c] EXCEPT !.attempts = n]
<1>1. ch[c] \in Row /\ ch[c].attempts < MaxAttempts
  BY DEF ChOK, VerifyWrong, Comparable
<1>2. ch[c].attempts \in 0 .. MaxAttempts
  BY <1>1 DEF Row
<1>3. CASE ch' = ch
  <2>1. ch'[c] = [ch[c] EXCEPT !.attempts = ch[c].attempts]
    BY <1>1, <1>3 DEF Row
  <2> QED BY <1>2, <1>3, <2>1 DEF ChOK, Others
<1>4. CASE ch' = [ch EXCEPT ![c].attempts = @ + 1]
  <2>1. PICK n : n = ch[c].attempts + 1
    OBVIOUS
  <2>2. n \in 0 .. MaxAttempts
    BY <1>1, <1>2, <2>1, VerificationAssumption
  <2>3. ch'[c] = [ch[c] EXCEPT !.attempts = n]
    BY <1>4, <2>1 DEF ChOK
  <2>4. ch'[c] \in Row
    BY <1>1, <2>2, <2>3 DEF Row
  <2>5. Others(c)
    BY <1>4 DEF ChOK, Others
  <2>6. ChOK'
    BY <1>4, <2>4, <2>5 DEF ChOK, Others
  <2> QED BY <2>2, <2>3, <2>5, <2>6
<1> QED BY <1>3, <1>4 DEF VerifyWrong

LEMMA FinalizeRow ==
  ASSUME ChOK, NEW c \in Challenges, finalize(c)
  PROVE  /\ ChOK' /\ Others(c)
         /\ ch'[c] = [ch[c] EXCEPT !.finalized = TRUE, !.payload = NoPayload, !.code = FALSE]
<1>1. ch' = [ch EXCEPT ![c] = Finalized(@)]
  BY DEF finalize
<1>2. ch'[c] = [ch[c] EXCEPT !.finalized = TRUE, !.payload = NoPayload, !.code = FALSE]
  BY <1>1 DEF ChOK, Finalized
<1>3. Others(c) /\ ch[c] \in Row
  BY <1>1 DEF ChOK, Others
<1>4. ch'[c] \in Row
  BY <1>2, <1>3 DEF Row
<1>5. ChOK'
  BY <1>1, <1>3, <1>4 DEF ChOK, Others
<1> QED BY <1>2, <1>3, <1>5

LEMMA AckRow ==
  ASSUME ChOK, NEW c \in Challenges, acknowledgeCode(c)
  PROVE  ChOK' /\ Others(c) /\ ch'[c] = [ch[c] EXCEPT !.ack = TRUE]
<1>1. ch' = [ch EXCEPT ![c].ack = TRUE]
  BY DEF acknowledgeCode
<1>2. ch'[c] = [ch[c] EXCEPT !.ack = TRUE]
  BY <1>1 DEF ChOK
<1>3. Others(c) /\ ch[c] \in Row
  BY <1>1 DEF ChOK, Others
<1>4. ch'[c] \in Row
  BY <1>2, <1>3 DEF Row
<1>5. ChOK'
  BY <1>1, <1>3, <1>4 DEF ChOK, Others
<1> QED BY <1>2, <1>3, <1>5

(* begin() fills one unused row, and may put an end to one other.          *)
LEMMA NewRowTyped ==
  ASSUME NEW b \in Browsers, NEW p \in Payloads
  PROVE  /\ NewRow(b, p) \in Row
         /\ NewRow(b, p).row = "live" /\ NewRow(b, p).owner = b /\ NewRow(b, p).payload = p
         /\ NewRow(b, p).ttl = ChallengeTTL /\ ~ NewRow(b, p).verified
         /\ ~ NewRow(b, p).code /\ ~ NewRow(b, p).finalized
<1>1. PICK k \in {"email", "phone", "none"} :
        k = IF EmailRequired THEN "email" ELSE IF PhoneRequired THEN "phone" ELSE "none"
  OBVIOUS
<1>2. PICK f \in BOOLEAN, g \in BOOLEAN : f = EmailRequired /\ g = PhoneRequired
  <2>1. EmailRequired \in BOOLEAN /\ PhoneRequired \in BOOLEAN
    BY DEF EmailRequired, PhoneRequired
  <2> QED BY <2>1, Zenon
<1>3. NewRow(b, p) = [NoRow EXCEPT !.row = "live", !.owner = b, !.payload = p, !.emailReq = f,
                        !.phoneReq = g, !.chosen = k, !.ttl = ChallengeTTL]
  BY <1>1, <1>2 DEF NewRow
<1>4. NewRow(b, p) =
        [row |-> "live", owner |-> b, payload |-> p, emailReq |-> f, phoneReq |-> g,
         chosen |-> k, ttl |-> ChallengeTTL, verified |-> FALSE, code |-> FALSE,
         codeLeft |-> 0, cooldown |-> 0, attempts |-> 0, finalized |-> FALSE, ack |-> FALSE]
  BY <1>3 DEF NoRow
<1>5. /\ ChallengeTTL \in 0 .. ChallengeTTL /\ 0 \in 0 .. CodeTTL /\ 0 \in 0 .. Cooldown
      /\ 0 \in 0 .. MaxAttempts
  BY Durations
<1>6. NewRow(b, p) \in Row
  BY <1>2, <1>4, <1>5 DEF Row
<1> QED BY <1>4, <1>6

LEMMA BeginRows ==
  ASSUME ChOK, NEW b \in Browsers, NEW p \in Payloads, Begin(b, p)
  PROVE  /\ ChOK'
         /\ \E c \in Challenges :
              /\ ch[c].row = "none" /\ ch'[c] = NewRow(b, p)
              /\ \/ Others(c)
                 \/ \E old \in Challenges \ {c} :
                      /\ ch'[old] = Replaced(ch[old])
                      /\ \A d \in Challenges \ {c, old} : ch'[d] = ch[d]
<1>1. PICK c \in Challenges :
        /\ ch[c].row = "none"
        /\ \/ ch' = [ch EXCEPT ![c] = NewRow(b, p)]
           \/ \E old \in Challenges :
                ch' = [ch EXCEPT ![old] = Replaced(@), ![c] = NewRow(b, p)]
  BY DEF Begin
<1>2. NewRow(b, p) \in Row
  BY NewRowTyped
<1>3. CASE ch' = [ch EXCEPT ![c] = NewRow(b, p)]
  BY <1>1, <1>2, <1>3 DEF ChOK, Others
<1>4. ASSUME NEW old \in Challenges,
             ch' = [ch EXCEPT ![old] = Replaced(@), ![c] = NewRow(b, p)]
      PROVE  ChOK' /\ (Others(c) \/ (/\ old # c /\ ch'[old] = Replaced(ch[old])
                                     /\ \A d \in Challenges \ {c, old} : ch'[d] = ch[d]))
                   /\ ch'[c] = NewRow(b, p)
  <2>1. ch[old] \in Row
    BY DEF ChOK
  <2>2. Replaced(ch[old]) \in Row
    <3>1. 0 \in 0 .. ChallengeTTL
      BY Durations
    <3> QED BY <2>1, <3>1 DEF Replaced, Row
  <2> QED BY <1>4, <1>2, <2>2 DEF ChOK, Others
<1> QED BY <1>1, <1>3, <1>4

LEMMA PruneRows ==
  ASSUME ChOK, Prune
  PROVE  /\ ChOK'
         /\ \A c \in Challenges : \/ ch'[c] = ch[c]
                                  \/ /\ ch[c].row = "live" /\ ch[c].ttl = 0
                                     /\ ch'[c] = [NoRow EXCEPT !.row = "pruned"]
<1>1. [NoRow EXCEPT !.row = "pruned"] \in Row
  BY NoRowTyped DEF Row
<1> QED BY <1>1 DEF Prune, ChOK

LEMMA TickRows ==
  ASSUME ChOK, Tick
  PROVE  /\ ChOK'
         /\ \A c \in Challenges :
              ch'[c] = [ch[c] EXCEPT !.ttl = Less(@), !.codeLeft = Less(@), !.cooldown = Less(@)]
<1>1. \A c \in Challenges :
        ch'[c] = [ch[c] EXCEPT !.ttl = Less(@), !.codeLeft = Less(@), !.cooldown = Less(@)]
  BY DEF Tick
<1>2. ASSUME NEW c \in Challenges PROVE ch'[c] \in Row
  <2>1. ch[c] \in Row
    BY DEF ChOK
  <2>2. /\ Less(ch[c].ttl) \in 0 .. ChallengeTTL /\ Less(ch[c].codeLeft) \in 0 .. CodeTTL
        /\ Less(ch[c].cooldown) \in 0 .. Cooldown
    BY <2>1, Durations DEF Row, Less
  <2> QED BY <1>1, <2>1, <2>2 DEF Row
<1> QED BY <1>1, <1>2 DEF Tick, ChOK

-----------------------------------------------------------------------------
(* The limits on wrong guesses.                                            *)
CountOK ==
  /\ hits \in [Emails -> Nat] /\ hitsLeft \in [Emails -> 0 .. LockTTL]
  /\ lockLeft \in [Emails -> 0 .. LockTTL]

(* A pending challenge counts its guesses for an address.                  *)
LEMMA PendingEmail ==
  ASSUME ChOK, LiveHasPayload, NEW c \in Challenges, Pending(c)
  PROVE  ch[c].payload \in Payloads /\ ch[c].owner \in Browsers /\ EmailAt(c) \in Emails
BY PendingRow, VerificationAssumption DEF LiveHasPayload, EmailAt

(* Only a wrong guess and the clock change what is counted.                *)
LEMMA CacheStep ==
  ASSUME ChOK, LiveHasPayload, [Next]_vars
  PROVE  UNCHANGED cacheVars \/ Tick \/ \E e \in Emails : CountGuess(e)
<1>1. ASSUME NEW c \in Challenges, VerifyWrong(c)
      PROVE  UNCHANGED cacheVars \/ \E e \in Emails : CountGuess(e)
  <2>1. EmailAt(c) \in Emails
    BY <1>1, PendingEmail DEF VerifyWrong, Comparable
  <2> QED BY <1>1, <2>1 DEF VerifyWrong, EmailAt
<1>2. ASSUME NEW b \in Browsers, NEW p \in Payloads, Begin(b, p) PROVE UNCHANGED cacheVars
  BY <1>2 DEF Begin
<1>3. ASSUME NEW c \in Challenges,
             \/ chooseChannel(c) \/ SkipCode(c) \/ SendCode(c) \/ VerifyRight(c)
             \/ finalize(c) \/ acknowledgeCode(c)
      PROVE  UNCHANGED cacheVars
  BY <1>3 DEF chooseChannel, SkipCode, SendCode, VerifyRight, finalize, acknowledgeCode
<1>4. ASSUME NEW e \in Emails, GuessElsewhere(e) PROVE CountGuess(e)
  BY <1>4 DEF GuessElsewhere
<1>5. Prune \/ EventMoves \/ StaffMoves \/ UNCHANGED vars => UNCHANGED cacheVars
  BY DEF Prune, EventMoves, StaffMoves, vars, cacheVars
<1> QED BY <1>1, <1>2, <1>3, <1>4, <1>5 DEF Next

(* The count of an address and its lock stay in step.                      *)
LEMMA CountKeeps ==
  ASSUME CountOK, CountIsTimed, LockOutlivesCount,
         UNCHANGED cacheVars \/ Tick \/ \E e \in Emails : CountGuess(e)
  PROVE  CountOK' /\ CountIsTimed' /\ LockOutlivesCount'
<1> USE Durations
<1>1. CASE UNCHANGED cacheVars
  BY <1>1 DEF cacheVars, CountOK, CountIsTimed, LockOutlivesCount
<1>2. CASE Tick
  <2>1. ASSUME NEW e \in Emails
        PROVE  /\ hitsLeft'[e] = Less(hitsLeft[e]) /\ lockLeft'[e] = Less(lockLeft[e])
               /\ hits'[e] = IF hitsLeft[e] > 1 THEN hits[e] ELSE 0
    BY <1>2 DEF Tick
  <2>2. ASSUME NEW e \in Emails
        PROVE  /\ hitsLeft'[e] \in 0 .. LockTTL /\ lockLeft'[e] \in 0 .. LockTTL
               /\ hits'[e] \in Nat
               /\ hits'[e] > 0 => hitsLeft'[e] > 0
               /\ hits'[e] >= MaxAttempts => hitsLeft'[e] > 0 /\ lockLeft'[e] >= hitsLeft'[e]
    <3>1. hits[e] \in Nat /\ hitsLeft[e] \in 0 .. LockTTL /\ lockLeft[e] \in 0 .. LockTTL
      BY DEF CountOK
    <3> QED BY <2>1, <3>1 DEF Less, LockOutlivesCount
  <2>3. CountOK'
    BY <1>2, <2>2 DEF Tick, CountOK
  <2> QED BY <2>2, <2>3 DEF CountIsTimed, LockOutlivesCount
<1>3. ASSUME NEW x \in Emails, CountGuess(x) PROVE CountOK' /\ CountIsTimed' /\ LockOutlivesCount'
  <2>1. hits[x] \in Nat /\ hitsLeft[x] \in 0 .. LockTTL /\ lockLeft[x] \in 0 .. LockTTL
    BY DEF CountOK
  <2>2. /\ hits'[x] = hits[x] + 1
        /\ hitsLeft'[x] = IF hits[x] = 0 THEN LockTTL ELSE hitsLeft[x]
        /\ lockLeft'[x] = IF hits[x] + 1 >= MaxAttempts THEN LockTTL ELSE lockLeft[x]
    BY <1>3 DEF CountGuess, CountOK
  <2>3. CountOK'
    BY <1>3, <2>1, <2>2 DEF CountGuess, CountOK
  <2>4. ASSUME NEW e \in Emails
        PROVE  /\ hits'[e] > 0 => hitsLeft'[e] > 0
               /\ hits'[e] >= MaxAttempts => hitsLeft'[e] > 0 /\ lockLeft'[e] >= hitsLeft'[e]
    <3>1. CASE e = x
      BY <2>1, <2>2, <3>1 DEF CountIsTimed
    <3>2. CASE e # x
      BY <1>3, <3>2 DEF CountGuess, CountOK, CountIsTimed, LockOutlivesCount
    <3> QED BY <3>1, <3>2
  <2> QED BY <2>3, <2>4 DEF CountIsTimed, LockOutlivesCount
<1> QED BY <1>1, <1>2, <1>3

-----------------------------------------------------------------------------
(* The rows, what they created, and who proved what.                       *)
RowsOK ==
  /\ ChOK /\ created \in [Challenges -> Nat]
  /\ trust \in [Browsers \X Emails -> 0 .. TrustTTL] /\ typed \subseteq Browsers \X Emails
RowsInv ==
  /\ RowsOK /\ LiveHasPayload /\ CreatedIsFinal /\ TrustIsTyped
  /\ CreatedAtMostOnce /\ VerifiedByMailboxOwner

(* Three statements about one challenge each.                              *)
HasPayload(c) ==
  ch[c].row = "live" /\ ch[c].ttl > 0 /\ ~ ch[c].finalized
    => ch[c].payload \in Payloads /\ ch[c].owner \in Browsers
CreatedOne(c) ==
  /\ created[c] <= 1
  /\ created[c] # 0 => \/ ch[c].row = "live" /\ ch[c].finalized
                       \/ ch[c].row = "pruned"
OwnerTyped(c) ==
  ch[c].verified /\ ch[c].payload # NoPayload => <<ch[c].owner, EmailAt(c)>> \in typed
Sound(c) == HasPayload(c) /\ CreatedOne(c) /\ OwnerTyped(c)

LEMMA SoundNext ==
  (\A c \in Challenges : Sound(c)')
    => (LiveHasPayload /\ CreatedIsFinal /\ CreatedAtMostOnce /\ VerifiedByMailboxOwner)'
BY DEF Sound, HasPayload, CreatedOne, OwnerTyped, LiveHasPayload, CreatedIsFinal,
       CreatedAtMostOnce, VerifiedByMailboxOwner

LEMMA SoundRows ==
  (\A c \in Challenges : Sound(c))
    <=> LiveHasPayload /\ CreatedIsFinal /\ CreatedAtMostOnce /\ VerifiedByMailboxOwner
BY DEF Sound, HasPayload, CreatedOne, OwnerTyped, LiveHasPayload, CreatedIsFinal,
       CreatedAtMostOnce, VerifiedByMailboxOwner

(* A step that leaves a challenge alone, or only lets it age.              *)
LEMMA SoundKept ==
  ASSUME NEW c \in Challenges, Sound(c),
         created'[c] = created[c], typed \subseteq typed',
         ch'[c].row = ch[c].row, ch'[c].ttl > 0 => ch[c].ttl > 0,
         ch'[c].finalized = ch[c].finalized,
         ch'[c].payload = ch[c].payload, ch'[c].owner = ch[c].owner,
         ch'[c].verified = ch[c].verified
  PROVE  Sound(c)'
BY DEF Sound, HasPayload, CreatedOne, OwnerTyped, EmailAt

(* An operation that changes one challenge, and creates nothing.           *)
LEMMA OneRowKeeps ==
  ASSUME RowsInv, NEW c \in Challenges, ChOK', Others(c), Sound(c)',
         UNCHANGED <<trust, typed>>, created' \in [Challenges -> Nat],
         \A d \in Challenges \ {c} : created'[d] = created[d]
  PROVE  RowsInv'
<1>1. ASSUME NEW d \in Challenges PROVE Sound(d)'
  <2>1. CASE d = c
    BY <2>1
  <2>2. CASE d # c
    BY <2>2, SoundRows, SoundKept DEF RowsInv, Others
  <2> QED BY <2>1, <2>2
<1>2. TrustIsTyped' /\ RowsOK'
  BY DEF RowsInv, RowsOK, TrustIsTyped
<1> QED BY <1>1, <1>2, SoundNext DEF RowsInv

LEMMA BeginKeeps ==
  ASSUME RowsInv, NEW b \in Browsers, NEW p \in Payloads, Begin(b, p)
  PROVE  RowsInv'
<1>1. PICK c \in Challenges :
        /\ ch[c].row = "none" /\ ch'[c] = NewRow(b, p)
        /\ \/ Others(c)
           \/ \E old \in Challenges \ {c} :
                /\ ch'[old] = Replaced(ch[old])
                /\ \A d \in Challenges \ {c, old} : ch'[d] = ch[d]
  BY BeginRows DEF RowsInv, RowsOK
<1>2. ChOK' /\ UNCHANGED <<trust, typed, created>>
  BY BeginRows DEF RowsInv, RowsOK, Begin
<1>3. Sound(c)'
  <2>1. created[c] = 0
    BY <1>1 DEF RowsInv, CreatedIsFinal
  <2>2. ~ ch'[c].verified /\ ch'[c].payload = p /\ ch'[c].owner = b
    BY <1>1, NewRowTyped
  <2> QED BY <1>2, <2>1, <2>2 DEF Sound, HasPayload, CreatedOne, OwnerTyped
<1>4. ASSUME NEW old \in Challenges, ch'[old] = Replaced(ch[old]) PROVE Sound(old)'
  <2>1. CASE Replaced(ch[old]) = ch[old]
    BY <1>2, <1>4, <2>1, SoundRows, SoundKept DEF RowsInv
  <2>2. CASE ch[old].row = "live" /\ ~ ch[old].finalized
    <3>1. ch'[old] = [ch[old] EXCEPT !.ttl = 0, !.payload = NoPayload, !.code = FALSE]
      BY <1>4, <2>2 DEF Replaced
    <3>2. ch[old] \in Row
      BY DEF RowsInv, RowsOK, ChOK
    <3>3. ch'[old].ttl = 0 /\ ch'[old].payload = NoPayload
      BY <3>1, <3>2 DEF Row
    <3>4. created[old] = 0
      BY <2>2 DEF RowsInv, CreatedIsFinal
    <3> QED BY <1>2, <3>3, <3>4 DEF Sound, HasPayload, CreatedOne, OwnerTyped
  <2> QED BY <2>1, <2>2 DEF Replaced
<1>5. ASSUME NEW d \in Challenges PROVE Sound(d)'
  <2>1. CASE ch'[d] = ch[d]
    BY <1>2, <2>1, SoundRows, SoundKept DEF RowsInv
  <2> QED BY <1>1, <1>3, <1>4, <2>1 DEF Others
<1>6. TrustIsTyped' /\ RowsOK'
  BY <1>2 DEF RowsInv, RowsOK, TrustIsTyped
<1> QED BY <1>5, <1>6, SoundNext DEF RowsInv

(* Choosing a channel, sending or skipping a code, a wrong guess, an       *)
(* acknowledgement: no registration is created and nobody becomes trusted. *)
LEMMA QuietKeeps ==
  ASSUME RowsInv, NEW c \in Challenges,
         chooseChannel(c) \/ SkipCode(c) \/ SendCode(c) \/ VerifyWrong(c) \/ acknowledgeCode(c)
  PROVE  RowsInv'
<1>1. UNCHANGED <<trust, typed, created>>
  BY DEF chooseChannel, SkipCode, SendCode, VerifyWrong, acknowledgeCode
<1>2. ChOK /\ ch[c] \in Row
  BY DEF RowsInv, RowsOK, ChOK
<1>3. ChOK' /\ Others(c)
  BY <1>2, ChooseRow, SkipRow, SendRow, WrongRow, AckRow
<1>4. Sound(c)
  BY SoundRows DEF RowsInv
<1>5. /\ ch'[c].row = ch[c].row /\ ch'[c].ttl = ch[c].ttl
      /\ ch'[c].finalized = ch[c].finalized
      /\ ch'[c].payload = ch[c].payload /\ ch'[c].owner = ch[c].owner
      /\ ch'[c].verified = ch[c].verified \/ SkipCode(c)
  <2>1. CASE chooseChannel(c)
    BY <1>2, <2>1, ChooseRow DEF Row
  <2>2. CASE SkipCode(c)
    BY <1>2, <2>2, SkipRow DEF Row
  <2>3. CASE SendCode(c)
    BY <1>2, <2>3, SendRow DEF Row
  <2>4. CASE VerifyWrong(c)
    BY <1>2, <2>4, WrongRow DEF Row
  <2>5. CASE acknowledgeCode(c)
    BY <1>2, <2>5, AckRow DEF Row
  <2> QED BY <2>1, <2>2, <2>3, <2>4, <2>5
<1>6. Sound(c)'
  <2>1. CASE ch'[c].verified = ch[c].verified
    BY <1>1, <1>4, <1>5, <2>1, SoundKept
  <2>2. CASE SkipCode(c)
    <3>1. ch[c].owner \in Browsers /\ EmailAt(c) \in Emails
      BY <1>2, <2>2, PendingEmail DEF RowsInv, SkipCode
    <3>2. trust[<<ch[c].owner, EmailAt(c)>>] > 0
      BY <2>2 DEF SkipCode, Trusted, hasEmailDeviceTrust, EmailAt
    <3>3. <<ch[c].owner, EmailAt(c)>> \in typed
      BY <3>1, <3>2 DEF RowsInv, TrustIsTyped
    <3> QED BY <1>1, <1>4, <1>5, <3>3 DEF Sound, HasPayload, CreatedOne, OwnerTyped, EmailAt
  <2> QED BY <1>5, <2>1, <2>2
<1> QED BY <1>1, <1>3, <1>6, OneRowKeeps DEF RowsInv, RowsOK

(* The right code: who typed it is on record with the trust it earns.      *)
LEMMA RightKeeps ==
  ASSUME RowsInv, NEW c \in Challenges, VerifyRight(c)
  PROVE  RowsInv'
<1>1. PICK be : be = <<ch[c].owner, EmailAt(c)>>
  OBVIOUS
<1>2. ChOK /\ ch[c] \in Row
  BY DEF RowsInv, RowsOK, ChOK
<1>3. be \in Browsers \X Emails
  BY <1>1, <1>2, PendingEmail DEF RowsInv, VerifyRight, Comparable
<1>4. /\ trust' = [trust EXCEPT ![be] = TrustTTL] /\ typed' = typed \cup {be}
      /\ UNCHANGED created
  BY <1>1 DEF VerifyRight, EmailAt
<1>5. ChOK' /\ Others(c)
      /\ ch'[c] = [ch[c] EXCEPT !.verified = TRUE, !.code = FALSE, !.codeLeft = 0]
  BY <1>2, RightRow
<1>6. /\ ch'[c].row = ch[c].row /\ ch'[c].ttl = ch[c].ttl
      /\ ch'[c].finalized = ch[c].finalized
      /\ ch'[c].payload = ch[c].payload /\ ch'[c].owner = ch[c].owner
  BY <1>2, <1>5 DEF Row
<1>7. ASSUME NEW d \in Challenges PROVE Sound(d)'
  <2>1. Sound(d)
    BY SoundRows DEF RowsInv
  <2>2. CASE d = c
    <3>1. EmailAt(c)' = EmailAt(c)
      BY <1>6 DEF EmailAt
    <3> QED
      BY <1>1, <1>4, <1>6, <2>1, <2>2, <3>1 DEF Sound, HasPayload, CreatedOne, OwnerTyped
  <2>3. CASE d # c
    BY <1>4, <1>5, <2>1, <2>3, SoundKept DEF Others
  <2> QED BY <2>2, <2>3
<1>8. TrustIsTyped'
  BY <1>3, <1>4 DEF RowsInv, RowsOK, TrustIsTyped
<1>9. RowsOK'
  <2>1. TrustTTL \in 0 .. TrustTTL
    BY Durations
  <2> QED BY <1>3, <1>4, <1>5, <2>1 DEF RowsInv, RowsOK
<1> QED BY <1>7, <1>8, <1>9, SoundNext DEF RowsInv

(* Completion: what creates a registration is no longer pending.           *)
LEMMA FinalizeKeeps ==
  ASSUME RowsInv, NEW c \in Challenges, finalize(c)
  PROVE  RowsInv'
<1>1. ChOK /\ ch[c] \in Row
  BY DEF RowsInv, RowsOK, ChOK
<1>2. ch[c].row = "live" /\ ~ ch[c].finalized
  BY <1>1, PendingRow DEF finalize
<1>3. created[c] = 0
  BY <1>2 DEF RowsInv, CreatedIsFinal
<1>4. /\ ChOK' /\ Others(c)
      /\ ch'[c].row = "live" /\ ch'[c].finalized /\ ch'[c].payload = NoPayload
  BY <1>1, <1>2, FinalizeRow DEF Row
<1>5. UNCHANGED <<trust, typed>> /\ (UNCHANGED created \/ created' = [created EXCEPT ![c] = @ + 1])
  BY DEF finalize
<1>6. /\ created' \in [Challenges -> Nat] /\ created'[c] \in {0, 1}
      /\ \A d \in Challenges \ {c} : created'[d] = created[d]
  BY <1>3, <1>5 DEF RowsInv, RowsOK
<1>7. Sound(c)'
  BY <1>4, <1>6 DEF Sound, HasPayload, CreatedOne, OwnerTyped
<1> QED BY <1>4, <1>5, <1>6, <1>7, OneRowKeeps

(* Expired rows are deleted, and everything gets older.                    *)
LEMMA TimeKeeps ==
  ASSUME RowsInv, Prune \/ Tick
  PROVE  RowsInv'
<1> USE Durations
<1>1. ChOK
  BY DEF RowsInv, RowsOK
<1>2. CASE Prune
  <2>1. UNCHANGED <<trust, typed, created>>
    BY <1>2 DEF Prune
  <2>2. ASSUME NEW c \in Challenges PROVE Sound(c)'
    <3>1. CASE ch'[c] = ch[c]
      BY <2>1, <3>1, SoundRows, SoundKept DEF RowsInv
    <3>2. CASE ch'[c] = [NoRow EXCEPT !.row = "pruned"]
      <4>1. ch'[c].row = "pruned" /\ ~ ch'[c].verified
        BY <3>2 DEF NoRow
      <4>2. created[c] <= 1
        BY DEF RowsInv, CreatedAtMostOnce
      <4> QED BY <2>1, <4>1, <4>2 DEF Sound, HasPayload, CreatedOne, OwnerTyped
    <3> QED BY <1>1, <1>2, <3>1, <3>2, PruneRows
  <2>3. TrustIsTyped' /\ RowsOK'
    BY <1>1, <1>2, <2>1, PruneRows DEF RowsInv, RowsOK, TrustIsTyped
  <2> QED BY <2>2, <2>3, SoundNext DEF RowsInv
<1>3. CASE Tick
  <2>1. UNCHANGED <<typed, created>> /\ trust' = [be \in Browsers \X Emails |-> Less(trust[be])]
    BY <1>3 DEF Tick
  <2>2. ASSUME NEW c \in Challenges PROVE Sound(c)'
    <3>1. ch'[c] = [ch[c] EXCEPT !.ttl = Less(@), !.codeLeft = Less(@), !.cooldown = Less(@)]
      BY <1>1, <1>3, TickRows
    <3>2. ch[c] \in Row
      BY <1>1 DEF ChOK
    <3>3. /\ ch'[c].row = ch[c].row /\ ch'[c].ttl = Less(ch[c].ttl)
          /\ ch'[c].finalized = ch[c].finalized
          /\ ch'[c].payload = ch[c].payload /\ ch'[c].owner = ch[c].owner
          /\ ch'[c].verified = ch[c].verified
      BY <3>1, <3>2 DEF Row
    <3>4. ch[c].ttl \in Nat
      BY <3>2 DEF Row
    <3>5. ch'[c].ttl > 0 => ch[c].ttl > 0
      BY <3>3, <3>4 DEF Less
    <3> QED BY <2>1, <3>3, <3>5, SoundRows, SoundKept DEF RowsInv
  <2>3. ASSUME NEW be \in Browsers \X Emails
        PROVE  trust'[be] \in 0 .. TrustTTL /\ (trust'[be] > 0 => be \in typed')
    <3>1. trust[be] \in 0 .. TrustTTL /\ trust'[be] = Less(trust[be])
      BY <2>1 DEF RowsInv, RowsOK
    <3>2. trust'[be] > 0 => trust[be] > 0
      BY <3>1 DEF Less
    <3>3. trust'[be] \in 0 .. TrustTTL
      BY <3>1 DEF Less
    <3> QED BY <2>1, <3>2, <3>3 DEF RowsInv, TrustIsTyped
  <2>4. TrustIsTyped'
    BY <2>3 DEF TrustIsTyped
  <2>5. RowsOK'
    BY <1>1, <1>3, <2>1, <2>3, TickRows DEF RowsInv, RowsOK
  <2> QED BY <2>2, <2>4, <2>5, SoundNext DEF RowsInv
<1> QED BY <1>2, <1>3

(* The rest of the system touches none of it.                              *)
LEMMA RestKeeps ==
  ASSUME RowsInv, UNCHANGED <<ch, trust, created, typed>>
  PROVE  RowsInv'
<1>1. ASSUME NEW c \in Challenges PROVE Sound(c)'
  BY SoundRows, SoundKept DEF RowsInv
<1>2. TrustIsTyped' /\ RowsOK'
  BY DEF RowsInv, RowsOK, ChOK, TrustIsTyped
<1> QED BY <1>1, <1>2, SoundNext DEF RowsInv

-----------------------------------------------------------------------------
LEMMA RowsStep ==
  ASSUME RowsInv, [Next]_vars
  PROVE  RowsInv'
<1>1. ASSUME NEW b \in Browsers, NEW p \in Payloads, Begin(b, p) PROVE RowsInv'
  BY <1>1, BeginKeeps
<1>2. ASSUME NEW c \in Challenges,
             \/ chooseChannel(c) \/ SkipCode(c) \/ SendCode(c) \/ VerifyWrong(c)
             \/ acknowledgeCode(c)
      PROVE  RowsInv'
  BY <1>2, QuietKeeps
<1>3. ASSUME NEW c \in Challenges, VerifyRight(c) PROVE RowsInv'
  BY <1>3, RightKeeps
<1>4. ASSUME NEW c \in Challenges, finalize(c) PROVE RowsInv'
  BY <1>4, FinalizeKeeps
<1>5. CASE Prune \/ Tick
  BY <1>5, TimeKeeps
<1>6. (\E e \in Emails : GuessElsewhere(e)) \/ EventMoves \/ StaffMoves \/ UNCHANGED vars
        => UNCHANGED <<ch, trust, created, typed>>
  BY DEF GuessElsewhere, EventMoves, StaffMoves, vars
<1> QED BY <1>1, <1>2, <1>3, <1>4, <1>5, <1>6, RestKeeps DEF Next

(* The event, its form and the registrations keep their types.             *)
EventOK ==
  /\ gate \in {"open", "finishing", "closed"} /\ form \in Forms
  /\ reg \in [Payloads -> {"none", "active", "inactive"}]

LEMMA EventStep ==
  ASSUME EventOK, ChOK, LiveHasPayload, [Next]_vars
  PROVE  EventOK'
<1>1. ASSUME NEW c \in Challenges, finalize(c) PROVE EventOK'
  <2>1. ch[c].payload \in Payloads
    BY <1>1, PendingEmail DEF finalize
  <2> QED BY <1>1, <2>1 DEF finalize, EventOK, eventVars
<1>2. EventMoves \/ StaffMoves => EventOK'
  BY DEF EventMoves, StaffMoves, EventOK, eventVars
<1>3. ASSUME NEW b \in Browsers, NEW p \in Payloads, Begin(b, p) PROVE EventOK'
  BY <1>3 DEF Begin, EventOK, eventVars
<1>4. ASSUME NEW c \in Challenges,
             \/ chooseChannel(c) \/ SkipCode(c) \/ SendCode(c) \/ VerifyRight(c)
             \/ VerifyWrong(c) \/ acknowledgeCode(c)
      PROVE  EventOK'
  BY <1>4 DEF chooseChannel, SkipCode, SendCode, VerifyRight, VerifyWrong, acknowledgeCode,
              EventOK, eventVars
<1>5. (\E e \in Emails : GuessElsewhere(e)) \/ Prune \/ Tick \/ UNCHANGED vars => EventOK'
  BY DEF GuessElsewhere, Prune, Tick, vars, EventOK, eventVars
<1> QED BY <1>1, <1>2, <1>3, <1>4, <1>5 DEF Next

LEMMA IInvParts ==
  IInv <=> EventOK /\ RowsInv /\ CountOK /\ CountIsTimed /\ LockOutlivesCount
BY DEF IInv, TypeOK, EventOK, RowsInv, RowsOK, ChOK, CountOK

LEMMA InitIInv == Init => IInv
<1> SUFFICES ASSUME Init PROVE IInv
  OBVIOUS
<1> USE Durations
<1>1. PICK p \in Payloads :
        ch = [c \in Challenges |-> IF c \in Legacy THEN LegacyRow(LegacyOwner, p) ELSE NoRow]
  BY DEF Init
<1>2. NewRow(LegacyOwner, p) \in Row
  BY NewRowTyped, VerificationAssumption
<1>3. /\ LegacyRow(LegacyOwner, p) \in Row /\ ~ LegacyRow(LegacyOwner, p).verified
      /\ LegacyRow(LegacyOwner, p).payload = p
      /\ LegacyRow(LegacyOwner, p).owner = LegacyOwner
  BY <1>2, NewRowTyped, VerificationAssumption DEF LegacyRow, Row
<1>4. NoRow \in Row /\ ~ NoRow.verified /\ NoRow.row = "none"
  BY NoRowTyped DEF NoRow
<1>5. ASSUME NEW c \in Challenges PROVE ch[c] \in Row /\ Sound(c)
  BY <1>1, <1>3, <1>4, VerificationAssumption
     DEF Init, Sound, HasPayload, CreatedOne, OwnerTyped
<1>6. RowsInv
  <2>1. ChOK
    BY <1>1, <1>5 DEF ChOK
  <2>2. RowsOK /\ TrustIsTyped
    BY <2>1 DEF Init, RowsOK, TrustIsTyped
  <2> QED BY <1>5, <2>2, SoundRows DEF RowsInv
<1>7. EventOK /\ CountOK /\ CountIsTimed /\ LockOutlivesCount
  BY DEF Init, EventOK, CountOK, CountIsTimed, LockOutlivesCount
<1> QED BY <1>6, <1>7, IInvParts

LEMMA StepIInv == IInv /\ [Next]_vars => IInv'
<1> SUFFICES ASSUME IInv, [Next]_vars PROVE IInv'
  OBVIOUS
<1>1. EventOK /\ RowsInv /\ CountOK /\ CountIsTimed /\ LockOutlivesCount
  BY IInvParts
<1>2. ChOK /\ LiveHasPayload
  BY <1>1 DEF RowsInv, RowsOK
<1>3. RowsInv' /\ EventOK'
  BY <1>1, <1>2, RowsStep, EventStep
<1>4. CountOK' /\ CountIsTimed' /\ LockOutlivesCount'
  BY <1>1, <1>2, CacheStep, CountKeeps
<1>5. (EventOK /\ RowsInv /\ CountOK /\ CountIsTimed /\ LockOutlivesCount => IInv)'
  BY DEF IInv, TypeOK, EventOK, RowsInv, RowsOK, ChOK, CountOK
<1> QED BY <1>3, <1>4, <1>5

LEMMA Invariance == Spec => []IInv
BY InitIInv, StepIInv, PTL DEF Spec

(* However many requests come late, twice or after their challenge was     *)
(* replaced: a challenge creates one registration at the most, counts as   *)
(* verified only on a device that typed a code sent to its address, and    *)
(* the lock of an address outlives the count that caused it.               *)
THEOREM ChallengesStayConsistent == Spec => []ChallengesConsistent
<1>1. IInv => ChallengesConsistent
  BY DEF IInv, ChallengesConsistent
<1> QED BY <1>1, Invariance, PTL

-----------------------------------------------------------------------------
(* What a step may do to a challenge, as far as lateness is concerned.     *)
DeadKept(c) ==
  ch[c].row = "live" /\ ch[c].ttl = 0 /\ ch'[c].row = "live"
    => /\ ch'[c].ttl = 0 /\ ch'[c].verified = ch[c].verified
       /\ ch'[c].attempts = ch[c].attempts /\ ch'[c].ack = ch[c].ack
       /\ ch'[c].finalized = ch[c].finalized
       /\ created'[c] = created[c]
NoNewCode(c) == ch[c].cooldown > 0 /\ ~ ch[c].code => ~ ch'[c].code
FreelyVerified(c) ==
  ~ ch[c].verified /\ ch'[c].verified
    => /\ ~ emailLocked(c)
       /\ \/ ch[c].attempts < MaxAttempts
          \/ hasEmailDeviceTrust(ch[c].owner, EmailAt(c))
Timely(c) == DeadKept(c) /\ NoNewCode(c) /\ FreelyVerified(c)

LEMMA TimelySame ==
  ASSUME NEW c \in Challenges, ch'[c] = ch[c], created'[c] = created[c]
  PROVE  Timely(c)
BY DEF Timely, DeadKept, NoNewCode, FreelyVerified

(* An operation on one challenge, which asks first whether it is alive.    *)
LEMMA TimelyOperation ==
  ASSUME RowsInv, NEW c \in Challenges,
         \/ chooseChannel(c) \/ SkipCode(c) \/ SendCode(c) \/ VerifyRight(c)
         \/ VerifyWrong(c) \/ finalize(c) \/ acknowledgeCode(c)
  PROVE  \A d \in Challenges : Timely(d)
<1>1. ChOK /\ ch[c] \in Row
  BY DEF RowsInv, RowsOK, ChOK
<1>2. Others(c)
  BY <1>1, ChooseRow, SkipRow, SendRow, RightRow, WrongRow, FinalizeRow, AckRow
<1>3. \A d \in Challenges \ {c} : created'[d] = created[d]
  BY DEF chooseChannel, SkipCode, SendCode, VerifyRight, VerifyWrong, finalize,
         acknowledgeCode, RowsInv, RowsOK
<1>4. ch[c].ttl # 0
  <2>1. Pending(c) \/ challengeState(c) = "finalized"
    BY DEF chooseChannel, SkipCode, SendCode, VerifyRight, VerifyWrong, Comparable, finalize,
           acknowledgeCode
  <2> QED BY <1>1, <2>1, PendingRow, FinalizedRow
<1>5. NoNewCode(c)
  <2>1. CASE SendCode(c)
    <3>1. ch[c].cooldown = 0
      BY <2>1 DEF SendCode, Issuable
    <3> QED BY <3>1 DEF NoNewCode
  <2>2. CASE chooseChannel(c)
    BY <1>1, <2>2, ChooseRow DEF Row, NoNewCode
  <2>3. CASE SkipCode(c)
    BY <1>1, <2>3, SkipRow DEF Row, NoNewCode
  <2>4. CASE VerifyRight(c)
    BY <1>1, <2>4, RightRow DEF Row, NoNewCode
  <2>5. CASE VerifyWrong(c)
    BY <1>1, <2>5, WrongRow DEF Row, NoNewCode
  <2>6. CASE finalize(c)
    BY <1>1, <2>6, FinalizeRow DEF Row, NoNewCode
  <2>7. CASE acknowledgeCode(c)
    BY <1>1, <2>7, AckRow DEF Row, NoNewCode
  <2> QED BY <2>1, <2>2, <2>3, <2>4, <2>5, <2>6, <2>7
<1>6. FreelyVerified(c)
  <2>1. CASE SendCode(c)
    BY <1>1, <2>1, SendRow DEF Row, FreelyVerified
  <2>2. CASE chooseChannel(c)
    BY <1>1, <2>2, ChooseRow DEF Row, FreelyVerified
  <2>3. CASE SkipCode(c)
    BY <2>3 DEF SkipCode, Trusted, FreelyVerified, EmailAt
  <2>4. CASE VerifyRight(c)
    BY <2>4 DEF VerifyRight, Comparable, FreelyVerified
  <2>5. CASE VerifyWrong(c)
    BY <1>1, <2>5, WrongRow DEF Row, FreelyVerified
  <2>6. CASE finalize(c)
    BY <1>1, <2>6, FinalizeRow DEF Row, FreelyVerified
  <2>7. CASE acknowledgeCode(c)
    BY <1>1, <2>7, AckRow DEF Row, FreelyVerified
  <2> QED BY <2>1, <2>2, <2>3, <2>4, <2>5, <2>6, <2>7
<1>7. Timely(c)
  BY <1>4, <1>5, <1>6 DEF Timely, DeadKept
<1> QED BY <1>2, <1>3, <1>7, TimelySame DEF Others

LEMMA TimelyBegin ==
  ASSUME RowsInv, NEW b \in Browsers, NEW p \in Payloads, Begin(b, p)
  PROVE  \A d \in Challenges : Timely(d)
<1>1. PICK c \in Challenges :
        /\ ch[c].row = "none" /\ ch'[c] = NewRow(b, p)
        /\ \/ Others(c)
           \/ \E old \in Challenges \ {c} :
                /\ ch'[old] = Replaced(ch[old])
                /\ \A d \in Challenges \ {c, old} : ch'[d] = ch[d]
  BY BeginRows DEF RowsInv, RowsOK
<1>2. UNCHANGED created
  BY DEF Begin
<1>3. Timely(c)
  BY <1>1, NewRowTyped DEF Timely, DeadKept, NoNewCode, FreelyVerified
<1>4. ASSUME NEW old \in Challenges, ch'[old] = Replaced(ch[old]) PROVE Timely(old)
  <2>1. CASE Replaced(ch[old]) = ch[old]
    BY <1>2, <1>4, <2>1, TimelySame
  <2>2. CASE Replaced(ch[old]) = [ch[old] EXCEPT !.ttl = 0, !.payload = NoPayload, !.code = FALSE]
    <3>1. ch[old] \in Row
      BY DEF RowsInv, RowsOK, ChOK
    <3>2. /\ ch'[old].ttl = 0 /\ ~ ch'[old].code
          /\ ch'[old].verified = ch[old].verified /\ ch'[old].ack = ch[old].ack
          /\ ch'[old].attempts = ch[old].attempts /\ ch'[old].finalized = ch[old].finalized
      BY <1>4, <2>2, <3>1 DEF Row
    <3> QED BY <1>2, <3>2 DEF Timely, DeadKept, NoNewCode, FreelyVerified
  <2> QED BY <2>1, <2>2 DEF Replaced
<1> QED BY <1>1, <1>2, <1>3, <1>4, TimelySame DEF Others

LEMMA TimelyTime ==
  ASSUME RowsInv, Prune \/ Tick
  PROVE  \A d \in Challenges : Timely(d)
<1>1. ChOK
  BY DEF RowsInv, RowsOK
<1>2. UNCHANGED created
  BY DEF Prune, Tick
<1>3. ASSUME NEW d \in Challenges, ch'[d] = [NoRow EXCEPT !.row = "pruned"] PROVE Timely(d)
  <2>1. ch'[d].row = "pruned" /\ ~ ch'[d].code /\ ~ ch'[d].verified
    BY <1>3 DEF NoRow
  <2> QED BY <2>1 DEF Timely, DeadKept, NoNewCode, FreelyVerified
<1>4. ASSUME NEW d \in Challenges,
             ch'[d] = [ch[d] EXCEPT !.ttl = Less(@), !.codeLeft = Less(@), !.cooldown = Less(@)]
      PROVE  Timely(d)
  <2>1. ch[d] \in Row
    BY <1>1 DEF ChOK
  <2>2. /\ ch'[d].ttl = Less(ch[d].ttl) /\ ch'[d].code = ch[d].code
        /\ ch'[d].verified = ch[d].verified /\ ch'[d].ack = ch[d].ack
        /\ ch'[d].attempts = ch[d].attempts /\ ch'[d].finalized = ch[d].finalized
    BY <1>4, <2>1 DEF Row
  <2> QED BY <1>2, <2>2 DEF Timely, DeadKept, NoNewCode, FreelyVerified, Less
<1> QED BY <1>1, <1>2, <1>3, <1>4, PruneRows, TickRows, TimelySame

LEMMA TimelyStep ==
  ASSUME IInv, [Next]_vars
  PROVE  \A d \in Challenges : Timely(d)
<1>1. RowsInv
  BY IInvParts
<1>2. (\E e \in Emails : GuessElsewhere(e)) \/ EventMoves \/ StaffMoves \/ UNCHANGED vars
        => UNCHANGED <<ch, created>>
  BY DEF GuessElsewhere, EventMoves, StaffMoves, vars
<1> QED
  BY <1>1, <1>2, TimelySame, TimelyOperation, TimelyBegin, TimelyTime DEF Next

(* No request, however late, verifies, completes or acknowledges an        *)
(* expired challenge or counts a guess on it, proves an address that is    *)
(* locked, or makes a code valid while the cooldown runs.                  *)
THEOREM LateIsRefused == Spec => NothingLate
<1>1. IInv /\ [Next]_vars =>
        [\A c \in Challenges : DeadKept(c)]_vars
  BY TimelyStep DEF Timely
<1>2. IInv /\ [Next]_vars =>
        [\A c \in Challenges : NoNewCode(c)]_vars
  BY TimelyStep DEF Timely
<1>3. IInv /\ [Next]_vars =>
        [\A c \in Challenges : FreelyVerified(c)]_vars
  BY TimelyStep DEF Timely
<1>4. Spec => DeadIsDead
  BY <1>1, Invariance, PTL DEF Spec, DeadIsDead, DeadKept
<1>5. Spec => NoCodeInCooldown
  BY <1>2, Invariance, PTL DEF Spec, NoCodeInCooldown, NoNewCode
<1>6. Spec => LockedStaysUnverified
  BY <1>3, Invariance, PTL DEF Spec, LockedStaysUnverified, FreelyVerified
<1> QED BY <1>4, <1>5, <1>6 DEF NothingLate

-----------------------------------------------------------------------------
(* The refinement: what each row stands for in Enrolment.                  *)
Stages == [c \in Challenges |-> StageOf(ch[c])]

(* The stage of a row is told by whether it was used, expired, completed   *)
(* and verified.                                                           *)
LEMMA StageFacts ==
  ASSUME NEW r \in Row
  PROVE  /\ (r.row = "none") <=> (StageOf(r) = "unused")
         /\ r.row = "live" /\ r.ttl = 0 => StageOf(r) = "gone"
         /\ r.row = "pruned" => StageOf(r) = "gone"
         /\ r.row = "live" /\ r.ttl # 0 =>
              StageOf(r) = IF r.finalized THEN "enrolled"
                           ELSE IF r.verified THEN "proved" ELSE "begun"
BY DEF Row, StageOf

LEMMA SameStage ==
  ASSUME NEW r \in Row, NEW s \in Row, s.row = r.row, s.ttl = r.ttl,
         s.finalized = r.finalized, s.verified = r.verified
  PROVE  StageOf(s) = StageOf(r)
BY DEF Row, StageOf

LEMMA StagesKept ==
  ASSUME \A c \in Challenges : StageOf(ch'[c]) = StageOf(ch[c]), UNCHANGED created
  PROVE  [Promise!Next]_<<Stages, created>>
BY DEF Stages

(* A step of one challenge moves one stage.                                *)
LEMMA StageMoves ==
  ASSUME NEW c \in Challenges, Others(c), NEW to, StageOf(ch'[c]) = to
  PROVE  Stages' = [Stages EXCEPT ![c] = to]
<1>1. \A d \in Challenges : StageOf(ch'[d]) = IF d = c THEN to ELSE StageOf(ch[d])
  BY DEF Others
<1>2. Stages' = [d \in Challenges |-> StageOf(ch'[d])]
  BY DEF Stages
<1>3. [Stages EXCEPT ![c] = to] =
        [d \in Challenges |-> IF d = c THEN to ELSE StageOf(ch[d])]
  BY DEF Stages
<1> QED BY <1>1, <1>2, <1>3

LEMMA InitPromise == Init => Promise!Init
<1> SUFFICES ASSUME Init PROVE Promise!Init
  OBVIOUS
<1>1. PICK p \in Payloads :
        ch = [c \in Challenges |-> IF c \in Legacy THEN LegacyRow(LegacyOwner, p) ELSE NoRow]
  BY DEF Init
<1>2. /\ LegacyRow(LegacyOwner, p).row = "live" /\ LegacyRow(LegacyOwner, p).ttl = ChallengeTTL
      /\ ~ LegacyRow(LegacyOwner, p).finalized /\ ~ LegacyRow(LegacyOwner, p).verified
  BY NewRowTyped, VerificationAssumption DEF LegacyRow, Row
<1>3. StageOf(LegacyRow(LegacyOwner, p)) = "begun"
  BY <1>2, Durations DEF StageOf
<1>4. StageOf(NoRow) = "unused"
  BY DEF NoRow, StageOf
<1>5. \A c \in Challenges : StageOf(ch[c]) \in {"unused", "begun"}
  BY <1>1, <1>3, <1>4
<1> QED BY <1>5 DEF Promise!Init, Init

(* A proof takes a begun challenge on, a completion a proved one; what     *)
(* else is done to a challenge leaves its stage.                           *)
LEMMA OperationPromise ==
  ASSUME RowsInv, NEW c \in Challenges,
         \/ chooseChannel(c) \/ SkipCode(c) \/ SendCode(c) \/ VerifyRight(c)
         \/ VerifyWrong(c) \/ finalize(c) \/ acknowledgeCode(c)
  PROVE  [Promise!Next]_<<Stages, created>>
<1>1. ChOK /\ ch[c] \in Row
  BY DEF RowsInv, RowsOK, ChOK
<1>2. ChOK' /\ Others(c)
  BY <1>1, ChooseRow, SkipRow, SendRow, RightRow, WrongRow, FinalizeRow, AckRow
<1>3. ch'[c] \in Row
  BY <1>2 DEF ChOK
<1>4. CASE chooseChannel(c) \/ SendCode(c) \/ VerifyWrong(c) \/ acknowledgeCode(c)
  <2>1. /\ ch'[c].row = ch[c].row /\ ch'[c].ttl = ch[c].ttl
        /\ ch'[c].finalized = ch[c].finalized /\ ch'[c].verified = ch[c].verified
    <3>1. CASE chooseChannel(c)
      BY <1>1, <3>1, ChooseRow DEF Row
    <3>2. CASE SendCode(c)
      BY <1>1, <3>2, SendRow DEF Row
    <3>3. CASE VerifyWrong(c)
      BY <1>1, <3>3, WrongRow DEF Row
    <3>4. CASE acknowledgeCode(c)
      BY <1>1, <3>4, AckRow DEF Row
    <3> QED BY <1>4, <3>1, <3>2, <3>3, <3>4
  <2>2. StageOf(ch'[c]) = StageOf(ch[c])
    BY <1>1, <1>3, <2>1, SameStage
  <2>3. UNCHANGED created
    BY <1>4 DEF chooseChannel, SendCode, VerifyWrong, acknowledgeCode
  <2> QED BY <1>2, <2>2, <2>3, StagesKept DEF Others
<1>5. CASE SkipCode(c) \/ VerifyRight(c)
  <2>1. ch[c].row = "live" /\ ch[c].ttl > 0 /\ ~ ch[c].finalized /\ ~ ch[c].verified
    BY <1>1, <1>5, PendingRow DEF SkipCode, Trusted, VerifyRight, Comparable
  <2>2. /\ ch'[c].row = ch[c].row /\ ch'[c].ttl = ch[c].ttl
        /\ ch'[c].finalized = ch[c].finalized /\ ch'[c].verified
    BY <1>1, <1>5, SkipRow, RightRow DEF Row
  <2>3. StageOf(ch[c]) = "begun" /\ StageOf(ch'[c]) = "proved"
    BY <1>1, <1>3, <2>1, <2>2, StageFacts
  <2>4. Stages' = [Stages EXCEPT ![c] = "proved"] /\ Stages[c] = "begun"
    <3>1. Stages[c] = StageOf(ch[c])
      BY DEF Stages
    <3> QED BY <1>2, <2>3, <3>1, StageMoves
  <2>5. UNCHANGED created
    BY <1>5 DEF SkipCode, VerifyRight
  <2>6. Promise!Prove(c)
    BY <2>4, <2>5 DEF Promise!Prove, Promise!Move, Stages
  <2> QED BY <2>6 DEF Promise!Next
<1>6. CASE finalize(c)
  <2>1. ch[c].row = "live" /\ ch[c].ttl > 0 /\ ~ ch[c].finalized /\ ch[c].verified
    BY <1>1, <1>6, PendingRow, AllVerifiedRow DEF finalize
  <2>2. ch'[c].row = ch[c].row /\ ch'[c].ttl = ch[c].ttl /\ ch'[c].finalized
    BY <1>1, <1>6, FinalizeRow DEF Row
  <2>3. StageOf(ch[c]) = "proved" /\ StageOf(ch'[c]) = "enrolled"
    BY <1>1, <1>3, <2>1, <2>2, StageFacts
  <2>4. Stages' = [Stages EXCEPT ![c] = "enrolled"] /\ Stages[c] = "proved"
    <3>1. Stages[c] = StageOf(ch[c])
      BY DEF Stages
    <3> QED BY <1>2, <2>3, <3>1, StageMoves
  <2>5. created' \in {created, [created EXCEPT ![c] = @ + 1]}
    BY <1>6 DEF finalize
  <2>6. Promise!Enrol(c)
    BY <2>4, <2>5 DEF Promise!Enrol, Promise!Move, Stages
  <2> QED BY <2>6 DEF Promise!Next
<1> QED BY <1>4, <1>5, <1>6

(* A visitor who begins takes an unused challenge, and may give up one.    *)
LEMMA BeginPromise ==
  ASSUME RowsInv, NEW b \in Browsers, NEW p \in Payloads, Begin(b, p)
  PROVE  [Promise!Next]_<<Stages, created>>
<1>1. ChOK /\ ChOK' /\ UNCHANGED created
  BY BeginRows DEF RowsInv, RowsOK, Begin
<1>2. PICK c \in Challenges :
        /\ ch[c].row = "none" /\ ch'[c] = NewRow(b, p)
        /\ \/ Others(c)
           \/ \E old \in Challenges \ {c} :
                /\ ch'[old] = Replaced(ch[old])
                /\ \A d \in Challenges \ {c, old} : ch'[d] = ch[d]
  BY <1>1, BeginRows
<1>3. StageOf(ch[c]) = "unused"
  BY <1>1, <1>2, StageFacts DEF ChOK
<1>4. StageOf(ch'[c]) = "begun"
  BY <1>2, NewRowTyped, Durations DEF StageOf
<1>5. ASSUME NEW S \in SUBSET (Challenges \ {c}),
             \A d \in S : /\ StageOf(ch[d]) \in {"begun", "proved", "gone"}
                          /\ StageOf(ch'[d]) = "gone",
             \A d \in Challenges \ {c} : d \in S \/ StageOf(ch'[d]) = StageOf(ch[d])
      PROVE  Promise!Begin(c)
  <2>1. Stages[c] = "unused" /\ \A d \in S : Stages[d] \in {"begun", "proved", "gone"}
    BY <1>3, <1>5 DEF Stages
  <2>2. Stages' = [d \in Challenges |-> IF d = c THEN "begun"
                                        ELSE IF d \in S THEN "gone" ELSE Stages[d]]
    BY <1>4, <1>5 DEF Stages
  <2> QED BY <1>1, <2>1, <2>2 DEF Promise!Begin, Stages
<1>6. CASE \A d \in Challenges \ {c} : ch'[d] = ch[d]
  <2>1. PICK S \in SUBSET (Challenges \ {c}) : S = {}
    OBVIOUS
  <2> QED BY <1>5, <1>6, <2>1 DEF Promise!Next
<1>7. ASSUME NEW old \in Challenges \ {c}, ch'[old] = Replaced(ch[old]),
             \A d \in Challenges \ {c, old} : ch'[d] = ch[d]
      PROVE  Promise!Begin(c)
  <2>1. CASE ch'[old] = ch[old]
    <3>1. PICK S \in SUBSET (Challenges \ {c}) : S = {}
      OBVIOUS
    <3> QED BY <1>5, <1>7, <2>1, <3>1
  <2>2. CASE ch[old].row = "live" /\ ~ ch[old].finalized
    <3>1. ch[old] \in Row
      BY <1>1 DEF ChOK
    <3>2. ch'[old] = [ch[old] EXCEPT !.ttl = 0, !.payload = NoPayload, !.code = FALSE]
      BY <1>7, <2>2 DEF Replaced
    <3>3. ch'[old].row = "live" /\ ch'[old].ttl = 0 /\ ch'[old] \in Row
      BY <1>1, <2>2, <3>1, <3>2 DEF Row, ChOK
    <3>4. StageOf(ch'[old]) = "gone"
      BY <3>3, StageFacts
    <3>5. StageOf(ch[old]) \in {"begun", "proved", "gone"}
      BY <2>2, <3>1, StageFacts
    <3>6. PICK S \in SUBSET (Challenges \ {c}) : S = {old}
      OBVIOUS
    <3> QED BY <1>5, <1>7, <3>4, <3>5, <3>6
  <2> QED BY <1>7, <2>1, <2>2 DEF Replaced
<1> QED BY <1>2, <1>6, <1>7 DEF Others, Promise!Next

(* Time puts an end to challenges, and pruning to what has ended.          *)
LEMMA TimePromise ==
  ASSUME RowsInv, Prune \/ Tick
  PROVE  [Promise!Next]_<<Stages, created>>
<1>1. ChOK
  BY DEF RowsInv, RowsOK
<1>2. ChOK' /\ UNCHANGED created
  BY <1>1, PruneRows, TickRows DEF Prune, Tick
<1>3. CASE Prune
  <2>1. ASSUME NEW c \in Challenges PROVE StageOf(ch'[c]) = StageOf(ch[c])
    <3>1. CASE ch'[c] = ch[c]
      BY <3>1
    <3>2. CASE /\ ch[c].row = "live" /\ ch[c].ttl = 0
               /\ ch'[c] = [NoRow EXCEPT !.row = "pruned"]
      <4>1. ch'[c].row = "pruned" /\ ch[c] \in Row /\ ch'[c] \in Row
        BY <1>1, <1>2, <3>2 DEF NoRow, ChOK
      <4> QED BY <3>2, <4>1, StageFacts
    <3> QED BY <1>1, <1>3, <3>1, <3>2, PruneRows
  <2> QED BY <1>2, <2>1, StagesKept
<1>4. CASE Tick
  <2>1. PICK S \in SUBSET Challenges : S = {c \in Challenges : StageOf(ch'[c]) = "gone"}
    OBVIOUS
  <2>2. ASSUME NEW c \in Challenges
        PROVE  /\ c \in S => StageOf(ch[c]) # "unused"
               /\ c \notin S => StageOf(ch'[c]) = StageOf(ch[c])
    <3>1. ch[c] \in Row /\ ch'[c] \in Row
      BY <1>1, <1>2 DEF ChOK
    <3>2. ch'[c] = [ch[c] EXCEPT !.ttl = Less(@), !.codeLeft = Less(@), !.cooldown = Less(@)]
      BY <1>1, <1>4, TickRows
    <3>3. /\ ch'[c].row = ch[c].row /\ ch'[c].finalized = ch[c].finalized
          /\ ch'[c].verified = ch[c].verified /\ ch'[c].ttl = Less(ch[c].ttl)
      BY <3>1, <3>2 DEF Row
    <3>4. ch[c].row \in {"none", "live", "pruned"}
      BY <3>1 DEF Row
    <3>5. ch'[c].ttl # 0 => ch[c].ttl # 0
      BY <3>3 DEF Less
    <3>6. CASE ch[c].row = "none"
      BY <2>1, <3>1, <3>3, <3>6, StageFacts
    <3>7. CASE ch[c].row = "pruned"
      BY <2>1, <3>1, <3>3, <3>7, StageFacts
    <3>8. CASE ch[c].row = "live" /\ ch'[c].ttl = 0
      BY <2>1, <3>1, <3>3, <3>8, StageFacts
    <3>9. CASE ch[c].row = "live" /\ ch'[c].ttl # 0
      BY <2>1, <3>1, <3>3, <3>5, <3>9, StageFacts
    <3> QED BY <3>4, <3>6, <3>7, <3>8, <3>9
  <2>3. \A c \in S : Stages[c] # "unused"
    BY <2>1, <2>2 DEF Stages
  <2>4. Stages' = [c \in Challenges |-> IF c \in S THEN "gone" ELSE Stages[c]]
    BY <2>1, <2>2 DEF Stages
  <2>5. Promise!Expire
    BY <1>2, <2>3, <2>4 DEF Promise!Expire, Stages
  <2> QED BY <2>5 DEF Promise!Next
<1> QED BY <1>3, <1>4

LEMMA StepPromise ==
  ASSUME RowsInv, [Next]_vars
  PROVE  [Promise!Next]_<<Stages, created>>
<1>1. (\E e \in Emails : GuessElsewhere(e)) \/ EventMoves \/ StaffMoves \/ UNCHANGED vars
        => UNCHANGED <<ch, created>>
  BY DEF GuessElsewhere, EventMoves, StaffMoves, vars
<1>2. CASE UNCHANGED <<ch, created>>
  BY <1>2, StagesKept
<1> QED
  BY <1>1, <1>2, OperationPromise, BeginPromise, TimePromise DEF Next

(* The challenges keep the promise of Enrolment: begun, proved, enrolled   *)
(* and gone, in that order, and a registration only with the completion.   *)
THEOREM EnrolmentImplemented == Spec => EnrolmentKept
<1>1. IInv => RowsInv
  BY IInvParts
<1>2. IInv /\ [Next]_vars => [Promise!Next]_(Promise!enrolmentVars)
  BY <1>1, StepPromise DEF Promise!enrolmentVars, Stages
<1> QED
  BY <1>2, InitPromise, Invariance, PTL DEF Spec, EnrolmentKept, Promise!Spec
=============================================================================
