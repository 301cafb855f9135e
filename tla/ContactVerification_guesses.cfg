\* Two browsers, two challenges for one address of an email-only event, one of
\* them from before the channel was chosen.
CONSTANTS
  b1 = b1
  b2 = b2
  c1 = c1
  c2 = c2
  p1 = p1
  e1 = e1
  NoPayload = NoPayload
  Nobody = Nobody
  Browsers = {b1, b2}
  Challenges = {c1, c2}
  Payloads = {p1}
  Emails = {e1}
  EmailOf <- OneAddress
  Legacy = {c1}
  LegacyOwner = b1
  Forms = {"emailOnly", "both"}
  ChallengeTTL = 2
  CodeTTL = 1
  Cooldown = 1
  TrustTTL = 1
  LockTTL = 2
  MaxAttempts = 2
  MaxHits = 2
  MaxCreated = 2
SPECIFICATION FairSpec
INVARIANTS ChallengesConsistent
PROPERTIES NothingLate EnrolmentKept PayloadErased
