\* Two requests of one user, for a deletion code or a login code.
SPECIFICATION Spec
CONSTANTS
  Requests = {r1, r2}
  Services = {"EventDeletion", "TwoFactor"}
  CodeTTL = 2
  Cooldown = 1
  MaxAttempts = 2
  MaxCodes = 2
  MaxNow = 5
  MaxGuesses = 3
INVARIANTS CodeConsistent
PROPERTIES NoLateVerify
SYMMETRY Symmetry
CHECK_DEADLOCK FALSE
