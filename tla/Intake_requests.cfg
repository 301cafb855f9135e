\* All intakes, two requests at a time.
SPECIFICATION Spec
CONSTANTS
  Requests = {r1, r2}
  Events = {v1, v2}
  Occurrences = {o1, o2}
  Emails = {e1}
  Phones = {f1}
  Birthdays = {}
  Kinds = {"form", "desk", "batch", "service", "edit"}
  MaxRequests = 3
  MaxRows = 2
  NONE = NONE
INVARIANTS IntakeConsistent
PROPERTIES CorrectionKeepsApart
SYMMETRY Symmetry
CHECK_DEADLOCK FALSE
