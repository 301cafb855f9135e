\* Two requests, any operations, and the release of a held registration.
SPECIFICATION Spec
CONSTANTS
  Requests = {r1, r2}
  Regs = {x1, x2, x3}
  FromForm = {x1}
  Held = {x2}
  EventKinds = {"running", "church"}
  Kinds = {"mark", "bulkMark", "walkIn", "bulkWalkIn", "remove", "finalize"}
  BulkIds = {x1, x2}
  MaxRequests = 5
INVARIANTS SheetConsistent
PROPERTIES RecordKept
SYMMETRY Symmetry
CHECK_DEADLOCK FALSE
