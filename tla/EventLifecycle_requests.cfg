\* A running or a church event under two requests, with every interleaving.
CONSTANTS
  FinalizeDelay = 1
  Requests = {r1, r2}
  Kinds = {"running", "church"}
  MaxTime = 3
  MaxForm = 2
SPECIFICATION FairSpec
INVARIANTS RowConsistent
PROPERTIES FormFrozenOncePublished LinkKept WorkflowFollowed StartsWhenVisited
