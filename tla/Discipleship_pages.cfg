CONSTANTS
  Participants <- MCParticipants
  Mountings <- MCMountings
  MaxBatches = 2
  MaxSessions = 2
  MaxGestures = 4
SPECIFICATION Spec
INVARIANTS ShownIsMeant NoDangling
PROPERTIES OnlyChangedWritten
CHECK_DEADLOCK FALSE
