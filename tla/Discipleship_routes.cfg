CONSTANTS
  Participants <- MCParticipants
  Mountings <- MCRoutes
  MaxBatches = 2
  MaxSessions = 2
  MaxGestures = 4
SPECIFICATION Spec
PROPERTIES SaveReachesServer
CHECK_DEADLOCK FALSE
