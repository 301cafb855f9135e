CONSTANTS
  Cooldown = 1
  CodeLife = 1
  MaxTries = 1
  Skews <- MCSkews
  People <- MCPeople
  Setups <- MCSetups
  Values <- MCValues
SPECIFICATION DeviceSpec
INVARIANTS RulesMirror ConfirmedLeavesNothing DeviceConsistent
PROPERTIES ConsentGivenHere RejectionShown SendsPaced
CHECK_DEADLOCK FALSE
