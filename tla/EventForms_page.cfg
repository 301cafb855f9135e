CONSTANTS
  MinDuration = 1
  MaxPartners = 2
  MaxDistance = 2
  MaxAhead = 2
  StartTime = 48
  MaxTime = 49
  MaxEdits = 1
  MaxLate = 1
  MaxRows = 1
  Partners <- MCPartners
  Values <- MCValues
  Pages <- MCPages
  Stored <- MCStored
  Days <- MCDays
  Lo <- MCLo
  Hi = 3
  Today = 5
  LastDay = 6
  MonthDays = 2
  YearMonths = 2
  PageYears = 1
  MaxPage = 1
  Legacy <- MCLegacy
  Wholes <- MCWholes
  Decimals <- MCDecimals
SPECIFICATION FormSpec
INVARIANTS WizardConsistent ClientNotStricter FieldConsistent DriftBounded
PROPERTIES RejectionShown CheckpointKept AcceptedLeavesNoDraft ChoicesRespected
CHECK_DEADLOCK FALSE
