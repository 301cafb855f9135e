CONSTANTS
  Names <- MCNames
  Registered <- MCRegistered
  IsAdmin = TRUE
  MaxRegs = 2
  MaxGestures = 5
  Persons <- MCPersons
  MaxRows = 2
SPECIFICATION PagesSpec
INVARIANTS ListsSound RowsOfCode NamesOffered
PROPERTIES CheckInConfirmed
CHECK_DEADLOCK FALSE
