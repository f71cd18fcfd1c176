SPECIFICATION Spec
CONSTANTS
  Width = 4
  PartSize = 4
  MaxRoutes = 5
  Blank = Blank
  Empty = Empty
  NotWritten = NotWritten
  Tables <- MCTables
  Wanted <- MCWanted
INVARIANT AgreesWithKernel
CHECK_DEADLOCK FALSE
