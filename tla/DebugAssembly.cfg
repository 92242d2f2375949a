SPECIFICATION DebugSpec
CONSTANTS
  Size = 7
  Type <- Types
  Address <- Addresses
  SearchTables <- Searched
  Tables <- Programs
  Sample <- OneTable
  Named <- AllNamed
  SearchType <- Sought
INVARIANTS
  AssemblyLine
