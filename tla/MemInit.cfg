SPECIFICATION SetupSpec
CONSTANTS
  NoPte = NoPte
  Page <- AllPages
  Idx <- AllIdx
  UIdx <- UserIdx
  Perm <- AllPerms
  TablePerm <- UserWrite
  RefMax = 3
  NPT = 9
  IoPage = 4
  ExtPage = 5
  KernEnd = 6
  StackPage = 5
  PagesSize = 1
  EnvsSize = 1
  LowEnd = 14
  UENVS = 2
  UPAGES = 3
  UVPT = 4
  ULIM = 5
  KSTACK = 6
  KERNBASE = 7
  Machines <- AllMachines
INVARIANTS
  ListExact
  DirectoryRight
  ChecksPass
PROPERTY
  OnlyLow
