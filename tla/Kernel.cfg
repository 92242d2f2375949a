SPECIFICATION FairKernel
CONSTANTS
  kd = kd
  kt = kt
  p1 = p1
  p2 = p2
  p3 = p3
  p4 = p4
  p5 = p5
  p6 = p6
  p7 = p7
  e1 = e1
  e2 = e2
  ur = ur
  uw = uw
  NoPte = NoPte
  NoPage = NoPage
  NoEnv = NoEnv
  KernDir = kd
  KernTable = kt
  Page <- SevenPages
  PageOrder <- SevenInOrder
  Slot <- TwoSlots
  SlotOrder <- SlotsInOrder
  Idx <- AllIdx
  UIdx <- UserIdx
  UVX = 2
  Perm <- Perms
  TablePerm = uw
  UserRead = ur
  UserWrite = uw
  RefMax = 3
  GenMax = 3
  MaxPast = 1
  Binary <- AllBinaries
  StackVA <- Stack1
  Data <- DataPage
  Slot0 = e1
  Area <- Areas
  MaxDepth = 2
INVARIANTS
  TrapAsserts
  RunsLive
  NoReturn
PROPERTY
  TrapHandled
