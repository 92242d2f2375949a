SPECIFICATION SysSpec
CONSTANTS
  Word = 16
  PGSIZE = 4
  ULIM = 12
  Flag <- Flags
  Perm <- Perms
  Space <- Spaces
  Area <- Areas
  NulAt <- Nuls
INVARIANTS
  ExactIfFits
  FirstBad
  FrameRight
  Resumes
  CputsRight
CHECK_DEADLOCK FALSE
