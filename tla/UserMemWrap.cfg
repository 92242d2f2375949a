SPECIFICATION SysSpec
CONSTANTS
  Word = 16
  PGSIZE = 4
  ULIM = 12
  Flag <- Flags
  Perm <- Perms
  Space <- Spaces
  Area <- Areas
  NulAt <- Nuls
INVARIANT
  Exact
CHECK_DEADLOCK FALSE
