SPECIFICATION Spec
CONSTANTS
  kd = kd
  ed = ed
  p1 = p1
  p2 = p2
  p3 = p3
  rw = rw
  NoPte = NoPte
  NoPage = NoPage
  TablePerm = rw
  Page <- ThreePagesTwoRoots
  Root <- TwoRoots
  Idx <- TwoIdx
  UIdx <- TwoIdx
  Perm <- OnlyPerm
  Junk <- JunkContent
  RefMax = 3
SYMMETRY Sym2
INVARIANTS
  FreeListSound
  RefCountExact
  TablesExclusive
  TLBCoherent
PROPERTY
  AbsSpec
