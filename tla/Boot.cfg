SPECIFICATION Spec
CONSTANTS
  Image <- Disks
  SECTSIZE = 2
  HDRSECTS = 2
  WARM = 0
  LOADER = 2
  ELFHDR = 4
  MB = 8
  PGSIZE = 4
  NPTENTRIES = 4
  NPDENTRIES = 3
  KERNBASE = 32
INVARIANTS
  Executes
  MemoryRight
PROPERTY
  Starts
