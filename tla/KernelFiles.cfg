\* Of scull's bare device two threads, each with a file, a quantum of 1 or 2
\* and arrays of 2: four positions take one or two list items; the device
\* stops at a wild access.  Of the other modules: two devices, two processes
\* whose writes of 2 bytes overlap or leave a hole up to position 3, reads that
\* cut a line of 2 characters or take several, two readers that race.
CONSTANTS
  Threads = {t1, t2}
  Files = {f1, f2}
  None = None
  SCULL_QUANTUM = 2
  SCULL_QSET = 2
  Quanta = {1, 2}
  Qsets = {2}
  Back = 2
  Forward = 2
  NrDevs = 2
  MaxItems = 2
  Callers = {"c1", "c2"}
  MaxEnd = 3
  Lens = {2}
  MaxMax = 3
  Sizes = {1, 2, 3, 8}
  Clients = {1, 2}
  Zero = 3
  nreads = 2
  Offsets <- MCOffsets
  Counts = {2}
  MaxPos = 2
  NBytes = 2
  Unknown = Unknown
SYMMETRY Symmetry
SPECIFICATION FilesSpec
CHECK_DEADLOCK FALSE
INVARIANTS
  TypeOK
  AreasMatchDevice
  
  
PROPERTIES
  ImplementsSparseFile
