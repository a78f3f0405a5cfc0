\* Of the bare device of KernelFiles.cfg with one position less: the smallest
\* instance in which a call can be overtaken by a truncation that changes the
\* quantum.
CONSTANTS
  Threads = {t1, t2}
  Files = {f1, f2}
  None = None
  SCULL_QUANTUM = 2
  SCULL_QSET = 2
  Quanta = {1, 2}
  Qsets = {2}
  Back = 1
  Forward = 1
  NrDevs = 1
  MaxItems = 1
  Callers = {"c1"}
  MaxEnd = 1
  Lens = {1}
  MaxMax = 1
  Sizes = {1}
  Clients = {1}
  Zero = 1
  nreads = 1
  Offsets <- MCOffsets
  Counts = {2}
  MaxPos = 1
  NBytes = 2
  Unknown = Unknown
SPECIFICATION FilesSpec
CHECK_DEADLOCK FALSE
INVARIANTS
  EndOfQuantum
