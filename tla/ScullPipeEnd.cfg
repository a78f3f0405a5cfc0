\* A buffer of 2 bytes and SCULL_P_IOCTSIZE to 3: the smallest instance in
\* which the size can be changed while the device is open.
CONSTANTS
  Procs = {p1, p2}
  None = None
  LoadSizes = {2}
  IoctlSizes = {3}
  Modes = {"r", "w"}
  Nonblock = {FALSE}
  AsyncUsers = {}
  Counts = {1}
  NBytes = 1
SPECIFICATION Spec
INVARIANTS
  EndOfBuf
