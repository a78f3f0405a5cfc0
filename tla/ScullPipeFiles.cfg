\* Two processes in every way to open the device and to call it, O_NONBLOCK,
\* SIGIO and the degenerate buffer of size 0; no symmetry, for liveness.
CONSTANTS
  Procs = {p1, p2}
  None = None
  LoadSizes = {0, 3}
  IoctlSizes = {2}
  Modes = {"w", "rw"}
  Nonblock = {FALSE, TRUE}
  AsyncUsers = {p1}
  Counts = {2}
  NBytes = 1
SPECIFICATION FairSpec
INVARIANTS
  TypeOK
  BufferLivesWhileOpen
PROPERTIES
  SleepersAreWoken
