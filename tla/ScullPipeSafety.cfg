\* Three processes: a reader, a writer, and one more that opens, closes or
\* resizes under them.  A buffer of 3 bytes (2 usable) wraps after two calls;
\* resized to 2 it is full after one byte.  Bytes modulo 3, one more than a
\* buffer of 3 holds, and counts of 1 and 2: calls that stop at the end of the
\* buffer and go on at its start.
CONSTANTS
  p1 = p1  p2 = p2  p3 = p3
  Procs = {p1, p2, p3}
  None = None
  LoadSizes = {3}
  IoctlSizes = {2}
  Modes = {"r", "w"}
  Nonblock = {FALSE}
  AsyncUsers = {}
  Counts = {1, 2}
  NBytes = 3
SYMMETRY Symmetry
SPECIFICATION PartSpec
INVARIANTS
  PointersWrapped
  NoLostWakeup
  NotBothAsleep

  
