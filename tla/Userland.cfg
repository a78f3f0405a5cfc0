\* Two threads that count to two: each can lose what the other adds.  Two
\* arguments to convert, and two values that an attribute of a C++ object may
\* hold.  Two connectors for two CRTCs.  The
\* interrupts of the board: the timer is one of those of a CPU.  Programs end.
CONSTANTS
  nthreads = 2
  niters = 2
  MaxArgs = 2
  Values = {a, b}
  BaseFields <- FirstAndLast
  OwnFields <- First2
  Data = {d0, d1}
  connectors = {1, 2}
  crtcs = {1, 2}
  encoders <- Wirings
  Colors = 8
  Mod = 3
  INT_MAX = 64
  TIMER_IRQ = 27
  PPI0 = 16
  SPI0 = 32
SPECIFICATION ProgramsSpec
CHECK_DEADLOCK FALSE

  
  
  
PROPERTIES
  SleepersEnd
  OneTrapPerPeriod
  
