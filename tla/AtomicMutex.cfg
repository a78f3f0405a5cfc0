\* Two threads of two iterations: the main of mutex.c ends in its assert.
CONSTANTS
  nthreads = 2
  niters = 2
SPECIFICATION Spec
CHECK_DEADLOCK FALSE
INVARIANTS
  CounterIsExpected
