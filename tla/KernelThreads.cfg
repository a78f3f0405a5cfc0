\* The sync demo with up to two threads of two iterations: each can lose what
\* the other adds.  Two queues of two works each, two readers that poll, three
\* CPUs, two bits to raise, and one file over the 4 bytes of fops.c, with reads
\* and writes one byte longer.  A module that is not loaded waits for insmod, and some
\* programs end.
CONSTANTS
  MaxThreads = 2
  Iterations = 2
  NoOne = NoOne
  nqueues = 2
  nworks = 2
  Readers = {r1, r2}
  Cpus = {0, 1, 2}
  Bits = {b1, b2}
  Users = {u1}
  BUFLEN = 4
  MaxLen = 5
SPECIFICATION ThreadsSpec
CHECK_DEADLOCK FALSE
INVARIANTS
  TypeOK
  CounterReached
  WorkEndsWithModule
  

  
  
