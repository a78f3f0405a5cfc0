\* The pool with two threads and four inputs: the queue fills up, all four can
\* be in flight while join waits for room for a poison, two threads race for the
\* result, and one takes a second input while the other may be anywhere.  No
\* symmetry: there are liveness properties.  The scripts on that pool have two
\* rounds of two tests, which are the four inputs: what fails in the first is
\* told after the second.  Four components in every graph, of which two are
\* asked for: what is shared is collected repeatedly.  A script and ./build end.
CONSTANTS
  Workers = {w1, w2}
  Items <- Inputs
  None = None
  NRounds = 2  NTests = 2
  NComponents = 4  MaxRequests = 2
  Words <- WordsUsed  Before <- InAlphabet  Calls <- CallsMade  Configs <- ConfigsRead
SPECIFICATION ToolsSpec
CHECK_DEADLOCK FALSE
INVARIANTS
  TypeOK
  Conservation
  JoinDrains
  FailureSurvivesJoin
  AtMostOneLate
  StatusTellsFailure
  DependenciesFirst
  
PROPERTIES
  ToolsReturn
  ImplementPromises
