\* One pool with two workers and two inputs, which may both give a result: the
\* smallest instance in which two results can compete.
CONSTANTS
  Workers = {w1, w2}
  Items = {i1, i2}
  None = None
SPECIFICATION FairSpec
PROPERTIES
  FirstResultKept
