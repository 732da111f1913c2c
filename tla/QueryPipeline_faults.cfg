SPECIFICATION LiveSpec
CONSTANTS
  Batch = {b1, b2, b3, b4, b5}
  DbJob = {j1}
  ReadQuery = {r1}
  WriteQuery = {w1}
  Partial = Partial
  LocalBufferSize = 2
  MaxFaults = 1
  b1 = b1
  b2 = b2
  b3 = b3
  b4 = b4
  b5 = b5
  r1 = r1
  r2 = r2
  w1 = w1
  j1 = j1
  j2 = j2
PROPERTIES
  EveryQuerySettled
