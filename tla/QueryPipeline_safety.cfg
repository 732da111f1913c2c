SPECIFICATION Spec
CONSTANTS
  Batch = {b1, b2, b3, b4, b5}
  DbJob = {j1, j2}
  ReadQuery = {r1, r2}
  WriteQuery = {w1}
  Partial = Partial
  LocalBufferSize = 2
  MaxFaults = 1
  b1 = b1
  b2 = b2
  b3 = b3
  b4 = b4
  b5 = b5
  r1 = r1
  r2 = r2
  w1 = w1
  j1 = j1
  j2 = j2
SYMMETRY Symmetry
INVARIANTS
  TypeOK
  OneOwner
  StageShape
  PoolIsClean
  NoPartialDownstream
  AtMostOneReply
  FrontTellsAll
PROPERTIES
  NoBatchForgotten
  ImplementsService
