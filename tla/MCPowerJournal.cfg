CONSTANTS
  g1 = g1
  g2 = g2
  g3 = g3
  a1 = a1
  a2 = a2
  b1 = b1
  b2 = b2
  r1 = r1
  r2 = r2
  NoResult = NoResult
  Generation = {g1, g2, g3}
  Operation <- MCOperation
  InterruptOf <- MCInterruptOf
  Result = {r1, r2}
  MaxGenerations = 2
  MaxOperations = 2
SYMMETRY Generations
SPECIFICATION Spec
INVARIANTS
  TypeOK
  NoDuplicateGrant
  WithinCapacity
PROPERTIES
  BatchIsNeverReplaced
