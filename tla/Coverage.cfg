SPECIFICATION Spec
CONSTANTS
  a = a
  b = b
  c = c
  t0 = t0
  t1 = t1
  Modules <- MCModules
  Thread <- MCThread
  MapSize = 8
  Modulus = 4
  Rand <- MCRand
  BitXor <- MCXor
  MaxEntries = 3
INVARIANTS
  TypeOK
  CellsExactUnlessRaced
  OnlyTakenEdges
  TakenNotZero
  DirectionsApart
