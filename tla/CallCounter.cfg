SPECIFICATION FairSpec
CONSTANTS
  f = f
  g = g
  t0 = t0
  t1 = t1
  Func <- MCFunc
  Thread <- MCThread
  First = t0
  Modulus = 4
  MaxPasses = 2
  MaxCalls = 3
INVARIANTS
  TypeOK
  ExactUnlessRaced
  NeverOvercounts
  CalledNotZero
  OneThreadPrintsExactly
PROPERTIES
  EveryFunctionReported
