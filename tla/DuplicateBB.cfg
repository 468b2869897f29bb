SPECIFICATION Spec
CONSTANTS
  Block <- MCBlock
  Inst <- MCInst
  Leaf <- MCLeaf
  Functions <- MCFunctions
INVARIANTS
  TypeOK
  OperandsAvailable
  SameComputation
  EffectsOnce
