SPECIFICATION Spec
CONSTANTS
  Block <- MCBlock
  Inst <- MCInst
  Leaf <- MCLeaf
  Functions <- UseByPhi
  Builds <- AssertOnly
INVARIANTS
  PhiUseRemovable
