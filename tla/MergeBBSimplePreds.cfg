SPECIFICATION Spec
CONSTANTS
  Block <- MCBlock
  Inst <- MCInst
  Leaf <- MCLeaf
  Functions <- ControlFunctions
  Builds <- AssertOnly
INVARIANTS
  RetainedHasSimplePreds
