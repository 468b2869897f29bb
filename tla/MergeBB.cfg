SPECIFICATION Spec
CONSTANTS
  Block <- MCBlock
  Inst <- MCInst
  Leaf <- MCLeaf
  Functions <- MCFunctions
  Builds <- MCBuilds
INVARIANTS
  TypeOK
  DeadBlocksUntargeted
  PathsPreserved
  PhiValuesPreserved
  ErasedInstsUnused
  BadOutcomeNeedsPhi
