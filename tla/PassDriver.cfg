SPECIFICATION Spec
CONSTANTS
  Size <- MCSize
  BitXor <- MCXor
  BitAnd <- MCAnd
  Functions <- MCFunctions
  Sample <- MCSample
  MaxRuns = 2
INVARIANTS
  TypeOK
  FileKeepsMeaning
  VerifierAccepts
  EachReplacedOnce
