SPECIFICATION Spec
CONSTANTS
  Functions <- MCFunctions
  Numbers <- MCNumbers
  MaxRuns = 3
  Limit = 5
  Epsilon = 2
  Largest = 8
  Word = 16
  CInt = 8
INVARIANTS
  TypeOK
  OnlyFloatRefused
PROPERTIES
  Implements
  RerunsChangeNothing
