SPECIFICATION FairSpec
CONSTANTS
  Block <- MCBlock
  IntValue <- MCIntValue
  Functions <- MCFunctions
INVARIANTS
  TypeOK
  RivsAvailable
  OnlyIdomValues
  AllBlocksMet
PROPERTIES
  EventuallyEmpty
