SPECIFICATION FairSpec
CONSTANTS
  Source <- MCSource
  Ir <- MCIr
  Option <- MCOption
  IrOf <- MCIrOf
  MaxArgs = 3
INVARIANTS
  TypeOK
  SourcesKept
  UserIrSurvives
  InstrumentedAsNamed
  LinksFreshIr
PROPERTIES
  GeneratedIrRemoved
