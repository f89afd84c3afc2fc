\* Programs of two statement groups each; integers of three to five bits.
SPECIFICATION FairSpec
CONSTANTS
  IntTypes <- MCIntTypes
  Programs <- MCPrograms
  Compiled <- MCCompiled
  Executions <- MCExecutions
  Fuel = 60
INVARIANTS
  CompiledAgrees
  CheckedProgramsDoNotGoWrong
  NoUndefinedBehaviour
  NoInvalidHandle
  ShadowStackBalanced
  StructsNotShared
PROPERTIES
  UncleanIffUnsupported
  CompiledEnds
