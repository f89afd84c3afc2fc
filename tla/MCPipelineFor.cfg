\* A for loop whose body advances the index runs fewer rounds in compiled code.
SPECIFICATION Spec
CONSTANTS
  IntTypes <- MCIntTypes
  Programs <- MCForPrograms
  Compiled <- MCForCompiled
  Executions <- MCForExecutions
  Fuel = 60
INVARIANTS
  CompiledAgrees
