SPECIFICATION Spec
CONSTANTS
  INITIAL_MAX = 4
  MAX_CREATED = 4
  ExitArgs <- MCWideExitArg
  Calls <- AllCalls
  CarefulCancel = FALSE
INVARIANTS
  TerminatedNeverRuns
