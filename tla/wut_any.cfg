SPECIFICATION Spec
CONSTANTS
  INITIAL_MAX = 2
  MAX_CREATED = 5
  ExitArgs <- MCWideExitArg
  Calls <- RoleCalls
  CarefulCancel = FALSE
VIEW RunningView
INVARIANTS
  TypeOK
  SlotsConsistent
  LinksLeadToThreads
PROPERTIES
  StatusFinal
