SPECIFICATION FairSpec
CONSTANTS
  INITIAL_MAX = 2
  MAX_CREATED = 4
  ExitArgs <- MCExitArgs
  Calls <- AllCalls
  CarefulCancel = TRUE
INVARIANTS
  NoLostWakeup
  TerminatedNeverRuns
  JoinReturnsTerminated
  FreedIsUnlinked
PROPERTIES
  IdKeptForJoiner
  ImplementsScheduler
  JoinerResumes
VIEW RunningView
