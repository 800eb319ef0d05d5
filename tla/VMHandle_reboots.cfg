SPECIFICATION FairSpec
CONSTANTS
  MaxCalls = 6
  MaxBoots = 7
  Reconnects = TRUE
  DropsAsCode = TRUE
  StartsBreak = TRUE
  QemuDies = TRUE
  Deadlines = TRUE
INVARIANTS TypeOK RebootIsOver RebootWasRun HistoryFaithful
PROPERTIES WaitSucceeds ImplementsRemoteMachine ImplementsVMLifecycle
CHECK_DEADLOCK FALSE
