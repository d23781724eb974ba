SPECIFICATION AppSpec
CONSTANTS
  Count = 3
  WaitsFor <- Upstream
  MailCapacity = 1
INVARIANTS
  NothingRunsAfterStop
  DependentsJoinedFirst
  FailureReachesExitCode
  NoReportAfterServicesAreGone
PROPERTIES
  FaultEndsProcess
  SignalEndsProcess
