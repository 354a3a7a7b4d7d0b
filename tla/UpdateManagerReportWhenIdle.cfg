SPECIFICATION Spec
CONSTANTS
  Update <- MCUpdate
  Boot <- MCBoot
  Provision = {"provision"}
  Builds <- MCBuilds
  NoUpdate = "none"
  NoId = NoId
INVARIANT ReportWhenIdle
CHECK_DEADLOCK FALSE
