SPECIFICATION Spec
CONSTANTS
  script = script
  package = package
  resource = resource
  Files <- MCFiles
  Sized <- MCSized
  Batch <- MCBatch
  NoItem = NoItem
  MaxLaunches = 2
  MaxRedirects = 1
INVARIANTS TypeOK OneTransfer CountsAgree
PROPERTIES InstallsSound LaunchReturns
CHECK_DEADLOCK FALSE
