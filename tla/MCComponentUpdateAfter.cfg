SPECIFICATION Spec
CONSTANTS
  script = script
  package = package
  resource = resource
  Files <- MCFiles
  Sized <- MCSized
  Batch <- MCBatch
  NoItem = NoItem
  MaxLaunches = 1
  MaxRedirects = 1
INVARIANT InstallsAfterDownload
CHECK_DEADLOCK FALSE
