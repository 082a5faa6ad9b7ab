SPECIFICATION Spec
CONSTANTS
  f1 = f1
  f2 = f2
  NoFile = NoFile
  GameFiles <- MCGameFiles
  MaxLaunches = 2
INVARIANTS
  TypeOK
  HooksPaired
  RestIsClean
  TornDownBeforeRun
  PlaysMatchLaunch
PROPERTIES
  SessionEnds
