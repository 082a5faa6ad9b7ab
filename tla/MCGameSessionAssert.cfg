SPECIFICATION Spec
CONSTANTS
  f1 = f1
  f2 = f2
  NoFile = NoFile
  GameFiles <- MCGameFiles
  MaxLaunches = 1
INVARIANT LaunchFileAsserted
