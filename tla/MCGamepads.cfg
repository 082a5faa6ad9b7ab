SPECIFICATION Spec
CONSTANTS
  Devices = {1, 2, 3}
  MaxPads = 3
  MaxPlugged = 3
  MaxRestarts = 1
  Leftovers <- MCLeftovers
INVARIANTS
  TypeOK
  LinesFollowRows
  IndexesAgree
  RecordsChosenPad
PROPERTIES
  SeatsKept
  PluggedIsSeated
