SPECIFICATION Spec
CONSTANTS
  g1 = g1
  g2 = g2
  Games <- MCGames
  NoTask = NoTask
  MaxChanges = 3
  MaxScans = 1
INVARIANTS TypeOK SingleWriter ChoicesKept
PROPERTY StoresLatest
CHECK_DEADLOCK FALSE
