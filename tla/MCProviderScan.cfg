SPECIFICATION Spec
CONSTANTS
  Games = {g1, g2, g3}
  Collections = {c1, c2}
  Files = {f1, f2}
  NoGame = NoGame
  NoCollection = NoCollection
  MaxScans = 2
INVARIANTS TypeOK ListsAgree FoundIsListed
PROPERTY ScanEnds
CHECK_DEADLOCK FALSE
