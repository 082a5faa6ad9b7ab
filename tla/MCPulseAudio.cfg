SPECIFICATION Spec
CONSTANTS
  Cards = {"onboard", "headset"}
  Sinks <- MCSinks
  CardOf <- MCCardOf
INVARIANTS
  TypeOK
  OneRequest
  AnswerToCome
  ListsComplete
PROPERTIES
  CallsReturn
CHECK_DEADLOCK FALSE
