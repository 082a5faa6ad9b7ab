SPECIFICATION Spec
CONSTANTS
  MaxPlays = 3
  MaxScans = 1
INVARIANTS TypeOK RecordedExactlyOnce CountsFollowRows AbandonedOnlyOnFailure
PROPERTIES WorkersMeetAtCheck EventuallyRecorded
CHECK_DEADLOCK FALSE
