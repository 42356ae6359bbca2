\* A repository to which nothing more is published stops.
SPECIFICATION MCSpec
CONSTANTS
    MinNr = 1
    MaxNr = 3
    MinSecs = 2
    MaxSecs = 4
    MaxAge = 5
    MaxDeltas = 6
    MaxSession = 2
    MaxFileSerial = 3
INVARIANTS MaximumUnlessBurst NotificationComplete WritesMakeUp
PROPERTIES  OldDropped
CHECK_DEADLOCK FALSE
