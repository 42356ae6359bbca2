SPECIFICATION FairSpec
CONSTANTS
    MaxCommands = 3
    MaxEvents = 2
    MaxCrashes = 2
    Absent = Absent
    Torn = Torn
INVARIANTS AckedDurable EventsLeadToState NothingBeyondState
PROPERTIES ComesUp
CHECK_DEADLOCK FALSE
