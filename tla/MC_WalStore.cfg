SPECIFICATION Spec
CONSTANTS
    c1 = c1
    c2 = c2
    Change = {c1, c2}
    MaxRevision = 3
    MaxRemovals = 1
    Absent = Absent
    Removed = Removed
    Torn = Torn
INVARIANTS AckedDurable CacheCurrent
PROPERTIES CacheMonotonic DiskIsAppendOnlyLog
CHECK_DEADLOCK FALSE
