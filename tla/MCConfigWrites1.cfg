CONSTANTS
    d1 = d1 time = time other = other
    Device = {d1}
    Clocked = {d1}
    Register = {time, other}
    SystemTime = time
    Limit = 2
    MaxWrites = 4
SPECIFICATION WritesSpec
CHECK_DEADLOCK FALSE
INVARIANTS TracksUnanswered NamesNoLaterWrite ClockKept
