CONSTANTS
    Request = {r1, r2, r3}
    Slots = 2
    Option = {"o1", "o2", "old"}
    Retired = {"old"}
    Value = {"v1", "v2"}
    Change <- Changes
    MaxTimers = 1
SPECIFICATION FairWebSpec
INVARIANTS SlotsHeld SavesDoNotMeet PromiseKept
PROPERTIES RequestsEnd
