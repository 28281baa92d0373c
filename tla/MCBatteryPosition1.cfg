CONSTANTS
    Device = {"d1"}
    Serial = {"a", "b", "c"}
    Picks <- MCPicks
SPECIFICATION FairSpec
INVARIANTS OneSource ChoiceWins KeepsSlot
PROPERTIES HistoryKept AssignmentsSaved
