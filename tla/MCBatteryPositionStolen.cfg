CONSTANTS
    Device = {"d1"}
    Serial = {"a", "b", "c", "e"}
    Picks = {}
SPECIFICATION Spec
INVARIANTS NeverStolen
