CONSTANTS
    Value = {"p1", "p2", "raq"}
    Endpoint = {"p1", "p2"}
    Own = "raq"
    ReadsFail = FALSE
SPECIFICATION FairLinkSpec
INVARIANTS SavedLinkSurvives
PROPERTIES LinkSaved
