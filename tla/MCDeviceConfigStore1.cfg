CONSTANTS
    Value = {"a", "b"}
    ReadsFail = FALSE
SPECIFICATION FairSpec
PROPERTIES KnownSurvives KnownSaved SecretsLeave
