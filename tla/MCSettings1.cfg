CONSTANTS
    Setting = {"p"}
    Power = {"p"}
    Value = {"on", "off"}
    MaxWaiting = 3
SPECIFICATION FairSpec
INVARIANTS Settled
PROPERTIES PowerAsked
