CONSTANTS
    d1 = d1 d2 = d2 d3 = d3 m1 = m1 m2 = m2
    Device = {d1, d2, d3}
    Allowed = {d1, d2}
    BlockConfig = TRUE
    MsgId = {m1, m2}
SPECIFICATION FairSpec
CHECK_DEADLOCK FALSE
INVARIANTS NoEchoLoop NothingLeftConnected
PROPERTIES StopCompletes
