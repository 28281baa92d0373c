CONSTANTS
    d1 = d1 d2 = d2 r1 = r1 r2 = r2 r3 = r3
    Register = {r1, r2, r3}
    NoReg = NoReg
    NoTimer = NoTimer
    Device <- TwoDevices
    Regs <- TwoAndOneRegs
    TimerId = {1, 2}
SPECIFICATION FairSpec
INVARIANTS NoStuckRead
PROPERTIES RetryAfterAbort SweepInOrder SequenceEnds
