CONSTANTS
    d1 = d1
    Device = {d1}
    Signature = {"s1", "s2"}
    Identity = {1, 2}
    Firmware = {"f1"}
    State = {"v1"}
SPECIFICATION FairSpec
INVARIANTS DiscoveryNotSuppressed StateNotSuppressed
PROPERTIES DeviceShown
