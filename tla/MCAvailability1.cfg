CONSTANTS
    d1 = d1 d2 = d2
    NoTimer = NoTimer
    TimerId = {1, 2}
    Device = {d1, d2}
    StartFails = {d2}
SPECIFICATION FairSpec
INVARIANTS CacheTellsTruth OnlineIsWatched
PROPERTIES LiveStaysOnline KnownSilentGoOffline
