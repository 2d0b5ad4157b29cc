SPECIFICATION Spec
CONSTANTS
    d1 = d1
    d2 = d2
    Web = {w1, w2}
    Devices = {d1, d2}
    Fields = {"gain", "eq"}
    Sites <- TwoSites
    MaxRequests = 2
    MaxFaults = 1
    MaxRestarts = 1
INVARIANTS OneZone SavedAtRest PairingKept TrailingPair RadioReleased
PROPERTY StopsWhenAsked
CHECK_DEADLOCK FALSE
