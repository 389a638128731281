SPECIFICATION PatientSpec
CONSTANTS
    ann = ann
    bob = bob
    cyd = cyd
    p1 = p1
    p2 = p2
    User = {ann, bob}
    Post = {p1}
    Owner <- MCOwner
    Screen = {"profile", "notifications"}
    MaxTaps = 2
    MaxFaults = 0
INVARIANTS
    FeedExact
CHECK_DEADLOCK FALSE
