SPECIFICATION PatientSpec
CONSTANTS
    ann = ann
    bob = bob
    cyd = cyd
    p1 = p1
    p2 = p2
    User = {ann, bob, cyd}
    Post = {p1, p2}
    Owner <- TwoOwners
    Screen = {"profile"}
    MaxTaps = 4
    MaxFaults = 0
INVARIANTS
    FeedExact
CHECK_DEADLOCK FALSE
