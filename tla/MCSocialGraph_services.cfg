SPECIFICATION FairSpec
CONSTANTS
    ann = ann
    bob = bob
    cyd = cyd
    p1 = p1
    p2 = p2
    User = {ann, bob}
    Post = {p1}
    Owner <- MCOwner
    Screen = {"profile", "notifications"}
    MaxTaps = 2
    MaxFaults = 1
INVARIANTS
    TypeOK
    MirrorAgreement
    LastWriteWins
    NoDanglingFeed
PROPERTIES
    MirrorConverges
CHECK_DEADLOCK FALSE
