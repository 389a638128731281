SPECIFICATION Spec
CONSTANTS
    ann = ann
    bob = bob
    User = {ann, bob}
    Author = bob
    MaxTouches = 2
    MaxFaults = 0
INVARIANTS
    LikeButtonShowsTruth
CHECK_DEADLOCK FALSE
