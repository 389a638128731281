SPECIFICATION Spec
CONSTANTS
    ann = ann
    bob = bob
    User = {ann, bob}
    Author = bob
    MaxTouches = 2
    MaxFaults = 1
INVARIANTS
    TypeOK
    LikeMirrored
    CounterExact
CHECK_DEADLOCK FALSE
