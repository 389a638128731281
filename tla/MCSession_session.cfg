SPECIFICATION FairSpec
CONSTANTS
    ann = ann
    bob = bob
    cyd = cyd
    Account = {ann, bob, cyd}
    Registered = {ann, bob}
    MaxTouches = 5
    MaxFaults = 1
INVARIANTS
    TypeOK
    LoginCovers
    TabsMatchAccount
    NoLostProfile
PROPERTIES TabsArrive
CHECK_DEADLOCK FALSE
