SPECIFICATION ScreenSpec
CONSTANTS
    ann = ann
    bob = bob
    User = {ann, bob}
    Post = {}
    Owner <- MCOwner
    Screen = {"profile"}
    Viewer = {ann}
    MaxViews = 1
    MaxTaps = 2
    MaxFaults = 1
INVARIANTS
    ScreenTypeOK
    ButtonShowsTruth
CHECK_DEADLOCK FALSE
