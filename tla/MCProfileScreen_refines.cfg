SPECIFICATION ScreenSpec
CONSTANTS
    ann = ann
    bob = bob
    User = {ann, bob}
    Post = {}
    Owner <- MCOwner
    Screen = {"profile"}
    Viewer = {ann}
    MaxViews = 1
    MaxTaps = 1
    MaxFaults = 2
PROPERTIES
    ImplementsServices
CHECK_DEADLOCK FALSE
