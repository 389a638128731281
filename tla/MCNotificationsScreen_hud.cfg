SPECIFICATION Spec
CONSTANTS
    ann = ann
    bob = bob
    n1 = n1
    n2 = n2
    n3 = n3
    User = {ann, bob, me}
    Viewer = me
    Note = {n1, n2, n3}
    Sender <- MCSender
    FollowNote = {n1, n2}
    Known = {ann}
    Cell = {c}
    MaxEvents = 2
    MaxWaiting = 2
INVARIANTS
    TypeOK
    ButtonShowsTruth
    RowsFollowList
    TrapsNeedRefresh
PROPERTIES
    HudGoesAway
CHECK_DEADLOCK FALSE
