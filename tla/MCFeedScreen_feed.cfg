SPECIFICATION Spec
CONSTANTS
    User = {me}
    Viewer = me
    Post = {p, q}
    Liked = {p}
    Refused = {q}
    Cell = {c}
    MaxEvents = 2
    MaxWaiting = 2
INVARIANTS
    TypeOK
    ListIsOneFetch
    HeartsSettle
    ScreenFollowsList
    TrapsNeedRefresh
    
PROPERTIES
    SpinnerStops
CHECK_DEADLOCK FALSE
