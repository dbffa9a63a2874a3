SPECIFICATION Spec
CONSTANTS
    p = p
    q = q
    r = r
    g = g
    h = h
    Unknown = Unknown
    Null = Null
    Points = {p, q, r}
    Hotels = {g, h}
    FoodCourt = {p}
    LongStay = {q}
    Near <- MCNear
    EdgeSets <- MCEdgeSets
    Enabled = TRUE
    MaxSelected = 2
    MaxDays = 3
    MaxEdits = 1
INVARIANTS
    NightsTiled
    DaysHold
PROPERTY
    DirectionsAskedOnce
