CONSTANTS
    Ops = {o1, o2, o3}
    Levels = {low, high}
    Temperatures = {warm}
    Flashes = 1
    MaxLate = 1
    Absent = Absent
    Deaf = Deaf
    Silent = Silent
SYMMETRY Interchangeable
CHECK_DEADLOCK FALSE
SPECIFICATION SmoothSpec
ACTION_CONSTRAINT Apart
INVARIANTS
    CacheTracksLamp
    ListenerSettled
