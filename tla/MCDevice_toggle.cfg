CONSTANTS
    Ops = {o1, o2}
    Levels = {low, high}
    Temperatures = {warm}
    Flashes = 1
    MaxLate = 1
    Absent = Absent
    Deaf = Deaf
    Silent = Silent
SYMMETRY Interchangeable
CHECK_DEADLOCK FALSE
SPECIFICATION SmoothSpec
ACTION_CONSTRAINTS OneAtATime Reporting
PROPERTIES ToggleInverts
