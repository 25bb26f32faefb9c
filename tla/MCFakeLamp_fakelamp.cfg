CONSTANTS
    Commands = {1, 2, 3}
    NoCommand = NoCommand
    Conns = {c1, c2}
    Torn = {2}
    Broken = {3}
    Counts = {1, 2}
    NoCount = NoCount
CHECK_DEADLOCK FALSE
SPECIFICATION FairSpec
ACTION_CONSTRAINTS WhenItMatters InTurn
INVARIANTS TypeOK StrikesTheNext
PROPERTIES ImplementsWire EveryCommandServed
