SPECIFICATION FairSpec
CONSTANTS
    Child = {a, b}
    Slots = 2
    MaxAttempts = 2
    MaxControls = 1
    MaxFaults = 1
    a = a
    b = b
CONSTRAINTS ChildrenOrReloads
PROPERTIES
    ToldOnce
    ViewNeverRegresses
    SessionsCatchUp
CHECK_DEADLOCK FALSE
