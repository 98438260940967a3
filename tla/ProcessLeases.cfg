SPECIFICATION Spec
CONSTANTS
    one = one
    two = two
    three = three
    turn = turn
    first = first
    second = second
    Pid = {one, two, three}
    Lease = {turn}
    Daemon = {first, second}
    MaxFaults = 2
PROPERTIES
    LeasesAreSound
    OrphansAreReaped
CHECK_DEADLOCK FALSE
