SPECIFICATION FairSpec
CONSTANTS
    talk = talk
    child = child
    Session = {talk, child}
    Parent <- MCParent
    Title <- MCTitle
    MaxOps = 2
    MaxNews = 1
    MaxTrouble = 1
CONSTRAINTS
    Few
INVARIANTS
    ShownInPlace
    ChangesAreSeen
PROPERTIES
    PanelCatchesUp
CHECK_DEADLOCK FALSE
