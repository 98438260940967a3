SPECIFICATION Spec
CONSTANTS
    app = app
    fork = fork
    fix = fix
    lint = lint
    talk = talk
    other = other
    one = one
    two = two
    Repo = {app, fork}
    Name = {fix, lint}
    Owned <- MCOwned
    Thread = {talk, other}
    Request = {one, two}
    MaxTrouble = 1
INVARIANTS
    RowsNameTheirWorktrees
    RetriedCreatesSucceed
PROPERTIES
    SelectionIsFollowed
CHECK_DEADLOCK FALSE
