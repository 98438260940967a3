SPECIFICATION DaemonSpec
CONSTANTS
    first = first
    second = second
    third = third
    fourth = fourth
    terminal = terminal
    script = script
    worktree = worktree
    here = here
    anew = anew
    read = read
    write = write
    Proc = {first, second, third, fourth}
    First = first
    Client = {terminal, script, worktree}
    Foreign = {worktree}
    Harness = {"claude", "codex", "cursor"}
    Codex = "codex"
    Cursor = "cursor"
    Request <- Requests
    Report <- Sessions
    Limits <- RateLimits
    MaxDaemons = 3
    Connection = {here, anew}
    GatewayRequest = {read, write}
    Post = {write}
    Subscription = {"events"}
    NoConnection = "none"
INVARIANTS
    OneExecutor
    WritesRunOnce
    SnapshotIsTrue
PROPERTIES
    ClientsAreServed
    ConnectionsAreSound
CHECK_DEADLOCK FALSE
