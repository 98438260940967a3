SPECIFICATION FairSpec
CONSTANTS
    OneShot = {once}
    Recurring = {hourly}
    Attention = {triage, digest}
    Thread = {thread}
    MaxRows = 3
    MaxMessages = 2
    MaxEdits = 2
    MaxFaults = 1
    once = once
    hourly = hourly
    triage = triage
    digest = digest
    thread = thread
CONSTRAINTS TimersOrHandoffs
INVARIANTS
    ClaimsAreSound
PROPERTIES
    ClaimsAreExecuted
    QueueDrains
    HandoffsAreTold
