SPECIFICATION Spec
CONSTANTS
    opus = opus
    sonnet = sonnet
    high = high
    first = first
    second = second
    probe = probe
    Model = {opus, sonnet}
    Effort = {high}
    Approval <- MCApproval
    Listing <- MCListing
    Launch = {first, second}
    Probe = {probe}
    MaxTrouble = 1
CONSTRAINTS Pairs
INVARIANTS
    TurnsAreTheOnesAsked
    ConfirmationsHold
    ConversationsKeepIdentity
CHECK_DEADLOCK FALSE
