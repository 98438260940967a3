SPECIFICATION Spec
CONSTANTS
    Root = {claude, codex}
    Late = {claude}
    Thread = {alpha}
    claude = claude
    codex = codex
    alpha = alpha
    RootOf <- InClaude
    MaxMessages = 2
    MaxEvents = 2
INVARIANTS
    AnswerIsCurrent
PROPERTIES
    DoneHolds
    RowsCatchUp
CHECK_DEADLOCK FALSE
