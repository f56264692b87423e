\* Two overlapping calls, five in all, two codes, three sessions.
CONSTANTS
    h1 = h1
    h2 = h2
    Handlers = {h1, h2}
    CodeIds = {1, 2}
    MaxPerHour = 1
    MaxAttempts = 1
    MaxCalls = 5
    SessionIds = {1, 2, 3}
    MaxBlocks = 1
SPECIFICATION Spec
SYMMETRY Symmetric
\* Once the bounded calls are served the system rests.
CHECK_DEADLOCK FALSE
INVARIANTS
    GuessesAreCapped
    OneSuccessor
    OldSessionsAreRevoked
