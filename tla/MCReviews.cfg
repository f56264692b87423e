\* Two people, two handlers, two requests, four calls and one stop.
CONSTANTS
    s1 = s1
    s2 = s2
    h1 = h1
    h2 = h2
    Nobody = Nobody
    Staff = {s1, s2}
    Checkers = {s1, s2}
    Handlers = {h1, h2}
    RequestIds = {1, 2}
    MaxCalls = 4
    MaxCrashes = 1
    MaxCases = 2
    MaxResubmissions = 2
    AlertIds = {1}
    Files = {1, 2}
SPECIFICATION Spec
SYMMETRY Symmetric
\* Once the bounded calls are served the system rests.
CHECK_DEADLOCK FALSE
INVARIANTS
    TypeOK
    EffectsNeedTwoPeople
    TradingHasApprovedCase
    ClosedByTwoPeople
