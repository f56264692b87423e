\* Two handlers, four calls, one stop; Loads says which kinds of calls one behaviour mixes.
CONSTANTS
    s1 = s1
    s2 = s2
    h1 = h1
    h2 = h2
    Nobody = Nobody
    Staff = {s1, s2}
    Checkers = {s1, s2}
    Handlers = {h1, h2}
    RequestIds = {1, 2}
    MaxCalls = 4
    MaxCrashes = 1
    Refs = {1}
    Payouts = {1}
    Values = {"v0", "v1"}
    Seed = "v0"
    TTL = 2
    MaxTime = 2
    LogIds = {1}
    Templates <- MCTemplates
    MAX_ATTEMPTS = 2
    TradeDates = {1, 2}
    QuoteRows <- MCTwoDays
    LastDay = 8
    Global = 0
    MarketIds = {1}
    RateOf <- MCRates
    Windows <- MCWindows
    Market = 1
    PriceOf <- MCPrices
    CapOf <- MCCaps
    MonthLength = 2
    Loads <- MCLoads
SPECIFICATION Spec
SYMMETRY Symmetric
\* Once the bounded calls are served the system rests.
CHECK_DEADLOCK FALSE
INVARIANTS
    ChainVerifies
    WrittenOffByTwoPeople
    ServedIsRecent
    RetriesAreBounded
    ValidityIsInSessions
    StatementIsExact
PROPERTY
    FeesHaveNoGap
