CONSTANTS
    MaxBursts = 2
    MaxUsd = 1
    Cooldown = 2
    Limit = 1
    Lanes = 4
    MaxClock = 2
    MaxFaults = 2
    Switches <- MCSwitches
    MaxCycles = 3
    MaxRows = 3
    MaxLost = 1
    e1 = e1
    e2 = e2
    e3 = e3
    Event <- MCEvent
    Size <- MCSize
    TokenBudget = 2
    MaxTime = 3
    MaxMishaps = 2
    Falsification = {"a", "b"}
    MaxAppends = 5
    MaxBusFaults = 2
    t1 = t1
    t2 = t2
    Thread = {t1, t2}
    Tokens = {1}
    MaxTrips = 2
    Dispatch = {"d1", "d2"}
    Cap = {0, 5}
    OutputPrice = 2
    MaxTokens = 2
    Candidate = {"v1", "v2", "u"}
    FileOf <- MCFileOf
    Unfired = {"u"}
    WINDOW = 2
    MIN_EVIDENCE = 1
    MaxBuys = 3
    MaxStallMishaps = 1
    Card = {"k1", "k2"}
    Thresholds = {0, 2}
    MaxSettlements = 5
    MaxHistoryFaults = 1
    FailThread = {t1, t2}
    MaxFailCalls = 2
    MaxScopes = 1
    Ledger = {"b", "c"}
    Folded = {"b"}
    FoldedKey = "all"
    MaxTableEdits = 3
    MaxRuns = 3
    LoopRounds = 2
SYMMETRY MCSym
SPECIFICATION RatchetSpec
INVARIANTS FoldIsCaught
CHECK_DEADLOCK FALSE
