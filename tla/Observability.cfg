SPECIFICATION Spec
CONSTANTS
    Null = Null
    i1 = i1
    i2 = i2
    k1 = k1
    k2 = k2
    a = a
    b = b
    p1 = p1
    p2 = p2
    hmm = hmm
    rl = rl
    r1 = r1
    r2 = r2
    Scenarios <- MCScenarios
    Strategies = {hmm, rl}
    Strategy = hmm
    HoursPerDay = 2
    DaysPerWeek = 2
    Int32Max = 3
    SavedPerToken <- MCSaved
    InsertTimeout = 1
    Holdback = 3
    Skew = 1
    PageLimit = 1
    Requests = {r1, r2}
    Recorded <- MCRecorded
    Workers = {1, 2}
    QueueSize = 1
    BatchSize = 2
CHECK_DEADLOCK FALSE
INVARIANTS
    ExportExactlyOnce
    DashboardConsistent
    SpansAccounted
PROPERTIES
    FeedbackHitsTurn
