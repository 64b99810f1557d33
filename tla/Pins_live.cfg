SPECIFICATION FairSpec
CONSTANTS
    m1 = m1
    m2 = m2
    p1 = p1
    p2 = p2
    r1 = r1
    r2 = r2
    NoModel = NoModel
    NoProvider = NoProvider
    NoRow = NoRow
    Models = {m1}
    Providers = {p1, p2}
    Strategies = {"cluster"}
    Requests = {r1, r2}
    Bindings <- OneModel
    BaseStrategy = "cluster"
    HMMStrategies = {}
    Authoritative = FALSE
    RefusalModel = m1
    Outcomes = {"ok", "reject", "overload"}
    TurnKinds = {"main"}
    LegacyPins = TRUE
    MaxTurns = 3
    MaxCommands = 0
    MaxToggles = 0
    MaxLapses = 1
CHECK_DEADLOCK FALSE
INVARIANTS
    DisabledNeverServes
PROPERTIES
    StruckOutIsEvicted
    DisabledKept
