SPECIFICATION Spec
CONSTANTS
    m1 = m1
    m2 = m2
    p1 = p1
    p2 = p2
    r1 = r1
    r2 = r2
    NoModel = NoModel
    NoProvider = NoProvider
    NoRow = NoRow
    Models = {m1, m2}
    Providers = {p1, p2}
    Strategies = {"cluster"}
    Requests = {r1, r2}
    Bindings <- OneProviderEach
    BaseStrategy = "cluster"
    HMMStrategies = {}
    Authoritative = FALSE
    RefusalModel = m2
    Outcomes = {"ok", "reject"}
    TurnKinds = {"main"}
    LegacyPins = TRUE
    MaxTurns = 2
    MaxCommands = 0
    MaxToggles = 0
    MaxLapses = 0
SYMMETRY RequestSymmetry
CHECK_DEADLOCK FALSE
INVARIANTS
    StrikesBelongToPin
