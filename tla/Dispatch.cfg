SPECIFICATION FairSpec
CONSTANTS
    m1 = m1
    m2 = m2
    p1 = p1
    p2 = p2
    p3 = p3
    Models = {m1, m2}
    Providers = {p1, p2, p3}
    Bindings <- TwoBindings
    Keyed = {p1, p2, p3}
    Decisions <- MCDecisions
    Candidates <- MCCandidates
    DisabledSets <- SomeDisabled
CHECK_DEADLOCK FALSE
INVARIANTS
    AttemptsSound
    UpstreamErrorSurfaces
PROPERTIES
    ImplementsReply
    Answered
