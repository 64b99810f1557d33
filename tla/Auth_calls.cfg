SPECIFICATION Spec
CONSTANTS
    u1 = u1
    u2 = u2
    Calls = 3
    Mixes <- MCMixes
    Users <- MCUsers
    Insts <- MCInsts
    Capacity = 1
    MaxFailures = 1
    MaxFaults = 1
INVARIANTS
    RotateOneSuccessor
    IndexTracksCache
    AdmissionSound
    IdentityStable
    ByokSurvives
    LockoutEarned
PROPERTIES
    CallsReturn
CHECK_DEADLOCK FALSE
