SPECIFICATION Spec
CONSTANTS
    first = first
    second = second
    Nobody = Nobody
    NumButtons = 1
    NumAxes = 2
    AxisValues <- MCAxisValues
    QueueSize = 3
    ArmAngles <- MCArmAngles
    Callbacks <- MCCallbacks
INVARIANTS
    TypeOK
    AtRestRight
    TornOnlyByOverlap
PROPERTIES
    DisplaySettles
    StickSettles
