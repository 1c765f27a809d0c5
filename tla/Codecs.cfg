SPECIFICATION Spec
CONSTANTS
    Degrees <- MCDegrees
    Degrees16 <- MCDegrees16
    Rpms <- MCRpms
    Rpms16 <- MCRpms16
    Currents <- MCCurrents
    Offsets <- MCOffsets
    Angles <- MCAngles
    Speeds <- MCSpeeds
    Gains <- MCGains
    StartAngles <- MCStartAngles
    SetAngles <- MCSetAngles
INVARIANTS
    TypeOK
    UnderstoodIfFits
    ReturnedRight
    CommandsObeyed
PROPERTY
    AnglesReadBack
