SPECIFICATION Spec
CONSTANTS
    Reads <- MCReads
    MaxReads = 4
INVARIANTS
    TypeOK
    NoFrameMissed
    AnglesOfLastFrame
PROPERTY
    ImplementsScan
CHECK_DEADLOCK FALSE
