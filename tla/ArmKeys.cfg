SPECIFICATION Spec
CONSTANTS
    Control = control
    Keyboard = keyboard
    NoThread = noThread
    Elbow = elbow
    Shoulder = shoulder
    NoMotor = noMotor
    MaxLate = 1
    MaxLost = 1
    Scripts <- OneCommand
INVARIANTS
    TypeOK
    CommandsExcludeElbowRead
    ElbowAngleGenuine
    RepliesBalance
    ElbowReadSucceeds
