SPECIFICATION FairSpec
CONSTANTS
    Control = control
    Keyboard = keyboard
    NoThread = noThread
    Elbow = elbow
    Shoulder = shoulder
    NoMotor = noMotor
    MaxLate = 1
    MaxLost = 0
    Scripts <- Nothing
PROPERTY
    ElbowKeepsBeingRead
