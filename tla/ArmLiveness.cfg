SPECIFICATION FairSpec
CONSTANTS
    Control = control
    Keyboard = keyboard
    NoThread = noThread
    Elbow = elbow
    Shoulder = shoulder
    NoMotor = noMotor
    MaxLate = 0
    MaxLost = 0
    Scripts <- Commands
PROPERTIES
    KeyIsServed
    ElbowKeepsBeingRead
