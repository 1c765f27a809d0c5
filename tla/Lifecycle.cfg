SPECIFICATION Spec
CONSTANT
    MaxCallbacks = 3
INVARIANTS
    OrderlyEnd
PROPERTY
    QuietAfterEscape
