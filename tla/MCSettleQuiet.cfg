CONSTANTS
    MinEvents = 2
    MaxArms = 2
    MaxEvents = 1
SPECIFICATION Spec
INVARIANT QuietIsOwn
CHECK_DEADLOCK FALSE
