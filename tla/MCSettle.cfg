CONSTANTS
    MinEvents = 1
    MaxArms = 3
    MaxEvents = 1
SPECIFICATION FairSpec
INVARIANT TypeOK
INVARIANT ToldOnce
INVARIANT QuietHeardEnough
PROPERTY ImplementsSettleCycle
PROPERTY CycleIsReported
CHECK_DEADLOCK FALSE
