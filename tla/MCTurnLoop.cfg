CONSTANTS
    Lines = {l1, l2, l3}
    NoLine = NoLine
    Continue = Continue
    MaxConnects = 2
SPECIFICATION FairSpec
INVARIANT TypeOK
INVARIANT LineReachesOneTurn
INVARIANT CompletionIsOfThisTurn
INVARIANT ZeroMeansGoalRun
PROPERTY TurnIsLeft
PROPERTY LineIsHandedOver
CHECK_DEADLOCK FALSE
