CONSTANTS
    NoTask = NoTask
    Tasks = {t1, t2}
    MaxId = 2
    MaxVersion = 1
SPECIFICATION FairSpec
INVARIANT TypeOK
INVARIANT NoStrandedRequest
INVARIANT ImageMatchesTree
INVARIANT FrameUsedOnce
PROPERTY ImplementsRequestCycle
PROPERTY EveryCallReturns
