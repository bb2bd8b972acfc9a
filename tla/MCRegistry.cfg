CONSTANTS
    Devices = {d1, d2}
    Tasks = {t1, t2}
    Nobody = Nobody
    MaxConn = 2
    Overtaken = FALSE
SPECIFICATION FairSpec
INVARIANT TypeOK
INVARIANT NoGhost
INVARIANT AnnouncementsTrue
INVARIANT NoLostWakeup
PROPERTY EvictsOnlyItself
PROPERTY FlapIsAPause
CHECK_DEADLOCK FALSE
