CONSTANTS
    RefActs = {a1}
    GlobalActs = {g1}
    PlainActs = {}
    Looks = {}
    Pkgs = {"p"}
    NoTask = NoTask
    Follow = TRUE
    MaxDrops = 1
SPECIFICATION FairSpec
INVARIANT TypeOK
INVARIANT PerformedOnceInOrder
INVARIANT AuditFaithful
PROPERTY CallsReturn
