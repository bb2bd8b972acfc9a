CONSTANTS
    RefActs = {a1}
    GlobalActs = {}
    PlainActs = {}
    Looks = {l1}
    Pkgs = {"p", "q"}
    NoTask = NoTask
    Follow = TRUE
    MaxDrops = 1
SPECIFICATION FairSpec
INVARIANT ConfigureIsCurrent
PROPERTY CallsReturn
