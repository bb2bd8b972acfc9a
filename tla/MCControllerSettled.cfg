CONSTANTS
    RefActs = {}
    GlobalActs = {}
    PlainActs = {p1, p2}
    Looks = {}
    Pkgs = {"p"}
    NoTask = NoTask
    Follow = FALSE
    MaxDrops = 0
SPECIFICATION Spec
INVARIANT SettledMatchesAct
