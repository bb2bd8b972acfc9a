CONSTANTS
    Taps = {t1}
    Looks = {}
    Trees <- MCTrees
    Width = 4
    Contains <- MCContains
    None = None
    MaxChanges = 1
SPECIFICATION Spec
INVARIANT RetryHitsItsNode
