CONSTANTS
    Taps = {t1, t2}
    Looks = {l1}
    Trees <- MCTrees
    Width = 4
    Contains <- MCContains
    None = None
    MaxChanges = 2
SPECIFICATION Spec
INVARIANT TypeOK
INVARIANT RefHitsItsNode
INVARIANT NamedRetryHitsItsNode
SYMMETRY TapSymmetry
