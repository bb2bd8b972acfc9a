CONSTANTS
    Pkgs = {p, q}
    MaxGeneration = 3
    MaxPosts = 2
    NoCard = NoCard
SYMMETRY PkgSymmetry
SPECIFICATION Spec
INVARIANT TypeOK
INVARIANT ConsentWasGiven
INVARIANT ConsentedIsRequested
INVARIANT ScopeWasGiven
