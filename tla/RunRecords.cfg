SPECIFICATION Spec
CONSTANTS
    NoRow = NoRow
    Commands = {c1, c2}
    MaxProcs = 3
SYMMETRY Symmetry
INVARIANTS
    RegistryTracksRuntime
    DetachedStartIsHonest
CHECK_DEADLOCK FALSE
