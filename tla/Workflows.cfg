SPECIFICATION Spec
CONSTANTS
    None = None
    Default = d
    Remote = x
    Names = {d, n}
    Targets = {t}
    Listens = {l}
    Commands = {c1, c2, c3}
    MaxKeys = 3
    DefaultMaxPipeHops = 2
SYMMETRY Symmetry
INVARIANTS
    KeyBacksPipe
    InviteNotBurnt
    TraversalAgrees
CHECK_DEADLOCK FALSE
