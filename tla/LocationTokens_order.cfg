\* Handlers are finite: when all have answered nothing is left to do.
SPECIFICATION Spec
CONSTANTS
    Installs = {d1}
    Callbacks = {c1}
    Requests = {}
    Previews = {}
    Locations = {l1}
    Elsewhere = Elsewhere
    Keys = {k1}
    MaxPairs = 1
    MaxStarts = 2
    None = None
SYMMETRY Symmetry
CHECK_DEADLOCK FALSE
INVARIANTS
    EitherOrder
