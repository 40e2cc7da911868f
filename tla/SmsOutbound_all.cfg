\* Callbacks are finite: the last one is answered and nothing is left to do.
SPECIFICATION Spec
CONSTANTS
    Callbacks = {c1, c2}
    Messages = {m1, m2}
    Authorizations = {a1, a2}
    None = None
SYMMETRY Symmetry
CHECK_DEADLOCK FALSE
INVARIANTS
    SendIsAuthorized
PROPERTIES
    DeliversTruthfully
