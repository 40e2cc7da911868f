SPECIFICATION Spec
CONSTANTS
    EventType <- MCEventType
    EventAt <- MCEventAt
    Bootstraps = {b1, b2}
    Reconnects = {r1}
    Reconcilers = {c1}
    Workers = {w1, w2}
    MaxTokens = 3
SYMMETRY Symmetry
INVARIANTS
    SingleUse
    CredentialOfGeneration
    LifecycleConverges
    OneBurningBootstrap
PROPERTIES
    RotationIsExact
    RowsAdmitted
