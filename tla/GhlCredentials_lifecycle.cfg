SPECIFICATION Spec
CONSTANTS
    EventType <- MCEventType
    EventAt <- MCEventAt
    Bootstraps = {b1}
    Reconnects = {}
    Reconcilers = {c1}
    Workers = {w1}
    MaxTokens = 1
INVARIANTS
    NewerEventApplies
