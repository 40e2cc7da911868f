SPECIFICATION Spec
CONSTANTS
  Risks = {"notes", "orders"}
  Others = {c1, c2}
  Current = m
  Users = {"u1", "u2"}
  Mapped = {"u1"}
  Contacts <- ContactsSet
  Definitions <- DefinitionsSet
  Emails = {"", "e"}
  Phones = {"", "p"}
  Scopes <- ScopeSets
  None = None
SYMMETRY Symmetry
INVARIANTS DecisionEarned OneRefresh
PROPERTIES NothingAfterDeadline
CHECK_DEADLOCK FALSE
