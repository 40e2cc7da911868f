\* The handlers are finite: the system stops when all have answered.
CHECK_DEADLOCK FALSE
SPECIFICATION Spec
CONSTANTS
  Runs = {r1}
  Callbacks = {c1, c2}
  Messages = {m1, m2}
  None = None
SYMMETRY Symmetry
CONSTRAINTS
  OneTrouble
  FilesAlone
INVARIANTS
  OneDelivery
  OnlyVerified
  OutcomesTrue
PROPERTY
  EchoSettled
  DeliversTruthfully
