\* The deliveries are finite: the system stops when all are done.
CHECK_DEADLOCK FALSE
SPECIFICATION Spec
CONSTANTS
  d1 = d1
  d2 = d2
  t1 = t1
  t2 = t2
  x = x
  u1 = u1
  u2 = u2
  Deliveries = {d1, d2}
  Events = {t1, t2, x}
  Users = {u1, u2}
  Contacts = {c1, c2}
  Assignments <- MCAssignments
  Traffic <- MCTraffic
  MaxLate = 1
  MaxOverrides = 1
  None = None
SYMMETRY Symmetry
INVARIANTS
  OneMessagePerHandling
  InboxTrue
  BatchHandled
