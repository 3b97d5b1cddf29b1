\* The store, with every fault.
SPECIFICATION Spec
CONSTANTS
  None = None
  u1 = u1
  u2 = u2
  store = store
  q1 = q1
  q2 = q2
  q3 = q3
  e1 = e1
  e2 = e2
  p1 = p1
  p2 = p2
  p3 = p3
  c1 = c1
  w1 = w1
  w2 = w2
  Customers = {}
  Store = store
  Quotes = {q1, q2}
  Keys = {e1}
  Procs = {p1, p2}
  Workers = {w1, w2}
  Couriers = {c1}
  ManualOnly = {TRUE, FALSE}
  Faults = {"evict", "break", "insertFails", "commitLost"}
INVARIANTS TypeOK ImportedOnce MetaNamesTheOrder ShownWasAssigned
SYMMETRY Interchangeable
