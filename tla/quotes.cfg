\* Two customers and three requests, with every fault but a lost commit.
SPECIFICATION Spec
CONSTANTS
  None = None
  u1 = u1
  u2 = u2
  store = store
  q1 = q1
  q2 = q2
  q3 = q3
  e1 = e1
  e2 = e2
  p1 = p1
  p2 = p2
  p3 = p3
  c1 = c1
  w1 = w1
  w2 = w2
  Customers = {u1, u2}
  Store = store
  Quotes = {q1, q2}
  Keys = {}
  Procs = {p1, p2, p3}
  Workers = {}
  Couriers = {}
  ManualOnly = {TRUE, FALSE}
  Faults = {"evict", "break", "insertFails"}
PROPERTIES QuoteNotLost QuotesAreVouchers
SYMMETRY Interchangeable
