\* Two login pages of one number; requests die, messages and answers get lost.
SPECIFICATION FairSpec
CONSTANTS
  None = None
  Wrong = Wrong
  k1 = k1
  k2 = k2
  k3 = k3
  k4 = k4
  a = a
  b = b
  Codes = {k1, k2, k3, k4}
  Pages = {a, b}
  Patient = a
  MaxRequests = 1
  MaxAttempts = 2
  Faults = TRUE
INVARIANTS TypeOK OneSender TriesBounded
PROPERTIES CodeLasts NumberRecovers
CHECK_DEADLOCK FALSE
