\* One browser with two calls at a time, no logout and no trouble.
SPECIFICATION Spec
CONSTANTS
  None = None
  k1 = k1
  k2 = k2
  k3 = k3
  k4 = k4
  one = one
  r1 = r1
  r2 = r2
  Keys = {k1, k2, k3}
  Browsers = {one}
  App <- Customers
  Requests = {r1, r2}
  Owner <- OneOwner
  Makes <- OnlyCalls
  Trouble = FALSE
PROPERTIES RefreshUnnoticed
CHECK_DEADLOCK FALSE
