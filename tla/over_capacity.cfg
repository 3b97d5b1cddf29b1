\* A stale availability write against a claim.
SPECIFICATION Spec
CONSTANTS
  None = None
  o1 = o1
  o2 = o2
  o3 = o3
  c1 = c1
  c2 = c2
  p1 = p1
  p2 = p2
  p3 = p3
  bike = bike
  car = car
  Orders = {o1, o2}
  Couriers = {c1}
  Vehicles = {bike}
  Procs = {p1, p2}
  VehicleOf <- OneVehicle
  Linked = {}
  Limit = 1
  Ops = {"accept", "assign", "goOnline"}
INVARIANTS CapacityRespected
SYMMETRY Interchangeable
CHECK_DEADLOCK FALSE
