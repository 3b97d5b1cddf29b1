\* Two requests at a time and two couriers who do not go on or off line.
SPECIFICATION Spec
CONSTANTS
  None = None
  o1 = o1
  o2 = o2
  o3 = o3
  c1 = c1
  c2 = c2
  p1 = p1
  p2 = p2
  p3 = p3
  bike = bike
  car = car
  Orders = {o1, o2}
  Couriers = {c1, c2}
  Vehicles = {bike, car}
  Procs = {p1, p2}
  VehicleOf <- OneVehicle
  Linked = {o2}
  Limit = 1
  Ops = {"accept", "reject", "pickUp", "deliver", "assign", "reassign", "wooAssign", "wooSync", "cancel", "changeVehicle", "suspend", "activate"}
INVARIANTS OrderInv CapacityRespected  VehicleMatches SuspensionHolds PaymentTrailMatches
PROPERTIES CustodyKept
SYMMETRY Interchangeable
CHECK_DEADLOCK FALSE
