\* One request at a time, every operation.
SPECIFICATION Spec
CONSTANTS
  None = None
  o1 = o1
  o2 = o2
  o3 = o3
  c1 = c1
  c2 = c2
  p1 = p1
  p2 = p2
  p3 = p3
  bike = bike
  car = car
  Orders = {o1, o2}
  Couriers = {c1, c2}
  Vehicles = {bike, car}
  Procs = {p1}
  VehicleOf <- OneVehicle
  Linked = {o2}
  Limit = 2
  Ops <- AllOps
INVARIANTS TypeOK WorkingIsBusy BusyIsWorking
PROPERTIES PaymentTrailChains
