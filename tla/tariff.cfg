\* Three rules of one vehicle, one quote at a time, each way to route.
SPECIFICATION Spec
CONSTANTS
  None = None
  r1 = r1
  r2 = r2
  r3 = r3
  z1 = z1
  z2 = z2
  Rules = {r1, r2, r3}
  Vehicles = {"MOTORBIKE"}
  Fares <- MCFares
  Zones = {z1, z2}
  Covers <- MCCovers
  InRadius = {"pickup", "dropoff"}
  Requests = {1}
  Distances = {900, 1134}
  Straight = 1134
  Modes = {"auto", "mapir"}
  HasKey = {"mapir", "neshan"}
  OverKm <- MCOverKm
  OverSurge <- MCOverSurge
INVARIANTS TypeOK TwoOnlyByOverlap 
PROPERTIES PriceStays NoWayBack
SYMMETRY MCSymmetry
