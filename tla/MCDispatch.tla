----------------------------- MODULE MCDispatch -----------------------------
(* Dispatch on small instances: one or two vehicles, and one imported order. *)
EXTENDS Dispatch, TLC

CONSTANTS o1, o2, o3, c1, c2, p1, p2, p3, bike, car

OneVehicle == [o \in Orders |-> bike]

\* No action tells couriers, or requests, apart.
Interchangeable == Permutations(Couriers) \cup Permutations(Procs)
=============================================================================
