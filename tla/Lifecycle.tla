----------------------------- MODULE Lifecycle ------------------------------
(***************************************************************************)
(* What dispatching promises about orders, with no transaction, lock or    *)
(* request in sight: each order walks through its statuses one legal step  *)
(* at a time, atomically, and each step leaves one event that names both   *)
(* ends of it.  Dispatch implements this specification.                    *)
(***************************************************************************)
CONSTANTS Orders, Couriers, Linked, None

VARIABLES row,     \* status and courier of each order
          trail    \* the last event of each order

Status == {"REQUESTED", "ASSIGNED", "PICKED_UP", "DELIVERED", "CANCELLED"}

Open      == [status |-> "REQUESTED", courier |-> None]
With(c)   == [status |-> "ASSIGNED", courier |-> c]
OnRoad(c) == [status |-> "PICKED_UP", courier |-> c]
Done(c)   == [status |-> "DELIVERED", courier |-> c]
Cancelled == [status |-> "CANCELLED", courier |-> None]

\* The versions an order may have, and those that may follow one another.
Legal(o) ==
  {Open} \cup {With(c) : c \in Couriers} \cup {OnRoad(c) : c \in Couriers}
    \cup {Done(c) : c \in Couriers}
    \cup (IF o \in Linked THEN {Done(None)} ELSE {Cancelled})

Follows(o, old, new) ==
  \/ old = Open /\ \E c \in Couriers : new = With(c)                    \* claimed, assigned
  \/ \E c \in Couriers : old = With(c) /\ new = Open                    \* rejected
  \/ \E c, d \in Couriers : c # d /\ old = With(c) /\ new = With(d)     \* reassigned
  \/ \E c \in Couriers : old = With(c) /\ new = OnRoad(c)               \* picked up
  \/ \E c \in Couriers : old = OnRoad(c) /\ new = Done(c)               \* delivered
  \/ o \notin Linked /\ old = Open /\ new = Cancelled                   \* by the customer
  \/ o \in Linked /\ old = Open /\ new = Done(None)                     \* by the store

Init ==
  /\ row = [o \in Orders |-> Open]
  /\ trail = [o \in Orders |-> [from |-> None, to |-> "REQUESTED"]]

Advance(o, new) ==
  /\ Follows(o, row[o], new)
  /\ row' = [row EXCEPT ![o] = new]
  /\ trail' = [trail EXCEPT ![o] = [from |-> row[o].status, to |-> new.status]]

Next == \E o \in Orders : \E new \in Legal(o) : Advance(o, new)

Spec == Init /\ [][Next]_<<row, trail>>
=============================================================================
