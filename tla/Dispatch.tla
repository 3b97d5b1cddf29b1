------------------------------ MODULE Dispatch ------------------------------
(***************************************************************************)
(* The dispatch core of the API: couriers who go on and off line, the      *)
(* orders they accept, reject, pick up and deliver, the operator and the   *)
(* WooCommerce store who assign and reassign them, the administrator who   *)
(* suspends couriers and changes their vehicle, the customer who cancels,  *)
(* and the payment of each order.  Every handler is split into the         *)
(* database statements it awaits, so that any two requests interleave at   *)
(* every await, and a request may die between any two of them.             *)
(*                                                                         *)
(* An update statement that finds its row locked waits, and evaluates its  *)
(* WHERE again on the row the other transaction leaves.  Waiting is        *)
(* implicit here: the action of a statement whose row is locked and        *)
(* matches is disabled.  A request whose first statement would refuse it   *)
(* changes nothing and is not modelled as a step.                          *)
(*                                                                         *)
(* The operators marked (Slip: ...) are no part of the system: each is a   *)
(* handler with one mistake in it, kept to see that the properties notice. *)
(***************************************************************************)
EXTENDS RowStore, Integers, FiniteSets

CONSTANTS
  Orders, Couriers, Vehicles,
  Procs,        \* requests the API serves at the same time
  VehicleOf,    \* the vehicle type each order was quoted for
  Linked,       \* orders imported from WooCommerce (with an external link)
  Limit,        \* COURIER_ACTIVE_ORDER_LIMIT
  Ops           \* the operations the clients of this instance use

ASSUME VehicleAssumption == VehicleOf \in [Orders -> Vehicles]
ASSUME LinkedAssumption  == Linked \subseteq Orders
ASSUME LimitAssumption   == Limit \in Nat \ {0}
ASSUME OrdersAssumption  == IsFiniteSet(Orders)

VARIABLES
  order,        \* orders: status and courier
  courier,      \* couriers, with the status of their user account
  payment,      \* payments: the status of the payment of each order
  trail,        \* the last committed order_events row of each order
  payTrail,     \* the last committed payment_events row of each order
  tx            \* what each request is doing

vars == <<order, courier, payment, trail, payTrail, tx>>
-----------------------------------------------------------------------------
OrderStatus   == {"REQUESTED", "ASSIGNED", "PICKED_UP", "DELIVERED", "CANCELLED"}
CourierStatus == {"OFFLINE", "AVAILABLE", "BUSY", "SUSPENDED"}
AccountStatus == {"ACTIVE", "SUSPENDED"}
PaymentStatus == {"PENDING", "PAID", "CANCELLED"}

Active   == {"ASSIGNED", "PICKED_UP"}
Terminal == {"DELIVERED", "CANCELLED"}

OrderRow   == [status : OrderStatus, courier : Couriers \cup {None}]
CourierRow == [status : CourierStatus, vehicle : Vehicles, account : AccountStatus]

Event(from, to) == [from |-> from, to |-> to]
OrderEvent      == [from : OrderStatus \cup {None}, to : OrderStatus]
PaymentEvent    == [from : PaymentStatus \cup {None}, to : PaymentStatus]

ASSUME NoneAssumption ==
  None \notin Orders \cup Couriers \cup Vehicles \cup Procs \cup OrderRow
                \cup OrderEvent \cup PaymentEvent

CourierOps == {"accept", "reject", "pickUp", "deliver", "goOnline", "goOffline"}
StaffOps   == {"assign", "reassign", "suspend", "activate", "changeVehicle", "markPaid"}
StoreOps   == {"wooAssign", "wooSync"}
AllOps     == CourierOps \cup StaffOps \cup StoreOps \cup {"cancel"}

Step == {"none", "claimCourier", "claimOrder", "readCourier", "reserveScan",
         "reserve", "countActive", "move", "releaseScan", "release", "setAvailability",
         "countForVehicle", "setVehicle", "countForSuspend", "setSuspended",
         "setActivated", "cancelOrder", "readPayment", "cancelPayment",
         "syncOrder", "payPayment", "commit"}

\* A request in progress: its handler, the statement it awaits next, its
\* arguments, what it read and will use again, and the audit rows it inserts.
Request ==
  [op : AllOps \cup {None}, step : Step, o : Orders \cup {None},
   c : Couriers \cup {None}, seen : OrderRow \cup {None},
   vehicle : Vehicles \cup {None}, rel : Couriers \cup {None},
   event : OrderEvent \cup {None}, payEvent : PaymentEvent \cup {None}]

NoRequest ==
  [op |-> None, step |-> "none", o |-> None, c |-> None, seen |-> None,
   vehicle |-> None, rel |-> None, event |-> None, payEvent |-> None]

TypeOK ==
  /\ order \in [Orders -> Rows(OrderRow, Procs)]
  /\ courier \in [Couriers -> Rows(CourierRow, Procs)]
  /\ payment \in [Orders -> Rows(PaymentStatus, Procs)]
  /\ trail \in [Orders -> OrderEvent]
  /\ payTrail \in [Orders -> PaymentEvent]
  /\ tx \in [Procs -> Request]

\* Orders just placed or imported, couriers at work or at home.
Init ==
  /\ order = [o \in Orders |-> Row([status |-> "REQUESTED", courier |-> None])]
  /\ courier \in [Couriers -> {Row(r) : r \in
       [status : {"OFFLINE", "AVAILABLE"}, vehicle : Vehicles, account : {"ACTIVE"}]}]
  /\ payment \in {f \in [Orders -> {Row("PENDING"), Row("PAID")}] :
                    \A o \in Orders : f[o] = Row("PAID") => o \in Linked}
  /\ trail = [o \in Orders |-> Event(None, "REQUESTED")]
  /\ payTrail = [o \in Orders |-> Event(None, payment[o].at)]
  /\ tx = [p \in Procs |-> NoRequest]
-----------------------------------------------------------------------------
(* What handlers are made of. *)

At(p, step) == tx[p].step = step

\* Request r arrives at an idle worker, its guards and first reads passed.
Begin(p, r) ==
  /\ tx[p] = NoRequest
  /\ r.op \in Ops
  /\ tx' = [tx EXCEPT ![p] = r]

GoTo(p, next) == tx' = [tx EXCEPT ![p].step = next]

\* (Slip: the courier's row stays locked after a rollback.)
RollbackLeaky(p) ==
  /\ order' = [o \in Orders |-> Undo(order[o], p)]
  /\ payment' = [o \in Orders |-> Undo(payment[o], p)]
  /\ tx' = [tx EXCEPT ![p] = NoRequest]
  /\ UNCHANGED <<courier, trail, payTrail>>

\* The transaction is rolled back and the request answered with an error.
Rollback(p) ==
  /\ order' = [o \in Orders |-> Undo(order[o], p)]
  /\ courier' = [c \in Couriers |-> Undo(courier[c], p)]
  /\ payment' = [o \in Orders |-> Undo(payment[o], p)]
  /\ tx' = [tx EXCEPT ![p] = NoRequest]
  /\ UNCHANGED <<trail, payTrail>>

\* updateMany on the order of request p: the row is locked and written, or
\* its count is 0 and the handler throws.
UpdateOrder(p, matches, new, event, next) ==
  LET o == tx[p].o IN
  \/ /\ matches
     /\ Free(order[o], p)
     /\ order' = [order EXCEPT ![o] = Put(@, p, new)]
     /\ tx' = [tx EXCEPT ![p].step = next, ![p].event = event]
     /\ UNCHANGED <<courier, payment, trail, payTrail>>
  \/ /\ ~matches
     /\ Rollback(p)

\* updateMany on the courier of request p.
UpdateCourier(p, matches, new, next) ==
  LET c == tx[p].c IN
  \/ /\ matches
     /\ Free(courier[c], p)
     /\ courier' = [courier EXCEPT ![c] = Put(@, p, new)]
     /\ GoTo(p, next)
     /\ UNCHANGED <<order, payment, trail, payTrail>>
  \/ /\ ~matches
     /\ Rollback(p)

\* A read that lets the handler go on, or makes it throw.
Check(p, holds, next) ==
  \/ /\ holds
     /\ GoTo(p, next)
     /\ UNCHANGED <<order, courier, payment, trail, payTrail>>
  \/ /\ ~holds
     /\ Rollback(p)

\* (Slip: assigned orders are not counted.)
ActiveOrdersOnRoad(p, c) ==
  {o \in Orders : Seen(order[o], p).courier = c /\ Seen(order[o], p).status = "PICKED_UP"}

\* The orders request p counts as active for courier c.
ActiveOrders(p, c) ==
  {o \in Orders : Seen(order[o], p).courier = c /\ Seen(order[o], p).status \in Active}

\* COMMIT: drafts and audit rows become visible together, locks are released.
Commit(p) ==
  /\ At(p, "commit")
  /\ order' = [o \in Orders |-> Settle(order[o], p)]
  /\ courier' = [c \in Couriers |-> Settle(courier[c], p)]
  /\ payment' = [o \in Orders |-> Settle(payment[o], p)]
  /\ trail' = IF tx[p].event = None THEN trail
              ELSE [trail EXCEPT ![tx[p].o] = tx[p].event]
  /\ payTrail' = IF tx[p].payEvent = None THEN payTrail
                 ELSE [payTrail EXCEPT ![tx[p].o] = tx[p].payEvent]
  /\ tx' = [tx EXCEPT ![p] = NoRequest]

\* The request dies: the process crashes, the connection drops, Prisma's
\* transaction timeout passes, or PostgreSQL picks it as a deadlock victim.
Abort(p) ==
  /\ tx[p] # NoRequest
  /\ Rollback(p)
-----------------------------------------------------------------------------
(* courier-capacity.ts *)

\* The UPDATE's snapshot: its WHERE selects on the courier and on its user.
ReserveScan(p) ==
  LET row == Seen(courier[tx[p].c], p) IN
  /\ At(p, "reserveScan")
  /\ Check(p, row.status \in {"AVAILABLE", "BUSY"} /\ row.account = "ACTIVE", "reserve")

\* (Slips: the courier is only looked at; or written whatever became of it.)
ReserveUnlocked(p) ==
  /\ At(p, "reserve")
  /\ Check(p, Seen(courier[tx[p].c], p).status \in {"AVAILABLE", "BUSY"}, "countActive")
ReserveByIdOnly(p) ==
  /\ At(p, "reserve")
  /\ UpdateCourier(p, TRUE, [Seen(courier[tx[p].c], p) EXCEPT !.status = "BUSY"], "countActive")

\* The row is locked; only the WHERE of the row itself is evaluated again.
Reserve(p) ==
  LET row == Seen(courier[tx[p].c], p) IN
  /\ At(p, "reserve")
  /\ UpdateCourier(p, row.status \in {"AVAILABLE", "BUSY"},
                   [row EXCEPT !.status = "BUSY"], "countActive")

CountActive(p) ==
  /\ At(p, "countActive")
  /\ Check(p, Cardinality(ActiveOrders(p, tx[p].c)) < Limit, "move")

\* releaseCourierIfIdle: the UPDATE's snapshot holds the courier and the
\* orders of its NOT IN subquery; a miss is no error.
ReleaseScan(p) ==
  LET c == tx[p].rel IN
  /\ At(p, "releaseScan")
  /\ GoTo(p, IF Seen(courier[c], p).status = "BUSY" /\ ActiveOrders(p, c) = {}
             THEN "release" ELSE "commit")
  /\ UNCHANGED <<order, courier, payment, trail, payTrail>>

\* The lock is taken and the row's own condition evaluated again, the
\* subquery is not.
Release(p) ==
  LET c == tx[p].rel
      row == Seen(courier[c], p) IN
  /\ At(p, "release")
  /\ GoTo(p, "commit")
  /\ \/ /\ row.status = "BUSY"
        /\ Free(courier[c], p)
        /\ courier' = [courier EXCEPT ![c] = Put(@, p, [row EXCEPT !.status = "AVAILABLE"])]
     \/ /\ row.status # "BUSY"
        /\ UNCHANGED courier
  /\ UNCHANGED <<order, payment, trail, payTrail>>
-----------------------------------------------------------------------------
(* couriers.service.ts: a courier's own requests.  The JWT guard lets only *)
(* active accounts in.                                                     *)

\* updateAvailability reads the courier, then writes the status by id alone.
ReadAvailability(p, c, op) ==
  /\ op \in {"goOnline", "goOffline"}
  /\ courier[c].at.account = "ACTIVE"
  /\ courier[c].at.status \notin {"SUSPENDED", "BUSY"}
  /\ Begin(p, [NoRequest EXCEPT !.op = op, !.step = "setAvailability", !.c = c])
  /\ UNCHANGED <<order, courier, payment, trail, payTrail>>

SetAvailability(p) ==
  LET row == Seen(courier[tx[p].c], p)
      new == IF tx[p].op = "goOnline" THEN "AVAILABLE" ELSE "OFFLINE" IN
  /\ At(p, "setAvailability")
  /\ UpdateCourier(p, TRUE, [row EXCEPT !.status = new], "commit")

\* acceptOrder reads its profile, then claims the courier, then the order.
ReadForAccept(p, c, o) ==
  /\ courier[c].at.account = "ACTIVE"
  /\ courier[c].at.status = "AVAILABLE"
  /\ Begin(p, [NoRequest EXCEPT !.op = "accept", !.step = "claimCourier", !.o = o, !.c = c,
                                !.vehicle = courier[c].at.vehicle])
  /\ UNCHANGED <<order, courier, payment, trail, payTrail>>

ClaimCourier(p) ==
  LET row == Seen(courier[tx[p].c], p) IN
  /\ At(p, "claimCourier")
  /\ UpdateCourier(p, row.status = "AVAILABLE", [row EXCEPT !.status = "BUSY"], "claimOrder")

\* (Slip: the claim trusts the queue the courier was shown.)
ClaimOrderFromQueue(p) ==
  /\ At(p, "claimOrder")
  /\ UpdateOrder(p, VehicleOf[tx[p].o] = tx[p].vehicle,
                 [status |-> "ASSIGNED", courier |-> tx[p].c],
                 Event("REQUESTED", "ASSIGNED"), "commit")

ClaimOrder(p) ==
  LET o == tx[p].o IN
  /\ At(p, "claimOrder")
  /\ UpdateOrder(p, /\ Seen(order[o], p) = [status |-> "REQUESTED", courier |-> None]
                    /\ VehicleOf[o] = tx[p].vehicle
                    /\ o \notin Linked,
                 [status |-> "ASSIGNED", courier |-> tx[p].c],
                 Event("REQUESTED", "ASSIGNED"), "commit")

\* Reject, pick-up and delivery start with the conditional update of the
\* courier's own order; while the row is locked the request waits unseen.
StartOnOwnOrder(p, c, o, from, new, r) ==
  /\ courier[c].at.account = "ACTIVE"
  /\ order[o].at = [status |-> from, courier |-> c]
  /\ Free(order[o], p)
  /\ order' = [order EXCEPT ![o] = Put(@, p, new)]
  /\ Begin(p, [r EXCEPT !.o = o, !.c = c, !.event = Event(from, new.status)])
  /\ UNCHANGED <<courier, payment, trail, payTrail>>

\* (Slip: an order on the road can be handed back.)
RejectOrderOnRoad(p, c, o) ==
  StartOnOwnOrder(p, c, o, order[o].at.status, [status |-> "REQUESTED", courier |-> None],
                  [NoRequest EXCEPT !.op = "reject", !.step = "releaseScan", !.rel = c])

RejectOrder(p, c, o) ==
  StartOnOwnOrder(p, c, o, "ASSIGNED", [status |-> "REQUESTED", courier |-> None],
                  [NoRequest EXCEPT !.op = "reject", !.step = "releaseScan", !.rel = c])

PickUpOrder(p, c, o) ==
  StartOnOwnOrder(p, c, o, "ASSIGNED", [status |-> "PICKED_UP", courier |-> c],
                  [NoRequest EXCEPT !.op = "pickUp", !.step = "commit"])

\* markDelivered reads the order before it updates it, with the same filter.
DeliverOrder(p, c, o) ==
  StartOnOwnOrder(p, c, o, "PICKED_UP", [status |-> "DELIVERED", courier |-> c],
                  [NoRequest EXCEPT !.op = "deliver", !.step = "releaseScan", !.rel = c])
-----------------------------------------------------------------------------
(* admin.service.ts and woocommerce-integration.service.ts: dispatching by *)
(* the operator and by the store.                                          *)

\* The transaction's first read: the order, and the courier it has to leave.
BeginDispatch(p, op, o, c) ==
  /\ Begin(p, [NoRequest EXCEPT !.op = op, !.step = "readCourier", !.o = o, !.c = c,
                                !.seen = order[o].at, !.rel = order[o].at.courier])
  /\ UNCHANGED <<order, courier, payment, trail, payTrail>>

AssignRead(p, o, c) ==
  /\ order[o].at = [status |-> "REQUESTED", courier |-> None]
  /\ BeginDispatch(p, "assign", o, c)

\* (Slip: an order may be reassigned to the courier it has.)
ReassignReadToSame(p, o, c) ==
  /\ order[o].at.status = "ASSIGNED"
  /\ BeginDispatch(p, "reassign", o, c)

ReassignRead(p, o, c) ==
  /\ order[o].at.status = "ASSIGNED"
  /\ order[o].at.courier \notin {None, c}
  /\ BeginDispatch(p, "reassign", o, c)

\* A store's repeated assignment to the same courier is answered unchanged.
WooAssignRead(p, o, c) ==
  /\ o \in Linked
  /\ order[o].at.status \in {"REQUESTED", "ASSIGNED"}
  /\ order[o].at # [status |-> "ASSIGNED", courier |-> c]
  /\ BeginDispatch(p, "wooAssign", o, c)

\* (Slip: the vehicle is not compared.)
ReadTargetCourierUnmatched(p) ==
  /\ At(p, "readCourier")
  /\ Check(p, tx[p].op = "wooAssign" => courier[tx[p].c].at.account = "ACTIVE", "reserveScan")

\* The target courier's vehicle, and for the store its account, are read once.
ReadTargetCourier(p) ==
  LET row == courier[tx[p].c].at IN
  /\ At(p, "readCourier")
  /\ Check(p, /\ row.vehicle = VehicleOf[tx[p].o]
              /\ tx[p].op = "wooAssign" => row.account = "ACTIVE", "reserveScan")

\* The order moves if it still is as it was read.
MoveOrder(p, op, next) ==
  /\ At(p, "move")
  /\ tx[p].op = op
  /\ UpdateOrder(p, Seen(order[tx[p].o], p) = tx[p].seen,
                 [status |-> "ASSIGNED", courier |-> tx[p].c],
                 Event(tx[p].seen.status, "ASSIGNED"), next)

AssignMove(p)    == MoveOrder(p, "assign", "commit")
\* (Slip: the courier left behind is forgotten.)
ReassignMoveOnly(p) == MoveOrder(p, "reassign", "commit")
ReassignMove(p)  == MoveOrder(p, "reassign", "releaseScan")
WooAssignMove(p) ==
  MoveOrder(p, "wooAssign", IF tx[p].seen.status = "ASSIGNED" THEN "releaseScan" ELSE "commit")
-----------------------------------------------------------------------------
(* woocommerce-integration.service.ts: the store reports its own status.   *)

SyncRead(p, o) ==
  /\ o \in Linked
  /\ order[o].at.status = "REQUESTED"
  /\ Begin(p, [NoRequest EXCEPT !.op = "wooSync", !.step = "syncOrder", !.o = o])
  /\ UNCHANGED <<order, courier, payment, trail, payTrail>>

SyncOrder(p) ==
  LET row == Seen(order[tx[p].o], p) IN
  /\ At(p, "syncOrder")
  /\ UpdateOrder(p, row.status = "REQUESTED", [row EXCEPT !.status = "DELIVERED"],
                 Event("REQUESTED", "DELIVERED"), "commit")
-----------------------------------------------------------------------------
(* admin-courier.service.ts *)

\* update: status and active orders are read before the transaction starts.
ReadForVehicle(p, c, v) ==
  /\ courier[c].at.vehicle # v
  /\ courier[c].at.status \in {"OFFLINE", "SUSPENDED"}
  /\ Begin(p, [NoRequest EXCEPT !.op = "changeVehicle", !.step = "countForVehicle",
                                !.c = c, !.vehicle = v])
  /\ UNCHANGED <<order, courier, payment, trail, payTrail>>

CountForVehicle(p) ==
  /\ At(p, "countForVehicle")
  /\ Check(p, ActiveOrders(p, tx[p].c) = {}, "setVehicle")

\* (Slip: a missing field is written as NULL.)
SetVehicleCleared(p) ==
  LET row == Seen(courier[tx[p].c], p) IN
  /\ At(p, "setVehicle")
  /\ UpdateCourier(p, row.status \in {"OFFLINE", "SUSPENDED"},
                   [row EXCEPT !.vehicle = None], "commit")

SetVehicle(p) ==
  LET row == Seen(courier[tx[p].c], p) IN
  /\ At(p, "setVehicle")
  /\ UpdateCourier(p, row.status \in {"OFFLINE", "SUSPENDED"},
                   [row EXCEPT !.vehicle = tx[p].vehicle], "commit")

ReadForSuspend(p, c) ==
  /\ courier[c].at.status \notin {"SUSPENDED", "BUSY"}
  /\ Begin(p, [NoRequest EXCEPT !.op = "suspend", !.step = "countForSuspend", !.c = c])
  /\ UNCHANGED <<order, courier, payment, trail, payTrail>>

CountForSuspend(p) ==
  /\ At(p, "countForSuspend")
  /\ Check(p, ActiveOrders(p, tx[p].c) = {}, "setSuspended")

\* (Slip: the courier may have got an order since they were counted.)
SetSuspendedByIdOnly(p) ==
  LET row == Seen(courier[tx[p].c], p) IN
  /\ At(p, "setSuspended")
  /\ UpdateCourier(p, TRUE, [row EXCEPT !.status = "SUSPENDED", !.account = "SUSPENDED"],
                   "commit")

\* The courier row, then its user row, which nobody else writes unless it
\* holds the courier row: one update of both here.
SetSuspended(p) ==
  LET row == Seen(courier[tx[p].c], p) IN
  /\ At(p, "setSuspended")
  /\ UpdateCourier(p, row.status \in {"OFFLINE", "AVAILABLE"},
                   [row EXCEPT !.status = "SUSPENDED", !.account = "SUSPENDED"], "commit")

ReadForActivate(p, c) ==
  /\ courier[c].at.status = "SUSPENDED"
  /\ Begin(p, [NoRequest EXCEPT !.op = "activate", !.step = "setActivated", !.c = c])
  /\ UNCHANGED <<order, courier, payment, trail, payTrail>>

SetActivated(p) ==
  LET row == Seen(courier[tx[p].c], p) IN
  /\ At(p, "setActivated")
  /\ UpdateCourier(p, row.status = "SUSPENDED",
                   [row EXCEPT !.status = "OFFLINE", !.account = "ACTIVE"], "commit")
-----------------------------------------------------------------------------
(* orders.service.ts cancel, and admin-payment.service.ts markPaid.        *)

\* The store's customer account cannot sign in: it cancels nothing.
ReadForCancel(p, o) ==
  /\ o \notin Linked
  /\ order[o].at.status = "REQUESTED"
  /\ Begin(p, [NoRequest EXCEPT !.op = "cancel", !.step = "cancelOrder", !.o = o])
  /\ UNCHANGED <<order, courier, payment, trail, payTrail>>

\* (Slip: the order may have been taken since it was read.)
CancelOrderByIdOnly(p) ==
  /\ At(p, "cancelOrder")
  /\ UpdateOrder(p, TRUE, [Seen(order[tx[p].o], p) EXCEPT !.status = "CANCELLED"],
                 Event("REQUESTED", "CANCELLED"), "readPayment")

CancelOrder(p) ==
  LET row == Seen(order[tx[p].o], p) IN
  /\ At(p, "cancelOrder")
  /\ UpdateOrder(p, row.status = "REQUESTED", [row EXCEPT !.status = "CANCELLED"],
                 Event("REQUESTED", "CANCELLED"), "readPayment")

\* (Slip: a paid payment is cancelled too.)
ReadPaymentForCancelBlind(p) ==
  /\ At(p, "readPayment")
  /\ GoTo(p, "cancelPayment")
  /\ UNCHANGED <<order, courier, payment, trail, payTrail>>

\* The payment is read here and written, by id alone, a statement later.
ReadPaymentForCancel(p) ==
  /\ At(p, "readPayment")
  /\ GoTo(p, IF Seen(payment[tx[p].o], p) = "PENDING" THEN "cancelPayment" ELSE "commit")
  /\ UNCHANGED <<order, courier, payment, trail, payTrail>>

WritePayment(p, status, from) ==
  LET o == tx[p].o IN
  /\ Free(payment[o], p)
  /\ payment' = [payment EXCEPT ![o] = Put(@, p, status)]
  /\ tx' = [tx EXCEPT ![p].step = "commit", ![p].payEvent = Event(from, status)]
  /\ UNCHANGED <<order, courier, trail, payTrail>>

\* (Slip: no event for the payment.)
CancelPaymentUnaudited(p) ==
  LET o == tx[p].o IN
  /\ At(p, "cancelPayment")
  /\ Free(payment[o], p)
  /\ payment' = [payment EXCEPT ![o] = Put(@, p, "CANCELLED")]
  /\ GoTo(p, "commit")
  /\ UNCHANGED <<order, courier, trail, payTrail>>

CancelPayment(p) ==
  /\ At(p, "cancelPayment")
  /\ WritePayment(p, "CANCELLED", "PENDING")

ReadForPaid(p, o) ==
  /\ payment[o].at = "PENDING"
  /\ Begin(p, [NoRequest EXCEPT !.op = "markPaid", !.step = "payPayment", !.o = o])
  /\ UNCHANGED <<order, courier, payment, trail, payTrail>>

PayPayment(p) ==
  LET pending == Seen(payment[tx[p].o], p) = "PENDING" IN
  /\ At(p, "payPayment")
  /\ \/ pending /\ WritePayment(p, "PAID", "PENDING")
     \/ ~pending /\ Rollback(p)
-----------------------------------------------------------------------------
\* A request reaches the API.
Arrive(p) ==
  \/ \E o \in Orders, c \in Couriers :
       \/ ReadForAccept(p, c, o)
       \/ RejectOrder(p, c, o)
       \/ PickUpOrder(p, c, o)
       \/ DeliverOrder(p, c, o)
       \/ AssignRead(p, o, c)
       \/ ReassignRead(p, o, c)
       \/ WooAssignRead(p, o, c)
  \/ \E o \in Orders : SyncRead(p, o) \/ ReadForCancel(p, o) \/ ReadForPaid(p, o)
  \/ \E c \in Couriers :
       \/ \E op \in {"goOnline", "goOffline"} : ReadAvailability(p, c, op)
       \/ \E v \in Vehicles : ReadForVehicle(p, c, v)
       \/ ReadForSuspend(p, c)
       \/ ReadForActivate(p, c)

\* The next statement of a request in progress.
Continue(p) ==
  \/ ClaimCourier(p) \/ ClaimOrder(p)
  \/ ReadTargetCourier(p) \/ ReserveScan(p) \/ Reserve(p) \/ CountActive(p)
  \/ AssignMove(p) \/ ReassignMove(p) \/ WooAssignMove(p)
  \/ ReleaseScan(p) \/ Release(p)
  \/ SetAvailability(p)
  \/ CountForVehicle(p) \/ SetVehicle(p)
  \/ CountForSuspend(p) \/ SetSuspended(p) \/ SetActivated(p)
  \/ CancelOrder(p) \/ ReadPaymentForCancel(p) \/ CancelPayment(p)
  \/ SyncOrder(p) \/ PayPayment(p)
  \/ Commit(p)

Next == \E p \in Procs : Arrive(p) \/ Continue(p) \/ Abort(p)

Spec == Init /\ [][Next]_vars

\* PostgreSQL queues the writers of a row: a request whose statement can
\* run again and again runs at last.
FairSpec == Spec /\ \A p \in Procs : SF_vars(Continue(p))

\* The rows that the next UPDATE of request p is about to lock, if they still
\* qualify as they are committed; the others are not waited for.
CourierRowNeeded(p, c) ==
  LET status == courier[c].at.status IN
  \/ /\ c = tx[p].c
     /\ \/ At(p, "claimCourier") /\ status = "AVAILABLE"
        \/ At(p, "reserve")      /\ status \in {"AVAILABLE", "BUSY"}
        \/ At(p, "setAvailability")
        \/ At(p, "setVehicle")   /\ status \in {"OFFLINE", "SUSPENDED"}
        \/ At(p, "setSuspended") /\ status \in {"OFFLINE", "AVAILABLE"}
        \/ At(p, "setActivated") /\ status = "SUSPENDED"
  \/ c = tx[p].rel /\ At(p, "release") /\ status = "BUSY"

OrderRowNeeded(p, o) ==
  /\ o = tx[p].o
  /\ \/ /\ At(p, "claimOrder")
        /\ order[o].at = [status |-> "REQUESTED", courier |-> None]
        /\ VehicleOf[o] = tx[p].vehicle
        /\ o \notin Linked
     \/ At(p, "move") /\ order[o].at = tx[p].seen
     \/ tx[p].step \in {"syncOrder", "cancelOrder"} /\ order[o].at.status = "REQUESTED"

PaymentRowNeeded(p, o) ==
  /\ o = tx[p].o
  /\ \/ At(p, "cancelPayment")
     \/ At(p, "payPayment") /\ payment[o].at = "PENDING"

\* Request p waits for request q to end.
WaitsFor(p, q) ==
  /\ p # q
  /\ \/ \E c \in Couriers : courier[c].by = q /\ CourierRowNeeded(p, c)
     \/ \E o \in Orders : order[o].by = q /\ OrderRowNeeded(p, o)
     \/ \E o \in Orders : payment[o].by = q /\ PaymentRowNeeded(p, o)

\* Requests that only wait for each other.
Deadlocked(D) == D # {} /\ \A p \in D : \E q \in D : WaitsFor(p, q)

\* PostgreSQL's deadlock detector ends one of the requests of a cycle.
Cycle(D) == Deadlocked(D) /\ \A E \in SUBSET D : Deadlocked(E) => E = D

DetectSpec == FairSpec /\ WF_vars(\E D \in SUBSET Procs : Cycle(D) /\ \E p \in D : Abort(p))
-----------------------------------------------------------------------------
(* What the committed database promises: a client can read nothing else.   *)

\* Whatever requests interleave, wait and die: the orders walk through their
\* lifecycle one audited step at a time.
Committed == [o \in Orders |-> order[o].at]
Life == INSTANCE Lifecycle WITH row <- Committed
OrdersFollowLifecycle == Life!Spec

\* No order is in work without a courier, held by one while it is open or
\* cancelled, or DELIVERED by nobody unless it was imported.
OrdersConsistent == \A o \in Orders : order[o].at \in Life!Legal(o)

\* The audit trail explains the order: its last event leads to its status.
TrailMatches == \A o \in Orders : trail[o].to = order[o].at.status

\* DELIVERED and CANCELLED are final; what left with a courier stays with it.
CustodyKept ==
  [][\A o \in Orders :
       /\ order[o].at.status \in Terminal => order'[o].at = order[o].at
       /\ order[o].at.status = "PICKED_UP" =>
            order'[o].at.courier = order[o].at.courier]_vars

\* The active orders of a courier.
Load(c) == {o \in Orders : order[o].at.courier = c /\ order[o].at.status \in Active}

\* No courier ever holds more active orders than the limit.
CapacityRespected == \A c \in Couriers : Cardinality(Load(c)) <= Limit

\* A courier with an active order is on line: whatever claim, assignment or
\* suspension comes first, the other finds out.
WorkersOnLine ==
  \A c \in Couriers : Load(c) # {} => courier[c].at.status \in {"AVAILABLE", "BUSY"}

\* A courier with an active order is BUSY: it is neither offered the queue,
\* nor sent home, nor moved to another vehicle.
WorkingIsBusy == \A c \in Couriers : Load(c) # {} => courier[c].at.status = "BUSY"

\* A courier nobody waits for is not kept BUSY: the last job gives it back.
BusyIsWorking == \A c \in Couriers : courier[c].at.status = "BUSY" => Load(c) # {}

\* Who carries an order has the vehicle the order was priced for.
VehicleMatches ==
  \A c \in Couriers : \A o \in Load(c) : courier[c].at.vehicle = VehicleOf[o]

\* A courier is suspended exactly when its account is.
SuspensionHolds ==
  \A c \in Couriers :
    courier[c].at.status = "SUSPENDED" <=> courier[c].at.account = "SUSPENDED"

\* Payment events chain, and end in the payment's status.
PaymentTrailMatches == \A o \in Orders : payTrail[o].to = payment[o].at
PaymentTrailChains ==
  [][\A o \in Orders : payTrail'[o] # payTrail[o] => payTrail'[o].from = payTrail[o].to]_vars

\* A request that has reserved a courier for an order another courier has.
Reassigning(p) ==
  /\ tx[p].step \in {"move", "release"}
  /\ tx[p].op \in {"reassign", "wooAssign"}
  /\ tx[p].rel # None

\* Whatever waits for each other, there are reassignments among it, each of an
\* order of a courier that another of them has reserved: crosswise, or in a
\* longer circle.  All others lock the courier before the order, and an order
\* is never moved to its own courier.
DeadlocksAreCrosswise ==
  \A D \in SUBSET Procs : Deadlocked(D) =>
    /\ \E p \in D : Reassigning(p)
    /\ \A p \in D : Reassigning(p) =>
         \E q \in D \ {p} : Reassigning(q) /\ tx[q].c = tx[p].rel

\* Every request is answered; no client is kept waiting for good.
EveryRequestEnds == \A p \in Procs : tx[p] # NoRequest ~> tx[p] = NoRequest
-----------------------------------------------------------------------------
(* The inductive invariant behind the promises about orders.               *)

DispatchSteps == {"readCourier", "reserveScan", "reserve", "countActive", "move"}
CourierSteps  == DispatchSteps \cup {"claimCourier", "claimOrder", "setAvailability",
                   "countForVehicle", "setVehicle", "countForSuspend", "setSuspended",
                   "setActivated"}
OrderSteps    == DispatchSteps \cup {"claimCourier", "claimOrder", "cancelOrder", "syncOrder",
                   "readPayment", "cancelPayment", "payPayment"}
UnwrittenSteps == CourierSteps \cup {"none", "cancelOrder", "syncOrder", "payPayment"}

\* What a request knows at the statement it awaits.
RequestKnows(t) ==
  /\ t.step \in CourierSteps => t.c \in Couriers
  /\ t.step \in OrderSteps => t.o \in Orders
  /\ t.step \in UnwrittenSteps => t.event = None
  /\ t.step \in {"releaseScan", "release"} => t.rel \in Couriers
  /\ t.step \in {"countForVehicle", "setVehicle"} => t.vehicle \in Vehicles
  /\ t.step \in DispatchSteps =>
       \/ t.op # "reassign" /\ t.seen = Life!Open
       \/ \E d \in Couriers \ {t.c} : t.rel = d /\ t.seen = Life!With(d)
  /\ t.step = "cancelOrder" => t.o \notin Linked
  /\ t.step = "syncOrder" => t.o \in Linked

\* A written order belongs to one request, which will audit exactly the step
\* from the committed version to the written one.
DraftsAudited ==
  \A o \in Orders :
    LET row == order[o] IN
    /\ row.by = None => row.draft = row.at
    /\ row.by # None =>
         /\ Life!Follows(o, row.at, row.draft)
         /\ tx[row.by].o = o
         /\ tx[row.by].event = Event(row.at.status, row.draft.status)

\* A request that has an event to insert has written its order.
EventsWritten ==
  \A p \in Procs : tx[p].event # None =>
    /\ tx[p].o \in Orders
    /\ order[tx[p].o].by = p

OrderInv ==
  /\ TypeOK
  /\ OrdersConsistent
  /\ TrailMatches
  /\ \A p \in Procs : RequestKnows(tx[p])
  /\ DraftsAudited
  /\ EventsWritten
=============================================================================
