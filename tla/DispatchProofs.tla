--------------------------- MODULE DispatchProofs ---------------------------
(***************************************************************************)
(* Proofs about Dispatch, for any number of orders, couriers and requests, *)
(* any limit and any set of operations: the audited order lifecycle        *)
(* survives every interleaving and every death of a request, and whoever   *)
(* confirms or cancels a payment, and whoever overtakes whom, the last     *)
(* event of the payment tells its status; unless a confirmation falls into *)
(* a cancellation, each event starts where the one before it ended.        *)
(***************************************************************************)
EXTENDS Dispatch, TLAPS

\* A row stays a row of its table whatever a request does to it.
LEMMA RowsClosed ==
  ASSUME NEW V, NEW W, NEW r \in Rows(V, W), NEW p \in W, NEW v \in V
  PROVE  /\ Put(r, p, v) \in Rows(V, W)
         /\ Settle(r, p) \in Rows(V, W)
         /\ Undo(r, p) \in Rows(V, W)
         /\ Row(v) \in Rows(V, W)
         /\ Seen(r, p) \in V
  BY DEF Rows, Put, Settle, Undo, Row, Seen

\* An event is never mistaken for "no event", nor an order row for "not read".
LEMMA EventsAreSomething ==
  ASSUME NEW f \in OrderStatus \cup {None}, NEW t \in OrderStatus
  PROVE  Event(f, t) \in OrderEvent /\ Event(f, t) # None
  BY NoneAssumption DEF Event, OrderEvent
-----------------------------------------------------------------------------
(* Type correctness.                                                       *)

LEMMA InitTypes == Init => TypeOK
  <1>1. None \notin Procs
    BY NoneAssumption
  <1> QED
  BY DEF Init, TypeOK, Row, Rows, OrderRow, CourierRow, OrderStatus, CourierStatus,
         AccountStatus, PaymentStatus, OrderEvent, PaymentEvent, Event, Request,
         NoRequest, Step

LEMMA RollbackTypes ==
  ASSUME TypeOK, NEW p \in Procs, Rollback(p)
  PROVE  TypeOK'
  <1>1. NoRequest \in Request
    BY DEF NoRequest, Request, Step
  <1>2. /\ \A o \in Orders : Undo(order[o], p) \in Rows(OrderRow, Procs)
        /\ \A c \in Couriers : Undo(courier[c], p) \in Rows(CourierRow, Procs)
        /\ \A o \in Orders : Undo(payment[o], p) \in Rows(PaymentStatus, Procs)
    BY DEF TypeOK, Rows, Undo, Row
  <1> QED
    BY <1>1, <1>2 DEF Rollback, TypeOK

\* A step that only moves a request on, or starts one.
LEMMA MoveOnTypes ==
  ASSUME TypeOK, NEW p \in Procs, NEW r \in Request, tx' = [tx EXCEPT ![p] = r],
         order' \in [Orders -> Rows(OrderRow, Procs)],
         courier' \in [Couriers -> Rows(CourierRow, Procs)],
         payment' \in [Orders -> Rows(PaymentStatus, Procs)],
         UNCHANGED <<trail, payTrail>>
  PROVE  TypeOK'
  BY DEF TypeOK

LEMMA GoToTypes ==
  ASSUME TypeOK, NEW p \in Procs, NEW s \in Step, GoTo(p, s),
         order' \in [Orders -> Rows(OrderRow, Procs)],
         courier' \in [Couriers -> Rows(CourierRow, Procs)],
         payment' \in [Orders -> Rows(PaymentStatus, Procs)],
         UNCHANGED <<trail, payTrail>>
  PROVE  TypeOK'
  <1>1. [tx[p] EXCEPT !.step = s] \in Request
    BY DEF TypeOK, Request
  <1>2. tx' = [tx EXCEPT ![p] = [tx[p] EXCEPT !.step = s]]
    BY DEF GoTo
  <1> QED
    BY <1>1, <1>2, MoveOnTypes

LEMMA CheckTypes ==
  ASSUME TypeOK, NEW p \in Procs, NEW holds \in BOOLEAN, NEW s \in Step, Check(p, holds, s)
  PROVE  TypeOK'
  BY RollbackTypes, GoToTypes DEF Check, TypeOK

LEMMA UpdateCourierTypes ==
  ASSUME TypeOK, NEW p \in Procs, NEW matches \in BOOLEAN, NEW new \in CourierRow,
         NEW s \in Step, UpdateCourier(p, matches, new, s)
  PROVE  TypeOK'
  <1>1. CASE Rollback(p)
    BY <1>1, RollbackTypes
  <1>2. CASE /\ courier' = [courier EXCEPT ![tx[p].c] = Put(@, p, new)]
             /\ GoTo(p, s)
             /\ UNCHANGED <<order, payment, trail, payTrail>>
    <2>1. \A c \in Couriers : Put(courier[c], p, new) \in Rows(CourierRow, Procs)
      BY DEF TypeOK, Rows, Put
    <2>2. courier' \in [Couriers -> Rows(CourierRow, Procs)]
      BY <1>2, <2>1 DEF TypeOK
    <2> QED
      BY <1>2, <2>2, GoToTypes DEF TypeOK
  <1> QED
    BY <1>1, <1>2 DEF UpdateCourier

LEMMA UpdateOrderTypes ==
  ASSUME TypeOK, NEW p \in Procs, NEW matches \in BOOLEAN, NEW new \in OrderRow,
         NEW e \in OrderEvent, NEW s \in Step, UpdateOrder(p, matches, new, e, s)
  PROVE  TypeOK'
  <1>1. CASE Rollback(p)
    BY <1>1, RollbackTypes
  <1>2. CASE /\ order' = [order EXCEPT ![tx[p].o] = Put(@, p, new)]
             /\ tx' = [tx EXCEPT ![p].step = s, ![p].event = e]
             /\ UNCHANGED <<courier, payment, trail, payTrail>>
    <2>1. \A o \in Orders : Put(order[o], p, new) \in Rows(OrderRow, Procs)
      BY DEF TypeOK, Rows, Put
    <2>2. order' \in [Orders -> Rows(OrderRow, Procs)]
      BY <1>2, <2>1 DEF TypeOK
    <2>3. [tx[p] EXCEPT !.step = s, !.event = e] \in Request
      BY DEF TypeOK, Request
    <2>4. tx' = [tx EXCEPT ![p] = [tx[p] EXCEPT !.step = s, !.event = e]]
      BY <1>2 DEF TypeOK
    <2> QED
      BY <1>2, <2>2, <2>3, <2>4, MoveOnTypes DEF TypeOK
  <1> QED
    BY <1>1, <1>2 DEF UpdateOrder
-----------------------------------------------------------------------------
(* The four ways a step can treat the order rows.                          *)

LEMMA InitInv == Init => OrderInv
  <1>1. Init => TypeOK
    BY InitTypes
  <1>2. \A o \in Orders : None \notin OrderEvent
    BY NoneAssumption
  <1>3. ASSUME Init PROVE \A p \in Procs : RequestKnows(tx[p])
    BY <1>3 DEF Init, RequestKnows, NoRequest, CourierSteps, OrderSteps, DispatchSteps
  <1>4. ASSUME Init PROVE OrdersConsistent /\ TrailMatches
    BY <1>4 DEF Init, OrdersConsistent, TrailMatches, Life!Legal, Life!Open, Row, Event
  <1>5. ASSUME Init PROVE DraftsAudited /\ EventsWritten
    BY <1>5 DEF Init, DraftsAudited, EventsWritten, Row, NoRequest
  <1> QED
    BY <1>1, <1>3, <1>4, <1>5 DEF OrderInv

\* It leaves them alone, and takes no event and no order away from a request.
LEMMA QuietStep ==
  ASSUME OrderInv, TypeOK', NEW p \in Procs, NEW r \in Request,
         tx' = [tx EXCEPT ![p] = r], RequestKnows(r), UNCHANGED <<order, trail>>,
         r.event = tx[p].event, r.event # None => r.o = tx[p].o
  PROVE  OrderInv'
  <1>0. tx \in [Procs -> Request]
    BY DEF OrderInv, TypeOK
  <1>1. OrdersConsistent' /\ TrailMatches'
    BY DEF OrderInv, OrdersConsistent, TrailMatches
  <1>2. (\A q \in Procs : RequestKnows(tx[q]))'
    BY <1>0 DEF OrderInv
  <1>3. EventsWritten'
    BY <1>0 DEF OrderInv, EventsWritten
  <1>4. DraftsAudited'
    <2> SUFFICES ASSUME NEW o \in Orders
                 PROVE  /\ order[o].by = None => order[o].draft = order[o].at
                        /\ order[o].by # None =>
                             /\ Life!Follows(o, order[o].at, order[o].draft)
                             /\ tx'[order[o].by].o = o
                             /\ tx'[order[o].by].event
                                  = Event(order[o].at.status, order[o].draft.status)
      BY DEF DraftsAudited
    <2>1. order[o] \in Rows(OrderRow, Procs)
      BY DEF OrderInv, TypeOK
    <2>2. CASE order[o].by = None
      BY <2>2 DEF OrderInv, DraftsAudited
    <2>3. CASE order[o].by # None
      <3>1. order[o].by \in Procs
        BY <2>1, <2>3 DEF Rows
      <3>2. Event(order[o].at.status, order[o].draft.status) # None
        BY <2>1, EventsAreSomething DEF Rows, OrderRow
      <3> QED
        BY <1>0, <2>3, <3>1, <3>2 DEF OrderInv, DraftsAudited
    <2> QED
      BY <2>2, <2>3
  <1> QED
    BY <1>1, <1>2, <1>3, <1>4 DEF OrderInv

\* It drops a request and whatever it wrote.
LEMMA RollbackStep ==
  ASSUME OrderInv, NEW p \in Procs, Rollback(p)
  PROVE  OrderInv'
  <1>0. TypeOK /\ TypeOK'
    BY RollbackTypes DEF OrderInv
  <1>1. \A o \in Orders : order'[o].at = order[o].at
    BY DEF Rollback, Undo, Row
  <1>2. OrdersConsistent' /\ TrailMatches'
    BY <1>1 DEF OrderInv, OrdersConsistent, TrailMatches, Rollback
  <1>3. RequestKnows(NoRequest)
    BY DEF RequestKnows, NoRequest, CourierSteps, OrderSteps, DispatchSteps
  <1>4. (\A q \in Procs : RequestKnows(tx[q]))'
    BY <1>0, <1>3 DEF OrderInv, TypeOK, Rollback
  <1>5. p # None
    BY NoneAssumption
  <1>6. DraftsAudited'
    BY <1>0, <1>5 DEF OrderInv, DraftsAudited, Rollback, Undo, Row, TypeOK, Rows
  <1>7. EventsWritten'
    BY <1>0 DEF OrderInv, EventsWritten, Rollback, Undo, TypeOK, NoRequest
  <1> QED
    BY <1>0, <1>2, <1>4, <1>6, <1>7 DEF OrderInv

\* It writes one order, a legal step away, and remembers the event.
LEMMA WriteStep ==
  ASSUME OrderInv, TypeOK', NEW p \in Procs, NEW o \in Orders, NEW new, NEW r \in Request,
         Free(order[o], p), tx[p].event = None,
         order' = [order EXCEPT ![o] = Put(@, p, new)],
         Life!Follows(o, order[o].at, new),
         tx' = [tx EXCEPT ![p] = r], RequestKnows(r), r.o = o,
         r.event = Event(order[o].at.status, new.status), UNCHANGED trail
  PROVE  OrderInv'
  <1>0. TypeOK /\ tx \in [Procs -> Request]
    BY DEF OrderInv, TypeOK
  <1>1. \A q \in Orders : order'[q].at = order[q].at
    BY <1>0 DEF Put, TypeOK
  <1>2. OrdersConsistent' /\ TrailMatches'
    BY <1>1 DEF OrderInv, OrdersConsistent, TrailMatches
  <1>3. (\A q \in Procs : RequestKnows(tx[q]))'
    BY <1>0 DEF OrderInv
  <1>4. \A q \in Orders : order[q].by # p
    <2> SUFFICES ASSUME NEW q \in Orders, order[q].by = p PROVE FALSE
      OBVIOUS
    <2>1. p # None /\ order[q] \in Rows(OrderRow, Procs)
      BY <1>0, NoneAssumption DEF TypeOK
    <2>2. Event(order[q].at.status, order[q].draft.status) # None
      BY <2>1, EventsAreSomething DEF Rows, OrderRow
    <2> QED
      BY <2>1, <2>2 DEF OrderInv, DraftsAudited
  <1>5. order[o].by = None
    BY <1>4 DEF Free
  <1>6. DraftsAudited'
    <2> SUFFICES ASSUME NEW q \in Orders
                 PROVE  /\ order'[q].by = None => order'[q].draft = order'[q].at
                        /\ order'[q].by # None =>
                             /\ Life!Follows(q, order'[q].at, order'[q].draft)
                             /\ tx'[order'[q].by].o = q
                             /\ tx'[order'[q].by].event
                                  = Event(order'[q].at.status, order'[q].draft.status)
      BY DEF DraftsAudited
    <2>1. CASE q = o
      <3>1. order'[q] = [at |-> order[o].at, draft |-> new, by |-> p]
        BY <1>0, <2>1 DEF Put, TypeOK
      <3> QED
        BY <1>0, <2>1, <3>1, NoneAssumption
    <2>2. CASE q # o
      <3>1. order'[q] = order[q] /\ order[q] \in Rows(OrderRow, Procs)
        BY <1>0, <2>2 DEF TypeOK
      <3>2. order[q].by \in Procs \cup {None} /\ order[q].by # p
        BY <1>4, <3>1 DEF Rows
      <3> QED
        BY <1>0, <3>1, <3>2 DEF OrderInv, DraftsAudited
    <2> QED
      BY <2>1, <2>2
  <1>7. EventsWritten'
    <2> SUFFICES ASSUME NEW q \in Procs, tx'[q].event # None
                 PROVE  tx'[q].o \in Orders /\ order'[tx'[q].o].by = q
      BY DEF EventsWritten
    <2>1. CASE q = p
      BY <1>0, <2>1 DEF Put, TypeOK
    <2>2. CASE q # p
      <3>1. tx'[q] = tx[q]
        BY <1>0, <2>2
      <3>2. tx[q].o \in Orders /\ order[tx[q].o].by = q
        BY <3>1 DEF OrderInv, EventsWritten
      <3>3. tx[q].o # o
        BY <1>5, <3>2, NoneAssumption
      <3> QED
        BY <1>0, <3>1, <3>2, <3>3 DEF TypeOK
    <2> QED
      BY <2>1, <2>2
  <1> QED
    BY <1>2, <1>3, <1>6, <1>7 DEF OrderInv

LEMMA CommitTypes ==
  ASSUME OrderInv, NEW p \in Procs, Commit(p)
  PROVE  TypeOK'
  <1>0. TypeOK
    BY DEF OrderInv
  <1>1. /\ \A o \in Orders : Settle(order[o], p) \in Rows(OrderRow, Procs)
        /\ \A c \in Couriers : Settle(courier[c], p) \in Rows(CourierRow, Procs)
        /\ \A o \in Orders : Settle(payment[o], p) \in Rows(PaymentStatus, Procs)
    BY <1>0 DEF TypeOK, Rows, Settle, Row
  <1>2. tx[p] \in Request /\ NoRequest \in Request
    BY <1>0 DEF TypeOK, NoRequest, Request, Step
  <1>3. trail' \in [Orders -> OrderEvent]
    BY <1>0, <1>2 DEF TypeOK, Commit, Request
  <1>4. payTrail' \in [Orders -> PaymentEvent]
    BY <1>0, <1>2 DEF TypeOK, Commit, Request
  <1> QED
    BY <1>0, <1>1, <1>2, <1>3, <1>4 DEF Commit, TypeOK

\* A request's order is the only one it wrote.
LEMMA OneOrderPerRequest ==
  ASSUME OrderInv, NEW p \in Procs, NEW o \in Orders
  PROVE  order[o].by = p <=> tx[p].event # None /\ tx[p].o = o
  <1>1. order[o] \in Rows(OrderRow, Procs) /\ p # None
    BY NoneAssumption DEF OrderInv, TypeOK
  <1>2. Event(order[o].at.status, order[o].draft.status) # None
    BY <1>1, EventsAreSomething DEF Rows, OrderRow
  <1> QED
    BY <1>1, <1>2 DEF OrderInv, DraftsAudited, EventsWritten

\* The versions reachable by a legal step are legal.
LEMMA FollowsLegal ==
  ASSUME NEW o \in Orders, NEW old, NEW new, Life!Follows(o, old, new)
  PROVE  new \in Life!Legal(o)
  BY DEF Life!Follows, Life!Legal

\* A commit is one step of the lifecycle, or none.
LEMMA CommitStep ==
  ASSUME OrderInv, NEW p \in Procs, Commit(p)
  PROVE  OrderInv' /\ (Life!Next \/ UNCHANGED <<Committed, trail>>)
  <1>0. TypeOK /\ TypeOK' /\ p # None
    BY CommitTypes, NoneAssumption DEF OrderInv
  <1>1. RequestKnows(NoRequest) /\ NoRequest.event = None
    BY DEF RequestKnows, NoRequest, CourierSteps, OrderSteps, DispatchSteps
  <1>2. (\A q \in Procs : RequestKnows(tx[q]))'
    BY <1>0, <1>1 DEF OrderInv, TypeOK, Commit
  <1>3. ASSUME NEW o \in Orders, order[o].by # p
        PROVE  order'[o] = order[o]
    BY <1>0, <1>3 DEF Commit, Settle
  <1>4. ASSUME NEW o \in Orders, order[o].by = p
        PROVE  /\ order'[o].at = order[o].draft
               /\ order'[o].draft = order[o].draft
               /\ order'[o].by = None
    BY <1>0, <1>4 DEF Commit, Settle, Row
  <1>5. \A o \in Orders : order'[o].by # p
    BY <1>0, <1>3, <1>4
  <1>6. EventsWritten'
    <2> SUFFICES ASSUME NEW q \in Procs, tx'[q].event # None
                 PROVE  tx'[q].o \in Orders /\ order'[tx'[q].o].by = q
      BY DEF EventsWritten
    <2>1. q # p /\ tx'[q] = tx[q]
      BY <1>0, <1>1 DEF Commit, TypeOK
    <2>2. tx[q].o \in Orders /\ order[tx[q].o].by = q
      BY <2>1 DEF OrderInv, EventsWritten
    <2> QED
      BY <1>3, <2>1, <2>2
  <1>7. DraftsAudited'
    <2> SUFFICES ASSUME NEW o \in Orders
                 PROVE  /\ order'[o].by = None => order'[o].draft = order'[o].at
                        /\ order'[o].by # None =>
                             /\ Life!Follows(o, order'[o].at, order'[o].draft)
                             /\ tx'[order'[o].by].o = o
                             /\ tx'[order'[o].by].event
                                  = Event(order'[o].at.status, order'[o].draft.status)
      BY DEF DraftsAudited
    <2>1. CASE order[o].by = p
      BY <1>4, <2>1
    <2>2. CASE order[o].by # p
      <3>1. order'[o] = order[o] /\ order[o].by \in Procs \cup {None}
        BY <1>0, <1>3, <2>2 DEF TypeOK, Rows
      <3>2. order[o].by # None => tx'[order[o].by] = tx[order[o].by]
        BY <1>0, <2>2, <3>1 DEF Commit, TypeOK
      <3> QED
        BY <3>1, <3>2 DEF OrderInv, DraftsAudited
    <2> QED
      BY <2>1, <2>2
  <1>8. CASE tx[p].event = None
    <2>1. \A o \in Orders : order[o].by # p
      BY <1>8, OneOrderPerRequest
    <2>2. UNCHANGED <<Committed, trail>>
      BY <1>3, <1>8, <2>1 DEF Committed, Commit
    <2>3. OrdersConsistent' /\ TrailMatches'
      BY <1>3, <2>1, <2>2 DEF OrderInv, OrdersConsistent, TrailMatches
    <2> QED
      BY <1>0, <1>2, <1>6, <1>7, <2>2, <2>3 DEF OrderInv
  <1>9. CASE tx[p].event # None
    <2> DEFINE o == tx[p].o
               new == order[o].draft
    <2>1. o \in Orders /\ order[o].by = p
      BY <1>9 DEF OrderInv, EventsWritten
    <2>2. /\ Life!Follows(o, order[o].at, new)
          /\ tx[p].event = Event(order[o].at.status, new.status)
      BY <1>0, <2>1 DEF OrderInv, DraftsAudited
    <2>3. \A q \in Orders : q # o => order'[q] = order[q]
      BY <1>3, OneOrderPerRequest
    <2>4. order'[o].at = new
      BY <1>4, <2>1
    <2>5. trail' = [trail EXCEPT ![o] = [from |-> order[o].at.status, to |-> new.status]]
      BY <1>9, <2>2 DEF Commit, Event
    <2>6. Committed' = [Committed EXCEPT ![o] = new] /\ Committed[o] = order[o].at
      BY <2>1, <2>3, <2>4 DEF Committed
    <2>7. Life!Next
      BY <2>1, <2>2, <2>5, <2>6, FollowsLegal DEF Life!Next, Life!Advance
    <2>8. OrdersConsistent'
      BY <2>1, <2>2, <2>3, <2>4, FollowsLegal DEF OrderInv, OrdersConsistent
    <2>9. TrailMatches'
      BY <1>0, <2>1, <2>3, <2>4, <2>5 DEF OrderInv, TrailMatches, TypeOK
    <2> QED
      BY <1>0, <1>2, <1>6, <1>7, <2>7, <2>8, <2>9 DEF OrderInv
  <1> QED
    BY <1>8, <1>9
-----------------------------------------------------------------------------
(* What the handlers' building blocks keep.                                *)

\* Only a commit shows in the committed orders and their trail.
LEMMA OnlyCommitShows ==
  ASSUME OrderInv, NEW p \in Procs, UNCHANGED trail,
         \A o \in Orders : \/ order'[o] = order[o]
                           \/ order'[o] = Undo(order[o], p)
                           \/ \E v : order'[o] = Put(order[o], p, v)
  PROVE  UNCHANGED <<Committed, trail>>
  <1>1. \A o \in Orders : Undo(order[o], p).at = order[o].at
    BY DEF Undo, Row
  <1>2. ASSUME NEW o \in Orders, NEW v PROVE Put(order[o], p, v).at = order[o].at
    BY DEF Put
  <1>3. \A o \in Orders : order'[o].at = order[o].at
    BY <1>1, <1>2
  <1> QED
    BY <1>3 DEF Committed

LEMMA RollbackKeeps ==
  ASSUME OrderInv, NEW p \in Procs, Rollback(p)
  PROVE  OrderInv' /\ UNCHANGED <<Committed, trail>>
  <1>1. \A o \in Orders : order'[o] = Undo(order[o], p)
    BY DEF Rollback
  <1> QED
    BY <1>1, RollbackStep, OnlyCommitShows DEF Rollback

LEMMA GoToKeeps ==
  ASSUME OrderInv, NEW p \in Procs, NEW s \in Step, GoTo(p, s), TypeOK',
         UNCHANGED <<order, trail>>, RequestKnows([tx[p] EXCEPT !.step = s])
  PROVE  OrderInv' /\ UNCHANGED <<Committed, trail>>
  <1> DEFINE r == [tx[p] EXCEPT !.step = s]
  <1>1. tx[p] \in Request
    BY DEF OrderInv, TypeOK
  <1>2. r \in Request /\ r.event = tx[p].event /\ r.o = tx[p].o
    BY <1>1 DEF Request
  <1>3. tx' = [tx EXCEPT ![p] = r]
    BY DEF GoTo
  <1>4. RequestKnows(r)
    OBVIOUS
  <1>5. OrderInv'
    BY <1>2, <1>3, <1>4, QuietStep
  <1> QED
    BY <1>5, OnlyCommitShows

LEMMA CheckKeeps ==
  ASSUME OrderInv, NEW p \in Procs, NEW holds \in BOOLEAN, NEW s \in Step,
         Check(p, holds, s), holds => RequestKnows([tx[p] EXCEPT !.step = s])
  PROVE  OrderInv' /\ UNCHANGED <<Committed, trail>>
  <1>1. CASE Rollback(p)
    BY <1>1, RollbackKeeps
  <1>2. CASE holds /\ GoTo(p, s) /\ UNCHANGED <<order, courier, payment, trail, payTrail>>
    BY <1>2, CheckTypes, GoToKeeps DEF OrderInv
  <1> QED
    BY <1>1, <1>2 DEF Check

LEMMA UpdateCourierKeeps ==
  ASSUME OrderInv, NEW p \in Procs, NEW matches \in BOOLEAN, NEW new \in CourierRow,
         NEW s \in Step, UpdateCourier(p, matches, new, s),
         matches => RequestKnows([tx[p] EXCEPT !.step = s])
  PROVE  OrderInv' /\ UNCHANGED <<Committed, trail>>
  <1>1. CASE Rollback(p)
    BY <1>1, RollbackKeeps
  <1>2. CASE matches /\ GoTo(p, s) /\ UNCHANGED <<order, trail>>
    BY <1>2, UpdateCourierTypes, GoToKeeps DEF OrderInv
  <1> QED
    BY <1>1, <1>2 DEF UpdateCourier

\* Before it writes its order, a request sees the committed version.
LEMMA UnwrittenSeen ==
  ASSUME OrderInv, NEW p \in Procs, tx[p].event = None, NEW o \in Orders
  PROVE  Seen(order[o], p) = order[o].at
  BY OneOrderPerRequest DEF Seen

LEMMA UpdateOrderKeeps ==
  ASSUME OrderInv, NEW p \in Procs, NEW matches \in BOOLEAN, NEW new \in OrderRow,
         NEW from \in OrderStatus, NEW s \in Step,
         tx[p].event = None, tx[p].o \in Orders,
         UpdateOrder(p, matches, new, Event(from, new.status), s),
         matches => /\ Life!Follows(tx[p].o, order[tx[p].o].at, new)
                    /\ from = order[tx[p].o].at.status
                    /\ RequestKnows([tx[p] EXCEPT !.step = s,
                                       !.event = Event(from, new.status)])
  PROVE  OrderInv' /\ UNCHANGED <<Committed, trail>>
  <1> DEFINE e == Event(from, new.status)
             r == [tx[p] EXCEPT !.step = s, !.event = e]
  <1>1. CASE Rollback(p)
    BY <1>1, RollbackKeeps
  <1>2. CASE /\ matches
             /\ Free(order[tx[p].o], p)
             /\ order' = [order EXCEPT ![tx[p].o] = Put(@, p, new)]
             /\ tx' = [tx EXCEPT ![p].step = s, ![p].event = e]
             /\ UNCHANGED <<courier, payment, trail, payTrail>>
    <2>1. e \in OrderEvent
      BY EventsAreSomething DEF OrderRow
    <2>2. TypeOK'
      BY <2>1, UpdateOrderTypes DEF OrderInv
    <2>3. tx \in [Procs -> Request] /\ order \in [Orders -> Rows(OrderRow, Procs)]
      BY DEF OrderInv, TypeOK
    <2>4. r \in Request /\ r.event = e /\ r.o = tx[p].o
      <3> HIDE DEF e
      <3>1. tx[p] \in Request
        BY <2>3
      <3> QED
        BY <2>1, <3>1 DEF Request
    <2>5. tx' = [tx EXCEPT ![p] = r]
      BY <1>2, <2>3
    <2>6. RequestKnows(r)
      BY <1>2
    <2>7. OrderInv'
      BY <1>2, <2>2, <2>4, <2>5, <2>6, WriteStep
    <2>8. \A o \in Orders : order'[o] = order[o] \/ order'[o] = Put(order[o], p, new)
      BY <1>2, <2>3
    <2> QED
      BY <1>2, <2>7, <2>8, OnlyCommitShows
  <1> QED
    BY <1>1, <1>2 DEF UpdateOrder

\* A request begins; r is what it knows of its first reads.
LEMMA BeginKeeps ==
  ASSUME OrderInv, NEW p \in Procs, NEW r \in Request, Begin(p, r),
         r.event = None, RequestKnows(r),
         UNCHANGED <<order, courier, payment, trail, payTrail>>
  PROVE  OrderInv' /\ UNCHANGED <<Committed, trail>>
  <1>1. tx' = [tx EXCEPT ![p] = r] /\ tx[p].event = None
    BY DEF Begin, NoRequest
  <1>2. TypeOK'
    BY <1>1, MoveOnTypes DEF OrderInv, TypeOK
  <1>3. OrderInv'
    BY <1>1, <1>2, QuietStep
  <1> QED
    BY <1>3, OnlyCommitShows
-----------------------------------------------------------------------------
(* Every action keeps the invariant.  A request in progress is unchanged   *)
(* but for the statement it awaits, so what it knows carries over.         *)

LEMMA RequestFields ==
  ASSUME OrderInv, NEW p \in Procs
  PROVE  /\ tx[p] \in Request
         /\ RequestKnows(tx[p])
         /\ \A s : /\ [tx[p] EXCEPT !.step = s].step = s
                   /\ [tx[p] EXCEPT !.step = s].op = tx[p].op
                   /\ [tx[p] EXCEPT !.step = s].o = tx[p].o
                   /\ [tx[p] EXCEPT !.step = s].c = tx[p].c
                   /\ [tx[p] EXCEPT !.step = s].seen = tx[p].seen
                   /\ [tx[p] EXCEPT !.step = s].vehicle = tx[p].vehicle
                   /\ [tx[p] EXCEPT !.step = s].rel = tx[p].rel
                   /\ [tx[p] EXCEPT !.step = s].event = tx[p].event
  BY DEF OrderInv, TypeOK, Request

\* A request knows no less after one statement than before it.
LEMMA KnowsOn ==
  ASSUME OrderInv, NEW p \in Procs, NEW s,
         \/ s \in DispatchSteps /\ tx[p].step \in DispatchSteps
         \/ s = "claimOrder" /\ tx[p].step = "claimCourier"
         \/ s = "setVehicle" /\ tx[p].step = "countForVehicle"
         \/ s = "setSuspended" /\ tx[p].step = "countForSuspend"
         \/ s = "release" /\ tx[p].step = "releaseScan"
         \/ s = "cancelPayment" /\ tx[p].step = "readPayment"
         \/ s = "commit"
  PROVE  RequestKnows([tx[p] EXCEPT !.step = s])
  <1> DEFINE r == [tx[p] EXCEPT !.step = s]
  <1>1. /\ r.step = s /\ r.op = tx[p].op /\ r.o = tx[p].o /\ r.c = tx[p].c
        /\ r.seen = tx[p].seen /\ r.vehicle = tx[p].vehicle /\ r.rel = tx[p].rel
        /\ r.event = tx[p].event
    BY RequestFields
  <1>2. RequestKnows(tx[p])
    BY RequestFields
  <1> HIDE DEF r
  <1>3. RequestKnows(r)
    BY <1>1, <1>2 DEF RequestKnows, CourierSteps, OrderSteps, DispatchSteps, UnwrittenSteps
  <1> QED
    BY <1>3 DEF r

\* Statements that read.
LEMMA ReadsKeep ==
  ASSUME OrderInv, NEW p \in Procs,
         \/ ReadTargetCourier(p) \/ ReserveScan(p) \/ CountActive(p)
         \/ CountForVehicle(p) \/ CountForSuspend(p)
  PROVE  OrderInv' /\ UNCHANGED <<Committed, trail>>
  <1>0. {"reserveScan", "reserve", "move", "setVehicle", "setSuspended"} \subseteq Step
    BY DEF Step
  <1>1. CASE ReadTargetCourier(p)
    <2>1. RequestKnows([tx[p] EXCEPT !.step = "reserveScan"])
      BY <1>1, KnowsOn DEF ReadTargetCourier, At, DispatchSteps
    <2> DEFINE target == courier[tx[p].c].at
               fits == /\ target.vehicle = VehicleOf[tx[p].o]
                       /\ tx[p].op = "wooAssign" => target.account = "ACTIVE"
    <2>2. fits \in BOOLEAN /\ Check(p, fits, "reserveScan")
      BY <1>1 DEF ReadTargetCourier
    <2> HIDE DEF fits
    <2> QED
      BY <1>0, <2>1, <2>2, CheckKeeps
  <1>2. CASE ReserveScan(p)
    <2>1. RequestKnows([tx[p] EXCEPT !.step = "reserve"])
      BY <1>2, KnowsOn DEF ReserveScan, At, DispatchSteps
    <2> QED
      BY <1>0, <1>2, <2>1, CheckKeeps DEF ReserveScan
  <1>3. CASE CountActive(p)
    <2>1. RequestKnows([tx[p] EXCEPT !.step = "move"])
      BY <1>3, KnowsOn DEF CountActive, At, DispatchSteps
    <2> DEFINE room == Cardinality(ActiveOrders(p, tx[p].c)) < Limit
    <2>2. room \in BOOLEAN /\ Check(p, room, "move")
      BY <1>3 DEF CountActive
    <2> HIDE DEF room
    <2> QED
      BY <1>0, <2>1, <2>2, CheckKeeps
  <1>4. CASE CountForVehicle(p)
    <2>1. RequestKnows([tx[p] EXCEPT !.step = "setVehicle"])
      BY <1>4, KnowsOn DEF CountForVehicle, At
    <2> QED
      BY <1>0, <1>4, <2>1, CheckKeeps DEF CountForVehicle
  <1>5. CASE CountForSuspend(p)
    <2>1. RequestKnows([tx[p] EXCEPT !.step = "setSuspended"])
      BY <1>5, KnowsOn DEF CountForSuspend, At
    <2> QED
      BY <1>0, <1>5, <2>1, CheckKeeps DEF CountForSuspend
  <1> QED
    BY <1>1, <1>2, <1>3, <1>4, <1>5

\* A courier row, seen by a request, with another status.
LEMMA CourierRows ==
  ASSUME OrderInv, NEW p \in Procs, NEW c \in Couriers, NEW s \in CourierStatus
  PROVE  /\ [Seen(courier[c], p) EXCEPT !.status = s] \in CourierRow
         /\ \A v \in Vehicles : [Seen(courier[c], p) EXCEPT !.vehicle = v] \in CourierRow
         /\ \A a \in AccountStatus :
              [Seen(courier[c], p) EXCEPT !.status = s, !.account = a] \in CourierRow
  <1>1. Seen(courier[c], p) \in CourierRow
    BY RowsClosed DEF OrderInv, TypeOK, Seen, Rows
  <1> QED
    BY <1>1 DEF CourierRow

\* Statements that write the courier.
LEMMA CourierWritesKeep ==
  ASSUME OrderInv, NEW p \in Procs,
         \/ Reserve(p) \/ ClaimCourier(p) \/ SetAvailability(p)
         \/ SetVehicle(p) \/ SetSuspended(p) \/ SetActivated(p)
  PROVE  OrderInv' /\ UNCHANGED <<Committed, trail>>
  <1> DEFINE c == tx[p].c
             row == Seen(courier[c], p)
  <1>0. /\ {"OFFLINE", "AVAILABLE", "BUSY", "SUSPENDED"} \subseteq CourierStatus
        /\ {"ACTIVE", "SUSPENDED"} \subseteq AccountStatus
        /\ {"countActive", "claimOrder", "commit"} \subseteq Step
    BY DEF CourierStatus, AccountStatus, Step
  <1>1. c \in Couriers
    BY RequestFields DEF Reserve, ClaimCourier, SetAvailability, SetVehicle, SetSuspended,
          SetActivated, At, RequestKnows, CourierSteps, DispatchSteps
  <1>2. \A s \in CourierStatus : [row EXCEPT !.status = s] \in CourierRow
    BY <1>1, CourierRows
  <1>3. RequestKnows([tx[p] EXCEPT !.step = "commit"])
    BY KnowsOn
  <1>4. CASE Reserve(p)
    <2>1. RequestKnows([tx[p] EXCEPT !.step = "countActive"])
      BY <1>4, KnowsOn DEF Reserve, At, DispatchSteps
    <2> DEFINE matches == row.status \in {"AVAILABLE", "BUSY"}
               new == [row EXCEPT !.status = "BUSY"]
    <2>8. matches \in BOOLEAN /\ new \in CourierRow
      BY <1>0, <1>2
    <2>9. UpdateCourier(p, matches, new, "countActive")
      BY <1>4 DEF Reserve
    <2> HIDE DEF matches, new
    <2> QED
      BY <1>0, <2>1, <2>8, <2>9, UpdateCourierKeeps
  <1>5. CASE ClaimCourier(p)
    <2>1. RequestKnows([tx[p] EXCEPT !.step = "claimOrder"])
      BY <1>5, KnowsOn DEF ClaimCourier, At
    <2> QED
      BY <1>0, <1>2, <1>5, <2>1, UpdateCourierKeeps DEF ClaimCourier
  <1>6. CASE SetAvailability(p)
    <2> DEFINE new == IF tx[p].op = "goOnline" THEN "AVAILABLE" ELSE "OFFLINE"
    <2>1. new \in CourierStatus
      BY <1>0
    <2>2. UpdateCourier(p, TRUE, [row EXCEPT !.status = new], "commit")
      BY <1>6 DEF SetAvailability
    <2> HIDE DEF new
    <2> QED
      BY <1>0, <1>2, <1>3, <2>1, <2>2, UpdateCourierKeeps
  <1>7. CASE SetVehicle(p)
    <2>1. tx[p].vehicle \in Vehicles
      BY <1>7, RequestFields DEF SetVehicle, At, RequestKnows
    <2>2. [row EXCEPT !.vehicle = tx[p].vehicle] \in CourierRow
      BY <1>0, <1>1, <2>1, CourierRows
    <2> DEFINE matches == row.status \in {"OFFLINE", "SUSPENDED"}
               new == [row EXCEPT !.vehicle = tx[p].vehicle]
    <2>8. matches \in BOOLEAN /\ new \in CourierRow
      BY <1>0, <2>2
    <2>9. UpdateCourier(p, matches, new, "commit")
      BY <1>7 DEF SetVehicle
    <2> HIDE DEF matches, new
    <2> QED
      BY <1>0, <1>3, <2>8, <2>9, UpdateCourierKeeps
  <1>8. CASE SetSuspended(p)
    <2>1. [row EXCEPT !.status = "SUSPENDED", !.account = "SUSPENDED"] \in CourierRow
      BY <1>0, <1>1, CourierRows
    <2> DEFINE matches == row.status \in {"OFFLINE", "AVAILABLE"}
               new == [row EXCEPT !.status = "SUSPENDED", !.account = "SUSPENDED"]
    <2>8. matches \in BOOLEAN /\ new \in CourierRow
      BY <1>0, <2>1
    <2>9. UpdateCourier(p, matches, new, "commit")
      BY <1>8 DEF SetSuspended
    <2> HIDE DEF matches, new
    <2> QED
      BY <1>0, <1>3, <2>8, <2>9, UpdateCourierKeeps
  <1>9. CASE SetActivated(p)
    <2>1. [row EXCEPT !.status = "OFFLINE", !.account = "ACTIVE"] \in CourierRow
      BY <1>0, <1>1, CourierRows
    <2> QED
      BY <1>0, <1>3, <1>9, <2>1, UpdateCourierKeeps DEF SetActivated
  <1> QED
    BY <1>4, <1>5, <1>6, <1>7, <1>8, <1>9

\* What a dispatching request read of its order, and what it makes of it.
LEMMA DispatchRead ==
  ASSUME OrderInv, NEW p \in Procs, At(p, "move")
  PROVE  /\ tx[p].o \in Orders /\ tx[p].c \in Couriers /\ tx[p].event = None
         /\ tx[p].seen.status \in OrderStatus
         /\ Life!Follows(tx[p].o, tx[p].seen, [status |-> "ASSIGNED", courier |-> tx[p].c])
         /\ tx[p].op = "reassign" \/ tx[p].seen.status = "ASSIGNED" => tx[p].rel \in Couriers
  <1>1. /\ tx[p].o \in Orders /\ tx[p].c \in Couriers /\ tx[p].event = None
        /\ \/ tx[p].op # "reassign" /\ tx[p].seen = Life!Open
           \/ \E d \in Couriers \ {tx[p].c} : tx[p].rel = d /\ tx[p].seen = Life!With(d)
    BY RequestFields DEF At, RequestKnows, CourierSteps, OrderSteps, DispatchSteps,
          UnwrittenSteps
  <1>2. CASE tx[p].op # "reassign" /\ tx[p].seen = Life!Open
    <2>1. tx[p].seen.status = "REQUESTED"
      BY <1>2 DEF Life!Open
    <2>2. Life!Follows(tx[p].o, tx[p].seen, Life!With(tx[p].c))
      BY <1>1, <1>2 DEF Life!Follows
    <2> QED
      BY <1>1, <1>2, <2>1, <2>2 DEF Life!With, OrderStatus
  <1>3. CASE \E d \in Couriers \ {tx[p].c} : tx[p].rel = d /\ tx[p].seen = Life!With(d)
    <2>1. tx[p].seen.status = "ASSIGNED" /\ tx[p].rel \in Couriers
      BY <1>3 DEF Life!With
    <2>2. Life!Follows(tx[p].o, tx[p].seen, Life!With(tx[p].c))
      BY <1>1, <1>3 DEF Life!Follows
    <2> QED
      BY <1>1, <2>1, <2>2 DEF Life!With, OrderStatus
  <1> QED
    BY <1>1, <1>2, <1>3

\* An order that waits for a courier has none.
LEMMA RequestedIsOpen ==
  ASSUME NEW o \in Orders, NEW row \in Life!Legal(o), row.status = "REQUESTED"
  PROVE  row = Life!Open
  BY DEF Life!Legal, Life!Open, Life!With, Life!OnRoad, Life!Done, Life!Cancelled

\* A request that wrote its order and goes on.
LEMMA KnowsWritten ==
  ASSUME OrderInv, NEW p \in Procs, NEW s, NEW e,
         \/ s = "commit"
         \/ s = "releaseScan" /\ tx[p].rel \in Couriers
         \/ s = "readPayment" /\ tx[p].o \in Orders
  PROVE  RequestKnows([tx[p] EXCEPT !.step = s, !.event = e])
  <1> DEFINE r == [tx[p] EXCEPT !.step = s, !.event = e]
  <1>1. r.step = s /\ r.rel = tx[p].rel /\ r.o = tx[p].o
    BY RequestFields DEF Request
  <1> HIDE DEF r
  <1>2. RequestKnows(r)
    BY <1>1 DEF RequestKnows, CourierSteps, OrderSteps, DispatchSteps, UnwrittenSteps
  <1> QED
    BY <1>2 DEF r

LEMMA MoveKeeps ==
  ASSUME OrderInv, NEW p \in Procs, NEW op, NEW s \in Step, MoveOrder(p, op, s),
         \/ s = "commit"
         \/ s = "releaseScan" /\ (op = "reassign" \/ tx[p].seen.status = "ASSIGNED")
  PROVE  OrderInv' /\ UNCHANGED <<Committed, trail>>
  <1> DEFINE o == tx[p].o
             new == [status |-> "ASSIGNED", courier |-> tx[p].c]
             from == tx[p].seen.status
             matches == Seen(order[o], p) = tx[p].seen
  <1>1. /\ o \in Orders /\ tx[p].c \in Couriers /\ tx[p].event = None
        /\ from \in OrderStatus
        /\ Life!Follows(o, tx[p].seen, new)
        /\ tx[p].op = "reassign" \/ tx[p].seen.status = "ASSIGNED" => tx[p].rel \in Couriers
    BY DispatchRead DEF MoveOrder
  <1>2. new \in OrderRow /\ new.status = "ASSIGNED"
    BY <1>1 DEF OrderRow, OrderStatus
  <1>3. matches => tx[p].seen = order[o].at
    BY <1>1, UnwrittenSeen
  <1>4. s = "commit" \/ (s = "releaseScan" /\ tx[p].rel \in Couriers)
    BY <1>1 DEF MoveOrder
  <1>5. RequestKnows([tx[p] EXCEPT !.step = s, !.event = Event(from, new.status)])
    BY <1>4, KnowsWritten
  <1>6. UpdateOrder(p, matches, new, Event(from, new.status), s) /\ matches \in BOOLEAN
    BY <1>2 DEF MoveOrder
  <1>7. matches => Life!Follows(o, order[o].at, new) /\ from = order[o].at.status
    BY <1>1, <1>3
  <1> HIDE DEF matches, new, from
  <1> QED
    BY <1>1, <1>2, <1>5, <1>6, <1>7, UpdateOrderKeeps

\* Statements that write the order.
LEMMA OrderWritesKeep ==
  ASSUME OrderInv, NEW p \in Procs,
         \/ ClaimOrder(p) \/ AssignMove(p) \/ ReassignMove(p) \/ WooAssignMove(p)
         \/ SyncOrder(p) \/ CancelOrder(p)
  PROVE  OrderInv' /\ UNCHANGED <<Committed, trail>>
  <1> DEFINE o == tx[p].o
             row == Seen(order[o], p)
  <1>0. /\ OrderStatus = {"REQUESTED", "ASSIGNED", "PICKED_UP", "DELIVERED", "CANCELLED"}
        /\ {"commit", "releaseScan", "readPayment"} \subseteq Step
    BY DEF OrderStatus, Step
  <1>1. CASE AssignMove(p)
    BY <1>0, <1>1, MoveKeeps DEF AssignMove
  <1>2. CASE ReassignMove(p)
    BY <1>0, <1>2, MoveKeeps DEF ReassignMove
  <1>3. CASE WooAssignMove(p)
    BY <1>0, <1>3, MoveKeeps DEF WooAssignMove
  <1>4. CASE ClaimOrder(p)
    <2>1. o \in Orders /\ tx[p].c \in Couriers /\ tx[p].event = None
      BY <1>4, RequestFields DEF ClaimOrder, At, RequestKnows, CourierSteps, OrderSteps,
            UnwrittenSteps
    <2> DEFINE new == [status |-> "ASSIGNED", courier |-> tx[p].c]
               matches == /\ row = [status |-> "REQUESTED", courier |-> None]
                          /\ VehicleOf[o] = tx[p].vehicle
                          /\ o \notin Linked
    <2>2. new \in OrderRow /\ new.status = "ASSIGNED"
      BY <1>0, <2>1 DEF OrderRow
    <2>3. row = order[o].at
      BY <2>1, UnwrittenSeen
    <2>4. matches => Life!Follows(o, order[o].at, new) /\ "REQUESTED" = order[o].at.status
      BY <2>1, <2>3 DEF Life!Follows, Life!Open, Life!With
    <2>5. UpdateOrder(p, matches, new, Event("REQUESTED", new.status), "commit")
          /\ matches \in BOOLEAN
      BY <1>4, <2>2 DEF ClaimOrder
    <2>6. RequestKnows([tx[p] EXCEPT !.step = "commit", !.event = Event("REQUESTED", new.status)])
      BY KnowsWritten
    <2> HIDE DEF matches, new
    <2> QED
      BY <1>0, <2>1, <2>2, <2>4, <2>5, <2>6, UpdateOrderKeeps
  <1>5. CASE SyncOrder(p)
    <2>1. o \in Orders /\ o \in Linked /\ tx[p].event = None
      BY <1>5, RequestFields DEF SyncOrder, At, RequestKnows, OrderSteps, UnwrittenSteps
    <2> DEFINE new == [row EXCEPT !.status = "DELIVERED"]
               matches == row.status = "REQUESTED"
    <2>2. row = order[o].at /\ row \in OrderRow /\ row \in Life!Legal(o)
      BY <2>1, UnwrittenSeen DEF OrderInv, TypeOK, Rows, OrdersConsistent
    <2>3. new \in OrderRow /\ new.status = "DELIVERED"
      BY <1>0, <2>2 DEF OrderRow
    <2>4. matches => Life!Follows(o, order[o].at, new) /\ "REQUESTED" = order[o].at.status
      <3>1. SUFFICES ASSUME matches
                     PROVE  Life!Follows(o, order[o].at, new) /\ "REQUESTED" = order[o].at.status
        OBVIOUS
      <3>2. row = Life!Open
        BY <2>1, <2>2, <3>1, RequestedIsOpen
      <3>3. new = Life!Done(None)
        BY <3>2 DEF Life!Open, Life!Done
      <3> QED
        BY <2>1, <2>2, <3>1, <3>2, <3>3 DEF Life!Follows
    <2>5. UpdateOrder(p, matches, new, Event("REQUESTED", new.status), "commit")
          /\ matches \in BOOLEAN
      BY <1>5, <2>3 DEF SyncOrder
    <2>6. RequestKnows([tx[p] EXCEPT !.step = "commit", !.event = Event("REQUESTED", new.status)])
      BY KnowsWritten
    <2> HIDE DEF matches, new
    <2> QED
      BY <1>0, <2>1, <2>3, <2>4, <2>5, <2>6, UpdateOrderKeeps
  <1>6. CASE CancelOrder(p)
    <2>1. o \in Orders /\ o \notin Linked /\ tx[p].event = None
      BY <1>6, RequestFields DEF CancelOrder, At, RequestKnows, OrderSteps, UnwrittenSteps
    <2> DEFINE new == [row EXCEPT !.status = "CANCELLED"]
               matches == row.status = "REQUESTED"
    <2>2. row = order[o].at /\ row \in OrderRow /\ row \in Life!Legal(o)
      BY <2>1, UnwrittenSeen DEF OrderInv, TypeOK, Rows, OrdersConsistent
    <2>3. new \in OrderRow /\ new.status = "CANCELLED"
      BY <1>0, <2>2 DEF OrderRow
    <2>4. matches => Life!Follows(o, order[o].at, new) /\ "REQUESTED" = order[o].at.status
      <3>1. SUFFICES ASSUME matches
                     PROVE  Life!Follows(o, order[o].at, new) /\ "REQUESTED" = order[o].at.status
        OBVIOUS
      <3>2. row = Life!Open
        BY <2>1, <2>2, <3>1, RequestedIsOpen
      <3>3. new = Life!Cancelled
        BY <3>2 DEF Life!Open, Life!Cancelled
      <3> QED
        BY <2>1, <2>2, <3>1, <3>2, <3>3 DEF Life!Follows
    <2>5. UpdateOrder(p, matches, new, Event("REQUESTED", new.status), "readPayment")
          /\ matches \in BOOLEAN
      BY <1>6, <2>3 DEF CancelOrder
    <2>6. RequestKnows([tx[p] EXCEPT !.step = "readPayment",
                                     !.event = Event("REQUESTED", new.status)])
      BY <2>1, KnowsWritten
    <2> HIDE DEF matches, new
    <2> QED
      BY <1>0, <2>1, <2>3, <2>4, <2>5, <2>6, UpdateOrderKeeps
  <1> QED
    BY <1>1, <1>2, <1>3, <1>4, <1>5, <1>6

\* Rejection, pick-up and delivery begin by writing the order.
LEMMA OwnOrderKeeps ==
  ASSUME OrderInv, NEW p \in Procs, NEW c \in Couriers, NEW o \in Orders,
         \/ RejectOrder(p, c, o) \/ PickUpOrder(p, c, o) \/ DeliverOrder(p, c, o)
  PROVE  OrderInv' /\ UNCHANGED <<Committed, trail>>
  <1>0. PICK from \in {"ASSIGNED", "PICKED_UP"}, new \in OrderRow, q \in Request :
          /\ StartOnOwnOrder(p, c, o, from, new, q)
          /\ Life!Follows(o, [status |-> from, courier |-> c], new)
          /\ q.step = "commit" \/ (q.step = "releaseScan" /\ q.rel = c)
    <2>1. /\ [status |-> "REQUESTED", courier |-> None] \in OrderRow
          /\ [status |-> "PICKED_UP", courier |-> c] \in OrderRow
          /\ [status |-> "DELIVERED", courier |-> c] \in OrderRow
      BY DEF OrderRow, OrderStatus
    <2>2. CASE RejectOrder(p, c, o)
      <3> DEFINE q == [NoRequest EXCEPT !.op = "reject", !.step = "releaseScan", !.rel = c]
      <3>1. q \in Request /\ q.step = "releaseScan" /\ q.rel = c
        BY DEF NoRequest, Request, Step, AllOps, CourierOps
      <3>2. Life!Follows(o, [status |-> "ASSIGNED", courier |-> c],
                            [status |-> "REQUESTED", courier |-> None])
        BY DEF Life!Follows, Life!With, Life!Open
      <3> QED
        BY <2>1, <2>2, <3>1, <3>2 DEF RejectOrder
    <2>3. CASE PickUpOrder(p, c, o)
      <3> DEFINE q == [NoRequest EXCEPT !.op = "pickUp", !.step = "commit"]
      <3>1. q \in Request /\ q.step = "commit"
        BY DEF NoRequest, Request, Step, AllOps, CourierOps
      <3>2. Life!Follows(o, [status |-> "ASSIGNED", courier |-> c],
                            [status |-> "PICKED_UP", courier |-> c])
        BY DEF Life!Follows, Life!With, Life!OnRoad
      <3> QED
        BY <2>1, <2>3, <3>1, <3>2 DEF PickUpOrder
    <2>4. CASE DeliverOrder(p, c, o)
      <3> DEFINE q == [NoRequest EXCEPT !.op = "deliver", !.step = "releaseScan", !.rel = c]
      <3>1. q \in Request /\ q.step = "releaseScan" /\ q.rel = c
        BY DEF NoRequest, Request, Step, AllOps, CourierOps
      <3>2. Life!Follows(o, [status |-> "PICKED_UP", courier |-> c],
                            [status |-> "DELIVERED", courier |-> c])
        BY DEF Life!Follows, Life!Done, Life!OnRoad
      <3> QED
        BY <2>1, <2>4, <3>1, <3>2 DEF DeliverOrder
    <2> QED
      BY <2>2, <2>3, <2>4
  <1> DEFINE e == Event(from, new.status)
             r == [q EXCEPT !.o = o, !.c = c, !.event = e]
  <1>1. /\ order[o].at = [status |-> from, courier |-> c]
        /\ Free(order[o], p)
        /\ order' = [order EXCEPT ![o] = Put(@, p, new)]
        /\ tx[p] = NoRequest
        /\ tx' = [tx EXCEPT ![p] = r]
        /\ UNCHANGED <<courier, payment, trail, payTrail>>
    BY <1>0 DEF StartOnOwnOrder, Begin
  <1>2. order[o].at.status = from /\ from \in OrderStatus
    BY <1>1 DEF OrderStatus
  <1>3. e \in OrderEvent
    BY <1>2, EventsAreSomething DEF OrderRow
  <1>4. r \in Request /\ r.o = o /\ r.event = e /\ r.step = q.step /\ r.rel = q.rel
    <2> HIDE DEF e
    <2> QED
      BY <1>3 DEF Request
  <1>5. RequestKnows(r)
    <2> HIDE DEF r
    <2> QED
      BY <1>0, <1>4 DEF RequestKnows, CourierSteps, OrderSteps, DispatchSteps, UnwrittenSteps
  <1>6. order' \in [Orders -> Rows(OrderRow, Procs)]
    <2>1. Put(order[o], p, new) \in Rows(OrderRow, Procs)
      BY RowsClosed DEF OrderInv, TypeOK
    <2> QED
      BY <1>1, <2>1 DEF OrderInv, TypeOK
  <1> HIDE DEF r
  <1>7. TypeOK'
    BY <1>1, <1>4, <1>6, MoveOnTypes DEF OrderInv, TypeOK
  <1>8. tx[p].event = None
    BY <1>1 DEF NoRequest
  <1>9. OrderInv'
    BY <1>0, <1>1, <1>2, <1>4, <1>5, <1>7, <1>8, WriteStep
  <1>10. \A i \in Orders : order'[i] = order[i] \/ order'[i] = Put(order[i], p, new)
    BY <1>1 DEF OrderInv, TypeOK
  <1> QED
    BY <1>1, <1>9, <1>10, OnlyCommitShows

\* A courier left behind is released if it has nothing else to do.
LEMMA ReleaseKeeps ==
  ASSUME OrderInv, NEW p \in Procs, ReleaseScan(p) \/ Release(p)
  PROVE  OrderInv' /\ UNCHANGED <<Committed, trail>>
  <1>0. {"release", "commit"} \subseteq Step
    BY DEF Step
  <1>1. CASE ReleaseScan(p)
    <2>1. PICK s \in {"release", "commit"} : GoTo(p, s)
      BY <1>1 DEF ReleaseScan
    <2>2. RequestKnows([tx[p] EXCEPT !.step = s])
      BY <1>1, KnowsOn DEF ReleaseScan, At
    <2>3. UNCHANGED <<order, courier, payment, trail, payTrail>>
      BY <1>1 DEF ReleaseScan
    <2>4. TypeOK'
      BY <1>0, <2>1, <2>3, GoToTypes DEF OrderInv, TypeOK
    <2> QED
      BY <1>0, <2>1, <2>2, <2>3, <2>4, GoToKeeps
  <1>2. CASE Release(p)
    <2> DEFINE c == tx[p].rel
               new == [Seen(courier[c], p) EXCEPT !.status = "AVAILABLE"]
    <2>1. c \in Couriers
      BY <1>2, RequestFields DEF Release, At, RequestKnows
    <2>2. new \in CourierRow
      BY <2>1, CourierRows DEF CourierStatus
    <2>3. Put(courier[c], p, new) \in Rows(CourierRow, Procs)
      BY <2>1, <2>2, RowsClosed DEF OrderInv, TypeOK
    <2>4. \/ courier' = courier
          \/ courier' = [courier EXCEPT ![c] = Put(courier[c], p, new)]
      BY <1>2 DEF Release
    <2> HIDE DEF new
    <2>5. courier' \in [Couriers -> Rows(CourierRow, Procs)]
      BY <2>1, <2>3, <2>4 DEF OrderInv, TypeOK
    <2>6. GoTo(p, "commit") /\ UNCHANGED <<order, payment, trail, payTrail>>
      BY <1>2 DEF Release
    <2>7. TypeOK'
      BY <1>0, <2>5, <2>6, GoToTypes DEF OrderInv, TypeOK
    <2> QED
      BY <1>0, <2>6, <2>7, KnowsOn, GoToKeeps
  <1> QED
    BY <1>1, <1>2

\* Statements on the payment.
LEMMA PaymentKeeps ==
  ASSUME OrderInv, NEW p \in Procs,
         ReadPaymentForCancel(p) \/ CancelPayment(p) \/ PayPayment(p)
  PROVE  OrderInv' /\ UNCHANGED <<Committed, trail>>
  <1>0. {"cancelPayment", "commit"} \subseteq Step
    BY DEF Step
  <1>1. CASE ReadPaymentForCancel(p)
    <2>1. PICK s \in {"cancelPayment", "commit"} : GoTo(p, s)
      BY <1>1 DEF ReadPaymentForCancel
    <2>2. RequestKnows([tx[p] EXCEPT !.step = s])
      BY <1>1, KnowsOn DEF ReadPaymentForCancel, At
    <2>3. UNCHANGED <<order, courier, payment, trail, payTrail>>
      BY <1>1 DEF ReadPaymentForCancel
    <2>4. TypeOK'
      BY <1>0, <2>1, <2>3, GoToTypes DEF OrderInv, TypeOK
    <2> QED
      BY <1>0, <2>1, <2>2, <2>3, <2>4, GoToKeeps
  <1>2. ASSUME NEW status \in {"PAID", "CANCELLED"}, WritePayment(p, status, "PENDING"),
               tx[p].o \in Orders
        PROVE  OrderInv' /\ UNCHANGED <<Committed, trail>>
    <2> DEFINE o == tx[p].o
               e == Event("PENDING", status)
               r == [tx[p] EXCEPT !.step = "commit", !.payEvent = e]
    <2>1. status \in PaymentStatus /\ e \in PaymentEvent
      BY <1>2 DEF PaymentStatus, PaymentEvent, Event
    <2>2. tx[p] \in Request /\ tx \in [Procs -> Request]
      BY DEF OrderInv, TypeOK
    <2>3. r \in Request /\ r.step = "commit" /\ r.event = tx[p].event /\ r.o = tx[p].o
      <3> HIDE DEF e
      <3> QED
        BY <1>0, <2>1, <2>2 DEF Request
    <2>4. tx' = [tx EXCEPT ![p] = r]
      BY <1>2, <2>2 DEF WritePayment
    <2> HIDE DEF r
    <2>5. Put(payment[o], p, status) \in Rows(PaymentStatus, Procs)
      BY <1>2, <2>1, RowsClosed DEF OrderInv, TypeOK
    <2>6. payment' \in [Orders -> Rows(PaymentStatus, Procs)]
      BY <1>2, <2>5 DEF WritePayment, OrderInv, TypeOK
    <2>7. UNCHANGED <<order, courier, trail, payTrail>>
      BY <1>2 DEF WritePayment
    <2>8. TypeOK'
      BY <2>3, <2>4, <2>6, <2>7, MoveOnTypes DEF OrderInv, TypeOK
    <2>9. RequestKnows(r)
      BY <2>3 DEF RequestKnows, CourierSteps, OrderSteps, DispatchSteps, UnwrittenSteps
    <2>10. OrderInv'
      BY <2>3, <2>4, <2>7, <2>8, <2>9, QuietStep
    <2> QED
      BY <2>7, <2>10, OnlyCommitShows
  <1>3. CASE CancelPayment(p)
    BY <1>2, <1>3, RequestFields DEF CancelPayment, At, RequestKnows, OrderSteps
  <1>4. CASE PayPayment(p)
    BY <1>2, <1>4, RollbackKeeps, RequestFields DEF PayPayment, At, RequestKnows, OrderSteps
  <1> QED
    BY <1>1, <1>3, <1>4

\* Requests that begin by reading an order for a courier.
LEMMA CourierOrderReadsBegin ==
  ASSUME OrderInv, NEW p \in Procs, NEW o \in Orders, NEW c \in Couriers,
         \/ ReadForAccept(p, c, o)
         \/ AssignRead(p, o, c) \/ ReassignRead(p, o, c) \/ WooAssignRead(p, o, c)
  PROVE  OrderInv' /\ UNCHANGED <<Committed, trail>>
  <1>0. NoRequest \in Request /\ NoRequest.event = None
    BY DEF NoRequest, Request, Step
  <1>1. order[o].at \in OrderRow /\ order[o].at \in Life!Legal(o)
    BY DEF OrderInv, TypeOK, OrdersConsistent, Rows
  <1>2. ASSUME NEW op \in {"assign", "reassign", "wooAssign"}, BeginDispatch(p, op, o, c),
               \/ op # "reassign" /\ order[o].at = Life!Open
               \/ \E d \in Couriers \ {c} : order[o].at = Life!With(d)
        PROVE  OrderInv' /\ UNCHANGED <<Committed, trail>>
    <2> DEFINE r == [NoRequest EXCEPT !.op = op, !.step = "readCourier", !.o = o, !.c = c,
                                      !.seen = order[o].at, !.rel = order[o].at.courier]
    <2>1. Begin(p, r) /\ UNCHANGED <<order, courier, payment, trail, payTrail>>
      BY <1>2 DEF BeginDispatch
    <2>2. /\ r.op = op /\ r.step = "readCourier" /\ r.o = o /\ r.c = c
          /\ r.seen = order[o].at /\ r.rel = order[o].at.courier /\ r.event = None
      BY DEF NoRequest
    <2>3. r \in Request
      BY <1>1, <1>2 DEF NoRequest, Request, Step, AllOps, CourierOps, StaffOps, StoreOps,
            OrderRow
    <2>4. \A d : Life!With(d).courier = d
      BY DEF Life!With
    <2> HIDE DEF r
    <2>5. RequestKnows(r)
      BY <1>2, <2>2, <2>4 DEF RequestKnows, CourierSteps, OrderSteps, DispatchSteps,
            UnwrittenSteps
    <2> QED
      BY <2>1, <2>2, <2>3, <2>5, BeginKeeps
  <1>3. CASE AssignRead(p, o, c)
    BY <1>2, <1>3 DEF AssignRead, Life!Open
  <1>4. CASE ReassignRead(p, o, c)
    <2>1. order[o].at.status = "ASSIGNED" /\ order[o].at.courier # c
          /\ BeginDispatch(p, "reassign", o, c)
      BY <1>4 DEF ReassignRead
    <2>2. \E d \in Couriers \ {c} : order[o].at = Life!With(d)
      BY <1>1, <2>1 DEF Life!Legal, Life!Open, Life!With, Life!OnRoad, Life!Done,
            Life!Cancelled
    <2> QED
      BY <1>2, <2>1, <2>2
  <1>5. CASE WooAssignRead(p, o, c)
    <2>1. /\ order[o].at.status \in {"REQUESTED", "ASSIGNED"}
          /\ order[o].at # Life!With(c)
          /\ BeginDispatch(p, "wooAssign", o, c)
      BY <1>5 DEF WooAssignRead, Life!With
    <2>2. order[o].at = Life!Open \/ \E d \in Couriers \ {c} : order[o].at = Life!With(d)
      BY <1>1, <2>1 DEF Life!Legal, Life!Open, Life!With, Life!OnRoad, Life!Done,
            Life!Cancelled
    <2> QED
      BY <1>2, <2>1, <2>2
  <1>6. CASE ReadForAccept(p, c, o)
    <2> DEFINE r == [NoRequest EXCEPT !.op = "accept", !.step = "claimCourier", !.o = o,
                                      !.c = c, !.vehicle = courier[c].at.vehicle]
    <2>1. Begin(p, r) /\ UNCHANGED <<order, courier, payment, trail, payTrail>>
      BY <1>6 DEF ReadForAccept
    <2>2. courier[c].at.vehicle \in Vehicles
      BY DEF OrderInv, TypeOK, Rows, CourierRow
    <2>3. r.step = "claimCourier" /\ r.o = o /\ r.c = c /\ r.event = None
      BY DEF NoRequest
    <2>4. r \in Request
      BY <2>2 DEF NoRequest, Request, Step, AllOps, CourierOps
    <2> HIDE DEF r
    <2>5. RequestKnows(r)
      BY <2>3 DEF RequestKnows, CourierSteps, OrderSteps, DispatchSteps, UnwrittenSteps
    <2> QED
      BY <2>1, <2>3, <2>4, <2>5, BeginKeeps
  <1> QED
    BY <1>3, <1>4, <1>5, <1>6

\* Requests that begin by reading an order.
LEMMA OrderReadsBegin ==
  ASSUME OrderInv, NEW p \in Procs, NEW o \in Orders,
         SyncRead(p, o) \/ ReadForCancel(p, o) \/ ReadForPaid(p, o)
  PROVE  OrderInv' /\ UNCHANGED <<Committed, trail>>
  <1>1. ASSUME NEW op \in {"wooSync", "cancel", "markPaid"},
               NEW s \in {"syncOrder", "cancelOrder", "payPayment"},
               Begin(p, [NoRequest EXCEPT !.op = op, !.step = s, !.o = o]),
               UNCHANGED <<order, courier, payment, trail, payTrail>>,
               s = "syncOrder" => o \in Linked, s = "cancelOrder" => o \notin Linked
        PROVE  OrderInv' /\ UNCHANGED <<Committed, trail>>
    <2> DEFINE r == [NoRequest EXCEPT !.op = op, !.step = s, !.o = o]
    <2>1. r.step = s /\ r.o = o /\ r.event = None
      BY DEF NoRequest
    <2>2. r \in Request
      BY <1>1 DEF NoRequest, Request, Step, AllOps, StaffOps, StoreOps
    <2>3. Begin(p, r)
      BY <1>1
    <2> HIDE DEF r
    <2>4. RequestKnows(r)
      BY <1>1, <2>1 DEF RequestKnows, CourierSteps, OrderSteps, DispatchSteps, UnwrittenSteps
    <2> QED
      BY <1>1, <2>1, <2>2, <2>3, <2>4, BeginKeeps
  <1>2. CASE SyncRead(p, o)
    BY <1>1, <1>2 DEF SyncRead
  <1>3. CASE ReadForCancel(p, o)
    BY <1>1, <1>3 DEF ReadForCancel
  <1>4. CASE ReadForPaid(p, o)
    BY <1>1, <1>4 DEF ReadForPaid
  <1> QED
    BY <1>2, <1>3, <1>4

\* Requests that begin by reading couriers.
LEMMA CourierReadsBegin ==
  ASSUME OrderInv, NEW p \in Procs, NEW c \in Couriers,
         \/ \E op \in {"goOnline", "goOffline"} : ReadAvailability(p, c, op)
         \/ \E v \in Vehicles : ReadForVehicle(p, c, v)
         \/ ReadForSuspend(p, c) \/ ReadForActivate(p, c)
  PROVE  OrderInv' /\ UNCHANGED <<Committed, trail>>
  <1>1. ASSUME NEW r \in Request, Begin(p, r), r.c = c, r.event = None,
               r.step \in {"setAvailability", "countForSuspend", "setActivated"}
                 \/ (r.step = "countForVehicle" /\ r.vehicle \in Vehicles),
               UNCHANGED <<order, courier, payment, trail, payTrail>>
        PROVE  OrderInv' /\ UNCHANGED <<Committed, trail>>
    <2>1. RequestKnows(r)
      BY <1>1 DEF RequestKnows, CourierSteps, OrderSteps, DispatchSteps, UnwrittenSteps
    <2> QED
      BY <1>1, <2>1, BeginKeeps
  <1>2. ASSUME NEW op \in {"goOnline", "goOffline"}, ReadAvailability(p, c, op)
        PROVE  OrderInv' /\ UNCHANGED <<Committed, trail>>
    <2> DEFINE r == [NoRequest EXCEPT !.op = op, !.step = "setAvailability", !.c = c]
    <2>1. r \in Request /\ r.c = c /\ r.event = None /\ r.step = "setAvailability"
      BY DEF NoRequest, Request, Step, AllOps, CourierOps
    <2>2. Begin(p, r) /\ UNCHANGED <<order, courier, payment, trail, payTrail>>
      BY <1>2 DEF ReadAvailability
    <2> HIDE DEF r
    <2> QED
      BY <1>1, <2>1, <2>2
  <1>3. ASSUME NEW v \in Vehicles, ReadForVehicle(p, c, v)
        PROVE  OrderInv' /\ UNCHANGED <<Committed, trail>>
    <2> DEFINE r == [NoRequest EXCEPT !.op = "changeVehicle", !.step = "countForVehicle",
                                      !.c = c, !.vehicle = v]
    <2>1. /\ r \in Request /\ r.c = c /\ r.event = None
          /\ r.step = "countForVehicle" /\ r.vehicle \in Vehicles
      BY DEF NoRequest, Request, Step, AllOps, StaffOps
    <2>2. Begin(p, r) /\ UNCHANGED <<order, courier, payment, trail, payTrail>>
      BY <1>3 DEF ReadForVehicle
    <2> HIDE DEF r
    <2> QED
      BY <1>1, <2>1, <2>2
  <1>4. CASE ReadForSuspend(p, c)
    <2> DEFINE r == [NoRequest EXCEPT !.op = "suspend", !.step = "countForSuspend", !.c = c]
    <2>1. r \in Request /\ r.c = c /\ r.event = None /\ r.step = "countForSuspend"
      BY DEF NoRequest, Request, Step, AllOps, StaffOps
    <2>2. Begin(p, r) /\ UNCHANGED <<order, courier, payment, trail, payTrail>>
      BY <1>4 DEF ReadForSuspend
    <2> HIDE DEF r
    <2> QED
      BY <1>1, <2>1, <2>2
  <1>5. CASE ReadForActivate(p, c)
    <2> DEFINE r == [NoRequest EXCEPT !.op = "activate", !.step = "setActivated", !.c = c]
    <2>1. r \in Request /\ r.c = c /\ r.event = None /\ r.step = "setActivated"
      BY DEF NoRequest, Request, Step, AllOps, StaffOps
    <2>2. Begin(p, r) /\ UNCHANGED <<order, courier, payment, trail, payTrail>>
      BY <1>5 DEF ReadForActivate
    <2> HIDE DEF r
    <2> QED
      BY <1>1, <2>1, <2>2
  <1> QED
    BY <1>2, <1>3, <1>4, <1>5
-----------------------------------------------------------------------------
(* The whole next-state relation.                                          *)

LEMMA NextStep ==
  ASSUME OrderInv, Next
  PROVE  OrderInv' /\ (Life!Next \/ UNCHANGED <<Committed, trail>>)
  <1> PICK p \in Procs : Arrive(p) \/ Continue(p) \/ Abort(p)
    BY DEF Next
  <1>1. CASE Arrive(p)
    <2>1. CASE \E o \in Orders, c \in Couriers :
                 RejectOrder(p, c, o) \/ PickUpOrder(p, c, o) \/ DeliverOrder(p, c, o)
      BY <2>1, OwnOrderKeeps
    <2>2. CASE \E o \in Orders, c \in Couriers :
                 \/ ReadForAccept(p, c, o)
                 \/ AssignRead(p, o, c) \/ ReassignRead(p, o, c) \/ WooAssignRead(p, o, c)
      BY <2>2, CourierOrderReadsBegin
    <2>3. CASE \E o \in Orders : SyncRead(p, o) \/ ReadForCancel(p, o) \/ ReadForPaid(p, o)
      BY <2>3, OrderReadsBegin
    <2>4. CASE \E c \in Couriers :
                 \/ \E op \in {"goOnline", "goOffline"} : ReadAvailability(p, c, op)
                 \/ \E v \in Vehicles : ReadForVehicle(p, c, v)
                 \/ ReadForSuspend(p, c) \/ ReadForActivate(p, c)
      BY <2>4, CourierReadsBegin
    <2> QED
      BY <1>1, <2>1, <2>2, <2>3, <2>4 DEF Arrive
  <1>2. CASE Continue(p)
    BY <1>2, ReadsKeep, CourierWritesKeep, OrderWritesKeep, ReleaseKeeps, PaymentKeeps,
       CommitStep DEF Continue
  <1>3. CASE Abort(p)
    BY <1>3, RollbackKeeps DEF Abort
  <1> QED
    BY <1>1, <1>2, <1>3

LEMMA StutterStep ==
  ASSUME OrderInv, UNCHANGED vars
  PROVE  OrderInv' /\ UNCHANGED <<Committed, trail>>
  BY DEF OrderInv, TypeOK, OrdersConsistent, TrailMatches, DraftsAudited, EventsWritten,
         RequestKnows, Committed, vars
-----------------------------------------------------------------------------
(* Theorems.                                                               *)

\* The inductive invariant holds of every behaviour: whatever is written but
\* not committed is a legal step away, with its audit event at hand.
THEOREM OrderInvariant == Spec => []OrderInv
  <1>1. Init => OrderInv
    BY InitInv
  <1>2. OrderInv /\ [Next]_vars => OrderInv'
    BY NextStep, StutterStep
  <1> QED
    BY <1>1, <1>2, PTL DEF Spec

\* Every variable keeps its type.
THEOREM TypeCorrect == Spec => []TypeOK
  <1>1. OrderInv => TypeOK
    BY DEF OrderInv
  <1> QED
    BY <1>1, OrderInvariant, PTL

\* Status and courier of every committed order fit each other.
THEOREM OrdersStayConsistent == Spec => []OrdersConsistent
  <1>1. OrderInv => OrdersConsistent
    BY DEF OrderInv
  <1> QED
    BY <1>1, OrderInvariant, PTL

\* The last committed event of every order leads to its committed status.
THEOREM TrailStaysTrue == Spec => []TrailMatches
  <1>1. OrderInv => TrailMatches
    BY DEF OrderInv
  <1> QED
    BY <1>1, OrderInvariant, PTL

\* Dispatch implements Lifecycle: however the statements of the handlers
\* interleave and wherever requests die, the committed orders take one legal,
\* audited step at a time.
THEOREM ImplementsLifecycle == Spec => OrdersFollowLifecycle
  <1>1. Init => Life!Init
    BY DEF Init, Life!Init, Committed, Row, Event, Life!Open
  <1>2. OrderInv /\ [Next]_vars => [Life!Next]_<<Committed, trail>>
    BY NextStep, StutterStep
  <1> QED
    BY <1>1, <1>2, OrderInvariant, PTL DEF Spec, OrdersFollowLifecycle, Life!Spec

\* A legal step leaves no final version, and none that is on the road for
\* another courier.
LEMMA FollowsCustody ==
  ASSUME NEW o, NEW old, NEW new, Life!Follows(o, old, new)
  PROVE  /\ old.status \notin Terminal
         /\ old.status = "PICKED_UP" => new.courier = old.courier
  <1>1. /\ Life!Open.status = "REQUESTED"
        /\ \A c : /\ Life!With(c).status = "ASSIGNED"
                 /\ Life!OnRoad(c).status = "PICKED_UP"
                 /\ Life!OnRoad(c).courier = c /\ Life!Done(c).courier = c
    BY DEF Life!Open, Life!With, Life!OnRoad, Life!Done
  <1> QED
    BY <1>1 DEF Life!Follows, Terminal

\* A delivered or cancelled order never changes again, and an order on the
\* road never changes hands.
THEOREM CustodyStaysKept == Spec => CustodyKept
  <1> DEFINE Kept(o) ==
        /\ order[o].at.status \in Terminal => order'[o].at = order[o].at
        /\ order[o].at.status = "PICKED_UP" => order'[o].at.courier = order[o].at.courier
  <1>1. ASSUME Life!Next PROVE \A o \in Orders : Kept(o)
    <2>1. PICK q \in Orders : \E new \in Life!Legal(q) : Life!Advance(q, new)
      BY <1>1 DEF Life!Next
    <2> PICK new : Life!Advance(q, new)
      BY <2>1
    <2>2. Life!Follows(q, order[q].at, new) /\ order'[q].at = new
      BY DEF Life!Advance, Committed
    <2>3. \A o \in Orders : o # q => order'[o].at = order[o].at
      BY DEF Life!Advance, Committed
    <2>4. order[q].at.status \notin Terminal
      BY <2>2, FollowsCustody
    <2>5. order[q].at.status = "PICKED_UP" => new.courier = order[q].at.courier
      BY <2>2, FollowsCustody
    <2> QED
      BY <2>2, <2>3, <2>4, <2>5
  <1>2. ASSUME UNCHANGED Committed PROVE \A o \in Orders : Kept(o)
    BY <1>2 DEF Committed
  <1>3. OrderInv /\ [Next]_vars => [\A o \in Orders : Kept(o)]_vars
    BY <1>1, <1>2, NextStep
  <1> QED
    BY <1>3, OrderInvariant, PTL DEF Spec, CustodyKept
-----------------------------------------------------------------------------
(* Payments.                                                               *)

\* A written payment belongs to one request, which holds the event that leads
\* to the written status.
PaymentsAudited ==
  \A o \in Orders :
    LET row == payment[o] IN
    /\ row.by = None => row.draft = row.at
    /\ row.by # None =>
         /\ tx[row.by].o = o
         /\ tx[row.by].payEvent # None
         /\ tx[row.by].payEvent.to = row.draft

\* A request that has a payment event to insert has written the payment, and
\* has nothing left to do but to commit.
PayEventsWritten ==
  \A p \in Procs : tx[p].payEvent # None =>
    /\ tx[p].step = "commit"
    /\ tx[p].o \in Orders
    /\ payment[tx[p].o].by = p

\* The inductive invariant, relative to OrderInv.
PaymentInv == PaymentTrailMatches /\ PaymentsAudited /\ PayEventsWritten
-----------------------------------------------------------------------------
LEMMA PayInit == Init => PaymentInv
  <1> SUFFICES ASSUME Init PROVE PaymentInv
    OBVIOUS
  <1>1. \A o \in Orders : payment[o].by = None /\ payment[o].draft = payment[o].at
    <2>1. \A o \in Orders : payment[o] \in {Row("PENDING"), Row("PAID")}
      BY DEF Init
    <2> QED
      BY <2>1 DEF Row
  <1>2. PaymentTrailMatches
    BY DEF Init, PaymentTrailMatches, Event
  <1>3. PaymentsAudited
    BY <1>1 DEF PaymentsAudited
  <1>4. PayEventsWritten
    BY DEF Init, PayEventsWritten, NoRequest
  <1> QED
    BY <1>2, <1>3, <1>4 DEF PaymentInv

\* A payment request p has written is the one of its order, and then p is
\* about to commit.
LEMMA OnePaymentPerRequest ==
  ASSUME OrderInv, PaymentInv, NEW p \in Procs, NEW o \in Orders, payment[o].by = p
  PROVE  /\ tx[p].payEvent # None /\ tx[p].o = o
         /\ tx[p].payEvent.to = payment[o].draft
         /\ tx[p].step = "commit"
  <1>1. p # None
    BY NoneAssumption
  <1>2. tx[p].payEvent # None /\ tx[p].o = o /\ tx[p].payEvent.to = payment[o].draft
    BY <1>1 DEF PaymentInv, PaymentsAudited
  <1> QED
    BY <1>2 DEF PaymentInv, PayEventsWritten
-----------------------------------------------------------------------------
(* The four ways a step can treat the payments.                            *)

\* It leaves them alone.
LEMMA PayQuiet ==
  ASSUME OrderInv, PaymentInv, NEW p \in Procs, NEW r, tx' = [tx EXCEPT ![p] = r],
         tx[p].payEvent = None, r.payEvent = None, UNCHANGED <<payment, payTrail>>
  PROVE  PaymentInv'
  <1>0. tx \in [Procs -> Request] /\ \A o \in Orders : payment[o].by \in Procs \cup {None}
    BY DEF OrderInv, TypeOK, Rows
  <1>1. PaymentTrailMatches'
    BY DEF PaymentInv, PaymentTrailMatches
  <1>2. PayEventsWritten'
    BY <1>0 DEF PaymentInv, PayEventsWritten
  <1>3. PaymentsAudited'
    <2> SUFFICES ASSUME NEW o \in Orders
                 PROVE  /\ payment[o].by = None => payment[o].draft = payment[o].at
                        /\ payment[o].by # None =>
                             /\ tx'[payment[o].by].o = o
                             /\ tx'[payment[o].by].payEvent # None
                             /\ tx'[payment[o].by].payEvent.to = payment[o].draft
      BY DEF PaymentsAudited
    <2>1. payment[o].by # p
      BY OnePaymentPerRequest
    <2> QED
      BY <1>0, <2>1 DEF PaymentInv, PaymentsAudited
  <1> QED
    BY <1>1, <1>2, <1>3 DEF PaymentInv

\* It drops a request and whatever it wrote.
LEMMA PayRollback ==
  ASSUME OrderInv, PaymentInv, NEW p \in Procs, Rollback(p)
  PROVE  PaymentInv'
  <1>0. /\ tx \in [Procs -> Request]
        /\ \A o \in Orders : payment[o].by \in Procs \cup {None}
        /\ p # None
    BY NoneAssumption DEF OrderInv, TypeOK, Rows
  <1>1. PaymentTrailMatches'
    BY DEF PaymentInv, PaymentTrailMatches, Rollback, Undo, Row
  <1>2. PayEventsWritten'
    BY <1>0 DEF PaymentInv, PayEventsWritten, Rollback, Undo, NoRequest
  <1>3. PaymentsAudited'
    BY <1>0 DEF PaymentInv, PaymentsAudited, Rollback, Undo, Row
  <1> QED
    BY <1>1, <1>2, <1>3 DEF PaymentInv

\* It writes one payment and remembers the event.
LEMMA PayWrite ==
  ASSUME OrderInv, PaymentInv, NEW p \in Procs, tx[p].o \in Orders,
         tx[p].step # "commit", NEW status \in PaymentStatus, NEW from \in PaymentStatus,
         WritePayment(p, status, from)
  PROVE  PaymentInv'
  <1> DEFINE o == tx[p].o
             e == Event(from, status)
  <1>0. /\ tx \in [Procs -> Request]
        /\ \A q \in Orders : payment[q].by \in Procs \cup {None}
        /\ DOMAIN payment = Orders
        /\ p # None
    BY NoneAssumption DEF OrderInv, TypeOK, Rows
  <1>1. e # None /\ e.to = status
    BY NoneAssumption DEF Event, PaymentEvent
  <1>2. \A q \in Orders : payment[q].by # p
    BY OnePaymentPerRequest
  <1>3. payment[o].by = None
    BY <1>2 DEF WritePayment, Free
  <1>4. payment' = [payment EXCEPT ![o] = [at |-> payment[o].at, draft |-> status, by |-> p]]
    BY DEF WritePayment, Put
  <1>5. /\ tx' = [tx EXCEPT ![p] = tx'[p]]
        /\ tx'[p].o = o /\ tx'[p].payEvent = e /\ tx'[p].step = "commit"
    <2>1. tx[p] \in Request
      BY <1>0
    <2> QED
      BY <1>0, <2>1 DEF WritePayment, Request
  <1>6. PaymentTrailMatches'
    BY <1>0, <1>4 DEF PaymentInv, PaymentTrailMatches, WritePayment
  <1>7. PaymentsAudited'
    <2> SUFFICES ASSUME NEW q \in Orders
                 PROVE  /\ payment'[q].by = None => payment'[q].draft = payment'[q].at
                        /\ payment'[q].by # None =>
                             /\ tx'[payment'[q].by].o = q
                             /\ tx'[payment'[q].by].payEvent # None
                             /\ tx'[payment'[q].by].payEvent.to = payment'[q].draft
      BY DEF PaymentsAudited
    <2>1. CASE q = o
      BY <1>0, <1>1, <1>4, <1>5, <2>1
    <2>2. CASE q # o
      <3>1. payment'[q] = payment[q]
        BY <1>0, <1>4, <2>2
      <3>2. payment[q].by # None => tx'[payment[q].by] = tx[payment[q].by]
        BY <1>0, <1>2, <1>5
      <3> QED
        BY <3>1, <3>2 DEF PaymentInv, PaymentsAudited
    <2> QED
      BY <2>1, <2>2
  <1>8. PayEventsWritten'
    <2> SUFFICES ASSUME NEW q \in Procs, tx'[q].payEvent # None
                 PROVE  /\ tx'[q].step = "commit"
                        /\ tx'[q].o \in Orders
                        /\ payment'[tx'[q].o].by = q
      BY DEF PayEventsWritten
    <2>1. CASE q = p
      BY <1>0, <1>4, <1>5, <2>1
    <2>2. CASE q # p
      <3>1. tx'[q] = tx[q]
        BY <1>0, <1>5, <2>2
      <3>2. tx[q].step = "commit" /\ tx[q].o \in Orders /\ payment[tx[q].o].by = q
        BY <3>1 DEF PaymentInv, PayEventsWritten
      <3>3. tx[q].o # o
        BY <1>3, <3>2, NoneAssumption
      <3> QED
        BY <1>0, <1>4, <3>1, <3>2, <3>3
    <2> QED
      BY <2>1, <2>2
  <1> QED
    BY <1>6, <1>7, <1>8 DEF PaymentInv

\* It commits: the payment and its event become visible together.
LEMMA PayCommit ==
  ASSUME OrderInv, PaymentInv, NEW p \in Procs, Commit(p)
  PROVE  PaymentInv'
  <1>0. /\ tx \in [Procs -> Request]
        /\ \A o \in Orders : payment[o].by \in Procs \cup {None}
        /\ payTrail \in [Orders -> PaymentEvent]
        /\ p # None
    BY NoneAssumption DEF OrderInv, TypeOK, Rows
  <1>1. tx' = [tx EXCEPT ![p] = NoRequest] /\ NoRequest.payEvent = None
    BY DEF Commit, NoRequest
  <1>2. \A o \in Orders : payment[o].by # p => payment'[o] = payment[o]
    BY DEF Commit, Settle
  <1>3. \A o \in Orders : payment[o].by = p =>
          payment'[o].at = payment[o].draft /\ payment'[o].draft = payment[o].draft
            /\ payment'[o].by = None
    BY DEF Commit, Settle, Row
  <1>4. PaymentTrailMatches'
    <2> SUFFICES ASSUME NEW o \in Orders PROVE payTrail'[o].to = payment'[o].at
      BY DEF PaymentTrailMatches
    <2>1. CASE payment[o].by = p
      <3>1. tx[p].payEvent # None /\ tx[p].o = o /\ tx[p].payEvent.to = payment[o].draft
        BY <2>1, OnePaymentPerRequest
      <3>2. payTrail'[o] = tx[p].payEvent
        BY <1>0, <3>1 DEF Commit
      <3> QED
        BY <1>3, <2>1, <3>1, <3>2
    <2>2. CASE payment[o].by # p
      <3>1. tx[p].payEvent = None \/ tx[p].o # o
        BY <2>2 DEF PaymentInv, PayEventsWritten
      <3>2. payTrail'[o] = payTrail[o]
        BY <1>0, <3>1 DEF Commit
      <3> QED
        BY <1>2, <2>2, <3>2 DEF PaymentInv, PaymentTrailMatches
    <2> QED
      BY <2>1, <2>2
  <1>5. PaymentsAudited'
    <2> SUFFICES ASSUME NEW o \in Orders
                 PROVE  /\ payment'[o].by = None => payment'[o].draft = payment'[o].at
                        /\ payment'[o].by # None =>
                             /\ tx'[payment'[o].by].o = o
                             /\ tx'[payment'[o].by].payEvent # None
                             /\ tx'[payment'[o].by].payEvent.to = payment'[o].draft
      BY DEF PaymentsAudited
    <2>1. CASE payment[o].by = p
      BY <1>3, <2>1
    <2>2. CASE payment[o].by # p
      BY <1>0, <1>1, <1>2, <2>2 DEF PaymentInv, PaymentsAudited
    <2> QED
      BY <2>1, <2>2
  <1>6. PayEventsWritten'
    <2> SUFFICES ASSUME NEW q \in Procs, tx'[q].payEvent # None
                 PROVE  /\ tx'[q].step = "commit"
                        /\ tx'[q].o \in Orders
                        /\ payment'[tx'[q].o].by = q
      BY DEF PayEventsWritten
    <2>1. q # p /\ tx'[q] = tx[q]
      BY <1>0, <1>1
    <2>2. tx[q].step = "commit" /\ tx[q].o \in Orders /\ payment[tx[q].o].by = q
      BY <2>1 DEF PaymentInv, PayEventsWritten
    <2> QED
      BY <1>2, <2>1, <2>2
  <1> QED
    BY <1>4, <1>5, <1>6 DEF PaymentInv
-----------------------------------------------------------------------------
(* What the handlers' building blocks keep.                                *)

\* Only a request about to commit has a payment event at hand.
LEMMA NoPayEvent ==
  ASSUME PaymentInv, NEW p \in Procs, tx[p].step # "commit"
  PROVE  tx[p].payEvent = None
  BY DEF PaymentInv, PayEventsWritten

LEMMA PayGoTo ==
  ASSUME OrderInv, PaymentInv, NEW p \in Procs, tx[p].step # "commit", NEW s,
         GoTo(p, s), UNCHANGED <<payment, payTrail>>
  PROVE  PaymentInv'
  <1>1. tx[p] \in Request
    BY DEF OrderInv, TypeOK
  <1>2. [tx[p] EXCEPT !.step = s].payEvent = None
    BY <1>1, NoPayEvent DEF Request
  <1>3. tx' = [tx EXCEPT ![p] = [tx[p] EXCEPT !.step = s]]
    BY DEF GoTo
  <1> QED
    BY <1>2, <1>3, NoPayEvent, PayQuiet

LEMMA PayUpdateOrder ==
  ASSUME OrderInv, PaymentInv, NEW p \in Procs, tx[p].step # "commit",
         NEW matches, NEW new, NEW e, NEW s, UpdateOrder(p, matches, new, e, s)
  PROVE  PaymentInv'
  <1>1. CASE Rollback(p)
    BY <1>1, PayRollback
  <1>2. CASE tx' = [tx EXCEPT ![p].step = s, ![p].event = e] /\ UNCHANGED <<payment, payTrail>>
    <2> DEFINE r == [tx[p] EXCEPT !.step = s, !.event = e]
    <2>1. tx \in [Procs -> Request] /\ tx[p] \in Request
      BY DEF OrderInv, TypeOK
    <2>2. r.payEvent = None
      BY <2>1, NoPayEvent DEF Request
    <2>3. tx' = [tx EXCEPT ![p] = r]
      BY <1>2, <2>1
    <2> HIDE DEF r
    <2> QED
      BY <1>2, <2>2, <2>3, NoPayEvent, PayQuiet
  <1> QED
    BY <1>1, <1>2 DEF UpdateOrder

\* A request that arrives brings no event for a payment.
LEMMA PayBegin ==
  ASSUME OrderInv, PaymentInv, NEW p \in Procs, NEW r, Begin(p, r), r.payEvent = None,
         UNCHANGED <<payment, payTrail>>
  PROVE  PaymentInv'
  <1>1. tx[p].payEvent = None
    BY DEF Begin, NoRequest
  <1> QED
    BY <1>1, PayQuiet DEF Begin
-----------------------------------------------------------------------------
(* One step of the requests.                                               *)

LEMMA PayArrive ==
  ASSUME OrderInv, PaymentInv, NEW p \in Procs, Arrive(p)
  PROVE  PaymentInv'
  <1>1. UNCHANGED <<payment, payTrail>>
    BY DEF Arrive, ReadForAccept, RejectOrder, PickUpOrder, DeliverOrder, StartOnOwnOrder,
           AssignRead, ReassignRead, WooAssignRead, BeginDispatch, SyncRead, ReadForCancel,
           ReadForPaid, ReadAvailability, ReadForVehicle, ReadForSuspend, ReadForActivate
  <1>2. CASE \E o \in Orders, c \in Couriers :
               \/ ReadForAccept(p, c, o)
               \/ RejectOrder(p, c, o)
               \/ PickUpOrder(p, c, o)
               \/ DeliverOrder(p, c, o)
               \/ AssignRead(p, o, c)
               \/ ReassignRead(p, o, c)
               \/ WooAssignRead(p, o, c)
    <2> PICK o \in Orders, c \in Couriers :
               \/ ReadForAccept(p, c, o)
               \/ RejectOrder(p, c, o)
               \/ PickUpOrder(p, c, o)
               \/ DeliverOrder(p, c, o)
               \/ AssignRead(p, o, c)
               \/ ReassignRead(p, o, c)
               \/ WooAssignRead(p, o, c)
      BY <1>2
    <2>1. CASE ReadForAccept(p, c, o)
      BY <1>1, <2>1, PayBegin DEF ReadForAccept, NoRequest
    <2>2. CASE RejectOrder(p, c, o)
      BY <1>1, <2>2, PayBegin DEF RejectOrder, StartOnOwnOrder, NoRequest
    <2>3. CASE PickUpOrder(p, c, o)
      BY <1>1, <2>3, PayBegin DEF PickUpOrder, StartOnOwnOrder, NoRequest
    <2>4. CASE DeliverOrder(p, c, o)
      BY <1>1, <2>4, PayBegin DEF DeliverOrder, StartOnOwnOrder, NoRequest
    <2>5. CASE AssignRead(p, o, c)
      BY <1>1, <2>5, PayBegin DEF AssignRead, BeginDispatch, NoRequest
    <2>6. CASE ReassignRead(p, o, c)
      BY <1>1, <2>6, PayBegin DEF ReassignRead, BeginDispatch, NoRequest
    <2>7. CASE WooAssignRead(p, o, c)
      BY <1>1, <2>7, PayBegin DEF WooAssignRead, BeginDispatch, NoRequest
    <2> QED
      BY <2>1, <2>2, <2>3, <2>4, <2>5, <2>6, <2>7
  <1>3. CASE \E o \in Orders :
               \/ SyncRead(p, o)
               \/ ReadForCancel(p, o)
               \/ ReadForPaid(p, o)
    <2> PICK o \in Orders :
               \/ SyncRead(p, o)
               \/ ReadForCancel(p, o)
               \/ ReadForPaid(p, o)
      BY <1>3
    <2>1. CASE SyncRead(p, o)
      BY <1>1, <2>1, PayBegin DEF SyncRead, NoRequest
    <2>2. CASE ReadForCancel(p, o)
      BY <1>1, <2>2, PayBegin DEF ReadForCancel, NoRequest
    <2>3. CASE ReadForPaid(p, o)
      BY <1>1, <2>3, PayBegin DEF ReadForPaid, NoRequest
    <2> QED
      BY <2>1, <2>2, <2>3
  <1>4. CASE \E c \in Couriers :
               \/ \E op \in {"goOnline", "goOffline"} : ReadAvailability(p, c, op)
               \/ \E v \in Vehicles : ReadForVehicle(p, c, v)
               \/ ReadForSuspend(p, c)
               \/ ReadForActivate(p, c)
    <2> PICK c \in Couriers :
               \/ \E op \in {"goOnline", "goOffline"} : ReadAvailability(p, c, op)
               \/ \E v \in Vehicles : ReadForVehicle(p, c, v)
               \/ ReadForSuspend(p, c)
               \/ ReadForActivate(p, c)
      BY <1>4
    <2>1. CASE \E op \in {"goOnline", "goOffline"} : ReadAvailability(p, c, op)
      BY <1>1, <2>1, PayBegin DEF ReadAvailability, NoRequest
    <2>2. CASE \E v \in Vehicles : ReadForVehicle(p, c, v)
      BY <1>1, <2>2, PayBegin DEF ReadForVehicle, NoRequest
    <2>3. CASE ReadForSuspend(p, c)
      BY <1>1, <2>3, PayBegin DEF ReadForSuspend, NoRequest
    <2>4. CASE ReadForActivate(p, c)
      BY <1>1, <2>4, PayBegin DEF ReadForActivate, NoRequest
    <2> QED
      BY <2>1, <2>2, <2>3, <2>4
  <1> QED
    BY <1>2, <1>3, <1>4 DEF Arrive

LEMMA PayContinue ==
  ASSUME OrderInv, PaymentInv, NEW p \in Procs, Continue(p)
  PROVE  PaymentInv'
  <1>1. CASE ReadTargetCourier(p) \/ ReserveScan(p)
               \/ CountActive(p) \/ CountForVehicle(p) \/ CountForSuspend(p)
    <2>1. CASE ReadTargetCourier(p)
      BY <2>1, PayGoTo, PayRollback DEF ReadTargetCourier, Check, At
    <2>2. CASE ReserveScan(p)
      BY <2>2, PayGoTo, PayRollback DEF ReserveScan, Check, At
    <2>3. CASE CountActive(p)
      BY <2>3, PayGoTo, PayRollback DEF CountActive, Check, At
    <2>4. CASE CountForVehicle(p)
      BY <2>4, PayGoTo, PayRollback DEF CountForVehicle, Check, At
    <2>5. CASE CountForSuspend(p)
      BY <2>5, PayGoTo, PayRollback DEF CountForSuspend, Check, At
    <2> QED
      BY <1>1, <2>1, <2>2, <2>3, <2>4, <2>5
  <1>2. CASE ClaimCourier(p) \/ Reserve(p) \/ SetAvailability(p)
               \/ SetVehicle(p) \/ SetSuspended(p) \/ SetActivated(p)
    <2>1. CASE ClaimCourier(p)
      BY <2>1, PayGoTo, PayRollback DEF ClaimCourier, UpdateCourier, At
    <2>2. CASE Reserve(p)
      BY <2>2, PayGoTo, PayRollback DEF Reserve, UpdateCourier, At
    <2>3. CASE SetAvailability(p)
      BY <2>3, PayGoTo, PayRollback DEF SetAvailability, UpdateCourier, At
    <2>4. CASE SetVehicle(p)
      BY <2>4, PayGoTo, PayRollback DEF SetVehicle, UpdateCourier, At
    <2>5. CASE SetSuspended(p)
      BY <2>5, PayGoTo, PayRollback DEF SetSuspended, UpdateCourier, At
    <2>6. CASE SetActivated(p)
      BY <2>6, PayGoTo, PayRollback DEF SetActivated, UpdateCourier, At
    <2> QED
      BY <1>2, <2>1, <2>2, <2>3, <2>4, <2>5, <2>6
  <1>3. CASE ClaimOrder(p) \/ CancelOrder(p) \/ SyncOrder(p)
    <2>1. CASE ClaimOrder(p)
      BY <2>1, PayUpdateOrder DEF ClaimOrder, At
    <2>2. CASE CancelOrder(p)
      BY <2>2, PayUpdateOrder DEF CancelOrder, At
    <2>3. CASE SyncOrder(p)
      BY <2>3, PayUpdateOrder DEF SyncOrder, At
    <2> QED
      BY <1>3, <2>1, <2>2, <2>3
  <1>8. CASE AssignMove(p) \/ ReassignMove(p) \/ WooAssignMove(p)
    <2> PICK op, next : MoveOrder(p, op, next)
      BY <1>8 DEF AssignMove, ReassignMove, WooAssignMove
    <2> QED
      BY PayUpdateOrder DEF MoveOrder, At
  <1>4. CASE ReleaseScan(p) \/ Release(p) \/ ReadPaymentForCancel(p)
    <2>1. CASE ReleaseScan(p)
      BY <2>1, PayGoTo DEF ReleaseScan, At
    <2>2. CASE Release(p)
      BY <2>2, PayGoTo DEF Release, At
    <2>3. CASE ReadPaymentForCancel(p)
      BY <2>3, PayGoTo DEF ReadPaymentForCancel, At
    <2> QED
      BY <1>4, <2>1, <2>2, <2>3
  <1>5. CASE CancelPayment(p)
    <2>1. At(p, "cancelPayment") /\ tx[p].o \in Orders
      BY <1>5 DEF CancelPayment, At, OrderInv, RequestKnows, OrderSteps
    <2> QED
      BY <1>5, <2>1, PayWrite DEF CancelPayment, At, PaymentStatus
  <1>6. CASE PayPayment(p)
    <2>1. At(p, "payPayment") /\ tx[p].o \in Orders
      BY <1>6 DEF PayPayment, At, OrderInv, RequestKnows, OrderSteps
    <2> QED
      BY <1>6, <2>1, PayWrite, PayRollback DEF PayPayment, At, PaymentStatus
  <1>7. CASE Commit(p)
    BY <1>7, PayCommit
  <1> QED
    BY <1>1, <1>2, <1>3, <1>4, <1>5, <1>6, <1>7, <1>8 DEF Continue

LEMMA PayNext ==
  ASSUME OrderInv, PaymentInv, [Next]_vars
  PROVE  PaymentInv'
  <1>1. CASE Next
    <2> PICK p \in Procs : Arrive(p) \/ Continue(p) \/ Abort(p)
      BY <1>1 DEF Next
    <2> QED
      BY PayArrive, PayContinue, PayRollback DEF Abort
  <1>2. CASE UNCHANGED vars
    BY <1>2 DEF vars, PaymentInv, PaymentTrailMatches, PaymentsAudited, PayEventsWritten
  <1> QED
    BY <1>1, <1>2
-----------------------------------------------------------------------------
\* Whoever writes a payment holds its row, with the event that tells what it
\* wrote, and has only to commit.
THEOREM PaymentInvariant == Spec => []PaymentInv
  <1>1. Init => PaymentInv
    BY PayInit
  <1>2. OrderInv /\ PaymentInv /\ [Next]_vars => PaymentInv'
    BY PayNext
  <1> QED
    BY <1>1, <1>2, OrderInvariant, PTL DEF Spec

\* The last committed event of every payment leads to its committed status,
\* also when markPaid and cancel overtake each other: each of them writes the
\* payment and its event in one transaction, and the second waits for the
\* first one's row lock.
THEOREM PaymentTrailStaysTrue == Spec => []PaymentTrailMatches
  <1>1. PaymentInv => PaymentTrailMatches
    BY DEF PaymentInv
  <1> QED
    BY <1>1, PaymentInvariant, PTL
-----------------------------------------------------------------------------
(* Payment events chain.                                                   *)

\* A request that goes on to statement s.
LEMMA GoneTo ==
  ASSUME OrderInv, NEW p \in Procs, NEW s, GoTo(p, s)
  PROVE  /\ \A q \in Procs \ {p} : tx'[q] = tx[q]
         /\ tx'[p].step = s /\ tx'[p].o = tx[p].o /\ tx'[p].c = tx[p].c
         /\ tx'[p].rel = tx[p].rel /\ tx'[p].vehicle = tx[p].vehicle
         /\ tx'[p].op = tx[p].op /\ tx'[p].seen = tx[p].seen
  <1>1. tx \in [Procs -> Request]
    BY DEF OrderInv, TypeOK
  <1>2. tx' = [tx EXCEPT ![p] = [tx[p] EXCEPT !.step = s]]
    BY DEF GoTo
  <1> QED
    BY <1>1, <1>2 DEF Request

\* Requests that come one after the other.
OneAtATime == \A p, q \in Procs : p = q

\* cancel reads the payment and writes it a statement later: nobody may write
\* it in between.
PaymentsApart == OneAtATime \/ "cancel" \notin Ops \/ "markPaid" \notin Ops

\* What request p, at statement t, knows of its payment: who cancels holds the
\* order, and what it read is still true; an event to insert starts from what
\* is committed.
ChainKnows(p, t) ==
  /\ t.step \in {"cancelOrder", "readPayment", "cancelPayment"} => "cancel" \in Ops
  /\ t.step = "payPayment" => "markPaid" \in Ops
  /\ t.step \in {"readPayment", "cancelPayment"} => t.o \in Orders /\ order[t.o].by = p
  /\ t.step = "cancelPayment" => payment[t.o].at = "PENDING"
  /\ t.payEvent # None =>
       /\ t.payEvent.from = payment[t.o].at
       /\ order[t.o].by = p \/ "markPaid" \in Ops

ChainInv == \A p \in Procs : ChainKnows(p, tx[p])

\* A step of request p that concerns no other, and shows no payment.
LEMMA ChainStep ==
  ASSUME OrderInv, PaymentInv, ChainInv, NEW p \in Procs,
         \A q \in Procs \ {p} : tx'[q] = tx[q],
         \A o \in Orders : order'[o].by = order[o].by \/ order[o].by \in {p, None},
         \A o \in Orders : payment'[o].at = payment[o].at,
         ChainKnows(p, tx[p])'
  PROVE  ChainInv'
  <1>1. ASSUME NEW q \in Procs \ {p} PROVE ChainKnows(q, tx[q])'
    <2>1. ChainKnows(q, tx[q]) /\ tx'[q] = tx[q] /\ q # None
      BY <1>1, NoneAssumption DEF ChainInv
    <2>2. tx[q].payEvent # None => tx[q].o \in Orders
      BY DEF PaymentInv, PayEventsWritten
    <2>3. \A o \in Orders : order[o].by = q => order'[o].by = q
      BY <2>1
    <2>4. CASE tx[q].o \in Orders
      BY <2>1, <2>3, <2>4 DEF ChainKnows
    <2>5. CASE tx[q].o \notin Orders
      BY <2>1, <2>2, <2>5 DEF ChainKnows
    <2> QED
      BY <2>4, <2>5
  <1> QED
    BY <1>1 DEF ChainInv

\* Who has nothing to do with payments.
LEMMA ChainNothing ==
  ASSUME NEW p \in Procs, tx'[p].payEvent = None,
         tx'[p].step \notin {"cancelOrder", "readPayment", "cancelPayment", "payPayment"}
  PROVE  ChainKnows(p, tx[p])'
  BY DEF ChainKnows

LEMMA ChainRollback ==
  ASSUME OrderInv, PaymentInv, ChainInv, NEW p \in Procs, Rollback(p)
  PROVE  ChainInv'
  <1>1. /\ \A q \in Procs \ {p} : tx'[q] = tx[q]
        /\ tx'[p].payEvent = None /\ tx'[p].step = "none"
    BY DEF Rollback, NoRequest, OrderInv, TypeOK
  <1>2. /\ \A o \in Orders : order'[o].by = order[o].by \/ order[o].by \in {p, None}
        /\ \A o \in Orders : payment'[o].at = payment[o].at
    BY DEF Rollback, Undo, Row
  <1> QED
    BY <1>1, <1>2, ChainNothing, ChainStep

\* Only a commit shows a payment; and nobody is about to cancel it then.
LEMMA ChainCommit ==
  ASSUME PaymentsApart, OrderInv, PaymentInv, ChainInv, NEW p \in Procs, Commit(p)
  PROVE  ChainInv'
  <1>1. /\ \A q \in Procs \ {p} : tx'[q] = tx[q]
        /\ tx'[p].payEvent = None /\ tx'[p].step = "none"
    BY DEF Commit, NoRequest, OrderInv, TypeOK
  <1>2. /\ \A o \in Orders : order[o].by # p => order'[o] = order[o]
        /\ \A o \in Orders : payment[o].by # p => payment'[o] = payment[o]
    BY DEF Commit, Settle
  <1>3. ASSUME NEW q \in Procs \ {p} PROVE ChainKnows(q, tx[q])'
    <2>1. ChainKnows(q, tx[q]) /\ tx'[q] = tx[q]
      BY <1>1, <1>3 DEF ChainInv
    <2>2. tx[q].payEvent # None => tx[q].o \in Orders /\ payment[tx[q].o].by = q
      BY DEF PaymentInv, PayEventsWritten
    <2>3. ASSUME tx[q].step = "cancelPayment"
          PROVE  payment[tx[q].o].by # p
      <3>1. /\ tx[q].o \in Orders /\ order[tx[q].o].by = q
            /\ "cancel" \in Ops
        BY <2>1, <2>3 DEF ChainKnows
      <3>2. SUFFICES ASSUME payment[tx[q].o].by = p PROVE FALSE
        OBVIOUS
      <3>3. tx[p].payEvent # None /\ tx[p].o = tx[q].o
        BY <3>1, <3>2, OnePaymentPerRequest
      <3>4. "markPaid" \in Ops
        BY <3>1, <3>3 DEF ChainInv, ChainKnows
      <3> QED
        BY <3>1, <3>4 DEF PaymentsApart, OneAtATime
    <2>4. tx[q].payEvent # None => payment[tx[q].o].by # p
      BY <2>2
    <2>5. \A o \in Orders : order[o].by = q => order'[o].by = q
      BY <1>2
    <2> QED
      BY <1>2, <2>1, <2>2, <2>3, <2>4, <2>5 DEF ChainKnows
  <1>4. ChainKnows(p, tx[p])'
    BY <1>1, ChainNothing
  <1> QED
    BY <1>3, <1>4 DEF ChainInv

\* A request that goes on, to other work than payments.
LEMMA ChainGoTo ==
  ASSUME OrderInv, PaymentInv, ChainInv, NEW p \in Procs, NEW s, GoTo(p, s),
         UNCHANGED <<order, payment>>, tx[p].step # "commit",
         s \notin {"cancelOrder", "readPayment", "cancelPayment", "payPayment"}
  PROVE  ChainInv'
  <1>1. /\ \A q \in Procs \ {p} : tx'[q] = tx[q]
        /\ tx'[p].step = s
    BY GoneTo
  <1>2. tx'[p].payEvent = None
    BY NoPayEvent DEF GoTo, OrderInv, TypeOK, Request
  <1> QED
    BY <1>1, <1>2, ChainNothing, ChainStep

LEMMA ChainCourier ==
  ASSUME OrderInv, PaymentInv, ChainInv, NEW p \in Procs, tx[p].step # "commit",
         NEW matches, NEW new, NEW s, UpdateCourier(p, matches, new, s),
         s \notin {"cancelOrder", "readPayment", "cancelPayment", "payPayment"}
  PROVE  ChainInv'
  BY ChainRollback, ChainGoTo DEF UpdateCourier

LEMMA ChainOrder ==
  ASSUME OrderInv, PaymentInv, ChainInv, NEW p \in Procs, tx[p].step # "commit",
         NEW matches, NEW new, NEW e, NEW s, UpdateOrder(p, matches, new, e, s),
         s \notin {"cancelOrder", "cancelPayment", "payPayment"},
         s = "readPayment" => tx[p].o \in Orders /\ "cancel" \in Ops
  PROVE  ChainInv'
  <1>1. CASE Rollback(p)
    BY <1>1, ChainRollback
  <1>2. CASE /\ Free(order[tx[p].o], p)
             /\ order' = [order EXCEPT ![tx[p].o] = Put(@, p, new)]
             /\ tx' = [tx EXCEPT ![p].step = s, ![p].event = e]
             /\ UNCHANGED <<courier, payment, trail, payTrail>>
    <2>1. /\ \A q \in Procs \ {p} : tx'[q] = tx[q]
          /\ tx'[p].step = s /\ tx'[p].o = tx[p].o /\ tx'[p].payEvent = None
      BY <1>2, NoPayEvent DEF OrderInv, TypeOK, Request
    <2>2. \A o \in Orders : order'[o] = order[o] \/ (o = tx[p].o /\ order'[o].by = p)
      BY <1>2 DEF Put, OrderInv, TypeOK
    <2>3. \A o \in Orders : order'[o].by = order[o].by \/ order[o].by \in {p, None}
      BY <1>2, <2>2 DEF Free
    <2>4. s = "readPayment" => order'[tx[p].o].by = p
      BY <1>2 DEF Put, OrderInv, TypeOK
    <2>5. ChainKnows(p, tx[p])'
      BY <2>1, <2>4 DEF ChainKnows
    <2> QED
      BY <1>2, <2>1, <2>3, <2>5, ChainStep
  <1> QED
    BY <1>1, <1>2 DEF UpdateOrder

\* The payment is written as it was, as far as others know.
LEMMA ChainPayment ==
  ASSUME OrderInv, PaymentInv, ChainInv, NEW p \in Procs, tx[p].o \in Orders,
         NEW status, WritePayment(p, status, "PENDING"),
         payment[tx[p].o].at = "PENDING",
         order[tx[p].o].by = p \/ "markPaid" \in Ops
  PROVE  ChainInv'
  <1>1. /\ \A q \in Procs \ {p} : tx'[q] = tx[q]
        /\ tx'[p].step = "commit" /\ tx'[p].o = tx[p].o
        /\ tx'[p].payEvent = Event("PENDING", status)
    BY DEF WritePayment, OrderInv, TypeOK, Request
  <1>2. order' = order /\ \A o \in Orders : payment'[o].at = payment[o].at
    BY DEF WritePayment, Put, OrderInv, TypeOK
  <1>3. ChainKnows(p, tx[p])'
    BY <1>1, <1>2 DEF ChainKnows, Event
  <1> QED
    BY <1>1, <1>2, <1>3, ChainStep

LEMMA ChainBegin ==
  ASSUME OrderInv, PaymentInv, ChainInv, NEW p \in Procs, NEW r, Begin(p, r),
         UNCHANGED payment,
         \A o \in Orders : order'[o].by = order[o].by \/ order[o].by \in {p, None},
         r.payEvent = None, r.step \notin {"readPayment", "cancelPayment"},
         r.step = "cancelOrder" => "cancel" \in Ops,
         r.step = "payPayment" => "markPaid" \in Ops
  PROVE  ChainInv'
  <1>1. tx' = [tx EXCEPT ![p] = r] /\ tx \in [Procs -> Request]
    BY DEF Begin, OrderInv, TypeOK
  <1>2. tx'[p] = r /\ \A q \in Procs \ {p} : tx'[q] = tx[q]
    BY <1>1
  <1>3. ChainKnows(p, tx[p])'
    BY <1>2 DEF ChainKnows
  <1> QED
    BY <1>2, <1>3, ChainStep

LEMMA ChainArrive ==
  ASSUME OrderInv, PaymentInv, ChainInv, NEW p \in Procs, Arrive(p)
  PROVE  ChainInv'
  <1>1. ASSUME NEW r, Begin(p, r), UNCHANGED <<order, payment>>, r.payEvent = None,
               \/ r.step \in {"claimCourier", "readCourier", "syncOrder", "setAvailability",
                              "countForVehicle", "countForSuspend", "setActivated"}
               \/ r.op = "cancel" /\ r.step = "cancelOrder"
               \/ r.op = "markPaid" /\ r.step = "payPayment"
        PROVE  ChainInv'
    <2>1. r.op \in Ops
      BY <1>1 DEF Begin
    <2> QED
      BY <1>1, <2>1, ChainBegin
  <1>2. ASSUME NEW c \in Couriers, NEW o \in Orders,
               ReadForAccept(p, c, o) \/ AssignRead(p, o, c) \/ ReassignRead(p, o, c)
                 \/ WooAssignRead(p, o, c)
        PROVE  ChainInv'
    BY <1>1, <1>2 DEF ReadForAccept, AssignRead, ReassignRead, WooAssignRead, BeginDispatch, NoRequest
  <1>3. ASSUME NEW c \in Couriers, NEW o \in Orders,
               RejectOrder(p, c, o) \/ PickUpOrder(p, c, o) \/ DeliverOrder(p, c, o)
        PROVE  ChainInv'
    <2>1. PICK new, from, r : /\ StartOnOwnOrder(p, c, o, from, new, r)
                              /\ r \in {[NoRequest EXCEPT !.op = "reject", !.step = "releaseScan", !.rel = c],
                                        [NoRequest EXCEPT !.op = "pickUp", !.step = "commit"],
                                        [NoRequest EXCEPT !.op = "deliver", !.step = "releaseScan", !.rel = c]}
      BY <1>3 DEF RejectOrder, PickUpOrder, DeliverOrder
    <2> DEFINE b == [r EXCEPT !.o = o, !.c = c, !.event = Event(from, new.status)]
    <2>2. b.payEvent = None /\ b.step \in {"releaseScan", "commit"}
      BY <2>1 DEF NoRequest
    <2>3. Begin(p, b) /\ UNCHANGED payment
      BY <2>1 DEF StartOnOwnOrder
    <2>4. \A i \in Orders : order'[i].by = order[i].by \/ order[i].by \in {p, None}
      BY <2>1 DEF StartOnOwnOrder, Free, OrderInv, TypeOK
    <2> HIDE DEF b
    <2> QED
      BY <2>2, <2>3, <2>4, ChainBegin
  <1>4. ASSUME NEW o \in Orders, SyncRead(p, o) \/ ReadForCancel(p, o) \/ ReadForPaid(p, o)
        PROVE  ChainInv'
    BY <1>1, <1>4 DEF SyncRead, ReadForCancel, ReadForPaid, NoRequest
  <1>5. ASSUME NEW c \in Couriers, NEW op, ReadAvailability(p, c, op)
        PROVE  ChainInv'
    BY <1>1, <1>5 DEF ReadAvailability, NoRequest
  <1>6. ASSUME NEW c \in Couriers, NEW v, ReadForVehicle(p, c, v)
        PROVE  ChainInv'
    BY <1>1, <1>6 DEF ReadForVehicle, NoRequest
  <1>7. ASSUME NEW c \in Couriers, ReadForSuspend(p, c) \/ ReadForActivate(p, c)
        PROVE  ChainInv'
    BY <1>1, <1>7 DEF ReadForSuspend, ReadForActivate, NoRequest
  <1> QED
    BY <1>2, <1>3, <1>4, <1>5, <1>6, <1>7 DEF Arrive

LEMMA ChainContinue ==
  ASSUME PaymentsApart, OrderInv, PaymentInv, ChainInv, NEW p \in Procs, Continue(p)
  PROVE  ChainInv'
  <1>0. RequestKnows(tx[p]) /\ ChainKnows(p, tx[p])
    BY RequestFields DEF ChainInv
  <1>1. \A o \in Orders : payment[o].by = p => tx[p].step = "commit"
    BY OnePaymentPerRequest
  <1>2. CASE ReadTargetCourier(p) \/ ReserveScan(p) \/ CountActive(p)
             \/ CountForVehicle(p) \/ CountForSuspend(p)
    <2>1. PICK holds, s : /\ Check(p, holds, s)
                          /\ tx[p].step # "commit"
                          /\ s \in {"reserveScan", "reserve", "move", "setVehicle", "setSuspended"}
      BY <1>2 DEF ReadTargetCourier, ReserveScan, CountActive, CountForVehicle, CountForSuspend, At
    <2> QED
      BY <2>1, ChainRollback, ChainGoTo DEF Check
  <1>3. CASE ClaimCourier(p) \/ Reserve(p) \/ SetAvailability(p)
             \/ SetVehicle(p) \/ SetSuspended(p) \/ SetActivated(p)
    <2>1. PICK matches, new, s : /\ UpdateCourier(p, matches, new, s)
                                 /\ tx[p].step # "commit"
                                 /\ s \in {"claimOrder", "countActive", "commit"}
      BY <1>3 DEF ClaimCourier, Reserve, SetAvailability, SetVehicle, SetSuspended, SetActivated, At
    <2> QED
      BY <2>1, ChainCourier
  <1>4. CASE ClaimOrder(p) \/ SyncOrder(p) \/ AssignMove(p) \/ ReassignMove(p) \/ WooAssignMove(p)
    <2>1. PICK matches, new, e, s : /\ UpdateOrder(p, matches, new, e, s)
                                    /\ tx[p].step # "commit"
                                    /\ s \in {"commit", "releaseScan"}
      BY <1>4 DEF ClaimOrder, SyncOrder, AssignMove, ReassignMove, WooAssignMove, MoveOrder, At
    <2> QED
      BY <2>1, ChainOrder
  <1>5. CASE CancelOrder(p)
    <2>1. tx[p].step = "cancelOrder" /\ tx[p].o \in Orders /\ "cancel" \in Ops
      BY <1>0, <1>5 DEF CancelOrder, At, RequestKnows, OrderSteps, ChainKnows
    <2>2. PICK matches, new, e : UpdateOrder(p, matches, new, e, "readPayment")
      BY <1>5 DEF CancelOrder
    <2> QED
      BY <2>1, <2>2, ChainOrder
  <1>6. CASE ReleaseScan(p)
    BY <1>6, ChainGoTo DEF ReleaseScan, At
  <1>7. CASE Release(p)
    <2>1. GoTo(p, "commit") /\ UNCHANGED <<order, payment>> /\ tx[p].step # "commit"
      BY <1>7 DEF Release, At
    <2> QED
      BY <2>1, ChainGoTo
  <1>8. CASE ReadPaymentForCancel(p)
    <2>1. /\ tx[p].step = "readPayment" /\ tx[p].o \in Orders /\ order[tx[p].o].by = p
          /\ "cancel" \in Ops
      BY <1>0, <1>8 DEF ReadPaymentForCancel, At, ChainKnows
    <2>2. Seen(payment[tx[p].o], p) = payment[tx[p].o].at
      BY <1>1, <2>1 DEF Seen
    <2>3. PICK s : /\ GoTo(p, s) /\ UNCHANGED <<order, payment>>
                   /\ \/ s = "commit"
                      \/ s = "cancelPayment" /\ payment[tx[p].o].at = "PENDING"
      BY <1>8, <2>2 DEF ReadPaymentForCancel
    <2>4. /\ \A q \in Procs \ {p} : tx'[q] = tx[q]
          /\ tx'[p].step = s /\ tx'[p].o = tx[p].o
      BY <2>3, GoneTo
    <2>5. tx'[p].payEvent = None
      BY <2>1, <2>3, NoPayEvent DEF GoTo, OrderInv, TypeOK, Request
    <2>6. ChainKnows(p, tx[p])'
      BY <2>1, <2>3, <2>4, <2>5 DEF ChainKnows
    <2> QED
      BY <2>3, <2>4, <2>6, ChainStep
  <1>9. CASE CancelPayment(p)
    <2>1. tx[p].o \in Orders /\ order[tx[p].o].by = p /\ payment[tx[p].o].at = "PENDING"
      BY <1>0, <1>9 DEF CancelPayment, At, ChainKnows
    <2> QED
      BY <1>9, <2>1, ChainPayment DEF CancelPayment
  <1>10. CASE PayPayment(p)
    <2>1. tx[p].step = "payPayment" /\ tx[p].o \in Orders /\ "markPaid" \in Ops
      BY <1>0, <1>10 DEF PayPayment, At, RequestKnows, OrderSteps, ChainKnows
    <2>2. Seen(payment[tx[p].o], p) = payment[tx[p].o].at
      BY <1>1, <2>1 DEF Seen
    <2> QED
      BY <1>10, <2>1, <2>2, ChainRollback, ChainPayment DEF PayPayment
  <1> QED
    BY <1>2, <1>3, <1>4, <1>5, <1>6, <1>7, <1>8, <1>9, <1>10, ChainCommit DEF Continue

LEMMA ChainNext ==
  ASSUME PaymentsApart
  PROVE  OrderInv /\ PaymentInv /\ ChainInv /\ [Next]_vars => ChainInv'
  <1>1. ASSUME OrderInv, PaymentInv, ChainInv, Next PROVE ChainInv'
    BY <1>1, ChainArrive, ChainContinue, ChainRollback DEF Next, Abort
  <1>2. ASSUME ChainInv, UNCHANGED vars PROVE ChainInv'
    BY <1>2 DEF ChainInv, ChainKnows, vars
  <1> QED
    BY <1>1, <1>2

\* Only a commit writes a trail: its event starts from the status the payment
\* has, which is where the trail ended.
LEMMA ChainLinks ==
  ASSUME OrderInv, PaymentInv, ChainInv, [Next]_vars, NEW o \in Orders,
         payTrail'[o] # payTrail[o]
  PROVE  payTrail'[o].from = payTrail[o].to
  <1>1. ASSUME NEW p \in Procs, Arrive(p) PROVE UNCHANGED payTrail
    BY <1>1
       DEF Arrive, ReadForAccept, RejectOrder, PickUpOrder, DeliverOrder, StartOnOwnOrder,
           AssignRead, ReassignRead, WooAssignRead, BeginDispatch, SyncRead, ReadForCancel,
           ReadForPaid, ReadAvailability, ReadForVehicle, ReadForSuspend, ReadForActivate
  <1>2. ASSUME NEW p \in Procs, Continue(p), ~Commit(p) PROVE UNCHANGED payTrail
    <2>1. Rollback(p) => UNCHANGED payTrail
      BY DEF Rollback
    <2>2. \A matches, new, e, s : UpdateOrder(p, matches, new, e, s) => UNCHANGED payTrail
      BY <2>1 DEF UpdateOrder
    <2>3. \A matches, new, s : UpdateCourier(p, matches, new, s) => UNCHANGED payTrail
      BY <2>1 DEF UpdateCourier
    <2>4. \A holds, s : Check(p, holds, s) => UNCHANGED payTrail
      BY <2>1 DEF Check
    <2>5. CASE ClaimOrder(p) \/ CancelOrder(p) \/ SyncOrder(p)
               \/ AssignMove(p) \/ ReassignMove(p) \/ WooAssignMove(p)
      BY <2>2, <2>5 DEF ClaimOrder, CancelOrder, SyncOrder, AssignMove, ReassignMove,
                        WooAssignMove, MoveOrder
    <2>6. CASE ClaimCourier(p) \/ Reserve(p) \/ SetAvailability(p)
               \/ SetVehicle(p) \/ SetSuspended(p) \/ SetActivated(p)
      BY <2>3, <2>6 DEF ClaimCourier, Reserve, SetAvailability, SetVehicle, SetSuspended, SetActivated
    <2>7. CASE ReadTargetCourier(p) \/ ReserveScan(p) \/ CountActive(p)
               \/ CountForVehicle(p) \/ CountForSuspend(p)
      BY <2>4, <2>7 DEF ReadTargetCourier, ReserveScan, CountActive, CountForVehicle, CountForSuspend
    <2>8. CASE ReleaseScan(p) \/ Release(p) \/ ReadPaymentForCancel(p)
      BY <2>8 DEF ReleaseScan, Release, ReadPaymentForCancel
    <2>9. CASE CancelPayment(p) \/ PayPayment(p)
      BY <2>1, <2>9 DEF CancelPayment, PayPayment, WritePayment
    <2> QED
      BY <1>2, <2>5, <2>6, <2>7, <2>8, <2>9 DEF Continue
  <1>3. PICK p \in Procs : Commit(p)
    BY <1>1, <1>2 DEF Next, Abort, Rollback, vars
  <1>4. payTrail \in [Orders -> PaymentEvent]
    BY DEF OrderInv, TypeOK
  <1>5. tx[p].payEvent # None /\ tx[p].o = o /\ payTrail'[o] = tx[p].payEvent
    BY <1>3, <1>4 DEF Commit
  <1>6. payTrail[o].to = payment[o].at
    BY DEF PaymentInv, PaymentTrailMatches
  <1> QED
    BY <1>5, <1>6 DEF ChainInv, ChainKnows

\* Every event of a payment starts from the status the event before it led to,
\* as long as nobody confirms a payment while it is being cancelled: one request
\* at a time, or no confirmations, or no cancellations.  (cancel reads the status
\* and updates by id, adminMarkPaid updates what is still PENDING; both write
\* their event in the transaction of the update.)
THEOREM PaymentTrailStaysChained ==
  ASSUME PaymentsApart
  PROVE  Spec => PaymentTrailChains
  <1>1. Init => ChainInv
    BY DEF Init, ChainInv, ChainKnows, NoRequest
  <1>2. OrderInv /\ PaymentInv /\ ChainInv /\ [Next]_vars =>
          [\A o \in Orders : payTrail'[o] # payTrail[o] => payTrail'[o].from = payTrail[o].to]_vars
    BY ChainLinks
  <1> QED
    BY <1>1, <1>2, ChainNext, OrderInvariant, PaymentInvariant, PTL DEF Spec, PaymentTrailChains
=============================================================================
