--------------------------- MODULE DeadlockProofs ---------------------------
(***************************************************************************)
(* Proofs about the locks of Dispatch, for any number of orders, couriers  *)
(* and requests, any limit and any operations: whatever requests wait for  *)
(* each other, there are reassignments among them that go round in a       *)
(* circle.                                                                 *)
(***************************************************************************)
EXTENDS CourierProofs

Moves == {"reassign", "wooAssign"}

\* What the locks of request p, at statement t, are for: it holds no courier
\* but the one it has reserved; a dispatch of an order that another courier has
\* is no assignment; and who comes to release a courier holds the order it has
\* taken from it, and no courier unless it has moved the order.
LockKnows(p, t) ==
  /\ \A c \in Couriers : courier[c].by = p =>
       t.step = "commit" \/ (t.step \in LockingSteps /\ c = t.c)
  /\ t.step \in DispatchSteps =>
       \/ t.seen = Life!Open /\ t.rel = None
       \/ t.op \in Moves /\ \E d \in Couriers \ {t.c} : t.rel = d /\ t.seen = Life!With(d)
  /\ t.step \in ReleaseSteps =>
       /\ t.o \in Orders /\ order[t.o].by = p
       /\ order[t.o].at \in {Life!With(t.rel), Life!OnRoad(t.rel)}
       /\ \A c \in Couriers : courier[c].by = p => t.op \in Moves /\ t.rel # t.c

LocksKnown == \A p \in Procs : LockKnows(p, tx[p])
-----------------------------------------------------------------------------
(* The circle.                                                             *)

\* Who holds a row, and is still waiting for another.
LEMMA HoldersWait ==
  ASSUME OrderInv, PaymentInv, LocksKnown, NEW p \in Procs, NEW q \in Procs,
         NEW w \in Procs, WaitsFor(q, w)
  PROVE  /\ tx[q].step # "commit"
         /\ \A o \in Orders : payment[o].by # q
         /\ \A o \in Orders : order[o].by = q => tx[q].o = o /\ tx[q].step \in {"release", "cancelPayment"}
         /\ \A c \in Couriers : courier[c].by = q =>
              tx[q].c = c /\ tx[q].step \in {"claimOrder", "move", "release"}
  <1>1. tx[q].step \in {"claimCourier", "reserve", "setAvailability", "setVehicle", "setSuspended",
                        "setActivated", "release", "claimOrder", "move", "syncOrder", "cancelOrder",
                        "cancelPayment", "payPayment"}
    BY DEF WaitsFor, CourierRowNeeded, OrderRowNeeded, PaymentRowNeeded, At
  <1>2. \A o \in Orders : payment[o].by # q
    BY <1>1, OnePaymentPerRequest
  <1>3. \A o \in Orders : order[o].by = q => tx[q].event # None /\ tx[q].o = o
    BY OneOrderPerRequest
  <1>4. tx[q].event # None => tx[q].step \in {"release", "cancelPayment"}
    BY <1>1, RequestFields DEF RequestKnows, UnwrittenSteps, CourierSteps, DispatchSteps
  <1>5. \A c \in Couriers : courier[c].by = q => tx[q].c = c /\ tx[q].step \in LockingSteps
    BY <1>1 DEF LocksKnown, LockKnows
  <1>6. tx[q].step \in LockingSteps => tx[q].step \in {"claimOrder", "move", "release"}
    BY <1>1 DEF LockingSteps, ClaimSteps, ReleaseSteps
  <1> QED
    BY <1>1, <1>2, <1>3, <1>4, <1>5, <1>6

\* In a deadlock nobody waits for a payment: who holds one is about to commit.
LEMMA NoPaymentAwaited ==
  ASSUME OrderInv, PaymentInv, LocksKnown, NEW p \in Procs, NEW q \in Procs, NEW w \in Procs,
         WaitsFor(p, q), WaitsFor(q, w)
  PROVE  /\ tx[p].step # "cancelPayment"
         /\ \/ \E c \in Couriers : courier[c].by = q /\ CourierRowNeeded(p, c)
            \/ \E o \in Orders : order[o].by = q /\ OrderRowNeeded(p, o)
  <1>1. \A o \in Orders : payment[o].by # q
    BY HoldersWait
  <1> QED
    BY <1>1 DEF WaitsFor, CourierRowNeeded, OrderRowNeeded, At

\* Who waits for an order moves it, and its holder is to release the courier
\* who has it.
LEMMA OrderAwaited ==
  ASSUME OrderInv, PaymentInv, LocksKnown,
         NEW p \in Procs, NEW q \in Procs, NEW w \in Procs, NEW v \in Procs,
         WaitsFor(q, w), WaitsFor(w, v),
         NEW o \in Orders, order[o].by = q, OrderRowNeeded(p, o)
  PROVE  /\ Reassigning(p) /\ tx[p].step = "move" /\ tx[p].rel # tx[p].c
         /\ tx[q].step = "release" /\ tx[q].rel = tx[p].rel
  <1>1. tx[q].step = "release" /\ tx[q].o = o
    BY HoldersWait, NoPaymentAwaited
  <1>2. /\ order[o].at \in {Life!With(tx[q].rel), Life!OnRoad(tx[q].rel)}
        /\ tx[q].rel \in Couriers /\ tx[q].rel # None
    BY <1>1, RequestFields, NoneAssumption
       DEF LocksKnown, LockKnows, ReleaseSteps, RequestKnows
  <1>3. order[o].at.status # "REQUESTED"
    BY <1>2 DEF Life!With, Life!OnRoad
  <1>4. tx[p].step = "move" /\ order[o].at = tx[p].seen
    BY <1>3 DEF OrderRowNeeded, At
  <1>5. \/ tx[p].seen = Life!Open
        \/ /\ tx[p].op \in Moves /\ tx[p].rel # tx[p].c /\ tx[p].rel \in Couriers
           /\ tx[p].seen = Life!With(tx[p].rel)
    BY <1>4 DEF LocksKnown, LockKnows, DispatchSteps
  <1>6. tx[p].seen # Life!Open
    BY <1>3, <1>4 DEF Life!Open
  <1>7. tx[p].rel = tx[q].rel
    BY <1>2, <1>4, <1>5, <1>6 DEF Life!With, Life!OnRoad
  <1> QED
    BY <1>1, <1>2, <1>4, <1>5, <1>6, <1>7 DEF Reassigning, Moves

\* Who holds a courier somebody waits for has reserved it for an order of
\* another courier.
LEMMA CourierAwaited ==
  ASSUME OrderInv, PaymentInv, LocksKnown,
         NEW q \in Procs, NEW w \in Procs, NEW v \in Procs, NEW u \in Procs,
         WaitsFor(q, w), WaitsFor(w, v), WaitsFor(v, u),
         NEW c \in Couriers, courier[c].by = q
  PROVE  Reassigning(q) /\ tx[q].c = c
  <1>1. tx[q].c = c /\ tx[q].step \in {"claimOrder", "move", "release"}
    BY HoldersWait
  <1>2. CASE tx[q].step = "release"
    <2>1. tx[q].op \in Moves
      BY <1>2 DEF LocksKnown, LockKnows, ReleaseSteps
    <2>2. tx[q].rel # None
      BY <1>2, RequestFields, NoneAssumption DEF RequestKnows
    <2> QED
      BY <1>1, <1>2, <2>1, <2>2 DEF Reassigning, Moves
  <1>3. CASE tx[q].step \in {"claimOrder", "move"}
    <2>1. PICK o \in Orders : order[o].by = w /\ OrderRowNeeded(q, o)
      BY <1>3, NoPaymentAwaited DEF CourierRowNeeded, At
    <2> QED
      BY <1>1, <2>1, OrderAwaited
  <1> QED
    BY <1>1, <1>2, <1>3

LEMMA LocksGoRound ==
  ASSUME OrderInv, PaymentInv, LocksKnown
  PROVE  DeadlocksAreCrosswise
  <1> SUFFICES ASSUME NEW D \in SUBSET Procs, Deadlocked(D)
               PROVE  /\ \E p \in D : Reassigning(p)
                      /\ \A p \in D : Reassigning(p) =>
                           \E q \in D \ {p} : Reassigning(q) /\ tx[q].c = tx[p].rel
    BY DEF DeadlocksAreCrosswise
  <1>1. D # {} /\ \A p \in D : \E q \in D : WaitsFor(p, q)
    BY DEF Deadlocked
  <1>2. \A p, q \in D : WaitsFor(p, q) =>
          \/ \E c \in Couriers : courier[c].by = q /\ CourierRowNeeded(p, c)
          \/ \E o \in Orders : order[o].by = q /\ OrderRowNeeded(p, o)
    BY <1>1, NoPaymentAwaited
  <1>3. \A p, q \in D : \A o \in Orders : order[o].by = q /\ OrderRowNeeded(p, o) =>
          /\ Reassigning(p) /\ tx[p].step = "move" /\ tx[p].rel # tx[p].c
          /\ tx[q].step = "release" /\ tx[q].rel = tx[p].rel
    BY <1>1, OrderAwaited
  <1>4. \A q \in D : \A c \in Couriers : courier[c].by = q => Reassigning(q) /\ tx[q].c = c
    BY <1>1, CourierAwaited
  <1>5. \E p \in D : Reassigning(p)
    BY <1>1, <1>2, <1>3, <1>4
  <1>6. ASSUME NEW p \in D, tx[p].step = "release"
        PROVE  \E q \in D : WaitsFor(p, q) /\ Reassigning(q) /\ tx[q].c = tx[p].rel
    <2>1. PICK q \in D : WaitsFor(p, q)
      BY <1>1
    <2>2. PICK c \in Couriers : courier[c].by = q /\ c = tx[p].rel
      BY <1>2, <1>6, <2>1 DEF CourierRowNeeded, OrderRowNeeded, At
    <2> QED
      BY <1>4, <2>1, <2>2
  <1>7. ASSUME NEW p \in D, Reassigning(p)
        PROVE  \E q \in D \ {p} : Reassigning(q) /\ tx[q].c = tx[p].rel
    <2>1. CASE tx[p].step = "release"
      BY <1>6, <2>1 DEF WaitsFor
    <2>2. CASE tx[p].step = "move"
      <3>1. PICK q \in D : WaitsFor(p, q)
        BY <1>1
      <3>2. PICK o \in Orders : order[o].by = q /\ OrderRowNeeded(p, o)
        BY <1>2, <2>2, <3>1 DEF CourierRowNeeded, At
      <3>3. tx[q].step = "release" /\ tx[q].rel = tx[p].rel /\ tx[p].rel # tx[p].c
        BY <1>3, <3>2
      <3>4. PICK y \in D : Reassigning(y) /\ tx[y].c = tx[p].rel
        BY <1>6, <3>3
      <3> QED
        BY <3>3, <3>4
    <2> QED
      BY <1>7, <2>1, <2>2 DEF Reassigning
  <1> QED
    BY <1>5, <1>7
-----------------------------------------------------------------------------
(* Every action keeps what is known of the locks.                          *)

\* A step of request p that concerns no other request: it writes no order that
\* another holds, and gives no other a courier.
OwnStep(p) ==
  \A q \in Procs \ {p} :
    /\ tx'[q] = tx[q]
    /\ \A o \in Orders : order[o].by = q => order'[o] = order[o]
    /\ \A c \in Couriers : courier'[c].by = q => courier[c].by = q

LEMMA LocksStep ==
  ASSUME LocksKnown, NEW p \in Procs, OwnStep(p), LockKnows(p, tx[p])'
  PROVE  LocksKnown'
  <1>1. ASSUME NEW q \in Procs \ {p} PROVE LockKnows(q, tx[q])'
    <2>1. /\ LockKnows(q, tx[q])
          /\ tx'[q] = tx[q]
          /\ \A o \in Orders : order[o].by = q => order'[o] = order[o]
          /\ \A c \in Couriers : courier'[c].by = q => courier[c].by = q
      BY DEF LocksKnown, OwnStep
    <2> QED
      BY <2>1 DEF LockKnows
  <1> QED
    BY <1>1 DEF LocksKnown

\* Nothing in particular is to be known of who holds no courier.
LEMMA LocksNothing ==
  ASSUME NEW p \in Procs, tx'[p].step \notin DispatchSteps \cup ReleaseSteps,
         \A c \in Couriers : courier'[c].by = p =>
           \/ tx'[p].step = "commit"
           \/ tx'[p].step \in LockingSteps /\ c = tx'[p].c
  PROVE  LockKnows(p, tx[p])'
  BY DEF LockKnows

\* Who does not hold a courier, by the statement it is at.
LEMMA LocksNone ==
  ASSUME LocksKnown, NEW p \in Procs, tx[p].step \notin LockingSteps
  PROVE  \A c \in Couriers : courier[c].by # p
  BY DEF LocksKnown, LockKnows, LockingSteps

\* The end of a request frees whatever it holds.
LEMMA LocksEnd ==
  ASSUME OrderInv, LocksKnown, NEW p \in Procs, Commit(p) \/ Rollback(p)
  PROVE  LocksKnown'
  <1>1. p # None /\ None \notin Procs /\ tx \in [Procs -> Request]
    BY NoneAssumption DEF OrderInv, TypeOK
  <1>2. OwnStep(p)
    BY <1>1 DEF Commit, Rollback, OwnStep, Settle, Undo, Row
  <1>3. \A c \in Couriers : courier'[c].by # p
    BY <1>1 DEF Commit, Rollback, Settle, Undo, Row
  <1>4. tx'[p].step = "none"
    BY <1>1 DEF Commit, Rollback, NoRequest
  <1>5. LockKnows(p, tx[p])'
    BY <1>3, <1>4, LocksNothing DEF DispatchSteps, ReleaseSteps
  <1> QED
    BY <1>2, <1>5, LocksStep

\* A statement that writes no order and no courier.
LEMMA LocksRead ==
  ASSUME LocksKnown, NEW p \in Procs, \A q \in Procs \ {p} : tx'[q] = tx[q],
         UNCHANGED <<order, courier>>, LockKnows(p, tx[p])'
  PROVE  LocksKnown'
  BY LocksStep DEF OwnStep

\* A request that goes on, at the same work.
LEMMA LocksGoOn ==
  ASSUME OrderInv, LocksKnown, NEW p \in Procs, NEW s, GoTo(p, s),
         UNCHANGED <<order, courier>>, tx[p].step # "commit",
         s \in DispatchSteps => tx[p].step \in DispatchSteps,
         s \in ReleaseSteps => tx[p].step \in ReleaseSteps,
         tx[p].step \in LockingSteps => s \in LockingSteps
  PROVE  LocksKnown'
  <1>1. /\ \A q \in Procs \ {p} : tx'[q] = tx[q]
        /\ tx'[p].step = s /\ tx'[p].o = tx[p].o /\ tx'[p].c = tx[p].c
        /\ tx'[p].rel = tx[p].rel /\ tx'[p].op = tx[p].op /\ tx'[p].seen = tx[p].seen
    BY GoneTo
  <1>2. LockKnows(p, tx[p])
    BY DEF LocksKnown
  <1>3. \A c \in Couriers : courier'[c].by = p =>
          s = "commit" \/ (s \in LockingSteps /\ c = tx'[p].c)
    BY <1>1, <1>2 DEF LockKnows
  <1>4. LockKnows(p, tx[p])'
    BY <1>1, <1>2, <1>3 DEF LockKnows
  <1> QED
    BY <1>1, <1>4, LocksRead

LEMMA LocksCheck ==
  ASSUME OrderInv, LocksKnown, NEW p \in Procs, NEW holds, NEW s, Check(p, holds, s),
         tx[p].step # "commit",
         s \in DispatchSteps => tx[p].step \in DispatchSteps,
         s \notin ReleaseSteps,
         tx[p].step \in LockingSteps => s \in LockingSteps
  PROVE  LocksKnown'
  BY LocksEnd, LocksGoOn DEF Check

\* A statement that writes its courier, which the request then holds alone.
LEMMA LocksCourier ==
  ASSUME OrderInv, LocksKnown, NEW p \in Procs, NEW matches, NEW new, NEW s,
         UpdateCourier(p, matches, new, s),
         s \in LockingSteps \ ReleaseSteps,
         s \in DispatchSteps => tx[p].step \in DispatchSteps,
         tx[p].step \notin LockingSteps
  PROVE  LocksKnown'
  <1>1. CASE Rollback(p)
    BY <1>1, LocksEnd
  <1>2. CASE /\ Free(courier[tx[p].c], p)
             /\ courier' = [courier EXCEPT ![tx[p].c] = Put(@, p, new)]
             /\ GoTo(p, s)
             /\ UNCHANGED <<order, payment, trail, payTrail>>
    <2>1. /\ \A q \in Procs \ {p} : tx'[q] = tx[q]
          /\ tx'[p].step = s /\ tx'[p].o = tx[p].o /\ tx'[p].c = tx[p].c
          /\ tx'[p].rel = tx[p].rel /\ tx'[p].op = tx[p].op /\ tx'[p].seen = tx[p].seen
      BY <1>2, GoneTo
    <2>2. \A c \in Couriers : IF c = tx[p].c THEN courier'[c].by = p
                                              ELSE courier'[c] = courier[c]
      BY <1>2 DEF Put, OrderInv, TypeOK
    <2>3. OwnStep(p)
      BY <1>2, <2>1, <2>2 DEF OwnStep
    <2>4. \A c \in Couriers : courier[c].by # p
      BY LocksNone
    <2>5. LockKnows(p, tx[p])
      BY DEF LocksKnown
    <2>6. LockKnows(p, tx[p])'
      BY <2>1, <2>2, <2>4, <2>5 DEF LockKnows
    <2> QED
      BY <2>3, <2>6, LocksStep
  <1> QED
    BY <1>1, <1>2 DEF UpdateCourier

\* A statement that writes its order, which the request then holds alone.
LEMMA LocksOrder ==
  ASSUME OrderInv, LocksKnown, NEW p \in Procs, NEW matches, NEW new, NEW e, NEW s,
         UpdateOrder(p, matches, new, e, s),
         tx[p].o \in Orders, tx[p].step # "commit",
         s \notin DispatchSteps,
         tx[p].step \in LockingSteps => s \in LockingSteps,
         s \in ReleaseSteps /\ matches =>
           /\ order[tx[p].o].at = Life!With(tx[p].rel)
           /\ tx[p].op \in Moves /\ tx[p].rel # tx[p].c
  PROVE  LocksKnown'
  <1>1. CASE Rollback(p)
    BY <1>1, LocksEnd
  <1>2. CASE /\ matches
             /\ Free(order[tx[p].o], p)
             /\ order' = [order EXCEPT ![tx[p].o] = Put(@, p, new)]
             /\ tx' = [tx EXCEPT ![p].step = s, ![p].event = e]
             /\ UNCHANGED <<courier, payment, trail, payTrail>>
    <2>1. /\ \A q \in Procs \ {p} : tx'[q] = tx[q]
          /\ tx'[p].step = s /\ tx'[p].o = tx[p].o /\ tx'[p].c = tx[p].c
          /\ tx'[p].rel = tx[p].rel /\ tx'[p].op = tx[p].op /\ tx'[p].seen = tx[p].seen
      BY <1>2 DEF OrderInv, TypeOK, Request
    <2>2. \A o \in Orders : IF o = tx[p].o THEN order'[o].by = p /\ order'[o].at = order[o].at
                                            ELSE order'[o] = order[o]
      BY <1>2 DEF Put, OrderInv, TypeOK
    <2>3. None \notin Procs
      BY NoneAssumption
    <2>4. OwnStep(p)
      <3> SUFFICES ASSUME NEW q \in Procs \ {p}
                   PROVE  \A o \in Orders : order[o].by = q => order'[o] = order[o]
        BY <1>2, <2>1 DEF OwnStep
      <3>1. order[tx[p].o].by # q
        BY <1>2, <2>3 DEF Free
      <3> QED
        BY <2>2, <3>1
    <2>5. LockKnows(p, tx[p]) /\ courier' = courier
      BY <1>2 DEF LocksKnown
    <2>6. s \in ReleaseSteps =>
            /\ order'[tx[p].o].by = p
            /\ order'[tx[p].o].at = Life!With(tx[p].rel)
            /\ tx[p].op \in Moves /\ tx[p].rel # tx[p].c
      BY <1>2, <2>2
    <2>7. \A c \in Couriers : courier[c].by = p => s = "commit" \/ (s \in LockingSteps /\ c = tx[p].c)
      BY <2>5 DEF LockKnows
    <2>8. LockKnows(p, tx[p])'
      BY <2>1, <2>5, <2>6, <2>7 DEF LockKnows
    <2> QED
      BY <2>4, <2>8, LocksStep
  <1> QED
    BY <1>1, <1>2 DEF UpdateOrder

\* A request begins by reading.
LEMMA LocksBegin ==
  ASSUME OrderInv, LocksKnown, NEW p \in Procs, NEW r, Begin(p, r),
         UNCHANGED <<order, courier>>, r.step \notin LockingSteps,
         r.step \in DispatchSteps =>
           \/ r.seen = Life!Open /\ r.rel = None
           \/ r.op \in Moves /\ \E d \in Couriers \ {r.c} : r.rel = d /\ r.seen = Life!With(d)
  PROVE  LocksKnown'
  <1>1. tx[p].step = "none" /\ tx' = [tx EXCEPT ![p] = r] /\ tx \in [Procs -> Request]
    BY DEF Begin, NoRequest, OrderInv, TypeOK
  <1>2. tx'[p] = r /\ \A q \in Procs \ {p} : tx'[q] = tx[q]
    BY <1>1
  <1>3. \A c \in Couriers : courier'[c].by # p
    BY <1>1, LocksNone DEF LockingSteps, ClaimSteps, ReleaseSteps
  <1>4. r.step \notin ReleaseSteps
    BY DEF LockingSteps
  <1>5. LockKnows(p, tx[p])'
    BY <1>2, <1>3, <1>4 DEF LockKnows
  <1> QED
    BY <1>2, <1>5, LocksRead

LEMMA LocksOwnOrder ==
  ASSUME OrderInv, LocksKnown, NEW p \in Procs, NEW c \in Couriers, NEW o \in Orders,
         \/ RejectOrder(p, c, o) \/ PickUpOrder(p, c, o) \/ DeliverOrder(p, c, o)
  PROVE  LocksKnown'
  <1>1. PICK new \in OrderRow :
           /\ Free(order[o], p)
           /\ order' = [order EXCEPT ![o] = Put(@, p, new)]
           /\ UNCHANGED courier
           /\ \A i \in Procs \ {p} : tx'[i] = tx[i]
           /\ tx[p].step = "none"
           /\ tx'[p].step \in {"commit", "releaseScan"} /\ tx'[p].o = o
           /\ tx'[p].step = "releaseScan" => tx'[p].rel = c
    BY OwnOrderWritten
  <1>2. order[o].at \in {Life!With(c), Life!OnRoad(c)}
    BY DEF RejectOrder, PickUpOrder, DeliverOrder, StartOnOwnOrder, Life!With, Life!OnRoad
  <1>3. /\ \A i \in Orders : i # o => order'[i] = order[i]
        /\ order'[o].at = order[o].at /\ order'[o].by = p
    BY <1>1 DEF Put, OrderInv, TypeOK
  <1>4. None \notin Procs
    BY NoneAssumption
  <1>5. OwnStep(p)
    BY <1>1, <1>3, <1>4 DEF OwnStep, Free
  <1>6. \A d \in Couriers : courier'[d].by # p
    BY <1>1, LocksNone DEF LockingSteps, ClaimSteps, ReleaseSteps
  <1>7. LockKnows(p, tx[p])'
    BY <1>1, <1>2, <1>3, <1>6 DEF LockKnows, ReleaseSteps, DispatchSteps
  <1> QED
    BY <1>5, <1>7, LocksStep

LEMMA LocksArrive ==
  ASSUME OrderInv, LocksKnown, NEW p \in Procs, Arrive(p)
  PROVE  LocksKnown'
  <1>0. /\ {"claimCourier", "setAvailability", "syncOrder", "cancelOrder", "payPayment",
            "countForVehicle", "countForSuspend", "setActivated", "readCourier"}
             \cap LockingSteps = {}
        /\ {"claimCourier", "setAvailability", "syncOrder", "cancelOrder", "payPayment",
            "countForVehicle", "countForSuspend", "setActivated"} \cap DispatchSteps = {}
    BY DEF LockingSteps, ClaimSteps, ReleaseSteps, DispatchSteps
  <1>1. ASSUME NEW r, Begin(p, r), UNCHANGED <<order, courier>>,
               r.step \in {"claimCourier", "setAvailability", "syncOrder", "cancelOrder",
                           "payPayment", "countForVehicle", "countForSuspend", "setActivated"}
        PROVE  LocksKnown'
    BY <1>0, <1>1, LocksBegin
  <1>2. ASSUME NEW c \in Couriers, NEW o \in Orders, ReadForAccept(p, c, o) PROVE LocksKnown'
    BY <1>1, <1>2 DEF ReadForAccept, NoRequest
  <1>3. ASSUME NEW c \in Couriers, NEW o \in Orders,
               AssignRead(p, o, c) \/ ReassignRead(p, o, c) \/ WooAssignRead(p, o, c)
        PROVE  LocksKnown'
    <2>1. PICK op \in {"assign", "reassign", "wooAssign"} :
            /\ BeginDispatch(p, op, o, c)
            /\ \/ order[o].at = Life!Open
               \/ /\ op \in Moves /\ order[o].at.status = "ASSIGNED"
                  /\ order[o].at.courier # c
      <3>1. CASE AssignRead(p, o, c)
        BY <3>1 DEF AssignRead, Life!Open
      <3>2. CASE ReassignRead(p, o, c)
        BY <3>2 DEF ReassignRead, Moves
      <3>3. CASE WooAssignRead(p, o, c)
        <4>1. order[o].at \in OrderRow /\ order[o].at \in Life!Legal(o)
          BY DEF OrderInv, TypeOK, Rows, OrdersConsistent
        <4>2. order[o].at.status = "REQUESTED" => order[o].at = Life!Open
          BY <4>1, RequestedIsOpen
        <4>3. order[o].at.status = "ASSIGNED" => order[o].at.courier # c
          BY <3>3, <4>1 DEF WooAssignRead, OrderRow
        <4> QED
          BY <3>3, <4>2, <4>3 DEF WooAssignRead, Moves
      <3> QED
        BY <1>3, <3>1, <3>2, <3>3
    <2>2. \/ order[o].at = Life!Open
          \/ op \in Moves /\ \E d \in Couriers \ {c} : order[o].at = Life!With(d)
      <3>1. order[o].at \in Life!Legal(o)
        BY DEF OrderInv, OrdersConsistent
      <3> QED
        BY <2>1, <3>1 DEF Life!Legal, Life!Open, Life!With, Life!OnRoad, Life!Done, Life!Cancelled
    <2> DEFINE r == [NoRequest EXCEPT !.op = op, !.step = "readCourier", !.o = o, !.c = c,
                                      !.seen = order[o].at, !.rel = order[o].at.courier]
    <2>3. /\ r.op = op /\ r.step = "readCourier" /\ r.c = c /\ r.seen = order[o].at
          /\ r.rel = order[o].at.courier
      BY DEF NoRequest
    <2>4. Begin(p, r) /\ UNCHANGED <<order, courier>>
      BY <2>1 DEF BeginDispatch
    <2> HIDE DEF r
    <2>5. \/ r.seen = Life!Open /\ r.rel = None
          \/ r.op \in Moves /\ \E d \in Couriers \ {r.c} : r.rel = d /\ r.seen = Life!With(d)
      BY <2>2, <2>3 DEF Life!Open, Life!With
    <2> QED
      BY <1>0, <2>3, <2>4, <2>5, LocksBegin
  <1>4. ASSUME NEW o \in Orders, SyncRead(p, o) \/ ReadForCancel(p, o) \/ ReadForPaid(p, o)
        PROVE  LocksKnown'
    BY <1>1, <1>4 DEF SyncRead, ReadForCancel, ReadForPaid, NoRequest
  <1>5. ASSUME NEW c \in Couriers, NEW op, ReadAvailability(p, c, op)
        PROVE  LocksKnown'
    BY <1>1, <1>5 DEF ReadAvailability, NoRequest
  <1>6. ASSUME NEW c \in Couriers, NEW v, ReadForVehicle(p, c, v)
        PROVE  LocksKnown'
    BY <1>1, <1>6 DEF ReadForVehicle, NoRequest
  <1>7. ASSUME NEW c \in Couriers, ReadForSuspend(p, c) \/ ReadForActivate(p, c)
        PROVE  LocksKnown'
    BY <1>1, <1>7 DEF ReadForSuspend, ReadForActivate, NoRequest
  <1> QED
    BY <1>2, <1>3, <1>4, <1>5, <1>6, <1>7, LocksOwnOrder DEF Arrive

LEMMA LocksContinue ==
  ASSUME OrderInv, LocksKnown, NEW p \in Procs, Continue(p)
  PROVE  LocksKnown'
  <1>0. /\ DispatchSteps = {"readCourier", "reserveScan", "reserve", "countActive", "move"}
        /\ ReleaseSteps = {"releaseScan", "release"}
        /\ LockingSteps = {"claimOrder", "countActive", "move", "releaseScan", "release", "commit"}
    BY DEF DispatchSteps, ReleaseSteps, LockingSteps, ClaimSteps
  <1>1. RequestKnows(tx[p]) /\ LockKnows(p, tx[p])
    BY RequestFields DEF LocksKnown
  <1>2. tx[p].step \in {"claimOrder", "move", "cancelOrder", "syncOrder"} => tx[p].o \in Orders
    BY <1>1 DEF RequestKnows, OrderSteps, DispatchSteps
  \* The couriers.
  <1>3. CASE ClaimCourier(p) \/ Reserve(p) \/ SetAvailability(p) \/ SetVehicle(p)
             \/ SetSuspended(p) \/ SetActivated(p)
    <2>1. PICK matches, new, s :
            /\ UpdateCourier(p, matches, new, s)
            /\ \/ s \in {"claimOrder", "commit"}
               \/ s = "countActive" /\ tx[p].step = "reserve"
            /\ tx[p].step \in {"claimCourier", "reserve", "setAvailability", "setVehicle",
                               "setSuspended", "setActivated"}
      BY <1>3 DEF ClaimCourier, Reserve, SetAvailability, SetVehicle, SetSuspended, SetActivated, At
    <2> QED
      BY <1>0, <2>1, LocksCourier
  \* The orders.
  <1>4. CASE ClaimOrder(p) \/ SyncOrder(p) \/ CancelOrder(p)
    <2>1. PICK matches, new, e, s :
            /\ UpdateOrder(p, matches, new, e, s)
            /\ \/ s = "commit"
               \/ s = "readPayment" /\ tx[p].step = "cancelOrder"
            /\ tx[p].step \in {"claimOrder", "syncOrder", "cancelOrder"}
      BY <1>4 DEF ClaimOrder, SyncOrder, CancelOrder, At
    <2> QED
      BY <1>0, <1>2, <2>1, LocksOrder
  <1>5. ASSUME NEW s \in {"commit", "releaseScan"}, NEW op, MoveOrder(p, op, s),
               s = "releaseScan" => tx[p].seen # Life!Open
        PROVE  LocksKnown'
    <2> DEFINE o == tx[p].o
    <2>1. tx[p].step = "move" /\ o \in Orders /\ tx[p].event = None
      BY <1>1, <1>2, <1>5 DEF MoveOrder, At, RequestKnows, UnwrittenSteps, CourierSteps, DispatchSteps
    <2>2. order[o].by # p
      BY <2>1, OneOrderPerRequest
    <2>3. PICK new, e : UpdateOrder(p, Seen(order[o], p) = tx[p].seen, new, e, s)
      BY <1>5 DEF MoveOrder
    <2>4. s = "releaseScan" /\ Seen(order[o], p) = tx[p].seen =>
            /\ order[o].at = Life!With(tx[p].rel)
            /\ tx[p].op \in Moves /\ tx[p].rel # tx[p].c
      BY <1>0, <1>1, <1>5, <2>1, <2>2 DEF LockKnows, Seen
    <2> DEFINE matches == Seen(order[o], p) = tx[p].seen
    <2>5. UpdateOrder(p, matches, new, e, s)
      BY <2>3
    <2>6. s \in ReleaseSteps /\ matches =>
            /\ order[tx[p].o].at = Life!With(tx[p].rel)
            /\ tx[p].op \in Moves /\ tx[p].rel # tx[p].c
      BY <1>0, <2>4
    <2> HIDE DEF matches
    <2> QED
      BY <1>0, <2>1, <2>5, <2>6, LocksOrder
  <1>6. CASE AssignMove(p)
    BY <1>5, <1>6 DEF AssignMove
  <1>7. CASE ReassignMove(p)
    <2>1. tx[p].op = "reassign" /\ tx[p].step = "move"
      BY <1>7 DEF ReassignMove, MoveOrder, At
    <2>2. PICK d \in Couriers : tx[p].seen = Life!With(d)
      BY <1>0, <1>1, <2>1 DEF RequestKnows
    <2>3. tx[p].seen # Life!Open
      BY <2>2 DEF Life!Open, Life!With
    <2> QED
      BY <1>5, <1>7, <2>3 DEF ReassignMove
  <1>8. CASE WooAssignMove(p)
    <2>1. tx[p].seen.status = "ASSIGNED" => tx[p].seen # Life!Open
      BY DEF Life!Open
    <2> QED
      BY <1>5, <1>8, <2>1 DEF WooAssignMove
  \* Releasing.
  <1>9. CASE ReleaseScan(p)
    <2>1. PICK s \in {"release", "commit"} : GoTo(p, s) /\ UNCHANGED <<order, courier>>
      BY <1>9 DEF ReleaseScan
    <2>2. tx[p].step = "releaseScan"
      BY <1>9 DEF ReleaseScan, At
    <2> QED
      BY <1>0, <2>1, <2>2, LocksGoOn
  <1>10. CASE Release(p)
    <2>1. /\ \A q \in Procs \ {p} : tx'[q] = tx[q]
          /\ tx'[p].step = "commit"
      BY <1>10, GoneTo DEF Release
    <2>2. OwnStep(p)
      <3>1. \A c \in Couriers : courier'[c] = courier[c] \/ courier'[c].by = p
        BY <1>10 DEF Release, Put, OrderInv, TypeOK
      <3> QED
        BY <1>10, <2>1, <3>1 DEF OwnStep, Release
    <2>3. LockKnows(p, tx[p])'
      BY <1>0, <2>1, LocksNothing
    <2> QED
      BY <2>2, <2>3, LocksStep
  \* Statements that only read, or write the payment.
  <1>11. CASE ReadTargetCourier(p) \/ ReserveScan(p) \/ CountActive(p)
              \/ CountForVehicle(p) \/ CountForSuspend(p)
    <2>1. PICK holds, s :
            /\ Check(p, holds, s)
            /\ tx[p].step \in {"readCourier", "reserveScan", "countActive", "countForVehicle",
                               "countForSuspend"}
            /\ \/ s \in {"setVehicle", "setSuspended"}
                    /\ tx[p].step \in {"countForVehicle", "countForSuspend"}
               \/ s \in {"reserveScan", "reserve"} /\ tx[p].step \in {"readCourier", "reserveScan"}
               \/ s = "move" /\ tx[p].step = "countActive"
      BY <1>11 DEF ReadTargetCourier, ReserveScan, CountActive, CountForVehicle, CountForSuspend, At
    <2> QED
      BY <1>0, <2>1, LocksCheck
  <1>12. CASE ReadPaymentForCancel(p)
    <2>1. PICK s \in {"cancelPayment", "commit"} : GoTo(p, s) /\ UNCHANGED <<order, courier>>
      BY <1>12 DEF ReadPaymentForCancel
    <2>2. tx[p].step = "readPayment"
      BY <1>12 DEF ReadPaymentForCancel, At
    <2> QED
      BY <1>0, <2>1, <2>2, LocksGoOn
  <1>13. ASSUME NEW status, NEW from, WritePayment(p, status, from)
         PROVE  LocksKnown'
    <2>1. /\ \A q \in Procs \ {p} : tx'[q] = tx[q]
          /\ tx'[p].step = "commit"
          /\ UNCHANGED <<order, courier>>
      BY <1>13 DEF WritePayment, OrderInv, TypeOK, Request
    <2>2. LockKnows(p, tx[p])'
      BY <1>0, <2>1, LocksNothing
    <2> QED
      BY <2>1, <2>2, LocksRead
  <1>14. CASE CancelPayment(p) \/ PayPayment(p)
    BY <1>13, <1>14, LocksEnd DEF CancelPayment, PayPayment
  <1> QED
    BY <1>3, <1>4, <1>6, <1>7, <1>8, <1>9, <1>10, <1>11, <1>12, <1>14, LocksEnd DEF Continue
-----------------------------------------------------------------------------
(* Theorems.                                                               *)

LEMMA LocksInit == Init => LocksKnown
  <1> SUFFICES ASSUME Init PROVE LocksKnown
    OBVIOUS
  <1>1. \A p \in Procs : tx[p].step = "none"
    BY DEF Init, NoRequest
  <1>2. \A c \in Couriers : courier[c].by = None
    <2> SUFFICES ASSUME NEW c \in Couriers PROVE courier[c].by = None
      OBVIOUS
    <2>1. PICK r : courier[c] = Row(r)
      BY DEF Init
    <2> QED
      BY <2>1 DEF Row
  <1>3. None \notin Procs
    BY NoneAssumption
  <1> QED
    BY <1>1, <1>2, <1>3 DEF LocksKnown, LockKnows, DispatchSteps, ReleaseSteps

LEMMA LocksNext == OrderInv /\ LocksKnown /\ [Next]_vars => LocksKnown'
  <1>1. ASSUME OrderInv, LocksKnown, Next PROVE LocksKnown'
    BY <1>1, LocksArrive, LocksContinue, LocksEnd DEF Next, Abort
  <1>2. ASSUME LocksKnown, UNCHANGED vars PROVE LocksKnown'
    BY <1>2 DEF LocksKnown, LockKnows, vars
  <1> QED
    BY <1>1, <1>2

\* Couriers are locked by requests that have reserved them, have just written
\* them, or have moved an order to them; and who comes to release a courier
\* holds an order that is, as committed, still with that courier.
THEOREM LocksInvariant == Spec => []LocksKnown
  <1> QED
    BY LocksInit, LocksNext, OrderInvariant, PTL DEF Spec

\* Any number of requests, of any kind: where some only wait for each other,
\* there are reassignments that go round in a circle, each of an order of a
\* courier that the next one has reserved.
THEOREM DeadlocksStayCrosswise == Spec => []DeadlocksAreCrosswise
  <1>1. OrderInv /\ PaymentInv /\ LocksKnown => DeadlocksAreCrosswise
    BY LocksGoRound
  <1>2. Spec => []PaymentInv
    BY PaymentInvariant
  <1> QED
    BY <1>1, <1>2, OrderInvariant, LocksInvariant, PTL
=============================================================================
