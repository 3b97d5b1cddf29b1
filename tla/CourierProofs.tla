---------------------------- MODULE CourierProofs ----------------------------
(***************************************************************************)
(* Proofs about the couriers of Dispatch, for any number of couriers,      *)
(* orders and requests.                                                    *)
(*                                                                         *)
(* While nobody writes shifts: the active orders of a courier stay within  *)
(* the limit; its suspension and its account agree; and, unless the limit  *)
(* leaves a courier at work free to be suspended, who has an active order  *)
(* is on line and has the vehicle the order needs.                         *)
(*                                                                         *)
(* While requests come one at a time, shifts included: a courier is BUSY   *)
(* exactly while it has an active order.                                   *)
(***************************************************************************)
EXTENDS DispatchProofs, FiniteSetTheorems

\* The writes of a shift, which are not protected (updateAvailability).
Shifts == {"goOnline", "goOffline"}

ActiveWith(row, c) == row.courier = c /\ row.status \in Active

\* What the draft of an order would give to a courier, or take from it.
Joins(o, c)  == ActiveWith(order[o].draft, c) /\ ~ActiveWith(order[o].at, c)
Leaves(o, c) == ActiveWith(order[o].at, c) /\ ~ActiveWith(order[o].draft, c)

\* Request p has taken order o from courier c, and not committed yet.
TakesFrom(p, o, c) == o \in Orders /\ order[o].by = p /\ Leaves(o, c)

\* A courier who may be given another order.
Room(c) == Cardinality(Load(c)) < Limit

ClaimSteps   == {"claimOrder", "countActive", "move"}
ReleaseSteps == {"releaseScan", "release"}
LockingSteps == ClaimSteps \cup ReleaseSteps \cup {"commit"}

\* What a request p at statement t knows of couriers: who is about to give an
\* order holds the courier, which has room once the orders are counted; who is
\* about to set a courier free has taken an order from it, and so has who has
\* done it; who has not come to that holds no courier.
CourierKnows(p, t) ==
  /\ t.step # "setAvailability"
  /\ t.step \in ClaimSteps =>
       courier[t.c].by = p /\ courier[t.c].draft.status = "BUSY"
  /\ t.step \in {"claimOrder", "move"} => Room(t.c)
  /\ t.step \in ReleaseSteps => TakesFrom(p, t.o, t.rel)
  /\ \A c \in Couriers : courier[c].by = p =>
       /\ t.step \in LockingSteps
       /\ courier[c].draft.status = "AVAILABLE" => TakesFrom(p, t.o, c)

\* An order is given to a courier only by a request that holds the courier's
\* row as well.
JoinsHeld ==
  \A o \in Orders, c \in Couriers : Joins(o, c) =>
    /\ courier[c].by = order[o].by
    /\ courier[c].draft.status = "BUSY"
    /\ Room(c)

AvailableHasRoom ==
  \A c \in Couriers : courier[c].at.status = "AVAILABLE" => Room(c)

\* Courier and account agree in what is not committed yet, too.
Agrees(row) ==
  /\ row.by = None => row.draft = row.at
  /\ row.draft.status = "SUSPENDED" <=> row.draft.account = "SUSPENDED"

DraftsAgree == \A c \in Couriers : Agrees(courier[c])

\* What is committed about couriers.
CommittedInv == AvailableHasRoom /\ CapacityRespected /\ SuspensionHolds

\* The inductive invariant, relative to OrderInv, while nobody writes shifts.
CourierInv ==
  /\ \A p \in Procs : CourierKnows(p, tx[p])
  /\ JoinsHeld
  /\ DraftsAgree
  /\ CommittedInv
-----------------------------------------------------------------------------
(* Counting.                                                               *)

LEMMA LoadsFinite ==
  ASSUME NEW c
  PROVE  IsFiniteSet(Load(c)) /\ Cardinality(Load(c)) \in Nat
  <1>1. Load(c) \subseteq Orders
    BY DEF Load
  <1> QED
    BY <1>1, OrdersAssumption, FS_Subset, FS_CardinalityType

\* With one more element at most there is one more at most; with one less at
\* least, one less at least.
LEMMA OneMore ==
  ASSUME NEW S, IsFiniteSet(S), NEW x, NEW T \in SUBSET (S \cup {x})
  PROVE  Cardinality(T) <= Cardinality(S) + 1
  <1>0. Cardinality(S) \in Nat
    BY FS_CardinalityType
  <1>1. IsFiniteSet(S \cup {x}) /\ Cardinality(S \cup {x}) <= Cardinality(S) + 1
    BY <1>0, FS_AddElement
  <1>2. Cardinality(T) <= Cardinality(S \cup {x})
    BY <1>1, FS_Subset
  <1>3. IsFiniteSet(T)
    BY <1>1, FS_Subset
  <1>4. Cardinality(S) \in Nat /\ Cardinality(T) \in Nat /\ Cardinality(S \cup {x}) \in Nat
    BY <1>1, <1>3, FS_CardinalityType
  <1> QED
    BY <1>1, <1>2, <1>4

LEMMA OneLess ==
  ASSUME NEW S, IsFiniteSet(S), NEW x \in S, NEW T \in SUBSET (S \ {x})
  PROVE  Cardinality(T) < Cardinality(S)
  <1>1. IsFiniteSet(S \ {x}) /\ Cardinality(S \ {x}) = Cardinality(S) - 1
    BY FS_RemoveElement
  <1>2. Cardinality(T) <= Cardinality(S \ {x}) /\ IsFiniteSet(T)
    BY <1>1, FS_Subset
  <1>3. Cardinality(S) \in Nat /\ Cardinality(T) \in Nat
    BY <1>2, FS_CardinalityType
  <1> QED
    BY <1>1, <1>2, <1>3

\* A courier with no more orders than before has room if it had.
LEMMA RoomKept ==
  ASSUME NEW c, Load(c)' \subseteq Load(c), Room(c)
  PROVE  Room(c)'
  <1>1. IsFiniteSet(Load(c)) /\ Cardinality(Load(c)) \in Nat
    BY LoadsFinite
  <1>2. PICK S, T : S = Load(c) /\ T = Load(c)' /\ T \subseteq S
    OBVIOUS
  <1>3. Cardinality(T) <= Cardinality(S) /\ Cardinality(T) \in Nat
    BY <1>1, <1>2, FS_Subset, FS_CardinalityType
  <1> QED
    BY <1>1, <1>2, <1>3, LimitAssumption DEF Room
-----------------------------------------------------------------------------
(* Steps that commit nothing.                                              *)

\* Only drafts make an order join or leave, and they belong to a request.
LEMMA JoinsBySomebody ==
  ASSUME OrderInv, NEW o \in Orders, NEW c, Joins(o, c) \/ Leaves(o, c)
  PROVE  order[o].by \in Procs
  <1>1. order[o].by # None
    BY DEF OrderInv, DraftsAudited, Joins, Leaves
  <1> QED
    BY <1>1 DEF OrderInv, TypeOK, Rows

LEMMA CommittedKept ==
  ASSUME \A o \in Orders : order'[o].at = order[o].at,
         \A c \in Couriers : courier'[c].at = courier[c].at
  PROVE  /\ CommittedInv => CommittedInv'
         /\ \A c \in Couriers : Load(c)' = Load(c) /\ (Room(c)' <=> Room(c))
  <1>1. ASSUME NEW c PROVE Load(c)' = Load(c)
    BY DEF Load
  <1>2. ASSUME NEW c \in Couriers PROVE Room(c)' <=> Room(c)
    BY <1>1 DEF Room
  <1>3. CommittedInv => CommittedInv'
    BY <1>1, <1>2 DEF CommittedInv, AvailableHasRoom, CapacityRespected, SuspensionHolds
  <1> QED
    BY <1>1, <1>2, <1>3

\* What a request knows stays true while others do not write its rows, and no
\* courier it holds loses its room.
LEMMA KnowsKept ==
  ASSUME NEW q \in Procs, RequestKnows(tx[q]), CourierKnows(q, tx[q]), tx'[q] = tx[q],
         \A o \in Orders : order[o].by = q => order'[o] = order[o],
         \A c \in Couriers : courier[c].by = q =>
           courier'[c] = courier[c] /\ (Room(c) => Room(c)'),
         \A c \in Couriers : courier'[c].by = q => courier[c].by = q
  PROVE  CourierKnows(q, tx[q])'
  <1>1. \A o, c : TakesFrom(q, o, c) => TakesFrom(q, o, c)'
    BY DEF TakesFrom, Leaves
  <1>2. tx[q].step \in ClaimSteps => tx[q].c \in Couriers
    BY DEF RequestKnows, CourierSteps, DispatchSteps, ClaimSteps
  <1>3. \A o, c : TakesFrom(q, o, c) => o \in Orders
    BY DEF TakesFrom
  <1>4. tx'[q].step # "setAvailability"
    BY DEF CourierKnows
  <1>5. tx'[q].step \in ClaimSteps =>
          courier'[tx'[q].c].by = q /\ courier'[tx'[q].c].draft.status = "BUSY"
    BY <1>2 DEF CourierKnows
  <1>6. tx'[q].step \in {"claimOrder", "move"} => Room(tx[q].c)'
    <2> SUFFICES ASSUME tx[q].step \in {"claimOrder", "move"} PROVE Room(tx[q].c)'
      OBVIOUS
    <2>1. PICK c : c = tx[q].c
      OBVIOUS
    <2>2. c \in Couriers /\ courier[c].by = q /\ Room(c)
      BY <1>2, <2>1 DEF CourierKnows, ClaimSteps
    <2>3. Room(c)'
      BY <2>2
    <2> QED
      BY <2>1, <2>3
  <1> QED
    BY <1>1, <1>3, <1>4, <1>5, <1>6 DEF CourierKnows
\* A row that request p may have written or given back.
TouchedBy(p, old, new) == {old.by, new.by} \subseteq {p, None}

\* A step of p that commits nothing keeps the invariant, if p knows afterwards
\* what it should, and holds whatever courier its order is meant for.
LEMMA OpenStep ==
  ASSUME OrderInv, OrderInv', CourierInv, NEW p \in Procs,
         \A q \in Procs \ {p} : tx'[q] = tx[q],
         \A o \in Orders : /\ order'[o].at = order[o].at
                          /\ \/ order'[o] = order[o]
                             \/ TouchedBy(p, order[o], order'[o]),
         \A c \in Couriers : /\ courier'[c].at = courier[c].at
                            /\ \/ courier'[c] = courier[c]
                               \/ /\ TouchedBy(p, courier[c], courier'[c])
                                  /\ Agrees(courier'[c]),
         CourierKnows(p, tx[p])',
         \A o \in Orders, c \in Couriers : order'[o].by = p /\ Joins(o, c)' =>
           courier'[c].by = p /\ courier'[c].draft.status = "BUSY" /\ Room(c)
  PROVE  CourierInv'
  <1>1. CommittedInv' /\ \A c \in Couriers : Room(c)' <=> Room(c)
    BY CommittedKept DEF CourierInv
  <1>2. None \notin Procs
    BY NoneAssumption
  <1>3. ASSUME NEW q \in Procs PROVE CourierKnows(q, tx[q])'
    <2>1. CASE q = p
      BY <2>1
    <2>2. CASE q # p
      <3>1. RequestKnows(tx[q]) /\ CourierKnows(q, tx[q])
        BY DEF OrderInv, CourierInv
      <3>2. /\ \A o \in Orders : order[o].by = q => order'[o] = order[o]
            /\ \A c \in Couriers : courier[c].by = q => courier'[c] = courier[c]
            /\ \A c \in Couriers : courier'[c].by = q => courier[c].by = q
        BY <1>2, <2>2 DEF TouchedBy
      <3> QED
        BY <1>1, <2>2, <3>1, <3>2, KnowsKept
    <2> QED
      BY <2>1, <2>2
  <1>4. DraftsAgree'
    BY DEF CourierInv, DraftsAgree
  <1>5. JoinsHeld'
    <2> SUFFICES ASSUME NEW o \in Orders, NEW c \in Couriers, Joins(o, c)'
                 PROVE  /\ courier'[c].by = order'[o].by
                        /\ courier'[c].draft.status = "BUSY"
                        /\ Room(c)
      BY <1>1 DEF JoinsHeld
    <2>1. CASE order'[o].by = p
      BY <2>1
    <2>2. CASE order'[o].by # p
      <3>1. order'[o].by # None
        BY DEF OrderInv, DraftsAudited, Joins
      <3>2. order'[o] = order[o]
        BY <2>2, <3>1 DEF TouchedBy
      <3>3. Joins(o, c)
        BY <3>2 DEF Joins
      <3>4. courier[c].by = order[o].by /\ courier[c].draft.status = "BUSY" /\ Room(c)
        BY <3>3 DEF CourierInv, JoinsHeld
      <3>5. courier'[c] = courier[c]
        BY <2>2, <3>1, <3>2, <3>4 DEF TouchedBy
      <3> QED
        BY <3>2, <3>4, <3>5
    <2> QED
      BY <2>1, <2>2
  <1> QED
    BY <1>1, <1>3, <1>4, <1>5 DEF CourierInv
-----------------------------------------------------------------------------
(* The step that commits.                                                  *)

\* The only order a commit changes is the request's own, and it is given only
\* to a courier the request holds.
LEMMA CommitLoads ==
  ASSUME OrderInv, CourierInv, NEW p \in Procs, Commit(p), NEW c \in Couriers
  PROVE  /\ Load(c)' \subseteq Load(c) \cup {tx[p].o}
         /\ courier[c].by # p => Load(c)' \subseteq Load(c)
         /\ (\A o \in Orders : order[o].by = p => ~Joins(o, c)) => Load(c)' \subseteq Load(c)
         /\ TakesFrom(p, tx[p].o, c) =>
              tx[p].o \in Load(c) /\ Load(c)' \subseteq Load(c) \ {tx[p].o}
  <1>1. ASSUME NEW o \in Orders, order[o].by # p PROVE order'[o] = order[o]
    BY <1>1 DEF Commit, Settle
  <1>2. ASSUME NEW o \in Orders, order[o].by = p
        PROVE  order'[o].at = order[o].draft /\ tx[p].o = o
    BY <1>2, OneOrderPerRequest DEF Commit, Settle, Row
  <1>3. Load(c)' = {o \in Orders : ActiveWith(order'[o].at, c)}
        /\ Load(c) = {o \in Orders : ActiveWith(order[o].at, c)}
    BY DEF Load, ActiveWith
  <1>4. \A o \in Orders : o \in Load(c)' /\ o \notin Load(c) => order[o].by = p /\ Joins(o, c)
    BY <1>1, <1>2, <1>3 DEF Joins
  <1>5. \A o \in Orders : order[o].by = p /\ Joins(o, c) => courier[c].by = p
    BY DEF CourierInv, JoinsHeld
  <1>6. Load(c)' \subseteq Orders
    BY <1>3
  <1>7. TakesFrom(p, tx[p].o, c) => tx[p].o \in Load(c) /\ Load(c)' \subseteq Load(c) \ {tx[p].o}
    <2> SUFFICES ASSUME TakesFrom(p, tx[p].o, c)
                 PROVE  tx[p].o \in Load(c) /\ Load(c)' \subseteq Load(c) \ {tx[p].o}
      OBVIOUS
    <2> PICK o : o = tx[p].o
      OBVIOUS
    <2>1. o \in Orders /\ order[o].by = p /\ ActiveWith(order[o].at, c)
          /\ ~ActiveWith(order[o].draft, c)
      BY DEF TakesFrom, Leaves
    <2>2. o \in Load(c) /\ o \notin Load(c)'
      BY <1>2, <1>3, <2>1
    <2>3. \A i \in Orders : order[i].by = p => i = o
      BY <1>2
    <2>4. Load(c)' \subseteq Load(c)
      BY <1>4, <1>6, <2>1, <2>3 DEF Joins
    <2> QED
      BY <2>2, <2>4
  <1> QED
    BY <1>2, <1>4, <1>5, <1>6, <1>7
\* A courier some other request holds, or nobody, is given nothing.
LEMMA CommitCommitted ==
  ASSUME OrderInv, CourierInv, NEW p \in Procs, Commit(p), NEW c \in Couriers
  PROVE  /\ courier[c].by # p /\ Room(c) => Room(c)'
         /\ courier'[c].at.status = "AVAILABLE" => Room(c)'
         /\ Cardinality(Load(c))' <= Limit
  <1>1. PICK S, T : S = Load(c) /\ T = Load(c)'
    OBVIOUS
  <1>2. IsFiniteSet(S) /\ Cardinality(S) \in Nat /\ Cardinality(S) <= Limit
    BY <1>1, LoadsFinite DEF CourierInv, CommittedInv, CapacityRespected
  <1>3. PICK o : o = tx[p].o
    OBVIOUS
  <1>4. /\ T \subseteq S \cup {o}
        /\ courier[c].by # p => T \subseteq S
        /\ (\A i \in Orders : order[i].by = p => ~Joins(i, c)) => T \subseteq S
        /\ TakesFrom(p, o, c) => o \in S /\ T \subseteq S \ {o}
    BY <1>1, <1>3, CommitLoads
  <1>5. Cardinality(T) \in Nat
    BY <1>2, <1>4, FS_AddElement, FS_Subset, FS_CardinalityType
  <1>6. Limit \in Nat
    BY LimitAssumption
  <1>7. T \subseteq S => Cardinality(T) <= Cardinality(S)
    BY <1>2, FS_Subset
  <1>8. courier[c].by # p /\ Cardinality(S) < Limit => Cardinality(T) < Limit
    BY <1>2, <1>4, <1>5, <1>6, <1>7
  <1>9. Cardinality(T) <= Limit
    <2>1. CASE \A i \in Orders : order[i].by = p => ~Joins(i, c)
      BY <1>2, <1>4, <1>5, <1>6, <1>7, <2>1
    <2>2. CASE \E i \in Orders : order[i].by = p /\ Joins(i, c)
      <3>1. Cardinality(S) < Limit
        BY <1>1, <2>2 DEF CourierInv, JoinsHeld, Room
      <3>2. Cardinality(T) <= Cardinality(S) + 1
        BY <1>2, <1>4, OneMore
      <3> QED
        BY <1>2, <1>5, <1>6, <3>1, <3>2
    <2> QED
      BY <2>1, <2>2
  <1>10. ASSUME courier'[c].at.status = "AVAILABLE" PROVE Cardinality(T) < Limit
    <2>1. CASE courier[c].by = p
      <3>1. courier'[c].at = courier[c].draft
        BY <2>1 DEF Commit, Settle, Row
      <3>2. TakesFrom(p, o, c)
        BY <1>3, <1>10, <2>1, <3>1 DEF CourierInv, CourierKnows
      <3>3. Cardinality(T) < Cardinality(S)
        BY <1>2, <1>4, <3>2, OneLess
      <3> QED
        BY <1>2, <1>5, <1>6, <3>3
    <2>2. CASE courier[c].by # p
      <3>1. courier'[c] = courier[c]
        BY <2>2 DEF Commit, Settle
      <3>2. Cardinality(S) < Limit
        BY <1>1, <1>10, <3>1 DEF CourierInv, CommittedInv, AvailableHasRoom, Room
      <3> QED
        BY <1>8, <2>2, <3>2
    <2> QED
      BY <2>1, <2>2
  <1> QED
    BY <1>1, <1>8, <1>9, <1>10 DEF Room

LEMMA CourierCommit ==
  ASSUME OrderInv, OrderInv', CourierInv, NEW p \in Procs, Commit(p)
  PROVE  CourierInv'
  <1>0. None \notin Procs /\ tx \in [Procs -> Request]
    BY NoneAssumption DEF OrderInv, TypeOK
  <1>1. /\ \A o \in Orders : order[o].by # p => order'[o] = order[o]
        /\ \A c \in Couriers : courier[c].by # p => courier'[c] = courier[c]
        /\ tx' = [tx EXCEPT ![p] = NoRequest]
    BY DEF Commit, Settle
  <1>2. /\ \A o \in Orders : order[o].by = p =>
             order'[o].at = order'[o].draft /\ order'[o].by = None
        /\ \A c \in Couriers : courier[c].by = p =>
             /\ courier'[c].at = courier[c].draft
             /\ courier'[c].draft = courier[c].draft
             /\ courier'[c].by = None
    BY DEF Commit, Settle, Row
  <1>3. \A c \in Couriers : courier[c].by # p /\ Room(c) => Room(c)'
    BY CommitCommitted
  <1>4. AvailableHasRoom' /\ CapacityRespected'
    BY CommitCommitted DEF AvailableHasRoom, CapacityRespected
  <1>5. DraftsAgree'
    BY <1>1, <1>2 DEF CourierInv, DraftsAgree, Agrees
  <1>6. SuspensionHolds'
    BY <1>1, <1>2 DEF CourierInv, CommittedInv, SuspensionHolds, DraftsAgree, Agrees
  <1>7. JoinsHeld'
    <2> SUFFICES ASSUME NEW o \in Orders, NEW c \in Couriers, Joins(o, c)'
                 PROVE  /\ courier'[c].by = order'[o].by
                        /\ courier'[c].draft.status = "BUSY"
                        /\ Room(c)'
      BY DEF JoinsHeld
    <2>1. order[o].by # p
      BY <1>2 DEF Joins
    <2>2. order'[o] = order[o] /\ Joins(o, c)
      BY <1>1, <2>1 DEF Joins
    <2>3. courier[c].by = order[o].by /\ courier[c].draft.status = "BUSY" /\ Room(c)
      BY <2>2 DEF CourierInv, JoinsHeld
    <2> QED
      BY <1>1, <1>3, <2>1, <2>2, <2>3
  <1>8. ASSUME NEW q \in Procs PROVE CourierKnows(q, tx[q])'
    <2>1. CASE q = p
      <3>1. tx'[q].step = "none"
        BY <1>0, <1>1, <2>1 DEF NoRequest
      <3> QED
        BY <1>0, <1>1, <1>2, <2>1, <3>1 DEF CourierKnows, ClaimSteps, ReleaseSteps
    <2>2. CASE q # p
      <3>1. RequestKnows(tx[q]) /\ CourierKnows(q, tx[q]) /\ tx'[q] = tx[q]
        BY <1>0, <1>1, <2>2 DEF OrderInv, CourierInv
      <3>2. /\ \A o \in Orders : order[o].by = q => order'[o] = order[o]
            /\ \A c \in Couriers : courier[c].by = q =>
                 courier'[c] = courier[c] /\ (Room(c) => Room(c)')
            /\ \A c \in Couriers : courier'[c].by = q => courier[c].by = q
        BY <1>0, <1>1, <1>2, <1>3, <2>2
      <3> QED
        BY <3>1, <3>2, KnowsKept
    <2> QED
      BY <2>1, <2>2
  <1> QED
    BY <1>4, <1>5, <1>6, <1>7, <1>8 DEF CourierInv, CommittedInv
-----------------------------------------------------------------------------
(* The ways a step that commits nothing can treat orders and couriers.     *)

\* A request that holds no courier and is not about to give or take an order.
LEMMA KnowsNothing ==
  ASSUME NEW p \in Procs, \A c \in Couriers : courier'[c].by # p,
         tx'[p].step \notin ClaimSteps \cup ReleaseSteps \cup {"setAvailability"}
  PROVE  CourierKnows(p, tx[p])'
  BY DEF CourierKnows, ClaimSteps

\* It leaves both alone.
LEMMA CourierQuiet ==
  ASSUME OrderInv, OrderInv', CourierInv, NEW p \in Procs,
         \A q \in Procs \ {p} : tx'[q] = tx[q], UNCHANGED <<order, courier>>,
         CourierKnows(p, tx[p])'
  PROVE  CourierInv'
  <1>1. \A o \in Orders, c \in Couriers : order'[o].by = p /\ Joins(o, c)' =>
          courier'[c].by = p /\ courier'[c].draft.status = "BUSY" /\ Room(c)
    BY DEF CourierInv, JoinsHeld, Joins
  <1>2. /\ \A o \in Orders : order'[o] = order[o]
        /\ \A c \in Couriers : courier'[c] = courier[c]
    OBVIOUS
  <1> QED
    BY <1>1, <1>2, OpenStep

\* It drops a request and whatever it wrote.
LEMMA CourierRollback ==
  ASSUME OrderInv, OrderInv', CourierInv, NEW p \in Procs, Rollback(p)
  PROVE  CourierInv'
  <1>0. None \notin Procs /\ tx \in [Procs -> Request]
    BY NoneAssumption DEF OrderInv, TypeOK
  <1>1. /\ \A o \in Orders : order[o].by # p => order'[o] = order[o]
        /\ \A c \in Couriers : courier[c].by # p => courier'[c] = courier[c]
        /\ tx' = [tx EXCEPT ![p] = NoRequest]
    BY DEF Rollback, Undo
  <1>2. /\ \A o \in Orders : order[o].by = p =>
             /\ order'[o].at = order[o].at
             /\ order'[o].draft = order[o].at
             /\ order'[o].by = None
        /\ \A c \in Couriers : courier[c].by = p =>
             /\ courier'[c].at = courier[c].at
             /\ courier'[c].draft = courier[c].at
             /\ courier'[c].by = None
    BY DEF Rollback, Undo, Row
  <1>3. \A c \in Couriers : courier'[c].by # p
    BY <1>0, <1>1, <1>2
  <1>4. tx'[p].step = "none"
    BY <1>0, <1>1 DEF NoRequest
  <1>5. CourierKnows(p, tx[p])'
    BY <1>3, <1>4, KnowsNothing DEF ClaimSteps, ReleaseSteps
  <1>6. \A c \in Couriers : courier[c].by = p => Agrees(courier'[c])
    BY <1>2 DEF CourierInv, CommittedInv, SuspensionHolds, Agrees
  <1>7. \A o \in Orders : order'[o].by # p
    BY <1>0, <1>1, <1>2
  <1>8. \A q \in Procs \ {p} : tx'[q] = tx[q]
    BY <1>0, <1>1
  <1>9. /\ \A o \in Orders : /\ order'[o].at = order[o].at
                             /\ \/ order'[o] = order[o]
                                \/ TouchedBy(p, order[o], order'[o])
        /\ \A c \in Couriers : /\ courier'[c].at = courier[c].at
                               /\ \/ courier'[c] = courier[c]
                                  \/ /\ TouchedBy(p, courier[c], courier'[c])
                                     /\ Agrees(courier'[c])
    BY <1>1, <1>2, <1>6 DEF TouchedBy
  <1> QED
    BY <1>5, <1>7, <1>8, <1>9, OpenStep

\* It writes a courier its order is not meant for.
LEMMA CourierWrite ==
  ASSUME OrderInv, OrderInv', CourierInv, NEW p \in Procs,
         \A q \in Procs \ {p} : tx'[q] = tx[q], UNCHANGED order,
         NEW c \in Couriers, NEW new,
         Free(courier[c], p), courier' = [courier EXCEPT ![c] = Put(@, p, new)],
         new.status = "SUSPENDED" <=> new.account = "SUSPENDED",
         \A o \in Orders : order[o].by = p => ~Joins(o, c),
         CourierKnows(p, tx[p])'
  PROVE  CourierInv'
  <1>0. None \notin Procs /\ DOMAIN courier = Couriers
    BY NoneAssumption DEF OrderInv, TypeOK
  <1>1. /\ \A d \in Couriers : d # c => courier'[d] = courier[d]
        /\ courier'[c].at = courier[c].at
        /\ courier'[c].by = p /\ courier'[c].draft = new
    BY <1>0 DEF Put
  <1>2. TouchedBy(p, courier[c], courier'[c]) /\ Agrees(courier'[c])
    BY <1>0, <1>1 DEF TouchedBy, Agrees, Free
  <1>3. \A o \in Orders, d \in Couriers : order'[o].by = p /\ Joins(o, d)' =>
          courier'[d].by = p /\ courier'[d].draft.status = "BUSY" /\ Room(d)
    BY <1>1 DEF CourierInv, JoinsHeld, Joins
  <1> QED
    BY <1>1, <1>2, <1>3, OpenStep

\* It writes its order, which it gives to a courier it holds or to nobody.
LEMMA CourierOrderWrite ==
  ASSUME OrderInv, OrderInv', CourierInv, NEW p \in Procs,
         \A q \in Procs \ {p} : tx'[q] = tx[q], UNCHANGED courier,
         tx[p].event = None, NEW o \in Orders, NEW new,
         Free(order[o], p), order' = [order EXCEPT ![o] = Put(@, p, new)],
         \A c \in Couriers : ActiveWith(new, c) /\ ~ActiveWith(order[o].at, c) =>
           courier[c].by = p /\ courier[c].draft.status = "BUSY" /\ Room(c),
         CourierKnows(p, tx[p])'
  PROVE  CourierInv'
  <1>0. None \notin Procs /\ DOMAIN order = Orders
    BY NoneAssumption DEF OrderInv, TypeOK
  <1>1. /\ \A i \in Orders : i # o => order'[i] = order[i]
        /\ order'[o].at = order[o].at
        /\ order'[o].by = p /\ order'[o].draft = new
    BY <1>0 DEF Put
  <1>2. TouchedBy(p, order[o], order'[o])
    BY <1>0, <1>1 DEF TouchedBy, Free
  <1>3. \A i \in Orders : i # o => order'[i].by # p
    BY <1>1, OneOrderPerRequest
  <1>4. \A i \in Orders, c \in Couriers : order'[i].by = p /\ Joins(i, c)' =>
          courier'[c].by = p /\ courier'[c].draft.status = "BUSY" /\ Room(c)
    BY <1>1, <1>3 DEF Joins
  <1> QED
    BY <1>1, <1>2, <1>4, OpenStep
-----------------------------------------------------------------------------
(* Every action keeps the invariant.                                       *)

LEMMA HoldsNone ==
  ASSUME CourierInv, NEW p \in Procs, tx[p].step \notin LockingSteps
  PROVE  \A c \in Couriers : courier[c].by # p
  BY DEF CourierInv, CourierKnows

\* A request that holds no courier begins, or goes on, by reading.
LEMMA ReadsOn ==
  ASSUME OrderInv, OrderInv', CourierInv, NEW p \in Procs,
         \A q \in Procs \ {p} : tx'[q] = tx[q], UNCHANGED <<order, courier>>,
         tx[p].step \notin LockingSteps,
         tx'[p].step \notin ClaimSteps \cup ReleaseSteps \cup {"setAvailability"}
  PROVE  CourierInv'
  <1>1. \A c \in Couriers : courier'[c].by # p
    BY HoldsNone
  <1>2. CourierKnows(p, tx[p])'
    BY <1>1, KnowsNothing
  <1> QED
    BY <1>2, CourierQuiet

LEMMA BeginReads ==
  ASSUME OrderInv, OrderInv', CourierInv, NEW p \in Procs, NEW r, Begin(p, r),
         UNCHANGED <<order, courier>>,
         r.step \notin ClaimSteps \cup ReleaseSteps \cup {"setAvailability"}
  PROVE  CourierInv'
  <1>1. tx \in [Procs -> Request]
    BY DEF OrderInv, TypeOK
  <1>2. tx[p].step = "none" /\ tx' = [tx EXCEPT ![p] = r]
    BY DEF Begin, NoRequest
  <1>3. "none" \notin LockingSteps
    BY DEF LockingSteps, ClaimSteps, ReleaseSteps
  <1> QED
    BY <1>1, <1>2, <1>3, ReadsOn

\* A courier's own order is rejected, picked up or delivered: it is given to
\* nobody else, and taken from the courier who is looked at next.
LEMMA OwnOrderWritten ==
  ASSUME OrderInv, NEW p \in Procs, NEW c \in Couriers, NEW o \in Orders,
         \/ RejectOrder(p, c, o) \/ PickUpOrder(p, c, o) \/ DeliverOrder(p, c, o)
  PROVE  \E new \in OrderRow :
           /\ Free(order[o], p)
           /\ order' = [order EXCEPT ![o] = Put(@, p, new)]
           /\ UNCHANGED courier
           /\ \A i \in Procs \ {p} : tx'[i] = tx[i]
           /\ tx[p].step = "none" /\ tx[p].event = None
           /\ tx'[p].step \in {"commit", "releaseScan"} /\ tx'[p].o = o
           /\ ActiveWith(order[o].at, c)
           /\ \A d : d # c => ~ActiveWith(new, d)
           /\ tx'[p].step = "releaseScan" => tx'[p].rel = c /\ ~ActiveWith(new, c)
           /\ tx'[p].step = "commit" => ActiveWith(new, c)
  <1>0. PICK from \in {"ASSIGNED", "PICKED_UP"}, new \in OrderRow, q \in Request :
          /\ StartOnOwnOrder(p, c, o, from, new, q)
          /\ \A d : d # c => ~ActiveWith(new, d)
          /\ \/ q.step = "commit" /\ ActiveWith(new, c)
             \/ q.step = "releaseScan" /\ q.rel = c /\ ~ActiveWith(new, c)
    <2>0. /\ [status |-> "REQUESTED", courier |-> None] \in OrderRow
          /\ [status |-> "PICKED_UP", courier |-> c] \in OrderRow
          /\ [status |-> "DELIVERED", courier |-> c] \in OrderRow
      BY DEF OrderRow, OrderStatus
    <2>1. /\ \A d : ~ActiveWith([status |-> "REQUESTED", courier |-> None], d)
          /\ \A d : ~ActiveWith([status |-> "DELIVERED", courier |-> c], d)
          /\ \A d : d # c => ~ActiveWith([status |-> "PICKED_UP", courier |-> c], d)
          /\ ActiveWith([status |-> "PICKED_UP", courier |-> c], c)
      BY DEF ActiveWith, Active
    <2>2. CASE RejectOrder(p, c, o)
      <3> DEFINE q == [NoRequest EXCEPT !.op = "reject", !.step = "releaseScan", !.rel = c]
      <3>1. q \in Request /\ q.step = "releaseScan" /\ q.rel = c
        BY DEF NoRequest, Request, Step, AllOps, CourierOps
      <3> QED
        BY <2>0, <2>1, <2>2, <3>1 DEF RejectOrder
    <2>3. CASE PickUpOrder(p, c, o)
      <3> DEFINE q == [NoRequest EXCEPT !.op = "pickUp", !.step = "commit"]
      <3>1. q \in Request /\ q.step = "commit"
        BY DEF NoRequest, Request, Step, AllOps, CourierOps
      <3> QED
        BY <2>0, <2>1, <2>3, <3>1 DEF PickUpOrder
    <2>4. CASE DeliverOrder(p, c, o)
      <3> DEFINE q == [NoRequest EXCEPT !.op = "deliver", !.step = "releaseScan", !.rel = c]
      <3>1. q \in Request /\ q.step = "releaseScan" /\ q.rel = c
        BY DEF NoRequest, Request, Step, AllOps, CourierOps
      <3> QED
        BY <2>0, <2>1, <2>4, <3>1 DEF DeliverOrder
    <2> QED
      BY <2>2, <2>3, <2>4
  <1> DEFINE e == Event(from, new.status)
             r == [q EXCEPT !.o = o, !.c = c, !.event = e]
  <1>1. /\ order[o].at = [status |-> from, courier |-> c]
        /\ Free(order[o], p)
        /\ order' = [order EXCEPT ![o] = Put(@, p, new)]
        /\ tx[p] = NoRequest
        /\ tx' = [tx EXCEPT ![p] = r]
        /\ UNCHANGED courier
    BY <1>0 DEF StartOnOwnOrder, Begin
  <1>2. r.o = o /\ r.step = q.step /\ r.rel = q.rel
    <2> HIDE DEF e
    <2> QED
      BY DEF Request
  <1> HIDE DEF r
  <1>3. /\ \A i \in Procs \ {p} : tx'[i] = tx[i]
        /\ tx'[p] = r /\ tx[p].step = "none" /\ tx[p].event = None
    BY <1>1 DEF OrderInv, TypeOK, NoRequest
  <1>4. ActiveWith(order[o].at, c)
    BY <1>1 DEF ActiveWith, Active
  <1> QED
    BY <1>0, <1>1, <1>2, <1>3, <1>4

LEMMA CourierOwnOrder ==
  ASSUME OrderInv, OrderInv', CourierInv, NEW p \in Procs, NEW c \in Couriers, NEW o \in Orders,
         \/ RejectOrder(p, c, o) \/ PickUpOrder(p, c, o) \/ DeliverOrder(p, c, o)
  PROVE  CourierInv'
  <1>1. PICK new \in OrderRow :
          /\ Free(order[o], p)
          /\ order' = [order EXCEPT ![o] = Put(@, p, new)]
          /\ UNCHANGED courier
          /\ \A i \in Procs \ {p} : tx'[i] = tx[i]
          /\ tx[p].step = "none" /\ tx[p].event = None
          /\ tx'[p].step \in {"commit", "releaseScan"} /\ tx'[p].o = o
          /\ ActiveWith(order[o].at, c)
          /\ \A d : d # c => ~ActiveWith(new, d)
          /\ tx'[p].step = "releaseScan" => tx'[p].rel = c /\ ~ActiveWith(new, c)
    BY OwnOrderWritten
  <1>2. /\ order'[o].at = order[o].at /\ order'[o].draft = new /\ order'[o].by = p
    BY <1>1 DEF OrderInv, TypeOK, Put
  <1>3. \A d \in Couriers : courier'[d].by # p
    BY <1>1, HoldsNone DEF LockingSteps, ClaimSteps, ReleaseSteps
  <1>4. ~ActiveWith(new, c) => TakesFrom(p, o, c)'
    BY <1>1, <1>2 DEF TakesFrom, Leaves
  <1>5. CourierKnows(p, tx[p])'
    BY <1>1, <1>3, <1>4 DEF CourierKnows, ClaimSteps, ReleaseSteps
  <1>6. \A d \in Couriers : ~(ActiveWith(new, d) /\ ~ActiveWith(order[o].at, d))
    BY <1>1
  <1> QED
    BY <1>1, <1>5, <1>6, CourierOrderWrite

\* A request that arrives.
LEMMA CourierArrive ==
  ASSUME OrderInv, OrderInv', CourierInv, Ops \cap Shifts = {}, NEW p \in Procs, Arrive(p)
  PROVE  CourierInv'
  <1> DEFINE Quiet(s) == s \notin ClaimSteps \cup ReleaseSteps \cup {"setAvailability"}
  <1>0. /\ Quiet("claimCourier") /\ Quiet("readCourier") /\ Quiet("syncOrder")
        /\ Quiet("cancelOrder") /\ Quiet("payPayment") /\ Quiet("countForVehicle")
        /\ Quiet("countForSuspend") /\ Quiet("setActivated")
    BY DEF ClaimSteps, ReleaseSteps
  <1>1. ASSUME NEW r, Begin(p, r), UNCHANGED <<order, courier>>, Quiet(r.step)
        PROVE  CourierInv'
    BY <1>1, BeginReads
  <1> HIDE DEF Quiet
  <1>2. ASSUME NEW o \in Orders, NEW c \in Couriers,
               \/ ReadForAccept(p, c, o) \/ AssignRead(p, o, c)
               \/ ReassignRead(p, o, c) \/ WooAssignRead(p, o, c)
        PROVE  CourierInv'
    <2>1. PICK r : Begin(p, r) /\ r.step \in {"claimCourier", "readCourier"}
                   /\ UNCHANGED <<order, courier>>
      BY <1>2 DEF ReadForAccept, AssignRead, ReassignRead, WooAssignRead, BeginDispatch,
            NoRequest
    <2> QED
      BY <1>0, <1>1, <2>1
  <1>3. ASSUME NEW o \in Orders, SyncRead(p, o) \/ ReadForCancel(p, o) \/ ReadForPaid(p, o)
        PROVE  CourierInv'
    <2>1. PICK r : Begin(p, r) /\ r.step \in {"syncOrder", "cancelOrder", "payPayment"}
                   /\ UNCHANGED <<order, courier>>
      BY <1>3 DEF SyncRead, ReadForCancel, ReadForPaid, NoRequest
    <2> QED
      BY <1>0, <1>1, <2>1
  <1>4. ASSUME NEW c \in Couriers,
               \/ \E v \in Vehicles : ReadForVehicle(p, c, v)
               \/ ReadForSuspend(p, c) \/ ReadForActivate(p, c)
        PROVE  CourierInv'
    <2>1. PICK r : Begin(p, r) /\ r.step \in {"countForVehicle", "countForSuspend", "setActivated"}
                   /\ UNCHANGED <<order, courier>>
      BY <1>4 DEF ReadForVehicle, ReadForSuspend, ReadForActivate, NoRequest
    <2> QED
      BY <1>0, <1>1, <2>1
  <1>5. \A c \in Couriers, op \in {"goOnline", "goOffline"} : ~ReadAvailability(p, c, op)
    BY DEF ReadAvailability, Begin, Shifts, NoRequest
  <1> QED
    BY <1>2, <1>3, <1>4, <1>5, CourierOwnOrder DEF Arrive

\* Statements of requests that hold no courier and read, or write a payment.
LEMMA CourierReads ==
  ASSUME OrderInv, OrderInv', CourierInv, NEW p \in Procs,
         \/ ReadTargetCourier(p) \/ ReserveScan(p)
         \/ CountForVehicle(p) \/ CountForSuspend(p)
         \/ ReadPaymentForCancel(p) \/ CancelPayment(p) \/ PayPayment(p)
  PROVE  CourierInv'
  <1> DEFINE Reading == {"readCourier", "reserveScan", "countForVehicle", "countForSuspend",
                         "readPayment", "cancelPayment", "payPayment"}
             Quiet == {"reserveScan", "reserve", "setVehicle", "setSuspended",
                       "cancelPayment", "commit"}
  <1>1. ASSUME NEW s \in Quiet, GoTo(p, s), UNCHANGED <<order, courier>>, tx[p].step \in Reading
        PROVE  CourierInv'
    <2>1. tx[p].step \notin LockingSteps
          /\ s \notin ClaimSteps \cup ReleaseSteps \cup {"setAvailability"}
      BY <1>1 DEF LockingSteps, ClaimSteps, ReleaseSteps
    <2> QED
      BY <1>1, <2>1, GoneTo, ReadsOn
  <1>2. ASSUME NEW holds, NEW s \in Quiet, Check(p, holds, s), tx[p].step \in Reading
        PROVE  CourierInv'
    BY <1>1, <1>2, CourierRollback DEF Check
  <1>3. ASSUME NEW status, WritePayment(p, status, "PENDING"), tx[p].step \in Reading
        PROVE  CourierInv'
    <2>1. UNCHANGED <<order, courier>>
      BY <1>3 DEF WritePayment
    <2>2. /\ \A q \in Procs \ {p} : tx'[q] = tx[q]
          /\ tx'[p].step = "commit"
      BY <1>3 DEF WritePayment, OrderInv, TypeOK, Request
    <2>3. tx[p].step \notin LockingSteps
          /\ "commit" \notin ClaimSteps \cup ReleaseSteps \cup {"setAvailability"}
      BY <1>3 DEF LockingSteps, ClaimSteps, ReleaseSteps
    <2> QED
      BY <2>1, <2>2, <2>3, ReadsOn
  <1>4. CASE ReadTargetCourier(p) \/ ReserveScan(p) \/ CountForVehicle(p) \/ CountForSuspend(p)
    BY <1>2, <1>4 DEF ReadTargetCourier, ReserveScan, CountForVehicle, CountForSuspend, At
  <1>5. CASE ReadPaymentForCancel(p)
    BY <1>1, <1>5 DEF ReadPaymentForCancel, At
  <1>6. CASE CancelPayment(p)
    BY <1>3, <1>6 DEF CancelPayment, At
  <1>7. CASE PayPayment(p)
    BY <1>3, <1>7, CourierRollback DEF PayPayment, At
  <1> QED
    BY <1>4, <1>5, <1>6, <1>7

\* A request that holds no courier writes one, but does not set it free.
LEMMA CourierUpdated ==
  ASSUME OrderInv, OrderInv', CourierInv, NEW p \in Procs, NEW matches, NEW new,
         NEW s \in {"claimOrder", "countActive", "commit"}, UpdateCourier(p, matches, new, s),
         tx[p].c \in Couriers, tx[p].event = None, tx[p].step \notin LockingSteps,
         matches => /\ new.status # "AVAILABLE"
                    /\ new.status = "SUSPENDED" <=> new.account = "SUSPENDED"
                    /\ s # "commit" => new.status = "BUSY"
                    /\ s = "claimOrder" => Room(tx[p].c)
  PROVE  CourierInv'
  <1>1. CASE Rollback(p)
    BY <1>1, CourierRollback
  <1>2. CASE /\ matches
             /\ Free(courier[tx[p].c], p)
             /\ courier' = [courier EXCEPT ![tx[p].c] = Put(@, p, new)]
             /\ GoTo(p, s)
             /\ UNCHANGED <<order, payment, trail, payTrail>>
    <2>1. PICK c \in Couriers : c = tx[p].c
      OBVIOUS
    <2>2. /\ Free(courier[c], p)
          /\ courier' = [courier EXCEPT ![c] = Put(@, p, new)]
          /\ UNCHANGED order
      BY <1>2, <2>1
    <2>3. /\ \A q \in Procs \ {p} : tx'[q] = tx[q]
          /\ tx'[p].step = s /\ tx'[p].o = tx[p].o /\ tx'[p].c = c
      BY <1>2, <2>1, GoneTo
    <2>4. /\ courier'[c].by = p /\ courier'[c].draft = new
          /\ \A d \in Couriers : d # c => courier'[d] = courier[d]
      BY <2>2 DEF OrderInv, TypeOK, Put
    <2>5. \A d \in Couriers : d # c => courier'[d].by # p
      BY <2>4, HoldsNone
    <2>6. \A o \in Orders : order[o].by = p => ~Joins(o, c)
      BY OneOrderPerRequest
    <2>7. s = "claimOrder" => Room(c)'
      BY <1>2, <2>1, <2>2 DEF Room, Load
    <2>8. /\ s \in {"claimOrder", "countActive"} => new.status = "BUSY"
          /\ new.status # "AVAILABLE"
      BY <1>2
    <2>9. CourierKnows(p, tx[p])'
      <3>1. tx'[p].step \in LockingSteps /\ tx'[p].step # "setAvailability"
            /\ tx'[p].step \notin ReleaseSteps /\ tx'[p].step # "move"
        BY <2>3 DEF LockingSteps, ClaimSteps, ReleaseSteps
      <3>2. tx'[p].step \in ClaimSteps =>
              courier'[tx'[p].c].by = p /\ courier'[tx'[p].c].draft.status = "BUSY"
        BY <2>3, <2>4, <2>8 DEF ClaimSteps
      <3>3. \A d \in Couriers : courier'[d].by = p => courier'[d].draft.status # "AVAILABLE"
        BY <2>4, <2>5, <2>8
      <3>4. tx'[p].step \in {"claimOrder", "move"} => Room(tx[p].c)'
        BY <2>3, <2>7, <3>1
      <3> QED
        BY <3>1, <3>2, <3>3, <3>4 DEF CourierKnows
    <2>10. new.status = "SUSPENDED" <=> new.account = "SUSPENDED"
      BY <1>2
    <2>11. \A q \in Procs \ {p} : tx'[q] = tx[q]
      BY <2>3
    <2> QED
      BY <2>2, <2>6, <2>9, <2>10, <2>11, CourierWrite
  <1> QED
    BY <1>1, <1>2 DEF UpdateCourier

\* Statements that write a courier other than to release it.
LEMMA CourierStatements ==
  ASSUME OrderInv, OrderInv', CourierInv, NEW p \in Procs,
         \/ ClaimCourier(p) \/ Reserve(p)
         \/ SetVehicle(p) \/ SetSuspended(p) \/ SetActivated(p)
  PROVE  CourierInv'
  <1>1. /\ tx[p].c \in Couriers /\ tx[p].event = None
        /\ tx[p].step \notin LockingSteps
    BY RequestFields DEF Reserve, ClaimCourier, SetVehicle, SetSuspended,
          SetActivated, At, RequestKnows, CourierSteps, DispatchSteps, UnwrittenSteps,
          LockingSteps, ClaimSteps, ReleaseSteps
  <1>2. PICK c \in Couriers : c = tx[p].c
    BY <1>1
  <1>3. courier[c].by # p
    BY <1>1, HoldsNone
  <1>4. PICK row \in CourierRow : row = courier[c].at
    BY DEF OrderInv, TypeOK, Rows
  <1>5. Seen(courier[c], p) = row
    BY <1>3, <1>4 DEF Seen
  <1>6. row.status = "SUSPENDED" <=> row.account = "SUSPENDED"
    BY <1>4 DEF CourierInv, CommittedInv, SuspensionHolds
  <1>7. CASE ClaimCourier(p)
    <2>1. UpdateCourier(p, row.status = "AVAILABLE", [row EXCEPT !.status = "BUSY"], "claimOrder")
      BY <1>2, <1>5, <1>7 DEF ClaimCourier
    <2>2. row.status = "AVAILABLE" => Room(tx[p].c)
      BY <1>2, <1>4 DEF CourierInv, CommittedInv, AvailableHasRoom
    <2>3. [row EXCEPT !.status = "BUSY"].status = "BUSY"
          /\ [row EXCEPT !.status = "BUSY"].account = row.account
      BY DEF CourierRow
    <2> QED
      BY <1>1, <1>6, <2>1, <2>2, <2>3, CourierUpdated
  <1>8. CASE Reserve(p)
    <2>1. UpdateCourier(p, row.status \in {"AVAILABLE", "BUSY"}, [row EXCEPT !.status = "BUSY"],
                        "countActive")
      BY <1>2, <1>5, <1>8 DEF Reserve
    <2>2. [row EXCEPT !.status = "BUSY"].status = "BUSY"
          /\ [row EXCEPT !.status = "BUSY"].account = row.account
      BY DEF CourierRow
    <2> QED
      BY <1>1, <1>6, <2>1, <2>2, CourierUpdated
  <1>9. CASE SetVehicle(p)
    <2> DEFINE new == [row EXCEPT !.vehicle = tx[p].vehicle]
    <2>1. UpdateCourier(p, row.status \in {"OFFLINE", "SUSPENDED"}, new, "commit")
      BY <1>2, <1>5, <1>9 DEF SetVehicle
    <2>2. new.status = row.status /\ new.account = row.account
      BY DEF CourierRow
    <2> HIDE DEF new
    <2> QED
      BY <1>1, <1>6, <2>1, <2>2, CourierUpdated
  <1>10. CASE SetSuspended(p)
    <2> DEFINE new == [row EXCEPT !.status = "SUSPENDED", !.account = "SUSPENDED"]
    <2>1. UpdateCourier(p, row.status \in {"OFFLINE", "AVAILABLE"}, new, "commit")
      BY <1>2, <1>5, <1>10 DEF SetSuspended
    <2>2. new.status = "SUSPENDED" /\ new.account = "SUSPENDED"
      BY DEF CourierRow
    <2> HIDE DEF new
    <2> QED
      BY <1>1, <2>1, <2>2, CourierUpdated
  <1>11. CASE SetActivated(p)
    <2> DEFINE new == [row EXCEPT !.status = "OFFLINE", !.account = "ACTIVE"]
    <2>1. UpdateCourier(p, row.status = "SUSPENDED", new, "commit")
      BY <1>2, <1>5, <1>11 DEF SetActivated
    <2>2. new.status = "OFFLINE" /\ new.account = "ACTIVE"
      BY DEF CourierRow
    <2> HIDE DEF new
    <2> QED
      BY <1>1, <2>1, <2>2, CourierUpdated
  <1> QED
    BY <1>7, <1>8, <1>9, <1>10, <1>11

\* What a request that has not written its order knows: it sets nobody free.
LEMMA HoldsForClaim ==
  ASSUME OrderInv, CourierInv, NEW p \in Procs, tx[p].event = None
  PROVE  \A c \in Couriers : courier[c].by = p => courier[c].draft.status # "AVAILABLE"
  BY OneOrderPerRequest DEF CourierInv, CourierKnows, TakesFrom

\* A request writes its order: it gives it to the courier it holds, or to
\* nobody; if it is to release a courier next, it takes the order from it.
LEMMA CourierOrderUpdated ==
  ASSUME OrderInv, OrderInv', CourierInv, NEW p \in Procs, NEW matches, NEW new, NEW e,
         NEW s \in {"commit", "releaseScan", "readPayment"}, UpdateOrder(p, matches, new, e, s),
         tx[p].o \in Orders, tx[p].event = None,
         s = "readPayment" => tx[p].step \notin LockingSteps,
         matches => \A c \in Couriers : ActiveWith(new, c) =>
           courier[c].by = p /\ courier[c].draft.status = "BUSY" /\ Room(c),
         matches /\ s = "releaseScan" =>
           ActiveWith(order[tx[p].o].at, tx[p].rel) /\ ~ActiveWith(new, tx[p].rel)
  PROVE  CourierInv'
  <1>1. CASE Rollback(p)
    BY <1>1, CourierRollback
  <1>2. CASE /\ matches
             /\ Free(order[tx[p].o], p)
             /\ order' = [order EXCEPT ![tx[p].o] = Put(@, p, new)]
             /\ tx' = [tx EXCEPT ![p].step = s, ![p].event = e]
             /\ UNCHANGED <<courier, payment, trail, payTrail>>
    <2>0. PICK c : c = tx[p].rel
      OBVIOUS
    <2>1. PICK o \in Orders : o = tx[p].o /\ c = tx[p].rel
      BY <2>0
    <2>2. /\ Free(order[o], p)
          /\ order' = [order EXCEPT ![o] = Put(@, p, new)]
          /\ UNCHANGED courier
      BY <1>2, <2>1
    <2>3. /\ \A q \in Procs \ {p} : tx'[q] = tx[q]
          /\ tx'[p].step = s /\ tx'[p].o = o /\ tx'[p].rel = c
      BY <1>2, <2>1 DEF OrderInv, TypeOK, Request
    <2>4. /\ order'[o].by = p /\ order'[o].draft = new /\ order'[o].at = order[o].at
      BY <2>2 DEF OrderInv, TypeOK, Put
    <2>5. s = "releaseScan" => TakesFrom(p, o, c)'
      BY <1>2, <2>1, <2>4 DEF TakesFrom, Leaves
    <2>6. \A d \in Couriers : courier'[d].by = p => courier'[d].draft.status # "AVAILABLE"
      BY <2>2, HoldsForClaim
    <2>7. s = "readPayment" => \A d \in Couriers : courier'[d].by # p
      BY <2>2, HoldsNone
    <2>8. CourierKnows(p, tx[p])'
      <3>1. tx'[p].step \notin ClaimSteps \cup {"setAvailability"}
        BY <2>3 DEF ClaimSteps
      <3>2. tx'[p].step \in ReleaseSteps => TakesFrom(p, tx[p].o, tx[p].rel)'
        BY <2>3, <2>5 DEF ReleaseSteps
      <3>3. tx'[p].step \in LockingSteps \/ \A d \in Couriers : courier'[d].by # p
        BY <2>3, <2>7 DEF LockingSteps, ReleaseSteps
      <3> QED
        BY <2>6, <3>1, <3>2, <3>3 DEF CourierKnows, ClaimSteps
    <2>9. \A d \in Couriers : ActiveWith(new, d) /\ ~ActiveWith(order[o].at, d) =>
            courier[d].by = p /\ courier[d].draft.status = "BUSY" /\ Room(d)
      BY <1>2
    <2>10. \A q \in Procs \ {p} : tx'[q] = tx[q]
      BY <2>3
    <2> QED
      BY <2>2, <2>8, <2>9, <2>10, CourierOrderWrite
  <1> QED
    BY <1>1, <1>2 DEF UpdateOrder

\* Statements that write the order.
LEMMA CourierOrderStatements ==
  ASSUME OrderInv, OrderInv', CourierInv, NEW p \in Procs,
         \/ ClaimOrder(p) \/ AssignMove(p) \/ ReassignMove(p) \/ WooAssignMove(p)
         \/ SyncOrder(p) \/ CancelOrder(p)
  PROVE  CourierInv'
  <1> DEFINE given == [status |-> "ASSIGNED", courier |-> tx[p].c]
  <1>0. /\ \A d : ActiveWith(given, d) => d = tx[p].c
        /\ \A row \in OrderRow, t \in Terminal : \A d : ~ActiveWith([row EXCEPT !.status = t], d)
    BY DEF ActiveWith, Active, Terminal, OrderRow
  <1>1. ASSUME tx[p].step \in {"claimOrder", "move"}
        PROVE  /\ tx[p].o \in Orders /\ tx[p].c \in Couriers /\ tx[p].event = None
               /\ \A d \in Couriers : ActiveWith(given, d) =>
                    courier[d].by = p /\ courier[d].draft.status = "BUSY" /\ Room(d)
    <2>1. /\ tx[p].o \in Orders /\ tx[p].c \in Couriers /\ tx[p].event = None
      BY <1>1, RequestFields DEF RequestKnows, CourierSteps, OrderSteps, UnwrittenSteps,
            DispatchSteps
    <2>2. PICK c \in Couriers : c = tx[p].c
      BY <2>1
    <2>3. courier[c].by = p /\ courier[c].draft.status = "BUSY" /\ Room(c)
      BY <1>1, <2>2 DEF CourierInv, CourierKnows, ClaimSteps
    <2> QED
      BY <1>0, <2>1, <2>2, <2>3
  <1>2. ASSUME NEW op, NEW s \in {"commit", "releaseScan"}, MoveOrder(p, op, s),
               s = "releaseScan" => op = "reassign" \/ tx[p].seen.status = "ASSIGNED"
        PROVE  CourierInv'
    <2>1. tx[p].step = "move" /\ tx[p].op = op
      BY <1>2 DEF MoveOrder, At
    <2>2. UpdateOrder(p, Seen(order[tx[p].o], p) = tx[p].seen, given,
                      Event(tx[p].seen.status, "ASSIGNED"), s)
      BY <1>2 DEF MoveOrder
    <2>3. Seen(order[tx[p].o], p) = tx[p].seen => tx[p].seen = order[tx[p].o].at
      BY <1>1, <2>1, UnwrittenSeen
    <2>4. s = "releaseScan" => ActiveWith(tx[p].seen, tx[p].rel) /\ ~ActiveWith(given, tx[p].rel)
      <3>1. SUFFICES ASSUME s = "releaseScan"
                     PROVE  ActiveWith(tx[p].seen, tx[p].rel) /\ ~ActiveWith(given, tx[p].rel)
        OBVIOUS
      <3>2. Life!Open.status = "REQUESTED"
        BY DEF Life!Open
      <3>3. PICK d \in Couriers \ {tx[p].c} : tx[p].rel = d /\ tx[p].seen = Life!With(d)
        BY <1>2, <2>1, <3>1, <3>2, RequestFields DEF RequestKnows, DispatchSteps
      <3> QED
        BY <3>3 DEF Life!With, ActiveWith, Active
    <2>5. "move" \in LockingSteps /\ s # "readPayment"
      BY <1>2 DEF LockingSteps, ClaimSteps
    <2>6. PICK matches, e : /\ matches <=> Seen(order[tx[p].o], p) = tx[p].seen
                            /\ UpdateOrder(p, matches, given, e, s)
      BY <2>2
    <2> HIDE DEF given
    <2>7. matches /\ s = "releaseScan" =>
            ActiveWith(order[tx[p].o].at, tx[p].rel) /\ ~ActiveWith(given, tx[p].rel)
      BY <2>3, <2>4, <2>6
    <2> QED
      BY <1>1, <2>1, <2>5, <2>6, <2>7, CourierOrderUpdated
  <1>3. CASE AssignMove(p)
    BY <1>2, <1>3 DEF AssignMove
  <1>4. CASE ReassignMove(p)
    BY <1>2, <1>4 DEF ReassignMove
  <1>5. CASE WooAssignMove(p)
    BY <1>2, <1>5 DEF WooAssignMove
  <1>6. CASE ClaimOrder(p)
    <2> DEFINE matches == /\ Seen(order[tx[p].o], p) = [status |-> "REQUESTED", courier |-> None]
                          /\ VehicleOf[tx[p].o] = tx[p].vehicle
                          /\ tx[p].o \notin Linked
    <2>1. UpdateOrder(p, matches, given, Event("REQUESTED", "ASSIGNED"), "commit")
          /\ tx[p].step = "claimOrder"
      BY <1>6 DEF ClaimOrder, At
    <2> HIDE DEF matches, given
    <2> QED
      BY <1>1, <2>1, CourierOrderUpdated
  <1>7. ASSUME NEW t \in Terminal, NEW s \in {"commit", "readPayment"},
               tx[p].step \in {"syncOrder", "cancelOrder"},
               UpdateOrder(p, Seen(order[tx[p].o], p).status = "REQUESTED",
                           [Seen(order[tx[p].o], p) EXCEPT !.status = t],
                           Event("REQUESTED", t), s)
        PROVE  CourierInv'
    <2>1. /\ tx[p].o \in Orders /\ tx[p].event = None
          /\ tx[p].step \notin LockingSteps
      BY <1>7, RequestFields DEF RequestKnows, OrderSteps, UnwrittenSteps, LockingSteps,
            ClaimSteps, ReleaseSteps
    <2>2. Seen(order[tx[p].o], p) \in OrderRow
      BY <2>1, RowsClosed DEF OrderInv, TypeOK, Seen, Rows
    <2>3. PICK new : /\ new = [Seen(order[tx[p].o], p) EXCEPT !.status = t]
                     /\ \A d : ~ActiveWith(new, d)
      BY <1>0, <2>2
    <2>4. PICK matches : matches = (Seen(order[tx[p].o], p).status = "REQUESTED")
      OBVIOUS
    <2>5. UpdateOrder(p, matches, new, Event("REQUESTED", t), s)
      BY <1>7, <2>3, <2>4
    <2> QED
      BY <1>7, <2>1, <2>3, <2>5, CourierOrderUpdated
  <1>8. CASE SyncOrder(p)
    BY <1>7, <1>8 DEF SyncOrder, At, Terminal
  <1>9. CASE CancelOrder(p)
    BY <1>7, <1>9 DEF CancelOrder, At, Terminal
  <1> QED
    BY <1>3, <1>4, <1>5, <1>6, <1>8, <1>9

\* The orders of the courier are counted while its row is locked: the count
\* stays true until the order is given.
LEMMA CourierCount ==
  ASSUME OrderInv, OrderInv', CourierInv, NEW p \in Procs, CountActive(p)
  PROVE  CourierInv'
  <1>1. tx[p].step = "countActive" /\ tx[p].c \in Couriers /\ tx[p].event = None
    BY RequestFields DEF CountActive, At, RequestKnows, CourierSteps, DispatchSteps,
          UnwrittenSteps
  <1>2. CASE Rollback(p)
    BY <1>2, CourierRollback
  <1>3. CASE /\ Cardinality(ActiveOrders(p, tx[p].c)) < Limit
             /\ GoTo(p, "move")
             /\ UNCHANGED <<order, courier, payment, trail, payTrail>>
    <2>1. ActiveOrders(p, tx[p].c) = Load(tx[p].c)
      BY <1>1, UnwrittenSeen DEF ActiveOrders, Load
    <2>2. PICK c \in Couriers : c = tx[p].c
      BY <1>1
    <2>3. Room(c)'
      BY <1>3, <2>1, <2>2 DEF Room, Load
    <2>4. /\ \A q \in Procs \ {p} : tx'[q] = tx[q]
          /\ tx'[p].step = "move" /\ tx'[p].c = c
      BY <1>3, <2>2, GoneTo
    <2>5. courier'[c].by = p /\ courier'[c].draft.status = "BUSY"
      BY <1>1, <1>3, <2>2 DEF CourierInv, CourierKnows, ClaimSteps
    <2>6. \A d \in Couriers : courier'[d].by = p => courier'[d].draft.status # "AVAILABLE"
      BY <1>1, <1>3, HoldsForClaim
    <2>7. CourierKnows(p, tx[p])'
      BY <2>3, <2>4, <2>5, <2>6 DEF CourierKnows, LockingSteps, ClaimSteps, ReleaseSteps
    <2> QED
      BY <1>3, <2>4, <2>7, CourierQuiet
  <1> QED
    BY <1>2, <1>3 DEF CountActive, Check

\* A courier an order was taken from is looked at, then set free.
LEMMA CourierRelease ==
  ASSUME OrderInv, OrderInv', CourierInv, NEW p \in Procs, ReleaseScan(p) \/ Release(p)
  PROVE  CourierInv'
  <1>0. PICK o : o = tx[p].o
    OBVIOUS
  <1>1. tx[p].step \in ReleaseSteps /\ tx[p].rel \in Couriers
    BY RequestFields DEF ReleaseScan, Release, At, RequestKnows, ReleaseSteps
  <1>2. PICK c \in Couriers : o = tx[p].o /\ c = tx[p].rel
    BY <1>0, <1>1
  <1>3. TakesFrom(p, o, c)
    BY <1>1, <1>2 DEF CourierInv, CourierKnows
  <1>4. \A d \in Couriers : courier[d].by = p /\ courier[d].draft.status = "AVAILABLE" =>
          TakesFrom(p, o, d)
    BY <1>2 DEF CourierInv, CourierKnows
  <1>5. PICK s \in {"release", "commit"} : GoTo(p, s) /\ UNCHANGED order
    BY DEF ReleaseScan, Release
  <1>6. /\ \A q \in Procs \ {p} : tx'[q] = tx[q]
        /\ tx'[p].step = s /\ tx'[p].o = o /\ tx'[p].rel = c
    BY <1>2, <1>5, GoneTo
  <1>7. /\ s \in LockingSteps /\ s # "setAvailability"
        /\ s \notin ClaimSteps
    BY DEF LockingSteps, ClaimSteps, ReleaseSteps
  <1>8. \A d : TakesFrom(p, o, d) => TakesFrom(p, o, d)'
    BY <1>5 DEF TakesFrom, Leaves
  <1>9. ASSUME \A d \in Couriers : courier'[d].by = p /\ courier'[d].draft.status = "AVAILABLE" =>
                 TakesFrom(p, o, d)
        PROVE  CourierKnows(p, tx[p])'
    BY <1>3, <1>6, <1>7, <1>8, <1>9 DEF CourierKnows, ClaimSteps
  <1>10. CASE UNCHANGED courier
    BY <1>4, <1>5, <1>6, <1>9, <1>10, CourierQuiet
  <1>11. CASE ~UNCHANGED courier
    <2> DEFINE new == [Seen(courier[c], p) EXCEPT !.status = "AVAILABLE"]
    <2>1. /\ Seen(courier[c], p).status = "BUSY"
          /\ Free(courier[c], p)
          /\ courier' = [courier EXCEPT ![c] = Put(@, p, new)]
      BY <1>2, <1>11 DEF ReleaseScan, Release
    <2>2. Seen(courier[c], p) \in CourierRow
      BY RowsClosed DEF OrderInv, TypeOK, Seen, Rows
    <2>3. Seen(courier[c], p).account # "SUSPENDED"
      BY <2>1 DEF Seen, CourierInv, DraftsAgree, Agrees, CommittedInv, SuspensionHolds
    <2>4. new.status = "AVAILABLE" /\ new.account # "SUSPENDED"
      BY <2>2, <2>3 DEF CourierRow
    <2> HIDE DEF new
    <2>5. \A d \in Couriers : d # c => courier'[d] = courier[d]
      BY <2>1
    <2>6. CourierKnows(p, tx[p])'
      BY <1>3, <1>4, <1>9, <2>5
    <2>7. \A i \in Orders : order[i].by = p => ~Joins(i, c)
      BY <1>3, OneOrderPerRequest DEF TakesFrom, Joins, Leaves
    <2>8. /\ new.status = "SUSPENDED" <=> new.account = "SUSPENDED"
          /\ UNCHANGED order
          /\ \A q \in Procs \ {p} : tx'[q] = tx[q]
      BY <1>5, <1>6, <2>4
    <2> QED
      BY <2>1, <2>6, <2>7, <2>8, CourierWrite
  <1> QED
    BY <1>10, <1>11
-----------------------------------------------------------------------------
(* The whole next-state relation.                                          *)

LEMMA CourierInit == Init => CourierInv
  <1> SUFFICES ASSUME Init PROVE CourierInv
    OBVIOUS
  <1>1. \A c \in Couriers : courier[c].by = None /\ courier[c].draft = courier[c].at
    BY DEF Init, Row
  <1>2. \A c \in Couriers : /\ courier[c].at.status # "SUSPENDED"
                            /\ courier[c].at.account # "SUSPENDED"
    BY DEF Init, Row
  <1>3. \A o \in Orders : \A c : ~ActiveWith(order[o].at, c) /\ ~ActiveWith(order[o].draft, c)
    BY DEF Init, Row, ActiveWith, Active
  <1>4. ASSUME NEW c \in Couriers PROVE Room(c) /\ Cardinality(Load(c)) <= Limit
    <2>1. Load(c) = {}
      BY <1>3 DEF Load, ActiveWith
    <2> QED
      BY <2>1, FS_EmptySet, LimitAssumption DEF Room
  <1>5. \A p \in Procs : tx[p].step = "none"
    BY DEF Init, NoRequest
  <1>6. \A p \in Procs : CourierKnows(p, tx[p])
    BY <1>1, <1>5, NoneAssumption DEF CourierKnows, ClaimSteps, ReleaseSteps
  <1>7. JoinsHeld
    BY <1>3 DEF JoinsHeld, Joins
  <1>8. DraftsAgree
    BY <1>1, <1>2 DEF DraftsAgree, Agrees
  <1>9. CommittedInv
    BY <1>2, <1>4 DEF CommittedInv, AvailableHasRoom, CapacityRespected, SuspensionHolds
  <1> QED
    BY <1>6, <1>7, <1>8, <1>9 DEF CourierInv

LEMMA CourierNext ==
  ASSUME OrderInv, CourierInv, Ops \cap Shifts = {}, [Next]_vars
  PROVE  CourierInv'
  <1>0. OrderInv'
    BY NextStep, StutterStep
  <1>1. CASE UNCHANGED vars
    <2>1. UNCHANGED <<order, courier, tx>>
      BY <1>1 DEF vars
    <2>2. CommittedInv' /\ \A c \in Couriers : Room(c)' <=> Room(c)
      BY <2>1, CommittedKept DEF CourierInv
    <2>3. ASSUME NEW p \in Procs PROVE CourierKnows(p, tx[p])'
      BY <2>1, <2>2, KnowsKept DEF OrderInv, CourierInv
    <2>4. JoinsHeld'
      BY <2>1, <2>2 DEF CourierInv, JoinsHeld, Joins
    <2>5. DraftsAgree'
      BY <2>1 DEF CourierInv, DraftsAgree
    <2> QED
      BY <2>2, <2>3, <2>4, <2>5 DEF CourierInv
  <1>2. CASE Next
    <2> PICK p \in Procs : Arrive(p) \/ Continue(p) \/ Abort(p)
      BY <1>2 DEF Next
    <2>1. CASE Arrive(p)
      BY <1>0, <2>1, CourierArrive
    <2>2. CASE Abort(p)
      BY <1>0, <2>2, CourierRollback DEF Abort
    <2>3. CASE Continue(p)
      <3>1. ~SetAvailability(p)
        BY DEF SetAvailability, At, CourierInv, CourierKnows
      <3> QED
        BY <1>0, <2>3, <3>1, CourierReads, CourierStatements, CourierOrderStatements,
           CourierCount, CourierRelease, CourierCommit DEF Continue
    <2> QED
      BY <2>1, <2>2, <2>3
  <1> QED
    BY <1>1, <1>2
-----------------------------------------------------------------------------
(* Theorems.                                                               *)

\* While nobody writes shifts, which are written without looking, whatever is
\* written but not committed about couriers is written by a request that holds
\* the courier's row, and that counted its orders or takes one from it.
THEOREM CourierInvariant ==
  ASSUME Ops \cap Shifts = {}
  PROVE  Spec => []CourierInv
  <1>1. Init => CourierInv
    BY CourierInit
  <1>2. OrderInv /\ CourierInv /\ [Next]_vars => CourierInv'
    BY CourierNext
  <1> QED
    BY <1>1, <1>2, OrderInvariant, PTL DEF Spec

\* While nobody writes shifts, no courier ever holds more active orders than the
\* limit, however claims, assignments and moves interleave: reserveCourierSlot
\* counts while it holds the courier's row, and acceptOrder claims only couriers
\* who are AVAILABLE.
THEOREM CapacityStaysRespected ==
  ASSUME Ops \cap Shifts = {}
  PROVE  Spec => []CapacityRespected
  <1>1. CourierInv => CapacityRespected
    BY DEF CourierInv, CommittedInv
  <1> QED
    BY <1>1, CourierInvariant, PTL

\* While nobody writes shifts, a courier is suspended exactly when its account
\* is: suspend and activate write both in one transaction, conditionally.
THEOREM SuspensionStaysTrue ==
  ASSUME Ops \cap Shifts = {}
  PROVE  Spec => []SuspensionHolds
  <1>1. CourierInv => SuspensionHolds
    BY DEF CourierInv, CommittedInv
  <1> QED
    BY <1>1, CourierInvariant, PTL
-----------------------------------------------------------------------------
(* Couriers at work are on line, with the vehicle their orders need.       *)

IsOnLine(row) == row.status \in {"AVAILABLE", "BUSY"}

\* What a request at statement t knows of the vehicle of its courier: it was
\* read, and is still true unless the courier went off line; once the courier
\* is held it is certain.
VehicleKnown(t) ==
  /\ t.step = "claimCourier" /\ IsOnLine(courier[t.c].at) =>
       courier[t.c].at.vehicle = t.vehicle
  /\ t.step \in {"reserveScan", "reserve"} /\ IsOnLine(courier[t.c].at) =>
       courier[t.c].at.vehicle = VehicleOf[t.o]
  /\ t.step = "claimOrder" => courier[t.c].draft.vehicle = t.vehicle
  /\ t.step \in {"countActive", "move"} => courier[t.c].draft.vehicle = VehicleOf[t.o]
  /\ t.step \in {"countForSuspend", "setSuspended"} => "suspend" \in Ops

\* A courier about to be on line was, with the vehicle it has; one about to be
\* off line has nothing to do.
SteadyRow(row, load) ==
  /\ IsOnLine(row.draft) => IsOnLine(row.at) /\ row.draft.vehicle = row.at.vehicle
  /\ ~IsOnLine(row.draft) => load = {}

Steady == \A c \in Couriers : SteadyRow(courier[c], Load(c))

JoinsMatch ==
  \A o \in Orders, c \in Couriers : Joins(o, c) =>
    courier[c].draft.vehicle = VehicleOf[o]

\* Either a courier with an order has no room for another, or nobody suspends
\* couriers: otherwise a courier at work may be AVAILABLE, and be suspended on
\* a count that was taken before it was given an order.
SuspensionSafe == Limit = 1 \/ "suspend" \notin Ops

\* The inductive invariant, relative to OrderInv and CourierInv, while nobody
\* writes shifts and suspensions are safe.
OnLineInv ==
  /\ \A p \in Procs : VehicleKnown(tx[p])
  /\ Steady
  /\ JoinsMatch
  /\ WorkersOnLine
  /\ VehicleMatches

\* What a request knows stays true while others do not write its courier and
\* no courier comes on line or changes its vehicle.
LEMMA VehicleStaysKnown ==
  ASSUME NEW q \in Procs, RequestKnows(tx[q]), CourierKnows(q, tx[q]), VehicleKnown(tx[q]),
         tx'[q] = tx[q],
         \A c \in Couriers : courier[c].by = q => courier'[c] = courier[c],
         \A c \in Couriers : IsOnLine(courier'[c].at) =>
           IsOnLine(courier[c].at) /\ courier'[c].at.vehicle = courier[c].at.vehicle
  PROVE  VehicleKnown(tx[q])'
  <1>1. tx[q].step \in CourierSteps => tx[q].c \in Couriers
    BY DEF RequestKnows
  <1>2. tx[q].step \in ClaimSteps => courier[tx[q].c].by = q
    BY DEF CourierKnows
  <1>3. {"claimCourier", "reserveScan", "reserve", "claimOrder", "countActive", "move"}
          \subseteq CourierSteps
    BY DEF CourierSteps, DispatchSteps
  <1>4. {"claimOrder", "countActive", "move"} \subseteq ClaimSteps
    BY DEF ClaimSteps
  <1> QED
    BY <1>1, <1>2, <1>3, <1>4 DEF VehicleKnown

\* A step of p that commits nothing keeps the invariant.
LEMMA OnLineOpenStep ==
  ASSUME OrderInv, OrderInv', CourierInv, OnLineInv, NEW p \in Procs,
         \A q \in Procs \ {p} : tx'[q] = tx[q],
         \A o \in Orders : /\ order'[o].at = order[o].at
                          /\ \/ order'[o] = order[o]
                             \/ TouchedBy(p, order[o], order'[o]),
         \A c \in Couriers : /\ courier'[c].at = courier[c].at
                            /\ \/ courier'[c] = courier[c]
                               \/ /\ TouchedBy(p, courier[c], courier'[c])
                                  /\ SteadyRow(courier'[c], Load(c)),
         VehicleKnown(tx[p])',
         \A o \in Orders, c \in Couriers : order'[o].by = p /\ Joins(o, c)' =>
           courier'[c].draft.vehicle = VehicleOf[o]
  PROVE  OnLineInv'
  <1>1. \A c \in Couriers : Load(c)' = Load(c)
    BY CommittedKept
  <1>2. None \notin Procs
    BY NoneAssumption
  <1>3. ASSUME NEW q \in Procs PROVE VehicleKnown(tx[q])'
    <2>1. CASE q = p
      BY <2>1
    <2>2. CASE q # p
      <3>1. RequestKnows(tx[q]) /\ CourierKnows(q, tx[q]) /\ VehicleKnown(tx[q])
        BY DEF OrderInv, CourierInv, OnLineInv
      <3>2. \A c \in Couriers : courier[c].by = q => courier'[c] = courier[c]
        BY <1>2, <2>2 DEF TouchedBy
      <3> QED
        BY <2>2, <3>1, <3>2, VehicleStaysKnown
    <2> QED
      BY <2>1, <2>2
  <1>4. Steady'
    BY <1>1 DEF OnLineInv, Steady, SteadyRow
  <1>5. WorkersOnLine' /\ VehicleMatches'
    BY <1>1 DEF OnLineInv, WorkersOnLine, VehicleMatches
  <1>6. JoinsMatch'
    <2> SUFFICES ASSUME NEW o \in Orders, NEW c \in Couriers, Joins(o, c)'
                 PROVE  courier'[c].draft.vehicle = VehicleOf[o]
      BY DEF JoinsMatch
    <2>1. CASE order'[o].by = p
      BY <2>1
    <2>2. CASE order'[o].by # p
      <3>1. order'[o].by # None
        BY DEF OrderInv, DraftsAudited, Joins
      <3>2. order'[o] = order[o]
        BY <2>2, <3>1 DEF TouchedBy
      <3>3. Joins(o, c)
        BY <3>2 DEF Joins
      <3>4. courier[c].by = order[o].by /\ courier[c].draft.vehicle = VehicleOf[o]
        BY <3>3 DEF CourierInv, JoinsHeld, OnLineInv, JoinsMatch
      <3>5. courier'[c] = courier[c]
        BY <2>2, <3>1, <3>2, <3>4 DEF TouchedBy
      <3> QED
        BY <3>4, <3>5
    <2> QED
      BY <2>1, <2>2
  <1> QED
    BY <1>3, <1>4, <1>5, <1>6 DEF OnLineInv

LEMMA OnLineQuiet ==
  ASSUME OrderInv, OrderInv', CourierInv, OnLineInv, NEW p \in Procs,
         \A q \in Procs \ {p} : tx'[q] = tx[q], UNCHANGED <<order, courier>>,
         VehicleKnown(tx[p])'
  PROVE  OnLineInv'
  <1>1. \A o \in Orders, c \in Couriers : order'[o].by = p /\ Joins(o, c)' =>
          courier'[c].draft.vehicle = VehicleOf[o]
    BY DEF OnLineInv, JoinsMatch, Joins
  <1>2. /\ \A o \in Orders : order'[o] = order[o]
        /\ \A c \in Couriers : courier'[c] = courier[c]
    OBVIOUS
  <1> QED
    BY <1>1, <1>2, OnLineOpenStep

LEMMA OnLineRollback ==
  ASSUME OrderInv, OrderInv', CourierInv, OnLineInv, NEW p \in Procs, Rollback(p)
  PROVE  OnLineInv'
  <1>0. None \notin Procs /\ tx \in [Procs -> Request]
    BY NoneAssumption DEF OrderInv, TypeOK
  <1>1. /\ \A o \in Orders : order[o].by # p => order'[o] = order[o]
        /\ \A c \in Couriers : courier[c].by # p => courier'[c] = courier[c]
        /\ tx' = [tx EXCEPT ![p] = NoRequest]
    BY DEF Rollback, Undo
  <1>2. /\ \A o \in Orders : order[o].by = p =>
             /\ order'[o].at = order[o].at
             /\ order'[o].by = None
        /\ \A c \in Couriers : courier[c].by = p =>
             /\ courier'[c].at = courier[c].at
             /\ courier'[c].draft = courier[c].at
             /\ courier'[c].by = None
    BY DEF Rollback, Undo, Row
  <1>3. VehicleKnown(tx[p])'
    <2>1. tx'[p].step = "none"
      BY <1>0, <1>1 DEF NoRequest
    <2> QED
      BY <2>1 DEF VehicleKnown
  <1>4. \A c \in Couriers : courier[c].by = p => SteadyRow(courier'[c], Load(c))
    BY <1>2 DEF SteadyRow, OnLineInv, WorkersOnLine, IsOnLine
  <1>5. \A o \in Orders : order'[o].by # p
    BY <1>0, <1>1, <1>2
  <1>6. \A q \in Procs \ {p} : tx'[q] = tx[q]
    BY <1>0, <1>1
  <1>7. /\ \A o \in Orders : /\ order'[o].at = order[o].at
                             /\ \/ order'[o] = order[o]
                                \/ TouchedBy(p, order[o], order'[o])
        /\ \A c \in Couriers : /\ courier'[c].at = courier[c].at
                               /\ \/ courier'[c] = courier[c]
                                  \/ /\ TouchedBy(p, courier[c], courier'[c])
                                     /\ SteadyRow(courier'[c], Load(c))
    BY <1>1, <1>2, <1>4 DEF TouchedBy
  <1> QED
    BY <1>3, <1>5, <1>6, <1>7, OnLineOpenStep

LEMMA OnLineCommit ==
  ASSUME OrderInv, OrderInv', CourierInv, OnLineInv, NEW p \in Procs, Commit(p)
  PROVE  OnLineInv'
  <1>0. None \notin Procs /\ tx \in [Procs -> Request]
    BY NoneAssumption DEF OrderInv, TypeOK
  <1>1. /\ \A o \in Orders : order[o].by # p => order'[o] = order[o]
        /\ \A c \in Couriers : courier[c].by # p => courier'[c] = courier[c]
        /\ tx' = [tx EXCEPT ![p] = NoRequest]
    BY DEF Commit, Settle
  <1>2. /\ \A o \in Orders : order[o].by = p =>
             order'[o].at = order[o].draft /\ order'[o].draft = order[o].draft
        /\ \A c \in Couriers : courier[c].by = p =>
             /\ courier'[c].at = courier[c].draft
             /\ courier'[c].draft = courier[c].draft
             /\ courier'[c].by = None
    BY DEF Commit, Settle, Row
  <1>3. ASSUME NEW c \in Couriers, NEW o \in Load(c)'
        PROVE  o \in Load(c) \/ (courier[c].by = p /\ Joins(o, c))
    <2>1. o \in Orders /\ ActiveWith(order'[o].at, c)
      BY DEF Load, ActiveWith
    <2>2. CASE order[o].by # p
      BY <1>1, <2>1, <2>2 DEF Load, ActiveWith
    <2>3. CASE order[o].by = p
      <3>1. ActiveWith(order[o].draft, c)
        BY <1>2, <2>1, <2>3
      <3>2. Joins(o, c) \/ o \in Load(c)
        BY <2>1, <3>1 DEF Joins, Load, ActiveWith
      <3> QED
        BY <2>1, <2>3, <3>2 DEF CourierInv, JoinsHeld
    <2> QED
      BY <2>2, <2>3
  <1>4. ASSUME NEW c \in Couriers, NEW o \in Load(c)'
        PROVE  IsOnLine(courier'[c].at) /\ courier'[c].at.vehicle = VehicleOf[o]
    <2>1. o \in Orders
      BY DEF Load
    <2>2. CASE courier[c].by # p
      <3>1. o \in Load(c) /\ courier'[c] = courier[c]
        BY <1>1, <1>3, <1>4, <2>2
      <3> QED
        BY <3>1 DEF OnLineInv, WorkersOnLine, VehicleMatches, IsOnLine
    <2>3. CASE courier[c].by = p
      <3>1. CASE o \in Load(c)
        <4>1. IsOnLine(courier[c].draft) /\ courier[c].draft.vehicle = courier[c].at.vehicle
          BY <3>1 DEF OnLineInv, Steady, SteadyRow
        <4> QED
          BY <1>2, <2>3, <3>1, <4>1 DEF OnLineInv, VehicleMatches
      <3>2. CASE Joins(o, c)
        BY <1>2, <2>1, <2>3, <3>2 DEF OnLineInv, JoinsMatch, CourierInv, JoinsHeld, IsOnLine
      <3> QED
        BY <1>3, <1>4, <3>1, <3>2
    <2> QED
      BY <2>2, <2>3
  <1>5. WorkersOnLine' /\ VehicleMatches'
    BY <1>4 DEF WorkersOnLine, VehicleMatches, IsOnLine
  <1>6. ASSUME NEW c \in Couriers PROVE SteadyRow(courier'[c], Load(c)')
    <2>1. CASE courier[c].by = p
      BY <1>2, <1>4, <2>1 DEF SteadyRow
    <2>2. CASE courier[c].by # p
      BY <1>1, <1>3, <2>2 DEF SteadyRow, OnLineInv, Steady
    <2> QED
      BY <2>1, <2>2
  <1>7. JoinsMatch'
    <2> SUFFICES ASSUME NEW o \in Orders, NEW c \in Couriers, Joins(o, c)'
                 PROVE  courier'[c].draft.vehicle = VehicleOf[o]
      BY DEF JoinsMatch
    <2>1. order'[o] = order[o]
      BY <1>1, <1>2 DEF Joins
    <2>2. Joins(o, c)
      BY <2>1 DEF Joins
    <2>3. courier'[c].draft = courier[c].draft
      BY <1>1, <1>2
    <2> QED
      BY <2>2, <2>3 DEF OnLineInv, JoinsMatch
  <1>8. \A c \in Couriers : IsOnLine(courier'[c].at) =>
          IsOnLine(courier[c].at) /\ courier'[c].at.vehicle = courier[c].at.vehicle
    BY <1>1, <1>2 DEF OnLineInv, Steady, SteadyRow
  <1>9. ASSUME NEW q \in Procs PROVE VehicleKnown(tx[q])'
    <2>1. CASE q = p
      <3>1. tx'[q].step = "none"
        BY <1>0, <1>1, <2>1 DEF NoRequest
      <3> QED
        BY <3>1 DEF VehicleKnown
    <2>2. CASE q # p
      <3>1. RequestKnows(tx[q]) /\ CourierKnows(q, tx[q]) /\ VehicleKnown(tx[q])
            /\ tx'[q] = tx[q]
        BY <1>0, <1>1, <2>2 DEF OrderInv, CourierInv, OnLineInv
      <3>2. \A c \in Couriers : courier[c].by = q => courier'[c] = courier[c]
        BY <1>1, <2>2
      <3> QED
        BY <1>8, <3>1, <3>2, VehicleStaysKnown
    <2> QED
      BY <2>1, <2>2
  <1> QED
    BY <1>5, <1>6, <1>7, <1>9 DEF OnLineInv, Steady

\* Statements where a request knows nothing of a courier's vehicle.
FreeSteps == {"none", "readCourier", "releaseScan", "release", "countForVehicle", "setVehicle",
              "setActivated", "cancelOrder", "readPayment", "cancelPayment", "syncOrder",
              "payPayment", "commit"}

LEMMA FreeStepsKnow ==
  ASSUME NEW p \in Procs, tx'[p].step \in FreeSteps
  PROVE  VehicleKnown(tx[p])'
  BY DEF VehicleKnown, FreeSteps

\* It writes its order: the courier it gives the order to is its own.
LEMMA OnLineOrderWrite ==
  ASSUME OrderInv, OrderInv', CourierInv, CourierInv', OnLineInv, NEW p \in Procs,
         \A q \in Procs \ {p} : tx'[q] = tx[q], UNCHANGED courier,
         NEW o \in Orders, NEW new,
         Free(order[o], p), order' = [order EXCEPT ![o] = Put(@, p, new)],
         \A c \in Couriers : courier[c].by = p /\ Joins(o, c)' =>
           courier[c].draft.vehicle = VehicleOf[o],
         tx'[p].step \in FreeSteps
  PROVE  OnLineInv'
  <1>0. None \notin Procs /\ DOMAIN order = Orders
    BY NoneAssumption DEF OrderInv, TypeOK
  <1>1. /\ \A i \in Orders : i # o => order'[i] = order[i]
        /\ order'[o].at = order[o].at
        /\ order'[o].by = p
    BY <1>0 DEF Put
  <1>2. TouchedBy(p, order[o], order'[o])
    BY <1>0, <1>1 DEF TouchedBy, Free
  <1>3. \A i \in Orders, c \in Couriers : order'[i].by = p /\ Joins(i, c)' =>
          courier'[c].draft.vehicle = VehicleOf[i]
    <2> SUFFICES ASSUME NEW i \in Orders, NEW c \in Couriers, order'[i].by = p, Joins(i, c)'
                 PROVE  courier'[c].draft.vehicle = VehicleOf[i]
      OBVIOUS
    <2>1. courier[c].by = p
      BY DEF CourierInv, JoinsHeld
    <2>2. CASE i = o
      BY <2>1, <2>2
    <2>3. CASE i # o
      <3>1. Joins(i, c)
        BY <1>1, <2>3 DEF Joins
      <3> QED
        BY <3>1 DEF OnLineInv, JoinsMatch
    <2> QED
      BY <2>2, <2>3
  <1>4. VehicleKnown(tx[p])'
    BY FreeStepsKnow
  <1>5. \A i \in Orders : /\ order'[i].at = order[i].at
                          /\ order'[i] = order[i] \/ TouchedBy(p, order[i], order'[i])
    BY <1>1, <1>2
  <1> QED
    BY <1>3, <1>4, <1>5, OnLineOpenStep

\* It writes a courier.
LEMMA OnLineCourierWrite ==
  ASSUME OrderInv, OrderInv', CourierInv, OnLineInv, NEW p \in Procs,
         \A q \in Procs \ {p} : tx'[q] = tx[q], UNCHANGED order,
         NEW c \in Couriers, NEW new,
         Free(courier[c], p), courier' = [courier EXCEPT ![c] = Put(@, p, new)],
         IF IsOnLine(new)
           THEN IsOnLine(courier[c].at) /\ new.vehicle = courier[c].at.vehicle
           ELSE Load(c) = {},
         \A o \in Orders : order[o].by = p => ~Joins(o, c),
         VehicleKnown(tx[p])'
  PROVE  OnLineInv'
  <1>0. None \notin Procs /\ DOMAIN courier = Couriers
    BY NoneAssumption DEF OrderInv, TypeOK
  <1>1. /\ \A d \in Couriers : d # c => courier'[d] = courier[d]
        /\ courier'[c].at = courier[c].at
        /\ courier'[c].by = p /\ courier'[c].draft = new
    BY <1>0 DEF Put
  <1>2. TouchedBy(p, courier[c], courier'[c]) /\ SteadyRow(courier'[c], Load(c))
    BY <1>0, <1>1 DEF TouchedBy, SteadyRow, Free
  <1>3. \A o \in Orders, d \in Couriers : order'[o].by = p /\ Joins(o, d)' =>
          courier'[d].draft.vehicle = VehicleOf[o]
    BY <1>1 DEF OnLineInv, JoinsMatch, Joins
  <1> QED
    BY <1>1, <1>2, <1>3, OnLineOpenStep

\* Requests that arrive.
LEMMA OnLineBegin ==
  ASSUME OrderInv, OrderInv', CourierInv, OnLineInv, NEW p \in Procs, NEW r, Begin(p, r),
         UNCHANGED <<order, courier>>, VehicleKnown(r)
  PROVE  OnLineInv'
  <1>1. tx \in [Procs -> Request] /\ tx' = [tx EXCEPT ![p] = r]
    BY DEF OrderInv, TypeOK, Begin
  <1>2. tx'[p] = r /\ \A q \in Procs \ {p} : tx'[q] = tx[q]
    BY <1>1
  <1>3. VehicleKnown(tx[p])'
    BY <1>2 DEF VehicleKnown
  <1> QED
    BY <1>2, <1>3, OnLineQuiet

LEMMA OnLineArrive ==
  ASSUME OrderInv, OrderInv', CourierInv, CourierInv', OnLineInv, Ops \cap Shifts = {},
         NEW p \in Procs, Arrive(p)
  PROVE  OnLineInv'
  <1>1. ASSUME NEW r, Begin(p, r), UNCHANGED <<order, courier>>, r.step \in FreeSteps
        PROVE  OnLineInv'
    <2>1. VehicleKnown(r)
      BY <1>1 DEF VehicleKnown, FreeSteps
    <2> QED
      BY <1>1, <2>1, OnLineBegin
  <1>2. ASSUME NEW o \in Orders, NEW c \in Couriers, ReadForAccept(p, c, o)
        PROVE  OnLineInv'
    <2> DEFINE r == [NoRequest EXCEPT !.op = "accept", !.step = "claimCourier", !.o = o,
                                      !.c = c, !.vehicle = courier[c].at.vehicle]
    <2>1. Begin(p, r) /\ UNCHANGED <<order, courier>>
      BY <1>2 DEF ReadForAccept
    <2>2. r.step = "claimCourier" /\ r.c = c /\ r.vehicle = courier[c].at.vehicle
      BY DEF NoRequest
    <2> HIDE DEF r
    <2>3. VehicleKnown(r)
      BY <2>2 DEF VehicleKnown
    <2> QED
      BY <2>1, <2>3, OnLineBegin
  <1>3. ASSUME NEW c \in Couriers, ReadForSuspend(p, c)
        PROVE  OnLineInv'
    <2> DEFINE r == [NoRequest EXCEPT !.op = "suspend", !.step = "countForSuspend", !.c = c]
    <2>1. Begin(p, r) /\ UNCHANGED <<order, courier>>
      BY <1>3 DEF ReadForSuspend
    <2>2. r.step = "countForSuspend" /\ "suspend" \in Ops
      BY <2>1 DEF NoRequest, Begin
    <2> HIDE DEF r
    <2>3. VehicleKnown(r)
      BY <2>2 DEF VehicleKnown
    <2> QED
      BY <2>1, <2>3, OnLineBegin
  <1>4. ASSUME NEW o \in Orders, NEW c \in Couriers,
               AssignRead(p, o, c) \/ ReassignRead(p, o, c) \/ WooAssignRead(p, o, c)
        PROVE  OnLineInv'
    <2>1. PICK r : Begin(p, r) /\ r.step = "readCourier" /\ UNCHANGED <<order, courier>>
      BY <1>4 DEF AssignRead, ReassignRead, WooAssignRead, BeginDispatch, NoRequest
    <2> QED
      BY <1>1, <2>1 DEF FreeSteps
  <1>5. ASSUME NEW o \in Orders, SyncRead(p, o) \/ ReadForCancel(p, o) \/ ReadForPaid(p, o)
        PROVE  OnLineInv'
    <2>1. PICK r : Begin(p, r) /\ r.step \in {"syncOrder", "cancelOrder", "payPayment"}
                   /\ UNCHANGED <<order, courier>>
      BY <1>5 DEF SyncRead, ReadForCancel, ReadForPaid, NoRequest
    <2> QED
      BY <1>1, <2>1 DEF FreeSteps
  <1>6. ASSUME NEW c \in Couriers,
               (\E v \in Vehicles : ReadForVehicle(p, c, v)) \/ ReadForActivate(p, c)
        PROVE  OnLineInv'
    <2>1. PICK r : Begin(p, r) /\ r.step \in {"countForVehicle", "setActivated"}
                   /\ UNCHANGED <<order, courier>>
      BY <1>6 DEF ReadForVehicle, ReadForActivate, NoRequest
    <2> QED
      BY <1>1, <2>1 DEF FreeSteps
  <1>7. \A c \in Couriers, op \in {"goOnline", "goOffline"} : ~ReadAvailability(p, c, op)
    BY DEF ReadAvailability, Begin, Shifts, NoRequest
  <1>8. ASSUME NEW o \in Orders, NEW c \in Couriers,
               \/ RejectOrder(p, c, o) \/ PickUpOrder(p, c, o) \/ DeliverOrder(p, c, o)
        PROVE  OnLineInv'
    <2>1. PICK new : /\ Free(order[o], p)
                     /\ order' = [order EXCEPT ![o] = Put(@, p, new)]
                     /\ UNCHANGED courier
                     /\ \A q \in Procs \ {p} : tx'[q] = tx[q]
                     /\ tx[p].step = "none"
                     /\ tx'[p].step \in {"commit", "releaseScan"}
      BY <1>8, OwnOrderWritten
    <2>2. "none" \notin LockingSteps
      BY DEF LockingSteps, ClaimSteps, ReleaseSteps
    <2>3. \A d \in Couriers : courier[d].by # p
      BY <2>1, <2>2, HoldsNone
    <2>4. tx'[p].step \in FreeSteps
      BY <2>1 DEF FreeSteps
    <2> QED
      BY <2>1, <2>3, <2>4, OnLineOrderWrite
  <1> QED
    BY <1>2, <1>3, <1>4, <1>5, <1>6, <1>7, <1>8 DEF Arrive

\* Statements that read, or write a payment.
LEMMA OnLineReads ==
  ASSUME OrderInv, OrderInv', CourierInv, OnLineInv, NEW p \in Procs,
         \/ ReadTargetCourier(p) \/ ReserveScan(p) \/ CountActive(p)
         \/ CountForVehicle(p) \/ CountForSuspend(p)
         \/ ReadPaymentForCancel(p) \/ CancelPayment(p) \/ PayPayment(p)
  PROVE  OnLineInv'
  <1>1. ASSUME NEW s, GoTo(p, s), UNCHANGED <<order, courier>>,
               \/ s \in FreeSteps
               \/ /\ s = "reserveScan"
                  /\ courier[tx[p].c].at.vehicle = VehicleOf[tx[p].o]
               \/ s = "reserve" /\ tx[p].step = "reserveScan"
               \/ s = "move" /\ tx[p].step = "countActive"
               \/ s = "setSuspended" /\ tx[p].step = "countForSuspend"
        PROVE  OnLineInv'
    <2>1. /\ \A q \in Procs \ {p} : tx'[q] = tx[q]
          /\ tx'[p].step = s /\ tx'[p].o = tx[p].o /\ tx'[p].c = tx[p].c
      BY <1>1, GoneTo
    <2>2. VehicleKnown(tx[p])
      BY DEF OnLineInv
    <2>3. VehicleKnown(tx[p])'
      BY <1>1, <2>1, <2>2 DEF VehicleKnown, FreeSteps
    <2> QED
      BY <1>1, <2>1, <2>3, OnLineQuiet
  <1>2. CASE Rollback(p)
    BY <1>2, OnLineRollback
  <1>3. ASSUME NEW status, WritePayment(p, status, "PENDING")
        PROVE  OnLineInv'
    <2>1. UNCHANGED <<order, courier>>
      BY <1>3 DEF WritePayment
    <2>2. /\ \A q \in Procs \ {p} : tx'[q] = tx[q]
          /\ tx'[p].step = "commit"
      BY <1>3 DEF WritePayment, OrderInv, TypeOK, Request
    <2>3. VehicleKnown(tx[p])'
      BY <2>2, FreeStepsKnow DEF FreeSteps
    <2> QED
      BY <2>1, <2>2, <2>3, OnLineQuiet
  <1>4. CASE ReadTargetCourier(p)
    BY <1>1, <1>2, <1>4 DEF ReadTargetCourier, Check
  <1>5. CASE ReserveScan(p)
    BY <1>1, <1>2, <1>5 DEF ReserveScan, Check, At
  <1>6. CASE CountActive(p)
    BY <1>1, <1>2, <1>6 DEF CountActive, Check, At
  <1>7. CASE CountForVehicle(p)
    BY <1>1, <1>2, <1>7 DEF CountForVehicle, Check, FreeSteps
  <1>8. CASE CountForSuspend(p)
    BY <1>1, <1>2, <1>8 DEF CountForSuspend, Check, At
  <1>9. CASE ReadPaymentForCancel(p)
    BY <1>1, <1>9 DEF ReadPaymentForCancel, FreeSteps
  <1>10. CASE CancelPayment(p)
    BY <1>3, <1>10 DEF CancelPayment
  <1>11. CASE PayPayment(p)
    BY <1>2, <1>3, <1>11 DEF PayPayment
  <1> QED
    BY <1>4, <1>5, <1>6, <1>7, <1>8, <1>9, <1>10, <1>11

\* Statements that write the order.
LEMMA OnLineOrderStatements ==
  ASSUME OrderInv, OrderInv', CourierInv, CourierInv', OnLineInv, NEW p \in Procs,
         \/ ClaimOrder(p) \/ AssignMove(p) \/ ReassignMove(p) \/ WooAssignMove(p)
         \/ SyncOrder(p) \/ CancelOrder(p)
  PROVE  OnLineInv'
  <1> DEFINE given == [status |-> "ASSIGNED", courier |-> tx[p].c]
  <1>0. /\ \A d : ActiveWith(given, d) => d = tx[p].c
        /\ \A row \in OrderRow, t \in Terminal : \A d : ~ActiveWith([row EXCEPT !.status = t], d)
    BY DEF ActiveWith, Active, Terminal, OrderRow
  <1>1. ASSUME NEW matches, NEW new, NEW e, NEW s \in {"commit", "releaseScan", "readPayment"},
               UpdateOrder(p, matches, new, e, s), tx[p].o \in Orders,
               matches => \A c \in Couriers : ActiveWith(new, c) =>
                 courier[c].draft.vehicle = VehicleOf[tx[p].o]
        PROVE  OnLineInv'
    <2>1. CASE Rollback(p)
      BY <2>1, OnLineRollback
    <2>2. CASE /\ matches
               /\ Free(order[tx[p].o], p)
               /\ order' = [order EXCEPT ![tx[p].o] = Put(@, p, new)]
               /\ tx' = [tx EXCEPT ![p].step = s, ![p].event = e]
               /\ UNCHANGED <<courier, payment, trail, payTrail>>
      <3>1. PICK o \in Orders : o = tx[p].o
        BY <1>1
      <3>2. /\ Free(order[o], p)
            /\ order' = [order EXCEPT ![o] = Put(@, p, new)]
            /\ UNCHANGED courier
        BY <2>2, <3>1
      <3>3. /\ \A q \in Procs \ {p} : tx'[q] = tx[q]
            /\ tx'[p].step = s
        BY <2>2 DEF OrderInv, TypeOK, Request
      <3>4. order'[o].draft = new
        BY <3>2 DEF OrderInv, TypeOK, Put
      <3>5. \A c \in Couriers : courier[c].by = p /\ Joins(o, c)' =>
              courier[c].draft.vehicle = VehicleOf[o]
        BY <1>1, <2>2, <3>1, <3>4 DEF Joins
      <3>6. tx'[p].step \in FreeSteps
        BY <1>1, <3>3 DEF FreeSteps
      <3>7. \A q \in Procs \ {p} : tx'[q] = tx[q]
        BY <3>3
      <3> QED
        BY <3>2, <3>5, <3>6, <3>7, OnLineOrderWrite
    <2> QED
      BY <1>1, <2>1, <2>2 DEF UpdateOrder
  <1>2. ASSUME tx[p].step \in {"claimOrder", "move"}
        PROVE  tx[p].o \in Orders /\ tx[p].c \in Couriers
    BY <1>2, RequestFields DEF RequestKnows, CourierSteps, OrderSteps, DispatchSteps
  <1>3. ASSUME NEW op, NEW s \in {"commit", "releaseScan"}, MoveOrder(p, op, s)
        PROVE  OnLineInv'
    <2>1. PICK matches, e : UpdateOrder(p, matches, given, e, s) /\ tx[p].step = "move"
      BY <1>3 DEF MoveOrder, At
    <2>2. courier[tx[p].c].draft.vehicle = VehicleOf[tx[p].o]
      BY <2>1 DEF OnLineInv, VehicleKnown
    <2> HIDE DEF given
    <2>3. s \in {"commit", "releaseScan", "readPayment"} /\ tx[p].o \in Orders
      BY <1>2, <1>3, <2>1
    <2>4. \A c \in Couriers : ActiveWith(given, c) => courier[c].draft.vehicle = VehicleOf[tx[p].o]
      BY <1>0, <2>2
    <2> QED
      BY <1>1, <2>1, <2>3, <2>4
  <1>4. CASE AssignMove(p)
    BY <1>3, <1>4 DEF AssignMove
  <1>5. CASE ReassignMove(p)
    BY <1>3, <1>5 DEF ReassignMove
  <1>6. CASE WooAssignMove(p)
    BY <1>3, <1>6 DEF WooAssignMove
  <1>7. CASE ClaimOrder(p)
    <2>1. PICK matches, e : /\ UpdateOrder(p, matches, given, e, "commit")
                            /\ matches => VehicleOf[tx[p].o] = tx[p].vehicle
                            /\ tx[p].step = "claimOrder"
      BY <1>7 DEF ClaimOrder, At
    <2>2. courier[tx[p].c].draft.vehicle = tx[p].vehicle
      BY <2>1 DEF OnLineInv, VehicleKnown
    <2> HIDE DEF given
    <2> QED
      BY <1>0, <1>1, <1>2, <2>1, <2>2
  <1>8. ASSUME NEW t \in Terminal, NEW s \in {"commit", "readPayment"},
               tx[p].step \in {"syncOrder", "cancelOrder"},
               UpdateOrder(p, Seen(order[tx[p].o], p).status = "REQUESTED",
                           [Seen(order[tx[p].o], p) EXCEPT !.status = t],
                           Event("REQUESTED", t), s)
        PROVE  OnLineInv'
    <2>1. tx[p].o \in Orders
      BY <1>8, RequestFields DEF RequestKnows, OrderSteps
    <2>2. Seen(order[tx[p].o], p) \in OrderRow
      BY <2>1, RowsClosed DEF OrderInv, TypeOK, Seen, Rows
    <2>3. PICK new : /\ new = [Seen(order[tx[p].o], p) EXCEPT !.status = t]
                     /\ \A d : ~ActiveWith(new, d)
      BY <1>0, <2>2
    <2>4. PICK matches : matches = (Seen(order[tx[p].o], p).status = "REQUESTED")
      OBVIOUS
    <2>5. UpdateOrder(p, matches, new, Event("REQUESTED", t), s)
      BY <1>8, <2>3, <2>4
    <2> QED
      BY <1>1, <1>8, <2>1, <2>3, <2>5
  <1>9. CASE SyncOrder(p)
    BY <1>8, <1>9 DEF SyncOrder, At, Terminal
  <1>10. CASE CancelOrder(p)
    BY <1>8, <1>10 DEF CancelOrder, At, Terminal
  <1> QED
    BY <1>4, <1>5, <1>6, <1>7, <1>9, <1>10

\* Statements that write a courier.
LEMMA OnLineStatements ==
  ASSUME OrderInv, OrderInv', CourierInv, OnLineInv, SuspensionSafe, NEW p \in Procs,
         \/ ClaimCourier(p) \/ Reserve(p)
         \/ SetVehicle(p) \/ SetSuspended(p) \/ SetActivated(p)
  PROVE  OnLineInv'
  <1>1. /\ tx[p].c \in Couriers /\ tx[p].event = None
        /\ tx[p].step \notin LockingSteps
    BY RequestFields DEF Reserve, ClaimCourier, SetVehicle, SetSuspended,
          SetActivated, At, RequestKnows, CourierSteps, DispatchSteps, UnwrittenSteps,
          LockingSteps, ClaimSteps, ReleaseSteps
  <1>2. PICK c \in Couriers : c = tx[p].c
    BY <1>1
  <1>3. courier[c].by # p
    BY <1>1, HoldsNone
  <1>4. PICK row \in CourierRow : row = courier[c].at
    BY DEF OrderInv, TypeOK, Rows
  <1>5. Seen(courier[c], p) = row
    BY <1>3, <1>4 DEF Seen
  <1>6. VehicleKnown(tx[p]) /\ (~IsOnLine(row) => Load(c) = {})
    BY <1>4 DEF OnLineInv, WorkersOnLine, IsOnLine
  <1>7. ASSUME NEW matches, NEW new, NEW s, UpdateCourier(p, matches, new, s),
               matches => /\ IF IsOnLine(new)
                               THEN IsOnLine(row) /\ new.vehicle = row.vehicle
                               ELSE Load(c) = {}
                          /\ \/ s = "commit"
                             \/ s = "claimOrder" /\ new.vehicle = tx[p].vehicle
                             \/ s = "countActive" /\ new.vehicle = VehicleOf[tx[p].o]
        PROVE  OnLineInv'
    <2>1. CASE Rollback(p)
      BY <2>1, OnLineRollback
    <2>2. CASE /\ matches
               /\ Free(courier[c], p)
               /\ courier' = [courier EXCEPT ![c] = Put(@, p, new)]
               /\ GoTo(p, s)
               /\ UNCHANGED <<order, payment, trail, payTrail>>
      <3>1. /\ \A q \in Procs \ {p} : tx'[q] = tx[q]
            /\ tx'[p].step = s /\ tx'[p].o = tx[p].o /\ tx'[p].c = c
            /\ tx'[p].vehicle = tx[p].vehicle
        BY <1>2, <2>2, GoneTo
      <3>2. courier'[c].draft = new
        BY <2>2 DEF OrderInv, TypeOK, Put
      <3>3. VehicleKnown(tx[p])'
        BY <1>7, <2>2, <3>1, <3>2 DEF VehicleKnown
      <3>4. \A o \in Orders : order[o].by = p => ~Joins(o, c)
        BY <1>1, OneOrderPerRequest
      <3>5. UNCHANGED order /\ \A q \in Procs \ {p} : tx'[q] = tx[q]
        BY <2>2, <3>1
      <3>6. IF IsOnLine(new)
              THEN IsOnLine(courier[c].at) /\ new.vehicle = courier[c].at.vehicle
              ELSE Load(c) = {}
        BY <1>4, <1>7, <2>2
      <3> QED
        BY <2>2, <3>3, <3>4, <3>5, <3>6, OnLineCourierWrite
    <2> QED
      BY <1>2, <1>7, <2>1, <2>2 DEF UpdateCourier
  <1>8. /\ \A s : /\ [row EXCEPT !.status = s].status = s
                  /\ [row EXCEPT !.status = s].vehicle = row.vehicle
        /\ \A v : [row EXCEPT !.vehicle = v].status = row.status
        /\ \A s, a : [row EXCEPT !.status = s, !.account = a].status = s
    BY DEF CourierRow
  <1>9. CASE ClaimCourier(p)
    <2> DEFINE new == [row EXCEPT !.status = "BUSY"]
    <2>1. UpdateCourier(p, row.status = "AVAILABLE", new, "claimOrder") /\ tx[p].step = "claimCourier"
      BY <1>2, <1>5, <1>9 DEF ClaimCourier, At
    <2>2. row.status = "AVAILABLE" => IsOnLine(row) /\ row.vehicle = tx[p].vehicle
      BY <1>2, <1>4, <1>6, <2>1 DEF VehicleKnown, IsOnLine
    <2>3. IsOnLine(new) /\ new.vehicle = row.vehicle
      BY <1>8 DEF IsOnLine
    <2> HIDE DEF new
    <2> QED
      BY <1>7, <2>1, <2>2, <2>3
  <1>10. CASE Reserve(p)
    <2> DEFINE new == [row EXCEPT !.status = "BUSY"]
    <2>1. UpdateCourier(p, row.status \in {"AVAILABLE", "BUSY"}, new, "countActive") /\ tx[p].step = "reserve"
      BY <1>2, <1>5, <1>10 DEF Reserve, At
    <2>2. row.status \in {"AVAILABLE", "BUSY"} => IsOnLine(row) /\ row.vehicle = VehicleOf[tx[p].o]
      BY <1>2, <1>4, <1>6, <2>1 DEF VehicleKnown, IsOnLine
    <2>3. IsOnLine(new) /\ new.vehicle = row.vehicle
      BY <1>8 DEF IsOnLine
    <2> HIDE DEF new
    <2> QED
      BY <1>7, <2>1, <2>2, <2>3
  <1>11. CASE SetVehicle(p)
    <2>1. UpdateCourier(p, row.status \in {"OFFLINE", "SUSPENDED"},
                        [row EXCEPT !.vehicle = tx[p].vehicle], "commit")
      BY <1>2, <1>5, <1>11 DEF SetVehicle
    <2>2. row.status \in {"OFFLINE", "SUSPENDED"} =>
            Load(c) = {} /\ ~IsOnLine([row EXCEPT !.vehicle = tx[p].vehicle])
      BY <1>6, <1>8 DEF IsOnLine
    <2> QED
      BY <1>7, <2>1, <2>2
  <1>12. CASE SetSuspended(p)
    <2> DEFINE new == [row EXCEPT !.status = "SUSPENDED", !.account = "SUSPENDED"]
    <2>1. /\ UpdateCourier(p, row.status \in {"OFFLINE", "AVAILABLE"}, new, "commit")
          /\ tx[p].step = "setSuspended"
      BY <1>2, <1>5, <1>12 DEF SetSuspended, At
    <2>2. ~IsOnLine(new)
      BY <1>8 DEF IsOnLine
    <2> HIDE DEF new
    <2>3. "suspend" \in Ops
      BY <1>6, <2>1 DEF VehicleKnown
    <2>4. row.status = "AVAILABLE" => Load(c) = {}
      <3>1. SUFFICES ASSUME row.status = "AVAILABLE" PROVE Load(c) = {}
        OBVIOUS
      <3>2. Cardinality(Load(c)) < 1
        BY <1>4, <2>3, <3>1 DEF SuspensionSafe, CourierInv, CommittedInv, AvailableHasRoom, Room
      <3> QED
        BY <3>2, LoadsFinite, FS_EmptySet
    <2>5. row.status = "OFFLINE" => Load(c) = {}
      BY <1>6 DEF IsOnLine
    <2> QED
      BY <1>7, <2>1, <2>2, <2>4, <2>5
  <1>13. CASE SetActivated(p)
    <2> DEFINE new == [row EXCEPT !.status = "OFFLINE", !.account = "ACTIVE"]
    <2>1. UpdateCourier(p, row.status = "SUSPENDED", new, "commit")
      BY <1>2, <1>5, <1>13 DEF SetActivated
    <2>2. ~IsOnLine(new) /\ (row.status = "SUSPENDED" => Load(c) = {})
      BY <1>6, <1>8 DEF IsOnLine
    <2> HIDE DEF new
    <2> QED
      BY <1>7, <2>1, <2>2
  <1> QED
    BY <1>9, <1>10, <1>11, <1>12, <1>13

LEMMA OnLineRelease ==
  ASSUME OrderInv, OrderInv', CourierInv, OnLineInv, NEW p \in Procs,
         ReleaseScan(p) \/ Release(p)
  PROVE  OnLineInv'
  <1>0. PICK o : o = tx[p].o
    OBVIOUS
  <1>1. tx[p].step \in ReleaseSteps /\ tx[p].rel \in Couriers
    BY RequestFields DEF ReleaseScan, Release, At, RequestKnows, ReleaseSteps
  <1>2. PICK c \in Couriers : o = tx[p].o /\ c = tx[p].rel
    BY <1>0, <1>1
  <1>3. TakesFrom(p, o, c)
    BY <1>1, <1>2 DEF CourierInv, CourierKnows
  <1>4. PICK s \in {"release", "commit"} : GoTo(p, s) /\ UNCHANGED order
    BY DEF ReleaseScan, Release
  <1>5. \A q \in Procs \ {p} : tx'[q] = tx[q]
    BY <1>4, GoneTo
  <1>6. VehicleKnown(tx[p])'
    <2>1. tx'[p].step \in FreeSteps
      BY <1>4, GoneTo DEF FreeSteps
    <2> QED
      BY <2>1, FreeStepsKnow
  <1>7. CASE UNCHANGED courier
    BY <1>4, <1>5, <1>6, <1>7, OnLineQuiet
  <1>8. CASE ~UNCHANGED courier
    <2> DEFINE new == [Seen(courier[c], p) EXCEPT !.status = "AVAILABLE"]
    <2>1. /\ Seen(courier[c], p).status = "BUSY"
          /\ Free(courier[c], p)
          /\ courier' = [courier EXCEPT ![c] = Put(@, p, new)]
      BY <1>2, <1>8 DEF ReleaseScan, Release
    <2>2. Seen(courier[c], p) \in CourierRow
      BY RowsClosed DEF OrderInv, TypeOK, Seen, Rows
    <2>3. new.status = "AVAILABLE" /\ new.vehicle = Seen(courier[c], p).vehicle
      BY <2>2 DEF CourierRow
    <2> HIDE DEF new
    <2>4. IsOnLine(courier[c].at) /\ Seen(courier[c], p).vehicle = courier[c].at.vehicle
      BY <2>1 DEF Seen, OnLineInv, Steady, SteadyRow, IsOnLine
    <2>5. \A i \in Orders : order[i].by = p => ~Joins(i, c)
      BY <1>3, OneOrderPerRequest DEF TakesFrom, Joins, Leaves
    <2>6. IsOnLine(new) /\ new.vehicle = courier[c].at.vehicle
      BY <2>3, <2>4 DEF IsOnLine
    <2>7. UNCHANGED order
      BY <1>4
    <2> QED
      BY <1>5, <1>6, <2>1, <2>4, <2>5, <2>6, <2>7, OnLineCourierWrite
  <1> QED
    BY <1>7, <1>8

LEMMA OnLineInit == Init => OnLineInv
  <1> SUFFICES ASSUME Init PROVE OnLineInv
    OBVIOUS
  <1>1. \A o \in Orders : \A c : ~ActiveWith(order[o].at, c) /\ ~ActiveWith(order[o].draft, c)
    BY DEF Init, Row, ActiveWith, Active
  <1>2. \A c \in Couriers : Load(c) = {}
    BY <1>1 DEF Load, ActiveWith
  <1>3. \A c \in Couriers : courier[c].draft = courier[c].at
    BY DEF Init, Row
  <1>4. \A p \in Procs : tx[p].step = "none"
    BY DEF Init, NoRequest
  <1> QED
    BY <1>1, <1>2, <1>3, <1>4 DEF OnLineInv, VehicleKnown, Steady, SteadyRow, JoinsMatch, Joins,
       WorkersOnLine, VehicleMatches

LEMMA OnLineNext ==
  ASSUME OrderInv, CourierInv, OnLineInv, Ops \cap Shifts = {}, SuspensionSafe, [Next]_vars
  PROVE  OnLineInv'
  <1>0. OrderInv' /\ CourierInv'
    BY NextStep, StutterStep, CourierNext
  <1>1. CASE UNCHANGED vars
    <2>1. UNCHANGED <<order, courier, tx>>
      BY <1>1 DEF vars
    <2>2. \A p \in Procs : VehicleKnown(tx[p])'
      BY <2>1 DEF OnLineInv, VehicleKnown
    <2> QED
      BY <2>1, <2>2 DEF OnLineInv, Steady, JoinsMatch, Joins, WorkersOnLine, VehicleMatches, Load
  <1>2. CASE Next
    <2> PICK p \in Procs : Arrive(p) \/ Continue(p) \/ Abort(p)
      BY <1>2 DEF Next
    <2>1. CASE Arrive(p)
      BY <1>0, <2>1, OnLineArrive
    <2>2. CASE Abort(p)
      BY <1>0, <2>2, OnLineRollback DEF Abort
    <2>3. CASE Continue(p)
      <3>1. ~SetAvailability(p)
        BY DEF SetAvailability, At, CourierInv, CourierKnows
      <3> QED
        BY <1>0, <2>3, <3>1, OnLineReads, OnLineStatements, OnLineOrderStatements,
           OnLineRelease, OnLineCommit DEF Continue
    <2> QED
      BY <2>1, <2>2, <2>3
  <1> QED
    BY <1>1, <1>2

\* Couriers come on line and change their vehicle only while no order is or is
\* about to be theirs; who claims or assigns an order has read the vehicle it
\* goes with, and what it read is still true when the order is written.
THEOREM OnLineInvariant ==
  ASSUME Ops \cap Shifts = {}, SuspensionSafe
  PROVE  Spec => []OnLineInv
  <1>1. Init => OnLineInv
    BY OnLineInit
  <1>2. OrderInv /\ CourierInv /\ OnLineInv /\ [Next]_vars => OnLineInv'
    BY OnLineNext
  <1> QED
    BY <1>1, <1>2, OrderInvariant, CourierInvariant, PTL DEF Spec

\* A courier with an active order is on line, whatever claim, assignment,
\* hand-back or change of vehicle comes first, while nobody writes shifts; and
\* whatever suspension, if the limit is one.
THEOREM WorkersStayOnLine ==
  ASSUME Ops \cap Shifts = {}, SuspensionSafe
  PROVE  Spec => []WorkersOnLine
  <1>1. OnLineInv => WorkersOnLine
    BY DEF OnLineInv
  <1> QED
    BY <1>1, OnLineInvariant, PTL

\* Under the same conditions, whoever carries an order has the vehicle the order
\* was priced for: the vehicle of a courier on line never changes.
THEOREM VehiclesStayMatched ==
  ASSUME Ops \cap Shifts = {}, SuspensionSafe
  PROVE  Spec => []VehicleMatches
  <1>1. OnLineInv => VehicleMatches
    BY DEF OnLineInv
  <1> QED
    BY <1>1, OnLineInvariant, PTL
-----------------------------------------------------------------------------
(* One request at a time: a courier is BUSY exactly while it works.        *)

\* The active orders of a courier, with what is not committed yet.
DraftLoad(c) == {o \in Orders : ActiveWith(order[o].draft, c)}

Balanced(c) == courier[c].draft.status = "BUSY" <=> DraftLoad(c) # {}

\* The courier that is to be given an order, or to be looked at after one was
\* taken from it, when request t comes to it.
Exposed(t, c) ==
  \/ t.step \in ClaimSteps /\ c = t.c
  \/ t.step \in ReleaseSteps /\ c = t.rel

\* What the only request knows at statement t.
SerialKnows(p, t) ==
  /\ \A c \in Couriers :
       IF Exposed(t, c) THEN courier[c].draft.status = "BUSY" ELSE Balanced(c)
  /\ t.step = "release" => DraftLoad(t.rel) = {}
  /\ t.step = "setAvailability" =>
       t.c \in Couriers /\ courier[t.c].draft.status \in {"OFFLINE", "AVAILABLE"}
  /\ t.step \in DispatchSteps /\ t.op = "assign" => t.seen = Life!Open
  /\ t.step \notin LockingSteps => \A c \in Couriers : courier[c].by # p

\* The inductive invariant, relative to OrderInv, while requests come one at a
\* time.
SerialInv ==
  /\ \A p \in Procs : SerialKnows(p, tx[p])
  /\ \A c \in Couriers : courier[c].by = None => courier[c].draft = courier[c].at
  /\ WorkingIsBusy
  /\ BusyIsWorking

\* The only request sees whatever is written.
LEMMA SerialSees ==
  ASSUME OneAtATime, OrderInv, SerialInv, NEW p \in Procs
  PROVE  /\ \A o \in Orders : order[o].by \in {p, None} /\ Seen(order[o], p) = order[o].draft
         /\ \A c \in Couriers : courier[c].by \in {p, None} /\ Seen(courier[c], p) = courier[c].draft
  <1>1. /\ \A o \in Orders : order[o].by \in {p, None}
        /\ \A c \in Couriers : courier[c].by \in {p, None}
    BY DEF OneAtATime, OrderInv, TypeOK, Rows
  <1> QED
    BY <1>1 DEF OrderInv, DraftsAudited, SerialInv, Seen

\* A step that commits nothing keeps the invariant if the request knows
\* afterwards what it should.
LEMMA SerialOpenStep ==
  ASSUME OneAtATime, SerialInv, NEW p \in Procs,
         \A o \in Orders : order'[o].at = order[o].at,
         \A c \in Couriers : /\ courier'[c].at = courier[c].at
                            /\ \/ courier'[c] = courier[c]
                               \/ courier'[c].by = p
                               \/ courier'[c].draft = courier[c].at,
         SerialKnows(p, tx[p])'
  PROVE  SerialInv'
  <1>1. \A c \in Couriers : Load(c)' = Load(c)
    BY CommittedKept
  <1>2. None \notin Procs
    BY NoneAssumption
  <1>3. \A q \in Procs : SerialKnows(q, tx[q])'
    BY DEF OneAtATime
  <1>4. \A c \in Couriers : courier'[c].by = None => courier'[c].draft = courier'[c].at
    BY <1>2 DEF SerialInv
  <1>5. WorkingIsBusy' /\ BusyIsWorking'
    BY <1>1 DEF SerialInv, WorkingIsBusy, BusyIsWorking
  <1> QED
    BY <1>3, <1>4, <1>5 DEF SerialInv

\* What it is to know nothing in particular.
LEMMA SerialKnowsNothing ==
  ASSUME NEW p \in Procs, \A c \in Couriers : Balanced(c)',
         tx'[p].step \notin ClaimSteps \cup ReleaseSteps \cup DispatchSteps \cup {"setAvailability"},
         tx'[p].step = "commit" \/ \A c \in Couriers : courier'[c].by # p
  PROVE  SerialKnows(p, tx[p])'
  BY DEF SerialKnows, Exposed, LockingSteps, ReleaseSteps

LEMMA SerialEnds ==
  ASSUME OneAtATime, OrderInv, OrderInv', SerialInv, NEW p \in Procs, Commit(p) \/ Rollback(p)
  PROVE  SerialInv'
  <1>0. None \notin Procs /\ tx \in [Procs -> Request]
    BY NoneAssumption DEF OrderInv, TypeOK
  <1>1. tx'[p].step = "none"
    BY <1>0 DEF Commit, Rollback, NoRequest
  <1>2. /\ \A o \in Orders : order[o].by \in {p, None} /\ (order[o].by = None => order[o].draft = order[o].at)
        /\ \A c \in Couriers : courier[c].by \in {p, None} /\ (courier[c].by = None => courier[c].draft = courier[c].at)
    BY SerialSees DEF OrderInv, DraftsAudited, SerialInv
  <1>3. /\ \A o \in Orders : order'[o].draft = order'[o].at
        /\ \A c \in Couriers : courier'[c].draft = courier'[c].at /\ courier'[c].by = None
    BY <1>0, <1>2 DEF Commit, Rollback, Settle, Undo, Row
  <1>4. ASSUME \A c \in Couriers : courier'[c].at.status = "BUSY" <=> Load(c)' # {}
        PROVE  SerialInv'
    <2>1. \A c \in Couriers : DraftLoad(c)' = Load(c)'
      BY <1>3 DEF DraftLoad, Load, ActiveWith
    <2>2. \A c \in Couriers : Balanced(c)'
      BY <1>3, <1>4, <2>1 DEF Balanced
    <2>3. SerialKnows(p, tx[p])'
      BY <1>0, <1>1, <1>3, <2>2, SerialKnowsNothing DEF ClaimSteps, ReleaseSteps, DispatchSteps
    <2>4. \A q \in Procs : SerialKnows(q, tx[q])'
      BY <2>3 DEF OneAtATime
    <2> QED
      BY <1>3, <1>4, <2>4 DEF SerialInv, WorkingIsBusy, BusyIsWorking
  <1>5. CASE Commit(p)
    <2>1. /\ \A o \in Orders : order'[o].at = order[o].draft
          /\ \A c \in Couriers : courier'[c].at = courier[c].draft
      BY <1>0, <1>2, <1>5 DEF Commit, Settle, Row
    <2>2. \A c \in Couriers : Load(c)' = DraftLoad(c)
      BY <2>1 DEF DraftLoad, Load, ActiveWith
    <2>3. \A c \in Couriers : Balanced(c)
      BY <1>5 DEF Commit, At, SerialInv, SerialKnows, Exposed, ClaimSteps, ReleaseSteps
    <2> QED
      BY <1>4, <2>1, <2>2, <2>3 DEF Balanced
  <1>6. CASE Rollback(p)
    <2>1. /\ \A o \in Orders : order'[o].at = order[o].at
          /\ \A c \in Couriers : courier'[c].at = courier[c].at
      BY <1>0, <1>2, <1>6 DEF Rollback, Undo, Row
    <2>2. \A c \in Couriers : Load(c)' = Load(c)
      BY <2>1 DEF Load
    <2> QED
      BY <1>4, <2>1, <2>2 DEF SerialInv, WorkingIsBusy, BusyIsWorking
  <1> QED
    BY <1>5, <1>6

LEMMA SerialQuiet ==
  ASSUME OneAtATime, OrderInv, SerialInv, NEW p \in Procs, UNCHANGED <<order, courier>>,
         SerialKnows(p, tx[p])'
  PROVE  SerialInv'
  BY SerialOpenStep

\* A courier nothing happens to stays balanced.
LEMMA BalanceKept ==
  ASSUME NEW c, courier'[c].draft = courier[c].draft,
         \A o \in Orders : ActiveWith(order'[o].draft, c) <=> ActiveWith(order[o].draft, c)
  PROVE  DraftLoad(c)' = DraftLoad(c) /\ (Balanced(c)' <=> Balanced(c))
  <1>1. DraftLoad(c)' = DraftLoad(c)
    BY DEF DraftLoad
  <1> QED
    BY <1>1 DEF Balanced

\* Requests that read on, or begin by reading.
LEMMA SerialReadsOn ==
  ASSUME OneAtATime, OrderInv, SerialInv, NEW p \in Procs, UNCHANGED <<order, courier>>,
         tx[p].step \notin LockingSteps,
         tx'[p].step \notin ClaimSteps \cup ReleaseSteps,
         tx'[p].step = "setAvailability" =>
           tx'[p].c \in Couriers /\ courier[tx'[p].c].draft.status \in {"OFFLINE", "AVAILABLE"},
         tx'[p].step \in DispatchSteps /\ tx'[p].op = "assign" => tx'[p].seen = Life!Open
  PROVE  SerialInv'
  <1>1. \A c \in Couriers : Balanced(c) /\ courier[c].by # p
    BY DEF SerialInv, SerialKnows, Exposed, LockingSteps
  <1>2. \A c \in Couriers : Balanced(c)' /\ courier'[c].by # p
    BY <1>1, BalanceKept
  <1>3. SerialKnows(p, tx[p])'
    BY <1>2 DEF SerialKnows, Exposed, ReleaseSteps
  <1> QED
    BY <1>3, SerialQuiet

\* Requests that begin by reading: none is at work.
LEMMA SerialBegin ==
  ASSUME OneAtATime, OrderInv, SerialInv, NEW p \in Procs, NEW r, Begin(p, r),
         UNCHANGED <<order, courier>>, r.step \notin LockingSteps,
         r.step = "setAvailability" =>
           r.c \in Couriers /\ courier[r.c].at.status \in {"OFFLINE", "AVAILABLE"},
         r.step \in DispatchSteps /\ r.op = "assign" => r.seen = Life!Open
  PROVE  SerialInv'
  <1>1. tx[p].step = "none" /\ tx'[p] = r
    BY DEF OrderInv, TypeOK, Begin, NoRequest
  <1>2. tx[p].step \notin LockingSteps
    BY <1>1 DEF LockingSteps, ClaimSteps, ReleaseSteps
  <1>3. \A c \in Couriers : courier[c].by # p
    BY <1>2 DEF SerialInv, SerialKnows
  <1>4. \A c \in Couriers : courier[c].draft = courier[c].at
    BY <1>3, SerialSees DEF SerialInv
  <1>5. r.step \notin ClaimSteps \cup ReleaseSteps
    BY DEF LockingSteps
  <1> QED
    BY <1>1, <1>2, <1>4, <1>5, SerialReadsOn

LEMMA SerialArrive ==
  ASSUME OneAtATime, OrderInv, OrderInv', SerialInv, NEW p \in Procs, Arrive(p)
  PROVE  SerialInv'
  <1> DEFINE Plain == {"claimCourier", "countForVehicle", "countForSuspend", "setActivated",
                       "syncOrder", "cancelOrder", "payPayment"}
  <1>0. /\ Plain \cap (LockingSteps \cup DispatchSteps \cup {"setAvailability"}) = {}
        /\ "readCourier" \notin LockingSteps \cup {"setAvailability"}
        /\ "setAvailability" \notin LockingSteps \cup DispatchSteps
        /\ "none" \notin LockingSteps
    BY DEF LockingSteps, ClaimSteps, ReleaseSteps, DispatchSteps
  <1>1. ASSUME NEW r, Begin(p, r), UNCHANGED <<order, courier>>, r.step \in Plain
        PROVE  SerialInv'
    BY <1>0, <1>1, SerialBegin
  <1>2. ASSUME NEW o \in Orders, NEW c \in Couriers,
               AssignRead(p, o, c) \/ ReassignRead(p, o, c) \/ WooAssignRead(p, o, c)
        PROVE  SerialInv'
    <2>1. PICK r : /\ Begin(p, r) /\ r.step = "readCourier"
                   /\ r.op = "assign" => r.seen = Life!Open
                   /\ UNCHANGED <<order, courier>>
      BY <1>2 DEF AssignRead, ReassignRead, WooAssignRead, BeginDispatch, NoRequest, Life!Open
    <2> QED
      BY <1>0, <2>1, SerialBegin
  <1>3. ASSUME NEW c \in Couriers, NEW op \in {"goOnline", "goOffline"}, ReadAvailability(p, c, op)
        PROVE  SerialInv'
    <2>1. PICK r : /\ Begin(p, r) /\ r.step = "setAvailability" /\ r.c = c
                   /\ UNCHANGED <<order, courier>>
      BY <1>3 DEF ReadAvailability, NoRequest
    <2>2. courier[c].at.status \in {"OFFLINE", "AVAILABLE"}
      BY <1>3 DEF ReadAvailability, OrderInv, TypeOK, Rows, CourierRow, CourierStatus
    <2> QED
      BY <1>0, <2>1, <2>2, SerialBegin
  <1>4. ASSUME NEW o \in Orders, NEW c \in Couriers, ReadForAccept(p, c, o)
        PROVE  SerialInv'
    <2>1. PICK r : Begin(p, r) /\ r.step = "claimCourier" /\ UNCHANGED <<order, courier>>
      BY <1>4 DEF ReadForAccept, NoRequest
    <2> QED
      BY <1>1, <2>1
  <1>5. ASSUME NEW o \in Orders, SyncRead(p, o) \/ ReadForCancel(p, o) \/ ReadForPaid(p, o)
        PROVE  SerialInv'
    <2>1. PICK r : Begin(p, r) /\ r.step \in {"syncOrder", "cancelOrder", "payPayment"}
                   /\ UNCHANGED <<order, courier>>
      BY <1>5 DEF SyncRead, ReadForCancel, ReadForPaid, NoRequest
    <2> QED
      BY <1>1, <2>1
  <1>6. ASSUME NEW c \in Couriers,
               \/ \E v \in Vehicles : ReadForVehicle(p, c, v)
               \/ ReadForSuspend(p, c) \/ ReadForActivate(p, c)
        PROVE  SerialInv'
    <2>1. PICK r : Begin(p, r) /\ r.step \in {"countForVehicle", "countForSuspend", "setActivated"}
                   /\ UNCHANGED <<order, courier>>
      BY <1>6 DEF ReadForVehicle, ReadForSuspend, ReadForActivate, NoRequest
    <2> QED
      BY <1>1, <2>1
  <1>7. ASSUME NEW o \in Orders, NEW c \in Couriers,
               \/ RejectOrder(p, c, o) \/ PickUpOrder(p, c, o) \/ DeliverOrder(p, c, o)
        PROVE  SerialInv'
    <2>1. PICK new \in OrderRow :
            /\ Free(order[o], p)
            /\ order' = [order EXCEPT ![o] = Put(@, p, new)]
            /\ UNCHANGED courier
            /\ tx[p].step = "none" /\ tx[p].event = None
            /\ tx'[p].step \in {"commit", "releaseScan"}
            /\ ActiveWith(order[o].at, c)
            /\ \A d : d # c => ~ActiveWith(new, d)
            /\ tx'[p].step = "releaseScan" => tx'[p].rel = c /\ ~ActiveWith(new, c)
            /\ tx'[p].step = "commit" => ActiveWith(new, c)
      BY <1>7, OwnOrderWritten
    <2>2. /\ \A i \in Orders : order'[i].at = order[i].at
          /\ order'[o].draft = new
          /\ \A i \in Orders : i # o => order'[i] = order[i]
      BY <2>1 DEF OrderInv, TypeOK, Put
    <2>3. order[o].draft = order[o].at
      BY <2>1, SerialSees, UnwrittenSeen
    <2>4. \A d \in Couriers : Balanced(d)
      BY <1>0, <2>1 DEF SerialInv, SerialKnows, Exposed, LockingSteps
    <2>5. \A d \in Couriers : d # c => Balanced(d)'
      <3>1. \A d \in Couriers : d # c => ~ActiveWith(order[o].draft, d)
        BY <2>1, <2>3 DEF ActiveWith
      <3> QED
        BY <2>1, <2>2, <2>4, <3>1, BalanceKept
    <2>6. courier'[c].draft.status = "BUSY"
      BY <2>1, <2>3, <2>4 DEF Balanced, DraftLoad
    <2>7. tx'[p].step = "commit" => Balanced(c)'
      BY <2>1, <2>2, <2>6 DEF Balanced, DraftLoad
    <2>8. SerialKnows(p, tx[p])'
      <3>1. /\ tx'[p].step \in LockingSteps /\ tx'[p].step # "release"
            /\ tx'[p].step \notin ClaimSteps \cup DispatchSteps \cup {"setAvailability"}
        BY <2>1 DEF LockingSteps, ClaimSteps, ReleaseSteps, DispatchSteps
      <3>2. \A d \in Couriers : Exposed(tx[p], d)' <=> tx'[p].step = "releaseScan" /\ d = c
        BY <2>1, <3>1 DEF Exposed, ReleaseSteps
      <3> QED
        BY <2>1, <2>5, <2>6, <2>7, <3>1, <3>2 DEF SerialKnows
    <2> QED
      BY <2>1, <2>2, <2>8, SerialOpenStep
  <1> QED
    BY <1>2, <1>3, <1>4, <1>5, <1>6, <1>7 DEF Arrive

\* Statements of a request that holds no courier and reads, or writes a payment.
LEMMA SerialReads ==
  ASSUME OneAtATime, OrderInv, OrderInv', SerialInv, NEW p \in Procs,
         \/ ReadTargetCourier(p) \/ ReserveScan(p)
         \/ CountForVehicle(p) \/ CountForSuspend(p)
         \/ ReadPaymentForCancel(p) \/ CancelPayment(p) \/ PayPayment(p)
  PROVE  SerialInv'
  <1> DEFINE Plain == {"setVehicle", "setSuspended", "cancelPayment", "commit"}
  <1>0. /\ {"readCourier", "reserveScan", "countForVehicle", "countForSuspend", "readPayment",
            "cancelPayment", "payPayment"} \cap LockingSteps = {}
        /\ (Plain \cup {"reserveScan", "reserve"}) \cap
             (ClaimSteps \cup ReleaseSteps \cup {"setAvailability"}) = {}
        /\ Plain \cap DispatchSteps = {}
        /\ {"readCourier", "reserveScan"} \subseteq DispatchSteps
    BY DEF LockingSteps, ClaimSteps, ReleaseSteps, DispatchSteps
  <1>1. ASSUME NEW s, GoTo(p, s), UNCHANGED <<order, courier>>, tx[p].step \notin LockingSteps,
               \/ s \in Plain
               \/ s \in {"reserveScan", "reserve"} /\ tx[p].step \in DispatchSteps
        PROVE  SerialInv'
    <2>1. /\ tx'[p].step = s /\ tx'[p].op = tx[p].op /\ tx'[p].seen = tx[p].seen
      BY <1>1, GoneTo
    <2>2. tx'[p].step \in DispatchSteps /\ tx'[p].op = "assign" => tx'[p].seen = Life!Open
      BY <1>0, <1>1, <2>1 DEF SerialInv, SerialKnows
    <2> QED
      BY <1>0, <1>1, <2>1, <2>2, SerialReadsOn
  <1>2. CASE Rollback(p)
    BY <1>2, SerialEnds
  <1>3. ASSUME NEW status, WritePayment(p, status, "PENDING"), tx[p].step \notin LockingSteps
        PROVE  SerialInv'
    <2>1. UNCHANGED <<order, courier>>
      BY <1>3 DEF WritePayment
    <2>2. tx'[p].step = "commit"
      BY <1>3 DEF WritePayment, OrderInv, TypeOK, Request
    <2> QED
      BY <1>0, <1>3, <2>1, <2>2, SerialReadsOn
  <1>4. CASE ReadTargetCourier(p)
    BY <1>0, <1>1, <1>2, <1>4 DEF ReadTargetCourier, Check, At
  <1>5. CASE ReserveScan(p)
    BY <1>0, <1>1, <1>2, <1>5 DEF ReserveScan, Check, At
  <1>6. CASE CountForVehicle(p) \/ CountForSuspend(p)
    BY <1>0, <1>1, <1>2, <1>6 DEF CountForVehicle, CountForSuspend, Check, At
  <1>7. CASE ReadPaymentForCancel(p)
    BY <1>0, <1>1, <1>7 DEF ReadPaymentForCancel, At
  <1>8. CASE CancelPayment(p)
    BY <1>0, <1>3, <1>8 DEF CancelPayment, At
  <1>9. CASE PayPayment(p)
    BY <1>0, <1>2, <1>3, <1>9 DEF PayPayment, At
  <1> QED
    BY <1>4, <1>5, <1>6, <1>7, <1>8, <1>9

LEMMA SerialCount ==
  ASSUME OneAtATime, OrderInv, OrderInv', SerialInv, NEW p \in Procs, CountActive(p)
  PROVE  SerialInv'
  <1>1. CASE Rollback(p)
    BY <1>1, SerialEnds
  <1>2. CASE GoTo(p, "move") /\ UNCHANGED <<order, courier, payment, trail, payTrail>>
    <2>1. /\ tx'[p].step = "move" /\ tx'[p].c = tx[p].c
          /\ tx'[p].op = tx[p].op /\ tx'[p].seen = tx[p].seen
      BY <1>2, GoneTo
    <2>2. tx[p].step = "countActive"
      BY DEF CountActive, At
    <2>3. /\ {"countActive", "move"} \subseteq ClaimSteps \cap DispatchSteps \cap LockingSteps
          /\ {"countActive", "move"} \cap ReleaseSteps = {}
      BY DEF ClaimSteps, DispatchSteps, LockingSteps, ReleaseSteps
    <2>4. \A c : Exposed(tx[p], c)' <=> Exposed(tx[p], c)
      BY <2>1, <2>2, <2>3 DEF Exposed
    <2>5. SerialKnows(p, tx[p])
      BY DEF SerialInv
    <2>6. \A c \in Couriers : courier'[c] = courier[c] /\ (Balanced(c)' <=> Balanced(c))
      BY <1>2, BalanceKept
    <2>7. SerialKnows(p, tx[p])'
      BY <2>1, <2>2, <2>3, <2>4, <2>5, <2>6 DEF SerialKnows
    <2> QED
      BY <1>2, <2>7, SerialQuiet
  <1> QED
    BY <1>1, <1>2 DEF CountActive, Check

\* Statements that write a courier other than to release it: it is made BUSY
\* to be given an order, or neither was nor becomes BUSY.
LEMMA SerialStatements ==
  ASSUME OneAtATime, OrderInv, OrderInv', SerialInv, NEW p \in Procs,
         \/ ClaimCourier(p) \/ Reserve(p) \/ SetAvailability(p)
         \/ SetVehicle(p) \/ SetSuspended(p) \/ SetActivated(p)
  PROVE  SerialInv'
  <1>0. /\ tx[p].step \notin LockingSteps
        /\ {"claimOrder", "countActive"} \subseteq ClaimSteps \cap LockingSteps
        /\ {"claimOrder", "countActive", "commit"} \cap (ReleaseSteps \cup {"setAvailability"}) = {}
        /\ "commit" \notin ClaimSteps \cup DispatchSteps
        /\ "claimOrder" \notin DispatchSteps /\ "reserve" \in DispatchSteps
    BY DEF LockingSteps, ClaimSteps, ReleaseSteps, DispatchSteps, ClaimCourier, Reserve,
           SetAvailability, SetVehicle, SetSuspended, SetActivated, At
  <1>1. tx[p].c \in Couriers
    BY RequestFields DEF Reserve, ClaimCourier, SetVehicle, SetSuspended, SetAvailability,
          SetActivated, At, RequestKnows, CourierSteps, DispatchSteps
  <1>2. PICK c \in Couriers : c = tx[p].c
    BY <1>1
  <1>3. PICK row \in CourierRow : row = Seen(courier[c], p) /\ row = courier[c].draft
    BY SerialSees DEF OrderInv, TypeOK, Rows
  <1>4. \A d \in Couriers : Balanced(d) /\ courier[d].by # p
    BY <1>0 DEF SerialInv, SerialKnows, Exposed, LockingSteps
  <1>5. ASSUME NEW matches, NEW new, NEW s, UpdateCourier(p, matches, new, s),
               matches => \/ s = "claimOrder" /\ new.status = "BUSY"
                          \/ s = "countActive" /\ new.status = "BUSY" /\ tx[p].step = "reserve"
                          \/ s = "commit" /\ new.status # "BUSY" /\ row.status # "BUSY"
        PROVE  SerialInv'
    <2>1. CASE Rollback(p)
      BY <2>1, SerialEnds
    <2>2. CASE /\ matches
               /\ courier' = [courier EXCEPT ![c] = Put(@, p, new)]
               /\ GoTo(p, s)
               /\ UNCHANGED <<order, payment, trail, payTrail>>
      <3>1. /\ tx'[p].step = s /\ tx'[p].c = c
            /\ tx'[p].op = tx[p].op /\ tx'[p].seen = tx[p].seen
        BY <1>2, <2>2, GoneTo
      <3>2. /\ courier'[c].draft = new /\ courier'[c].by = p /\ courier'[c].at = courier[c].at
            /\ \A d \in Couriers : d # c => courier'[d] = courier[d]
        BY <2>2 DEF OrderInv, TypeOK, Put
      <3>3. \A d \in Couriers : d # c => Balanced(d)'
        BY <1>4, <2>2, <3>2, BalanceKept
      <3>4. s = "commit" => Balanced(c)'
        <4>1. DraftLoad(c)' = DraftLoad(c)
          BY <2>2 DEF DraftLoad
        <4> QED
          BY <1>3, <1>4, <1>5, <2>2, <3>2, <4>1 DEF Balanced
      <3>5. \A d \in Couriers : Exposed(tx[p], d)' <=> s # "commit" /\ d = c
        BY <1>0, <1>5, <2>2, <3>1 DEF Exposed
      <3>6. s = "countActive" /\ tx[p].op = "assign" => tx[p].seen = Life!Open
        BY <1>0, <1>5, <2>2 DEF SerialInv, SerialKnows
      <3>7. SerialKnows(p, tx[p])'
        <4>1. \A d \in Couriers :
                IF Exposed(tx[p], d)' THEN courier'[d].draft.status = "BUSY" ELSE Balanced(d)'
          BY <1>5, <2>2, <3>2, <3>3, <3>4, <3>5
        <4>2. /\ tx'[p].step \in LockingSteps
              /\ tx'[p].step \notin {"release", "setAvailability"}
          BY <1>0, <1>5, <2>2, <3>1 DEF LockingSteps
        <4>3. tx'[p].step \in DispatchSteps /\ tx'[p].op = "assign" => tx'[p].seen = Life!Open
          BY <1>0, <1>5, <2>2, <3>1, <3>6
        <4> QED
          BY <4>1, <4>2, <4>3 DEF SerialKnows
      <3>8. \A d \in Couriers : courier'[d].at = courier[d].at
        BY <3>2
      <3> QED
        BY <2>2, <3>2, <3>7, <3>8, SerialOpenStep
    <2> QED
      BY <1>2, <1>5, <2>1, <2>2 DEF UpdateCourier
  <1>6. /\ \A s : [row EXCEPT !.status = s].status = s
        /\ \A v : [row EXCEPT !.vehicle = v].status = row.status
        /\ \A s, a : [row EXCEPT !.status = s, !.account = a].status = s
    BY DEF CourierRow
  <1>7. CASE ClaimCourier(p)
    <2> DEFINE new == [row EXCEPT !.status = "BUSY"]
    <2>1. UpdateCourier(p, row.status = "AVAILABLE", new, "claimOrder")
      BY <1>2, <1>3, <1>7 DEF ClaimCourier
    <2>2. new.status = "BUSY"
      BY <1>6
    <2> HIDE DEF new
    <2> QED
      BY <1>5, <2>1, <2>2
  <1>8. CASE Reserve(p)
    <2> DEFINE new == [row EXCEPT !.status = "BUSY"]
    <2>1. /\ UpdateCourier(p, row.status \in {"AVAILABLE", "BUSY"}, new, "countActive")
          /\ tx[p].step = "reserve"
      BY <1>2, <1>3, <1>8 DEF Reserve, At
    <2>2. new.status = "BUSY"
      BY <1>6
    <2> HIDE DEF new
    <2> QED
      BY <1>5, <2>1, <2>2
  <1>9. ASSUME NEW matches, NEW new, UpdateCourier(p, matches, new, "commit"),
               matches => new.status # "BUSY" /\ row.status # "BUSY"
        PROVE  SerialInv'
    BY <1>5, <1>9
  <1>10. CASE SetAvailability(p)
    <2>1. row.status # "BUSY"
      BY <1>2, <1>3, <1>10 DEF SetAvailability, At, SerialInv, SerialKnows
    <2>2. PICK s : s # "BUSY" /\ UpdateCourier(p, TRUE, [row EXCEPT !.status = s], "commit")
      <3> DEFINE s == IF tx[p].op = "goOnline" THEN "AVAILABLE" ELSE "OFFLINE"
      <3>1. UpdateCourier(p, TRUE, [row EXCEPT !.status = s], "commit")
        BY <1>2, <1>3, <1>10 DEF SetAvailability
      <3>2. s # "BUSY"
        OBVIOUS
      <3> HIDE DEF s
      <3> QED
        BY <3>1, <3>2
    <2> QED
      BY <1>6, <1>9, <2>1, <2>2
  <1>11. CASE SetVehicle(p)
    <2> DEFINE new == [row EXCEPT !.vehicle = tx[p].vehicle]
    <2>1. UpdateCourier(p, row.status \in {"OFFLINE", "SUSPENDED"}, new, "commit")
      BY <1>2, <1>3, <1>11 DEF SetVehicle
    <2>2. new.status = row.status
      BY <1>6
    <2> HIDE DEF new
    <2> QED
      BY <1>9, <2>1, <2>2
  <1>12. CASE SetSuspended(p)
    <2> DEFINE new == [row EXCEPT !.status = "SUSPENDED", !.account = "SUSPENDED"]
    <2>1. UpdateCourier(p, row.status \in {"OFFLINE", "AVAILABLE"}, new, "commit")
      BY <1>2, <1>3, <1>12 DEF SetSuspended
    <2>2. new.status # "BUSY"
      BY <1>6
    <2> HIDE DEF new
    <2> QED
      BY <1>9, <2>1, <2>2
  <1>13. CASE SetActivated(p)
    <2> DEFINE new == [row EXCEPT !.status = "OFFLINE", !.account = "ACTIVE"]
    <2>1. UpdateCourier(p, row.status = "SUSPENDED", new, "commit")
      BY <1>2, <1>3, <1>13 DEF SetActivated
    <2>2. new.status # "BUSY"
      BY <1>6
    <2> HIDE DEF new
    <2> QED
      BY <1>9, <2>1, <2>2
  <1> QED
    BY <1>7, <1>8, <1>10, <1>11, <1>12, <1>13

\* Statements that write the order.
LEMMA SerialOrderStatements ==
  ASSUME OneAtATime, OrderInv, OrderInv', SerialInv, NEW p \in Procs,
         \/ ClaimOrder(p) \/ AssignMove(p) \/ ReassignMove(p) \/ WooAssignMove(p)
         \/ SyncOrder(p) \/ CancelOrder(p)
  PROVE  SerialInv'
  <1> DEFINE given == [status |-> "ASSIGNED", courier |-> tx[p].c]
  <1>0. /\ {"claimOrder", "move"} \subseteq ClaimSteps
        /\ {"claimOrder", "move"} \cap ReleaseSteps = {}
        /\ {"syncOrder", "cancelOrder"} \cap (LockingSteps \cup DispatchSteps) = {}
        /\ {"commit", "releaseScan", "readPayment"} \cap
             (ClaimSteps \cup DispatchSteps \cup {"release", "setAvailability"}) = {}
        /\ {"commit", "releaseScan"} \subseteq LockingSteps
        /\ {"commit", "readPayment"} \cap ReleaseSteps = {} /\ "releaseScan" \in ReleaseSteps
    BY DEF LockingSteps, ClaimSteps, ReleaseSteps, DispatchSteps
  <1>1. ASSUME NEW matches, NEW new, NEW e, NEW s,
               UpdateOrder(p, matches, new, e, s), tx[p].o \in Orders, tx[p].event = None
        PROVE  \/ SerialInv'
               \/ /\ matches
                  /\ UNCHANGED courier
                  /\ \A i \in Orders : order'[i].at = order[i].at
                  /\ \A i \in Orders : i # tx[p].o => order'[i] = order[i]
                  /\ order'[tx[p].o].draft = new
                  /\ order[tx[p].o].draft = order[tx[p].o].at
                  /\ Seen(order[tx[p].o], p) = order[tx[p].o].at
                  /\ tx'[p].step = s /\ tx'[p].c = tx[p].c /\ tx'[p].rel = tx[p].rel
    <2>1. CASE Rollback(p)
      BY <2>1, SerialEnds
    <2>2. CASE /\ matches
               /\ order' = [order EXCEPT ![tx[p].o] = Put(@, p, new)]
               /\ tx' = [tx EXCEPT ![p].step = s, ![p].event = e]
               /\ UNCHANGED <<courier, payment, trail, payTrail>>
      <3>1. tx'[p].step = s /\ tx'[p].c = tx[p].c /\ tx'[p].rel = tx[p].rel
        BY <2>2 DEF OrderInv, TypeOK, Request
      <3>2. /\ \A i \in Orders : order'[i].at = order[i].at
            /\ \A i \in Orders : i # tx[p].o => order'[i] = order[i]
            /\ order'[tx[p].o].draft = new
        BY <1>1, <2>2 DEF OrderInv, TypeOK, Put
      <3>3. /\ order[tx[p].o].draft = order[tx[p].o].at
            /\ Seen(order[tx[p].o], p) = order[tx[p].o].at
        BY <1>1, SerialSees, UnwrittenSeen
      <3> QED
        BY <2>2, <3>1, <3>2, <3>3
    <2> QED
      BY <1>1, <2>1, <2>2 DEF UpdateOrder
  <1>2. SerialKnows(p, tx[p])
    BY DEF SerialInv
  \* The order goes to the courier of the request, from nobody or from one
  \* that is looked at next.
  <1>3. ASSUME tx[p].step \in {"claimOrder", "move"}, NEW matches, NEW e,
               NEW s \in {"commit", "releaseScan"}, UpdateOrder(p, matches, given, e, s),
               matches /\ s = "commit" => Seen(order[tx[p].o], p) = Life!Open,
               matches /\ s = "releaseScan" =>
                 tx[p].rel # tx[p].c /\ Seen(order[tx[p].o], p) = Life!With(tx[p].rel)
        PROVE  SerialInv'
    <2>1. PICK o \in Orders, c \in Couriers : o = tx[p].o /\ c = tx[p].c
      BY <1>3, RequestFields DEF RequestKnows, CourierSteps, OrderSteps, DispatchSteps
    <2>2. tx[p].event = None
      BY <1>3, RequestFields DEF RequestKnows, UnwrittenSteps, CourierSteps, DispatchSteps
    <2> DEFINE Written ==
          /\ matches
          /\ UNCHANGED courier
          /\ \A i \in Orders : order'[i].at = order[i].at
          /\ \A i \in Orders : i # o => order'[i] = order[i]
          /\ order'[o].draft = given
          /\ order[o].draft = Seen(order[o], p)
          /\ tx'[p].step = s /\ tx'[p].c = c /\ tx'[p].rel = tx[p].rel
    <2>3. SerialInv' \/ Written
      BY <1>1, <1>3, <2>1, <2>2
    <2> SUFFICES ASSUME Written PROVE SerialInv'
      BY <2>3
    <2>4. /\ \A d : ActiveWith(given, d) <=> d = c
          /\ \A d : ~ActiveWith(Life!Open, d)
          /\ \A b, d : ActiveWith(Life!With(b), d) <=> d = b
      BY <2>1 DEF ActiveWith, Active, Life!Open, Life!With
    <2>5. courier[c].draft.status = "BUSY"
      BY <1>0, <1>2, <1>3, <2>1 DEF SerialKnows, Exposed
    <2>6. \A d \in Couriers : d # c => Balanced(d)
      BY <1>0, <1>2, <1>3, <2>1 DEF SerialKnows, Exposed
    <2> HIDE DEF given
    <2>7. Balanced(c)'
      <3>1. o \in DraftLoad(c)'
        BY <2>4 DEF DraftLoad
      <3> QED
        BY <2>5, <3>1 DEF Balanced
    <2>8. ASSUME NEW d \in Couriers, d # c, ~ActiveWith(order[o].draft, d)
          PROVE  Balanced(d)'
      <3>1. \A i \in Orders : ActiveWith(order'[i].draft, d) <=> ActiveWith(order[i].draft, d)
        BY <2>4, <2>8
      <3>2. courier'[d].draft = courier[d].draft
        OBVIOUS
      <3> QED
        BY <2>6, <2>8, <3>1, <3>2, BalanceKept
    <2>9. s = "releaseScan" =>
            /\ tx[p].rel # c
            /\ tx[p].rel \in Couriers => courier'[tx[p].rel].draft.status = "BUSY"
      <3> SUFFICES ASSUME s = "releaseScan"
                   PROVE  /\ tx[p].rel # c
                          /\ tx[p].rel \in Couriers => courier'[tx[p].rel].draft.status = "BUSY"
        OBVIOUS
      <3>1. tx[p].rel # c /\ ActiveWith(order[o].draft, tx[p].rel)
        BY <1>3, <2>1, <2>4
      <3>2. tx[p].rel \in Couriers => o \in DraftLoad(tx[p].rel) /\ Balanced(tx[p].rel)
        BY <2>6, <3>1 DEF DraftLoad
      <3> QED
        BY <3>1, <3>2 DEF Balanced
    <2>10. \A d \in Couriers : Exposed(tx[p], d)' <=> s = "releaseScan" /\ d = tx[p].rel
      BY <1>0, <1>3 DEF Exposed
    <2>11. ASSUME NEW d \in Couriers, ~(s = "releaseScan" /\ d = tx[p].rel)
           PROVE  Balanced(d)'
      <3>1. CASE d = c
        BY <2>7, <3>1
      <3>2. CASE d # c
        <4>1. ~ActiveWith(order[o].draft, d)
          BY <1>3, <2>1, <2>4, <2>11
        <4> QED
          BY <2>8, <3>2, <4>1
      <3> QED
        BY <3>1, <3>2
    <2>12. SerialKnows(p, tx[p])'
      BY <1>0, <1>3, <2>9, <2>10, <2>11 DEF SerialKnows
    <2>13. \A d \in Couriers : courier'[d] = courier[d]
      OBVIOUS
    <2> QED
      BY <2>12, <2>13, SerialOpenStep
  <1>4. ASSUME NEW op, NEW s \in {"commit", "releaseScan"}, MoveOrder(p, op, s),
               s = "commit" => op = "assign" \/ (op = "wooAssign" /\ tx[p].seen.status # "ASSIGNED"),
               s = "releaseScan" => op = "reassign" \/ tx[p].seen.status = "ASSIGNED"
        PROVE  SerialInv'
    <2>1. PICK matches, e : /\ UpdateOrder(p, matches, given, e, s)
                            /\ matches <=> Seen(order[tx[p].o], p) = tx[p].seen
                            /\ tx[p].step = "move" /\ tx[p].op = op
      BY <1>4 DEF MoveOrder, At
    <2>2. \/ tx[p].op # "reassign" /\ tx[p].seen = Life!Open
          \/ tx[p].rel # tx[p].c /\ tx[p].seen = Life!With(tx[p].rel)
      BY <2>1, RequestFields DEF RequestKnows, DispatchSteps
    <2>3. op = "assign" => tx[p].seen = Life!Open
      BY <1>2, <2>1 DEF SerialKnows, DispatchSteps
    <2>4. Life!Open.status # "ASSIGNED" /\ \A d : Life!With(d).status = "ASSIGNED"
      BY DEF Life!Open, Life!With
    <2>5. /\ s = "commit" => tx[p].seen = Life!Open
          /\ s = "releaseScan" => tx[p].rel # tx[p].c /\ tx[p].seen = Life!With(tx[p].rel)
      BY <1>4, <2>1, <2>2, <2>3, <2>4
    <2> HIDE DEF given
    <2> QED
      BY <1>3, <1>4, <2>1, <2>5
  <1>5. CASE AssignMove(p)
    BY <1>4, <1>5 DEF AssignMove
  <1>6. CASE ReassignMove(p)
    BY <1>4, <1>6 DEF ReassignMove
  <1>7. CASE WooAssignMove(p)
    BY <1>4, <1>7 DEF WooAssignMove
  <1>8. CASE ClaimOrder(p)
    <2>1. PICK matches, e : /\ UpdateOrder(p, matches, given, e, "commit")
                            /\ matches => Seen(order[tx[p].o], p) = Life!Open
                            /\ tx[p].step = "claimOrder"
      BY <1>8 DEF ClaimOrder, At, Life!Open
    <2> HIDE DEF given
    <2> QED
      BY <1>3, <2>1
  <1>9. ASSUME NEW t \in Terminal, NEW s \in {"commit", "readPayment"},
               tx[p].step \in {"syncOrder", "cancelOrder"},
               UpdateOrder(p, Seen(order[tx[p].o], p).status = "REQUESTED",
                           [Seen(order[tx[p].o], p) EXCEPT !.status = t],
                           Event("REQUESTED", t), s)
        PROVE  SerialInv'
    <2>1. PICK o \in Orders : o = tx[p].o /\ tx[p].event = None
      BY <1>9, RequestFields DEF RequestKnows, OrderSteps, UnwrittenSteps
    <2>0. Seen(order[o], p) \in OrderRow
      BY RowsClosed DEF OrderInv, TypeOK, Seen, Rows
    <2>2. PICK row \in OrderRow : row = Seen(order[o], p)
      BY <2>0
    <2> DEFINE new == [row EXCEPT !.status = t]
    <2>3. new = [row EXCEPT !.status = t] /\ new.status = t
      BY DEF OrderRow
    <2> HIDE DEF new
    <2>4. PICK matches : matches <=> row.status = "REQUESTED"
      OBVIOUS
    <2>5. UpdateOrder(p, matches, new, Event("REQUESTED", t), s)
      BY <1>9, <2>1, <2>2, <2>3, <2>4 DEF UpdateOrder
    <2> DEFINE Written ==
          /\ matches
          /\ UNCHANGED courier
          /\ \A i \in Orders : order'[i].at = order[i].at
          /\ \A i \in Orders : i # o => order'[i] = order[i]
          /\ order'[o].draft = new
          /\ order[o].draft = row
          /\ tx'[p].step = s
    <2>6. SerialInv' \/ Written
      BY <1>1, <2>1, <2>2, <2>5
    <2> SUFFICES ASSUME Written PROVE SerialInv'
      BY <2>6
    <2>7. \A d \in Couriers : Balanced(d) /\ courier[d].by # p
      BY <1>0, <1>2, <1>9 DEF SerialKnows, Exposed, LockingSteps
    <2>8. \A i \in Orders : \A d \in Couriers :
            ActiveWith(order'[i].draft, d) <=> ActiveWith(order[i].draft, d)
      BY <2>3, <2>4 DEF ActiveWith, Active, Terminal
    <2>9. \A d \in Couriers : Balanced(d)' /\ courier'[d].by # p
      BY <2>7, <2>8, BalanceKept
    <2>10. SerialKnows(p, tx[p])'
      BY <1>0, <1>9, <2>9, SerialKnowsNothing
    <2>11. \A d \in Couriers : courier'[d] = courier[d]
      OBVIOUS
    <2> QED
      BY <2>10, <2>11, SerialOpenStep
  <1>10. CASE SyncOrder(p)
    BY <1>9, <1>10 DEF SyncOrder, At, Terminal
  <1>11. CASE CancelOrder(p)
    BY <1>9, <1>11 DEF CancelOrder, At, Terminal
  <1> QED
    BY <1>5, <1>6, <1>7, <1>8, <1>10, <1>11

\* The courier an order was taken from is BUSY; it is set free if that was
\* its last.
LEMMA SerialRelease ==
  ASSUME OneAtATime, OrderInv, OrderInv', SerialInv, NEW p \in Procs, ReleaseScan(p) \/ Release(p)
  PROVE  SerialInv'
  <1>0. /\ {"releaseScan", "release"} = ReleaseSteps
        /\ {"commit", "release"} \subseteq LockingSteps
        /\ {"commit", "release"} \cap (DispatchSteps \cup ClaimSteps \cup {"setAvailability"}) = {}
        /\ "commit" \notin ReleaseSteps
        /\ ReleaseSteps \cap ClaimSteps = {}
    BY DEF LockingSteps, ClaimSteps, ReleaseSteps, DispatchSteps
  <1>1. tx[p].step \in ReleaseSteps /\ tx[p].rel \in Couriers
    BY RequestFields DEF ReleaseScan, Release, At, RequestKnows, ReleaseSteps
  <1>2. PICK c \in Couriers : c = tx[p].rel
    BY <1>1
  <1>3. /\ courier[c].draft.status = "BUSY"
        /\ \A d \in Couriers : d # c => Balanced(d)
        /\ tx[p].step = "release" => DraftLoad(c) = {}
    BY <1>0, <1>1, <1>2 DEF SerialInv, SerialKnows, Exposed
  <1>4. PICK s \in {"release", "commit"} :
          /\ GoTo(p, s) /\ UNCHANGED order
          /\ s = "release" => tx[p].step = "releaseScan"
    BY DEF ReleaseScan, Release, At
  <1>5. tx'[p].step = s /\ tx'[p].rel = c
    BY <1>2, <1>4, GoneTo
  <1>6. \A d : DraftLoad(d)' = DraftLoad(d)
    BY <1>4 DEF DraftLoad
  <1>7. ASSUME \A d \in Couriers : Exposed(tx[p], d)' => courier'[d].draft.status = "BUSY",
               \A d \in Couriers : ~Exposed(tx[p], d)' => Balanced(d)',
               s = "release" => DraftLoad(c)' = {}
        PROVE  SerialKnows(p, tx[p])'
    BY <1>0, <1>5, <1>7 DEF SerialKnows
  <1>8. \A d \in Couriers : Exposed(tx[p], d)' <=> s = "release" /\ d = c
    BY <1>0, <1>5 DEF Exposed
  <1>9. CASE ReleaseScan(p)
    <2>1. ActiveOrders(p, c) = DraftLoad(c)
      BY SerialSees DEF ActiveOrders, DraftLoad, ActiveWith
    <2>2. /\ GoTo(p, IF DraftLoad(c) = {} THEN "release" ELSE "commit")
          /\ UNCHANGED courier
      BY <1>2, <1>3, <1>9, <2>1, SerialSees DEF ReleaseScan
    <2>3. s = "release" <=> DraftLoad(c) = {}
      BY <1>5, <2>2, GoneTo
    <2>4. \A d \in Couriers : ~(s = "release" /\ d = c) => Balanced(d)'
      BY <1>3, <1>6, <2>2, <2>3 DEF Balanced
    <2>5. SerialKnows(p, tx[p])'
      BY <1>3, <1>6, <1>7, <1>8, <2>2, <2>3, <2>4
    <2> QED
      BY <1>4, <2>2, <2>5, SerialQuiet
  <1>10. CASE Release(p)
    <2>1. s = "commit" /\ DraftLoad(c) = {}
      BY <1>3, <1>4, <1>10 DEF Release, At
    <2> DEFINE new == [Seen(courier[c], p) EXCEPT !.status = "AVAILABLE"]
    <2>2. Seen(courier[c], p).status = "BUSY"
      BY <1>3, SerialSees
    <2>3. courier' = [courier EXCEPT ![c] = Put(@, p, new)]
      BY <1>2, <1>10, <2>2 DEF Release
    <2>4. new.status = "AVAILABLE"
      <3>1. Seen(courier[c], p) \in CourierRow
        BY RowsClosed DEF OrderInv, TypeOK, Seen, Rows
      <3> QED
        BY <3>1 DEF CourierRow
    <2> HIDE DEF new
    <2>5. /\ courier'[c].draft = new /\ courier'[c].by = p /\ courier'[c].at = courier[c].at
          /\ \A d \in Couriers : d # c => courier'[d] = courier[d]
      BY <2>3 DEF OrderInv, TypeOK, Put
    <2>6. \A d \in Couriers : Balanced(d)'
      BY <1>3, <1>6, <2>1, <2>4, <2>5 DEF Balanced
    <2>7. SerialKnows(p, tx[p])'
      BY <1>7, <1>8, <2>1, <2>6
    <2>8. \A d \in Couriers : courier'[d].at = courier[d].at
      BY <2>5
    <2> QED
      BY <1>4, <2>5, <2>7, <2>8, SerialOpenStep
  <1> QED
    BY <1>9, <1>10

LEMMA SerialInit == Init => SerialInv
  <1> SUFFICES ASSUME Init PROVE SerialInv
    OBVIOUS
  <1>1. \A o \in Orders : \A c : ~ActiveWith(order[o].at, c) /\ ~ActiveWith(order[o].draft, c)
    BY DEF Init, Row, ActiveWith, Active
  <1>2. \A c \in Couriers : Load(c) = {} /\ DraftLoad(c) = {}
    BY <1>1 DEF Load, DraftLoad, ActiveWith
  <1>3. \A c \in Couriers : /\ courier[c].draft = courier[c].at /\ courier[c].by = None
                            /\ courier[c].at.status # "BUSY"
    BY DEF Init, Row
  <1>4. \A p \in Procs : tx[p].step = "none" /\ p # None
    BY NoneAssumption DEF Init, NoRequest
  <1>5. ASSUME NEW p \in Procs PROVE SerialKnows(p, tx[p])
    BY <1>2, <1>3, <1>4 DEF SerialKnows, Exposed, Balanced, ClaimSteps, ReleaseSteps, DispatchSteps
  <1> QED
    BY <1>2, <1>3, <1>5 DEF SerialInv, WorkingIsBusy, BusyIsWorking

LEMMA SerialNext ==
  ASSUME OneAtATime, OrderInv, SerialInv, [Next]_vars
  PROVE  SerialInv'
  <1>0. OrderInv'
    BY NextStep, StutterStep
  <1>1. CASE UNCHANGED vars
    <2>1. UNCHANGED <<order, courier, tx>>
      BY <1>1 DEF vars
    <2>2. ASSUME NEW p \in Procs PROVE SerialInv'
      <3>1. \A c \in Couriers : (Balanced(c)' <=> Balanced(c)) /\ DraftLoad(c)' = DraftLoad(c)
        BY <2>1, BalanceKept
      <3>2. \A c : DraftLoad(c)' = DraftLoad(c)
        BY <2>1 DEF DraftLoad
      <3>3. SerialKnows(p, tx[p])
        BY DEF SerialInv
      <3>4. SerialKnows(p, tx[p])'
        BY <2>1, <3>1, <3>2, <3>3 DEF SerialKnows, Exposed
      <3> QED
        BY <2>1, <3>4, SerialQuiet
    <2>3. CASE Procs = {}
      BY <2>1, <2>3 DEF SerialInv, WorkingIsBusy, BusyIsWorking, Load
    <2> QED
      BY <2>2, <2>3
  <1>2. CASE Next
    <2> PICK p \in Procs : Arrive(p) \/ Continue(p) \/ Abort(p)
      BY <1>2 DEF Next
    <2>1. CASE Arrive(p)
      BY <1>0, <2>1, SerialArrive
    <2>2. CASE Abort(p)
      BY <1>0, <2>2, SerialEnds DEF Abort
    <2>3. CASE Continue(p)
      BY <1>0, <2>3, SerialReads, SerialCount, SerialStatements, SerialOrderStatements,
         SerialRelease, SerialEnds DEF Continue
    <2> QED
      BY <2>1, <2>2, <2>3
  <1> QED
    BY <1>1, <1>2

\* Between two statements of the only request, BUSY and having an active order
\* agree for every courier but the one the request is about.
THEOREM SerialInvariant ==
  ASSUME OneAtATime
  PROVE  Spec => []SerialInv
  <1>1. Init => SerialInv
    BY SerialInit
  <1>2. OrderInv /\ SerialInv /\ [Next]_vars => SerialInv'
    BY SerialNext
  <1> QED
    BY <1>1, <1>2, OrderInvariant, PTL DEF Spec

\* With one request at a time, a courier with an active order is BUSY: no
\* handler, and no death of one half way, forgets to say so.
THEOREM WorkersStayBusy ==
  ASSUME OneAtATime
  PROVE  Spec => []WorkingIsBusy
  <1>1. SerialInv => WorkingIsBusy
    BY DEF SerialInv
  <1> QED
    BY <1>1, SerialInvariant, PTL

\* With one request at a time, a courier that is BUSY has an active order: the
\* last one to end gives the courier back.
THEOREM BusyStaysTrue ==
  ASSUME OneAtATime
  PROVE  Spec => []BusyIsWorking
  <1>1. SerialInv => BusyIsWorking
    BY DEF SerialInv
  <1> QED
    BY <1>1, SerialInvariant, PTL
==============================================================================
