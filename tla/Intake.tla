------------------------------- MODULE Intake -------------------------------
(***************************************************************************)
(* How orders enter the system.  A customer asks for a quote, which is     *)
(* kept in Redis for ten minutes, and turns it into an order; the          *)
(* WooCommerce store sends an order of its own, for which the API makes a  *)
(* quote and consumes it at once.  A handler is split at every await, so   *)
(* that any two requests interleave; Redis may evict a key, a request may  *)
(* break off, and an insert may fail, before or after it took effect.      *)
(*                                                                         *)
(* A quote's price, route and addresses are fixed when it is made and are  *)
(* copied into the order: the quote stands for them.  A request refused    *)
(* before it awaits anything changes nothing and is not modelled.          *)
(*                                                                         *)
(* The operators marked (Slip: ...) are no part of the system: each is a   *)
(* handler with one mistake in it, kept to see that the properties notice. *)
(***************************************************************************)
EXTENDS Naturals, FiniteSets

CONSTANTS
  None,
  Customers,
  Store,        \* the user ensureStoreCustomer makes for the store
  Quotes,       \* quote ids
  Keys,         \* orders of the store: provider, storeId, externalOrderId
  Procs,        \* requests the API serves at the same time
  Faults        \* what may go wrong, out of AllFaults

AllFaults == {"evict", "break", "insertFails", "commitLost"}

ASSUME FaultsAssumption == Faults \subseteq AllFaults
ASSUME StoreAssumption  == Store \notin Customers

VARIABLES
  quote,        \* the quotes made: who owns them, how much time is left
  redis,        \* the ids of the quotes Redis holds
  orders,       \* the rows of orders, with their external link
  req           \* what each request is doing

intakeVars == <<quote, redis, orders, req>>
-----------------------------------------------------------------------------
Users == Customers \cup {Store}

\* More than a second left; less than a second left; past expiresAt.
Life == {"fresh", "closing", "expired"}

QuoteRow == [owner : Users, life : Life]

\* nth tells orders made from one quote apart.
OrderRow == [quote : Quotes, nth : Nat, owner : Users, key : Keys \cup {None}]

ASSUME NoneAssumption == None \notin Keys \cup QuoteRow \cup OrderRow

\* ok, duplicate, failed: answered.  dead: died without an answer.
Done == {"ok", "duplicate", "failed", "dead"}
Step == {"idle", "find", "quote", "findAgain", "see", "take", "insert", "restore"} \cup Done

Request ==
  [step : Step, user : Users \cup {None}, q : Quotes \cup {None},
   key : Keys \cup {None}, got : OrderRow \cup {None}]

\* A request that goes to step s first.
Arrived(s, u, q, e) == [step |-> s, user |-> u, q |-> q, key |-> e, got |-> None]

NoRequest == Arrived("idle", None, None, None)

IntakeTypeOK ==
  /\ quote \in [Quotes -> QuoteRow \cup {None}]
  /\ redis \subseteq {q \in Quotes : quote[q] # None}
  /\ orders \subseteq OrderRow
  /\ req \in [Procs -> Request]

IntakeInit ==
  /\ quote = [q \in Quotes |-> None]
  /\ redis = {}
  /\ orders = {}
  /\ req = [p \in Procs |-> NoRequest]
-----------------------------------------------------------------------------
At(p, step) == req[p].step = step

GoTo(p, next) == req' = [req EXCEPT ![p].step = next]

Fail(p) == GoTo(p, "failed")

\* The orders imported for a key of the store.
Linked(e) == {o \in orders : o.key = e}

\* The result of an import that found the order already there.
AnswerExisting(p) ==
  \E o \in Linked(req[p].key) :
    req' = [req EXCEPT ![p].step = "duplicate", ![p].got = o]

\* createFromSnapshots, when it gets as far as Redis.
MakeQuote(u, q) ==
  /\ quote[q] = None
  /\ quote' = [quote EXCEPT ![q] = [owner |-> u, life |-> "fresh"]]
  /\ redis' = redis \cup {q}
-----------------------------------------------------------------------------
(* Requests arrive. *)

\* A customer asks for a quote; the request writes nothing but the quote.
AskQuote(u) ==
  /\ \E q \in Quotes : MakeQuote(u, q)
  /\ UNCHANGED <<orders, req>>

\* A customer places an order with a quote, not always their own.
PlaceOrder(p, u, q) ==
  /\ req[p] = NoRequest
  /\ quote[q] # None
  /\ req' = [req EXCEPT ![p] = Arrived("see", u, q, None)]
  /\ UNCHANGED <<quote, redis, orders>>

\* The store sends order e.
SendKey(p, e) ==
  /\ req[p] = NoRequest
  /\ req' = [req EXCEPT ![p] = Arrived("find", Store, None, e)]
-----------------------------------------------------------------------------
(* The import of a store's order, up to the consumption of its quote. *)

FindExisting(p) ==
  /\ At(p, "find") \/ At(p, "findAgain")
  /\ \/ AnswerExisting(p)
     \/ /\ Linked(req[p].key) = {}
        /\ GoTo(p, IF At(p, "find") THEN "quote" ELSE "see")
  /\ UNCHANGED <<quote, redis, orders>>

\* The quote of an import; outside the service area, without a route or a
\* pricing rule there is none.
QuoteImport(p) ==
  /\ At(p, "quote")
  /\ \/ \E q \in Quotes :
          /\ MakeQuote(Store, q)
          /\ req' = [req EXCEPT ![p].step = "findAgain", ![p].q = q]
     \/ Fail(p) /\ UNCHANGED <<quote, redis>>
  /\ UNCHANGED orders
-----------------------------------------------------------------------------
(* consumeLockedQuote: read, check the owner, read and delete at once.     *)

\* (Slip: the owner is not checked before the quote is deleted.)
SeeQuoteOfAnyone(p) ==
  /\ At(p, "see")
  /\ IF req[p].q \in redis THEN GoTo(p, "take") ELSE Fail(p)
  /\ UNCHANGED <<quote, redis, orders>>

SeeQuote(p) ==
  /\ At(p, "see")
  /\ LET q == req[p].q IN
       IF q \in redis /\ quote[q].owner = req[p].user THEN GoTo(p, "take") ELSE Fail(p)
  /\ UNCHANGED <<quote, redis, orders>>

\* (Slip: the quote read before is used, and the key deleted, not getDel'd.)
TakeQuoteSeen(p) ==
  /\ At(p, "take")
  /\ LET q == req[p].q IN
       /\ redis' = redis \ {q}
       /\ IF quote[q].life # "expired" THEN GoTo(p, "insert") ELSE Fail(p)
  /\ UNCHANGED <<quote, orders>>

TakeQuote(p) ==
  /\ At(p, "take")
  /\ LET q == req[p].q IN
       /\ redis' = redis \ {q}
       /\ IF q \in redis /\ quote[q].owner = req[p].user /\ quote[q].life # "expired"
          THEN GoTo(p, "insert") ELSE Fail(p)
  /\ UNCHANGED <<quote, orders>>
-----------------------------------------------------------------------------
(* The insert of the order, its payment, its events and its link. *)

NewOrder(p) ==
  [quote |-> req[p].q, owner |-> req[p].user, key |-> req[p].key,
   nth   |-> Cardinality({o \in orders : o.quote = req[p].q})]

\* (Slip: no unique index over the external link.)
IsUniqueAlways(p) == TRUE

\* The unique index over provider, storeId and externalOrderId.
IsUnique(p) == req[p].key = None \/ Linked(req[p].key) = {}

\* (Slip: the insert is not awaited before it is answered.)
InsertOrderUnawaited(p) ==
  /\ At(p, "insert")
  /\ req' = [req EXCEPT ![p].step = "ok", ![p].got = NewOrder(p)]
  /\ orders' = IF IsUnique(p) THEN orders \cup {NewOrder(p)} ELSE orders
  /\ UNCHANGED <<quote, redis>>

InsertOrder(p) ==
  /\ At(p, "insert")
  /\ \/ /\ IsUnique(p)
        /\ orders' = orders \cup {NewOrder(p)}
        /\ req' = [req EXCEPT ![p].step = "ok", ![p].got = NewOrder(p)]
     \/ /\ IsUnique(p) /\ "commitLost" \in Faults
        /\ orders' = orders \cup {NewOrder(p)}
        /\ GoTo(p, "restore")
     \/ /\ ~IsUnique(p) \/ "insertFails" \in Faults
        /\ GoTo(p, "restore")
        /\ UNCHANGED orders
  /\ UNCHANGED <<quote, redis>>

\* The catch block: SET NX with the whole seconds that are left, then throw.
RestoreQuote(p) ==
  /\ At(p, "restore")
  /\ redis' = IF quote[req[p].q].life = "fresh" THEN redis \cup {req[p].q} ELSE redis
  /\ Fail(p)
  /\ UNCHANGED <<quote, orders>>
-----------------------------------------------------------------------------
(* The environment. *)

\* Time passes for a quote.
Age(q) ==
  /\ quote[q] # None
  /\ \/ quote[q].life = "fresh" /\ quote' = [quote EXCEPT ![q].life = "closing"]
     \/ quote[q].life = "closing" /\ quote' = [quote EXCEPT ![q].life = "expired"]
  /\ UNCHANGED <<redis, orders, req>>

\* The key of a quote goes: its time to live, cut to whole seconds when it was
\* restored, is over, or Redis is short of memory (allkeys-lru).
Evict(q) ==
  /\ q \in redis
  /\ quote[q].life # "fresh" \/ "evict" \in Faults
  /\ redis' = redis \ {q}
  /\ UNCHANGED <<quote, orders, req>>

\* A request ends at any await: a read throws, or the process dies.
Break(p) ==
  /\ "break" \in Faults
  /\ ~At(p, "idle") /\ req[p].step \notin Done
  /\ GoTo(p, "failed") \/ GoTo(p, "dead")
  /\ UNCHANGED <<quote, redis, orders>>

Serve(p) ==
  \/ FindExisting(p) \/ QuoteImport(p) \/ SeeQuote(p) \/ TakeQuote(p)
  \/ InsertOrder(p) \/ RestoreQuote(p)

\* Everything but the store.
IntakeNext ==
  \/ \E u \in Customers : AskQuote(u) \/ \E p \in Procs, q \in Quotes : PlaceOrder(p, u, q)
  \/ \E p \in Procs : Serve(p) \/ Break(p)
  \/ \E q \in Quotes : Age(q) \/ Evict(q)
-----------------------------------------------------------------------------
(* Properties. *)

Holds(p, q) == req[p].q = q /\ req[p].step \in {"insert", "restore"}

\* Somebody can still turn q into an order.
Live(q) == q \in redis \/ \E p \in Procs : Holds(p, q)

Used(q) == \E o \in orders : o.quote = q

\* However often and however concurrently a store sends an order, it is
\* imported once.
ImportedOnce == \A e \in Keys : \A o1, o2 \in Linked(e) : o1 = o2

\* A quote with time left is lost only to an eviction or to a request that
\* breaks off while it holds it: not to an insert that fails, to somebody
\* else's request for it, or to another import of the same order.
QuoteNotLost ==
  [][\A q \in Quotes :
       Live(q) /\ quote[q].life = "fresh" /\ ~Live(q)' =>
         Used(q)' \/ Evict(q) \/ \E p \in Procs : Holds(p, q) /\ Break(p)]_intakeVars

\* The quotes as vouchers; an order made from a quote that is still live, or
\* two orders from one quote, are no state of a voucher.
voucherOf(q) ==
  IF quote[q] = None THEN "unmade"
  ELSE IF Used(q) THEN (IF Live(q) THEN "used and open" ELSE "used")
  ELSE (IF Live(q) THEN "open" ELSE "gone")

V == INSTANCE Voucher WITH voucher <- [q \in Quotes |-> voucherOf(q)]

\* Quotes are vouchers: used at most once, and never open again after that,
\* whatever requests for one quote interleave, fail and restore it.
QuotesAreVouchers == V!Spec
=============================================================================
