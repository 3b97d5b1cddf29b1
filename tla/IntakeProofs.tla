---------------------------- MODULE IntakeProofs ----------------------------
(***************************************************************************)
(* Proofs about the intake and the store's plugin, for any number of       *)
(* customers, quotes, orders of the store, requests and PHP processes, and *)
(* any faults: types, the uniqueness of imports, what the store writes     *)
(* down, and that no quote is lost without a cause.  Without lost commits, *)
(* quotes are vouchers.                                                    *)
(***************************************************************************)
EXTENDS Connector, FiniteSetTheorems, TLAPS

\* The types, and that only finitely many orders were ever made.
Types == TypeOK /\ IsFiniteSet(orders)

\* The unique index does its work.
OneLinkPerKey ==
  \A o1, o2 \in orders : o1.key # None /\ o1.key = o2.key => o1 = o2

\* An import answered with an order names a committed order of its key.
AnswersTrue ==
  \A p \in Procs : req[p].step \in {"ok", "duplicate"} /\ req[p].key # None =>
    req[p].got \in orders /\ req[p].got.key = req[p].key

\* A request at work has its user, and its quote once it needs one.
Ready(r, quotes) ==
  /\ r.step \notin Done \cup {"idle"} => r.user \in Users
  /\ r.step \in {"findAgain", "see", "take", "insert", "restore"} =>
       r.q \in Quotes /\ quotes[r.q] # None

RequestsReady == \A p \in Procs : Ready(req[p], quote)

\* A PHP process waits for a request of its own, which imports its order.
WaitsForOwn ==
  \A w \in Workers : worker[w].step = "send" =>
    /\ worker[w].p \in Procs /\ worker[w].e \in Keys
    /\ req[worker[w].p] # NoRequest /\ req[worker[w].p].key = worker[w].e
    /\ \A x \in Workers : worker[x].step = "send" /\ worker[x].p = worker[w].p => x = w

\* Only a process that has something to do for an order is not at rest.
BusyWithOrder == \A w \in Workers :
  /\ worker[w].step # "idle" => worker[w].e \in Keys
  /\ worker[w].step \in {"assign", "show"} => worker[w].c \in Couriers

\* A courier shown, or about to be, was assigned by the API.
ShownTrue ==
  /\ ShownWasAssigned
  /\ \A w \in Workers : worker[w].step = "show" => worker[w].c \in dispatched[worker[w].e]

MetaTrue == \A e \in Keys : meta[e] # None => meta[e] \in orders /\ meta[e].key = e

StoreInv ==
  /\ Types /\ OneLinkPerKey /\ AnswersTrue /\ RequestsReady
  /\ WaitsForOwn /\ BusyWithOrder /\ ShownTrue /\ MetaTrue
-----------------------------------------------------------------------------
LEMMA InitStoreInv == Init => StoreInv
  <1> SUFFICES ASSUME Init PROVE StoreInv
    OBVIOUS
  <1>1. TypeOK
    BY DEF Init, IntakeInit, TypeOK, IntakeTypeOK, NoRequest, Arrived, Request, Step, Done,
           Resting, WorkerState, WorkerStep
  <1>2. IsFiniteSet(orders)
    BY FS_EmptySet DEF Init, IntakeInit
  <1> QED
    BY <1>1, <1>2 DEF Init, IntakeInit, StoreInv, Types, OneLinkPerKey, AnswersTrue,
       RequestsReady, Ready, WaitsForOwn, BusyWithOrder, ShownTrue, ShownWasAssigned, MetaTrue, NoRequest, Arrived, Resting

\* A step of request p that leaves the store alone: p stays a request of its
\* key, new orders respect the index, and an answer names a committed order.
LEMMA RequestStep ==
  ASSUME StoreInv, NEW p \in Procs, NEW r \in Request, req' = [req EXCEPT ![p] = r],
         r.step # "idle", r.key = req[p].key, Ready(r, quote'),
         r.step \in {"ok", "duplicate"} /\ r.key # None =>
           r.got \in orders' /\ r.got.key = r.key,
         quote' \in [Quotes -> QuoteRow \cup {None}],
         \A q \in Quotes : quote[q] # None => quote'[q] # None,
         redis' \subseteq {q \in Quotes : quote'[q] # None},
         orders \subseteq orders', orders' \subseteq OrderRow, IsFiniteSet(orders'),
         OneLinkPerKey', UNCHANGED storeVars
  PROVE  StoreInv'
  <1>1. Types'
    BY DEF StoreInv, Types, TypeOK, IntakeTypeOK, storeVars
  <1>2. AnswersTrue'
    BY DEF StoreInv, Types, TypeOK, IntakeTypeOK, AnswersTrue
  <1>3. r # NoRequest
    BY DEF NoRequest, Arrived
  <1>4. WaitsForOwn'
    BY <1>3 DEF StoreInv, Types, TypeOK, IntakeTypeOK, WaitsForOwn, storeVars
  <1>5. BusyWithOrder' /\ ShownTrue' /\ MetaTrue'
    BY DEF StoreInv, BusyWithOrder, ShownTrue, ShownWasAssigned, MetaTrue, storeVars
  <1>6. RequestsReady'
    <2> SUFFICES ASSUME NEW x \in Procs PROVE Ready(req'[x], quote')
      BY DEF RequestsReady, Ready
    <2>1. CASE x = p
      BY <2>1 DEF StoreInv, Types, TypeOK, IntakeTypeOK
    <2>2. CASE x # p
      BY <2>2 DEF StoreInv, Types, TypeOK, IntakeTypeOK, RequestsReady, Ready
    <2> QED
      BY <2>1, <2>2
  <1> QED
    BY <1>1, <1>2, <1>4, <1>5, <1>6 DEF StoreInv

\* A step that only moves request p on, or makes it fail.
LEMMA MoveOnStep ==
  ASSUME StoreInv, NEW p \in Procs, NEW s \in Step \ {"idle", "ok", "duplicate"},
         GoTo(p, s), Ready([req[p] EXCEPT !.step = s], quote),
         UNCHANGED <<quote, orders>>, redis' \subseteq redis, UNCHANGED storeVars
  PROVE  StoreInv'
  <1> DEFINE r == [req[p] EXCEPT !.step = s]
  <1>1. req[p] \in Request
    BY DEF StoreInv, Types, TypeOK, IntakeTypeOK
  <1>2. r \in Request /\ r.step = s /\ r.key = req[p].key /\ Ready(r, quote')
    BY <1>1 DEF Request, Ready
  <1>3. req' = [req EXCEPT ![p] = r]
    BY DEF GoTo
  <1>4. /\ quote' \in [Quotes -> QuoteRow \cup {None}]
        /\ redis' \subseteq {q \in Quotes : quote'[q] # None}
        /\ orders' \subseteq OrderRow /\ IsFiniteSet(orders') /\ OneLinkPerKey'
    BY DEF StoreInv, Types, TypeOK, IntakeTypeOK, OneLinkPerKey
  <1> HIDE DEF r
  <1> QED
    BY <1>2, <1>3, <1>4, RequestStep

\* A request at work may go to a step that needs no quote, or from one that
\* needs a quote to another.
LEMMA MoveOnReady ==
  ASSUME StoreInv, NEW p \in Procs, NEW s \in Step,
         \/ s \in Done
         \/ s = "quote" /\ req[p].step = "find"
         \/ req[p].step \in {"findAgain", "see", "take", "insert", "restore"}
  PROVE  Ready([req[p] EXCEPT !.step = s], quote)
  <1>1. req[p] \in Request /\ Ready(req[p], quote)
    BY DEF StoreInv, Types, TypeOK, IntakeTypeOK, RequestsReady
  <1> QED
    BY <1>1 DEF Ready, Request, Done

LEMMA MakeQuoteTypes ==
  ASSUME TypeOK, NEW u \in Users, NEW q \in Quotes, MakeQuote(u, q)
  PROVE  /\ quote' \in [Quotes -> QuoteRow \cup {None}]
         /\ redis' \subseteq {x \in Quotes : quote'[x] # None}
         /\ quote'[q] # None /\ \A x \in Quotes : quote[x] # None => quote'[x] # None
  BY NoneAssumption DEF TypeOK, IntakeTypeOK, MakeQuote, QuoteRow, Life

LEMMA FindExistingStep ==
  ASSUME StoreInv, NEW p \in Procs, FindExisting(p), UNCHANGED storeVars
  PROVE  StoreInv'
  <1>1. CASE AnswerExisting(p)
    <2>1. PICK o \in Linked(req[p].key) :
            req' = [req EXCEPT ![p].step = "duplicate", ![p].got = o]
      BY <1>1 DEF AnswerExisting
    <2> DEFINE r == [req[p] EXCEPT !.step = "duplicate", !.got = o]
    <2>2. req[p] \in Request /\ o \in OrderRow /\ o \in orders /\ o.key = req[p].key
      BY DEF StoreInv, Types, TypeOK, IntakeTypeOK, Linked
    <2>3. /\ r \in Request /\ r.step = "duplicate" /\ r.key = req[p].key /\ r.got = o
          /\ Ready(r, quote')
      BY <2>2 DEF Request, Step, Done, Ready
    <2>4. req' = [req EXCEPT ![p] = r]
      BY <2>1
    <2>5. /\ quote' \in [Quotes -> QuoteRow \cup {None}]
          /\ redis' \subseteq {q \in Quotes : quote'[q] # None}
          /\ orders' = orders /\ orders \subseteq OrderRow /\ IsFiniteSet(orders)
          /\ quote' = quote /\ OneLinkPerKey'
      BY DEF FindExisting, StoreInv, Types, TypeOK, IntakeTypeOK, OneLinkPerKey
    <2> HIDE DEF r
    <2> QED
      BY <2>2, <2>3, <2>4, <2>5, RequestStep
  <1>2. CASE GoTo(p, IF At(p, "find") THEN "quote" ELSE "see")
    <2>1. CASE At(p, "find")
      <3>1. GoTo(p, "quote") /\ req[p].step = "find"
        BY <1>2, <2>1 DEF At
      <3>2. "quote" \in Step \ {"idle", "ok", "duplicate"}
        BY DEF Step
      <3>3. Ready([req[p] EXCEPT !.step = "quote"], quote)
        BY <3>1, <3>2, MoveOnReady
      <3> QED
        BY <3>1, <3>2, <3>3, MoveOnStep DEF FindExisting
    <2>2. CASE At(p, "findAgain") /\ ~At(p, "find")
      <3>1. GoTo(p, "see") /\ req[p].step = "findAgain"
        BY <1>2, <2>2 DEF At
      <3>2. "see" \in Step \ {"idle", "ok", "duplicate"}
        BY DEF Step
      <3>3. Ready([req[p] EXCEPT !.step = "see"], quote)
        BY <3>1, <3>2, MoveOnReady
      <3> QED
        BY <3>1, <3>2, <3>3, MoveOnStep DEF FindExisting
    <2> QED
      BY <2>1, <2>2 DEF FindExisting
  <1> QED
    BY <1>1, <1>2 DEF FindExisting

LEMMA QuoteImportStep ==
  ASSUME StoreInv, NEW p \in Procs, QuoteImport(p), UNCHANGED storeVars
  PROVE  StoreInv'
  <1>1. CASE Fail(p) /\ UNCHANGED <<quote, redis>>
    <2>1. Ready([req[p] EXCEPT !.step = "failed"], quote)
      BY MoveOnReady DEF Step, Done
    <2> QED
      BY <1>1, <2>1, MoveOnStep DEF Fail, QuoteImport, Step, Done
  <1>2. ASSUME NEW q \in Quotes, MakeQuote(Store, q),
               req' = [req EXCEPT ![p].step = "findAgain", ![p].q = q]
        PROVE  StoreInv'
    <2> DEFINE r == [req[p] EXCEPT !.step = "findAgain", !.q = q]
    <2>1. req[p] \in Request
      BY DEF StoreInv, Types, TypeOK, IntakeTypeOK
    <2>2. r \in Request /\ r.step = "findAgain" /\ r.key = req[p].key /\ r.q = q
      BY <2>1 DEF Request, Step
    <2>3. req' = [req EXCEPT ![p] = r]
      BY <1>2
    <2>4. Store \in Users
      BY DEF Users
    <2>5. /\ quote' \in [Quotes -> QuoteRow \cup {None}]
          /\ redis' \subseteq {x \in Quotes : quote'[x] # None}
          /\ quote'[q] # None /\ \A x \in Quotes : quote[x] # None => quote'[x] # None
      BY <1>2, <2>4, MakeQuoteTypes DEF StoreInv, Types
    <2>6. /\ orders' = orders /\ orders \subseteq OrderRow /\ IsFiniteSet(orders)
          /\ OneLinkPerKey'
      BY DEF QuoteImport, StoreInv, Types, TypeOK, IntakeTypeOK, OneLinkPerKey
    <2>7. req[p].user \in Users /\ r.user = req[p].user
      BY <2>1 DEF QuoteImport, At, StoreInv, RequestsReady, Ready, Done, Request
    <2>8. Ready(r, quote')
      BY <2>2, <2>5, <2>7 DEF Ready
    <2> HIDE DEF r
    <2> QED
      BY <2>2, <2>3, <2>5, <2>6, <2>8, RequestStep
  <1> QED
    BY <1>1, <1>2 DEF QuoteImport

LEMMA TakeStep ==
  ASSUME StoreInv, NEW p \in Procs, SeeQuote(p) \/ TakeQuote(p) \/ RestoreQuote(p),
         UNCHANGED storeVars
  PROVE  StoreInv'
  <1>0. /\ Ready([req[p] EXCEPT !.step = "failed"], quote)
        /\ Ready([req[p] EXCEPT !.step = "take"], quote)
        /\ Ready([req[p] EXCEPT !.step = "insert"], quote)
    BY MoveOnReady DEF SeeQuote, TakeQuote, RestoreQuote, At, Step, Done
  <1>1. CASE SeeQuote(p)
    BY <1>0, <1>1, MoveOnStep DEF SeeQuote, Fail, Step, Done
  <1>2. CASE TakeQuote(p)
    BY <1>0, <1>2, MoveOnStep DEF TakeQuote, Fail, Step, Done
  <1>3. CASE RestoreQuote(p)
    <2> DEFINE r == [req[p] EXCEPT !.step = "failed"]
    <2>1. req[p] \in Request
      BY DEF StoreInv, Types, TypeOK, IntakeTypeOK
    <2>2. r \in Request /\ r.step = "failed" /\ r.key = req[p].key
      BY <2>1 DEF Request, Step, Done
    <2>3. req' = [req EXCEPT ![p] = r]
      BY <1>3 DEF RestoreQuote, Fail, GoTo
    <2>4. redis' \subseteq {q \in Quotes : quote[q] # None}
      <3>1. req[p].q \in Quotes /\ quote[req[p].q] # None
        BY <1>3 DEF RestoreQuote, At, StoreInv, RequestsReady, Ready
      <3> QED
        BY <1>3, <3>1 DEF RestoreQuote, StoreInv, Types, TypeOK, IntakeTypeOK
    <2>5. Ready(r, quote')
      BY <1>0, <1>3 DEF RestoreQuote
    <2> HIDE DEF r
    <2> QED
      BY <2>5, <1>3, <2>2, <2>3, <2>4, RequestStep
         DEF RestoreQuote, StoreInv, Types, TypeOK, IntakeTypeOK, OneLinkPerKey
  <1> QED
    BY <1>1, <1>2, <1>3

LEMMA InsertOrderStep ==
  ASSUME StoreInv, NEW p \in Procs, InsertOrder(p), UNCHANGED storeVars
  PROVE  StoreInv'
  <1> DEFINE o == NewOrder(p)
             r == [req[p] EXCEPT !.step = "ok", !.got = o]
             x == [req[p] EXCEPT !.step = "restore"]
  <1>1. /\ req[p] \in Request /\ orders \subseteq OrderRow /\ IsFiniteSet(orders)
        /\ req[p].q \in Quotes /\ req[p].user \in Users /\ quote[req[p].q] # None
    BY DEF InsertOrder, At, StoreInv, Types, TypeOK, IntakeTypeOK, RequestsReady, Ready, Done
  <1>2. Cardinality({y \in orders : y.quote = req[p].q}) \in Nat
    BY <1>1, FS_Subset, FS_CardinalityType
  <1>3. o \in OrderRow /\ o.key = req[p].key
    BY <1>1, <1>2 DEF NewOrder, OrderRow, Request
  <1>4. /\ r \in Request /\ r.step = "ok" /\ r.key = req[p].key /\ r.got = o
        /\ Ready(r, quote')
    BY <1>1, <1>3 DEF Request, Step, Done, Ready
  <1>5. /\ x \in Request /\ x.step = "restore" /\ x.key = req[p].key
        /\ Ready(x, quote)
    BY <1>1 DEF Request, Step, Ready
  <1>6. IsFiniteSet(orders \cup {o}) /\ orders \cup {o} \subseteq OrderRow
    BY <1>1, <1>3, FS_AddElement
  <1>7. ASSUME IsUnique(p), orders' = orders \cup {o} PROVE OneLinkPerKey'
    BY <1>3, <1>7 DEF StoreInv, OneLinkPerKey, IsUnique, Linked
  <1>8. /\ quote' = quote /\ redis' = redis
        /\ quote \in [Quotes -> QuoteRow \cup {None}]
        /\ redis \subseteq {q \in Quotes : quote[q] # None}
    BY DEF InsertOrder, StoreInv, Types, TypeOK, IntakeTypeOK
  <1>9. CASE IsUnique(p) /\ orders' = orders \cup {NewOrder(p)}
             /\ req' = [req EXCEPT ![p].step = "ok", ![p].got = NewOrder(p)]
    <2>1. req' = [req EXCEPT ![p] = r] /\ o \in orders'
      BY <1>9
    <2> HIDE DEF o, r
    <2> QED
      BY <1>3, <1>4, <1>6, <1>7, <1>8, <1>9, <2>1, RequestStep DEF o
  <1>10. CASE IsUnique(p) /\ orders' = orders \cup {NewOrder(p)} /\ GoTo(p, "restore")
    <2>1. req' = [req EXCEPT ![p] = x]
      BY <1>10 DEF GoTo
    <2> HIDE DEF x
    <2> QED
      BY <1>5, <1>6, <1>7, <1>8, <1>10, <2>1, RequestStep DEF o
  <1>11. CASE GoTo(p, "restore") /\ UNCHANGED orders
    BY <1>5, <1>8, <1>11, MoveOnStep DEF x, Step, Done
  <1> QED
    BY <1>9, <1>10, <1>11 DEF InsertOrder

LEMMA IntakeStep ==
  ASSUME StoreInv, IntakeNext, UNCHANGED storeVars
  PROVE  StoreInv'
  <1>1. ASSUME NEW u \in Customers, AskQuote(u) PROVE StoreInv'
    <2>1. PICK q \in Quotes : MakeQuote(u, q)
      BY <1>1 DEF AskQuote
    <2>2. /\ quote' \in [Quotes -> QuoteRow \cup {None}]
          /\ redis' \subseteq {x \in Quotes : quote'[x] # None}
          /\ \A x \in Quotes : quote[x] # None => quote'[x] # None
      BY <2>1, MakeQuoteTypes DEF StoreInv, Types, Users
    <2> QED
      BY <1>1, <2>2 DEF AskQuote, StoreInv, Types, TypeOK, IntakeTypeOK, OneLinkPerKey,
         AnswersTrue, RequestsReady, Ready, WaitsForOwn, BusyWithOrder, ShownTrue, ShownWasAssigned,
         MetaTrue, storeVars
  <1>2. ASSUME NEW p \in Procs, NEW u \in Customers, NEW q \in Quotes, PlaceOrder(p, u, q)
        PROVE  StoreInv'
    <2> DEFINE r == Arrived("see", u, q, None)
    <2>0. r = [step |-> "see", user |-> u, q |-> q, key |-> None, got |-> None]
      BY DEF Arrived
    <2>1. /\ r \in Request /\ r.step = "see" /\ r.key = None /\ req[p].key = None
          /\ Ready(r, quote)
      <3> HIDE DEF r
      <3>1. req[p].key = None /\ quote[q] # None
        BY <1>2 DEF PlaceOrder, NoRequest, Arrived
      <3> QED
        BY <2>0, <3>1 DEF Request, Step, Users, Ready
    <2>2. req' = [req EXCEPT ![p] = r] /\ UNCHANGED <<quote, redis, orders>>
      BY <1>2 DEF PlaceOrder
    <2>3. /\ quote' \in [Quotes -> QuoteRow \cup {None}]
          /\ redis' \subseteq {x \in Quotes : quote'[x] # None}
          /\ orders' \subseteq OrderRow /\ IsFiniteSet(orders') /\ OneLinkPerKey'
      BY <2>2 DEF StoreInv, Types, TypeOK, IntakeTypeOK, OneLinkPerKey
    <2> HIDE DEF r
    <2> QED
      BY <2>1, <2>2, <2>3, RequestStep
  <1>3. ASSUME NEW p \in Procs, Serve(p) PROVE StoreInv'
    BY <1>3, FindExistingStep, QuoteImportStep, TakeStep, InsertOrderStep DEF Serve
  <1>4. ASSUME NEW p \in Procs, Break(p) PROVE StoreInv'
    BY <1>4, MoveOnReady, MoveOnStep DEF Break, Step, Done
  <1>5. ASSUME NEW q \in Quotes, Age(q) PROVE StoreInv'
    <2>1. /\ quote' \in [Quotes -> QuoteRow \cup {None}]
          /\ \A x \in Quotes : quote[x] # None <=> quote'[x] # None
      <3>1. /\ quote \in [Quotes -> QuoteRow \cup {None}] /\ quote[q] \in QuoteRow
            /\ None \notin QuoteRow
        BY <1>5, NoneAssumption DEF Age, StoreInv, Types, TypeOK, IntakeTypeOK
      <3>2. PICK l \in Life : quote' = [quote EXCEPT ![q].life = l]
        BY <1>5 DEF Age, Life
      <3>3. [quote[q] EXCEPT !.life = l] \in QuoteRow
        BY <3>1 DEF QuoteRow
      <3> QED
        BY <3>1, <3>2, <3>3
    <2> QED
      BY <1>5, <2>1 DEF Age, StoreInv, Types, TypeOK, IntakeTypeOK, OneLinkPerKey,
         AnswersTrue, RequestsReady, Ready, WaitsForOwn, BusyWithOrder, ShownTrue, ShownWasAssigned,
         MetaTrue, storeVars
  <1>6. ASSUME NEW q \in Quotes, Evict(q) PROVE StoreInv'
    BY <1>6 DEF Evict, StoreInv, Types, TypeOK, IntakeTypeOK, OneLinkPerKey,
       AnswersTrue, RequestsReady, Ready, WaitsForOwn, BusyWithOrder, ShownTrue, ShownWasAssigned,
         MetaTrue, storeVars
  <1> QED
    BY <1>1, <1>2, <1>3, <1>4, <1>5, <1>6 DEF IntakeNext

\* The steps of the store.  Those that touch no request keep everything but
\* what they say about one PHP process or one order of the store.
LEMMA PostStep ==
  ASSUME StoreInv, NEW w \in Workers, NEW e \in Keys, NEW c \in Couriers \cup {None},
         Post(w, e, c), jobs' \subseteq Keys
  PROVE  StoreInv'
  <1>1. PICK p \in Procs :
          /\ SendKey(p, e)
          /\ worker' = [worker EXCEPT ![w] = [step |-> "send", e |-> e, p |-> p, c |-> c]]
    BY DEF Post
  <1> DEFINE r == Arrived("find", Store, None, e)
  <1>2. r = [step |-> "find", user |-> Store, q |-> None, key |-> e, got |-> None]
    BY DEF Arrived
  <1>3. req' = [req EXCEPT ![p] = r] /\ req[p] = NoRequest
    BY <1>1 DEF SendKey
  <1> HIDE DEF r
  <1>4. r \in Request /\ Ready(r, quote) /\ r # NoRequest /\ r.key = e /\ r.step = "find"
    BY <1>2 DEF Request, Step, Users, Ready, NoRequest, Arrived
  <1>5. UNCHANGED <<quote, redis, orders, meta, shown, dispatched>>
    BY DEF Post
  <1>6. Types'
    <2>1. [step |-> "send", e |-> e, p |-> p, c |-> c] \in WorkerState
      BY DEF WorkerState, WorkerStep
    <2> QED
      BY <1>1, <1>3, <1>4, <1>5, <2>1 DEF StoreInv, Types, TypeOK, IntakeTypeOK
  <1>7. OneLinkPerKey' /\ MetaTrue' /\ AnswersTrue' /\ RequestsReady'
    BY <1>3, <1>4, <1>5 DEF StoreInv, Types, TypeOK, IntakeTypeOK, OneLinkPerKey, MetaTrue,
       AnswersTrue, RequestsReady, Ready
  <1>8. WaitsForOwn' /\ BusyWithOrder'
    BY <1>1, <1>3, <1>4 DEF StoreInv, Types, TypeOK, IntakeTypeOK, WaitsForOwn, BusyWithOrder
  <1>9. ShownTrue'
    BY <1>1, <1>5 DEF StoreInv, Types, TypeOK, ShownTrue, ShownWasAssigned
  <1> QED
    BY <1>6, <1>7, <1>8, <1>9 DEF StoreInv

LEMMA WorkerOnlyStep ==
  ASSUME StoreInv, NEW w \in Workers, NEW s \in WorkerState, worker' = [worker EXCEPT ![w] = s],
         s.step # "send", s.step # "idle" => s.e \in Keys,
         s.step \in {"assign", "show"} => s.c \in Couriers, ShownTrue',
         UNCHANGED <<intakeVars, meta>>, jobs' \subseteq Keys,
         shown' \in [Keys -> Couriers \cup {None}], dispatched' \in [Keys -> SUBSET Couriers]
  PROVE  StoreInv'
  BY DEF StoreInv, Types, TypeOK, IntakeTypeOK, OneLinkPerKey, AnswersTrue, RequestsReady, Ready,
     WaitsForOwn, BusyWithOrder, MetaTrue, intakeVars

LEMMA RestIsState == Resting \in WorkerState /\ Resting.step = "idle"
  BY DEF Resting, WorkerState, WorkerStep

LEMMA AfterSendState ==
  ASSUME StoreInv, NEW w \in Workers, worker[w].step = "send", NEW m, AfterSend(w, m)
  PROVE  \E s \in WorkerState :
           /\ worker' = [worker EXCEPT ![w] = s]
           /\ s.step \in {"idle", "assign"} /\ (s.step # "idle" => s.e \in Keys)
           /\ s.step = "assign" => s.c \in Couriers
  <1>1. worker[w] \in WorkerState /\ worker[w].e \in Keys
    BY DEF StoreInv, Types, TypeOK, BusyWithOrder
  <1>2. CASE Rest(w)
    BY <1>2, RestIsState DEF Rest
  <1>3. CASE /\ worker[w].c # None
             /\ worker' = [worker EXCEPT ![w].step = "assign", ![w].p = None]
    <2> DEFINE s == [worker[w] EXCEPT !.step = "assign", !.p = None]
    <2>1. s \in WorkerState /\ s.step = "assign" /\ s.e = worker[w].e /\ s.c \in Couriers
      BY <1>1, <1>3 DEF WorkerState, WorkerStep
    <2>2. worker' = [worker EXCEPT ![w] = s]
      BY <1>3
    <2> HIDE DEF s
    <2> QED
      BY <1>1, <2>1, <2>2
  <1> QED
    BY <1>2, <1>3 DEF AfterSend

LEMMA ReadAnswerStep ==
  ASSUME StoreInv, NEW w \in Workers, ReadAnswer(w)
  PROVE  StoreInv'
  <1> DEFINE p == worker[w].p
             e == worker[w].e
  <1>1. /\ worker[w].step = "send" /\ p \in Procs /\ e \in Keys
        /\ req[p].key = e /\ req[p] \in Request
        /\ req[p].step \in {"ok", "duplicate", "failed"}
    BY DEF ReadAnswer, StoreInv, WaitsForOwn, Types, TypeOK, IntakeTypeOK
  <1>2. /\ req' = [req EXCEPT ![p] = NoRequest]
        /\ UNCHANGED <<quote, redis, orders, jobs, shown, dispatched>>
        /\ meta' = IF req[p].step = "failed" THEN meta ELSE [meta EXCEPT ![e] = req[p].got]
    BY DEF ReadAnswer
  <1>3. PICK s \in WorkerState : /\ worker' = [worker EXCEPT ![w] = s]
                                 /\ s.step \in {"idle", "assign"}
                                 /\ s.step # "idle" => s.e \in Keys
                                 /\ s.step = "assign" => s.c \in Couriers
    BY <1>1, AfterSendState DEF ReadAnswer
  <1>4. req[p].step # "failed" => req[p].got \in orders /\ req[p].got.key = e
    BY <1>1, NoneAssumption DEF StoreInv, AnswersTrue
  <1> HIDE DEF p, e
  <1>5. NoRequest \in Request /\ NoRequest.step = "idle"
    BY DEF NoRequest, Arrived, Request, Step
  <1>6. Types'
    BY <1>1, <1>2, <1>3, <1>4, <1>5 DEF StoreInv, Types, TypeOK, IntakeTypeOK
  <1>7. OneLinkPerKey' /\ MetaTrue'
    BY <1>1, <1>2, <1>4 DEF StoreInv, Types, TypeOK, OneLinkPerKey, MetaTrue
  <1>8. AnswersTrue' /\ RequestsReady'
    BY <1>2, <1>5 DEF StoreInv, Types, TypeOK, IntakeTypeOK, AnswersTrue, RequestsReady, Ready
  <1>9. WaitsForOwn' /\ BusyWithOrder'
    BY <1>1, <1>2, <1>3 DEF p, e, StoreInv, Types, TypeOK, IntakeTypeOK, WaitsForOwn, BusyWithOrder
  <1>10. ShownTrue'
    BY <1>2, <1>3 DEF StoreInv, Types, TypeOK, ShownTrue, ShownWasAssigned
  <1> QED
    BY <1>6, <1>7, <1>8, <1>9, <1>10 DEF StoreInv

LEMMA LeaveStep ==
  ASSUME StoreInv, NEW p \in Procs, Leave(p)
  PROVE  StoreInv'
  <1>1. /\ req' = [req EXCEPT ![p] = NoRequest]
        /\ UNCHANGED <<quote, redis, orders, jobs, meta, shown, dispatched, worker>>
        /\ \A w \in Workers : worker[w].p # p
    BY DEF Leave, storeVars
  <1>2. NoRequest \in Request /\ NoRequest.step = "idle"
    BY DEF NoRequest, Arrived, Request, Step
  <1>3. Types' /\ OneLinkPerKey' /\ MetaTrue' /\ BusyWithOrder' /\ ShownTrue'
    BY <1>1, <1>2 DEF StoreInv, Types, TypeOK, IntakeTypeOK, OneLinkPerKey, MetaTrue,
       BusyWithOrder, ShownTrue, ShownWasAssigned
  <1>4. AnswersTrue' /\ RequestsReady'
    BY <1>1, <1>2 DEF StoreInv, Types, TypeOK, IntakeTypeOK, AnswersTrue, RequestsReady, Ready
  <1>5. WaitsForOwn'
    BY <1>1 DEF StoreInv, Types, TypeOK, IntakeTypeOK, WaitsForOwn
  <1> QED
    BY <1>3, <1>4, <1>5 DEF StoreInv

\* Nothing but jobs and dispatched changes.
LEMMA NotesStep ==
  ASSUME StoreInv, UNCHANGED <<intakeVars, meta, shown, worker>>, jobs' \subseteq Keys,
         dispatched' \in [Keys -> SUBSET Couriers],
         \A e \in Keys : dispatched[e] \subseteq dispatched'[e]
  PROVE  StoreInv'
  <1>1. ShownTrue'
    BY DEF StoreInv, Types, TypeOK, BusyWithOrder, ShownTrue, ShownWasAssigned
  <1> QED
    BY <1>1 DEF StoreInv, Types, TypeOK, IntakeTypeOK, OneLinkPerKey, AnswersTrue,
       RequestsReady, Ready, WaitsForOwn, BusyWithOrder, MetaTrue, intakeVars

LEMMA StoreStep ==
  ASSUME StoreInv, StoreNext
  PROVE  StoreInv'
  <1>0. /\ jobs \subseteq Keys /\ shown \in [Keys -> Couriers \cup {None}]
        /\ dispatched \in [Keys -> SUBSET Couriers]
        /\ \A w \in Workers : worker[w] \in WorkerState
        /\ \A w \in Workers : worker[w].step # "idle" => worker[w].e \in Keys
        /\ \A w \in Workers : worker[w].step \in {"assign", "show"} => worker[w].c \in Couriers
        /\ worker \in [Workers -> WorkerState] /\ ShownTrue
    BY DEF StoreInv, Types, TypeOK, BusyWithOrder
  <1>1. ASSUME NEW e \in Keys, StatusChanged(e) PROVE StoreInv'
    BY <1>0, <1>1, NotesStep DEF StatusChanged
  <1>2. ASSUME NEW e \in Keys, NEW c \in Couriers, AssignElsewhere(e, c) PROVE StoreInv'
    BY <1>0, <1>2, NotesStep DEF AssignElsewhere
  <1>3. ASSUME NEW w \in Workers, NEW e \in Keys, AsyncSend(w, e) PROVE StoreInv'
    <2>1. jobs' \subseteq Keys
      BY <1>0, <1>3 DEF AsyncSend
    <2>2. CASE Post(w, e, None)
      BY <2>1, <2>2, PostStep
    <2>3. CASE UNCHANGED <<intakeVars, meta, shown, dispatched, worker>>
      BY <1>0, <2>1, <2>3, NotesStep
    <2> QED
      BY <1>3, <2>2, <2>3 DEF AsyncSend
  <1>4. ASSUME NEW w \in Workers, NEW e \in Keys, ManualSend(w, e) PROVE StoreInv'
    BY <1>0, <1>4, PostStep DEF ManualSend
  <1>5. ASSUME NEW w \in Workers, NEW e \in Keys, NEW c \in Couriers, AssignBox(w, e, c)
        PROVE  StoreInv'
    <2>1. CASE Post(w, e, c)
      BY <1>0, <1>5, <2>1, PostStep DEF AssignBox
    <2>2. CASE ~Post(w, e, c)
      <3> DEFINE s == [step |-> "assign", e |-> e, p |-> None, c |-> c]
      <3>1. s \in WorkerState /\ s.step = "assign" /\ s.e = e /\ s.c \in Couriers
        BY DEF WorkerState, WorkerStep
      <3>2. /\ worker' = [worker EXCEPT ![w] = s]
            /\ UNCHANGED <<intakeVars, jobs, meta, shown, dispatched>>
        BY <1>5, <2>2 DEF AssignBox
      <3> HIDE DEF s
      <3>3. ShownTrue'
        BY <1>0, <3>1, <3>2 DEF ShownTrue, ShownWasAssigned
      <3> QED
        BY <1>0, <3>1, <3>2, <3>3, WorkerOnlyStep
    <2> QED
      BY <2>1, <2>2
  <1>6. ASSUME NEW w \in Workers, ReadAnswer(w) PROVE StoreInv'
    BY <1>6, ReadAnswerStep
  <1>7. ASSUME NEW w \in Workers, GiveUp(w) PROVE StoreInv'
    <2>1. PICK s \in WorkerState : /\ worker' = [worker EXCEPT ![w] = s]
                                   /\ s.step \in {"idle", "assign"}
                                   /\ s.step # "idle" => s.e \in Keys
                                   /\ s.step = "assign" => s.c \in Couriers
      BY <1>7, AfterSendState DEF GiveUp
    <2>2. ShownTrue'
      BY <1>0, <1>7, <2>1 DEF GiveUp, ShownTrue, ShownWasAssigned
    <2> QED
      BY <1>0, <1>7, <2>1, <2>2, WorkerOnlyStep DEF GiveUp
  <1>8. ASSUME NEW w \in Workers, AssignCourier(w) PROVE StoreInv'
    <2>1. /\ worker[w].step = "assign" /\ worker[w].e \in Keys /\ worker[w].c \in Couriers
          /\ UNCHANGED <<intakeVars, jobs, meta, shown>>
      BY <1>0, <1>8 DEF AssignCourier
    <2>2. CASE Rest(w) /\ UNCHANGED dispatched
      <3>1. ShownTrue'
        BY <1>0, <2>1, <2>2, RestIsState DEF Rest, ShownTrue, ShownWasAssigned
      <3> QED
        BY <1>0, <2>1, <2>2, <3>1, RestIsState, WorkerOnlyStep DEF Rest
    <2>3. CASE /\ dispatched' = [dispatched EXCEPT ![worker[w].e] = @ \cup {worker[w].c}]
               /\ worker' = [worker EXCEPT ![w].step = "show"]
      <3> DEFINE s == [worker[w] EXCEPT !.step = "show"]
      <3>1. /\ s \in WorkerState /\ s.step = "show" /\ s.e = worker[w].e /\ s.c = worker[w].c
        BY <1>0, <2>1 DEF WorkerState, WorkerStep
      <3>2. worker' = [worker EXCEPT ![w] = s]
        BY <2>3
      <3>3. dispatched' \in [Keys -> SUBSET Couriers]
        BY <1>0, <2>1, <2>3
      <3> HIDE DEF s
      <3>4. ShownTrue'
        BY <1>0, <2>1, <2>3, <3>1, <3>2 DEF ShownTrue, ShownWasAssigned
      <3> QED
        BY <1>0, <2>1, <3>1, <3>2, <3>3, <3>4, WorkerOnlyStep
    <2> QED
      BY <1>8, <2>2, <2>3 DEF AssignCourier
  <1>9. ASSUME NEW w \in Workers, ShowCourier(w) PROVE StoreInv'
    <2>1. /\ worker[w].step = "show" /\ worker[w].e \in Keys /\ worker[w].c \in Couriers
          /\ UNCHANGED <<intakeVars, jobs, meta, dispatched>> /\ Rest(w)
          /\ shown' = [shown EXCEPT ![worker[w].e] = worker[w].c]
      BY <1>0, <1>9 DEF ShowCourier
    <2>2. shown' \in [Keys -> Couriers \cup {None}]
      BY <1>0, <2>1
    <2>3. ShownTrue'
      BY <1>0, <2>1, RestIsState DEF Rest, ShownTrue, ShownWasAssigned
    <2> QED
      BY <1>0, <2>1, <2>2, <2>3, RestIsState, WorkerOnlyStep DEF Rest
  <1>10. ASSUME NEW w \in Workers, WorkerDies(w) PROVE StoreInv'
    <2>1. ShownTrue'
      BY <1>0, <1>10, RestIsState DEF WorkerDies, Rest, ShownTrue, ShownWasAssigned
    <2> QED
      BY <1>0, <1>10, <2>1, RestIsState, WorkerOnlyStep DEF WorkerDies, Rest
  <1>11. ASSUME NEW p \in Procs, Leave(p) PROVE StoreInv'
    BY <1>11, LeaveStep
  <1> QED
    BY <1>1, <1>2, <1>3, <1>4, <1>5, <1>6, <1>7, <1>8, <1>9, <1>10, <1>11 DEF StoreNext

\* The strengthening of the store's invariants is itself an invariant.
THEOREM StoreInvariant == Spec => []StoreInv
  <1>1. Init => StoreInv
    BY InitStoreInv
  <1>2. StoreInv /\ [Next]_vars => StoreInv'
    <2> SUFFICES ASSUME StoreInv, [Next]_vars PROVE StoreInv'
      OBVIOUS
    <2>1. CASE IntakeNext /\ UNCHANGED storeVars
      BY <2>1, IntakeStep
    <2>2. CASE StoreNext
      BY <2>2, StoreStep
    <2>3. CASE UNCHANGED vars
      BY <2>3, NotesStep DEF vars, storeVars, intakeVars, StoreInv, Types, TypeOK
    <2> QED
      BY <2>1, <2>2, <2>3 DEF Next
  <1> QED
    BY <1>1, <1>2, PTL DEF Spec

\* Every variable keeps its type.
THEOREM IntakeTypeCorrect == Spec => []TypeOK
  BY StoreInvariant, PTL DEF StoreInv, Types

\* However many requests import an order of the store, however they interleave
\* and whatever fails, there is one order for it.
THEOREM OrdersImportedOnce == Spec => []ImportedOnce
  <1>1. StoreInv => ImportedOnce
    BY NoneAssumption DEF StoreInv, OneLinkPerKey, ImportedOnce, Linked
  <1> QED
    BY <1>1, StoreInvariant, PTL

\* What the store has written down is the one order there is.
THEOREM StoreKnowsItsOrder == Spec => []MetaNamesTheOrder
  <1>1. StoreInv => MetaNamesTheOrder
    BY NoneAssumption DEF StoreInv, OneLinkPerKey, MetaTrue, MetaNamesTheOrder, Linked
  <1> QED
    BY <1>1, StoreInvariant, PTL

\* The store shows no courier the API did not give the order to.
THEOREM ShownCouriersWereAssigned == Spec => []ShownWasAssigned
  BY StoreInvariant, PTL DEF StoreInv, ShownTrue
-----------------------------------------------------------------------------
(* Quotes are vouchers.                                                    *)

\* The voucher each quote stands for.
vouchers == [q \in Quotes |-> voucherOf(q)]

\* A quote is in at most one place: in Redis, in the hands of one request, or
\* turned into orders; and quotes that were never made are nowhere.
OnePlace ==
  /\ \A q \in redis : \A p \in Procs : ~Holds(p, q)
  /\ \A q \in Quotes : \A p1, p2 \in Procs : Holds(p1, q) /\ Holds(p2, q) => p1 = p2
  /\ \A o \in orders : ~Live(o.quote) /\ quote[o.quote] # None

QuoteInv == StoreInv /\ OnePlace

\* What OnePlace and the vouchers depend on.
Same(q) ==
  /\ (q \in redis') <=> (q \in redis)
  /\ \A p \in Procs : Holds(p, q)' <=> Holds(p, q)
  /\ Used(q)' <=> Used(q)
  /\ (quote'[q] = None) <=> (quote[q] = None)

LEMMA SameVoucher ==
  ASSUME NEW q \in Quotes, Same(q)
  PROVE  voucherOf(q)' = voucherOf(q) /\ (Live(q)' <=> Live(q))
  <1>1. Live(q)' <=> Live(q)
    BY DEF Same, Live
  <1> QED
    BY <1>1 DEF Same, voucherOf

\* A step that concerns no quote, or a single one, which it loses.
LEMMA QuietStep ==
  ASSUME QuoteInv, StoreInv', \A q \in Quotes : Same(q), orders' = orders
  PROVE  OnePlace' /\ vouchers' = vouchers
  <1>1. \A q \in Quotes : voucherOf(q)' = voucherOf(q) /\ (Live(q)' <=> Live(q))
    BY SameVoucher
  <1>2. vouchers' = vouchers
    BY <1>1 DEF vouchers
  <1>3. redis \subseteq Quotes /\ redis' \subseteq Quotes /\ \A o \in orders : o.quote \in Quotes
    BY DEF QuoteInv, StoreInv, Types, TypeOK, IntakeTypeOK, OrderRow
  <1>4. OnePlace'
    BY <1>1, <1>3 DEF QuoteInv, OnePlace, Same
  <1> QED
    BY <1>2, <1>4

LEMMA OneVoucher ==
  ASSUME NEW q \in Quotes, NEW f, NEW t, voucherOf(q) = f, voucherOf(q)' = t,
         \A x \in Quotes \ {q} : voucherOf(x)' = voucherOf(x)
  PROVE  V!Becomes(q, f, t)
  BY DEF V!Becomes

LEMMA LoseStep ==
  ASSUME QuoteInv, StoreInv', NEW q \in Quotes, Live(q), ~Live(q)', ~Used(q), UNCHANGED orders,
         quote' = quote, \A x \in Quotes \ {q} : Same(x)
  PROVE  OnePlace' /\ V!Next
  <1>1. \A x \in Quotes \ {q} : voucherOf(x)' = voucherOf(x) /\ (Live(x)' <=> Live(x))
    BY SameVoucher
  <1>2. /\ redis \subseteq Quotes /\ redis' \subseteq Quotes
        /\ \A o \in orders : o.quote \in Quotes /\ o.quote # q
        /\ \A x \in redis : quote[x] # None
        /\ \A p \in Procs : Holds(p, q) => quote[q] # None
    BY DEF QuoteInv, StoreInv, Types, TypeOK, IntakeTypeOK, OrderRow, Used, Holds,
       RequestsReady, Ready
  <1>3. q \notin redis' /\ \A p \in Procs : ~Holds(p, q)'
    BY DEF Live
  <1>4. OnePlace'
    BY <1>1, <1>2, <1>3 DEF QuoteInv, OnePlace, Same
  <1>5. voucherOf(q) = "open" /\ voucherOf(q)' = "gone"
    BY <1>2 DEF voucherOf, Live, Used
  <1>6. V!Lose(q)
    BY <1>1, <1>5, OneVoucher DEF V!Lose
  <1> QED
    BY <1>4, <1>6 DEF V!Next

LEMMA MakeStep ==
  ASSUME QuoteInv, StoreInv', NEW u, NEW q \in Quotes, MakeQuote(u, q), UNCHANGED orders,
         \A x \in Quotes : \A p \in Procs : Holds(p, x)' <=> Holds(p, x)
  PROVE  OnePlace' /\ V!Next
  <1>1. /\ quote[q] = None /\ quote'[q] # None /\ redis' = redis \cup {q}
        /\ \A x \in Quotes \ {q} : quote'[x] = quote[x]
    BY NoneAssumption DEF MakeQuote, QuoteInv, StoreInv, Types, TypeOK, IntakeTypeOK
  <1>2. ~Used(q) /\ q \notin redis /\ \A p \in Procs : ~Holds(p, q)
    BY <1>1 DEF QuoteInv, OnePlace, StoreInv, Types, TypeOK, IntakeTypeOK, Used,
       RequestsReady, Ready, Holds
  <1>3. \A x \in Quotes \ {q} : Same(x)
    BY <1>1 DEF Same, Used
  <1>4. \A x \in Quotes \ {q} : voucherOf(x)' = voucherOf(x) /\ (Live(x)' <=> Live(x))
    BY <1>3, SameVoucher
  <1>5. /\ redis \subseteq Quotes
        /\ \A o \in orders : o.quote \in Quotes /\ o.quote # q
    BY <1>2 DEF QuoteInv, StoreInv, Types, TypeOK, IntakeTypeOK, OrderRow, Used
  <1>6. OnePlace'
    BY <1>1, <1>2, <1>4, <1>5 DEF QuoteInv, OnePlace
  <1>7. voucherOf(q) = "unmade" /\ voucherOf(q)' = "open"
    BY <1>1, <1>2 DEF voucherOf, Live, Used
  <1>8. V!Make(q)
    BY <1>4, <1>7, OneVoucher DEF V!Make
  <1> QED
    BY <1>6, <1>8 DEF V!Next

LEMMA InitQuotes == Init => OnePlace /\ V!Init
  BY DEF Init, IntakeInit, OnePlace, Holds, Live, Used, NoRequest, Arrived, V!Init, voucherOf

\* What a step of request p does to the places of quotes.
LEMMA HoldsAfter ==
  ASSUME StoreInv, NEW p \in Procs, NEW r, req' = [req EXCEPT ![p] = r]
  PROVE  \A x \in Procs, q \in Quotes :
           Holds(x, q)' <=> IF x = p THEN r.q = q /\ r.step \in {"insert", "restore"}
                                     ELSE Holds(x, q)
  BY DEF StoreInv, Types, TypeOK, IntakeTypeOK, Holds

\* A request that neither held a quote nor holds one now.
LEMMA EmptyHanded ==
  ASSUME QuoteInv, StoreInv', NEW p \in Procs, NEW r, req' = [req EXCEPT ![p] = r],
         req[p].step \notin {"insert", "restore"}, r.step \notin {"insert", "restore"},
         UNCHANGED <<quote, redis, orders>>
  PROVE  OnePlace' /\ vouchers' = vouchers
  <1>1. \A x \in Procs, q \in Quotes : Holds(x, q)' <=> Holds(x, q)
    BY HoldsAfter DEF QuoteInv, Holds
  <1>2. \A q \in Quotes : Same(q)
    BY <1>1 DEF Same, Used
  <1> QED
    BY <1>2, QuietStep

LEMMA MoveOnRecord ==
  ASSUME StoreInv, NEW p \in Procs, NEW s, GoTo(p, s)
  PROVE  \E r : req' = [req EXCEPT ![p] = r] /\ r.step = s /\ r.q = req[p].q
  <1>1. req' = [req EXCEPT ![p] = [req[p] EXCEPT !.step = s]]
    BY DEF GoTo
  <1>2. [req[p] EXCEPT !.step = s].step = s /\ [req[p] EXCEPT !.step = s].q = req[p].q
    BY DEF StoreInv, Types, TypeOK, IntakeTypeOK, Request
  <1> QED
    BY <1>1, <1>2

\* A live quote changes places.
LEMMA MovedStep ==
  ASSUME QuoteInv, StoreInv', NEW q \in Quotes, UNCHANGED <<quote, orders>>,
         \A x \in Quotes \ {q} : Same(x), Live(q), Live(q)',
         q \in redis' => \A p \in Procs : ~Holds(p, q)',
         \A p1, p2 \in Procs : Holds(p1, q)' /\ Holds(p2, q)' => p1 = p2
  PROVE  OnePlace' /\ vouchers' = vouchers
  <1>1. \A x \in Quotes \ {q} : voucherOf(x)' = voucherOf(x) /\ (Live(x)' <=> Live(x))
    BY SameVoucher
  <1>2. /\ redis \subseteq Quotes /\ redis' \subseteq Quotes
        /\ \A o \in orders : o.quote \in Quotes /\ o.quote # q
    BY DEF QuoteInv, StoreInv, Types, TypeOK, IntakeTypeOK, OrderRow, OnePlace
  <1>3. OnePlace'
    BY <1>1, <1>2 DEF QuoteInv, OnePlace, Same
  <1>4. Used(q)' <=> Used(q)
    BY DEF Used
  <1>5. voucherOf(q)' = voucherOf(q)
    BY <1>4 DEF voucherOf
  <1>6. vouchers' = vouchers
    BY <1>1, <1>5 DEF vouchers
  <1> QED
    BY <1>3, <1>6

LEMMA TakeQuoteVoucher ==
  ASSUME QuoteInv, StoreInv', NEW p \in Procs, TakeQuote(p)
  PROVE  OnePlace' /\ (V!Next \/ vouchers' = vouchers)
  <1>1. PICK q \in Quotes : q = req[p].q /\ req[p].step = "take"
    BY DEF QuoteInv, StoreInv, RequestsReady, Ready, TakeQuote, At
  <1>2. /\ redis' = redis \ {q} /\ UNCHANGED <<quote, orders>>
        /\ (GoTo(p, "insert") /\ q \in redis) \/ GoTo(p, "failed")
    BY <1>1 DEF TakeQuote, Fail
  <1>3. PICK s \in {"insert", "failed"} : GoTo(p, s) /\ (s = "insert" => q \in redis)
    BY <1>2
  <1>4. PICK r : req' = [req EXCEPT ![p] = r] /\ r.step = s /\ r.q = q
    BY <1>1, <1>3, MoveOnRecord DEF QuoteInv
  <1>5. \A x \in Procs, y \in Quotes :
          Holds(x, y)' <=> IF x = p THEN y = q /\ s = "insert" ELSE Holds(x, y)
    BY <1>3, <1>4, HoldsAfter DEF QuoteInv
  <1>6. ~ \E y \in Quotes : Holds(p, y)
    BY <1>1 DEF Holds
  <1>7. \A y \in Quotes \ {q} : Same(y)
    BY <1>2, <1>5, <1>6 DEF Same, Used
  <1>8. CASE q \in redis /\ s = "insert"
    <2>1. Live(q) /\ Live(q)' /\ q \notin redis' /\ \A x \in Procs : ~Holds(x, q)
      BY <1>1, <1>2, <1>5, <1>8 DEF Live, QuoteInv, OnePlace
    <2> QED
      BY <1>1, <1>2, <1>5, <1>7, <2>1, MovedStep
  <1>9. CASE q \in redis /\ s = "failed"
    <2>1. Live(q) /\ ~Live(q)' /\ ~Used(q)
      BY <1>1, <1>2, <1>5, <1>9 DEF Live, QuoteInv, OnePlace, Used
    <2> QED
      BY <1>1, <1>2, <1>7, <2>1, LoseStep
  <1>10. CASE q \notin redis
    <2>1. s = "failed" /\ redis' = redis
      BY <1>2, <1>3, <1>10
    <2> QED
      BY <1>1, <1>2, <1>4, <2>1, EmptyHanded
  <1> QED
    BY <1>3, <1>8, <1>9, <1>10

\* A request that holds a quote lets go of it, back into Redis or not.
LEMMA LetGo ==
  ASSUME QuoteInv, StoreInv', NEW p \in Procs, req[p].step \in {"insert", "restore"},
         NEW s, s \notin {"insert", "restore"}, GoTo(p, s), UNCHANGED <<quote, orders>>,
         redis' = redis \/ redis' = redis \cup {req[p].q}
  PROVE  OnePlace' /\ (V!Next \/ vouchers' = vouchers)
  <1>1. PICK q \in Quotes : q = req[p].q /\ Holds(p, q)
    BY DEF QuoteInv, StoreInv, RequestsReady, Ready, Holds
  <1>2. q \notin redis /\ ~Used(q) /\ Live(q) /\ \A x \in Procs \ {p} : ~Holds(x, q)
    BY <1>1 DEF QuoteInv, OnePlace, Used, Live
  <1>3. PICK r : req' = [req EXCEPT ![p] = r] /\ r.step = s /\ r.q = q
    BY <1>1, MoveOnRecord DEF QuoteInv
  <1>4. \A x \in Procs, y \in Quotes : Holds(x, y)' <=> x # p /\ Holds(x, y)
    BY <1>3, HoldsAfter DEF QuoteInv
  <1>5. \A y \in Quotes \ {q} : ~Holds(p, y)
    BY <1>1 DEF Holds
  <1>6. \A y \in Quotes \ {q} : Same(y)
    BY <1>1, <1>4, <1>5 DEF Same, Used
  <1>7. CASE q \in redis'
    <2>1. Live(q)' /\ \A x \in Procs : ~Holds(x, q)'
      BY <1>1, <1>2, <1>4, <1>7 DEF Live
    <2> QED
      BY <1>1, <1>2, <1>6, <2>1, MovedStep
  <1>8. CASE q \notin redis'
    <2>1. ~Live(q)'
      BY <1>1, <1>2, <1>4, <1>8 DEF Live
    <2> QED
      BY <1>1, <1>2, <1>6, <2>1, LoseStep
  <1> QED
    BY <1>7, <1>8

LEMMA InsertOrderVoucher ==
  ASSUME QuoteInv, StoreInv', NEW p \in Procs, InsertOrder(p), "commitLost" \notin Faults
  PROVE  OnePlace' /\ (V!Next \/ vouchers' = vouchers)
  <1>0. PICK o : o = NewOrder(p)
    OBVIOUS
  <1>1. PICK q \in Quotes : q = req[p].q /\ Holds(p, q) /\ quote[q] # None /\ o.quote = q
    BY <1>0 DEF QuoteInv, StoreInv, RequestsReady, Ready, Holds, InsertOrder, At, NewOrder
  <1>2. q \notin redis /\ ~Used(q) /\ Live(q) /\ \A x \in Procs \ {p} : ~Holds(x, q)
    BY <1>1 DEF QuoteInv, OnePlace, Used, Live
  <1>3. UNCHANGED <<quote, redis>>
    BY DEF InsertOrder
  <1>4. CASE GoTo(p, "restore") /\ UNCHANGED orders
    <2>1. PICK r : req' = [req EXCEPT ![p] = r] /\ r.step = "restore" /\ r.q = q
      BY <1>1, <1>4, MoveOnRecord DEF QuoteInv
    <2>2. \A x \in Procs, y \in Quotes : Holds(x, y)' <=> Holds(x, y)
      BY <1>1, <2>1, HoldsAfter DEF QuoteInv, Holds
    <2>3. \A y \in Quotes : Same(y)
      BY <1>3, <1>4, <2>2 DEF Same, Used
    <2> QED
      BY <1>4, <2>3, QuietStep
  <1>5. CASE /\ orders' = orders \cup {NewOrder(p)}
             /\ req' = [req EXCEPT ![p].step = "ok", ![p].got = NewOrder(p)]
    <2>1. PICK r : req' = [req EXCEPT ![p] = r] /\ r.step = "ok"
      <3>1. req[p] \in Request
        BY DEF QuoteInv, StoreInv, Types, TypeOK, IntakeTypeOK
      <3>2. [req[p] EXCEPT !.step = "ok", !.got = NewOrder(p)].step = "ok"
        BY <3>1 DEF Request
      <3> QED
        BY <1>5, <3>2
    <2>2. \A x \in Procs, y \in Quotes : Holds(x, y)' <=> x # p /\ Holds(x, y)
      BY <2>1, HoldsAfter DEF QuoteInv
    <2>3. \A y \in Quotes \ {q} : ~Holds(p, y)
      BY <1>1 DEF Holds
    <2>4. orders' = orders \cup {o}
      BY <1>0, <1>5
    <2>5. \A y \in Quotes \ {q} : Same(y)
      BY <1>1, <1>3, <2>2, <2>3, <2>4 DEF Same, Used
    <2>6. \A x \in Quotes \ {q} : voucherOf(x)' = voucherOf(x) /\ (Live(x)' <=> Live(x))
      BY <2>5, SameVoucher
    <2>7. ~Live(q)' /\ Used(q)'
      BY <1>1, <1>2, <1>3, <2>2, <2>4 DEF Live, Used
    <2>8. \A x \in orders : x.quote \in Quotes /\ x.quote # q
      BY <1>2 DEF QuoteInv, StoreInv, Types, TypeOK, IntakeTypeOK, OrderRow, Used
    <2>9. OnePlace'
      <3>1. \A x \in redis' : \A y \in Procs : ~Holds(y, x)'
        BY <1>3, <2>2 DEF QuoteInv, OnePlace, StoreInv, Types, TypeOK, IntakeTypeOK
      <3>2. \A x \in Quotes : \A p1, p2 \in Procs : Holds(p1, x)' /\ Holds(p2, x)' => p1 = p2
        BY <2>2 DEF QuoteInv, OnePlace
      <3>3. \A x \in orders : ~Live(x.quote)' /\ quote'[x.quote] # None
        BY <1>3, <2>6, <2>8 DEF QuoteInv, OnePlace
      <3>4. \A x \in orders' : ~Live(x.quote)' /\ quote'[x.quote] # None
        BY <1>1, <1>3, <2>4, <2>7, <3>3
      <3> QED
        BY <3>1, <3>2, <3>4 DEF OnePlace
    <2>10. voucherOf(q) = "open" /\ voucherOf(q)' = "used"
      BY <1>1, <1>2, <1>3, <2>7 DEF voucherOf
    <2>11. V!Use(q)
      BY <1>1, <2>6, <2>10, OneVoucher DEF V!Use
    <2> QED
      BY <1>1, <2>9, <2>11 DEF V!Next
  <1> QED
    BY <1>4, <1>5 DEF InsertOrder
-----------------------------------------------------------------------------
(* One lemma for each of the remaining steps, and the theorem. *)

LEMMA FindExistingVoucher ==
  ASSUME QuoteInv, StoreInv', NEW p \in Procs, FindExisting(p)
  PROVE  OnePlace' /\ vouchers' = vouchers
  <1>1. req[p] \in Request /\ req[p].step \notin {"insert", "restore"}
    BY DEF FindExisting, At, QuoteInv, StoreInv, Types, TypeOK, IntakeTypeOK
  <1>2. CASE AnswerExisting(p)
    <2>1. PICK o : req' = [req EXCEPT ![p] = [req[p] EXCEPT !.step = "duplicate", !.got = o]]
      BY <1>2 DEF AnswerExisting
    <2>2. [req[p] EXCEPT !.step = "duplicate", !.got = o].step = "duplicate"
      BY <1>1 DEF Request
    <2>3. PICK r : req' = [req EXCEPT ![p] = r] /\ r.step = "duplicate"
      BY <2>1, <2>2
    <2> QED
      BY <1>1, <2>3, EmptyHanded DEF FindExisting
  <1>3. CASE ~AnswerExisting(p)
    <2>1. PICK s \in {"quote", "see"} : GoTo(p, s)
      BY <1>3 DEF FindExisting
    <2>2. PICK r : req' = [req EXCEPT ![p] = r] /\ r.step = s
      BY <2>1, MoveOnRecord DEF QuoteInv
    <2> QED
      BY <1>1, <2>1, <2>2, EmptyHanded DEF FindExisting
  <1> QED
    BY <1>2, <1>3

\* Requests that come to a step at which no quote is held, and hold none.
LEMMA GoEmptyHanded ==
  ASSUME QuoteInv, StoreInv', NEW p \in Procs, NEW s, GoTo(p, s),
         s \notin {"insert", "restore"}, req[p].step \notin {"insert", "restore"},
         UNCHANGED <<quote, redis, orders>>
  PROVE  OnePlace' /\ vouchers' = vouchers
  <1>1. PICK r : req' = [req EXCEPT ![p] = r] /\ r.step = s
    BY MoveOnRecord DEF QuoteInv
  <1> QED
    BY <1>1, EmptyHanded

LEMMA QuoteImportVoucher ==
  ASSUME QuoteInv, StoreInv', NEW p \in Procs, QuoteImport(p)
  PROVE  OnePlace' /\ (V!Next \/ vouchers' = vouchers)
  <1>1. req[p] \in Request /\ req[p].step = "quote"
    BY DEF QuoteImport, At, QuoteInv, StoreInv, Types, TypeOK, IntakeTypeOK
  <1>2. CASE Fail(p) /\ UNCHANGED <<quote, redis>>
    BY <1>1, <1>2, GoEmptyHanded DEF QuoteImport, Fail
  <1>3. ASSUME NEW q \in Quotes, MakeQuote(Store, q),
               req' = [req EXCEPT ![p].step = "findAgain", ![p].q = q]
        PROVE  OnePlace' /\ V!Next
    <2>1. [req[p] EXCEPT !.step = "findAgain", !.q = q].step = "findAgain"
      BY <1>1 DEF Request
    <2>2. PICK r : req' = [req EXCEPT ![p] = r] /\ r.step = "findAgain"
      BY <1>3, <2>1
    <2>3. \A x \in Quotes : \A y \in Procs : Holds(y, x)' <=> Holds(y, x)
      BY <1>1, <2>2, HoldsAfter DEF QuoteInv, Holds
    <2> QED
      BY <1>3, <2>3, MakeStep DEF QuoteImport
  <1> QED
    BY <1>2, <1>3 DEF QuoteImport

LEMMA ServeVoucher ==
  ASSUME QuoteInv, StoreInv', NEW p \in Procs, Serve(p), "commitLost" \notin Faults
  PROVE  OnePlace' /\ (V!Next \/ vouchers' = vouchers)
  <1>1. CASE SeeQuote(p)
    <2>1. PICK s \in {"take", "failed"} : GoTo(p, s)
      BY <1>1 DEF SeeQuote, Fail
    <2> QED
      BY <1>1, <2>1, GoEmptyHanded DEF SeeQuote, At
  <1>2. CASE RestoreQuote(p)
    <2>1. redis' = redis \/ redis' = redis \cup {req[p].q}
      BY <1>2 DEF RestoreQuote
    <2> QED
      BY <1>2, <2>1, LetGo DEF RestoreQuote, Fail, At
  <1> QED
    BY <1>1, <1>2, FindExistingVoucher, QuoteImportVoucher, TakeQuoteVoucher,
       InsertOrderVoucher DEF Serve

LEMMA BreakVoucher ==
  ASSUME QuoteInv, StoreInv', NEW p \in Procs, Break(p)
  PROVE  OnePlace' /\ (V!Next \/ vouchers' = vouchers)
  <1>1. PICK s \in {"failed", "dead"} : GoTo(p, s)
    BY DEF Break
  <1>2. CASE req[p].step \in {"insert", "restore"}
    BY <1>1, <1>2, LetGo DEF Break
  <1>3. CASE req[p].step \notin {"insert", "restore"}
    BY <1>1, <1>3, GoEmptyHanded DEF Break
  <1> QED
    BY <1>2, <1>3

LEMMA ArriveVoucher ==
  ASSUME QuoteInv, StoreInv', NEW p \in Procs, NEW r, req[p] = NoRequest,
         req' = [req EXCEPT ![p] = r], r.step \in {"see", "find"}, UNCHANGED <<quote, redis, orders>>
  PROVE  OnePlace' /\ vouchers' = vouchers
  <1>1. req[p].step = "idle"
    BY DEF NoRequest, Arrived
  <1> QED
    BY <1>1, EmptyHanded

\* Time passing for a quote, which leaves it where it is.
LEMMA AgeVoucher ==
  ASSUME QuoteInv, StoreInv', NEW q \in Quotes, Age(q)
  PROVE  OnePlace' /\ vouchers' = vouchers
  <1>1. \A x \in Quotes : (quote'[x] = None) <=> (quote[x] = None)
    <2>1. quote' \in [Quotes -> QuoteRow \cup {None}] /\ quote \in [Quotes -> QuoteRow \cup {None}]
      BY DEF QuoteInv, StoreInv, Types, TypeOK, IntakeTypeOK
    <2>2. quote[q] \in QuoteRow
      BY <2>1 DEF Age
    <2>3. PICK l \in Life : quote' = [quote EXCEPT ![q] = [quote[q] EXCEPT !.life = l]]
      BY DEF Age, Life
    <2>4. [quote[q] EXCEPT !.life = l] \in QuoteRow
      BY <2>2 DEF QuoteRow
    <2> QED
      BY <2>1, <2>2, <2>3, <2>4, NoneAssumption
  <1>2. \A x \in Quotes : Same(x)
    BY <1>1 DEF Age, Same, Holds, Used
  <1> QED
    BY <1>2, QuietStep DEF Age

LEMMA EvictVoucher ==
  ASSUME QuoteInv, StoreInv', NEW q \in Quotes, Evict(q)
  PROVE  OnePlace' /\ V!Next
  <1>1. Live(q) /\ ~Used(q) /\ q \notin redis' /\ \A p \in Procs : ~Holds(p, q)'
    BY DEF Evict, Live, Used, Holds, QuoteInv, OnePlace
  <1>2. ~Live(q)'
    BY <1>1 DEF Live
  <1>3. \A x \in Quotes \ {q} : Same(x)
    BY DEF Evict, Same, Holds, Used
  <1> QED
    BY <1>1, <1>2, <1>3, LoseStep DEF Evict

LEMMA IntakeVoucher ==
  ASSUME QuoteInv, StoreInv', IntakeNext, "commitLost" \notin Faults
  PROVE  OnePlace' /\ (V!Next \/ vouchers' = vouchers)
  <1>1. ASSUME NEW u \in Customers, AskQuote(u)
        PROVE  OnePlace' /\ V!Next
    <2>1. PICK q \in Quotes : MakeQuote(u, q)
      BY <1>1 DEF AskQuote
    <2>2. \A x \in Quotes : \A p \in Procs : Holds(p, x)' <=> Holds(p, x)
      BY <1>1 DEF AskQuote, Holds
    <2> QED
      BY <1>1, <2>1, <2>2, MakeStep DEF AskQuote
  <1>2. ASSUME NEW u \in Customers, NEW p \in Procs, NEW q \in Quotes, PlaceOrder(p, u, q)
        PROVE  OnePlace' /\ vouchers' = vouchers
    <2>1. PICK r : r = Arrived("see", u, q, None)
      OBVIOUS
    <2>2. r.step = "see"
      BY <2>1 DEF Arrived
    <2> QED
      BY <1>2, <2>1, <2>2, ArriveVoucher DEF PlaceOrder
  <1> QED
    BY <1>1, <1>2, ServeVoucher, BreakVoucher, AgeVoucher, EvictVoucher DEF IntakeNext

LEMMA StoreVoucher ==
  ASSUME QuoteInv, StoreInv', StoreNext
  PROVE  OnePlace' /\ vouchers' = vouchers
  <1>1. ASSUME UNCHANGED intakeVars
        PROVE  OnePlace' /\ vouchers' = vouchers
    <2>1. \A q \in Quotes : Same(q)
      BY <1>1 DEF Same, intakeVars, Holds, Used
    <2> QED
      BY <1>1, <2>1, QuietStep DEF intakeVars
  <1>2. ASSUME NEW w \in Workers, NEW e \in Keys, NEW c, Post(w, e, c)
        PROVE  OnePlace' /\ vouchers' = vouchers
    <2>1. PICK r : r = Arrived("find", Store, None, e)
      OBVIOUS
    <2>2. r.step = "find"
      BY <2>1 DEF Arrived
    <2>3. PICK p \in Procs : req[p] = NoRequest /\ req' = [req EXCEPT ![p] = r]
      BY <1>2, <2>1 DEF Post, SendKey
    <2> QED
      BY <1>2, <2>2, <2>3, ArriveVoucher DEF Post
  <1>3. ASSUME NEW p \in Procs, req[p].step \in Done, req' = [req EXCEPT ![p] = NoRequest],
               UNCHANGED <<quote, redis, orders>>
        PROVE  OnePlace' /\ vouchers' = vouchers
    BY <1>3, EmptyHanded DEF NoRequest, Arrived, Done
  <1>4. ASSUME NEW w \in Workers, ReadAnswer(w)
        PROVE  OnePlace' /\ vouchers' = vouchers
    BY <1>3, <1>4 DEF ReadAnswer, Done, QuoteInv, StoreInv, WaitsForOwn
  <1>5. ASSUME NEW w \in Workers, NEW e \in Keys, AsyncSend(w, e)
        PROVE  OnePlace' /\ vouchers' = vouchers
    BY <1>1, <1>2, <1>5 DEF AsyncSend
  <1>6. ASSUME NEW w \in Workers, NEW e \in Keys, NEW c \in Couriers, AssignBox(w, e, c)
        PROVE  OnePlace' /\ vouchers' = vouchers
    BY <1>1, <1>2, <1>6 DEF AssignBox
  <1>7. ASSUME NEW w \in Workers, GiveUp(w) \/ AssignCourier(w) \/ ShowCourier(w) \/ WorkerDies(w)
        PROVE  UNCHANGED intakeVars
    BY <1>7 DEF GiveUp, AssignCourier, ShowCourier, WorkerDies
  <1>8. ASSUME NEW e \in Keys, StatusChanged(e) \/ \E c \in Couriers : AssignElsewhere(e, c)
        PROVE  UNCHANGED intakeVars
    BY <1>8 DEF StatusChanged, AssignElsewhere
  <1> QED
    BY <1>1, <1>2, <1>3, <1>4, <1>5, <1>6, <1>7, <1>8 DEF StoreNext, ManualSend, Leave

\* Quotes are vouchers: a quote is open until it becomes the price of one order
\* or is gone, and never opens again, whatever requests for it interleave, fail,
\* restore it, break off or are answered too late, unless the outcome of a
\* commit is lost (consumeLockedQuote and the catch blocks of create and
\* createFromIntegration).
THEOREM QuotesImplementVouchers ==
  ASSUME "commitLost" \notin Faults
  PROVE  Spec => QuotesAreVouchers
  <1>1. Init => OnePlace /\ V!Init
    BY InitQuotes
  <1>2. StoreInv /\ StoreInv' /\ OnePlace /\ [Next]_vars =>
          OnePlace' /\ [V!Next]_([q \in Quotes |-> voucherOf(q)])
    <2> SUFFICES ASSUME StoreInv, StoreInv', OnePlace, [Next]_vars
                 PROVE  OnePlace' /\ (V!Next \/ vouchers' = vouchers)
      BY DEF vouchers
    <2> USE DEF QuoteInv
    <2>1. CASE IntakeNext
      BY <2>1, IntakeVoucher
    <2>2. CASE StoreNext
      BY <2>2, StoreVoucher
    <2>3. CASE UNCHANGED vars
      <3>1. \A q \in Quotes : Same(q)
        BY <2>3 DEF Same, vars, intakeVars, Holds, Used
      <3> QED
        BY <2>3, <3>1, QuietStep DEF vars, intakeVars
    <2> QED
      BY <2>1, <2>2, <2>3 DEF Next
  <1> QED
    BY <1>1, <1>2, StoreInvariant, PTL DEF Spec, QuotesAreVouchers, V!Spec
-----------------------------------------------------------------------------
(* A quote with time left is not lost.                                     *)

\* A request that is about to take a quote has seen that it is its user's own;
\* the owner of a quote never changes, so that it still is.
OwnerSeen ==
  \A p \in Procs : At(p, "take") => quote[req[p].q].owner = req[p].user

OwnersKept == \A q \in Quotes : quote[q] # None => quote'[q].owner = quote[q].owner

LEMMA NextKeepsOwners ==
  ASSUME StoreInv, [Next]_vars
  PROVE  OwnersKept
  <1>1. quote \in [Quotes -> QuoteRow \cup {None}]
    BY DEF StoreInv, Types, TypeOK, IntakeTypeOK
  <1>2. CASE UNCHANGED quote
    BY <1>2 DEF OwnersKept
  <1>3. ASSUME NEW u, NEW q \in Quotes, MakeQuote(u, q) PROVE OwnersKept
    BY <1>1, <1>3 DEF MakeQuote, OwnersKept
  <1>4. ASSUME NEW q \in Quotes, Age(q) PROVE OwnersKept
    <2>1. PICK l : quote' = [quote EXCEPT ![q].life = l]
      BY <1>4 DEF Age
    <2>2. quote[q] \in QuoteRow
      BY <1>1, <1>4 DEF Age
    <2>3. [quote[q] EXCEPT !.life = l].owner = quote[q].owner
      BY <2>2 DEF QuoteRow
    <2> QED
      BY <1>1, <2>1, <2>3 DEF OwnersKept
  <1>5. CASE IntakeNext
    <2>1. ASSUME NEW p \in Procs, Serve(p) PROVE OwnersKept
      BY <1>2, <1>3, <2>1
         DEF Serve, FindExisting, QuoteImport, SeeQuote, TakeQuote, InsertOrder, RestoreQuote
    <2> QED
      BY <1>2, <1>3, <1>4, <1>5, <2>1 DEF IntakeNext, AskQuote, PlaceOrder, Break, Evict
  <1>6. CASE StoreNext
    BY <1>2, <1>6 DEF StoreNext, StatusChanged, AssignElsewhere, AsyncSend, ManualSend, AssignBox,
       Post, ReadAnswer, GiveUp, AssignCourier, ShowCourier, WorkerDies, Leave, intakeVars
  <1> QED
    BY <1>2, <1>5, <1>6 DEF Next, vars, intakeVars

\* Whoever is about to take a quote was so before, or has just seen its owner.
LEMMA ComesToTake ==
  ASSUME StoreInv, [Next]_vars, NEW p \in Procs, At(p, "take")'
  PROVE  \/ At(p, "take") /\ req'[p] = req[p]
         \/ /\ req'[p].q = req[p].q /\ req'[p].user = req[p].user /\ At(p, "see")
            /\ quote[req[p].q].owner = req[p].user
  <1> DEFINE Goal == \/ At(p, "take") /\ req'[p] = req[p]
                     \/ /\ req'[p].q = req[p].q /\ req'[p].user = req[p].user /\ At(p, "see")
                        /\ quote[req[p].q].owner = req[p].user
  <1>1. req \in [Procs -> Request] /\ req'[p].step = "take"
    BY DEF StoreInv, Types, TypeOK, IntakeTypeOK, At
  <1>2. CASE UNCHANGED req
    BY <1>1, <1>2 DEF At
  <1>3. ASSUME NEW x \in Procs, NEW r, req' = [req EXCEPT ![x] = r], r.step # "take"
        PROVE  Goal
    BY <1>1, <1>3 DEF At
  <1>4. ASSUME NEW x \in Procs, NEW s, GoTo(x, s), s # "take" PROVE Goal
    BY <1>3, <1>4, MoveOnRecord
  <1>5. ASSUME NEW x \in Procs, FindExisting(x) PROVE Goal
    <2>1. CASE AnswerExisting(x)
      <3>1. PICK o : req' = [req EXCEPT ![x].step = "duplicate", ![x].got = o]
        BY <2>1 DEF AnswerExisting
      <3>2. req' = [req EXCEPT ![x] = [req[x] EXCEPT !.step = "duplicate", !.got = o]]
        BY <3>1
      <3>3. [req[x] EXCEPT !.step = "duplicate", !.got = o].step = "duplicate"
        BY <1>1 DEF Request
      <3> QED
        BY <1>3, <3>2, <3>3
    <2> QED
      BY <1>4, <1>5, <2>1 DEF FindExisting
  <1>6. ASSUME NEW x \in Procs, QuoteImport(x) PROVE Goal
    <2>1. ASSUME NEW q, req' = [req EXCEPT ![x].step = "findAgain", ![x].q = q] PROVE Goal
      <3>1. req' = [req EXCEPT ![x] = [req[x] EXCEPT !.step = "findAgain", !.q = q]]
        BY <2>1
      <3>2. [req[x] EXCEPT !.step = "findAgain", !.q = q].step = "findAgain"
        BY <1>1 DEF Request
      <3> QED
        BY <1>3, <3>1, <3>2
    <2> QED
      BY <1>4, <1>6, <2>1 DEF QuoteImport, Fail
  <1>7. ASSUME NEW x \in Procs, SeeQuote(x) PROVE Goal
    <2>1. CASE GoTo(x, "failed")
      BY <1>4, <2>1
    <2>2. CASE GoTo(x, "take") /\ quote[req[x].q].owner = req[x].user
      <3>1. req' = [req EXCEPT ![x] = [req[x] EXCEPT !.step = "take"]]
        BY <2>2 DEF GoTo
      <3>2. /\ [req[x] EXCEPT !.step = "take"].q = req[x].q
            /\ [req[x] EXCEPT !.step = "take"].user = req[x].user
        BY <1>1 DEF Request
      <3>3. CASE x = p
        BY <1>1, <1>7, <2>2, <3>1, <3>2, <3>3 DEF SeeQuote, At
      <3>4. CASE x # p
        BY <1>1, <3>1, <3>4 DEF At
      <3> QED
        BY <3>3, <3>4
    <2> QED
      BY <1>7, <2>1, <2>2 DEF SeeQuote, Fail
  <1>8. ASSUME NEW x \in Procs, InsertOrder(x) PROVE Goal
    <2>1. CASE req' = [req EXCEPT ![x].step = "ok", ![x].got = NewOrder(x)]
      <3>1. req' = [req EXCEPT ![x] = [req[x] EXCEPT !.step = "ok", !.got = NewOrder(x)]]
        BY <2>1
      <3>2. [req[x] EXCEPT !.step = "ok", !.got = NewOrder(x)].step = "ok"
        BY <1>1 DEF Request
      <3> QED
        BY <1>3, <3>1, <3>2
    <2> QED
      BY <1>4, <1>8, <2>1 DEF InsertOrder
  <1>9. ASSUME NEW x \in Procs, TakeQuote(x) PROVE Goal
    <2>1. GoTo(x, "insert") \/ GoTo(x, "failed")
      BY <1>9 DEF TakeQuote, Fail
    <2> QED
      BY <1>4, <2>1
  <1>10. ASSUME NEW x \in Procs, RestoreQuote(x) \/ Break(x) PROVE Goal
    BY <1>4, <1>10 DEF RestoreQuote, Break, Fail
  <1>11. ASSUME NEW x \in Procs, NEW u, NEW q, NEW e, NEW s \in {"see", "find"},
                req' = [req EXCEPT ![x] = Arrived(s, u, q, e)]
         PROVE  Goal
    <2>1. Arrived(s, u, q, e).step # "take"
      BY DEF Arrived
    <2> QED
      BY <1>3, <1>11, <2>1
  <1>12. ASSUME NEW x \in Procs, req' = [req EXCEPT ![x] = NoRequest] PROVE Goal
    <2>1. NoRequest.step # "take"
      BY DEF NoRequest, Arrived
    <2> QED
      BY <1>3, <1>12, <2>1
  <1>13. CASE IntakeNext
    <2>1. ASSUME NEW x \in Procs, Serve(x) PROVE Goal
      BY <2>1, <1>5, <1>6, <1>7, <1>8, <1>9, <1>10 DEF Serve
    <2>2. ASSUME NEW u, NEW x \in Procs, NEW q, PlaceOrder(x, u, q) PROVE Goal
      BY <1>11, <2>2 DEF PlaceOrder
    <2> QED
      BY <1>2, <1>10, <1>13, <2>1, <2>2 DEF IntakeNext, AskQuote, Age, Evict
  <1>14. CASE StoreNext
    <2>1. ASSUME NEW w, NEW e, NEW c, Post(w, e, c) PROVE Goal
      <3>1. PICK x \in Procs : req' = [req EXCEPT ![x] = Arrived("find", Store, None, e)]
        BY <2>1 DEF Post, SendKey
      <3> QED
        BY <1>11, <3>1
    <2>2. ASSUME NEW w \in Workers, ReadAnswer(w) PROVE Goal
      BY <1>12, <2>2 DEF ReadAnswer, StoreInv, WaitsForOwn
    <2>3. ASSUME NEW w \in Workers, GiveUp(w) \/ AssignCourier(w) \/ ShowCourier(w) \/ WorkerDies(w)
          PROVE  Goal
      BY <1>2, <2>3 DEF GiveUp, AssignCourier, ShowCourier, WorkerDies, intakeVars
    <2>4. ASSUME NEW w \in Workers, NEW e \in Keys,
                 AsyncSend(w, e) \/ ManualSend(w, e) \/ \E c \in Couriers : AssignBox(w, e, c)
          PROVE  Goal
      BY <1>2, <2>1, <2>4 DEF AsyncSend, ManualSend, AssignBox, intakeVars
    <2>5. ASSUME NEW e \in Keys, StatusChanged(e) \/ \E c \in Couriers : AssignElsewhere(e, c)
          PROVE  Goal
      BY <1>2, <2>5 DEF StatusChanged, AssignElsewhere, intakeVars
    <2>6. ASSUME NEW x \in Procs, Leave(x) PROVE Goal
      BY <1>12, <2>6 DEF Leave
    <2> QED
      BY <1>14, <2>2, <2>3, <2>4, <2>5, <2>6 DEF StoreNext
  <1> QED
    BY <1>2, <1>13, <1>14 DEF Next, vars, intakeVars

LEMMA OwnerSeenStep ==
  ASSUME StoreInv, OwnerSeen, [Next]_vars
  PROVE  OwnerSeen'
  <1> SUFFICES ASSUME NEW p \in Procs, At(p, "take")'
               PROVE  quote'[req'[p].q].owner = req'[p].user
    BY DEF OwnerSeen, At
  <1>1. /\ At(p, "take") \/ At(p, "see")
        /\ req'[p].q = req[p].q /\ req'[p].user = req[p].user
        /\ quote[req[p].q].owner = req[p].user
    BY ComesToTake DEF OwnerSeen
  <1>2. req[p].q \in Quotes /\ quote[req[p].q] # None
    BY <1>1 DEF At, StoreInv, RequestsReady, Ready
  <1>3. OwnersKept
    BY NextKeepsOwners
  <1> QED
    BY <1>1, <1>2, <1>3 DEF OwnersKept

\* Every quote that is live stays live.
KeepsLive ==
  redis \subseteq redis' /\ \A p \in Procs, q \in Quotes : Holds(p, q) => Holds(p, q)'

\* A request that holds no quote loses none, whatever it does next.
LEMMA EmptyHandedKeeps ==
  ASSUME StoreInv, NEW p \in Procs, NEW r, req' = [req EXCEPT ![p] = r],
         req[p].step \notin {"insert", "restore"}, redis \subseteq redis'
  PROVE  KeepsLive
  BY HoldsAfter DEF KeepsLive, Holds

LEMMA GoEmptyHandedKeeps ==
  ASSUME StoreInv, NEW p \in Procs, NEW s, GoTo(p, s),
         req[p].step \notin {"insert", "restore"}, redis \subseteq redis'
  PROVE  KeepsLive
  BY MoveOnRecord, EmptyHandedKeeps

LEMMA RequestsKeepQuotes ==
  ASSUME StoreInv, UNCHANGED req, redis \subseteq redis'
  PROVE  KeepsLive
  BY DEF KeepsLive, Holds

\* What becomes of a quote that has time left.
Kept(q) ==
  Live(q) /\ quote[q].life = "fresh" /\ ~Live(q)' =>
    Used(q)' \/ Evict(q) \/ \E p \in Procs : Holds(p, q) /\ Break(p)

LEMMA LiveIsKept ==
  ASSUME KeepsLive
  PROVE  \A q \in Quotes : Kept(q)
  BY DEF KeepsLive, Kept, Live

LEMMA TakeQuoteKeeps ==
  ASSUME StoreInv, OwnerSeen, NEW p \in Procs, TakeQuote(p), NEW q \in Quotes
  PROVE  Kept(q)
  <1>1. SUFFICES ASSUME Live(q), quote[q].life = "fresh" PROVE Live(q)'
    BY DEF Kept
  <1>2. req[p].step = "take" /\ req[p].q \in Quotes /\ quote[req[p].q].owner = req[p].user
    BY DEF TakeQuote, At, OwnerSeen, StoreInv, RequestsReady, Ready
  <1>3. PICK s : GoTo(p, s) /\ (req[p].q \in redis /\ quote[req[p].q].life = "fresh" => s = "insert")
    BY <1>2 DEF TakeQuote, Fail
  <1>4. PICK r : req' = [req EXCEPT ![p] = r] /\ r.step = s /\ r.q = req[p].q
    BY <1>3, MoveOnRecord
  <1>5. \A x \in Procs : Holds(x, q)' <=> IF x = p THEN req[p].q = q /\ s \in {"insert", "restore"}
                                                   ELSE Holds(x, q)
    BY <1>4, HoldsAfter
  <1>6. redis' = redis \ {req[p].q}
    BY DEF TakeQuote
  <1>7. CASE \E x \in Procs : Holds(x, q)
    <2>1. PICK x \in Procs : Holds(x, q) /\ x # p
      BY <1>2, <1>7 DEF Holds
    <2> QED
      BY <1>5, <2>1 DEF Live
  <1>8. CASE q \in redis /\ q = req[p].q
    <2>1. s = "insert"
      BY <1>1, <1>3, <1>8
    <2> QED
      BY <1>5, <1>8, <2>1 DEF Live
  <1>9. CASE q \in redis /\ q # req[p].q
    BY <1>6, <1>9 DEF Live
  <1> QED
    BY <1>1, <1>7, <1>8, <1>9 DEF Live

LEMMA InsertOrderKeeps ==
  ASSUME StoreInv, NEW p \in Procs, InsertOrder(p), NEW q \in Quotes
  PROVE  Kept(q)
  <1>1. req[p].step = "insert" /\ redis' = redis
    BY DEF InsertOrder, At
  <1>2. CASE GoTo(p, "restore")
    <2>1. PICK r : req' = [req EXCEPT ![p] = r] /\ r.step = "restore" /\ r.q = req[p].q
      BY <1>2, MoveOnRecord
    <2>2. \A x \in Procs, y \in Quotes : Holds(x, y) => Holds(x, y)'
      BY <2>1, HoldsAfter DEF Holds
    <2>3. KeepsLive
      BY <1>1, <2>2 DEF KeepsLive
    <2> QED
      BY <2>3, LiveIsKept
  <1>3. CASE /\ orders' = orders \cup {NewOrder(p)}
             /\ req' = [req EXCEPT ![p].step = "ok", ![p].got = NewOrder(p)]
    <2>1. CASE req[p].q = q
      <3>1. NewOrder(p).quote = q
        BY <2>1 DEF NewOrder
      <3>2. Used(q)'
        BY <1>3, <3>1 DEF Used
      <3> QED
        BY <3>2 DEF Kept
    <2>2. CASE req[p].q # q
      <3>1. req' = [req EXCEPT ![p] = [req[p] EXCEPT !.step = "ok", !.got = NewOrder(p)]]
        BY <1>3
      <3>2. PICK r : req' = [req EXCEPT ![p] = r]
        BY <3>1
      <3>3. \A x \in Procs : Holds(x, q) => Holds(x, q)'
        <4> SUFFICES ASSUME NEW x \in Procs, Holds(x, q) PROVE Holds(x, q)'
          OBVIOUS
        <4>1. x # p
          BY <2>2 DEF Holds
        <4> QED
          BY <3>2, <4>1, HoldsAfter
      <3> QED
        BY <1>1, <3>3 DEF Kept, Live
    <2> QED
      BY <2>1, <2>2
  <1> QED
    BY <1>2, <1>3 DEF InsertOrder

LEMMA RestoreQuoteKeeps ==
  ASSUME StoreInv, NEW p \in Procs, RestoreQuote(p), NEW q \in Quotes
  PROVE  Kept(q)
  <1>1. SUFFICES ASSUME Live(q), quote[q].life = "fresh" PROVE Live(q)'
    BY DEF Kept
  <1>2. redis \subseteq redis'
    BY DEF RestoreQuote
  <1>3. CASE Holds(p, q)
    BY <1>1, <1>3 DEF RestoreQuote, Holds, Live
  <1>4. CASE ~Holds(p, q)
    <2>1. PICK r : req' = [req EXCEPT ![p] = r]
      BY MoveOnRecord DEF RestoreQuote, Fail
    <2>2. \A x \in Procs : Holds(x, q) => Holds(x, q)'
      <3> SUFFICES ASSUME NEW x \in Procs, Holds(x, q) PROVE Holds(x, q)'
        OBVIOUS
      <3>1. x # p
        BY <1>4
      <3> QED
        BY <2>1, <3>1, HoldsAfter
    <2> QED
      BY <1>1, <1>2, <2>2 DEF Live
  <1> QED
    BY <1>3, <1>4

LEMMA BreakKeeps ==
  ASSUME StoreInv, NEW p \in Procs, Break(p), NEW q \in Quotes
  PROVE  Kept(q)
  <1>1. CASE Holds(p, q)
    BY <1>1 DEF Kept
  <1>2. CASE ~Holds(p, q)
    <2>1. PICK r : req' = [req EXCEPT ![p] = r]
      BY MoveOnRecord DEF Break
    <2>2. \A x \in Procs : Holds(x, q) => Holds(x, q)'
      <3> SUFFICES ASSUME NEW x \in Procs, Holds(x, q) PROVE Holds(x, q)'
        OBVIOUS
      <3>1. x # p
        BY <1>2
      <3> QED
        BY <2>1, <3>1, HoldsAfter
    <2> QED
      BY <2>2 DEF Break, Kept, Live
  <1> QED
    BY <1>1, <1>2

LEMMA EvictKeeps ==
  ASSUME NEW x \in Quotes, Evict(x), NEW q \in Quotes
  PROVE  Kept(q)
  <1>1. CASE x = q
    BY <1>1 DEF Kept
  <1>2. CASE x # q
    BY <1>2 DEF Evict, Kept, Live, Holds
  <1> QED
    BY <1>1, <1>2

LEMMA IntakeKeeps ==
  ASSUME StoreInv, OwnerSeen, IntakeNext
  PROVE  \A q \in Quotes : Kept(q)
  <1>1. ASSUME NEW u \in Customers, AskQuote(u) PROVE KeepsLive
    BY <1>1, RequestsKeepQuotes DEF AskQuote, MakeQuote
  <1>2. ASSUME NEW u \in Customers, NEW p \in Procs, NEW q \in Quotes, PlaceOrder(p, u, q)
        PROVE  KeepsLive
    <2>1. req[p].step \notin {"insert", "restore"}
      BY <1>2 DEF PlaceOrder, NoRequest, Arrived
    <2> QED
      BY <1>2, <2>1, EmptyHandedKeeps DEF PlaceOrder
  <1>3. ASSUME NEW p \in Procs, FindExisting(p) PROVE KeepsLive
    <2>1. req[p].step \notin {"insert", "restore"} /\ redis' = redis
      BY <1>3 DEF FindExisting, At
    <2>2. CASE AnswerExisting(p)
      <3>1. PICK o : req' = [req EXCEPT ![p] = [req[p] EXCEPT !.step = "duplicate", !.got = o]]
        BY <2>2 DEF AnswerExisting
      <3> QED
        BY <2>1, <3>1, EmptyHandedKeeps
    <2> QED
      BY <1>3, <2>1, <2>2, GoEmptyHandedKeeps DEF FindExisting
  <1>4. ASSUME NEW p \in Procs, QuoteImport(p) PROVE KeepsLive
    <2>1. req[p].step \notin {"insert", "restore"} /\ redis \subseteq redis'
      BY <1>4 DEF QuoteImport, At, MakeQuote
    <2>2. CASE \E q \in Quotes : req' = [req EXCEPT ![p].step = "findAgain", ![p].q = q]
      <3>1. PICK q : req' = [req EXCEPT ![p] = [req[p] EXCEPT !.step = "findAgain", !.q = q]]
        BY <2>2
      <3> QED
        BY <2>1, <3>1, EmptyHandedKeeps
    <2> QED
      BY <1>4, <2>1, <2>2, GoEmptyHandedKeeps DEF QuoteImport, Fail
  <1>5. ASSUME NEW p \in Procs, SeeQuote(p) PROVE KeepsLive
    <2>1. req[p].step \notin {"insert", "restore"} /\ redis' = redis
      BY <1>5 DEF SeeQuote, At
    <2> QED
      BY <1>5, <2>1, GoEmptyHandedKeeps DEF SeeQuote, Fail
  <1>6. ASSUME NEW q \in Quotes, Age(q) PROVE KeepsLive
    BY <1>6, RequestsKeepQuotes DEF Age
  <1>7. ASSUME NEW p \in Procs, Serve(p) PROVE \A q \in Quotes : Kept(q)
    BY <1>3, <1>4, <1>5, <1>7, LiveIsKept, TakeQuoteKeeps, InsertOrderKeeps, RestoreQuoteKeeps
       DEF Serve
  <1> QED
    BY <1>1, <1>2, <1>6, <1>7, LiveIsKept, BreakKeeps, EvictKeeps DEF IntakeNext

LEMMA StoreKeeps ==
  ASSUME StoreInv, StoreNext
  PROVE  KeepsLive
  <1>1. ASSUME UNCHANGED intakeVars PROVE KeepsLive
    BY <1>1, RequestsKeepQuotes DEF intakeVars
  <1>2. ASSUME NEW w, NEW e, NEW c, Post(w, e, c) PROVE KeepsLive
    <2>1. PICK p \in Procs : SendKey(p, e)
      BY <1>2 DEF Post
    <2>2. req[p].step \notin {"insert", "restore"}
      BY <2>1 DEF SendKey, NoRequest, Arrived
    <2> QED
      BY <1>2, <2>1, <2>2, EmptyHandedKeeps DEF Post, SendKey
  <1>3. ASSUME NEW p \in Procs, req[p].step \in Done, req' = [req EXCEPT ![p] = NoRequest],
               UNCHANGED redis
        PROVE  KeepsLive
    BY <1>3, EmptyHandedKeeps DEF Done
  <1>4. ASSUME NEW w \in Workers, ReadAnswer(w) PROVE KeepsLive
    BY <1>3, <1>4 DEF ReadAnswer, Done, StoreInv, WaitsForOwn
  <1>5. ASSUME NEW w \in Workers, NEW e \in Keys,
               AsyncSend(w, e) \/ ManualSend(w, e) \/ \E c \in Couriers : AssignBox(w, e, c)
        PROVE  KeepsLive
    BY <1>1, <1>2, <1>5 DEF AsyncSend, ManualSend, AssignBox
  <1>6. ASSUME NEW w \in Workers, GiveUp(w) \/ AssignCourier(w) \/ ShowCourier(w) \/ WorkerDies(w)
        PROVE  KeepsLive
    BY <1>1, <1>6 DEF GiveUp, AssignCourier, ShowCourier, WorkerDies
  <1>7. ASSUME NEW e \in Keys, StatusChanged(e) \/ \E c \in Couriers : AssignElsewhere(e, c)
        PROVE  KeepsLive
    BY <1>1, <1>7 DEF StatusChanged, AssignElsewhere
  <1>8. ASSUME NEW p \in Procs, Leave(p) PROVE KeepsLive
    BY <1>3, <1>8 DEF Leave
  <1> QED
    BY <1>4, <1>5, <1>6, <1>7, <1>8 DEF StoreNext

\* A quote that still has time left stays in Redis or in the hands of the
\* request that consumes it until an order is made of it, Redis evicts it, or
\* the request that holds it breaks off: not when an insert fails or its commit
\* is lost, when somebody else's request names it, or when the same order is
\* imported a second time (consumeLockedQuote checks the owner before it takes
\* the key, and the catch blocks of create and createFromIntegration put it
\* back).
THEOREM QuotesAreNotLost == Spec => QuoteNotLost
  <1>1. Init => OwnerSeen
    BY DEF Init, IntakeInit, OwnerSeen, At, NoRequest, Arrived
  <1>2. StoreInv /\ OwnerSeen /\ [Next]_vars => OwnerSeen'
    BY OwnerSeenStep
  <1>3. StoreInv /\ OwnerSeen /\ [Next]_vars => [\A q \in Quotes : Kept(q)]_intakeVars
    BY IntakeKeeps, StoreKeeps, LiveIsKept DEF Next, vars
  <1> QED
    BY <1>1, <1>2, <1>3, StoreInvariant, PTL DEF Spec, QuoteNotLost, Kept
==============================================================================
