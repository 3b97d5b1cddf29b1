------------------------------- MODULE Tariff -------------------------------
(***************************************************************************)
(* What a delivery costs, and where there is one.  Operators publish and   *)
(* deactivate pricing rules, each publication a transaction that archives  *)
(* the active rules of its vehicle and inserts its own; they create, open  *)
(* and close service zones.  A quote looks at the zones, once for each end *)
(* of the trip, asks a provider for the route and the database for the     *)
(* rule in force, and calculates a price in binary floating point.         *)
(*                                                                         *)
(* Transactions are READ COMMITTED: an UPDATE finds the rows by a          *)
(* snapshot, locks them one by one, waits for a lock, and looks again at a *)
(* row it waited for.  What a transaction writes is seen when it commits.  *)
(*                                                                         *)
(* The operators marked (Slip: ...) are no part of the system: each is a   *)
(* step with one mistake in it, kept to see that the properties notice.    *)
(***************************************************************************)
EXTENDS Integers

CONSTANTS
  None,
  Rules,        \* pricing rules, each with the transaction that makes it
  Vehicles,
  Fares,        \* the numbers of a rule
  Zones,
  Covers,       \* the ends of the trip a zone covers
  InRadius,     \* the ends within the radius that holds while there is no zone
  Requests,     \* for a quote for the trip
  Distances,    \* of the trip, as a map provider may have it, in metres
  Straight,     \* the distance from the coordinates alone
  Modes,        \* ROUTING_PROVIDER, out of AllModes
  HasKey,       \* the map providers with a key in the environment
  OverKm,       \* <<metres, fare per km>>: (metres / 1000) * fare comes out
                \* a little above an integer it should be
  OverSurge     \* <<subtotal, surge in hundredths>>: the same of their product

AllModes == {"approximate", "mapir", "neshan", "auto"}
Ends == {"pickup", "dropoff"}

\* CreatePricingRuleDto; the surge is at least 0.1 and has two decimals.
FareNumbers ==
  [base : Nat, included : Nat, perKm : Nat, minimum : Nat, surge : {n \in Nat : n >= 10}]

ASSUME RulesAssumption     == None \notin Rules
ASSUME FaresAssumption     == Fares \subseteq FareNumbers
ASSUME ZonesAssumption     == Covers \in [Zones -> SUBSET Ends] /\ InRadius \subseteq Ends
ASSUME DistancesAssumption == Distances \subseteq Nat /\ Straight \in Nat
ASSUME ModesAssumption     == Modes \subseteq AllModes /\ HasKey \subseteq {"mapir", "neshan"}

\* Doubles are exact enough to go wrong at an integer only, and 0 times
\* anything is 0.
ASSUME OverKmAssumption ==
  \A mp \in OverKm : /\ mp \in Nat \X Nat
                     /\ mp[2] > 0
                     /\ (mp[1] * mp[2]) % 1000 = 0
ASSUME OverSurgeAssumption ==
  \A ss \in OverSurge : ss \in Nat \X Nat /\ (ss[1] * ss[2]) % 100 = 0

VARIABLES
  rule,         \* the rules, and the transactions that make them
  clock,        \* counts the inserts: the order of created_at
  overlapped,   \* (history) pairs of transactions that were open at the same time
  zone,         \* "none" (no row yet), "open" (is_active) or "closed"
  provider,     \* the environment
  req,          \* what each request is doing
  met           \* (history) the ends of the trip that were served since it began

vars == <<rule, clock, overlapped, zone, provider, req, met>>
-----------------------------------------------------------------------------
(* The price.                                                              *)

CeilDiv(a, n) == (a + n - 1) \div n

Billable(metres, fare) == IF metres > fare.included THEN metres - fare.included ELSE 0

DistanceFare(metres, perKm) ==
  CeilDiv(metres * perKm, 1000) + (IF <<metres, perKm>> \in OverKm THEN 1 ELSE 0)

Subtotal(metres, fare) ==
  LET sum == fare.base + DistanceFare(Billable(metres, fare), fare.perKm)
  IN  IF sum > fare.minimum THEN sum ELSE fare.minimum

WithSurge(subtotal, surge) ==
  CeilDiv(subtotal * surge, 100) + (IF <<subtotal, surge>> \in OverSurge THEN 1 ELSE 0)

\* (Slip: kilometres begun are paid in full, and the surge rounds down.)
PriceByKilometre(metres, fare) ==
  LET sum == fare.base + CeilDiv(Billable(metres, fare), 1000) * fare.perKm
  IN  ((IF sum > fare.minimum THEN sum ELSE fare.minimum) * fare.surge) \div 100

Price(metres, fare) == WithSurge(Subtotal(metres, fare), fare.surge)
-----------------------------------------------------------------------------
Phase == {"archive", "commit", "live", "archived", "failed"}

IsAt(r, phase) == rule[r] # None /\ rule[r].at = phase

RuleRow ==
  [at : Phase, vehicle : Vehicles, fare : Fares, stamp : Nat,
   todo : SUBSET Rules, held : SUBSET Rules]

Request ==
  [at : {"area", "price", "ok", "outside", "noRule", "noRoute"}, vehicle : Vehicles,
   left : SUBSET (Ends \cup {"rule", "route"}), ask : {"mapir", "neshan", "approximate"},
   rule : Rules \cup {None}, metres : Nat, price : Nat]

ASSUME NoneAssumption == None \notin RuleRow \cup Request

TypeOK ==
  /\ rule \in [Rules -> RuleRow \cup {None}]
  /\ \A r \in Rules : rule[r] # None => \A x \in rule[r].held : IsAt(x, "live")
  /\ clock \in Nat
  /\ overlapped \subseteq Rules \X Rules
  /\ zone \in [Zones -> {"none", "open", "closed"}]
  /\ provider \in Modes
  /\ req \in [Requests -> Request \cup {None}]
  /\ met \in [Requests -> SUBSET Ends]

Init ==
  /\ rule = [r \in Rules |-> None]
  /\ clock = 0
  /\ overlapped = {}
  /\ zone = [z \in Zones |-> "none"]
  /\ provider \in Modes
  /\ req = [c \in Requests |-> None]
  /\ met = [c \in Requests |-> {}]

Live(v) == {r \in Rules : IsAt(r, "live") /\ rule[r].vehicle = v}

\* A transaction that has run a statement and is not over.
Open(r) == IsAt(r, "archive") \/ IsAt(r, "commit")

Held(r) == \E p \in Rules : rule[p] # None /\ r \in rule[p].held

\* (Slip: the oldest.)
InForceOldest(v) == {r \in Live(v) : \A s \in Live(v) : rule[r].stamp <= rule[s].stamp}

\* findPricingRule: the newest of the active ones; the singleton of it, or {}.
InForce(v) == {r \in Live(v) : \A s \in Live(v) : rule[s].stamp <= rule[r].stamp}

\* Within an open zone, or, before the first zone is made, within the radius.
Served(end) ==
  IF \A z \in Zones : zone[z] = "none"
    THEN end \in InRadius
    ELSE \E z \in Zones : zone[z] = "open" /\ end \in Covers[z]
-----------------------------------------------------------------------------
(* Publications.                                                           *)

\* The UPDATE of a publication finds the rules to archive.
Finds(r, v, f, rows) ==
  /\ rule[r] = None
  /\ rule' = [rule EXCEPT ![r] = [at |-> "archive", vehicle |-> v, fare |-> f, stamp |-> 0,
                                  todo |-> rows, held |-> {}]]
  /\ overlapped' = overlapped \cup ({r} \X {p \in Rules : Open(p)})
                              \cup ({p \in Rules : Open(p)} \X {r})
  /\ UNCHANGED <<clock, zone, provider, req>>

\* (Slip: only the rule in force is archived.)
FindNewest(r, v, f) == Finds(r, v, f, InForce(v))

FindActive(r, v, f) == Finds(r, v, f, Live(v))

\* The form of the page.
Publish(r) == \E v \in Vehicles, f \in Fares : FindActive(r, v, f)

\* (Slip: the row is not looked at again.)
ArchiveRowAnyway(r, x) ==
  /\ IsAt(r, "archive") /\ x \in rule[r].todo /\ ~Held(x)
  /\ rule' = [rule EXCEPT ![r].todo = @ \ {x}, ![r].held = @ \cup {x}]
  /\ UNCHANGED <<clock, overlapped, zone, provider, req>>

\* Lock a row, and archive it if it still is active.
ArchiveRow(r, x) ==
  /\ IsAt(r, "archive") /\ x \in rule[r].todo /\ ~Held(x)
  /\ rule' = [rule EXCEPT ![r].todo = @ \ {x},
                          ![r].held = IF IsAt(x, "live") THEN @ \cup {x} ELSE @]
  /\ UNCHANGED <<clock, overlapped, zone, provider, req>>

\* (Slip: the old rules are archived for all to see before there is a new one.)
InsertApart(r) ==
  /\ IsAt(r, "archive") /\ rule[r].todo = {}
  /\ clock' = clock + 1
  /\ rule' = [x \in Rules |->
       IF x = r THEN [rule[r] EXCEPT !.at = "commit", !.stamp = clock', !.held = {}]
       ELSE IF x \in rule[r].held THEN [rule[x] EXCEPT !.at = "archived"] ELSE rule[x]]
  /\ UNCHANGED <<overlapped, zone, provider, req>>

Insert(r) ==
  /\ IsAt(r, "archive") /\ rule[r].todo = {}
  /\ clock' = clock + 1
  /\ rule' = [rule EXCEPT ![r].at = "commit", ![r].stamp = clock']
  /\ UNCHANGED <<overlapped, zone, provider, req>>

Commit(r) ==
  /\ IsAt(r, "commit")
  /\ rule' = [x \in Rules |->
       IF x = r THEN [rule[r] EXCEPT !.at = "live", !.held = {}]
       ELSE IF x \in rule[r].held THEN [rule[x] EXCEPT !.at = "archived"] ELSE rule[x]]
  /\ UNCHANGED <<clock, overlapped, zone, provider, req>>

\* The database fails, a wait takes five seconds or is a deadlock, or the API stops.
Abort(r) ==
  /\ Open(r)
  /\ rule' = [rule EXCEPT ![r].at = "failed", ![r].todo = {}, ![r].held = {}]
  /\ UNCHANGED <<clock, overlapped, zone, provider, req>>

\* An UPDATE of one row; it waits while the row is locked, and then finds it
\* archived or as it was.
Deactivate(r) ==
  /\ IsAt(r, "live") /\ ~Held(r)
  /\ rule' = [rule EXCEPT ![r].at = "archived"]
  /\ UNCHANGED <<clock, overlapped, zone, provider, req>>
-----------------------------------------------------------------------------
(* Zones.                                                                  *)

CreateZone(z) ==
  /\ zone[z] = "none"
  /\ zone' = [zone EXCEPT ![z] = "open"]
  /\ UNCHANGED <<rule, clock, overlapped, provider, req>>

OpenZone(z) ==
  /\ zone[z] # "none"
  /\ zone' = [zone EXCEPT ![z] = "open"]
  /\ UNCHANGED <<rule, clock, overlapped, provider, req>>

CloseZone(z) ==
  /\ zone[z] # "none"
  /\ zone' = [zone EXCEPT ![z] = "closed"]
  /\ UNCHANGED <<rule, clock, overlapped, provider, req>>

\* The button of the page: open or close, by what the page knew.
Toggle(z) == OpenZone(z) \/ CloseZone(z)
-----------------------------------------------------------------------------
(* Quotes.                                                                 *)

Doing(c, step) == req[c] # None /\ req[c].at = step

Fails(c, why) == req' = [req EXCEPT ![c].at = why]

\* A step that is done; the next one follows when nothing is left.
Leaves(c, step, request) ==
  req' = [req EXCEPT ![c] = [request EXCEPT !.left = @ \ {step}]]

Ask(c, v) ==
  /\ req[c] = None
  /\ req' = [req EXCEPT ![c] =
       [at |-> "area", vehicle |-> v, left |-> Ends, ask |-> "approximate",
        rule |-> None, metres |-> 0, price |-> 0]]
  /\ UNCHANGED <<rule, clock, overlapped, zone, provider>>

CheckArea(c, end) ==
  /\ Doing(c, "area") /\ end \in req[c].left
  /\ IF Served(end) THEN Leaves(c, end, req[c]) ELSE Fails(c, "outside")
  /\ UNCHANGED <<rule, clock, overlapped, zone, provider>>

\* Whom to ask first: with "auto", who has a key.
FirstAsk ==
  CASE provider # "auto"    -> provider
    [] "mapir" \in HasKey   -> "mapir"
    [] "neshan" \in HasKey  -> "neshan"
    [] OTHER                -> "approximate"

GoPrice(c) ==
  /\ Doing(c, "area") /\ req[c].left = {}
  /\ req' = [req EXCEPT ![c].at = "price", ![c].left = {"rule", "route"}, ![c].ask = FirstAsk]
  /\ UNCHANGED <<rule, clock, overlapped, zone, provider>>

FindRule(c) ==
  /\ Doing(c, "price") /\ "rule" \in req[c].left
  /\ \/ InForce(req[c].vehicle) = {} /\ Fails(c, "noRule")
     \/ \E r \in InForce(req[c].vehicle) : Leaves(c, "rule", [req[c] EXCEPT !.rule = r])
  /\ UNCHANGED <<rule, clock, overlapped, zone, provider>>

\* The provider has a route of some length,
RouteFound(c) ==
  /\ Doing(c, "price") /\ "route" \in req[c].left
  /\ \E m \in IF req[c].ask = "approximate" THEN {Straight} ELSE Distances :
       Leaves(c, "route", [req[c] EXCEPT !.metres = m])
  /\ UNCHANGED <<rule, clock, overlapped, zone, provider>>

\* or none, no key, a wrong answer, or none in five seconds.
RouteFails(c) ==
  /\ Doing(c, "price") /\ "route" \in req[c].left /\ req[c].ask # "approximate"
  /\ IF provider = "auto"
       THEN req' = [req EXCEPT ![c].ask =
              IF @ = "mapir" /\ "neshan" \in HasKey THEN "neshan" ELSE "approximate"]
       ELSE Fails(c, "noRoute")
  /\ UNCHANGED <<rule, clock, overlapped, zone, provider>>

\* The quote is kept (Intake).
Calculate(c) ==
  /\ Doing(c, "price") /\ req[c].left = {}
  /\ req' = [req EXCEPT ![c].at = "ok",
                        ![c].price = Price(req[c].metres, rule[req[c].rule].fare)]
  /\ UNCHANGED <<rule, clock, overlapped, zone, provider>>

Answered(c) ==
  /\ req[c] # None /\ req[c].at \notin {"area", "price"}
  /\ req' = [req EXCEPT ![c] = None]
  /\ UNCHANGED <<rule, clock, overlapped, zone, provider>>
-----------------------------------------------------------------------------
\* What the page promises of a quote, and what holds before the first zone.
InArea(end) ==
  \/ \E z \in Zones : zone[z] = "open" /\ end \in Covers[z]
  \/ end \in InRadius /\ \A z \in Zones : zone[z] = "none"

Remember ==
  met' = [c \in Requests |->
    IF req'[c] = None THEN {} ELSE met[c] \cup {e \in Ends : InArea(e)'}]

Quoting(c) ==
  \/ \E v \in Vehicles : Ask(c, v)
  \/ \E e \in Ends : CheckArea(c, e)
  \/ GoPrice(c) \/ FindRule(c) \/ RouteFound(c) \/ RouteFails(c) \/ Calculate(c) \/ Answered(c)

Operating ==
  \/ \E r \in Rules :
       \/ Publish(r) \/ Insert(r) \/ Commit(r) \/ Abort(r) \/ Deactivate(r)
       \/ \E x \in Rules : ArchiveRow(r, x)
  \/ \E z \in Zones : CreateZone(z) \/ Toggle(z)

Next == (Operating \/ \E c \in Requests : Quoting(c)) /\ Remember

Spec == Init /\ [][Next]_vars
-----------------------------------------------------------------------------
\* A vehicle that has a price keeps having one, through any publications at the
\* same time, but for a deactivation.
PriceStays ==
  [][\A v \in Vehicles : InForce(v) # {} /\ InForce(v)' = {} =>
       \E r \in InForce(v) : Deactivate(r)]_vars

\* A price does not come back that a later one took the place of, but when the
\* later one is deactivated.
NoWayBack ==
  [][\A v \in Vehicles : \A r \in InForce(v), s \in InForce(v)' :
       rule'[s].stamp < rule[r].stamp => Deactivate(r)]_vars

\* A vehicle has two active rules only if they were published at the same time
\* (and then the operators do not see that the older one comes back later).
TwoOnlyByOverlap ==
  \A v \in Vehicles : \A r, s \in Live(v) : r # s => <<r, s>> \in overlapped

\* Each end of the trip was served at some time of the request; no distance of a
\* shorter trip costs more; and what binary fractions and the second rounding
\* add to the price is less than the surge of one toman and two tomans more.
QuoteHonest ==
  \A c \in Requests : Doing(c, "ok") =>
    LET fare  == rule[req[c].rule].fare
        exact == fare.base * 1000 + Billable(req[c].metres, fare) * fare.perKm
        least == IF exact > fare.minimum * 1000 THEN exact ELSE fare.minimum * 1000
    IN  /\ Ends = met[c]
        /\ \A m \in Distances : m < req[c].metres => Price(m, fare) <= req[c].price
        /\ req[c].price * 100 >= CeilDiv(least, 1000) * fare.surge
        /\ req[c].price * 100 < CeilDiv(least, 1000) * fare.surge + fare.surge + 200
=============================================================================
