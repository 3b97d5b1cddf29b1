---------------------------- MODULE TariffProofs ----------------------------
(***************************************************************************)
(* Proofs about the rules of Tariff, for any number of rules, vehicles,    *)
(* zones and requests.  The invariant says, of a publication that is open, *)
(* which active rules it will archive, and that those it missed were       *)
(* published at the same time.                                             *)
(*                                                                         *)
(* And about its quotes: that both ends of the trip were served while the  *)
(* request was made, and what the price is at least and at most, for any   *)
(* fares, distances and errors of binary fractions.                        *)
(***************************************************************************)
EXTENDS Tariff, WellFoundedInduction, TLAPS

\* A publication concerns the rules of its vehicle; the rules it has locked are
\* its own, still active, and older than its own.
Publications ==
  \A r \in Rules : rule[r] # None =>
    /\ rule[r].stamp <= clock
    /\ rule[r].at \notin {"archive", "commit"} => rule[r].held = {}
    /\ \A x \in rule[r].todo \cup rule[r].held :
         rule[x] # None /\ rule[x].vehicle = rule[r].vehicle
    /\ rule[r].at = "commit" =>
         rule[r].todo = {} /\ \A x \in rule[r].held : rule[x].stamp < rule[r].stamp

LocksExclude ==
  \A p, q \in Rules :
    rule[p] # None /\ rule[q] # None /\ p # q => rule[p].held \cap rule[q].held = {}

\* Who is open at the same time is noted down, and so is what an open
\* publication will not archive.
OpenNoted == \A p, q \in Rules : Open(p) /\ Open(q) /\ p # q => <<p, q>> \in overlapped

MissedNoted ==
  \A p, x \in Rules :
    /\ Open(p) /\ IsAt(x, "live") /\ rule[x].vehicle = rule[p].vehicle
    /\ x \notin rule[p].todo \cup rule[p].held
    => <<p, x>> \in overlapped /\ <<x, p>> \in overlapped

\* What types say of the rules, and that what is locked is active.
RuleTypes ==
  /\ rule \in [Rules -> RuleRow \cup {None}]
  /\ \A r \in Rules : rule[r] # None => \A x \in rule[r].held : IsAt(x, "live")
  /\ clock \in Nat
  /\ overlapped \subseteq Rules \X Rules

RuleInv ==
  /\ RuleTypes /\ Publications /\ LocksExclude
  /\ OpenNoted /\ MissedNoted /\ TwoOnlyByOverlap
-----------------------------------------------------------------------------
LEMMA InitRuleInv == Init => RuleInv
BY DEF Init, RuleInv, RuleTypes, Publications, LocksExclude, OpenNoted, MissedNoted,
       TwoOnlyByOverlap, Live, IsAt, Open

LEMMA RowTyped ==
  ASSUME RuleTypes, NEW r \in Rules, rule[r] # None
  PROVE  /\ rule[r] \in RuleRow /\ rule[r].at \in Phase
         /\ rule[r].todo \subseteq Rules /\ rule[r].held \subseteq Rules
         /\ rule[r].stamp \in Nat /\ rule[r].vehicle \in Vehicles /\ rule[r].fare \in Fares
         /\ \A x \in rule[r].held : IsAt(x, "live") /\ rule[x] # None
<1>1. rule[r] \in RuleRow
  BY DEF RuleTypes
<1> QED BY <1>1 DEF RuleTypes, RuleRow, IsAt

\* A row that is one keeps being told from none.
LEMMA RowIsSome == \A row \in RuleRow : row # None
BY NoneAssumption

\* A row in another phase.
LEMMA PhaseChanged ==
  ASSUME NEW row \in RuleRow, NEW phase \in Phase
  PROVE  LET new == [row EXCEPT !.at = phase] IN
         /\ new \in RuleRow /\ new # None /\ new.at = phase
         /\ new.vehicle = row.vehicle /\ new.fare = row.fare /\ new.stamp = row.stamp
         /\ new.todo = row.todo /\ new.held = row.held
<1> DEFINE new == [row EXCEPT !.at = phase]
<1>1. new \in RuleRow
  BY DEF RuleRow
<1> QED BY <1>1, RowIsSome DEF RuleRow

\* A row that has been inserted.
LEMMA Stamped ==
  ASSUME NEW row \in RuleRow, NEW n \in Nat
  PROVE  LET new == [row EXCEPT !.at = "commit", !.stamp = n] IN
         /\ new \in RuleRow /\ new # None /\ new.at = "commit" /\ new.stamp = n
         /\ new.vehicle = row.vehicle /\ new.fare = row.fare
         /\ new.todo = row.todo /\ new.held = row.held
<1> DEFINE new == [row EXCEPT !.at = "commit", !.stamp = n]
<1>1. new \in RuleRow
  <2>1. "commit" \in Phase
    BY DEF Phase
  <2> QED BY <2>1 DEF RuleRow
<1> QED BY <1>1, RowIsSome DEF RuleRow

\* The row a publication begins with.
LEMMA FindKeeps ==
  ASSUME RuleInv, NEW r \in Rules, NEW v \in Vehicles, NEW f \in Fares, FindActive(r, v, f)
  PROVE  RuleInv'
<1> DEFINE new == [at |-> "archive", vehicle |-> v, fare |-> f, stamp |-> 0,
                   todo |-> Live(v), held |-> {}]
<1>0. /\ rule \in [Rules -> RuleRow \cup {None}] /\ Live(v) \subseteq Rules
      /\ clock \in Nat
  BY DEF RuleInv, RuleTypes, Live
<1>1. new \in RuleRow /\ new # None
  <2>1. new \in RuleRow
    BY <1>0 DEF RuleRow, Phase
  <2> QED BY <2>1, RowIsSome
<1>2. /\ rule[r] = None /\ clock' = clock
      /\ rule'[r] = new /\ \A x \in Rules \ {r} : rule'[x] = rule[x]
      /\ rule' \in [Rules -> RuleRow \cup {None}]
  BY <1>0, <1>1 DEF FindActive, Finds
<1>3. /\ overlapped \subseteq overlapped' /\ overlapped' \subseteq Rules \X Rules
      /\ \A p \in Rules : Open(p) => <<p, r>> \in overlapped' /\ <<r, p>> \in overlapped'
  BY DEF FindActive, Finds, RuleInv, RuleTypes
<1>4. /\ \A x \in Rules, phase \in Phase : x # r => (IsAt(x, phase)' <=> IsAt(x, phase))
      /\ \A x \in Rules : x # r => (Open(x)' <=> Open(x))
      /\ ~IsAt(r, "live")' /\ ~IsAt(r, "live")
  BY <1>1, <1>2 DEF IsAt, Open
<1>5. RuleTypes'
  <2>1. ASSUME NEW p \in Rules, rule'[p] # None, NEW x \in rule'[p].held
        PROVE  IsAt(x, "live")'
    <3>1. p # r /\ rule[p] # None /\ x \in rule[p].held
      BY <1>1, <1>2, <2>1
    <3>2. x \in Rules /\ IsAt(x, "live")
      BY <3>1, RowTyped DEF RuleInv
    <3> QED BY <1>4, <3>2 DEF Phase
  <2> QED BY <1>0, <1>2, <1>3, <2>1 DEF RuleTypes
<1>6. Publications'
  <2> SUFFICES ASSUME NEW p \in Rules, rule'[p] # None
               PROVE  /\ rule'[p].stamp <= clock'
                      /\ rule'[p].at \notin {"archive", "commit"} => rule'[p].held = {}
                      /\ \A x \in rule'[p].todo \cup rule'[p].held :
                           rule'[x] # None /\ rule'[x].vehicle = rule'[p].vehicle
                      /\ rule'[p].at = "commit" =>
                           /\ rule'[p].todo = {}
                           /\ \A x \in rule'[p].held : rule'[x].stamp < rule'[p].stamp
    BY DEF Publications
  <2>1. CASE p = r
    <3>1. \A x \in Live(v) : x \in Rules \ {r} /\ rule[x] # None /\ rule[x].vehicle = v
      BY <1>2 DEF Live, IsAt
    <3> QED BY <1>0, <1>2, <2>1, <3>1
  <2>2. CASE p # r
    <3>1. rule[p] # None /\ rule'[p] = rule[p]
      BY <1>2, <2>2
    <3>2. \A x \in rule[p].todo \cup rule[p].held : x \in Rules /\ rule[x] # None
      BY <3>1, RowTyped DEF RuleInv, Publications
    <3>3. \A x \in rule[p].todo \cup rule[p].held : rule'[x] = rule[x]
      BY <1>2, <3>2
    <3> QED BY <1>2, <3>1, <3>2, <3>3 DEF RuleInv, Publications
  <2> QED BY <2>1, <2>2
<1>7. LocksExclude'
  BY <1>1, <1>2 DEF RuleInv, LocksExclude
<1>8. OpenNoted'
  BY <1>2, <1>3, <1>4 DEF RuleInv, OpenNoted
<1>9. MissedNoted'
  <2> SUFFICES ASSUME NEW p \in Rules, NEW x \in Rules,
                      Open(p)', IsAt(x, "live")', rule'[x].vehicle = rule'[p].vehicle,
                      x \notin rule'[p].todo \cup rule'[p].held
               PROVE  <<p, x>> \in overlapped' /\ <<x, p>> \in overlapped'
    BY DEF MissedNoted
  <2>1. x # r /\ IsAt(x, "live")
    BY <1>4 DEF Phase
  <2>2. p # r
    BY <1>1, <1>2, <2>1 DEF Live
  <2> QED BY <1>2, <1>3, <1>4, <2>1, <2>2 DEF RuleInv, MissedNoted
<1>10. TwoOnlyByOverlap'
  BY <1>2, <1>3, <1>4 DEF RuleInv, TwoOnlyByOverlap, Live, IsAt
<1> QED BY <1>5, <1>6, <1>7, <1>8, <1>9, <1>10 DEF RuleInv

\* Steps that change one row and no lock but its own.
LEMMA ArchiveKeeps ==
  ASSUME RuleInv, NEW r \in Rules, NEW z \in Rules, ArchiveRow(r, z)
  PROVE  RuleInv'
<1> DEFINE new == [rule[r] EXCEPT !.todo = @ \ {z},
                                  !.held = IF IsAt(z, "live") THEN @ \cup {z} ELSE @]
<1>0. /\ rule \in [Rules -> RuleRow \cup {None}] /\ clock \in Nat
      /\ rule[r] # None /\ rule[r] \in RuleRow /\ rule[r].at = "archive"
      /\ z \in rule[r].todo /\ ~Held(z)
  BY DEF RuleInv, RuleTypes, ArchiveRow, IsAt
<1>1. /\ new \in RuleRow /\ new # None
      /\ new.at = "archive" /\ new.vehicle = rule[r].vehicle /\ new.stamp = rule[r].stamp
      /\ new.todo = rule[r].todo \ {z}
      /\ new.held = IF IsAt(z, "live") THEN rule[r].held \cup {z} ELSE rule[r].held
  <2>1. new \in RuleRow
    BY <1>0 DEF RuleRow
  <2>2. new # None
    BY <2>1, RowIsSome
  <2> QED BY <1>0, <2>1, <2>2 DEF RuleRow
<1>2. /\ rule' = [rule EXCEPT ![r] = new] /\ UNCHANGED <<clock, overlapped>>
      /\ rule'[r] = new /\ \A x \in Rules \ {r} : rule'[x] = rule[x]
      /\ rule' \in [Rules -> RuleRow \cup {None}]
  BY <1>0, <1>1 DEF ArchiveRow
<1> HIDE DEF new
<1>3. /\ \A x \in Rules, phase \in Phase : IsAt(x, phase)' <=> IsAt(x, phase)
      /\ \A x \in Rules : Open(x)' <=> Open(x)
      /\ ~IsAt(r, "live")
      /\ \A x \in Rules : rule'[x] = None <=> rule[x] = None
      /\ \A x \in Rules : rule[x] # None =>
           rule'[x].vehicle = rule[x].vehicle /\ rule'[x].stamp = rule[x].stamp
  BY <1>0, <1>1, <1>2 DEF IsAt, Open
<1>4. RuleTypes'
  <2>1. ASSUME NEW p \in Rules, rule'[p] # None, NEW x \in rule'[p].held
        PROVE  IsAt(x, "live")'
    <3>1. rule[p] # None /\ (x \in rule[p].held \/ (x = z /\ IsAt(z, "live")))
      BY <1>1, <1>2, <1>3, <2>1
    <3>2. x \in Rules /\ IsAt(x, "live")
      BY <3>1, RowTyped DEF RuleInv
    <3> QED BY <1>3, <3>2 DEF Phase
  <2> QED BY <1>0, <1>2, <2>1 DEF RuleInv, RuleTypes
<1>5. Publications'
  <2>1. \A p \in Rules : rule[p] # None =>
          rule[p].todo \subseteq Rules /\ rule[p].held \subseteq Rules
    BY RowTyped DEF RuleInv
  <2> QED BY <1>0, <1>1, <1>2, <1>3, <2>1 DEF RuleInv, Publications
<1>6. LocksExclude'
  BY <1>0, <1>1, <1>2 DEF RuleInv, LocksExclude, Held
<1>7. OpenNoted'
  BY <1>2, <1>3 DEF RuleInv, OpenNoted
<1>8. MissedNoted'
  <2> SUFFICES ASSUME NEW p \in Rules, NEW x \in Rules,
                      Open(p)', IsAt(x, "live")', rule'[x].vehicle = rule'[p].vehicle,
                      x \notin rule'[p].todo \cup rule'[p].held
               PROVE  <<p, x>> \in overlapped /\ <<x, p>> \in overlapped
    BY <1>2 DEF MissedNoted
  <2>1. Open(p) /\ IsAt(x, "live") /\ rule[p] # None /\ rule[x] # None
    BY <1>3 DEF Phase, Open, IsAt
  <2>2. x \notin rule[p].todo \cup rule[p].held
    BY <1>1, <1>2, <2>1
  <2> QED BY <1>3, <2>1, <2>2 DEF RuleInv, MissedNoted
<1>9. TwoOnlyByOverlap'
  BY <1>2, <1>3 DEF RuleInv, TwoOnlyByOverlap, Live, Phase, IsAt
<1> QED BY <1>4, <1>5, <1>6, <1>7, <1>8, <1>9 DEF RuleInv

LEMMA InsertKeeps ==
  ASSUME RuleInv, NEW r \in Rules, Insert(r)
  PROVE  RuleInv'
<1>0. /\ rule \in [Rules -> RuleRow \cup {None}] /\ clock \in Nat /\ clock' = clock + 1
      /\ rule[r] # None /\ rule[r] \in RuleRow /\ rule[r].at = "archive" /\ rule[r].todo = {}
  BY DEF RuleInv, RuleTypes, Insert, IsAt
<1>p. PICK stamp \in Nat : stamp = clock + 1
  BY <1>0
<1> DEFINE new == [rule[r] EXCEPT !.at = "commit", !.stamp = stamp]
<1>1. /\ new \in RuleRow /\ new # None
      /\ new.at = "commit" /\ new.vehicle = rule[r].vehicle /\ new.stamp = stamp
      /\ new.todo = rule[r].todo /\ new.held = rule[r].held
  BY <1>0, Stamped
<1>q. rule' = [rule EXCEPT ![r] = new]
  BY <1>0, <1>p DEF Insert
<1>2. /\ overlapped' = overlapped
      /\ rule'[r] = new /\ \A x \in Rules \ {r} : rule'[x] = rule[x]
      /\ rule' \in [Rules -> RuleRow \cup {None}]
  BY <1>0, <1>1, <1>q DEF Insert, RuleInv, RuleTypes
<1> HIDE DEF new
<1>3. /\ \A x \in Rules : IsAt(x, "live")' <=> IsAt(x, "live")
      /\ \A x \in Rules : Open(x)' <=> Open(x)
      /\ ~IsAt(r, "live")
      /\ \A x \in Rules : rule'[x] = None <=> rule[x] = None
      /\ \A x \in Rules : rule[x] # None =>
           /\ rule'[x].vehicle = rule[x].vehicle
           /\ rule'[x].todo = rule[x].todo /\ rule'[x].held = rule[x].held
  BY <1>0, <1>1, <1>2 DEF IsAt, Open
<1>4. RuleTypes'
  <2>1. ASSUME NEW p \in Rules, rule'[p] # None, NEW x \in rule'[p].held
        PROVE  IsAt(x, "live")'
    <3>1. rule[p] # None /\ x \in rule[p].held
      BY <1>3, <2>1
    <3>2. x \in Rules /\ IsAt(x, "live")
      BY <3>1, RowTyped DEF RuleInv
    <3> QED BY <1>3, <3>2
  <2>2. clock' \in Nat
    BY <1>0
  <2> QED BY <1>2, <2>1, <2>2 DEF RuleInv, RuleTypes
<1>5. Publications'
  <2> SUFFICES ASSUME NEW p \in Rules, rule[p] # None
               PROVE  /\ rule'[p].stamp <= clock'
                      /\ rule'[p].at \notin {"archive", "commit"} => rule'[p].held = {}
                      /\ \A x \in rule'[p].todo \cup rule'[p].held :
                           rule'[x] # None /\ rule'[x].vehicle = rule'[p].vehicle
                      /\ rule'[p].at = "commit" =>
                           /\ rule'[p].todo = {}
                           /\ \A x \in rule'[p].held : rule'[x].stamp < rule'[p].stamp
    BY <1>3 DEF Publications
  <2>1. rule[p] \in RuleRow /\ rule[p].todo \subseteq Rules /\ rule[p].held \subseteq Rules
        /\ \A x \in Rules : rule[x] # None => rule[x].stamp \in Nat
    BY <1>0 DEF RuleRow
  <2>2. \A x \in rule[p].todo \cup rule[p].held :
          rule'[x] # None /\ rule'[x].vehicle = rule'[p].vehicle
    BY <1>3, <2>1 DEF RuleInv, Publications
  <2>3. \A x \in rule[p].held : IsAt(x, "live") /\ x # r
    BY <1>3, <2>1 DEF RuleInv, RuleTypes
  <2>4. \A x \in rule[p].held : rule'[x] = rule[x] /\ rule[x] # None /\ rule[x].stamp <= clock
    BY <1>2, <2>1, <2>3 DEF RuleInv, Publications, IsAt
  <2>5. CASE p = r
    BY <1>0, <1>1, <1>2, <1>3, <1>p, <2>1, <2>2, <2>4, <2>5
  <2>6. CASE p # r
    BY <1>0, <1>2, <1>3, <2>1, <2>2, <2>4, <2>6 DEF RuleInv, Publications
  <2> QED BY <2>5, <2>6
<1>6. LocksExclude'
  BY <1>3 DEF RuleInv, LocksExclude
<1>7. OpenNoted'
  BY <1>2, <1>3 DEF RuleInv, OpenNoted
<1>8. MissedNoted'
  BY <1>2, <1>3 DEF RuleInv, MissedNoted, IsAt, Open
<1>9. TwoOnlyByOverlap'
  BY <1>2, <1>3 DEF RuleInv, TwoOnlyByOverlap, Live, IsAt
<1> QED BY <1>4, <1>5, <1>6, <1>7, <1>8, <1>9 DEF RuleInv

\* The rules in the hands of a publication become archived, its own active.
LEMMA CommitKeeps ==
  ASSUME RuleInv, NEW r \in Rules, Commit(r)
  PROVE  RuleInv'
<1>0. /\ rule \in [Rules -> RuleRow \cup {None}] /\ clock \in Nat
      /\ rule[r] # None /\ rule[r] \in RuleRow /\ rule[r].at = "commit"
      /\ \A x \in rule[r].held : IsAt(x, "live")
      /\ rule[r].held \subseteq Rules /\ r \notin rule[r].held
      /\ UNCHANGED <<clock, overlapped>>
  BY DEF RuleInv, RuleTypes, Commit, IsAt, RuleRow
<1>1. /\ rule'[r] = [rule[r] EXCEPT !.at = "live", !.held = {}]
      /\ \A x \in rule[r].held : rule'[x] = [rule[x] EXCEPT !.at = "archived"]
      /\ \A x \in Rules \ ({r} \cup rule[r].held) : rule'[x] = rule[x]
      /\ rule' = [x \in Rules |-> rule'[x]]
  BY <1>0 DEF Commit
<1>2. ASSUME NEW x \in Rules
      PROVE  /\ rule'[x] \in RuleRow \cup {None}
             /\ rule'[x] = None <=> rule[x] = None
             /\ rule[x] # None =>
                  /\ rule'[x].vehicle = rule[x].vehicle /\ rule'[x].stamp = rule[x].stamp
                  /\ rule'[x].todo = rule[x].todo
                  /\ x # r => rule'[x].held = rule[x].held
  <2>1. CASE x = r
    BY <1>0, <1>1, <2>1, NoneAssumption DEF RuleRow, Phase
  <2>2. CASE x \in rule[r].held
    <3>1. rule[x] \in RuleRow /\ rule[x] # None
      BY <1>0, <2>2 DEF IsAt
    <3>2. "archived" \in Phase /\ rule'[x] = [rule[x] EXCEPT !.at = "archived"] /\ x # r
      BY <1>0, <1>1, <2>2 DEF Phase
    <3> QED BY <3>1, <3>2, PhaseChanged
  <2>3. CASE x \notin {r} \cup rule[r].held
    BY <1>0, <1>1, <2>3
  <2> QED BY <2>1, <2>2, <2>3
<1>3. /\ rule'[r].at = "live" /\ rule'[r].held = {}
      /\ \A x \in rule[r].held : rule'[x].at = "archived"
  <2>1. ASSUME NEW x \in rule[r].held PROVE rule'[x].at = "archived"
    <3>1. rule[x] \in RuleRow
      BY <1>0 DEF IsAt
    <3>2. "archived" \in Phase /\ rule'[x] = [rule[x] EXCEPT !.at = "archived"]
      BY <1>1 DEF Phase
    <3> QED BY <3>1, <3>2, PhaseChanged
  <2> QED BY <1>0, <1>1, <2>1 DEF RuleRow
<1>4. /\ \A x \in Rules : IsAt(x, "live")' <=> x = r \/ (IsAt(x, "live") /\ x \notin rule[r].held)
      /\ \A x \in Rules : Open(x)' <=> Open(x) /\ x # r
      /\ Open(r) /\ ~IsAt(r, "live")
  BY <1>0, <1>1, <1>2, <1>3 DEF IsAt, Open
<1>5. RuleTypes'
  <2>1. \A x \in Rules : rule'[x] # None => \A y \in rule'[x].held : IsAt(y, "live")'
    BY <1>0, <1>2, <1>3, <1>4 DEF RuleInv, RuleTypes, LocksExclude, RuleRow
  <2>2. rule' \in [Rules -> RuleRow \cup {None}]
    BY <1>1, <1>2
  <2> QED BY <1>0, <2>1, <2>2 DEF RuleInv, RuleTypes
<1>6. Publications'
  <2> SUFFICES ASSUME NEW p \in Rules, rule[p] # None
               PROVE  /\ rule'[p].stamp <= clock
                      /\ rule'[p].at \notin {"archive", "commit"} => rule'[p].held = {}
                      /\ \A x \in rule'[p].todo \cup rule'[p].held :
                           rule'[x] # None /\ rule'[x].vehicle = rule'[p].vehicle
                      /\ rule'[p].at = "commit" =>
                           /\ rule'[p].todo = {}
                           /\ \A x \in rule'[p].held : rule'[x].stamp < rule'[p].stamp
    BY <1>0, <1>2 DEF Publications
  <2>1. rule[p].todo \subseteq Rules /\ rule[p].held \subseteq Rules
    BY <1>0 DEF RuleRow
  <2>2. \A x \in rule[p].todo \cup rule[p].held :
          rule'[x] # None /\ rule'[x].vehicle = rule'[p].vehicle
    BY <1>2, <2>1 DEF RuleInv, Publications
  <2>3. CASE p = r
    BY <1>2, <1>3, <2>2, <2>3 DEF RuleInv, Publications
  <2>4. CASE p \in rule[r].held
    <3>1. rule[p].at = "live" /\ rule[p].held = {}
      BY <1>0, <2>4 DEF RuleInv, Publications, IsAt
    <3> QED BY <1>0, <1>2, <1>3, <2>2, <2>4, <3>1 DEF RuleInv, Publications
  <2>5. CASE p \notin {r} \cup rule[r].held
    BY <1>1, <1>2, <2>1, <2>2, <2>5 DEF RuleInv, Publications
  <2> QED BY <2>3, <2>4, <2>5
<1>7. LocksExclude'
  BY <1>2, <1>3 DEF RuleInv, LocksExclude
<1>8. OpenNoted'
  BY <1>0, <1>4 DEF RuleInv, OpenNoted
<1>9. MissedNoted'
  <2> SUFFICES ASSUME NEW p \in Rules, NEW x \in Rules,
                      Open(p)', IsAt(x, "live")', rule'[x].vehicle = rule'[p].vehicle,
                      x \notin rule'[p].todo \cup rule'[p].held
               PROVE  <<p, x>> \in overlapped /\ <<x, p>> \in overlapped
    BY <1>0 DEF MissedNoted
  <2>1. Open(p) /\ p # r /\ rule[p] # None
    BY <1>4 DEF Open, IsAt
  <2>2. CASE x = r
    BY <1>4, <2>1, <2>2 DEF RuleInv, OpenNoted
  <2>3. CASE x # r
    <3>1. IsAt(x, "live") /\ rule[x] # None
      BY <1>4, <2>3 DEF IsAt
    <3> QED BY <1>2, <2>1, <2>3, <3>1 DEF RuleInv, MissedNoted
  <2> QED BY <2>2, <2>3
<1>10. TwoOnlyByOverlap'
  <2> SUFFICES ASSUME NEW p \in Rules, NEW x \in Rules, p # x, IsAt(p, "live")', IsAt(x, "live")',
                      rule'[p].vehicle = rule'[x].vehicle
               PROVE  <<p, x>> \in overlapped
    BY <1>0 DEF TwoOnlyByOverlap, Live
  <2>1. ASSUME NEW y \in Rules \ {r}, IsAt(y, "live")', rule'[y].vehicle = rule'[r].vehicle
        PROVE  <<r, y>> \in overlapped /\ <<y, r>> \in overlapped
    <3>1. IsAt(y, "live") /\ y \notin rule[r].held /\ rule[y] # None
      BY <1>4, <2>1 DEF IsAt
    <3>2. y \notin rule[r].todo
      BY <1>0 DEF RuleInv, Publications
    <3> QED BY <1>0, <1>2, <1>4, <2>1, <3>1, <3>2 DEF RuleInv, MissedNoted
  <2>2. CASE p = r \/ x = r
    BY <2>1, <2>2
  <2>3. CASE p # r /\ x # r
    <3>1. IsAt(p, "live") /\ IsAt(x, "live") /\ rule[p] # None /\ rule[x] # None
      BY <1>4, <2>3 DEF IsAt
    <3> QED BY <1>2, <3>1, RowTyped DEF RuleInv, TwoOnlyByOverlap, Live
  <2> QED BY <2>2, <2>3
<1> QED BY <1>5, <1>6, <1>7, <1>8, <1>9, <1>10 DEF RuleInv

\* A publication that fails, or a rule that is deactivated.
LEMMA EndKeeps ==
  ASSUME RuleInv, NEW r \in Rules, Abort(r) \/ Deactivate(r)
  PROVE  RuleInv'
<1>0. /\ rule \in [Rules -> RuleRow \cup {None}] /\ clock \in Nat
      /\ rule[r] # None /\ rule[r] \in RuleRow
      /\ UNCHANGED <<clock, overlapped>>
  BY DEF RuleInv, RuleTypes, Abort, Deactivate, Open, IsAt
<1>1. PICK new \in RuleRow :
        /\ rule' = [rule EXCEPT ![r] = new]
        /\ new.at \notin {"archive", "commit", "live"} /\ new.held = {}
        /\ new.vehicle = rule[r].vehicle /\ new.stamp = rule[r].stamp
        /\ new.todo \subseteq rule[r].todo
  <2>1. CASE Abort(r)
    <3> DEFINE new == [rule[r] EXCEPT !.at = "failed", !.todo = {}, !.held = {}]
    <3>1. new \in RuleRow /\ new.at = "failed" /\ new.held = {} /\ new.todo = {}
          /\ new.vehicle = rule[r].vehicle /\ new.stamp = rule[r].stamp
      BY <1>0 DEF RuleRow, Phase
    <3>2. rule' = [rule EXCEPT ![r] = new]
      BY <1>0, <2>1 DEF Abort
    <3> QED BY <3>1, <3>2
  <2>2. CASE Deactivate(r)
    <3> DEFINE new == [rule[r] EXCEPT !.at = "archived"]
    <3>1. "archived" \in Phase
      BY DEF Phase
    <3>2. new \in RuleRow /\ new.at = "archived" /\ new.todo = rule[r].todo
          /\ new.held = rule[r].held /\ new.vehicle = rule[r].vehicle /\ new.stamp = rule[r].stamp
      BY <1>0, <3>1, PhaseChanged
    <3>3. rule[r].held = {}
      BY <1>0, <2>2 DEF Deactivate, RuleInv, Publications, IsAt
    <3>4. rule' = [rule EXCEPT ![r] = new]
      BY <1>0, <2>2 DEF Deactivate
    <3> QED BY <3>2, <3>3, <3>4
  <2> QED BY <2>1, <2>2
<1>2. /\ rule'[r] = new /\ new # None /\ \A x \in Rules \ {r} : rule'[x] = rule[x]
      /\ rule' \in [Rules -> RuleRow \cup {None}]
  BY <1>0, <1>1, RowIsSome
<1>3. /\ \A x \in Rules : IsAt(x, "live")' <=> IsAt(x, "live") /\ x # r
      /\ \A x \in Rules : Open(x)' <=> Open(x) /\ x # r
      /\ \A x \in Rules : rule'[x] = None <=> rule[x] = None
      /\ \A x \in Rules : rule[x] # None =>
           rule'[x].vehicle = rule[x].vehicle /\ rule'[x].stamp = rule[x].stamp
  BY <1>0, <1>1, <1>2 DEF IsAt, Open
\* Nobody holds r: a publication in progress is not active, and a rule that is
\* deactivated is not locked.
<1>4. ASSUME NEW p \in Rules, rule[p] # None PROVE r \notin rule[p].held
  <2>1. CASE Abort(r)
    <3>1. ~IsAt(r, "live")
      BY <2>1 DEF Abort, Open, IsAt
    <3> QED BY <1>4, <3>1, RowTyped DEF RuleInv
  <2>2. CASE Deactivate(r)
    BY <1>4, <2>2 DEF Deactivate, Held
  <2> QED BY <2>1, <2>2
<1>5. RuleTypes'
  <2>1. ASSUME NEW p \in Rules, rule'[p] # None, NEW x \in rule'[p].held
        PROVE  IsAt(x, "live")'
    <3>1. p # r /\ rule[p] # None /\ x \in rule[p].held
      BY <1>1, <1>2, <2>1
    <3>2. x \in Rules \ {r} /\ IsAt(x, "live")
      BY <1>4, <3>1, RowTyped DEF RuleInv
    <3> QED BY <1>3, <3>2
  <2> QED BY <1>0, <1>2, <2>1 DEF RuleInv, RuleTypes
<1>6. Publications'
  <2>1. \A p \in Rules : rule[p] # None =>
          rule[p].todo \subseteq Rules /\ rule[p].held \subseteq Rules
    BY RowTyped DEF RuleInv
  <2> QED BY <1>0, <1>1, <1>2, <1>3, <2>1 DEF RuleInv, Publications
<1>7. LocksExclude'
  BY <1>1, <1>2, <1>3 DEF RuleInv, LocksExclude
<1>8. OpenNoted'
  BY <1>0, <1>3 DEF RuleInv, OpenNoted
<1>9. MissedNoted'
  <2> SUFFICES ASSUME NEW p \in Rules, NEW x \in Rules,
                      Open(p)', IsAt(x, "live")', rule'[x].vehicle = rule'[p].vehicle,
                      x \notin rule'[p].todo \cup rule'[p].held
               PROVE  <<p, x>> \in overlapped /\ <<x, p>> \in overlapped
    BY <1>0 DEF MissedNoted
  <2>1. Open(p) /\ p # r /\ IsAt(x, "live") /\ x # r
    BY <1>3
  <2> QED BY <1>2, <2>1 DEF RuleInv, MissedNoted
<1>10. TwoOnlyByOverlap'
  BY <1>0, <1>3 DEF RuleInv, TwoOnlyByOverlap, Live, IsAt
<1> QED BY <1>5, <1>6, <1>7, <1>8, <1>9, <1>10 DEF RuleInv

LEMMA RuleStep == RuleInv /\ [Next]_vars => RuleInv'
<1> SUFFICES ASSUME RuleInv, [Next]_vars PROVE RuleInv'
  OBVIOUS
<1>1. ASSUME UNCHANGED <<rule, clock, overlapped>> PROVE RuleInv'
  BY <1>1 DEF RuleInv, RuleTypes, Publications, LocksExclude, OpenNoted, MissedNoted,
              TwoOnlyByOverlap, Live, IsAt, Open
<1>2. ASSUME NEW c \in Requests, Quoting(c) PROVE UNCHANGED <<rule, clock, overlapped>>
  BY <1>2 DEF Quoting, Ask, CheckArea, GoPrice, FindRule, RouteFound, RouteFails, Calculate,
              Answered
<1>3. ASSUME NEW z \in Zones, CreateZone(z) \/ Toggle(z)
      PROVE  UNCHANGED <<rule, clock, overlapped>>
  BY <1>3 DEF CreateZone, Toggle, OpenZone, CloseZone
<1> QED
  BY <1>1, <1>2, <1>3, FindKeeps, ArchiveKeeps, InsertKeeps, CommitKeeps, EndKeeps
     DEF vars, Next, Operating, Publish

\* What is written of publications and active rules is true of every state: it
\* starts so, and every statement of a transaction keeps it.
THEOREM RulesKept == Spec => []RuleInv
<1>1. Init => RuleInv
  BY InitRuleInv
<1>2. RuleInv /\ [Next]_vars => RuleInv'
  BY RuleStep
<1> QED BY <1>1, <1>2, PTL DEF Spec

\* createPricingRule: two active rules of a vehicle come only from transactions
\* that were open at the same time, with any number of rules and operators.
THEOREM TwoOnlyByOverlapHolds == Spec => []TwoOnlyByOverlap
<1>1. RuleInv => TwoOnlyByOverlap
  BY DEF RuleInv
<1> QED BY <1>1, RulesKept, PTL
-----------------------------------------------------------------------------
\* Of numbers with a bound, one is the greatest.
LEMMA GreatestExists ==
  ASSUME NEW S, S # {}, NEW n \in Nat, NEW f, \A x \in S : f[x] \in Nat /\ f[x] <= n
  PROVE  \E x \in S : \A y \in S : f[y] <= f[x]
<1> DEFINE T == {n - f[x] : x \in S}
           R == {ss \in Nat \X Nat : ss[1] < ss[2]}
<1>1. IsWellFoundedOn(R, Nat)
  <2>1. R = OpToRel(<, Nat)
    BY DEF OpToRel
  <2> QED BY <2>1, NatLessThanWellFounded
<1>2. T \subseteq Nat /\ T # {}
  OBVIOUS
<1>3. \E m \in T : \A k \in T : <<k, m>> \notin R
  <2> HIDE DEF T, R
  <2> QED BY <1>1, <1>2, WFMin
<1>4. PICK x \in S : \A y \in S : <<n - f[y], n - f[x]>> \notin R
  BY <1>3
<1>5. ASSUME NEW y \in S PROVE f[y] <= f[x]
  <2>1. PICK a \in Nat : a = f[x]
    OBVIOUS
  <2>2. PICK b \in Nat : b = f[y]
    OBVIOUS
  <2>3. n - a \in Nat /\ n - b \in Nat
    BY <2>1, <2>2
  <2>4. <<n - b, n - a>> \notin R
    BY <1>4, <2>1, <2>2
  <2>5. ~(n - b < n - a)
    BY <2>3, <2>4
  <2> QED BY <2>1, <2>2, <2>5
<1> QED BY <1>5

\* With any active rule there is one in force.
LEMMA SomeInForce ==
  ASSUME RuleInv, NEW v \in Vehicles, Live(v) # {}
  PROVE  InForce(v) # {}
<1>1. PICK S, f, n : S = Live(v) /\ f = [x \in S |-> rule[x].stamp] /\ n = clock
  OBVIOUS
<1>2. \A x \in S : x \in Rules /\ rule[x] # None
  BY <1>1 DEF Live, IsAt
<1>3. \A x \in S : f[x] = rule[x].stamp /\ f[x] \in Nat /\ f[x] <= n
  BY <1>1, <1>2, RowTyped DEF RuleInv, Publications
<1>4. n \in Nat /\ S # {}
  BY <1>1 DEF RuleInv, RuleTypes
<1>5. \E x \in S : \A y \in S : f[y] <= f[x]
  BY <1>3, <1>4, GreatestExists
<1> QED BY <1>1, <1>3, <1>5 DEF InForce

Priced == \A v \in Vehicles : Live(v) # {} => InForce(v) # {}

LEMMA PricedAfter == RuleInv' => Priced'
<1>1. RuleInv => Priced
  BY SomeInForce DEF Priced
<1> QED BY <1>1, PTL

\* A row that has been committed.
LEMMA Committed ==
  ASSUME NEW row \in RuleRow
  PROVE  LET new == [row EXCEPT !.at = "live", !.held = {}] IN
         /\ new \in RuleRow /\ new # None /\ new.at = "live"
         /\ new.vehicle = row.vehicle /\ new.fare = row.fare /\ new.stamp = row.stamp
<1> DEFINE new == [row EXCEPT !.at = "live", !.held = {}]
<1>1. new \in RuleRow
  <2>1. "live" \in Phase
    BY DEF Phase
  <2> QED BY <2>1 DEF RuleRow
<1> QED BY <1>1, RowIsSome DEF RuleRow

\* An active rule stays, with its place in the order, or makes way for a later
\* one of its vehicle, or is deactivated.
LEMMA LiveAfter ==
  ASSUME RuleInv, [Next]_vars, NEW v \in Vehicles, NEW r \in Live(v), ~Deactivate(r)
  PROVE  \E p \in Live(v)' : rule[r].stamp <= rule'[p].stamp
<1>0. /\ r \in Rules /\ IsAt(r, "live") /\ rule[r].vehicle = v
      /\ rule[r] # None /\ rule[r].stamp \in Nat
      /\ rule \in [Rules -> RuleRow \cup {None}]
  BY RowTyped DEF Live, IsAt, RuleInv, RuleTypes
<1>1. ASSUME rule'[r] = rule[r] PROVE r \in Live(v)' /\ rule[r].stamp <= rule'[r].stamp
  BY <1>0, <1>1 DEF Live, IsAt
<1>2. ASSUME NEW p \in Rules, Commit(p), r \in rule[p].held
      PROVE  p \in Live(v)' /\ rule[r].stamp <= rule'[p].stamp
  <2>1. /\ rule[p] \in RuleRow /\ rule[p] # None /\ rule[p].at = "commit"
        /\ rule'[p] = [rule[p] EXCEPT !.at = "live", !.held = {}]
    BY <1>0, <1>2 DEF Commit, IsAt
  <2>2. /\ rule'[p].at = "live" /\ rule'[p].vehicle = rule[p].vehicle
        /\ rule'[p].stamp = rule[p].stamp /\ rule'[p] # None
    BY <2>1, Committed
  <2>4. rule[r].vehicle = rule[p].vehicle /\ rule[r].stamp < rule[p].stamp
        /\ rule[p].stamp \in Nat
    BY <1>2, <2>1, RowTyped DEF RuleInv, Publications
  <2> QED BY <1>0, <2>2, <2>4 DEF Live, IsAt
<1>3. ASSUME NEW p \in Rules, Commit(p), r \notin rule[p].held PROVE rule'[r] = rule[r]
  BY <1>0, <1>3 DEF Commit, IsAt
<1>4. ASSUME NEW p \in Rules,
             Publish(p) \/ Insert(p) \/ Abort(p) \/ Deactivate(p) \/ \E x \in Rules : ArchiveRow(p, x)
      PROVE  rule'[r] = rule[r]
  BY <1>0, <1>4 DEF Publish, FindActive, Finds, Insert, Abort, Deactivate, ArchiveRow, Open, IsAt
<1>5. ASSUME NEW c \in Requests, Quoting(c) PROVE rule'[r] = rule[r]
  BY <1>5 DEF Quoting, Ask, CheckArea, GoPrice, FindRule, RouteFound, RouteFails, Calculate,
              Answered
<1>6. ASSUME NEW z \in Zones, CreateZone(z) \/ Toggle(z) PROVE rule'[r] = rule[r]
  BY <1>6 DEF CreateZone, Toggle, OpenZone, CloseZone
<1>7. CASE UNCHANGED vars
  BY <1>1, <1>7 DEF vars
<1> QED
  BY <1>1, <1>2, <1>3, <1>4, <1>5, <1>6, <1>7 DEF Next, Operating

\* A vehicle that has a price keeps having one: each step that takes the rule in
\* force away is a deactivation of it or puts another in its place.
THEOREM PriceStaysHolds == Spec => PriceStays
<1>1. ASSUME RuleInv, [Next]_vars, NEW v \in Vehicles, InForce(v) # {}, InForce(v)' = {}
      PROVE  \E r \in InForce(v) : Deactivate(r)
  <2>1. PICK r \in InForce(v) : TRUE
    BY <1>1
  <2>2. r \in Live(v)
    BY <2>1 DEF InForce
  <2>3. Live(v)' = {}
    BY <1>1, RuleStep, PricedAfter DEF Priced
  <2> QED BY <1>1, <2>1, <2>2, <2>3, LiveAfter
<1>2. RuleInv /\ [Next]_vars =>
        [\A v \in Vehicles : InForce(v) # {} /\ InForce(v)' = {} =>
           \E r \in InForce(v) : Deactivate(r)]_vars
  BY <1>1
<1> QED BY <1>2, RulesKept, PTL DEF Spec, PriceStays

\* An older price does not come back through any publications; only by a
\* deactivation of the one in force.
THEOREM NoWayBackHolds == Spec => NoWayBack
<1>1. ASSUME RuleInv, [Next]_vars, NEW v \in Vehicles, NEW r \in InForce(v),
             NEW s \in InForce(v)', rule'[s].stamp < rule[r].stamp
      PROVE  Deactivate(r)
  <2>1. r \in Live(v) /\ s \in Live(v)' /\ \A p \in Live(v)' : rule'[p].stamp <= rule'[s].stamp
    BY DEF InForce
  <2>2. SUFFICES ASSUME ~Deactivate(r) PROVE FALSE
    OBVIOUS
  <2>3. PICK p \in Live(v)' : rule[r].stamp <= rule'[p].stamp
    BY <1>1, <2>1, <2>2, LiveAfter
  <2>4. RuleInv'
    BY <1>1, RuleStep
  <2>5. rule'[p].stamp \in Nat /\ rule'[s].stamp \in Nat /\ rule[r].stamp \in Nat
    BY <1>1, <2>1, <2>3, <2>4 DEF RuleInv, RuleTypes, RuleRow, Live, IsAt
  <2> QED BY <1>1, <2>1, <2>3, <2>5
<1>2. RuleInv /\ [Next]_vars =>
        [\A v \in Vehicles : \A r \in InForce(v), s \in InForce(v)' :
           rule'[s].stamp < rule[r].stamp => Deactivate(r)]_vars
  BY <1>1
<1> QED BY <1>2, RulesKept, PTL DEF Spec, NoWayBack
-----------------------------------------------------------------------------
(* Arithmetic.                                                             *)

\* Rounding up, by the two divisors that occur.
LEMMA CeilThousandths ==
  ASSUME NEW a \in Nat
  PROVE  /\ CeilDiv(a, 1000) \in Nat
         /\ a <= 1000 * CeilDiv(a, 1000) /\ 1000 * CeilDiv(a, 1000) < a + 1000
BY DEF CeilDiv

LEMMA CeilHundredths ==
  ASSUME NEW a \in Nat
  PROVE  /\ CeilDiv(a, 100) \in Nat
         /\ a <= 100 * CeilDiv(a, 100) /\ 100 * CeilDiv(a, 100) < a + 100
BY DEF CeilDiv

\* A product grows with its factors.
LEMMA ProductGrows ==
  ASSUME NEW a \in Nat, NEW b \in Nat, NEW n \in Nat, a < b, n > 0
  PROVE  a * n \in Nat /\ b * n \in Nat /\ a * n < b * n
OBVIOUS

LEMMA ProductKeeps ==
  ASSUME NEW a \in Nat, NEW b \in Nat, NEW n \in Nat, a <= b
  PROVE  a * n \in Nat /\ b * n \in Nat /\ a * n <= b * n
OBVIOUS

LEMMA NumbersOfFare ==
  ASSUME NEW fare \in FareNumbers
  PROVE  /\ fare.base \in Nat /\ fare.included \in Nat /\ fare.perKm \in Nat
         /\ fare.minimum \in Nat /\ fare.surge \in Nat /\ fare.surge >= 10
BY DEF FareNumbers

LEMMA DistanceFareBounds ==
  ASSUME NEW m \in Nat, NEW k \in Nat
  PROVE  /\ DistanceFare(m, k) \in Nat
         /\ CeilDiv(m * k, 1000) \in Nat
         /\ CeilDiv(m * k, 1000) <= DistanceFare(m, k)
         /\ DistanceFare(m, k) <= CeilDiv(m * k, 1000) + 1
<1>1. m * k \in Nat
  OBVIOUS
<1>2. CeilDiv(m * k, 1000) \in Nat
  BY <1>1, CeilThousandths
<1> QED BY <1>2 DEF DistanceFare

LEMMA WithSurgeBounds ==
  ASSUME NEW s \in Nat, NEW g \in Nat
  PROVE  /\ WithSurge(s, g) \in Nat
         /\ CeilDiv(s * g, 100) \in Nat
         /\ CeilDiv(s * g, 100) <= WithSurge(s, g)
         /\ WithSurge(s, g) <= CeilDiv(s * g, 100) + 1
<1>1. s * g \in Nat
  OBVIOUS
<1>2. CeilDiv(s * g, 100) \in Nat
  BY <1>1, CeilHundredths
<1> QED BY <1>2 DEF WithSurge

\* A product that comes out above an integer is that integer, and a greater one
\* rounds to a greater number at least.
LEMMA DistanceFareGrows ==
  ASSUME NEW a \in Nat, NEW b \in Nat, NEW k \in Nat, a < b
  PROVE  DistanceFare(a, k) <= DistanceFare(b, k)
<1>1. CASE k = 0
  <2>1. <<a, k>> \notin OverKm /\ <<b, k>> \notin OverKm
    BY <1>1, OverKmAssumption
  <2>2. a * k = b * k
    BY <1>1
  <2>3. DistanceFare(a, k) = CeilDiv(a * k, 1000) /\ DistanceFare(b, k) = CeilDiv(b * k, 1000)
    BY <2>1, DistanceFareBounds DEF DistanceFare
  <2> QED BY <2>2, <2>3, DistanceFareBounds
<1>2. CASE k > 0
  <2>1. PICK p \in Nat, q \in Nat : p = a * k /\ q = b * k /\ p < q
    BY <1>2, ProductGrows
  <2>2. PICK c \in Nat, d \in Nat : c = CeilDiv(p, 1000) /\ d = CeilDiv(q, 1000)
    BY CeilThousandths
  <2>3. p <= 1000 * c /\ 1000 * c < p + 1000 /\ q <= 1000 * d /\ 1000 * d < q + 1000
    BY <2>2, CeilThousandths
  <2>4. CASE <<a, k>> \in OverKm
    <3>1. p % 1000 = 0
      BY <2>1, <2>4, OverKmAssumption
    <3>2. c + 1 <= d
      BY <2>1, <2>3, <3>1
    <3> QED BY <2>1, <2>2, <2>4, <3>2, DistanceFareBounds DEF DistanceFare
  <2>5. CASE <<a, k>> \notin OverKm
    <3>1. c <= d
      BY <2>1, <2>3
    <3> QED BY <2>1, <2>2, <2>5, <3>1, DistanceFareBounds DEF DistanceFare
  <2> QED BY <2>4, <2>5
<1> QED BY <1>1, <1>2

LEMMA WithSurgeGrows ==
  ASSUME NEW a \in Nat, NEW b \in Nat, NEW g \in Nat, a < b, g >= 10
  PROVE  WithSurge(a, g) <= WithSurge(b, g)
<1>1. PICK p \in Nat, q \in Nat : p = a * g /\ q = b * g /\ p < q
  BY ProductGrows
<1>2. PICK c \in Nat, d \in Nat : c = CeilDiv(p, 100) /\ d = CeilDiv(q, 100)
  BY CeilHundredths
<1>3. p <= 100 * c /\ 100 * c < p + 100 /\ q <= 100 * d /\ 100 * d < q + 100
  BY <1>2, CeilHundredths
<1>4. CASE <<a, g>> \in OverSurge
  <2>1. p % 100 = 0
    BY <1>1, <1>4, OverSurgeAssumption
  <2>2. c + 1 <= d
    BY <1>1, <1>3, <2>1
  <2> QED BY <1>1, <1>2, <1>4, <2>2, WithSurgeBounds DEF WithSurge
<1>5. CASE <<a, g>> \notin OverSurge
  <2>1. c <= d
    BY <1>1, <1>3
  <2> QED BY <1>1, <1>2, <1>5, <2>1, WithSurgeBounds DEF WithSurge
<1> QED BY <1>4, <1>5

LEMMA BillableGrows ==
  ASSUME NEW m \in Nat, NEW n \in Nat, m <= n, NEW fare \in FareNumbers
  PROVE  /\ Billable(m, fare) \in Nat /\ Billable(n, fare) \in Nat
         /\ Billable(m, fare) <= Billable(n, fare)
BY NumbersOfFare DEF Billable

LEMMA SubtotalGrows ==
  ASSUME NEW m \in Nat, NEW n \in Nat, m <= n, NEW fare \in FareNumbers
  PROVE  /\ Subtotal(m, fare) \in Nat /\ Subtotal(n, fare) \in Nat
         /\ Subtotal(m, fare) <= Subtotal(n, fare)
<1>1. PICK a \in Nat, b \in Nat : a = Billable(m, fare) /\ b = Billable(n, fare) /\ a <= b
  BY BillableGrows
<1>2. PICK k \in Nat, base \in Nat, min \in Nat :
        k = fare.perKm /\ base = fare.base /\ min = fare.minimum
  BY NumbersOfFare
<1>3. PICK c, d : c = DistanceFare(a, k) /\ d = DistanceFare(b, k)
  OBVIOUS
<1>4. c \in Nat /\ d \in Nat /\ c <= d
  <2>1. c \in Nat /\ d \in Nat
    BY <1>3, DistanceFareBounds
  <2>2. CASE a = b
    BY <1>3, <2>1, <2>2
  <2>3. CASE a < b
    BY <1>3, <2>1, <2>3, DistanceFareGrows
  <2> QED BY <1>1, <2>1, <2>2, <2>3
<1>5. /\ Subtotal(m, fare) = IF base + c > min THEN base + c ELSE min
      /\ Subtotal(n, fare) = IF base + d > min THEN base + d ELSE min
  BY <1>1, <1>2, <1>3 DEF Subtotal
<1> QED BY <1>4, <1>5

\* No distance of a shorter trip costs more.
LEMMA PriceGrows ==
  ASSUME NEW m \in Nat, NEW n \in Nat, m <= n, NEW fare \in FareNumbers
  PROVE  /\ Price(m, fare) \in Nat /\ Price(n, fare) \in Nat
         /\ Price(m, fare) <= Price(n, fare)
<1>1. PICK s \in Nat, t \in Nat : s = Subtotal(m, fare) /\ t = Subtotal(n, fare) /\ s <= t
  BY SubtotalGrows
<1>2. PICK g \in Nat : g = fare.surge /\ g >= 10
  BY NumbersOfFare
<1>3. /\ Price(m, fare) = WithSurge(s, g) /\ Price(n, fare) = WithSurge(t, g)
      /\ WithSurge(s, g) \in Nat /\ WithSurge(t, g) \in Nat
  BY <1>1, <1>2, WithSurgeBounds DEF Price
<1>4. CASE s = t
  BY <1>3, <1>4
<1>5. CASE s < t
  BY <1>2, <1>3, <1>5, WithSurgeGrows
<1> QED BY <1>1, <1>4, <1>5

\* The exact price, in thousandths before the surge, rounded up once.
Least(m, fare) ==
  LET exact == fare.base * 1000 + Billable(m, fare) * fare.perKm
  IN  IF exact > fare.minimum * 1000 THEN exact ELSE fare.minimum * 1000

LEMMA SubtotalBounds ==
  ASSUME NEW m \in Nat, NEW fare \in FareNumbers
  PROVE  /\ CeilDiv(Least(m, fare), 1000) \in Nat
         /\ CeilDiv(Least(m, fare), 1000) <= Subtotal(m, fare)
         /\ Subtotal(m, fare) <= CeilDiv(Least(m, fare), 1000) + 1
<1>1. PICK a \in Nat : a = Billable(m, fare)
  BY BillableGrows
<1>9. PICK k \in Nat, base \in Nat, min \in Nat :
        k = fare.perKm /\ base = fare.base /\ min = fare.minimum
  BY NumbersOfFare
<1>2. PICK p \in Nat : p = a * k
  OBVIOUS
<1>3. PICK c, d : c = CeilDiv(p, 1000) /\ d = DistanceFare(a, k)
  OBVIOUS
<1>4. c \in Nat /\ d \in Nat /\ c <= d /\ d <= c + 1 /\ p <= 1000 * c /\ 1000 * c < p + 1000
  BY <1>2, <1>3, CeilThousandths, DistanceFareBounds
<1>5. PICK least \in Nat :
        /\ least = Least(m, fare)
        /\ least = IF base * 1000 + p > min * 1000 THEN base * 1000 + p ELSE min * 1000
  BY <1>1, <1>2, <1>9 DEF Least
<1>6. PICK e \in Nat : e = CeilDiv(least, 1000) /\ least <= 1000 * e /\ 1000 * e < least + 1000
  BY CeilThousandths
<1>7. Subtotal(m, fare) = IF base + d > min THEN base + d ELSE min
  BY <1>1, <1>3, <1>9 DEF Subtotal
<1>8. e = IF base + c > min THEN base + c ELSE min
  BY <1>4, <1>5, <1>6
<1> QED BY <1>4, <1>5, <1>6, <1>7, <1>8

\* What the two roundings and binary fractions add.
LEMMA PriceBounds ==
  ASSUME NEW m \in Nat, NEW fare \in FareNumbers
  PROVE  LET least == CeilDiv(Least(m, fare), 1000) IN
         /\ Price(m, fare) * 100 >= least * fare.surge
         /\ Price(m, fare) * 100 < least * fare.surge + fare.surge + 200
<1>1. PICK e \in Nat, s \in Nat : /\ e = CeilDiv(Least(m, fare), 1000) /\ s = Subtotal(m, fare)
                                  /\ e <= s /\ s <= e + 1
  BY SubtotalBounds, SubtotalGrows
<1>2. PICK g \in Nat : g = fare.surge
  BY NumbersOfFare
<1>3. PICK p \in Nat, q \in Nat : p = s * g /\ q = e * g /\ q <= p /\ p <= q + g
  <2>1. CASE s = e
    BY <1>1, <2>1
  <2>2. CASE s = e + 1
    BY <1>1, <2>2
  <2> QED BY <1>1, <2>1, <2>2
<1>4. PICK c \in Nat : c = CeilDiv(p, 100) /\ p <= 100 * c /\ 100 * c < p + 100
  BY CeilHundredths
<1>5. PICK w \in Nat : w = WithSurge(s, g) /\ c <= w /\ w <= c + 1
  BY <1>3, <1>4, WithSurgeBounds
<1>6. Price(m, fare) = w
  BY <1>1, <1>2, <1>5 DEF Price
<1>7. w * 100 >= q /\ w * 100 < q + g + 200
  BY <1>3, <1>4, <1>5
<1> QED BY <1>1, <1>2, <1>3, <1>6, <1>7
-----------------------------------------------------------------------------
(* Quotes.                                                                 *)

\* What a request for a quote has found out, when those ends were served and
\* these are the rules.
FoundOut(q, ends, rows) ==
  /\ q.at = "area" => Ends \ q.left \subseteq ends
  /\ q.at \in {"price", "ok"} => ends = Ends
  /\ q.at = "price" /\ "rule" \notin q.left => q.rule \in Rules /\ rows[q.rule] # None
  /\ q.at = "ok" => /\ q.rule \in Rules /\ rows[q.rule] # None
                    /\ q.price = Price(q.metres, rows[q.rule].fare)

QuoteTypes ==
  /\ provider \in Modes
  /\ req \in [Requests -> Request \cup {None}]
  /\ met \in [Requests -> SUBSET Ends]

Quotes == \A c \in Requests : req[c] # None => FoundOut(req[c], met[c], rule)

QuoteInv == RuleInv /\ QuoteTypes /\ Quotes

LEMMA InitQuoteInv == Init => QuoteInv
<1>1. Init => RuleInv
  BY InitRuleInv
<1>2. Init => QuoteTypes /\ Quotes
  BY DEF Init, QuoteTypes, Quotes
<1> QED BY <1>1, <1>2 DEF QuoteInv

\* A rule keeps its numbers, whatever becomes of it.
SameFare(new, old) == new # None /\ new.fare = old.fare

LEMMA LocksChanged ==
  ASSUME NEW row \in RuleRow, NEW todo \in SUBSET Rules, NEW held \in SUBSET Rules
  PROVE  SameFare([row EXCEPT !.todo = todo, !.held = held], row)
<1>1. [row EXCEPT !.todo = todo, !.held = held] \in RuleRow
  BY DEF RuleRow
<1> QED BY <1>1, RowIsSome DEF RuleRow, SameFare

LEMMA Failed ==
  ASSUME NEW row \in RuleRow
  PROVE  SameFare([row EXCEPT !.at = "failed", !.todo = {}, !.held = {}], row)
<1>1. [row EXCEPT !.at = "failed", !.todo = {}, !.held = {}] \in RuleRow
  BY DEF RuleRow, Phase
<1> QED BY <1>1, RowIsSome DEF RuleRow, SameFare

LEMMA FareKept ==
  ASSUME RuleInv, [Next]_vars, NEW r \in Rules, rule[r] # None
  PROVE  SameFare(rule'[r], rule[r])
<1>0. /\ rule \in [Rules -> RuleRow \cup {None}] /\ rule[r] \in RuleRow /\ clock \in Nat
      /\ rule[r].todo \subseteq Rules /\ rule[r].held \subseteq Rules
  BY RowTyped DEF RuleInv, RuleTypes
<1>1. ASSUME rule'[r] = rule[r] PROVE SameFare(rule'[r], rule[r])
  BY <1>1 DEF SameFare
<1>2. ASSUME NEW p \in Rules, Publish(p) PROVE SameFare(rule'[r], rule[r])
  <2>1. rule'[r] = rule[r]
    BY <1>0, <1>2 DEF Publish, FindActive, Finds
  <2> QED BY <1>1, <2>1
<1>3. ASSUME NEW p \in Rules, NEW x \in Rules, ArchiveRow(p, x)
      PROVE  SameFare(rule'[r], rule[r])
  <2>1. CASE p = r
    <3>1. PICK todo \in SUBSET Rules, held \in SUBSET Rules :
            rule'[r] = [rule[r] EXCEPT !.todo = todo, !.held = held]
      <4>1. rule' = [rule EXCEPT ![r] = [rule[r] EXCEPT
              !.todo = @ \ {x}, !.held = IF IsAt(x, "live") THEN @ \cup {x} ELSE @]]
        BY <1>0, <1>3, <2>1 DEF ArchiveRow
      <4> QED BY <1>0, <4>1
    <3>2. SameFare([rule[r] EXCEPT !.todo = todo, !.held = held], rule[r])
      BY <1>0, LocksChanged
    <3> QED BY <3>1, <3>2, Zenon
  <2>2. CASE p # r
    <3>1. rule'[r] = rule[r]
      BY <1>0, <1>3, <2>2 DEF ArchiveRow
    <3> QED BY <1>1, <3>1
  <2> QED BY <2>1, <2>2
<1>4. ASSUME NEW p \in Rules, Insert(p) PROVE SameFare(rule'[r], rule[r])
  <2>1. CASE p = r
    <3>1. PICK stamp \in Nat : stamp = clock + 1
      BY <1>0
    <3>2. rule'[r] = [rule[r] EXCEPT !.at = "commit", !.stamp = stamp]
      BY <1>0, <1>4, <2>1, <3>1 DEF Insert
    <3>3. SameFare([rule[r] EXCEPT !.at = "commit", !.stamp = stamp], rule[r])
      BY <1>0, Stamped DEF SameFare
    <3> QED BY <3>2, <3>3, Zenon
  <2>2. CASE p # r
    <3>1. rule'[r] = rule[r]
      BY <1>0, <1>4, <2>2 DEF Insert
    <3> QED BY <1>1, <3>1
  <2> QED BY <2>1, <2>2
<1>5. ASSUME NEW p \in Rules, Commit(p) PROVE SameFare(rule'[r], rule[r])
  <2>1. CASE p = r
    <3>1. rule'[r] = [rule[r] EXCEPT !.at = "live", !.held = {}]
      BY <1>5, <2>1 DEF Commit
    <3> QED BY <1>0, <3>1, Committed DEF SameFare
  <2>2. CASE p # r /\ r \in rule[p].held
    <3>1. "archived" \in Phase /\ rule'[r] = [rule[r] EXCEPT !.at = "archived"]
      BY <1>5, <2>2 DEF Commit, Phase
    <3> QED BY <1>0, <3>1, PhaseChanged DEF SameFare
  <2>3. CASE p # r /\ r \notin rule[p].held
    <3>1. rule'[r] = rule[r]
      BY <1>5, <2>3 DEF Commit
    <3> QED BY <1>1, <3>1
  <2> QED BY <2>1, <2>2, <2>3
<1>6. ASSUME NEW p \in Rules, Abort(p) \/ Deactivate(p) PROVE SameFare(rule'[r], rule[r])
  <2>1. CASE p = r /\ Abort(p)
    <3>1. rule' = [rule EXCEPT ![r] = [rule[r] EXCEPT !.at = "failed", !.todo = {}, !.held = {}]]
      BY <1>0, <2>1 DEF Abort
    <3> QED BY <1>0, <3>1, Failed
  <2>2. CASE p = r /\ Deactivate(p)
    <3>1. /\ "archived" \in Phase
          /\ rule' = [rule EXCEPT ![r] = [rule[r] EXCEPT !.at = "archived"]]
      BY <1>0, <2>2 DEF Deactivate, Phase
    <3> QED BY <1>0, <3>1, PhaseChanged DEF SameFare
  <2>3. CASE p # r
    <3>1. rule'[r] = rule[r]
      BY <1>0, <1>6, <2>3 DEF Abort, Deactivate
    <3> QED BY <1>1, <3>1
  <2> QED BY <1>6, <2>1, <2>2, <2>3
<1>7. ASSUME NEW c \in Requests, Quoting(c) PROVE rule' = rule
  BY <1>7 DEF Quoting, Ask, CheckArea, GoPrice, FindRule, RouteFound, RouteFails, Calculate,
              Answered
<1>8. ASSUME NEW z \in Zones, CreateZone(z) \/ Toggle(z) PROVE rule' = rule
  BY <1>8 DEF CreateZone, Toggle, OpenZone, CloseZone
<1>9. CASE UNCHANGED vars
  BY <1>1, <1>9 DEF vars
<1> QED
  BY <1>1, <1>2, <1>3, <1>4, <1>5, <1>6, <1>7, <1>8, <1>9 DEF Next, Operating

LEMMA StillFound ==
  ASSUME NEW q, NEW ends, NEW more, NEW rows, NEW later,
         FoundOut(q, ends, rows), ends \subseteq more, more \subseteq Ends,
         \A r \in Rules : rows[r] # None => SameFare(later[r], rows[r])
  PROVE  FoundOut(q, more, later)
BY DEF FoundOut, SameFare

\* A request, field by field.
Steps == {"area", "price", "ok", "outside", "noRule", "noRoute"}
Todo  == Ends \cup {"rule", "route"}
Asked == {"mapir", "neshan", "approximate"}

Says(q, at, left, r, metres, price) ==
  /\ q \in Request /\ q # None
  /\ q.at = at /\ q.left = left /\ q.rule = r /\ q.metres = metres /\ q.price = price

LEMMA RequestIsSome == \A q \in Request : q # None
BY NoneAssumption

LEMMA RequestTyped ==
  ASSUME NEW q \in Request
  PROVE  /\ q.at \in Steps /\ q.vehicle \in Vehicles /\ q.left \in SUBSET Todo /\ q.ask \in Asked
         /\ q.rule \in Rules \cup {None} /\ q.metres \in Nat /\ q.price \in Nat
BY DEF Request, Steps, Todo, Asked

LEMMA SetAt ==
  ASSUME NEW q \in Request, NEW at \in Steps
  PROVE  Says([q EXCEPT !.at = at], at, q.left, q.rule, q.metres, q.price)
<1>1. [q EXCEPT !.at = at] \in Request
  BY DEF Request, Steps
<1> QED BY <1>1, RequestIsSome DEF Request, Says

LEMMA SetLeft ==
  ASSUME NEW q \in Request, NEW left \in SUBSET Todo
  PROVE  Says([q EXCEPT !.left = left], q.at, left, q.rule, q.metres, q.price)
<1>1. [q EXCEPT !.left = left] \in Request
  BY DEF Request, Todo
<1> QED BY <1>1, RequestIsSome DEF Request, Says

LEMMA SetAsk ==
  ASSUME NEW q \in Request, NEW ask \in Asked
  PROVE  Says([q EXCEPT !.ask = ask], q.at, q.left, q.rule, q.metres, q.price)
<1>1. [q EXCEPT !.ask = ask] \in Request
  BY DEF Request, Asked
<1> QED BY <1>1, RequestIsSome DEF Request, Says

LEMMA SetRule ==
  ASSUME NEW q \in Request, NEW r \in Rules
  PROVE  Says([q EXCEPT !.rule = r], q.at, q.left, r, q.metres, q.price)
<1>1. [q EXCEPT !.rule = r] \in Request
  BY DEF Request
<1> QED BY <1>1, RequestIsSome DEF Request, Says

LEMMA SetMetres ==
  ASSUME NEW q \in Request, NEW m \in Nat
  PROVE  Says([q EXCEPT !.metres = m], q.at, q.left, q.rule, m, q.price)
<1>1. [q EXCEPT !.metres = m] \in Request
  BY DEF Request
<1> QED BY <1>1, RequestIsSome DEF Request, Says

LEMMA SetPrice ==
  ASSUME NEW q \in Request, NEW n \in Nat
  PROVE  Says([q EXCEPT !.price = n], q.at, q.left, q.rule, q.metres, n)
<1>1. [q EXCEPT !.price = n] \in Request
  BY DEF Request
<1> QED BY <1>1, RequestIsSome DEF Request, Says

\* The row of a request that has begun.
LEMMA Begun ==
  ASSUME NEW v \in Vehicles
  PROVE  Says([at |-> "area", vehicle |-> v, left |-> Ends, ask |-> "approximate",
               rule |-> None, metres |-> 0, price |-> 0], "area", Ends, None, 0, 0)
<1> DEFINE new == [at |-> "area", vehicle |-> v, left |-> Ends, ask |-> "approximate",
                   rule |-> None, metres |-> 0, price |-> 0]
<1>1. new \in Request
  BY DEF Request
<1> QED BY <1>1, RequestIsSome DEF Says

\* Where a request looks, the end is served.
LEMMA ServedIsInArea == ASSUME NEW e \in Ends, Served(e) PROVE InArea(e)
BY DEF Served, InArea

\* What the history notes down.
LEMMA MetGrows ==
  ASSUME QuoteInv, [Next]_vars
  PROVE  /\ met' \in [Requests -> SUBSET Ends]
         /\ \A c \in Requests : req[c] # None /\ req'[c] # None => met[c] \subseteq met'[c]
         /\ \A c \in Requests, e \in Ends :
              Next /\ InArea(e)' /\ req'[c] # None => e \in met'[c]
<1>1. CASE Next
  <2>1. Remember
    BY <1>1 DEF Next
  <2> QED BY <2>1 DEF Remember, QuoteInv, QuoteTypes
<1>2. CASE UNCHANGED vars /\ ~Next
  BY <1>2 DEF vars, QuoteInv, QuoteTypes
<1> QED BY <1>1, <1>2

\* What one request has after a step: nothing, or what it has found out.
Sound(c) == req'[c] # None => /\ req'[c] \in Request
                              /\ FoundOut(req'[c], met'[c], rule')

\* A quoting step changes one request.
LEMMA OneRequest ==
  ASSUME QuoteInv, [Next]_vars, NEW c \in Requests, NEW new \in Request \cup {None},
         req' = [req EXCEPT ![c] = new], new # None => FoundOut(new, met'[c], rule)
  PROVE  /\ req' \in [Requests -> Request \cup {None}]
         /\ \A d \in Requests : Sound(d)
<1>1. /\ req \in [Requests -> Request \cup {None}] /\ RuleInv
      /\ \A d \in Requests : req[d] # None => FoundOut(req[d], met[d], rule)
  BY DEF QuoteInv, QuoteTypes, Quotes
<1>2. \A r \in Rules : rule[r] # None => SameFare(rule'[r], rule[r])
  BY <1>1, FareKept
<1>3. /\ req'[c] = new /\ \A d \in Requests \ {c} : req'[d] = req[d]
      /\ req' \in [Requests -> Request \cup {None}]
  BY <1>1
<1>4. \A d \in Requests : met'[d] \subseteq Ends
  BY MetGrows
<1>5. Sound(c)
  BY <1>2, <1>3, <1>4, StillFound DEF Sound
<1>6. ASSUME NEW d \in Requests \ {c} PROVE Sound(d)
  <2>1. CASE req[d] # None
    <3>1. met[d] \subseteq met'[d]
      BY <1>3, <2>1, MetGrows
    <3> QED BY <1>1, <1>2, <1>3, <1>4, <2>1, <3>1, StillFound DEF Sound
  <2>2. CASE req[d] = None
    BY <1>3, <2>2 DEF Sound
  <2> QED BY <2>1, <2>2
<1> QED BY <1>3, <1>5, <1>6

LEMMA RequestOf ==
  ASSUME QuoteInv, NEW c \in Requests, req[c] # None
  PROVE  /\ req[c] \in Request /\ FoundOut(req[c], met[c], rule)
         /\ req \in [Requests -> Request \cup {None}]
BY DEF QuoteInv, QuoteTypes, Quotes

LEMMA AskSound ==
  ASSUME QuoteInv, [Next]_vars, NEW c \in Requests, NEW v \in Vehicles, Ask(c, v)
  PROVE  req' \in [Requests -> Request \cup {None}] /\ \A d \in Requests : Sound(d)
<1> DEFINE new == [at |-> "area", vehicle |-> v, left |-> Ends, ask |-> "approximate",
                   rule |-> None, metres |-> 0, price |-> 0]
<1>1. Says(new, "area", Ends, None, 0, 0)
  BY Begun
<1>2. req' = [req EXCEPT ![c] = new]
  BY DEF Ask
<1> HIDE DEF new
<1>3. FoundOut(new, met'[c], rule)
  BY <1>1 DEF FoundOut, Says
<1>4. new \in Request \cup {None}
  BY <1>1 DEF Says
<1> QED BY <1>2, <1>3, <1>4, OneRequest

LEMMA FailSound ==
  ASSUME QuoteInv, [Next]_vars, NEW c \in Requests, req[c] # None,
         NEW why \in {"outside", "noRule", "noRoute"}, Fails(c, why)
  PROVE  req' \in [Requests -> Request \cup {None}] /\ \A d \in Requests : Sound(d)
<1> DEFINE new == [req[c] EXCEPT !.at = why]
<1>1. req[c] \in Request /\ req \in [Requests -> Request \cup {None}]
  BY RequestOf
<1>2. Says(new, why, req[c].left, req[c].rule, req[c].metres, req[c].price)
  <2>1. why \in Steps
    BY DEF Steps
  <2> QED BY <1>1, <2>1, SetAt
<1>3. req' = [req EXCEPT ![c] = new]
  BY <1>1 DEF Fails
<1> HIDE DEF new
<1>4. FoundOut(new, met'[c], rule)
  BY <1>2 DEF FoundOut, Says
<1>5. new \in Request \cup {None}
  BY <1>2 DEF Says
<1> QED BY <1>3, <1>4, <1>5, OneRequest

LEMMA CheckSound ==
  ASSUME QuoteInv, [Next]_vars, Next, NEW c \in Requests, NEW e \in Ends, CheckArea(c, e)
  PROVE  req' \in [Requests -> Request \cup {None}] /\ \A d \in Requests : Sound(d)
<1>1. /\ req[c] # None /\ req[c].at = "area" /\ req[c] \in Request
      /\ req \in [Requests -> Request \cup {None}] /\ FoundOut(req[c], met[c], rule)
  BY RequestOf DEF CheckArea, Doing
<1>2. CASE ~Served(e)
  BY <1>1, <1>2, FailSound DEF CheckArea
<1>3. CASE Served(e)
  <2>1. PICK left \in SUBSET Todo : left = req[c].left \ {e}
    BY <1>1, RequestTyped
  <2> DEFINE new == [req[c] EXCEPT !.left = left]
  <2>2. Says(new, "area", left, req[c].rule, req[c].metres, req[c].price)
    BY <1>1, SetLeft
  <2>3. req' = [req EXCEPT ![c] = new]
    BY <1>1, <1>3, <2>1 DEF CheckArea, Leaves
  <2> HIDE DEF new
  <2>4. new \in Request \cup {None} /\ req'[c] # None
    BY <1>1, <2>2, <2>3 DEF Says
  <2>5. InArea(e)'
    BY <1>3, ServedIsInArea DEF InArea, CheckArea
  <2>6. e \in met'[c] /\ met[c] \subseteq met'[c]
    BY <1>1, <2>4, <2>5, MetGrows
  <2>7. FoundOut(new, met'[c], rule)
    BY <1>1, <2>1, <2>2, <2>6 DEF FoundOut, Says
  <2> QED BY <2>3, <2>4, <2>7, OneRequest
<1> QED BY <1>2, <1>3

\* A step to a request that says as much as this of the same stage, or less.
LEMMA NextSound ==
  ASSUME QuoteInv, [Next]_vars, NEW c \in Requests, req[c] # None, NEW new,
         new \in Request, req' = [req EXCEPT ![c] = new],
         FoundOut(new, met[c], rule)
  PROVE  req' \in [Requests -> Request \cup {None}] /\ \A d \in Requests : Sound(d)
<1>1. /\ req[c] \in Request /\ req \in [Requests -> Request \cup {None}]
      /\ new # None
  BY RequestOf, RequestIsSome
<1>2. req'[c] # None
  BY <1>1
<1>3. met[c] \subseteq met'[c] /\ met'[c] \subseteq Ends
  BY <1>2, MetGrows
<1>4. FoundOut(new, met'[c], rule)
  BY <1>3, StillFound DEF SameFare
<1> QED BY <1>1, <1>4, OneRequest

LEMMA GoSound ==
  ASSUME QuoteInv, [Next]_vars, NEW c \in Requests, GoPrice(c)
  PROVE  req' \in [Requests -> Request \cup {None}] /\ \A d \in Requests : Sound(d)
<1>1. /\ req[c] # None /\ req[c].at = "area" /\ req[c].left = {} /\ req[c] \in Request
      /\ req \in [Requests -> Request \cup {None}] /\ FoundOut(req[c], met[c], rule)
  BY RequestOf DEF GoPrice, Doing
<1>2. PICK ask \in Asked : ask = FirstAsk
  BY ModesAssumption DEF FirstAsk, Asked, QuoteInv, QuoteTypes, AllModes
<1>3. PICK left \in SUBSET Todo : left = {"rule", "route"}
  BY DEF Todo
<1>4. PICK q : /\ q = [req[c] EXCEPT !.at = "price"]
               /\ Says(q, "price", req[c].left, req[c].rule, req[c].metres, req[c].price)
  BY <1>1, SetAt DEF Steps
<1>a. q \in Request /\ q.at = "price"
  BY <1>4 DEF Says
<1>5. PICK p : p = [q EXCEPT !.left = left] /\ Says(p, q.at, left, q.rule, q.metres, q.price)
  BY <1>a, SetLeft
<1>b. p \in Request /\ p.at = "price" /\ p.left = left
  BY <1>a, <1>5 DEF Says
<1>6. PICK new : /\ new = [p EXCEPT !.ask = ask]
                 /\ Says(new, p.at, p.left, p.rule, p.metres, p.price)
  BY <1>b, SetAsk
<1>7. new = [req[c] EXCEPT !.at = "price", !.left = left, !.ask = ask]
  BY <1>4, <1>5, <1>6
<1>8. req' = [req EXCEPT ![c] = new]
  BY <1>1, <1>2, <1>3, <1>7 DEF GoPrice
<1>9. met[c] = Ends
  BY <1>1 DEF FoundOut, QuoteInv, QuoteTypes
<1>10. FoundOut(new, met[c], rule) /\ new \in Request
  BY <1>3, <1>6, <1>9, <1>b DEF FoundOut, Says
<1> QED BY <1>1, <1>8, <1>10, NextSound

LEMMA FindSound ==
  ASSUME QuoteInv, [Next]_vars, NEW c \in Requests, FindRule(c)
  PROVE  req' \in [Requests -> Request \cup {None}] /\ \A d \in Requests : Sound(d)
<1>1. /\ req[c] # None /\ req[c].at = "price" /\ req[c] \in Request
      /\ req \in [Requests -> Request \cup {None}] /\ FoundOut(req[c], met[c], rule)
  BY RequestOf DEF FindRule, Doing
<1>2. CASE Fails(c, "noRule")
  BY <1>1, <1>2, FailSound
<1>3. ASSUME NEW r \in InForce(req[c].vehicle), Leaves(c, "rule", [req[c] EXCEPT !.rule = r])
      PROVE  req' \in [Requests -> Request \cup {None}] /\ \A d \in Requests : Sound(d)
  <2>1. r \in Rules /\ rule[r] # None
    BY DEF InForce, Live, IsAt
  <2>2. PICK q : /\ q = [req[c] EXCEPT !.rule = r]
                 /\ Says(q, "price", req[c].left, r, req[c].metres, req[c].price)
    BY <1>1, <2>1, SetRule
  <2>3. PICK left \in SUBSET Todo : left = q.left \ {"rule"}
    BY <1>1, <2>2, RequestTyped DEF Says
  <2>a. q \in Request /\ q.at = "price" /\ q.rule = r
    BY <2>2 DEF Says
  <2>4. PICK new : /\ new = [q EXCEPT !.left = left]
                   /\ Says(new, q.at, left, q.rule, q.metres, q.price)
    BY <2>a, SetLeft
  <2>5. req' = [req EXCEPT ![c] = new]
    BY <1>1, <1>3, <2>2, <2>3, <2>4 DEF Leaves
  <2>6. FoundOut(new, met[c], rule) /\ new \in Request
    BY <1>1, <2>1, <2>4, <2>a DEF FoundOut, Says
  <2> QED BY <1>1, <2>5, <2>6, NextSound
<1> QED BY <1>2, <1>3 DEF FindRule

LEMMA RouteSound ==
  ASSUME QuoteInv, [Next]_vars, NEW c \in Requests, RouteFound(c)
  PROVE  req' \in [Requests -> Request \cup {None}] /\ \A d \in Requests : Sound(d)
<1>1. /\ req[c] # None /\ req[c].at = "price" /\ req[c] \in Request
      /\ req \in [Requests -> Request \cup {None}] /\ FoundOut(req[c], met[c], rule)
  BY RequestOf DEF RouteFound, Doing
<1>2. PICK m \in Nat : Leaves(c, "route", [req[c] EXCEPT !.metres = m])
  BY DistancesAssumption DEF RouteFound
<1>3. PICK q : /\ q = [req[c] EXCEPT !.metres = m]
               /\ Says(q, "price", req[c].left, req[c].rule, m, req[c].price)
  BY <1>1, SetMetres
<1>4. PICK left \in SUBSET Todo : left = q.left \ {"route"}
  BY <1>1, <1>3, RequestTyped DEF Says
<1>a. q \in Request /\ q.at = "price" /\ q.rule = req[c].rule /\ q.left = req[c].left
  BY <1>3 DEF Says
<1>5. PICK new : /\ new = [q EXCEPT !.left = left]
                 /\ Says(new, q.at, left, q.rule, q.metres, q.price)
  BY <1>a, SetLeft
<1>6. req' = [req EXCEPT ![c] = new]
  BY <1>1, <1>2, <1>3, <1>4, <1>5 DEF Leaves
<1>7. FoundOut(new, met[c], rule) /\ new \in Request
  BY <1>1, <1>4, <1>5, <1>a DEF FoundOut, Says
<1> QED BY <1>1, <1>6, <1>7, NextSound

LEMMA RouteFailsSound ==
  ASSUME QuoteInv, [Next]_vars, NEW c \in Requests, RouteFails(c)
  PROVE  req' \in [Requests -> Request \cup {None}] /\ \A d \in Requests : Sound(d)
<1>1. /\ req[c] # None /\ req[c].at = "price" /\ req[c] \in Request
      /\ req \in [Requests -> Request \cup {None}] /\ FoundOut(req[c], met[c], rule)
  BY RequestOf DEF RouteFails, Doing
<1>2. CASE Fails(c, "noRoute")
  BY <1>1, <1>2, FailSound
<1>3. CASE ~Fails(c, "noRoute")
  <2>1. PICK ask \in Asked : req' = [req EXCEPT ![c].ask = ask]
    BY <1>1, <1>3 DEF RouteFails, Asked
  <2>2. PICK new : /\ new = [req[c] EXCEPT !.ask = ask]
                   /\ Says(new, "price", req[c].left, req[c].rule, req[c].metres, req[c].price)
    BY <1>1, SetAsk
  <2>3. req' = [req EXCEPT ![c] = new]
    BY <1>1, <2>1, <2>2
  <2>4. FoundOut(new, met[c], rule) /\ new \in Request
    BY <1>1, <2>2 DEF FoundOut, Says
  <2> QED BY <1>1, <2>3, <2>4, NextSound
<1> QED BY <1>2, <1>3

LEMMA CalculateSound ==
  ASSUME QuoteInv, [Next]_vars, NEW c \in Requests, Calculate(c)
  PROVE  req' \in [Requests -> Request \cup {None}] /\ \A d \in Requests : Sound(d)
<1>1. /\ req[c] # None /\ req[c].at = "price" /\ req[c].left = {} /\ req[c] \in Request
      /\ req \in [Requests -> Request \cup {None}] /\ FoundOut(req[c], met[c], rule)
  BY RequestOf DEF Calculate, Doing
<1>2. req[c].rule \in Rules /\ rule[req[c].rule] # None /\ met[c] = Ends
  BY <1>1 DEF FoundOut
<1>3. rule[req[c].rule].fare \in FareNumbers /\ req[c].metres \in Nat
  BY <1>1, <1>2, RowTyped, RequestTyped, FaresAssumption DEF QuoteInv, RuleInv
<1>4. PICK n \in Nat : n = Price(req[c].metres, rule[req[c].rule].fare)
  BY <1>3, PriceGrows
<1>5. PICK q : /\ q = [req[c] EXCEPT !.at = "ok"]
               /\ Says(q, "ok", req[c].left, req[c].rule, req[c].metres, req[c].price)
  BY <1>1, SetAt DEF Steps
<1>a. q \in Request /\ q.at = "ok" /\ q.rule = req[c].rule /\ q.metres = req[c].metres
  BY <1>5 DEF Says
<1>6. PICK new : /\ new = [q EXCEPT !.price = n]
                 /\ Says(new, q.at, q.left, q.rule, q.metres, n)
  BY <1>a, SetPrice
<1>7. req' = [req EXCEPT ![c] = new]
  BY <1>1, <1>4, <1>5, <1>6 DEF Calculate
<1>8. FoundOut(new, met[c], rule) /\ new \in Request
  BY <1>2, <1>4, <1>6, <1>a DEF FoundOut, Says
<1> QED BY <1>1, <1>7, <1>8, NextSound

LEMMA AnsweredSound ==
  ASSUME QuoteInv, [Next]_vars, NEW c \in Requests, Answered(c)
  PROVE  req' \in [Requests -> Request \cup {None}] /\ \A d \in Requests : Sound(d)
BY OneRequest DEF Answered

LEMMA QuoteStep == QuoteInv /\ [Next]_vars => QuoteInv'
<1> SUFFICES ASSUME QuoteInv, [Next]_vars PROVE QuoteInv'
  OBVIOUS
<1> DEFINE AllSound == req' \in [Requests -> Request \cup {None}] /\ \A d \in Requests : Sound(d)
<1>1. RuleInv' /\ met' \in [Requests -> SUBSET Ends]
  BY RuleStep, MetGrows DEF QuoteInv
<1>2. ASSUME UNCHANGED req PROVE AllSound
  <2>1. ASSUME NEW d \in Requests, req[d] # None PROVE Sound(d)
    <3>1. /\ req[d] \in Request /\ FoundOut(req[d], met[d], rule) /\ req'[d] = req[d]
      BY <1>2, <2>1, RequestOf
    <3>2. met[d] \subseteq met'[d] /\ met'[d] \subseteq Ends
      BY <2>1, <3>1, MetGrows
    <3>3. \A r \in Rules : rule[r] # None => SameFare(rule'[r], rule[r])
      BY FareKept DEF QuoteInv
    <3> QED BY <3>1, <3>2, <3>3, StillFound DEF Sound
  <2> QED BY <1>2, <2>1 DEF Sound, QuoteInv, QuoteTypes
<1>3. ASSUME NEW c \in Requests, Quoting(c), Next PROVE AllSound
  BY <1>3, AskSound, CheckSound, GoSound, FindSound, RouteSound, RouteFailsSound,
     CalculateSound, AnsweredSound DEF Quoting
<1>4. AllSound
  <2>1. ASSUME Operating PROVE UNCHANGED req
    BY <2>1 DEF Operating, Publish, FindActive, Finds, ArchiveRow, Insert, Commit, Abort,
                Deactivate, CreateZone, Toggle, OpenZone, CloseZone
  <2> QED BY <1>2, <1>3, <2>1 DEF Next, vars
<1>5. provider' \in Modes
  <2>1. provider' = provider
    BY DEF Next, vars, Operating, Publish, FindActive, Finds, ArchiveRow, Insert, Commit, Abort,
           Deactivate, CreateZone, Toggle, OpenZone, CloseZone, Quoting, Ask, CheckArea, GoPrice,
           FindRule, RouteFound, RouteFails, Calculate, Answered
  <2> QED BY <2>1 DEF QuoteInv, QuoteTypes
<1> QED BY <1>1, <1>4, <1>5 DEF QuoteInv, QuoteTypes, Quotes, Sound

\* Every variable has its type, and what a publication has locked is active.
THEOREM TypeCorrect == Spec => []TypeOK
<1> DEFINE ZoneTypes == zone \in [Zones -> {"none", "open", "closed"}]
<1>1. Init => QuoteInv /\ ZoneTypes
  BY InitQuoteInv DEF Init
<1>2. ZoneTypes /\ [Next]_vars => ZoneTypes'
  BY DEF Next, vars, Operating, Publish, FindActive, Finds, ArchiveRow, Insert, Commit, Abort,
         Deactivate, CreateZone, Toggle, OpenZone, CloseZone, Quoting, Ask, CheckArea, GoPrice,
         FindRule, RouteFound, RouteFails, Calculate, Answered
<1>3. QuoteInv /\ [Next]_vars => QuoteInv'
  BY QuoteStep
<1>4. QuoteInv /\ ZoneTypes => TypeOK
  BY DEF QuoteInv, QuoteTypes, RuleInv, RuleTypes, TypeOK
<1> QED BY <1>1, <1>2, <1>3, <1>4, PTL DEF Spec

\* findPricingRule, calculatePrice and assertCoordinatesInServiceArea: what an
\* answered quote promises, for any fares and distances, any zones opened and
\* closed meanwhile, and any product that comes out above the integer it is.
THEOREM QuoteHonestHolds == Spec => []QuoteHonest
<1>1. Init => QuoteInv
  BY InitQuoteInv
<1>2. QuoteInv /\ [Next]_vars => QuoteInv'
  BY QuoteStep
<1>3. QuoteInv => QuoteHonest
  <2> SUFFICES ASSUME QuoteInv, NEW c \in Requests, Doing(c, "ok")
               PROVE  LET fare  == rule[req[c].rule].fare
                          least == Least(req[c].metres, fare)
                      IN  /\ Ends = met[c]
                          /\ \A m \in Distances :
                               m < req[c].metres => Price(m, fare) <= req[c].price
                          /\ req[c].price * 100 >= CeilDiv(least, 1000) * fare.surge
                          /\ req[c].price * 100 <
                               CeilDiv(least, 1000) * fare.surge + fare.surge + 200
    BY DEF QuoteHonest, Least
  <2>1. /\ req[c] # None /\ req[c].at = "ok" /\ req[c] \in Request
        /\ FoundOut(req[c], met[c], rule)
    BY RequestOf DEF Doing
  <2>2. PICK fare : fare = rule[req[c].rule].fare
    OBVIOUS
  <2>3. /\ met[c] = Ends /\ req[c].price = Price(req[c].metres, fare)
        /\ fare \in FareNumbers /\ req[c].metres \in Nat
    BY <2>1, <2>2, RowTyped, RequestTyped, FaresAssumption DEF FoundOut, QuoteInv, RuleInv
  <2>4. \A m \in Distances : m < req[c].metres => Price(m, fare) <= req[c].price
    BY <2>3, PriceGrows, DistancesAssumption
  <2>5. /\ req[c].price * 100 >= CeilDiv(Least(req[c].metres, fare), 1000) * fare.surge
        /\ req[c].price * 100 <
             CeilDiv(Least(req[c].metres, fare), 1000) * fare.surge + fare.surge + 200
    BY <2>3, PriceBounds
  <2> QED BY <2>2, <2>3, <2>4, <2>5
<1> QED BY <1>1, <1>2, <1>3, PTL DEF Spec
==============================================================================
