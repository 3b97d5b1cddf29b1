----------------------------- MODULE Connector ------------------------------
(***************************************************************************)
(* The WordPress plugin of the store, over the intake of the API.  A       *)
(* change of status schedules a background job; the job, the manager's     *)
(* "send" action and the courier box all post the order to the API, wait   *)
(* twelve seconds at most, and write what was answered into the meta data  *)
(* of the WooCommerce order.  The API goes on with a request whose caller  *)
(* has given up.  The courier box then has the API assign a courier, and   *)
(* writes the courier's name into the meta data as well.                   *)
(*                                                                         *)
(* Orders with bad settings or without coordinates are never sent.         *)
(***************************************************************************)
EXTENDS Intake

CONSTANTS
  Couriers,
  Workers,      \* PHP processes
  ManualOnly    \* the values the setting manual_dispatch_only takes

VARIABLES
  jobs,         \* orders with a scheduled ASYNC_HOOK action
  meta,         \* META_ORDER_ID of each order of the store
  shown,        \* COURIER_META of each order of the store
  dispatched,   \* couriers in the assignment events of the API's order
  worker        \* what each PHP process is doing

storeVars == <<jobs, meta, shown, dispatched, worker>>
vars == <<intakeVars, storeVars>>

\* A PHP process waits for the answer to an import, then for an assignment.
WorkerStep == {"idle", "send", "assign", "show"}

WorkerState ==
  [step : WorkerStep, e : Keys \cup {None}, p : Procs \cup {None}, c : Couriers \cup {None}]

Resting == [step |-> "idle", e |-> None, p |-> None, c |-> None]

ASSUME NoneIsNoCourier == None \notin Couriers \cup Procs

TypeOK ==
  /\ IntakeTypeOK
  /\ jobs \subseteq Keys
  /\ meta \in [Keys -> OrderRow \cup {None}]
  /\ shown \in [Keys -> Couriers \cup {None}]
  /\ dispatched \in [Keys -> SUBSET Couriers]
  /\ worker \in [Workers -> WorkerState]

Init ==
  /\ IntakeInit
  /\ jobs = {}
  /\ meta = [e \in Keys |-> None]
  /\ shown = [e \in Keys |-> None]
  /\ dispatched = [e \in Keys |-> {}]
  /\ worker = [w \in Workers |-> Resting]
-----------------------------------------------------------------------------
Idle(w) == worker[w] = Resting

Rest(w) == worker' = [worker EXCEPT ![w] = Resting]

\* send_order, once it is past its checks: the order is posted.
Post(w, e, c) ==
  /\ Idle(w)
  /\ \E p \in Procs :
       /\ SendKey(p, e)
       /\ worker' = [worker EXCEPT ![w] = [step |-> "send", e |-> e, p |-> p, c |-> c]]
  /\ UNCHANGED <<quote, redis, orders, meta, shown, dispatched>>

\* status_changed: the order reaches the trigger status.  The setting is read
\* from the database whenever it is needed, and may be another every time.
StatusChanged(e) ==
  /\ FALSE \in ManualOnly
  /\ jobs' = jobs \cup {e}
  /\ UNCHANGED <<intakeVars, meta, shown, dispatched, worker>>

\* async_send: a job is taken, and the order posted unless it was sent before
\* or is to be sent by hand by now.
AsyncSend(w, e) ==
  /\ e \in jobs
  /\ jobs' = jobs \ {e}
  /\ \/ meta[e] = None /\ FALSE \in ManualOnly /\ Post(w, e, None)
     \/ /\ meta[e] # None \/ TRUE \in ManualOnly
        /\ Idle(w) /\ UNCHANGED <<intakeVars, meta, shown, dispatched, worker>>

\* manual_send: a manager sends the order, again if need be.
ManualSend(w, e) == Post(w, e, None) /\ UNCHANGED jobs

\* ajax_assign: a manager chooses courier c; an order not sent yet is sent.
AssignBox(w, e, c) ==
  /\ IF meta[e] = None
     THEN Post(w, e, c)
     ELSE /\ Idle(w)
          /\ worker' = [worker EXCEPT ![w] = [step |-> "assign", e |-> e, p |-> None, c |-> c]]
          /\ UNCHANGED <<intakeVars, meta, shown, dispatched>>
  /\ UNCHANGED jobs

\* (Slip: the meta data of no order are looked at.)
AfterSendUnlinked(w, m) ==
  IF worker[w].c # None
  THEN worker' = [worker EXCEPT ![w].step = "assign", ![w].p = m[worker[w].e]]
  ELSE Rest(w)

\* After send_order the courier box looks at the meta data m again, which
\* another process may have written; the other callers are done.
AfterSend(w, m) ==
  IF worker[w].c # None /\ m[worker[w].e] # None
  THEN worker' = [worker EXCEPT ![w].step = "assign", ![w].p = None]
  ELSE Rest(w)

\* The answer to the import: the meta data are written, or an error noted.
ReadAnswer(w) ==
  /\ worker[w].step = "send"
  /\ LET r == req[worker[w].p] IN
       /\ r.step \in {"ok", "duplicate", "failed"}
       /\ meta' = IF r.step = "failed" THEN meta ELSE [meta EXCEPT ![worker[w].e] = r.got]
       /\ AfterSend(w, meta')
  /\ req' = [req EXCEPT ![worker[w].p] = NoRequest]
  /\ UNCHANGED <<quote, redis, orders, jobs, shown, dispatched>>

\* Twelve seconds without an answer: an error is noted.
GiveUp(w) ==
  /\ worker[w].step = "send"
  /\ AfterSend(w, meta)
  /\ UNCHANGED <<intakeVars, jobs, meta, shown, dispatched>>

\* (Slip: the name is written whether or not the API assigned the courier.)
AssignCourierUnchecked(w) ==
  /\ worker[w].step = "assign"
  /\ worker' = [worker EXCEPT ![w].step = "show"]
  /\ \/ /\ Linked(worker[w].e) # {}
        /\ dispatched' = [dispatched EXCEPT ![worker[w].e] = @ \cup {worker[w].c}]
     \/ UNCHANGED dispatched
  /\ UNCHANGED <<intakeVars, jobs, meta, shown>>

\* The API assigns the courier, or the call is refused or times out.
AssignCourier(w) ==
  /\ worker[w].step = "assign"
  /\ \/ /\ Linked(worker[w].e) # {}
        /\ dispatched' = [dispatched EXCEPT ![worker[w].e] = @ \cup {worker[w].c}]
        /\ worker' = [worker EXCEPT ![w].step = "show"]
     \/ Rest(w) /\ UNCHANGED dispatched
  /\ UNCHANGED <<intakeVars, jobs, meta, shown>>

\* The couriers are asked for their names, and the courier's name is written.
ShowCourier(w) ==
  /\ worker[w].step = "show"
  /\ shown' = [shown EXCEPT ![worker[w].e] = worker[w].c]
  /\ Rest(w)
  /\ UNCHANGED <<intakeVars, jobs, meta, dispatched>>

\* A PHP process dies or runs out of time.
WorkerDies(w) ==
  /\ ~Idle(w)
  /\ Rest(w)
  /\ UNCHANGED <<intakeVars, jobs, meta, shown, dispatched>>

\* Nobody waits for the answer of a request: a customer has it, or a PHP
\* process has given up.
Leave(p) ==
  /\ req[p].step \in Done
  /\ \A w \in Workers : worker[w].p # p
  /\ req' = [req EXCEPT ![p] = NoRequest]
  /\ UNCHANGED <<quote, redis, orders, storeVars>>

\* The API's order gets a courier some other way: from the operator, or by an
\* assignment whose caller has given up.
AssignElsewhere(e, c) ==
  /\ Linked(e) # {}
  /\ dispatched' = [dispatched EXCEPT ![e] = @ \cup {c}]
  /\ UNCHANGED <<intakeVars, jobs, meta, shown, worker>>

StoreNext ==
  \/ \E e \in Keys : StatusChanged(e) \/ \E c \in Couriers : AssignElsewhere(e, c)
  \/ \E w \in Workers, e \in Keys :
       AsyncSend(w, e) \/ ManualSend(w, e) \/ \E c \in Couriers : AssignBox(w, e, c)
  \/ \E w \in Workers :
       ReadAnswer(w) \/ GiveUp(w) \/ AssignCourier(w) \/ ShowCourier(w) \/ WorkerDies(w)
  \/ \E p \in Procs : Leave(p)

Next == (IntakeNext /\ UNCHANGED storeVars) \/ StoreNext

Spec == Init /\ [][Next]_vars
-----------------------------------------------------------------------------
(* Properties. *)

\* What the store has written down as its delivery order is the only order
\* there is for it, through retries, time-outs, duplicates and lost answers.
MetaNamesTheOrder == \A e \in Keys : meta[e] # None => Linked(e) = {meta[e]}

\* The courier the store's list shows was given the order by the API at some
\* time; a courier the API refused, or may have refused, is never shown.
ShownWasAssigned == \A e \in Keys : shown[e] # None => shown[e] \in dispatched[e]
=============================================================================
