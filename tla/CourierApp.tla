----------------------------- MODULE CourierApp -----------------------------
(***************************************************************************)
(* The home page of one courier and the server behind it.  The page loads  *)
(* the courier's profile, its missions and, if it is free, the queue, by   *)
(* one request after the other; a timer and a button start loads that may  *)
(* overlap, and every press of a button that worked is followed by one.    *)
(* The server is seen through its answers: what a transaction does to the  *)
(* orders and to the courier is one step here (Dispatch has the details).  *)
(*                                                                         *)
(* A suspended courier's account is suspended with it: its requests are    *)
(* refused, and the page goes to the login.  Map and positions are left    *)
(* out.                                                                    *)
(*                                                                         *)
(* The operators marked (Slip: ...) are no part of the system: each is a   *)
(* step with one mistake in it, kept to see that the properties notice.    *)
(***************************************************************************)
EXTENDS FiniteSets

CONSTANTS
  None,
  Orders,       \* the customers' orders this courier may take
  Loads,        \* loads by the timer or the refresh button, at the same time
  Own           \* the load that follows a press

ASSUME OwnAssumption == Own \notin Loads

VARIABLES
  order,        \* the orders, as they concern this courier
  status,       \* of the courier
  page,         \* what the page shows; None: the courier is not on it
  load,         \* what each load is doing
  press,        \* what became of the button that was pressed (actionBusy)
  network       \* bad: requests get lost; good, from some time on: no more

vars == <<order, status, page, load, press, network>>
server == <<order, status>>
-----------------------------------------------------------------------------
\* free: REQUESTED.  mine, road: ASSIGNED to the courier, PICKED_UP by it.
\* gone: with another courier, or over.
Standing == {"none", "free", "mine", "road", "gone"}

CourierStatus == {"OFFLINE", "AVAILABLE", "BUSY", "SUSPENDED"}

\* A mission and its state.
Missions == SUBSET (Orders \X {"mine", "road"})

Page == [status : CourierStatus \cup {None}, active : Missions, queue : SUBSET Orders]

Blank == [status |-> None, active |-> {}, queue |-> {}]

\* A load waits for the server or for its answer to arrive, which tells a part
\* of what the page is to show; free: the profile it was told was AVAILABLE.
Loading == [at : {"profile", "active", "queue"}, free : BOOLEAN,
            got : {"nothing", "ok", "refused", "failed"}, told : Page]

Ops == {"accept", "reject", "pickUp", "deliver"}

\* sent, ok, failed, refused; loading: its load is under way.
Press == [op : Ops \cup {"AVAILABLE", "OFFLINE"}, order : Orders \cup {None},
          at : {"sent", "ok", "failed", "refused", "loading"}]

TypeOK ==
  /\ order \in [Orders -> Standing]
  /\ status \in CourierStatus
  /\ page \in Page \cup {None}
  /\ load \in [Loads \cup {Own} -> Loading \cup {None}]
  /\ press \in Press \cup {None}
  /\ network \in {"bad", "good"}
  /\ load[Own] # None => press # None /\ press.at = "loading"
  /\ page = None => \A l \in Loads \cup {Own} : load[l] = None

Idle == [l \in Loads \cup {Own} |-> None]

Init ==
  /\ order = [o \in Orders |-> "none"]
  /\ status = "OFFLINE"
  /\ page = None /\ load = Idle /\ press = None /\ network = "bad"
-----------------------------------------------------------------------------
(* The server: what others do.                                             *)

Busy(standing) == \E o \in Orders : standing[o] \in {"mine", "road"}

\* The standing of an order changes, and a courier left idle is released.
Becomes(o, standing) ==
  /\ order' = [order EXCEPT ![o] = standing]
  /\ status' = IF status = "BUSY" /\ ~Busy(order') THEN "AVAILABLE" ELSE status

\* A customer orders, or another courier rejects.
Appears(o) == order[o] \in {"none", "gone"} /\ Becomes(o, "free") /\ UNCHANGED <<page, load, press>>

\* Another courier takes it, or gets it; it is cancelled.
Goes(o) == order[o] \in {"free", "mine"} /\ Becomes(o, "gone") /\ UNCHANGED <<page, load, press>>

\* An operator assigns it to this courier.
Given(o) ==
  /\ order[o] \in {"free", "gone"} /\ status \in {"AVAILABLE", "BUSY"}
  /\ order' = [order EXCEPT ![o] = "mine"] /\ status' = "BUSY"
  /\ UNCHANGED <<page, load, press>>

Suspend ==
  /\ status \in {"OFFLINE", "AVAILABLE"} /\ ~Busy(order)
  /\ status' = "SUSPENDED"
  /\ UNCHANGED <<order, page, load, press>>

Activate == status = "SUSPENDED" /\ status' = "OFFLINE" /\ UNCHANGED <<order, page, load, press>>
-----------------------------------------------------------------------------
(* The server: its answers to the page.                                    *)

Waits(l, at) == load[l] # None /\ load[l].at = at /\ load[l].got = "nothing"

Gets(l, got, told) ==
  /\ load' = [load EXCEPT ![l].got = IF status = "SUSPENDED" THEN "refused" ELSE got,
                          ![l].told = told]
  /\ UNCHANGED <<order, status, page, press>>

Active == {m \in Orders \X {"mine", "road"} : order[m[1]] = m[2]}
Queue  == {o \in Orders : order[o] = "free"}

ReadProfile(l) == Waits(l, "profile") /\ Gets(l, "ok", [Blank EXCEPT !.status = status])

ReadActive(l) == Waits(l, "active") /\ Gets(l, "ok", [Blank EXCEPT !.active = Active])

\* The queue is for couriers who are AVAILABLE.
ReadQueue(l) ==
  /\ Waits(l, "queue")
  /\ Gets(l, IF status = "AVAILABLE" THEN "ok" ELSE "failed", [Blank EXCEPT !.queue = Queue])

Sent == press # None /\ press.at = "sent"

Ends(how) == press' = [press EXCEPT !.at = how]

Refuse ==
  /\ Sent /\ status = "SUSPENDED" /\ Ends("refused")
  /\ UNCHANGED <<order, status, page, load>>

Conflict ==
  /\ CASE press.op = "accept"  -> status # "AVAILABLE" \/ order[press.order] # "free"
       [] press.op = "deliver" -> order[press.order] # "road"
       [] press.op \in {"reject", "pickUp"} -> order[press.order] # "mine"
       [] OTHER                -> status = "BUSY"
  /\ Ends("failed")
  /\ UNCHANGED server

Accept ==
  /\ press.op = "accept" /\ status = "AVAILABLE" /\ order[press.order] = "free"
  /\ order' = [order EXCEPT ![press.order] = "mine"] /\ status' = "BUSY"
  /\ Ends("ok")

Reject  == press.op = "reject" /\ order[press.order] = "mine" /\ Becomes(press.order, "free") /\ Ends("ok")
PickUp  == press.op = "pickUp" /\ order[press.order] = "mine" /\ Becomes(press.order, "road") /\ Ends("ok")
Deliver == press.op = "deliver" /\ order[press.order] = "road" /\ Becomes(press.order, "gone") /\ Ends("ok")

SetAvailability ==
  /\ press.op \in {"AVAILABLE", "OFFLINE"} /\ status # "BUSY"
  /\ status' = press.op
  /\ Ends("ok")
  /\ UNCHANGED order

Serve ==
  \/ Refuse
  \/ /\ Sent /\ status # "SUSPENDED"
     /\ Conflict \/ Accept \/ Reject \/ PickUp \/ Deliver \/ SetAvailability
     /\ UNCHANGED <<page, load>>
-----------------------------------------------------------------------------
(* The page.                                                               *)

\* The courier signs in; the page loads.
Enter ==
  /\ page = None /\ press = None /\ status # "SUSPENDED"
  /\ page' = Blank
  /\ UNCHANGED <<order, status, load, press>>

\* api: a request that was refused sends the page to the login.
Leave == page' = None /\ load' = Idle

Continue(l, at, free) ==
  load' = [load EXCEPT ![l] = [at |-> at, free |-> free, got |-> "nothing", told |-> Blank]]

Begin(l) == Continue(l, "profile", FALSE)

\* The first load, the timer, or the refresh button.
Load(l) ==
  /\ page # None /\ load[l] = None
  /\ Begin(l)
  /\ UNCHANGED <<order, status, page, press>>

\* A load is over, and with it the press it belongs to.
Finish(l) ==
  /\ load' = [load EXCEPT ![l] = None]
  /\ press' = IF l = Own THEN None ELSE press

Got(l, at) == load[l] # None /\ load[l].at = at /\ load[l].got = "ok"

ShowProfile(l) ==
  /\ Got(l, "profile")
  /\ page' = [page EXCEPT !.status = load[l].told.status]
  /\ Continue(l, "active", load[l].told.status = "AVAILABLE")
  /\ UNCHANGED <<order, status, press>>

\* (Slip: when there are no missions, the old ones are not taken down.)
ShowActiveOnly(l) ==
  /\ Got(l, "active")
  /\ IF load[l].free /\ load[l].told.active = {}
       THEN page' = page /\ Continue(l, "queue", TRUE) /\ UNCHANGED press
       ELSE page' = [page EXCEPT !.active = load[l].told.active, !.queue = {}] /\ Finish(l)
  /\ UNCHANGED <<order, status>>

ShowActive(l) ==
  /\ Got(l, "active")
  /\ IF load[l].free /\ load[l].told.active = {}
       THEN page' = [page EXCEPT !.active = {}] /\ Continue(l, "queue", TRUE) /\ UNCHANGED press
       ELSE page' = [page EXCEPT !.active = load[l].told.active, !.queue = {}] /\ Finish(l)
  /\ UNCHANGED <<order, status>>

ShowQueue(l) ==
  /\ Got(l, "queue")
  /\ page' = [page EXCEPT !.queue = load[l].told.queue]
  /\ Finish(l)
  /\ UNCHANGED <<order, status>>

\* A request is answered by an error, or lost: the load ends there.
LoadFails(l) ==
  /\ load[l] # None /\ load[l].got = "failed"
  /\ Finish(l)
  /\ UNCHANGED <<order, status, page>>

LoadLost(l) ==
  /\ network = "bad" /\ load[l] # None
  /\ Finish(l)
  /\ UNCHANGED <<order, status, page>>

\* (Slip: it is an error like any other.)
LoadRefusedShown(l) ==
  /\ load[l] # None /\ load[l].got = "refused"
  /\ Finish(l)
  /\ UNCHANGED <<order, status, page>>

LoadRefused(l) ==
  /\ load[l] # None /\ load[l].got = "refused"
  /\ Leave
  /\ press' = IF press # None /\ press.at = "loading" THEN None ELSE press
  /\ UNCHANGED server

\* The buttons that are shown and enabled.
CanPress(op, o) ==
  CASE op = "accept"    -> page.status = "AVAILABLE" /\ page.active = {} /\ o \in page.queue
    [] op = "deliver"   -> <<o, "road">> \in page.active
    [] op \in {"reject", "pickUp"} -> <<o, "mine">> \in page.active
    [] op = "AVAILABLE" -> o = None /\ page.status = "OFFLINE"
    [] OTHER            -> o = None /\ page.status = "AVAILABLE"

Presses(op, o) ==
  /\ page # None /\ press = None
  /\ CanPress(op, o)
  /\ press' = [op |-> op, order |-> o, at |-> "sent"]
  /\ UNCHANGED <<order, status, page, load>>

orderAction(o) == \E op \in Ops : Presses(op, o)

setAvailability == \E op \in {"AVAILABLE", "OFFLINE"} : Presses(op, None)

\* It worked: load.
PressWorked ==
  /\ press # None /\ press.at = "ok"
  /\ IF page = None THEN press' = None /\ UNCHANGED load ELSE Ends("loading") /\ Begin(Own)
  /\ UNCHANGED <<order, status, page>>

\* (Slip: the buttons stay disabled.)
PressFailedBusy ==
  /\ press # None /\ press.at = "failed"
  /\ UNCHANGED vars

\* It did not, or the request or its answer was lost: a message, and no load.
PressFailed ==
  /\ press # None
  /\ \/ press.at = "failed"
     \/ network = "bad" /\ press.at \in {"sent", "ok"}
  /\ press' = None
  /\ UNCHANGED <<order, status, page, load>>

PressRefused ==
  /\ press # None /\ press.at = "refused"
  /\ Leave /\ press' = None
  /\ UNCHANGED server

All == Loads \cup {Own}

Others == (\E o \in Orders : Appears(o) \/ Goes(o) \/ Given(o)) \/ Suspend \/ Activate

NetworkRecovers ==
  /\ network = "bad" /\ network' = "good"
  /\ UNCHANGED <<order, status, page, load, press>>

\* A load that is not lost.
Proceeds(l) ==
  \/ ReadProfile(l) \/ ReadActive(l) \/ ReadQueue(l)
  \/ ShowProfile(l) \/ ShowActive(l) \/ ShowQueue(l) \/ LoadFails(l) \/ LoadRefused(l)

Next ==
  \/ /\ \/ Others \/ Serve \/ Enter
        \/ \E l \in Loads : Load(l)
        \/ \E l \in All : Proceeds(l) \/ LoadLost(l)
        \/ (\E o \in Orders : orderAction(o)) \/ setAvailability
        \/ PressWorked \/ PressFailed \/ PressRefused
     /\ UNCHANGED network
  \/ NetworkRecovers

Spec == Init /\ [][Next]_vars

\* The timer fires, and requests are answered or lost.
FairSpec ==
  /\ Spec
  /\ \A l \in Loads : WF_vars(Load(l) /\ UNCHANGED network)
  /\ \A l \in All : WF_vars(Proceeds(l) /\ UNCHANGED network)
  /\ WF_vars(Serve /\ UNCHANGED network)
  /\ WF_vars((PressWorked \/ PressFailed \/ PressRefused) /\ UNCHANGED network)
-----------------------------------------------------------------------------
UpToDate ==
  /\ page.status = status
  /\ page.active = Active
  /\ status = "AVAILABLE" /\ Active = {} => page.queue = Queue

\* When nothing changes any more, and the network works, the page shows what is,
\* for good: loads that began before, answers that arrive late and errors of the
\* past do not matter.
CatchesUp ==
  <>(network = "good") /\ <>[][FALSE]_server => <>[](page # None => UpToDate)

\* The buttons are not disabled for good.
BusyEnds == press # None ~> press = None

\* A suspended courier's page goes to the login, when the network works.
SuspendedLeaves ==
  network = "good" /\ status = "SUSPENDED" ~> status # "SUSPENDED" \/ page = None
=============================================================================
