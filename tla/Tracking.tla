------------------------------ MODULE Tracking ------------------------------
(***************************************************************************)
(* How a customer's page follows an order: it loads the order, opens an    *)
(* event stream while the order is not final, and loads it again every     *)
(* minute.  A stream reads a snapshot, then listens to the signals that    *)
(* handlers publish after their commits, and reads a new snapshot for each *)
(* of them; a new signal cancels the read before it (switchMap).  Signals  *)
(* live in the memory of the API's process.                                *)
(*                                                                         *)
(* A snapshot is the order's version, whatever changed with it (status,    *)
(* courier, position or payment), and whether its status is final.  Pings  *)
(* and labels are left out.                                                *)
(*                                                                         *)
(* The operators marked (Slip: ...) are no part of the system: each is a   *)
(* step with one mistake in it, kept to see that the properties notice.    *)
(***************************************************************************)
EXTENDS Naturals, Sequences, FiniteSets

CONSTANTS
  None,         \* no snapshot
  Unread,       \* a read that has yet to meet the database
  Streams,      \* connections the API serves for the page at the same time
  Loads,        \* requests the page has open at the same time
  LastVersion,  \* bound: changes of the order
  WireBound     \* bound: snapshots on their way to the page

ASSUME LastVersionAssumption == LastVersion \in Nat
ASSUME WireBoundAssumption   == WireBound \in Nat
ASSUME StreamsAssumption     == IsFiniteSet(Streams)

VARIABLES
  order,        \* the committed order
  unpublished,  \* changes committed by handlers that have yet to publish
  subscribers,  \* of the order's channel; without any there is no channel
  stream,       \* the API's side of each connection
  load,         \* the requests of the page
  shown,        \* the snapshot the page shows
  source        \* the page's EventSource

vars == <<order, unpublished, subscribers, stream, load, shown, source>>
-----------------------------------------------------------------------------
Snapshot == [v : 0 .. LastVersion, final : BOOLEAN]

\* A read under way, before and after it has met the database.
Reads == Snapshot \cup {Unread}

\* wire: snapshots sent and not yet received; sent: the last one sent.
Stream == [at : {"free", "initial", "listening"}, reads : SUBSET Reads,
           wire : Seq(Snapshot), sent : Snapshot \cup {None}]

Free == [at |-> "free", reads |-> {}, wire |-> <<>>, sent |-> None]

ASSUME ValuesAssumption == {None, Unread} \cap Snapshot = {} /\ None # Unread

\* idle: no EventSource.  failed: refused by the server, never to reconnect.
TypeOK ==
  /\ order \in Snapshot
  /\ unpublished \in 0 .. LastVersion
  /\ subscribers \in 0 .. Cardinality(Streams)
  /\ stream \in [Streams -> Stream]
  /\ load \in [Loads -> Reads \cup {None}]
  /\ shown \in Snapshot \cup {None}
  /\ source \in Streams \cup {"idle", "connecting", "failed"}

Init ==
  /\ order = [v |-> 0, final |-> FALSE]
  /\ unpublished = 0
  /\ subscribers = 0
  /\ stream = [s \in Streams |-> Free]
  /\ load = [l \in Loads |-> None]
  /\ shown = None
  /\ source = "idle"
-----------------------------------------------------------------------------
(* The handlers that change orders, and the channel. *)

\* A change is committed.  A final order only has its payment confirmed.
Change ==
  /\ order.v < LastVersion
  /\ \E f \in BOOLEAN : (order.final => f) /\ order' = [v |-> order.v + 1, final |-> f]
  /\ unpublished' = unpublished + 1
  /\ UNCHANGED <<subscribers, stream, load, shown, source>>

Listening == {s \in Streams : stream[s].at = "listening"}

\* (Slip: a signal does not cancel the read before it, as with mergeMap.)
SignalledMerged(st) == [st EXCEPT !.reads = @ \cup {Unread}]

\* switchMap: the read under way is given up for a new one.
Signalled(st) == [st EXCEPT !.reads = {Unread}]

\* publish: the subscribers of the channel, if there is one, are signalled.
Publish ==
  /\ unpublished > 0
  /\ unpublished' = unpublished - 1
  /\ stream' = IF subscribers = 0 THEN stream
               ELSE [s \in Streams |-> IF s \in Listening THEN Signalled(stream[s])
                                                          ELSE stream[s]]
  /\ UNCHANGED <<order, subscribers, load, shown, source>>
-----------------------------------------------------------------------------
(* The API's side of a stream. *)

\* A snapshot is read.
StreamRead(s) ==
  /\ Unread \in stream[s].reads
  /\ stream' = [stream EXCEPT ![s].reads = (@ \ {Unread}) \cup {order}]
  /\ UNCHANGED <<order, unpublished, subscribers, load, shown, source>>

\* A snapshot is sent; with the first one the stream subscribes.
StreamSend(s) ==
  /\ Len(stream[s].wire) < WireBound
  /\ \E x \in stream[s].reads \ {Unread} :
       stream' = [stream EXCEPT ![s] = [at    |-> "listening",
                                        reads |-> @.reads \ {x},
                                        wire  |-> Append(@.wire, x),
                                        sent  |-> x]]
  /\ subscribers' = IF stream[s].at = "initial" THEN subscribers + 1 ELSE subscribers
  /\ UNCHANGED <<order, unpublished, load, shown, source>>

\* The connection is over.
Close(s) == stream' = [stream EXCEPT ![s] = Free]

\* An open source that loses its connection connects again.
SourceLoses(s) == source' = IF source = s THEN "connecting" ELSE source

\* (Slip: only a stream with a read under way gives its subscription back.)
StreamEndsUncounted(s) ==
  /\ stream[s].at # "free"
  /\ Close(s)
  /\ SourceLoses(s)
  /\ subscribers' = IF s \in Listening /\ stream[s].reads # {}
                    THEN subscribers - 1 ELSE subscribers
  /\ UNCHANGED <<order, unpublished, load, shown>>

\* A read fails, the connection breaks, or the API notices that the page has
\* closed it: the subscription ends, and with the last one the channel.
StreamEnds(s) ==
  /\ stream[s].at # "free"
  /\ Close(s)
  /\ SourceLoses(s)
  /\ subscribers' = IF s \in Listening THEN subscribers - 1 ELSE subscribers
  /\ UNCHANGED <<order, unpublished, load, shown>>

\* The API's process restarts: signals and channels are lost, streams end, and
\* so do the requests that it has not answered.
Restart ==
  /\ unpublished' = 0
  /\ subscribers' = 0
  /\ stream' = [s \in Streams |-> Free]
  /\ source' = IF source \in Streams THEN "connecting" ELSE source
  /\ load' = [l \in Loads |-> IF load[l] = Unread THEN None ELSE load[l]]
  /\ UNCHANGED <<order, shown>>
-----------------------------------------------------------------------------
(* The page. *)

\* A snapshot is shown; an effect opens the source of an order that is not
\* final, and closes it when it is.
Show(x) ==
  /\ shown' = x
  /\ source' = CASE x.final                      -> "idle"
                 [] ~x.final /\ source = "idle"  -> "connecting"
                 [] OTHER                        -> source

\* The page asks for the order: at first, or when the customer wishes.
Load(l) ==
  /\ load[l] = None
  /\ load' = [load EXCEPT ![l] = Unread]
  /\ UNCHANGED <<order, unpublished, subscribers, stream, shown, source>>

\* (Slip: the page is loaded again only while no stream is connected.)
SafetyRefreshOffLine(l) == source \notin Streams \cup {"idle"} /\ Load(l)

\* safetyRefresh: every minute, as long as the source is there.
SafetyRefresh(l) == source # "idle" /\ Load(l)

LoadRead(l) ==
  /\ load[l] = Unread
  /\ load' = [load EXCEPT ![l] = order]
  /\ UNCHANGED <<order, unpublished, subscribers, stream, shown, source>>

\* Answers may come in any order.
LoadAnswered(l) ==
  /\ load[l] \in Snapshot
  /\ Show(load[l])
  /\ load' = [load EXCEPT ![l] = None]
  /\ UNCHANGED <<order, unpublished, subscribers, stream>>

\* Errors leave what the page shows.
LoadFails(l) ==
  /\ load[l] \in Snapshot
  /\ load' = [load EXCEPT ![l] = None]
  /\ UNCHANGED <<order, unpublished, subscribers, stream, shown, source>>

Connect(s) ==
  /\ source = "connecting"
  /\ stream[s] = Free
  /\ source' = s
  /\ stream' = [stream EXCEPT ![s] = [Free EXCEPT !.at = "initial", !.reads = {Unread}]]
  /\ UNCHANGED <<order, unpublished, subscribers, load, shown>>

\* The stream is refused; an EventSource does not try again after that.
ConnectFails ==
  /\ source = "connecting"
  /\ source' = "failed"
  /\ UNCHANGED <<order, unpublished, subscribers, stream, load, shown>>

\* onOrder: the page receives a snapshot.
Receive(s) ==
  /\ source = s
  /\ stream[s].wire # <<>>
  /\ Show(Head(stream[s].wire))
  /\ stream' = [stream EXCEPT ![s].wire = Tail(@)]
  /\ UNCHANGED <<order, unpublished, subscribers, load>>

Next ==
  \/ Change \/ Publish \/ Restart \/ ConnectFails
  \/ \E s \in Streams :
       StreamRead(s) \/ StreamSend(s) \/ StreamEnds(s) \/ Connect(s) \/ Receive(s)
  \/ \E l \in Loads :
       Load(l) \/ SafetyRefresh(l) \/ LoadRead(l) \/ LoadAnswered(l) \/ LoadFails(l)

\* The browser's timer fires, and not every request is lost to a restart or
\* answered by an error.
Fairness ==
  /\ WF_vars(\E l \in Loads : SafetyRefresh(l))
  /\ \A l \in Loads : SF_vars(LoadRead(l)) /\ SF_vars(LoadAnswered(l))

Spec == Init /\ [][Next]_vars

FairSpec == Spec /\ Fairness
-----------------------------------------------------------------------------
(* Properties. *)

\* The channel counts the streams that listen, through streams that overlap,
\* break, fail while they read or are replaced: no channel is left behind,
\* none is closed under a listener.
ListenersCounted == subscribers = Cardinality(Listening)

\* What one connection tells the page never goes back in time, however signals
\* and reads overlap.
StreamMonotonic ==
  [][\A s \in Streams : stream[s].sent # None /\ stream'[s].sent # None =>
       stream[s].sent.v <= stream'[s].sent.v]_vars

UpToDate == shown # None /\ (shown = order \/ (shown.final /\ order.final))

\* A page that was loaded gets to show the order as it is, or that it is final,
\* whatever signals, streams and answers are lost or late: after the last
\* change, the last version.
PageCatchesUp == shown # None ~> UpToDate
=============================================================================
