--------------------------- MODULE TrackingProofs ---------------------------
(***************************************************************************)
(* Proofs about the streams of Tracking, for any number of connections,    *)
(* requests of the page, changes of the order and snapshots on their way:  *)
(* the channel counts its listeners, and what one stream tells never goes  *)
(* back in time.                                                           *)
(***************************************************************************)
EXTENDS Tracking, FiniteSetTheorems, TLAPS

\* A handler publishes after it commits.
PublishesCommitted == unpublished <= order.v

\* One stream: it begins and ends with nothing, has one read under way at most,
\* and a read that has met the database knows no less than what was sent
\* before it, and no more than is committed.
InOrder(st) ==
  /\ st.at = "free" => st = Free
  /\ \A x, y \in st.reads : x = y
  /\ st.sent # None => st.sent.v <= order.v
  /\ \A x \in st.reads \ {Unread} :
       /\ x.v <= order.v
       /\ st.sent # None => st.sent.v <= x.v

StreamsInOrder == \A s \in Streams : InOrder(stream[s])

\* The inductive invariant.
TrackingInv ==
  /\ TypeOK
  /\ PublishesCommitted
  /\ ListenersCounted
  /\ StreamsInOrder
-----------------------------------------------------------------------------
(* Lemmas about streams and the channel. *)

LEMMA ListeningFinite ==
  /\ IsFiniteSet(Listening)
  /\ Cardinality(Listening) \in Nat
  /\ Cardinality(Listening) <= Cardinality(Streams)
  <1>1. Listening \subseteq Streams
    BY DEF Listening
  <1> QED
    BY <1>1, StreamsAssumption, FS_Subset, FS_CardinalityType

LEMMA FreeTyped ==
  /\ Free \in Stream
  /\ InOrder(Free)
  /\ \A st \in Stream : st.at = "free" /\ InOrder(st) => st = Free
  <1>1. <<>> \in Seq(Snapshot)
    OBVIOUS
  <1> QED
    BY <1>1 DEF Free, Stream, InOrder

\* A step that leaves each stream's listening as it is.
LEMMA SameListeners ==
  ASSUME TypeOK, ListenersCounted, subscribers' = subscribers,
         \A s \in Streams : stream'[s].at = "listening" <=> stream[s].at = "listening"
  PROVE  ListenersCounted' /\ subscribers' \in 0 .. Cardinality(Streams)
  <1>1. Listening' = Listening
    BY DEF Listening
  <1> QED
    BY <1>1 DEF ListenersCounted, TypeOK

\* One more listens.
LEMMA ListenerJoins ==
  ASSUME TypeOK, ListenersCounted, NEW s \in Streams, s \notin Listening,
         subscribers' = subscribers + 1, stream'[s].at = "listening",
         \A r \in Streams \ {s} : stream'[r] = stream[r]
  PROVE  ListenersCounted' /\ subscribers' \in 0 .. Cardinality(Streams)
  <1>1. Listening' = Listening \cup {s}
    BY DEF Listening
  <1>2. Cardinality(Listening') = Cardinality(Listening) + 1
    BY <1>1, ListeningFinite, FS_AddElement
  <1>3. Listening' \subseteq Streams
    BY DEF Listening
  <1>4. Cardinality(Listening') <= Cardinality(Streams) /\ Cardinality(Streams) \in Nat
    BY <1>3, StreamsAssumption, FS_Subset, FS_CardinalityType
  <1>5. subscribers' = Cardinality(Listening')
    BY <1>2 DEF ListenersCounted
  <1>6. ListenersCounted'
    BY <1>5 DEF ListenersCounted, Listening
  <1> QED
    BY <1>2, <1>4, <1>5, <1>6, ListeningFinite

\* One no longer listens.
LEMMA ListenerLeaves ==
  ASSUME TypeOK, ListenersCounted, NEW s \in Streams, s \in Listening,
         subscribers' = subscribers - 1, stream'[s].at # "listening",
         \A r \in Streams \ {s} : stream'[r] = stream[r]
  PROVE  ListenersCounted' /\ subscribers' \in 0 .. Cardinality(Streams)
  <1>1. Listening' = Listening \ {s}
    BY DEF Listening
  <1>2. Cardinality(Listening') = Cardinality(Listening) - 1
    BY <1>1, ListeningFinite, FS_RemoveElement
  <1>3. IsFiniteSet(Listening') /\ Cardinality(Listening') \in Nat
    BY <1>1, ListeningFinite, FS_Subset, FS_CardinalityType
  <1>4. subscribers' = Cardinality(Listening')
    BY <1>2 DEF ListenersCounted
  <1>5. ListenersCounted'
    BY <1>4 DEF ListenersCounted, Listening
  <1>6. Cardinality(Streams) \in Nat
    BY StreamsAssumption, FS_CardinalityType
  <1> QED
    BY <1>2, <1>3, <1>4, <1>5, <1>6, ListeningFinite

\* A stream that is as it was is still in order after a change of the order.
LEMMA OrderGrows ==
  ASSUME TypeOK, StreamsInOrder, order' \in Snapshot, order.v <= order'.v,
         stream' = stream
  PROVE  StreamsInOrder'
  <1>1. ASSUME NEW s \in Streams PROVE InOrder(stream[s])'
    <2>1. PICK st \in Stream : st = stream[s] /\ st = stream'[s]
      BY DEF TypeOK
    <2>2. /\ order.v \in Nat
          /\ order'.v \in Nat
          /\ st.sent # None => st.sent.v \in Nat
          /\ \A x \in st.reads \ {Unread} : x.v \in Nat
      BY <2>1, LastVersionAssumption DEF TypeOK, Stream, Snapshot, Reads
    <2>3. InOrder(st)
      BY <2>1 DEF StreamsInOrder
    <2>4. InOrder(st)'
      BY <2>2, <2>3 DEF InOrder
    <2> QED
      BY <2>1, <2>4
  <1> QED
    BY <1>1 DEF StreamsInOrder

\* A step of one stream, while the order and the others stay as they are.
LEMMA OneStream ==
  ASSUME TypeOK, StreamsInOrder, NEW s \in Streams, NEW new \in Stream, order' = order,
         stream' = [stream EXCEPT ![s] = new], InOrder(new)
  PROVE  /\ stream' \in [Streams -> Stream]
         /\ StreamsInOrder'
         /\ stream'[s] = new
         /\ \A r \in Streams \ {s} : stream'[r] = stream[r]
  <1>1. /\ stream' \in [Streams -> Stream]
        /\ stream'[s] = new
        /\ \A r \in Streams \ {s} : stream'[r] = stream[r]
    BY DEF TypeOK
  <1>2. \A r \in Streams : InOrder(stream'[r])
    BY <1>1 DEF StreamsInOrder
  <1>3. \A r \in Streams : InOrder(stream[r])'
    BY <1>2 DEF InOrder
  <1> QED
    BY <1>1, <1>3 DEF StreamsInOrder
-----------------------------------------------------------------------------
(* The handlers and the API's side of a stream. *)

LEMMA ChangeKeeps == TrackingInv /\ Change => TrackingInv'
  <1> SUFFICES ASSUME TrackingInv, Change PROVE TrackingInv'
    OBVIOUS
  <1>1. /\ order \in [v : 0 .. LastVersion, final : BOOLEAN]
        /\ LastVersion \in Nat
        /\ unpublished \in Nat
    BY LastVersionAssumption DEF TrackingInv, TypeOK, Snapshot
  <1>2. PICK f \in BOOLEAN : order' = [v |-> order.v + 1, final |-> f]
    BY DEF Change
  <1>3. order' \in Snapshot /\ order.v <= order'.v /\ order'.v = order.v + 1
    BY <1>1, <1>2 DEF Change, Snapshot
  <1>4. PublishesCommitted' /\ unpublished' \in 0 .. LastVersion
    BY <1>1, <1>3 DEF TrackingInv, PublishesCommitted, Change, Snapshot
  <1>5. StreamsInOrder'
    BY <1>3, OrderGrows DEF TrackingInv, Change
  <1>6. ListenersCounted'
    BY SameListeners DEF TrackingInv, Change
  <1>7. TypeOK'
    BY <1>3, <1>4 DEF TrackingInv, TypeOK, Change
  <1> QED
    BY <1>4, <1>5, <1>6, <1>7 DEF TrackingInv

\* A signal gives a stream one read, which knows what is committed when it
\* meets the database, and so no less than what was sent.
LEMMA PublishKeeps == TrackingInv /\ Publish => TrackingInv'
  <1> SUFFICES ASSUME TrackingInv, Publish PROVE TrackingInv'
    OBVIOUS
  <1>1. \A s \in Streams : Signalled(stream[s]) \in Stream /\ Signalled(stream[s]).at = stream[s].at
                           /\ Signalled(stream[s]).reads = {Unread} /\ Signalled(stream[s]).sent = stream[s].sent
    BY DEF TrackingInv, TypeOK, Stream, Reads, Signalled
  <1>2. \A s \in Streams : \/ stream'[s] = stream[s]
                           \/ s \in Listening /\ stream'[s] = Signalled(stream[s])
    BY DEF Publish
  <1>3. stream' \in [Streams -> Stream]
    BY <1>1 DEF Publish, TrackingInv, TypeOK
  <1>4. ListenersCounted'
    BY <1>1, <1>2, SameListeners DEF TrackingInv, Publish
  <1>5. ASSUME NEW s \in Streams PROVE InOrder(stream[s])'
    <2>1. InOrder(stream[s]) /\ order' = order
      BY DEF TrackingInv, StreamsInOrder, Publish
    <2>2. CASE stream'[s] = stream[s]
      BY <2>1, <2>2 DEF InOrder
    <2>3. CASE s \in Listening /\ stream'[s] = Signalled(stream[s])
      BY <1>1, <2>1, <2>3 DEF InOrder, Listening
    <2> QED
      BY <1>2, <2>2, <2>3
  <1>6. unpublished' \in 0 .. LastVersion /\ PublishesCommitted'
    BY LastVersionAssumption DEF Publish, TrackingInv, TypeOK, Snapshot, PublishesCommitted
  <1>7. TypeOK'
    BY <1>3, <1>6 DEF TrackingInv, TypeOK, Publish
  <1> QED
    BY <1>4, <1>5, <1>6, <1>7 DEF TrackingInv, StreamsInOrder

\* A read of a stream meets the database after the last snapshot was sent.
LEMMA StreamReadKeeps ==
  ASSUME NEW s \in Streams PROVE TrackingInv /\ StreamRead(s) => TrackingInv'
  <1> SUFFICES ASSUME TrackingInv, StreamRead(s) PROVE TrackingInv'
    OBVIOUS
  <1>1. PICK st \in Stream : st = stream[s] /\ InOrder(st) /\ Unread \in st.reads
    BY DEF TrackingInv, TypeOK, StreamsInOrder, StreamRead
  <1> DEFINE new == [st EXCEPT !.reads = (st.reads \ {Unread}) \cup {order}]
  <1>2. /\ new \in Stream
        /\ new.at = st.at /\ new.sent = st.sent /\ new.reads = (st.reads \ {Unread}) \cup {order}
    BY <1>1 DEF TrackingInv, TypeOK, Stream, Reads
  <1>3. stream' = [stream EXCEPT ![s] = new] /\ order' = order
    BY <1>1 DEF StreamRead
  <1> HIDE DEF new
  <1>4. st.reads = {Unread}
    BY <1>1 DEF InOrder
  <1>5. new.reads = {order}
    BY <1>2, <1>4
  <1>6. InOrder(new)
    <2>1. st.at # "free"
      BY <1>1 DEF InOrder, Free
    <2>2. order.v \in Nat
      BY LastVersionAssumption DEF TrackingInv, TypeOK, Snapshot
    <2> QED
      BY <1>1, <1>2, <1>5, <2>1, <2>2 DEF InOrder
  <1>7. /\ stream' \in [Streams -> Stream]
        /\ StreamsInOrder'
        /\ stream'[s] = new
        /\ \A r \in Streams \ {s} : stream'[r] = stream[r]
    BY <1>2, <1>3, <1>6, OneStream DEF TrackingInv
  <1>8. ListenersCounted'
    BY <1>1, <1>2, <1>7, SameListeners DEF TrackingInv, StreamRead
  <1> QED
    BY <1>7, <1>8 DEF TrackingInv, TypeOK, PublishesCommitted, StreamRead

LEMMA StreamSendKeeps ==
  ASSUME NEW s \in Streams PROVE TrackingInv /\ StreamSend(s) => TrackingInv'
  <1> SUFFICES ASSUME TrackingInv, StreamSend(s) PROVE TrackingInv'
    OBVIOUS
  <1>1. PICK st \in Stream : st = stream[s] /\ InOrder(st)
    BY DEF TrackingInv, TypeOK, StreamsInOrder
  <1>2. PICK x \in st.reads \ {Unread} :
          stream' = [stream EXCEPT ![s] = [at    |-> "listening",
                                           reads |-> st.reads \ {x},
                                           wire  |-> Append(st.wire, x),
                                           sent  |-> x]]
    BY <1>1 DEF StreamSend, TrackingInv, TypeOK
  <1> DEFINE new == [at |-> "listening", reads |-> st.reads \ {x},
                     wire |-> Append(st.wire, x), sent |-> x]
  <1>3. x \in Snapshot /\ st.reads \ {x} = {}
    BY <1>1, <1>2 DEF Stream, Reads, InOrder
  <1>4. new \in Stream
    BY <1>1, <1>3 DEF Stream
  <1>5. new.at = "listening" /\ new.reads = {} /\ new.sent = x
    BY <1>3
  <1>6. stream' = [stream EXCEPT ![s] = new] /\ order' = order
    BY <1>2 DEF StreamSend
  <1> HIDE DEF new
  <1>7. InOrder(new)
    BY <1>1, <1>5 DEF InOrder
  <1>8. /\ stream' \in [Streams -> Stream]
        /\ StreamsInOrder'
        /\ stream'[s] = new
        /\ \A r \in Streams \ {s} : stream'[r] = stream[r]
    BY <1>4, <1>6, <1>7, OneStream DEF TrackingInv
  <1>9. stream[s].at \in {"initial", "listening"}
    BY <1>1, <1>2 DEF InOrder, Free, Stream
  <1>10. ListenersCounted' /\ subscribers' \in 0 .. Cardinality(Streams)
    <2>1. CASE stream[s].at = "initial"
      <3>1. s \notin Listening /\ subscribers' = subscribers + 1
        BY <2>1 DEF Listening, StreamSend
      <3> QED
        BY <1>5, <1>8, <3>1, ListenerJoins DEF TrackingInv
    <2>2. CASE stream[s].at = "listening"
      <3>1. subscribers' = subscribers
        BY <2>2 DEF StreamSend
      <3> QED
        BY <1>5, <1>8, <2>2, <3>1, SameListeners DEF TrackingInv
    <2> QED
      BY <1>9, <2>1, <2>2
  <1> QED
    BY <1>8, <1>10 DEF TrackingInv, TypeOK, PublishesCommitted, StreamSend

LEMMA StreamEndsKeeps ==
  ASSUME NEW s \in Streams PROVE TrackingInv /\ StreamEnds(s) => TrackingInv'
  <1> SUFFICES ASSUME TrackingInv, StreamEnds(s) PROVE TrackingInv'
    OBVIOUS
  <1>1. /\ stream' \in [Streams -> Stream]
        /\ StreamsInOrder'
        /\ stream'[s] = Free
        /\ \A r \in Streams \ {s} : stream'[r] = stream[r]
    BY FreeTyped, OneStream DEF TrackingInv, StreamEnds, Close
  <1>2. Free.at = "free"
    BY DEF Free
  <1>3. ListenersCounted' /\ subscribers' \in 0 .. Cardinality(Streams)
    <2>1. CASE s \in Listening
      <3>1. subscribers' = subscribers - 1
        BY <2>1 DEF StreamEnds
      <3> QED
        BY <1>1, <1>2, <2>1, <3>1, ListenerLeaves DEF TrackingInv
    <2>2. CASE s \notin Listening
      <3>1. subscribers' = subscribers
        BY <2>2 DEF StreamEnds
      <3> QED
        BY <1>1, <1>2, <2>2, <3>1, SameListeners DEF TrackingInv, Listening
    <2> QED
      BY <2>1, <2>2
  <1>4. source' \in Streams \cup {"idle", "connecting", "failed"}
    BY DEF TrackingInv, TypeOK, StreamEnds, SourceLoses
  <1> QED
    BY <1>1, <1>3, <1>4 DEF TrackingInv, TypeOK, PublishesCommitted, StreamEnds

\* No stream outlives the process, and no count of them does.
LEMMA RestartKeeps == TrackingInv /\ Restart => TrackingInv'
  <1> SUFFICES ASSUME TrackingInv, Restart PROVE TrackingInv'
    OBVIOUS
  <1>1. \A s \in Streams : stream'[s] = Free /\ Free.at = "free"
    BY DEF Restart, Free
  <1>2. Listening' = {}
    BY <1>1 DEF Listening
  <1>3. ListenersCounted'
    BY <1>2, FS_EmptySet DEF ListenersCounted, Restart
  <1>4. \A s \in Streams : InOrder(stream[s])'
    BY <1>1, FreeTyped DEF InOrder, Free
  <1>5. order.v \in Nat /\ 0 \in 0 .. LastVersion /\ 0 \in 0 .. Cardinality(Streams)
    BY LastVersionAssumption, StreamsAssumption, FS_CardinalityType
       DEF TrackingInv, TypeOK, Snapshot
  <1>6. stream' \in [Streams -> Stream]
    BY FreeTyped DEF Restart
  <1>7. load' \in [Loads -> Reads \cup {None}]
    BY DEF Restart, TrackingInv, TypeOK
  <1>8. source' \in Streams \cup {"idle", "connecting", "failed"}
    BY DEF Restart, TrackingInv, TypeOK
  <1>9. TypeOK'
    BY <1>5, <1>6, <1>7, <1>8 DEF TrackingInv, TypeOK, Restart
  <1> QED
    BY <1>3, <1>4, <1>5, <1>9 DEF TrackingInv, StreamsInOrder, PublishesCommitted, Restart
-----------------------------------------------------------------------------
(* The page. *)

LEMMA ShowTyped ==
  ASSUME TypeOK, NEW x \in Snapshot, Show(x)
  PROVE  shown' \in Snapshot /\ source' \in Streams \cup {"idle", "connecting", "failed"}
  <1>1. x.final \in BOOLEAN
    BY DEF Snapshot
  <1>2. \/ source' = "idle"
        \/ source' = "connecting"
        \/ source' = source
    BY <1>1 DEF Show
  <1> QED
    BY <1>2 DEF Show, TypeOK

\* What a request of the page does is of no concern to the streams.
LEMMA LoadKeeps ==
  ASSUME NEW l \in Loads
  PROVE  /\ TrackingInv
         /\ Load(l) \/ SafetyRefresh(l) \/ LoadRead(l) \/ LoadAnswered(l) \/ LoadFails(l)
         => TrackingInv'
  <1> SUFFICES ASSUME TrackingInv,
                      Load(l) \/ SafetyRefresh(l) \/ LoadRead(l) \/ LoadAnswered(l) \/ LoadFails(l)
               PROVE  TrackingInv'
    OBVIOUS
  <1>1. UNCHANGED <<order, unpublished, subscribers, stream>>
    BY DEF Load, SafetyRefresh, LoadRead, LoadAnswered, LoadFails
  <1>2. load' \in [Loads -> Reads \cup {None}]
    BY DEF TrackingInv, TypeOK, Reads, Load, SafetyRefresh, LoadRead, LoadAnswered, LoadFails
  <1>3. /\ shown' \in Snapshot \cup {None}
        /\ source' \in Streams \cup {"idle", "connecting", "failed"}
    <2>1. CASE LoadAnswered(l)
      BY <2>1, ShowTyped DEF TrackingInv, LoadAnswered
    <2>2. CASE ~LoadAnswered(l)
      BY <2>2 DEF TrackingInv, TypeOK, Load, SafetyRefresh, LoadRead, LoadFails
    <2> QED
      BY <2>1, <2>2
  <1>4. ListenersCounted'
    BY <1>1, SameListeners DEF TrackingInv
  <1>5. StreamsInOrder'
    BY <1>1 DEF TrackingInv, StreamsInOrder, InOrder
  <1> QED
    BY <1>1, <1>2, <1>3, <1>4, <1>5 DEF TrackingInv, TypeOK, PublishesCommitted

LEMMA ConnectKeeps ==
  ASSUME NEW s \in Streams PROVE TrackingInv /\ Connect(s) => TrackingInv'
  <1> SUFFICES ASSUME TrackingInv, Connect(s) PROVE TrackingInv'
    OBVIOUS
  <1> DEFINE new == [Free EXCEPT !.at = "initial", !.reads = {Unread}]
  <1>1. new \in Stream /\ new.at = "initial" /\ new.reads = {Unread} /\ new.sent = None
    BY FreeTyped DEF Free, Stream, Reads
  <1>2. stream' = [stream EXCEPT ![s] = new] /\ order' = order
    BY DEF Connect
  <1> HIDE DEF new
  <1>3. InOrder(new)
    BY <1>1 DEF InOrder
  <1>4. /\ stream' \in [Streams -> Stream]
        /\ StreamsInOrder'
        /\ stream'[s] = new
        /\ \A r \in Streams \ {s} : stream'[r] = stream[r]
    BY <1>1, <1>2, <1>3, OneStream DEF TrackingInv
  <1>5. stream[s].at = "free"
    BY DEF Connect, Free
  <1>6. ListenersCounted'
    BY <1>1, <1>4, <1>5, SameListeners DEF TrackingInv, Connect
  <1> QED
    BY <1>4, <1>6 DEF TrackingInv, TypeOK, PublishesCommitted, Connect

LEMMA ReceiveKeeps ==
  ASSUME NEW s \in Streams PROVE TrackingInv /\ Receive(s) => TrackingInv'
  <1> SUFFICES ASSUME TrackingInv, Receive(s) PROVE TrackingInv'
    OBVIOUS
  <1>1. PICK st \in Stream : st = stream[s] /\ InOrder(st)
    BY DEF TrackingInv, TypeOK, StreamsInOrder
  <1>2. st.wire \in Seq(Snapshot) /\ st.wire # <<>>
    BY <1>1 DEF Stream, Receive
  <1>3. Head(st.wire) \in Snapshot /\ Tail(st.wire) \in Seq(Snapshot)
    BY <1>2
  <1> DEFINE new == [st EXCEPT !.wire = Tail(st.wire)]
  <1>4. new \in Stream /\ new.at = st.at /\ new.reads = st.reads /\ new.sent = st.sent
    BY <1>3 DEF Stream
  <1>5. stream' = [stream EXCEPT ![s] = new] /\ order' = order
    BY <1>1 DEF Receive
  <1> HIDE DEF new
  <1>6. st.at # "free"
    BY <1>1, <1>2 DEF InOrder, Free
  <1>7. InOrder(new)
    BY <1>1, <1>4, <1>6 DEF InOrder
  <1>8. /\ stream' \in [Streams -> Stream]
        /\ StreamsInOrder'
        /\ stream'[s] = new
        /\ \A r \in Streams \ {s} : stream'[r] = stream[r]
    BY <1>4, <1>5, <1>7, OneStream DEF TrackingInv
  <1>9. ListenersCounted'
    BY <1>1, <1>4, <1>8, SameListeners DEF TrackingInv, Receive
  <1>10. shown' \in Snapshot /\ source' \in Streams \cup {"idle", "connecting", "failed"}
    BY <1>1, <1>3, ShowTyped DEF TrackingInv, Receive
  <1> QED
    BY <1>8, <1>9, <1>10 DEF TrackingInv, TypeOK, PublishesCommitted, Receive
-----------------------------------------------------------------------------
(* Theorems.                                                               *)

LEMMA TrackingInit == Init => TrackingInv
  <1> SUFFICES ASSUME Init PROVE TrackingInv
    OBVIOUS
  <1>1. \A s \in Streams : stream[s] = Free /\ Free.at = "free"
    BY DEF Init, Free
  <1>2. Listening = {}
    BY <1>1 DEF Listening
  <1>3. ListenersCounted
    BY <1>2, FS_EmptySet DEF ListenersCounted, Init
  <1>4. /\ 0 \in 0 .. LastVersion /\ 0 \in 0 .. Cardinality(Streams)
        /\ order \in Snapshot /\ order.v = 0
    BY LastVersionAssumption, StreamsAssumption, FS_CardinalityType DEF Init, Snapshot
  <1>5. TypeOK
    BY <1>4, FreeTyped DEF TypeOK, Init
  <1>6. StreamsInOrder
    BY <1>1, FreeTyped DEF StreamsInOrder
  <1> QED
    BY <1>3, <1>4, <1>5, <1>6 DEF TrackingInv, PublishesCommitted, Init

LEMMA TrackingNext == TrackingInv /\ [Next]_vars => TrackingInv'
  <1>1. CASE UNCHANGED vars
    BY <1>1 DEF vars, TrackingInv, TypeOK, PublishesCommitted, ListenersCounted, Listening,
                StreamsInOrder, InOrder
  <1>2. ASSUME TrackingInv, ConnectFails PROVE TrackingInv'
    <2>1. ListenersCounted'
      BY <1>2, SameListeners DEF TrackingInv, ConnectFails
    <2>2. StreamsInOrder'
      BY <1>2 DEF TrackingInv, ConnectFails, StreamsInOrder, InOrder
    <2> QED
      BY <1>2, <2>1, <2>2 DEF TrackingInv, TypeOK, PublishesCommitted, ConnectFails
  <1> QED
    BY <1>1, <1>2, ChangeKeeps, PublishKeeps, RestartKeeps, StreamReadKeeps, StreamSendKeeps,
       StreamEndsKeeps, ConnectKeeps, ReceiveKeeps, LoadKeeps DEF Next

\* What the streams and the channel are while the handlers commit, the process
\* restarts and the page loads, connects and is disconnected.
THEOREM TrackingInvariant == Spec => []TrackingInv
  <1> QED
    BY TrackingInit, TrackingNext, PTL DEF Spec

\* Every variable of the streams and the page keeps its type.
THEOREM TrackingTypes == Spec => []TypeOK
  <1>1. TrackingInv => TypeOK
    BY DEF TrackingInv
  <1> QED
    BY <1>1, TrackingInvariant, PTL

\* Streams that overlap, fail while they read, break or are replaced leave no
\* channel behind and close none under a listener.
THEOREM ListenersStayCounted == Spec => []ListenersCounted
  <1>1. TrackingInv => ListenersCounted
    BY DEF TrackingInv
  <1> QED
    BY <1>1, TrackingInvariant, PTL

\* One step: a stream sends a snapshot that was read after the last one it sent,
\* because a read that was under way then has been given up.
LEMMA StreamForward ==
  ASSUME TrackingInv, [Next]_vars, NEW s \in Streams,
         stream[s].sent # None, stream'[s].sent # None
  PROVE  stream[s].sent.v <= stream'[s].sent.v
  <1>1. PICK st \in Stream : st = stream[s] /\ InOrder(st)
    BY DEF TrackingInv, TypeOK, StreamsInOrder
  <1>2. stream[s].sent.v \in Nat
    BY <1>1, LastVersionAssumption DEF Stream, Snapshot
  <1>3. ASSUME stream'[s].sent = stream[s].sent
        PROVE  stream[s].sent.v <= stream'[s].sent.v
    BY <1>2, <1>3
  <1>4. stream[s] # Free /\ Free.sent = None
    BY DEF Free
  <1>5. stream \in [Streams -> Stream]
    BY DEF TrackingInv, TypeOK
  <1>6. CASE StreamSend(s)
    <2>1. PICK x \in st.reads \ {Unread} :
            stream' = [stream EXCEPT ![s] = [at    |-> "listening",
                                             reads |-> st.reads \ {x},
                                             wire  |-> Append(st.wire, x),
                                             sent  |-> x]]
      BY <1>1, <1>5, <1>6 DEF StreamSend
    <2>2. stream'[s].sent = x
      BY <1>5, <2>1
    <2> QED
      BY <1>1, <2>1, <2>2 DEF InOrder
  <1>7. CASE StreamRead(s)
    <2>1. stream'[s].sent = stream[s].sent
      BY <1>1, <1>5, <1>7 DEF StreamRead, Stream
    <2> QED
      BY <1>3, <2>1
  <1>8. CASE StreamEnds(s) \/ Restart
    BY <1>4, <1>5, <1>8 DEF StreamEnds, Close, Restart
  <1>9. CASE Connect(s)
    BY <1>4, <1>9 DEF Connect
  <1>10. CASE Receive(s)
    <2>1. stream'[s].sent = stream[s].sent
      BY <1>1, <1>5, <1>10 DEF Receive, Stream
    <2> QED
      BY <1>3, <2>1
  <1>11. CASE Publish
    <2>1. Signalled(stream[s]).sent = stream[s].sent
      BY <1>1 DEF Signalled, Stream
    <2> QED
      BY <1>3, <1>11, <2>1 DEF Publish
  <1>12. ASSUME NEW r \in Streams \ {s},
                StreamRead(r) \/ StreamSend(r) \/ StreamEnds(r) \/ Connect(r) \/ Receive(r)
         PROVE  stream[s].sent.v <= stream'[s].sent.v
    <2>1. stream'[s] = stream[s]
      BY <1>5, <1>12 DEF StreamRead, StreamSend, StreamEnds, Close, Connect, Receive
    <2> QED
      BY <1>3, <2>1
  <1>13. ASSUME stream' = stream
         PROVE  stream[s].sent.v <= stream'[s].sent.v
    BY <1>3, <1>13
  <1>14. CASE Change \/ ConnectFails \/ UNCHANGED vars
    BY <1>13, <1>14 DEF Change, ConnectFails, vars
  <1>15. ASSUME NEW l \in Loads,
                Load(l) \/ SafetyRefresh(l) \/ LoadRead(l) \/ LoadAnswered(l) \/ LoadFails(l)
         PROVE  stream[s].sent.v <= stream'[s].sent.v
    BY <1>13, <1>15 DEF Load, SafetyRefresh, LoadRead, LoadAnswered, LoadFails
  <1> QED
    BY <1>6, <1>7, <1>8, <1>9, <1>10, <1>11, <1>12, <1>14, <1>15 DEF Next

\* What one connection tells the page never goes back in time, however signals
\* overtake reads: switchMap gives up the read under way for a newer one.
THEOREM StreamsStayMonotonic == Spec => StreamMonotonic
  <1>1. TrackingInv /\ [Next]_vars =>
          [\A s \in Streams : stream[s].sent # None /\ stream'[s].sent # None =>
             stream[s].sent.v <= stream'[s].sent.v]_vars
    BY StreamForward
  <1> QED
    BY <1>1, TrackingInvariant, PTL DEF Spec, StreamMonotonic
=============================================================================
