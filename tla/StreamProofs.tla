---------------------------- MODULE StreamProofs -----------------------------
(***************************************************************************)
(* Theorems about LiveStream, for every choice of its constants.           *)
(***************************************************************************)
EXTENDS LiveStream, Queues, SequenceTheorems, FiniteSetTheorems, TLAPS

LEMMA SocketFields ==
  ASSUME NEW s \in Socket
  PROVE  /\ s[1] \in Page
         /\ s[2] \in 1..MaxConnections[s[1]]
         /\ s = <<s[1], s[2]>>
BY DEF Socket

LEMMA SocketMade ==
  ASSUME NEW p \in Page, NEW n \in 1..MaxConnections[p]
  PROVE  <<p, n>> \in Socket
BY DEF Socket

LEMMA SocketsFinite == IsFiniteSet(Socket)
<1> DEFINE f == [p \in Page |-> {p} \X (1..MaxConnections[p])]
<1>1. ASSUME NEW p \in Page
      PROVE  IsFiniteSet({p} \X (1..MaxConnections[p]))
  <2>1. IsFiniteSet({p})
    BY FS_Singleton
  <2>2. IsFiniteSet(1..MaxConnections[p])
    <3>1. 1 \in Int /\ MaxConnections[p] \in Int
      BY StreamAssumption
    <3> QED
      BY <3>1, FS_Interval
  <2> QED
    BY <2>1, <2>2, FS_Product
<1>2. IsFiniteSet({f[p] : p \in Page})
  <2> HIDE DEF f
  <2> QED
    BY ImageFinite, StreamAssumption
<1>3. \A T \in {f[p] : p \in Page} : IsFiniteSet(T)
  BY <1>1
<1>4. Socket = UNION {f[p] : p \in Page}
  BY DEF Socket
<1> QED
  <2> HIDE DEF f
  <2> QED
    BY <1>2, <1>3, <1>4, FS_UNION

LEMMA Counted ==
  ASSUME NEW viewers \in SUBSET Socket
  PROVE  Cardinality(viewers) \in Nat
BY SocketsFinite, FS_Subset, FS_CardinalityType

LEMMA ToServerFields ==
  ASSUME NEW m \in ToServer
  PROVE  /\ m.type \in {"JOIN_STREAM", "END_STREAM", "TRACK_STATE", "KICK_VIEWER"} => m.room \in RoomId
         /\ m.type \in {"SDP_OFFER", "SDP_ANSWER"} => m.target \in Socket
         /\ m.type = "TRACK_STATE" => m.track \in Track
         /\ m.type = "POST" => m.post \in Post /\ m.post.room \in RoomId
         /\ m.type = "KICK_VIEWER" => m.viewer \in Socket
BY DEF ToServer, Post

LEMMA ToServerMessages ==
  /\ [type |-> "disconnect"] \in ToServer
  /\ [type |-> "CREATE_STREAM"] \in ToServer
  /\ \A r \in RoomId :
       /\ [type |-> "JOIN_STREAM", room |-> r] \in ToServer
       /\ [type |-> "END_STREAM", room |-> r] \in ToServer
       /\ \A track \in Track : [type |-> "TRACK_STATE", room |-> r, track |-> track] \in ToServer
       /\ \A v \in Socket : [type |-> "KICK_VIEWER", room |-> r, viewer |-> v] \in ToServer
  /\ \A s \in Socket : /\ [type |-> "SDP_OFFER", target |-> s] \in ToServer
                       /\ [type |-> "SDP_ANSWER", target |-> s] \in ToServer
  /\ \A post \in Post : [type |-> "POST", post |-> post] \in ToServer
BY DEF ToServer

LEMMA ToPageFields ==
  ASSUME NEW m \in ToPage
  PROVE  /\ m.type \in {"STREAM_CREATED", "STREAM_JOINED"} => m.room \in RoomId
         /\ m.type = "STREAM_JOINED" => m.broadcaster \in Socket /\ m.count \in Nat /\ m.track \in Track
         /\ m.type \in {"VIEWER_JOINED", "VIEWER_LEFT"} => m.viewer \in Socket
         /\ m.type = "VIEWER_COUNT" => m.count \in Nat
         /\ m.type = "TRACK_STATE" => m.track \in Track
         /\ m.type = "POST" => m.post \in Post
         /\ m.type \in {"SDP_OFFER", "SDP_ANSWER"} => m.sender \in Socket
BY DEF ToPage

LEMMA ToPageMessages ==
  /\ \A r \in RoomId : [type |-> "STREAM_CREATED", room |-> r] \in ToPage
  /\ \A r \in RoomId, s \in Socket, n \in Nat, track \in Track :
       [type |-> "STREAM_JOINED", room |-> r, broadcaster |-> s, count |-> n, track |-> track]
         \in ToPage
  /\ \A type \in {"JOIN_ERROR", "STREAM_KICKED", "STREAM_ENDED"} : [type |-> type] \in ToPage
  /\ \A s \in Socket :
       /\ [type |-> "VIEWER_JOINED", viewer |-> s] \in ToPage
       /\ [type |-> "VIEWER_LEFT", viewer |-> s] \in ToPage
       /\ \A type \in {"SDP_OFFER", "SDP_ANSWER"} : [type |-> type, sender |-> s] \in ToPage
  /\ \A track \in Track : [type |-> "TRACK_STATE", track |-> track] \in ToPage
  /\ \A post \in Post : [type |-> "POST", post |-> post] \in ToPage
BY DEF ToPage

LEMMA CountMessage ==
  ASSUME NEW viewers \in SUBSET Socket
  PROVE  Count(viewers) \in ToPage /\ Count(viewers).type = "VIEWER_COUNT"
BY Counted DEF Count, ToPage

-----------------------------------------------------------------------------
(* Type correctness, of the server first.  A viewer that was let in after    *)
(* its await is put into a room object that exists, if no more in the map.   *)
Known == \A h \in suspended : h.op = "join" => room[h.room] # None

LEMMA RequestType ==
  ASSUME StreamRoomsTypeOK, NEW s \in Socket, NEW type, Request(s, type)
  PROVE  /\ Head(toServer[s]) \in ToServer
         /\ Head(toServer[s]).type = type
         /\ toServer' \in [Socket -> Seq(ToServer)]
         /\ connection' = connection
BY HeadTail DEF StreamRoomsTypeOK, Request

LEMMA EmitType ==
  ASSUME StreamRoomsTypeOK, NEW sent \in [Socket -> Seq(ToPage)], Emit(sent)
  PROVE  toPage' \in [Page -> Seq(ToPage)]
BY ShortSequences DEF StreamRoomsTypeOK, Emit

LEMMA ToType ==
  ASSUME NEW sockets, NEW m \in ToPage
  PROVE  To(sockets, m) \in [Socket -> Seq(ToPage)]
BY ShortSequences DEF To

LEMMA ThenType ==
  ASSUME NEW sent \in [Socket -> Seq(ToPage)], NEW more \in [Socket -> Seq(ToPage)]
  PROVE  Then(sent, more) \in [Socket -> Seq(ToPage)]
BY ShortSequences DEF Then

\* What is known of a room object, and of one that changes.
LEMMA RoomFields ==
  ASSUME StreamRoomsTypeOK, NEW r \in RoomId, room[r] # None
  PROVE  /\ room[r] \in Room /\ room[r].broadcaster \in Socket
         /\ room[r].viewers \in SUBSET Socket /\ room[r].track \in Track
BY DEF StreamRoomsTypeOK, Room

LEMMA InitialTracks == InitialTrack \in Track
BY DEF InitialTrack, Track

LEMMA StatsType ==
  ASSUME StreamRoomsTypeOK, NEW r \in RoomId, NEW viewers \in SUBSET Socket, NEW track \in Track,
         \/ upsertStreamRoom(r, viewers) \/ removeStreamRoom(r)
         \/ setStreamTrackState(r, track) \/ setStreamViewerCount(r, viewers)
  PROVE  streamStats' \in [RoomId -> StreamRoomStat \cup {None}]
<1>1. Cardinality(viewers) \in Nat
  BY Counted
<1>2. [viewers |-> Cardinality(viewers), track |-> InitialTrack] \in StreamRoomStat
  BY <1>1, InitialTracks DEF StreamRoomStat
<1>3. ASSUME NEW x \in StreamRoomStat
      PROVE  /\ [x EXCEPT !.viewers = Cardinality(viewers)] \in StreamRoomStat
             /\ [x EXCEPT !.track = track] \in StreamRoomStat
  BY <1>1 DEF StreamRoomStat
<1>4. streamStats[r] # None => streamStats[r] \in StreamRoomStat
  BY DEF StreamRoomsTypeOK
<1>5. CASE upsertStreamRoom(r, viewers)
  BY <1>2, <1>3, <1>4, <1>5 DEF StreamRoomsTypeOK, upsertStreamRoom
<1>6. CASE removeStreamRoom(r)
  BY <1>6 DEF StreamRoomsTypeOK, removeStreamRoom
<1>7. CASE setStreamTrackState(r, track)
  BY <1>3, <1>4, <1>7 DEF StreamRoomsTypeOK, setStreamTrackState
<1>8. CASE setStreamViewerCount(r, viewers)
  BY <1>3, <1>4, <1>8 DEF StreamRoomsTypeOK, setStreamViewerCount
<1> QED BY <1>5, <1>6, <1>7, <1>8

LEMMA SuspendedFields ==
  ASSUME StreamRoomsTypeOK, NEW h \in suspended
  PROVE  /\ h \in Suspended
         /\ h.op \in {"create", "join"}
         /\ h.socket \in Socket
         /\ h.room \in RoomId
BY DEF StreamRoomsTypeOK, Suspended

\* The parts of the server's state that its handlers change, apart from the queues.
ServerTypeOK ==
  /\ rooms \subseteq RoomId
  /\ room \in [RoomId -> Room \cup {None}]
  /\ \A r \in rooms : room[r] # None
  /\ broadcasterIndex \in [Socket -> RoomId \cup {None}]
  /\ viewerIndex \in [Socket -> RoomId \cup {None}]
  /\ timers \subseteq RoomId
  /\ members \in [RoomId -> SUBSET Socket]
  /\ streamStats \in [RoomId -> StreamRoomStat \cup {None}]

LEMMA ServerType ==
  ASSUME StreamRoomsTypeOK, ServerTypeOK', connection' = connection,
         toServer' \in [Socket -> Seq(ToServer)], toPage' \in [Page -> Seq(ToPage)],
         suspended' \subseteq Suspended
  PROVE  StreamRoomsTypeOK'
BY DEF StreamRoomsTypeOK, ServerTypeOK, SocketOf

LEMMA createRoomType ==
  ASSUME StreamRoomsTypeOK, NEW r \in RoomId, NEW s \in Socket, createRoom(r, s)
  PROVE  /\ ServerTypeOK'
         /\ \A q \in RoomId : room[q] # None => room'[q] # None
         /\ toPage' \in [Page -> Seq(ToPage)]
<1>1. PICK x : x = [broadcaster |-> s, viewers |-> {}, track |-> InitialTrack]
  OBVIOUS
<1>2. x \in Room /\ x # None
  BY <1>1, InitialTracks, StreamNoneAssumption DEF Room
<1>3. room' = [room EXCEPT ![r] = x]
  BY <1>1 DEF createRoom
<1>4. room' \in [RoomId -> Room \cup {None}]
      /\ \A q \in RoomId : q \in rooms' \/ room[q] # None => room'[q] # None
  BY <1>2, <1>3 DEF createRoom, StreamRoomsTypeOK
<1>5. streamStats' \in [RoomId -> StreamRoomStat \cup {None}]
  <2>1. upsertStreamRoom(r, {})
    BY DEF createRoom
  <2> QED BY <2>1, StatsType, InitialTracks
<1>6. toPage' \in [Page -> Seq(ToPage)]
  BY EmitType, ToType, ToPageMessages DEF createRoom
<1> QED
  BY <1>4, <1>5, <1>6 DEF createRoom, StreamRoomsTypeOK, ServerTypeOK

\* A change of the viewers of a stream or of what its track shows.
LEMMA RoomChanges ==
  ASSUME StreamRoomsTypeOK, NEW r \in RoomId, room[r] # None,
         NEW viewers \in SUBSET Socket, NEW track \in Track
  PROVE  /\ [room EXCEPT ![r].viewers = viewers] \in [RoomId -> Room \cup {None}]
         /\ [room EXCEPT ![r].track = track] \in [RoomId -> Room \cup {None}]
         /\ \A q \in RoomId : room[q] # None =>
              /\ [room EXCEPT ![r].viewers = viewers][q] # None
              /\ [room EXCEPT ![r].track = track][q] # None
<1>1. ASSUME NEW x \in Room
      PROVE  /\ [x EXCEPT !.viewers = viewers] \in Room /\ [x EXCEPT !.track = track] \in Room
  BY DEF Room
<1>2. None \notin Room
  BY StreamNoneAssumption
<1> QED BY <1>1, <1>2, RoomFields DEF StreamRoomsTypeOK

LEMMA addViewerType ==
  ASSUME StreamRoomsTypeOK, NEW r \in RoomId, room[r] # None, NEW s \in Socket, addViewer(r, s)
  PROVE  /\ ServerTypeOK'
         /\ \A q \in RoomId : room[q] # None => room'[q] # None
         /\ toPage' \in [Page -> Seq(ToPage)]
<1>1. PICK viewers : viewers = room[r].viewers \cup (IF r \in rooms THEN {s} ELSE {})
  OBVIOUS
<1>2. viewers \in SUBSET Socket
  BY <1>1, RoomFields
<1>3. room' = [room EXCEPT ![r].viewers = viewers] /\ setStreamViewerCount(r, viewers)
  BY <1>1 DEF addViewer
<1>4. PICK joined : joined = [type |-> "STREAM_JOINED", room |-> r,
                              broadcaster |-> room[r].broadcaster,
                              count |-> Cardinality(viewers), track |-> room[r].track]
  OBVIOUS
<1>5. PICK news : news = [type |-> "VIEWER_JOINED", viewer |-> s]
  OBVIOUS
<1>6. joined \in ToPage /\ news \in ToPage /\ Count(viewers) \in ToPage
  BY <1>2, <1>4, <1>5, RoomFields, Counted, CountMessage, ToPageMessages
<1>7. Emit(Then(To({s}, joined),
               Then(To({room[r].broadcaster}, news), To(members[r] \cup {s}, Count(viewers)))))
  BY <1>1, <1>4, <1>5 DEF addViewer
<1>8. toPage' \in [Page -> Seq(ToPage)]
  <2>1. PICK a, b, c : /\ a = To({s}, joined)
                       /\ b = To({room[r].broadcaster}, news)
                       /\ c = To(members[r] \cup {s}, Count(viewers))
    OBVIOUS
  <2>2. a \in [Socket -> Seq(ToPage)] /\ b \in [Socket -> Seq(ToPage)]
          /\ c \in [Socket -> Seq(ToPage)]
    BY <1>6, <2>1, ToType
  <2>3. Then(a, Then(b, c)) \in [Socket -> Seq(ToPage)]
    BY <2>2, ThenType
  <2> QED BY <1>7, <2>1, <2>3, EmitType
<1>9. InitialTrack \in Track
  BY InitialTracks
<1>10. room' \in [RoomId -> Room \cup {None}] /\ \A q \in RoomId : room[q] # None => room'[q] # None
  BY <1>2, <1>3, <1>9, RoomChanges
<1>11. streamStats' \in [RoomId -> StreamRoomStat \cup {None}]
  BY <1>2, <1>3, <1>9, StatsType
<1> QED BY <1>8, <1>10, <1>11 DEF addViewer, StreamRoomsTypeOK, ServerTypeOK

LEMMA closeRoomType ==
  ASSUME StreamRoomsTypeOK, NEW r \in RoomId, closeRoom(r)
  PROVE  ServerTypeOK' /\ toPage' \in [Page -> Seq(ToPage)] /\ room' = room
<1>1. toPage' \in [Page -> Seq(ToPage)]
  BY EmitType, ToType, ToPageMessages DEF closeRoom
<1>2. streamStats' \in [RoomId -> StreamRoomStat \cup {None}]
  BY DEF closeRoom, removeStreamRoom, StreamRoomsTypeOK
<1> QED BY <1>1, <1>2 DEF closeRoom, removeRoom, StreamRoomsTypeOK, ServerTypeOK

LEMMA removeViewerType ==
  ASSUME StreamRoomsTypeOK, NEW s \in Socket, removeViewer(s)
  PROVE  /\ rooms' \subseteq RoomId
         /\ room' \in [RoomId -> Room \cup {None}]
         /\ \A q \in RoomId : room[q] # None => room'[q] # None
         /\ \A q \in rooms' : room'[q] # None
         /\ broadcasterIndex' \in [Socket -> RoomId \cup {None}]
         /\ viewerIndex' \in [Socket -> RoomId \cup {None}]
         /\ timers' \subseteq RoomId
<1>1. CASE viewerIndex[s] \in rooms
  <2>1. PICK r \in RoomId : r = viewerIndex[s] /\ r \in rooms
    BY <1>1 DEF StreamRoomsTypeOK
  <2>2. room[r] # None
    BY <2>1 DEF StreamRoomsTypeOK
  <2>3. PICK viewers : viewers = room[r].viewers \ {s}
    OBVIOUS
  <2>4. viewers \in SUBSET Socket
    BY <2>2, <2>3, RoomFields
  <2>5. room' = [room EXCEPT ![r].viewers = viewers]
    BY <1>1, <2>1, <2>3 DEF removeViewer
  <2>6. room' \in [RoomId -> Room \cup {None}]
          /\ \A q \in RoomId : room[q] # None => room'[q] # None
    BY <2>2, <2>4, <2>5, InitialTracks, RoomChanges
  <2> QED BY <2>6 DEF removeViewer, StreamRoomsTypeOK
<1>2. CASE viewerIndex[s] \notin rooms
  BY <1>2 DEF removeViewer, StreamRoomsTypeOK
<1> QED BY <1>1, <1>2

LEMMA KnownKept ==
  ASSUME StreamRoomsTypeOK, Known, suspended' \subseteq suspended,
         \A q \in RoomId : room[q] # None => room'[q] # None
  PROVE  Known' /\ suspended' \subseteq Suspended
BY SuspendedFields DEF Known, StreamRoomsTypeOK

LEMMA handleCreateStreamType ==
  ASSUME StreamRoomsTypeOK, Known, NEW s \in Socket, handleCreateStream(s)
  PROVE  StreamRoomsTypeOK' /\ Known'
<1>1. toServer' \in [Socket -> Seq(ToServer)] /\ connection' = connection
  BY RequestType DEF handleCreateStream
<1>2. PICK r \in RoomId :
        IF r \in Private
        THEN /\ suspended' = suspended \cup {[op |-> "create", socket |-> s, room |-> r]}
             /\ UNCHANGED <<toPage, serviceVars, members, streamStats>>
        ELSE createRoom(r, s) /\ UNCHANGED suspended
  BY DEF handleCreateStream
<1>3. CASE r \in Private
  <2>1. PICK h : h = [op |-> "create", socket |-> s, room |-> r]
    OBVIOUS
  <2>2. h \in Suspended /\ h.op = "create" /\ suspended' = suspended \cup {h}
    BY <1>2, <1>3, <2>1 DEF Suspended
  <2>3. suspended' \subseteq Suspended /\ Known'
    BY <1>2, <1>3, <2>2 DEF Known, StreamRoomsTypeOK, serviceVars
  <2>4. ServerTypeOK' /\ toPage' = toPage
    BY <1>2, <1>3 DEF ServerTypeOK, serviceVars, StreamRoomsTypeOK
  <2> QED BY <1>1, <2>3, <2>4, ServerType DEF StreamRoomsTypeOK
<1>4. CASE r \notin Private
  BY <1>1, <1>2, <1>4, createRoomType, KnownKept, ServerType
<1> QED BY <1>3, <1>4

LEMMA passwordHashedType ==
  ASSUME StreamRoomsTypeOK, Known, NEW h \in suspended, passwordHashed(h)
  PROVE  StreamRoomsTypeOK' /\ Known'
<1>1. suspended' \subseteq suspended /\ UNCHANGED <<connection, toServer>>
  BY DEF passwordHashed
<1> QED
  BY <1>1, SuspendedFields, createRoomType, KnownKept, ServerType
     DEF passwordHashed, StreamRoomsTypeOK

LEMMA UnchangedType ==
  ASSUME StreamRoomsTypeOK, UNCHANGED <<serviceVars, members, streamStats>>
  PROVE  ServerTypeOK' /\ \A q \in RoomId : room[q] # None => room'[q] # None
BY DEF StreamRoomsTypeOK, ServerTypeOK, serviceVars

LEMMA handleJoinStreamType ==
  ASSUME StreamRoomsTypeOK, Known, NEW s \in Socket, joinRefused(s) \/ handleJoinStream(s)
  PROVE  StreamRoomsTypeOK' /\ Known'
<1>1. Request(s, "JOIN_STREAM")
  BY DEF joinRefused, handleJoinStream
<1>2. toServer' \in [Socket -> Seq(ToServer)] /\ connection' = connection
  BY <1>1, RequestType
<1>3. PICK r \in RoomId : r = Head(toServer[s]).room
  BY <1>1, RequestType, ToServerFields
<1>4. CASE joinRefused(s)
  <2>1. toPage' \in [Page -> Seq(ToPage)]
    BY <1>4, EmitType, ToType, ToPageMessages DEF joinRefused
  <2>2. UNCHANGED <<serviceVars, members, streamStats, suspended>>
    BY <1>4 DEF joinRefused, roomVars
  <2>3. suspended' \subseteq suspended
    BY <2>2
  <2> QED BY <1>2, <2>1, <2>2, <2>3, UnchangedType, KnownKept, ServerType
<1>5. CASE handleJoinStream(s) /\ r \in Private
  <2>1. PICK h : h = [op |-> "join", socket |-> s, room |-> r]
    OBVIOUS
  <2>2. /\ h \in Suspended /\ h.room = r /\ suspended' = suspended \cup {h}
        /\ UNCHANGED <<toPage, serviceVars, members, streamStats>> /\ r \in rooms
    BY <1>3, <1>5, <2>1 DEF Suspended, handleJoinStream
  <2>3. suspended' \subseteq Suspended /\ Known'
    BY <2>2 DEF Known, StreamRoomsTypeOK, serviceVars
  <2> QED BY <1>2, <2>2, <2>3, UnchangedType, ServerType DEF StreamRoomsTypeOK
<1>6. CASE handleJoinStream(s) /\ r \notin Private
  <2>1. addViewer(r, s) /\ suspended' \subseteq suspended /\ room[r] # None
    BY <1>3, <1>6 DEF handleJoinStream, StreamRoomsTypeOK
  <2> QED BY <1>2, <2>1, addViewerType, KnownKept, ServerType
<1> QED BY <1>4, <1>5, <1>6

LEMMA passwordComparedType ==
  ASSUME StreamRoomsTypeOK, Known, NEW h \in suspended, passwordCompared(h)
  PROVE  StreamRoomsTypeOK' /\ Known'
<1>1. /\ suspended' \subseteq suspended /\ UNCHANGED <<connection, toServer>>
      /\ h.op = "join" /\ room[h.room] # None
  BY DEF passwordCompared, Known
<1>2. CASE /\ Emit(To({h.socket}, [type |-> "JOIN_ERROR"]))
           /\ UNCHANGED <<serviceVars, members, streamStats>>
  <2>1. toPage' \in [Page -> Seq(ToPage)]
    BY <1>2, EmitType, ToType, ToPageMessages
  <2> QED BY <1>1, <1>2, <2>1, UnchangedType, KnownKept, ServerType DEF StreamRoomsTypeOK
<1>3. CASE addViewer(h.room, h.socket)
  <2>1. /\ ServerTypeOK' /\ toPage' \in [Page -> Seq(ToPage)]
        /\ \A q \in RoomId : room[q] # None => room'[q] # None
    BY <1>1, <1>3, SuspendedFields, addViewerType
  <2> QED BY <1>1, <2>1, KnownKept, ServerType DEF StreamRoomsTypeOK
<1> QED BY <1>2, <1>3 DEF passwordCompared

\* What a handler does that only relays, and what it sends.
LEMMA RelayType ==
  ASSUME StreamRoomsTypeOK, Known, NEW s \in Socket, NEW type, Request(s, type),
         UNCHANGED roomVars, NEW sockets, NEW m \in ToPage, Emit(To(sockets, m)) \/ UNCHANGED toPage
  PROVE  StreamRoomsTypeOK' /\ Known'
<1>1. toPage' \in [Page -> Seq(ToPage)]
  BY EmitType, ToType DEF StreamRoomsTypeOK
<1>2. UNCHANGED <<serviceVars, members, streamStats, suspended>> /\ suspended' \subseteq suspended
  BY DEF roomVars
<1> QED BY <1>1, <1>2, RequestType, UnchangedType, KnownKept, ServerType

LEMMA relaysType ==
  ASSUME StreamRoomsTypeOK, Known, NEW s \in Socket,
         \/ handleSdp(s) \/ handleCaption(s) \/ handleSendStreamMessage(s) \/ handleSendReaction(s)
  PROVE  StreamRoomsTypeOK' /\ Known'
<1>1. CASE handleSdp(s)
  <2>1. PICK type \in {"SDP_OFFER", "SDP_ANSWER"} :
          /\ Request(s, type)
          /\ Emit(To({Head(toServer[s]).target}, [type |-> type, sender |-> s]))
    BY <1>1 DEF handleSdp
  <2>2. PICK m : m = [type |-> type, sender |-> s]
    OBVIOUS
  <2>3. m \in ToPage /\ UNCHANGED roomVars
    BY <1>1, <2>2, ToPageMessages DEF handleSdp
  <2> QED BY <2>1, <2>2, <2>3, RelayType
<1>2. CASE handleCaption(s) \/ handleSendStreamMessage(s) \/ handleSendReaction(s)
  <2>1. Request(s, "POST") /\ UNCHANGED roomVars
    BY <1>2 DEF handleCaption, handleSendStreamMessage, handleSendReaction, Posted
  <2>2. PICK m : m = [type |-> "POST", post |-> Head(toServer[s]).post]
    OBVIOUS
  <2>3. m \in ToPage
    BY <2>1, <2>2, RequestType, ToServerFields, ToPageMessages
  <2>4. \E sockets : Emit(To(sockets, m)) \/ UNCHANGED toPage
    BY <1>2, <2>2 DEF handleCaption, handleSendStreamMessage, handleSendReaction, Relay
  <2> QED BY <2>1, <2>3, <2>4, RelayType
<1> QED BY <1>1, <1>2

LEMMA Mine ==
  ASSUME StreamRoomsTypeOK, NEW s \in Socket
  PROVE  /\ findRoomByBroadcaster(s) # None =>
              /\ findRoomByBroadcaster(s) \in rooms
              /\ findRoomByBroadcaster(s) = broadcasterIndex[s]
              /\ room[findRoomByBroadcaster(s)] # None
         /\ Head(toServer[s]).room \in RoomId /\ IsMine(s) => Head(toServer[s]).room \in rooms
BY StreamAssumption DEF findRoomByBroadcaster, IsMine, StreamRoomsTypeOK

LEMMA handleTrackStateType ==
  ASSUME StreamRoomsTypeOK, Known, NEW s \in Socket, handleTrackState(s)
  PROVE  StreamRoomsTypeOK' /\ Known'
<1>1. Request(s, "TRACK_STATE")
  BY DEF handleTrackState
<1>2. PICK r, track : r = Head(toServer[s]).room /\ track = Head(toServer[s]).track
  OBVIOUS
<1>3. r \in RoomId /\ track \in Track
  BY <1>1, <1>2, RequestType, ToServerFields
<1>4. suspended' \subseteq suspended
  BY DEF handleTrackState
<1>5. CASE IsMine(s)
  <2>1. r \in rooms /\ room[r] # None
    BY <1>2, <1>3, <1>5, Mine DEF StreamRoomsTypeOK
  <2>2. /\ room' = [room EXCEPT ![r].track = track]
        /\ setStreamTrackState(r, track)
    BY <1>2, <1>5 DEF handleTrackState
  <2>3. toPage' \in [Page -> Seq(ToPage)]
    <3>1. PICK m : m = [type |-> "TRACK_STATE", track |-> track]
      OBVIOUS
    <3>2. m \in ToPage /\ Emit(To(members[r], m))
      BY <1>2, <1>3, <1>5, <3>1, ToPageMessages DEF handleTrackState
    <3> QED BY <3>2, EmitType, ToType
  <2>4. {} \in SUBSET Socket
    OBVIOUS
  <2>5. room' \in [RoomId -> Room \cup {None}] /\ \A q \in RoomId : room[q] # None => room'[q] # None
    BY <1>3, <2>1, <2>2, <2>4, RoomChanges
  <2>6. streamStats' \in [RoomId -> StreamRoomStat \cup {None}]
    BY <1>3, <2>2, <2>4, StatsType
  <2>7. ServerTypeOK'
    BY <2>5, <2>6 DEF handleTrackState, StreamRoomsTypeOK, ServerTypeOK
  <2> QED BY <1>1, <1>4, <2>3, <2>5, <2>7, RequestType, KnownKept, ServerType
<1>6. CASE ~IsMine(s)
  <2>1. UNCHANGED <<serviceVars, members, streamStats, toPage>>
    BY <1>6 DEF handleTrackState, serviceVars
  <2> QED BY <1>1, <1>4, <2>1, RequestType, UnchangedType, KnownKept, ServerType
          DEF StreamRoomsTypeOK
<1> QED BY <1>5, <1>6

\* A viewer leaves: it is taken out of the index and of sets that had it.
LEMMA ViewerGoes ==
  ASSUME StreamRoomsTypeOK, Known, NEW v \in Socket, removeViewer(v),
         members' \in [RoomId -> SUBSET Socket],
         streamStats' \in [RoomId -> StreamRoomStat \cup {None}],
         toPage' \in [Page -> Seq(ToPage)], toServer' \in [Socket -> Seq(ToServer)],
         UNCHANGED <<connection, suspended>>
  PROVE  StreamRoomsTypeOK' /\ Known'
<1>1. ServerTypeOK' /\ \A q \in RoomId : room[q] # None => room'[q] # None
  BY removeViewerType DEF ServerTypeOK
<1> QED BY <1>1, KnownKept, ServerType

LEMMA handleKickViewerType ==
  ASSUME StreamRoomsTypeOK, Known, NEW s \in Socket, handleKickViewer(s)
  PROVE  StreamRoomsTypeOK' /\ Known'
<1>1. Request(s, "KICK_VIEWER") /\ UNCHANGED suspended
  BY DEF handleKickViewer
<1>2. PICK r, v : r = Head(toServer[s]).room /\ v = Head(toServer[s]).viewer
  OBVIOUS
<1>3. r \in RoomId /\ v \in Socket
  BY <1>1, <1>2, RequestType, ToServerFields
<1>4. CASE IsMine(s) /\ v \in room[r].viewers
  <2>1. room[r] # None /\ kickViewer(r, v)
    BY <1>2, <1>3, <1>4, Mine DEF handleKickViewer, StreamRoomsTypeOK
  <2>2. PICK viewers : viewers = room[r].viewers \ {v}
    OBVIOUS
  <2>3. viewers \in SUBSET Socket
    BY <1>3, <2>1, <2>2, RoomFields
  <2>4. streamStats' \in [RoomId -> StreamRoomStat \cup {None}]
    BY <1>3, <2>1, <2>2, <2>3, InitialTracks, StatsType DEF kickViewer
  <2>5. toPage' \in [Page -> Seq(ToPage)]
    <3>1. PICK a, b : /\ a = To({v}, [type |-> "STREAM_KICKED"])
                      /\ b = To(members[r] \ {v}, Count(viewers))
      OBVIOUS
    <3>2. a \in [Socket -> Seq(ToPage)] /\ b \in [Socket -> Seq(ToPage)]
      BY <2>3, <3>1, ToType, ToPageMessages, CountMessage
    <3>3. Emit(Then(a, b))
      BY <2>1, <2>2, <3>1 DEF kickViewer
    <3> QED BY <3>2, <3>3, ThenType, EmitType
  <2>6. members' \in [RoomId -> SUBSET Socket] /\ removeViewer(v)
    BY <1>3, <2>1 DEF kickViewer, StreamRoomsTypeOK
  <2> QED BY <1>1, <1>3, <2>4, <2>5, <2>6, RequestType, ViewerGoes
<1>5. CASE ~(IsMine(s) /\ v \in room[r].viewers)
  <2>1. UNCHANGED <<toPage, serviceVars, members, streamStats>>
    BY <1>2, <1>5 DEF handleKickViewer
  <2> QED BY <1>1, <2>1, RequestType, UnchangedType, KnownKept, ServerType DEF StreamRoomsTypeOK
<1> QED BY <1>4, <1>5

\* A stream is closed, or nothing is.
LEMMA ClosingType ==
  ASSUME StreamRoomsTypeOK, Known, NEW r \in RoomId,
         closeRoom(r) \/ UNCHANGED <<toPage, serviceVars, members, streamStats>>,
         UNCHANGED <<connection, suspended>>, toServer' \in [Socket -> Seq(ToServer)]
  PROVE  StreamRoomsTypeOK' /\ Known'
<1>1. CASE closeRoom(r)
  <2>1. ServerTypeOK' /\ toPage' \in [Page -> Seq(ToPage)] /\ room' = room
    BY <1>1, closeRoomType
  <2> QED BY <2>1, KnownKept, ServerType
<1>2. CASE UNCHANGED <<toPage, serviceVars, members, streamStats>>
  BY <1>2, UnchangedType, KnownKept, ServerType DEF StreamRoomsTypeOK
<1> QED BY <1>1, <1>2

LEMMA handleEndStreamType ==
  ASSUME StreamRoomsTypeOK, Known, NEW s \in Socket, handleEndStream(s)
  PROVE  StreamRoomsTypeOK' /\ Known'
<1>1. /\ connection' = connection /\ UNCHANGED suspended
      /\ toServer' \in [Socket -> Seq(ToServer)] /\ Head(toServer[s]).room \in RoomId
  BY RequestType, ToServerFields DEF handleEndStream
<1>2. \E r \in RoomId : closeRoom(r) \/ UNCHANGED <<toPage, serviceVars, members, streamStats>>
  BY <1>1, Mine DEF handleEndStream, IsMine
<1> QED BY <1>1, <1>2, ClosingType

LEMMA handleDisconnectType ==
  ASSUME StreamRoomsTypeOK, Known, NEW s \in Socket, handleDisconnect(s)
  PROVE  StreamRoomsTypeOK' /\ Known'
<1>1. /\ connection' = connection /\ UNCHANGED suspended
      /\ toServer' \in [Socket -> Seq(ToServer)]
  BY RequestType DEF handleDisconnect
<1>2. PICK mine : mine = findRoomByBroadcaster(s)
  OBVIOUS
<1>3. CASE mine # None
  <2>1. mine \in RoomId /\ closeRoom(mine)
    BY <1>2, <1>3, Mine DEF handleDisconnect, StreamRoomsTypeOK
  <2> QED BY <1>1, <2>1, ClosingType
<1>4. CASE mine = None
  <2>1. PICK left : left = [q \in RoomId |-> members[q] \ {s}]
    OBVIOUS
  <2>2. PICK r : r = viewerIndex[s]
    OBVIOUS
  <2>3. removeViewer(s) /\ members' = left
    BY <1>2, <1>4, <2>1 DEF handleDisconnect
  <2>4. members' \in [RoomId -> SUBSET Socket]
    BY <2>1, <2>3 DEF StreamRoomsTypeOK
  <2>5. CASE r \in rooms
    <3>1. PICK viewers : viewers = room[r].viewers \ {s}
      OBVIOUS
    <3>2. r \in RoomId /\ room[r] # None
      BY <2>5 DEF StreamRoomsTypeOK
    <3>3. viewers \in SUBSET Socket /\ room[r].broadcaster \in Socket
      BY <3>1, <3>2, RoomFields
    <3>4. setStreamViewerCount(r, viewers)
      BY <1>2, <1>4, <2>1, <2>2, <2>5, <3>1 DEF handleDisconnect
    <3>5. PICK a, b : /\ a = To({room[r].broadcaster}, [type |-> "VIEWER_LEFT", viewer |-> s])
                      /\ b = To(left[r], Count(viewers))
      OBVIOUS
    <3>6. a \in [Socket -> Seq(ToPage)] /\ b \in [Socket -> Seq(ToPage)]
      BY <3>3, <3>5, ToType, ToPageMessages, CountMessage
    <3>7. Emit(Then(a, b))
      BY <1>2, <1>4, <2>1, <2>2, <2>5, <3>1, <3>5 DEF handleDisconnect
    <3>8. toPage' \in [Page -> Seq(ToPage)]
      BY <3>6, <3>7, ThenType, EmitType
    <3>9. streamStats' \in [RoomId -> StreamRoomStat \cup {None}]
      BY <3>2, <3>3, <3>4, InitialTracks, StatsType
    <3> QED BY <1>1, <2>3, <2>4, <3>8, <3>9, ViewerGoes
  <2>6. CASE r \notin rooms
    <3>1. UNCHANGED <<toPage, streamStats>>
      BY <1>2, <1>4, <2>2, <2>6 DEF handleDisconnect
    <3> QED BY <1>1, <2>3, <2>4, <3>1, ViewerGoes DEF StreamRoomsTypeOK
  <2> QED BY <2>5, <2>6
<1> QED BY <1>3, <1>4

LEMMA HandlerType ==
  ASSUME StreamRoomsTypeOK, Known, NEW s \in Socket, Handler(s)
  PROVE  StreamRoomsTypeOK' /\ Known'
BY handleCreateStreamType, handleJoinStreamType, relaysType, handleTrackStateType,
   handleKickViewerType, handleEndStreamType, handleDisconnectType DEF Handler

LEMMA ResumedType ==
  ASSUME StreamRoomsTypeOK, Known, NEW h \in suspended, Resumed(h)
  PROVE  StreamRoomsTypeOK' /\ Known'
BY passwordHashedType, passwordComparedType DEF Resumed

LEMMA expireType ==
  ASSUME StreamRoomsTypeOK, Known, NEW r \in RoomId, expire(r)
  PROVE  StreamRoomsTypeOK' /\ Known'
BY ClosingType DEF expire, StreamRoomsTypeOK

-----------------------------------------------------------------------------
(* Type correctness of the pages.                                            *)
LEMMA SessionFields ==
  ASSUME StreamSessionTypeOK, NEW p \in Page
  PROVE  /\ session[p] \in Session
         /\ session[p].role \in {"none", "broadcaster", "viewer"}
         /\ session[p].room \in RoomId \cup {None}
         /\ session[p].role = "none" <=> session[p].room = None
         /\ session[p].creating \in BOOLEAN
         /\ session[p].joining \in BOOLEAN
         /\ session[p].asking \in BOOLEAN
         /\ session[p].mic \in BOOLEAN
         /\ session[p].shown \in Track
         /\ session[p].shown.media \in BOOLEAN
         /\ session[p].shown.source \in {"camera", "screen"}
         /\ session[p].screenMic \in BOOLEAN
         /\ session[p].pickers \subseteq BOOLEAN
         /\ session[p].viewers \subseteq Socket
BY DEF StreamSessionTypeOK, Session, Track

LEMMA BecomeType ==
  ASSUME StreamSessionTypeOK, NEW p \in Page, NEW x \in Session, Become(p, x),
         x.role = "none" <=> x.room = None
  PROVE  /\ session' \in [Page -> Session]
         /\ \A q \in Page : session'[q].role = "none" <=> session'[q].room = None
BY DEF StreamSessionTypeOK, Become

LEMMA CurrentSocket ==
  ASSUME StreamRoomsTypeOK, NEW p \in Page
  PROVE  SocketOf(p) \in Socket /\ toServer[SocketOf(p)] \in Seq(ToServer)
BY DEF StreamRoomsTypeOK

LEMMA SendType ==
  ASSUME StreamRoomsTypeOK, NEW p \in Page, NEW m \in ToServer, Send(p, m)
  PROVE  toServer' \in [Socket -> Seq(ToServer)]
BY CurrentSocket, ShortSequences DEF StreamRoomsTypeOK, Send

LEMMA ReceiveType ==
  ASSUME StreamRoomsTypeOK, NEW p \in Page, NEW type, Receive(p, type)
  PROVE  /\ Head(toPage[p]) \in ToPage
         /\ Head(toPage[p]).type = type
         /\ toPage' \in [Page -> Seq(ToPage)]
BY HeadTail DEF StreamRoomsTypeOK, Receive

\* A step of a page changes queues, its session and its connection.
LEMMA PageType ==
  ASSUME StreamRoomsTypeOK, Known, UNCHANGED roomVars,
         connection' \in [Page -> Nat],
         \A q \in Page : SocketOf(q)' \in Socket,
         toServer' \in [Socket -> Seq(ToServer)],
         toPage' \in [Page -> Seq(ToPage)]
  PROVE  StreamRoomsTypeOK' /\ Known'
BY DEF StreamRoomsTypeOK, Known, roomVars, serviceVars

LEMMA SameSockets ==
  ASSUME StreamRoomsTypeOK, connection' = connection
  PROVE  connection' \in [Page -> Nat] /\ \A q \in Page : SocketOf(q)' \in Socket
BY DEF StreamRoomsTypeOK, SocketOf

LEMMA ReconnectType ==
  ASSUME StreamRoomsTypeOK, NEW p \in Page, NEW lost \in SUBSET Nat, Reconnect(p, lost)
  PROVE  /\ connection' \in [Page -> Nat]
         /\ \A q \in Page : SocketOf(q)' \in Socket
         /\ toServer' \in [Socket -> Seq(ToServer)]
         /\ toPage' \in [Page -> Seq(ToPage)]
<1>1. \A q \in Page : connection[q] \in 1..MaxConnections[q] /\ connection[q] \in Nat
  BY SocketFields DEF StreamRoomsTypeOK, SocketOf
<1>2. \A q \in Page : connection'[q] \in 1..MaxConnections[q] /\ connection'[q] \in Nat
  <2> SUFFICES ASSUME NEW q \in Page
               PROVE  connection'[q] \in 1..MaxConnections[q] /\ connection'[q] \in Nat
    OBVIOUS
  <2>1. connection'[q] = IF q = p THEN connection[q] + 1 ELSE connection[q]
    BY DEF StreamRoomsTypeOK, Reconnect
  <2>2. connection[p] < MaxConnections[p] /\ MaxConnections[p] \in Nat
    BY StreamAssumption DEF Reconnect
  <2> QED BY <1>1, <2>1, <2>2
<1>3. connection' \in [Page -> Nat] /\ \A q \in Page : SocketOf(q)' \in Socket
  BY <1>2, SocketMade DEF StreamRoomsTypeOK, Reconnect, SocketOf
<1>4. toServer' \in [Socket -> Seq(ToServer)]
  <2> DEFINE s == SocketOf(p)
  <2>1. PICK n \in lost :
          toServer' = [toServer EXCEPT
                         ![s] = SubSeq(@, 1, Len(@) - n) \o <<[type |-> "disconnect"]>>]
    BY DEF Reconnect
  <2>2. SubSeq(toServer[s], 1, Len(toServer[s]) - n) \in Seq(ToServer)
    BY CurrentSocket
  <2>3. SubSeq(toServer[s], 1, Len(toServer[s]) - n) \o <<[type |-> "disconnect"]>> \in Seq(ToServer)
    BY <2>2, ShortSequences, ToServerMessages
  <2> QED
    BY <2>1, <2>3 DEF StreamRoomsTypeOK
<1> QED
  BY <1>3, <1>4, ShortSequences DEF StreamRoomsTypeOK, Reconnect

Ask == {"CREATE_STREAM", "JOIN_STREAM"}

Admitted == {"STREAM_CREATED", "STREAM_JOINED"}

Answers == Admitted \cup {"JOIN_ERROR"}

Ends == {"STREAM_ENDED", "STREAM_KICKED"}

\* The same stream, and the same questions open; the same list of viewers, too.
Alike(x, y) ==
  /\ x.role = y.role /\ x.room = y.room
  /\ x.creating = y.creating /\ x.joining = y.joining /\ x.asking = y.asking
  /\ x.posts = y.posts

Same(x, y) == Alike(x, y) /\ x.viewers = y.viewers

\* No camera and no captions but where they were, or the page is live.
Captures(x, y) ==
  /\ x.active = "camera" => y.active = "camera" \/ y.role = "broadcaster"
  /\ y.captions = "off" => x.captions = "off"

\* Most steps of a page: something of its session changes, and it may send something.
QuietStep(p) ==
  /\ \E x \in Session : Become(p, x) /\ Same(x, session[p]) /\ Captures(x, session[p])
  /\ \/ UNCHANGED toServer
     \/ \E m \in ToServer : m.type \notin Ask \cup {"disconnect"} /\ Send(p, m)
  /\ UNCHANGED <<connection, toPage, roomVars, starts, drops, severed>>
  /\ acts' \in Nat

LEMMA SessionBecomes ==
  ASSUME StreamSessionTypeOK, NEW p \in Page, NEW x, Become(p, x)
  PROVE  session'[p] = x /\ \A q \in Page \ {p} : session'[q] = session[q]
BY DEF StreamSessionTypeOK, Become

LEMMA SessionStays ==
  ASSUME StreamSessionTypeOK, NEW p \in Page, UNCHANGED session
  PROVE  \E x \in Session : Become(p, x) /\ Same(x, session[p]) /\ Captures(x, session[p])
<1>1. Become(p, session[p]) /\ session[p] \in Session
  BY DEF StreamSessionTypeOK, Become
<1> QED BY <1>1 DEF Same, Alike, Captures

LEMMA ActTypes ==
  ASSUME StreamSessionTypeOK, NEW p \in Page, NEW role, Act(p, role)
  PROVE  /\ acts' \in Nat /\ session[p].role \in role
         /\ UNCHANGED <<connection, toPage, roomVars, starts, drops, severed>>
BY DEF Act, StreamSessionTypeOK

LEMMA AnnounceSends ==
  ASSUME StreamSessionTypeOK, NEW p \in Page, session[p].role # "none",
         NEW mic \in BOOLEAN, NEW source \in {"camera", "screen"}, Announce(p, mic, source)
  PROVE  \E m \in ToServer : m.type \notin Ask \cup {"disconnect"} /\ Send(p, m)
<1>1. session[p].room \in RoomId
  BY SessionFields
<1>2. PICK m : m = [type |-> "TRACK_STATE", room |-> session[p].room,
                    track |-> [media |-> mic, source |-> source]]
  OBVIOUS
<1>3. m \in ToServer /\ m.type = "TRACK_STATE"
  BY <1>1, <1>2, ToServerMessages DEF Track
<1> QED BY <1>2, <1>3 DEF Announce, Ask

LEMMA toggleMicQuiet ==
  ASSUME StreamSessionTypeOK, NEW p \in Page, toggleMic(p)
  PROVE  QuietStep(p)
<1>1. PICK mic \in BOOLEAN : mic = ~session[p].mic
  OBVIOUS
<1>2. PICK x : x = [session[p] EXCEPT !.mic = mic, !.shown.media = mic]
  OBVIOUS
<1>3. x \in Session /\ Same(x, session[p]) /\ Captures(x, session[p])
  <2>1. PICK y : y = session[p]
    OBVIOUS
  <2>2. y \in Session /\ y.shown \in Track
    BY <2>1, SessionFields
  <2>3. x = [y EXCEPT !.mic = mic, !.shown.media = mic]
    BY <1>2, <2>1
  <2>4. x \in Session
    BY <2>2, <2>3 DEF Session, Track
  <2>5. Same(x, y) /\ Captures(x, y)
    BY <2>2, <2>3 DEF Session, Same, Alike, Captures
  <2> QED BY <2>1, <2>4, <2>5
<1>4. Become(p, x) /\ Announce(p, mic, session[p].shown.source) /\ Act(p, {"broadcaster"})
  BY <1>1, <1>2 DEF toggleMic
<1>5. session[p].role # "none" /\ session[p].shown.source \in {"camera", "screen"}
  BY <1>4, ActTypes, SessionFields
<1> QED
  BY <1>3, <1>4, <1>5, AnnounceSends, ActTypes DEF QuietStep

LEMMA openPickerQuiet ==
  ASSUME StreamSessionTypeOK, NEW p \in Page, openPicker(p)
  PROVE  QuietStep(p)
<1>1. PICK x : x = [session[p] EXCEPT !.pickers = @ \cup {session[p].shown.media}]
  OBVIOUS
<1>2. x \in Session /\ Same(x, session[p]) /\ Captures(x, session[p])
  BY <1>1, SessionFields DEF Session, Same, Alike, Captures
<1> QED
  BY <1>1, <1>2, ActTypes DEF openPicker, QuietStep

LEMMA screenPickedQuiet ==
  ASSUME StreamSessionTypeOK, NEW p \in Page, screenPicked(p)
  PROVE  QuietStep(p)
<1>1. PICK mic \in session[p].pickers :
        LET x == [session[p] EXCEPT !.pickers = @ \ {mic}] IN
          \/ /\ Become(p, [x EXCEPT !.active = "screen",
                                    !.shown.source = "screen", !.screenMic = mic])
             /\ IF x.role = "none" THEN UNCHANGED toServer ELSE Announce(p, mic, "screen")
          \/ Become(p, x) /\ UNCHANGED toServer
  BY DEF screenPicked
<1>2. PICK x : x = [session[p] EXCEPT !.pickers = @ \ {mic}]
  OBVIOUS
<1>3. /\ x \in Session /\ Same(x, session[p]) /\ Captures(x, session[p]) /\ mic \in BOOLEAN
      /\ x.shown \in Track
  BY <1>2, SessionFields DEF Session, Same, Alike, Captures
<1>4. PICK y : y = [x EXCEPT !.active = "screen", !.shown.source = "screen", !.screenMic = mic]
  OBVIOUS
<1>5. y \in Session
  BY <1>3, <1>4 DEF Session, Track
<1>6. Same(y, session[p]) /\ Captures(y, session[p])
  BY <1>3, <1>4 DEF Session, Same, Alike, Captures
<1>7. \/ Become(p, y) /\ IF x.role = "none" THEN UNCHANGED toServer ELSE Announce(p, mic, "screen")
      \/ Become(p, x) /\ UNCHANGED toServer
  BY <1>1, <1>2, <1>4
<1>8. /\ UNCHANGED <<connection, toPage, roomVars, starts, drops, severed>>
      /\ acts' \in Nat
  BY DEF screenPicked, StreamSessionTypeOK
<1>9. CASE Become(p, x) /\ UNCHANGED toServer
  BY <1>3, <1>8, <1>9 DEF QuietStep
<1>10. CASE Become(p, y) /\ UNCHANGED toServer
  BY <1>5, <1>6, <1>8, <1>10 DEF QuietStep
<1>11. CASE Become(p, y) /\ session[p].role # "none" /\ Announce(p, mic, "screen")
  BY <1>3, <1>5, <1>6, <1>8, <1>11, AnnounceSends DEF QuietStep
<1>12. x.role = session[p].role
  BY <1>3 DEF Same, Alike
<1> QED BY <1>7, <1>9, <1>10, <1>11, <1>12

LEMMA revertQuiet ==
  ASSUME StreamSessionTypeOK, NEW p \in Page, stopSharing(p) \/ screenEnded(p)
  PROVE  QuietStep(p)
<1>1. PICK mic \in BOOLEAN : revertToCameraVideo(p, mic)
  BY SessionFields DEF stopSharing, screenEnded
<1>2. Act(p, {"broadcaster"})
  BY DEF stopSharing, screenEnded
<1>3. session[p].role = "broadcaster"
  BY <1>2, ActTypes
<1>4. PICK x : x = [session[p] EXCEPT !.active = "camera", !.shown.source = "camera"]
  OBVIOUS
<1>5. x \in Session
  <2>1. PICK y : y = session[p]
    OBVIOUS
  <2>2. y \in Session /\ y.shown \in Track /\ x = [y EXCEPT !.active = "camera", !.shown.source = "camera"]
    BY <1>4, <2>1, SessionFields
  <2> QED BY <2>2 DEF Session, Track
<1>6. Same(x, session[p]) /\ Captures(x, session[p])
  BY <1>3, <1>4, SessionFields DEF Session, Same, Alike, Captures
<1>7. CASE session[p].hasCamera
  <2>1. Become(p, x) /\ Announce(p, mic, "camera")
    BY <1>1, <1>4, <1>7 DEF revertToCameraVideo
  <2> QED BY <1>2, <1>3, <1>5, <1>6, <2>1, ActTypes, AnnounceSends DEF QuietStep
<1>8. CASE ~session[p].hasCamera
  <2>1. UNCHANGED <<session, toServer>>
    BY <1>1, <1>8 DEF revertToCameraVideo
  <2> QED BY <1>2, <2>1, ActTypes, SessionStays DEF QuietStep
<1> QED BY <1>7, <1>8

LEMMA sendPostQuiet ==
  ASSUME StreamSessionTypeOK, NEW p \in Page, sendPost(p) \/ captionHeard(p)
  PROVE  QuietStep(p)
<1>1. PICK kind \in {"CAPTION", "MESSAGE", "REACTION"} :
        Send(p, [type |-> "POST", post |-> [kind |-> kind, room |-> session[p].room]])
  BY DEF sendPost, captionHeard
<1>2. \E role : Act(p, role) /\ role \subseteq {"broadcaster", "viewer"}
  BY DEF sendPost, captionHeard
<1>3. session[p].room \in RoomId
  BY <1>2, ActTypes, SessionFields
<1>4. PICK m : m = [type |-> "POST", post |-> [kind |-> kind, room |-> session[p].room]]
  OBVIOUS
<1>5. m \in ToServer /\ m.type = "POST" /\ Send(p, m)
  BY <1>1, <1>3, <1>4, ToServerMessages DEF Post
<1>6. UNCHANGED session
  BY DEF sendPost, captionHeard
<1> QED BY <1>2, <1>5, <1>6, ActTypes, SessionStays DEF QuietStep, Ask

LEMMA recognitionQuiet ==
  ASSUME StreamSessionTypeOK, NEW p \in Page, recognitionEnds(p) \/ restartTimer(p)
  PROVE  QuietStep(p)
<1>1. PICK c \in {"failed", "waiting", "listening"} : Become(p, [session[p] EXCEPT !.captions = c])
  BY DEF recognitionEnds, restartTimer
<1>2. PICK x : x = [session[p] EXCEPT !.captions = c]
  OBVIOUS
<1>3. session[p].captions # "off"
  BY DEF recognitionEnds, restartTimer
<1>4. x \in Session /\ Same(x, session[p]) /\ Captures(x, session[p])
  BY <1>2, <1>3, SessionFields DEF Session, Same, Alike, Captures
<1>5. /\ UNCHANGED <<connection, toPage, roomVars, starts, drops, severed, toServer>>
      /\ acts' \in Nat
  BY ActTypes DEF recognitionEnds, restartTimer, StreamSessionTypeOK, socketVars
<1> QED BY <1>1, <1>2, <1>4, <1>5 DEF QuietStep

LEMMA kickButtonQuiet ==
  ASSUME StreamSessionTypeOK, NEW p \in Page, kickButton(p)
  PROVE  QuietStep(p)
<1>1. PICK v \in session[p].viewers :
        Send(p, [type |-> "KICK_VIEWER", room |-> session[p].room, viewer |-> v])
  BY DEF kickButton
<1>2. Act(p, {"broadcaster"}) /\ UNCHANGED session
  BY DEF kickButton
<1>3. session[p].room \in RoomId /\ v \in Socket
  BY <1>2, ActTypes, SessionFields
<1>4. PICK m : m = [type |-> "KICK_VIEWER", room |-> session[p].room, viewer |-> v]
  OBVIOUS
<1>5. m \in ToServer /\ m.type = "KICK_VIEWER" /\ Send(p, m)
  BY <1>1, <1>3, <1>4, ToServerMessages
<1> QED BY <1>2, <1>5, ActTypes, SessionStays DEF QuietStep, Ask

LEMMA endStreamQuiet ==
  ASSUME StreamSessionTypeOK, NEW p \in Page, endStream(p)
  PROVE  QuietStep(p)
<1>1. PICK m : m = [type |-> "END_STREAM", room |-> session[p].room]
  OBVIOUS
<1>2. m \in ToServer /\ m.type = "END_STREAM" /\ Send(p, m)
  BY <1>1, SessionFields, ToServerMessages DEF endStream
<1>3. UNCHANGED session /\ acts' \in Nat
  BY DEF endStream, sessionVars, StreamSessionTypeOK
<1> QED BY <1>2, <1>3, SessionStays DEF QuietStep, Ask, endStream, sessionVars

LEMMA PeerFields ==
  ASSUME NEW x \in Session, NEW s \in Socket, NEW signalling \in Signalling
  PROVE  /\ withPeer(x, s, signalling) \in Session
         /\ Same(withPeer(x, s, signalling), x) /\ Captures(withPeer(x, s, signalling), x)
BY DEF withPeer, Session, Same, Alike, Captures

LEMMA peersQuiet ==
  ASSUME StreamSessionTypeOK, NEW p \in Page, describe(p) \/ peerLost(p)
  PROVE  QuietStep(p)
<1>1. PICK s \in Socket, signalling \in {"offered", "stable", "none"} :
        /\ Become(p, withPeer(session[p], s, signalling))
        /\ \/ Send(p, [type |-> "SDP_OFFER", target |-> s])
           \/ Send(p, [type |-> "SDP_ANSWER", target |-> s])
           \/ UNCHANGED toServer
  BY DEF describe, peerLost, socketVars
<1>2. signalling \in Signalling /\ session[p] \in Session
  BY SessionFields DEF Signalling
<1>3. PICK a, b : a = [type |-> "SDP_OFFER", target |-> s] /\ b = [type |-> "SDP_ANSWER", target |-> s]
  OBVIOUS
<1>4. a \in ToServer /\ b \in ToServer /\ a.type = "SDP_OFFER" /\ b.type = "SDP_ANSWER"
  BY <1>3, ToServerMessages
<1>5. \/ UNCHANGED toServer
      \/ \E m \in ToServer : m.type \notin Ask \cup {"disconnect"} /\ Send(p, m)
  BY <1>1, <1>3, <1>4 DEF Ask
<1>6. /\ UNCHANGED <<connection, toPage, roomVars, starts, drops, severed>>
      /\ acts' \in Nat
  BY DEF describe, peerLost, socketVars, StreamSessionTypeOK
<1>7. \E x \in Session : Become(p, x) /\ Same(x, session[p]) /\ Captures(x, session[p])
  BY <1>1, <1>2, PeerFields
<1> QED BY <1>5, <1>6, <1>7 DEF QuietStep

\* What the counters of the model and the pages' histories are.
CountsTypeOK == starts \in [Page -> Nat] /\ acts \in Nat /\ drops \in Nat /\ severed \subseteq Page

LEMMA SendingType ==
  ASSUME StreamRoomsTypeOK, StreamSessionTypeOK, Known, NEW p \in Page,
         NEW x \in Session, Become(p, x), x.role = "none" <=> x.room = None,
         UNCHANGED toServer \/ \E m \in ToServer : Send(p, m),
         UNCHANGED <<connection, toPage, roomVars>>, CountsTypeOK'
  PROVE  StreamRoomsTypeOK' /\ Known' /\ StreamSessionTypeOK'
<1>1. toServer' \in [Socket -> Seq(ToServer)]
  BY SendType DEF StreamRoomsTypeOK
<1>2. StreamRoomsTypeOK' /\ Known'
  BY <1>1, PageType, SameSockets DEF StreamRoomsTypeOK
<1> QED BY <1>2, BecomeType DEF StreamSessionTypeOK, CountsTypeOK

LEMMA QuietType ==
  ASSUME StreamRoomsTypeOK, StreamSessionTypeOK, Known, NEW p \in Page, QuietStep(p)
  PROVE  StreamRoomsTypeOK' /\ Known' /\ StreamSessionTypeOK'
<1>1. PICK x \in Session : Become(p, x) /\ Same(x, session[p])
  BY DEF QuietStep
<1>2. x.role = "none" <=> x.room = None
  BY <1>1, SessionFields DEF Same, Alike
<1>3. CountsTypeOK'
  BY DEF QuietStep, CountsTypeOK, StreamSessionTypeOK
<1>4. UNCHANGED toServer \/ \E m \in ToServer : Send(p, m)
  BY DEF QuietStep
<1>5. UNCHANGED <<connection, toPage, roomVars>>
  BY DEF QuietStep
<1> QED BY <1>1, <1>2, <1>3, <1>4, <1>5, SendingType

LEMMA startType ==
  ASSUME StreamRoomsTypeOK, StreamSessionTypeOK, Known, NEW p \in Page,
         createStream(p) \/ mediaAcquired(p) \/ mediaRefused(p) \/ joinStream(p)
  PROVE  StreamRoomsTypeOK' /\ Known' /\ StreamSessionTypeOK'
<1>1. PICK x \in Session : Become(p, x) /\ x.role = session[p].role /\ x.room = session[p].room
  <2>1. PICK a, b, c, d :
          /\ a = [session[p] EXCEPT !.creating = TRUE, !.asking = TRUE]
          /\ b = [session[p] EXCEPT !.asking = FALSE, !.active = "camera", !.hasCamera = TRUE,
                                    !.mic = TRUE]
          /\ c = [session[p] EXCEPT !.asking = FALSE, !.creating = FALSE]
          /\ d = [session[p] EXCEPT !.joining = TRUE]
    OBVIOUS
  <2>2. a \in Session /\ a.role = session[p].role /\ a.room = session[p].room
    BY ZenonT(60), <2>1, SessionFields DEF Session
  <2>3. b \in Session /\ b.role = session[p].role /\ b.room = session[p].room
    BY ZenonT(60), <2>1, SessionFields DEF Session
  <2>4. c \in Session /\ c.role = session[p].role /\ c.room = session[p].room
    BY ZenonT(60), <2>1, SessionFields DEF Session
  <2>5. d \in Session /\ d.role = session[p].role /\ d.room = session[p].room
    BY ZenonT(60), <2>1, SessionFields DEF Session
  <2>6. Become(p, a) \/ Become(p, b) \/ Become(p, c) \/ Become(p, d)
    BY <2>1 DEF createStream, mediaAcquired, mediaRefused, joinStream
  <2> QED BY <2>2, <2>3, <2>4, <2>5, <2>6
<1>2. CountsTypeOK'
  BY DEF createStream, mediaAcquired, mediaRefused, joinStream, mayStart, CountsTypeOK,
         StreamSessionTypeOK
<1>3. UNCHANGED toServer \/ \E m \in ToServer : Send(p, m)
  <2>1. CASE createStream(p) \/ mediaRefused(p)
    BY <2>1 DEF createStream, mediaRefused, socketVars
  <2>2. CASE mediaAcquired(p)
    BY <2>2, ToServerMessages DEF mediaAcquired
  <2>3. CASE joinStream(p)
    BY <2>3, ToServerMessages DEF joinStream
  <2> QED BY <2>1, <2>2, <2>3
<1>4. UNCHANGED <<connection, toPage, roomVars>>
  BY DEF createStream, mediaAcquired, mediaRefused, joinStream, socketVars
<1>5. x.role = "none" <=> x.room = None
  BY <1>1, SessionFields
<1> QED BY <1>1, <1>2, <1>3, <1>4, <1>5, SendingType

LEMMA FreshFields ==
  /\ Fresh \in Session /\ Fresh.role = "none" /\ Fresh.room = None
  /\ ~Fresh.creating /\ ~Fresh.joining /\ ~Fresh.asking
  /\ Fresh.active = "none" /\ Fresh.captions = "off" /\ Fresh.posts = {} /\ Fresh.viewers = {}
BY DEF Fresh, Session, NoPeers, Signalling, InitialTrack, Track

LEMMA ResetFields ==
  ASSUME NEW x \in Session
  PROVE  /\ resetSessionState(x) \in Session
         /\ resetSessionState(x).role = "none" /\ resetSessionState(x).room = None
         /\ resetSessionState(x).creating = x.creating /\ ~resetSessionState(x).joining
         /\ resetSessionState(x).asking = x.asking
         /\ resetSessionState(x).active = "none" /\ resetSessionState(x).captions = "off"
         /\ resetSessionState(x).posts = {} /\ resetSessionState(x).viewers = {}
<1>1. PICK y : y = Fresh
  OBVIOUS
<1>2. /\ y \in Session /\ y.role = "none" /\ y.room = None /\ ~y.joining
      /\ y.active = "none" /\ y.captions = "off" /\ y.posts = {} /\ y.viewers = {}
  BY <1>1, FreshFields
<1>3. resetSessionState(x) = [y EXCEPT !.creating = x.creating, !.asking = x.asking,
                                       !.pickers = x.pickers]
  BY <1>1 DEF resetSessionState
<1> QED BY ZenonT(60), <1>2, <1>3 DEF Session

\* The steps that replace the page's socket.
LEMMA ReconnectingType ==
  ASSUME StreamRoomsTypeOK, StreamSessionTypeOK, Known, NEW p \in Page,
         leaveStream(p) \/ pageLeft(p) \/ connectionLost(p)
  PROVE  StreamRoomsTypeOK' /\ Known' /\ StreamSessionTypeOK'
<1>1. PICK lost \in SUBSET Nat : Reconnect(p, lost)
  <2>1. {0} \in SUBSET Nat /\ 0..Len(toServer[SocketOf(p)]) \in SUBSET Nat
    OBVIOUS
  <2> QED BY <2>1 DEF leaveStream, pageLeft, connectionLost
<1>2. StreamRoomsTypeOK' /\ Known'
  BY <1>1, ReconnectType, PageType DEF leaveStream, pageLeft, connectionLost
<1>3. CountsTypeOK'
  BY DEF leaveStream, pageLeft, connectionLost, CountsTypeOK, StreamSessionTypeOK
<1>4. CASE UNCHANGED session
  BY <1>2, <1>3, <1>4 DEF StreamSessionTypeOK, CountsTypeOK
<1>5. CASE Become(p, Fresh) \/ Become(p, resetSessionState(session[p]))
  <2>1. PICK x \in Session : Become(p, x) /\ x.role = "none" /\ x.room = None
    BY <1>5, SessionFields, FreshFields, ResetFields
  <2> QED BY <1>2, <1>3, <2>1, BecomeType DEF StreamSessionTypeOK, CountsTypeOK
<1> QED BY <1>4, <1>5 DEF leaveStream, pageLeft, connectionLost

\* A page reads a message.
LEMMA ReadType ==
  ASSUME StreamRoomsTypeOK, StreamSessionTypeOK, Known, NEW p \in Page,
         NEW type, Receive(p, type), NEW x \in Session, Become(p, x),
         x.role = "none" <=> x.room = None, severed' \subseteq Page
  PROVE  StreamRoomsTypeOK' /\ Known' /\ StreamSessionTypeOK'
<1>1. StreamRoomsTypeOK' /\ Known'
  BY ReceiveType, PageType, SameSockets DEF Receive, StreamRoomsTypeOK
<1> QED BY <1>1, BecomeType DEF Receive, StreamSessionTypeOK

\* Most messages change neither the stream that is shown nor what the page waits for.
QuietRead(p) ==
  \E type \in {"VIEWER_JOINED", "VIEWER_LEFT", "VIEWER_COUNT", "TRACK_STATE",
               "SDP_OFFER", "SDP_ANSWER"} :
    \E x \in Session :
      /\ Receive(p, type) /\ Become(p, x) /\ UNCHANGED severed
      /\ Alike(x, session[p]) /\ Captures(x, session[p])
      /\ x.viewers = CASE type = "VIEWER_JOINED" -> session[p].viewers \cup {Head(toPage[p]).viewer}
                       [] type = "VIEWER_LEFT" -> session[p].viewers \ {Head(toPage[p]).viewer}
                       [] OTHER -> session[p].viewers

LEMMA viewerNewsQuiet ==
  ASSUME StreamRoomsTypeOK, StreamSessionTypeOK, NEW p \in Page,
         onViewerJoined(p) \/ onViewerLeft(p)
  PROVE  QuietRead(p)
<1>1. PICK v : v = Head(toPage[p]).viewer
  OBVIOUS
<1>2. v \in Socket
  BY <1>1, ReceiveType, ToPageFields DEF onViewerJoined, onViewerLeft
<1>3. PICK a, b : /\ a = [session[p] EXCEPT !.viewers = @ \cup {v}]
                  /\ b = [session[p] EXCEPT !.viewers = @ \ {v}]
  OBVIOUS
<1>4. /\ a \in Session /\ Alike(a, session[p]) /\ Captures(a, session[p])
      /\ b \in Session /\ Alike(b, session[p]) /\ Captures(b, session[p])
      /\ a.viewers = session[p].viewers \cup {v} /\ b.viewers = session[p].viewers \ {v}
  BY <1>2, <1>3, SessionFields DEF Session, Alike, Captures
<1>5. \A x \in Session, signalling \in Signalling :
        /\ withPeer(x, v, signalling) \in Session
        /\ Same(withPeer(x, v, signalling), x) /\ Captures(withPeer(x, v, signalling), x)
  BY <1>2, PeerFields
<1>6. "offering" \in Signalling /\ "none" \in Signalling
  BY DEF Signalling
<1>7. CASE onViewerJoined(p)
  <2>1. PICK x : x = withPeer(a, v, "offering")
    OBVIOUS
  <2>2. Receive(p, "VIEWER_JOINED") /\ Become(p, x) /\ UNCHANGED severed
    BY <1>1, <1>3, <1>7, <2>1 DEF onViewerJoined
  <2>3. x \in Session /\ Same(x, a) /\ Captures(x, a)
    BY <1>4, <1>5, <1>6, <2>1
  <2>4. Alike(x, session[p]) /\ Captures(x, session[p]) /\ x.viewers = session[p].viewers \cup {v}
    BY <1>4, <2>3 DEF Same, Alike, Captures
  <2> QED BY <1>1, <2>2, <2>3, <2>4 DEF QuietRead
<1>8. CASE onViewerLeft(p)
  <2>1. PICK x : x = withPeer(b, v, "none")
    OBVIOUS
  <2>2. Receive(p, "VIEWER_LEFT") /\ Become(p, x) /\ UNCHANGED severed
    BY <1>1, <1>3, <1>8, <2>1 DEF onViewerLeft
  <2>3. x \in Session /\ Same(x, b) /\ Captures(x, b)
    BY <1>4, <1>5, <1>6, <2>1
  <2>4. Alike(x, session[p]) /\ Captures(x, session[p]) /\ x.viewers = session[p].viewers \ {v}
    BY <1>4, <2>3 DEF Same, Alike, Captures
  <2> QED BY <1>1, <2>2, <2>3, <2>4 DEF QuietRead
<1> QED BY <1>7, <1>8

LEMMA newsQuiet ==
  ASSUME StreamRoomsTypeOK, StreamSessionTypeOK, NEW p \in Page,
         onSdpOffer(p) \/ onSdpAnswer(p) \/ onViewerCount(p) \/ onTrackState(p)
  PROVE  QuietRead(p)
<1>1. ASSUME NEW type \in {"VIEWER_COUNT", "TRACK_STATE", "SDP_OFFER", "SDP_ANSWER"},
             NEW x \in Session, Receive(p, type), Become(p, x), UNCHANGED severed,
             Same(x, session[p]), Captures(x, session[p])
      PROVE  QuietRead(p)
  BY <1>1 DEF QuietRead, Same
<1>2. "answering" \in Signalling /\ "accepting" \in Signalling /\ session[p] \in Session
  BY SessionFields DEF Signalling
<1>3. CASE onSdpOffer(p)
  <2>1. Head(toPage[p]).sender \in Socket
    BY <1>3, ReceiveType, ToPageFields DEF onSdpOffer
  <2> QED BY <1>1, <1>2, <1>3, <2>1, PeerFields DEF onSdpOffer
<1>4. CASE onSdpAnswer(p)
  <2>1. Head(toPage[p]).sender \in Socket
    BY <1>4, ReceiveType, ToPageFields DEF onSdpAnswer
  <2>2. Same(session[p], session[p]) /\ Captures(session[p], session[p])
    BY DEF Same, Alike, Captures
  <2> QED BY <1>1, <1>2, <1>4, <2>1, <2>2, PeerFields DEF onSdpAnswer
<1>5. CASE onViewerCount(p)
  <2>1. PICK x : x = [session[p] EXCEPT !.count = Head(toPage[p]).count]
    OBVIOUS
  <2>2. Head(toPage[p]).count \in Nat
    BY <1>5, ReceiveType, ToPageFields DEF onViewerCount
  <2>3. x \in Session /\ Same(x, session[p]) /\ Captures(x, session[p])
    BY <2>1, <2>2, SessionFields DEF Session, Same, Alike, Captures
  <2> QED BY <1>1, <1>5, <2>1, <2>3 DEF onViewerCount
<1>6. CASE onTrackState(p)
  <2>1. PICK x : x = [session[p] EXCEPT !.shown = Head(toPage[p]).track]
    OBVIOUS
  <2>2. Head(toPage[p]).track \in Track
    BY <1>6, ReceiveType, ToPageFields DEF onTrackState
  <2>3. x \in Session /\ Same(x, session[p]) /\ Captures(x, session[p])
    BY <2>1, <2>2, SessionFields DEF Session, Same, Alike, Captures
  <2> QED BY <1>1, <1>6, <2>1, <2>3 DEF onTrackState
<1> QED BY <1>3, <1>4, <1>5, <1>6

LEMMA QuietReadType ==
  ASSUME StreamRoomsTypeOK, StreamSessionTypeOK, Known, NEW p \in Page, QuietRead(p)
  PROVE  StreamRoomsTypeOK' /\ Known' /\ StreamSessionTypeOK'
<1>1. PICK type \in {"VIEWER_JOINED", "VIEWER_LEFT", "VIEWER_COUNT", "TRACK_STATE",
                     "SDP_OFFER", "SDP_ANSWER"}, x \in Session :
        Receive(p, type) /\ Become(p, x) /\ UNCHANGED severed /\ Alike(x, session[p])
  BY DEF QuietRead
<1>2. x.role = "none" <=> x.room = None
  BY <1>1, SessionFields DEF Alike
<1>3. severed' \subseteq Page
  BY <1>1 DEF StreamSessionTypeOK
<1> QED BY <1>1, <1>2, <1>3, ReadType

\* What the answers, the posts and the end of a stream do to a page.
LEMMA CreatedBecomes ==
  ASSUME StreamRoomsTypeOK, StreamSessionTypeOK, NEW p \in Page, onStreamCreated(p)
  PROVE  \E x \in Session :
           /\ Receive(p, "STREAM_CREATED") /\ Become(p, x) /\ UNCHANGED severed
           /\ x.role = "broadcaster" /\ x.room = Head(toPage[p]).room /\ x.room \in RoomId
           /\ ~x.creating /\ x.joining = session[p].joining /\ x.asking = session[p].asking
           /\ x.active = session[p].active
           /\ x.posts = session[p].posts /\ x.viewers = session[p].viewers
<1>1. PICK r : r = Head(toPage[p]).room
  OBVIOUS
<1>2. Receive(p, "STREAM_CREATED") /\ r \in RoomId
  BY <1>1, ReceiveType, ToPageFields DEF onStreamCreated
<1>3. PICK x : x = [session[p] EXCEPT !.role = "broadcaster", !.creating = FALSE, !.room = r,
                                      !.captions = "listening"]
  OBVIOUS
<1>4. Become(p, x) /\ UNCHANGED severed
  BY <1>1, <1>3 DEF onStreamCreated
<1>5. /\ x \in Session /\ x.role = "broadcaster" /\ x.room = r
      /\ ~x.creating /\ x.joining = session[p].joining /\ x.asking = session[p].asking
      /\ x.active = session[p].active
      /\ x.posts = session[p].posts /\ x.viewers = session[p].viewers
  BY ZenonT(60), <1>2, <1>3, SessionFields DEF Session
<1> QED BY <1>1, <1>2, <1>4, <1>5

LEMMA JoinedBecomes ==
  ASSUME StreamRoomsTypeOK, StreamSessionTypeOK, NEW p \in Page, onStreamJoined(p)
  PROVE  \E x \in Session :
           /\ Receive(p, "STREAM_JOINED") /\ Become(p, x) /\ UNCHANGED severed
           /\ x.role = "viewer" /\ x.room = Head(toPage[p]).room /\ x.room \in RoomId
           /\ ~x.joining /\ x.creating = session[p].creating /\ x.asking = session[p].asking
           /\ x.active = session[p].active /\ x.captions = session[p].captions
           /\ x.posts = session[p].posts /\ x.viewers = session[p].viewers
<1>1. PICK m : m = Head(toPage[p])
  OBVIOUS
<1>2. /\ Receive(p, "STREAM_JOINED") /\ m.room \in RoomId /\ m.broadcaster \in Socket
      /\ m.count \in Nat /\ m.track \in Track
  BY <1>1, ReceiveType, ToPageFields DEF onStreamJoined
<1>3. PICK y : y = [session[p] EXCEPT !.role = "viewer", !.joining = FALSE,
                                      !.room = m.room, !.count = m.count, !.shown = m.track]
  OBVIOUS
<1>4. /\ y \in Session /\ y.role = "viewer" /\ y.room = m.room
      /\ ~y.joining /\ y.creating = session[p].creating /\ y.asking = session[p].asking
      /\ y.active = session[p].active /\ y.captions = session[p].captions
      /\ y.posts = session[p].posts /\ y.viewers = session[p].viewers
  BY ZenonT(60), <1>2, <1>3, SessionFields DEF Session
<1>5. PICK x : x = withPeer(y, m.broadcaster, "new")
  OBVIOUS
<1>6. /\ x \in Session /\ x.role = y.role /\ x.room = y.room /\ x.joining = y.joining
      /\ x.creating = y.creating /\ x.asking = y.asking /\ x.active = y.active
      /\ x.captions = y.captions /\ x.posts = y.posts /\ x.viewers = y.viewers
  BY <1>2, <1>4, <1>5 DEF withPeer, Session, Signalling
<1>7. Become(p, x) /\ UNCHANGED severed
  BY <1>1, <1>3, <1>5 DEF onStreamJoined
<1> QED BY <1>1, <1>2, <1>4, <1>6, <1>7

LEMMA ErrorBecomes ==
  ASSUME StreamRoomsTypeOK, StreamSessionTypeOK, NEW p \in Page, onJoinError(p)
  PROVE  \E x \in Session :
           /\ Receive(p, "JOIN_ERROR") /\ Become(p, x) /\ UNCHANGED severed
           /\ ~x.joining /\ ~x.creating /\ x.asking = session[p].asking
           /\ x.role = session[p].role /\ x.room = session[p].room
           /\ x.active = session[p].active /\ x.captions = session[p].captions
           /\ x.posts = session[p].posts /\ x.viewers = session[p].viewers
<1>1. PICK x : x = [session[p] EXCEPT !.creating = FALSE, !.joining = FALSE]
  OBVIOUS
<1>2. Receive(p, "JOIN_ERROR") /\ Become(p, x) /\ UNCHANGED severed
  BY <1>1 DEF onJoinError
<1>3. /\ x \in Session /\ ~x.joining /\ ~x.creating /\ x.asking = session[p].asking
      /\ x.role = session[p].role /\ x.room = session[p].room
      /\ x.active = session[p].active /\ x.captions = session[p].captions
      /\ x.posts = session[p].posts /\ x.viewers = session[p].viewers
  BY ZenonT(60), <1>1, SessionFields DEF Session
<1> QED BY <1>2, <1>3

LEMMA PostBecomes ==
  ASSUME StreamRoomsTypeOK, StreamSessionTypeOK, NEW p \in Page, onPost(p)
  PROVE  \E x \in Session :
           /\ Receive(p, "POST") /\ Become(p, x) /\ UNCHANGED severed
           /\ x.joining = session[p].joining /\ x.creating = session[p].creating
           /\ x.asking = session[p].asking
           /\ x.role = session[p].role /\ x.room = session[p].room
           /\ x.active = session[p].active /\ x.captions = session[p].captions
           /\ x.posts = session[p].posts \cup {Head(toPage[p]).post}
           /\ x.viewers = session[p].viewers
<1>1. PICK post : post = Head(toPage[p]).post
  OBVIOUS
<1>2. post \in Post /\ Receive(p, "POST")
  BY <1>1, ReceiveType, ToPageFields DEF onPost
<1>3. PICK x : x = [session[p] EXCEPT !.posts = @ \cup {post}]
  OBVIOUS
<1>4. Become(p, x) /\ UNCHANGED severed
  BY <1>1, <1>3 DEF onPost
<1>5. /\ x \in Session
      /\ x.joining = session[p].joining /\ x.creating = session[p].creating
      /\ x.asking = session[p].asking
      /\ x.role = session[p].role /\ x.room = session[p].room
      /\ x.active = session[p].active /\ x.captions = session[p].captions
      /\ x.posts = session[p].posts \cup {post} /\ x.viewers = session[p].viewers
  BY <1>2, <1>3, SessionFields DEF Session
<1> QED BY <1>1, <1>2, <1>4, <1>5

LEMMA OverBecomes ==
  ASSUME StreamRoomsTypeOK, StreamSessionTypeOK, NEW p \in Page, onStreamOver(p)
  PROVE  \E x \in Session, type \in {"STREAM_KICKED", "STREAM_ENDED"} :
           /\ Receive(p, type) /\ Become(p, x) /\ severed' = severed \ {p}
           /\ x = resetSessionState(session[p])
<1>1. PICK x : x = resetSessionState(session[p])
  OBVIOUS
<1>2. x \in Session
  BY <1>1, SessionFields, ResetFields
<1> QED BY <1>1, <1>2 DEF onStreamOver

LEMMA PageHandlerCases ==
  ASSUME StreamRoomsTypeOK, StreamSessionTypeOK, NEW p \in Page, PageHandler(p)
  PROVE  \/ QuietStep(p) \/ QuietRead(p)
         \/ onStreamCreated(p) \/ onStreamJoined(p) \/ onJoinError(p) \/ onPost(p)
         \/ onStreamOver(p)
BY peersQuiet, viewerNewsQuiet, newsQuiet DEF PageHandler

LEMMA PageHandlerType ==
  ASSUME StreamRoomsTypeOK, StreamSessionTypeOK, Known, NEW p \in Page, PageHandler(p)
  PROVE  StreamRoomsTypeOK' /\ Known' /\ StreamSessionTypeOK'
<1>1. CASE onStreamCreated(p) \/ onStreamJoined(p) \/ onJoinError(p) \/ onPost(p) \/ onStreamOver(p)
  <2>1. \E x \in Session, type \in Answers \cup Ends \cup {"POST"} :
          /\ Receive(p, type) /\ Become(p, x) /\ severed' \subseteq Page
          /\ x.role = "none" <=> x.room = None
    <3>1. None \notin RoomId /\ severed \subseteq Page /\ severed \ {p} \subseteq Page
      BY StreamAssumption DEF StreamSessionTypeOK
    <3>2. CASE onStreamCreated(p)
      BY <3>1, <3>2, CreatedBecomes DEF Answers, Admitted
    <3>3. CASE onStreamJoined(p)
      BY <3>1, <3>3, JoinedBecomes DEF Answers, Admitted
    <3>4. CASE onJoinError(p)
      BY <3>1, <3>4, ErrorBecomes, SessionFields DEF Answers
    <3>5. CASE onPost(p)
      BY <3>1, <3>5, PostBecomes, SessionFields
    <3>6. CASE onStreamOver(p)
      BY <3>1, <3>6, OverBecomes, SessionFields, ResetFields DEF Ends
    <3> QED BY <1>1, <3>2, <3>3, <3>4, <3>5, <3>6
  <2> QED BY <2>1, ReadType
<1>2. CASE QuietStep(p) \/ QuietRead(p)
  BY <1>2, QuietType, QuietReadType
<1> QED BY <1>1, <1>2, PageHandlerCases

LEMMA UserStepCases ==
  ASSUME StreamSessionTypeOK, NEW p \in Page, UserStep(p)
  PROVE  \/ QuietStep(p)
         \/ createStream(p) \/ mediaAcquired(p) \/ mediaRefused(p) \/ joinStream(p)
         \/ leaveStream(p) \/ pageLeft(p) \/ connectionLost(p)
BY toggleMicQuiet, openPickerQuiet, screenPickedQuiet, revertQuiet, sendPostQuiet,
   recognitionQuiet, kickButtonQuiet, endStreamQuiet, peersQuiet DEF UserStep

LEMMA UserStepType ==
  ASSUME StreamRoomsTypeOK, StreamSessionTypeOK, Known, NEW p \in Page, UserStep(p)
  PROVE  StreamRoomsTypeOK' /\ Known' /\ StreamSessionTypeOK'
BY UserStepCases, QuietType, startType, ReconnectingType

LEMMA InitType == ASSUME Init PROVE TypeOK /\ Known
<1>1. StreamRoomsTypeOK
  <2>1. \A p \in Page : MaxConnections[p] \in Nat \ {0}
    BY StreamAssumption
  <2>2. \A p \in Page : SocketOf(p) \in Socket
    BY <2>1, SocketMade DEF Init, StreamRoomsInit, SocketOf
  <2> QED BY <2>2, ShortSequences DEF Init, StreamRoomsInit, StreamRoomsTypeOK
<1>2. StreamSessionTypeOK
  BY FreshFields DEF Init, StreamSessionInit, StreamSessionTypeOK
<1> QED BY <1>1, <1>2 DEF Init, TypeOK, Known, StreamRoomsInit

LEMMA TypeStep == ASSUME TypeOK, Known, [Next]_vars PROVE (TypeOK /\ Known)'
<1>1. ASSUME NEW p \in Page, UserStep(p) \/ PageHandler(p), UNCHANGED <<overtaken, kicked>>
      PROVE  (TypeOK /\ Known)'
  BY <1>1, UserStepType, PageHandlerType DEF TypeOK
<1>2. ASSUME NEW s \in Socket, ServerStep(s) PROVE (TypeOK /\ Known)'
  <2>1. StreamRoomsTypeOK' /\ Known'
    BY <1>2, HandlerType DEF ServerStep, TypeOK
  <2>2. \A r \in rooms : room[r].viewers \subseteq Socket
    BY RoomFields DEF TypeOK, StreamRoomsTypeOK
  <2>3. kicked' \subseteq Socket
    BY <1>2, <2>2 DEF ServerStep, TypeOK
  <2> QED BY <1>2, <2>1, <2>3 DEF ServerStep, TypeOK, StreamSessionTypeOK, sessionVars
<1>3. ASSUME NEW h \in suspended, Resume(h) PROVE (TypeOK /\ Known)'
  <2>1. StreamRoomsTypeOK' /\ Known' /\ h.socket \in Socket
    BY <1>3, ResumedType, SuspendedFields DEF Resume, TypeOK
  <2> QED BY <1>3, <2>1 DEF Resume, TypeOK, StreamSessionTypeOK, sessionVars
<1>4. ASSUME NEW r \in RoomId, Expiry(r) PROVE (TypeOK /\ Known)'
  BY <1>4, expireType DEF Expiry, TypeOK, StreamSessionTypeOK, sessionVars
<1>5. CASE UNCHANGED vars
  <2>1. StreamRoomsTypeOK' /\ Known'
    BY <1>5 DEF vars, TypeOK, Known, StreamRoomsTypeOK, SocketOf, socketVars, roomVars, serviceVars
  <2> QED BY <1>5, <2>1 DEF vars, TypeOK, StreamSessionTypeOK, sessionVars
<1> QED BY <1>1, <1>2, <1>3, <1>4, <1>5 DEF Next

\* Whatever happens, the state has its types: also under a specification without
\* fairness.
THEOREM TypeCorrect == SafeSpec => []TypeOK
<1>1. Init => TypeOK /\ Known
  BY InitType
<1>2. TypeOK /\ Known /\ [Next]_vars => (TypeOK /\ Known)'
  BY TypeStep
<1> QED BY <1>1, <1>2, PTL DEF SafeSpec


-----------------------------------------------------------------------------
(* The registry of the streams.  A socket is indexed under one stream at     *)
(* most: a page that may go live never joins, and the others only join.      *)
(* Each socket awaits one password at most, nobody else is given the stream  *)
(* that is being created, and a stream that was joined had been there.       *)
HeldInv ==
  /\ \A h \in suspended : /\ h.op = "create" <=> room[h.room] = None
                          /\ h.op = "create" <=> h.socket[1] \in Host
  /\ \A g, h \in suspended : /\ g.socket = h.socket => g = h
                             /\ g.op = "create" /\ g.room = h.room => g = h

\* The socket.io room of a stream has its broadcaster and its viewers.
MembersInv ==
  /\ \A r \in RoomId : room[r] = None => members[r] = {}
  /\ \A r \in rooms : members[r] = room[r].viewers \cup {room[r].broadcaster}

\* The part of StreamRegistryAgrees about one stream.
Registered(r) ==
  /\ r \in timers <=> r \in rooms
  /\ r \in rooms <=> streamStats[r] # None
  /\ r \in rooms => streamStats[r] = [viewers |-> Cardinality(room[r].viewers),
                                      track |-> room[r].track]
  /\ \A s \in Socket :
       /\ broadcasterIndex[s] = r <=> r \in rooms /\ room[r].broadcaster = s
       /\ viewerIndex[s] = r <=> r \in rooms /\ s \in room[r].viewers

LEMMA RegistryParts ==
  ASSUME StreamRoomsTypeOK
  PROVE  StreamRegistryAgrees <=> \A r \in RoomId : Registered(r)
BY ZenonT(60), SMTT(30) DEF StreamRoomsTypeOK, StreamRegistryAgrees, Registered

\* Nothing about stream r changes.
LEMMA RegisteredSame ==
  ASSUME StreamRoomsTypeOK, NEW r \in RoomId, Registered(r), room'[r] = room[r],
         streamStats'[r] = streamStats[r], r \in rooms' <=> r \in rooms, r \in timers' <=> r \in timers,
         \A s \in Socket : /\ broadcasterIndex'[s] = r <=> broadcasterIndex[s] = r
                           /\ viewerIndex'[s] = r <=> viewerIndex[s] = r
  PROVE  Registered(r)'
BY DEF Registered

RegistryInv == (\A r \in RoomId : Registered(r)) /\ MembersInv

LEMMA createRoomRegistry ==
  ASSUME StreamRoomsTypeOK, RegistryInv, NEW r \in RoomId, NEW s \in Socket, createRoom(r, s),
         room[r] = None, broadcasterIndex[s] = None
  PROVE  RegistryInv' /\ room'[r] # None /\ \A q \in RoomId \ {r} : room'[q] = room[q]
<1>1. PICK x : x = [broadcaster |-> s, viewers |-> {}, track |-> InitialTrack]
  OBVIOUS
<1>2. /\ x \in Room /\ x # None /\ x.broadcaster = s /\ x.viewers = {} /\ x.track = InitialTrack
      /\ room'[r] = x /\ \A q \in RoomId \ {r} : room'[q] = room[q]
  BY <1>1, InitialTracks, StreamNoneAssumption DEF Room, createRoom, StreamRoomsTypeOK
<1>3. r \notin rooms /\ r # None /\ members[r] = {}
  BY StreamAssumption DEF StreamRoomsTypeOK, RegistryInv, MembersInv
<1>4. streamStats[r] = None
  BY <1>3 DEF RegistryInv, Registered
<1>5. PICK y : y = [viewers |-> Cardinality({}), track |-> InitialTrack]
  OBVIOUS
<1>6. y \in StreamRoomStat /\ y # None
  <2>1. Cardinality({}) \in Nat
    BY Counted
  <2> QED BY <1>5, <2>1, InitialTracks, StreamNoneAssumption DEF StreamRoomStat
<1>7. streamStats' = [streamStats EXCEPT ![r] = y]
  BY <1>4, <1>5 DEF createRoom, upsertStreamRoom
<1>8. Registered(r)'
  <2>1. r \in rooms' /\ r \in timers' /\ streamStats'[r] = y
    BY <1>7 DEF createRoom, StreamRoomsTypeOK
  <2>2. \A t \in Socket : broadcasterIndex'[t] = r <=> t = s
    BY <1>3 DEF createRoom, StreamRoomsTypeOK, RegistryInv, Registered
  <2>3. \A t \in Socket : viewerIndex'[t] # r
    BY <1>3 DEF createRoom, RegistryInv, Registered
  <2> QED BY <1>2, <1>5, <1>6, <2>1, <2>2, <2>3 DEF Registered
<1>9. ASSUME NEW q \in RoomId \ {r} PROVE Registered(q)'
  <2>1. \A t \in Socket : /\ broadcasterIndex'[t] = q <=> broadcasterIndex[t] = q
                          /\ viewerIndex'[t] = q <=> viewerIndex[t] = q
    <3>1. q # None
      BY StreamAssumption
    <3> QED BY <3>1 DEF createRoom, StreamRoomsTypeOK
  <2>2. /\ q \in rooms' <=> q \in rooms
        /\ q \in timers' <=> q \in timers
        /\ streamStats'[q] = streamStats[q]
    BY <1>7 DEF createRoom, StreamRoomsTypeOK
  <2> QED BY <1>2, <2>1, <2>2, RegisteredSame DEF RegistryInv
<1>10. MembersInv'
  BY <1>2, <1>3 DEF createRoom, StreamRoomsTypeOK, RegistryInv, MembersInv
<1> QED BY <1>2, <1>8, <1>9, <1>10 DEF RegistryInv

LEMMA addViewerRegistry ==
  ASSUME StreamRoomsTypeOK, RegistryInv, NEW r \in RoomId, NEW s \in Socket, addViewer(r, s),
         room[r] # None, viewerIndex[s] = None
  PROVE  RegistryInv' /\ \A q \in RoomId : room'[q] = None <=> room[q] = None
<1>1. PICK viewers : viewers = room[r].viewers \cup (IF r \in rooms THEN {s} ELSE {})
  OBVIOUS
<1>2. PICK x : x = [room[r] EXCEPT !.viewers = viewers]
  OBVIOUS
<1>3. /\ room' = [room EXCEPT ![r] = x] /\ setStreamViewerCount(r, viewers)
      /\ x.viewers = viewers /\ x.broadcaster = room[r].broadcaster /\ x.track = room[r].track
      /\ x \in Room /\ x # None /\ viewers \in SUBSET Socket
  BY <1>1, <1>2, RoomFields, StreamNoneAssumption DEF addViewer, Room
<1>4. room'[r] = x /\ \A q \in RoomId \ {r} : room'[q] = room[q]
  BY <1>3 DEF StreamRoomsTypeOK
<1>5. /\ UNCHANGED <<rooms, broadcasterIndex, timers>> /\ r # None
      /\ viewerIndex' = IF r \in rooms THEN [viewerIndex EXCEPT ![s] = r] ELSE viewerIndex
      /\ members' = [members EXCEPT ![r] = @ \cup {s}]
  BY StreamAssumption DEF addViewer
<1>6. ASSUME NEW q \in RoomId \ {r} PROVE Registered(q)'
  <2>1. \A t \in Socket : viewerIndex'[t] = q <=> viewerIndex[t] = q
    <3>1. q # None
      BY StreamAssumption
    <3> QED BY <1>5, <3>1 DEF StreamRoomsTypeOK
  <2>2. streamStats'[q] = streamStats[q]
    BY <1>3 DEF setStreamViewerCount, StreamRoomsTypeOK
  <2> QED BY <1>4, <1>5, <2>1, <2>2, RegisteredSame DEF RegistryInv
<1>7. CASE r \in rooms
  <2>1. PICK y : y = streamStats[r]
    OBVIOUS
  <2>2. y = [viewers |-> Cardinality(room[r].viewers), track |-> room[r].track] /\ y # None
    BY <1>7, <2>1 DEF RegistryInv, Registered
  <2>3. PICK z : z = [y EXCEPT !.viewers = Cardinality(viewers)]
    OBVIOUS
  <2>4. z = [viewers |-> Cardinality(viewers), track |-> room[r].track] /\ z # None
    <3>1. z = [viewers |-> Cardinality(viewers), track |-> room[r].track]
      BY <2>2, <2>3
    <3> QED BY <1>3, <3>1, Counted, RoomFields, StreamNoneAssumption DEF StreamRoomStat
  <2>5. streamStats'[r] = z
    BY <1>3, <2>1, <2>2, <2>3 DEF setStreamViewerCount, StreamRoomsTypeOK
  <2>6. \A t \in Socket : /\ viewerIndex'[t] = r <=> t = s \/ viewerIndex[t] = r
                          /\ t \in x.viewers <=> t = s \/ t \in room[r].viewers
    BY <1>1, <1>3, <1>5, <1>7 DEF StreamRoomsTypeOK
  <2>7. Registered(r)'
    <3>1. Registered(r)
      BY DEF RegistryInv
    <3>2. r \in rooms' /\ r \in timers'
      BY <1>5, <1>7, <3>1 DEF Registered
    <3>3. \A t \in Socket : /\ broadcasterIndex'[t] = r <=> x.broadcaster = t
                            /\ viewerIndex'[t] = r <=> t \in x.viewers
      BY <1>3, <1>5, <1>7, <2>6, <3>1 DEF Registered
    <3> QED BY <1>3, <1>4, <2>4, <2>5, <3>2, <3>3 DEF Registered
  <2>8. MembersInv'
    BY <1>1, <1>3, <1>4, <1>5, <1>7 DEF StreamRoomsTypeOK, RegistryInv, MembersInv
  <2> QED BY <1>3, <1>4, <1>6, <2>7, <2>8 DEF RegistryInv
<1>8. CASE r \notin rooms
  <2>1. streamStats[r] = None /\ streamStats' = streamStats
    BY <1>3, <1>8 DEF RegistryInv, Registered, setStreamViewerCount
  <2>2. Registered(r)'
    BY <1>5, <1>8, <2>1 DEF RegistryInv, Registered
  <2>3. MembersInv'
    BY <1>3, <1>4, <1>5, <1>8 DEF StreamRoomsTypeOK, RegistryInv, MembersInv
  <2> QED BY <1>3, <1>4, <1>6, <2>2, <2>3 DEF RegistryInv
<1> QED BY <1>7, <1>8

LEMMA closeRoomRegistry ==
  ASSUME StreamRoomsTypeOK, RegistryInv, NEW r \in rooms, closeRoom(r)
  PROVE  /\ RegistryInv' /\ room' = room
         /\ \A s \in Socket :
              /\ s \in members[r] <=> broadcasterIndex[s] = r \/ viewerIndex[s] = r
              /\ broadcasterIndex'[s] = IF broadcasterIndex[s] = r THEN None ELSE broadcasterIndex[s]
              /\ viewerIndex'[s] = IF viewerIndex[s] = r THEN None ELSE viewerIndex[s]
<1>1. r \in RoomId /\ room[r] # None /\ r # None
  BY StreamAssumption DEF StreamRoomsTypeOK
<1>2. Registered(r) /\ members[r] = room[r].viewers \cup {room[r].broadcaster}
  BY <1>1 DEF RegistryInv, MembersInv
<1>3. \A s \in Socket :
        /\ s \in members[r] <=> broadcasterIndex[s] = r \/ viewerIndex[s] = r
        /\ broadcasterIndex'[s] = IF broadcasterIndex[s] = r THEN None ELSE broadcasterIndex[s]
        /\ viewerIndex'[s] = IF viewerIndex[s] = r THEN None ELSE viewerIndex[s]
  BY <1>2 DEF Registered, closeRoom, removeRoom, StreamRoomsTypeOK
<1>4. room' = room /\ rooms' = rooms \ {r} /\ timers' = timers \ {r}
      /\ members' = [members EXCEPT ![r] = {}] /\ streamStats' = [streamStats EXCEPT ![r] = None]
  BY DEF closeRoom, removeRoom, removeStreamRoom
<1>5. Registered(r)'
  BY <1>1, <1>3, <1>4 DEF Registered, StreamRoomsTypeOK
<1>6. ASSUME NEW q \in RoomId \ {r} PROVE Registered(q)'
  <2>1. \A t \in Socket : /\ broadcasterIndex'[t] = q <=> broadcasterIndex[t] = q
                          /\ viewerIndex'[t] = q <=> viewerIndex[t] = q
    BY <1>3, StreamAssumption
  <2>2. /\ q \in rooms' <=> q \in rooms
        /\ q \in timers' <=> q \in timers
        /\ streamStats'[q] = streamStats[q]
    BY <1>4 DEF StreamRoomsTypeOK
  <2> QED BY <1>4, <2>1, <2>2, RegisteredSame DEF RegistryInv
<1>7. MembersInv'
  BY <1>4 DEF StreamRoomsTypeOK, RegistryInv, MembersInv
<1> QED BY <1>3, <1>4, <1>5, <1>6, <1>7 DEF RegistryInv

\* A viewer leaves the stream it is indexed under, whose count is brought up to date.
LEMMA removeViewerRegistry ==
  ASSUME StreamRoomsTypeOK, RegistryInv, NEW v \in Socket, removeViewer(v), broadcasterIndex[v] = None,
         \/ viewerIndex[v] \in rooms
            /\ setStreamViewerCount(viewerIndex[v], room[viewerIndex[v]].viewers \ {v})
         \/ viewerIndex[v] \notin rooms /\ UNCHANGED streamStats,
         \A q \in RoomId : /\ q \in rooms => members'[q] = members[q] \ {v}
                           /\ room[q] = None => members'[q] = {}
  PROVE  /\ RegistryInv' /\ \A q \in RoomId : room'[q] = None <=> room[q] = None
         /\ \A s \in Socket : /\ broadcasterIndex'[s] = broadcasterIndex[s]
                              /\ viewerIndex'[s] = IF s = v THEN None ELSE viewerIndex[s]
<1>1. /\ \A s \in Socket : /\ broadcasterIndex'[s] = broadcasterIndex[s]
                           /\ viewerIndex'[s] = IF s = v THEN None ELSE viewerIndex[s]
      /\ rooms' = rooms /\ timers' = timers
  BY DEF removeViewer, StreamRoomsTypeOK
<1>2. \A q \in rooms : room[q].broadcaster # v
  BY StreamAssumption DEF RegistryInv, Registered, StreamRoomsTypeOK
<1>3. CASE viewerIndex[v] \in rooms
  <2>1. PICK r \in RoomId : r = viewerIndex[v] /\ r \in rooms /\ room[r] # None
    BY <1>3 DEF StreamRoomsTypeOK
  <2>2. PICK viewers : viewers = room[r].viewers \ {v}
    OBVIOUS
  <2>3. PICK x : x = [room[r] EXCEPT !.viewers = viewers]
    OBVIOUS
  <2>4. /\ room' = [room EXCEPT ![r] = x] /\ setStreamViewerCount(r, viewers)
        /\ x.viewers = viewers /\ x.broadcaster = room[r].broadcaster /\ x.track = room[r].track
        /\ x \in Room /\ x # None /\ viewers \in SUBSET Socket
    BY <1>3, <2>1, <2>2, <2>3, RoomFields, StreamNoneAssumption DEF removeViewer, Room
  <2>5. room'[r] = x /\ \A q \in RoomId \ {r} : room'[q] = room[q]
    BY <2>4 DEF StreamRoomsTypeOK
  <2>6. ASSUME NEW q \in RoomId \ {r} PROVE Registered(q)'
    <3>1. \A t \in Socket : viewerIndex'[t] = q <=> viewerIndex[t] = q
      BY <1>1, <2>1, StreamAssumption
    <3>2. streamStats'[q] = streamStats[q]
      BY <2>4 DEF setStreamViewerCount, StreamRoomsTypeOK
    <3> QED BY <1>1, <2>5, <3>1, <3>2, RegisteredSame DEF RegistryInv
  <2>7. PICK y : y = streamStats[r]
    OBVIOUS
  <2>8. y = [viewers |-> Cardinality(room[r].viewers), track |-> room[r].track] /\ y # None
    BY <2>1, <2>7 DEF RegistryInv, Registered
  <2>9. PICK z : z = [y EXCEPT !.viewers = Cardinality(viewers)]
    OBVIOUS
  <2>10. z = [viewers |-> Cardinality(viewers), track |-> room[r].track] /\ z # None
    <3>1. z = [viewers |-> Cardinality(viewers), track |-> room[r].track]
      BY <2>8, <2>9
    <3> QED BY <2>1, <2>4, <3>1, Counted, RoomFields, StreamNoneAssumption DEF StreamRoomStat
  <2>11. streamStats'[r] = z
    BY <2>4, <2>7, <2>8, <2>9 DEF setStreamViewerCount, StreamRoomsTypeOK
  <2>12. Registered(r)'
    <3>1. Registered(r) /\ r # None
      BY StreamAssumption DEF RegistryInv
    <3>2. \A t \in Socket : viewerIndex'[t] = r <=> t \in x.viewers
      BY <1>1, <2>1, <2>2, <2>4, <3>1 DEF Registered
    <3>3. \A t \in Socket : broadcasterIndex'[t] = r <=> x.broadcaster = t
      BY <1>1, <2>1, <2>4, <3>1 DEF Registered
    <3>4. r \in rooms' /\ r \in timers'
      BY <1>1, <2>1, <3>1 DEF Registered
    <3> QED BY <2>4, <2>5, <2>10, <2>11, <3>2, <3>3, <3>4 DEF Registered
  <2>13. \A q \in rooms \ {r} : v \notin room[q].viewers
    BY <2>1 DEF RegistryInv, Registered, StreamRoomsTypeOK
  <2>14. MembersInv'
    BY <1>1, <1>2, <2>1, <2>2, <2>4, <2>5, <2>13 DEF StreamRoomsTypeOK, RegistryInv, MembersInv
  <2> QED BY <1>1, <2>1, <2>4, <2>5, <2>6, <2>12, <2>14 DEF RegistryInv
<1>4. CASE viewerIndex[v] \notin rooms
  <2>1. room' = room /\ streamStats' = streamStats
    BY <1>4 DEF removeViewer
  <2>2. \A q \in RoomId : viewerIndex[v] # q
    <3>1. ASSUME NEW q \in RoomId, viewerIndex[v] = q PROVE q \in rooms
      <4>1. Registered(q)
        BY DEF RegistryInv
      <4> QED BY <3>1, <4>1 DEF Registered
    <3> QED BY <1>4, <3>1
  <2>3. \A q \in RoomId : Registered(q)'
    <3>1. \A q \in RoomId, t \in Socket : viewerIndex'[t] = q <=> viewerIndex[t] = q
      BY <1>1, <2>2, StreamAssumption
    <3> QED BY <1>1, <2>1, <3>1, RegisteredSame DEF RegistryInv
  <2>4. \A q \in rooms : v \notin room[q].viewers
    BY <2>2 DEF RegistryInv, Registered, StreamRoomsTypeOK
  <2>5. MembersInv'
    BY <1>1, <1>2, <2>1, <2>4 DEF StreamRoomsTypeOK, RegistryInv, MembersInv
  <2> QED BY <1>1, <2>1, <2>3, <2>5 DEF RegistryInv
<1> QED BY <1>3, <1>4


-----------------------------------------------------------------------------
(* What the sockets and the pages know of the registry.                      *)
Index(s) == IF s[1] \in Host THEN broadcasterIndex[s] ELSE viewerIndex[s]

Waits(s) == \E h \in suspended : h.socket = s

Asks(s) == Has(toServer[s], Ask) \/ Waits(s)

\* A socket asks once at a time, and only for its first stream.
SocketInv(s) ==
  /\ s[2] > connection[s[1]] =>
       toServer[s] = <<>> /\ ~Waits(s) /\ Index(s) = None /\ s \notin overtaken
  /\ s = SocketOf(s[1]) => ~Has(toServer[s], {"disconnect"})
  /\ Asks(s) => Index(s) = None
  /\ Has(toServer[s], Ask) => ~Waits(s)
  /\ Apart(toServer[s], Ask, Ask)
  /\ s[1] \in Host => viewerIndex[s] = None /\ ~Has(toServer[s], {"JOIN_STREAM"})
  /\ s[1] \notin Host => broadcasterIndex[s] = None /\ ~Has(toServer[s], {"CREATE_STREAM"})

\* The page shows a stream, or has its admission on the way.
Live(p) == session[p].role # "none" \/ Has(toPage[p], Admitted)

\* The page shows the stream r, or will when it reads its admission.
Shows(p, r) ==
  \/ session[p].role # "none" /\ session[p].room = r
  \/ \E m \in ToSet(toPage[p]) : m.type \in Admitted /\ m.room = r

\* What a page waits for and what is captured.
LocalInv(p) ==
  LET x == session[p] IN
    /\ x.asking => x.creating
    /\ x.creating => p \in Host
    /\ x.joining => p \notin Host
    /\ x.role # "none" => ~Pending(p)
    /\ x.role = "broadcaster" => p \in Host
    /\ x.role = "viewer" => p \notin Host
    /\ x.role # "broadcaster" => x.captions = "off"
    /\ x.asking \/ (x.role # "broadcaster" /\ ~x.creating) => x.active # "camera"

\* A page has one question open at most.  The end of its stream comes last, and so does
\* what is posted in it, unless the end follows.
PageInv(p) ==
  /\ Asks(SocketOf(p)) \/ Has(toPage[p], Answers) => Pending(p) /\ ~session[p].asking
  /\ Has(toPage[p], Answers) => ~Asks(SocketOf(p))
  /\ Apart(toPage[p], Answers, Answers)
  /\ Has(toPage[p], {"STREAM_CREATED"}) => p \in Host
  /\ Has(toPage[p], {"STREAM_JOINED", "JOIN_ERROR"}) => p \notin Host
  /\ Index(SocketOf(p)) # None => Shows(p, Index(SocketOf(p))) /\ ~Has(toPage[p], Ends)
  /\ Has(toPage[p], Ends \cup {"POST"}) => Live(p)
  /\ Apart(toPage[p], Ends, Answers \cup Ends \cup {"POST"})
  /\ Apart(toPage[p], {"POST"}, Answers)
  /\ \A m \in ToSet(toPage[p]) : m.type = "POST" => \A r \in RoomId : Shows(p, r) => m.post.room = r
  /\ \A post \in session[p].posts : post.room = session[p].room

\* A page that shows a stream is in it, or will hear of its end.
ToldInv(p) ==
  p \notin severed /\ SocketOf(p) \notin overtaken =>
    \A r \in RoomId : Shows(p, r) => Has(toPage[p], Ends) \/ Index(SocketOf(p)) = r

StreamInv ==
  /\ RegistryInv
  /\ HeldInv
  /\ \A s \in Socket : SocketInv(s)
  /\ \A p \in Page : LocalInv(p) /\ PageInv(p) /\ ToldInv(p)

\* What a page hears of that these invariants are about.
Special == Answers \cup Ends \cup {"POST"}

\* The page is sent nothing of these, or only m.
Quietly(p) == \E ms \in Seq(ToPage) : toPage'[p] = toPage[p] \o ms /\ ~Has(ms, Special)

Gets(p, m) ==
  \E ms \in Seq(ToPage) :
    /\ toPage'[p] = toPage[p] \o ms
    /\ m \in ToSet(ms) /\ m.type \in Special /\ m \in ToPage
    /\ Apart(ms, Special, Special)
    /\ \A n \in ToSet(ms) : n.type \in Special => n = m

LEMMA QuietQueue ==
  ASSUME StreamRoomsTypeOK, NEW p \in Page, Quietly(p)
  PROVE  /\ \A A \in SUBSET Special : Has(toPage'[p], A) <=> Has(toPage[p], A)
         /\ \A A, B \in SUBSET Special : Apart(toPage[p], A, B) => Apart(toPage'[p], A, B)
         /\ \A n : n.type \in Special => (n \in ToSet(toPage'[p]) <=> n \in ToSet(toPage[p]))
<1>1. PICK ms \in Seq(ToPage) : toPage'[p] = toPage[p] \o ms /\ ~Has(ms, Special)
  BY DEF Quietly
<1>2. toPage[p] \in Seq(ToPage)
  BY DEF StreamRoomsTypeOK
<1>3. ToSet(toPage'[p]) = ToSet(toPage[p]) \cup ToSet(ms)
  BY <1>1, <1>2, SetConcat
<1>4. ASSUME NEW A \in SUBSET Special, NEW B \in SUBSET Special, Apart(toPage[p], A, B)
      PROVE  Apart(toPage'[p], A, B)
  <2>1. ~Has(ms, B) /\ DOMAIN ms = 1..Len(ms)
    BY <1>1 DEF Has
  <2>2. Apart(ms, A, B)
    BY <2>1, ApartWithout
  <2> QED BY <1>1, <1>2, <1>4, <2>1, <2>2, ApartConcat
<1> QED BY <1>1, <1>3, <1>4 DEF Has

LEMMA GetsQueue ==
  ASSUME StreamRoomsTypeOK, NEW p \in Page, NEW m, Gets(p, m)
  PROVE  /\ \A A \in SUBSET Special : Has(toPage'[p], A) <=> Has(toPage[p], A) \/ m.type \in A
         /\ \A A, B \in SUBSET Special :
              Apart(toPage[p], A, B) /\ (Has(toPage[p], A) => m.type \notin B) =>
                Apart(toPage'[p], A, B)
         /\ \A n : n.type \in Special =>
                     (n \in ToSet(toPage'[p]) <=> n \in ToSet(toPage[p]) \/ n = m)
         /\ m.type \in Special /\ m \in ToPage
<1>1. PICK ms \in Seq(ToPage) :
        /\ toPage'[p] = toPage[p] \o ms
        /\ m \in ToSet(ms) /\ m.type \in Special /\ m \in ToPage
        /\ Apart(ms, Special, Special)
        /\ \A n \in ToSet(ms) : n.type \in Special => n = m
  BY DEF Gets
<1>2. toPage[p] \in Seq(ToPage)
  BY DEF StreamRoomsTypeOK
<1>3. ToSet(toPage'[p]) = ToSet(toPage[p]) \cup ToSet(ms)
  BY <1>1, <1>2, SetConcat
<1>4. ASSUME NEW A \in SUBSET Special, NEW B \in SUBSET Special, Apart(toPage[p], A, B),
             Has(toPage[p], A) => m.type \notin B
      PROVE  Apart(toPage'[p], A, B)
  <2>1. Apart(ms, A, B)
    BY <1>1 DEF Apart
  <2>2. Has(toPage[p], A) => ~Has(ms, B)
    BY <1>1, <1>4 DEF Has
  <2> QED BY <1>1, <1>2, <1>4, <2>1, <2>2, ApartConcat
<1> QED BY <1>1, <1>3, <1>4 DEF Has

\* What a step of the server does to a socket: it takes a message from its queue, and
\* indexes it only to answer it.
SocketEffect(t) ==
  /\ \/ toServer'[t] = toServer[t]
     \/ toServer[t] # <<>> /\ toServer'[t] = Tail(toServer[t])
  /\ Waits(t)' => Asks(t) /\ ~Has(toServer'[t], Ask)
  /\ broadcasterIndex'[t] # None =>
       broadcasterIndex'[t] = broadcasterIndex[t] \/ (t[1] \in Host /\ Asks(t) /\ ~Asks(t)')
  /\ viewerIndex'[t] # None =>
       viewerIndex'[t] = viewerIndex[t] \/ (t[1] \notin Host /\ Asks(t) /\ ~Asks(t)')
  /\ t \in overtaken' => t \in overtaken \/ Waits(t)

LEMMA SocketServer ==
  ASSUME StreamRoomsTypeOK, NEW t \in Socket, SocketInv(t), SocketEffect(t), connection' = connection
  PROVE  SocketInv(t)'
<1>1. toServer[t] \in Seq(ToServer)
  BY DEF StreamRoomsTypeOK
<1>2. \A A : Has(toServer'[t], A) => Has(toServer[t], A)
  BY <1>1, SetTail DEF SocketEffect, Has
<1>3. Apart(toServer'[t], Ask, Ask)
  BY <1>1, ApartTail DEF SocketEffect, SocketInv
<1>4. Asks(t)' => Asks(t)
  BY <1>2 DEF SocketEffect, Asks
<1>5. Index(t)' # None => Index(t)' = Index(t) \/ (Asks(t) /\ ~Asks(t)')
  BY DEF SocketEffect, Index
<1>6. t[2] > connection[t[1]] => ~Asks(t) /\ toServer'[t] = <<>>
  BY SetNothing DEF SocketInv, SocketEffect, Asks, Has
<1>7. (t[2] > connection[t[1]])' =>
         (toServer[t] = <<>> /\ ~Waits(t) /\ Index(t) = None /\ t \notin overtaken)'
  BY <1>5, <1>6 DEF SocketInv, SocketEffect
<1>8. (t = SocketOf(t[1]))' => ~Has(toServer'[t], {"disconnect"})
  BY <1>2 DEF SocketInv, SocketOf
<1>9. Asks(t)' => Index(t)' = None
  BY <1>4, <1>5 DEF SocketInv
<1>10. Has(toServer'[t], Ask) => ~Waits(t)'
  BY DEF SocketEffect
<1>11. t[1] \in Host => viewerIndex'[t] = None /\ ~Has(toServer'[t], {"JOIN_STREAM"})
  BY <1>2 DEF SocketInv, SocketEffect
<1>12. t[1] \notin Host => broadcasterIndex'[t] = None /\ ~Has(toServer'[t], {"CREATE_STREAM"})
  BY <1>2 DEF SocketInv, SocketEffect
<1> QED BY <1>3, <1>7, <1>8, <1>9, <1>10, <1>11, <1>12 DEF SocketInv

\* What a step of the server does to a page: nothing it cares for, or a post from its
\* stream, or the answer it waits for, or the end of its stream.
PageEffect(p) ==
  \E s \in Socket :
    /\ s = SocketOf(p)
    /\ \/ /\ Quietly(p)
          /\ Index(s)' = Index(s)
          /\ Asks(s)' => Asks(s)
       \/ \E m :
            /\ Gets(p, m)
            /\ \/ /\ m.type = "POST" /\ m.post.room = Index(s)
                  /\ Index(s) # None /\ Index(s)' = Index(s) /\ ~Asks(s)'
               \/ /\ m.type = "JOIN_ERROR" /\ p \notin Host
                  /\ Asks(s) /\ ~Asks(s)' /\ Index(s)' = None
               \/ /\ m.type \in Admitted /\ (m.type = "STREAM_CREATED" <=> p \in Host)
                  /\ Asks(s) /\ ~Asks(s)'
                  /\ Index(s)' = m.room \/ (Index(s)' = None /\ s \in overtaken')
               \/ /\ m.type \in Ends
                  /\ Index(s) # None /\ Index(s)' = None /\ ~Asks(s)'


\* A page shows one stream.
LEMMA ShowsOne ==
  ASSUME StreamRoomsTypeOK, NEW p \in Page, LocalInv(p), PageInv(p), NEW q, NEW r,
         Shows(p, q), Shows(p, r)
  PROVE  q = r
<1>1. toPage[p] \in Seq(ToPage)
  BY DEF StreamRoomsTypeOK
<1>2. session[p].role # "none" => ~Has(toPage[p], Admitted)
  BY DEF LocalInv, PageInv, Has, Answers
<1>3. \A m, n \in ToSet(toPage[p]) : m.type \in Admitted /\ n.type \in Admitted => m = n
  <2>1. Apart(toPage[p], Answers, Answers)
    BY DEF PageInv
  <2>2. DOMAIN toPage[p] = 1..Len(toPage[p]) /\ Len(toPage[p]) \in Nat
    BY <1>1
  <2> QED BY <2>1, <2>2, ApartOnce DEF Answers
<1> QED BY <1>2, <1>3 DEF Shows, Has

LEMMA ShowsLive ==
  ASSUME NEW p, NEW r, Shows(p, r)
  PROVE  Live(p)
BY DEF Shows, Live, Has

\* A page that asks shows nothing and hears of nothing.
LEMMA AsksNothingShown ==
  ASSUME NEW p \in Page, LocalInv(p), PageInv(p), Asks(SocketOf(p))
  PROVE  /\ session[p].role = "none" /\ ~Live(p) /\ \A r : ~Shows(p, r)
         /\ ~Has(toPage[p], Answers) /\ ~Has(toPage[p], Ends) /\ ~Has(toPage[p], {"POST"})
         /\ Pending(p) /\ ~session[p].asking
<1>1. /\ session[p].role = "none" /\ ~Has(toPage[p], Answers)
      /\ Pending(p) /\ ~session[p].asking
  BY DEF LocalInv, PageInv
<1>2. ~Live(p)
  BY <1>1 DEF Live, Has, Answers
<1> QED BY <1>1, <1>2, ShowsLive DEF PageInv, Has

LEMMA PageQuiet ==
  ASSUME StreamRoomsTypeOK, NEW p \in Page, LocalInv(p), PageInv(p), ToldInv(p),
         UNCHANGED <<connection, session, severed>>, overtaken \subseteq overtaken',
         NEW s \in Socket, s = SocketOf(p), Quietly(p), Index(s)' = Index(s), Asks(s)' => Asks(s)
  PROVE  PageInv(p)' /\ ToldInv(p)'
<1>1. s = SocketOf(p)' /\ session'[p] = session[p]
  BY DEF SocketOf
<1>2. /\ \A A \in SUBSET Special : Has(toPage'[p], A) <=> Has(toPage[p], A)
      /\ \A A, B \in SUBSET Special : Apart(toPage[p], A, B) => Apart(toPage'[p], A, B)
      /\ \A n : n.type \in Special => (n \in ToSet(toPage'[p]) <=> n \in ToSet(toPage[p]))
  BY QuietQueue
<1>3. \A r : Shows(p, r)' <=> Shows(p, r)
  BY <1>2 DEF Shows, Special, Answers
<1>4. /\ Answers \in SUBSET Special /\ Ends \in SUBSET Special /\ {"POST"} \in SUBSET Special
      /\ {"STREAM_CREATED"} \in SUBSET Special /\ {"STREAM_JOINED", "JOIN_ERROR"} \in SUBSET Special
      /\ Ends \cup {"POST"} \in SUBSET Special /\ Answers \cup Ends \cup {"POST"} \in SUBSET Special
      /\ Admitted \in SUBSET Special
  BY DEF Special, Answers, Admitted
<1>5. Live(p)' <=> Live(p)
  BY <1>1, <1>2, <1>4 DEF Live
<1>6. Pending(p)' <=> Pending(p)
  BY <1>1 DEF Pending
<1>7. /\ Asks(s)' \/ Has(toPage'[p], Answers) => Pending(p)' /\ ~session'[p].asking
      /\ Has(toPage'[p], Answers) => ~Asks(s)'
      /\ Apart(toPage'[p], Answers, Answers)
      /\ Has(toPage'[p], {"STREAM_CREATED"}) => p \in Host
      /\ Has(toPage'[p], {"STREAM_JOINED", "JOIN_ERROR"}) => p \notin Host
  BY <1>1, <1>2, <1>4, <1>6 DEF PageInv
<1>8. /\ Has(toPage'[p], Ends \cup {"POST"}) => Live(p)'
      /\ Apart(toPage'[p], Ends, Answers \cup Ends \cup {"POST"})
      /\ Apart(toPage'[p], {"POST"}, Answers)
  BY <1>2, <1>4, <1>5 DEF PageInv
<1>9. Index(s)' # None => Shows(p, Index(s))' /\ ~Has(toPage'[p], Ends)
  BY <1>2, <1>3, <1>4 DEF PageInv
<1>10. \A m \in ToSet(toPage'[p]) : m.type = "POST" => \A r \in RoomId : Shows(p, r)' => m.post.room = r
  BY <1>2, <1>3 DEF PageInv, Special
<1>11. PageInv(p)'
  BY <1>1, <1>7, <1>8, <1>9, <1>10 DEF PageInv
<1>12. ToldInv(p)'
  BY <1>1, <1>2, <1>3, <1>4 DEF ToldInv
<1> QED BY <1>11, <1>12


LEMMA SpecialTypes ==
  /\ Answers \in SUBSET Special /\ Ends \in SUBSET Special /\ {"POST"} \in SUBSET Special
  /\ {"STREAM_CREATED"} \in SUBSET Special /\ {"STREAM_JOINED", "JOIN_ERROR"} \in SUBSET Special
  /\ Ends \cup {"POST"} \in SUBSET Special /\ Answers \cup Ends \cup {"POST"} \in SUBSET Special
  /\ Admitted \in SUBSET Special
BY DEF Special, Answers, Admitted

\* A post from the stream the page is in.
LEMMA PagePost ==
  ASSUME StreamRoomsTypeOK, NEW p \in Page, LocalInv(p), PageInv(p), ToldInv(p),
         UNCHANGED <<connection, session, severed>>, overtaken \subseteq overtaken',
         NEW s \in Socket, s = SocketOf(p), NEW m, Gets(p, m), m.type = "POST",
         m.post.room = Index(s), Index(s) # None, Index(s)' = Index(s), ~Asks(s)'
  PROVE  PageInv(p)' /\ ToldInv(p)'
<1>1. s = SocketOf(p)' /\ session'[p] = session[p]
  BY DEF SocketOf
<1>2. /\ \A A \in SUBSET Special : Has(toPage'[p], A) <=> Has(toPage[p], A) \/ m.type \in A
      /\ \A A, B \in SUBSET Special :
           Apart(toPage[p], A, B) /\ (Has(toPage[p], A) => m.type \notin B) => Apart(toPage'[p], A, B)
      /\ \A n : n.type \in Special => (n \in ToSet(toPage'[p]) <=> n \in ToSet(toPage[p]) \/ n = m)
  BY GetsQueue
<1>3. m.type \notin Answers /\ m.type \notin Ends /\ m.type \notin Admitted
  BY DEF Answers, Admitted, Ends
<1>4. \A r : Shows(p, r)' <=> Shows(p, r)
  BY <1>2, <1>3 DEF Shows, Special, Answers
<1>5. /\ Has(toPage'[p], Answers) <=> Has(toPage[p], Answers)
      /\ Has(toPage'[p], Ends) <=> Has(toPage[p], Ends)
      /\ Has(toPage'[p], Admitted) <=> Has(toPage[p], Admitted)
      /\ Has(toPage'[p], {"STREAM_CREATED"}) <=> Has(toPage[p], {"STREAM_CREATED"})
      /\ Has(toPage'[p], {"STREAM_JOINED", "JOIN_ERROR"}) <=> Has(toPage[p], {"STREAM_JOINED", "JOIN_ERROR"})
  BY <1>2, <1>3, SpecialTypes
<1>6. Shows(p, Index(s)) /\ ~Has(toPage[p], Ends) /\ Live(p)
  BY ShowsLive DEF PageInv
<1>7. Live(p)' /\ (Pending(p)' <=> Pending(p))
  BY <1>1, <1>5, <1>6 DEF Live, Pending
<1>8. /\ Asks(s)' \/ Has(toPage'[p], Answers) => Pending(p)' /\ ~session'[p].asking
      /\ Has(toPage'[p], Answers) => ~Asks(s)'
      /\ Has(toPage'[p], {"STREAM_CREATED"}) => p \in Host
      /\ Has(toPage'[p], {"STREAM_JOINED", "JOIN_ERROR"}) => p \notin Host
  BY <1>1, <1>5, <1>7 DEF PageInv
<1>9. /\ Apart(toPage'[p], Answers, Answers)
      /\ Apart(toPage'[p], Ends, Answers \cup Ends \cup {"POST"})
      /\ Apart(toPage'[p], {"POST"}, Answers)
  BY <1>2, <1>3, <1>6, SpecialTypes DEF PageInv
<1>10. Index(s)' # None => Shows(p, Index(s))' /\ ~Has(toPage'[p], Ends)
  BY <1>4, <1>5, <1>6
<1>11. ASSUME NEW n \in ToSet(toPage'[p]), n.type = "POST", NEW r \in RoomId, Shows(p, r)'
       PROVE  n.post.room = r
  <2>1. Shows(p, r)
    BY <1>4, <1>11
  <2>2. n \in ToSet(toPage[p]) => n.post.room = r
    BY <1>11, <2>1 DEF PageInv
  <2>3. Index(s) = r
    BY <1>6, <2>1, ShowsOne
  <2> QED BY <1>2, <1>11, <2>2, <2>3 DEF Special
<1>12. PageInv(p)'
  BY <1>1, <1>7, <1>8, <1>9, <1>10, <1>11 DEF PageInv
<1>13. ToldInv(p)'
  BY <1>1, <1>4, <1>5 DEF ToldInv
<1> QED BY <1>12, <1>13

\* The refusal the page waits for.
LEMMA PageRefused ==
  ASSUME StreamRoomsTypeOK, NEW p \in Page, LocalInv(p), PageInv(p), ToldInv(p),
         UNCHANGED <<connection, session, severed>>, overtaken \subseteq overtaken',
         NEW s \in Socket, s = SocketOf(p), NEW m, Gets(p, m), m.type = "JOIN_ERROR", p \notin Host,
         Asks(s), ~Asks(s)', Index(s)' = None
  PROVE  PageInv(p)' /\ ToldInv(p)'
<1>1. s = SocketOf(p)' /\ session'[p] = session[p]
  BY DEF SocketOf
<1>2. /\ \A A \in SUBSET Special : Has(toPage'[p], A) <=> Has(toPage[p], A) \/ m.type \in A
      /\ \A A, B \in SUBSET Special :
           Apart(toPage[p], A, B) /\ (Has(toPage[p], A) => m.type \notin B) => Apart(toPage'[p], A, B)
      /\ \A n : n.type \in Special => (n \in ToSet(toPage'[p]) <=> n \in ToSet(toPage[p]) \/ n = m)
  BY GetsQueue
<1>3. m.type \notin Admitted /\ m.type \notin Ends
  BY DEF Admitted, Ends
<1>4. /\ session[p].role = "none" /\ ~Live(p) /\ \A r : ~Shows(p, r)
      /\ ~Has(toPage[p], Answers) /\ ~Has(toPage[p], Ends) /\ ~Has(toPage[p], {"POST"})
      /\ Pending(p) /\ ~session[p].asking
  BY AsksNothingShown
<1>5. \A r : ~Shows(p, r)'
  BY <1>1, <1>2, <1>3, <1>4 DEF Shows, Special, Answers
<1>6. /\ ~Has(toPage'[p], Ends) /\ ~Has(toPage'[p], {"POST"})
      /\ ~Has(toPage'[p], {"STREAM_CREATED"}) /\ Pending(p)'
  <2>1. ~Has(toPage[p], {"STREAM_CREATED"})
    BY <1>4 DEF Has, Answers, Admitted
  <2> QED BY <1>1, <1>2, <1>3, <1>4, <2>1, SpecialTypes DEF Pending
<1>7. /\ Apart(toPage'[p], Answers, Answers)
      /\ Apart(toPage'[p], Ends, Answers \cup Ends \cup {"POST"})
      /\ Apart(toPage'[p], {"POST"}, Answers)
  BY <1>2, <1>4, SpecialTypes DEF PageInv
<1>8. ~Has(toPage'[p], Ends \cup {"POST"}) /\ \A n \in ToSet(toPage'[p]) : n.type # "POST"
  BY <1>6 DEF Has
<1>9. PageInv(p)'
  BY <1>1, <1>4, <1>6, <1>7, <1>8 DEF PageInv
<1> QED BY <1>5, <1>9 DEF ToldInv

\* The admission the page waits for.
LEMMA PageAdmitted ==
  ASSUME StreamRoomsTypeOK, NEW p \in Page, LocalInv(p), PageInv(p), ToldInv(p),
         UNCHANGED <<connection, session, severed>>, overtaken \subseteq overtaken',
         NEW s \in Socket, s = SocketOf(p), NEW m, Gets(p, m),
         m.type \in Admitted, m.type = "STREAM_CREATED" <=> p \in Host,
         Asks(s), ~Asks(s)', Index(s)' = m.room \/ (Index(s)' = None /\ s \in overtaken')
  PROVE  PageInv(p)' /\ ToldInv(p)'
<1>1. s = SocketOf(p)' /\ session'[p] = session[p]
  BY DEF SocketOf
<1>2. /\ \A A \in SUBSET Special : Has(toPage'[p], A) <=> Has(toPage[p], A) \/ m.type \in A
      /\ \A A, B \in SUBSET Special :
           Apart(toPage[p], A, B) /\ (Has(toPage[p], A) => m.type \notin B) => Apart(toPage'[p], A, B)
      /\ \A n : n.type \in Special => (n \in ToSet(toPage'[p]) <=> n \in ToSet(toPage[p]) \/ n = m)
  BY GetsQueue
<1>3. m.type \in Answers /\ m.type \notin Ends /\ m.type # "POST" /\ m.type # "JOIN_ERROR"
  BY DEF Admitted, Answers, Ends
<1>4. /\ session[p].role = "none" /\ ~Live(p) /\ \A r : ~Shows(p, r)
      /\ ~Has(toPage[p], Answers) /\ ~Has(toPage[p], Ends) /\ ~Has(toPage[p], {"POST"})
      /\ Pending(p) /\ ~session[p].asking
  BY AsksNothingShown
<1>5. \A r : Shows(p, r)' <=> r = m.room
  BY <1>1, <1>2, <1>3, <1>4 DEF Shows, Special, Answers, Has
<1>6. /\ ~Has(toPage'[p], Ends) /\ ~Has(toPage'[p], {"POST"}) /\ Pending(p)'
      /\ Has(toPage'[p], {"STREAM_CREATED"}) => p \in Host
      /\ Has(toPage'[p], {"STREAM_JOINED", "JOIN_ERROR"}) => p \notin Host
  <2>1. ~Has(toPage[p], {"STREAM_CREATED"}) /\ ~Has(toPage[p], {"STREAM_JOINED", "JOIN_ERROR"})
    BY <1>4 DEF Has, Answers, Admitted
  <2> QED BY <1>1, <1>2, <1>3, <1>4, <2>1, SpecialTypes DEF Pending
<1>7. /\ Apart(toPage'[p], Answers, Answers)
      /\ Apart(toPage'[p], Ends, Answers \cup Ends \cup {"POST"})
      /\ Apart(toPage'[p], {"POST"}, Answers)
  BY <1>2, <1>4, SpecialTypes DEF PageInv
<1>8. ~Has(toPage'[p], Ends \cup {"POST"}) /\ \A n \in ToSet(toPage'[p]) : n.type # "POST"
  BY <1>6 DEF Has
<1>9. Index(s)' # None => Shows(p, Index(s))'
  BY <1>5
<1>10. PageInv(p)'
  BY <1>1, <1>4, <1>6, <1>7, <1>8, <1>9 DEF PageInv
<1> QED BY <1>1, <1>5, <1>10 DEF ToldInv

\* The end of the stream the page is in.
LEMMA PageEnded ==
  ASSUME StreamRoomsTypeOK, NEW p \in Page, LocalInv(p), PageInv(p), ToldInv(p),
         UNCHANGED <<connection, session, severed>>, overtaken \subseteq overtaken',
         NEW s \in Socket, s = SocketOf(p), NEW m, Gets(p, m), m.type \in Ends,
         Index(s) # None, Index(s)' = None, ~Asks(s)'
  PROVE  PageInv(p)' /\ ToldInv(p)'
<1>1. s = SocketOf(p)' /\ session'[p] = session[p]
  BY DEF SocketOf
<1>2. /\ \A A \in SUBSET Special : Has(toPage'[p], A) <=> Has(toPage[p], A) \/ m.type \in A
      /\ \A A, B \in SUBSET Special :
           Apart(toPage[p], A, B) /\ (Has(toPage[p], A) => m.type \notin B) => Apart(toPage'[p], A, B)
      /\ \A n : n.type \in Special => (n \in ToSet(toPage'[p]) <=> n \in ToSet(toPage[p]) \/ n = m)
  BY GetsQueue
<1>3. m.type \notin Answers /\ m.type \notin Admitted /\ m.type # "POST"
  BY DEF Answers, Admitted, Ends
<1>4. \A r : Shows(p, r)' <=> Shows(p, r)
  BY <1>2, <1>3 DEF Shows, Special, Answers
<1>5. /\ Has(toPage'[p], Answers) <=> Has(toPage[p], Answers)
      /\ Has(toPage'[p], Ends)
      /\ Has(toPage'[p], Admitted) <=> Has(toPage[p], Admitted)
      /\ Has(toPage'[p], {"STREAM_CREATED"}) <=> Has(toPage[p], {"STREAM_CREATED"})
      /\ Has(toPage'[p], {"STREAM_JOINED", "JOIN_ERROR"}) <=> Has(toPage[p], {"STREAM_JOINED", "JOIN_ERROR"})
  <2>1. m.type \notin {"STREAM_CREATED"} /\ m.type \notin {"STREAM_JOINED", "JOIN_ERROR"}
    BY DEF Ends
  <2> QED BY <1>2, <1>3, <2>1, SpecialTypes
<1>6. Live(p) /\ ~Has(toPage[p], Ends)
  BY ShowsLive DEF PageInv
<1>7. Live(p)' /\ (Pending(p)' <=> Pending(p))
  BY <1>1, <1>5, <1>6 DEF Live, Pending
<1>8. /\ Asks(s)' \/ Has(toPage'[p], Answers) => Pending(p)' /\ ~session'[p].asking
      /\ Has(toPage'[p], Answers) => ~Asks(s)'
      /\ Has(toPage'[p], {"STREAM_CREATED"}) => p \in Host
      /\ Has(toPage'[p], {"STREAM_JOINED", "JOIN_ERROR"}) => p \notin Host
  BY <1>1, <1>5, <1>7 DEF PageInv
<1>9. /\ Apart(toPage'[p], Answers, Answers)
      /\ Apart(toPage'[p], Ends, Answers \cup Ends \cup {"POST"})
      /\ Apart(toPage'[p], {"POST"}, Answers)
  BY <1>2, <1>3, <1>6, SpecialTypes DEF PageInv
<1>10. \A n \in ToSet(toPage'[p]) : n.type = "POST" => \A r \in RoomId : Shows(p, r)' => n.post.room = r
  BY <1>2, <1>3, <1>4 DEF PageInv, Special
<1>11. PageInv(p)'
  BY <1>1, <1>7, <1>8, <1>9, <1>10 DEF PageInv
<1> QED BY <1>5, <1>11 DEF ToldInv

LEMMA PageServer ==
  ASSUME StreamRoomsTypeOK, NEW p \in Page, LocalInv(p), PageInv(p), ToldInv(p), PageEffect(p),
         UNCHANGED <<connection, session, severed>>, overtaken \subseteq overtaken'
  PROVE  PageInv(p)' /\ ToldInv(p)'
<1>1. PICK s \in Socket :
        /\ s = SocketOf(p)
        /\ \/ /\ Quietly(p) /\ Index(s)' = Index(s) /\ (Asks(s)' => Asks(s))
           \/ \E m :
                /\ Gets(p, m)
                /\ \/ /\ m.type = "POST" /\ m.post.room = Index(s)
                      /\ Index(s) # None /\ Index(s)' = Index(s) /\ ~Asks(s)'
                   \/ /\ m.type = "JOIN_ERROR" /\ p \notin Host
                      /\ Asks(s) /\ ~Asks(s)' /\ Index(s)' = None
                   \/ /\ m.type \in Admitted /\ (m.type = "STREAM_CREATED" <=> p \in Host)
                      /\ Asks(s) /\ ~Asks(s)'
                      /\ Index(s)' = m.room \/ (Index(s)' = None /\ s \in overtaken')
                   \/ /\ m.type \in Ends
                      /\ Index(s) # None /\ Index(s)' = None /\ ~Asks(s)'
  BY DEF PageEffect
<1>2. CASE Quietly(p) /\ Index(s)' = Index(s) /\ (Asks(s)' => Asks(s))
  BY <1>1, <1>2, PageQuiet
<1>3. ASSUME NEW m, Gets(p, m), m.type = "POST", m.post.room = Index(s),
             Index(s) # None, Index(s)' = Index(s), ~Asks(s)'
      PROVE  PageInv(p)' /\ ToldInv(p)'
  BY <1>1, <1>3, PagePost
<1>4. ASSUME NEW m, Gets(p, m), m.type = "JOIN_ERROR", p \notin Host,
             Asks(s), ~Asks(s)', Index(s)' = None
      PROVE  PageInv(p)' /\ ToldInv(p)'
  BY <1>1, <1>4, PageRefused
<1>5. ASSUME NEW m, Gets(p, m), m.type \in Admitted, m.type = "STREAM_CREATED" <=> p \in Host,
             Asks(s), ~Asks(s)', Index(s)' = m.room \/ (Index(s)' = None /\ s \in overtaken')
      PROVE  PageInv(p)' /\ ToldInv(p)'
  BY <1>1, <1>5, PageAdmitted
<1>6. ASSUME NEW m, Gets(p, m), m.type \in Ends, Index(s) # None, Index(s)' = None, ~Asks(s)'
      PROVE  PageInv(p)' /\ ToldInv(p)'
  BY <1>1, <1>6, PageEnded
<1> QED BY <1>1, <1>2, <1>3, <1>4, <1>5, <1>6

\* What a step of the server has to be shown to do.
LEMMA ServerEffects ==
  ASSUME TypeOK, StreamInv, UNCHANGED <<connection, session, severed>>, overtaken \subseteq overtaken',
         RegistryInv', HeldInv', \A t \in Socket : SocketEffect(t), \A p \in Page : PageEffect(p)
  PROVE  StreamInv'
<1>1. \A t \in Socket : SocketInv(t)'
  BY SocketServer DEF TypeOK, StreamInv
<1>2. \A p \in Page : PageInv(p)' /\ ToldInv(p)'
  BY PageServer DEF TypeOK, StreamInv
<1>3. \A p \in Page : LocalInv(p)'
  BY DEF StreamInv, LocalInv, Pending
<1> QED BY <1>1, <1>2, <1>3 DEF StreamInv


-----------------------------------------------------------------------------
(* The steps of the server.                                                  *)
LEMMA ToQueue ==
  ASSUME NEW s \in Socket, NEW sockets, NEW m
  PROVE  /\ s \in sockets => To(sockets, m)[s] = <<m>>
         /\ s \notin sockets => To(sockets, m)[s] = <<>>
         /\ \A A : Has(To(sockets, m)[s], A) <=> s \in sockets /\ m.type \in A
<1>1. s \in sockets => To(sockets, m)[s] = <<m>>
  BY DEF To
<1>2. s \notin sockets => To(sockets, m)[s] = <<>>
  BY DEF To
<1>3. \A A : Has(<<m>>, A) <=> m.type \in A
  BY SetOne DEF Has
<1>4. \A A : ~Has(<<>>, A)
  BY SetNothing DEF Has
<1> QED BY <1>1, <1>2, <1>3, <1>4

LEMMA ThenQueue ==
  ASSUME NEW s \in Socket, NEW sent \in [Socket -> Seq(ToPage)], NEW more \in [Socket -> Seq(ToPage)]
  PROVE  /\ Then(sent, more)[s] = sent[s] \o more[s]
         /\ \A A : Has(Then(sent, more)[s], A) <=> Has(sent[s], A) \/ Has(more[s], A)
<1>1. Then(sent, more)[s] = sent[s] \o more[s]
  BY DEF Then
<1>2. ToSet(sent[s] \o more[s]) = ToSet(sent[s]) \cup ToSet(more[s])
  BY SetConcat
<1> QED BY <1>1, <1>2 DEF Has

LEMMA EmitQuiet ==
  ASSUME StreamRoomsTypeOK, NEW sent \in [Socket -> Seq(ToPage)], Emit(sent), NEW p \in Page,
         ~Has(sent[SocketOf(p)], Special)
  PROVE  Quietly(p)
<1>1. SocketOf(p) \in Socket
  BY CurrentSocket
<1>2. toPage'[p] = toPage[p] \o sent[SocketOf(p)]
  BY DEF Emit
<1> QED BY <1>1, <1>2 DEF Quietly

LEMMA EmitGets ==
  ASSUME StreamRoomsTypeOK, NEW sent \in [Socket -> Seq(ToPage)], Emit(sent), NEW p \in Page,
         NEW m \in ToPage, m.type \in Special, NEW rest \in Seq(ToPage), ~Has(rest, Special),
         sent[SocketOf(p)] = <<m>> \o rest
  PROVE  Gets(p, m)
<1>1. PICK ms, one : ms = <<m>> \o rest /\ one = <<m>>
  OBVIOUS
<1>2. one \in Seq(ToPage) /\ ms = one \o rest
  BY <1>1
<1>3. ms \in Seq(ToPage) /\ ToSet(ms) = {m} \cup ToSet(rest)
  <2>1. ToSet(one \o rest) = ToSet(one) \cup ToSet(rest) /\ one \o rest \in Seq(ToPage)
    BY <1>2, SetConcat, ShortSequences
  <2>2. ToSet(one) = {m}
    BY <1>1, SetOne
  <2> QED BY <1>2, <2>1, <2>2
<1>4. Apart(ms, Special, Special)
  <2>1. Apart(one, Special, Special) /\ Apart(rest, Special, Special)
    <3>1. \A n : Apart(<<n>>, Special, Special)
      BY ApartShort
    <3>2. DOMAIN rest = 1..Len(rest)
      OBVIOUS
    <3> QED BY <1>1, <3>1, <3>2, ApartWithout
  <2> QED BY <1>2, <2>1, ApartConcat
<1>5. toPage'[p] = toPage[p] \o ms
  BY <1>1 DEF Emit
<1> QED BY <1>3, <1>4, <1>5 DEF Gets, Has

LEMMA EmitOne ==
  ASSUME StreamRoomsTypeOK, NEW sockets, NEW m \in ToPage, Emit(To(sockets, m)), NEW p \in Page
  PROVE  /\ SocketOf(p) \notin sockets \/ m.type \notin Special => Quietly(p)
         /\ SocketOf(p) \in sockets /\ m.type \in Special => Gets(p, m)
<1>1. PICK sent : sent = To(sockets, m)
  OBVIOUS
<1>2. sent \in [Socket -> Seq(ToPage)] /\ Emit(sent) /\ SocketOf(p) \in Socket
  BY <1>1, ToType, CurrentSocket
<1>3. SocketOf(p) \notin sockets \/ m.type \notin Special => Quietly(p)
  BY <1>1, <1>2, ToQueue, EmitQuiet
<1>4. ASSUME SocketOf(p) \in sockets, m.type \in Special PROVE Gets(p, m)
  <2>1. PICK rest : rest = <<>>
    OBVIOUS
  <2>2. rest \in Seq(ToPage) /\ ~Has(rest, Special)
    BY <2>1, SetNothing DEF Has
  <2>3. sent[SocketOf(p)] = <<m>>
    BY <1>1, <1>2, <1>4, ToQueue
  <2>4. <<m>> \o <<>> = <<m>>
    OBVIOUS
  <2> QED BY <1>2, <1>4, <2>1, <2>2, <2>3, <2>4, EmitGets
<1> QED BY <1>3, <1>4

LEMMA Unsent ==
  ASSUME StreamRoomsTypeOK, UNCHANGED toPage, NEW p \in Page
  PROVE  Quietly(p)
<1>1. PICK rest : rest = <<>>
  OBVIOUS
<1>2. rest \in Seq(ToPage) /\ ~Has(rest, Special)
  BY <1>1, SetNothing DEF Has
<1>3. toPage[p] \o <<>> = toPage[p]
  BY DEF StreamRoomsTypeOK
<1> QED BY <1>1, <1>2, <1>3 DEF Quietly

LEMMA RequestEffect ==
  ASSUME StreamRoomsTypeOK, NEW s \in Socket, SocketInv(s), NEW type, Request(s, type)
  PROVE  /\ connection' = connection /\ Has(toServer[s], {type})
         /\ \A t \in Socket : /\ \/ toServer'[t] = toServer[t]
                                 \/ toServer[t] # <<>> /\ toServer'[t] = Tail(toServer[t])
                              /\ t # s => toServer'[t] = toServer[t]
         /\ \A t \in Socket : \A A : Has(toServer'[t], A) => Has(toServer[t], A)
         /\ type \in Ask => Has(toServer[s], Ask) /\ ~Has(toServer'[s], Ask) /\ ~Waits(s)
<1>1. PICK q : q = toServer[s]
  OBVIOUS
<1>2. q \in Seq(ToServer) /\ q # <<>> /\ Head(q).type = type
  BY <1>1 DEF StreamRoomsTypeOK, Request
<1>3. toServer'[s] = Tail(q) /\ \A t \in Socket \ {s} : toServer'[t] = toServer[t]
  BY <1>1 DEF StreamRoomsTypeOK, Request
<1>4. ToSet(q) = {Head(q)} \cup ToSet(Tail(q))
  BY <1>2, SetTail
<1>5. Has(q, {type}) /\ \A A : Has(Tail(q), A) => Has(q, A)
  BY <1>2, <1>4 DEF Has
<1>6. ASSUME type \in Ask PROVE Has(q, Ask) /\ ~Has(Tail(q), Ask)
  <2>1. Apart(q, Ask, Ask)
    BY <1>1 DEF SocketInv
  <2> QED BY <1>2, <1>4, <1>6, <2>1, ApartTail DEF Has
<1> QED BY <1>1, <1>2, <1>3, <1>5, <1>6 DEF Request, SocketInv

LEMMA SocketStill ==
  ASSUME StreamRoomsTypeOK, NEW t \in Socket, SocketInv(t),
         \/ toServer'[t] = toServer[t]
         \/ toServer[t] # <<>> /\ toServer'[t] = Tail(toServer[t]),
         Waits(t)' => Waits(t),
         broadcasterIndex'[t] \in {None, broadcasterIndex[t]},
         viewerIndex'[t] \in {None, viewerIndex[t]},
         t \in overtaken' => t \in overtaken \/ Waits(t)
  PROVE  SocketEffect(t) /\ (Asks(t)' => Asks(t))
<1>1. \A A : Has(toServer'[t], A) => Has(toServer[t], A)
  <2>1. toServer[t] \in Seq(ToServer)
    BY DEF StreamRoomsTypeOK
  <2> QED BY <2>1, SetTail DEF Has
<1> QED BY <1>1 DEF SocketEffect, SocketInv, Asks

\* Nobody is indexed anew, and nobody asks who did not.
LEMMA HeldSame ==
  ASSUME StreamRoomsTypeOK, HeldInv, suspended' \subseteq suspended,
         \A r \in RoomId : room'[r] = None <=> room[r] = None
  PROVE  HeldInv' /\ \A t \in Socket : Waits(t)' => Waits(t)
<1>1. HeldInv'
  BY SuspendedFields DEF HeldInv
<1> QED BY <1>1 DEF Waits

\* A step that answers nobody and ends nothing.
LEMMA QuietHandler ==
  ASSUME TypeOK, StreamInv, NEW s \in Socket, NEW type, Request(s, type),
         UNCHANGED <<session, severed, overtaken, suspended, broadcasterIndex, viewerIndex>>,
         RegistryInv', \A r \in RoomId : room'[r] = None <=> room[r] = None,
         \A p \in Page : \/ Quietly(p)
                         \/ \E m : /\ Gets(p, m) /\ m.type = "POST"
                                   /\ m.post.room = Index(SocketOf(p)) /\ m.post.room # None
  PROVE  StreamInv'
<1>1. StreamRoomsTypeOK /\ HeldInv /\ \A t \in Socket : SocketInv(t)
  BY DEF TypeOK, StreamInv
<1>2. HeldInv' /\ \A t \in Socket : Waits(t)' => Waits(t)
  BY <1>1, HeldSame
<1>3. connection' = connection
  BY DEF Request
<1>4. \A t \in Socket : SocketEffect(t) /\ (Asks(t)' => Asks(t))
  <2>1. \A t \in Socket : \/ toServer'[t] = toServer[t]
                          \/ toServer[t] # <<>> /\ toServer'[t] = Tail(toServer[t])
    BY <1>1, RequestEffect
  <2> QED BY <1>1, <1>2, <2>1, SocketStill
<1>5. \A t : Index(t)' = Index(t)
  BY DEF Index
<1>6. ASSUME NEW p \in Page PROVE PageEffect(p)
  <2>1. PICK u \in Socket : u = SocketOf(p)
    BY <1>1, CurrentSocket
  <2>2. Index(u) # None => ~Asks(u)
    BY <1>1 DEF SocketInv
  <2>3. CASE Quietly(p)
    BY <1>4, <1>5, <2>1, <2>3 DEF PageEffect
  <2>4. ASSUME NEW m, Gets(p, m), m.type = "POST", m.post.room = Index(u), m.post.room # None
        PROVE  PageEffect(p)
    BY <1>4, <1>5, <2>1, <2>2, <2>4 DEF PageEffect
  <2> QED BY <2>1, <2>3, <2>4
<1> QED BY <1>2, <1>3, <1>4, <1>6, ServerEffects


LEMMA RegistrySame ==
  ASSUME StreamRoomsTypeOK, RegistryInv, UNCHANGED <<serviceVars, members, streamStats>>
  PROVE  RegistryInv' /\ \A r \in RoomId : room'[r] = None <=> room[r] = None
BY DEF RegistryInv, Registered, MembersInv, serviceVars

LEMMA trackRegistry ==
  ASSUME StreamRoomsTypeOK, RegistryInv, NEW r \in rooms, NEW track \in Track,
         room' = [room EXCEPT ![r].track = track], setStreamTrackState(r, track),
         UNCHANGED <<rooms, broadcasterIndex, viewerIndex, timers, members>>
  PROVE  RegistryInv' /\ \A q \in RoomId : room'[q] = None <=> room[q] = None
<1>1. r \in RoomId /\ room[r] # None /\ Registered(r)
  BY DEF StreamRoomsTypeOK, RegistryInv
<1>2. PICK x : x = [room[r] EXCEPT !.track = track]
  OBVIOUS
<1>3. /\ room' = [room EXCEPT ![r] = x]
      /\ x.viewers = room[r].viewers /\ x.broadcaster = room[r].broadcaster /\ x.track = track
      /\ x \in Room /\ x # None
  BY <1>1, <1>2, RoomFields, StreamNoneAssumption DEF Room
<1>4. room'[r] = x /\ \A q \in RoomId \ {r} : room'[q] = room[q]
  BY <1>1, <1>3 DEF StreamRoomsTypeOK
<1>5. PICK y : y = streamStats[r]
  OBVIOUS
<1>6. y = [viewers |-> Cardinality(room[r].viewers), track |-> room[r].track] /\ y # None
  BY <1>1, <1>5 DEF Registered
<1>7. PICK z : z = [y EXCEPT !.track = track]
  OBVIOUS
<1>8. z = [viewers |-> Cardinality(x.viewers), track |-> track] /\ z # None
  <2>1. z = [viewers |-> Cardinality(room[r].viewers), track |-> track]
    BY <1>6, <1>7
  <2> QED BY <1>1, <1>3, <2>1, Counted, RoomFields, StreamNoneAssumption DEF StreamRoomStat
<1>9. streamStats' = [streamStats EXCEPT ![r] = z]
  BY <1>5, <1>6, <1>7 DEF setStreamTrackState
<1>10. Registered(r)'
  <2>1. streamStats'[r] = z
    BY <1>1, <1>9 DEF StreamRoomsTypeOK
  <2> QED BY <1>1, <1>3, <1>4, <1>8, <2>1 DEF Registered
<1>11. ASSUME NEW q \in RoomId \ {r} PROVE Registered(q)'
  <2>1. streamStats'[q] = streamStats[q]
    BY <1>9 DEF StreamRoomsTypeOK
  <2> QED BY <1>4, <2>1, RegisteredSame DEF RegistryInv
<1>12. MembersInv'
  <2>1. \A q \in RoomId : /\ room'[q] = None <=> room[q] = None
                          /\ room'[q].viewers = room[q].viewers
                          /\ room'[q].broadcaster = room[q].broadcaster
    BY <1>1, <1>3, <1>4
  <2>2. rooms' = rooms /\ members' = members /\ rooms \subseteq RoomId
    BY DEF StreamRoomsTypeOK
  <2> QED BY <2>1, <2>2 DEF RegistryInv, MembersInv
<1> QED BY <1>1, <1>3, <1>4, <1>10, <1>11, <1>12 DEF RegistryInv

\* Who is in the socket.io room of a stream.
LEMMA MemberIndex ==
  ASSUME TypeOK, StreamInv, NEW r \in rooms, NEW u \in Socket
  PROVE  /\ u \in members[r] <=> Index(u) = r
         /\ r \in RoomId /\ r # None /\ room[r] # None /\ room[r] \in Room
<1>1. r \in RoomId /\ r # None /\ Registered(r) /\ room[r] # None /\ room[r] \in Room
  BY StreamAssumption DEF TypeOK, StreamRoomsTypeOK, StreamInv, RegistryInv
<1>2. members[r] = room[r].viewers \cup {room[r].broadcaster}
  BY DEF StreamInv, RegistryInv, MembersInv
<1>3. u \in members[r] <=> broadcasterIndex[u] = r \/ viewerIndex[u] = r
  BY <1>1, <1>2 DEF Registered
<1>4. IF u[1] \in Host THEN viewerIndex[u] = None ELSE broadcasterIndex[u] = None
  BY DEF StreamInv, SocketInv
<1> QED BY <1>1, <1>3, <1>4 DEF Index

LEMMA handleSdpStream ==
  ASSUME TypeOK, StreamInv, NEW s \in Socket, ServerStep(s), handleSdp(s)
  PROVE  StreamInv'
<1>1. PICK type \in {"SDP_OFFER", "SDP_ANSWER"} :
        /\ Request(s, type)
        /\ Emit(To({Head(toServer[s]).target}, [type |-> type, sender |-> s]))
  BY DEF handleSdp
<1>2. PICK m : m = [type |-> type, sender |-> s]
  OBVIOUS
<1>3. m \in ToPage /\ m.type \notin Special
  BY <1>2, ToPageMessages DEF Special, Answers, Admitted, Ends
<1>4. \A p \in Page : Quietly(p)
  BY <1>1, <1>2, <1>3, EmitOne DEF TypeOK
<1>5. UNCHANGED roomVars /\ UNCHANGED <<session, severed, overtaken>>
  BY DEF handleSdp, ServerStep, sessionVars
<1>6. RegistryInv' /\ \A r \in RoomId : room'[r] = None <=> room[r] = None
  BY <1>5, RegistrySame DEF TypeOK, StreamInv, roomVars
<1> QED BY <1>1, <1>4, <1>5, <1>6, QuietHandler DEF roomVars, serviceVars

LEMMA postsStream ==
  ASSUME TypeOK, StreamInv, NEW s \in Socket, ServerStep(s),
         handleCaption(s) \/ handleSendStreamMessage(s) \/ handleSendReaction(s)
  PROVE  StreamInv'
<1>1. Request(s, "POST") /\ UNCHANGED roomVars /\ UNCHANGED <<session, severed, overtaken>>
  BY DEF handleCaption, handleSendStreamMessage, handleSendReaction, Posted, ServerStep, sessionVars
<1>2. PICK r : r = Head(toServer[s]).post.room
  OBVIOUS
<1>3. PICK m : m = [type |-> "POST", post |-> Head(toServer[s]).post]
  OBVIOUS
<1>4. m \in ToPage /\ m.type = "POST" /\ m.post.room = r /\ r \in RoomId /\ m.type \in Special
  BY <1>1, <1>2, <1>3, RequestType, ToServerFields, ToPageMessages DEF TypeOK, Special
<1>5. \/ UNCHANGED toPage
      \/ \E readers \in SUBSET members[r] : r \in rooms /\ Emit(To(readers, m))
  <2>1. CASE handleCaption(s)
    <3>1. CASE findRoomByBroadcaster(s) = r
      <4>1. r \in rooms
        BY <1>4, <3>1, StreamAssumption DEF findRoomByBroadcaster
      <4>2. Emit(To(members[r] \ {s}, m))
        BY <1>2, <1>3, <2>1, <3>1 DEF handleCaption, Relay
      <4> QED BY <4>1, <4>2
    <3>2. CASE findRoomByBroadcaster(s) # r
      BY <1>2, <2>1, <3>2 DEF handleCaption
    <3> QED BY <3>1, <3>2
  <2>2. CASE handleSendStreamMessage(s) \/ handleSendReaction(s)
    <3>1. CASE IsMember(s, r)
      <4>1. r \in rooms
        BY <3>1 DEF IsMember
      <4>2. Emit(To(members[r], m))
        BY <1>2, <1>3, <2>2, <3>1 DEF handleSendStreamMessage, handleSendReaction, Relay
      <4> QED BY <4>1, <4>2
    <3>2. CASE ~IsMember(s, r)
      BY <1>2, <2>2, <3>2 DEF handleSendStreamMessage, handleSendReaction
    <3> QED BY <3>1, <3>2
  <2> QED BY <2>1, <2>2
<1>6. ASSUME NEW p \in Page
      PROVE  \/ Quietly(p)
             \/ \E n : /\ Gets(p, n) /\ n.type = "POST"
                       /\ n.post.room = Index(SocketOf(p)) /\ n.post.room # None
  <2>1. CASE UNCHANGED toPage
    BY <2>1, Unsent DEF TypeOK
  <2>2. ASSUME NEW readers \in SUBSET members[r], r \in rooms, Emit(To(readers, m))
        PROVE  \/ Quietly(p)
               \/ \E n : /\ Gets(p, n) /\ n.type = "POST"
                         /\ n.post.room = Index(SocketOf(p)) /\ n.post.room # None
    <3>1. PICK u \in Socket : u = SocketOf(p)
      BY CurrentSocket DEF TypeOK
    <3>2. CASE u \notin readers
      BY <1>4, <2>2, <3>1, <3>2, EmitOne DEF TypeOK
    <3>3. CASE u \in readers
      <4>1. Gets(p, m)
        BY <1>4, <2>2, <3>1, <3>3, EmitOne DEF TypeOK
      <4>2. Index(u) = r /\ r # None
        BY <2>2, <3>1, <3>3, MemberIndex
      <4> QED BY <1>4, <3>1, <4>1, <4>2
    <3> QED BY <3>2, <3>3
  <2> QED BY <1>5, <2>1, <2>2
<1>7. RegistryInv' /\ \A q \in RoomId : room'[q] = None <=> room[q] = None
  BY <1>1, RegistrySame DEF TypeOK, StreamInv, roomVars
<1> QED BY <1>1, <1>6, <1>7, QuietHandler DEF roomVars, serviceVars

LEMMA handleTrackStateStream ==
  ASSUME TypeOK, StreamInv, NEW s \in Socket, ServerStep(s), handleTrackState(s)
  PROVE  StreamInv'
<1>1. /\ Request(s, "TRACK_STATE") /\ UNCHANGED <<session, severed, overtaken>>
      /\ UNCHANGED <<rooms, broadcasterIndex, viewerIndex, timers, members, suspended>>
      /\ StreamRoomsTypeOK /\ RegistryInv
  BY DEF handleTrackState, ServerStep, sessionVars, TypeOK, StreamInv
<1>2. PICK r, track : r = Head(toServer[s]).room /\ track = Head(toServer[s]).track
  OBVIOUS
<1>3. r \in RoomId /\ track \in Track
  BY <1>1, <1>2, RequestType, ToServerFields
<1>4. CASE IsMine(s)
  <2>1. r \in rooms
    BY <1>1, <1>2, <1>3, <1>4, Mine
  <2>2. PICK m : m = [type |-> "TRACK_STATE", track |-> track]
    OBVIOUS
  <2>3. m \in ToPage /\ m.type \notin Special
    BY <1>3, <2>2, ToPageMessages DEF Special, Answers, Admitted, Ends
  <2>4. /\ room' = [room EXCEPT ![r].track = track] /\ setStreamTrackState(r, track)
        /\ Emit(To(members[r], m))
    BY <1>2, <1>4, <2>2 DEF handleTrackState
  <2>5. \A p \in Page : Quietly(p)
    BY <1>1, <2>3, <2>4, EmitOne
  <2>6. RegistryInv' /\ \A q \in RoomId : room'[q] = None <=> room[q] = None
    BY <1>1, <1>3, <2>1, <2>4, trackRegistry
  <2> QED BY <1>1, <2>5, <2>6, QuietHandler
<1>5. CASE ~IsMine(s)
  <2>1. UNCHANGED <<room, streamStats, toPage>>
    BY <1>5 DEF handleTrackState
  <2>2. RegistryInv' /\ \A q \in RoomId : room'[q] = None <=> room[q] = None
    BY <1>1, <2>1, RegistrySame DEF serviceVars
  <2> QED BY <1>1, <2>1, <2>2, Unsent, QuietHandler
<1> QED BY <1>4, <1>5

LEMMA NothingDone ==
  ASSUME TypeOK, StreamInv, NEW s \in Socket, NEW type, Request(s, type),
         UNCHANGED <<session, severed, overtaken>>,
         UNCHANGED <<toPage, serviceVars, members, streamStats, suspended>>
  PROVE  StreamInv'
<1>1. RegistryInv' /\ \A q \in RoomId : room'[q] = None <=> room[q] = None
  BY RegistrySame DEF TypeOK, StreamInv
<1>2. \A p \in Page : Quietly(p)
  BY Unsent DEF TypeOK
<1> QED BY <1>1, <1>2, QuietHandler DEF serviceVars

\* A stream ends: those in it hear so.
LEMMA closeRoomStream ==
  ASSUME TypeOK, StreamInv, NEW r \in rooms, closeRoom(r),
         UNCHANGED <<connection, session, severed, overtaken, suspended>>,
         \A t \in Socket : \/ toServer'[t] = toServer[t]
                           \/ toServer[t] # <<>> /\ toServer'[t] = Tail(toServer[t])
  PROVE  StreamInv'
<1>1. StreamRoomsTypeOK /\ HeldInv /\ RegistryInv /\ \A t \in Socket : SocketInv(t)
  BY DEF TypeOK, StreamInv
<1>2. /\ RegistryInv' /\ room' = room
      /\ \A t \in Socket :
           /\ broadcasterIndex'[t] = IF broadcasterIndex[t] = r THEN None ELSE broadcasterIndex[t]
           /\ viewerIndex'[t] = IF viewerIndex[t] = r THEN None ELSE viewerIndex[t]
  BY <1>1, closeRoomRegistry
<1>3. HeldInv' /\ \A t \in Socket : Waits(t)' => Waits(t)
  BY <1>1, <1>2, HeldSame
<1>4. \A t \in Socket : SocketEffect(t) /\ (Asks(t)' => Asks(t))
  BY <1>1, <1>2, <1>3, SocketStill
<1>5. PICK m : m = [type |-> "STREAM_ENDED"]
  OBVIOUS
<1>6. m \in ToPage /\ m.type \in Special /\ m.type \in Ends /\ Emit(To(members[r], m))
  BY <1>5, ToPageMessages DEF Special, Ends, closeRoom
<1>7. ASSUME NEW p \in Page PROVE PageEffect(p)
  <2>1. PICK u \in Socket : u = SocketOf(p)
    BY <1>1, CurrentSocket
  <2>2. /\ u \in members[r] <=> Index(u) = r
        /\ r # None
        /\ Index(u)' = IF Index(u) = r THEN None ELSE Index(u)
    BY <1>2, MemberIndex DEF Index
  <2>3. CASE u \in members[r]
    <3>1. Gets(p, m)
      BY <1>1, <1>6, <2>1, <2>3, EmitOne
    <3>2. ~Asks(u)'
      BY <1>1, <1>4, <2>2, <2>3 DEF SocketInv
    <3> QED BY <1>6, <2>1, <2>2, <2>3, <3>1, <3>2 DEF PageEffect
  <2>4. CASE u \notin members[r]
    <3>1. Quietly(p)
      BY <1>1, <1>6, <2>1, <2>4, EmitOne
    <3> QED BY <1>4, <2>1, <2>2, <2>4, <3>1 DEF PageEffect
  <2> QED BY <2>3, <2>4
<1> QED BY <1>2, <1>3, <1>4, <1>7, ServerEffects

LEMMA handleEndStreamStream ==
  ASSUME TypeOK, StreamInv, NEW s \in Socket, ServerStep(s), handleEndStream(s)
  PROVE  StreamInv'
<1>1. /\ Request(s, "END_STREAM") /\ UNCHANGED <<session, severed, overtaken, suspended>>
      /\ StreamRoomsTypeOK /\ SocketInv(s)
  BY DEF handleEndStream, ServerStep, sessionVars, TypeOK, StreamInv
<1>2. CASE IsMine(s)
  <2>1. PICK r : r = findRoomByBroadcaster(s)
    OBVIOUS
  <2>2. r \in rooms /\ closeRoom(r)
    BY <1>1, <1>2, <2>1, Mine, RequestType, ToServerFields DEF handleEndStream, IsMine
  <2> QED BY <1>1, <2>2, RequestEffect, closeRoomStream
<1>3. CASE ~IsMine(s)
  BY <1>1, <1>3, NothingDone DEF handleEndStream
<1> QED BY <1>2, <1>3

LEMMA expireStream ==
  ASSUME TypeOK, StreamInv, NEW r \in RoomId, Expiry(r)
  PROVE  StreamInv'
<1>1. r \in rooms
  BY DEF Expiry, expire, StreamInv, RegistryInv, Registered
<1> QED BY <1>1, closeRoomStream DEF Expiry, expire, sessionVars


\* A viewer that left, or was removed and told so.
LEMMA ViewerGoesStream ==
  ASSUME TypeOK, StreamInv, NEW v \in Socket, broadcasterIndex[v] = None, RegistryInv',
         \A r \in RoomId : room'[r] = None <=> room[r] = None,
         \A t \in Socket : /\ broadcasterIndex'[t] = broadcasterIndex[t]
                           /\ viewerIndex'[t] = IF t = v THEN None ELSE viewerIndex[t],
         UNCHANGED <<connection, session, severed, overtaken, suspended>>,
         \A t \in Socket : \/ toServer'[t] = toServer[t]
                           \/ toServer[t] # <<>> /\ toServer'[t] = Tail(toServer[t]),
         \A p \in Page : SocketOf(p) # v => Quietly(p),
         \A p \in Page : SocketOf(p) = v =>
           Index(v) # None /\ \E m : Gets(p, m) /\ m.type \in Ends
  PROVE  StreamInv'
<1>1. StreamRoomsTypeOK /\ HeldInv /\ \A t \in Socket : SocketInv(t)
  BY DEF TypeOK, StreamInv
<1>2. HeldInv' /\ \A t \in Socket : Waits(t)' => Waits(t)
  BY <1>1, HeldSame
<1>3. \A t \in Socket : SocketEffect(t) /\ (Asks(t)' => Asks(t))
  BY <1>1, <1>2, SocketStill
<1>4. ASSUME NEW p \in Page PROVE PageEffect(p)
  <2>1. PICK u \in Socket : u = SocketOf(p)
    BY <1>1, CurrentSocket
  <2>2. CASE u = v
    <3>1. Index(u)' = None
      BY <2>2 DEF Index
    <3>2. ~Asks(u)'
      BY <1>1, <1>3, <2>1, <2>2 DEF SocketInv
    <3> QED BY <2>1, <2>2, <3>1, <3>2 DEF PageEffect
  <2>3. CASE u # v
    <3>1. Index(u)' = Index(u)
      BY <2>3 DEF Index
    <3> QED BY <1>3, <2>1, <2>3, <3>1 DEF PageEffect
  <2> QED BY <2>2, <2>3
<1> QED BY <1>2, <1>3, <1>4, ServerEffects

LEMMA handleKickViewerStream ==
  ASSUME TypeOK, StreamInv, NEW s \in Socket, ServerStep(s), handleKickViewer(s)
  PROVE  StreamInv'
<1>1. /\ Request(s, "KICK_VIEWER") /\ UNCHANGED <<session, severed, overtaken, suspended>>
      /\ StreamRoomsTypeOK /\ RegistryInv /\ \A t \in Socket : SocketInv(t)
  BY DEF handleKickViewer, ServerStep, sessionVars, TypeOK, StreamInv
<1>2. PICK r, v : r = Head(toServer[s]).room /\ v = Head(toServer[s]).viewer
  OBVIOUS
<1>3. r \in RoomId /\ v \in Socket
  BY <1>1, <1>2, RequestType, ToServerFields
<1>4. CASE IsMine(s) /\ v \in room[r].viewers
  <2>1. r \in rooms /\ r # None /\ room[r] # None /\ kickViewer(r, v)
    BY <1>1, <1>2, <1>3, <1>4, Mine, MemberIndex DEF handleKickViewer
  <2>2. viewerIndex[v] = r
    BY <1>1, <1>3, <1>4, <2>1 DEF RegistryInv, Registered
  <2>3. v[1] \notin Host /\ broadcasterIndex[v] = None /\ Index(v) # None
    BY <1>1, <1>3, <2>1, <2>2 DEF SocketInv, Index
  <2>4. PICK viewers : viewers = room[r].viewers \ {v}
    OBVIOUS
  <2>5. /\ removeViewer(v) /\ setStreamViewerCount(r, viewers)
        /\ members' = [members EXCEPT ![r] = @ \ {v}]
    BY <2>1, <2>4 DEF kickViewer
  <2>6. \A q \in RoomId : /\ q \in rooms => members'[q] = members[q] \ {v}
                          /\ room[q] = None => members'[q] = {}
    <3>1. \A q \in rooms \ {r} : v \notin members[q]
      BY <1>3, <2>2, <2>3, MemberIndex DEF Index
    <3> QED BY <1>1, <1>3, <2>1, <2>5, <3>1 DEF RegistryInv, MembersInv, StreamRoomsTypeOK
  <2>7. /\ RegistryInv' /\ \A q \in RoomId : room'[q] = None <=> room[q] = None
        /\ \A t \in Socket : /\ broadcasterIndex'[t] = broadcasterIndex[t]
                             /\ viewerIndex'[t] = IF t = v THEN None ELSE viewerIndex[t]
    BY <1>1, <1>3, <2>1, <2>2, <2>3, <2>4, <2>5, <2>6, removeViewerRegistry
  <2>8. PICK m, a, b : /\ m = [type |-> "STREAM_KICKED"]
                       /\ a = To({v}, m)
                       /\ b = To(members[r] \ {v}, Count(viewers))
    OBVIOUS
  <2>9. viewers \in SUBSET Socket
    BY <1>1, <1>3, <2>1, <2>4, RoomFields
  <2>10. /\ m \in ToPage /\ m.type \in Special /\ m.type \in Ends
         /\ Count(viewers) \in ToPage /\ Count(viewers).type \notin Special
    BY <2>8, <2>9, ToPageMessages, CountMessage DEF Special, Answers, Admitted, Ends
  <2>11. /\ a \in [Socket -> Seq(ToPage)] /\ b \in [Socket -> Seq(ToPage)]
         /\ Then(a, b) \in [Socket -> Seq(ToPage)] /\ Emit(Then(a, b))
    <3>1. a \in [Socket -> Seq(ToPage)] /\ b \in [Socket -> Seq(ToPage)]
      BY <2>8, <2>10, ToType
    <3>2. Emit(Then(a, b))
      BY <2>1, <2>4, <2>8 DEF kickViewer
    <3> QED BY <3>1, <3>2, ThenType
  <2>12. ASSUME NEW p \in Page
         PROVE  /\ SocketOf(p) # v => Quietly(p)
                /\ SocketOf(p) = v => Gets(p, m)
    <3>1. PICK u \in Socket : u = SocketOf(p)
      BY <1>1, CurrentSocket
    <3>2. /\ Then(a, b)[u] = a[u] \o b[u] /\ a[u] \in Seq(ToPage) /\ b[u] \in Seq(ToPage)
          /\ \A A : Has(Then(a, b)[u], A) <=> Has(a[u], A) \/ Has(b[u], A)
      BY <2>11, ThenQueue
    <3>3. ~Has(b[u], Special)
      BY <2>8, <2>10, ToQueue
    <3>4. CASE u # v
      <4>1. ~Has(a[u], Special)
        BY SMTT(30), <2>8, <3>4, ToQueue
      <4> QED BY <1>1, <2>11, <3>1, <3>2, <3>3, <3>4, <4>1, EmitQuiet
    <3>5. CASE u = v
      <4>1. a[u] = <<m>>
        BY <2>8, <3>5, ToQueue
      <4>2. Then(a, b)[SocketOf(p)] = <<m>> \o b[u]
        BY <3>1, <3>2, <4>1
      <4>3. Gets(p, m)
        BY <1>1, <2>10, <2>11, <3>2, <3>3, <4>2, EmitGets
      <4> QED BY <3>1, <3>5, <4>3
    <3> QED BY <3>4, <3>5
  <2> QED BY <1>1, <1>3, <2>3, <2>7, <2>10, <2>12, RequestEffect, ViewerGoesStream
<1>5. CASE ~(IsMine(s) /\ v \in room[r].viewers)
  BY <1>1, <1>2, <1>5, NothingDone DEF handleKickViewer
<1> QED BY <1>4, <1>5

LEMMA handleDisconnectStream ==
  ASSUME TypeOK, StreamInv, NEW s \in Socket, ServerStep(s), handleDisconnect(s)
  PROVE  StreamInv'
<1>1. /\ Request(s, "disconnect") /\ UNCHANGED <<session, severed, overtaken, suspended>>
      /\ StreamRoomsTypeOK /\ RegistryInv /\ \A t \in Socket : SocketInv(t)
  BY DEF handleDisconnect, ServerStep, sessionVars, TypeOK, StreamInv
<1>2. PICK mine : mine = findRoomByBroadcaster(s)
  OBVIOUS
<1>3. CASE mine # None
  <2>1. mine \in rooms /\ closeRoom(mine)
    BY <1>1, <1>2, <1>3, Mine DEF handleDisconnect
  <2> QED BY <1>1, <2>1, RequestEffect, closeRoomStream
<1>4. CASE mine = None
  <2>1. broadcasterIndex[s] = None
    <3>1. broadcasterIndex[s] \in RoomId => broadcasterIndex[s] \in rooms
      BY DEF StreamInv, RegistryInv, Registered
    <3> QED BY <1>1, <1>2, <1>4, <3>1, StreamAssumption DEF findRoomByBroadcaster, StreamRoomsTypeOK
  <2>2. PICK left : left = [q \in RoomId |-> members[q] \ {s}]
    OBVIOUS
  <2>3. PICK r : r = viewerIndex[s]
    OBVIOUS
  <2>4. removeViewer(s) /\ members' = left
    BY <1>2, <1>4, <2>2 DEF handleDisconnect
  <2>5. \A q \in RoomId : /\ q \in rooms => members'[q] = members[q] \ {s}
                          /\ room[q] = None => members'[q] = {}
    BY <1>1, <2>2, <2>4 DEF RegistryInv, MembersInv
  <2>6. /\ r \in rooms => setStreamViewerCount(r, room[r].viewers \ {s})
        /\ r \notin rooms => UNCHANGED <<toPage, streamStats>>
    BY <1>2, <1>4, <2>2, <2>3 DEF handleDisconnect
  <2>7. /\ RegistryInv' /\ \A q \in RoomId : room'[q] = None <=> room[q] = None
        /\ \A t \in Socket : /\ broadcasterIndex'[t] = broadcasterIndex[t]
                             /\ viewerIndex'[t] = IF t = s THEN None ELSE viewerIndex[t]
    BY <1>1, <2>1, <2>3, <2>4, <2>5, <2>6, removeViewerRegistry
  <2>8. ASSUME NEW p \in Page PROVE Quietly(p)
    <3>1. CASE r \in rooms
      <4>1. r \in RoomId /\ room[r] # None
        BY <1>1, <3>1 DEF StreamRoomsTypeOK
      <4>2. PICK viewers : viewers = room[r].viewers \ {s}
        OBVIOUS
      <4>3. viewers \in SUBSET Socket
        BY <1>1, <4>1, <4>2, RoomFields
      <4>4. PICK m, a, b : /\ m = [type |-> "VIEWER_LEFT", viewer |-> s]
                           /\ a = To({room[r].broadcaster}, m)
                           /\ b = To(left[r], Count(viewers))
        OBVIOUS
      <4>5. /\ m \in ToPage /\ m.type \notin Special
            /\ Count(viewers) \in ToPage /\ Count(viewers).type \notin Special
        BY <4>3, <4>4, ToPageMessages, CountMessage DEF Special, Answers, Admitted, Ends
      <4>6. a \in [Socket -> Seq(ToPage)] /\ b \in [Socket -> Seq(ToPage)]
        BY <4>4, <4>5, ToType
      <4>7. Emit(Then(a, b))
        BY <1>2, <1>4, <2>2, <2>3, <3>1, <4>2, <4>4 DEF handleDisconnect
      <4>8. PICK u \in Socket : u = SocketOf(p)
        BY <1>1, CurrentSocket
      <4>9. ~Has(a[u], Special) /\ ~Has(b[u], Special)
        BY <4>4, <4>5, ToQueue
      <4>10. ~Has(Then(a, b)[u], Special) /\ Then(a, b) \in [Socket -> Seq(ToPage)]
        BY <4>6, <4>9, ThenQueue, ThenType
      <4> QED BY <1>1, <4>7, <4>8, <4>10, EmitQuiet
    <3>2. CASE r \notin rooms
      BY <1>1, <2>6, <3>2, Unsent
    <3> QED BY <3>1, <3>2
  <2>9. \A p \in Page : SocketOf(p) # s
    <3>1. Has(toServer[s], {"disconnect"})
      BY <1>1, RequestEffect
    <3> QED BY <1>1, <3>1 DEF SocketInv, SocketOf
  <2> QED BY <1>1, <2>1, <2>7, <2>8, <2>9, RequestEffect, ViewerGoesStream
<1> QED BY <1>3, <1>4


\* The stream is there, and its broadcaster is told.
LEMMA createRoomStream ==
  ASSUME TypeOK, StreamInv, NEW r \in RoomId, NEW s \in Socket, createRoom(r, s), room[r] = None,
         s[1] \in Host, Asks(s), ~Asks(s)', HeldInv',
         \A t \in Socket : Waits(t)' => Waits(t),
         UNCHANGED <<connection, session, severed>>, overtaken \subseteq overtaken',
         \A t \in Socket : t \in overtaken' => t \in overtaken \/ Waits(t),
         \A t \in Socket : \/ toServer'[t] = toServer[t]
                           \/ toServer[t] # <<>> /\ toServer'[t] = Tail(toServer[t])
  PROVE  StreamInv'
<1>1. StreamRoomsTypeOK /\ RegistryInv /\ \A t \in Socket : SocketInv(t)
  BY DEF TypeOK, StreamInv
<1>2. broadcasterIndex[s] = None
  BY <1>1 DEF SocketInv, Index
<1>3. RegistryInv'
  BY <1>1, <1>2, createRoomRegistry
<1>4. /\ broadcasterIndex' = [broadcasterIndex EXCEPT ![s] = r]
      /\ viewerIndex' = viewerIndex
  BY DEF createRoom
<1>5. \A t \in Socket \ {s} : SocketEffect(t) /\ (Asks(t)' => Asks(t)) /\ Index(t)' = Index(t)
  <2>1. \A t \in Socket \ {s} : /\ broadcasterIndex'[t] = broadcasterIndex[t]
                                /\ viewerIndex'[t] = viewerIndex[t]
    BY <1>1, <1>4 DEF StreamRoomsTypeOK
  <2> QED BY <1>1, <2>1, SocketStill DEF Index
<1>6. SocketEffect(s)
  BY <1>4 DEF SocketEffect, Asks
<1>7. Index(s)' = r
  BY <1>1, <1>4 DEF Index, StreamRoomsTypeOK
<1>8. PICK m : m = [type |-> "STREAM_CREATED", room |-> r]
  OBVIOUS
<1>9. /\ m \in ToPage /\ m.type \in Special /\ m.type \in Admitted
      /\ m.type = "STREAM_CREATED" /\ m.room = r /\ Emit(To({s}, m))
  BY <1>8, ToPageMessages DEF Special, Answers, Admitted, createRoom
<1>10. ASSUME NEW p \in Page PROVE PageEffect(p)
  <2>1. PICK u \in Socket : u = SocketOf(p)
    BY <1>1, CurrentSocket
  <2>2. CASE u = s
    <3>1. Gets(p, m) /\ p \in Host
      BY <1>1, <1>9, <2>1, <2>2, EmitOne DEF SocketOf
    <3> QED BY <1>7, <1>9, <2>1, <2>2, <3>1 DEF PageEffect
  <2>3. CASE u # s
    <3>1. Quietly(p)
      BY <1>1, <1>9, <2>1, <2>3, EmitOne
    <3> QED BY <1>5, <2>1, <2>3, <3>1 DEF PageEffect
  <2> QED BY <2>2, <2>3
<1> QED BY <1>3, <1>5, <1>6, <1>10, ServerEffects

\* The viewer is in, or is told so though the stream has ended.
LEMMA addViewerStream ==
  ASSUME TypeOK, StreamInv, NEW r \in RoomId, NEW s \in Socket, addViewer(r, s), room[r] # None,
         s[1] \notin Host, Asks(s), ~Asks(s)', suspended' \subseteq suspended,
         UNCHANGED <<connection, session, severed>>, overtaken \subseteq overtaken',
         \A t \in Socket : t \in overtaken' => t \in overtaken \/ Waits(t),
         r \in rooms \/ s \in overtaken',
         \A t \in Socket : \/ toServer'[t] = toServer[t]
                           \/ toServer[t] # <<>> /\ toServer'[t] = Tail(toServer[t])
  PROVE  StreamInv'
<1>1. StreamRoomsTypeOK /\ RegistryInv /\ HeldInv /\ \A t \in Socket : SocketInv(t)
  BY DEF TypeOK, StreamInv
<1>2. viewerIndex[s] = None
  BY <1>1 DEF SocketInv, Index
<1>3. RegistryInv' /\ \A q \in RoomId : room'[q] = None <=> room[q] = None
  BY <1>1, <1>2, addViewerRegistry
<1>4. HeldInv' /\ \A t \in Socket : Waits(t)' => Waits(t)
  BY <1>1, <1>3, HeldSame
<1>5. /\ viewerIndex' = IF r \in rooms THEN [viewerIndex EXCEPT ![s] = r] ELSE viewerIndex
      /\ broadcasterIndex' = broadcasterIndex
  BY DEF addViewer
<1>6. \A t \in Socket \ {s} : SocketEffect(t) /\ (Asks(t)' => Asks(t)) /\ Index(t)' = Index(t)
  <2>1. \A t \in Socket \ {s} : /\ broadcasterIndex'[t] = broadcasterIndex[t]
                                /\ viewerIndex'[t] = viewerIndex[t]
    BY <1>1, <1>5 DEF StreamRoomsTypeOK
  <2> QED BY <1>1, <1>4, <2>1, SocketStill DEF Index
<1>7. SocketEffect(s)
  BY <1>5 DEF SocketEffect, Asks
<1>8. Index(s)' = IF r \in rooms THEN r ELSE None
  BY <1>1, <1>2, <1>5 DEF Index, StreamRoomsTypeOK
<1>9. PICK viewers : viewers = room[r].viewers \cup (IF r \in rooms THEN {s} ELSE {})
  OBVIOUS
<1>10. viewers \in SUBSET Socket
  BY <1>1, <1>9, RoomFields
<1>11. PICK m, n : /\ m = [type |-> "STREAM_JOINED", room |-> r,
                           broadcaster |-> room[r].broadcaster,
                           count |-> Cardinality(viewers), track |-> room[r].track]
                   /\ n = [type |-> "VIEWER_JOINED", viewer |-> s]
  OBVIOUS
<1>12. /\ m \in ToPage /\ m.type \in Special /\ m.type \in Admitted
       /\ m.type # "STREAM_CREATED" /\ m.room = r
       /\ n \in ToPage /\ n.type \notin Special
       /\ Count(viewers) \in ToPage /\ Count(viewers).type \notin Special
  <2>1. m \in ToPage /\ m.type = "STREAM_JOINED" /\ m.room = r
    BY <1>1, <1>10, <1>11, RoomFields, Counted, ToPageMessages
  <2>2. n \in ToPage /\ n.type = "VIEWER_JOINED"
    BY <1>11, ToPageMessages
  <2> QED BY <1>10, <2>1, <2>2, CountMessage DEF Special, Answers, Admitted, Ends
<1>13. PICK a, b, c : /\ a = To({s}, m) /\ b = To({room[r].broadcaster}, n)
                      /\ c = To(members[r] \cup {s}, Count(viewers))
  OBVIOUS
<1>14. PICK d : d = Then(b, c)
  OBVIOUS
<1>15. /\ a \in [Socket -> Seq(ToPage)] /\ b \in [Socket -> Seq(ToPage)]
       /\ c \in [Socket -> Seq(ToPage)]
  BY <1>12, <1>13, ToType
<1>16. d \in [Socket -> Seq(ToPage)] /\ Then(a, d) \in [Socket -> Seq(ToPage)]
  <2>1. d \in [Socket -> Seq(ToPage)]
    BY <1>14, <1>15, ThenType
  <2> QED BY <1>15, <2>1, ThenType
<1>17. Emit(Then(a, d))
  BY <1>9, <1>11, <1>13, <1>14 DEF addViewer
<1>18. ASSUME NEW p \in Page PROVE PageEffect(p)
  <2>1. PICK u \in Socket : u = SocketOf(p)
    BY <1>1, CurrentSocket
  <2>2. ~Has(d[u], Special) /\ d[u] \in Seq(ToPage)
    <3>1. ~Has(b[u], Special) /\ ~Has(c[u], Special)
      BY <1>12, <1>13, ToQueue
    <3> QED BY <1>14, <1>15, <1>16, <3>1, ThenQueue
  <2>3. /\ Then(a, d)[u] = a[u] \o d[u]
        /\ \A A : Has(Then(a, d)[u], A) <=> Has(a[u], A) \/ Has(d[u], A)
    BY <1>15, <1>16, ThenQueue
  <2>4. CASE u = s
    <3>1. a[u] = <<m>>
      BY <1>13, <2>4, ToQueue
    <3>2. Then(a, d)[SocketOf(p)] = <<m>> \o d[u]
      BY <2>1, <2>3, <3>1
    <3>3. Gets(p, m)
      BY <1>1, <1>12, <1>16, <1>17, <2>2, <3>2, EmitGets
    <3>4. p \notin Host
      BY <2>1, <2>4 DEF SocketOf
    <3> QED BY <1>8, <1>12, <2>1, <2>4, <3>3, <3>4 DEF PageEffect
  <2>5. CASE u # s
    <3>1. ~Has(a[u], Special)
      BY <1>13, <2>5, ToQueue
    <3>2. ~Has(Then(a, d)[SocketOf(p)], Special)
      BY <2>1, <2>2, <2>3, <3>1
    <3>3. Quietly(p)
      BY <1>1, <1>16, <1>17, <3>2, EmitQuiet
    <3> QED BY <1>6, <2>1, <2>5, <3>3 DEF PageEffect
  <2> QED BY <2>4, <2>5
<1> QED BY <1>3, <1>4, <1>6, <1>7, <1>18, ServerEffects

\* A stream that is not there, or a password that is wrong.
LEMMA RefusedStream ==
  ASSUME TypeOK, StreamInv, NEW s \in Socket, Emit(To({s}, [type |-> "JOIN_ERROR"])),
         s[1] \notin Host, Asks(s), ~Asks(s)', suspended' \subseteq suspended,
         UNCHANGED <<serviceVars, members, streamStats>>,
         UNCHANGED <<connection, session, severed>>, overtaken \subseteq overtaken',
         \A t \in Socket : t \in overtaken' => t \in overtaken \/ Waits(t),
         \A t \in Socket : \/ toServer'[t] = toServer[t]
                           \/ toServer[t] # <<>> /\ toServer'[t] = Tail(toServer[t])
  PROVE  StreamInv'
<1>1. StreamRoomsTypeOK /\ RegistryInv /\ HeldInv /\ \A t \in Socket : SocketInv(t)
  BY DEF TypeOK, StreamInv
<1>2. RegistryInv' /\ \A q \in RoomId : room'[q] = None <=> room[q] = None
  BY <1>1, RegistrySame
<1>3. HeldInv' /\ \A t \in Socket : Waits(t)' => Waits(t)
  BY <1>1, <1>2, HeldSame
<1>4. UNCHANGED <<broadcasterIndex, viewerIndex>>
  BY DEF serviceVars
<1>5. \A t \in Socket : SocketEffect(t) /\ (Asks(t)' => Asks(t)) /\ Index(t)' = Index(t)
  BY <1>1, <1>3, <1>4, SocketStill DEF Index
<1>6. PICK m : m = [type |-> "JOIN_ERROR"]
  OBVIOUS
<1>7. m \in ToPage /\ m.type \in Special /\ m.type = "JOIN_ERROR" /\ Emit(To({s}, m))
  BY <1>6, ToPageMessages DEF Special, Answers
<1>8. ASSUME NEW p \in Page PROVE PageEffect(p)
  <2>1. PICK u \in Socket : u = SocketOf(p)
    BY <1>1, CurrentSocket
  <2>2. CASE u = s
    <3>1. Gets(p, m) /\ p \notin Host
      BY <1>1, <1>7, <2>1, <2>2, EmitOne DEF SocketOf
    <3>2. Index(u)' = None
      BY <1>1, <1>5, <2>2 DEF SocketInv
    <3> QED BY <1>7, <2>1, <2>2, <3>1, <3>2 DEF PageEffect
  <2>3. CASE u # s
    <3>1. Quietly(p)
      BY <1>1, <1>7, <2>1, <2>3, EmitOne
    <3> QED BY <1>5, <2>1, <3>1 DEF PageEffect
  <2> QED BY <2>2, <2>3
<1> QED BY <1>2, <1>3, <1>5, <1>8, ServerEffects

\* The password is hashed or compared meanwhile.
LEMMA SuspendStream ==
  ASSUME TypeOK, StreamInv, NEW s \in Socket, NEW type \in Ask, Request(s, type),
         NEW h, suspended' = suspended \cup {h}, h.socket = s, h.room \in RoomId,
         h.op = "create" <=> room[h.room] = None, h.op = "create" <=> s[1] \in Host,
         \A g \in suspended : (h.op = "create" \/ g.op = "create") => g.room # h.room,
         UNCHANGED <<toPage, serviceVars, members, streamStats>>,
         UNCHANGED <<session, severed, overtaken>>
  PROVE  StreamInv'
<1>1. StreamRoomsTypeOK /\ RegistryInv /\ HeldInv /\ \A t \in Socket : SocketInv(t)
  BY DEF TypeOK, StreamInv
<1>2. RegistryInv' /\ \A q \in RoomId : room'[q] = None <=> room[q] = None
  BY <1>1, RegistrySame
<1>3. /\ connection' = connection /\ Has(toServer[s], Ask) /\ ~Has(toServer'[s], Ask) /\ ~Waits(s)
      /\ \A t \in Socket : /\ \/ toServer'[t] = toServer[t]
                              \/ toServer[t] # <<>> /\ toServer'[t] = Tail(toServer[t])
                           /\ t # s => toServer'[t] = toServer[t]
      /\ \A t \in Socket : \A A : Has(toServer'[t], A) => Has(toServer[t], A)
  BY <1>1, RequestEffect
<1>4. HeldInv'
  <2>1. \A g \in suspended : g.socket # s
    BY <1>3 DEF Waits
  <2> QED BY <1>1, <1>2, <2>1, SuspendedFields DEF HeldInv
<1>5. \A t \in Socket : t # s => (Waits(t)' => Waits(t))
  BY DEF Waits
<1>6. UNCHANGED <<broadcasterIndex, viewerIndex>>
  BY DEF serviceVars
<1>7. \A t \in Socket : (Asks(t)' => Asks(t)) /\ Index(t)' = Index(t)
  BY <1>3, <1>5, <1>6 DEF Asks, Index
<1>8. \A t \in Socket \ {s} : SocketEffect(t)
  BY <1>1, <1>3, <1>5, <1>6, SocketStill
<1>9. SocketEffect(s)
  BY <1>3, <1>6 DEF SocketEffect, Asks
<1>10. ASSUME NEW p \in Page PROVE PageEffect(p)
  <2>1. PICK u \in Socket : u = SocketOf(p)
    BY <1>1, CurrentSocket
  <2>2. Quietly(p)
    BY <1>1, Unsent
  <2> QED BY <1>7, <2>1, <2>2 DEF PageEffect
<1> QED BY <1>2, <1>3, <1>4, <1>8, <1>9, <1>10, ServerEffects


\* A socket that asks, and what it asks for.
LEMMA AskingSocket ==
  ASSUME StreamRoomsTypeOK, NEW s \in Socket, SocketInv(s), NEW type \in Ask, Request(s, type)
  PROVE  /\ Asks(s) /\ (suspended' = suspended => ~Asks(s)')
         /\ type = "CREATE_STREAM" <=> s[1] \in Host
<1>1. /\ Has(toServer[s], {type}) /\ Has(toServer[s], Ask) /\ ~Has(toServer'[s], Ask) /\ ~Waits(s)
  BY RequestEffect
<1>2. type = "CREATE_STREAM" <=> s[1] \in Host
  BY <1>1 DEF SocketInv, Ask
<1> QED BY <1>1, <1>2 DEF Asks, Waits

LEMMA handleCreateStreamStream ==
  ASSUME TypeOK, StreamInv, NEW s \in Socket, ServerStep(s), handleCreateStream(s)
  PROVE  StreamInv'
<1>1. /\ Request(s, "CREATE_STREAM") /\ UNCHANGED <<session, severed, overtaken>>
      /\ "CREATE_STREAM" \in Ask
      /\ StreamRoomsTypeOK /\ HeldInv /\ \A t \in Socket : SocketInv(t)
  BY DEF handleCreateStream, ServerStep, sessionVars, TypeOK, StreamInv, Ask
<1>2. PICK r \in RoomId :
        /\ Unused(r)
        /\ IF r \in Private
           THEN /\ suspended' = suspended \cup {[op |-> "create", socket |-> s, room |-> r]}
                /\ UNCHANGED <<toPage, serviceVars, members, streamStats>>
           ELSE createRoom(r, s) /\ UNCHANGED suspended
  BY DEF handleCreateStream
<1>3. room[r] = None /\ \A h \in suspended : h.room # r
  BY <1>2 DEF Unused
<1>4. Asks(s) /\ (suspended' = suspended => ~Asks(s)') /\ s[1] \in Host
  BY <1>1, AskingSocket
<1>5. CASE r \in Private
  <2>1. PICK h : h = [op |-> "create", socket |-> s, room |-> r]
    OBVIOUS
  <2>2. /\ h.op = "create" /\ h.socket = s /\ h.room = r
        /\ suspended' = suspended \cup {h} /\ UNCHANGED <<toPage, serviceVars, members, streamStats>>
    BY <1>2, <1>5, <2>1
  <2>3. \A g \in suspended : g.room # h.room
    BY <1>3, <2>2
  <2> QED BY <1>1, <1>3, <1>4, <2>2, <2>3, SuspendStream
<1>6. CASE r \notin Private
  <2>1. createRoom(r, s) /\ suspended' = suspended
    BY <1>2, <1>6
  <2>2. room'[r] # None /\ \A q \in RoomId \ {r} : room'[q] = room[q]
    <3>1. broadcasterIndex[s] = None
      BY <1>1, <1>4 DEF SocketInv, Index
    <3> QED BY <1>1, <1>3, <2>1, <3>1, createRoomRegistry DEF StreamInv
  <2>3. HeldInv'
    BY <1>1, <1>3, <2>1, <2>2, SuspendedFields DEF HeldInv
  <2>4. \A t \in Socket : Waits(t)' => Waits(t)
    BY <2>1 DEF Waits
  <2>5. /\ connection' = connection
        /\ \A t \in Socket : \/ toServer'[t] = toServer[t]
                             \/ toServer[t] # <<>> /\ toServer'[t] = Tail(toServer[t])
    BY <1>1, RequestEffect
  <2> QED BY <1>1, <1>3, <1>4, <2>1, <2>3, <2>4, <2>5, createRoomStream
<1> QED BY <1>5, <1>6

LEMMA joinStreamHandled ==
  ASSUME TypeOK, StreamInv, NEW s \in Socket, ServerStep(s), joinRefused(s) \/ handleJoinStream(s)
  PROVE  StreamInv'
<1>1. /\ Request(s, "JOIN_STREAM") /\ UNCHANGED <<session, severed, overtaken>>
      /\ "JOIN_STREAM" \in Ask
      /\ StreamRoomsTypeOK /\ HeldInv /\ \A t \in Socket : SocketInv(t)
  BY DEF joinRefused, handleJoinStream, ServerStep, sessionVars, TypeOK, StreamInv, Ask
<1>2. PICK r \in RoomId : r = Head(toServer[s]).room
  BY <1>1, RequestType, ToServerFields
<1>3. Asks(s) /\ (suspended' = suspended => ~Asks(s)') /\ s[1] \notin Host
  BY <1>1, AskingSocket
<1>4. /\ connection' = connection
      /\ \A t \in Socket : \/ toServer'[t] = toServer[t]
                           \/ toServer[t] # <<>> /\ toServer'[t] = Tail(toServer[t])
  BY <1>1, RequestEffect
<1>5. CASE joinRefused(s)
  <2>1. UNCHANGED <<serviceVars, members, streamStats, suspended>>
    BY <1>5 DEF joinRefused, roomVars
  <2> QED BY <1>1, <1>3, <1>4, <1>5, <2>1, RefusedStream DEF joinRefused
<1>6. CASE handleJoinStream(s) /\ r \in Private
  <2>1. PICK h : h = [op |-> "join", socket |-> s, room |-> r]
    OBVIOUS
  <2>2. /\ h.op = "join" /\ h.socket = s /\ h.room = r /\ r \in rooms
        /\ suspended' = suspended \cup {h} /\ UNCHANGED <<toPage, serviceVars, members, streamStats>>
    BY <1>2, <1>6, <2>1 DEF handleJoinStream
  <2>3. room[r] # None
    BY <1>1, <2>2 DEF StreamRoomsTypeOK
  <2>4. \A g \in suspended : g.op = "create" => g.room # r
    BY <1>1, <2>3 DEF HeldInv
  <2> QED BY <1>1, <1>2, <1>3, <2>2, <2>3, <2>4, SuspendStream
<1>7. CASE handleJoinStream(s) /\ r \notin Private
  <2>1. addViewer(r, s) /\ suspended' = suspended /\ r \in rooms
    BY <1>2, <1>7 DEF handleJoinStream
  <2>2. room[r] # None
    BY <1>1, <2>1 DEF StreamRoomsTypeOK
  <2> QED BY <1>1, <1>3, <1>4, <2>1, <2>2, addViewerStream
<1> QED BY <1>5, <1>6, <1>7

\* A handler resumes: its socket asks no longer.
LEMMA ResumeSocket ==
  ASSUME TypeOK, StreamInv, NEW h \in suspended, Resume(h)
  PROVE  /\ UNCHANGED <<connection, toServer, session, severed>> /\ suspended' = suspended \ {h}
         /\ h.socket \in Socket /\ h.room \in RoomId /\ Asks(h.socket) /\ ~Asks(h.socket)'
         /\ overtaken \subseteq overtaken'
         /\ \A t \in Socket : t \in overtaken' => t \in overtaken \/ Waits(t)
         /\ \A t \in Socket : Waits(t)' => Waits(t)
         /\ h.op = "join" => h.room \in rooms \/ h.socket \in overtaken'
<1>1. /\ UNCHANGED <<connection, toServer, session, severed>> /\ suspended' = suspended \ {h}
  BY DEF Resume, Resumed, passwordHashed, passwordCompared, sessionVars
<1>2. h.socket \in Socket /\ h.room \in RoomId /\ Waits(h.socket)
  BY SuspendedFields DEF TypeOK, Waits
<1>3. ~Asks(h.socket)'
  <2>1. ~Has(toServer[h.socket], Ask)
    BY <1>2 DEF StreamInv, SocketInv
  <2>2. \A g \in suspended' : g.socket # h.socket
    BY <1>1 DEF StreamInv, HeldInv
  <2> QED BY <1>1, <2>1, <2>2 DEF Asks, Waits
<1>4. /\ overtaken \subseteq overtaken'
      /\ \A t \in Socket : t \in overtaken' => t \in overtaken \/ t = h.socket
      /\ h.op = "join" => h.room \in rooms \/ h.socket \in overtaken'
  BY DEF Resume
<1> QED BY <1>1, <1>2, <1>3, <1>4 DEF Asks, Waits

LEMMA ResumeStream ==
  ASSUME TypeOK, StreamInv, NEW h \in suspended, Resume(h)
  PROVE  StreamInv'
<1>1. PICK s, r : s = h.socket /\ r = h.room
  OBVIOUS
<1>2. /\ UNCHANGED <<connection, toServer, session, severed>> /\ suspended' = suspended \ {h}
      /\ s \in Socket /\ r \in RoomId /\ Asks(s) /\ ~Asks(s)'
      /\ overtaken \subseteq overtaken'
      /\ \A t \in Socket : t \in overtaken' => t \in overtaken \/ Waits(t)
      /\ \A t \in Socket : Waits(t)' => Waits(t)
      /\ h.op = "join" => r \in rooms \/ s \in overtaken'
  BY <1>1, ResumeSocket
<1>3. HeldInv /\ StreamRoomsTypeOK /\ SocketInv(s)
  BY <1>2 DEF StreamInv, TypeOK
<1>4. CASE passwordHashed(h)
  <2>1. createRoom(r, s) /\ h.op = "create"
    BY <1>1, <1>4 DEF passwordHashed
  <2>2. room[r] = None /\ s[1] \in Host /\ \A g \in suspended' : g.room # r
    BY <1>1, <1>2, <1>3, <2>1 DEF HeldInv
  <2>3. room'[r] # None /\ \A q \in RoomId \ {r} : room'[q] = room[q]
    <3>1. broadcasterIndex[s] = None
      BY <1>2, <1>3, <2>2 DEF SocketInv, Index
    <3> QED BY <1>2, <1>3, <2>1, <2>2, <3>1, createRoomRegistry DEF StreamInv
  <2>4. HeldInv'
    BY <1>2, <1>3, <2>2, <2>3, SuspendedFields DEF HeldInv
  <2> QED BY <1>2, <2>1, <2>2, <2>4, createRoomStream
<1>5. CASE passwordCompared(h)
  <2>1. h.op = "join" /\ suspended' \subseteq suspended
    BY <1>2, <1>5 DEF passwordCompared
  <2>2. s[1] \notin Host /\ room[r] # None
    BY <1>1, <1>3, <2>1 DEF HeldInv
  <2>3. CASE /\ Emit(To({s}, [type |-> "JOIN_ERROR"]))
             /\ UNCHANGED <<serviceVars, members, streamStats>>
    BY <1>2, <2>1, <2>2, <2>3, RefusedStream
  <2>4. CASE addViewer(r, s)
    BY <1>2, <2>1, <2>2, <2>4, addViewerStream
  <2> QED BY <1>1, <1>5, <2>3, <2>4 DEF passwordCompared
<1> QED BY <1>4, <1>5 DEF Resume, Resumed

LEMMA ServerStepStream ==
  ASSUME TypeOK, StreamInv, NEW s \in Socket, ServerStep(s)
  PROVE  StreamInv'
BY handleCreateStreamStream, joinStreamHandled, handleSdpStream, handleTrackStateStream,
   postsStream, handleKickViewerStream, handleEndStreamStream, handleDisconnectStream
   DEF ServerStep, Handler

-----------------------------------------------------------------------------
(* The steps of the pages.                                                   *)
OnlyPage(p) ==
  /\ UNCHANGED <<roomVars, overtaken>>
  /\ \A s \in Socket : s[1] # p => toServer'[s] = toServer[s]
  /\ \A q \in Page \ {p} : /\ connection'[q] = connection[q] /\ session'[q] = session[q]
                           /\ toPage'[q] = toPage[q] /\ (q \in severed' <=> q \in severed)

LEMMA OnlyPageStream ==
  ASSUME TypeOK, StreamInv, NEW p \in Page, OnlyPage(p),
         \A s \in Socket : s[1] = p => SocketInv(s)',
         LocalInv(p)', PageInv(p)', ToldInv(p)'
  PROVE  StreamInv'
<1>1. RegistryInv' /\ HeldInv'
  BY DEF StreamInv, OnlyPage, roomVars, serviceVars, RegistryInv, Registered, MembersInv, HeldInv
<1>2. \A s : /\ Waits(s)' <=> Waits(s)
             /\ Index(s)' = Index(s)
  BY DEF OnlyPage, roomVars, serviceVars, Waits, Index
<1>3. ASSUME NEW s \in Socket, s[1] # p PROVE SocketInv(s)'
  <2>1. toServer'[s] = toServer[s] /\ connection'[s[1]] = connection[s[1]] /\ UNCHANGED overtaken
        /\ UNCHANGED <<viewerIndex, broadcasterIndex>>
    BY <1>3, SocketFields DEF OnlyPage, roomVars, serviceVars
  <2> QED BY <1>2, <2>1 DEF StreamInv, SocketInv, SocketOf, Asks
<1>4. ASSUME NEW q \in Page \ {p} PROVE LocalInv(q)' /\ PageInv(q)' /\ ToldInv(q)'
  <2>1. /\ connection'[q] = connection[q] /\ session'[q] = session[q]
        /\ toPage'[q] = toPage[q] /\ (q \in severed' <=> q \in severed) /\ UNCHANGED overtaken
    BY <1>4 DEF OnlyPage
  <2>2. PICK u \in Socket : u = SocketOf(q) /\ u[1] = q
    BY CurrentSocket DEF TypeOK, SocketOf
  <2>3. u = SocketOf(q)' /\ toServer'[u] = toServer[u]
    BY <1>4, <2>1, <2>2 DEF SocketOf, OnlyPage
  <2>4. Asks(u)' <=> Asks(u)
    BY <1>2, <2>3 DEF Asks
  <2>5. /\ \A r : Shows(q, r)' <=> Shows(q, r)
        /\ Live(q)' <=> Live(q)
        /\ Pending(q)' <=> Pending(q)
    BY <2>1 DEF Shows, Live, Pending
  <2>6. LocalInv(q) /\ PageInv(q) /\ ToldInv(q)
    BY DEF StreamInv
  <2>7. LocalInv(q)'
    BY <2>1, <2>5, <2>6 DEF LocalInv
  <2>8. PageInv(q)'
    BY <1>2, <2>1, <2>2, <2>3, <2>4, <2>5, <2>6 DEF PageInv
  <2>9. ToldInv(q)'
    BY <1>2, <2>1, <2>2, <2>3, <2>5, <2>6 DEF ToldInv
  <2> QED BY <2>7, <2>8, <2>9
<1> QED BY <1>1, <1>3, <1>4 DEF StreamInv


\* A message of page p does not change what its sockets are known by, unless it asks.
LEMMA SendStep ==
  ASSUME TypeOK, StreamInv, NEW p \in Page, NEW m \in ToServer, Send(p, m),
         UNCHANGED <<connection, roomVars, overtaken>>,
         NEW s \in Socket, s = SocketOf(p), m.type # "disconnect",
         m.type \in Ask => ~Asks(s) /\ Index(s) = None /\ (m.type = "CREATE_STREAM" <=> p \in Host)
  PROVE  /\ \A t \in Socket : t[1] # p => toServer'[t] = toServer[t]
         /\ \A t \in Socket : t[1] = p => SocketInv(t)'
         /\ Asks(s)' <=> Asks(s) \/ m.type \in Ask
<1>1. toServer[s] \in Seq(ToServer) /\ s[1] = p /\ s = SocketOf(p)'
  BY DEF TypeOK, StreamRoomsTypeOK, SocketOf
<1>2. PICK q : q = toServer[s] \o <<m>>
  OBVIOUS
<1>3. Append(toServer[s], m) = q
  BY <1>1, <1>2
<1>4. toServer'[s] = q /\ \A t \in Socket \ {s} : toServer'[t] = toServer[t]
  BY <1>3 DEF Send, TypeOK, StreamRoomsTypeOK
<1>5. ToSet(toServer'[s]) = ToSet(toServer[s]) \cup {m}
  BY <1>1, <1>2, <1>4, SetMore
<1>6. \A A : Has(toServer'[s], A) <=> Has(toServer[s], A) \/ m.type \in A
  BY <1>5 DEF Has
<1>7. \A t : (Waits(t)' <=> Waits(t)) /\ Index(t)' = Index(t)
  BY DEF roomVars, serviceVars, Waits, Index
<1>8. Asks(s)' <=> Asks(s) \/ m.type \in Ask
  BY <1>6, <1>7 DEF Asks
<1>9. SocketInv(s)
  BY DEF StreamInv
<1>10. Apart(toServer'[s], Ask, Ask)
  <2>1. Apart(toServer[s], Ask, Ask)
    BY <1>9 DEF SocketInv
  <2>2. Has(toServer[s], Ask) => m.type \notin Ask
    BY DEF Asks
  <2> QED BY <1>1, <1>2, <1>4, <2>1, <2>2, ApartMore
<1>11. SocketInv(s)'
  <2>1. ~(s[2] > connection'[s[1]])
    BY <1>1 DEF TypeOK, StreamRoomsTypeOK, SocketOf
  <2>2. UNCHANGED <<broadcasterIndex, viewerIndex>>
    BY DEF roomVars, serviceVars
  <2>3. ~Has(toServer'[s], {"disconnect"})
    BY <1>1, <1>6, <1>9 DEF SocketInv
  <2>4. Asks(s)' => Index(s)' = None
    BY <1>7, <1>8, <1>9 DEF SocketInv
  <2>5. Has(toServer'[s], Ask) => ~Waits(s)'
    BY <1>6, <1>7, <1>9 DEF SocketInv, Asks
  <2>6. p \in Host => viewerIndex'[s] = None /\ ~Has(toServer'[s], {"JOIN_STREAM"})
    <3>1. p \in Host => m.type # "JOIN_STREAM"
      BY DEF Ask
    <3> QED BY <1>1, <1>6, <1>9, <2>2, <3>1 DEF SocketInv
  <2>7. p \notin Host => broadcasterIndex'[s] = None /\ ~Has(toServer'[s], {"CREATE_STREAM"})
    <3>1. p \notin Host => m.type # "CREATE_STREAM"
      BY DEF Ask
    <3> QED BY <1>1, <1>6, <1>9, <2>2, <3>1 DEF SocketInv
  <2> QED BY <1>1, <1>10, <2>1, <2>3, <2>4, <2>5, <2>6, <2>7 DEF SocketInv
<1>12. ASSUME NEW t \in Socket, t # s PROVE SocketInv(t)'
  <2>1. toServer'[t] = toServer[t] /\ UNCHANGED <<connection, overtaken, broadcasterIndex, viewerIndex>>
    BY <1>4, <1>12 DEF roomVars, serviceVars
  <2> QED BY <1>7, <2>1 DEF StreamInv, SocketInv, SocketOf, Asks
<1> QED BY <1>1, <1>4, <1>8, <1>11, <1>12

\* A page that sends nothing.
LEMMA SocketsSame ==
  ASSUME StreamInv, UNCHANGED <<connection, toServer, roomVars, overtaken>>
  PROVE  \A t \in Socket : SocketInv(t)' /\ (Asks(t)' <=> Asks(t)) /\ Index(t)' = Index(t)
<1>1. \A t : (Waits(t)' <=> Waits(t)) /\ Index(t)' = Index(t)
  BY DEF roomVars, serviceVars, Waits, Index
<1>2. UNCHANGED <<broadcasterIndex, viewerIndex>>
  BY DEF roomVars, serviceVars
<1> QED BY <1>1, <1>2 DEF StreamInv, SocketInv, SocketOf, Asks

\* What a page shows, asks and hears stays the same.
LEMMA PageKept ==
  ASSUME NEW p \in Page, LocalInv(p), PageInv(p), ToldInv(p),
         Alike(session'[p], session[p]), Captures(session'[p], session[p]),
         UNCHANGED <<connection, severed, overtaken>>,
         NEW s \in Socket, s = SocketOf(p), Index(s)' = Index(s), Asks(s)' <=> Asks(s),
         \A A \in SUBSET Special : Has(toPage'[p], A) <=> Has(toPage[p], A),
         \A A, B \in SUBSET Special : Apart(toPage[p], A, B) => Apart(toPage'[p], A, B),
         \A n : n.type \in Special => (n \in ToSet(toPage'[p]) <=> n \in ToSet(toPage[p]))
  PROVE  LocalInv(p)' /\ PageInv(p)' /\ ToldInv(p)'
<1>1. s = SocketOf(p)'
  BY DEF SocketOf
<1>2. /\ session'[p].role = session[p].role /\ session'[p].room = session[p].room
      /\ session'[p].creating = session[p].creating /\ session'[p].joining = session[p].joining
      /\ session'[p].asking = session[p].asking /\ session'[p].posts = session[p].posts
  BY DEF Alike
<1>3. \A r : Shows(p, r)' <=> Shows(p, r)
  BY <1>2 DEF Shows, Special, Answers
<1>4. (Live(p)' <=> Live(p)) /\ (Pending(p)' <=> Pending(p))
  BY <1>2, SpecialTypes DEF Live, Pending
<1>5. LocalInv(p)'
  BY <1>2, <1>4 DEF LocalInv, Captures, Pending
<1>6. /\ Asks(s)' \/ Has(toPage'[p], Answers) => Pending(p)' /\ ~session'[p].asking
      /\ Has(toPage'[p], Answers) => ~Asks(s)'
      /\ Apart(toPage'[p], Answers, Answers)
      /\ Has(toPage'[p], {"STREAM_CREATED"}) => p \in Host
      /\ Has(toPage'[p], {"STREAM_JOINED", "JOIN_ERROR"}) => p \notin Host
  BY <1>2, <1>4, SpecialTypes DEF PageInv
<1>7. /\ Has(toPage'[p], Ends \cup {"POST"}) => Live(p)'
      /\ Apart(toPage'[p], Ends, Answers \cup Ends \cup {"POST"})
      /\ Apart(toPage'[p], {"POST"}, Answers)
  BY <1>4, SpecialTypes DEF PageInv
<1>8. Index(s)' # None => Shows(p, Index(s))' /\ ~Has(toPage'[p], Ends)
  BY <1>3, SpecialTypes DEF PageInv
<1>9. \A m \in ToSet(toPage'[p]) : m.type = "POST" => \A r \in RoomId : Shows(p, r)' => m.post.room = r
  BY <1>3 DEF PageInv, Special
<1>10. \A post \in session'[p].posts : post.room = session'[p].room
  BY <1>2 DEF PageInv
<1>11. PageInv(p)'
  BY <1>1, <1>6, <1>7, <1>8, <1>9, <1>10 DEF PageInv
<1>12. ToldInv(p)'
  BY <1>1, <1>3, SpecialTypes DEF ToldInv
<1> QED BY <1>5, <1>11, <1>12

LEMMA QuietStepStream ==
  ASSUME TypeOK, StreamInv, NEW p \in Page, QuietStep(p), UNCHANGED <<overtaken, kicked>>
  PROVE  StreamInv'
<1>1. PICK s \in Socket : s = SocketOf(p)
  BY CurrentSocket DEF TypeOK
<1>2. PICK x \in Session : Become(p, x) /\ Same(x, session[p]) /\ Captures(x, session[p])
  BY DEF QuietStep
<1>3. session'[p] = x /\ \A q \in Page \ {p} : session'[q] = session[q]
  BY <1>2, SessionBecomes DEF TypeOK
<1>4. UNCHANGED <<connection, toPage, roomVars, severed, overtaken>>
  BY DEF QuietStep
<1>5. /\ \A t \in Socket : t[1] # p => toServer'[t] = toServer[t]
      /\ \A t \in Socket : t[1] = p => SocketInv(t)'
      /\ Asks(s)' <=> Asks(s)
  <2>1. CASE UNCHANGED toServer
    BY <1>4, <2>1, SocketsSame
  <2>2. ASSUME NEW m \in ToServer, m.type \notin Ask \cup {"disconnect"}, Send(p, m)
        PROVE  /\ \A t \in Socket : t[1] # p => toServer'[t] = toServer[t]
               /\ \A t \in Socket : t[1] = p => SocketInv(t)'
               /\ Asks(s)' <=> Asks(s)
    BY <1>1, <1>4, <2>2, SendStep
  <2> QED BY <2>1, <2>2 DEF QuietStep
<1>6. Index(s)' = Index(s)
  BY <1>4 DEF Index, roomVars, serviceVars
<1>7. LocalInv(p) /\ PageInv(p) /\ ToldInv(p)
  BY DEF StreamInv
<1>8. LocalInv(p)' /\ PageInv(p)' /\ ToldInv(p)'
  BY <1>1, <1>2, <1>3, <1>4, <1>5, <1>6, <1>7, PageKept DEF Same
<1>9. OnlyPage(p)
  BY <1>3, <1>4, <1>5 DEF OnlyPage
<1> QED BY <1>5, <1>8, <1>9, OnlyPageStream

\* A page reads a message.
LEMMA ReceiveStep ==
  ASSUME TypeOK, StreamInv, NEW p \in Page, NEW type, Receive(p, type), NEW x, Become(p, x),
         UNCHANGED overtaken, \A q \in Page \ {p} : q \in severed' <=> q \in severed
  PROVE  /\ toPage[p] \in Seq(ToPage) /\ toPage'[p] \in Seq(ToPage)
         /\ DOMAIN toPage'[p] = 1..Len(toPage'[p])
         /\ Head(toPage[p]) \in ToPage /\ Head(toPage[p]).type = type
         /\ ToSet(toPage[p]) = {Head(toPage[p])} \cup ToSet(toPage'[p])
         /\ \A A, B : Apart(toPage[p], A, B) =>
              Apart(toPage'[p], A, B) /\ (type \in A => ~Has(toPage'[p], B))
         /\ UNCHANGED <<connection, toServer, roomVars>>
         /\ session'[p] = x
         /\ OnlyPage(p)
         /\ \A s \in Socket : SocketInv(s)' /\ (Asks(s)' <=> Asks(s)) /\ Index(s)' = Index(s)
         /\ LocalInv(p) /\ PageInv(p) /\ ToldInv(p)
<1> USE DEF TypeOK
<1>1. /\ toPage[p] \in Seq(ToPage) /\ toPage[p] # <<>> /\ toPage'[p] = Tail(toPage[p])
      /\ \A q \in Page \ {p} : toPage'[q] = toPage[q]
      /\ UNCHANGED <<connection, toServer, roomVars>>
  BY DEF Receive, StreamRoomsTypeOK
<1>2. ToSet(toPage[p]) = {Head(toPage[p])} \cup ToSet(toPage'[p])
  BY <1>1, SetTail
<1>3. Head(toPage[p]) \in ToPage /\ Head(toPage[p]).type = type
  BY ReceiveType
<1>4. toPage'[p] \in Seq(ToPage) /\ DOMAIN toPage'[p] = 1..Len(toPage'[p])
  BY <1>1
<1>5. \A A, B : Apart(toPage[p], A, B) =>
        Apart(toPage'[p], A, B) /\ (type \in A => ~Has(toPage'[p], B))
  BY <1>1, <1>3, ApartTail
<1>6. session'[p] = x /\ \A q \in Page \ {p} : session'[q] = session[q]
  BY SessionBecomes
<1>7. OnlyPage(p)
  BY <1>1, <1>6 DEF OnlyPage
<1>8. \A s \in Socket : SocketInv(s)' /\ (Asks(s)' <=> Asks(s)) /\ Index(s)' = Index(s)
  BY <1>1, SocketsSame
<1> QED
  BY <1>1, <1>2, <1>3, <1>4, <1>5, <1>6, <1>7, <1>8 DEF StreamInv

LEMMA QuietReadStream ==
  ASSUME TypeOK, StreamInv, NEW p \in Page, QuietRead(p), UNCHANGED <<overtaken, kicked>>
  PROVE  StreamInv'
<1>1. PICK type \in {"VIEWER_JOINED", "VIEWER_LEFT", "VIEWER_COUNT", "TRACK_STATE",
                     "SDP_OFFER", "SDP_ANSWER"}, x \in Session :
        /\ Receive(p, type) /\ Become(p, x) /\ UNCHANGED severed
        /\ Alike(x, session[p]) /\ Captures(x, session[p])
  BY DEF QuietRead
<1>2. PICK s \in Socket : s = SocketOf(p)
  BY CurrentSocket DEF TypeOK
<1>3. /\ ToSet(toPage[p]) = {Head(toPage[p])} \cup ToSet(toPage'[p])
      /\ Head(toPage[p]).type = type
      /\ \A A, B : Apart(toPage[p], A, B) => Apart(toPage'[p], A, B)
      /\ UNCHANGED <<connection, toServer, roomVars>>
      /\ session'[p] = x /\ OnlyPage(p)
      /\ \A t \in Socket : SocketInv(t)' /\ (Asks(t)' <=> Asks(t)) /\ Index(t)' = Index(t)
      /\ LocalInv(p) /\ PageInv(p) /\ ToldInv(p)
  BY <1>1, ReceiveStep
<1>4. type \notin Special
  BY DEF Special, Answers, Admitted, Ends
<1>5. /\ \A A \in SUBSET Special : Has(toPage'[p], A) <=> Has(toPage[p], A)
      /\ \A n : n.type \in Special => (n \in ToSet(toPage'[p]) <=> n \in ToSet(toPage[p]))
  BY <1>3, <1>4 DEF Has
<1>6. LocalInv(p)' /\ PageInv(p)' /\ ToldInv(p)'
  BY <1>1, <1>2, <1>3, <1>5, PageKept
<1> QED BY <1>3, <1>6, OnlyPageStream


\* A page that shows no stream and waits for none.
LEMMA NothingOpen ==
  ASSUME TypeOK, StreamInv, NEW p \in Page, session[p].role = "none",
         ~Pending(p) \/ session[p].asking, NEW s \in Socket, s = SocketOf(p)
  PROVE  /\ ~Asks(s) /\ ~Has(toPage[p], Answers) /\ ~Has(toPage[p], Ends \cup {"POST"})
         /\ Index(s) = None /\ LocalInv(p) /\ PageInv(p)
<1>1. LocalInv(p) /\ PageInv(p)
  BY DEF StreamInv
<1>2. ~Asks(s) /\ ~Has(toPage[p], Answers)
  BY <1>1 DEF PageInv
<1>3. ~Live(p)
  BY <1>2 DEF Live, Has, Answers
<1> QED BY <1>1, <1>2, <1>3, ShowsLive DEF PageInv

\* Such a page may ask.
LEMMA StartStep ==
  ASSUME TypeOK, StreamInv, NEW p \in Page, session[p].role = "none",
         ~Pending(p) \/ session[p].asking, NEW x, Become(p, x),
         x.role = "none", x.room = session[p].room, x.posts = session[p].posts,
         UNCHANGED <<connection, toPage, roomVars, severed, overtaken>>, LocalInv(p)',
         NEW s \in Socket, s = SocketOf(p),
         Asks(s)' => (x.creating \/ x.joining) /\ ~x.asking,
         \A t \in Socket : t[1] # p => toServer'[t] = toServer[t],
         \A t \in Socket : t[1] = p => SocketInv(t)'
  PROVE  StreamInv'
<1>1. /\ ~Asks(s) /\ ~Has(toPage[p], Answers) /\ ~Has(toPage[p], Ends \cup {"POST"})
      /\ Index(s) = None /\ LocalInv(p) /\ PageInv(p)
  BY NothingOpen
<1>2. session'[p] = x /\ \A q \in Page \ {p} : session'[q] = session[q]
  BY SessionBecomes DEF TypeOK
<1>3. Index(s)' = None /\ s = SocketOf(p)' /\ toPage'[p] = toPage[p]
  BY <1>1 DEF Index, roomVars, serviceVars, SocketOf
<1>4. (Pending(p)' /\ ~session'[p].asking) \/ ~Asks(s)'
  BY <1>2 DEF Pending
<1>5. ~Has(toPage[p], {"STREAM_CREATED"}) /\ ~Has(toPage[p], {"STREAM_JOINED", "JOIN_ERROR"})
  BY <1>1 DEF Has, Answers, Admitted
<1>6. \A m \in ToSet(toPage[p]) : m.type # "POST" /\ m.type \notin Admitted
  BY <1>1 DEF Has, Answers
<1>7. PageInv(p)'
  <2>1. \A post \in x.posts : post.room = x.room
    BY <1>1 DEF PageInv
  <2>2. /\ Apart(toPage[p], Answers, Answers)
        /\ Apart(toPage[p], Ends, Answers \cup Ends \cup {"POST"})
        /\ Apart(toPage[p], {"POST"}, Answers)
    BY <1>1 DEF PageInv
  <2> QED BY <1>1, <1>2, <1>3, <1>4, <1>5, <1>6, <2>1, <2>2 DEF PageInv
<1>8. ToldInv(p)'
  BY <1>2, <1>3, <1>6 DEF ToldInv, Shows
<1>9. OnlyPage(p)
  BY <1>2 DEF OnlyPage
<1> QED BY <1>7, <1>8, <1>9, OnlyPageStream

LEMMA createStreamStream ==
  ASSUME TypeOK, StreamInv, NEW p \in Page, createStream(p), UNCHANGED <<overtaken, kicked>>
  PROVE  StreamInv'
<1>1. PICK x : x = [session[p] EXCEPT !.creating = TRUE, !.asking = TRUE]
  OBVIOUS
<1>2. /\ x \in Session /\ x.role = session[p].role /\ x.room = session[p].room
      /\ x.creating /\ x.asking /\ x.joining = session[p].joining /\ x.posts = session[p].posts
      /\ x.active = session[p].active /\ x.captions = session[p].captions
  BY ZenonT(60), <1>1, SessionFields DEF Session, TypeOK
<1>3. /\ Become(p, x) /\ p \in Host /\ session[p].role = "none" /\ ~Pending(p)
      /\ UNCHANGED <<connection, toPage, toServer, roomVars, severed>>
  BY <1>1 DEF createStream, mayStart, socketVars
<1>4. PICK s \in Socket : s = SocketOf(p)
  BY CurrentSocket DEF TypeOK
<1>5. ~Asks(s) /\ LocalInv(p)
  BY <1>3, <1>4, NothingOpen
<1>6. \A t \in Socket : SocketInv(t)' /\ (Asks(t)' <=> Asks(t))
  BY <1>3, SocketsSame
<1>7. session'[p] = x
  BY <1>3, SessionBecomes DEF TypeOK
<1>8. LocalInv(p)'
  BY <1>2, <1>3, <1>5, <1>7 DEF LocalInv, Pending
<1> QED BY <1>2, <1>3, <1>4, <1>5, <1>6, <1>8, StartStep

LEMMA mediaAcquiredStream ==
  ASSUME TypeOK, StreamInv, NEW p \in Page, mediaAcquired(p), UNCHANGED <<overtaken, kicked>>
  PROVE  StreamInv'
<1>1. PICK x, m : /\ x = [session[p] EXCEPT !.asking = FALSE, !.active = "camera", !.hasCamera = TRUE,
                                           !.mic = TRUE]
                  /\ m = [type |-> "CREATE_STREAM"]
  OBVIOUS
<1>2. /\ x \in Session /\ x.role = session[p].role /\ x.room = session[p].room
      /\ x.creating = session[p].creating /\ ~x.asking /\ x.joining = session[p].joining
      /\ x.posts = session[p].posts /\ x.captions = session[p].captions
  BY ZenonT(60), <1>1, SessionFields DEF Session, TypeOK
<1>3. /\ Become(p, x) /\ session[p].asking /\ Send(p, m)
      /\ UNCHANGED <<connection, toPage, roomVars, severed>>
  BY <1>1 DEF mediaAcquired
<1>4. PICK s \in Socket : s = SocketOf(p)
  BY CurrentSocket DEF TypeOK
<1>5. session[p].role = "none" /\ session[p].creating /\ p \in Host
  BY <1>3 DEF StreamInv, LocalInv, Pending
<1>6. ~Asks(s) /\ LocalInv(p) /\ Index(s) = None
  BY <1>3, <1>4, <1>5, NothingOpen
<1>7. m \in ToServer /\ m.type = "CREATE_STREAM"
  BY <1>1, ToServerMessages
<1>8. /\ \A t \in Socket : t[1] # p => toServer'[t] = toServer[t]
      /\ \A t \in Socket : t[1] = p => SocketInv(t)'
  BY <1>3, <1>4, <1>5, <1>6, <1>7, SendStep
<1>9. session'[p] = x
  BY <1>3, SessionBecomes DEF TypeOK
<1>10. LocalInv(p)'
  BY <1>2, <1>5, <1>6, <1>9 DEF LocalInv, Pending
<1> QED BY <1>2, <1>3, <1>4, <1>5, <1>8, <1>10, StartStep

LEMMA mediaRefusedStream ==
  ASSUME TypeOK, StreamInv, NEW p \in Page, mediaRefused(p), UNCHANGED <<overtaken, kicked>>
  PROVE  StreamInv'
<1>1. PICK x : x = [session[p] EXCEPT !.asking = FALSE, !.creating = FALSE]
  OBVIOUS
<1>2. /\ x \in Session /\ x.role = session[p].role /\ x.room = session[p].room
      /\ ~x.creating /\ ~x.asking /\ x.joining = session[p].joining /\ x.posts = session[p].posts
      /\ x.active = session[p].active /\ x.captions = session[p].captions
  BY ZenonT(60), <1>1, SessionFields DEF Session, TypeOK
<1>3. /\ Become(p, x) /\ session[p].asking
      /\ UNCHANGED <<connection, toPage, toServer, roomVars, severed>>
  BY <1>1 DEF mediaRefused, socketVars
<1>4. PICK s \in Socket : s = SocketOf(p)
  BY CurrentSocket DEF TypeOK
<1>5. session[p].role = "none"
  BY <1>3 DEF StreamInv, LocalInv, Pending
<1>6. ~Asks(s) /\ LocalInv(p)
  BY <1>3, <1>4, <1>5, NothingOpen
<1>7. \A t \in Socket : SocketInv(t)' /\ (Asks(t)' <=> Asks(t))
  BY <1>3, SocketsSame
<1>8. session'[p] = x
  BY <1>3, SessionBecomes DEF TypeOK
<1>9. LocalInv(p)'
  BY <1>2, <1>3, <1>5, <1>6, <1>8 DEF LocalInv, Pending
<1> QED BY <1>2, <1>3, <1>4, <1>5, <1>6, <1>7, <1>9, StartStep

LEMMA joinStreamStream ==
  ASSUME TypeOK, StreamInv, NEW p \in Page, joinStream(p), UNCHANGED <<overtaken, kicked>>
  PROVE  StreamInv'
<1>1. PICK r \in RoomId : Send(p, [type |-> "JOIN_STREAM", room |-> r])
  BY DEF joinStream
<1>2. PICK x, m : /\ x = [session[p] EXCEPT !.joining = TRUE]
                  /\ m = [type |-> "JOIN_STREAM", room |-> r]
  OBVIOUS
<1>3. /\ x \in Session /\ x.role = session[p].role /\ x.room = session[p].room
      /\ x.creating = session[p].creating /\ x.asking = session[p].asking /\ x.joining
      /\ x.posts = session[p].posts
      /\ x.active = session[p].active /\ x.captions = session[p].captions
  BY ZenonT(60), <1>2, SessionFields DEF Session, TypeOK
<1>4. /\ Become(p, x) /\ Send(p, m) /\ p \notin Host /\ session[p].role = "none" /\ ~Pending(p)
      /\ UNCHANGED <<connection, toPage, roomVars, severed>>
  BY <1>1, <1>2 DEF joinStream, mayStart
<1>5. PICK s \in Socket : s = SocketOf(p)
  BY CurrentSocket DEF TypeOK
<1>6. ~Asks(s) /\ LocalInv(p) /\ Index(s) = None
  BY <1>4, <1>5, NothingOpen
<1>7. m \in ToServer /\ m.type = "JOIN_STREAM"
  BY <1>2, ToServerMessages
<1>8. /\ \A t \in Socket : t[1] # p => toServer'[t] = toServer[t]
      /\ \A t \in Socket : t[1] = p => SocketInv(t)'
  BY <1>4, <1>5, <1>6, <1>7, SendStep
<1>9. session'[p] = x
  BY <1>4, SessionBecomes DEF TypeOK
<1>10. ~session[p].asking
  BY <1>4, <1>6 DEF LocalInv, Pending
<1>11. LocalInv(p)'
  BY <1>3, <1>4, <1>6, <1>9 DEF LocalInv, Pending
<1> QED BY <1>3, <1>4, <1>5, <1>8, <1>10, <1>11, StartStep


\* Before a page reads its answer it shows nothing, and has no other answer coming.
LEMMA AnswerRead ==
  ASSUME TypeOK, StreamInv, NEW p \in Page, NEW type \in Answers, Receive(p, type),
         NEW x, Become(p, x), UNCHANGED <<overtaken, severed>>, NEW s \in Socket, s = SocketOf(p)
  PROVE  /\ session[p].role = "none" /\ session[p].room = None /\ session[p].posts = {}
         /\ Pending(p) /\ ~session[p].asking
         /\ type = "STREAM_CREATED" => p \in Host
         /\ type \in {"STREAM_JOINED", "JOIN_ERROR"} => p \notin Host
         /\ ~Asks(s)' /\ ~Has(toPage'[p], Answers)
         /\ \A r : Shows(p, r) <=> type \in Admitted /\ Head(toPage[p]).room = r
<1>1. /\ ToSet(toPage[p]) = {Head(toPage[p])} \cup ToSet(toPage'[p])
      /\ Head(toPage[p]).type = type
      /\ \A A, B : Apart(toPage[p], A, B) => (type \in A => ~Has(toPage'[p], B))
      /\ Asks(s)' <=> Asks(s)
      /\ LocalInv(p) /\ PageInv(p)
  BY ReceiveStep
<1>2. Has(toPage[p], Answers) /\ Has(toPage[p], {type})
  BY <1>1 DEF Has
<1>3. Pending(p) /\ ~session[p].asking /\ ~Asks(s) /\ session[p].role = "none"
  BY <1>1, <1>2 DEF PageInv, LocalInv
<1>4. ~Has(toPage'[p], Answers)
  BY <1>1 DEF PageInv
<1>5. /\ type = "STREAM_CREATED" => p \in Host
      /\ type \in {"STREAM_JOINED", "JOIN_ERROR"} => p \notin Host
  BY <1>1, <1>2 DEF PageInv, Has
<1>6. \A r : Shows(p, r) <=> type \in Admitted /\ Head(toPage[p]).room = r
  BY <1>1, <1>3, <1>4 DEF Shows, Has, Answers
<1>7. session[p].room = None /\ session[p].posts = {}
  <2>1. session[p].room = None /\ session[p].posts \subseteq Post
    BY <1>3, SessionFields DEF TypeOK, Session
  <2>2. \A post \in Post : post.room \in RoomId
    BY DEF Post
  <2>3. \A post \in session[p].posts : post.room = None
    BY <1>1, <2>1 DEF PageInv
  <2> QED BY <2>1, <2>2, <2>3, StreamAssumption
<1> QED BY <1>1, <1>3, <1>4, <1>5, <1>6, <1>7

LEMMA AdmittedRead ==
  ASSUME TypeOK, StreamInv, NEW p \in Page, NEW type \in Admitted, Receive(p, type),
         NEW x, Become(p, x), UNCHANGED <<overtaken, severed>>, LocalInv(p)',
         x.role # "none", x.room = Head(toPage[p]).room, x.posts = session[p].posts
  PROVE  StreamInv'
<1>1. PICK s \in Socket : s = SocketOf(p)
  BY CurrentSocket DEF TypeOK
<1>2. type \in Answers /\ type \notin Ends /\ type # "POST"
  BY DEF Answers, Admitted, Ends
<1>3. /\ session[p].role = "none" /\ session[p].posts = {}
      /\ ~Asks(s)' /\ ~Has(toPage'[p], Answers)
      /\ \A r : Shows(p, r) <=> Head(toPage[p]).room = r
  BY <1>1, <1>2, AnswerRead
<1>4. /\ ToSet(toPage[p]) = {Head(toPage[p])} \cup ToSet(toPage'[p])
      /\ Head(toPage[p]).type = type /\ DOMAIN toPage'[p] = 1..Len(toPage'[p])
      /\ \A A, B : Apart(toPage[p], A, B) => Apart(toPage'[p], A, B)
      /\ UNCHANGED connection /\ session'[p] = x /\ OnlyPage(p)
      /\ \A t \in Socket : SocketInv(t)' /\ Index(t)' = Index(t)
      /\ PageInv(p) /\ ToldInv(p)
  BY ReceiveStep
<1>5. s = SocketOf(p)'
  BY <1>1, <1>4 DEF SocketOf
<1>6. \A m \in ToSet(toPage'[p]) : m.type \notin Answers /\ m.type \notin Admitted
  BY <1>3 DEF Has, Answers
<1>7. \A r : Shows(p, r)' <=> Shows(p, r)
  BY <1>3, <1>4, <1>6 DEF Shows
<1>8. Has(toPage'[p], Ends) <=> Has(toPage[p], Ends)
  BY <1>2, <1>4 DEF Has
<1>9. PageInv(p)'
  <2>1. ~Has(toPage'[p], {"STREAM_CREATED"}) /\ ~Has(toPage'[p], {"STREAM_JOINED", "JOIN_ERROR"})
    BY <1>3 DEF Has, Answers, Admitted
  <2>2. Live(p)'
    BY <1>4 DEF Live
  <2>3. Index(s)' # None => Shows(p, Index(s))' /\ ~Has(toPage'[p], Ends)
    BY <1>1, <1>4, <1>7, <1>8 DEF PageInv
  <2>4. \A m \in ToSet(toPage'[p]) : m.type = "POST" => \A r \in RoomId : Shows(p, r)' => m.post.room = r
    BY <1>4, <1>7 DEF PageInv
  <2>5. /\ Apart(toPage'[p], Answers, Answers)
        /\ Apart(toPage'[p], Ends, Answers \cup Ends \cup {"POST"})
        /\ Apart(toPage'[p], {"POST"}, Answers)
    BY <1>4 DEF PageInv
  <2>6. session'[p].posts = {}
    BY <1>3, <1>4
  <2> QED BY <1>3, <1>5, <2>1, <2>2, <2>3, <2>4, <2>5, <2>6 DEF PageInv
<1>10. ToldInv(p)'
  BY <1>1, <1>4, <1>5, <1>7, <1>8 DEF ToldInv
<1> QED BY <1>4, <1>9, <1>10, OnlyPageStream

LEMMA onStreamCreatedStream ==
  ASSUME TypeOK, StreamInv, NEW p \in Page, onStreamCreated(p), UNCHANGED <<overtaken, kicked>>
  PROVE  StreamInv'
<1>1. PICK x \in Session :
        /\ Receive(p, "STREAM_CREATED") /\ Become(p, x) /\ UNCHANGED severed
        /\ x.role = "broadcaster" /\ x.room = Head(toPage[p]).room /\ x.room \in RoomId
        /\ ~x.creating /\ x.joining = session[p].joining /\ x.asking = session[p].asking
        /\ x.posts = session[p].posts
  BY CreatedBecomes DEF TypeOK
<1>2. PICK s \in Socket : s = SocketOf(p)
  BY CurrentSocket DEF TypeOK
<1>3. "STREAM_CREATED" \in Answers /\ "STREAM_CREATED" \in Admitted
  BY DEF Answers, Admitted
<1>4. ~session[p].asking /\ p \in Host
  BY <1>1, <1>2, <1>3, AnswerRead
<1>5. LocalInv(p) /\ session'[p] = x
  BY <1>1, SessionBecomes DEF StreamInv, TypeOK
<1>6. LocalInv(p)'
  BY <1>1, <1>4, <1>5 DEF LocalInv, Pending
<1> QED BY <1>1, <1>3, <1>6, AdmittedRead

LEMMA onStreamJoinedStream ==
  ASSUME TypeOK, StreamInv, NEW p \in Page, onStreamJoined(p), UNCHANGED <<overtaken, kicked>>
  PROVE  StreamInv'
<1>1. PICK x \in Session :
        /\ Receive(p, "STREAM_JOINED") /\ Become(p, x) /\ UNCHANGED severed
        /\ x.role = "viewer" /\ x.room = Head(toPage[p]).room /\ x.room \in RoomId
        /\ ~x.joining /\ x.creating = session[p].creating /\ x.asking = session[p].asking
        /\ x.active = session[p].active /\ x.captions = session[p].captions
        /\ x.posts = session[p].posts
  BY JoinedBecomes DEF TypeOK
<1>2. PICK s \in Socket : s = SocketOf(p)
  BY CurrentSocket DEF TypeOK
<1>3. "STREAM_JOINED" \in Answers /\ "STREAM_JOINED" \in Admitted
  BY DEF Answers, Admitted
<1>4. ~session[p].asking /\ p \notin Host /\ session[p].role = "none"
  BY <1>1, <1>2, <1>3, AnswerRead
<1>5. LocalInv(p) /\ session'[p] = x
  BY <1>1, SessionBecomes DEF StreamInv, TypeOK
<1>6. LocalInv(p)'
  BY <1>1, <1>4, <1>5 DEF LocalInv, Pending
<1> QED BY <1>1, <1>3, <1>6, AdmittedRead

LEMMA onJoinErrorStream ==
  ASSUME TypeOK, StreamInv, NEW p \in Page, onJoinError(p), UNCHANGED <<overtaken, kicked>>
  PROVE  StreamInv'
<1>1. PICK x \in Session :
        /\ Receive(p, "JOIN_ERROR") /\ Become(p, x) /\ UNCHANGED severed
        /\ ~x.joining /\ ~x.creating /\ x.asking = session[p].asking
        /\ x.role = session[p].role /\ x.room = session[p].room
        /\ x.active = session[p].active /\ x.captions = session[p].captions
        /\ x.posts = session[p].posts
  BY ErrorBecomes DEF TypeOK
<1>2. PICK s \in Socket : s = SocketOf(p)
  BY CurrentSocket DEF TypeOK
<1>3. "JOIN_ERROR" \in Answers /\ "JOIN_ERROR" \notin Admitted
  BY DEF Answers, Admitted
<1>4. /\ session[p].role = "none" /\ session[p].posts = {} /\ ~session[p].asking /\ p \notin Host
      /\ ~Asks(s)' /\ ~Has(toPage'[p], Answers) /\ \A r : ~Shows(p, r)
  BY <1>1, <1>2, <1>3, AnswerRead
<1>5. /\ ToSet(toPage[p]) = {Head(toPage[p])} \cup ToSet(toPage'[p])
      /\ Head(toPage[p]).type = "JOIN_ERROR"
      /\ \A A, B : Apart(toPage[p], A, B) => Apart(toPage'[p], A, B)
      /\ UNCHANGED connection /\ session'[p] = x /\ OnlyPage(p)
      /\ \A t \in Socket : SocketInv(t)' /\ Index(t)' = Index(t)
      /\ LocalInv(p) /\ PageInv(p) /\ ToldInv(p)
  BY <1>1, ReceiveStep
<1>6. s = SocketOf(p)'
  BY <1>2, <1>5 DEF SocketOf
<1>7. LocalInv(p)'
  <2>1. ~session[p].creating
    BY <1>4, <1>5 DEF LocalInv
  <2> QED BY <1>1, <1>4, <1>5, <2>1 DEF LocalInv, Pending
<1>8. ~Live(p)
  <2>1. ~Has(toPage[p], Admitted)
    BY <1>3, <1>4, <1>5 DEF Has, Answers
  <2> QED BY <1>4, <2>1 DEF Live
<1>9. ~Has(toPage'[p], Ends \cup {"POST"}) /\ Index(s)' = None
  <2>1. ~Has(toPage[p], Ends \cup {"POST"})
    BY <1>5, <1>8 DEF PageInv
  <2> QED BY <1>2, <1>4, <1>5, <2>1 DEF PageInv, Has
<1>10. PageInv(p)'
  <2>1. ~Has(toPage'[p], {"STREAM_CREATED"}) /\ ~Has(toPage'[p], {"STREAM_JOINED", "JOIN_ERROR"})
    BY <1>4 DEF Has, Answers, Admitted
  <2>2. /\ Apart(toPage'[p], Answers, Answers)
        /\ Apart(toPage'[p], Ends, Answers \cup Ends \cup {"POST"})
        /\ Apart(toPage'[p], {"POST"}, Answers)
    BY <1>5 DEF PageInv
  <2>3. session'[p].posts = {} /\ \A m \in ToSet(toPage'[p]) : m.type # "POST"
    BY <1>1, <1>4, <1>5, <1>9 DEF Has
  <2> QED BY <1>4, <1>6, <1>9, <2>1, <2>2, <2>3 DEF PageInv
<1>11. ToldInv(p)'
  <2>1. \A r : ~Shows(p, r)'
    BY <1>1, <1>4, <1>5 DEF Shows, Has, Answers
  <2> QED BY <2>1 DEF ToldInv
<1> QED BY <1>5, <1>7, <1>10, <1>11, OnlyPageStream

\* A post is read by who shows the stream it is for.
LEMMA onPostStream ==
  ASSUME TypeOK, StreamInv, NEW p \in Page, onPost(p), UNCHANGED <<overtaken, kicked>>
  PROVE  StreamInv'
<1>1. PICK x \in Session :
        /\ Receive(p, "POST") /\ Become(p, x) /\ UNCHANGED severed
        /\ x.joining = session[p].joining /\ x.creating = session[p].creating
        /\ x.asking = session[p].asking
        /\ x.role = session[p].role /\ x.room = session[p].room
        /\ x.active = session[p].active /\ x.captions = session[p].captions
        /\ x.posts = session[p].posts \cup {Head(toPage[p]).post}
  BY PostBecomes DEF TypeOK
<1>2. PICK s \in Socket : s = SocketOf(p)
  BY CurrentSocket DEF TypeOK
<1>3. /\ ToSet(toPage[p]) = {Head(toPage[p])} \cup ToSet(toPage'[p])
      /\ Head(toPage[p]).type = "POST"
      /\ UNCHANGED connection /\ session'[p] = x /\ OnlyPage(p)
      /\ \A t \in Socket : SocketInv(t)' /\ (Asks(t)' <=> Asks(t)) /\ Index(t)' = Index(t)
      /\ LocalInv(p) /\ PageInv(p) /\ ToldInv(p)
  BY <1>1, ReceiveStep
<1>4. \A A, B : Apart(toPage[p], A, B) =>
        Apart(toPage'[p], A, B) /\ ("POST" \in A => ~Has(toPage'[p], B))
  BY <1>1, ReceiveStep
<1>5. s = SocketOf(p)'
  BY <1>2, <1>3 DEF SocketOf
<1>6. \A A : "POST" \notin A => (Has(toPage'[p], A) <=> Has(toPage[p], A))
  BY <1>3 DEF Has
<1>7. /\ "POST" \notin Answers /\ "POST" \notin Ends /\ "POST" \notin Admitted
      /\ "POST" \notin {"STREAM_CREATED"} /\ "POST" \notin {"STREAM_JOINED", "JOIN_ERROR"}
  BY DEF Answers, Admitted, Ends
<1>8. \A r : Shows(p, r)' <=> Shows(p, r)
  BY <1>1, <1>3, <1>7 DEF Shows
<1>9. session[p].role # "none"
  <2>1. Has(toPage[p], Ends \cup {"POST"})
    BY <1>3 DEF Has
  <2>2. ~Has(toPage'[p], Answers)
    BY <1>3, <1>4 DEF PageInv
  <2>3. ~Has(toPage[p], Admitted)
    BY <1>3, <1>7, <2>2 DEF Has, Answers
  <2> QED BY <1>3, <2>1, <2>3 DEF PageInv, Live
<1>10. Head(toPage[p]).post.room = session[p].room
  <2>1. session[p].room \in RoomId
    BY <1>9, SessionFields DEF TypeOK
  <2>2. Shows(p, session[p].room)
    BY <1>9 DEF Shows
  <2> QED BY <1>3, <2>1, <2>2 DEF PageInv
<1>11. PageInv(p)'
  <2>1. \A post \in x.posts : post.room = x.room
    BY <1>1, <1>3, <1>10 DEF PageInv
  <2>2. /\ Apart(toPage'[p], Answers, Answers)
        /\ Apart(toPage'[p], Ends, Answers \cup Ends \cup {"POST"})
        /\ Apart(toPage'[p], {"POST"}, Answers)
    BY <1>3, <1>4 DEF PageInv
  <2>3. Live(p)' /\ (Pending(p)' <=> Pending(p))
    BY <1>1, <1>3, <1>9 DEF Live, Pending
  <2>4. /\ Asks(s)' \/ Has(toPage'[p], Answers) => Pending(p)' /\ ~session'[p].asking
        /\ Has(toPage'[p], Answers) => ~Asks(s)'
        /\ Has(toPage'[p], {"STREAM_CREATED"}) => p \in Host
        /\ Has(toPage'[p], {"STREAM_JOINED", "JOIN_ERROR"}) => p \notin Host
    BY <1>1, <1>2, <1>3, <1>6, <1>7, <2>3 DEF PageInv
  <2>5. Index(s)' # None => Shows(p, Index(s))' /\ ~Has(toPage'[p], Ends)
    BY <1>2, <1>3, <1>6, <1>7, <1>8 DEF PageInv
  <2>6. \A m \in ToSet(toPage'[p]) : m.type = "POST" => \A r \in RoomId : Shows(p, r)' => m.post.room = r
    BY <1>3, <1>8 DEF PageInv
  <2> QED BY <1>3, <1>5, <2>1, <2>2, <2>3, <2>4, <2>5, <2>6 DEF PageInv
<1>12. ToldInv(p)'
  BY <1>1, <1>2, <1>3, <1>5, <1>6, <1>7, <1>8 DEF ToldInv
<1>13. LocalInv(p)'
  BY <1>1, <1>3 DEF LocalInv, Pending
<1> QED BY <1>3, <1>11, <1>12, <1>13, OnlyPageStream

LEMMA onStreamOverStream ==
  ASSUME TypeOK, StreamInv, NEW p \in Page, onStreamOver(p), UNCHANGED <<overtaken, kicked>>
  PROVE  StreamInv'
<1>1. PICK x \in Session, type \in {"STREAM_KICKED", "STREAM_ENDED"} :
        /\ Receive(p, type) /\ Become(p, x) /\ severed' = severed \ {p}
        /\ x = resetSessionState(session[p])
  BY OverBecomes DEF TypeOK
<1>2. /\ x.role = "none" /\ x.creating = session[p].creating /\ ~x.joining
      /\ x.asking = session[p].asking /\ x.active = "none" /\ x.captions = "off" /\ x.posts = {}
  BY <1>1, ResetFields, SessionFields DEF TypeOK
<1>3. PICK s \in Socket : s = SocketOf(p)
  BY CurrentSocket DEF TypeOK
<1>4. type \in Ends /\ type \notin Answers /\ type \notin Admitted
  BY DEF Ends, Answers, Admitted
<1>5. /\ ToSet(toPage[p]) = {Head(toPage[p])} \cup ToSet(toPage'[p])
      /\ Head(toPage[p]).type = type
      /\ UNCHANGED connection /\ session'[p] = x /\ OnlyPage(p)
      /\ \A t \in Socket : SocketInv(t)' /\ (Asks(t)' <=> Asks(t)) /\ Index(t)' = Index(t)
      /\ LocalInv(p) /\ PageInv(p) /\ ToldInv(p)
  BY <1>1, ReceiveStep
<1>6. \A A, B : Apart(toPage[p], A, B) =>
        Apart(toPage'[p], A, B) /\ (type \in A => ~Has(toPage'[p], B))
  BY <1>1, ReceiveStep
<1>7. s = SocketOf(p)'
  BY <1>3, <1>5 DEF SocketOf
<1>8. ~Has(toPage'[p], Answers \cup Ends \cup {"POST"})
  BY <1>4, <1>5, <1>6 DEF PageInv
<1>9. /\ ~Has(toPage'[p], Answers) /\ ~Has(toPage'[p], Ends \cup {"POST"})
      /\ ~Has(toPage'[p], {"STREAM_CREATED"}) /\ ~Has(toPage'[p], {"STREAM_JOINED", "JOIN_ERROR"})
      /\ ~Has(toPage'[p], Admitted) /\ \A m \in ToSet(toPage'[p]) : m.type # "POST"
  BY <1>8 DEF Has, Answers, Admitted
<1>10. Has(toPage[p], Ends) /\ Has(toPage[p], Ends \cup {"POST"}) /\ ~Has(toPage[p], Admitted)
  BY <1>4, <1>5, <1>9 DEF Has
<1>11. session[p].role # "none" /\ Index(s) = None
  BY <1>3, <1>5, <1>10 DEF PageInv, Live
<1>12. ~Asks(s)
  BY <1>3, <1>5, <1>11 DEF PageInv, LocalInv
<1>13. LocalInv(p)'
  BY <1>2, <1>5, <1>11 DEF LocalInv, Pending
<1>14. PageInv(p)'
  <2>1. /\ Apart(toPage'[p], Answers, Answers)
        /\ Apart(toPage'[p], Ends, Answers \cup Ends \cup {"POST"})
        /\ Apart(toPage'[p], {"POST"}, Answers)
    BY <1>5, <1>6 DEF PageInv
  <2> QED BY <1>2, <1>5, <1>7, <1>9, <1>11, <1>12, <2>1 DEF PageInv
<1>15. ToldInv(p)'
  <2>1. \A r : ~Shows(p, r)'
    BY <1>2, <1>5, <1>9 DEF Shows, Has
  <2> QED BY <2>1 DEF ToldInv
<1> QED BY <1>5, <1>13, <1>14, <1>15, OnlyPageStream


-----------------------------------------------------------------------------
(* A page that closes its socket and gets a new one.                         *)
LEMMA SocketsOfPage ==
  ASSUME StreamRoomsTypeOK, NEW p \in Page, NEW s \in Socket, s[1] = p
  PROVE  /\ s[2] \in Nat /\ connection[p] \in Nat
         /\ s = SocketOf(p) <=> s[2] = connection[p]
         /\ \A k : s = <<p, k>> <=> s[2] = k
<1>1. s = <<s[1], s[2]>> /\ s[2] \in Nat
  BY SocketFields
<1> QED BY <1>1 DEF StreamRoomsTypeOK, SocketOf

LEMMA ReconnectStream ==
  ASSUME TypeOK, StreamInv, NEW p \in Page, NEW lost \in SUBSET (0..Len(toServer[SocketOf(p)])),
         Reconnect(p, lost), UNCHANGED <<roomVars, overtaken>>,
         \A q \in Page \ {p} : session'[q] = session[q] /\ (q \in severed' <=> q \in severed),
         LocalInv(p)', session'[p].role # "none" => p \in severed',
         \A post \in session'[p].posts : post.room = session'[p].room
  PROVE  StreamInv'
<1> USE DEF TypeOK
<1>1. PICK s \in Socket : s = SocketOf(p)
  BY CurrentSocket
<1>2. PICK t \in Socket : t = SocketOf(p)'
  <2>1. lost \in SUBSET Nat
    BY <1>1, CurrentSocket
  <2> QED BY <2>1, ReconnectType
<1>3. /\ connection[p] \in Nat /\ connection'[p] = connection[p] + 1
      /\ \A q \in Page \ {p} : connection'[q] = connection[q] /\ toPage'[q] = toPage[q]
      /\ toPage'[p] = <<>>
  BY DEF Reconnect, StreamRoomsTypeOK
<1>4. t = <<p, connection[p] + 1>> /\ s = <<p, connection[p]>> /\ s # t
  BY <1>1, <1>2, <1>3 DEF SocketOf
<1>5. PICK n \in lost :
        toServer' = [toServer EXCEPT ![s] = SubSeq(@, 1, Len(@) - n) \o <<[type |-> "disconnect"]>>]
  BY <1>1 DEF Reconnect
<1>6. toServer[s] \in Seq(ToServer)
  BY <1>1, CurrentSocket
<1>7. PICK k \in 0..Len(toServer[s]) : k = Len(toServer[s]) - n
  <2>1. Len(toServer[s]) \in Nat /\ n \in 0..Len(toServer[s])
    BY <1>1, <1>5, <1>6
  <2>2. Len(toServer[s]) - n \in 0..Len(toServer[s])
    BY <2>1
  <2> QED BY <2>2
<1>8. PICK q, d : q = SubSeq(toServer[s], 1, k) /\ d = [type |-> "disconnect"]
  OBVIOUS
<1>9. toServer'[s] = q \o <<d>> /\ \A u \in Socket \ {s} : toServer'[u] = toServer[u]
  BY <1>5, <1>7, <1>8 DEF StreamRoomsTypeOK
<1>10. q \in Seq(ToServer) /\ d \in ToServer /\ d.type = "disconnect"
  BY <1>6, <1>7, <1>8, Prefix, ToServerMessages
<1>11. ToSet(toServer'[s]) = ToSet(q) \cup {d}
  BY <1>9, <1>10, SetMore
<1>12. \A u : (Waits(u)' <=> Waits(u)) /\ Index(u)' = Index(u)
  BY DEF roomVars, serviceVars, Waits, Index
<1>13. UNCHANGED <<broadcasterIndex, viewerIndex, overtaken>>
  BY DEF roomVars, serviceVars
<1>14. SocketInv(s) /\ SocketInv(t)
  BY DEF StreamInv
<1>15. ToSet(q) \subseteq ToSet(toServer[s]) /\ Apart(q, Ask, Ask)
  <2>1. Apart(toServer[s], Ask, Ask)
    BY <1>14 DEF SocketInv
  <2> QED BY <1>6, <1>7, <1>8, <2>1, PrefixApart
<1>16. \A A : "disconnect" \notin A /\ Has(toServer'[s], A) => Has(toServer[s], A)
  BY <1>10, <1>11, <1>15 DEF Has
<1>17. "disconnect" \notin Ask
  BY DEF Ask
<1>18. Asks(s)' => Asks(s)
  BY <1>12, <1>16, <1>17 DEF Asks
<1>19. SocketInv(s)'
  <2>1. Apart(toServer'[s], Ask, Ask)
    BY <1>9, <1>10, <1>15, <1>17, ApartMore
  <2>2. s # SocketOf(s[1])' /\ ~(s[2] > connection'[s[1]])
    BY <1>2, <1>3, <1>4 DEF SocketOf
  <2>3. /\ Has(toServer'[s], {"JOIN_STREAM"}) => Has(toServer[s], {"JOIN_STREAM"})
        /\ Has(toServer'[s], {"CREATE_STREAM"}) => Has(toServer[s], {"CREATE_STREAM"})
        /\ Has(toServer'[s], Ask) => Has(toServer[s], Ask)
    BY <1>16, <1>17
  <2> QED BY <1>12, <1>13, <1>14, <1>18, <2>1, <2>2, <2>3 DEF SocketInv
<1>20. /\ toServer'[t] = <<>> /\ ~Waits(t)' /\ Index(t)' = None /\ t \notin overtaken
  <2>1. t[2] > connection[t[1]]
    BY <1>3, <1>4
  <2> QED BY <1>4, <1>9, <1>12, <1>14, <2>1 DEF SocketInv
<1>21. \A A : ~Has(toServer'[t], A)
  BY <1>20, SetNothing DEF Has
<1>22. SocketInv(t)'
  <2>1. ~(t[2] > connection'[t[1]])
    BY <1>3, <1>4
  <2>2. Apart(toServer'[t], Ask, Ask)
    BY <1>20, ApartShort
  <2> QED BY <1>13, <1>14, <1>20, <1>21, <2>1, <2>2 DEF SocketInv, Asks
<1>23. ASSUME NEW u \in Socket, u[1] = p, u # s, u # t PROVE SocketInv(u)'
  <2>1. u[2] \in Nat /\ u[2] # connection[p] /\ u # SocketOf(p)
    BY <1>1, <1>23, SocketsOfPage
  <2>2. SocketInv(u) /\ toServer'[u] = toServer[u]
    BY <1>9, <1>23 DEF StreamInv
  <2>3. u # SocketOf(u[1])'
    BY <1>2, <1>23
  <2>4. u[2] > connection'[u[1]] => u[2] > connection[u[1]]
    BY <1>3, <1>23, <2>1
  <2>5. Asks(u)' <=> Asks(u)
    BY <1>12, <2>2 DEF Asks
  <2> QED BY <1>12, <1>13, <2>2, <2>3, <2>4, <2>5 DEF SocketInv
<1>24. /\ \A A : ~Has(toPage'[p], A)
       /\ \A A, B : Apart(toPage'[p], A, B)
       /\ \A m : m \notin ToSet(toPage'[p])
  BY <1>3, SetNothing, ApartShort DEF Has
<1>25. PageInv(p)'
  <2>1. ~Asks(t)'
    BY <1>20, <1>21 DEF Asks
  <2> QED BY <1>2, <1>20, <1>24, <2>1 DEF PageInv
<1>26. ToldInv(p)'
  BY <1>24 DEF ToldInv, Shows
<1>27. OnlyPage(p)
  BY <1>1, <1>3, <1>4, <1>9 DEF OnlyPage
<1> QED BY <1>19, <1>22, <1>23, <1>25, <1>26, <1>27, OnlyPageStream

LEMMA reconnectingStream ==
  ASSUME TypeOK, StreamInv, NEW p \in Page, leaveStream(p) \/ pageLeft(p) \/ connectionLost(p),
         UNCHANGED <<overtaken, kicked>>
  PROVE  StreamInv'
<1>1. PICK lost : /\ Reconnect(p, lost)
                  /\ lost = {0} \/ lost = 0..Len(toServer[SocketOf(p)])
  BY DEF leaveStream, pageLeft, connectionLost
<1>2. lost \in SUBSET (0..Len(toServer[SocketOf(p)]))
  <2>1. Len(toServer[SocketOf(p)]) \in Nat
    BY CurrentSocket DEF TypeOK
  <2> QED BY <1>1, <2>1
<1>3. UNCHANGED <<roomVars, overtaken>>
  BY DEF leaveStream, pageLeft, connectionLost
<1>4. LocalInv(p) /\ PageInv(p)
  BY DEF StreamInv
<1>5. CASE connectionLost(p)
  <2>1. UNCHANGED session
    BY <1>5 DEF connectionLost
  <2>2. \A q \in Page \ {p} : q \in severed' <=> q \in severed
    BY <1>5 DEF connectionLost
  <2>3. session[p].role # "none" => p \in severed'
    BY <1>5 DEF connectionLost
  <2>4. LocalInv(p)'
    BY <1>4, <2>1 DEF LocalInv, Pending
  <2>5. \A post \in session'[p].posts : post.room = session'[p].room
    BY <1>4, <2>1 DEF PageInv
  <2> QED BY <1>1, <1>2, <1>3, <2>1, <2>2, <2>3, <2>4, <2>5, ReconnectStream
<1>6. CASE leaveStream(p) \/ pageLeft(p)
  <2>1. PICK x : /\ Become(p, x)
                 /\ x = resetSessionState(session[p]) \/ x = Fresh
                 /\ severed' = severed \ {p}
    BY <1>6 DEF leaveStream, pageLeft
  <2>2. /\ x.role = "none" /\ ~x.joining /\ x.active = "none" /\ x.captions = "off" /\ x.posts = {}
        /\ x.asking => x.creating
        /\ x.creating => p \in Host
    BY <1>4, <2>1, ResetFields, FreshFields, SessionFields DEF TypeOK, LocalInv
  <2>3. session'[p] = x /\ \A q \in Page \ {p} : session'[q] = session[q]
    BY <2>1, SessionBecomes DEF TypeOK
  <2>4. LocalInv(p)'
    BY <2>2, <2>3 DEF LocalInv, Pending
  <2> QED BY <1>1, <1>2, <1>3, <2>1, <2>2, <2>3, <2>4, ReconnectStream
<1> QED BY <1>5, <1>6

-----------------------------------------------------------------------------
(* The invariant and what follows from it.                                   *)
LEMMA StreamInit == ASSUME Init PROVE StreamInv
<1>1. /\ rooms = {} /\ timers = {} /\ suspended = {} /\ overtaken = {}
      /\ \A r \in RoomId : room[r] = None /\ members[r] = {} /\ streamStats[r] = None
      /\ \A s \in Socket : /\ toServer[s] = <<>> /\ broadcasterIndex[s] = None
                           /\ viewerIndex[s] = None
      /\ \A p \in Page : toPage[p] = <<>> /\ session[p] = Fresh
  BY DEF Init, StreamRoomsInit, StreamSessionInit
<1>2. RegistryInv /\ HeldInv
  BY <1>1, StreamAssumption DEF RegistryInv, Registered, MembersInv, HeldInv
<1>3. \A s : ~Waits(s)
  BY <1>1 DEF Waits
<1>4. /\ \A A : ~Has(<<>>, A) 
      /\ \A A, B : Apart(<<>>, A, B)
      /\ \A m : m \notin ToSet(<<>>)
  BY SetNothing, ApartShort DEF Has
<1>5. \A s \in Socket : Index(s) = None /\ ~Asks(s)
  BY <1>1, <1>3, <1>4 DEF Index, Asks
<1>6. \A s \in Socket : SocketInv(s)
  BY <1>1, <1>3, <1>4, <1>5 DEF SocketInv
<1>7. ASSUME NEW p \in Page PROVE LocalInv(p) /\ PageInv(p) /\ ToldInv(p)
  <2>1. PICK x : x = Fresh /\ x = session[p]
    BY <1>1
  <2>2. /\ x.role = "none" /\ ~x.creating /\ ~x.joining /\ ~x.asking
        /\ x.active = "none" /\ x.captions = "off" /\ x.posts = {}
    BY <2>1, FreshFields
  <2>3. LocalInv(p)
    BY <2>1, <2>2 DEF LocalInv, Pending
  <2>4. SocketOf(p) \in Socket
    BY InitType, CurrentSocket DEF TypeOK
  <2>5. PageInv(p)
    BY <1>1, <1>4, <1>5, <2>1, <2>2, <2>4 DEF PageInv
  <2>6. ToldInv(p)
    BY <1>1, <1>4, <2>1, <2>2 DEF ToldInv, Shows
  <2> QED BY <2>3, <2>5, <2>6
<1> QED BY <1>2, <1>6, <1>7 DEF StreamInv

LEMMA UserStepStream ==
  ASSUME TypeOK, StreamInv, NEW p \in Page, UserStep(p), UNCHANGED <<overtaken, kicked>>
  PROVE  StreamInv'
<1>1. \/ QuietStep(p)
      \/ createStream(p) \/ mediaAcquired(p) \/ mediaRefused(p) \/ joinStream(p)
      \/ leaveStream(p) \/ pageLeft(p) \/ connectionLost(p)
  BY UserStepCases DEF TypeOK
<1> QED BY <1>1, QuietStepStream, createStreamStream, mediaAcquiredStream, mediaRefusedStream,
           joinStreamStream, reconnectingStream

LEMMA PageHandlerStream ==
  ASSUME TypeOK, StreamInv, NEW p \in Page, PageHandler(p), UNCHANGED <<overtaken, kicked>>
  PROVE  StreamInv'
<1>1. \/ QuietStep(p) \/ QuietRead(p)
      \/ onStreamCreated(p) \/ onStreamJoined(p) \/ onJoinError(p) \/ onPost(p)
      \/ onStreamOver(p)
  BY PageHandlerCases DEF TypeOK
<1> QED BY <1>1, QuietStepStream, QuietReadStream, onStreamCreatedStream, onStreamJoinedStream,
           onJoinErrorStream, onPostStream, onStreamOverStream

LEMMA StillStream ==
  ASSUME TypeOK, StreamInv, UNCHANGED vars
  PROVE  StreamInv'
<1>1. UNCHANGED <<connection, toServer, toPage, rooms, room, broadcasterIndex, viewerIndex, timers,
                  members, suspended, streamStats, session, severed, overtaken>>
  BY DEF vars, socketVars, roomVars, serviceVars, sessionVars
<1>2. RegistryInv' /\ HeldInv'
  BY <1>1 DEF StreamInv, RegistryInv, Registered, MembersInv, HeldInv
<1>3. UNCHANGED <<connection, toServer, roomVars, overtaken>>
  BY <1>1 DEF roomVars, serviceVars
<1>4. \A t \in Socket : SocketInv(t)'
  BY <1>3, SocketsSame
<1>5. ASSUME NEW p \in Page PROVE LocalInv(p)' /\ PageInv(p)' /\ ToldInv(p)'
  <2>1. PICK s \in Socket : s = SocketOf(p) /\ s = SocketOf(p)'
    BY <1>1, CurrentSocket DEF TypeOK, SocketOf
  <2>2. (Asks(s)' <=> Asks(s)) /\ Index(s)' = Index(s)
    BY <1>3, SocketsSame
  <2>3. LocalInv(p) /\ PageInv(p) /\ ToldInv(p)
    BY DEF StreamInv
  <2>4. /\ \A r : Shows(p, r)' <=> Shows(p, r)
        /\ Live(p)' <=> Live(p)
        /\ Pending(p)' <=> Pending(p)
    BY <1>1 DEF Shows, Live, Pending
  <2>5. LocalInv(p)'
    BY <1>1, <2>3, <2>4 DEF LocalInv
  <2>6. PageInv(p)'
    BY <1>1, <2>1, <2>2, <2>3, <2>4 DEF PageInv
  <2>7. ToldInv(p)'
    BY <1>1, <2>1, <2>2, <2>3, <2>4 DEF ToldInv
  <2> QED BY <2>5, <2>6, <2>7
<1> QED BY <1>2, <1>4, <1>5 DEF StreamInv

LEMMA StreamStep ==
  ASSUME TypeOK, StreamInv, [Next]_vars
  PROVE  StreamInv'
<1>1. CASE UNCHANGED vars
  BY <1>1, StillStream
<1>2. CASE Next
  BY <1>2, UserStepStream, PageHandlerStream, ServerStepStream, ResumeStream, expireStream DEF Next
<1> QED BY <1>1, <1>2

LEMMA StreamInvariant == SafeSpec => [](TypeOK /\ StreamInv)
<1>1. Init => TypeOK /\ Known /\ StreamInv
  BY InitType, StreamInit
<1>2. TypeOK /\ Known /\ StreamInv /\ [Next]_vars => (TypeOK /\ Known /\ StreamInv)'
  BY TypeStep, StreamStep
<1> QED BY <1>1, <1>2, PTL DEF SafeSpec


\* Whatever happens, the server's maps and the dashboard's list agree about every stream.
THEOREM StreamRegistryKept == SafeSpec => []StreamRegistryAgrees
<1>1. TypeOK /\ StreamInv => StreamRegistryAgrees
  BY RegistryParts DEF TypeOK, StreamInv, RegistryInv
<1> QED BY <1>1, StreamInvariant, PTL

\* The camera, the screen and the captions of a page end with its stream.
THEOREM CaptureEnds == SafeSpec => []CaptureReleased
<1>1. TypeOK /\ StreamInv => CaptureReleased
  BY DEF StreamInv, LocalInv, CaptureReleased
<1> QED BY <1>1, StreamInvariant, PTL

\* A caption, a message or a reaction is never seen outside the stream it is for.
THEOREM PostsInside == SafeSpec => []PostsStayInside
<1>1. TypeOK /\ StreamInv => PostsStayInside
  BY DEF StreamInv, PageInv, PostsStayInside
<1> QED BY <1>1, StreamInvariant, PTL

LEMMA MentionsHas ==
  ASSUME NEW S, NEW q \in Seq(S), NEW type
  PROVE  Mentions(q, type) <=> Has(q, {type})
BY DEF Mentions, Has, ToSet

\* Who is shown a stream takes part in it, or will hear that it is over: for a page that
\* keeps its connection, and whose password was checked while the stream was there.
THEOREM AudienceHears == SafeSpec => []AudienceTold
<1>1. ASSUME TypeOK, StreamInv PROVE AudienceTold
  <2> SUFFICES ASSUME NEW p \in Page \ severed, session[p].role # "none",
                      SocketOf(p) \notin overtaken, NEW r, r = session[p].room
               PROVE  \/ Over(p)
                      \/ r \in rooms /\ (IF session[p].role = "viewer"
                                         THEN SocketOf(p) \in room[r].viewers
                                         ELSE SocketOf(p) = room[r].broadcaster)
    BY DEF AudienceTold
  <2>1. PICK s \in Socket : s = SocketOf(p) /\ s[1] = p
    BY <1>1, CurrentSocket DEF TypeOK, SocketOf
  <2>2. r \in RoomId /\ Shows(p, r) /\ LocalInv(p) /\ ToldInv(p) /\ SocketInv(s) /\ Registered(r)
    BY <1>1, <2>1, SessionFields DEF TypeOK, Shows, StreamInv, RegistryInv
  <2>3. CASE Has(toPage[p], Ends)
    <3>1. toPage[p] \in Seq(ToPage)
      BY <1>1 DEF TypeOK, StreamRoomsTypeOK
    <3>2. Has(toPage[p], {"STREAM_ENDED"}) \/ Has(toPage[p], {"STREAM_KICKED"})
      BY <2>3 DEF Has, Ends
    <3> QED BY <3>1, <3>2, MentionsHas DEF Over
  <2>4. CASE Index(s) = r
    <3>1. session[p].role = "viewer" => p \notin Host
      BY <2>2 DEF LocalInv
    <3>2. session[p].role = "broadcaster" => p \in Host
      BY <2>2 DEF LocalInv
    <3>3. session[p].role \in {"broadcaster", "viewer"}
      BY <1>1, SessionFields DEF TypeOK
    <3> QED BY <2>1, <2>2, <2>4, <3>1, <3>2, <3>3 DEF Index, Registered
  <2> QED BY <2>1, <2>2, <2>3, <2>4 DEF ToldInv
<1> QED BY <1>1, StreamInvariant, PTL

-----------------------------------------------------------------------------
(* No stream and no viewer outlives its socket.  The disconnect is the last  *)
(* that the server hears of a socket.                                        *)
AllTypes == {m.type : m \in ToServer}

SocketServed(s) ==
  /\ toServer[s] # <<>> => InUse(s)
  /\ Apart(toServer[s], {"disconnect"}, AllTypes)
  /\ Index(s) # None => InUse(s) \/ s \in overtaken

ServedInv == \A s \in Socket : SocketServed(s)

\* Socket t is indexed as it was, or no more.
IndexStill(t) ==
  /\ broadcasterIndex'[t] \in {None, broadcasterIndex[t]}
  /\ viewerIndex'[t] \in {None, viewerIndex[t]}

LEMMA ServedStill ==
  ASSUME NEW s \in Socket, SocketServed(s), connection'[s[1]] = connection[s[1]],
         toServer'[s] = toServer[s], IndexStill(s), overtaken \subseteq overtaken'
  PROVE  SocketServed(s)'
<1>1. InUse(s)' <=> InUse(s)
  BY DEF InUse, Hears, SocketOf
<1>2. Index(s)' # None => Index(s) # None
  BY DEF IndexStill, Index
<1> QED BY <1>1, <1>2 DEF SocketServed

\* Operations that index nobody but s.
LEMMA IndexChanges ==
  ASSUME StreamRoomsTypeOK, NEW s \in Socket, NEW t \in Socket, NEW r,
         \/ createRoom(r, s) /\ t # s
         \/ addViewer(r, s) /\ t # s
         \/ removeViewer(s)
         \/ closeRoom(r)
         \/ UNCHANGED <<broadcasterIndex, viewerIndex>>
  PROVE  IndexStill(t)
<1>1. CASE createRoom(r, s) /\ t # s
  BY <1>1 DEF createRoom, IndexStill, StreamRoomsTypeOK
<1>2. CASE addViewer(r, s) /\ t # s
  <2>1. broadcasterIndex' = broadcasterIndex
        /\ (viewerIndex' = viewerIndex \/ viewerIndex' = [viewerIndex EXCEPT ![s] = r])
    BY <1>2 DEF addViewer
  <2> QED BY <1>2, <2>1 DEF IndexStill, StreamRoomsTypeOK
<1>3. CASE removeViewer(s)
  BY <1>3 DEF removeViewer, IndexStill, StreamRoomsTypeOK
<1>4. CASE closeRoom(r)
  BY <1>4 DEF closeRoom, removeRoom, IndexStill, StreamRoomsTypeOK
<1>5. CASE UNCHANGED <<broadcasterIndex, viewerIndex>>
  BY <1>5 DEF IndexStill
<1> QED BY <1>1, <1>2, <1>3, <1>4, <1>5

LEMMA HandlerIndex ==
  ASSUME StreamRoomsTypeOK, NEW s \in Socket, Handler(s)
  PROVE  /\ \A t \in Socket : t # s => IndexStill(t)
         /\ \E type : Request(s, type) /\ (type = "disconnect" => handleDisconnect(s))
<1>1. CASE handleCreateStream(s)
  <2>1. \/ \E r : createRoom(r, s)
        \/ UNCHANGED <<broadcasterIndex, viewerIndex>>
    BY <1>1 DEF handleCreateStream, serviceVars
  <2>2. \A t \in Socket : t # s => IndexStill(t)
    BY <2>1, IndexChanges
  <2> QED BY <1>1, <2>2 DEF handleCreateStream
<1>2. CASE joinRefused(s) \/ handleSdp(s) \/ handleCaption(s) \/ handleSendStreamMessage(s)
           \/ handleSendReaction(s) \/ handleTrackState(s)
  <2>1. UNCHANGED <<broadcasterIndex, viewerIndex>>
    BY <1>2 DEF joinRefused, handleSdp, handleCaption, handleSendStreamMessage, handleSendReaction,
                handleTrackState, Posted, roomVars, serviceVars
  <2>2. \A t \in Socket : IndexStill(t)
    BY <2>1, IndexChanges
  <2>3. \E type \in {"JOIN_STREAM", "SDP_OFFER", "SDP_ANSWER", "POST", "TRACK_STATE"} : Request(s, type)
    BY <1>2 DEF joinRefused, handleSdp, handleCaption, handleSendStreamMessage, handleSendReaction,
                handleTrackState, Posted
  <2> QED BY <2>2, <2>3
<1>3. CASE handleJoinStream(s)
  <2>1. \/ \E r : addViewer(r, s)
        \/ UNCHANGED <<broadcasterIndex, viewerIndex>>
    BY <1>3 DEF handleJoinStream, serviceVars
  <2>2. \A t \in Socket : t # s => IndexStill(t)
    BY <2>1, IndexChanges
  <2> QED BY <1>3, <2>2 DEF handleJoinStream
<1>4. CASE handleKickViewer(s)
  <2>1. Head(toServer[s]).viewer \in Socket
    BY <1>4, RequestType, ToServerFields DEF handleKickViewer
  <2>2. removeViewer(Head(toServer[s]).viewer) \/ UNCHANGED <<broadcasterIndex, viewerIndex>>
    BY <1>4 DEF handleKickViewer, kickViewer, serviceVars
  <2>3. \A t \in Socket : IndexStill(t)
    BY <2>1, <2>2, IndexChanges
  <2> QED BY <1>4, <2>3 DEF handleKickViewer
<1>5. CASE handleEndStream(s)
  <2>1. \/ \E r : closeRoom(r)
        \/ UNCHANGED <<broadcasterIndex, viewerIndex>>
    BY <1>5 DEF handleEndStream, serviceVars
  <2>2. \A t \in Socket : IndexStill(t)
    BY <2>1, IndexChanges
  <2> QED BY <1>5, <2>2 DEF handleEndStream
<1>6. CASE handleDisconnect(s)
  <2>1. removeViewer(s) \/ \E r : closeRoom(r)
    BY <1>6 DEF handleDisconnect
  <2>2. \A t \in Socket : IndexStill(t)
    BY <2>1, IndexChanges
  <2> QED BY <1>6, <2>2 DEF handleDisconnect
<1> QED BY <1>1, <1>2, <1>3, <1>4, <1>5, <1>6 DEF Handler

\* With its disconnect a socket is indexed no more.
LEMMA DisconnectIndex ==
  ASSUME TypeOK, StreamInv, NEW s \in Socket, handleDisconnect(s)
  PROVE  Index(s)' = None
<1>1. StreamRoomsTypeOK /\ RegistryInv /\ SocketInv(s)
  BY DEF TypeOK, StreamInv
<1>2. PICK mine : mine = findRoomByBroadcaster(s)
  OBVIOUS
<1>3. CASE mine # None
  <2>1. mine \in rooms /\ mine \in RoomId /\ closeRoom(mine) /\ broadcasterIndex[s] = mine
    BY <1>1, <1>2, <1>3 DEF handleDisconnect, findRoomByBroadcaster, StreamRoomsTypeOK
  <2>2. Registered(mine)
    BY <1>1, <2>1 DEF RegistryInv
  <2>3. room[mine].broadcaster = s
    BY <2>1, <2>2 DEF Registered
  <2>4. broadcasterIndex'[s] = None
    BY <1>1, <2>1, <2>3 DEF closeRoom, removeRoom, StreamRoomsTypeOK
  <2>5. s[1] \in Host
    BY <1>1, <1>3, <2>1 DEF SocketInv
  <2> QED BY <2>4, <2>5 DEF Index
<1>4. CASE mine = None
  <2>1. broadcasterIndex[s] \in RoomId => broadcasterIndex[s] \in rooms
    BY <1>1 DEF RegistryInv, Registered
  <2>2. broadcasterIndex[s] = None
    BY <1>1, <1>2, <1>4, <2>1, StreamAssumption DEF findRoomByBroadcaster, StreamRoomsTypeOK
  <2>3. removeViewer(s)
    BY <1>2, <1>4 DEF handleDisconnect
  <2> QED BY <1>1, <2>2, <2>3 DEF removeViewer, Index, StreamRoomsTypeOK
<1> QED BY <1>3, <1>4

LEMMA RequestServed ==
  ASSUME StreamRoomsTypeOK, NEW s \in Socket, SocketServed(s), NEW type, Request(s, type)
  PROVE  /\ Apart(toServer'[s], {"disconnect"}, AllTypes)
         /\ type = "disconnect" => toServer'[s] = <<>>
         /\ type # "disconnect" => InUse(s)'
<1>1. /\ toServer[s] \in Seq(ToServer) /\ toServer[s] # <<>> /\ Head(toServer[s]).type = type
      /\ toServer'[s] = Tail(toServer[s]) /\ connection' = connection
  BY DEF Request, StreamRoomsTypeOK
<1>2. toServer'[s] \in Seq(ToServer) /\ ToSet(toServer[s]) = {Head(toServer[s])} \cup ToSet(toServer'[s])
  BY <1>1, HeadTail, SetTail
<1>3. /\ Apart(toServer'[s], {"disconnect"}, AllTypes)
      /\ type = "disconnect" => ~Has(toServer'[s], AllTypes)
  <2>1. PICK A : A = {"disconnect"}
    OBVIOUS
  <2>2. Apart(toServer[s], A, AllTypes)
    BY <2>1 DEF SocketServed
  <2>3. Apart(Tail(toServer[s]), A, AllTypes)
        /\ (Head(toServer[s]).type \in A => ~Has(Tail(toServer[s]), AllTypes))
    BY <1>1, <2>2, ApartTail
  <2> QED BY <1>1, <2>1, <2>3
<1>4. ASSUME ~Has(toServer'[s], AllTypes) PROVE toServer'[s] = <<>>
  <2>1. SUFFICES ASSUME toServer'[s] # <<>> PROVE FALSE
    OBVIOUS
  <2>2. PICK q : q = toServer'[s]
    OBVIOUS
  <2>3. q \in Seq(ToServer) /\ q # <<>> /\ ~Has(q, AllTypes)
    BY <1>2, <1>4, <2>1, <2>2
  <2>4. Head(q) \in ToServer /\ Head(q) \in ToSet(q)
    BY <2>3, SetTail, HeadTail
  <2> QED BY <2>3, <2>4 DEF Has, AllTypes
<1>5. ASSUME type # "disconnect" PROVE InUse(s)'
  <2>1. InUse(s)
    BY <1>1 DEF SocketServed
  <2>2. CASE s = SocketOf(s[1])
    BY <1>1, <2>2 DEF InUse, SocketOf
  <2>3. CASE Hears(s)
    <3>1. Has(toServer[s], {"disconnect"})
      BY <1>1, <2>3, MentionsHas DEF Hears
    <3>2. Has(toServer'[s], {"disconnect"})
      BY <1>1, <1>2, <1>5, <3>1 DEF Has
    <3> QED BY <1>2, <3>2, MentionsHas DEF InUse, Hears
  <2> QED BY <2>1, <2>2, <2>3 DEF InUse
<1> QED BY <1>3, <1>4, <1>5

LEMMA ServerStepServed ==
  ASSUME TypeOK, StreamInv, ServedInv, NEW s \in Socket, ServerStep(s)
  PROVE  ServedInv'
<1>1. StreamRoomsTypeOK /\ overtaken' = overtaken /\ \A t \in Socket : SocketServed(t)
  BY DEF TypeOK, ServerStep, ServedInv
<1>2. PICK type : Request(s, type) /\ (type = "disconnect" => handleDisconnect(s))
  BY <1>1, HandlerIndex DEF ServerStep
<1>3. connection' = connection /\ \A t \in Socket \ {s} : toServer'[t] = toServer[t]
  BY <1>1, <1>2 DEF Request, StreamRoomsTypeOK
<1>4. ASSUME NEW t \in Socket \ {s} PROVE SocketServed(t)'
  <2>1. IndexStill(t)
    BY <1>1, HandlerIndex DEF ServerStep
  <2> QED BY <1>1, <1>3, <2>1, ServedStill
<1>5. SocketServed(s)'
  <2>1. /\ Apart(toServer'[s], {"disconnect"}, AllTypes)
        /\ type = "disconnect" => toServer'[s] = <<>>
        /\ type # "disconnect" => InUse(s)'
    BY <1>1, <1>2, RequestServed
  <2>2. type = "disconnect" => Index(s)' = None
    BY <1>2, DisconnectIndex
  <2> QED BY <2>1, <2>2 DEF SocketServed
<1> QED BY <1>4, <1>5 DEF ServedInv

LEMMA ResumeServed ==
  ASSUME TypeOK, ServedInv, NEW h \in suspended, Resume(h)
  PROVE  ServedInv'
<1>1. PICK s : s = h.socket
  OBVIOUS
<1>2. /\ s \in Socket /\ StreamRoomsTypeOK /\ \A t \in Socket : SocketServed(t)
      /\ UNCHANGED <<connection, toServer>>
  BY <1>1, SuspendedFields DEF TypeOK, ServedInv, Resume, Resumed, passwordHashed, passwordCompared
<1>3. overtaken \subseteq overtaken' /\ (InUse(s) \/ s \in overtaken')
  BY <1>1 DEF Resume
<1>4. InUse(s)' <=> InUse(s)
  BY <1>2 DEF InUse, Hears, SocketOf
<1>5. SocketServed(s)'
  BY <1>2, <1>3, <1>4 DEF SocketServed
<1>6. ASSUME NEW t \in Socket \ {s} PROVE SocketServed(t)'
  <2>1. \/ \E r : createRoom(r, s) \/ addViewer(r, s)
        \/ UNCHANGED <<broadcasterIndex, viewerIndex>>
    BY <1>1 DEF Resume, Resumed, passwordHashed, passwordCompared, serviceVars
  <2>2. IndexStill(t)
    BY <1>2, <2>1, IndexChanges
  <2> QED BY <1>2, <1>3, <2>2, ServedStill
<1> QED BY <1>5, <1>6 DEF ServedInv

LEMMA QueuesServed ==
  ASSUME ServedInv, UNCHANGED <<connection, toServer, overtaken>>,
         \A t \in Socket : IndexStill(t)
  PROVE  ServedInv'
BY ServedStill DEF ServedInv

LEMMA SendServed ==
  ASSUME TypeOK, StreamInv, ServedInv, NEW p \in Page, NEW m \in ToServer, Send(p, m),
         UNCHANGED <<connection, roomVars, overtaken>>
  PROVE  ServedInv'
<1>1. PICK s \in Socket : s = SocketOf(p)
  BY CurrentSocket DEF TypeOK
<1>2. toServer[s] \in Seq(ToServer) /\ s[1] = p
  BY <1>1 DEF TypeOK, StreamRoomsTypeOK, SocketOf
<1>3. Append(toServer[s], m) = toServer[s] \o <<m>>
  BY <1>2
<1>4. toServer'[s] = toServer[s] \o <<m>> /\ \A t \in Socket \ {s} : toServer'[t] = toServer[t]
  BY <1>1, <1>3 DEF Send, TypeOK, StreamRoomsTypeOK
<1>5. \A t \in Socket : IndexStill(t) /\ Index(t)' = Index(t)
  BY DEF IndexStill, Index, roomVars, serviceVars
<1>6. Apart(toServer'[s], {"disconnect"}, AllTypes)
  <2>1. PICK A : A = {"disconnect"}
    OBVIOUS
  <2>2. Apart(toServer[s], A, AllTypes) /\ ~Has(toServer[s], A)
    BY <1>1, <1>2, <2>1 DEF ServedInv, SocketServed, StreamInv, SocketInv
  <2> QED BY <1>2, <1>4, <2>1, <2>2, ApartMore
<1>7. InUse(s)'
  BY <1>1, <1>2 DEF InUse, SocketOf
<1>8. SocketServed(s)'
  BY <1>6, <1>7 DEF SocketServed
<1>9. \A t \in Socket \ {s} : SocketServed(t)'
  BY <1>4, <1>5, ServedStill DEF ServedInv
<1> QED BY <1>8, <1>9 DEF ServedInv

LEMMA ReconnectServed ==
  ASSUME TypeOK, StreamInv, ServedInv, NEW p \in Page, NEW lost \in SUBSET Nat,
         Reconnect(p, lost), UNCHANGED <<roomVars, overtaken>>
  PROVE  ServedInv'
<1> USE DEF TypeOK
<1>1. PICK s \in Socket : s = SocketOf(p)
  BY CurrentSocket
<1>2. /\ connection[p] \in Nat /\ connection'[p] = connection[p] + 1
      /\ \A q \in Page \ {p} : connection'[q] = connection[q]
      /\ s = <<p, connection[p]>>
  BY <1>1 DEF Reconnect, StreamRoomsTypeOK, SocketOf
<1>3. PICK n \in lost :
        toServer' = [toServer EXCEPT ![s] = SubSeq(@, 1, Len(@) - n) \o <<[type |-> "disconnect"]>>]
  BY <1>1 DEF Reconnect
<1>4. toServer[s] \in Seq(ToServer) /\ Len(toServer[s]) \in Nat
  BY <1>1, CurrentSocket
<1>5. PICK q, d : q = SubSeq(toServer[s], 1, Len(toServer[s]) - n) /\ d = [type |-> "disconnect"]
  OBVIOUS
<1>6. q \in Seq(ToServer) /\ d \in ToServer /\ d.type = "disconnect"
  BY <1>4, <1>5, ToServerMessages
<1>7. toServer'[s] = q \o <<d>> /\ \A u \in Socket \ {s} : toServer'[u] = toServer[u]
  BY <1>3, <1>5 DEF StreamRoomsTypeOK
<1>8. toServer'[s] \in Seq(ToServer) /\ ToSet(toServer'[s]) = ToSet(q) \cup {d}
  BY <1>6, <1>7, SetMore, ShortSequences
<1>9. \A t \in Socket : IndexStill(t)
  BY DEF IndexStill, roomVars, serviceVars
<1>10. InUse(s)'
  <2>1. Has(toServer'[s], {"disconnect"})
    BY <1>6, <1>8 DEF Has
  <2> QED BY <1>8, <2>1, MentionsHas DEF InUse, Hears
<1>11. Apart(toServer'[s], {"disconnect"}, AllTypes)
  <2>1. PICK A : A = {"disconnect"}
    OBVIOUS
  <2>2. ~Has(toServer[s], A)
    BY <1>1, <1>2, <2>1 DEF StreamInv, SocketInv
  <2>3. ~Has(q, A) /\ DOMAIN q = 1..Len(q)
    <3>1. \A i \in 1..Len(q) : q[i] \in ToSet(toServer[s])
      <4>1. \A i \in 1..Len(q) : i \in 1..Len(toServer[s]) /\ q[i] = toServer[s][i]
        BY <1>3, <1>4, <1>5
      <4>2. DOMAIN toServer[s] = 1..Len(toServer[s])
        BY <1>4
      <4> QED BY <4>1, <4>2 DEF ToSet
    <3>2. DOMAIN q = 1..Len(q)
      BY <1>6
    <3> QED BY <2>2, <3>1, <3>2 DEF Has, ToSet
  <2>4. Apart(q, A, AllTypes)
    BY <2>3, ApartAbsent
  <2> QED BY <1>6, <1>7, <2>1, <2>3, <2>4, ApartMore
<1>12. SocketServed(s)'
  BY <1>10, <1>11 DEF SocketServed
<1>13. ASSUME NEW u \in Socket \ {s} PROVE SocketServed(u)'
  <2>1. u[1] \in Page /\ SocketServed(u) /\ toServer'[u] = toServer[u] /\ IndexStill(u)
    BY <1>7, <1>9, <1>13, SocketFields DEF ServedInv
  <2>2. CASE u[1] # p
    BY <1>2, <2>1, <2>2, ServedStill
  <2>3. CASE u[1] = p
    <3>1. u # SocketOf(u[1])
      BY <1>1, <1>13, <2>3
    <3>2. InUse(u) => InUse(u)'
      BY <2>1, <3>1 DEF InUse, Hears
    <3>3. Index(u)' # None => Index(u) # None
      BY <2>1 DEF IndexStill, Index
    <3> QED BY <2>1, <3>2, <3>3 DEF SocketServed
  <2> QED BY <2>2, <2>3
<1> QED BY <1>12, <1>13 DEF ServedInv

LEMMA QuietServed ==
  ASSUME TypeOK, StreamInv, ServedInv, NEW p \in Page, QuietStep(p), UNCHANGED overtaken
  PROVE  ServedInv'
<1>1. UNCHANGED <<connection, roomVars>>
  BY DEF QuietStep
<1>2. CASE UNCHANGED toServer
  BY <1>1, <1>2, QueuesServed DEF IndexStill, roomVars, serviceVars
<1>3. CASE \E m \in ToServer : Send(p, m)
  BY <1>1, <1>3, SendServed
<1> QED BY <1>2, <1>3 DEF QuietStep

LEMMA UserStepServed ==
  ASSUME TypeOK, StreamInv, ServedInv, NEW p \in Page, UserStep(p), UNCHANGED overtaken
  PROVE  ServedInv'
<1>1. CASE QuietStep(p)
  BY <1>1, QuietServed
<1>2. CASE createStream(p) \/ mediaRefused(p)
  BY <1>2, QueuesServed DEF createStream, mediaRefused, socketVars, IndexStill, roomVars, serviceVars
<1>3. CASE mediaAcquired(p) \/ joinStream(p)
  <2>1. UNCHANGED <<connection, roomVars>>
    BY <1>3 DEF mediaAcquired, joinStream
  <2>2. \E m \in ToServer : Send(p, m)
    BY <1>3, ToServerMessages DEF mediaAcquired, joinStream
  <2> QED BY <2>1, <2>2, SendServed
<1>4. CASE leaveStream(p) \/ pageLeft(p) \/ connectionLost(p)
  <2>1. {0} \in SUBSET Nat /\ 0..Len(toServer[SocketOf(p)]) \in SUBSET Nat
    OBVIOUS
  <2> QED BY <1>4, <2>1, ReconnectServed DEF leaveStream, pageLeft, connectionLost
<1> QED BY <1>1, <1>2, <1>3, <1>4, UserStepCases DEF TypeOK

LEMMA PageHandlerServed ==
  ASSUME TypeOK, StreamInv, ServedInv, NEW p \in Page, PageHandler(p), UNCHANGED overtaken
  PROVE  ServedInv'
<1>1. CASE describe(p)
  BY <1>1, peersQuiet, QuietServed DEF TypeOK
<1>2. CASE \E type : Receive(p, type)
  BY <1>2, QueuesServed DEF Receive, IndexStill, roomVars, serviceVars
<1>3. describe(p) \/ \E type : Receive(p, type)
  BY DEF PageHandler, onStreamCreated, onJoinError, onViewerJoined, onViewerLeft, onStreamJoined,
         onSdpOffer, onSdpAnswer, onViewerCount, onTrackState, onPost, onStreamOver
<1> QED BY <1>1, <1>2, <1>3

LEMMA ServedStep ==
  ASSUME TypeOK, StreamInv, ServedInv, [Next]_vars
  PROVE  ServedInv'
<1>1. CASE UNCHANGED vars
  BY <1>1, QueuesServed DEF vars, socketVars, roomVars, serviceVars, IndexStill
<1>2. ASSUME NEW r \in RoomId, Expiry(r) PROVE ServedInv'
  <2>1. UNCHANGED <<connection, toServer, overtaken>> /\ closeRoom(r)
    BY <1>2 DEF Expiry, expire
  <2>2. \A t \in Socket : IndexStill(t)
    BY <2>1, IndexChanges DEF TypeOK
  <2> QED BY <2>1, <2>2, QueuesServed
<1> QED BY <1>1, <1>2, UserStepServed, PageHandlerServed, ServerStepServed, ResumeServed DEF Next

\* No stream outlives its broadcaster's socket and no viewer its own, unless the answer
\* of bcrypt came after the disconnect or after the end of the stream.
THEOREM NoGhosts == SafeSpec => []NoGhostStream
<1>1. Init => ServedInv
  <2> SUFFICES ASSUME Init PROVE ServedInv
    OBVIOUS
  <2>1. \A s \in Socket : /\ toServer[s] = <<>> /\ broadcasterIndex[s] = None
                          /\ viewerIndex[s] = None
    BY DEF Init, StreamRoomsInit
  <2>2. \A A, B : Apart(<<>>, A, B)
    BY ApartShort
  <2> QED BY <2>1, <2>2 DEF ServedInv, SocketServed, Index
<1>2. ASSUME TypeOK, StreamInv, ServedInv PROVE NoGhostStream
  <2> SUFFICES ASSUME NEW r \in rooms, NEW s \in room[r].viewers \cup {room[r].broadcaster}
               PROVE  InUse(s) \/ s \in overtaken
    BY DEF NoGhostStream
  <2>1. r \in RoomId /\ room[r] # None
    BY <1>2 DEF TypeOK, StreamRoomsTypeOK
  <2>2. s \in Socket
    BY <1>2, <2>1, RoomFields DEF TypeOK
  <2>3. s \in members[r]
    BY <1>2 DEF StreamInv, RegistryInv, MembersInv
  <2>4. Index(s) = r /\ r # None
    BY <1>2, <2>2, <2>3, MemberIndex
  <2> QED BY <1>2, <2>2, <2>4 DEF ServedInv, SocketServed
<1>3. TypeOK /\ StreamInv /\ ServedInv /\ [Next]_vars => ServedInv'
  BY ServedStep
<1> QED BY <1>1, <1>2, <1>3, StreamInvariant, PTL DEF SafeSpec

-----------------------------------------------------------------------------
(* The list of viewers.  The broadcaster's page will list, once it has read  *)
(* its queue, everybody in the stream, and nobody else but who was removed   *)
(* by the broadcaster or let in after the end of the stream before.          *)
News == {"VIEWER_JOINED", "VIEWER_LEFT"}

\* What changes the list.
Turns == News \cup Ends

\* The list after one message.
Listing(m, listed) ==
  CASE m.type = "VIEWER_JOINED" -> listed \cup {m.viewer}
    [] m.type = "VIEWER_LEFT" -> listed \ {m.viewer}
    [] m.type \in Ends -> {}
    [] OTHER -> listed

Delists(m, v) == m.type \in Ends \/ (m.type = "VIEWER_LEFT" /\ m.viewer = v)

\* The list after all the messages of a queue.
Comes(queue, listed, v) ==
  \/ v \in listed /\ \A j \in 1..Len(queue) : ~Delists(queue[j], v)
  \/ \E i \in 1..Len(queue) :
       /\ queue[i].type = "VIEWER_JOINED" /\ queue[i].viewer = v
       /\ \A j \in 1..Len(queue) : i < j => ~Delists(queue[j], v)

Coming(queue, listed) == {v \in Socket : Comes(queue, listed, v)}

\* The viewers of the stream that socket s broadcasts.
Audience(s) == IF broadcasterIndex[s] = None THEN {} ELSE room[broadcasterIndex[s]].viewers

\* Between who is there and who is there or gone without a word.
Between(list, now, gone) == now \subseteq list /\ list \subseteq now \cup gone

ListedInv(p) ==
  p \notin severed =>
    Between(Coming(toPage[p], session[p].viewers), Audience(SocketOf(p)), kicked \cup overtaken)

\* A page that lost the connection of its stream hears no more of it on the new one.
LostInv(p) ==
  p \in severed =>
    /\ Index(SocketOf(p)) = None /\ ~Asks(SocketOf(p))
    /\ ~Has(toPage[p], Answers \cup Ends)
    /\ session[p].role # "none" \/ (Pending(p) /\ ~session[p].asking)

\* A page hears that a viewer left only during its stream.
GoneInv(p) ==
  /\ Has(toPage[p], {"VIEWER_LEFT"}) => Live(p)
  /\ Apart(toPage[p], Ends, {"VIEWER_LEFT"})

AudienceInv(p) == ListedInv(p) /\ LostInv(p) /\ GoneInv(p)

LEMMA Turning ==
  /\ Ends = {"STREAM_ENDED", "STREAM_KICKED"}
  /\ Turns = {"VIEWER_JOINED", "VIEWER_LEFT", "STREAM_ENDED", "STREAM_KICKED"}
  /\ Answers = {"STREAM_CREATED", "STREAM_JOINED", "JOIN_ERROR"}
  /\ \A m, v : Delists(m, v) => m.type \in Turns
BY DEF Ends, Turns, News, Answers, Admitted, Delists

\* What one message does to one viewer's place on the list.
LEMMA ListingOne ==
  ASSUME NEW m, NEW listed, NEW v
  PROVE  v \in Listing(m, listed) <=> \/ m.type = "VIEWER_JOINED" /\ m.viewer = v
                                      \/ v \in listed /\ ~Delists(m, v)
<1>1. CASE m.type = "VIEWER_JOINED"
  BY <1>1 DEF Listing, Delists, Ends
<1>2. CASE m.type = "VIEWER_LEFT"
  BY <1>2 DEF Listing, Delists, Ends
<1>3. CASE m.type \in Ends
  BY <1>3 DEF Listing, Delists, Ends
<1>4. CASE m.type # "VIEWER_JOINED" /\ m.type # "VIEWER_LEFT" /\ m.type \notin Ends
  BY <1>4 DEF Listing, Delists
<1> QED BY <1>1, <1>2, <1>3, <1>4

LEMMA ComesTail ==
  ASSUME NEW S, NEW q \in Seq(S), q # <<>>, NEW listed, NEW v
  PROVE  Comes(q, listed, v) <=> Comes(Tail(q), Listing(Head(q), listed), v)
<1>1. /\ Len(q) \in Nat /\ Len(q) > 0 /\ Len(Tail(q)) = Len(q) - 1
      /\ Head(q) = q[1]
      /\ \A i \in 1..Len(Tail(q)) : Tail(q)[i] = q[i + 1] /\ i + 1 \in 1..Len(q)
  OBVIOUS
<1>2. PICK t, h, after : t = Tail(q) /\ h = Head(q) /\ after = Listing(h, listed)
  OBVIOUS
<1>3. v \in after <=> (h.type = "VIEWER_JOINED" /\ h.viewer = v) \/ (v \in listed /\ ~Delists(h, v))
  BY <1>2, ListingOne
<1>4. /\ Len(t) \in Nat /\ Len(q) = Len(t) + 1 /\ h = q[1]
      /\ \A i \in 1..Len(t) : t[i] = q[i + 1]
      /\ \A i \in 2..Len(q) : t[i - 1] = q[i] /\ i - 1 \in 1..Len(t)
  BY <1>1, <1>2
<1>5. ASSUME Comes(q, listed, v) PROVE Comes(t, after, v)
  <2>1. CASE v \in listed /\ \A j \in 1..Len(q) : ~Delists(q[j], v)
    <3>1. ~Delists(h, v)
      BY <1>4, <2>1
    <3>2. ASSUME NEW j \in 1..Len(t) PROVE ~Delists(t[j], v)
      <4>1. j + 1 \in 1..Len(q) /\ t[j] = q[j + 1]
        BY <1>4
      <4> QED BY <2>1, <4>1
    <3> QED BY <1>3, <2>1, <3>1, <3>2 DEF Comes
  <2>2. ASSUME NEW i \in 1..Len(q), q[i].type = "VIEWER_JOINED", q[i].viewer = v,
               \A j \in 1..Len(q) : i < j => ~Delists(q[j], v)
        PROVE  Comes(t, after, v)
    <3>1. ASSUME NEW j \in 1..Len(t), i < j + 1 PROVE ~Delists(t[j], v)
      <4>1. j + 1 \in 1..Len(q) /\ t[j] = q[j + 1]
        BY <1>4
      <4> QED BY <2>2, <3>1, <4>1
    <3>2. CASE i = 1
      <4>1. v \in after
        BY <1>3, <1>4, <2>2, <3>2
      <4>2. \A j \in 1..Len(t) : ~Delists(t[j], v)
        BY <1>4, <3>1, <3>2
      <4> QED BY <4>1, <4>2 DEF Comes
    <3>3. CASE i # 1
      <4>1. i - 1 \in 1..Len(t) /\ t[i - 1] = q[i]
        BY <1>4, <3>3
      <4>2. \A j \in 1..Len(t) : i - 1 < j => ~Delists(t[j], v)
        BY <1>4, <3>1
      <4> QED BY <2>2, <4>1, <4>2 DEF Comes
    <3> QED BY <3>2, <3>3
  <2> QED BY <1>5, <2>1, <2>2 DEF Comes
<1>6. ASSUME Comes(t, after, v) PROVE Comes(q, listed, v)
  <2>1. ASSUME NEW i \in Nat, \A j \in 1..Len(t) : i < j => ~Delists(t[j], v)
        PROVE  \A j \in 1..Len(q) : i + 1 < j => ~Delists(q[j], v)
    <3>1. ASSUME NEW j \in 1..Len(q), i + 1 < j PROVE ~Delists(q[j], v)
      <4>1. j \in 2..Len(q)
        BY <1>4, <3>1
      <4>2. j - 1 \in 1..Len(t) /\ t[j - 1] = q[j] /\ i < j - 1
        BY <1>4, <3>1, <4>1
      <4> QED BY <2>1, <4>2
    <3> QED BY <3>1
  <2>2. CASE v \in after /\ \A j \in 1..Len(t) : ~Delists(t[j], v)
    <3>1. \A j \in 1..Len(q) : 1 < j => ~Delists(q[j], v)
      BY <2>1, <2>2
    <3>2. CASE h.type = "VIEWER_JOINED" /\ h.viewer = v
      <4>1. 1 \in 1..Len(q) /\ q[1] = h
        BY <1>4
      <4> QED BY <3>1, <3>2, <4>1 DEF Comes
    <3>3. CASE v \in listed /\ ~Delists(h, v)
      <4>1. \A j \in 1..Len(q) : j = 1 \/ 1 < j
        BY <1>4
      <4> QED BY <1>4, <3>1, <3>3, <4>1 DEF Comes
    <3> QED BY <1>3, <2>2, <3>2, <3>3
  <2>3. ASSUME NEW i \in 1..Len(t), t[i].type = "VIEWER_JOINED", t[i].viewer = v,
               \A j \in 1..Len(t) : i < j => ~Delists(t[j], v)
        PROVE  Comes(q, listed, v)
    <3>1. i + 1 \in 1..Len(q) /\ q[i + 1] = t[i]
      BY <1>4
    <3>2. \A j \in 1..Len(q) : i + 1 < j => ~Delists(q[j], v)
      BY <2>1, <2>3
    <3> QED BY <2>3, <3>1, <3>2 DEF Comes
  <2> QED BY <1>6, <2>2, <2>3 DEF Comes
<1> QED BY <1>2, <1>5, <1>6

\* What is added to a queue and does not change the place of v.
LEMMA ComesOthers ==
  ASSUME NEW S, NEW q \in Seq(S), NEW ms \in Seq(S), NEW listed, NEW v,
         \A n \in ToSet(ms) : ~Delists(n, v) /\ ~(n.type = "VIEWER_JOINED" /\ n.viewer = v)
  PROVE  Comes(q \o ms, listed, v) <=> Comes(q, listed, v)
<1>1. PICK t : t = q \o ms
  OBVIOUS
<1>2. /\ Len(q) \in Nat /\ Len(ms) \in Nat /\ Len(t) = Len(q) + Len(ms)
      /\ \A i \in 1..Len(q) : t[i] = q[i] /\ i \in 1..Len(t)
      /\ \A i \in 1..Len(ms) : t[Len(q) + i] = ms[i]
  BY <1>1
<1>3. ASSUME NEW i \in 1..Len(t), i \notin 1..Len(q)
      PROVE  ~Delists(t[i], v) /\ ~(t[i].type = "VIEWER_JOINED" /\ t[i].viewer = v)
  <2>1. i - Len(q) \in 1..Len(ms) /\ Len(q) + (i - Len(q)) = i
    BY <1>2, <1>3
  <2>2. t[i] = ms[i - Len(q)]
    BY <1>2, <2>1
  <2>3. t[i] \in ToSet(ms)
    BY <2>1, <2>2 DEF ToSet
  <2> QED BY <2>3
<1>4. (\A j \in 1..Len(t) : ~Delists(t[j], v)) <=> \A j \in 1..Len(q) : ~Delists(q[j], v)
  BY <1>2, <1>3
<1>5. \A i \in 1..Len(q) :
        (\A j \in 1..Len(t) : i < j => ~Delists(t[j], v))
          <=> \A j \in 1..Len(q) : i < j => ~Delists(q[j], v)
  BY <1>2, <1>3
<1>6. (\E i \in 1..Len(t) : /\ t[i].type = "VIEWER_JOINED" /\ t[i].viewer = v
                            /\ \A j \in 1..Len(t) : i < j => ~Delists(t[j], v))
        <=> \E i \in 1..Len(q) : /\ q[i].type = "VIEWER_JOINED" /\ q[i].viewer = v
                                 /\ \A j \in 1..Len(q) : i < j => ~Delists(q[j], v)
  BY <1>2, <1>3, <1>5
<1> QED BY <1>1, <1>4, <1>6 DEF Comes

\* The one message about the list that is added.
LEMMA ComesOne ==
  ASSUME NEW S, NEW q \in Seq(S), NEW ms \in Seq(S), NEW listed, NEW v,
         NEW m \in ToSet(ms), \A n \in ToSet(ms) : n.type \in Turns => n = m
  PROVE  Comes(q \o ms, listed, v) <=> \/ m.type = "VIEWER_JOINED" /\ m.viewer = v
                                       \/ Comes(q, listed, v) /\ ~Delists(m, v)
<1>1. PICK t : t = q \o ms
  OBVIOUS
<1>2. /\ Len(q) \in Nat /\ Len(ms) \in Nat /\ Len(t) = Len(q) + Len(ms)
      /\ \A i \in 1..Len(q) : t[i] = q[i] /\ i \in 1..Len(t)
      /\ \A i \in 1..Len(ms) : t[Len(q) + i] = ms[i]
  BY <1>1
<1>3. PICK k \in 1..Len(ms) : ms[k] = m
  BY DEF ToSet
<1>4. Len(q) + k \in 1..Len(t) /\ t[Len(q) + k] = m
  BY <1>2, <1>3
<1>5. ASSUME NEW i \in 1..Len(t), i \notin 1..Len(q)
      PROVE  t[i].type \in Turns => t[i] = m
  <2>1. i - Len(q) \in 1..Len(ms) /\ Len(q) + (i - Len(q)) = i
    BY <1>2, <1>5
  <2>2. t[i] = ms[i - Len(q)]
    BY <1>2, <2>1
  <2>3. t[i] \in ToSet(ms)
    BY <2>1, <2>2 DEF ToSet
  <2> QED BY <2>3
<1>6. CASE m.type = "VIEWER_JOINED" /\ m.viewer = v
  <2>1. ~Delists(m, v)
    BY <1>6 DEF Delists, Ends
  <2>2. \A j \in 1..Len(t) : Len(q) + k < j => j \notin 1..Len(q)
    BY <1>2, <1>3
  <2>3. \A j \in 1..Len(t) : Len(q) + k < j => ~Delists(t[j], v)
    BY <1>5, <2>1, <2>2, Turning
  <2> QED BY <1>1, <1>4, <1>6, <2>3 DEF Comes
<1>7. CASE Delists(m, v)
  <2>1. m.type # "VIEWER_JOINED"
    BY <1>7 DEF Delists, Ends
  <2>2. ASSUME NEW i \in 1..Len(t), t[i].type = "VIEWER_JOINED",
               \A j \in 1..Len(t) : i < j => ~Delists(t[j], v)
        PROVE  FALSE
    <3>1. "VIEWER_JOINED" \in Turns
      BY Turning
    <3>2. i \in 1..Len(q)
      BY <1>5, <2>1, <2>2, <3>1
    <3>3. i < Len(q) + k
      BY <1>2, <1>3, <3>2
    <3> QED BY <1>4, <1>7, <2>2, <3>3
  <2>3. ~Comes(t, listed, v)
    BY <1>4, <1>7, <2>2 DEF Comes
  <2> QED BY <1>1, <1>7, <2>1, <2>3
<1>8. CASE ~Delists(m, v) /\ ~(m.type = "VIEWER_JOINED" /\ m.viewer = v)
  <2>1. \A n \in ToSet(ms) : ~Delists(n, v) /\ ~(n.type = "VIEWER_JOINED" /\ n.viewer = v)
    BY <1>8, Turning
  <2> QED BY <1>8, <2>1, ComesOthers
<1> QED BY <1>6, <1>7, <1>8

LEMMA ComingQueues ==
  ASSUME NEW q \in Seq(ToPage), NEW listed
  PROVE  /\ q # <<>> => Coming(q, listed) = Coming(Tail(q), Listing(Head(q), listed))
         /\ \A ms \in Seq(ToPage) : ~Has(ms, Turns) => Coming(q \o ms, listed) = Coming(q, listed)
         /\ \A ms \in Seq(ToPage) : \A m \in ToSet(ms) :
              (\A n \in ToSet(ms) : n.type \in Turns => n = m) =>
                Coming(q \o ms, listed) = Listing(m, Coming(q, listed))
         /\ ~Has(q, Turns) /\ listed \subseteq Socket => Coming(q, listed) = listed
<1>1. q # <<>> => Coming(q, listed) = Coming(Tail(q), Listing(Head(q), listed))
  BY ComesTail DEF Coming
<1>2. ASSUME NEW ms \in Seq(ToPage), ~Has(ms, Turns)
      PROVE  Coming(q \o ms, listed) = Coming(q, listed)
  <2>1. \A n \in ToSet(ms) : \A v : ~Delists(n, v) /\ n.type # "VIEWER_JOINED"
    BY <1>2, Turning DEF Has
  <2> QED BY <2>1, ComesOthers DEF Coming
<1>3. ASSUME NEW ms \in Seq(ToPage), NEW m \in ToSet(ms),
             \A n \in ToSet(ms) : n.type \in Turns => n = m
      PROVE  Coming(q \o ms, listed) = Listing(m, Coming(q, listed))
  <2>1. m \in ToPage
    BY DEF ToSet
  <2>2. m.type = "VIEWER_JOINED" => m.viewer \in Socket
    BY <2>1, ToPageFields
  <2>3. ASSUME NEW v
        PROVE  v \in Coming(q \o ms, listed) <=> v \in Listing(m, Coming(q, listed))
    <3>1. Comes(q \o ms, listed, v) <=> \/ m.type = "VIEWER_JOINED" /\ m.viewer = v
                                        \/ Comes(q, listed, v) /\ ~Delists(m, v)
      BY <1>3, ComesOne
    <3>2. v \in Listing(m, Coming(q, listed)) <=> \/ m.type = "VIEWER_JOINED" /\ m.viewer = v
                                                  \/ v \in Coming(q, listed) /\ ~Delists(m, v)
      BY ListingOne
    <3> QED BY <2>2, <3>1, <3>2 DEF Coming
  <2> QED BY <2>3
<1>4. ASSUME ~Has(q, Turns)
      PROVE  \A v : Comes(q, listed, v) <=> v \in listed
  <2>1. DOMAIN q = 1..Len(q)
    OBVIOUS
  <2>2. \A j \in 1..Len(q) : q[j].type \notin Turns
    BY <1>4, <2>1 DEF Has, ToSet
  <2> QED BY <2>2, Turning DEF Comes
<1> QED BY <1>1, <1>2, <1>3, <1>4 DEF Coming


-----------------------------------------------------------------------------
(* What the steps of the server tell the broadcaster's page.                 *)

\* What is sent to page p, and who watches the stream of its socket u then.
Sees(p) ==
  \E u \in Socket, ms \in Seq(ToPage) :
    /\ u = SocketOf(p) /\ toPage'[p] = toPage[p] \o ms
    /\ Has(ms, Answers) => Asks(u)
    /\ Has(ms, Ends \cup {"VIEWER_LEFT"}) => Index(u) # None
    /\ \/ ~Has(ms, Turns) /\ Between(Audience(u), Audience(u)', kicked')
       \/ \E m \in ToSet(ms) :
            /\ m.type \in Turns /\ \A n \in ToSet(ms) : n.type \in Turns => n = m
            /\ Between(Listing(m, Audience(u)), Audience(u)', overtaken')

LEMMA ListedMore ==
  ASSUME NEW m, NEW list, NEW now, NEW gone, Between(list, now, gone),
         NEW later, NEW more, Between(Listing(m, now), later, more)
  PROVE  Between(Listing(m, list), later, gone \cup more)
<1>1. ASSUME NEW v \in later PROVE v \in Listing(m, list)
  <2>1. v \in Listing(m, now)
    BY <1>1 DEF Between
  <2> QED BY <2>1, ListingOne DEF Between
<1>2. ASSUME NEW v \in Listing(m, list) PROVE v \in later \cup gone \cup more
  <2>1. v \in Listing(m, now) \/ v \in gone
    BY <1>2, ListingOne DEF Between
  <2> QED BY <2>1 DEF Between
<1> QED BY <1>1, <1>2 DEF Between

LEMMA SeesKept ==
  ASSUME TypeOK, StreamInv, NEW p \in Page, AudienceInv(p), Sees(p),
         UNCHANGED <<connection, session, severed>>,
         kicked \subseteq kicked', overtaken \subseteq overtaken',
         \A u \in Socket : (Asks(u)' => Asks(u)) /\ (Index(u)' # None => Index(u) # None \/ Asks(u))
  PROVE  AudienceInv(p)'
<1>1. PICK u \in Socket, ms \in Seq(ToPage) :
        /\ u = SocketOf(p) /\ toPage'[p] = toPage[p] \o ms
        /\ Has(ms, Answers) => Asks(u)
        /\ Has(ms, Ends \cup {"VIEWER_LEFT"}) => Index(u) # None
        /\ \/ ~Has(ms, Turns) /\ Between(Audience(u), Audience(u)', kicked')
           \/ \E m \in ToSet(ms) :
                /\ m.type \in Turns /\ \A n \in ToSet(ms) : n.type \in Turns => n = m
                /\ Between(Listing(m, Audience(u)), Audience(u)', overtaken')
  BY DEF Sees
<1>2. SocketOf(p)' = u /\ session'[p] = session[p] /\ toPage[p] \in Seq(ToPage)
  BY <1>1 DEF SocketOf, TypeOK, StreamRoomsTypeOK
<1>3. PICK q, list : q = toPage[p] /\ list = session[p].viewers
  OBVIOUS
<1>4. ToSet(q \o ms) = ToSet(q) \cup ToSet(ms)
  BY <1>2, <1>3, SetConcat
<1>5. ASSUME p \notin severed
      PROVE  Between(Coming(q \o ms, list), Audience(u)', kicked' \cup overtaken')
  <2>1. Between(Coming(q, list), Audience(u), kicked \cup overtaken)
    BY <1>1, <1>3, <1>5 DEF AudienceInv, ListedInv
  <2>2. CASE ~Has(ms, Turns) /\ Between(Audience(u), Audience(u)', kicked')
    <3>1. Coming(q \o ms, list) = Coming(q, list)
      BY <1>2, <1>3, <2>2, ComingQueues
    <3> QED BY <2>1, <2>2, <3>1 DEF Between
  <2>3. ASSUME NEW m \in ToSet(ms), m.type \in Turns,
               \A n \in ToSet(ms) : n.type \in Turns => n = m,
               Between(Listing(m, Audience(u)), Audience(u)', overtaken')
        PROVE  Between(Coming(q \o ms, list), Audience(u)', kicked' \cup overtaken')
    <3>1. Coming(q \o ms, list) = Listing(m, Coming(q, list))
      BY <1>2, <1>3, <2>3, ComingQueues
    <3>2. Between(Listing(m, Coming(q, list)), Audience(u)', kicked \cup overtaken \cup overtaken')
      BY <2>1, <2>3, ListedMore
    <3> QED BY <3>1, <3>2 DEF Between
  <2> QED BY <1>1, <2>2, <2>3
<1>6. ListedInv(p)'
  BY <1>1, <1>2, <1>3, <1>5 DEF ListedInv
<1>7. LostInv(p)'
  <2> SUFFICES ASSUME p \in severed PROVE LostInv(p)'
    BY DEF LostInv
  <2>1. /\ Index(u) = None /\ ~Asks(u) /\ ~Has(q, Answers \cup Ends)
        /\ session[p].role # "none" \/ (Pending(p) /\ ~session[p].asking)
    BY <1>1, <1>3 DEF AudienceInv, LostInv
  <2>2. ~Has(ms, Answers) /\ ~Has(ms, Ends)
    BY <1>1, <2>1 DEF Has
  <2>3. ~Has(q \o ms, Answers \cup Ends)
    BY <1>4, <2>1, <2>2 DEF Has
  <2>4. Index(u)' = None /\ ~Asks(u)'
    BY <2>1
  <2> QED BY <1>1, <1>2, <1>3, <2>1, <2>3, <2>4 DEF LostInv, Pending
<1>8. Has(ms, {"VIEWER_LEFT"}) => Live(p) /\ ~Has(q, Ends)
  <2>1. Has(ms, {"VIEWER_LEFT"}) => Index(u) # None
    BY <1>1 DEF Has
  <2> QED BY <1>1, <1>3, <2>1, ShowsLive DEF StreamInv, PageInv
<1>9. GoneInv(p)'
  <2>1. Live(p) => Live(p)'
    BY <1>1, <1>2, <1>3, <1>4 DEF Live, Has
  <2>2. Has(q \o ms, {"VIEWER_LEFT"}) => Live(p)'
    BY <1>3, <1>4, <1>8, <2>1 DEF AudienceInv, GoneInv, Has
  <2>3. Apart(ms, Ends, {"VIEWER_LEFT"})
    <3>1. DOMAIN ms = 1..Len(ms)
      OBVIOUS
    <3>2. ~Has(ms, Ends) \/ ~Has(ms, {"VIEWER_LEFT"})
      BY <1>1 DEF Has, Turns, News, Ends
    <3> QED BY <3>1, <3>2, ApartWithout, ApartAbsent
  <2>4. Apart(q \o ms, Ends, {"VIEWER_LEFT"})
    BY <1>2, <1>3, <1>8, <2>3, ApartConcat DEF AudienceInv, GoneInv
  <2> QED BY <1>1, <1>3, <2>2, <2>4 DEF GoneInv
<1> QED BY <1>6, <1>7, <1>9 DEF AudienceInv

\* What is sent, as a set.
LEMMA SentSet ==
  ASSUME StreamRoomsTypeOK, NEW sent \in [Socket -> Seq(ToPage)], Emit(sent), NEW p \in Page,
         NEW u \in Socket, u = SocketOf(p)
  PROVE  sent[u] \in Seq(ToPage) /\ toPage'[p] = toPage[p] \o sent[u]
BY DEF Emit

LEMMA ToSent ==
  ASSUME NEW u \in Socket, NEW sockets, NEW m
  PROVE  ToSet(To(sockets, m)[u]) = IF u \in sockets THEN {m} ELSE {}
BY ToQueue, SetOne, SetNothing

LEMMA ThenSent ==
  ASSUME NEW u \in Socket, NEW sent \in [Socket -> Seq(ToPage)], NEW more \in [Socket -> Seq(ToPage)]
  PROVE  /\ Then(sent, more) \in [Socket -> Seq(ToPage)]
         /\ ToSet(Then(sent, more)[u]) = ToSet(sent[u]) \cup ToSet(more[u])
<1>1. Then(sent, more)[u] = sent[u] \o more[u]
  BY DEF Then
<1>2. ToSet(sent[u] \o more[u]) = ToSet(sent[u]) \cup ToSet(more[u])
  BY SetConcat
<1> QED BY <1>1, <1>2, ThenType

LEMMA AudienceSame ==
  ASSUME StreamRoomsTypeOK, NEW u \in Socket, broadcasterIndex'[u] = broadcasterIndex[u],
         \A r \in RoomId : broadcasterIndex[u] = r => room'[r].viewers = room[r].viewers
  PROVE  Audience(u)' = Audience(u)
BY DEF Audience, StreamRoomsTypeOK

LEMMA NothingSeen ==
  ASSUME StreamRoomsTypeOK, NEW p \in Page, NEW u \in Socket, u = SocketOf(p),
         NEW ms \in Seq(ToPage), toPage'[p] = toPage[p] \o ms,
         \A n \in ToSet(ms) : n.type \notin Turns /\ (n.type \in Answers => Asks(u)),
         Audience(u)' = Audience(u)
  PROVE  Sees(p)
<1>1. ~Has(ms, Turns) /\ (Has(ms, Answers) => Asks(u)) /\ ~Has(ms, Ends \cup {"VIEWER_LEFT"})
  BY DEF Has, Turns, News
<1>2. Between(Audience(u), Audience(u)', kicked')
  BY DEF Between
<1> QED BY <1>1, <1>2 DEF Sees

\* One message is sent to some, and it is not about viewers; or nothing is.
LEMMA OneSeen ==
  ASSUME StreamRoomsTypeOK, NEW p \in Page, NEW u \in Socket, u = SocketOf(p),
         Audience(u)' = Audience(u),
         \/ UNCHANGED toPage
         \/ \E m \in ToPage : \E sockets :
              /\ Emit(To(sockets, m)) /\ m.type \notin Turns
              /\ u \in sockets /\ m.type \in Answers => Asks(u)
  PROVE  Sees(p)
<1>1. CASE UNCHANGED toPage
  <2>1. PICK ms : ms = <<>>
    OBVIOUS
  <2>2. ms \in Seq(ToPage) /\ ToSet(ms) = {}
    BY <2>1, SetNothing
  <2>3. toPage[p] \o <<>> = toPage[p]
    BY DEF StreamRoomsTypeOK
  <2> QED BY <1>1, <2>1, <2>2, <2>3, NothingSeen
<1>2. ASSUME NEW m \in ToPage, NEW sockets, Emit(To(sockets, m)), m.type \notin Turns,
             u \in sockets /\ m.type \in Answers => Asks(u)
      PROVE  Sees(p)
  <2>1. PICK sent : sent = To(sockets, m)
    OBVIOUS
  <2>2. sent \in [Socket -> Seq(ToPage)] /\ Emit(sent)
    BY <1>2, <2>1, ToType
  <2>3. sent[u] \in Seq(ToPage) /\ toPage'[p] = toPage[p] \o sent[u]
    BY <2>2, SentSet
  <2>4. \A n \in ToSet(sent[u]) : n = m /\ u \in sockets
    <3>1. ToSet(sent[u]) = IF u \in sockets THEN {m} ELSE {}
      BY <2>1, ToSent
    <3> QED BY <3>1
  <2> QED BY <1>2, <2>3, <2>4, NothingSeen
<1> QED BY <1>1, <1>2


\* A step of the server takes from the queues, and indexes only those who asked.
LEMMA IndexedAsked ==
  ASSUME TypeOK, StreamInv, NEW s \in Socket, ServerStep(s)
  PROVE  /\ UNCHANGED <<connection, session, severed, overtaken>> /\ kicked \subseteq kicked'
         /\ \A u \in Socket : (Asks(u)' => Asks(u)) /\ (Index(u)' # None => Index(u) # None \/ Asks(u))
<1>1. UNCHANGED <<session, severed, overtaken>> /\ kicked \subseteq kicked' /\ Handler(s)
      /\ StreamRoomsTypeOK /\ SocketInv(s)
  BY DEF ServerStep, sessionVars, TypeOK, StreamInv
<1>2. PICK type : Request(s, type) /\ (type = "disconnect" => handleDisconnect(s))
  BY <1>1, HandlerIndex
<1>3. /\ connection' = connection /\ Has(toServer[s], {type})
      /\ \A u \in Socket : \A A : Has(toServer'[u], A) => Has(toServer[u], A)
  BY <1>1, <1>2, RequestEffect
<1>4. ASSUME NEW u \in Socket, u # s
      PROVE  (Waits(u)' => Waits(u)) /\ (Index(u)' # None => Index(u) # None)
  <2>1. IndexStill(u)
    BY <1>1, <1>4, HandlerIndex
  <2>2. \A h \in suspended' : h \in suspended \/ h.socket = s
    BY <1>1 DEF Handler, handleCreateStream, joinRefused, handleJoinStream, handleSdp, handleTrackState,
         handleCaption, handleSendStreamMessage, handleSendReaction, Posted, handleKickViewer,
         handleEndStream, handleDisconnect, roomVars
  <2> QED BY <1>4, <2>1, <2>2 DEF Index, IndexStill, Waits
<1>5. CASE handleCreateStream(s) \/ joinRefused(s) \/ handleJoinStream(s)
  <2>1. Asks(s)
    BY <1>1, <1>5, AskingSocket DEF handleCreateStream, joinRefused, handleJoinStream, Ask
  <2> QED BY <1>1, <1>3, <1>4, <2>1 DEF Asks
<1>6. CASE ~(handleCreateStream(s) \/ joinRefused(s) \/ handleJoinStream(s))
  <2>1. suspended' = suspended
    BY <1>1, <1>6 DEF Handler, handleSdp, handleTrackState, handleCaption, handleSendStreamMessage,
         handleSendReaction, Posted, handleKickViewer, handleEndStream, handleDisconnect, roomVars
  <2>2. \/ \E v \in Socket : removeViewer(v)
        \/ \E r : closeRoom(r)
        \/ UNCHANGED <<broadcasterIndex, viewerIndex>>
    <3>1. CASE handleSdp(s) \/ handleTrackState(s)
      BY <3>1 DEF handleSdp, handleTrackState, roomVars, serviceVars
    <3>2. CASE handleCaption(s) \/ handleSendStreamMessage(s) \/ handleSendReaction(s)
      BY <3>2 DEF handleCaption, handleSendStreamMessage, handleSendReaction, Posted, roomVars, serviceVars
    <3>3. CASE handleKickViewer(s)
      <4>1. Head(toServer[s]).viewer \in Socket
        BY <1>1, <3>3, RequestType, ToServerFields DEF handleKickViewer
      <4> QED BY <3>3, <4>1 DEF handleKickViewer, kickViewer, serviceVars
    <3>4. CASE handleEndStream(s)
      BY <3>4 DEF handleEndStream, serviceVars
    <3>5. CASE handleDisconnect(s)
      BY <3>5 DEF handleDisconnect
    <3> QED BY <1>1, <1>6, <3>1, <3>2, <3>3, <3>4, <3>5 DEF Handler
  <2>3. IndexStill(s)
    BY <1>1, <2>2, IndexChanges
  <2>4. \A h : h \in suspended' <=> h \in suspended
    BY <2>1
  <2> QED BY <1>1, <1>3, <1>4, <2>3, <2>4 DEF Asks, Waits, Index, IndexStill
<1> QED BY <1>5, <1>6

LEMMA ResumedAsked ==
  ASSUME TypeOK, StreamInv, NEW h \in suspended, Resume(h)
  PROVE  /\ UNCHANGED <<connection, session, severed, kicked>> /\ overtaken \subseteq overtaken'
         /\ \A u \in Socket : (Asks(u)' => Asks(u)) /\ (Index(u)' # None => Index(u) # None \/ Asks(u))
<1>1. /\ UNCHANGED <<connection, toServer, session, severed>> /\ overtaken \subseteq overtaken'
      /\ h.socket \in Socket /\ h.room \in RoomId /\ Asks(h.socket)
      /\ \A u \in Socket : Waits(u)' => Waits(u)
  BY ResumeSocket
<1>2. kicked' = kicked /\ Resumed(h)
  BY DEF Resume
<1>3. ASSUME NEW u \in Socket, u # h.socket PROVE IndexStill(u)
  <2>1. \/ createRoom(h.room, h.socket)
        \/ addViewer(h.room, h.socket)
        \/ UNCHANGED <<broadcasterIndex, viewerIndex>>
    BY <1>2 DEF Resumed, passwordHashed, passwordCompared, serviceVars
  <2> QED BY <1>1, <1>3, <2>1, IndexChanges DEF TypeOK
<1> QED BY <1>1, <1>2, <1>3 DEF Asks, Index, IndexStill

LEMMA ExpiredAsked ==
  ASSUME TypeOK, StreamInv, NEW r \in RoomId, Expiry(r)
  PROVE  /\ UNCHANGED <<connection, session, severed, kicked, overtaken>>
         /\ \A u \in Socket : (Asks(u)' => Asks(u)) /\ (Index(u)' # None => Index(u) # None \/ Asks(u))
<1>1. /\ UNCHANGED <<connection, toServer, suspended, session, severed, kicked, overtaken>>
      /\ closeRoom(r)
  BY DEF Expiry, expire, sessionVars
<1>2. \A u \in Socket : IndexStill(u)
  BY <1>1, IndexChanges DEF TypeOK
<1> QED BY <1>1, <1>2 DEF Asks, Waits, Index, IndexStill


\* A stream ends: its broadcaster's list is emptied with it.
LEMMA closeRoomSees ==
  ASSUME TypeOK, StreamInv, NEW r \in rooms, closeRoom(r), NEW p \in Page
  PROVE  Sees(p)
<1>1. StreamRoomsTypeOK /\ RegistryInv /\ \A t \in Socket : SocketInv(t)
  BY DEF TypeOK, StreamInv
<1>2. PICK u \in Socket : u = SocketOf(p)
  BY <1>1, CurrentSocket
<1>3. /\ room' = room
      /\ broadcasterIndex'[u] = IF broadcasterIndex[u] = r THEN None ELSE broadcasterIndex[u]
  BY <1>1, closeRoomRegistry
<1>4. (u \in members[r] <=> Index(u) = r) /\ r # None
  BY MemberIndex
<1>5. PICK m, sent : m = [type |-> "STREAM_ENDED"] /\ sent = To(members[r], m)
  OBVIOUS
<1>6. m \in ToPage /\ m.type = "STREAM_ENDED" /\ Emit(sent) /\ sent \in [Socket -> Seq(ToPage)]
  BY <1>5, ToPageMessages, ToType DEF closeRoom
<1>7. /\ sent[u] \in Seq(ToPage) /\ toPage'[p] = toPage[p] \o sent[u]
      /\ ToSet(sent[u]) = IF u \in members[r] THEN {m} ELSE {}
  <2>1. sent[u] \in Seq(ToPage) /\ toPage'[p] = toPage[p] \o sent[u]
    BY <1>1, <1>2, <1>6, SentSet
  <2>2. ToSet(To(members[r], m)[u]) = IF u \in members[r] THEN {m} ELSE {}
    BY ToSent
  <2> QED BY <1>5, <2>1, <2>2
<1>8. CASE u \in members[r]
  <2>1. Audience(u)' = {}
    BY <1>1, <1>3, <1>4, <1>8 DEF Audience, Index, SocketInv
  <2>2. Listing(m, Audience(u)) = {} /\ m.type \in Turns
    BY <1>6 DEF Listing, Turns, Ends
  <2>3. ~Has(sent[u], Answers)
    BY <1>6, <1>7, <1>8 DEF Has, Answers, Admitted
  <2>4. /\ m \in ToSet(sent[u]) /\ \A n \in ToSet(sent[u]) : n.type \in Turns => n = m
        /\ Between(Listing(m, Audience(u)), Audience(u)', overtaken')
    BY <1>7, <1>8, <2>1, <2>2 DEF Between
  <2> QED BY <1>2, <1>4, <1>7, <1>8, <2>2, <2>3, <2>4 DEF Sees
<1>9. CASE u \notin members[r]
  <2>1. broadcasterIndex[u] # r
    BY <1>1, <1>4, <1>9 DEF Index, SocketInv
  <2>2. Audience(u)' = Audience(u)
    BY <1>1, <1>3, <2>1, AudienceSame
  <2> QED BY <1>1, <1>2, <1>7, <1>9, <2>2, NothingSeen
<1> QED BY <1>8, <1>9

LEMMA createRoomSees ==
  ASSUME TypeOK, StreamInv, NEW r \in RoomId, NEW s \in Socket, createRoom(r, s), room[r] = None,
         s[1] \in Host, Asks(s), NEW p \in Page
  PROVE  Sees(p)
<1>1. StreamRoomsTypeOK /\ RegistryInv /\ \A t \in Socket : SocketInv(t)
  BY DEF TypeOK, StreamInv
<1>2. PICK u \in Socket : u = SocketOf(p)
  BY <1>1, CurrentSocket
<1>3. PICK x : x = [broadcaster |-> s, viewers |-> {}, track |-> InitialTrack]
  OBVIOUS
<1>4. /\ room' = [room EXCEPT ![r] = x] /\ x.viewers = {}
      /\ broadcasterIndex' = [broadcasterIndex EXCEPT ![s] = r]
  BY <1>3 DEF createRoom
<1>5. broadcasterIndex[s] = None
  BY <1>1 DEF SocketInv, Index
<1>6. r \notin rooms /\ r # None
  BY <1>1, StreamAssumption DEF StreamRoomsTypeOK
<1>7. Audience(u)' = Audience(u)
  <2>1. CASE u = s
    <3>1. broadcasterIndex'[u] = r /\ room'[r].viewers = {}
      BY <1>1, <1>4, <2>1 DEF StreamRoomsTypeOK
    <3> QED BY <1>5, <1>6, <2>1, <3>1 DEF Audience
  <2>2. CASE u # s
    <3>1. broadcasterIndex'[u] = broadcasterIndex[u]
      BY <1>1, <1>4, <2>2 DEF StreamRoomsTypeOK
    <3>2. broadcasterIndex[u] # r
      BY <1>1, <1>6 DEF RegistryInv, Registered
    <3>3. \A q \in RoomId : q # r => room'[q] = room[q]
      BY <1>1, <1>4 DEF StreamRoomsTypeOK
    <3> QED BY <1>1, <3>1, <3>2, <3>3, AudienceSame
  <2> QED BY <2>1, <2>2
<1>8. PICK m : m = [type |-> "STREAM_CREATED", room |-> r]
  OBVIOUS
<1>9. m \in ToPage /\ m.type \notin Turns /\ Emit(To({s}, m))
  BY <1>8, ToPageMessages, Turning DEF createRoom
<1> QED BY <1>1, <1>2, <1>7, <1>9, OneSeen

\* The viewer is in, or is let in though the stream has ended: the broadcaster is told.
LEMMA addViewerSees ==
  ASSUME TypeOK, StreamInv, NEW r \in RoomId, NEW s \in Socket, addViewer(r, s), room[r] # None,
         Asks(s), r \in rooms \/ s \in overtaken', NEW p \in Page
  PROVE  Sees(p)
<1>1. StreamRoomsTypeOK /\ RegistryInv
  BY DEF TypeOK, StreamInv
<1>2. PICK u \in Socket : u = SocketOf(p)
  BY <1>1, CurrentSocket
<1>3. PICK viewers : viewers = room[r].viewers \cup (IF r \in rooms THEN {s} ELSE {})
  OBVIOUS
<1>4. viewers \in SUBSET Socket
  BY <1>1, <1>3, RoomFields
<1>5. /\ broadcasterIndex' = broadcasterIndex
      /\ room'[r].viewers = viewers /\ \A q \in RoomId : q # r => room'[q] = room[q]
  <2>1. broadcasterIndex' = broadcasterIndex /\ room' = [room EXCEPT ![r].viewers = viewers]
    BY <1>3 DEF addViewer
  <2>2. room \in [RoomId -> Room \cup {None}] /\ room[r] \in Room
    BY <1>1, RoomFields DEF StreamRoomsTypeOK
  <2>3. PICK x : x = [room[r] EXCEPT !.viewers = viewers]
    OBVIOUS
  <2>4. x.viewers = viewers
    BY <2>2, <2>3 DEF Room
  <2> QED BY <2>1, <2>2, <2>3, <2>4
<1>6. PICK m, n : /\ m = [type |-> "STREAM_JOINED", room |-> r,
                          broadcaster |-> room[r].broadcaster,
                          count |-> Cardinality(viewers), track |-> room[r].track]
                  /\ n = [type |-> "VIEWER_JOINED", viewer |-> s]
  OBVIOUS
<1>7. /\ m \in ToPage /\ m.type = "STREAM_JOINED"
      /\ n \in ToPage /\ n.type = "VIEWER_JOINED" /\ n.viewer = s
      /\ Count(viewers) \in ToPage /\ Count(viewers).type = "VIEWER_COUNT"
  <2>1. m \in ToPage /\ m.type = "STREAM_JOINED"
    BY <1>1, <1>4, <1>6, RoomFields, Counted, ToPageMessages
  <2>2. n \in ToPage /\ n.type = "VIEWER_JOINED" /\ n.viewer = s
    BY <1>6, ToPageMessages
  <2> QED BY <1>4, <2>1, <2>2, CountMessage
<1>8. PICK a, b, c, d, sent : /\ a = To({s}, m) /\ b = To({room[r].broadcaster}, n)
                              /\ c = To(members[r] \cup {s}, Count(viewers))
                              /\ d = Then(b, c) /\ sent = Then(a, d)
  OBVIOUS
<1>9. /\ a \in [Socket -> Seq(ToPage)] /\ b \in [Socket -> Seq(ToPage)]
      /\ c \in [Socket -> Seq(ToPage)]
  BY <1>7, <1>8, ToType
<1>10. /\ d \in [Socket -> Seq(ToPage)] /\ sent \in [Socket -> Seq(ToPage)]
       /\ ToSet(sent[u]) = ToSet(a[u]) \cup (ToSet(b[u]) \cup ToSet(c[u]))
  <2>1. d \in [Socket -> Seq(ToPage)] /\ ToSet(d[u]) = ToSet(b[u]) \cup ToSet(c[u])
    BY <1>8, <1>9, ThenSent
  <2>2. sent \in [Socket -> Seq(ToPage)] /\ ToSet(sent[u]) = ToSet(a[u]) \cup ToSet(d[u])
    <3>1. /\ Then(a, d) \in [Socket -> Seq(ToPage)]
          /\ ToSet(Then(a, d)[u]) = ToSet(a[u]) \cup ToSet(d[u])
      BY <1>9, <2>1, ThenSent
    <3>2. sent = Then(a, d)
      BY <1>8
    <3> QED BY <3>1, <3>2
  <2> QED BY <2>1, <2>2
<1>11. Emit(sent)
  BY <1>3, <1>6, <1>8 DEF addViewer
<1>12. sent[u] \in Seq(ToPage) /\ toPage'[p] = toPage[p] \o sent[u]
  BY <1>1, <1>2, <1>10, <1>11, SentSet
<1>13. /\ ToSet(a[u]) = IF u \in {s} THEN {m} ELSE {}
       /\ ToSet(b[u]) = IF u \in {room[r].broadcaster} THEN {n} ELSE {}
       /\ ToSet(c[u]) = IF u \in members[r] \cup {s} THEN {Count(viewers)} ELSE {}
  BY <1>8, ToSent
<1>14. \A k \in ToSet(sent[u]) : \/ k = m /\ u = s
                                 \/ k = n /\ u = room[r].broadcaster
                                 \/ k = Count(viewers)
  BY <1>10, <1>13
<1>15. \A q \in RoomId : broadcasterIndex[u] = q => q \in rooms /\ room[q].broadcaster = u
  BY <1>1 DEF RegistryInv, Registered
<1>16. CASE u = room[r].broadcaster
  <2>1. n \in ToSet(sent[u]) /\ n.type \in Turns
    BY <1>7, <1>10, <1>13, <1>16, Turning
  <2>2. \A k \in ToSet(sent[u]) : k.type \in Turns => k = n
    BY <1>7, <1>14, Turning
  <2>3. Has(sent[u], Answers) => Asks(u)
    BY <1>7, <1>14, Turning DEF Has
  <2>4. ~Has(sent[u], Ends \cup {"VIEWER_LEFT"})
    BY <1>7, <1>14, Turning DEF Has
  <2>5. Listing(n, Audience(u)) = Audience(u) \cup {s}
    BY <1>7 DEF Listing, Ends
  <2>6. CASE r \in rooms
    <3>1. broadcasterIndex[u] = r /\ r # None
      BY <1>1, <1>16, <2>6, StreamAssumption DEF RegistryInv, Registered
    <3>2. Audience(u) = room[r].viewers /\ Audience(u)' = viewers
      BY <1>5, <3>1 DEF Audience
    <3>3. Between(Listing(n, Audience(u)), Audience(u)', overtaken')
      BY <1>3, <2>5, <2>6, <3>2 DEF Between
    <3> QED BY <1>2, <1>12, <2>1, <2>2, <2>3, <2>4, <3>3 DEF Sees
  <2>7. CASE r \notin rooms
    <3>1. Audience(u)' = Audience(u)
      BY <1>1, <1>5, <1>15, <2>7, AudienceSame
    <3>2. Between(Listing(n, Audience(u)), Audience(u)', overtaken')
      BY <2>5, <2>7, <3>1 DEF Between
    <3> QED BY <1>2, <1>12, <2>1, <2>2, <2>3, <2>4, <3>2 DEF Sees
  <2> QED BY <2>6, <2>7
<1>17. CASE u # room[r].broadcaster
  <2>1. Audience(u)' = Audience(u)
    BY <1>1, <1>5, <1>15, <1>17, AudienceSame
  <2>2. \A k \in ToSet(sent[u]) : k.type \notin Turns /\ (k.type \in Answers => Asks(u))
    BY <1>7, <1>14, <1>17, Turning
  <2> QED BY <1>1, <1>2, <1>12, <2>1, <2>2, NothingSeen
<1> QED BY <1>16, <1>17

\* The steps that change no list and are about no viewer.
LEMMA ElseSees ==
  ASSUME TypeOK, StreamInv, NEW s \in Socket,
         \/ joinRefused(s) \/ handleSdp(s) \/ handleTrackState(s)
         \/ handleCaption(s) \/ handleSendStreamMessage(s) \/ handleSendReaction(s),
         NEW p \in Page
  PROVE  Sees(p)
<1>1. StreamRoomsTypeOK /\ \A t \in Socket : SocketInv(t)
  BY DEF TypeOK, StreamInv
<1>2. PICK u \in Socket : u = SocketOf(p)
  BY <1>1, CurrentSocket
<1>3. CASE joinRefused(s)
  <2>1. PICK m : m = [type |-> "JOIN_ERROR"]
    OBVIOUS
  <2>2. m \in ToPage /\ m.type \notin Turns /\ Emit(To({s}, m)) /\ UNCHANGED <<broadcasterIndex, room>>
    BY <1>3, <2>1, ToPageMessages, Turning DEF joinRefused, roomVars, serviceVars
  <2>3. Asks(s)
    BY <1>1, <1>3, AskingSocket DEF joinRefused, Ask
  <2>4. Audience(u)' = Audience(u)
    BY <2>2 DEF Audience
  <2> QED BY <1>1, <1>2, <2>2, <2>3, <2>4, OneSeen
<1>4. CASE handleSdp(s)
  <2>1. PICK type \in {"SDP_OFFER", "SDP_ANSWER"} :
          Emit(To({Head(toServer[s]).target}, [type |-> type, sender |-> s]))
    BY <1>4 DEF handleSdp
  <2>2. PICK m, sockets : m = [type |-> type, sender |-> s] /\ sockets = {Head(toServer[s]).target}
    OBVIOUS
  <2>3. m \in ToPage /\ m.type = type /\ Emit(To(sockets, m))
    BY <2>1, <2>2, ToPageMessages
  <2>4. m.type \notin Turns /\ m.type \notin Answers
    BY <2>3, Turning
  <2>5. Audience(u)' = Audience(u)
    BY <1>4 DEF Audience, handleSdp, roomVars, serviceVars
  <2> QED BY <1>1, <1>2, <2>3, <2>4, <2>5, OneSeen
<1>5. CASE handleTrackState(s)
  <2>1. PICK r, track, m : /\ r = Head(toServer[s]).room /\ track = Head(toServer[s]).track
                           /\ m = [type |-> "TRACK_STATE", track |-> track]
    OBVIOUS
  <2>2. r \in RoomId /\ track \in Track /\ broadcasterIndex' = broadcasterIndex
    BY <1>1, <1>5, <2>1, RequestType, ToServerFields DEF handleTrackState
  <2>3. m \in ToPage /\ m.type \notin Turns /\ m.type \notin Answers
    BY <2>1, <2>2, ToPageMessages, Turning
  <2>4. CASE IsMine(s)
    <3>1. r \in rooms /\ room[r] # None
      BY <1>1, <2>1, <2>2, <2>4, Mine DEF StreamRoomsTypeOK
    <3>2. Emit(To(members[r], m)) /\ room' = [room EXCEPT ![r].track = track]
      BY <1>5, <2>1, <2>4 DEF handleTrackState
    <3>3. room \in [RoomId -> Room \cup {None}] /\ room[r] \in Room
      BY <1>1, <2>2, <3>1, RoomFields DEF StreamRoomsTypeOK
    <3>4. PICK x : x = [room[r] EXCEPT !.track = track]
      OBVIOUS
    <3>5. x.viewers = room[r].viewers
      BY <3>3, <3>4 DEF Room
    <3>6. \A q \in RoomId : room'[q].viewers = room[q].viewers
      BY <3>2, <3>3, <3>4, <3>5
    <3>7. Audience(u)' = Audience(u)
      BY <1>1, <2>2, <3>6, AudienceSame
    <3> QED BY <1>1, <1>2, <2>3, <3>2, <3>7, OneSeen
  <2>5. CASE ~IsMine(s)
    <3>1. UNCHANGED <<room, toPage>>
      BY <1>5, <2>5 DEF handleTrackState
    <3>2. Audience(u)' = Audience(u)
      BY <2>2, <3>1 DEF Audience
    <3> QED BY <1>1, <1>2, <3>1, <3>2, OneSeen
  <2> QED BY <2>4, <2>5
<1>6. CASE handleCaption(s) \/ handleSendStreamMessage(s) \/ handleSendReaction(s)
  <2>1. PICK m : m = [type |-> "POST", post |-> Head(toServer[s]).post]
    OBVIOUS
  <2>2. Request(s, "POST") /\ UNCHANGED <<broadcasterIndex, room>>
    BY <1>6 DEF handleCaption, handleSendStreamMessage, handleSendReaction, Posted, roomVars, serviceVars
  <2>3. m \in ToPage /\ m.type \notin Turns /\ m.type \notin Answers
    BY <1>1, <2>1, <2>2, RequestType, ToServerFields, ToPageMessages, Turning
  <2>4. UNCHANGED toPage \/ \E sockets : Emit(To(sockets, m))
    BY <1>6, <2>1 DEF handleCaption, handleSendStreamMessage, handleSendReaction, Relay
  <2>5. Audience(u)' = Audience(u)
    BY <2>2 DEF Audience
  <2> QED BY <1>1, <1>2, <2>3, <2>4, <2>5, OneSeen
<1> QED BY <1>3, <1>4, <1>5, <1>6


\* The viewer that is removed from a stream, in the room and in the indexes.
LEMMA RemovedViewer ==
  ASSUME TypeOK, StreamInv, NEW v \in Socket, removeViewer(v), NEW r \in rooms, viewerIndex[v] = r
  PROVE  /\ r \in RoomId /\ r # None /\ room[r] # None /\ v \in room[r].viewers
         /\ v[1] \notin Host /\ broadcasterIndex[v] = None /\ Index(v) = r
         /\ broadcasterIndex' = broadcasterIndex
         /\ room'[r].viewers = room[r].viewers \ {v}
         /\ \A q \in RoomId : q # r => room'[q] = room[q]
<1>1. r \in RoomId /\ r # None /\ room[r] # None /\ room[r] \in Room
  BY MemberIndex
<1>2. v \in room[r].viewers
  BY <1>1 DEF StreamInv, RegistryInv, Registered
<1>3. v[1] \notin Host /\ broadcasterIndex[v] = None /\ Index(v) = r
  BY <1>1 DEF StreamInv, SocketInv, Index
<1>4. PICK x : x = [room[r] EXCEPT !.viewers = @ \ {v}]
  OBVIOUS
<1>5. x.viewers = room[r].viewers \ {v}
  BY <1>1, <1>4 DEF Room
<1>6. room' = [room EXCEPT ![r] = x] /\ broadcasterIndex' = broadcasterIndex
  BY <1>4 DEF removeViewer
<1>7. room'[r] = x /\ \A q \in RoomId : q # r => room'[q] = room[q]
  BY <1>1, <1>6 DEF TypeOK, StreamRoomsTypeOK
<1> QED BY <1>1, <1>2, <1>3, <1>5, <1>6, <1>7

\* The broadcaster removes a viewer, and nothing tells its page.
LEMMA handleKickViewerSees ==
  ASSUME TypeOK, StreamInv, NEW s \in Socket, ServerStep(s), handleKickViewer(s), NEW p \in Page
  PROVE  Sees(p)
<1>1. /\ Request(s, "KICK_VIEWER") /\ StreamRoomsTypeOK /\ RegistryInv
      /\ \A t \in Socket : SocketInv(t)
  BY DEF handleKickViewer, TypeOK, StreamInv
<1>2. PICK u \in Socket : u = SocketOf(p)
  BY <1>1, CurrentSocket
<1>3. PICK r, v : r = Head(toServer[s]).room /\ v = Head(toServer[s]).viewer
  OBVIOUS
<1>4. r \in RoomId /\ v \in Socket
  BY <1>1, <1>3, RequestType, ToServerFields
<1>5. CASE IsMine(s) /\ v \in room[r].viewers
  <2>1. r \in rooms /\ kickViewer(r, v)
    BY <1>1, <1>3, <1>4, <1>5, Mine DEF handleKickViewer
  <2>2. viewerIndex[v] = r /\ removeViewer(v)
    BY <1>1, <1>4, <1>5, <2>1 DEF RegistryInv, Registered, kickViewer
  <2>3. /\ r # None /\ room[r] # None /\ v[1] \notin Host
        /\ broadcasterIndex[v] = None /\ Index(v) = r /\ broadcasterIndex' = broadcasterIndex
        /\ room'[r].viewers = room[r].viewers \ {v}
        /\ \A q \in RoomId : q # r => room'[q] = room[q]
    BY <1>4, <2>1, <2>2, RemovedViewer
  <2>4. v \in kicked' /\ kicked \subseteq kicked'
    <3>1. kicked' = kicked \cup (UNION {room[q].viewers \ room'[q].viewers : q \in rooms})
      BY <1>1 DEF ServerStep, Request
    <3>2. v \in room[r].viewers \ room'[r].viewers
      BY <1>5, <2>3
    <3> QED BY <2>1, <3>1, <3>2
  <2>5. Between(Audience(u), Audience(u)', kicked')
    <3>1. CASE broadcasterIndex[u] = r
      <4>1. Audience(u) = room[r].viewers /\ Audience(u)' = room[r].viewers \ {v}
        BY <2>3, <3>1 DEF Audience
      <4> QED BY <2>4, <4>1 DEF Between
    <3>2. CASE broadcasterIndex[u] # r
      <4>1. Audience(u)' = Audience(u)
        BY <1>1, <2>3, <3>2, AudienceSame
      <4> QED BY <4>1 DEF Between
    <3> QED BY <3>1, <3>2
  <2>6. PICK viewers : viewers = room[r].viewers \ {v}
    OBVIOUS
  <2>7. PICK m, a, b, sent : /\ m = [type |-> "STREAM_KICKED"] /\ a = To({v}, m)
                             /\ b = To(members[r] \ {v}, Count(viewers)) /\ sent = Then(a, b)
    OBVIOUS
  <2>8. viewers \in SUBSET Socket
    BY <1>1, <1>4, <2>3, <2>6, RoomFields
  <2>9. /\ m \in ToPage /\ m.type = "STREAM_KICKED"
        /\ Count(viewers) \in ToPage /\ Count(viewers).type = "VIEWER_COUNT"
    BY <2>7, <2>8, ToPageMessages, CountMessage
  <2>10. a \in [Socket -> Seq(ToPage)] /\ b \in [Socket -> Seq(ToPage)] /\ Emit(sent)
    <3>1. a \in [Socket -> Seq(ToPage)] /\ b \in [Socket -> Seq(ToPage)]
      BY <2>7, <2>9, ToType
    <3>2. Emit(sent)
      BY <2>1, <2>6, <2>7 DEF kickViewer
    <3> QED BY <3>1, <3>2
  <2>11. /\ sent \in [Socket -> Seq(ToPage)]
         /\ ToSet(sent[u]) = ToSet(a[u]) \cup ToSet(b[u])
    <3>1. /\ Then(a, b) \in [Socket -> Seq(ToPage)]
          /\ ToSet(Then(a, b)[u]) = ToSet(a[u]) \cup ToSet(b[u])
      BY <2>10, ThenSent
    <3> QED BY <2>7, <3>1
  <2>12. sent[u] \in Seq(ToPage) /\ toPage'[p] = toPage[p] \o sent[u]
    BY <1>1, <1>2, <2>10, <2>11, SentSet
  <2>13. /\ ToSet(a[u]) = IF u \in {v} THEN {m} ELSE {}
         /\ ToSet(b[u]) = IF u \in members[r] \ {v} THEN {Count(viewers)} ELSE {}
    BY <2>7, ToSent
  <2>14. \A k \in ToSet(sent[u]) : (k = m /\ u = v) \/ k = Count(viewers)
    BY <2>11, <2>13
  <2>15. ~Has(sent[u], Answers)
    BY <2>9, <2>14, Turning DEF Has
  <2>16. CASE u = v
    <3>1. Audience(u)' = {} /\ Index(u) # None
      BY <2>3, <2>16 DEF Audience
    <3>2. Listing(m, Audience(u)) = {}
      BY <2>9 DEF Listing, Ends
    <3>3. Between(Listing(m, Audience(u)), Audience(u)', overtaken')
      BY <3>1, <3>2 DEF Between
    <3>4. m \in ToSet(sent[u]) /\ m.type \in Turns /\ \A k \in ToSet(sent[u]) : k.type \in Turns => k = m
      BY <2>9, <2>11, <2>13, <2>14, <2>16, Turning
    <3> QED BY <1>2, <2>12, <2>15, <3>1, <3>3, <3>4 DEF Sees
  <2>17. CASE u # v
    <3>1. ~Has(sent[u], Turns) /\ ~Has(sent[u], Ends \cup {"VIEWER_LEFT"})
      BY <2>9, <2>14, <2>17, Turning DEF Has
    <3> QED BY <1>2, <2>5, <2>12, <2>15, <3>1 DEF Sees
  <2> QED BY <2>16, <2>17
<1>6. CASE ~(IsMine(s) /\ v \in room[r].viewers)
  <2>1. UNCHANGED <<toPage, broadcasterIndex, room>>
    BY <1>3, <1>6 DEF handleKickViewer, serviceVars
  <2>2. Audience(u)' = Audience(u)
    BY <2>1 DEF Audience
  <2> QED BY <1>1, <1>2, <2>1, <2>2, OneSeen
<1> QED BY <1>5, <1>6

\* A viewer disconnects, and the broadcaster is told; or the broadcaster does.
LEMMA handleDisconnectSees ==
  ASSUME TypeOK, StreamInv, NEW s \in Socket, handleDisconnect(s), NEW p \in Page
  PROVE  Sees(p)
<1>1. StreamRoomsTypeOK /\ RegistryInv /\ \A t \in Socket : SocketInv(t)
  BY DEF TypeOK, StreamInv
<1>2. PICK u \in Socket : u = SocketOf(p)
  BY <1>1, CurrentSocket
<1>3. PICK mine : mine = findRoomByBroadcaster(s)
  OBVIOUS
<1>4. CASE mine # None
  <2>1. mine \in rooms /\ closeRoom(mine)
    BY <1>1, <1>3, <1>4, Mine DEF handleDisconnect
  <2> QED BY <2>1, closeRoomSees
<1>5. CASE mine = None
  <2>1. PICK left, r : left = [q \in RoomId |-> members[q] \ {s}] /\ r = viewerIndex[s]
    OBVIOUS
  <2>2. removeViewer(s)
    BY <1>3, <1>5 DEF handleDisconnect
  <2>3. CASE r \notin rooms
    <3>1. UNCHANGED <<toPage, broadcasterIndex, room>>
      BY <1>3, <1>5, <2>1, <2>2, <2>3 DEF handleDisconnect, removeViewer
    <3>2. Audience(u)' = Audience(u)
      BY <3>1 DEF Audience
    <3> QED BY <1>1, <1>2, <3>1, <3>2, OneSeen
  <2>4. CASE r \in rooms
    <3>1. /\ r \in RoomId /\ r # None /\ room[r] # None
          /\ broadcasterIndex' = broadcasterIndex
          /\ room'[r].viewers = room[r].viewers \ {s}
          /\ \A q \in RoomId : q # r => room'[q] = room[q]
      BY <2>1, <2>2, <2>4, RemovedViewer
    <3>2. PICK viewers : viewers = room[r].viewers \ {s}
      OBVIOUS
    <3>3. viewers \in SUBSET Socket
      BY <1>1, <3>1, <3>2, RoomFields
    <3>4. PICK m, a, b, sent :
            /\ m = [type |-> "VIEWER_LEFT", viewer |-> s] /\ a = To({room[r].broadcaster}, m)
            /\ b = To(left[r], Count(viewers)) /\ sent = Then(a, b)
      OBVIOUS
    <3>5. /\ m \in ToPage /\ m.type = "VIEWER_LEFT" /\ m.viewer = s
          /\ Count(viewers) \in ToPage /\ Count(viewers).type = "VIEWER_COUNT"
      BY <3>3, <3>4, ToPageMessages, CountMessage
    <3>6. a \in [Socket -> Seq(ToPage)] /\ b \in [Socket -> Seq(ToPage)] /\ Emit(sent)
      <4>1. a \in [Socket -> Seq(ToPage)] /\ b \in [Socket -> Seq(ToPage)]
        BY <3>4, <3>5, ToType
      <4>2. Emit(sent)
        BY <1>3, <1>5, <2>1, <2>4, <3>2, <3>4 DEF handleDisconnect
      <4> QED BY <4>1, <4>2
    <3>7. /\ sent \in [Socket -> Seq(ToPage)]
          /\ ToSet(sent[u]) = ToSet(a[u]) \cup ToSet(b[u])
      <4>1. /\ Then(a, b) \in [Socket -> Seq(ToPage)]
            /\ ToSet(Then(a, b)[u]) = ToSet(a[u]) \cup ToSet(b[u])
        BY <3>6, ThenSent
      <4> QED BY <3>4, <4>1
    <3>8. sent[u] \in Seq(ToPage) /\ toPage'[p] = toPage[p] \o sent[u]
      BY <1>1, <1>2, <3>6, <3>7, SentSet
    <3>9. /\ ToSet(a[u]) = IF u \in {room[r].broadcaster} THEN {m} ELSE {}
          /\ ToSet(b[u]) = IF u \in left[r] THEN {Count(viewers)} ELSE {}
      BY <3>4, ToSent
    <3>10. \A k \in ToSet(sent[u]) : (k = m /\ u = room[r].broadcaster) \/ k = Count(viewers)
      BY <3>7, <3>9
    <3>11. ~Has(sent[u], Answers)
      BY <3>5, <3>10, Turning DEF Has
    <3>12. broadcasterIndex[u] = r <=> room[r].broadcaster = u
      BY <1>1, <2>4, <3>1 DEF RegistryInv, Registered
    <3>13. CASE u = room[r].broadcaster
      <4>1. Audience(u) = room[r].viewers /\ Audience(u)' = viewers
        BY <3>1, <3>2, <3>12, <3>13 DEF Audience
      <4>2. Listing(m, Audience(u)) = Audience(u) \ {s}
        BY <3>5 DEF Listing, Ends
      <4>3. Between(Listing(m, Audience(u)), Audience(u)', overtaken')
        BY <3>2, <4>1, <4>2 DEF Between
      <4>4. m \in ToSet(sent[u]) /\ m.type \in Turns /\ \A k \in ToSet(sent[u]) : k.type \in Turns => k = m
        BY <3>5, <3>7, <3>9, <3>10, <3>13, Turning
      <4>5. Index(u) # None
        BY <1>1, <3>1, <3>12, <3>13 DEF Index, SocketInv
      <4> QED BY <1>2, <3>8, <3>11, <4>3, <4>4, <4>5 DEF Sees
    <3>14. CASE u # room[r].broadcaster
      <4>1. Audience(u)' = Audience(u)
        BY <1>1, <3>1, <3>12, <3>14, AudienceSame
      <4>2. \A k \in ToSet(sent[u]) : k.type \notin Turns /\ k.type \notin Answers
        BY <3>5, <3>10, <3>14, Turning
      <4> QED BY <1>1, <1>2, <3>8, <4>1, <4>2, NothingSeen
    <3> QED BY <3>13, <3>14
  <2> QED BY <2>3, <2>4
<1> QED BY <1>4, <1>5

LEMMA AskingSees ==
  ASSUME TypeOK, StreamInv, NEW s \in Socket, handleCreateStream(s) \/ handleJoinStream(s), NEW p \in Page
  PROVE  Sees(p)
<1>1. StreamRoomsTypeOK /\ \A t \in Socket : SocketInv(t)
  BY DEF TypeOK, StreamInv
<1>2. PICK u \in Socket : u = SocketOf(p)
  BY <1>1, CurrentSocket
<1>3. Asks(s) /\ (handleCreateStream(s) => s[1] \in Host)
  BY <1>1, AskingSocket DEF handleCreateStream, handleJoinStream, Ask
<1>4. CASE UNCHANGED <<toPage, serviceVars>>
  <2>1. Audience(u)' = Audience(u)
    BY <1>4 DEF Audience, serviceVars
  <2> QED BY <1>1, <1>2, <1>4, <2>1, OneSeen
<1>5. CASE handleCreateStream(s)
  <2>1. PICK r \in RoomId : Unused(r) /\ (UNCHANGED <<toPage, serviceVars>> \/ createRoom(r, s))
    BY <1>5 DEF handleCreateStream
  <2>2. room[r] = None
    BY <2>1 DEF Unused
  <2> QED BY <1>3, <1>4, <1>5, <2>1, <2>2, createRoomSees
<1>6. CASE handleJoinStream(s)
  <2>1. PICK r : /\ r = Head(toServer[s]).room /\ r \in rooms
                 /\ UNCHANGED <<toPage, serviceVars>> \/ addViewer(r, s)
    BY <1>6 DEF handleJoinStream
  <2>2. r \in RoomId /\ room[r] # None
    BY <1>1, <2>1 DEF StreamRoomsTypeOK
  <2> QED BY <1>3, <1>4, <2>1, <2>2, addViewerSees
<1> QED BY <1>5, <1>6

LEMMA ServerStepSees ==
  ASSUME TypeOK, StreamInv, NEW s \in Socket, ServerStep(s), NEW p \in Page
  PROVE  Sees(p)
<1>1. CASE handleEndStream(s)
  <2>1. PICK u \in Socket : u = SocketOf(p)
    BY CurrentSocket DEF TypeOK
  <2>2. CASE IsMine(s)
    <3>1. /\ findRoomByBroadcaster(s) = Head(toServer[s]).room
          /\ Head(toServer[s]).room \in RoomId
      BY <1>1, <2>2, RequestType, ToServerFields DEF TypeOK, IsMine, handleEndStream
    <3>2. findRoomByBroadcaster(s) \in rooms
      BY <3>1, Mine, StreamAssumption DEF TypeOK
    <3> QED BY <1>1, <2>2, <3>2, closeRoomSees DEF handleEndStream
  <2>3. CASE ~IsMine(s)
    <3>1. UNCHANGED <<toPage, broadcasterIndex, room>>
      BY <1>1, <2>3 DEF handleEndStream, serviceVars
    <3>2. Audience(u)' = Audience(u)
      BY <3>1 DEF Audience
    <3> QED BY <2>1, <3>1, <3>2, OneSeen DEF TypeOK
  <2> QED BY <2>2, <2>3
<1> QED
  BY <1>1, AskingSees, ElseSees, handleKickViewerSees, handleDisconnectSees DEF ServerStep, Handler

LEMMA ResumeSees ==
  ASSUME TypeOK, StreamInv, NEW h \in suspended, Resume(h), NEW p \in Page
  PROVE  Sees(p)
<1>1. PICK s, r : s = h.socket /\ r = h.room
  OBVIOUS
<1>2. s \in Socket /\ r \in RoomId /\ Asks(s) /\ (h.op = "join" => r \in rooms \/ s \in overtaken')
  BY <1>1, ResumeSocket
<1>3. /\ StreamRoomsTypeOK
      /\ h.op = "create" <=> room[r] = None
      /\ h.op = "create" <=> s[1] \in Host
  BY <1>1 DEF StreamInv, HeldInv, TypeOK
<1>4. PICK u \in Socket : u = SocketOf(p)
  BY <1>3, CurrentSocket
<1>5. CASE passwordHashed(h)
  BY <1>1, <1>2, <1>3, <1>5, createRoomSees DEF passwordHashed
<1>6. CASE passwordCompared(h) /\ addViewer(r, s)
  <2>1. h.op = "join"
    BY <1>6 DEF passwordCompared
  <2> QED BY <1>2, <1>3, <1>6, <2>1, addViewerSees
<1>7. CASE Emit(To({s}, [type |-> "JOIN_ERROR"])) /\ UNCHANGED serviceVars
  <2>1. PICK m : m = [type |-> "JOIN_ERROR"]
    OBVIOUS
  <2>2. m \in ToPage /\ m.type \notin Turns /\ Emit(To({s}, m))
    BY <1>7, <2>1, ToPageMessages, Turning
  <2>3. Audience(u)' = Audience(u)
    BY <1>7 DEF Audience, serviceVars
  <2> QED BY <1>2, <1>3, <1>4, <2>2, <2>3, OneSeen
<1> QED BY <1>1, <1>5, <1>6, <1>7 DEF Resume, Resumed, passwordCompared

LEMMA ExpirySees ==
  ASSUME TypeOK, StreamInv, NEW r \in RoomId, Expiry(r), NEW p \in Page
  PROVE  Sees(p)
<1>1. closeRoom(r) /\ r \in timers
  BY DEF Expiry, expire
<1>2. r \in rooms
  BY <1>1 DEF StreamInv, RegistryInv, Registered
<1> QED BY <1>1, <1>2, closeRoomSees


-----------------------------------------------------------------------------
(* What the steps of the pages do to the list.                               *)

\* A page and its socket that are left alone.
LEMMA OthersAudience ==
  ASSUME TypeOK, NEW p \in Page, OnlyPage(p), UNCHANGED kicked,
         NEW q \in Page \ {p}, AudienceInv(q)
  PROVE  AudienceInv(q)'
<1>1. /\ connection'[q] = connection[q] /\ session'[q] = session[q]
      /\ toPage'[q] = toPage[q] /\ (q \in severed' <=> q \in severed)
      /\ UNCHANGED <<overtaken, kicked, broadcasterIndex, viewerIndex, room, suspended>>
  BY DEF OnlyPage, roomVars, serviceVars
<1>2. PICK u \in Socket : u = SocketOf(q) /\ u[1] = q
  BY CurrentSocket DEF TypeOK, SocketOf
<1>3. u = SocketOf(q)' /\ toServer'[u] = toServer[u]
  BY <1>1, <1>2 DEF SocketOf, OnlyPage
<1>4. Audience(u)' = Audience(u) /\ Index(u)' = Index(u) /\ (Asks(u)' <=> Asks(u))
  BY <1>1, <1>3 DEF Audience, Index, Asks, Waits
<1>5. ListedInv(q)'
  BY <1>1, <1>2, <1>3, <1>4 DEF AudienceInv, ListedInv
<1>6. LostInv(q)'
  BY <1>1, <1>2, <1>3, <1>4 DEF AudienceInv, LostInv, Pending
<1>7. GoneInv(q)'
  BY <1>1 DEF AudienceInv, GoneInv, Live
<1> QED BY <1>5, <1>6, <1>7 DEF AudienceInv

\* A page that hears nothing and lists whom it listed.
LEMMA StillListed ==
  ASSUME TypeOK, NEW p \in Page, AudienceInv(p),
         UNCHANGED <<connection, toPage, roomVars, severed, overtaken, kicked>>,
         NEW s \in Socket, s = SocketOf(p),
         session'[p].viewers = session[p].viewers, session'[p].role = session[p].role,
         p \in severed => /\ Asks(s)' => Asks(s)
                          /\ (Pending(p)' <=> Pending(p))
                          /\ session'[p].asking = session[p].asking
  PROVE  AudienceInv(p)'
<1>1. s = SocketOf(p)' /\ toPage'[p] = toPage[p]
      /\ UNCHANGED <<broadcasterIndex, viewerIndex, room>>
  BY DEF SocketOf, roomVars, serviceVars
<1>2. Audience(s)' = Audience(s) /\ Index(s)' = Index(s)
  BY <1>1 DEF Audience, Index
<1>3. ListedInv(p)'
  BY <1>1, <1>2 DEF AudienceInv, ListedInv
<1>4. LostInv(p)'
  BY <1>1, <1>2 DEF AudienceInv, LostInv
<1>5. GoneInv(p)'
  BY <1>1 DEF AudienceInv, GoneInv, Live
<1> QED BY <1>3, <1>4, <1>5 DEF AudienceInv

\* A page that may ask has not lost the connection of a stream.
LEMMA NothingLost ==
  ASSUME NEW p \in Page, AudienceInv(p), session[p].role = "none", ~Pending(p) \/ session[p].asking
  PROVE  p \notin severed
BY DEF AudienceInv, LostInv

LEMMA QuietListed ==
  ASSUME TypeOK, StreamInv, NEW p \in Page, QuietStep(p), UNCHANGED <<overtaken, kicked>>,
         AudienceInv(p)
  PROVE  AudienceInv(p)' /\ OnlyPage(p)
<1>1. PICK s \in Socket : s = SocketOf(p)
  BY CurrentSocket DEF TypeOK
<1>2. PICK x \in Session : Become(p, x) /\ Same(x, session[p])
  BY DEF QuietStep
<1>3. session'[p] = x /\ \A q \in Page \ {p} : session'[q] = session[q]
  BY <1>2, SessionBecomes DEF TypeOK
<1>4. UNCHANGED <<connection, toPage, roomVars, severed, overtaken>>
  BY DEF QuietStep
<1>5. /\ \A t \in Socket : t[1] # p => toServer'[t] = toServer[t]
      /\ Asks(s)' <=> Asks(s)
  <2>1. CASE UNCHANGED toServer
    BY <1>4, <2>1, SocketsSame
  <2>2. ASSUME NEW m \in ToServer, m.type \notin Ask \cup {"disconnect"}, Send(p, m)
        PROVE  /\ \A t \in Socket : t[1] # p => toServer'[t] = toServer[t]
               /\ Asks(s)' <=> Asks(s)
    BY <1>1, <1>4, <2>2, SendStep
  <2> QED BY <2>1, <2>2 DEF QuietStep
<1>6. OnlyPage(p)
  BY <1>3, <1>4, <1>5 DEF OnlyPage
<1>7. /\ session'[p].viewers = session[p].viewers /\ session'[p].role = session[p].role
      /\ Pending(p)' <=> Pending(p)
      /\ session'[p].asking = session[p].asking
  BY <1>2, <1>3 DEF Same, Alike, Pending
<1> QED BY <1>1, <1>4, <1>5, <1>6, <1>7, StillListed

\* A page goes live or joins, or does not after all.
LEMMA StartListed ==
  ASSUME TypeOK, StreamInv, NEW p \in Page, AudienceInv(p), UNCHANGED <<overtaken, kicked>>,
         createStream(p) \/ mediaAcquired(p) \/ mediaRefused(p) \/ joinStream(p)
  PROVE  AudienceInv(p)' /\ OnlyPage(p)
<1>1. PICK s \in Socket : s = SocketOf(p)
  BY CurrentSocket DEF TypeOK
<1>2. PICK x : Become(p, x) /\ x.role = session[p].role /\ x.viewers = session[p].viewers
  <2>1. PICK a, b, c, d :
          /\ a = [session[p] EXCEPT !.creating = TRUE, !.asking = TRUE]
          /\ b = [session[p] EXCEPT !.asking = FALSE, !.active = "camera", !.hasCamera = TRUE,
                                    !.mic = TRUE]
          /\ c = [session[p] EXCEPT !.asking = FALSE, !.creating = FALSE]
          /\ d = [session[p] EXCEPT !.joining = TRUE]
    OBVIOUS
  <2>2. /\ a.role = session[p].role /\ a.viewers = session[p].viewers
        /\ b.role = session[p].role /\ b.viewers = session[p].viewers
        /\ c.role = session[p].role /\ c.viewers = session[p].viewers
        /\ d.role = session[p].role /\ d.viewers = session[p].viewers
    BY <2>1, SessionFields DEF Session, TypeOK
  <2>3. Become(p, a) \/ Become(p, b) \/ Become(p, c) \/ Become(p, d)
    BY <2>1 DEF createStream, mediaAcquired, mediaRefused, joinStream
  <2> QED BY <2>2, <2>3
<1>3. session'[p] = x /\ \A q \in Page \ {p} : session'[q] = session[q]
  BY <1>2, SessionBecomes DEF TypeOK
<1>4. UNCHANGED <<connection, toPage, roomVars, severed, overtaken>>
  BY DEF createStream, mediaAcquired, mediaRefused, joinStream, socketVars
<1>5. session[p].role = "none" /\ (~Pending(p) \/ session[p].asking)
  BY DEF createStream, mediaAcquired, mediaRefused, joinStream, mayStart, StreamInv, LocalInv, Pending
<1>6. p \notin severed
  BY <1>5, NothingLost
<1>7. \A t \in Socket : t[1] # p => toServer'[t] = toServer[t]
  <2>1. SocketOf(p)[1] = p
    BY DEF SocketOf
  <2> QED
    BY <2>1 DEF createStream, mediaAcquired, mediaRefused, joinStream, socketVars, Send, TypeOK, StreamRoomsTypeOK
<1>8. OnlyPage(p)
  BY <1>3, <1>4, <1>7 DEF OnlyPage
<1>9. AudienceInv(p)'
  BY <1>1, <1>2, <1>3, <1>4, <1>6, StillListed
<1> QED BY <1>8, <1>9


\* A page that reads a message lists what the message says, and waits on if it lost the
\* connection of its stream.
LEMMA ReadListed ==
  ASSUME TypeOK, StreamInv, NEW p \in Page, AudienceInv(p), NEW type, Receive(p, type),
         NEW x, Become(p, x), UNCHANGED <<overtaken, kicked>>,
         \A q \in Page : q \in severed' <=> q \in severed,
         x.viewers = Listing(Head(toPage[p]), session[p].viewers),
         p \in severed => x.role # "none" \/ ((x.creating \/ x.joining) /\ ~x.asking),
         Has(toPage'[p], {"VIEWER_LEFT"}) => x.role # "none" \/ Has(toPage'[p], Admitted)
  PROVE  AudienceInv(p)' /\ OnlyPage(p)
<1>1. PICK s \in Socket : s = SocketOf(p)
  BY CurrentSocket DEF TypeOK
<1>2. /\ toPage[p] \in Seq(ToPage)
      /\ ToSet(toPage[p]) = {Head(toPage[p])} \cup ToSet(toPage'[p])
      /\ \A A, B : Apart(toPage[p], A, B) => Apart(toPage'[p], A, B)
      /\ UNCHANGED <<connection, toServer, roomVars>>
      /\ session'[p] = x /\ OnlyPage(p)
      /\ \A t \in Socket : (Asks(t)' <=> Asks(t)) /\ Index(t)' = Index(t)
  BY ReceiveStep
<1>3. toPage[p] # <<>> /\ toPage'[p] = Tail(toPage[p])
  BY DEF Receive, TypeOK, StreamRoomsTypeOK
<1>4. s = SocketOf(p)' /\ Audience(s)' = Audience(s)
  BY <1>1, <1>2 DEF SocketOf, Audience, roomVars, serviceVars
<1>5. Coming(toPage'[p], x.viewers) = Coming(toPage[p], session[p].viewers)
  BY <1>2, <1>3, ComingQueues
<1>6. ListedInv(p)'
  BY <1>1, <1>2, <1>4, <1>5 DEF AudienceInv, ListedInv
<1>7. LostInv(p)'
  BY <1>1, <1>2, <1>4 DEF AudienceInv, LostInv, Has, Pending
<1>8. GoneInv(p)'
  BY <1>2 DEF AudienceInv, GoneInv, Live
<1> QED BY <1>2, <1>6, <1>7, <1>8 DEF AudienceInv

\* Messages that are no answer and no end.
LEMMA NewsListed ==
  ASSUME TypeOK, StreamInv, NEW p \in Page, AudienceInv(p), NEW type, Receive(p, type),
         type \notin Answers,
         NEW x, Become(p, x), UNCHANGED <<severed, overtaken, kicked>>,
         x.viewers = Listing(Head(toPage[p]), session[p].viewers),
         x.role = session[p].role, x.creating = session[p].creating,
         x.joining = session[p].joining, x.asking = session[p].asking
  PROVE  AudienceInv(p)' /\ OnlyPage(p)
<1>1. /\ ToSet(toPage[p]) = {Head(toPage[p])} \cup ToSet(toPage'[p])
      /\ Head(toPage[p]).type = type
  BY ReceiveStep
<1>2. p \in severed => x.role # "none" \/ ((x.creating \/ x.joining) /\ ~x.asking)
  BY DEF AudienceInv, LostInv, Pending
<1>3. Has(toPage'[p], {"VIEWER_LEFT"}) => x.role # "none" \/ Has(toPage'[p], Admitted)
  <2>1. Has(toPage'[p], {"VIEWER_LEFT"}) => Live(p)
    BY <1>1 DEF AudienceInv, GoneInv, Has
  <2>2. Has(toPage[p], Admitted) => Has(toPage'[p], Admitted)
    BY <1>1 DEF Has, Answers
  <2> QED BY <2>1, <2>2 DEF Live
<1> QED BY <1>2, <1>3, ReadListed

LEMMA QuietReadListed ==
  ASSUME TypeOK, StreamInv, NEW p \in Page, AudienceInv(p), QuietRead(p), UNCHANGED <<overtaken, kicked>>
  PROVE  AudienceInv(p)' /\ OnlyPage(p)
<1>1. PICK type \in {"VIEWER_JOINED", "VIEWER_LEFT", "VIEWER_COUNT", "TRACK_STATE",
                     "SDP_OFFER", "SDP_ANSWER"}, x \in Session :
        /\ Receive(p, type) /\ Become(p, x) /\ UNCHANGED severed
        /\ Alike(x, session[p])
        /\ x.viewers = CASE type = "VIEWER_JOINED" -> session[p].viewers \cup {Head(toPage[p]).viewer}
                         [] type = "VIEWER_LEFT" -> session[p].viewers \ {Head(toPage[p]).viewer}
                         [] OTHER -> session[p].viewers
  BY DEF QuietRead
<1>2. Head(toPage[p]).type = type
  BY <1>1 DEF Receive
<1>3. x.viewers = Listing(Head(toPage[p]), session[p].viewers)
  <2>1. CASE type = "VIEWER_JOINED"
    BY <1>1, <1>2, <2>1 DEF Listing, Ends
  <2>2. CASE type = "VIEWER_LEFT"
    BY <1>1, <1>2, <2>2 DEF Listing, Ends
  <2>3. CASE type \notin {"VIEWER_JOINED", "VIEWER_LEFT"}
    <3>1. x.viewers = session[p].viewers
      BY <1>1, <2>3
    <3>2. Listing(Head(toPage[p]), session[p].viewers) = session[p].viewers
      BY <1>2, <2>3 DEF Listing, Ends
    <3> QED BY <3>1, <3>2
  <2> QED BY <2>1, <2>2, <2>3
<1>4. type \notin Answers
  BY DEF Answers, Admitted
<1> QED BY <1>1, <1>3, <1>4, NewsListed DEF Alike

LEMMA PostListed ==
  ASSUME TypeOK, StreamInv, NEW p \in Page, AudienceInv(p), onPost(p), UNCHANGED <<overtaken, kicked>>
  PROVE  AudienceInv(p)' /\ OnlyPage(p)
<1>1. PICK x \in Session :
        /\ Receive(p, "POST") /\ Become(p, x) /\ UNCHANGED severed
        /\ x.joining = session[p].joining /\ x.creating = session[p].creating
        /\ x.asking = session[p].asking
        /\ x.role = session[p].role
        /\ x.viewers = session[p].viewers
  BY PostBecomes DEF TypeOK
<1>2. Head(toPage[p]).type = "POST"
  BY <1>1 DEF Receive
<1>3. x.viewers = Listing(Head(toPage[p]), session[p].viewers)
  BY <1>1, <1>2 DEF Listing, Ends
<1>4. "POST" \notin Answers
  BY DEF Answers, Admitted
<1> QED BY <1>1, <1>3, <1>4, NewsListed

\* An answer: the page has not lost the connection it asked on.
LEMMA AnswerListed ==
  ASSUME TypeOK, StreamInv, NEW p \in Page, AudienceInv(p), UNCHANGED <<overtaken, kicked>>,
         onStreamCreated(p) \/ onStreamJoined(p) \/ onJoinError(p)
  PROVE  AudienceInv(p)' /\ OnlyPage(p)
<1>1. PICK type \in Answers, x \in Session :
        /\ Receive(p, type) /\ Become(p, x) /\ UNCHANGED severed
        /\ x.viewers = session[p].viewers
        /\ type \in Admitted => x.role # "none"
        /\ type \in Admitted \/ type = "JOIN_ERROR"
  BY CreatedBecomes, JoinedBecomes, ErrorBecomes DEF TypeOK, Answers, Admitted
<1>2. /\ ToSet(toPage[p]) = {Head(toPage[p])} \cup ToSet(toPage'[p])
      /\ Head(toPage[p]).type = type
  BY <1>1, ReceiveStep
<1>3. x.viewers = Listing(Head(toPage[p]), session[p].viewers)
  BY <1>1, <1>2 DEF Listing, Ends, Answers, Admitted
<1>4. p \notin severed
  BY <1>2 DEF AudienceInv, LostInv, Has
<1>5. ASSUME Has(toPage'[p], {"VIEWER_LEFT"}), x.role = "none" PROVE FALSE
  <2>1. PICK s \in Socket : s = SocketOf(p)
    BY CurrentSocket DEF TypeOK
  <2>2. type \notin Admitted
    BY <1>1, <1>5
  <2>3. session[p].role = "none" /\ ~Has(toPage'[p], Answers)
    BY <1>1, <2>1, AnswerRead
  <2>4. ~Live(p)
    BY <1>2, <2>2, <2>3 DEF Live, Has, Answers
  <2> QED BY <1>2, <1>5, <2>4 DEF AudienceInv, GoneInv, Has
<1> QED BY <1>1, <1>3, <1>4, <1>5, ReadListed

LEMMA OverListed ==
  ASSUME TypeOK, StreamInv, NEW p \in Page, AudienceInv(p), onStreamOver(p), UNCHANGED <<overtaken, kicked>>
  PROVE  AudienceInv(p)' /\ OnlyPage(p)
<1>1. PICK x \in Session, type \in {"STREAM_KICKED", "STREAM_ENDED"} :
        /\ Receive(p, type) /\ Become(p, x) /\ severed' = severed \ {p}
        /\ x = resetSessionState(session[p])
  BY OverBecomes DEF TypeOK
<1>2. x.viewers = {}
  BY <1>1, ResetFields, SessionFields DEF TypeOK
<1>3. type \in Ends
  BY DEF Ends
<1>4. /\ ToSet(toPage[p]) = {Head(toPage[p])} \cup ToSet(toPage'[p])
      /\ Head(toPage[p]).type = type
      /\ \A A, B : Apart(toPage[p], A, B) => (type \in A => ~Has(toPage'[p], B))
  BY <1>1, ReceiveStep
<1>5. x.viewers = Listing(Head(toPage[p]), session[p].viewers)
  BY <1>2, <1>3, <1>4 DEF Listing, Ends
<1>6. p \notin severed
  BY <1>3, <1>4 DEF AudienceInv, LostInv, Has
<1>7. ~Has(toPage'[p], {"VIEWER_LEFT"})
  BY <1>3, <1>4 DEF AudienceInv, GoneInv
<1> QED BY <1>1, <1>5, <1>6, <1>7, ReadListed


\* A page whose socket is replaced hears nothing yet, and nobody watches it.
LEMMA ReconnectListed ==
  ASSUME TypeOK, StreamInv, NEW p \in Page, NEW lost \in SUBSET Nat,
         Reconnect(p, lost), UNCHANGED <<roomVars, overtaken, kicked>>,
         \A q \in Page \ {p} : session'[q] = session[q] /\ (q \in severed' <=> q \in severed),
         p \notin severed' => session'[p].viewers \subseteq kicked \cup overtaken,
         session'[p].viewers \subseteq Socket,
         p \in severed' => session'[p].role # "none" \/ (Pending(p)' /\ ~session'[p].asking)
  PROVE  AudienceInv(p)' /\ OnlyPage(p)
<1> USE DEF TypeOK
<1>1. PICK s \in Socket : s = SocketOf(p)
  BY CurrentSocket
<1>2. PICK t \in Socket : t = SocketOf(p)'
  BY ReconnectType
<1>3. /\ connection[p] \in Nat /\ connection'[p] = connection[p] + 1
      /\ \A q \in Page \ {p} : connection'[q] = connection[q] /\ toPage'[q] = toPage[q]
      /\ toPage'[p] = <<>>
  BY DEF Reconnect, StreamRoomsTypeOK
<1>4. t = <<p, connection[p] + 1>> /\ s = <<p, connection[p]>> /\ s # t
  BY <1>1, <1>2, <1>3 DEF SocketOf
<1>5. \A u \in Socket \ {s} : toServer'[u] = toServer[u]
  BY <1>1 DEF Reconnect, StreamRoomsTypeOK
<1>6. OnlyPage(p)
  BY <1>1, <1>3, <1>4, <1>5 DEF OnlyPage
<1>7. /\ toServer'[t] = <<>> /\ ~Waits(t)' /\ Index(t)' = None /\ broadcasterIndex'[t] = None
  <2>1. t[2] > connection[t[1]]
    BY <1>3, <1>4
  <2>2. toServer[t] = <<>> /\ ~Waits(t) /\ Index(t) = None /\ SocketInv(t)
    BY <2>1 DEF StreamInv, SocketInv
  <2>3. broadcasterIndex[t] = None
    BY <2>2 DEF SocketInv, Index
  <2> QED BY <1>4, <1>5, <2>2, <2>3 DEF roomVars, serviceVars, Waits, Index
<1>8. ~Asks(t)' /\ Audience(t)' = {}
  BY <1>7, SetNothing DEF Asks, Has, Audience
<1>9. /\ \A A : ~Has(<<>>, A)
      /\ \A A, B : Apart(<<>>, A, B)
  BY SetNothing, ApartShort DEF Has
<1>10. Coming(<<>>, session'[p].viewers) = session'[p].viewers
  BY <1>9, ComingQueues, ShortSequences
<1>11. ListedInv(p)'
  BY <1>2, <1>3, <1>8, <1>10 DEF ListedInv, Between
<1>12. LostInv(p)'
  BY <1>2, <1>3, <1>7, <1>8, <1>9 DEF LostInv
<1>13. GoneInv(p)'
  BY <1>3, <1>9 DEF GoneInv
<1> QED BY <1>6, <1>11, <1>12, <1>13 DEF AudienceInv

\* A page that shows no stream and waits for none lists nobody who is not gone.
LEMMA NobodyListed ==
  ASSUME TypeOK, StreamInv, NEW p \in Page, AudienceInv(p), session[p].role = "none",
         ~Pending(p) \/ session[p].asking
  PROVE  session[p].viewers \subseteq kicked \cup overtaken
<1>1. PICK s \in Socket : s = SocketOf(p)
  BY CurrentSocket DEF TypeOK
<1>2. /\ ~Has(toPage[p], Answers) /\ ~Has(toPage[p], Ends \cup {"POST"}) /\ Index(s) = None
  BY <1>1, NothingOpen
<1>3. broadcasterIndex[s] = None
  BY <1>2 DEF StreamInv, SocketInv, Index
<1>4. ~Has(toPage[p], {"VIEWER_LEFT"})
  BY <1>2 DEF AudienceInv, GoneInv, Live, Has, Answers
<1>5. Coming(toPage[p], session[p].viewers) \subseteq kicked \cup overtaken
  <2>1. p \notin severed
    BY NothingLost
  <2> QED BY <1>1, <1>3, <2>1 DEF AudienceInv, ListedInv, Audience, Between
<1>6. toPage[p] \in Seq(ToPage) /\ DOMAIN toPage[p] = 1..Len(toPage[p])
      /\ session[p].viewers \subseteq Socket
  BY SessionFields DEF TypeOK, StreamRoomsTypeOK
<1>7. \A j \in 1..Len(toPage[p]) : \A v : ~Delists(toPage[p][j], v)
  <2>1. \A m \in ToSet(toPage[p]) : m.type \notin Ends /\ m.type # "VIEWER_LEFT"
    BY <1>2, <1>4 DEF Has
  <2> QED BY <1>6, <2>1 DEF ToSet, Delists
<1>8. session[p].viewers \subseteq Coming(toPage[p], session[p].viewers)
  BY <1>6, <1>7 DEF Coming, Comes
<1> QED BY <1>5, <1>8

LEMMA ReconnectingListed ==
  ASSUME TypeOK, StreamInv, NEW p \in Page, AudienceInv(p), UNCHANGED <<overtaken, kicked>>,
         leaveStream(p) \/ pageLeft(p) \/ connectionLost(p)
  PROVE  AudienceInv(p)' /\ OnlyPage(p)
<1>1. PICK lost \in SUBSET Nat : Reconnect(p, lost)
  <2>1. {0} \in SUBSET Nat /\ 0..Len(toServer[SocketOf(p)]) \in SUBSET Nat
    OBVIOUS
  <2> QED BY <2>1 DEF leaveStream, pageLeft, connectionLost
<1>2. UNCHANGED <<roomVars, overtaken, kicked>>
  BY DEF leaveStream, pageLeft, connectionLost
<1>3. CASE connectionLost(p)
  <2>1. UNCHANGED session /\ \A q \in Page \ {p} : q \in severed' <=> q \in severed
    BY <1>3 DEF connectionLost
  <2>2. ASSUME p \notin severed'
        PROVE  session[p].viewers \subseteq kicked \cup overtaken
    <3>1. session[p].role = "none" /\ (~Pending(p) \/ session[p].asking)
      BY <1>3, <2>2 DEF connectionLost
    <3> QED BY <3>1, NobodyListed
  <2>3. p \in severed' => session[p].role # "none" \/ (Pending(p) /\ ~session[p].asking)
    BY <1>3 DEF connectionLost, AudienceInv, LostInv
  <2>4. Pending(p)' <=> Pending(p)
    BY <2>1 DEF Pending
  <2>5. session[p].viewers \subseteq Socket
    BY SessionFields DEF TypeOK
  <2> QED BY <1>1, <1>2, <2>1, <2>2, <2>3, <2>4, <2>5, ReconnectListed
<1>4. CASE leaveStream(p) \/ pageLeft(p)
  <2>1. PICK x : /\ Become(p, x)
                 /\ x = resetSessionState(session[p]) \/ x = Fresh
                 /\ severed' = severed \ {p}
    BY <1>4 DEF leaveStream, pageLeft
  <2>2. x.viewers = {}
    BY <2>1, ResetFields, FreshFields, SessionFields DEF TypeOK
  <2>3. session'[p] = x /\ \A q \in Page \ {p} : session'[q] = session[q]
    BY <2>1, SessionBecomes DEF TypeOK
  <2>4. p \notin severed' /\ \A q \in Page \ {p} : q \in severed' <=> q \in severed
    BY <2>1
  <2> QED BY <1>1, <1>2, <2>2, <2>3, <2>4, ReconnectListed
<1> QED BY <1>3, <1>4

-----------------------------------------------------------------------------
(* The list is right.                                                        *)
LEMMA PageStepListed ==
  ASSUME TypeOK, StreamInv, NEW p \in Page, UserStep(p) \/ PageHandler(p),
         UNCHANGED <<overtaken, kicked>>, NEW q \in Page, AudienceInv(p), AudienceInv(q)
  PROVE  AudienceInv(q)'
<1>1. AudienceInv(p)' /\ OnlyPage(p)
  BY UserStepCases, PageHandlerCases, QuietListed, StartListed, ReconnectingListed,
     QuietReadListed, PostListed, AnswerListed, OverListed DEF TypeOK
<1> QED BY <1>1, OthersAudience

LEMMA ListedStep ==
  ASSUME TypeOK, StreamInv, \A p \in Page : AudienceInv(p), [Next]_vars
  PROVE  \A p \in Page : AudienceInv(p)'
<1>1. CASE UNCHANGED vars
  <2>1. ASSUME NEW p \in Page PROVE AudienceInv(p)'
    <3>1. PICK s \in Socket : s = SocketOf(p)
      BY CurrentSocket DEF TypeOK
    <3>2. UNCHANGED <<connection, toServer, toPage, roomVars, session, severed, overtaken, kicked>>
      BY <1>1 DEF vars, socketVars, roomVars, serviceVars, sessionVars
    <3>3. Asks(s)' <=> Asks(s)
      BY <3>2, SocketsSame
    <3>4. Pending(p)' <=> Pending(p)
      BY <3>2 DEF Pending
    <3> QED BY <3>1, <3>2, <3>3, <3>4, StillListed
  <2> QED BY <2>1
<1>2. ASSUME NEW s \in Socket, ServerStep(s), NEW p \in Page PROVE AudienceInv(p)'
  BY <1>2, IndexedAsked, ServerStepSees, SeesKept
<1>3. ASSUME NEW h \in suspended, Resume(h), NEW p \in Page PROVE AudienceInv(p)'
  BY <1>3, ResumedAsked, ResumeSees, SeesKept
<1>4. ASSUME NEW r \in RoomId, Expiry(r), NEW p \in Page PROVE AudienceInv(p)'
  BY <1>4, ExpiredAsked, ExpirySees, SeesKept
<1>5. ASSUME NEW q \in Page, UserStep(q) \/ PageHandler(q), UNCHANGED <<overtaken, kicked>>,
             NEW p \in Page
      PROVE  AudienceInv(p)'
  BY <1>5, PageStepListed
<1> QED BY <1>1, <1>2, <1>3, <1>4, <1>5 DEF Next

LEMMA ListedInit == ASSUME Init PROVE \A p \in Page : AudienceInv(p)
<1> SUFFICES ASSUME NEW p \in Page PROVE AudienceInv(p)
  OBVIOUS
<1>1. /\ toPage[p] = <<>> /\ session[p] = Fresh /\ severed = {}
      /\ \A s \in Socket : broadcasterIndex[s] = None
  BY DEF Init, StreamRoomsInit, StreamSessionInit
<1>2. SocketOf(p) \in Socket
  BY InitType, CurrentSocket DEF TypeOK
<1>3. /\ \A A : ~Has(<<>>, A)
      /\ \A A, B : Apart(<<>>, A, B)
  BY SetNothing, ApartShort DEF Has
<1>4. Fresh.viewers = {} /\ Coming(<<>>, {}) = {}
  BY <1>3, FreshFields, ComingQueues, ShortSequences
<1>5. Audience(SocketOf(p)) = {}
  BY <1>1, <1>2 DEF Audience
<1> QED BY <1>1, <1>3, <1>4, <1>5 DEF AudienceInv, ListedInv, LostInv, GoneInv, Between

\* The broadcaster's page lists everybody who watches its stream, and of those who do
\* not only whom the broadcaster removed and who was let in after the end of a stream:
\* once the news of who came and went has been read.
THEOREM ViewersKept == SafeSpec => []ViewersListed
<1>1. ASSUME TypeOK, StreamInv, \A p \in Page : AudienceInv(p) PROVE ViewersListed
  <2> SUFFICES ASSUME NEW r \in rooms, NEW p \in Page, In(p, r),
                      session[p].role = "broadcaster",
                      ~Mentions(toPage[p], "VIEWER_JOINED"), ~Mentions(toPage[p], "VIEWER_LEFT")
               PROVE  /\ room[r].viewers \subseteq session[p].viewers
                      /\ session[p].viewers \subseteq room[r].viewers \cup kicked \cup overtaken
    BY DEF ViewersListed
  <2>1. PICK s \in Socket : s = SocketOf(p) /\ s[1] = p
    BY <1>1, CurrentSocket DEF TypeOK, SocketOf
  <2>2. r \in RoomId /\ r # None /\ p \in Host /\ viewerIndex[s] = None
    BY <1>1, <2>1, StreamAssumption DEF TypeOK, StreamRoomsTypeOK, StreamInv, LocalInv, SocketInv
  <2>3. s \in room[r].viewers \cup {room[r].broadcaster} /\ Registered(r)
    BY <1>1, <2>1, <2>2 DEF In, StreamInv, RegistryInv
  <2>4. broadcasterIndex[s] = r
    BY <2>2, <2>3 DEF Registered
  <2>5. Index(s) = r /\ Audience(s) = room[r].viewers
    BY <2>1, <2>2, <2>4 DEF Index, Audience
  <2>6. p \notin severed
    BY <1>1, <2>1, <2>2, <2>5 DEF AudienceInv, LostInv
  <2>7. ~Has(toPage[p], Turns)
    <3>1. toPage[p] \in Seq(ToPage)
      BY <1>1 DEF TypeOK, StreamRoomsTypeOK
    <3>2. ~Has(toPage[p], {"VIEWER_JOINED"}) /\ ~Has(toPage[p], {"VIEWER_LEFT"})
      BY <3>1, MentionsHas
    <3>3. ~Has(toPage[p], Ends)
      BY <1>1, <2>1, <2>2, <2>5 DEF StreamInv, PageInv
    <3> QED BY <3>2, <3>3 DEF Has, Turns, News
  <2>8. Coming(toPage[p], session[p].viewers) = session[p].viewers
    BY <1>1, <2>7, ComingQueues, SessionFields DEF TypeOK, StreamRoomsTypeOK
  <2> QED BY <1>1, <2>1, <2>5, <2>6, <2>8 DEF AudienceInv, ListedInv, Between
<1>2. Init => \A p \in Page : AudienceInv(p)
  BY ListedInit
<1>3. TypeOK /\ StreamInv /\ (\A p \in Page : AudienceInv(p)) /\ [Next]_vars =>
         (\A p \in Page : AudienceInv(p))'
  BY ListedStep
<1> QED BY <1>1, <1>2, <1>3, StreamInvariant, PTL DEF SafeSpec
=============================================================================
