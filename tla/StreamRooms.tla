----------------------------- MODULE StreamRooms -----------------------------
(***************************************************************************)
(* The /stream namespace of the signaling server: StreamGateway,           *)
(* StreamRoomService and the stream part of StatsService, with the sockets *)
(* of the pages.  A handler runs in one step, except where it awaits       *)
(* bcrypt: a private stream is hashed for and checked against in later     *)
(* steps, other handlers in between.  Left out: payloads that fail         *)
(* validation, the rate limiter, the lobby's list, ICE candidates.         *)
(***************************************************************************)
EXTENDS Naturals, Sequences, FiniteSets

CONSTANTS
  Page,           \* the browser pages on /stream
  RoomId,         \* the identifiers randomUUID yields, none of them twice
  Private,        \* those of the streams that get a password
  None,           \* "undefined" and the empty string
  MaxConnections  \* bound: how often each page connects

ASSUME StreamAssumption ==
  /\ MaxConnections \in [Page -> Nat \ {0}]
  /\ IsFiniteSet(Page)
  /\ Private \subseteq RoomId
  /\ None \notin RoomId

\* A socket id: the page and the number of the connection.
Socket == UNION {{p} \X (1..MaxConnections[p]) : p \in Page}

VARIABLES
  connection,        \* connection[p]: the number of the page's current connection
  toServer,          \* toServer[s]: messages on their way from socket s
  toPage,            \* toPage[p]: messages on their way to the page's current socket
  rooms,             \* the keys of the rooms map
  room,              \* room[r]: the room object, which handlers hold on to
  broadcasterIndex,  \* broadcasterIndex: socket -> room
  viewerIndex,       \* viewerIndex: socket -> room
  timers,            \* expiryTimers: the rooms with a timer
  members,           \* members[r]: the sockets in the socket.io room, ended ones maybe too
  suspended,         \* the handlers that await bcrypt
  streamStats        \* StatsService.streamRooms: an entry or None for each room

socketVars == <<connection, toServer, toPage>>
serviceVars == <<rooms, room, broadcasterIndex, viewerIndex, timers>>
roomVars == <<serviceVars, members, suspended, streamStats>>

SocketOf(p) == <<p, connection[p]>>

\* Microphone and camera as one, and what the video track shows.
Track == [media : BOOLEAN, source : {"camera", "screen"}]
InitialTrack == [media |-> TRUE, source |-> "camera"]

Room == [broadcaster : Socket, viewers : SUBSET Socket, track : Track]

StreamRoomStat == [viewers : Nat, track : Track]

ASSUME StreamNoneAssumption == None \notin Socket \cup Room \cup StreamRoomStat

\* createRoom and handleJoinStream at their await.
Suspended == [op : {"create", "join"}, socket : Socket, room : RoomId]

\* What a broadcaster or a viewer sends to everybody in the stream.
Post == [kind : {"CAPTION", "MESSAGE", "REACTION"}, room : RoomId]

ToServer ==
  [type : {"CREATE_STREAM", "disconnect"}]
  \cup [type : {"JOIN_STREAM", "END_STREAM"}, room : RoomId]
  \cup [type : {"SDP_OFFER", "SDP_ANSWER"}, target : Socket]
  \cup [type : {"TRACK_STATE"}, room : RoomId, track : Track]
  \cup [type : {"POST"}, post : Post]
  \cup [type : {"KICK_VIEWER"}, room : RoomId, viewer : Socket]

ToPage ==
  [type : {"STREAM_CREATED"}, room : RoomId]
  \cup [type : {"STREAM_JOINED"}, room : RoomId, broadcaster : Socket, count : Nat,
        track : Track]
  \cup [type : {"JOIN_ERROR", "STREAM_KICKED", "STREAM_ENDED"}]
  \cup [type : {"VIEWER_JOINED", "VIEWER_LEFT"}, viewer : Socket]
  \cup [type : {"VIEWER_COUNT"}, count : Nat]
  \cup [type : {"TRACK_STATE"}, track : Track]
  \cup [type : {"POST"}, post : Post]
  \cup [type : {"SDP_OFFER", "SDP_ANSWER"}, sender : Socket]

StreamRoomsTypeOK ==
  /\ connection \in [Page -> Nat]
  /\ \A p \in Page : SocketOf(p) \in Socket
  /\ toServer \in [Socket -> Seq(ToServer)]
  /\ toPage \in [Page -> Seq(ToPage)]
  /\ rooms \subseteq RoomId
  /\ room \in [RoomId -> Room \cup {None}]
  /\ \A r \in rooms : room[r] # None
  /\ broadcasterIndex \in [Socket -> RoomId \cup {None}]
  /\ viewerIndex \in [Socket -> RoomId \cup {None}]
  /\ timers \subseteq RoomId
  /\ members \in [RoomId -> SUBSET Socket]
  /\ suspended \subseteq Suspended
  /\ streamStats \in [RoomId -> StreamRoomStat \cup {None}]

StreamRoomsInit ==
  /\ connection = [p \in Page |-> 1]
  /\ toServer = [s \in Socket |-> <<>>]
  /\ toPage = [p \in Page |-> <<>>]
  /\ rooms = {}
  /\ room = [r \in RoomId |-> None]
  /\ broadcasterIndex = [s \in Socket |-> None]
  /\ viewerIndex = [s \in Socket |-> None]
  /\ timers = {}
  /\ members = [r \in RoomId |-> {}]
  /\ suspended = {}
  /\ streamStats = [r \in RoomId |-> None]

-----------------------------------------------------------------------------
\* One message to each of the sockets; server.to(...).emit in the order given.
To(sockets, m) == [s \in Socket |-> IF s \in sockets THEN <<m>> ELSE <<>>]

Then(sent, more) == [s \in Socket |-> sent[s] \o more[s]]

\* What is sent to a socket that is no longer in use is lost.
Emit(sent) == toPage' = [p \in Page |-> toPage[p] \o sent[SocketOf(p)]]

Request(s, type) ==
  /\ toServer[s] # <<>>
  /\ Head(toServer[s]).type = type
  /\ toServer' = [toServer EXCEPT ![s] = Tail(@)]
  /\ UNCHANGED connection

Count(viewers) == [type |-> "VIEWER_COUNT", count |-> Cardinality(viewers)]

findRoomByBroadcaster(s) ==
  IF broadcasterIndex[s] \in rooms THEN broadcasterIndex[s] ELSE None

\* TRACK_STATE, KICK_VIEWER and END_STREAM only count for the sender's stream.
IsMine(s) == findRoomByBroadcaster(s) = Head(toServer[s]).room

upsertStreamRoom(r, viewers) ==
  streamStats' = IF streamStats[r] = None
                 THEN [streamStats EXCEPT ![r] = [viewers |-> Cardinality(viewers),
                                                  track |-> InitialTrack]]
                 ELSE [streamStats EXCEPT ![r].viewers = Cardinality(viewers)]

removeStreamRoom(r) == streamStats' = [streamStats EXCEPT ![r] = None]

setStreamTrackState(r, track) ==
  streamStats' = IF streamStats[r] = None THEN streamStats
                 ELSE [streamStats EXCEPT ![r].track = track]

setStreamViewerCount(r, viewers) ==
  streamStats' = IF streamStats[r] = None THEN streamStats
                 ELSE [streamStats EXCEPT ![r].viewers = Cardinality(viewers)]

\* createRoom after the hash, and the rest of handleCreateStream.
createRoom(r, s) ==
  /\ rooms' = rooms \cup {r}
  /\ room' = [room EXCEPT ![r] = [broadcaster |-> s, viewers |-> {}, track |-> InitialTrack]]
  /\ broadcasterIndex' = [broadcasterIndex EXCEPT ![s] = r]
  /\ timers' = timers \cup {r}
  /\ members' = [members EXCEPT ![r] = @ \cup {s}]
  /\ upsertStreamRoom(r, {})
  /\ Emit(To({s}, [type |-> "STREAM_CREATED", room |-> r]))
  /\ UNCHANGED viewerIndex

Unused(r) == room[r] = None /\ \A h \in suspended : h.room # r

handleCreateStream(s) ==
  /\ Request(s, "CREATE_STREAM")
  /\ \E r \in RoomId :
       /\ Unused(r)
       /\ IF r \in Private
          THEN /\ suspended' = suspended \cup {[op |-> "create", socket |-> s, room |-> r]}
               /\ UNCHANGED <<toPage, serviceVars, members, streamStats>>
          ELSE createRoom(r, s) /\ UNCHANGED suspended

\* bcrypt.hash resolved.
passwordHashed(h) ==
  /\ h.op = "create"
  /\ createRoom(h.room, h.socket)
  /\ suspended' = suspended \ {h}
  /\ UNCHANGED <<connection, toServer>>

\* Mutant: the broadcaster is not told of the viewer.
addViewerUnannounced(r, s) ==
  LET there == r \in rooms
      viewers == room[r].viewers \cup (IF there THEN {s} ELSE {}) IN
    /\ members' = [members EXCEPT ![r] = @ \cup {s}]
    /\ room' = [room EXCEPT ![r].viewers = viewers]
    /\ viewerIndex' = IF there THEN [viewerIndex EXCEPT ![s] = r] ELSE viewerIndex
    /\ setStreamViewerCount(r, viewers)
    /\ Emit(Then(To({s}, [type |-> "STREAM_JOINED", room |-> r,
                          broadcaster |-> room[r].broadcaster,
                          count |-> Cardinality(viewers), track |-> room[r].track]),
                 To(members[r] \cup {s}, Count(viewers))))
    /\ UNCHANGED <<rooms, broadcasterIndex, timers>>

\* handleJoinStream once the password is right.  The room may be gone by then:
\* addViewer does nothing and its result is not looked at.
addViewer(r, s) ==
  LET there == r \in rooms
      viewers == room[r].viewers \cup (IF there THEN {s} ELSE {}) IN
    /\ members' = [members EXCEPT ![r] = @ \cup {s}]
    /\ room' = [room EXCEPT ![r].viewers = viewers]
    /\ viewerIndex' = IF there THEN [viewerIndex EXCEPT ![s] = r] ELSE viewerIndex
    /\ setStreamViewerCount(r, viewers)
    /\ Emit(Then(To({s}, [type |-> "STREAM_JOINED", room |-> r,
                          broadcaster |-> room[r].broadcaster,
                          count |-> Cardinality(viewers), track |-> room[r].track]),
            Then(To({room[r].broadcaster}, [type |-> "VIEWER_JOINED", viewer |-> s]),
                 To(members[r] \cup {s}, Count(viewers)))))
    /\ UNCHANGED <<rooms, broadcasterIndex, timers>>

\* STREAM_NOT_FOUND.
joinRefused(s) ==
  /\ Request(s, "JOIN_STREAM")
  /\ Head(toServer[s]).room \notin rooms
  /\ Emit(To({s}, [type |-> "JOIN_ERROR"]))
  /\ UNCHANGED roomVars

handleJoinStream(s) ==
  /\ Request(s, "JOIN_STREAM")
  /\ LET r == Head(toServer[s]).room IN
       /\ r \in rooms
       /\ IF r \in Private
          THEN /\ suspended' = suspended \cup {[op |-> "join", socket |-> s, room |-> r]}
               /\ UNCHANGED <<toPage, serviceVars, members, streamStats>>
          ELSE addViewer(r, s) /\ UNCHANGED suspended

\* bcrypt.compare resolved: INVALID_PASSWORD, or the viewer is in.
passwordCompared(h) ==
  /\ h.op = "join"
  /\ \/ /\ Emit(To({h.socket}, [type |-> "JOIN_ERROR"]))
        /\ UNCHANGED <<serviceVars, members, streamStats>>
     \/ addViewer(h.room, h.socket)
  /\ suspended' = suspended \ {h}
  /\ UNCHANGED <<connection, toServer>>

\* The SDP_OFFER and SDP_ANSWER relays: whoever the target is, in a stream or not.
handleSdp(s) ==
  /\ \E type \in {"SDP_OFFER", "SDP_ANSWER"} :
       /\ Request(s, type)
       /\ Emit(To({Head(toServer[s]).target}, [type |-> type, sender |-> s]))
  /\ UNCHANGED roomVars

\* Relayed to the whole room, the broadcaster included.
handleTrackState(s) ==
  /\ Request(s, "TRACK_STATE")
  /\ LET m == Head(toServer[s]) IN
       IF IsMine(s)
       THEN /\ room' = [room EXCEPT ![m.room].track = m.track]
            /\ setStreamTrackState(m.room, m.track)
            /\ Emit(To(members[m.room], [type |-> "TRACK_STATE", track |-> m.track]))
       ELSE UNCHANGED <<room, streamStats, toPage>>
  /\ UNCHANGED <<rooms, broadcasterIndex, viewerIndex, timers, members, suspended>>

Posted(s, kind) ==
  /\ Request(s, "POST")
  /\ Head(toServer[s]).post.kind = kind
  /\ UNCHANGED roomVars

Relay(s, readers) == Emit(To(readers, [type |-> "POST", post |-> Head(toServer[s]).post]))

\* Only from the broadcaster, to everybody else.
handleCaption(s) ==
  /\ Posted(s, "CAPTION")
  /\ LET r == Head(toServer[s]).post.room IN
       IF findRoomByBroadcaster(s) = r THEN Relay(s, members[r] \ {s}) ELSE UNCHANGED toPage

IsMember(s, r) == r \in rooms /\ s \in room[r].viewers \cup {room[r].broadcaster}

\* From and to everybody in the stream.
handleSendStreamMessage(s) ==
  /\ Posted(s, "MESSAGE")
  /\ LET r == Head(toServer[s]).post.room IN
       IF IsMember(s, r) THEN Relay(s, members[r]) ELSE UNCHANGED toPage

handleSendReaction(s) ==
  /\ Posted(s, "REACTION")
  /\ LET r == Head(toServer[s]).post.room IN
       IF IsMember(s, r) THEN Relay(s, members[r]) ELSE UNCHANGED toPage

\* removeViewer: from the room it is indexed under.
removeViewer(s) ==
  /\ viewerIndex' = [viewerIndex EXCEPT ![s] = None]
  /\ room' = IF viewerIndex[s] \in rooms
             THEN [room EXCEPT ![viewerIndex[s]].viewers = @ \ {s}] ELSE room
  /\ UNCHANGED <<rooms, broadcasterIndex, timers>>

\* Mutant: the viewer stays in the socket.io room.
kickViewerStays(r, v) ==
  LET viewers == room[r].viewers \ {v} IN
    /\ Emit(Then(To({v}, [type |-> "STREAM_KICKED"]), To(members[r] \ {v}, Count(viewers))))
    /\ removeViewer(v)
    /\ setStreamViewerCount(r, viewers)
    /\ UNCHANGED members

kickViewer(r, v) ==
  LET viewers == room[r].viewers \ {v} IN
    /\ Emit(Then(To({v}, [type |-> "STREAM_KICKED"]), To(members[r] \ {v}, Count(viewers))))
    /\ members' = [members EXCEPT ![r] = @ \ {v}]
    /\ removeViewer(v)
    /\ setStreamViewerCount(r, viewers)

handleKickViewer(s) ==
  /\ Request(s, "KICK_VIEWER")
  /\ LET m == Head(toServer[s]) IN
       IF IsMine(s) /\ m.viewer \in room[m.room].viewers
       THEN kickViewer(m.room, m.viewer)
       ELSE UNCHANGED <<toPage, serviceVars, members, streamStats>>
  /\ UNCHANGED suspended

\* Mutant: the viewers stay in the index.
removeRoomKeepsViewers(r) ==
  /\ rooms' = rooms \ {r}
  /\ broadcasterIndex' = [broadcasterIndex EXCEPT ![room[r].broadcaster] = None]
  /\ timers' = timers \ {r}
  /\ UNCHANGED <<room, viewerIndex>>

removeRoom(r) ==
  /\ rooms' = rooms \ {r}
  /\ broadcasterIndex' = [broadcasterIndex EXCEPT ![room[r].broadcaster] = None]
  /\ viewerIndex' = [s \in Socket |-> IF s \in room[r].viewers THEN None ELSE viewerIndex[s]]
  /\ timers' = timers \ {r}
  /\ UNCHANGED room

\* Mutant: only the broadcaster hears of the end.
closeRoomQuietly(r) ==
  /\ Emit(To({room[r].broadcaster}, [type |-> "STREAM_ENDED"]))
  /\ members' = [members EXCEPT ![r] = {}]
  /\ removeRoom(r)
  /\ removeStreamRoom(r)

\* closeRoom; onRoomExpired does the same.
closeRoom(r) ==
  /\ Emit(To(members[r], [type |-> "STREAM_ENDED"]))
  /\ members' = [members EXCEPT ![r] = {}]
  /\ removeRoom(r)
  /\ removeStreamRoom(r)

handleEndStream(s) ==
  /\ Request(s, "END_STREAM")
  /\ IF IsMine(s) THEN closeRoom(findRoomByBroadcaster(s))
                  ELSE UNCHANGED <<toPage, serviceVars, members, streamStats>>
  /\ UNCHANGED suspended

\* The timer of scheduleExpiry fires.
expire(r) ==
  /\ r \in timers
  /\ closeRoom(r)
  /\ UNCHANGED <<connection, toServer, suspended>>

\* Mutant: a viewer that disconnects is not removed.
handleDisconnectOfBroadcaster(s) ==
  /\ Request(s, "disconnect")
  /\ LET mine == findRoomByBroadcaster(s) IN
       IF mine # None THEN closeRoom(mine)
       ELSE UNCHANGED <<toPage, serviceVars, members, streamStats>>
  /\ UNCHANGED suspended

\* The last the server sees of a socket, which has left its socket.io rooms.  A
\* broadcaster's stream is closed; a viewer leaves the stream it is indexed under.
handleDisconnect(s) ==
  /\ Request(s, "disconnect")
  /\ LET mine == findRoomByBroadcaster(s)
         r == viewerIndex[s]
         left == [q \in RoomId |-> members[q] \ {s}] IN
       \/ /\ mine # None
          /\ closeRoom(mine)
       \/ /\ mine = None
          /\ removeViewer(s)
          /\ members' = left
          /\ IF r \in rooms
             THEN LET viewers == room[r].viewers \ {s} IN
                    /\ setStreamViewerCount(r, viewers)
                    /\ Emit(Then(To({room[r].broadcaster},
                                    [type |-> "VIEWER_LEFT", viewer |-> s]),
                                 To(left[r], Count(viewers))))
             ELSE UNCHANGED <<toPage, streamStats>>
  /\ UNCHANGED suspended

Handler(s) ==
  \/ handleCreateStream(s)
  \/ joinRefused(s)
  \/ handleJoinStream(s)
  \/ handleSdp(s)
  \/ handleTrackState(s)
  \/ handleCaption(s)
  \/ handleSendStreamMessage(s)
  \/ handleSendReaction(s)
  \/ handleKickViewer(s)
  \/ handleEndStream(s)
  \/ handleDisconnect(s)

Resumed(h) == passwordHashed(h) \/ passwordCompared(h)
=============================================================================
