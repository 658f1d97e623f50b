------------------------------ MODULE FileRooms ------------------------------
(***************************************************************************)
(* The file sharing side of the signaling server: FileGateway with the     *)
(* rooms of socket.io, RedisService, the file rooms of StatsService, and   *)
(* the sockets of the pages.  Handlers await Redis; their commands share   *)
(* one connection, which runs them in the order they are issued.  Left     *)
(* out: progress and backpressure reports and the signaling log.           *)
(***************************************************************************)
EXTENDS Naturals, Sequences, FiniteSets

CONSTANTS
  Page,           \* the browser pages on /files
  RoomId,         \* the identifiers randomUUID yields, none of them twice
  None,           \* null, "undefined" and the empty string
  MaxConnections  \* bound: how often each page connects

ASSUME FileRoomsAssumption ==
  /\ IsFiniteSet(Page)
  /\ MaxConnections \in [Page -> Nat \ {0}]
  /\ None \notin RoomId

\* A socket id: the page and the number of the connection.
Socket == UNION {{p} \X (1..MaxConnections[p]) : p \in Page}

VARIABLES
  connection,  \* connection[p]: the number of the page's current connection
  toServer,    \* toServer[s]: messages on their way from socket s
  toPage,      \* toPage[p]: messages on their way to the page's current socket
  issued,      \* the rooms that were created
  members,     \* members[r]: the sockets in socket.io's room r
  peers,       \* peers[r]: the set room:<r>:peers in Redis
  roomOf,      \* roomOf[s]: the key socket:<s>:room in Redis
  redis,       \* the commands on their way to Redis, with the handlers that await them
  fileStats    \* StatsService.fileRooms

socketVars == <<connection, toServer, toPage>>
redisVars == <<peers, roomOf>>
roomVars == <<issued, members, redisVars, redis, fileStats>>

SocketOf(p) == <<p, connection[p]>>

ConnectionType == {"direct", "relay", "unknown"}

FileRoomStat == [peerCount : Nat, connectionType : ConnectionType]

\* "undefined" is no entry.
ASSUME StatAssumption == None \notin FileRoomStat

\* addPeerToRoom: smembers, sadd, expire, set.  removePeer: get, srem, del, remaining
\* (smembers) and, for an empty room, delRoom.  found is what smembers replied.
Command ==
  [op : {"smembers", "sadd", "expire", "set", "get", "srem", "del", "remaining", "delRoom"},
   socket : Socket, room : RoomId \cup {None}, found : SUBSET Socket, creating : BOOLEAN]

\* A description or candidate, of the peer connection numbered pc of the sender's page;
\* peer is the other end: the target on the way there, then the sender.
Signal ==
  [type : {"SDP_OFFER", "SDP_ANSWER", "ICE_CANDIDATE"}, peer : Socket, pc : Nat]

ToServer ==
  [type : {"CREATE_ROOM", "disconnect"}]
  \cup [type : {"JOIN_ROOM"}, room : RoomId]
  \cup [type : {"CONNECTION_INFO"}, room : RoomId, connectionType : ConnectionType]
  \cup Signal

ToPage ==
  [type : {"ROOM_CREATED"}, room : RoomId]
  \cup [type : {"room-users"}, peers : SUBSET Socket]
  \cup [type : {"PEER_JOINED", "LEAVE_ROOM"}, peer : Socket]
  \cup Signal

FileRoomsTypeOK ==
  /\ \A p \in Page : SocketOf(p) \in Socket
  /\ toServer \in [Socket -> Seq(ToServer)]
  /\ toPage \in [Page -> Seq(ToPage)]
  /\ issued \subseteq RoomId
  /\ members \in [RoomId -> SUBSET Socket]
  /\ peers \in [RoomId -> SUBSET Socket]
  /\ roomOf \in [Socket -> RoomId \cup {None}]
  /\ redis \in Seq(Command)
  /\ fileStats \in [RoomId -> FileRoomStat \cup {None}]

FileRoomsInit ==
  /\ connection = [p \in Page |-> 1]
  /\ toServer = [s \in Socket |-> <<>>]
  /\ toPage = [p \in Page |-> <<>>]
  /\ issued = {}
  /\ members = [r \in RoomId |-> {}]
  /\ peers = [r \in RoomId |-> {}]
  /\ roomOf = [s \in Socket |-> None]
  /\ redis = <<>>
  /\ fileStats = [r \in RoomId |-> None]

-----------------------------------------------------------------------------
\* What is sent to a socket that is no longer in use is lost.
Emit(sent) ==
  toPage' = [p \in Page |-> IF SocketOf(p) \in DOMAIN sent
                            THEN Append(toPage[p], sent[SocketOf(p)]) ELSE toPage[p]]

To(sockets, m) == [s \in sockets |-> m]

Request(s, type) ==
  /\ toServer[s] # <<>>
  /\ Head(toServer[s]).type = type
  /\ toServer' = [toServer EXCEPT ![s] = Tail(@)]
  /\ UNCHANGED connection

Issue(op, s, r, creating) ==
  redis' = Append(redis, [op |-> op, socket |-> s, room |-> r, found |-> {},
                          creating |-> creating])

\* Runs up to the first command of addPeerToRoom.
enterRoom(s, r, creating) ==
  /\ members' = [members EXCEPT ![r] = @ \cup {s}]
  /\ Issue("smembers", s, r, creating)
  /\ UNCHANGED <<toPage, redisVars, fileStats>>

handleCreateRoom(s) ==
  /\ Request(s, "CREATE_ROOM")
  /\ \E r \in RoomId \ issued :
       /\ issued' = issued \cup {r}
       /\ enterRoom(s, r, TRUE)

handleJoinRoom(s) ==
  /\ Request(s, "JOIN_ROOM")
  /\ enterRoom(s, Head(toServer[s]).room, FALSE)
  /\ UNCHANGED issued

\* socket.io has taken the socket out of its rooms.
handleDisconnect(s) ==
  /\ Request(s, "disconnect")
  /\ members' = [r \in RoomId |-> members[r] \ {s}]
  /\ Issue("get", s, None, FALSE)
  /\ UNCHANGED <<toPage, issued, redisVars, fileStats>>

setFileRoomPeerCount(r, n) ==
  fileStats' = [fileStats EXCEPT ![r] =
    IF n = 0 THEN None
    ELSE IF @ = None THEN [peerCount |-> n, connectionType |-> "unknown"]
    ELSE [@ EXCEPT !.peerCount = n]]

\* A relay, once reported, stays.
handleConnectionInfo(s) ==
  /\ Request(s, "CONNECTION_INFO")
  /\ LET m == Head(toServer[s]) IN
       fileStats' = [fileStats EXCEPT ![m.room] =
         IF @ = None \/ (@.connectionType = "relay" /\ m.connectionType # "relay") THEN @
         ELSE [@ EXCEPT !.connectionType = m.connectionType]]
  /\ UNCHANGED <<toPage, issued, members, redisVars, redis>>

\* handleSdpOffer, handleSdpAnswer and handleIceCandidate: whoever is named gets it.
handleSignal(s) ==
  /\ \E type \in {"SDP_OFFER", "SDP_ANSWER", "ICE_CANDIDATE"} : Request(s, type)
  /\ Emit(To({Head(toServer[s]).peer}, [Head(toServer[s]) EXCEPT !.peer = s]))
  /\ UNCHANGED roomVars

-----------------------------------------------------------------------------
\* The rest of a handler, at the reply to its last command.
Return(h) == redis' = Tail(redis)

\* The handler goes on with its next command.
Continue(h, op) == redis' = Append(Tail(redis), [h EXCEPT !.op = op])

\* addPeerToRoom returned, to handleCreateRoom or handleJoinRoom.
peerAdded(h) ==
  IF h.creating
  THEN /\ setFileRoomPeerCount(h.room, 1)
       /\ Emit(To({h.socket}, [type |-> "ROOM_CREATED", room |-> h.room]))
  ELSE /\ setFileRoomPeerCount(h.room, Cardinality(h.found) + 1)
       /\ Emit([s \in members[h.room] \cup {h.socket} |->
                 IF s = h.socket THEN [type |-> "room-users", peers |-> h.found]
                 ELSE [type |-> "PEER_JOINED", peer |-> h.socket]])

\* addPeerToRoom, one command at a time.
addPeerToRoom(h) ==
  \/ /\ h.op = "smembers"
     /\ redis' = Append(Tail(redis), [h EXCEPT !.op = "sadd",
                                               !.found = peers[h.room] \ {h.socket}])
     /\ UNCHANGED <<toPage, redisVars, fileStats>>
  \/ /\ h.op = "sadd"
     /\ peers' = [peers EXCEPT ![h.room] = @ \cup {h.socket}]
     /\ Continue(h, "expire")
     /\ UNCHANGED <<toPage, roomOf, fileStats>>
  \/ /\ h.op = "expire"
     /\ Continue(h, "set")
     /\ UNCHANGED <<toPage, redisVars, fileStats>>
  \/ /\ h.op = "set"
     /\ roomOf' = [roomOf EXCEPT ![h.socket] = h.room]
     /\ peerAdded(h)
     /\ Return(h)
     /\ UNCHANGED peers

\* removePeer returned, to handleDisconnect.
peerRemoved(h, remaining) ==
  /\ setFileRoomPeerCount(h.room, Cardinality(remaining))
  /\ Emit(To(members[h.room], [type |-> "LEAVE_ROOM", peer |-> h.socket]))

\* Mutant: the socket stays in the room's set.
removePeerUnlisted(h) ==
  \/ /\ h.op = "get"
     /\ IF roomOf[h.socket] = None THEN Return(h)
        ELSE Continue([h EXCEPT !.room = roomOf[h.socket]], "del")
     /\ UNCHANGED <<toPage, redisVars, fileStats>>
  \/ /\ h.op = "del"
     /\ roomOf' = [roomOf EXCEPT ![h.socket] = None]
     /\ Return(h)
     /\ peerRemoved(h, peers[h.room])
     /\ UNCHANGED peers

\* removePeer, one command at a time.
removePeer(h) ==
  \/ /\ h.op = "get"
     /\ IF roomOf[h.socket] = None THEN Return(h)
        ELSE Continue([h EXCEPT !.room = roomOf[h.socket]], "srem")
     /\ UNCHANGED <<toPage, redisVars, fileStats>>
  \/ /\ h.op = "srem"
     /\ peers' = [peers EXCEPT ![h.room] = @ \ {h.socket}]
     /\ Continue(h, "del")
     /\ UNCHANGED <<toPage, roomOf, fileStats>>
  \/ /\ h.op = "del"
     /\ roomOf' = [roomOf EXCEPT ![h.socket] = None]
     /\ Continue(h, "remaining")
     /\ UNCHANGED <<toPage, peers, fileStats>>
  \/ /\ h.op = "remaining"
     /\ IF peers[h.room] = {}
        THEN Continue(h, "delRoom") /\ UNCHANGED <<toPage, fileStats>>
        ELSE Return(h) /\ peerRemoved(h, peers[h.room])
     /\ UNCHANGED redisVars
  \/ /\ h.op = "delRoom"
     /\ peers' = [peers EXCEPT ![h.room] = {}]
     /\ Return(h)
     /\ peerRemoved(h, {})
     /\ UNCHANGED roomOf

redisReplies ==
  /\ redis # <<>>
  /\ addPeerToRoom(Head(redis)) \/ removePeer(Head(redis))
  /\ UNCHANGED <<connection, toServer, issued, members>>

\* ROOM_TTL: a key that is two hours old is gone, whoever is still in the room.
lapse ==
  /\ \/ /\ \E r \in RoomId : peers[r] # {} /\ peers' = [peers EXCEPT ![r] = {}]
        /\ UNCHANGED roomOf
     \/ /\ \E s \in Socket : roomOf[s] # None /\ roomOf' = [roomOf EXCEPT ![s] = None]
        /\ UNCHANGED peers
  /\ UNCHANGED <<socketVars, issued, members, redis, fileStats>>

Handler(s) ==
  \/ handleCreateRoom(s)
  \/ handleJoinRoom(s)
  \/ handleConnectionInfo(s)
  \/ handleSignal(s)
  \/ handleDisconnect(s)
=============================================================================
