----------------------------- MODULE CallRooms ------------------------------
(***************************************************************************)
(* The /call namespace of the signaling server: CallGateway and            *)
(* CallRoomService, with the sockets of the pages that use it.  Every      *)
(* handler runs in one step: what it awaits (the validation of a payload,  *)
(* client.join on the in-memory adapter) resolves before the next message  *)
(* is handled.  A payload that fails validation is left out.               *)
(***************************************************************************)
EXTENDS Naturals, Sequences

CONSTANTS
  Page,           \* the browser pages that open a video call
  RoomId,         \* the identifiers randomUUID can yield
  None,           \* "undefined" and the empty string
  MaxConnections  \* bound: how often each page connects

ASSUME CallAssumption ==
  /\ MaxConnections \in [Page -> Nat \ {0}]
  /\ None \notin RoomId

\* A socket id: the page and the number of the connection.
Socket == UNION {{p} \X (1..MaxConnections[p]) : p \in Page}

ASSUME SocketAssumption ==
  /\ None \notin Socket
  /\ \A s \in Socket, t \in Socket \cup {None}, on \in BOOLEAN :
       None # [host |-> s, guest |-> t, media |-> on]

VARIABLES
  connection,   \* connection[p]: the number of the page's current connection
  toServer,     \* toServer[s]: messages on their way from socket s
  toPage,       \* toPage[p]: messages on their way to the page's current socket
  rooms,        \* rooms: a room or None for each identifier
  socketIndex,  \* socketIndex: the room each socket is indexed under, or None
  timers        \* expiryTimers: the rooms with a timer

socketVars == <<connection, toServer, toPage>>
roomVars == <<rooms, socketIndex, timers>>

SocketOf(p) == <<p, connection[p]>>

Room == [host : Socket, guest : Socket \cup {None}, media : BOOLEAN]

ToServer ==
  [type : {"CREATE_CALL", "disconnect"}]
  \cup [type : {"JOIN_CALL", "LEAVE_CALL"}, room : RoomId \cup {None}]
  \cup [type : {"TRACK_STATE"}, room : RoomId \cup {None}, media : BOOLEAN]
  \cup [type : {"SDP_OFFER", "SDP_ANSWER"}, target : Socket]

ToPage ==
  [type : {"CALL_CREATED"}, room : RoomId]
  \cup [type : {"CALL_JOINED"}, room : RoomId, media : BOOLEAN]
  \cup [type : {"JOIN_ERROR", "CALL_ENDED"}]
  \cup [type : {"PEER_JOINED"}, peer : Socket]
  \cup [type : {"TRACK_STATE"}, media : BOOLEAN]
  \cup [type : {"SDP_OFFER", "SDP_ANSWER"}, sender : Socket]

RoomsTypeOK ==
  /\ connection \in [Page -> Nat]
  /\ \A p \in Page : SocketOf(p) \in Socket
  /\ toServer \in [Socket -> Seq(ToServer)]
  /\ toPage \in [Page -> Seq(ToPage)]
  /\ rooms \in [RoomId -> Room \cup {None}]
  /\ socketIndex \in [Socket -> RoomId \cup {None}]
  /\ timers \subseteq RoomId

RoomsInit ==
  /\ connection = [p \in Page |-> 1]
  /\ toServer = [s \in Socket |-> <<>>]
  /\ toPage = [p \in Page |-> <<>>]
  /\ rooms = [r \in RoomId |-> None]
  /\ socketIndex = [s \in Socket |-> None]
  /\ timers = {}

-----------------------------------------------------------------------------
\* server.to(s).emit: sent[s] is for socket s, and lost unless s is still in use.
Emit(sent) ==
  toPage' = [p \in Page |-> toPage[p] \o sent[SocketOf(p)]]

Only(s, m) == [t \in Socket |-> IF t = s THEN <<m>> ELSE <<>>]

Request(s, type) ==
  /\ toServer[s] # <<>>
  /\ Head(toServer[s]).type = type
  /\ toServer' = [toServer EXCEPT ![s] = Tail(@)]
  /\ UNCHANGED connection

Participants(r) == IF rooms[r] = None THEN {} ELSE {rooms[r].host, rooms[r].guest} \ {None}

OtherPeer(r, s) ==
  IF s = rooms[r].host THEN rooms[r].guest
  ELSE IF s = rooms[r].guest THEN rooms[r].host ELSE None

createRoom(r, s) ==
  /\ rooms[r] = None
  /\ rooms' = [rooms EXCEPT ![r] = [host |-> s, guest |-> None, media |-> TRUE]]
  /\ socketIndex' = [socketIndex EXCEPT ![s] = r]
  /\ timers' = timers \cup {r}

handleCreateCall(s) ==
  /\ Request(s, "CREATE_CALL")
  /\ \E r \in RoomId :
       /\ createRoom(r, s)
       /\ Emit(Only(s, [type |-> "CALL_CREATED", room |-> r]))

\* Mutant: a second guest takes the place of the first.
RefusedUnlessThere(r, s) == IF r = None THEN TRUE ELSE rooms[r] = None

\* joinRoom answers NOT_FOUND or FULL.
Refused(r, s) ==
  \/ r = None
  \/ r # None /\ rooms[r] = None
  \/ r # None /\ rooms[r] # None /\ rooms[r].guest \notin {None, s}

joinRoom(r, s) ==
  /\ rooms' = [rooms EXCEPT ![r].guest = s]
  /\ socketIndex' = [socketIndex EXCEPT ![s] = r]
  /\ UNCHANGED timers

\* Mutant: only NOT_FOUND is answered.
joinRefusedUnlessFull(s) ==
  /\ Request(s, "JOIN_CALL")
  /\ LET r == Head(toServer[s]).room IN
       /\ Refused(r, s)
       /\ IF r # None /\ rooms[r] # None THEN UNCHANGED toPage
          ELSE Emit(Only(s, [type |-> "JOIN_ERROR"]))
  /\ UNCHANGED roomVars

joinRefused(s) ==
  /\ Request(s, "JOIN_CALL")
  /\ Refused(Head(toServer[s]).room, s)
  /\ Emit(Only(s, [type |-> "JOIN_ERROR"]))
  /\ UNCHANGED roomVars

\* Mutant: the host is not told of the guest.
handleJoinCallUnannounced(s) ==
  /\ Request(s, "JOIN_CALL")
  /\ LET r == Head(toServer[s]).room IN
       /\ ~Refused(r, s)
       /\ joinRoom(r, s)
       /\ Emit(Only(s, [type |-> "CALL_JOINED", room |-> r, media |-> rooms[r].media]))

handleJoinCall(s) ==
  /\ Request(s, "JOIN_CALL")
  /\ LET r == Head(toServer[s]).room IN
       /\ ~Refused(r, s)
       /\ joinRoom(r, s)
       /\ Emit([t \in Socket |->
                  (IF t = s THEN <<[type |-> "CALL_JOINED", room |-> r, media |-> rooms[r].media]>>
                            ELSE <<>>)
                  \o (IF t = rooms[r].host THEN <<[type |-> "PEER_JOINED", peer |-> s]>>
                                           ELSE <<>>)])

\* The SDP_OFFER and SDP_ANSWER relays: whoever the target is, in a call or not.
handleSdp(s) ==
  /\ \E type \in {"SDP_OFFER", "SDP_ANSWER"} :
       /\ Request(s, type)
       /\ Emit(Only(Head(toServer[s]).target, [type |-> type, sender |-> s]))
  /\ UNCHANGED roomVars

findRoomBySocket(s) ==
  IF socketIndex[s] = None \/ rooms[socketIndex[s]] = None THEN None ELSE socketIndex[s]

\* TRACK_STATE and LEAVE_CALL only count for the room the sender is in.
IsMine(s) == findRoomBySocket(s) = Head(toServer[s]).room /\ findRoomBySocket(s) # None

setTrackState(r, media) == rooms' = [rooms EXCEPT ![r].media = media]

\* Mutant: the state is relayed and not kept for whoever joins later.
handleTrackStateUnstored(s) ==
  /\ Request(s, "TRACK_STATE")
  /\ LET m == Head(toServer[s]) IN
       IF IsMine(s)
       THEN Emit(Only(OtherPeer(m.room, s), [type |-> "TRACK_STATE", media |-> m.media]))
       ELSE UNCHANGED toPage
  /\ UNCHANGED roomVars

handleTrackState(s) ==
  /\ Request(s, "TRACK_STATE")
  /\ LET m == Head(toServer[s]) IN
       IF IsMine(s)
       THEN /\ setTrackState(m.room, m.media)
            /\ Emit(Only(OtherPeer(m.room, s), [type |-> "TRACK_STATE", media |-> m.media]))
       ELSE UNCHANGED <<toPage, rooms>>
  /\ UNCHANGED <<socketIndex, timers>>

\* Mutant: the guest stays in the index.
removeRoomKeepsGuest(r) ==
  /\ rooms' = [rooms EXCEPT ![r] = None]
  /\ socketIndex' = [socketIndex EXCEPT ![rooms[r].host] = None]
  /\ timers' = timers \ {r}

removeRoom(r) ==
  /\ rooms' = [rooms EXCEPT ![r] = None]
  /\ socketIndex' = [s \in Socket |-> IF s \in Participants(r) THEN None ELSE socketIndex[s]]
  /\ timers' = timers \ {r}

\* Mutant: the one who leaves is told, the other is not.
closeRoomTellsLeaver(r, s) ==
  /\ Emit(Only(s, [type |-> "CALL_ENDED"]))
  /\ removeRoom(r)

\* "Whichever one leaves or disconnects, the room closes for both."
closeRoom(r, s) ==
  /\ Emit(Only(OtherPeer(r, s), [type |-> "CALL_ENDED"]))
  /\ removeRoom(r)

handleLeaveCall(s) ==
  /\ Request(s, "LEAVE_CALL")
  /\ IF IsMine(s) THEN closeRoom(findRoomBySocket(s), s)
                  ELSE UNCHANGED <<toPage, roomVars>>

\* Mutant: only the host's disconnect closes the room.
handleDisconnectOfHost(s) ==
  /\ Request(s, "disconnect")
  /\ LET r == findRoomBySocket(s) IN
       IF r # None /\ rooms[r].host = s THEN closeRoom(r, s)
                                        ELSE UNCHANGED <<toPage, roomVars>>

\* The last thing the server sees of a socket.
handleDisconnect(s) ==
  /\ Request(s, "disconnect")
  /\ IF findRoomBySocket(s) = None THEN UNCHANGED <<toPage, roomVars>>
                                    ELSE closeRoom(findRoomBySocket(s), s)

\* The sockets that joined the room are its participants.
onRoomExpired(r) ==
  Emit([s \in Socket |-> IF s \in Participants(r) THEN <<[type |-> "CALL_ENDED"]>> ELSE <<>>])

\* The timer of scheduleExpiry fires.
expire(r) ==
  /\ r \in timers
  /\ removeRoom(r)
  /\ onRoomExpired(r)
  /\ UNCHANGED <<connection, toServer>>

Handler(s) ==
  \/ handleCreateCall(s)
  \/ joinRefused(s)
  \/ handleJoinCall(s)
  \/ handleSdp(s)
  \/ handleTrackState(s)
  \/ handleLeaveCall(s)
  \/ handleDisconnect(s)
=============================================================================
