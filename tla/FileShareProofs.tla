--------------------------- MODULE FileShareProofs ---------------------------
(***************************************************************************)
(* Theorems about FileShare, for every choice of its constants.            *)
(***************************************************************************)
EXTENDS FileShare, Queues, SequenceTheorems, FiniteSetTheorems, TLAPS

LEMMA SocketFields ==
  ASSUME NEW s \in Socket
  PROVE  /\ s[1] \in Page
         /\ s[2] \in 1..MaxConnections[s[1]]
         /\ s = <<s[1], s[2]>>
BY DEF Socket

LEMMA SocketMade ==
  ASSUME NEW p \in Page, NEW n \in 1..MaxConnections[p]
  PROVE  <<p, n>> \in Socket
BY DEF Socket

LEMMA SocketsFinite == IsFiniteSet(Socket)
<1> DEFINE f == [p \in Page |-> {p} \X (1..MaxConnections[p])]
<1>1. ASSUME NEW p \in Page
      PROVE  IsFiniteSet({p} \X (1..MaxConnections[p]))
  <2>1. 1 \in Int /\ MaxConnections[p] \in Int
    BY FileRoomsAssumption
  <2>2. IsFiniteSet({p}) /\ IsFiniteSet(1..MaxConnections[p])
    BY <2>1, FS_Singleton, FS_Interval
  <2> QED
    BY <2>2, FS_Product
<1>2. IsFiniteSet({f[p] : p \in Page})
  <2> HIDE DEF f
  <2> QED
    BY ImageFinite, FileRoomsAssumption
<1>3. \A T \in {f[p] : p \in Page} : IsFiniteSet(T)
  BY <1>1
<1>4. Socket = UNION {f[p] : p \in Page}
  BY DEF Socket
<1> QED
  <2> HIDE DEF f
  <2> QED
    BY <1>2, <1>3, <1>4, FS_UNION

LEMMA SocketSets ==
  ASSUME NEW S \in SUBSET Socket
  PROVE  IsFiniteSet(S) /\ Cardinality(S) \in Nat /\ (Cardinality(S) = 0 <=> S = {})
BY SocketsFinite, FS_Subset, FS_CardinalityType, FS_EmptySet

-----------------------------------------------------------------------------
(***************************************************************************)
(* The invariant about types.  A page shares a room that the server has    *)
(* made: the answer on its way to the page, the handler that will give it  *)
(* and the requests to join all name rooms that were issued.               *)
(***************************************************************************)
Work == ToSet(redis)

KnownWork ==
  \A h \in Work : (h.op = "get" <=> h.room = None) /\ h.room \in issued \cup {None}

KnownRooms == \A s \in Socket : roomOf[s] \in issued \cup {None}

KnownRequests ==
  \A s \in Socket : \A m \in ToSet(toServer[s]) : m.type = "JOIN_ROOM" => m.room \in shared

KnownAnswers ==
  \A p \in Page : \A m \in ToSet(toPage[p]) : m.type = "ROOM_CREATED" => m.room \in issued

TypeInv ==
  /\ TypeOK
  /\ connection \in [Page -> Nat \ {0}]
  /\ KnownWork
  /\ KnownRooms
  /\ KnownRequests
  /\ KnownAnswers

ServerTypes ==
  /\ issued \subseteq RoomId
  /\ members \in [RoomId -> SUBSET Socket]
  /\ peers \in [RoomId -> SUBSET Socket]
  /\ roomOf \in [Socket -> RoomId \cup {None}]
  /\ redis \in Seq(Command)
  /\ fileStats \in [RoomId -> FileRoomStat \cup {None}]

HistoryTypes ==
  /\ lapsed \in BOOLEAN
  /\ overtaken \subseteq Socket
  /\ crossed \subseteq contended /\ contended \subseteq RoomId
  /\ severed \subseteq Page

LEMMA TypesSplit ==
  TypeOK <=> /\ \A p \in Page : SocketOf(p) \in Socket
             /\ toServer \in [Socket -> Seq(ToServer)]
             /\ toPage \in [Page -> Seq(ToPage)]
             /\ ServerTypes
             /\ PeerSignallingTypeOK
             /\ HistoryTypes
BY DEF TypeOK, FileRoomsTypeOK, ServerTypes, HistoryTypes

LEMMA CommandFields ==
  ASSUME NEW h \in Command
  PROVE  /\ h.op \in {"smembers", "sadd", "expire", "set", "get", "srem", "del",
                      "remaining", "delRoom"}
         /\ h.socket \in Socket /\ h.room \in RoomId \cup {None}
         /\ h.found \in SUBSET Socket /\ h.creating \in BOOLEAN
BY DEF Command

LEMMA SignalTypes ==
  ASSUME NEW m \in Signal
  PROVE  /\ m.type \in {"SDP_OFFER", "SDP_ANSWER", "ICE_CANDIDATE"}
         /\ m.peer \in Socket /\ m.pc \in Nat
         /\ m \in ToServer /\ m \in ToPage
         /\ \A s \in Socket : [m EXCEPT !.peer = s] \in Signal
BY DEF Signal, ToServer, ToPage

LEMMA ToServerTypes ==
  ASSUME NEW m \in ToServer
  PROVE  /\ m.type = "JOIN_ROOM" => m.room \in RoomId
         /\ m.type = "CONNECTION_INFO" => m.room \in RoomId /\ m.connectionType \in ConnectionType
         /\ m.type \in {"SDP_OFFER", "SDP_ANSWER", "ICE_CANDIDATE"} => m \in Signal
         /\ m.type \in {"CREATE_ROOM", "JOIN_ROOM", "disconnect", "CONNECTION_INFO", "SDP_OFFER",
                        "SDP_ANSWER", "ICE_CANDIDATE"}
BY DEF ToServer, Signal

LEMMA ToPageTypes ==
  ASSUME NEW m \in ToPage
  PROVE  /\ m.type = "ROOM_CREATED" => m.room \in RoomId
         /\ m.type = "room-users" => m.peers \in SUBSET Socket
         /\ m.type \in {"PEER_JOINED", "LEAVE_ROOM"} => m.peer \in Socket
         /\ m.type \in {"SDP_OFFER", "SDP_ANSWER", "ICE_CANDIDATE"} => m \in Signal
BY DEF ToPage, Signal

LEMMA MessagesMade ==
  /\ [type |-> "CREATE_ROOM"] \in ToServer /\ [type |-> "disconnect"] \in ToServer
  /\ \A r \in RoomId : /\ [type |-> "JOIN_ROOM", room |-> r] \in ToServer
                       /\ [type |-> "ROOM_CREATED", room |-> r] \in ToPage
  /\ \A r \in RoomId, t \in ConnectionType :
       [type |-> "CONNECTION_INFO", room |-> r, connectionType |-> t] \in ToServer
  /\ \A S \in SUBSET Socket : [type |-> "room-users", peers |-> S] \in ToPage
  /\ \A s \in Socket : /\ [type |-> "PEER_JOINED", peer |-> s] \in ToPage
                       /\ [type |-> "LEAVE_ROOM", peer |-> s] \in ToPage
BY DEF ToServer, ToPage

\* The server takes the first message of a socket.
LEMMA RequestTaken ==
  ASSUME TypeInv, NEW s \in Socket, NEW type, Request(s, type)
  PROVE  /\ toServer[s] \in Seq(ToServer) /\ toServer[s] # <<>>
         /\ Head(toServer[s]) \in ToServer /\ Head(toServer[s]).type = type
         /\ Head(toServer[s]) \in ToSet(toServer[s])
         /\ toServer' \in [Socket -> Seq(ToServer)]
         /\ toServer'[s] = Tail(toServer[s])
         /\ \A t \in Socket \ {s} : toServer'[t] = toServer[t]
         /\ \A t \in Socket : ToSet(toServer'[t]) \subseteq ToSet(toServer[t])
         /\ connection' = connection
<1>1. toServer \in [Socket -> Seq(ToServer)]
  BY TypesSplit DEF TypeInv
<1>2. /\ toServer[s] \in Seq(ToServer) /\ toServer[s] # <<>> /\ Head(toServer[s]).type = type
      /\ toServer' = [toServer EXCEPT ![s] = Tail(@)] /\ connection' = connection
  BY <1>1 DEF Request
<1>3. /\ Head(toServer[s]) \in ToServer /\ Tail(toServer[s]) \in Seq(ToServer)
      /\ ToSet(toServer[s]) = {Head(toServer[s])} \cup ToSet(Tail(toServer[s]))
  BY <1>2, HeadTail, SetTail
<1> QED BY <1>1, <1>2, <1>3

\* What is emitted reaches the sockets in use.
LEMMA Emitted ==
  ASSUME TypeInv, NEW sent, \A s \in DOMAIN sent : sent[s] \in ToPage, Emit(sent)
  PROVE  /\ toPage' \in [Page -> Seq(ToPage)]
         /\ \A p \in Page :
              \/ toPage'[p] = toPage[p]
              \/ /\ SocketOf(p) \in DOMAIN sent
                 /\ toPage'[p] = Append(toPage[p], sent[SocketOf(p)])
                 /\ ToSet(toPage'[p]) = ToSet(toPage[p]) \cup {sent[SocketOf(p)]}
<1>1. toPage \in [Page -> Seq(ToPage)]
  BY TypesSplit DEF TypeInv
<1>2. ASSUME NEW p \in Page, SocketOf(p) \in DOMAIN sent
      PROVE  /\ Append(toPage[p], sent[SocketOf(p)]) \in Seq(ToPage)
             /\ ToSet(Append(toPage[p], sent[SocketOf(p)])) = ToSet(toPage[p]) \cup {sent[SocketOf(p)]}
  <2>1. PICK m \in ToPage : m = sent[SocketOf(p)]
    BY <1>2
  <2>2. toPage[p] \in Seq(ToPage)
    BY <1>1
  <2>3. Append(toPage[p], m) = toPage[p] \o <<m>> /\ Append(toPage[p], m) \in Seq(ToPage)
    BY <2>2, AppendConcat
  <2>4. ToSet(toPage[p] \o <<m>>) = ToSet(toPage[p]) \cup {m}
    BY <2>2, SetMore
  <2> QED BY <2>1, <2>3, <2>4
<1>3. toPage' = [p \in Page |-> IF SocketOf(p) \in DOMAIN sent
                                THEN Append(toPage[p], sent[SocketOf(p)]) ELSE toPage[p]]
  BY DEF Emit
<1> QED BY <1>1, <1>2, <1>3

\* A handler issues a command.
LEMMA Issued ==
  ASSUME TypeInv, NEW x \in Command, redis' = Append(redis, x)
  PROVE  redis' \in Seq(Command) /\ Work' = Work \cup {x}
<1>1. redis \in Seq(Command)
  BY TypesSplit DEF TypeInv, ServerTypes
<1>2. Append(redis, x) = redis \o <<x>> /\ Append(redis, x) \in Seq(Command)
  BY <1>1, AppendConcat
<1>3. ToSet(redis \o <<x>>) = ToSet(redis) \cup {x}
  BY <1>1, SetMore
<1> QED BY <1>2, <1>3 DEF Work

\* A handler gets its reply, and is over or issues its next command.
LEMMA Replied ==
  ASSUME TypeInv, redis # <<>>
  PROVE  /\ Head(redis) \in Command /\ Head(redis) \in Work
         /\ redis' = Tail(redis) => redis' \in Seq(Command) /\ Work' \subseteq Work
         /\ \A x \in Command : redis' = Append(Tail(redis), x) =>
              redis' \in Seq(Command) /\ Work' \subseteq Work \cup {x}
<1>1. redis \in Seq(Command)
  BY TypesSplit DEF TypeInv, ServerTypes
<1>2. /\ Head(redis) \in Command /\ Tail(redis) \in Seq(Command)
      /\ ToSet(redis) = {Head(redis)} \cup ToSet(Tail(redis))
  BY <1>1, HeadTail, SetTail
<1>3. ASSUME NEW x \in Command
      PROVE  /\ Append(Tail(redis), x) \in Seq(Command)
             /\ ToSet(Append(Tail(redis), x)) = ToSet(Tail(redis)) \cup {x}
  <2>1. /\ Append(Tail(redis), x) = Tail(redis) \o <<x>>
        /\ Append(Tail(redis), x) \in Seq(Command)
    BY <1>2, AppendConcat
  <2>2. ToSet(Tail(redis) \o <<x>>) = ToSet(Tail(redis)) \cup {x}
    BY <1>2, SetMore
  <2> QED BY <2>1, <2>2
<1> QED BY <1>2, <1>3 DEF Work


\* What a step of the server leaves for the type invariant.
ServerTyped ==
  /\ ServerTypes' /\ toPage' \in [Page -> Seq(ToPage)]
  /\ KnownWork' /\ KnownRooms' /\ KnownAnswers'
  /\ issued \subseteq issued'

LEMMA ServerTypesKnown ==
  ASSUME TypeInv
  PROVE  /\ ServerTypes /\ toPage \in [Page -> Seq(ToPage)]
         /\ KnownWork /\ KnownRooms /\ KnownAnswers
BY TypesSplit DEF TypeInv

LEMMA CommandMade ==
  ASSUME NEW op \in {"smembers", "sadd", "expire", "set", "get", "srem", "del", "remaining",
                     "delRoom"},
         NEW s \in Socket, NEW r \in RoomId \cup {None}, NEW S \in SUBSET Socket,
         NEW creating \in BOOLEAN
  PROVE  [op |-> op, socket |-> s, room |-> r, found |-> S, creating |-> creating] \in Command
BY DEF Command

LEMMA enterRoomTyped ==
  ASSUME TypeInv, NEW s \in Socket, NEW r \in RoomId, NEW creating \in BOOLEAN,
         enterRoom(s, r, creating), issued' \subseteq RoomId, issued \subseteq issued', r \in issued'
  PROVE  ServerTyped
<1>1. PICK x : x = [op |-> "smembers", socket |-> s, room |-> r, found |-> {},
                    creating |-> creating]
  OBVIOUS
<1>2. x \in Command /\ x.op = "smembers" /\ x.room = r
  BY <1>1, CommandMade
<1>3. /\ redis' = Append(redis, x) /\ UNCHANGED <<toPage, peers, roomOf, fileStats>>
      /\ members' = [members EXCEPT ![r] = @ \cup {s}]
  BY <1>1 DEF enterRoom, Issue, redisVars
<1>4. redis' \in Seq(Command) /\ Work' = Work \cup {x}
  BY <1>2, <1>3, Issued
<1>5. members' \in [RoomId -> SUBSET Socket]
  BY <1>3, ServerTypesKnown DEF ServerTypes
<1>6. ServerTypes' /\ toPage' \in [Page -> Seq(ToPage)]
  BY <1>3, <1>4, <1>5, ServerTypesKnown DEF ServerTypes
<1>7. KnownWork'
  BY <1>2, <1>4, ServerTypesKnown, FileRoomsAssumption DEF KnownWork
<1>8. KnownRooms' /\ KnownAnswers'
  BY <1>3, ServerTypesKnown DEF KnownRooms, KnownAnswers
<1> QED BY <1>6, <1>7, <1>8 DEF ServerTyped

LEMMA handleCreateRoomTyped ==
  ASSUME TypeInv, NEW s \in Socket, handleCreateRoom(s)
  PROVE  ServerTyped
<1>1. PICK r \in RoomId \ issued : issued' = issued \cup {r} /\ enterRoom(s, r, TRUE)
  BY DEF handleCreateRoom
<1> QED BY <1>1, enterRoomTyped, ServerTypesKnown DEF ServerTypes

LEMMA handleJoinRoomTyped ==
  ASSUME TypeInv, NEW s \in Socket, handleJoinRoom(s)
  PROVE  ServerTyped
<1>1. Request(s, "JOIN_ROOM") /\ enterRoom(s, Head(toServer[s]).room, FALSE) /\ issued' = issued
  BY DEF handleJoinRoom
<1>2. PICK m : m = Head(toServer[s])
  OBVIOUS
<1>3. m \in ToSet(toServer[s]) /\ m \in ToServer /\ m.type = "JOIN_ROOM"
  BY <1>1, <1>2, RequestTaken
<1>4. PICK r : r = m.room
  OBVIOUS
<1>5. r \in RoomId /\ r \in shared
  BY <1>3, <1>4, ToServerTypes DEF TypeInv, KnownRequests
<1>6. r \in issued
  BY <1>5, TypesSplit DEF TypeInv, PeerSignallingTypeOK
<1>7. enterRoom(s, r, FALSE)
  BY <1>1, <1>2, <1>4
<1>8. issued' \subseteq RoomId
  BY <1>1, ServerTypesKnown DEF ServerTypes
<1> QED BY <1>1, <1>5, <1>6, <1>7, <1>8, enterRoomTyped

LEMMA handleDisconnectTyped ==
  ASSUME TypeInv, NEW s \in Socket, handleDisconnect(s)
  PROVE  ServerTyped
<1>1. PICK x : x = [op |-> "get", socket |-> s, room |-> None, found |-> {}, creating |-> FALSE]
  OBVIOUS
<1>2. x \in Command /\ x.op = "get" /\ x.room = None
  BY <1>1, CommandMade
<1>3. /\ redis' = Append(redis, x) /\ UNCHANGED <<toPage, issued, peers, roomOf, fileStats>>
      /\ members' = [r \in RoomId |-> members[r] \ {s}]
  BY <1>1 DEF handleDisconnect, Issue, redisVars
<1>4. redis' \in Seq(Command) /\ Work' = Work \cup {x}
  BY <1>2, <1>3, Issued
<1>5. ServerTypes' /\ toPage' \in [Page -> Seq(ToPage)]
  BY <1>3, <1>4, ServerTypesKnown DEF ServerTypes
<1>6. KnownWork'
  BY <1>2, <1>3, <1>4, ServerTypesKnown DEF KnownWork
<1>7. KnownRooms' /\ KnownAnswers'
  BY <1>3, ServerTypesKnown DEF KnownRooms, KnownAnswers
<1> QED BY <1>3, <1>5, <1>6, <1>7 DEF ServerTyped

\* The dashboard's entry of a room.
LEMMA StatFields ==
  ASSUME NEW x \in FileRoomStat
  PROVE  x # None /\ x.peerCount \in Nat /\ x.connectionType \in ConnectionType
BY StatAssumption DEF FileRoomStat

LEMMA StatCounted ==
  ASSUME NEW x \in FileRoomStat, NEW n \in Nat, NEW y, y = [x EXCEPT !.peerCount = n]
  PROVE  y \in FileRoomStat /\ y # None /\ y.peerCount = n
BY StatAssumption DEF FileRoomStat

LEMMA StatConnected ==
  ASSUME NEW x \in FileRoomStat, NEW t \in ConnectionType, NEW y,
         y = [x EXCEPT !.connectionType = t]
  PROVE  y \in FileRoomStat /\ y # None /\ y.peerCount = x.peerCount
BY StatAssumption DEF FileRoomStat

LEMMA handleConnectionInfoTyped ==
  ASSUME TypeInv, NEW s \in Socket, handleConnectionInfo(s)
  PROVE  ServerTyped
<1>1. /\ Request(s, "CONNECTION_INFO")
      /\ UNCHANGED <<toPage, issued, members, peers, roomOf, redis>>
  BY DEF handleConnectionInfo, redisVars
<1>2. PICK m : m = Head(toServer[s])
  OBVIOUS
<1>3. m \in ToServer /\ m.type = "CONNECTION_INFO"
  BY <1>1, <1>2, RequestTaken
<1>4. PICK r \in RoomId, t \in ConnectionType : r = m.room /\ t = m.connectionType
  BY <1>3, ToServerTypes
<1>5. fileStats' = [fileStats EXCEPT ![r] =
         IF @ = None \/ (@.connectionType = "relay" /\ t # "relay") THEN @
         ELSE [@ EXCEPT !.connectionType = t]]
  BY <1>2, <1>4 DEF handleConnectionInfo
<1>6. fileStats \in [RoomId -> FileRoomStat \cup {None}]
  BY ServerTypesKnown DEF ServerTypes
<1>7. fileStats' \in [RoomId -> FileRoomStat \cup {None}]
  <2>1. fileStats[r] = None \/ [fileStats[r] EXCEPT !.connectionType = t] \in FileRoomStat
    BY <1>6, StatConnected
  <2> QED BY <1>5, <1>6, <2>1
<1>8. ServerTypes' /\ toPage' \in [Page -> Seq(ToPage)]
  BY <1>1, <1>7, ServerTypesKnown DEF ServerTypes
<1>9. KnownWork' /\ KnownRooms' /\ KnownAnswers'
  BY <1>1, ServerTypesKnown DEF KnownWork, KnownRooms, KnownAnswers, Work
<1> QED BY <1>1, <1>8, <1>9 DEF ServerTyped

LEMMA handleSignalTyped ==
  ASSUME TypeInv, NEW s \in Socket, handleSignal(s)
  PROVE  ServerTyped
<1>1. /\ UNCHANGED <<issued, members, peers, roomOf, redis, fileStats>>
      /\ Emit(To({Head(toServer[s]).peer}, [Head(toServer[s]) EXCEPT !.peer = s]))
  BY DEF handleSignal, roomVars, redisVars
<1>2. PICK m : m = Head(toServer[s])
  OBVIOUS
<1>3. m \in ToServer /\ m.type \in {"SDP_OFFER", "SDP_ANSWER", "ICE_CANDIDATE"}
  BY <1>2, RequestTaken DEF handleSignal
<1>4. PICK n : n = [m EXCEPT !.peer = s]
  OBVIOUS
<1>5. n \in Signal
  BY <1>3, <1>4, ToServerTypes, SignalTypes
<1>6. PICK sent : sent = To({m.peer}, n)
  OBVIOUS
<1>7. \A t \in DOMAIN sent : sent[t] = n
  BY <1>6 DEF To
<1>8. n \in ToPage /\ n.type # "ROOM_CREATED"
  BY <1>5, SignalTypes
<1>9. Emit(sent)
  BY <1>1, <1>2, <1>4, <1>6
<1>10. /\ toPage' \in [Page -> Seq(ToPage)]
       /\ \A p \in Page : ToSet(toPage'[p]) \subseteq ToSet(toPage[p]) \cup {n}
  BY <1>7, <1>8, <1>9, Emitted
<1>11. ServerTypes'
  BY <1>1, ServerTypesKnown DEF ServerTypes
<1>12. KnownWork' /\ KnownRooms'
  BY <1>1, ServerTypesKnown DEF KnownWork, KnownRooms, Work
<1>13. KnownAnswers'
  BY <1>1, <1>8, <1>10, ServerTypesKnown DEF KnownAnswers
<1> QED BY <1>1, <1>10, <1>11, <1>12, <1>13 DEF ServerTyped


LEMMA HeadKnown ==
  ASSUME TypeInv, redis # <<>>, NEW h, h = Head(redis)
  PROVE  /\ h \in Command /\ h \in Work
         /\ h.op = "get" <=> h.room = None
         /\ h.room \in issued \cup {None}
         /\ h.op # "get" => h.room \in RoomId /\ h.room \in issued
         /\ issued \subseteq RoomId
BY Replied, ServerTypesKnown DEF KnownWork, ServerTypes

\* The command of a handler that goes on.
LEMMA NextCommand ==
  ASSUME NEW h \in Command, NEW op \in {"smembers", "sadd", "expire", "set", "get", "srem", "del", "remaining",
                     "delRoom"},
         NEW x, x = [h EXCEPT !.op = op]
  PROVE  /\ x \in Command /\ x.op = op /\ x.socket = h.socket /\ x.room = h.room
         /\ x.found = h.found /\ x.creating = h.creating
BY DEF Command

LEMMA NextCommandFound ==
  ASSUME NEW h \in Command, NEW S \in SUBSET Socket,
         NEW x, x = [h EXCEPT !.op = "sadd", !.found = S]
  PROVE  /\ x \in Command /\ x.op = "sadd" /\ x.socket = h.socket /\ x.room = h.room
         /\ x.found = S /\ x.creating = h.creating
BY DEF Command

LEMMA NextCommandRoom ==
  ASSUME NEW h \in Command, NEW r \in RoomId, NEW x, x = [h EXCEPT !.room = r]
  PROVE  /\ x \in Command /\ x.op = h.op /\ x.socket = h.socket /\ x.room = r
         /\ x.found = h.found /\ x.creating = h.creating
BY DEF Command

\* A reply after which the handler has one more command, x.
LEMMA ContinuedTyped ==
  ASSUME TypeInv, redis # <<>>, NEW x \in Command, redis' = Append(Tail(redis), x),
         x.op # "get", x.room \in issued, UNCHANGED <<issued, members, toPage, fileStats>>,
         peers' \in [RoomId -> SUBSET Socket],
         \A s \in Socket : roomOf'[s] \in {roomOf[s], None},
         roomOf' \in [Socket -> RoomId \cup {None}]
  PROVE  ServerTyped
<1>1. redis' \in Seq(Command) /\ Work' \subseteq Work \cup {x}
  BY Replied
<1>2. ServerTypes' /\ toPage' \in [Page -> Seq(ToPage)]
  BY <1>1, ServerTypesKnown DEF ServerTypes
<1>3. KnownWork'
  <2>1. x.room # None
    BY FileRoomsAssumption, ServerTypesKnown DEF ServerTypes
  <2> QED BY <1>1, <2>1, ServerTypesKnown DEF KnownWork
<1>4. KnownRooms' /\ KnownAnswers'
  BY ServerTypesKnown DEF KnownRooms, KnownAnswers
<1> QED BY <1>2, <1>3, <1>4 DEF ServerTyped

\* A reply after which the handler is over.
LEMMA ReturnedTyped ==
  ASSUME TypeInv, redis # <<>>, redis' = Tail(redis), UNCHANGED <<issued, members>>,
         peers' \in [RoomId -> SUBSET Socket],
         roomOf' \in [Socket -> RoomId \cup {None}],
         \A s \in Socket : roomOf'[s] \in issued \cup {None},
         fileStats' \in [RoomId -> FileRoomStat \cup {None}],
         NEW sent, Emit(sent),
         \A s \in DOMAIN sent :
           /\ sent[s] \in ToPage
           /\ sent[s].type = "ROOM_CREATED" => sent[s].room \in issued
  PROVE  ServerTyped
<1>1. redis' \in Seq(Command) /\ Work' \subseteq Work
  BY Replied
<1>2. /\ toPage' \in [Page -> Seq(ToPage)]
      /\ \A p \in Page :
           \/ toPage'[p] = toPage[p]
           \/ /\ SocketOf(p) \in DOMAIN sent
              /\ ToSet(toPage'[p]) = ToSet(toPage[p]) \cup {sent[SocketOf(p)]}
  BY Emitted
<1>3. ServerTypes'
  BY <1>1, ServerTypesKnown DEF ServerTypes
<1>4. KnownWork' /\ KnownRooms'
  BY <1>1, ServerTypesKnown DEF KnownWork, KnownRooms
<1>5. KnownAnswers'
  BY <1>2, ServerTypesKnown DEF KnownAnswers
<1> QED BY <1>2, <1>3, <1>4, <1>5 DEF ServerTyped

LEMMA PeerCountType ==
  ASSUME NEW r \in RoomId, NEW n \in Nat, fileStats \in [RoomId -> FileRoomStat \cup {None}],
         setFileRoomPeerCount(r, n)
  PROVE  /\ fileStats' \in [RoomId -> FileRoomStat \cup {None}]
         /\ fileStats'[r] = None <=> n = 0
         /\ n # 0 => fileStats'[r].peerCount = n
         /\ \A q \in RoomId \ {r} : fileStats'[q] = fileStats[q]
<1>1. [peerCount |-> n, connectionType |-> "unknown"] \in FileRoomStat
  BY DEF FileRoomStat, ConnectionType
<1>2. /\ n = 0 => fileStats'[r] = None
      /\ n # 0 /\ fileStats[r] = None =>
           fileStats'[r] = [peerCount |-> n, connectionType |-> "unknown"]
      /\ n # 0 /\ fileStats[r] # None => fileStats'[r] = [fileStats[r] EXCEPT !.peerCount = n]
      /\ \A q \in RoomId \ {r} : fileStats'[q] = fileStats[q]
      /\ DOMAIN fileStats' = RoomId
      /\ fileStats' = [q \in RoomId |-> fileStats'[q]]
  BY DEF setFileRoomPeerCount
<1>3. fileStats'[r] \in FileRoomStat \cup {None} /\ (fileStats'[r] = None <=> n = 0)
      /\ (n # 0 => fileStats'[r].peerCount = n)
  <2>1. CASE n = 0
    BY <1>2, <2>1
  <2>2. CASE n # 0 /\ fileStats[r] = None
    BY <1>1, <1>2, <2>2, StatFields
  <2>3. CASE n # 0 /\ fileStats[r] # None
    <3>1. PICK x \in FileRoomStat : x = fileStats[r]
      BY <2>3
    <3>2. PICK y : y = [x EXCEPT !.peerCount = n]
      OBVIOUS
    <3> QED BY <1>2, <2>3, <3>1, <3>2, StatCounted
  <2> QED BY <2>1, <2>2, <2>3
<1> QED BY <1>2, <1>3


\* The answers of a join or creation.
PeerAddedMessages(h) ==
  IF h.creating THEN To({h.socket}, [type |-> "ROOM_CREATED", room |-> h.room])
  ELSE [s \in members[h.room] \cup {h.socket} |->
         IF s = h.socket THEN [type |-> "room-users", peers |-> h.found]
         ELSE [type |-> "PEER_JOINED", peer |-> h.socket]]

LEMMA peerAddedTyped ==
  ASSUME TypeInv, NEW h \in Command, h.room \in RoomId, peerAdded(h)
  PROVE  /\ fileStats' \in [RoomId -> FileRoomStat \cup {None}]
         /\ Emit(PeerAddedMessages(h))
         /\ \A s \in DOMAIN PeerAddedMessages(h) :
              /\ PeerAddedMessages(h)[s] \in ToPage
              /\ PeerAddedMessages(h)[s].type = "ROOM_CREATED" =>
                   h.creating /\ PeerAddedMessages(h)[s].room = h.room
<1>1. /\ fileStats \in [RoomId -> FileRoomStat \cup {None}]
      /\ members \in [RoomId -> SUBSET Socket]
      /\ h.found \in SUBSET Socket /\ h.socket \in Socket
      /\ Cardinality(h.found) \in Nat
  BY ServerTypesKnown, CommandFields, SocketSets DEF ServerTypes
<1>2. CASE h.creating
  <2>1. setFileRoomPeerCount(h.room, 1) /\ Emit(PeerAddedMessages(h))
    BY <1>2 DEF peerAdded, PeerAddedMessages
  <2>2. PICK m : m = [type |-> "ROOM_CREATED", room |-> h.room]
    OBVIOUS
  <2>3. m \in ToPage /\ m.room = h.room
    BY <2>2, MessagesMade
  <2>4. PeerAddedMessages(h) = [s \in {h.socket} |-> m]
    BY <1>2, <2>2 DEF PeerAddedMessages, To
  <2> QED BY <1>1, <1>2, <2>1, <2>3, <2>4, PeerCountType
<1>3. CASE ~h.creating
  <2>1. setFileRoomPeerCount(h.room, Cardinality(h.found) + 1) /\ Emit(PeerAddedMessages(h))
    BY <1>3 DEF peerAdded, PeerAddedMessages
  <2>2. Cardinality(h.found) + 1 \in Nat
    BY <1>1
  <2>3. PICK m, n : /\ m = [type |-> "room-users", peers |-> h.found]
                    /\ n = [type |-> "PEER_JOINED", peer |-> h.socket]
    OBVIOUS
  <2>4. m \in ToPage /\ n \in ToPage /\ m.type # "ROOM_CREATED" /\ n.type # "ROOM_CREATED"
    BY <1>1, <2>3, MessagesMade
  <2>5. PeerAddedMessages(h) =
          [s \in members[h.room] \cup {h.socket} |-> IF s = h.socket THEN m ELSE n]
    BY <1>3, <2>3 DEF PeerAddedMessages
  <2> QED BY <1>1, <2>1, <2>2, <2>4, <2>5, PeerCountType
<1> QED BY <1>2, <1>3

LEMMA peerRemovedTyped ==
  ASSUME TypeInv, NEW h \in Command, h.room \in RoomId, NEW S \in SUBSET Socket, peerRemoved(h, S)
  PROVE  /\ fileStats' \in [RoomId -> FileRoomStat \cup {None}]
         /\ \E sent : /\ Emit(sent)
                      /\ \A s \in DOMAIN sent :
                           sent[s] \in ToPage /\ sent[s].type = "LEAVE_ROOM"
<1>1. fileStats' \in [RoomId -> FileRoomStat \cup {None}]
  BY ServerTypesKnown, SocketSets, PeerCountType DEF peerRemoved, ServerTypes
<1>2. PICK m : m = [type |-> "LEAVE_ROOM", peer |-> h.socket]
  OBVIOUS
<1>3. m \in ToPage /\ m.type = "LEAVE_ROOM"
  BY <1>2, MessagesMade, CommandFields
<1>4. PICK sent : sent = [s \in members[h.room] |-> m]
  OBVIOUS
<1>5. Emit(sent)
  BY <1>2, <1>4 DEF peerRemoved, To
<1> QED BY <1>1, <1>3, <1>4, <1>5

LEMMA addPeerToRoomTyped ==
  ASSUME TypeInv, redisReplies, NEW h, h = Head(redis), addPeerToRoom(h)
  PROVE  ServerTyped
<1>1. /\ redis # <<>> /\ UNCHANGED <<issued, members>>
      /\ h \in Command /\ h \in Work /\ (h.op # "get" => h.room \in RoomId /\ h.room \in issued)
  BY HeadKnown DEF redisReplies
<1>2. /\ peers \in [RoomId -> SUBSET Socket] /\ roomOf \in [Socket -> RoomId \cup {None}]
      /\ h.socket \in Socket
  BY <1>1, ServerTypesKnown, CommandFields DEF ServerTypes
<1>3. CASE h.op = "smembers"
  <2>1. PICK S \in SUBSET Socket : S = peers[h.room] \ {h.socket}
    BY <1>1, <1>2, <1>3
  <2>2. PICK x : x = [h EXCEPT !.op = "sadd", !.found = S]
    OBVIOUS
  <2>4. x \in Command /\ x.op = "sadd" /\ x.room = h.room
    BY <1>1, <2>2 DEF Command
  <2>3. /\ redis' = Append(Tail(redis), x)
        /\ UNCHANGED <<toPage, peers, roomOf, fileStats>>
    BY <1>3, <2>1, <2>2 DEF addPeerToRoom, redisVars
  <2> QED BY <1>1, <1>2, <1>3, <2>3, <2>4, ContinuedTyped
<1>4. CASE h.op = "sadd"
  <2>1. PICK x : x = [h EXCEPT !.op = "expire"]
    OBVIOUS
  <2>0. x \in Command /\ x.op = "expire" /\ x.room = h.room
    BY <1>1, <2>1, NextCommand
  <2>2. /\ redis' = Append(Tail(redis), x)
        /\ peers' = [peers EXCEPT ![h.room] = @ \cup {h.socket}]
        /\ UNCHANGED <<toPage, roomOf, fileStats>>
    BY <1>4, <2>1 DEF addPeerToRoom, Continue
  <2>3. peers' \in [RoomId -> SUBSET Socket]
    BY <1>1, <1>2, <1>4, <2>2
  <2> QED BY <1>1, <1>2, <1>4, <2>0, <2>2, <2>3, ContinuedTyped
<1>5. CASE h.op = "expire"
  <2>1. PICK x : x = [h EXCEPT !.op = "set"]
    OBVIOUS
  <2>0. x \in Command /\ x.op = "set" /\ x.room = h.room
    BY <1>1, <2>1, NextCommand
  <2>2. /\ redis' = Append(Tail(redis), x)
        /\ UNCHANGED <<toPage, peers, roomOf, fileStats>>
    BY <1>5, <2>1 DEF addPeerToRoom, Continue, redisVars
  <2> QED BY <1>1, <1>2, <1>5, <2>0, <2>2, ContinuedTyped
<1>6. CASE h.op = "set"
  <2>1. /\ redis' = Tail(redis) /\ peers' = peers /\ peerAdded(h)
        /\ roomOf' = [roomOf EXCEPT ![h.socket] = h.room]
    BY <1>6 DEF addPeerToRoom, Return
  <2>2. /\ roomOf' \in [Socket -> RoomId \cup {None}]
        /\ \A s \in Socket : roomOf'[s] \in issued \cup {None}
    BY <1>1, <1>2, <1>6, <2>1, ServerTypesKnown DEF KnownRooms
  <2>3. PICK sent : sent = PeerAddedMessages(h)
    OBVIOUS
  <2>4. /\ fileStats' \in [RoomId -> FileRoomStat \cup {None}]
        /\ Emit(sent)
        /\ \A s \in DOMAIN sent :
             /\ sent[s] \in ToPage
             /\ sent[s].type = "ROOM_CREATED" => sent[s].room \in issued
    BY <1>1, <1>6, <2>1, <2>3, peerAddedTyped
  <2> QED BY <1>1, <1>2, <2>1, <2>2, <2>4, ReturnedTyped
<1> QED BY <1>3, <1>4, <1>5, <1>6 DEF addPeerToRoom

LEMMA removePeerTyped ==
  ASSUME TypeInv, redisReplies, NEW h, h = Head(redis), removePeer(h)
  PROVE  ServerTyped
<1>1. /\ redis # <<>> /\ UNCHANGED <<issued, members>>
      /\ h \in Command /\ h \in Work /\ (h.op # "get" => h.room \in RoomId /\ h.room \in issued)
  BY HeadKnown DEF redisReplies
<1>2. /\ peers \in [RoomId -> SUBSET Socket] /\ roomOf \in [Socket -> RoomId \cup {None}]
      /\ h.socket \in Socket /\ (\A s \in Socket : roomOf[s] \in issued \cup {None})
      /\ fileStats \in [RoomId -> FileRoomStat \cup {None}] /\ issued \subseteq RoomId
  BY <1>1, ServerTypesKnown, CommandFields DEF ServerTypes, KnownRooms
<1>3. CASE h.op = "get" /\ roomOf[h.socket] = None
  <2>1. redis' = Tail(redis) /\ UNCHANGED <<toPage, peers, roomOf, fileStats>>
    BY <1>3 DEF removePeer, Return, redisVars
  <2>2. redis' \in Seq(Command) /\ Work' \subseteq Work
    BY <1>1, <2>1, Replied
  <2> QED BY <1>1, <2>1, <2>2, ServerTypesKnown
          DEF ServerTyped, ServerTypes, KnownWork, KnownRooms, KnownAnswers
<1>4. CASE h.op = "get" /\ roomOf[h.socket] # None
  <2>1. PICK r : r = roomOf[h.socket]
    OBVIOUS
  <2>2. r \in RoomId /\ r \in issued
    BY <1>2, <1>4, <2>1
  <2>3. PICK y, x : y = [h EXCEPT !.room = r] /\ x = [y EXCEPT !.op = "srem"]
    OBVIOUS
  <2>6. y \in Command /\ y.room = r
    BY <1>1, <2>2, <2>3, NextCommandRoom
  <2>4. x \in Command /\ x.op = "srem" /\ x.room = r
    BY <2>3, <2>6 DEF Command
  <2>5. redis' = Append(Tail(redis), x) /\ UNCHANGED <<toPage, peers, roomOf, fileStats>>
    BY <1>4, <2>1, <2>3, <2>4 DEF removePeer, Continue, redisVars
  <2> QED BY <1>1, <1>2, <2>2, <2>4, <2>5, ContinuedTyped
<1>5. CASE h.op = "srem"
  <2>1. PICK x : x = [h EXCEPT !.op = "del"]
    OBVIOUS
  <2>0. x \in Command /\ x.op = "del" /\ x.room = h.room
    BY <1>1, <2>1, NextCommand
  <2>2. /\ redis' = Append(Tail(redis), x)
        /\ peers' = [peers EXCEPT ![h.room] = @ \ {h.socket}]
        /\ UNCHANGED <<toPage, roomOf, fileStats>>
    BY <1>5, <2>1 DEF removePeer, Continue
  <2>3. peers' \in [RoomId -> SUBSET Socket]
    BY <1>1, <1>2, <1>5, <2>2
  <2> QED BY <1>1, <1>2, <1>5, <2>0, <2>2, <2>3, ContinuedTyped
<1>6. CASE h.op = "del"
  <2>1. PICK x : x = [h EXCEPT !.op = "remaining"]
    OBVIOUS
  <2>0. x \in Command /\ x.op = "remaining" /\ x.room = h.room
    BY <1>1, <2>1, NextCommand
  <2>2. /\ redis' = Append(Tail(redis), x)
        /\ roomOf' = [roomOf EXCEPT ![h.socket] = None]
        /\ UNCHANGED <<toPage, peers, fileStats>>
    BY <1>6, <2>1 DEF removePeer, Continue
  <2>3. roomOf' \in [Socket -> RoomId \cup {None}] /\ \A s \in Socket : roomOf'[s] \in {roomOf[s], None}
    BY <1>1, <1>2, <2>2
  <2> QED BY <1>1, <1>2, <1>6, <2>0, <2>2, <2>3, ContinuedTyped
<1>7. CASE h.op = "remaining" /\ peers[h.room] = {}
  <2>1. PICK x : x = [h EXCEPT !.op = "delRoom"]
    OBVIOUS
  <2>0. x \in Command /\ x.op = "delRoom" /\ x.room = h.room
    BY <1>1, <2>1, NextCommand
  <2>2. redis' = Append(Tail(redis), x) /\ UNCHANGED <<toPage, peers, roomOf, fileStats>>
    BY <1>7, <2>1 DEF removePeer, Continue, redisVars
  <2> QED BY <1>1, <1>2, <1>7, <2>0, <2>2, ContinuedTyped
<1>8. CASE h.op = "remaining" /\ peers[h.room] # {}
  <2>1. redis' = Tail(redis) /\ peerRemoved(h, peers[h.room]) /\ UNCHANGED <<peers, roomOf>>
    BY <1>8 DEF removePeer, Return, redisVars
  <2>2. peers[h.room] \in SUBSET Socket
    BY <1>1, <1>2, <1>8
  <2>3. /\ fileStats' \in [RoomId -> FileRoomStat \cup {None}]
        /\ \E sent : /\ Emit(sent)
                     /\ \A s \in DOMAIN sent :
                          sent[s] \in ToPage /\ sent[s].type = "LEAVE_ROOM"
    BY <1>1, <1>8, <2>1, <2>2, peerRemovedTyped
  <2> QED BY <1>1, <1>2, <2>1, <2>3, ReturnedTyped
<1>9. CASE h.op = "delRoom"
  <2>1. /\ redis' = Tail(redis) /\ peerRemoved(h, {}) /\ roomOf' = roomOf
        /\ peers' = [peers EXCEPT ![h.room] = {}]
    BY <1>9 DEF removePeer, Return
  <2>2. /\ fileStats' \in [RoomId -> FileRoomStat \cup {None}]
        /\ \E sent : /\ Emit(sent)
                     /\ \A s \in DOMAIN sent :
                          sent[s] \in ToPage /\ sent[s].type = "LEAVE_ROOM"
    BY <1>1, <1>9, <2>1, peerRemovedTyped
  <2>3. peers' \in [RoomId -> SUBSET Socket]
    BY <1>2, <2>1
  <2> QED BY <1>1, <1>2, <2>1, <2>2, <2>3, ReturnedTyped
<1> QED BY <1>3, <1>4, <1>5, <1>6, <1>7, <1>8, <1>9 DEF removePeer


\* After a step of the server.
LEMMA ServerKeepsTypes ==
  ASSUME TypeInv, ServerTyped, UNCHANGED <<connection, sessionVars>>,
         toServer' \in [Socket -> Seq(ToServer)],
         \A s \in Socket : ToSet(toServer'[s]) \subseteq ToSet(toServer[s]),
         HistoryTypes'
  PROVE  TypeInv'
<1>1. \A p \in Page : SocketOf(p)' \in Socket
  BY TypesSplit DEF TypeInv, SocketOf
<1>2. PeerSignallingTypeOK'
  BY TypesSplit DEF TypeInv, PeerSignallingTypeOK, sessionVars, ServerTyped
<1>3. KnownRequests'
  BY DEF TypeInv, KnownRequests, sessionVars
<1>4. connection' \in [Page -> Nat \ {0}]
  BY DEF TypeInv
<1>5. TypeOK'
  BY <1>1, <1>2 DEF TypeOK, FileRoomsTypeOK, ServerTypes, HistoryTypes, ServerTyped
<1> QED BY <1>3, <1>4, <1>5 DEF TypeInv, ServerTyped

LEMMA HandlerRequest ==
  ASSUME NEW s \in Socket, Handler(s)
  PROVE  \E type : Request(s, type)
BY DEF Handler, handleCreateRoom, handleJoinRoom, handleDisconnect, handleConnectionInfo,
       handleSignal

LEMMA ServerStepTypes ==
  ASSUME TypeInv, NEW s \in Socket, ServerStep(s)
  PROVE  TypeInv'
<1>1. ServerTyped
  BY handleCreateRoomTyped, handleJoinRoomTyped, handleConnectionInfoTyped, handleSignalTyped,
     handleDisconnectTyped DEF ServerStep, Handler
<1>2. PICK type : Request(s, type)
  BY HandlerRequest DEF ServerStep
<1>3. ASSUME NEW r \in RoomId, Cardinality(Entering(r)') > 1
      PROVE  Cardinality(AtWork(r)') > 1
  <2>1. redis' \in Seq(Command)
    BY <1>1 DEF ServerTyped, ServerTypes
  <2>2. PICK n \in Nat : n = Len(redis')
    BY <2>1
  <2>3. IsFiniteSet(1..n)
    BY <2>2, FS_Interval
  <2>4. Entering(r)' \subseteq AtWork(r)' /\ AtWork(r)' \subseteq 1..n
    BY <2>2 DEF Entering, AtWork
  <2>5. IsFiniteSet(AtWork(r)')
    BY <2>3, <2>4, FS_Subset
  <2>6. /\ Cardinality(Entering(r)') \in Nat /\ Cardinality(AtWork(r)') \in Nat
        /\ Cardinality(Entering(r)') <= Cardinality(AtWork(r)')
    BY <2>4, <2>5, FS_Subset, FS_CardinalityType
  <2> QED BY <1>3, <2>6
<1>4. HistoryTypes'
  BY <1>3, TypesSplit DEF ServerStep, HistoryTypes, TypeInv
<1>5. UNCHANGED sessionVars
  BY DEF ServerStep
<1> QED BY <1>1, <1>2, <1>4, <1>5, RequestTaken, ServerKeepsTypes

LEMMA ReplyTypes ==
  ASSUME TypeInv, Reply
  PROVE  TypeInv'
<1>1. PICK h : h = Head(redis)
  OBVIOUS
<1>2. redisReplies /\ redis # <<>> /\ UNCHANGED <<connection, toServer, sessionVars>>
  BY DEF Reply, redisReplies
<1>3. ServerTyped
  BY <1>1, <1>2, addPeerToRoomTyped, removePeerTyped DEF redisReplies
<1>4. ASSUME NEW i \in Missed(h)
      PROVE  redis[i].socket \in Socket /\ redis[i].room \in RoomId
  <2>1. i \in 2..Len(redis) /\ redis[i].op \in Joins
    BY <1>4 DEF Missed
  <2>2. redis \in Seq(Command) /\ KnownWork
    BY ServerTypesKnown DEF ServerTypes
  <2>3. redis[i] \in Command /\ redis[i] \in Work
    BY <2>1, <2>2 DEF Work, ToSet
  <2>4. redis[i].room # None
    BY <2>1, <2>2, <2>3 DEF KnownWork, Joins
  <2> QED BY <2>3, <2>4, CommandFields
<1>5. HistoryTypes'
  <2>1. /\ overtaken' = overtaken \cup {redis[i].socket : i \in Missed(h)}
        /\ contended' = contended \cup {redis[i].room : i \in Missed(h)}
        /\ UNCHANGED <<lapsed, crossed, severed>>
    BY <1>1 DEF Reply
  <2> QED BY <1>4, <2>1, TypesSplit DEF HistoryTypes, TypeInv
<1>6. toServer' \in [Socket -> Seq(ToServer)]
  BY <1>2, TypesSplit DEF TypeInv
<1> QED BY <1>2, <1>3, <1>5, <1>6, ServerKeepsTypes

LEMMA LapseTypes ==
  ASSUME TypeInv, Lapse
  PROVE  TypeInv'
<1>1. /\ UNCHANGED <<connection, toServer, toPage, issued, members, redis, fileStats, session,
                     shared, starts, overtaken, contended, crossed, severed>>
      /\ drops < MaxDrops /\ drops' = drops + 1 /\ lapsed' = TRUE
  BY DEF Lapse, lapse, socketVars
<1>2. /\ peers \in [RoomId -> SUBSET Socket] /\ roomOf \in [Socket -> RoomId \cup {None}]
  BY ServerTypesKnown DEF ServerTypes
<1>3. \/ \E r \in RoomId : peers' = [peers EXCEPT ![r] = {}] /\ roomOf' = roomOf
      \/ \E s \in Socket : roomOf' = [roomOf EXCEPT ![s] = None] /\ peers' = peers
  BY DEF Lapse, lapse
<1>4. /\ peers' \in [RoomId -> SUBSET Socket] /\ roomOf' \in [Socket -> RoomId \cup {None}]
      /\ \A s \in Socket : roomOf'[s] \in {roomOf[s], None}
  BY <1>2, <1>3
<1>5. ServerTypes'
  BY <1>1, <1>4, ServerTypesKnown DEF ServerTypes
<1>6. KnownWork' /\ KnownRooms' /\ KnownAnswers' /\ KnownRequests'
  BY <1>1, <1>4 DEF TypeInv, KnownWork, KnownRooms, KnownAnswers, KnownRequests, Work
<1>7. PeerSignallingTypeOK'
  BY <1>1, TypesSplit DEF TypeInv, PeerSignallingTypeOK
<1>8. HistoryTypes'
  BY <1>1, TypesSplit DEF TypeInv, HistoryTypes
<1>9. (\A p \in Page : SocketOf(p)' \in Socket) /\ connection' \in [Page -> Nat \ {0}]
  BY <1>1, TypesSplit DEF TypeInv, SocketOf
<1>10. TypeOK'
  BY <1>1, <1>5, <1>7, <1>8, <1>9, TypesSplit
     DEF TypeOK, FileRoomsTypeOK, ServerTypes, HistoryTypes, TypeInv
<1> QED BY <1>6, <1>9, <1>10 DEF TypeInv


-----------------------------------------------------------------------------
\* The pages.

WellFormed(x) ==
  /\ x \in Session
  /\ \A s \in Socket : x.pcs[s] # None => x.pcs[s].id <= x.made

LEMMA SessionsWellFormed ==
  ASSUME TypeInv, NEW p \in Page
  PROVE  session \in [Page -> Session] /\ WellFormed(session[p])
BY TypesSplit DEF TypeInv, PeerSignallingTypeOK, WellFormed

LEMMA SessionFields ==
  ASSUME NEW x \in Session
  PROVE  /\ x.room \in RoomId \cup {None} /\ x.made \in Nat
         /\ x.pcs \in [Socket -> PeerConnection \cup {None}]
         /\ x.candidates \in [Socket -> SUBSET Nat]
BY DEF Session

LEMMA SessionMade ==
  ASSUME NEW x, NEW room \in RoomId \cup {None},
         NEW pcs \in [Socket -> PeerConnection \cup {None}],
         NEW candidates \in [Socket -> SUBSET Nat], NEW made \in Nat,
         x = [room |-> room, pcs |-> pcs, candidates |-> candidates, made |-> made]
  PROVE  /\ x \in Session /\ x.room = room /\ x.pcs = pcs /\ x.candidates = candidates
         /\ x.made = made
BY DEF Session

LEMMA PcFields ==
  ASSUME NEW c \in PeerConnection
  PROVE  /\ c # None /\ c.id \in Nat \ {0} /\ c.local \in {"none", "offer", "answer"}
         /\ c.remote \in Nat /\ c.heard \in SUBSET Nat
         /\ c.awaits \in {"none", "offer", "setOffer", "setAnswer"}
         /\ c.ready \in BOOLEAN /\ c.open \in BOOLEAN
BY PeerConnectionAssumption DEF PeerConnection

\* One connection and its candidates are changed.
LEMMA PcChanged ==
  ASSUME NEW x, WellFormed(x), NEW s \in Socket, NEW c \in PeerConnection \cup {None},
         NEW S \in SUBSET Nat, NEW n \in Nat, x.made <= n, c # None => c.id <= n,
         NEW y, y = [room |-> x.room, pcs |-> [x.pcs EXCEPT ![s] = c],
                     candidates |-> [x.candidates EXCEPT ![s] = S], made |-> n]
  PROVE  WellFormed(y)
<1>1. x \in Session
  BY DEF WellFormed
<1>2. /\ x.room \in RoomId \cup {None} /\ x.made \in Nat
      /\ x.pcs \in [Socket -> PeerConnection \cup {None}]
      /\ x.candidates \in [Socket -> SUBSET Nat]
  BY <1>1, SessionFields
<1>3. PICK pcs, candidates : /\ pcs = [x.pcs EXCEPT ![s] = c]
                             /\ candidates = [x.candidates EXCEPT ![s] = S]
  OBVIOUS
<1>4. pcs \in [Socket -> PeerConnection \cup {None}] /\ candidates \in [Socket -> SUBSET Nat]
  BY <1>2, <1>3
<1>5. y \in Session /\ y.pcs = pcs /\ y.made = n
  <2>1. y = [room |-> x.room, pcs |-> pcs, candidates |-> candidates, made |-> n]
    BY <1>3
  <2> QED BY <1>2, <1>4, <2>1, SessionMade
<1>6. ASSUME NEW t \in Socket, y.pcs[t] # None
      PROVE  y.pcs[t].id <= y.made
  <2>1. CASE t = s
    BY <1>2, <1>3, <1>5, <1>6, <2>1
  <2>2. CASE t # s
    <3>1. y.pcs[t] = x.pcs[t] /\ x.pcs[t] \in PeerConnection
      BY <1>2, <1>3, <1>5, <1>6, <2>2
    <3>2. x.pcs[t].id <= x.made
      BY <1>6, <3>1 DEF WellFormed
    <3>3. PICK k \in Nat : k = x.pcs[t].id
      BY <3>1, PcFields
    <3> QED BY <1>2, <1>5, <3>1, <3>2, <3>3
  <2> QED BY <2>1, <2>2
<1> QED BY <1>5, <1>6 DEF WellFormed

LEMMA Became ==
  ASSUME TypeInv, NEW p \in Page, NEW x, WellFormed(x), Become(p, x)
  PROVE  /\ session' \in [Page -> Session] /\ session'[p] = x
         /\ \A q \in Page : WellFormed(session'[q])
<1>1. session \in [Page -> Session] /\ \A q \in Page : WellFormed(session[q])
  BY SessionsWellFormed, TypesSplit DEF TypeInv, PeerSignallingTypeOK
<1>2. session' = [session EXCEPT ![p] = x]
  BY DEF Become
<1>3. x \in Session
  BY DEF WellFormed
<1> QED BY <1>1, <1>2, <1>3

\* After a step of a page.
LEMMA PagesKeepTypes ==
  ASSUME TypeInv, UNCHANGED roomVars, HistoryTypes',
         connection' \in [Page -> Nat \ {0}], \A p \in Page : SocketOf(p)' \in Socket,
         toServer' \in [Socket -> Seq(ToServer)], toPage' \in [Page -> Seq(ToPage)],
         KnownRequests', KnownAnswers',
         session' \in [Page -> Session], \A p \in Page : WellFormed(session'[p]),
         shared' \subseteq issued, starts' \in [Socket -> Nat], drops' \in Nat
  PROVE  TypeInv'
<1>1. ServerTypes' /\ KnownWork' /\ KnownRooms'
  BY ServerTypesKnown DEF ServerTypes, KnownWork, KnownRooms, Work, roomVars, redisVars
<1>2. PeerSignallingTypeOK'
  BY DEF PeerSignallingTypeOK, WellFormed, roomVars
<1>3. TypeOK'
  BY <1>1, <1>2 DEF TypeOK, FileRoomsTypeOK, ServerTypes, HistoryTypes
<1> QED BY <1>1, <1>3 DEF TypeInv

\* A page sends from its current socket.
LEMMA Sent ==
  ASSUME TypeInv, NEW p \in Page, NEW ms \in Seq(ToServer), Send(p, ms)
  PROVE  /\ SocketOf(p) \in Socket
         /\ toServer' \in [Socket -> Seq(ToServer)]
         /\ toServer'[SocketOf(p)] = toServer[SocketOf(p)] \o ms
         /\ ToSet(toServer'[SocketOf(p)]) = ToSet(toServer[SocketOf(p)]) \cup ToSet(ms)
         /\ \A s \in Socket \ {SocketOf(p)} : toServer'[s] = toServer[s]
<1>1. toServer \in [Socket -> Seq(ToServer)] /\ SocketOf(p) \in Socket
  BY TypesSplit DEF TypeInv
<1>2. PICK s \in Socket : s = SocketOf(p)
  BY <1>1
<1>3. toServer' = [toServer EXCEPT ![s] = @ \o ms]
  BY <1>2 DEF Send
<1>4. /\ toServer[s] \o ms \in Seq(ToServer)
      /\ ToSet(toServer[s] \o ms) = ToSet(toServer[s]) \cup ToSet(ms)
  BY <1>1, SetConcat, ConcatElements
<1> QED BY <1>1, <1>2, <1>3, <1>4

\* A page takes the first message of its queue.
LEMMA Received ==
  ASSUME TypeInv, NEW p \in Page, NEW type, Receive(p, type)
  PROVE  /\ toPage[p] \in Seq(ToPage) /\ toPage[p] # <<>>
         /\ Head(toPage[p]) \in ToPage /\ Head(toPage[p]).type = type
         /\ Head(toPage[p]) \in ToSet(toPage[p])
         /\ toPage' \in [Page -> Seq(ToPage)]
         /\ \A q \in Page : ToSet(toPage'[q]) \subseteq ToSet(toPage[q])
<1>1. toPage \in [Page -> Seq(ToPage)]
  BY TypesSplit DEF TypeInv
<1>2. /\ toPage[p] \in Seq(ToPage) /\ toPage[p] # <<>> /\ Head(toPage[p]).type = type
      /\ toPage' = [toPage EXCEPT ![p] = Tail(@)]
  BY <1>1 DEF Receive
<1>3. /\ Head(toPage[p]) \in ToPage /\ Tail(toPage[p]) \in Seq(ToPage)
      /\ ToSet(toPage[p]) = {Head(toPage[p])} \cup ToSet(Tail(toPage[p]))
  BY <1>2, HeadTail, SetTail
<1> QED BY <1>1, <1>2, <1>3

\* A handler of a page leaves a session that is well formed.
LEMMA ReceivedTypes ==
  ASSUME TypeInv, NEW p \in Page, NEW type, Receive(p, type), UNCHANGED <<shared, historyVars>>,
         NEW x, WellFormed(x), Become(p, x)
  PROVE  TypeInv'
<1>1. /\ toPage' \in [Page -> Seq(ToPage)]
      /\ \A q \in Page : ToSet(toPage'[q]) \subseteq ToSet(toPage[q])
  BY Received
<1>2. UNCHANGED <<connection, toServer, roomVars, starts, drops>>
  BY DEF Receive
<1>3. session' \in [Page -> Session] /\ \A q \in Page : WellFormed(session'[q])
  BY Became
<1>4. HistoryTypes'
  BY TypesSplit DEF TypeInv, HistoryTypes, historyVars
<1>5. KnownRequests' /\ KnownAnswers'
  BY <1>1, <1>2 DEF TypeInv, KnownRequests, KnownAnswers, roomVars
<1>6. /\ connection' \in [Page -> Nat \ {0}] /\ (\A q \in Page : SocketOf(q)' \in Socket)
      /\ toServer' \in [Socket -> Seq(ToServer)]
      /\ shared' \subseteq issued /\ starts' \in [Socket -> Nat] /\ drops' \in Nat
  BY <1>2, TypesSplit DEF TypeInv, SocketOf, PeerSignallingTypeOK
<1> QED BY <1>1, <1>2, <1>3, <1>4, <1>5, <1>6, PagesKeepTypes


\* The changes that the handlers make to a session.
LEMMA ConnectionMade ==
  ASSUME NEW x, WellFormed(x)
  PROVE  /\ NewConnection(x) \in PeerConnection /\ NewConnection(x).id = x.made + 1
         /\ x.made \in Nat
BY SessionFields DEF WellFormed, NewConnection, PeerConnection

LEMMA createPeerConnectionFormed ==
  ASSUME NEW x, WellFormed(x), NEW s \in Socket, NEW y, y = createPeerConnection(x, s)
  PROVE  WellFormed(y) /\ y.pcs[s] \in PeerConnection
<1>1. PICK c \in PeerConnection, n \in Nat : c = NewConnection(x) /\ n = x.made + 1 /\ c.id = n
  BY ConnectionMade
<1>2. x \in Session
  BY DEF WellFormed
<1>3. y = [room |-> x.room, pcs |-> [x.pcs EXCEPT ![s] = c],
           candidates |-> [x.candidates EXCEPT ![s] = {}], made |-> n]
  BY <1>1, <1>2 DEF createPeerConnection, Session
<1>4. x.made \in Nat /\ x.pcs \in [Socket -> PeerConnection \cup {None}]
  BY <1>2, SessionFields
<1>5. x.made <= n
  BY <1>1, <1>4
<1>6. c # None => c.id <= n
  BY <1>1
<1>7. WellFormed(y)
  <2>1. PICK S \in SUBSET Nat : S = {}
    OBVIOUS
  <2> QED BY <1>1, <1>3, <1>5, <1>6, <2>1, PcChanged
<1> QED BY <1>3, <1>4, <1>7

LEMMA closePeerFormed ==
  ASSUME NEW x, WellFormed(x), NEW s \in Socket
  PROVE  WellFormed(closePeer(x, s))
<1>1. x \in Session
  BY DEF WellFormed
<1>2. PICK y : y = closePeer(x, s)
  OBVIOUS
<1>3. x.made \in Nat
  BY <1>1, SessionFields
<1>4. y = [room |-> x.room, pcs |-> [x.pcs EXCEPT ![s] = None],
           candidates |-> [x.candidates EXCEPT ![s] = {}], made |-> x.made]
  BY <1>1, <1>2 DEF closePeer, Session
<1> QED
  <2>1. PICK S \in SUBSET Nat : S = {}
    OBVIOUS
  <2>2. PICK c \in PeerConnection \cup {None} : c = None
    OBVIOUS
  <2>3. WellFormed(y)
    BY <1>3, <1>4, <2>1, <2>2, PcChanged
  <2> QED BY <1>2, <2>3

\* One connection goes on with the same number.
LEMMA PcGoesOn ==
  ASSUME NEW x, WellFormed(x), NEW s \in Socket, x.pcs[s] \in PeerConnection,
         NEW c \in PeerConnection, c.id = x.pcs[s].id, NEW S \in SUBSET Nat,
         NEW y, y = [room |-> x.room, pcs |-> [x.pcs EXCEPT ![s] = c],
                     candidates |-> [x.candidates EXCEPT ![s] = S], made |-> x.made]
  PROVE  WellFormed(y)
<1>1. x.made \in Nat /\ x.pcs[s].id <= x.made
  BY SessionFields, PcFields DEF WellFormed
<1>2. c.id <= x.made /\ x.made <= x.made
  BY <1>1
<1> QED BY <1>1, <1>2, PcChanged

LEMMA AwaitsFormed ==
  ASSUME NEW x, WellFormed(x), NEW s \in Socket, x.pcs[s] \in PeerConnection,
         NEW a \in {"none", "offer", "setOffer", "setAnswer"},
         NEW y, y = [x EXCEPT !.pcs[s].awaits = a]
  PROVE  WellFormed(y)
<1>1. PICK c : c = [x.pcs[s] EXCEPT !.awaits = a]
  OBVIOUS
<1>2. c \in PeerConnection /\ c.id = x.pcs[s].id
  BY <1>1 DEF PeerConnection
<1>3. x \in Session
  BY DEF WellFormed
<1>4. PICK S \in SUBSET Nat : S = x.candidates[s]
  BY <1>3, SessionFields
<1>5. y = [room |-> x.room, pcs |-> [x.pcs EXCEPT ![s] = c],
           candidates |-> [x.candidates EXCEPT ![s] = S], made |-> x.made]
  BY <1>1, <1>3, <1>4 DEF Session
<1> QED BY <1>2, <1>5, PcGoesOn

LEMMA RemoteFormed ==
  ASSUME NEW x, WellFormed(x), NEW s \in Socket, x.pcs[s] \in PeerConnection,
         NEW a \in {"setOffer", "setAnswer"}, NEW l \in {"none", "offer"}, NEW n \in Nat,
         NEW y, y = [x EXCEPT !.pcs[s].awaits = a, !.pcs[s].local = l, !.pcs[s].remote = n]
  PROVE  WellFormed(y)
<1>1. PICK c : c = [x.pcs[s] EXCEPT !.awaits = a, !.local = l, !.remote = n]
  OBVIOUS
<1>2. c \in PeerConnection /\ c.id = x.pcs[s].id
  BY <1>1 DEF PeerConnection
<1>3. x \in Session
  BY DEF WellFormed
<1>4. PICK S \in SUBSET Nat : S = x.candidates[s]
  BY <1>3, SessionFields
<1>5. y = [room |-> x.room, pcs |-> [x.pcs EXCEPT ![s] = c],
           candidates |-> [x.candidates EXCEPT ![s] = S], made |-> x.made]
  BY <1>1, <1>3, <1>4 DEF Session
<1>6. PICK z : z = y
  OBVIOUS
<1>7. z = [room |-> x.room, pcs |-> [x.pcs EXCEPT ![s] = c],
           candidates |-> [x.candidates EXCEPT ![s] = S], made |-> x.made]
  BY <1>5, <1>6
<1>8. WellFormed(z)
  BY <1>2, <1>7, PcGoesOn
<1> QED BY <1>6, <1>8

LEMMA HeardFormed ==
  ASSUME NEW x, WellFormed(x), NEW s \in Socket, x.pcs[s] \in PeerConnection, NEW n \in Nat,
         NEW y, y = [x EXCEPT !.pcs[s].heard = @ \cup {n}]
  PROVE  WellFormed(y)
<1>1. PICK c : c = [x.pcs[s] EXCEPT !.heard = @ \cup {n}]
  OBVIOUS
<1>2. c \in PeerConnection /\ c.id = x.pcs[s].id
  BY <1>1 DEF PeerConnection
<1>3. x \in Session
  BY DEF WellFormed
<1>4. PICK S \in SUBSET Nat : S = x.candidates[s]
  BY <1>3, SessionFields
<1>5. y = [room |-> x.room, pcs |-> [x.pcs EXCEPT ![s] = c],
           candidates |-> [x.candidates EXCEPT ![s] = S], made |-> x.made]
  BY <1>1, <1>3, <1>4 DEF Session
<1> QED BY <1>2, <1>5, PcGoesOn

LEMMA CandidateFormed ==
  ASSUME NEW x, WellFormed(x), NEW s \in Socket, NEW n \in Nat,
         NEW y, y = [x EXCEPT !.candidates[s] = @ \cup {n}]
  PROVE  WellFormed(y)
<1>1. x \in Session
  BY DEF WellFormed
<1>2. PICK S \in SUBSET Nat : S = x.candidates[s] \cup {n}
  BY <1>1, SessionFields
<1>3. PICK c \in PeerConnection \cup {None} : c = x.pcs[s]
  BY <1>1, SessionFields
<1>6. PICK m \in Nat : m = x.made
  BY <1>1, SessionFields
<1>4. y = [room |-> x.room, pcs |-> [x.pcs EXCEPT ![s] = c],
           candidates |-> [x.candidates EXCEPT ![s] = S], made |-> m]
  BY <1>1, <1>2, <1>3, <1>6 DEF Session
<1>5. x.made <= m /\ (c # None => c.id <= m)
  BY <1>1, <1>3, <1>6 DEF WellFormed
<1> QED BY <1>4, <1>5, PcChanged

LEMMA RoomFormed ==
  ASSUME NEW x, WellFormed(x), NEW r \in RoomId, NEW y, y = [x EXCEPT !.room = r]
  PROVE  WellFormed(y)
BY DEF WellFormed, Session

LEMMA OpenFormed ==
  ASSUME NEW x, WellFormed(x), NEW s \in Socket, x.pcs[s] \in PeerConnection, NEW b \in BOOLEAN,
         NEW y, y = [x EXCEPT !.pcs[s].open = b]
  PROVE  WellFormed(y)
<1>1. PICK c : c = [x.pcs[s] EXCEPT !.open = b]
  OBVIOUS
<1>2. c \in PeerConnection /\ c.id = x.pcs[s].id
  BY <1>1 DEF PeerConnection
<1>3. x \in Session
  BY DEF WellFormed
<1>4. PICK S \in SUBSET Nat : S = x.candidates[s]
  BY <1>3, SessionFields
<1>5. y = [room |-> x.room, pcs |-> [x.pcs EXCEPT ![s] = c],
           candidates |-> [x.candidates EXCEPT ![s] = S], made |-> x.made]
  BY <1>1, <1>3, <1>4 DEF Session
<1> QED BY <1>2, <1>5, PcGoesOn


LEMMA FreshFormed == WellFormed(Fresh)
<1>1. PICK pcs, candidates : /\ pcs = [s \in Socket |-> None]
                             /\ candidates = [s \in Socket |-> {}]
  OBVIOUS
<1>2. /\ pcs \in [Socket -> PeerConnection \cup {None}] /\ candidates \in [Socket -> SUBSET Nat]
      /\ \A s \in Socket : pcs[s] = None
  BY <1>1
<1>3. Fresh = [room |-> None, pcs |-> pcs, candidates |-> candidates, made |-> 0]
  BY <1>1 DEF Fresh
<1> QED BY <1>2, <1>3, SessionMade DEF WellFormed

LEMMA onRoomCreatedTypes ==
  ASSUME TypeInv, NEW p \in Page, onRoomCreated(p), UNCHANGED historyVars
  PROVE  TypeInv'
<1>1. Receive(p, "ROOM_CREATED")
  BY DEF onRoomCreated
<1>2. PICK m : m = Head(toPage[p])
  OBVIOUS
<1>3. m \in ToPage /\ m \in ToSet(toPage[p]) /\ m.type = "ROOM_CREATED"
  BY <1>1, <1>2, Received
<1>4. PICK r : r = m.room
  OBVIOUS
<1>5. r \in RoomId /\ r \in issued
  BY <1>3, <1>4, ToPageTypes DEF TypeInv, KnownAnswers
<1>6. shared' = shared \cup {r} /\ Become(p, [session[p] EXCEPT !.room = r])
  BY <1>2, <1>4 DEF onRoomCreated
<1>7. PICK x : x = [session[p] EXCEPT !.room = r]
  OBVIOUS
<1>8. WellFormed(x)
  BY <1>5, <1>7, RoomFormed, SessionsWellFormed
<1>9. session' \in [Page -> Session] /\ \A q \in Page : WellFormed(session'[q])
  BY <1>6, <1>7, <1>8, Became
<1>10. /\ toPage' \in [Page -> Seq(ToPage)]
       /\ \A q \in Page : ToSet(toPage'[q]) \subseteq ToSet(toPage[q])
       /\ UNCHANGED <<connection, toServer, roomVars, starts, drops>>
  BY <1>1, Received DEF Receive
<1>11. HistoryTypes'
  BY TypesSplit DEF TypeInv, HistoryTypes, historyVars
<1>12. KnownRequests' /\ KnownAnswers'
  BY <1>6, <1>10 DEF TypeInv, KnownRequests, KnownAnswers, roomVars
<1>13. /\ connection' \in [Page -> Nat \ {0}] /\ (\A q \in Page : SocketOf(q)' \in Socket)
       /\ toServer' \in [Socket -> Seq(ToServer)]
       /\ shared' \subseteq issued /\ starts' \in [Socket -> Nat] /\ drops' \in Nat
  BY <1>5, <1>6, <1>10, TypesSplit DEF TypeInv, SocketOf, PeerSignallingTypeOK
<1> QED BY <1>9, <1>10, <1>11, <1>12, <1>13, PagesKeepTypes

LEMMA onPeerJoinedTypes ==
  ASSUME TypeInv, NEW p \in Page, onPeerJoined(p), UNCHANGED historyVars
  PROVE  TypeInv'
<1>1. Receive(p, "PEER_JOINED") /\ UNCHANGED shared
  BY DEF onPeerJoined
<1>2. PICK s \in Socket : s = Head(toPage[p]).peer
  BY <1>1, Received, ToPageTypes
<1>3. PICK x : x = createPeerConnection(session[p], s)
  OBVIOUS
<1>4. WellFormed(x) /\ x.pcs[s] \in PeerConnection
  BY <1>3, createPeerConnectionFormed, SessionsWellFormed
<1>5. PICK y : y = [x EXCEPT !.pcs[s].awaits = "offer"]
  OBVIOUS
<1>6. WellFormed(y)
  <2>1. PICK a \in {"none", "offer", "setOffer", "setAnswer"} : a = "offer"
    OBVIOUS
  <2> QED BY <1>4, <1>5, <2>1, AwaitsFormed
<1>7. Become(p, y)
  BY <1>2, <1>3, <1>5 DEF onPeerJoined
<1> QED BY <1>1, <1>6, <1>7, ReceivedTypes

LEMMA onRoomUsersTypes ==
  ASSUME TypeInv, NEW p \in Page, onRoomUsers(p), UNCHANGED historyVars
  PROVE  TypeInv'
<1>1. Receive(p, "room-users") /\ UNCHANGED shared
  BY DEF onRoomUsers
<1>2. PICK new \in SUBSET Socket : new = {s \in Head(toPage[p]).peers : session[p].pcs[s] = None}
  BY <1>1, Received, ToPageTypes
<1>3. PICK k \in Nat : k = Cardinality(new)
  BY SocketSets
<1>4. PICK x : x = session[p]
  OBVIOUS
<1>5. /\ WellFormed(x) /\ x \in Session /\ x.made \in Nat /\ x.room \in RoomId \cup {None}
      /\ x.pcs \in [Socket -> PeerConnection \cup {None}]
      /\ x.candidates \in [Socket -> SUBSET Nat]
  BY <1>4, SessionsWellFormed, SessionFields DEF WellFormed
<1>6. PICK number \in [new -> 1..k] :
        Become(p, [x EXCEPT
           !.pcs = [s \in Socket |->
                      IF s \in new THEN [NewConnection(x) EXCEPT !.id = @ - 1 + number[s]]
                      ELSE @[s]],
           !.candidates = [s \in Socket |-> IF s \in new THEN {} ELSE @[s]],
           !.made = @ + k])
  BY <1>2, <1>3, <1>4 DEF onRoomUsers
<1>7. PICK made : made = [s \in new |-> [NewConnection(x) EXCEPT !.id = @ - 1 + number[s]]]
  OBVIOUS
<1>8. ASSUME NEW s \in new
      PROVE  made[s] \in PeerConnection /\ made[s].id <= x.made + k
  <2>1. PICK c \in PeerConnection : c = NewConnection(x) /\ c.id = x.made + 1
    BY <1>5, ConnectionMade
  <2>2. PICK n \in 1..k, m \in Nat : n = number[s] /\ m = x.made
    BY <1>5, <1>6
  <2>3. c.id - 1 + n = m + n /\ m + n \in Nat \ {0} /\ m + n <= x.made + k
    BY <2>1, <2>2
  <2>4. made[s] = [c EXCEPT !.id = m + n]
    BY <1>7, <2>1, <2>2, <2>3
  <2> QED BY <2>3, <2>4 DEF PeerConnection
<1>9. PICK pcs, candidates, total :
        /\ pcs = [s \in Socket |-> IF s \in new THEN made[s] ELSE x.pcs[s]]
        /\ candidates = [s \in Socket |-> IF s \in new THEN {} ELSE x.candidates[s]]
        /\ total = x.made + k
  OBVIOUS
<1>10. /\ pcs \in [Socket -> PeerConnection \cup {None}] /\ candidates \in [Socket -> SUBSET Nat]
       /\ total \in Nat
  BY <1>5, <1>8, <1>9
<1>11. PICK y : y = [room |-> x.room, pcs |-> pcs, candidates |-> candidates, made |-> total]
  OBVIOUS
<1>12. Become(p, y)
  <2>1. pcs = [s \in Socket |->
                 IF s \in new THEN [NewConnection(x) EXCEPT !.id = @ - 1 + number[s]]
                 ELSE x.pcs[s]]
    BY <1>7, <1>9
  <2>2. PICK z : z = [x EXCEPT !.pcs = pcs, !.candidates = candidates, !.made = total]
    OBVIOUS
  <2>3. z = [room |-> x.room, pcs |-> pcs, candidates |-> candidates, made |-> total]
    BY <1>5, <2>2 DEF Session
  <2>4. Become(p, z)
    BY <1>6, <1>9, <2>1, <2>2
  <2> QED BY <1>11, <2>3, <2>4
<1>13. y \in Session /\ y.pcs = pcs /\ y.made = total
  BY <1>5, <1>10, <1>11, SessionMade
<1>14. ASSUME NEW s \in Socket, pcs[s] # None
       PROVE  pcs[s].id <= total
  <2>1. CASE s \in new
    BY <1>8, <1>9, <2>1
  <2>2. CASE s \notin new
    <3>1. pcs[s] = x.pcs[s] /\ x.pcs[s] \in PeerConnection /\ x.pcs[s].id <= x.made
      BY <1>5, <1>9, <1>14, <2>2 DEF WellFormed
    <3>2. PICK i \in Nat : i = x.pcs[s].id
      BY <3>1, PcFields
    <3> QED BY <1>5, <1>9, <3>1, <3>2
  <2> QED BY <2>1, <2>2
<1>15. WellFormed(y)
  BY <1>13, <1>14 DEF WellFormed
<1> QED BY <1>1, <1>12, <1>15, ReceivedTypes

LEMMA SignalReceived ==
  ASSUME TypeInv, NEW p \in Page, NEW type \in {"SDP_OFFER", "SDP_ANSWER", "ICE_CANDIDATE"},
         Receive(p, type)
  PROVE  Head(toPage[p]).peer \in Socket /\ Head(toPage[p]).pc \in Nat
BY Received, ToPageTypes, SignalTypes

LEMMA onSdpOfferTypes ==
  ASSUME TypeInv, NEW p \in Page, onSdpOffer(p), UNCHANGED historyVars
  PROVE  TypeInv'
<1>1. Receive(p, "SDP_OFFER") /\ UNCHANGED shared
  BY DEF onSdpOffer
<1>2. PICK s \in Socket, n \in Nat : s = Head(toPage[p]).peer /\ n = Head(toPage[p]).pc
  BY <1>1, SignalReceived
<1>3. PICK x : x = IF session[p].pcs[s] = None THEN createPeerConnection(session[p], s)
                   ELSE session[p]
  OBVIOUS
<1>4. WellFormed(x) /\ x.pcs[s] \in PeerConnection
  <2>1. WellFormed(session[p]) /\ session[p].pcs[s] \in PeerConnection \cup {None}
    BY SessionsWellFormed, SessionFields DEF WellFormed
  <2> QED BY <1>3, <2>1, createPeerConnectionFormed
<1>5. PICK y : y = [x EXCEPT !.pcs[s].awaits = "setOffer", !.pcs[s].local = "none",
                             !.pcs[s].remote = n]
  OBVIOUS
<1>6. WellFormed(y)
  <2>1. PICK a \in {"setOffer", "setAnswer"}, l \in {"none", "offer"} : a = "setOffer" /\ l = "none"
    OBVIOUS
  <2> QED BY <1>4, <1>5, <2>1, RemoteFormed
<1>7. Become(p, y)
  BY <1>2, <1>3, <1>5 DEF onSdpOffer
<1> QED BY <1>1, <1>6, <1>7, ReceivedTypes

LEMMA UnchangedSession ==
  ASSUME TypeInv, NEW p \in Page, UNCHANGED session
  PROVE  Become(p, session[p]) /\ WellFormed(session[p])
<1>1. session \in [Page -> Session] /\ WellFormed(session[p])
  BY SessionsWellFormed
<1> QED BY <1>1 DEF Become

LEMMA onSdpAnswerTypes ==
  ASSUME TypeInv, NEW p \in Page, onSdpAnswer(p), UNCHANGED historyVars
  PROVE  TypeInv'
<1>1. Receive(p, "SDP_ANSWER") /\ UNCHANGED shared
  BY DEF onSdpAnswer
<1>2. PICK s \in Socket, n \in Nat : s = Head(toPage[p]).peer /\ n = Head(toPage[p]).pc
  BY <1>1, SignalReceived
<1>3. PICK x : x = session[p]
  OBVIOUS
<1>4. WellFormed(x) /\ x.pcs[s] \in PeerConnection \cup {None} /\ x \in Session
  BY <1>3, SessionsWellFormed, SessionFields DEF WellFormed
<1>5. PICK y : y = [x EXCEPT !.pcs[s].awaits = "setAnswer", !.pcs[s].remote = n]
  OBVIOUS
<1>6. CASE /\ x.pcs[s] # None /\ x.pcs[s].local = "offer"
           /\ Become(p, y)
  <2>1. PICK a \in {"setOffer", "setAnswer"}, l \in {"none", "offer"} :
          a = "setAnswer" /\ l = "offer"
    OBVIOUS
  <2>2. PICK c : c = [x.pcs[s] EXCEPT !.awaits = "setAnswer", !.remote = n]
    OBVIOUS
  <2>3. x.pcs[s] \in PeerConnection
    BY <1>4, <1>6
  <2>4. c = [x.pcs[s] EXCEPT !.awaits = a, !.local = l, !.remote = n]
    BY <1>6, <2>1, <2>2, <2>3 DEF PeerConnection
  <2>5. y = [x EXCEPT !.pcs = [x.pcs EXCEPT ![s] = c]]
    BY <1>4, <1>5, <2>2 DEF Session
  <2>6. y = [x EXCEPT !.pcs[s].awaits = a, !.pcs[s].local = l, !.pcs[s].remote = n]
    BY <1>4, <2>4, <2>5 DEF Session
  <2>7. WellFormed(y)
    BY <1>4, <2>3, <2>6, RemoteFormed
  <2> QED BY <1>1, <1>6, <2>7, ReceivedTypes
<1>7. CASE UNCHANGED session
  BY <1>1, <1>7, UnchangedSession, ReceivedTypes
<1>8. \/ x.pcs[s] # None /\ x.pcs[s].local = "offer" /\ Become(p, y)
      \/ UNCHANGED session
  BY <1>2, <1>3, <1>5 DEF onSdpAnswer
<1> QED BY <1>6, <1>7, <1>8

LEMMA onIceCandidateTypes ==
  ASSUME TypeInv, NEW p \in Page, onIceCandidate(p), UNCHANGED historyVars
  PROVE  TypeInv'
<1>1. Receive(p, "ICE_CANDIDATE") /\ UNCHANGED shared
  BY DEF onIceCandidate
<1>2. PICK s \in Socket, n \in Nat : s = Head(toPage[p]).peer /\ n = Head(toPage[p]).pc
  BY <1>1, SignalReceived
<1>3. PICK x : x = session[p]
  OBVIOUS
<1>4. WellFormed(x) /\ x.pcs[s] \in PeerConnection \cup {None}
  BY <1>3, SessionsWellFormed, SessionFields DEF WellFormed
<1>5. PICK y, z : /\ y = [x EXCEPT !.pcs[s].heard = @ \cup {n}]
                  /\ z = [x EXCEPT !.candidates[s] = @ \cup {n}]
  OBVIOUS
<1>6. x.pcs[s] # None => WellFormed(y)
  BY <1>4, <1>5, HeardFormed
<1>7. WellFormed(z)
  BY <1>4, <1>5, CandidateFormed
<1>8. \/ x.pcs[s] # None /\ Become(p, y)
      \/ Become(p, z)
  BY <1>2, <1>3, <1>5 DEF onIceCandidate
<1> QED BY <1>1, <1>6, <1>7, <1>8, ReceivedTypes

LEMMA onLeaveRoomTypes ==
  ASSUME TypeInv, NEW p \in Page, onLeaveRoom(p), UNCHANGED historyVars
  PROVE  TypeInv'
<1>1. Receive(p, "LEAVE_ROOM") /\ UNCHANGED shared
  BY DEF onLeaveRoom
<1>2. PICK s \in Socket : s = Head(toPage[p]).peer
  BY <1>1, Received, ToPageTypes
<1>3. PICK x : x = closePeer(session[p], s)
  OBVIOUS
<1>4. WellFormed(x)
  BY <1>3, closePeerFormed, SessionsWellFormed
<1>5. Become(p, x)
  BY <1>2, <1>3 DEF onLeaveRoom
<1> QED BY <1>1, <1>4, <1>5, ReceivedTypes


\* A page sends messages and changes its session.
LEMMA SentTypes ==
  ASSUME TypeInv, NEW p \in Page, NEW ms \in Seq(ToServer), Send(p, ms),
         \A m \in ToSet(ms) : m.type = "JOIN_ROOM" => m.room \in shared,
         NEW x, WellFormed(x), Become(p, x),
         UNCHANGED <<connection, toPage, roomVars, shared, drops, historyVars>>,
         starts' \in [Socket -> Nat]
  PROVE  TypeInv'
<1>1. /\ toServer' \in [Socket -> Seq(ToServer)] /\ SocketOf(p) \in Socket
      /\ ToSet(toServer'[SocketOf(p)]) = ToSet(toServer[SocketOf(p)]) \cup ToSet(ms)
      /\ \A s \in Socket \ {SocketOf(p)} : toServer'[s] = toServer[s]
  BY Sent
<1>2. session' \in [Page -> Session] /\ \A q \in Page : WellFormed(session'[q])
  BY Became
<1>3. HistoryTypes'
  BY TypesSplit DEF TypeInv, HistoryTypes, historyVars
<1>4. KnownRequests'
  BY <1>1 DEF TypeInv, KnownRequests
<1>5. KnownAnswers'
  BY DEF TypeInv, KnownAnswers, roomVars
<1>6. /\ connection' \in [Page -> Nat \ {0}] /\ (\A q \in Page : SocketOf(q)' \in Socket)
      /\ toPage' \in [Page -> Seq(ToPage)] /\ shared' \subseteq issued /\ drops' \in Nat
  BY TypesSplit DEF TypeInv, SocketOf, PeerSignallingTypeOK
<1> QED BY <1>1, <1>2, <1>3, <1>4, <1>5, <1>6, PagesKeepTypes

LEMMA StartTypes ==
  ASSUME TypeInv, NEW p \in Page, NEW m \in ToServer, NEW x, WellFormed(x), Start(p, m, x),
         m.type = "JOIN_ROOM" => m.room \in shared, UNCHANGED historyVars
  PROVE  TypeInv'
<1>1. PICK ms : ms = <<m>>
  OBVIOUS
<1>2. ms \in Seq(ToServer) /\ ToSet(ms) = {m}
  BY <1>1, ShortSequences, SetOne
<1>3. /\ Send(p, ms) /\ Become(p, x) /\ UNCHANGED <<connection, toPage, roomVars, shared, drops>>
      /\ starts' = [starts EXCEPT ![SocketOf(p)] = @ + 1]
  BY <1>1 DEF Start
<1>4. starts' \in [Socket -> Nat]
  BY <1>3, TypesSplit DEF TypeInv, PeerSignallingTypeOK
<1> QED BY <1>2, <1>3, <1>4, SentTypes

LEMMA createRoomTypes ==
  ASSUME TypeInv, NEW p \in Page, createRoom(p), UNCHANGED historyVars
  PROVE  TypeInv'
<1>1. PICK m \in ToServer : m = [type |-> "CREATE_ROOM"]
  BY MessagesMade
<1>2. Start(p, m, session[p])
  BY <1>1 DEF createRoom
<1> QED BY <1>1, <1>2, SessionsWellFormed, StartTypes

LEMMA joinRoomTypes ==
  ASSUME TypeInv, NEW p \in Page, joinRoom(p), UNCHANGED historyVars
  PROVE  TypeInv'
<1>1. PICK r \in shared :
        Start(p, [type |-> "JOIN_ROOM", room |-> r], [session[p] EXCEPT !.room = r])
  BY DEF joinRoom
<1>2. r \in RoomId
  BY TypesSplit DEF TypeInv, PeerSignallingTypeOK, ServerTypes
<1>3. PICK m \in ToServer : m = [type |-> "JOIN_ROOM", room |-> r]
  BY <1>2, MessagesMade
<1>4. PICK x : x = [session[p] EXCEPT !.room = r]
  OBVIOUS
<1>5. WellFormed(x)
  BY <1>2, <1>4, RoomFormed, SessionsWellFormed
<1>6. Start(p, m, x) /\ m.room \in shared
  BY <1>1, <1>3, <1>4
<1> QED BY <1>5, <1>6, StartTypes

LEMMA DescribeMade ==
  ASSUME TypeInv, NEW p \in Page, NEW s \in Socket, session[p].pcs[s] \in PeerConnection,
         NEW type \in {"SDP_OFFER", "SDP_ANSWER"}, Describe(p, s, type)
  PROVE  \E ms \in Seq(ToServer) :
           /\ Send(p, ms)
           /\ \A m \in ToSet(ms) : m.type \in {"SDP_OFFER", "SDP_ANSWER", "ICE_CANDIDATE"}
<1>1. PICK k \in Nat : k = session[p].pcs[s].id
  BY PcFields
<1>2. PICK m, n : /\ m = [type |-> type, peer |-> s, pc |-> k]
                  /\ n = [type |-> "ICE_CANDIDATE", peer |-> s, pc |-> k]
  OBVIOUS
<1>3. m \in Signal /\ n \in Signal
  BY <1>2 DEF Signal
<1>4. m \in ToServer /\ n \in ToServer
  BY <1>3, SignalTypes
<1>5. PICK ms : ms = <<m, n>>
  OBVIOUS
<1>6. ms \in Seq(ToServer) /\ ToSet(ms) = {m, n}
  BY <1>4, <1>5 DEF ToSet
<1>7. Send(p, ms)
  BY <1>1, <1>2, <1>5 DEF Describe
<1>8. \A l \in ToSet(ms) : l.type \in {"SDP_OFFER", "SDP_ANSWER", "ICE_CANDIDATE"}
  BY <1>3, <1>6, SignalTypes
<1> QED BY <1>6, <1>7, <1>8

LEMMA drainedFormed ==
  ASSUME NEW x, WellFormed(x), NEW s \in Socket, x.pcs[s] \in PeerConnection,
         NEW l \in {"none", "offer", "answer"},
         NEW y, y = [drained(x, s) EXCEPT !.pcs[s].local = l]
  PROVE  WellFormed(y)
<1>1. x \in Session
  BY DEF WellFormed
<1>2. PICK c : c = [x.pcs[s] EXCEPT !.heard = @ \cup x.candidates[s], !.ready = TRUE,
                                    !.awaits = "none", !.local = l]
  OBVIOUS
<1>3. c \in PeerConnection /\ c.id = x.pcs[s].id
  BY <1>1, <1>2, SessionFields DEF PeerConnection
<1>4. PICK S \in SUBSET Nat : S = {}
  OBVIOUS
<1>5. y = [room |-> x.room, pcs |-> [x.pcs EXCEPT ![s] = c],
           candidates |-> [x.candidates EXCEPT ![s] = S], made |-> x.made]
  BY <1>1, <1>2, <1>4 DEF drained, Session
<1>6. PICK z : z = y
  OBVIOUS
<1>7. z = [room |-> x.room, pcs |-> [x.pcs EXCEPT ![s] = c],
           candidates |-> [x.candidates EXCEPT ![s] = S], made |-> x.made]
  BY <1>5, <1>6
<1>8. WellFormed(z)
  BY <1>3, <1>7, PcGoesOn
<1> QED BY <1>6, <1>8

LEMMA describedTypes ==
  ASSUME TypeInv, NEW p \in Page, NEW s \in Socket, described(p, s), UNCHANGED historyVars
  PROVE  TypeInv'
<1>1. PICK x : x = session[p]
  OBVIOUS
<1>2. WellFormed(x) /\ x.pcs[s] \in PeerConnection /\ x \in Session
  BY <1>1, SessionsWellFormed, SessionFields DEF described, WellFormed
<1>3. UNCHANGED <<connection, toPage, roomVars, shared, starts, drops>>
  BY DEF described
<1>4. starts' \in [Socket -> Nat]
  BY <1>3, TypesSplit DEF TypeInv, PeerSignallingTypeOK
<1>5. PICK y : y = [x EXCEPT !.pcs[s].awaits = "none", !.pcs[s].local = "offer"]
  OBVIOUS
<1>6. WellFormed(y)
  <2>1. PICK c : c = [x.pcs[s] EXCEPT !.awaits = "none", !.local = "offer"]
    OBVIOUS
  <2>2. c \in PeerConnection /\ c.id = x.pcs[s].id
    BY <1>2, <2>1 DEF PeerConnection
  <2>3. PICK S \in SUBSET Nat : S = x.candidates[s]
    BY <1>2, SessionFields
  <2>4. y = [room |-> x.room, pcs |-> [x.pcs EXCEPT ![s] = c],
             candidates |-> [x.candidates EXCEPT ![s] = S], made |-> x.made]
    BY <1>2, <1>5, <2>1, <2>3 DEF Session
  <2>5. PICK z : z = y
    OBVIOUS
  <2>6. z = [room |-> x.room, pcs |-> [x.pcs EXCEPT ![s] = c],
             candidates |-> [x.candidates EXCEPT ![s] = S], made |-> x.made]
    BY <2>4, <2>5
  <2>7. WellFormed(z)
    BY <1>2, <2>2, <2>6, PcGoesOn
  <2> QED BY <2>5, <2>7
<1>7. PICK z, w : /\ z = [drained(x, s) EXCEPT !.pcs[s].local = "answer"]
                  /\ w = drained(x, s)
  OBVIOUS
<1>8. WellFormed(z)
  BY <1>2, <1>7, drainedFormed
<1>9. WellFormed(w)
  <2>1. PICK l \in {"none", "offer", "answer"} : l = x.pcs[s].local
    BY <1>2, PcFields
  <2>2. PICK c : c = [x.pcs[s] EXCEPT !.heard = @ \cup x.candidates[s], !.ready = TRUE,
                                      !.awaits = "none"]
    OBVIOUS
  <2>3. c \in PeerConnection /\ c.id = x.pcs[s].id /\ c.local = l
    BY <1>2, <2>1, <2>2, SessionFields DEF PeerConnection
  <2>4. c = [c EXCEPT !.local = l]
    BY <2>3 DEF PeerConnection
  <2>5. w = [room |-> x.room, pcs |-> [x.pcs EXCEPT ![s] = c],
             candidates |-> [x.candidates EXCEPT ![s] = {}], made |-> x.made]
    BY <1>2, <1>7, <2>2 DEF drained, Session
  <2>6. PICK S \in SUBSET Nat : S = {}
    OBVIOUS
  <2> QED BY <1>2, <2>3, <2>5, <2>6, PcGoesOn
<1>10. CASE Become(p, y) /\ Describe(p, s, "SDP_OFFER")
  <2>1. PICK ms \in Seq(ToServer) :
          /\ Send(p, ms)
          /\ \A m \in ToSet(ms) : m.type \in {"SDP_OFFER", "SDP_ANSWER", "ICE_CANDIDATE"}
    BY <1>1, <1>2, <1>10, DescribeMade
  <2>2. \A m \in ToSet(ms) : m.type = "JOIN_ROOM" => m.room \in shared
    BY <2>1
  <2> QED BY <1>3, <1>4, <1>6, <1>10, <2>1, <2>2, SentTypes
<1>11. CASE Become(p, z) /\ Describe(p, s, "SDP_ANSWER")
  <2>1. PICK ms \in Seq(ToServer) :
          /\ Send(p, ms)
          /\ \A m \in ToSet(ms) : m.type \in {"SDP_OFFER", "SDP_ANSWER", "ICE_CANDIDATE"}
    BY <1>1, <1>2, <1>11, DescribeMade
  <2>2. \A m \in ToSet(ms) : m.type = "JOIN_ROOM" => m.room \in shared
    BY <2>1
  <2> QED BY <1>3, <1>4, <1>8, <1>11, <2>1, <2>2, SentTypes
<1>12. CASE Become(p, w) /\ UNCHANGED toServer
  <2>1. session' \in [Page -> Session] /\ \A q \in Page : WellFormed(session'[q])
    BY <1>9, <1>12, Became
  <2>2. HistoryTypes'
    BY TypesSplit DEF TypeInv, HistoryTypes, historyVars
  <2>3. KnownRequests' /\ KnownAnswers'
    BY <1>3, <1>12 DEF TypeInv, KnownRequests, KnownAnswers, roomVars
  <2>4. /\ connection' \in [Page -> Nat \ {0}] /\ (\A q \in Page : SocketOf(q)' \in Socket)
        /\ toPage' \in [Page -> Seq(ToPage)] /\ shared' \subseteq issued /\ drops' \in Nat
        /\ toServer' \in [Socket -> Seq(ToServer)]
    BY <1>3, <1>12, TypesSplit DEF TypeInv, SocketOf, PeerSignallingTypeOK
  <2> QED BY <1>3, <1>4, <2>1, <2>2, <2>3, <2>4, PagesKeepTypes
<1>13. \/ Become(p, y) /\ Describe(p, s, "SDP_OFFER")
       \/ Become(p, z) /\ Describe(p, s, "SDP_ANSWER")
       \/ Become(p, w) /\ UNCHANGED toServer
  BY <1>1, <1>5, <1>7 DEF described
<1> QED BY <1>10, <1>11, <1>12, <1>13

LEMMA channelOpensTypes ==
  ASSUME TypeInv, NEW p \in Page, NEW s \in Socket, channelOpens(p, s), UNCHANGED historyVars
  PROVE  TypeInv'
<1>1. PICK x : x = session[p]
  OBVIOUS
<1>2. WellFormed(x) /\ x \in Session /\ x.pcs[s] \in PeerConnection /\ x.room \in RoomId \cup {None}
  BY <1>1, SessionsWellFormed, SessionFields DEF channelOpens, Linked, Ends, WellFormed
<1>3. PICK y : y = [x EXCEPT !.pcs[s].open = TRUE]
  OBVIOUS
<1>4. WellFormed(y) /\ Become(p, y)
  BY <1>1, <1>2, <1>3, OpenFormed DEF channelOpens
<1>5. UNCHANGED <<connection, toPage, roomVars, shared, starts, drops>>
  BY DEF channelOpens
<1>6. starts' \in [Socket -> Nat]
  BY <1>5, TypesSplit DEF TypeInv, PeerSignallingTypeOK
<1>7. PICK type \in Routes :
        Send(p, IF x.room = None THEN <<>>
                ELSE <<[type |-> "CONNECTION_INFO", room |-> x.room, connectionType |-> type]>>)
  BY <1>1 DEF channelOpens
<1>8. PICK ms \in Seq(ToServer) :
        Send(p, ms) /\ \A m \in ToSet(ms) : m.type = "JOIN_ROOM" => m.room \in shared
  <2>1. CASE x.room = None
    BY <1>7, <2>1, ShortSequences, SetNothing
  <2>2. CASE x.room # None
    <3>1. PICK m \in ToServer :
            m = [type |-> "CONNECTION_INFO", room |-> x.room, connectionType |-> type]
      BY <1>2, <2>2, MessagesMade, PeerSignallingAssumption
    <3>2. <<m>> \in Seq(ToServer) /\ ToSet(<<m>>) = {m} /\ m.type # "JOIN_ROOM"
      BY <3>1, ShortSequences, SetOne
    <3>3. Send(p, <<m>>)
      BY <1>7, <2>2, <3>1
    <3> QED BY <3>2, <3>3
  <2> QED BY <2>1, <2>2
<1> QED BY <1>4, <1>5, <1>6, <1>8, SentTypes

LEMMA AloneTypes ==
  ASSUME TypeInv, NEW p \in Page, NEW x, WellFormed(x), Become(p, x),
         UNCHANGED <<connection, toServer, toPage, roomVars, shared, starts, drops>>,
         UNCHANGED historyVars
  PROVE  TypeInv'
<1>1. session' \in [Page -> Session] /\ \A q \in Page : WellFormed(session'[q])
  BY Became
<1>2. HistoryTypes'
  BY TypesSplit DEF TypeInv, HistoryTypes, historyVars
<1>3. KnownRequests' /\ KnownAnswers'
  BY DEF TypeInv, KnownRequests, KnownAnswers, roomVars
<1>4. /\ connection' \in [Page -> Nat \ {0}] /\ (\A q \in Page : SocketOf(q)' \in Socket)
      /\ toPage' \in [Page -> Seq(ToPage)] /\ shared' \subseteq issued /\ drops' \in Nat
      /\ toServer' \in [Socket -> Seq(ToServer)] /\ starts' \in [Socket -> Nat]
  BY TypesSplit DEF TypeInv, SocketOf, PeerSignallingTypeOK
<1> QED BY <1>1, <1>2, <1>3, <1>4, PagesKeepTypes

LEMMA channelClosesTypes ==
  ASSUME TypeInv, NEW p \in Page, NEW s \in Socket, channelCloses(p, s), UNCHANGED historyVars
  PROVE  TypeInv'
<1>1. PICK x : x = session[p]
  OBVIOUS
<1>2. WellFormed(x) /\ x \in Session /\ x.pcs[s] \in PeerConnection
  BY <1>1, SessionsWellFormed, SessionFields DEF channelCloses, WellFormed
<1>3. PICK y : y = [x EXCEPT !.pcs[s].open = FALSE]
  OBVIOUS
<1>4. WellFormed(y) /\ Become(p, y)
  BY <1>1, <1>2, <1>3, OpenFormed DEF channelCloses
<1>5. UNCHANGED <<connection, toServer, toPage, roomVars, shared, starts, drops>>
  BY DEF channelCloses
<1> QED BY <1>4, <1>5, AloneTypes

LEMMA peerLostTypes ==
  ASSUME TypeInv, NEW p \in Page, NEW s \in Socket, peerLost(p, s), HistoryTypes'
  PROVE  TypeInv'
<1>1. PICK y : y = closePeer(session[p], s)
  OBVIOUS
<1>2. WellFormed(y) /\ Become(p, y)
  BY <1>1, SessionsWellFormed, closePeerFormed DEF peerLost
<1>3. UNCHANGED <<connection, toServer, toPage, roomVars, shared, starts>> /\ drops' = drops + 1
  BY DEF peerLost
<1>4. drops' \in Nat
  BY <1>3, TypesSplit DEF TypeInv, PeerSignallingTypeOK
<1>5. session' \in [Page -> Session] /\ \A q \in Page : WellFormed(session'[q])
  BY <1>2, Became
<1>6. KnownRequests' /\ KnownAnswers'
  BY <1>3 DEF TypeInv, KnownRequests, KnownAnswers, roomVars
<1>7. /\ connection' \in [Page -> Nat \ {0}] /\ (\A q \in Page : SocketOf(q)' \in Socket)
      /\ toPage' \in [Page -> Seq(ToPage)] /\ shared' \subseteq issued
      /\ toServer' \in [Socket -> Seq(ToServer)] /\ starts' \in [Socket -> Nat]
  BY <1>3, TypesSplit DEF TypeInv, SocketOf, PeerSignallingTypeOK
<1> QED BY <1>3, <1>4, <1>5, <1>6, <1>7, PagesKeepTypes

LEMMA Reconnected ==
  ASSUME TypeInv, NEW p \in Page, NEW lost \in SUBSET (0..Len(toServer[SocketOf(p)])),
         Reconnect(p, lost)
  PROVE  /\ SocketOf(p) \in Socket /\ toServer[SocketOf(p)] \in Seq(ToServer)
         /\ connection' \in [Page -> Nat \ {0}] /\ \A q \in Page : SocketOf(q)' \in Socket
         /\ connection'[p] = connection[p] + 1
         /\ \A q \in Page \ {p} : connection'[q] = connection[q]
         /\ toServer' \in [Socket -> Seq(ToServer)]
         /\ \A s \in Socket \ {SocketOf(p)} : toServer'[s] = toServer[s]
         /\ \E n \in 0..Len(toServer[SocketOf(p)]) :
              toServer'[SocketOf(p)] =
                SubSeq(toServer[SocketOf(p)], 1, n) \o <<[type |-> "disconnect"]>>
         /\ ToSet(toServer'[SocketOf(p)])
              \subseteq ToSet(toServer[SocketOf(p)]) \cup {[type |-> "disconnect"]}
         /\ toPage' \in [Page -> Seq(ToPage)] /\ toPage'[p] = <<>>
         /\ \A q \in Page \ {p} : toPage'[q] = toPage[q]
         /\ UNCHANGED <<roomVars, shared, starts>>
<1>1. PICK t, q, l, d : /\ t = SocketOf(p) /\ q = toServer[t] /\ l = Len(q)
                        /\ d = [type |-> "disconnect"]
  OBVIOUS
<1>2. t \in Socket /\ q \in Seq(ToServer) /\ l \in Nat /\ d \in ToServer
  BY <1>1, TypesSplit, MessagesMade DEF TypeInv
<1>3. connection \in [Page -> Nat \ {0}] /\ \A u \in Page : SocketOf(u) \in Socket
  BY TypesSplit DEF TypeInv
<1>4. /\ connection' = [connection EXCEPT ![p] = @ + 1] /\ connection[p] < MaxConnections[p]
      /\ toPage' = [toPage EXCEPT ![p] = <<>>] /\ UNCHANGED <<roomVars, shared, starts>>
  BY DEF Reconnect
<1>5. connection[p] \in Nat \ {0} /\ MaxConnections[p] \in Nat \ {0}
  BY <1>3, FileRoomsAssumption
<1>6. connection' \in [Page -> Nat \ {0}] /\ connection'[p] = connection[p] + 1
      /\ \A u \in Page \ {p} : connection'[u] = connection[u]
  BY <1>3, <1>4, <1>5
<1>7. connection[p] + 1 \in 1..MaxConnections[p]
  BY <1>4, <1>5
<1>8. \A u \in Page : SocketOf(u)' \in Socket
  <2>1. SocketOf(p)' \in Socket
    BY <1>6, <1>7, SocketMade DEF SocketOf
  <2>2. \A u \in Page \ {p} : SocketOf(u)' = SocketOf(u)
    BY <1>6 DEF SocketOf
  <2> QED BY <1>3, <2>1, <2>2
<1>9. PICK k \in 0..l : toServer' = [toServer EXCEPT ![t] = SubSeq(q, 1, Len(q) - k) \o <<d>>]
  BY <1>1 DEF Reconnect
<1>10. PICK n \in 0..l : n = l - k
  BY <1>2
<1>11. PICK f : f = SubSeq(q, 1, n)
  OBVIOUS
<1>12. f \in Seq(ToServer) /\ ToSet(f) \subseteq ToSet(q)
  <2>1. /\ f \in Seq(ToServer) /\ Len(f) = n /\ DOMAIN f = 1..n /\ DOMAIN q = 1..Len(q)
        /\ \A i \in 1..n : f[i] = q[i]
    BY <1>1, <1>2, <1>10, <1>11, Prefix
  <2> QED BY <1>1, <1>2, <1>10, <2>1 DEF ToSet
<1>13. f \o <<d>> \in Seq(ToServer) /\ ToSet(f \o <<d>>) = ToSet(f) \cup {d}
  BY <1>2, <1>12, ShortSequences, SetMore
<1>14. toServer' = [toServer EXCEPT ![t] = f \o <<d>>]
  BY <1>1, <1>9, <1>10, <1>11
<1>15. toServer \in [Socket -> Seq(ToServer)] /\ toPage \in [Page -> Seq(ToPage)]
  BY TypesSplit DEF TypeInv
<1>16. /\ toServer' \in [Socket -> Seq(ToServer)] /\ toServer'[t] = f \o <<d>>
       /\ \A s \in Socket \ {t} : toServer'[s] = toServer[s]
  BY <1>2, <1>13, <1>14, <1>15
<1>17. toPage' \in [Page -> Seq(ToPage)] /\ toPage'[p] = <<>>
       /\ \A u \in Page \ {p} : toPage'[u] = toPage[u]
  BY <1>4, <1>15, ShortSequences
<1>18. ToSet(toServer'[t]) \subseteq ToSet(toServer[t]) \cup {d}
  BY <1>1, <1>12, <1>13, <1>16
<1>19. \E i \in 0..Len(toServer[t]) : toServer'[t] = SubSeq(toServer[t], 1, i) \o <<d>>
  BY <1>1, <1>10, <1>11, <1>16
<1> QED BY <1>1, <1>2, <1>4, <1>6, <1>8, <1>16, <1>17, <1>18, <1>19

LEMMA ReconnectTypes ==
  ASSUME TypeInv, NEW p \in Page, NEW lost \in SUBSET (0..Len(toServer[SocketOf(p)])),
         Reconnect(p, lost), HistoryTypes', NEW x, WellFormed(x), Become(p, x), drops' \in Nat
  PROVE  TypeInv'
<1>1. session' \in [Page -> Session] /\ \A q \in Page : WellFormed(session'[q])
  BY Became
<1>2. UNCHANGED <<roomVars, shared, starts>>
  BY Reconnected
<1>3. shared' \subseteq issued /\ starts' \in [Socket -> Nat]
  BY <1>2, TypesSplit DEF TypeInv, PeerSignallingTypeOK
<1>4. KnownRequests'
  <2> SUFFICES ASSUME NEW s \in Socket, NEW m \in ToSet(toServer'[s]), m.type = "JOIN_ROOM"
               PROVE  m.room \in shared'
    BY DEF KnownRequests
  <2>1. m \in ToSet(toServer[s])
    <3>1. CASE s = SocketOf(p)
      <4>1. m \in ToSet(toServer[s]) \cup {[type |-> "disconnect"]}
        BY <3>1, Reconnected
      <4> QED BY <4>1
    <3>2. CASE s # SocketOf(p)
      BY <3>2, Reconnected
    <3> QED BY <3>1, <3>2
  <2> QED BY <1>2, <2>1 DEF TypeInv, KnownRequests
<1>5. KnownAnswers'
  <2> SUFFICES ASSUME NEW q \in Page, NEW m \in ToSet(toPage'[q]), m.type = "ROOM_CREATED"
               PROVE  m.room \in issued'
    BY DEF KnownAnswers
  <2>1. m \in ToSet(toPage[q])
    BY Reconnected, SetNothing
  <2> QED BY <1>2, <2>1 DEF TypeInv, KnownAnswers, roomVars
<1> QED BY <1>1, <1>2, <1>3, <1>4, <1>5, Reconnected, PagesKeepTypes DEF roomVars

LEMMA pageLeftTypes ==
  ASSUME TypeInv, NEW p \in Page, pageLeft(p), UNCHANGED historyVars
  PROVE  TypeInv'
<1>1. HistoryTypes'
  BY TypesSplit DEF TypeInv, HistoryTypes, historyVars
<1>2. PICK lost \in SUBSET (0..Len(toServer[SocketOf(p)])) : lost = {0}
  <2>1. toServer[SocketOf(p)] \in Seq(ToServer)
    BY TypesSplit DEF TypeInv
  <2>2. PICK n \in Nat : n = Len(toServer[SocketOf(p)])
    BY <2>1
  <2>3. {0} \in SUBSET (0..n)
    OBVIOUS
  <2> QED BY <2>2, <2>3
<1>3. drops' \in Nat
  BY TypesSplit DEF TypeInv, PeerSignallingTypeOK, pageLeft
<1>4. Reconnect(p, lost) /\ Become(p, Fresh)
  BY <1>2 DEF pageLeft
<1> QED BY <1>1, <1>3, <1>4, FreshFormed, ReconnectTypes

LEMMA connectionLostTypes ==
  ASSUME TypeInv, NEW p \in Page, connectionLost(p), HistoryTypes'
  PROVE  TypeInv'
<1>1. PICK lost \in SUBSET (0..Len(toServer[SocketOf(p)])) :
        lost = 0..Len(toServer[SocketOf(p)])
  OBVIOUS
<1>2. drops' \in Nat
  BY TypesSplit DEF TypeInv, PeerSignallingTypeOK, connectionLost
<1>3. Reconnect(p, lost) /\ UNCHANGED session
  BY <1>1 DEF connectionLost
<1>4. Become(p, session[p]) /\ WellFormed(session[p])
  BY <1>3, UnchangedSession
<1> QED BY <1>2, <1>3, <1>4, ReconnectTypes


LEMMA StartTypeInv == Init => TypeInv
<1> SUFFICES ASSUME Init PROVE TypeInv
  OBVIOUS
<1>1. FileRoomsInit /\ PeerSignallingInit
  BY DEF Init
<1>2. connection \in [Page -> Nat \ {0}] /\ \A p \in Page : SocketOf(p) \in Socket
  <2>1. connection = [p \in Page |-> 1]
    BY <1>1 DEF FileRoomsInit
  <2>2. \A p \in Page : 1 \in 1..MaxConnections[p]
    BY FileRoomsAssumption
  <2>3. \A p \in Page : SocketOf(p) = <<p, 1>>
    BY <2>1 DEF SocketOf
  <2> QED BY <2>1, <2>2, <2>3, SocketMade
<1>3. toServer \in [Socket -> Seq(ToServer)] /\ toPage \in [Page -> Seq(ToPage)]
  BY <1>1, ShortSequences DEF FileRoomsInit
<1>4. ServerTypes
  BY <1>1, ShortSequences DEF FileRoomsInit, ServerTypes
<1>5. WellFormed(Fresh) /\ session = [p \in Page |-> Fresh]
  BY <1>1, FreshFormed DEF PeerSignallingInit
<1>6. PeerSignallingTypeOK
  <2>1. session \in [Page -> Session] /\ \A p \in Page : WellFormed(session[p])
    BY <1>5 DEF WellFormed
  <2>2. shared \subseteq issued /\ starts \in [Socket -> Nat] /\ drops \in Nat
    BY <1>1 DEF PeerSignallingInit
  <2> QED BY <2>1, <2>2 DEF PeerSignallingTypeOK, WellFormed
<1>7. HistoryTypes
  BY DEF Init, HistoryTypes
<1>8. KnownWork /\ KnownRooms /\ KnownRequests /\ KnownAnswers
  BY <1>1, SetNothing DEF FileRoomsInit, KnownWork, KnownRooms, KnownRequests, KnownAnswers, Work
<1> QED BY <1>2, <1>3, <1>4, <1>6, <1>7, <1>8, TypesSplit DEF TypeInv

LEMMA PageStepTypes ==
  ASSUME TypeInv, NEW p \in Page, PageStep(p)
  PROVE  TypeInv'
<1>1. PageHandler(p) /\ UNCHANGED historyVars
  BY DEF PageStep
<1>2. CASE onRoomCreated(p)
  BY <1>1, <1>2, onRoomCreatedTypes
<1>3. CASE onPeerJoined(p)
  BY <1>1, <1>3, onPeerJoinedTypes
<1>4. CASE onRoomUsers(p)
  BY <1>1, <1>4, onRoomUsersTypes
<1>5. CASE onSdpOffer(p)
  BY <1>1, <1>5, onSdpOfferTypes
<1>6. CASE onSdpAnswer(p)
  BY <1>1, <1>6, onSdpAnswerTypes
<1>7. CASE onIceCandidate(p)
  BY <1>1, <1>7, onIceCandidateTypes
<1>8. CASE onLeaveRoom(p)
  BY <1>1, <1>8, onLeaveRoomTypes
<1> QED BY <1>1, <1>2, <1>3, <1>4, <1>5, <1>6, <1>7, <1>8 DEF PageHandler

LEMMA PeeringStepTypes ==
  ASSUME TypeInv, NEW p \in Page, NEW s \in Socket, PeeringStep(p, s)
  PROVE  TypeInv'
BY describedTypes, channelOpensTypes, channelClosesTypes DEF PeeringStep, Peering

LEMMA UserStepTypes ==
  ASSUME TypeInv, NEW p \in Page, UserStep(p)
  PROVE  TypeInv'
BY createRoomTypes, joinRoomTypes, pageLeftTypes DEF UserStep

LEMMA FaultTypes ==
  ASSUME TypeInv, NEW p \in Page, Fault(p)
  PROVE  TypeInv'
<1>1. UNCHANGED <<lapsed, overtaken, contended, crossed>> /\ HistoryTypes
  BY TypesSplit DEF Fault, TypeInv
<1>2. CASE connectionLost(p) /\ severed' = severed \cup {p}
  <2>1. HistoryTypes'
    BY <1>1, <1>2 DEF HistoryTypes
  <2> QED BY <1>2, <2>1, connectionLostTypes
<1>3. ASSUME NEW s \in Socket, peerLost(p, s) /\ severed' = severed \cup {p, s[1]}
      PROVE  TypeInv'
  <2>1. HistoryTypes'
    BY <1>1, <1>3, SocketFields DEF HistoryTypes
  <2> QED BY <1>3, <2>1, peerLostTypes
<1> QED BY <1>2, <1>3 DEF Fault

LEMMA StillTypes ==
  ASSUME TypeInv, UNCHANGED vars
  PROVE  TypeInv'
<1>1. HistoryTypes'
  BY TypesSplit DEF TypeInv, HistoryTypes, historyVars, vars
<1>2. KnownRequests' /\ KnownAnswers'
  BY DEF TypeInv, KnownRequests, KnownAnswers, roomVars, vars, sessionVars, socketVars
<1>3. /\ connection' \in [Page -> Nat \ {0}] /\ (\A q \in Page : SocketOf(q)' \in Socket)
      /\ toPage' \in [Page -> Seq(ToPage)] /\ shared' \subseteq issued /\ drops' \in Nat
      /\ toServer' \in [Socket -> Seq(ToServer)] /\ starts' \in [Socket -> Nat]
      /\ session' \in [Page -> Session]
  BY TypesSplit DEF TypeInv, SocketOf, PeerSignallingTypeOK, vars, sessionVars, socketVars
<1>4. \A p \in Page : WellFormed(session'[p])
  BY SessionsWellFormed DEF vars, sessionVars
<1> QED BY <1>1, <1>2, <1>3, <1>4, PagesKeepTypes DEF vars

LEMMA StepTypeInv == TypeInv /\ [Next]_vars => TypeInv'
<1> SUFFICES ASSUME TypeInv, [Next]_vars PROVE TypeInv'
  OBVIOUS
<1>1. CASE UNCHANGED vars
  BY <1>1, StillTypes
<1>2. CASE Event
  BY <1>2, PageStepTypes, PeeringStepTypes, ServerStepTypes, ReplyTypes DEF Event
<1>3. CASE \E p \in Page : UserStep(p) \/ Fault(p)
  BY <1>3, UserStepTypes, FaultTypes
<1>4. CASE Lapse
  BY <1>4, LapseTypes
<1> QED BY <1>1, <1>2, <1>3, <1>4 DEF Next

\* Whatever the pages send and the server answers, the maps of the gateway and the refs
\* of usePeerConnection stay what their types say: no handler meets an undefined room,
\* a connection always has a number its page has given out, and whoever asks to join
\* names a room the server has made.
THEOREM TypeCorrect == Spec => []TypeOK
<1>1. Spec => []TypeInv
  BY StartTypeInv, StepTypeInv, PTL DEF Spec
<1>2. TypeInv => TypeOK
  BY DEF TypeInv
<1> QED BY <1>1, <1>2, PTL

-----------------------------------------------------------------------------
(***************************************************************************)
(* Where a socket is on its way into a room and out of it.                 *)
(***************************************************************************)
Asks == {"CREATE_ROOM", "JOIN_ROOM"}

Alike(g, h) == g.socket = h.socket /\ (g.op \in Joins <=> h.op \in Joins)

\* A socket has at most one handler that joins and one that removes it.
OneEach(q) == \A i, j \in 1..Len(q) : Alike(q[i], q[j]) => i = j

Joining(s) == {h \in Work : h.socket = s /\ h.op \in Joins}
Removing(s) == {h \in Work : h.socket = s /\ h.op \notin Joins}

Old(s) == s[2] < connection[s[1]]
Gone(s) == Old(s) /\ toServer[s] = <<>>
Asking(s) == Has(toServer[s], Asks)

DisconnectLast(q) == \A i, j \in 1..Len(q) : q[i].type = "disconnect" => j <= i

\* One request, and the disconnect last, of a socket that is no longer its page's.
Line(s) ==
  /\ Apart(toServer[s], Asks, Asks)
  /\ DisconnectLast(toServer[s])
  /\ Has(toServer[s], {"disconnect"}) => Old(s)
  /\ Old(s) /\ toServer[s] # <<>> => Has(toServer[s], {"disconnect"})
  /\ s[2] > connection[s[1]] => toServer[s] = <<>> /\ starts[s] = 0

GonePlace(s) ==
  /\ Removing(s) # {} => Gone(s) /\ s \notin overtaken
  /\ s \in overtaken => Gone(s) /\ \A h \in Joining(s) : h.room \in contended
  /\ Gone(s) => \A r \in RoomId : s \notin members[r]

AskingPlace(s) ==
  /\ Asking(s) => starts[s] # 0
  /\ Joining(s) # {} => roomOf[s] = None
  /\ Asking(s) \/ starts[s] = 0 =>
       /\ Joining(s) = {} /\ roomOf[s] = None
       /\ \A r \in RoomId : s \notin members[r] /\ s \notin peers[r]

RemovingPlace(s) ==
  \A h \in Removing(s) :
    /\ h.op # "get" => Joining(s) = {}
    /\ h.op \in {"srem", "del"} => roomOf[s] = h.room
    /\ h.op \in {"remaining", "delRoom"} => roomOf[s] = None
    /\ h.op \notin {"get", "srem"} => s \notin peers[h.room]

ListedPlace(s) ==
  \A r \in RoomId :
    /\ s \in members[r] => roomOf[s] = r \/ \E h \in Joining(s) : h.room = r
    /\ roomOf[s] = r => \/ s \in members[r] \cup overtaken
                        \/ \E h \in Removing(s) : h.op \in {"get", "srem", "del"}
    /\ s \in peers[r] => \/ roomOf[s] = r \/ s \in overtaken
                         \/ \E h \in Joining(s) : h.room = r /\ h.op \in {"expire", "set"}

JoiningPlace(s) ==
  \A h \in Joining(s) : \/ s \in members[h.room] \cup overtaken
                        \/ \E g \in Removing(s) : g.op = "get"

Place(s) ==
  GonePlace(s) /\ AskingPlace(s) /\ RemovingPlace(s) /\ ListedPlace(s) /\ JoiningPlace(s)

Unused(r) ==
  /\ \A h \in Work : h.room # r
  /\ members[r] = {} /\ peers[r] = {} /\ fileStats[r] = None
  /\ \A s \in Socket : roomOf[s] # r

\* A room under creation is known to the handler h alone.
New(r, h) ==
  /\ r \notin shared
  /\ \A p \in Page : \A m \in ToSet(toPage[p]) : m.type = "ROOM_CREATED" => m.room # r
  /\ \A g \in Work : g.room = r => g = h
  /\ members[r] \subseteq {h.socket}
  /\ \A s \in Socket : roomOf[s] # r

NewInv ==
  /\ \A r \in RoomId \ issued : Unused(r)
  /\ \A h \in Work : h.creating /\ h.op \in Joins => New(h.room, h)

Works(h, r) == h.room = r \/ roomOf[h.socket] = r

At(r) == {h \in Work : Works(h, r)}

Counted(stat, S) ==
  /\ stat = None <=> S = {}
  /\ S # {} => stat.peerCount = Cardinality(S)

\* How far the handler h has brought Redis and the dashboard, of a room with the members
\* M, the peers P in Redis and the entry stat.
Stage(h, M, P, stat) ==
  LET s == h.socket IN
    /\ h.op \in {"smembers", "sadd"} => P = M \ {s}
    /\ h.op \in {"expire", "set"} => P = M \cup {s}
    /\ h.op \in Joins => Counted(stat, M \ {s})
    /\ h.op \in {"sadd", "expire", "set"} => h.found = M \ {s}
    /\ h.op \in {"get", "srem"} => P = M \cup {s}
    /\ h.op \in {"del", "remaining"} => P = M
    /\ h.op = "delRoom" => M = {}

Agree(r) ==
  /\ At(r) = {} => peers[r] = members[r] /\ Counted(fileStats[r], members[r])
  /\ \A h \in At(r) : At(r) = {h} /\ Stage(h, members[r], peers[r], fileStats[r])

RoomsInv ==
  /\ OneEach(redis)
  /\ \A s \in Socket : Line(s)
  /\ \A s \in Socket : Place(s)
  /\ NewInv
  /\ \A r \in RoomId \ contended : Agree(r)

PeersInv == lapsed \/ RoomsInv


\* The commands in flight, as a set.
LEMMA TailElements ==
  ASSUME NEW S, NEW q \in Seq(S), q # <<>>
  PROVE  /\ Tail(q) \in Seq(S) /\ Len(q) \in Nat \ {0} /\ Len(Tail(q)) = Len(q) - 1
         /\ \A i \in 1..Len(Tail(q)) : i + 1 \in 1..Len(q) /\ Tail(q)[i] = q[i + 1]
         /\ 1 \in 1..Len(q) /\ Head(q) = q[1]
<1>1. Len(q) \in Nat /\ Len(q) # 0
  BY EmptySeq
<1>2. Tail(q) \in Seq(S) /\ Len(Tail(q)) = Len(q) - 1
      /\ \A i \in 1..Len(Tail(q)) : Tail(q)[i] = q[i + 1]
  BY <1>1, HeadTailProperties
<1> QED BY <1>1, <1>2

LEMMA Places1 ==
  ASSUME NEW S, NEW q \in Seq(S), NEW g \in ToSet(q)
  PROVE  \E i \in 1..Len(q) : q[i] = g
BY DEF ToSet

LEMMA OneOf ==
  ASSUME NEW q \in Seq(Command), OneEach(q), NEW g \in ToSet(q), NEW h \in ToSet(q), Alike(g, h)
  PROVE  g = h
<1>1. PICK i \in 1..Len(q), j \in 1..Len(q) : q[i] = g /\ q[j] = h
  BY Places1
<1> QED BY <1>1 DEF OneEach

LEMMA OneTail ==
  ASSUME NEW q \in Seq(Command), q # <<>>, OneEach(q)
  PROVE  /\ OneEach(Tail(q)) /\ ToSet(Tail(q)) = ToSet(q) \ {Head(q)}
         /\ \A g \in ToSet(Tail(q)) : ~Alike(g, Head(q))
<1>1. PICK t : t = Tail(q)
  OBVIOUS
<1>2. /\ t \in Seq(Command) /\ Len(q) \in Nat \ {0} /\ Len(t) = Len(q) - 1
      /\ \A i \in 1..Len(t) : i + 1 \in 1..Len(q) /\ t[i] = q[i + 1]
      /\ 1 \in 1..Len(q) /\ Head(q) = q[1]
  BY <1>1, TailElements
<1>3. OneEach(t)
  <2> SUFFICES ASSUME NEW i \in 1..Len(t), NEW j \in 1..Len(t), Alike(t[i], t[j])
               PROVE  i = j
    BY DEF OneEach
  <2>1. i + 1 = j + 1
    BY <1>2 DEF OneEach
  <2> QED BY <2>1
<1>4. \A g \in ToSet(t) : ~Alike(g, Head(q))
  <2> SUFFICES ASSUME NEW g \in ToSet(t), Alike(g, Head(q)) PROVE FALSE
    OBVIOUS
  <2>1. PICK i \in 1..Len(t) : t[i] = g
    BY <1>2, Places1
  <2>2. i + 1 = 1
    BY <1>2, <2>1 DEF OneEach
  <2> QED BY <2>2
<1>5. ToSet(q) = {Head(q)} \cup ToSet(t)
  BY <1>1, SetTail
<1>6. Head(q) \notin ToSet(t)
  BY <1>4 DEF Alike
<1> QED BY <1>1, <1>3, <1>4, <1>5, <1>6

LEMMA OneMore ==
  ASSUME NEW q \in Seq(Command), NEW x \in Command, OneEach(q),
         \A g \in ToSet(q) : ~Alike(g, x), NEW y, y = Append(q, x)
  PROVE  OneEach(y) /\ ToSet(y) = ToSet(q) \cup {x} /\ x \notin ToSet(q)
<1>1. /\ Len(q) \in Nat /\ Len(y) = Len(q) + 1 /\ y[Len(q) + 1] = x
      /\ \A i \in 1..Len(q) : y[i] = q[i] /\ q[i] \in ToSet(q)
  BY AppendProperties DEF ToSet
<1>2. PICK n \in Nat : n = Len(q)
  BY <1>1
<1>3. OneEach(y)
  <2> SUFFICES ASSUME NEW i \in 1..Len(y), NEW j \in 1..Len(y), Alike(y[i], y[j])
               PROVE  i = j
    BY DEF OneEach
  <2>1. CASE i \in 1..n /\ j \in 1..n
    BY <1>1, <1>2, <2>1 DEF OneEach
  <2>2. CASE i = n + 1 /\ j \in 1..n
    BY <1>1, <1>2, <2>2 DEF Alike
  <2>3. CASE j = n + 1 /\ i \in 1..n
    BY <1>1, <1>2, <2>3 DEF Alike
  <2>4. CASE i = n + 1 /\ j = n + 1
    BY <2>4
  <2> QED BY <1>1, <1>2, <2>1, <2>2, <2>3, <2>4
<1>4. ToSet(y) = ToSet(q) \cup {x}
  <2>1. PICK z : z = q \o <<x>>
    OBVIOUS
  <2>2. y = z
    BY <2>1, AppendConcat
  <2> QED BY <2>1, <2>2, SetMore
<1>5. x \notin ToSet(q)
  BY DEF Alike
<1> QED BY <1>3, <1>4, <1>5

LEMMA IssuedWork ==
  ASSUME TypeInv, OneEach(redis), NEW x \in Command, redis' = Append(redis, x),
         \A g \in Work : ~Alike(g, x)
  PROVE  OneEach(redis') /\ Work' = Work \cup {x} /\ x \notin Work
<1>1. redis \in Seq(Command)
  BY TypesSplit DEF TypeInv, ServerTypes
<1>2. PICK q, y : q \in Seq(Command) /\ q = redis /\ y = redis'
  BY <1>1
<1>3. \A g \in ToSet(q) : ~Alike(g, x)
  BY <1>2 DEF Work
<1>4. OneEach(q) /\ y = Append(q, x)
  BY <1>2
<1>5. OneEach(y) /\ ToSet(y) = ToSet(q) \cup {x} /\ x \notin ToSet(q)
  BY <1>2, <1>3, <1>4, OneMore
<1> QED BY <1>2, <1>5 DEF Work

LEMMA ReturnedWork ==
  ASSUME TypeInv, OneEach(redis), redis # <<>>, NEW h, h = Head(redis), redis' = Tail(redis)
  PROVE  OneEach(redis') /\ Work' = Work \ {h} /\ \A g \in Work \ {h} : ~Alike(g, h)
<1>1. redis \in Seq(Command)
  BY TypesSplit DEF TypeInv, ServerTypes
<1> QED BY <1>1, OneTail DEF Work

LEMMA ContinuedWork ==
  ASSUME TypeInv, OneEach(redis), redis # <<>>, NEW h, h = Head(redis), NEW x \in Command,
         redis' = Append(Tail(redis), x), Alike(x, h)
  PROVE  /\ OneEach(redis') /\ Work' = (Work \ {h}) \cup {x}
         /\ \A g \in Work \ {h} : ~Alike(g, h) /\ ~Alike(g, x)
<1>1. redis \in Seq(Command)
  BY TypesSplit DEF TypeInv, ServerTypes
<1>2. PICK q, y : q = Tail(redis) /\ y = redis'
  OBVIOUS
<1>3. q \in Seq(Command) /\ OneEach(q) /\ ToSet(q) = Work \ {h} /\ \A g \in ToSet(q) : ~Alike(g, h)
  BY <1>1, <1>2, OneTail, HeadTail DEF Work
<1>4. \A g \in ToSet(q) : ~Alike(g, x)
  BY <1>3 DEF Alike
<1>5. y = Append(q, x)
  BY <1>2
<1>6. OneEach(y) /\ ToSet(y) = ToSet(q) \cup {x}
  BY <1>3, <1>4, <1>5, OneMore
<1> QED BY <1>2, <1>3, <1>4, <1>6 DEF Work


\* The messages of a socket.
LEMMA LastTail ==
  ASSUME NEW q \in Seq(ToServer), q # <<>>, DisconnectLast(q)
  PROVE  /\ DisconnectLast(Tail(q))
         /\ Head(q).type = "disconnect" => Tail(q) = <<>>
<1>1. PICK t : t = Tail(q)
  OBVIOUS
<1>2. /\ t \in Seq(ToServer) /\ Len(q) \in Nat \ {0} /\ Len(t) = Len(q) - 1
      /\ \A i \in 1..Len(t) : i + 1 \in 1..Len(q) /\ t[i] = q[i + 1]
      /\ 1 \in 1..Len(q) /\ Head(q) = q[1]
  BY <1>1, TailElements
<1>3. DisconnectLast(t)
  <2> SUFFICES ASSUME NEW i \in 1..Len(t), NEW j \in 1..Len(t), t[i].type = "disconnect"
               PROVE  j <= i
    BY DEF DisconnectLast
  <2>1. j + 1 <= i + 1
    BY <1>2 DEF DisconnectLast
  <2> QED BY <2>1
<1>4. ASSUME Head(q).type = "disconnect" PROVE t = <<>>
  <2>1. PICK n \in Nat \ {0} : n = Len(q)
    BY <1>2
  <2>2. n <= 1
    BY <1>2, <1>4, <2>1 DEF DisconnectLast
  <2>3. Len(t) = 0
    BY <1>2, <2>1, <2>2
  <2> QED BY <1>2, <2>3, EmptySeq
<1> QED BY <1>1, <1>3, <1>4

LEMMA LastConcat ==
  ASSUME NEW q \in Seq(ToServer), NEW ms \in Seq(ToServer), ~Has(q, {"disconnect"}),
         DisconnectLast(ms)
  PROVE  DisconnectLast(q \o ms)
<1>1. PICK y : y = q \o ms
  OBVIOUS
<1>2. PICK k, l : k = Len(q) /\ l = Len(ms)
  OBVIOUS
<1>3. /\ k \in Nat /\ l \in Nat /\ Len(y) = k + l
      /\ \A i \in 1..k : y[i] = q[i] /\ y[i].type # "disconnect"
      /\ \A i \in 1..l : y[k + i] = ms[i]
  <2>1. /\ k \in Nat /\ l \in Nat /\ Len(y) = k + l
        /\ \A i \in 1..k : y[i] = q[i]
        /\ \A i \in 1..l : y[k + i] = ms[i]
    BY <1>1, <1>2, ConcatElements
  <2>2. ASSUME NEW i \in 1..k PROVE q[i].type # "disconnect"
    <3>1. DOMAIN q = 1..k
      BY <1>2
    <3>2. q[i] \in ToSet(q)
      BY <3>1 DEF ToSet
    <3> QED BY <3>2 DEF Has
  <2> QED BY <2>1, <2>2
<1>4. ASSUME NEW i \in 1..(k + l), NEW j \in 1..(k + l), y[i].type = "disconnect"
      PROVE  j <= i
  <2>1. i \notin 1..k
    BY <1>3, <1>4
  <2>2. PICK a \in 1..l : i = k + a
    <3>1. i - k \in 1..l /\ i = k + (i - k)
      BY <1>3, <2>1
    <3> QED BY <3>1
  <2>3. CASE j \in 1..k
    BY <1>3, <2>2, <2>3
  <2>4. CASE j \notin 1..k
    <3>1. PICK b \in 1..l : j = k + b
      <4>1. j - k \in 1..l /\ j = k + (j - k)
        BY <1>3, <2>4
      <4> QED BY <4>1
    <3>2. ms[a].type = "disconnect"
      BY <1>3, <1>4, <2>2
    <3>3. b <= a
      BY <1>2, <3>2 DEF DisconnectLast
    <3> QED BY <1>3, <2>2, <3>1, <3>3
  <2> QED BY <2>3, <2>4
<1>5. DisconnectLast(y)
  BY <1>3, <1>4 DEF DisconnectLast
<1> QED BY <1>1, <1>5

LEMMA LineTaken ==
  ASSUME TypeInv, NEW s \in Socket, NEW type, Request(s, type), Line(s), UNCHANGED starts
  PROVE  /\ Line(s)' /\ ~Gone(s) /\ (Asking(s)' => Asking(s))
         /\ type \in Asks => Asking(s) /\ ~Asking(s)'
         /\ type # "disconnect" => ~Gone(s)'
         /\ type = "disconnect" => Gone(s)' /\ ~Asking(s)
<1>1. PICK q, t, m : q = toServer[s] /\ t = toServer'[s] /\ m = Head(q)
  OBVIOUS
<1>2. /\ q \in Seq(ToServer) /\ q # <<>> /\ m \in ToServer /\ m.type = type /\ m \in ToSet(q)
      /\ t = Tail(q) /\ t \in Seq(ToServer) /\ connection' = connection
  BY <1>1, RequestTaken, HeadTail
<1>3. ToSet(q) = {m} \cup ToSet(t)
  BY <1>1, <1>2, SetTail
<1>4. /\ Apart(q, Asks, Asks) /\ DisconnectLast(q)
      /\ Has(q, {"disconnect"}) => Old(s) /\ (Old(s) => Has(q, {"disconnect"}))
      /\ Old(s) => Has(q, {"disconnect"})
      /\ ~(s[2] > connection[s[1]])
  BY <1>1, <1>2 DEF Line
<1>5. Apart(t, Asks, Asks) /\ (m.type \in Asks => ~Has(t, Asks))
  BY <1>1, <1>2, <1>4, ApartTail
<1>6. DisconnectLast(t) /\ (m.type = "disconnect" => t = <<>>)
  BY <1>1, <1>2, <1>4, LastTail
<1>7. Has(t, Asks) => Has(q, Asks)
  BY <1>3 DEF Has
<1>8. Has(t, {"disconnect"}) => Has(q, {"disconnect"})
  BY <1>3 DEF Has
<1>9. m.type # "disconnect" /\ Has(q, {"disconnect"}) => Has(t, {"disconnect"})
  BY <1>3 DEF Has
<1>10. m.type = "disconnect" => Has(q, {"disconnect"}) /\ ~Has(q, Asks)
  BY <1>2, <1>3, <1>6, SetNothing DEF Has, Asks
<1>11. m.type \in Asks => Has(q, Asks)
  BY <1>2 DEF Has
<1>12. Has(t, {"disconnect"}) => t # <<>>
  BY SetNothing DEF Has
<1>13. Old(s)' <=> Old(s)
  BY <1>2 DEF Old
<1>14. Line(s)'
  BY <1>1, <1>2, <1>4, <1>5, <1>6, <1>8, <1>9, <1>13 DEF Line
<1> QED
  BY <1>1, <1>2, <1>4, <1>5, <1>6, <1>7, <1>9, <1>10, <1>11, <1>12, <1>13, <1>14 DEF Gone, Asking

LEMMA LineKept ==
  ASSUME NEW s \in Socket, Line(s), toServer'[s] = toServer[s], starts'[s] = starts[s],
         Old(s)' <=> Old(s),
         s[2] > connection'[s[1]] => s[2] > connection[s[1]]
  PROVE  Line(s)' /\ (Gone(s)' <=> Gone(s)) /\ (Asking(s)' <=> Asking(s))
BY DEF Line, Gone, Asking

LEMMA Current ==
  ASSUME TypeInv, NEW p \in Page
  PROVE  /\ SocketOf(p) \in Socket /\ ~Old(SocketOf(p)) /\ ~Gone(SocketOf(p))
         /\ ~(SocketOf(p)[2] > connection[SocketOf(p)[1]])
<1>1. SocketOf(p) \in Socket /\ connection[p] \in Nat
  BY TypesSplit DEF TypeInv
<1>2. SocketOf(p)[1] = p /\ SocketOf(p)[2] = connection[p]
  BY DEF SocketOf
<1>3. ~(connection[p] < connection[p]) /\ ~(connection[p] > connection[p])
  BY <1>1
<1> QED BY <1>1, <1>2, <1>3 DEF Old, Gone

LEMMA LineSent ==
  ASSUME TypeInv, NEW p \in Page, NEW s, s = SocketOf(p), Line(s),
         NEW ms \in Seq(ToServer), Send(p, ms), ~Has(ms, {"disconnect"}), Apart(ms, Asks, Asks),
         Asking(s) => ~Has(ms, Asks), UNCHANGED connection
  PROVE  /\ Line(s)' /\ ~Gone(s)' /\ ~Gone(s)
         /\ Asking(s)' <=> Asking(s) \/ Has(ms, Asks)
<1>1. /\ s \in Socket /\ ~Old(s) /\ ~Gone(s) /\ ~(s[2] > connection[s[1]])
  BY Current
<1>2. PICK q, y : q = toServer[s] /\ y = q \o ms
  OBVIOUS
<1>3. q \in Seq(ToServer) /\ toServer'[s] = y /\ ToSet(y) = ToSet(q) \cup ToSet(ms)
  BY <1>2, Sent, TypesSplit DEF TypeInv
<1>4. Apart(q, Asks, Asks) /\ DisconnectLast(q) /\ ~Has(q, {"disconnect"})
  BY <1>1, <1>2 DEF Line
<1>5. Apart(y, Asks, Asks)
  BY <1>2, <1>3, <1>4, ApartConcat DEF Asking
<1>6. DisconnectLast(ms)
  BY DEF DisconnectLast, Has, ToSet
<1>7. DisconnectLast(y)
  BY <1>2, <1>3, <1>4, <1>6, LastConcat
<1>8. ~Has(y, {"disconnect"}) /\ (Has(y, Asks) <=> Has(q, Asks) \/ Has(ms, Asks))
  BY <1>3, <1>4 DEF Has
<1>9. Old(s)' <=> Old(s)
  BY DEF Old
<1> QED BY <1>1, <1>2, <1>3, <1>5, <1>7, <1>8, <1>9 DEF Line, Gone, Asking


LEMMA LineReconnected ==
  ASSUME TypeInv, NEW p \in Page, NEW lost \in SUBSET (0..Len(toServer[SocketOf(p)])),
         Reconnect(p, lost), NEW s \in Socket, Line(s)
  PROVE  /\ Line(s)' /\ (Asking(s)' => Asking(s))
         /\ s # SocketOf(p) => (Gone(s)' <=> Gone(s))
         /\ s = SocketOf(p) => ~Gone(s) /\ ~Gone(s)'
<1>1. PICK t : t = SocketOf(p)
  OBVIOUS
<1>2. /\ t \in Socket /\ toServer[t] \in Seq(ToServer) /\ connection' \in [Page -> Nat \ {0}]
      /\ connection'[p] = connection[p] + 1
      /\ \A q \in Page \ {p} : connection'[q] = connection[q]
      /\ toServer' \in [Socket -> Seq(ToServer)]
      /\ \A u \in Socket \ {t} : toServer'[u] = toServer[u]
      /\ \E n \in 0..Len(toServer[t]) :
           toServer'[t] = SubSeq(toServer[t], 1, n) \o <<[type |-> "disconnect"]>>
      /\ UNCHANGED <<roomVars, shared, starts>>
  BY <1>1, Reconnected
<1>3. /\ s[1] \in Page /\ s[2] \in Nat /\ connection[s[1]] \in Nat /\ s = <<s[1], s[2]>>
      /\ t[1] = p /\ t[2] = connection[p]
  BY <1>1, SocketFields, FileRoomsAssumption DEF TypeInv, SocketOf
<1>4. CASE s # t
  <2>1. Old(s)' <=> Old(s)
    <3>1. CASE s[1] = p
      <4>1. s[2] # connection[p]
        BY <1>1, <1>3, <1>4, <3>1 DEF SocketOf
      <4>2. s[2] < connection[p] + 1 <=> s[2] < connection[p]
        BY <1>3, <3>1, <4>1
      <4> QED BY <1>2, <3>1, <4>2 DEF Old
    <3>2. CASE s[1] # p
      BY <1>2, <1>3, <3>2 DEF Old
    <3> QED BY <3>1, <3>2
  <2>2. s[2] > connection'[s[1]] => s[2] > connection[s[1]]
    <3>1. CASE s[1] = p
      BY <1>2, <1>3, <3>1
    <3>2. CASE s[1] # p
      BY <1>2, <1>3, <3>2
    <3> QED BY <3>1, <3>2
  <2>3. toServer'[s] = toServer[s] /\ starts'[s] = starts[s]
    BY <1>2, <1>4
  <2>4. Line(s)' /\ (Gone(s)' <=> Gone(s)) /\ (Asking(s)' <=> Asking(s))
    BY <2>1, <2>2, <2>3, LineKept
  <2> QED BY <1>1, <1>4, <2>4
<1>5. CASE s = t
  <2>1. PICK q, d : q = toServer[t] /\ d = [type |-> "disconnect"]
    OBVIOUS
  <2>2. q \in Seq(ToServer) /\ d \in ToServer /\ Len(q) \in Nat
    BY <1>2, <2>1, MessagesMade
  <2>3. PICK n \in 0..Len(q) : toServer'[t] = SubSeq(q, 1, n) \o <<d>>
    BY <1>2, <2>1
  <2>4. PICK f : f = SubSeq(q, 1, n)
    OBVIOUS
  <2>5. ~Old(s) /\ ~Gone(s)
    BY <1>1, <1>5, Current
  <2>6. Apart(q, Asks, Asks) /\ ~Has(q, {"disconnect"})
    BY <1>5, <2>1, <2>5 DEF Line
  <2>7. f \in Seq(ToServer) /\ Apart(f, Asks, Asks) /\ ToSet(f) \subseteq ToSet(q)
    BY <2>2, <2>4, <2>6, Prefix, PrefixApart
  <2>8. ~Has(f, {"disconnect"}) /\ (Has(f, Asks) => Has(q, Asks))
    BY <2>6, <2>7 DEF Has
  <2>9. PICK y : y = f \o <<d>>
    OBVIOUS
  <2>10. <<d>> \in Seq(ToServer) /\ DisconnectLast(<<d>>)
    BY <2>2, ShortSequences DEF DisconnectLast
  <2>11. DisconnectLast(y)
    BY <2>7, <2>8, <2>9, <2>10, LastConcat
  <2>12. d.type = "disconnect" /\ d.type \notin Asks
    BY <2>1 DEF Asks
  <2>13. Apart(y, Asks, Asks)
    BY <2>2, <2>7, <2>9, <2>12, ApartMore
  <2>14. ToSet(y) = ToSet(f) \cup {d}
    BY <2>2, <2>7, <2>9, SetMore
  <2>15. Has(y, {"disconnect"}) /\ (Has(y, Asks) => Has(q, Asks)) /\ y # <<>>
    BY <2>8, <2>12, <2>14, SetNothing DEF Has
  <2>16. Old(s)' /\ ~(s[2] > connection'[s[1]])
    <3>1. connection[p] < connection[p] + 1 /\ ~(connection[p] > connection[p] + 1)
      BY <1>3, <1>5
    <3> QED BY <1>2, <1>3, <1>5, <3>1 DEF Old
  <2>17. toServer'[s] = y
    BY <1>5, <2>3, <2>4, <2>9
  <2>18. Line(s)'
    BY <2>11, <2>13, <2>15, <2>16, <2>17 DEF Line
  <2>19. Asking(s)' => Asking(s)
    BY <1>5, <2>1, <2>15, <2>17 DEF Asking
  <2>20. ~Gone(s)'
    BY <2>15, <2>17 DEF Gone
  <2> QED BY <1>1, <1>5, <2>5, <2>18, <2>19, <2>20
<1> QED BY <1>4, <1>5

\* What is left alone.
LEMMA PlaceKept ==
  ASSUME NEW s \in Socket, Place(s), Joining(s)' = Joining(s), Removing(s)' = Removing(s),
         Gone(s)' <=> Gone(s), Asking(s)' => Asking(s), starts'[s] = starts[s],
         roomOf'[s] = roomOf[s], s \in overtaken' <=> s \in overtaken,
         contended \subseteq contended',
         \A r \in RoomId : s \in members'[r] <=> s \in members[r],
         \A r \in RoomId : s \in peers'[r] => s \in peers[r],
         \A h \in Removing(s) : h.op = "get" \/ h.room \in RoomId,
         \A h \in Joining(s) : h.room \in RoomId
  PROVE  Place(s)'
<1>1. PICK J, R : J = Joining(s) /\ R = Removing(s)
  OBVIOUS
<1>2. Joining(s)' = J /\ Removing(s)' = R
  BY <1>1
<1>3. GonePlace(s)'
  BY <1>1, <1>2 DEF Place, GonePlace
<1>4. AskingPlace(s)'
  BY <1>1, <1>2 DEF Place, AskingPlace
<1>5. RemovingPlace(s)'
  BY <1>1, <1>2 DEF Place, RemovingPlace
<1>6. ListedPlace(s)'
  <2> SUFFICES ASSUME NEW r \in RoomId
               PROVE  /\ s \in members'[r] => roomOf'[s] = r \/ \E h \in J : h.room = r
                      /\ roomOf'[s] = r => \/ s \in members'[r] \cup overtaken'
                                           \/ \E h \in R : h.op \in {"get", "srem", "del"}
                      /\ s \in peers'[r] =>
                           \/ roomOf'[s] = r \/ s \in overtaken'
                           \/ \E h \in J : h.room = r /\ h.op \in {"expire", "set"}
    BY <1>2 DEF ListedPlace
  <2>1. /\ s \in members[r] => roomOf[s] = r \/ \E h \in J : h.room = r
        /\ roomOf[s] = r => \/ s \in members[r] \cup overtaken
                            \/ \E h \in R : h.op \in {"get", "srem", "del"}
        /\ s \in peers[r] => \/ roomOf[s] = r \/ s \in overtaken
                             \/ \E h \in J : h.room = r /\ h.op \in {"expire", "set"}
    BY <1>1 DEF Place, ListedPlace
  <2> QED BY <2>1
<1>7. JoiningPlace(s)'
  <2> SUFFICES ASSUME NEW h \in J
               PROVE  \/ s \in members'[h.room] \cup overtaken'
                      \/ \E g \in R : g.op = "get"
    BY <1>2 DEF JoiningPlace
  <2>1. \/ s \in members[h.room] \cup overtaken
        \/ \E g \in R : g.op = "get"
    BY <1>1 DEF Place, JoiningPlace
  <2> QED BY <1>1, <2>1
<1> QED BY <1>3, <1>4, <1>5, <1>6, <1>7 DEF Place

LEMMA AgreeKept ==
  ASSUME NEW r \in RoomId, Agree(r), At(r)' = At(r), members'[r] = members[r],
         peers'[r] = peers[r], fileStats'[r] = None <=> fileStats[r] = None,
         fileStats[r] # None => fileStats'[r].peerCount = fileStats[r].peerCount
  PROVE  Agree(r)'
<1>1. \A S : Counted(fileStats[r], S) => Counted(fileStats'[r], S)
  BY DEF Counted
<1>2. \A h : Stage(h, members[r], peers[r], fileStats[r]) =>
               Stage(h, members[r], peers[r], fileStats'[r])
  BY <1>1 DEF Stage
<1>3. PICK A : A = At(r)
  OBVIOUS
<1>4. At(r)' = A
  BY <1>3
<1>5. /\ A = {} => peers[r] = members[r] /\ Counted(fileStats[r], members[r])
      /\ \A h \in A : A = {h} /\ Stage(h, members[r], peers[r], fileStats[r])
  BY <1>3 DEF Agree
<1> QED BY <1>1, <1>2, <1>4, <1>5 DEF Agree


LEMMA WorkTypes ==
  ASSUME TypeInv
  PROVE  /\ issued \subseteq RoomId /\ shared \subseteq issued /\ redis \in Seq(Command)
         /\ \A h \in Work : /\ h \in Command /\ h.socket \in Socket
                            /\ h.op = "get" => h.room = None
                            /\ h.op # "get" => h.room \in RoomId /\ h.room \in issued
         /\ \A s \in Socket : roomOf[s] \in issued \cup {None}
         /\ members \in [RoomId -> SUBSET Socket] /\ peers \in [RoomId -> SUBSET Socket]
         /\ roomOf \in [Socket -> RoomId \cup {None}]
         /\ fileStats \in [RoomId -> FileRoomStat \cup {None}]
<1>1. /\ ServerTypes /\ KnownWork /\ KnownRooms /\ shared \subseteq issued
  BY TypesSplit DEF TypeInv, PeerSignallingTypeOK
<1>2. \A h \in Work : h \in Command
  BY <1>1 DEF ServerTypes, Work, ToSet
<1>3. \A h \in Work : /\ h \in Command /\ h.socket \in Socket
                      /\ h.op = "get" => h.room = None
                      /\ h.op # "get" => h.room \in RoomId /\ h.room \in issued
  <2> SUFFICES ASSUME NEW h \in Work
               PROVE  /\ h \in Command /\ h.socket \in Socket
                      /\ h.op = "get" => h.room = None
                      /\ h.op # "get" => h.room \in RoomId /\ h.room \in issued
    OBVIOUS
  <2>1. (h.op = "get" <=> h.room = None) /\ h.room \in issued \cup {None}
    BY <1>1 DEF KnownWork
  <2> QED BY <1>1, <1>2, <2>1, CommandFields DEF ServerTypes
<1> QED BY <1>1, <1>3 DEF ServerTypes, KnownRooms

\* The history tells of two handlers at work on a room at once.
LEMMA TwoCounted ==
  ASSUME NEW S, IsFiniteSet(S), NEW i \in S, NEW j \in S, i # j
  PROVE  Cardinality(S) > 1
<1>1. Cardinality(S) \in Nat /\ IsFiniteSet(S \ {i}) /\ Cardinality(S \ {i}) = Cardinality(S) - 1
  BY FS_RemoveElement, FS_CardinalityType
<1>2. Cardinality(S \ {i}) \in Nat /\ Cardinality(S \ {i}) # 0
  BY <1>1, FS_CardinalityType, FS_EmptySet
<1> QED BY <1>1, <1>2

LEMMA AloneAtWork ==
  ASSUME TypeInv', NEW r \in RoomId, r \notin contended',
         contended' = contended \cup {q \in RoomId : Cardinality(AtWork(q)') > 1}
  PROVE  \A g, h \in At(r)' : g = h
<1> SUFFICES ASSUME NEW g \in At(r)', NEW h \in At(r)' PROVE g = h
  OBVIOUS
<1>1. redis' \in Seq(Command)
  BY TypesSplit DEF TypeInv, FileRoomsTypeOK, TypeOK
<1>2. PICK n \in Nat : n = Len(redis') /\ DOMAIN redis' = 1..n
  BY <1>1
<1>3. PICK i \in 1..n, j \in 1..n : redis'[i] = g /\ redis'[j] = h
  BY <1>2 DEF At, Work, ToSet
<1>4. PICK W \in SUBSET (1..n) : W = AtWork(r)'
  BY <1>2 DEF AtWork
<1>5. i \in W /\ j \in W
  BY <1>2, <1>3, <1>4 DEF At, Works, AtWork
<1>6. IsFiniteSet(W)
  <2>1. 1 \in Int /\ n \in Int
    OBVIOUS
  <2>2. IsFiniteSet(1..n)
    BY <2>1, FS_Interval
  <2> QED BY <2>2, FS_Subset
<1>7. ~(Cardinality(W) > 1)
  BY <1>4
<1> QED BY <1>3, <1>5, <1>6, <1>7, TwoCounted

\* What a step of a socket or of one of its handlers leaves alone.
LEMMA OthersPlaced ==
  ASSUME TypeInv, NEW s \in Socket, NEW t \in Socket \ {s}, Place(t), NEW A, NEW B,
         Work' = (Work \ A) \cup B, \A h \in A \cup B : h.socket = s,
         Gone(t)' <=> Gone(t), Asking(t)' => Asking(t), starts'[t] = starts[t],
         roomOf'[t] = roomOf[t], t \in overtaken' <=> t \in overtaken,
         contended \subseteq contended',
         \A r \in RoomId : t \in members'[r] <=> t \in members[r],
         \A r \in RoomId : t \in peers'[r] => t \in peers[r]
  PROVE  Place(t)'
<1>1. Joining(t)' = Joining(t) /\ Removing(t)' = Removing(t)
  BY DEF Joining, Removing
<1>2. /\ \A h \in Removing(t) : h.op = "get" \/ h.room \in RoomId
      /\ \A h \in Joining(t) : h.room \in RoomId
  BY WorkTypes DEF Removing, Joining, Joins
<1> QED BY <1>1, <1>2, PlaceKept

LEMMA NewKept ==
  ASSUME NewInv, NEW A, NEW B, Work' = (Work \ A) \cup B, NEW T,
         \A h \in B : h.room \in T \cup {None},
         issued \subseteq issued' \cup T, shared' \subseteq shared \cup T,
         \A p \in Page : \A m \in ToSet(toPage'[p]) :
           m.type = "ROOM_CREATED" => m \in ToSet(toPage[p]) \/ m.room \in T,
         \A r \in RoomId \ T :
           /\ members'[r] \subseteq members[r] /\ peers'[r] \subseteq peers[r]
           /\ fileStats[r] = None => fileStats'[r] = None
           /\ \A s \in Socket : roomOf'[s] = r => roomOf[s] = r
  PROVE  /\ \A r \in RoomId \ (issued' \cup T) : Unused(r)'
         /\ \A g \in Work \cap Work' :
              g.creating /\ g.op \in Joins /\ g.room \in RoomId \ T => New(g.room, g)'
<1>1. ASSUME NEW r \in RoomId \ (issued' \cup T) PROVE Unused(r)'
  <2>1. Unused(r)
    BY <1>1 DEF NewInv
  <2> QED BY <1>1, <2>1, FileRoomsAssumption DEF Unused
<1>2. ASSUME NEW g \in Work \cap Work', g.creating /\ g.op \in Joins /\ g.room \in RoomId \ T
      PROVE  New(g.room, g)'
  <2>1. PICK r \in RoomId \ T : r = g.room
    BY <1>2
  <2>2. New(r, g)
    BY <1>2, <2>1 DEF NewInv
  <2>3. r \notin shared' /\ members'[r] \subseteq {g.socket} /\ \A s \in Socket : roomOf'[s] # r
    BY <2>2 DEF New
  <2>4. \A k \in Work' : k.room = r => k = g
    BY <2>1, <2>2, FileRoomsAssumption DEF New
  <2>5. \A p \in Page : \A m \in ToSet(toPage'[p]) : m.type = "ROOM_CREATED" => m.room # r
    BY <2>2 DEF New
  <2> QED BY <2>1, <2>3, <2>4, <2>5 DEF New
<1> QED BY <1>1, <1>2


\* A handler of the server begins.
Counting == contended' = contended \cup {r \in RoomId : Cardinality(AtWork(r)') > 1}

LEMMA RequestLines ==
  ASSUME TypeInv, RoomsInv, NEW s \in Socket, NEW type, Request(s, type), UNCHANGED starts
  PROVE  /\ \A t \in Socket : Line(t)' /\ (Asking(t)' => Asking(t))
         /\ \A t \in Socket \ {s} : Gone(t)' <=> Gone(t)
         /\ ~Gone(s)
         /\ type \in Asks => Asking(s) /\ ~Asking(s)'
         /\ type # "disconnect" => ~Gone(s)'
         /\ type = "disconnect" => Gone(s)' /\ ~Asking(s)
<1>1. Line(s)
  BY DEF RoomsInv
<1>2. /\ Line(s)' /\ ~Gone(s) /\ (Asking(s)' => Asking(s))
      /\ type \in Asks => Asking(s) /\ ~Asking(s)'
      /\ type # "disconnect" => ~Gone(s)'
      /\ type = "disconnect" => Gone(s)' /\ ~Asking(s)
  BY <1>1, LineTaken
<1>3. ASSUME NEW t \in Socket \ {s}
      PROVE  Line(t)' /\ (Gone(t)' <=> Gone(t)) /\ (Asking(t)' <=> Asking(t))
  <2>1. toServer'[t] = toServer[t] /\ connection' = connection
    BY RequestTaken
  <2>2. (Old(t)' <=> Old(t)) /\ (t[2] > connection'[t[1]] => t[2] > connection[t[1]])
    BY <2>1 DEF Old
  <2>3. Line(t)
    BY DEF RoomsInv
  <2> QED BY <2>1, <2>2, <2>3, LineKept
<1>4. ASSUME NEW t \in Socket PROVE Line(t)' /\ (Asking(t)' => Asking(t))
  <2>1. CASE t = s
    BY <1>2, <2>1
  <2>2. CASE t # s
    BY <1>3, <2>2
  <2> QED BY <2>1, <2>2
<1>5. \A t \in Socket \ {s} : Gone(t)' <=> Gone(t)
  BY <1>3
<1> QED BY <1>2, <1>4, <1>5

\* A socket that asks for a room: no other handler is at work for it.
LEMMA EnterPlaced ==
  ASSUME TypeInv, RoomsInv, NEW s \in Socket, NEW r \in RoomId, NEW creating \in BOOLEAN,
         NEW type \in Asks, Request(s, type), enterRoom(s, r, creating), UNCHANGED <<starts, overtaken>>,
         contended \subseteq contended'
  PROVE  /\ OneEach(redis') /\ \A t \in Socket : Line(t)' /\ Place(t)'
         /\ \E x \in Command :
              /\ Work' = Work \cup {x} /\ x \notin Work
              /\ x.op = "smembers" /\ x.socket = s /\ x.room = r /\ x.creating = creating
         /\ members' = [members EXCEPT ![r] = @ \cup {s}]
         /\ roomOf[s] = None /\ \A q \in RoomId : s \notin members[q] /\ s \notin peers[q]
         /\ UNCHANGED <<toPage, peers, roomOf, fileStats>>
<1>1. PICK x \in Command :
        x = [op |-> "smembers", socket |-> s, room |-> r, found |-> {}, creating |-> creating]
  BY CommandMade
<1>2. /\ redis' = Append(redis, x) /\ members' = [members EXCEPT ![r] = @ \cup {s}]
      /\ UNCHANGED <<toPage, peers, roomOf, fileStats>>
  BY <1>1 DEF enterRoom, Issue, redisVars
<1>3. x.op = "smembers" /\ x.socket = s /\ x.room = r /\ x.creating = creating
  BY <1>1
<1>4. /\ \A t \in Socket : Line(t)' /\ (Asking(t)' => Asking(t))
      /\ \A t \in Socket \ {s} : Gone(t)' <=> Gone(t)
      /\ ~Gone(s) /\ ~Gone(s)' /\ Asking(s) /\ ~Asking(s)'
  BY RequestLines DEF Asks
<1>5. Place(s) /\ OneEach(redis)
  BY DEF RoomsInv
<1>6. /\ Joining(s) = {} /\ Removing(s) = {} /\ s \notin overtaken /\ starts[s] # 0
      /\ roomOf[s] = None /\ \A q \in RoomId : s \notin members[q] /\ s \notin peers[q]
  BY <1>4, <1>5 DEF Place, GonePlace, AskingPlace
<1>7. \A g \in Work : ~Alike(g, x)
  BY <1>3, <1>6 DEF Alike, Joining, Joins
<1>8. OneEach(redis') /\ Work' = Work \cup {x} /\ x \notin Work
  BY <1>2, <1>5, <1>7, IssuedWork
<1>9. /\ members \in [RoomId -> SUBSET Socket] /\ peers \in [RoomId -> SUBSET Socket]
  BY WorkTypes
<1>10. ASSUME NEW t \in Socket \ {s} PROVE Place(t)'
  <2>1. Place(t)
    BY DEF RoomsInv
  <2>2. PICK A, B : A = {} /\ B = {x}
    OBVIOUS
  <2>3. Work' = (Work \ A) \cup B /\ \A h \in A \cup B : h.socket = s
    BY <1>3, <1>8, <2>2
  <2>4. \A q \in RoomId : t \in members'[q] <=> t \in members[q]
    BY <1>2, <1>9
  <2>5. \A q \in RoomId : t \in peers'[q] => t \in peers[q]
    BY <1>2
  <2> QED BY <1>2, <1>4, <2>1, <2>3, <2>4, <2>5, OthersPlaced
<1>11. Joining(s)' = {x} /\ Removing(s)' = {}
  BY <1>3, <1>6, <1>8 DEF Joining, Removing, Joins
<1>12. s \in members'[r] /\ \A q \in RoomId \ {r} : s \notin members'[q]
  BY <1>2, <1>6, <1>9
<1>13. Place(s)'
  <2>1. GonePlace(s)'
    BY <1>4, <1>6, <1>11 DEF GonePlace
  <2>2. AskingPlace(s)'
    BY <1>2, <1>4, <1>6 DEF AskingPlace
  <2>3. RemovingPlace(s)'
    BY <1>11 DEF RemovingPlace
  <2>4. ListedPlace(s)'
    BY <1>2, <1>3, <1>6, <1>11, <1>12, FileRoomsAssumption DEF ListedPlace
  <2>5. JoiningPlace(s)'
    BY <1>3, <1>11, <1>12 DEF JoiningPlace
  <2> QED BY <2>1, <2>2, <2>3, <2>4, <2>5 DEF Place
<1> QED BY <1>2, <1>3, <1>4, <1>6, <1>8, <1>10, <1>13

\* The rooms that a new handler is not at work on.
LEMMA AtKept ==
  ASSUME NEW A, NEW B, Work' = (Work \ A) \cup B, NEW r \in RoomId,
         \A h \in A : ~Works(h, r), \A h \in B : ~Works(h, r)',
         \A h \in Work \ A : Works(h, r)' <=> Works(h, r)
  PROVE  At(r)' = At(r)
BY DEF At

LEMMA handleCreateRoomRooms ==
  ASSUME TypeInv, TypeInv', RoomsInv, NEW s \in Socket, handleCreateRoom(s), Counting,
         UNCHANGED <<sessionVars, overtaken>>
  PROVE  RoomsInv'
<1>1. PICK r \in RoomId \ issued : issued' = issued \cup {r} /\ enterRoom(s, r, TRUE)
  BY DEF handleCreateRoom
<1>2. Request(s, "CREATE_ROOM") /\ UNCHANGED <<starts, shared>> /\ contended \subseteq contended'
  BY DEF handleCreateRoom, sessionVars, Counting
<1>3. PICK x \in Command :
        /\ OneEach(redis') /\ \A t \in Socket : Line(t)' /\ Place(t)'
        /\ Work' = Work \cup {x} /\ x \notin Work
        /\ x.op = "smembers" /\ x.socket = s /\ x.room = r /\ x.creating = TRUE
        /\ members' = [members EXCEPT ![r] = @ \cup {s}]
        /\ roomOf[s] = None /\ \A q \in RoomId : s \notin members[q] /\ s \notin peers[q]
        /\ UNCHANGED <<toPage, peers, roomOf, fileStats>>
  <2>1. PICK type \in Asks, c \in BOOLEAN : type = "CREATE_ROOM" /\ c = TRUE
    BY DEF Asks
  <2>2. Request(s, type) /\ enterRoom(s, r, c) /\ UNCHANGED <<starts, overtaken>>
    BY <1>1, <1>2, <2>1
  <2>3. \E x \in Command :
          /\ Work' = Work \cup {x} /\ x \notin Work
          /\ x.op = "smembers" /\ x.socket = s /\ x.room = r /\ x.creating = c
    BY <1>2, <2>2, EnterPlaced
  <2>4. /\ OneEach(redis') /\ \A t \in Socket : Line(t)' /\ Place(t)'
        /\ members' = [members EXCEPT ![r] = @ \cup {s}]
        /\ roomOf[s] = None /\ \A q \in RoomId : s \notin members[q] /\ s \notin peers[q]
        /\ UNCHANGED <<toPage, peers, roomOf, fileStats>>
    BY <1>2, <2>2, EnterPlaced
  <2> QED BY <2>1, <2>3, <2>4
<1>4. Unused(r) /\ NewInv
  BY <1>1 DEF RoomsInv, NewInv
<1>5. members \in [RoomId -> SUBSET Socket] /\ issued \subseteq RoomId /\ shared \subseteq issued
      /\ \A h \in Work : h.socket \in Socket /\ h.room # r
  BY <1>4, WorkTypes DEF Unused
<1>6. members'[r] = {s} /\ \A q \in RoomId \ {r} : members'[q] = members[q]
  BY <1>3, <1>4, <1>5 DEF Unused
<1>7. NewInv'
  <2>1. PICK A, B, T : A = {} /\ B = {x} /\ T = {r}
    OBVIOUS
  <2>2. /\ Work' = (Work \ A) \cup B
        /\ \A h \in B : h.room \in T \cup {None}
        /\ issued \subseteq issued' \cup T /\ shared' \subseteq shared \cup T
    BY <1>1, <1>2, <1>3, <2>1
  <2>3. \A p \in Page : \A m \in ToSet(toPage'[p]) :
           m.type = "ROOM_CREATED" => m \in ToSet(toPage[p]) \/ m.room \in T
    BY <1>3
  <2>4. \A q \in RoomId \ T :
          /\ members'[q] \subseteq members[q] /\ peers'[q] \subseteq peers[q]
          /\ fileStats[q] = None => fileStats'[q] = None
          /\ \A t \in Socket : roomOf'[t] = q => roomOf[t] = q
    BY <1>3, <1>6, <2>1
  <2>5. /\ \A q \in RoomId \ (issued' \cup T) : Unused(q)'
        /\ \A g \in Work \cap Work' :
             g.creating /\ g.op \in Joins /\ g.room \in RoomId \ T => New(g.room, g)'
    BY <1>4, <2>2, <2>3, <2>4, NewKept
  <2>6. New(r, x)'
    <3>1. \A p \in Page : \A m \in ToSet(toPage[p]) : m.type = "ROOM_CREATED" => m.room # r
      BY <1>1 DEF TypeInv, KnownAnswers
    <3>2. r \notin shared'
      BY <1>1, <1>2, <1>5
    <3>3. \A g \in Work' : g.room = r => g = x
      BY <1>3, <1>5
    <3>4. \A t \in Socket : roomOf'[t] # r
      BY <1>3, <1>4 DEF Unused
    <3> QED BY <1>3, <1>6, <3>1, <3>2, <3>3, <3>4 DEF New
  <2>7. ASSUME NEW h \in Work', h.creating /\ h.op \in Joins PROVE New(h.room, h)'
    <3>1. CASE h = x
      BY <1>3, <2>6, <3>1
    <3>2. CASE h # x
      <4>1. h \in Work /\ h.room \in RoomId \ T
        BY <1>3, <1>5, <2>1, <2>7, <3>2, WorkTypes DEF Joins
      <4> QED BY <2>5, <2>7, <4>1
    <3> QED BY <3>1, <3>2
  <2>8. \A q \in RoomId \ issued' : Unused(q)'
    BY <1>1, <2>1, <2>5
  <2> QED BY <2>7, <2>8 DEF NewInv
<1>8. ASSUME NEW q \in RoomId \ contended' PROVE Agree(q)'
  <2>1. CASE q # r
    <3>1. PICK A, B : A = {} /\ B = {x}
      OBVIOUS
    <3>2. At(q)' = At(q)
      <4>1. Work' = (Work \ A) \cup B
        BY <1>3, <3>1
      <4>2. (\A h \in A : ~Works(h, q)) /\ \A h \in B : ~Works(h, q)'
        BY <1>3, <2>1, <3>1, FileRoomsAssumption DEF Works
      <4>3. \A h \in Work \ A : Works(h, q)' <=> Works(h, q)
        BY <1>3 DEF Works
      <4> QED BY <4>1, <4>2, <4>3, AtKept
    <3>3. Agree(q)
      BY <1>2 DEF RoomsInv
    <3> QED BY <1>3, <1>6, <2>1, <3>2, <3>3, AgreeKept
  <2>2. CASE q = r
    <3>1. At(r)' = {x}
      BY <1>3, <1>4, <1>5 DEF At, Works, Unused
    <3>2. Stage(x, members'[r], peers'[r], fileStats'[r])
      BY <1>3, <1>4, <1>6 DEF Stage, Unused, Counted, Joins
    <3> QED BY <2>2, <3>1, <3>2 DEF Agree
  <2> QED BY <2>1, <2>2
<1> QED BY <1>3, <1>7, <1>8 DEF RoomsInv


LEMMA handleJoinRoomRooms ==
  ASSUME TypeInv, TypeInv', RoomsInv, NEW s \in Socket, handleJoinRoom(s), Counting,
         UNCHANGED <<sessionVars, overtaken>>
  PROVE  RoomsInv'
<1>1. /\ Request(s, "JOIN_ROOM") /\ UNCHANGED <<issued, starts, shared>>
      /\ contended \subseteq contended'
  BY DEF handleJoinRoom, sessionVars, Counting
<1>2. PICK r : r = Head(toServer[s]).room
  OBVIOUS
<1>3. r \in RoomId /\ r \in shared /\ enterRoom(s, r, FALSE)
  <2>1. Head(toServer[s]) \in ToServer /\ Head(toServer[s]).type = "JOIN_ROOM"
        /\ Head(toServer[s]) \in ToSet(toServer[s])
    BY <1>1, RequestTaken
  <2> QED BY <1>2, <2>1, ToServerTypes DEF TypeInv, KnownRequests, handleJoinRoom
<1>4. PICK x \in Command :
        /\ OneEach(redis') /\ \A t \in Socket : Line(t)' /\ Place(t)'
        /\ Work' = Work \cup {x} /\ x \notin Work
        /\ x.op = "smembers" /\ x.socket = s /\ x.room = r /\ x.creating = FALSE
        /\ members' = [members EXCEPT ![r] = @ \cup {s}]
        /\ roomOf[s] = None /\ \A q \in RoomId : s \notin members[q] /\ s \notin peers[q]
        /\ UNCHANGED <<toPage, peers, roomOf, fileStats>>
  <2>1. PICK type \in Asks, c \in BOOLEAN : type = "JOIN_ROOM" /\ c = FALSE
    BY DEF Asks
  <2>2. Request(s, type) /\ enterRoom(s, r, c) /\ UNCHANGED <<starts, overtaken>>
    BY <1>1, <1>3, <2>1
  <2>3. \E x \in Command :
          /\ Work' = Work \cup {x} /\ x \notin Work
          /\ x.op = "smembers" /\ x.socket = s /\ x.room = r /\ x.creating = c
    BY <1>1, <1>3, <2>2, EnterPlaced
  <2>4. /\ OneEach(redis') /\ \A t \in Socket : Line(t)' /\ Place(t)'
        /\ members' = [members EXCEPT ![r] = @ \cup {s}]
        /\ roomOf[s] = None /\ \A q \in RoomId : s \notin members[q] /\ s \notin peers[q]
        /\ UNCHANGED <<toPage, peers, roomOf, fileStats>>
    BY <1>1, <1>3, <2>2, EnterPlaced
  <2> QED BY <2>1, <2>3, <2>4
<1>5. NewInv
  BY DEF RoomsInv
<1>6. members \in [RoomId -> SUBSET Socket] /\ issued \subseteq RoomId /\ shared \subseteq issued
      /\ \A h \in Work : h.socket \in Socket
  BY WorkTypes
<1>7. members'[r] = members[r] \cup {s} /\ \A q \in RoomId \ {r} : members'[q] = members[q]
  BY <1>3, <1>4, <1>6
<1>8. NewInv'
  <2>1. PICK A, B, T : A = {} /\ B = {x} /\ T = {r}
    OBVIOUS
  <2>2. /\ Work' = (Work \ A) \cup B
        /\ \A h \in B : h.room \in T \cup {None}
        /\ issued \subseteq issued' \cup T /\ shared' \subseteq shared \cup T
    BY <1>1, <1>4, <2>1
  <2>3. \A p \in Page : \A m \in ToSet(toPage'[p]) :
           m.type = "ROOM_CREATED" => m \in ToSet(toPage[p]) \/ m.room \in T
    BY <1>4
  <2>4. \A q \in RoomId \ T :
          /\ members'[q] \subseteq members[q] /\ peers'[q] \subseteq peers[q]
          /\ fileStats[q] = None => fileStats'[q] = None
          /\ \A t \in Socket : roomOf'[t] = q => roomOf[t] = q
    BY <1>4, <1>7, <2>1
  <2>5. /\ \A q \in RoomId \ (issued' \cup T) : Unused(q)'
        /\ \A g \in Work \cap Work' :
             g.creating /\ g.op \in Joins /\ g.room \in RoomId \ T => New(g.room, g)'
    BY <1>5, <2>2, <2>3, <2>4, NewKept
  <2>6. ASSUME NEW h \in Work', h.creating /\ h.op \in Joins PROVE New(h.room, h)'
    <3>1. h \in Work
      BY <1>4, <2>6
    <3>2. h.room \in RoomId
      BY <2>6, <3>1, WorkTypes DEF Joins
    <3>3. h.room # r
      BY <1>3, <1>5, <2>6, <3>1 DEF NewInv, New
    <3> QED BY <2>1, <2>5, <2>6, <3>1, <3>2, <3>3
  <2>7. \A q \in RoomId \ issued' : Unused(q)'
    BY <1>1, <1>3, <1>6, <2>1, <2>5
  <2> QED BY <2>6, <2>7 DEF NewInv
<1>9. ASSUME NEW q \in RoomId \ contended' PROVE Agree(q)'
  <2>1. CASE q # r
    <3>1. PICK A, B : A = {} /\ B = {x}
      OBVIOUS
    <3>2. At(q)' = At(q)
      <4>1. Work' = (Work \ A) \cup B
        BY <1>4, <3>1
      <4>2. (\A h \in A : ~Works(h, q)) /\ \A h \in B : ~Works(h, q)'
        BY <1>4, <2>1, <3>1, FileRoomsAssumption DEF Works
      <4>3. \A h \in Work \ A : Works(h, q)' <=> Works(h, q)
        BY <1>4 DEF Works
      <4> QED BY <4>1, <4>2, <4>3, AtKept
    <3>3. Agree(q)
      BY <1>1 DEF RoomsInv
    <3> QED BY <1>4, <1>7, <2>1, <3>2, <3>3, AgreeKept
  <2>2. CASE q = r
    <3>1. \A g, h \in At(q)' : g = h
      BY AloneAtWork DEF Counting
    <3>2. At(q)' = {x}
      <4>1. x \in At(q)'
        BY <1>4, <2>2 DEF At, Works
      <4> QED BY <3>1, <4>1
    <3>3. At(q) = {}
      <4> SUFFICES ASSUME NEW g \in At(q) PROVE FALSE
        OBVIOUS
      <4>1. g \in At(q)' /\ g \in Work
        BY <1>4 DEF At, Works
      <4> QED BY <1>4, <3>2, <4>1
    <3>4. peers[q] = members[q] /\ Counted(fileStats[q], members[q])
      BY <1>1, <3>3 DEF RoomsInv, Agree
    <3>5. members[q] = members'[q] \ {s}
      BY <1>4, <1>7, <2>2
    <3>6. Stage(x, members'[q], peers'[q], fileStats'[q])
      BY <1>4, <3>4, <3>5 DEF Stage
    <3> QED BY <3>2, <3>6 DEF Agree
  <2> QED BY <2>1, <2>2
<1> QED BY <1>4, <1>8, <1>9 DEF RoomsInv


LEMMA handleDisconnectRooms ==
  ASSUME TypeInv, TypeInv', RoomsInv, NEW s \in Socket, handleDisconnect(s), Counting,
         UNCHANGED <<sessionVars, overtaken>>
  PROVE  RoomsInv'
<1>1. /\ Request(s, "disconnect") /\ UNCHANGED <<starts, shared>>
      /\ members' = [r \in RoomId |-> members[r] \ {s}]
      /\ UNCHANGED <<toPage, issued, peers, roomOf, fileStats>>
      /\ contended \subseteq contended'
  BY DEF handleDisconnect, sessionVars, redisVars, Counting
<1>2. PICK x \in Command :
        x = [op |-> "get", socket |-> s, room |-> None, found |-> {}, creating |-> FALSE]
  BY CommandMade
<1>3. redis' = Append(redis, x) /\ x.op = "get" /\ x.socket = s /\ x.room = None
  BY <1>2 DEF handleDisconnect, Issue
<1>4. /\ \A t \in Socket : Line(t)' /\ (Asking(t)' => Asking(t))
      /\ \A t \in Socket \ {s} : Gone(t)' <=> Gone(t)
      /\ ~Gone(s) /\ Gone(s)' /\ ~Asking(s)
  BY <1>1, RequestLines
<1>5. Place(s) /\ OneEach(redis) /\ NewInv
  BY DEF RoomsInv
<1>6. Removing(s) = {} /\ s \notin overtaken
  BY <1>4, <1>5 DEF Place, GonePlace
<1>7. \A g \in Work : ~Alike(g, x)
  BY <1>3, <1>6 DEF Alike, Removing, Joins
<1>8. OneEach(redis') /\ Work' = Work \cup {x} /\ x \notin Work
  BY <1>3, <1>5, <1>7, IssuedWork
<1>9. /\ members \in [RoomId -> SUBSET Socket] /\ peers \in [RoomId -> SUBSET Socket]
      /\ \A r \in RoomId : members'[r] = members[r] \ {s}
  BY <1>1, WorkTypes
<1>10. ASSUME NEW t \in Socket \ {s} PROVE Place(t)'
  <2>1. Place(t)
    BY DEF RoomsInv
  <2>2. PICK A, B : A = {} /\ B = {x}
    OBVIOUS
  <2>3. Work' = (Work \ A) \cup B /\ \A h \in A \cup B : h.socket = s
    BY <1>3, <1>8, <2>2
  <2>4. \A q \in RoomId : t \in members'[q] <=> t \in members[q]
    BY <1>9
  <2>5. \A q \in RoomId : t \in peers'[q] => t \in peers[q]
    BY <1>1
  <2> QED BY <1>1, <1>4, <2>1, <2>3, <2>4, <2>5, OthersPlaced
<1>11. PICK J : J = Joining(s)
  OBVIOUS
<1>12. Joining(s)' = J /\ Removing(s)' = {x}
  BY <1>3, <1>6, <1>8, <1>11 DEF Joining, Removing, Joins
<1>13. Place(s)'
  <2>1. GonePlace(s)'
    BY <1>1, <1>4, <1>6, <1>9, <1>12 DEF GonePlace
  <2>2. AskingPlace(s)'
    BY <1>1, <1>4, <1>5, <1>9, <1>11, <1>12 DEF AskingPlace, Place
  <2>3. RemovingPlace(s)'
    BY <1>3, <1>12 DEF RemovingPlace
  <2>4. ListedPlace(s)'
    BY <1>1, <1>3, <1>5, <1>9, <1>11, <1>12 DEF ListedPlace, Place
  <2>5. JoiningPlace(s)'
    BY <1>3, <1>12 DEF JoiningPlace
  <2> QED BY <2>1, <2>2, <2>3, <2>4, <2>5 DEF Place
<1>14. \A t \in Socket : Place(t)'
  BY <1>10, <1>13
<1>15. NewInv'
  <2>1. PICK A, B, T : A = {} /\ B = {x} /\ T = {}
    OBVIOUS
  <2>2. /\ Work' = (Work \ A) \cup B
        /\ \A h \in B : h.room \in T \cup {None}
        /\ issued \subseteq issued' \cup T /\ shared' \subseteq shared \cup T
    BY <1>1, <1>3, <1>8, <2>1
  <2>3. \A p \in Page : \A m \in ToSet(toPage'[p]) :
           m.type = "ROOM_CREATED" => m \in ToSet(toPage[p]) \/ m.room \in T
    BY <1>1
  <2>4. \A q \in RoomId \ T :
          /\ members'[q] \subseteq members[q] /\ peers'[q] \subseteq peers[q]
          /\ fileStats[q] = None => fileStats'[q] = None
          /\ \A t \in Socket : roomOf'[t] = q => roomOf[t] = q
    BY <1>1, <1>9
  <2>5. /\ \A q \in RoomId \ (issued' \cup T) : Unused(q)'
        /\ \A g \in Work \cap Work' :
             g.creating /\ g.op \in Joins /\ g.room \in RoomId \ T => New(g.room, g)'
    BY <1>5, <2>2, <2>3, <2>4, NewKept
  <2>6. ASSUME NEW h \in Work', h.creating /\ h.op \in Joins PROVE New(h.room, h)'
    <3>1. h \in Work
      BY <1>3, <1>8, <2>6 DEF Joins
    <3>2. h.room \in RoomId
      BY <2>6, <3>1, WorkTypes DEF Joins
    <3> QED BY <2>1, <2>5, <2>6, <3>1, <3>2
  <2>7. \A q \in RoomId \ issued' : Unused(q)'
    BY <2>1, <2>5
  <2> QED BY <2>6, <2>7 DEF NewInv
<1>16. ASSUME NEW q \in RoomId \ contended' PROVE Agree(q)'
  <2>1. Agree(q)
    BY <1>1 DEF RoomsInv
  <2>2. \A h \in Work : Works(h, q)' <=> Works(h, q)
    BY <1>1 DEF Works
  <2>3. CASE roomOf[s] = q
    <3>1. \A g, h \in At(q)' : g = h
      BY AloneAtWork DEF Counting
    <3>2. At(q)' = {x}
      <4>1. x \in At(q)'
        BY <1>1, <1>3, <1>8, <2>3 DEF At, Works
      <4> QED BY <3>1, <4>1
    <3>3. At(q) = {}
      <4> SUFFICES ASSUME NEW g \in At(q) PROVE FALSE
        OBVIOUS
      <4>1. g \in At(q)' /\ g \in Work
        BY <1>8, <2>2 DEF At
      <4> QED BY <1>8, <3>2, <4>1
    <3>4. peers[q] = members[q]
      BY <2>1, <3>3 DEF Agree
    <3>5. s \in members[q]
      BY <1>5, <1>6, <2>3 DEF Place, ListedPlace
    <3>6. Stage(x, members'[q], peers'[q], fileStats'[q])
      BY <1>1, <1>3, <1>9, <3>4, <3>5 DEF Stage, Joins
    <3> QED BY <3>2, <3>6 DEF Agree
  <2>4. CASE roomOf[s] # q
    <3>1. PICK A, B : A = {} /\ B = {x}
      OBVIOUS
    <3>2. At(q)' = At(q)
      <4>1. Work' = (Work \ A) \cup B
        BY <1>8, <3>1
      <4>2. (\A h \in A : ~Works(h, q)) /\ \A h \in B : ~Works(h, q)'
        BY <1>1, <1>3, <2>4, <3>1, FileRoomsAssumption DEF Works
      <4> QED BY <2>2, <4>1, <4>2, <3>1, AtKept
    <3>3. CASE s \notin members[q]
      <4>1. members'[q] = members[q]
        BY <1>9, <3>3
      <4> QED BY <1>1, <2>1, <3>2, <4>1, AgreeKept
    <3>4. CASE s \in members[q]
      <4>1. PICK h \in Work : h.socket = s /\ h.op \in Joins /\ h.room = q
        BY <1>5, <2>4, <3>4 DEF Place, ListedPlace, Joining
      <4>2. At(q) = {h} /\ Stage(h, members[q], peers[q], fileStats[q])
        BY <2>1, <4>1 DEF Agree, At, Works
      <4>3. /\ members'[q] \ {s} = members[q] \ {s}
            /\ members'[q] \cup {s} = members[q] \cup {s}
        BY <1>9
      <4>4. Stage(h, members'[q], peers'[q], fileStats'[q])
        BY <1>1, <4>1, <4>2, <4>3 DEF Stage, Joins
      <4> QED BY <3>2, <4>2, <4>4 DEF Agree
    <3> QED BY <3>3, <3>4
  <2> QED BY <2>3, <2>4
<1> QED BY <1>4, <1>8, <1>14, <1>15, <1>16 DEF RoomsInv

\* The handlers that change no room.
LEMMA IdleRooms ==
  ASSUME TypeInv, RoomsInv, NEW s \in Socket, NEW type, Request(s, type),
         type \notin Asks \cup {"disconnect"},
         UNCHANGED <<issued, members, peers, roomOf, redis, sessionVars, overtaken>>,
         contended \subseteq contended',
         \A r \in RoomId : /\ fileStats'[r] = None <=> fileStats[r] = None
                           /\ fileStats[r] # None =>
                                fileStats'[r].peerCount = fileStats[r].peerCount,
         \A p \in Page : \A m \in ToSet(toPage'[p]) :
           m.type = "ROOM_CREATED" => m \in ToSet(toPage[p])
  PROVE  RoomsInv'
<1>1. UNCHANGED <<starts, shared>> /\ Work' = Work
  BY DEF sessionVars, Work
<1>2. /\ \A t \in Socket : Line(t)' /\ (Asking(t)' => Asking(t))
      /\ \A t \in Socket \ {s} : Gone(t)' <=> Gone(t)
      /\ ~Gone(s) /\ ~Gone(s)'
  BY <1>1, RequestLines
<1>3. ASSUME NEW t \in Socket PROVE Place(t)'
  <2>1. Place(t)
    BY DEF RoomsInv
  <2>2. Joining(t)' = Joining(t) /\ Removing(t)' = Removing(t)
    BY <1>1 DEF Joining, Removing
  <2>3. /\ \A h \in Removing(t) : h.op = "get" \/ h.room \in RoomId
        /\ \A h \in Joining(t) : h.room \in RoomId
    BY WorkTypes DEF Removing, Joining, Joins
  <2>4. Gone(t)' <=> Gone(t)
    <3>1. CASE t = s
      BY <1>2, <3>1
    <3>2. CASE t # s
      BY <1>2, <3>2
    <3> QED BY <3>1, <3>2
  <2>5. Asking(t)' => Asking(t)
    BY <1>2
  <2> QED BY <1>1, <2>1, <2>2, <2>3, <2>4, <2>5, PlaceKept
<1>4. NewInv'
  <2>1. PICK A, B, T : A = {} /\ B = {} /\ T = {}
    OBVIOUS
  <2>2. NewInv /\ Work' = (Work \ A) \cup B
    BY <1>1, <2>1 DEF RoomsInv
  <2>3. \A h \in B : h.room \in T \cup {None}
    BY <2>1
  <2>4. issued \subseteq issued' \cup T /\ shared' \subseteq shared \cup T
    BY <1>1
  <2>5. \A p \in Page : \A m \in ToSet(toPage'[p]) :
           m.type = "ROOM_CREATED" => m \in ToSet(toPage[p]) \/ m.room \in T
    OBVIOUS
  <2>6. \A q \in RoomId \ T :
          /\ members'[q] \subseteq members[q] /\ peers'[q] \subseteq peers[q]
          /\ fileStats[q] = None => fileStats'[q] = None
          /\ \A t \in Socket : roomOf'[t] = q => roomOf[t] = q
    OBVIOUS
  <2>7. /\ \A q \in RoomId \ (issued' \cup T) : Unused(q)'
        /\ \A g \in Work \cap Work' :
             g.creating /\ g.op \in Joins /\ g.room \in RoomId \ T => New(g.room, g)'
    BY <2>2, <2>3, <2>4, <2>5, <2>6, NewKept
  <2>8. ASSUME NEW h \in Work', h.creating /\ h.op \in Joins PROVE New(h.room, h)'
    <3>1. h \in Work
      BY <1>1, <2>8
    <3>2. h.room \in RoomId
      BY <2>8, <3>1, WorkTypes DEF Joins
    <3> QED BY <2>1, <2>7, <2>8, <3>1, <3>2
  <2>9. \A q \in RoomId \ issued' : Unused(q)'
    BY <2>1, <2>7
  <2> QED BY <2>8, <2>9 DEF NewInv
<1>5. ASSUME NEW q \in RoomId \ contended' PROVE Agree(q)'
  <2>1. Agree(q) /\ At(q)' = At(q)
    BY <1>1 DEF RoomsInv, At, Works
  <2> QED BY <2>1, AgreeKept
<1>6. OneEach(redis')
  BY DEF RoomsInv
<1> QED BY <1>2, <1>3, <1>4, <1>5, <1>6 DEF RoomsInv

LEMMA handleConnectionInfoRooms ==
  ASSUME TypeInv, RoomsInv, NEW s \in Socket, handleConnectionInfo(s),
         contended \subseteq contended', UNCHANGED <<sessionVars, overtaken>>
  PROVE  RoomsInv'
<1>1. /\ Request(s, "CONNECTION_INFO")
      /\ UNCHANGED <<toPage, issued, members, peers, roomOf, redis>>
  BY DEF handleConnectionInfo, redisVars
<1>2. PICK m : m = Head(toServer[s])
  OBVIOUS
<1>3. m \in ToServer /\ m.type = "CONNECTION_INFO"
  BY <1>1, <1>2, RequestTaken
<1>4. PICK t, r : t \in ConnectionType /\ t = m.connectionType /\ r \in RoomId /\ r = m.room
  BY <1>3, ToServerTypes
<1>5. fileStats \in [RoomId -> FileRoomStat \cup {None}]
  BY WorkTypes
<1>6. /\ \A q \in RoomId \ {r} : fileStats'[q] = fileStats[q]
      /\ \/ fileStats'[r] = fileStats[r]
         \/ fileStats[r] # None /\ fileStats'[r] = [fileStats[r] EXCEPT !.connectionType = t]
  BY <1>2, <1>4, <1>5 DEF handleConnectionInfo
<1>7. /\ fileStats'[r] = None <=> fileStats[r] = None
      /\ fileStats[r] # None => fileStats'[r].peerCount = fileStats[r].peerCount
  BY <1>4, <1>5, <1>6, StatConnected
<1>8. "CONNECTION_INFO" \notin Asks \cup {"disconnect"}
  BY DEF Asks
<1>9. \A q \in RoomId : /\ fileStats'[q] = None <=> fileStats[q] = None
                        /\ fileStats[q] # None =>
                             fileStats'[q].peerCount = fileStats[q].peerCount
  BY <1>6, <1>7
<1> QED BY <1>1, <1>8, <1>9, IdleRooms

LEMMA handleSignalRooms ==
  ASSUME TypeInv, RoomsInv, NEW s \in Socket, handleSignal(s),
         contended \subseteq contended', UNCHANGED <<sessionVars, overtaken>>
  PROVE  RoomsInv'
<1>1. PICK type \in {"SDP_OFFER", "SDP_ANSWER", "ICE_CANDIDATE"} : Request(s, type)
  BY DEF handleSignal
<1>2. UNCHANGED <<issued, members, peers, roomOf, redis, fileStats>>
  BY DEF handleSignal, roomVars, redisVars
<1>3. type \notin Asks \cup {"disconnect"}
  BY <1>1 DEF Asks
<1>4. PICK m, n : m = Head(toServer[s]) /\ n = [m EXCEPT !.peer = s]
  OBVIOUS
<1>5. m \in Signal /\ n \in Signal
  BY <1>1, <1>4, RequestTaken, ToServerTypes, SignalTypes
<1>6. n \in ToPage /\ n.type # "ROOM_CREATED" /\ m.peer \in Socket
  BY <1>5, SignalTypes
<1>7. PICK sent : sent = To({m.peer}, n)
  OBVIOUS
<1>8. Emit(sent) /\ \A t \in DOMAIN sent : sent[t] = n
  BY <1>4, <1>7 DEF handleSignal, To
<1>9. \A p \in Page :
        \/ toPage'[p] = toPage[p]
        \/ /\ SocketOf(p) \in DOMAIN sent
           /\ ToSet(toPage'[p]) = ToSet(toPage[p]) \cup {sent[SocketOf(p)]}
  BY <1>6, <1>8, Emitted
<1>10. \A p \in Page : \A k \in ToSet(toPage'[p]) :
         k.type = "ROOM_CREATED" => k \in ToSet(toPage[p])
  BY <1>6, <1>8, <1>9
<1> QED BY <1>1, <1>2, <1>3, <1>10, IdleRooms

LEMMA ServerStepRooms ==
  ASSUME TypeInv, TypeInv', RoomsInv, NEW s \in Socket, ServerStep(s)
  PROVE  RoomsInv'
<1>1. /\ Handler(s) /\ Counting /\ UNCHANGED <<sessionVars, overtaken>>
      /\ contended \subseteq contended'
  BY DEF ServerStep, Counting
<1>2. CASE handleCreateRoom(s)
  BY <1>1, <1>2, handleCreateRoomRooms
<1>3. CASE handleJoinRoom(s)
  BY <1>1, <1>3, handleJoinRoomRooms
<1>4. CASE handleConnectionInfo(s)
  BY <1>1, <1>4, handleConnectionInfoRooms
<1>5. CASE handleSignal(s)
  BY <1>1, <1>5, handleSignalRooms
<1>6. CASE handleDisconnect(s)
  BY <1>1, <1>6, handleDisconnectRooms
<1> QED BY <1>1, <1>2, <1>3, <1>4, <1>5, <1>6 DEF Handler


\* A handler goes on with the reply to its command.
ServerStill == UNCHANGED <<connection, toServer, issued, members, session, shared, starts>>

LEMMA StillLines ==
  ASSUME RoomsInv, ServerStill
  PROVE  \A t \in Socket : Line(t)' /\ (Gone(t)' <=> Gone(t)) /\ (Asking(t)' <=> Asking(t))
<1> SUFFICES ASSUME NEW t \in Socket
             PROVE  Line(t)' /\ (Gone(t)' <=> Gone(t)) /\ (Asking(t)' <=> Asking(t))
  OBVIOUS
<1>1. Line(t) /\ connection' = connection /\ toServer' = toServer /\ starts' = starts
  BY DEF RoomsInv, ServerStill
<1>2. Old(t)' <=> Old(t)
  BY <1>1 DEF Old
<1> QED BY <1>1, <1>2, LineKept

LEMMA JoinPlaced ==
  ASSUME TypeInv, RoomsInv, redis # <<>>, NEW h, h = Head(redis), h.op \in Joins,
         NEW s, s = h.socket
  PROVE  /\ h \in Command /\ h \in Work /\ s \in Socket /\ h.room \in RoomId /\ h.room \in issued
         /\ Joining(s) = {h} /\ ~Asking(s) /\ starts[s] # 0 /\ roomOf[s] = None
         /\ \A g \in Removing(s) : g.op = "get"
<1>1. h \in Command /\ h \in Work /\ s \in Socket /\ h.room \in RoomId /\ h.room \in issued
  BY Replied, WorkTypes DEF Joins
<1>2. redis \in Seq(Command) /\ OneEach(redis) /\ Place(s)
  BY <1>1, WorkTypes DEF RoomsInv
<1>3. Joining(s) = {h}
  <2>1. h \in Joining(s)
    BY <1>1 DEF Joining
  <2>2. ASSUME NEW g \in Joining(s) PROVE g = h
    <3>1. g \in Work /\ Alike(g, h)
      BY DEF Joining, Alike
    <3> QED BY <1>1, <1>2, <3>1, OneOf DEF Work
  <2> QED BY <2>1, <2>2
<1> QED BY <1>1, <1>2, <1>3 DEF Place, AskingPlace, RemovingPlace

LEMMA RemovePlaced ==
  ASSUME TypeInv, RoomsInv, redis # <<>>, NEW h, h = Head(redis), h.op \notin Joins,
         NEW s, s = h.socket
  PROVE  /\ h \in Command /\ h \in Work /\ s \in Socket
         /\ h.op # "get" => h.room \in RoomId /\ h.room \in issued
         /\ Removing(s) = {h} /\ Gone(s) /\ s \notin overtaken
         /\ \A r \in RoomId : s \notin members[r]
<1>1. h \in Command /\ h \in Work /\ s \in Socket
      /\ (h.op # "get" => h.room \in RoomId /\ h.room \in issued)
  BY Replied, WorkTypes
<1>2. redis \in Seq(Command) /\ OneEach(redis) /\ Place(s)
  BY <1>1, WorkTypes DEF RoomsInv
<1>3. Removing(s) = {h}
  <2>1. h \in Removing(s)
    BY <1>1 DEF Removing
  <2>2. ASSUME NEW g \in Removing(s) PROVE g = h
    <3>1. g \in Work /\ Alike(g, h)
      BY DEF Removing, Alike
    <3> QED BY <1>1, <1>2, <3>1, OneOf DEF Work
  <2> QED BY <2>1, <2>2
<1> QED BY <1>1, <1>2, <1>3 DEF Place, GonePlace

LEMMA NoneMissed ==
  ASSUME Reply, NEW h, h = Head(redis), h.op # "get"
  PROVE  UNCHANGED <<overtaken, contended>>
<1>1. PICK missed : /\ missed = Missed(h)
                    /\ overtaken' = overtaken \cup {redis[i].socket : i \in missed}
                    /\ contended' = contended \cup {redis[i].room : i \in missed}
  BY DEF Reply
<1>2. missed = {}
  BY <1>1 DEF Missed
<1> QED BY <1>1, <1>2

LEMMA ReplyOther ==
  ASSUME TypeInv, RoomsInv, ServerStill, NEW t \in Socket,
         \A k \in Work \cup Work' : k.socket = t => (k \in Work <=> k \in Work'),
         roomOf'[t] = roomOf[t], t \in overtaken' <=> t \in overtaken,
         contended \subseteq contended',
         \A r \in RoomId : t \in peers'[r] => t \in peers[r]
  PROVE  Place(t)'
<1>1. Line(t)' /\ (Gone(t)' <=> Gone(t)) /\ (Asking(t)' <=> Asking(t))
  BY StillLines
<1>2. Place(t) /\ starts' = starts /\ members' = members
  BY DEF RoomsInv, ServerStill
<1>3. Joining(t)' = Joining(t) /\ Removing(t)' = Removing(t)
  BY DEF Joining, Removing
<1>4. /\ \A h \in Removing(t) : h.op = "get" \/ h.room \in RoomId
      /\ \A h \in Joining(t) : h.room \in RoomId
  BY WorkTypes DEF Joining, Removing, Joins
<1> QED BY <1>1, <1>2, <1>3, <1>4, PlaceKept

LEMMA OtherRooms ==
  ASSUME TypeInv, RoomsInv, ServerStill, NEW s \in Socket, NEW q \in RoomId, q \notin contended,
         \A k \in Work \cup Work' :
           (k \in Work /\ k \in Work') \/ (k.socket = s /\ k.room # q),
         roomOf[s] # q, roomOf'[s] # q,
         \A t \in Socket \ {s} : roomOf'[t] = roomOf[t],
         peers'[q] = peers[q], fileStats'[q] = fileStats[q]
  PROVE  Agree(q)'
<1>1. At(q)' = At(q)
  <2> SUFFICES ASSUME NEW k
               PROVE  k \in Work' /\ (k.room = q \/ roomOf'[k.socket] = q)
                        <=> k \in Work /\ (k.room = q \/ roomOf[k.socket] = q)
    BY DEF At, Works
  <2>1. CASE k \in Work /\ k \in Work'
    <3>1. k.socket \in Socket
      BY <2>1, WorkTypes
    <3>2. roomOf'[k.socket] = q <=> roomOf[k.socket] = q
      BY <3>1
    <3> QED BY <2>1, <3>2
  <2>2. CASE k.socket = s /\ k.room # q
    BY <2>2
  <2> QED BY <2>1, <2>2
<1>2. Agree(q) /\ members' = members
  BY DEF RoomsInv, ServerStill
<1> QED BY <1>1, <1>2, AgreeKept

LEMMA ReplyNew ==
  ASSUME TypeInv, RoomsInv, ServerStill, redis # <<>>, NEW h, h = Head(redis), h.op # "get",
         NEW x, NEW B, B \subseteq {x}, Work' = (Work \ {h}) \cup B,
         x.room = h.room, x.socket = h.socket, x.creating = h.creating,
         x.op \in Joins <=> h.op \in Joins,
         x \in B /\ x.op \in Joins => UNCHANGED <<toPage, roomOf>>,
         \A p \in Page : \A m \in ToSet(toPage'[p]) :
           m.type = "ROOM_CREATED" => m \in ToSet(toPage[p]) \/ m.room = h.room,
         \A r \in RoomId \ {h.room} :
           /\ peers'[r] \subseteq peers[r]
           /\ fileStats[r] = None => fileStats'[r] = None
           /\ \A t \in Socket : roomOf'[t] = r => roomOf[t] = r
  PROVE  NewInv'
<1>1. h \in Work /\ h.room \in RoomId /\ h.room \in issued
  BY Replied, WorkTypes
<1>2. NewInv /\ issued' = issued /\ shared' = shared /\ members' = members
  BY DEF RoomsInv, ServerStill
<1>3. PICK A, C, T : A = {h} /\ C = B /\ T = {h.room}
  OBVIOUS
<1>4. \A q \in RoomId \ (issued' \cup T) : Unused(q)'
  <2>1. Work' = (Work \ A) \cup C
    BY <1>3
  <2>5. \A g \in C : g.room \in T \cup {None}
    BY <1>3
  <2>2. \A p \in Page : \A m \in ToSet(toPage'[p]) :
           m.type = "ROOM_CREATED" => m \in ToSet(toPage[p]) \/ m.room \in T
    BY <1>3
  <2>3. \A r \in RoomId \ T :
           /\ members'[r] \subseteq members[r] /\ peers'[r] \subseteq peers[r]
           /\ fileStats[r] = None => fileStats'[r] = None
           /\ \A t \in Socket : roomOf'[t] = r => roomOf[t] = r
    BY <1>2, <1>3
  <2>4. issued \subseteq issued' \cup T /\ shared' \subseteq shared \cup T
    BY <1>2
  <2>6. NewInv
    BY <1>2
  <2>7. \A q \in RoomId \ (issued' \cup T) : Unused(q)'
    BY <2>1, <2>2, <2>3, <2>4, <2>5, <2>6, NewKept
  <2> QED BY <2>7
<1>5. ASSUME NEW g \in Work', g.creating /\ g.op \in Joins PROVE New(g.room, g)'
  <2>1. CASE g \in Work \ {h}
    <3>1. g.room \in RoomId /\ New(g.room, g)
      BY <1>2, <1>5, <2>1, WorkTypes DEF NewInv, Joins
    <3>2. PICK r \in RoomId : r = g.room
      BY <3>1
    <3>3. New(r, g) /\ r # h.room
      BY <1>1, <2>1, <3>1, <3>2 DEF New
    <3>4. r \notin shared' /\ members'[r] \subseteq {g.socket} /\ \A t \in Socket : roomOf'[t] # r
      BY <1>2, <3>3 DEF New
    <3>5. \A k \in Work' : k.room = r => k = g
      BY <3>3 DEF New
    <3>6. \A p \in Page : \A m \in ToSet(toPage'[p]) : m.type = "ROOM_CREATED" => m.room # r
      BY <3>3 DEF New
    <3> QED BY <3>2, <3>4, <3>5, <3>6 DEF New
  <2>2. CASE g = x /\ x \in B
    <3>1. New(h.room, h) /\ UNCHANGED <<toPage, roomOf>>
      BY <1>1, <1>2, <1>5, <2>2 DEF NewInv
    <3>2. \A k \in Work' : k.room = h.room => k = x
      BY <3>1 DEF New
    <3>3. New(h.room, x)'
      BY <1>2, <3>1, <3>2 DEF New
    <3> QED BY <2>2, <3>3
  <2> QED BY <1>5, <2>1, <2>2
<1>6. \A q \in RoomId \ issued' : Unused(q)'
  BY <1>1, <1>2, <1>3, <1>4
<1> QED BY <1>5, <1>6 DEF NewInv


\* addPeerToRoom, up to its last command.
LEMMA JoinContinues ==
  ASSUME TypeInv, RoomsInv, ServerStill, redis # <<>>, NEW h, h = Head(redis), h.op \in Joins,
         NEW s \in Socket, s = h.socket, NEW x \in Command, redis' = Append(Tail(redis), x),
         x.op \in Joins, x.socket = s, x.room = h.room, x.creating = h.creating,
         UNCHANGED <<toPage, roomOf, fileStats, overtaken, contended>>,
         \A r \in RoomId \ {h.room} : peers'[r] = peers[r],
         peers'[h.room] \subseteq peers[h.room] \cup {s},
         s \in peers'[h.room] => s \in overtaken \/ x.op \in {"expire", "set"},
         Stage(h, members[h.room], peers[h.room], fileStats[h.room]) =>
           Stage(x, members[h.room], peers'[h.room], fileStats[h.room])
  PROVE  RoomsInv'
<1>1. /\ h \in Command /\ h \in Work /\ s \in Socket /\ h.room \in RoomId /\ h.room \in issued
      /\ Joining(s) = {h} /\ ~Asking(s) /\ starts[s] # 0 /\ roomOf[s] = None
      /\ \A g \in Removing(s) : g.op = "get"
  BY JoinPlaced
<1>2. Alike(x, h) /\ OneEach(redis) /\ Place(s)
  BY <1>1 DEF Alike, RoomsInv
<1>3. /\ OneEach(redis') /\ Work' = (Work \ {h}) \cup {x}
      /\ \A g \in Work \ {h} : ~Alike(g, h) /\ ~Alike(g, x)
  BY <1>2, ContinuedWork
<1>4. \A t \in Socket : Line(t)' /\ (Gone(t)' <=> Gone(t)) /\ (Asking(t)' <=> Asking(t))
  BY StillLines
<1>5. members' = members /\ starts' = starts /\ issued' = issued
  BY DEF ServerStill
<1>6. peers \in [RoomId -> SUBSET Socket]
  BY WorkTypes
<1>14. \A k \in Work \cup Work' : (k \in Work /\ k \in Work') \/ (k.socket = s /\ k.room = h.room)
  <2> SUFFICES ASSUME NEW k \in Work \cup Work', ~(k \in Work /\ k \in Work')
               PROVE  k.socket = s /\ k.room = h.room
    OBVIOUS
  <2>1. k = h \/ k = x
    BY <1>3
  <2> QED BY <2>1
<1>7. \A t \in Socket \ {s} : Place(t)'
  <2> SUFFICES ASSUME NEW t \in Socket \ {s} PROVE Place(t)'
    OBVIOUS
  <2>1. /\ roomOf'[t] = roomOf[t] /\ (t \in overtaken' <=> t \in overtaken)
        /\ contended \subseteq contended'
        /\ \A q \in RoomId : t \in peers'[q] => t \in peers[q]
    BY <1>1
  <2>2. \A k \in Work \cup Work' : k.socket = t => (k \in Work <=> k \in Work')
    BY <1>14
  <2> QED BY <2>1, <2>2, ReplyOther
<1>8. PICK R : R = Removing(s)
  OBVIOUS
<1>9. Joining(s)' = {x} /\ Removing(s)' = R
  BY <1>1, <1>3, <1>8 DEF Joining, Removing, Alike
<1>10. Place(s)'
  <2>1. GonePlace(s)'
    BY <1>1, <1>2, <1>4, <1>5, <1>8, <1>9 DEF GonePlace, Place
  <2>2. AskingPlace(s)'
    BY <1>1, <1>4, <1>5 DEF AskingPlace
  <2>3. RemovingPlace(s)'
    BY <1>1, <1>8, <1>9 DEF RemovingPlace
  <2>4. ListedPlace(s)'
    <3> SUFFICES ASSUME NEW r \in RoomId
                 PROVE  /\ s \in members[r] => roomOf[s] = r \/ x.room = r
                        /\ roomOf[s] # r
                        /\ s \in peers'[r] => s \in overtaken \/ (x.room = r /\ x.op \in {"expire", "set"})
      BY <1>5, <1>9 DEF ListedPlace
    <3>1. /\ s \in members[r] => h.room = r
          /\ s \in peers[r] => s \in overtaken \/ h.room = r
          /\ roomOf[s] # r
      BY <1>1, <1>2, FileRoomsAssumption DEF Place, ListedPlace
    <3>2. CASE r = h.room
      BY <1>1, <3>1, <3>2
    <3>3. CASE r # h.room
      BY <3>1, <3>3
    <3> QED BY <3>2, <3>3
  <2>5. JoiningPlace(s)'
    <3>1. \/ s \in members[h.room] \cup overtaken
          \/ \E g \in R : g.op = "get"
      BY <1>1, <1>2, <1>8 DEF Place, JoiningPlace
    <3> QED BY <1>5, <1>9, <3>1 DEF JoiningPlace
  <2> QED BY <2>1, <2>2, <2>3, <2>4, <2>5 DEF Place
<1>11. \A t \in Socket : Place(t)'
  BY <1>7, <1>10
<1>12. NewInv'
  <2>1. PICK B : B = {x}
    OBVIOUS
  <2>2. B \subseteq {x} /\ Work' = (Work \ {h}) \cup B /\ h.op # "get"
    BY <1>3, <2>1 DEF Joins
  <2>3. \A p \in Page : \A m \in ToSet(toPage'[p]) :
           m.type = "ROOM_CREATED" => m \in ToSet(toPage[p]) \/ m.room = h.room
    OBVIOUS
  <2>4. \A r \in RoomId \ {h.room} :
           /\ peers'[r] \subseteq peers[r]
           /\ fileStats[r] = None => fileStats'[r] = None
           /\ \A t \in Socket : roomOf'[t] = r => roomOf[t] = r
    OBVIOUS
  <2> QED BY <2>2, <2>3, <2>4, ReplyNew
<1>13. ASSUME NEW q \in RoomId \ contended' PROVE Agree(q)'
  <2>1. CASE q # h.room
    <3>2. \A k \in Work \cup Work' : (k \in Work /\ k \in Work') \/ (k.socket = s /\ k.room # q)
      BY <1>14, <2>1
    <3>3. roomOf[s] # q /\ roomOf'[s] # q /\ \A t \in Socket \ {s} : roomOf'[t] = roomOf[t]
      BY <1>1, FileRoomsAssumption
    <3>4. peers'[q] = peers[q] /\ fileStats'[q] = fileStats[q] /\ q \notin contended
      BY <2>1
    <3> QED BY <3>2, <3>3, <3>4, OtherRooms
  <2>2. CASE q = h.room
    <3>1. At(q) = {h} /\ Stage(h, members[q], peers[q], fileStats[q])
      BY <1>1, <2>2 DEF RoomsInv, Agree, At, Works
    <3>2. At(q)' = {x}
      <4>1. x \in At(q)'
        BY <1>3, <2>2 DEF At, Works
      <4>2. ASSUME NEW g \in At(q)', g # x PROVE FALSE
        <5>1. g \in Work \ {h} /\ Works(g, q)
          BY <1>3, <4>2 DEF At, Works
        <5> QED BY <3>1, <5>1 DEF At
      <4> QED BY <4>1, <4>2
    <3>3. Stage(x, members'[q], peers'[q], fileStats'[q])
      BY <1>5, <2>2, <3>1
    <3> QED BY <3>2, <3>3 DEF Agree
  <2> QED BY <2>1, <2>2
<1> QED BY <1>3, <1>4, <1>11, <1>12, <1>13 DEF RoomsInv

LEMMA smembersRooms ==
  ASSUME TypeInv, RoomsInv, ServerStill, redis # <<>>, NEW h, h = Head(redis),
         h.op = "smembers", addPeerToRoom(h), UNCHANGED <<overtaken, contended>>
  PROVE  RoomsInv'
<1>1. PICK s \in Socket : s = h.socket
  BY Replied, WorkTypes
<1>2. /\ h.op \in Joins /\ h \in Command /\ s \in Socket /\ h.room \in RoomId
      /\ Joining(s) = {h} /\ roomOf[s] = None
  BY <1>1, JoinPlaced DEF Joins
<1>3. peers \in [RoomId -> SUBSET Socket] /\ Place(s)
  BY <1>2, WorkTypes DEF RoomsInv
<1>4. PICK S \in SUBSET Socket : S = peers[h.room] \ {s}
  BY <1>2, <1>3
<1>11. PICK g \in Command : g = h
  BY <1>2
<1>5. PICK x : x = [g EXCEPT !.op = "sadd", !.found = S]
  OBVIOUS
<1>6. /\ x \in Command /\ x.op = "sadd" /\ x.socket = s /\ x.room = h.room /\ x.found = S
      /\ x.creating = h.creating /\ x.op \in Joins
  <2>1. /\ x \in Command /\ x.op = "sadd" /\ x.socket = g.socket /\ x.room = g.room
        /\ x.found = S /\ x.creating = g.creating
    <3>1. g \in Command /\ S \in SUBSET Socket
      BY <1>4, <1>11
    <3> QED BY <1>5, <3>1 DEF Command
  <2> QED BY <1>1, <1>11, <2>1 DEF Joins
<1>7. redis' = Append(Tail(redis), x) /\ UNCHANGED <<toPage, peers, roomOf, fileStats>>
  BY <1>1, <1>4, <1>5, <1>11 DEF addPeerToRoom, redisVars
<1>8. s \in peers[h.room] => s \in overtaken
  BY <1>2, <1>3, FileRoomsAssumption DEF Place, ListedPlace
<1>9. Stage(h, members[h.room], peers[h.room], fileStats[h.room]) =>
        Stage(x, members[h.room], peers'[h.room], fileStats[h.room])
  BY <1>1, <1>4, <1>6, <1>7 DEF Stage, Joins
<1>10. /\ \A r \in RoomId \ {h.room} : peers'[r] = peers[r]
       /\ peers'[h.room] \subseteq peers[h.room] \cup {s}
       /\ s \in peers'[h.room] => s \in overtaken \/ x.op \in {"expire", "set"}
  BY <1>7, <1>8
<1> QED BY <1>1, <1>2, <1>6, <1>7, <1>9, <1>10, JoinContinues

LEMMA saddRooms ==
  ASSUME TypeInv, RoomsInv, ServerStill, redis # <<>>, NEW h, h = Head(redis),
         h.op = "sadd", addPeerToRoom(h), UNCHANGED <<overtaken, contended>>
  PROVE  RoomsInv'
<1>1. PICK s \in Socket : s = h.socket
  BY Replied, WorkTypes
<1>2. h.op \in Joins /\ h \in Command /\ s \in Socket /\ h.room \in RoomId
  BY <1>1, JoinPlaced DEF Joins
<1>3. peers \in [RoomId -> SUBSET Socket]
  BY WorkTypes
<1>4. PICK x : x = [h EXCEPT !.op = "expire"]
  OBVIOUS
<1>5. /\ x \in Command /\ x.op = "expire" /\ x.socket = s /\ x.room = h.room /\ x.found = h.found
      /\ x.creating = h.creating /\ x.op \in Joins
  BY <1>1, <1>2, <1>4, NextCommand DEF Joins
<1>6. /\ redis' = Append(Tail(redis), x) /\ UNCHANGED <<toPage, roomOf, fileStats>>
      /\ peers' = [peers EXCEPT ![h.room] = @ \cup {s}]
  BY <1>1, <1>4 DEF addPeerToRoom, Continue
<1>7. /\ peers'[h.room] = peers[h.room] \cup {s}
      /\ \A r \in RoomId \ {h.room} : peers'[r] = peers[r]
  BY <1>2, <1>3, <1>6
<1>8. Stage(h, members[h.room], peers[h.room], fileStats[h.room]) =>
        Stage(x, members[h.room], peers'[h.room], fileStats[h.room])
  BY <1>1, <1>5, <1>7 DEF Stage, Joins
<1>9. /\ peers'[h.room] \subseteq peers[h.room] \cup {s}
      /\ s \in peers'[h.room] => s \in overtaken \/ x.op \in {"expire", "set"}
  BY <1>5, <1>7
<1> QED BY <1>1, <1>2, <1>5, <1>6, <1>7, <1>8, <1>9, JoinContinues

LEMMA expireRooms ==
  ASSUME TypeInv, RoomsInv, ServerStill, redis # <<>>, NEW h, h = Head(redis),
         h.op = "expire", addPeerToRoom(h), UNCHANGED <<overtaken, contended>>
  PROVE  RoomsInv'
<1>1. PICK s \in Socket : s = h.socket
  BY Replied, WorkTypes
<1>2. h.op \in Joins /\ h \in Command /\ s \in Socket /\ h.room \in RoomId
  BY <1>1, JoinPlaced DEF Joins
<1>3. PICK x : x = [h EXCEPT !.op = "set"]
  OBVIOUS
<1>4. /\ x \in Command /\ x.op = "set" /\ x.socket = s /\ x.room = h.room /\ x.found = h.found
      /\ x.creating = h.creating /\ x.op \in Joins
  BY <1>1, <1>2, <1>3, NextCommand DEF Joins
<1>5. redis' = Append(Tail(redis), x) /\ UNCHANGED <<toPage, peers, roomOf, fileStats>>
  BY <1>1, <1>3 DEF addPeerToRoom, Continue, redisVars
<1>6. Stage(h, members[h.room], peers[h.room], fileStats[h.room]) =>
        Stage(x, members[h.room], peers'[h.room], fileStats[h.room])
  BY <1>1, <1>4, <1>5 DEF Stage, Joins
<1>7. /\ \A r \in RoomId \ {h.room} : peers'[r] = peers[r]
      /\ peers'[h.room] \subseteq peers[h.room] \cup {s}
      /\ s \in peers'[h.room] => s \in overtaken \/ x.op \in {"expire", "set"}
  BY <1>4, <1>5
<1> QED BY <1>1, <1>2, <1>4, <1>5, <1>6, <1>7, JoinContinues


\* The dashboard after a join, and what the pages are told.
LEMMA JoinCounted ==
  ASSUME TypeInv, NEW h \in Command, h.room \in RoomId, peerAdded(h)
  PROVE  /\ \A q \in RoomId \ {h.room} : fileStats'[q] = fileStats[q]
         /\ fileStats'[h.room] # None
         /\ h.creating => fileStats'[h.room].peerCount = 1
         /\ ~h.creating => fileStats'[h.room].peerCount = Cardinality(h.found) + 1
         /\ \A p \in Page : \A m \in ToSet(toPage'[p]) :
              m.type = "ROOM_CREATED" => m \in ToSet(toPage[p]) \/ m.room = h.room
<1>1. h.found \in SUBSET Socket /\ fileStats \in [RoomId -> FileRoomStat \cup {None}]
  BY CommandFields, WorkTypes
<1>2. Cardinality(h.found) \in Nat
  BY <1>1, SocketSets
<1>4. \A p \in Page : \A m \in ToSet(toPage'[p]) :
        m.type = "ROOM_CREATED" => m \in ToSet(toPage[p]) \/ m.room = h.room
  <2>1. PICK sent : sent = PeerAddedMessages(h)
    OBVIOUS
  <2>2. /\ Emit(sent)
        /\ \A t \in DOMAIN sent :
             sent[t] \in ToPage /\ (sent[t].type = "ROOM_CREATED" => sent[t].room = h.room)
    BY <2>1, peerAddedTyped
  <2>3. \A p \in Page :
          \/ toPage'[p] = toPage[p]
          \/ /\ SocketOf(p) \in DOMAIN sent
             /\ ToSet(toPage'[p]) = ToSet(toPage[p]) \cup {sent[SocketOf(p)]}
    <3>1. \A t \in DOMAIN sent : sent[t] \in ToPage
      BY <2>2
    <3> QED BY <2>2, <3>1, Emitted
  <2> QED BY <2>2, <2>3
<1>3. CASE h.creating
  <2>1. setFileRoomPeerCount(h.room, 1)
    BY <1>3 DEF peerAdded
  <2> QED BY <1>1, <1>3, <2>1, PeerCountType, <1>4
<1>5. CASE ~h.creating
  <2>1. setFileRoomPeerCount(h.room, Cardinality(h.found) + 1)
    BY <1>5 DEF peerAdded
  <2>2. PICK n \in Nat : n = Cardinality(h.found) + 1
    BY <1>2
  <2>3. n # 0 /\ setFileRoomPeerCount(h.room, n)
    BY <1>2, <2>1, <2>2
  <2> QED BY <1>1, <1>5, <2>2, <2>3, PeerCountType, <1>4
<1> QED BY <1>3, <1>5

\* addPeerToRoom's last command, of the room it joins.
LEMMA JoinAgrees ==
  ASSUME TypeInv, RoomsInv, ServerStill, NEW h \in Work, NEW s \in Socket, s = h.socket,
         h.op = "set", h \in Command, Joining(s) = {h}, \A g \in Removing(s) : g.op = "get",
         NEW q \in RoomId, q = h.room, q \notin contended, Work' = Work \ {h},
         roomOf' = [roomOf EXCEPT ![s] = q], peers' = peers,
         fileStats'[q] # None,
         h.creating => fileStats'[q].peerCount = 1,
         ~h.creating => fileStats'[q].peerCount = Cardinality(h.found) + 1
  PROVE  Agree(q)'
<1>1. PICK M \in SUBSET Socket, P \in SUBSET Socket : M = members[q] /\ P = peers[q]
  BY WorkTypes
<1>2. /\ At(q) = {h} /\ Stage(h, M, P, fileStats[q]) /\ Place(s) /\ OneEach(redis)
      /\ members' = members /\ peers' = peers
  <2>1. h \in At(q) /\ Agree(q)
    BY DEF At, Works, RoomsInv
  <2> QED BY <1>1, <2>1 DEF Agree, RoomsInv, ServerStill
<1>3. P = M \cup {s} /\ h.found = M \ {s}
  BY <1>2 DEF Stage, Joins
<1>4. s \notin overtaken
  BY <1>2 DEF Place, GonePlace
<1>5. fileStats'[q].peerCount = Cardinality(M \cup {s})
  <2>1. CASE h.creating
    <3>1. M \subseteq {s}
      BY <1>1, <2>1 DEF RoomsInv, NewInv, New, Joins
    <3>2. M \cup {s} = {s}
      BY <3>1
    <3> QED BY <2>1, <3>2, FS_Singleton
  <2>2. CASE ~h.creating
    <3>1. PICK F \in SUBSET Socket : F = h.found
      BY CommandFields
    <3>2. IsFiniteSet(F) /\ s \notin F /\ F \cup {s} = M \cup {s}
      BY <1>3, <3>1, SocketSets
    <3>3. Cardinality(F \cup {s}) = Cardinality(F) + 1
      BY <3>2, FS_AddElement
    <3> QED BY <2>2, <3>1, <3>2, <3>3
  <2> QED BY <2>1, <2>2
<1>6. ASSUME NEW g \in At(q)' PROVE g \in Removing(s)
  <2>1. g \in Work /\ g # h /\ (g.room = q \/ roomOf'[g.socket] = q)
    BY <1>6 DEF At, Works
  <2>2. g \notin At(q)
    BY <1>2, <2>1
  <2>3. g.socket = s
    <3>1. g.socket \in Socket /\ roomOf \in [Socket -> RoomId \cup {None}]
      BY <2>1, WorkTypes
    <3> QED BY <2>1, <2>2, <3>1 DEF At, Works
  <2> QED BY <2>1, <2>3 DEF Joining, Removing
<1>7. CASE At(q)' = {}
  <2>1. Removing(s) = {}
    <3>1. SUFFICES ASSUME NEW g \in Removing(s) PROVE g \in At(q)'
      BY <1>7
    <3>2. g \in Work /\ g # h /\ g.socket = s
      BY <3>1 DEF Removing, Joins
    <3>3. roomOf'[g.socket] = q
      BY <3>2, WorkTypes
    <3> QED BY <3>2, <3>3 DEF At, Works
  <2>2. s \in M
    BY <1>1, <1>2, <1>4, <2>1 DEF Place, JoiningPlace
  <2>3. M \cup {s} = M /\ P = M
    BY <1>3, <2>2
  <2>4. Counted(fileStats'[q], M)
    BY <1>5, <2>2, <2>3 DEF Counted
  <2> QED BY <1>1, <1>2, <1>7, <2>3, <2>4 DEF Agree
<1>8. CASE At(q)' # {}
  <2>1. PICK g \in At(q)' : g \in Removing(s)
    BY <1>6, <1>8
  <2>2. ASSUME NEW k \in At(q)' PROVE k = g
    <3>1. k \in Work /\ g \in Work /\ Alike(k, g)
      BY <1>6, <2>1 DEF Removing, Alike
    <3> QED BY <1>2, <3>1, OneOf, WorkTypes DEF Work
  <2>3. At(q)' = {g}
    BY <2>1, <2>2
  <2>4. g.op = "get" /\ g.socket = s
    BY <2>1 DEF Removing
  <2>5. Stage(g, members'[q], peers'[q], fileStats'[q])
    BY <1>1, <1>2, <1>3, <2>4 DEF Stage, Joins
  <2> QED BY <2>3, <2>5 DEF Agree
<1> QED BY <1>7, <1>8


LEMMA setRooms ==
  ASSUME TypeInv, RoomsInv, ServerStill, redis # <<>>, NEW h, h = Head(redis),
         h.op = "set", addPeerToRoom(h), UNCHANGED <<overtaken, contended>>
  PROVE  RoomsInv'
<1>1. PICK s \in Socket, r \in RoomId : s = h.socket /\ r = h.room
  BY Replied, WorkTypes
<1>2. /\ h.op \in Joins /\ h \in Command /\ h \in Work /\ s \in Socket
      /\ Joining(s) = {h} /\ ~Asking(s) /\ starts[s] # 0 /\ roomOf[s] = None
      /\ \A g \in Removing(s) : g.op = "get"
  BY <1>1, JoinPlaced DEF Joins
<1>3. redis' = Tail(redis) /\ peers' = peers /\ roomOf' = [roomOf EXCEPT ![s] = r] /\ peerAdded(h)
  BY <1>1 DEF addPeerToRoom, Return
<1>4. /\ \A q \in RoomId \ {r} : fileStats'[q] = fileStats[q]
      /\ fileStats'[r] # None
      /\ h.creating => fileStats'[r].peerCount = 1
      /\ ~h.creating => fileStats'[r].peerCount = Cardinality(h.found) + 1
      /\ \A p \in Page : \A m \in ToSet(toPage'[p]) :
           m.type = "ROOM_CREATED" => m \in ToSet(toPage[p]) \/ m.room = r
  BY <1>1, <1>2, <1>3, JoinCounted
<1>5. OneEach(redis) /\ Place(s)
  BY DEF RoomsInv
<1>6. OneEach(redis') /\ Work' = Work \ {h}
  BY <1>3, <1>5, ReturnedWork
<1>7. \A t \in Socket : Line(t)' /\ (Gone(t)' <=> Gone(t)) /\ (Asking(t)' <=> Asking(t))
  BY StillLines
<1>8. members' = members /\ starts' = starts /\ peers \in [RoomId -> SUBSET Socket]
      /\ roomOf \in [Socket -> RoomId \cup {None}]
  BY WorkTypes DEF ServerStill
<1>9. roomOf'[s] = r /\ \A t \in Socket \ {s} : roomOf'[t] = roomOf[t]
  BY <1>3, <1>8
<1>10. \A k \in Work \cup Work' : (k \in Work /\ k \in Work') \/ (k.socket = s /\ k.room = r)
  <2> SUFFICES ASSUME NEW k \in Work \cup Work', ~(k \in Work /\ k \in Work')
               PROVE  k.socket = s /\ k.room = r
    OBVIOUS
  <2>1. k = h
    BY <1>6
  <2> QED BY <1>1, <2>1
<1>12. \A t \in Socket \ {s} : Place(t)'
  <2> SUFFICES ASSUME NEW t \in Socket \ {s} PROVE Place(t)'
    OBVIOUS
  <2>1. /\ roomOf'[t] = roomOf[t] /\ (t \in overtaken' <=> t \in overtaken)
        /\ contended \subseteq contended'
        /\ \A q \in RoomId : t \in peers'[q] => t \in peers[q]
    BY <1>3, <1>9
  <2>2. \A k \in Work \cup Work' : k.socket = t => (k \in Work <=> k \in Work')
    BY <1>10
  <2> QED BY <2>1, <2>2, ReplyOther
<1>13. PICK R : R = Removing(s)
  OBVIOUS
<1>14. Joining(s)' = {} /\ Removing(s)' = R
  BY <1>2, <1>6, <1>13 DEF Joining, Removing
<1>15. Place(s)'
  <2>1. GonePlace(s)'
    BY <1>5, <1>7, <1>8, <1>13, <1>14 DEF GonePlace, Place
  <2>2. AskingPlace(s)'
    BY <1>2, <1>7, <1>8, <1>14 DEF AskingPlace
  <2>3. RemovingPlace(s)'
    BY <1>2, <1>13, <1>14 DEF RemovingPlace
  <2>4. ListedPlace(s)'
    <3> SUFFICES ASSUME NEW q \in RoomId
                 PROVE  /\ s \in members[q] => r = q
                        /\ r = q => s \in members[q] \cup overtaken \/ \E g \in R : g.op = "get"
                        /\ s \in peers[q] => r = q \/ s \in overtaken
      BY <1>3, <1>8, <1>9, <1>14 DEF ListedPlace
    <3>1. /\ s \in members[q] => r = q
          /\ s \in peers[q] => r = q \/ s \in overtaken
      BY <1>1, <1>2, <1>5, FileRoomsAssumption DEF Place, ListedPlace
    <3>2. s \in members[r] \cup overtaken \/ \E g \in R : g.op = "get"
      BY <1>1, <1>2, <1>5, <1>13 DEF Place, JoiningPlace
    <3> QED BY <3>1, <3>2
  <2>5. JoiningPlace(s)'
    BY <1>14 DEF JoiningPlace
  <2> QED BY <2>1, <2>2, <2>3, <2>4, <2>5 DEF Place
<1>16. NewInv'
  <2>1. PICK x, B : x = h /\ B = {}
    OBVIOUS
  <2>2. /\ B \subseteq {x} /\ Work' = (Work \ {h}) \cup B /\ h.op # "get"
        /\ x.room = h.room /\ x.socket = h.socket /\ x.creating = h.creating
        /\ x.op \in Joins <=> h.op \in Joins
        /\ x \notin B
    BY <1>6, <2>1
  <2>3. \A q \in RoomId \ {h.room} :
           /\ peers'[q] \subseteq peers[q]
           /\ fileStats[q] = None => fileStats'[q] = None
           /\ \A t \in Socket : roomOf'[t] = q => roomOf[t] = q
    BY <1>1, <1>3, <1>4, <1>9
  <2>4. \A p \in Page : \A m \in ToSet(toPage'[p]) :
           m.type = "ROOM_CREATED" => m \in ToSet(toPage[p]) \/ m.room = h.room
    BY <1>1, <1>4
  <2> QED BY <2>2, <2>3, <2>4, ReplyNew
<1>17. ASSUME NEW q \in RoomId \ contended' PROVE Agree(q)'
  <2>1. CASE q # r
    <3>1. \A k \in Work \cup Work' : (k \in Work /\ k \in Work') \/ (k.socket = s /\ k.room # q)
      BY <1>10, <2>1
    <3>2. roomOf[s] # q /\ roomOf'[s] # q /\ \A t \in Socket \ {s} : roomOf'[t] = roomOf[t]
      BY <1>2, <1>9, <2>1, FileRoomsAssumption
    <3>3. peers'[q] = peers[q] /\ fileStats'[q] = fileStats[q] /\ q \notin contended
      BY <1>3, <1>4, <2>1
    <3> QED BY <3>1, <3>2, <3>3, OtherRooms
  <2>2. CASE q = r
    BY <1>1, <1>2, <1>3, <1>4, <1>6, <2>2, JoinAgrees
  <2> QED BY <2>1, <2>2
<1> QED BY <1>6, <1>7, <1>12, <1>15, <1>16, <1>17 DEF RoomsInv


\* removePeer, once it knows the room: it goes on with the command of B, or returns.
LEMMA RemoveGoesOn ==
  ASSUME TypeInv, RoomsInv, ServerStill, redis # <<>>, NEW h, h = Head(redis),
         h.op \notin Joins \cup {"get"},
         NEW s \in Socket, s = h.socket, NEW r \in RoomId, r = h.room,
         NEW x, NEW B, B \subseteq {x}, Work' = (Work \ {h}) \cup B, OneEach(redis'),
         x.op \notin Joins \cup {"get"}, x.socket = s, x.room = r, x.creating = h.creating,
         UNCHANGED <<overtaken, contended>>,
         \A t \in Socket \ {s} : roomOf'[t] = roomOf[t],
         roomOf'[s] \in {roomOf[s], None}, roomOf'[s] # roomOf[s] => s \notin peers[r],
         \A q \in RoomId \ {r} : peers'[q] = peers[q] /\ fileStats'[q] = fileStats[q],
         peers'[r] \subseteq peers[r],
         \A p \in Page : \A m \in ToSet(toPage'[p]) :
           m.type = "ROOM_CREATED" => m \in ToSet(toPage[p]),
         roomOf'[s] # None => B = {x} /\ x.op \in {"srem", "del"},
         B = {x} => IF x.op \in {"srem", "del"} THEN roomOf'[s] = r ELSE roomOf'[s] = None,
         B = {x} => s \notin peers'[r],
         Stage(h, members[r], peers[r], fileStats[r]) =>
           \/ B = {x} /\ Stage(x, members[r], peers'[r], fileStats'[r])
           \/ B = {} /\ peers'[r] = members[r] /\ Counted(fileStats'[r], members[r])
  PROVE  RoomsInv'
<1>1. /\ h \in Command /\ h \in Work /\ Removing(s) = {h} /\ Gone(s) /\ s \notin overtaken
      /\ \A q \in RoomId : s \notin members[q]
  BY RemovePlaced
<1>2. Place(s) /\ Joining(s) = {} /\ roomOf[s] \in {r, None}
  <2>1. Place(s)
    BY DEF RoomsInv
  <2>2. h.op \in {"srem", "del", "remaining", "delRoom"}
    BY <1>1, CommandFields DEF Joins
  <2> QED BY <1>1, <2>1, <2>2 DEF Place, RemovingPlace
<1>3. \A t \in Socket : Line(t)' /\ (Gone(t)' <=> Gone(t)) /\ (Asking(t)' <=> Asking(t))
  BY StillLines
<1>4. /\ members' = members /\ starts' = starts /\ peers \in [RoomId -> SUBSET Socket]
      /\ \A q \in RoomId : peers'[q] \subseteq peers[q]
  BY WorkTypes DEF ServerStill
<1>5. \A k \in Work \cup Work' : (k \in Work /\ k \in Work') \/ (k.socket = s /\ k.room = r)
  <2> SUFFICES ASSUME NEW k \in Work \cup Work', ~(k \in Work /\ k \in Work')
               PROVE  k.socket = s /\ k.room = r
    OBVIOUS
  <2>1. k = h \/ k = x
    OBVIOUS
  <2> QED BY <2>1
<1>7. \A t \in Socket \ {s} : Place(t)'
  <2> SUFFICES ASSUME NEW t \in Socket \ {s} PROVE Place(t)'
    OBVIOUS
  <2>1. /\ roomOf'[t] = roomOf[t] /\ (t \in overtaken' <=> t \in overtaken)
        /\ contended \subseteq contended'
        /\ \A q \in RoomId : t \in peers'[q] => t \in peers[q]
    BY <1>4
  <2>2. \A k \in Work \cup Work' : k.socket = t => (k \in Work <=> k \in Work')
    BY <1>5
  <2> QED BY <2>1, <2>2, ReplyOther
<1>8. Joining(s)' = {} /\ Removing(s)' = B
  <2>1. Joining(s)' = {}
    <3> SUFFICES ASSUME NEW g \in Joining(s)' PROVE FALSE
      OBVIOUS
    <3>1. g \in Work' /\ g.socket = s /\ g.op \in Joins
      BY DEF Joining
    <3>2. g \in Work
      BY <3>1
    <3> QED BY <1>2, <3>1, <3>2 DEF Joining
  <2>2. \A g \in Removing(s)' : g \in B
    <3> SUFFICES ASSUME NEW g \in Removing(s)' PROVE g \in B
      OBVIOUS
    <3>1. g \in Work' /\ g.socket = s /\ g.op \notin Joins
      BY DEF Removing
    <3>2. g \in Work \ {h} => g \in Removing(s)
      BY <3>1 DEF Removing
    <3> QED BY <1>1, <3>1, <3>2
  <2>3. \A g \in B : g \in Removing(s)'
    BY DEF Removing
  <2> QED BY <2>1, <2>2, <2>3
<1>9. Place(s)'
  <2>1. GonePlace(s)'
    BY <1>1, <1>3, <1>4, <1>8 DEF GonePlace
  <2>2. AskingPlace(s)'
    BY <1>2, <1>3, <1>4, <1>8 DEF AskingPlace, Place
  <2>3. RemovingPlace(s)'
    <3>1. B = {} \/ B = {x}
      OBVIOUS
    <3>2. CASE B = {}
      BY <1>8, <3>2 DEF RemovingPlace
    <3>3. CASE B = {x}
      <4> QED BY <1>8, <3>3 DEF RemovingPlace
    <3> QED BY <3>1, <3>2, <3>3
  <2>4. ListedPlace(s)'
    <3> SUFFICES ASSUME NEW q \in RoomId
                 PROVE  /\ roomOf'[s] = q => \E g \in B : g.op \in {"get", "srem", "del"}
                        /\ s \in peers'[q] => roomOf'[s] = q
      BY <1>1, <1>4, <1>8 DEF ListedPlace
    <3>1. roomOf'[s] = q => \E g \in B : g.op \in {"get", "srem", "del"}
      BY FileRoomsAssumption
    <3>2. s \in peers[q] => roomOf[s] = q
      BY <1>1, <1>2 DEF Place, ListedPlace
    <3>3. s \in peers'[q] => roomOf'[s] = q
      BY <1>2, <1>4, <3>2, FileRoomsAssumption
    <3> QED BY <3>1, <3>3
  <2>5. JoiningPlace(s)'
    BY <1>8 DEF JoiningPlace
  <2> QED BY <2>1, <2>2, <2>3, <2>4, <2>5 DEF Place
<1>10. NewInv'
  <2>4. PICK C : C = B
    OBVIOUS
  <2>1. /\ h.op # "get" /\ C \subseteq {x} /\ Work' = (Work \ {h}) \cup C
        /\ x.room = h.room /\ x.socket = h.socket /\ x.creating = h.creating
        /\ x.op \in Joins <=> h.op \in Joins
        /\ x.op \notin Joins
    BY <2>4
  <2>2. \A q \in RoomId \ {h.room} :
           /\ peers'[q] \subseteq peers[q]
           /\ fileStats[q] = None => fileStats'[q] = None
           /\ \A t \in Socket : roomOf'[t] = q => roomOf[t] = q
    BY FileRoomsAssumption
  <2>3. \A p \in Page : \A m \in ToSet(toPage'[p]) :
           m.type = "ROOM_CREATED" => m \in ToSet(toPage[p]) \/ m.room = h.room
    OBVIOUS
  <2> QED BY <2>1, <2>2, <2>3, ReplyNew
<1>11. ASSUME NEW q \in RoomId \ contended' PROVE Agree(q)'
  <2>1. CASE q # r
    <3>1. \A k \in Work \cup Work' : (k \in Work /\ k \in Work') \/ (k.socket = s /\ k.room # q)
      BY <1>5, <2>1
    <3>2. roomOf[s] # q /\ roomOf'[s] # q /\ \A t \in Socket \ {s} : roomOf'[t] = roomOf[t]
      BY <1>2, <2>1, FileRoomsAssumption
    <3>3. peers'[q] = peers[q] /\ fileStats'[q] = fileStats[q] /\ q \notin contended
      BY <2>1
    <3> QED BY <3>1, <3>2, <3>3, OtherRooms
  <2>2. CASE q = r
    <3>1. At(r) = {h} /\ Stage(h, members[r], peers[r], fileStats[r])
      BY <1>1, <2>2 DEF RoomsInv, Agree, At, Works
    <3>2. ASSUME NEW g \in At(r)' PROVE g \in B
      <4>1. g \in Work' /\ (g.room = r \/ roomOf'[g.socket] = r)
        BY <3>2 DEF At, Works
      <4>2. CASE g \in Work \ {h}
        <5>1. g.socket \in Socket
          BY <4>2, WorkTypes
        <5>2. roomOf'[g.socket] = r => roomOf[g.socket] = r
          BY <5>1, FileRoomsAssumption
        <5>3. g \in At(r)
          BY <4>1, <4>2, <5>2 DEF At, Works
        <5> QED BY <3>1, <4>2, <5>3
      <4> QED BY <4>1, <4>2
    <3>3. \A g \in B : g \in At(r)'
      BY DEF At, Works
    <3>4. At(r)' = B
      BY <3>2, <3>3
    <3>5. \/ B = {x} /\ Stage(x, members'[r], peers'[r], fileStats'[r])
          \/ B = {} /\ peers'[r] = members'[r] /\ Counted(fileStats'[r], members'[r])
      BY <1>4, <3>1
    <3> QED BY <2>2, <3>4, <3>5 DEF Agree
  <2> QED BY <2>1, <2>2
<1> QED BY <1>3, <1>7, <1>9, <1>10, <1>11 DEF RoomsInv


LEMMA RemoveContinues ==
  ASSUME TypeInv, RoomsInv, ServerStill, redis # <<>>, NEW h, h = Head(redis),
         h.op \notin Joins \cup {"get"},
         NEW s \in Socket, s = h.socket, NEW r \in RoomId, r = h.room,
         NEW x, Work' = (Work \ {h}) \cup {x}, OneEach(redis'),
         x.op \in {"del", "remaining", "delRoom"}, x.socket = s, x.room = r, x.creating = h.creating,
         UNCHANGED <<toPage, fileStats, overtaken, contended>>,
         \A t \in Socket \ {s} : roomOf'[t] = roomOf[t],
         roomOf'[s] = IF x.op = "del" THEN r ELSE None,
         roomOf'[s] \in {roomOf[s], None}, roomOf'[s] # roomOf[s] => s \notin peers[r],
         \A q \in RoomId \ {r} : peers'[q] = peers[q],
         peers'[r] \subseteq peers[r], s \notin peers'[r],
         Stage(h, members[r], peers[r], fileStats[r]) =>
           Stage(x, members[r], peers'[r], fileStats[r])
  PROVE  RoomsInv'
<1>1. PICK B : B = {x}
  OBVIOUS
<1>2. Work' = (Work \ {h}) \cup B /\ B \subseteq {x}
  BY <1>1
<1>3. x.op \notin Joins \cup {"get"}
  BY DEF Joins
<1>4. /\ roomOf'[s] # None => B = {x} /\ x.op \in {"srem", "del"}
      /\ B = {x} => IF x.op \in {"srem", "del"} THEN roomOf'[s] = r ELSE roomOf'[s] = None
      /\ B = {x} => s \notin peers'[r]
  BY <1>1
<1>5. Stage(h, members[r], peers[r], fileStats[r]) =>
        B = {x} /\ Stage(x, members[r], peers'[r], fileStats'[r])
  BY <1>1
<1>6. \A p \in Page : \A m \in ToSet(toPage'[p]) :
        m.type = "ROOM_CREATED" => m \in ToSet(toPage[p])
  OBVIOUS
<1>7. \A q \in RoomId \ {r} : peers'[q] = peers[q] /\ fileStats'[q] = fileStats[q]
  OBVIOUS
<1> QED BY <1>2, <1>3, <1>4, <1>5, <1>6, <1>7, RemoveGoesOn

LEMMA sremRooms ==
  ASSUME TypeInv, RoomsInv, ServerStill, redis # <<>>, NEW h, h = Head(redis),
         h.op = "srem", removePeer(h), UNCHANGED <<overtaken, contended>>
  PROVE  RoomsInv'
<1>1. PICK s \in Socket, r \in RoomId : s = h.socket /\ r = h.room
  BY Replied, WorkTypes
<1>2. /\ h.op \notin Joins \cup {"get"} /\ h \in Command /\ Removing(s) = {h}
      /\ \A q \in RoomId : s \notin members[q]
  BY <1>1, RemovePlaced DEF Joins
<1>3. PICK x : x = [h EXCEPT !.op = "del"]
  OBVIOUS
<1>4. /\ x \in Command /\ x.op = "del" /\ x.socket = s /\ x.room = r
      /\ x.creating = h.creating /\ x.op \notin Joins \cup {"get"}
  BY <1>1, <1>2, <1>3, NextCommand DEF Joins
<1>5. /\ redis' = Append(Tail(redis), x) /\ UNCHANGED <<toPage, roomOf, fileStats>>
      /\ peers' = [peers EXCEPT ![r] = @ \ {s}]
  BY <1>1, <1>3 DEF removePeer, Continue
<1>6. peers \in [RoomId -> SUBSET Socket] /\ Alike(x, h) /\ OneEach(redis) /\ Place(s)
  BY <1>1, <1>2, <1>4, WorkTypes DEF Alike, RoomsInv
<1>7. OneEach(redis') /\ Work' = (Work \ {h}) \cup {x}
  BY <1>4, <1>5, <1>6, ContinuedWork
<1>8. /\ peers'[r] = peers[r] \ {s}
      /\ \A q \in RoomId \ {r} : peers'[q] = peers[q] /\ fileStats'[q] = fileStats[q]
  BY <1>5, <1>6
<1>9. roomOf'[s] = roomOf[s] /\ roomOf'[s] = r
  BY <1>1, <1>2, <1>5, <1>6 DEF Place, RemovingPlace
<1>10. Stage(h, members[r], peers[r], fileStats[r]) =>
         Stage(x, members[r], peers'[r], fileStats[r])
  BY <1>1, <1>2, <1>4, <1>8 DEF Stage, Joins
<1>11. /\ h.op \notin Joins \cup {"get"} /\ x.op \in {"del", "remaining", "delRoom"}
       /\ \A t \in Socket \ {s} : roomOf'[t] = roomOf[t]
       /\ roomOf'[s] = (IF x.op = "del" THEN r ELSE None)
       /\ roomOf'[s] \in {roomOf[s], None} /\ (roomOf'[s] # roomOf[s] => s \notin peers[r])
       /\ \A q \in RoomId \ {r} : peers'[q] = peers[q]
       /\ peers'[r] \subseteq peers[r] /\ s \notin peers'[r]
       /\ UNCHANGED <<toPage, fileStats>>
  BY <1>2, <1>4, <1>5, <1>8, <1>9
<1> QED BY <1>1, <1>4, <1>7, <1>10, <1>11, RemoveContinues

LEMMA delRooms ==
  ASSUME TypeInv, RoomsInv, ServerStill, redis # <<>>, NEW h, h = Head(redis),
         h.op = "del", removePeer(h), UNCHANGED <<overtaken, contended>>
  PROVE  RoomsInv'
<1>1. PICK s \in Socket, r \in RoomId : s = h.socket /\ r = h.room
  BY Replied, WorkTypes
<1>2. /\ h.op \notin Joins \cup {"get"} /\ h \in Command /\ Removing(s) = {h}
      /\ \A q \in RoomId : s \notin members[q]
  BY <1>1, RemovePlaced DEF Joins
<1>3. PICK x : x = [h EXCEPT !.op = "remaining"]
  OBVIOUS
<1>4. /\ x \in Command /\ x.op = "remaining" /\ x.socket = s /\ x.room = r
      /\ x.creating = h.creating /\ x.op \notin Joins \cup {"get"}
  BY <1>1, <1>2, <1>3, NextCommand DEF Joins
<1>5. /\ redis' = Append(Tail(redis), x) /\ UNCHANGED <<toPage, peers, fileStats>>
      /\ roomOf' = [roomOf EXCEPT ![s] = None]
  BY <1>1, <1>3 DEF removePeer, Continue
<1>6. /\ roomOf \in [Socket -> RoomId \cup {None}] /\ Alike(x, h) /\ OneEach(redis) /\ Place(s)
  BY <1>1, <1>2, <1>4, WorkTypes DEF Alike, RoomsInv
<1>7. OneEach(redis') /\ Work' = (Work \ {h}) \cup {x}
  BY <1>4, <1>5, <1>6, ContinuedWork
<1>8. roomOf'[s] = None /\ \A t \in Socket \ {s} : roomOf'[t] = roomOf[t]
  BY <1>5, <1>6
<1>9. s \notin peers[r]
  BY <1>1, <1>2, <1>6 DEF Place, RemovingPlace
<1>10. Stage(h, members[r], peers[r], fileStats[r]) =>
         Stage(x, members[r], peers'[r], fileStats[r])
  BY <1>1, <1>2, <1>4, <1>5 DEF Stage, Joins
<1>11. /\ h.op \notin Joins \cup {"get"} /\ x.op \in {"del", "remaining", "delRoom"}
       /\ \A t \in Socket \ {s} : roomOf'[t] = roomOf[t]
       /\ roomOf'[s] = (IF x.op = "del" THEN r ELSE None)
       /\ roomOf'[s] \in {roomOf[s], None} /\ (roomOf'[s] # roomOf[s] => s \notin peers[r])
       /\ \A q \in RoomId \ {r} : peers'[q] = peers[q]
       /\ peers'[r] \subseteq peers[r] /\ s \notin peers'[r]
       /\ UNCHANGED <<toPage, fileStats>>
  BY <1>2, <1>4, <1>5, <1>8, <1>9
<1> QED BY <1>1, <1>4, <1>7, <1>10, <1>11, RemoveContinues


\* What the dashboard has when a peer was removed, and that no page hears of a new room.
LEMMA RemovedCounted ==
  ASSUME TypeInv, NEW h \in Command, h.room \in RoomId, NEW S \in SUBSET Socket, peerRemoved(h, S)
  PROVE  /\ \A q \in RoomId \ {h.room} : fileStats'[q] = fileStats[q]
         /\ Counted(fileStats'[h.room], S)
         /\ \A p \in Page : \A m \in ToSet(toPage'[p]) :
              m.type = "ROOM_CREATED" => m \in ToSet(toPage[p])
<1>1. PICK n \in Nat : n = Cardinality(S)
  BY SocketSets
<1>2. setFileRoomPeerCount(h.room, n) /\ (n = 0 <=> S = {})
  BY <1>1, SocketSets DEF peerRemoved
<1>3. fileStats \in [RoomId -> FileRoomStat \cup {None}]
  BY WorkTypes
<1>4. /\ \A q \in RoomId \ {h.room} : fileStats'[q] = fileStats[q]
      /\ fileStats'[h.room] = None <=> n = 0
      /\ n # 0 => fileStats'[h.room].peerCount = n
  BY <1>2, <1>3, PeerCountType
<1>5. Counted(fileStats'[h.room], S)
  BY <1>1, <1>2, <1>4 DEF Counted
<1>6. PICK sent : /\ Emit(sent)
                  /\ \A t \in DOMAIN sent : sent[t] \in ToPage /\ sent[t].type = "LEAVE_ROOM"
  BY peerRemovedTyped
<1>7. \A p \in Page : \A m \in ToSet(toPage'[p]) :
        m.type = "ROOM_CREATED" => m \in ToSet(toPage[p])
  <2>1. \A t \in DOMAIN sent : sent[t] \in ToPage
    BY <1>6
  <2>2. \A p \in Page :
          \/ toPage'[p] = toPage[p]
          \/ /\ SocketOf(p) \in DOMAIN sent
             /\ ToSet(toPage'[p]) = ToSet(toPage[p]) \cup {sent[SocketOf(p)]}
    BY <1>6, <2>1, Emitted
  <2> QED BY <1>6, <2>2
<1> QED BY <1>4, <1>5, <1>7


\* removePeer returns.
LEMMA RemoveReturns ==
  ASSUME TypeInv, RoomsInv, ServerStill, redis # <<>>, NEW h, h = Head(redis),
         h.op \in {"remaining", "delRoom"}, redis' = Tail(redis),
         NEW r \in RoomId, r = h.room, NEW S \in SUBSET Socket, peerRemoved(h, S),
         roomOf' = roomOf, \A q \in RoomId \ {r} : peers'[q] = peers[q],
         peers'[r] \subseteq peers[r],
         Stage(h, members[r], peers[r], fileStats[r]) => peers'[r] = S /\ members[r] = S,
         UNCHANGED <<overtaken, contended>>
  PROVE  RoomsInv'
<1>1. PICK s \in Socket : s = h.socket
  BY Replied, WorkTypes
<1>2. h.op \notin Joins \cup {"get"} /\ h \in Command /\ Removing(s) = {h}
  BY <1>1, RemovePlaced DEF Joins
<1>3. /\ \A q \in RoomId \ {r} : fileStats'[q] = fileStats[q]
      /\ Counted(fileStats'[r], S)
      /\ \A p \in Page : \A m \in ToSet(toPage'[p]) :
           m.type = "ROOM_CREATED" => m \in ToSet(toPage[p])
  BY <1>2, RemovedCounted
<1>4. OneEach(redis) /\ Place(s)
  BY DEF RoomsInv
<1>5. OneEach(redis') /\ Work' = Work \ {h}
  BY <1>4, ReturnedWork
<1>6. PICK x, B : x = h /\ B = {}
  OBVIOUS
<1>7. /\ B \subseteq {x} /\ Work' = (Work \ {h}) \cup B /\ B # {x}
      /\ x.op \notin Joins \cup {"get"} /\ x.socket = s /\ x.room = r /\ x.creating = h.creating
  BY <1>1, <1>2, <1>5, <1>6
<1>8. roomOf'[s] = None /\ roomOf'[s] = roomOf[s] /\ \A t \in Socket \ {s} : roomOf'[t] = roomOf[t]
  BY <1>2, <1>4 DEF Place, RemovingPlace
<1>9. \A q \in RoomId \ {r} : peers'[q] = peers[q] /\ fileStats'[q] = fileStats[q]
  BY <1>3
<1>10. Stage(h, members[r], peers[r], fileStats[r]) =>
         B = {} /\ peers'[r] = members[r] /\ Counted(fileStats'[r], members[r])
  BY <1>3, <1>6
<1> QED BY <1>1, <1>2, <1>3, <1>5, <1>7, <1>8, <1>9, <1>10, RemoveGoesOn

LEMMA remainingRooms ==
  ASSUME TypeInv, RoomsInv, ServerStill, redis # <<>>, NEW h, h = Head(redis),
         h.op = "remaining", removePeer(h), UNCHANGED <<overtaken, contended>>
  PROVE  RoomsInv'
<1>1. PICK s \in Socket, r \in RoomId : s = h.socket /\ r = h.room
  BY Replied, WorkTypes
<1>2. /\ h.op \notin Joins \cup {"get"} /\ h \in Command /\ Removing(s) = {h}
      /\ h.op \in {"remaining", "delRoom"}
  BY <1>1, RemovePlaced DEF Joins
<1>3. peers \in [RoomId -> SUBSET Socket] /\ OneEach(redis) /\ Place(s)
  BY <1>1, WorkTypes DEF RoomsInv
<1>4. UNCHANGED <<peers, roomOf>>
  BY DEF removePeer, redisVars
<1>5. Stage(h, members[r], peers[r], fileStats[r]) => peers[r] = members[r]
  BY DEF Stage, Joins
<1>6. CASE peers[r] = {}
  <2>1. PICK x : x = [h EXCEPT !.op = "delRoom"]
    OBVIOUS
  <2>2. /\ x \in Command /\ x.op = "delRoom" /\ x.socket = s /\ x.room = r
        /\ x.creating = h.creating /\ x.op \notin Joins \cup {"get"}
    BY <1>1, <1>2, <2>1, NextCommand DEF Joins
  <2>3. redis' = Append(Tail(redis), x) /\ UNCHANGED <<toPage, fileStats>>
    BY <1>1, <1>6, <2>1 DEF removePeer, Continue
  <2>4. Alike(x, h)
    BY <1>1, <1>2, <2>2 DEF Alike
  <2>5. OneEach(redis') /\ Work' = (Work \ {h}) \cup {x}
    BY <1>3, <2>2, <2>3, <2>4, ContinuedWork
  <2>6. roomOf'[s] = roomOf[s] /\ roomOf'[s] = None
    BY <1>2, <1>3, <1>4 DEF Place, RemovingPlace
  <2>7. Stage(h, members[r], peers[r], fileStats[r]) =>
          Stage(x, members[r], peers'[r], fileStats[r])
    BY <1>4, <1>5, <1>6, <2>2 DEF Stage, Joins
  <2>8. /\ h.op \notin Joins \cup {"get"} /\ x.op \in {"del", "remaining", "delRoom"}
        /\ \A t \in Socket \ {s} : roomOf'[t] = roomOf[t]
        /\ roomOf'[s] = (IF x.op = "del" THEN r ELSE None)
        /\ roomOf'[s] \in {roomOf[s], None} /\ (roomOf'[s] # roomOf[s] => s \notin peers[r])
        /\ \A q \in RoomId \ {r} : peers'[q] = peers[q]
        /\ peers'[r] \subseteq peers[r] /\ s \notin peers'[r]
        /\ UNCHANGED <<toPage, fileStats>>
    BY <1>2, <1>4, <1>6, <2>2, <2>3, <2>6
  <2> QED BY <1>1, <2>2, <2>5, <2>7, <2>8, RemoveContinues
<1>7. CASE peers[r] # {}
  <2>1. PICK S \in SUBSET Socket : S = peers[r]
    BY <1>1, <1>3
  <2>2. redis' = Tail(redis) /\ peerRemoved(h, S)
    BY <1>1, <1>7, <2>1 DEF removePeer, Return
  <2>3. Stage(h, members[r], peers[r], fileStats[r]) => peers'[r] = S /\ members[r] = S
    BY <1>4, <1>5, <2>1
  <2>4. roomOf' = roomOf /\ (\A q \in RoomId \ {r} : peers'[q] = peers[q])
        /\ peers'[r] \subseteq peers[r]
    BY <1>4
  <2> QED BY <1>1, <1>2, <2>1, <2>2, <2>3, <2>4, RemoveReturns
<1> QED BY <1>6, <1>7

LEMMA delRoomRooms ==
  ASSUME TypeInv, RoomsInv, ServerStill, redis # <<>>, NEW h, h = Head(redis),
         h.op = "delRoom", removePeer(h), UNCHANGED <<overtaken, contended>>
  PROVE  RoomsInv'
<1>1. PICK r \in RoomId : r = h.room
  BY Replied, WorkTypes
<1>2. peers \in [RoomId -> SUBSET Socket]
  BY WorkTypes
<1>3. PICK S \in SUBSET Socket : S = {}
  OBVIOUS
<1>4. /\ redis' = Tail(redis) /\ peerRemoved(h, S) /\ roomOf' = roomOf
      /\ peers' = [peers EXCEPT ![r] = {}]
  BY <1>1, <1>3 DEF removePeer, Return
<1>5. peers'[r] = {} /\ \A q \in RoomId \ {r} : peers'[q] = peers[q]
  BY <1>2, <1>4
<1>6. Stage(h, members[r], peers[r], fileStats[r]) => peers'[r] = S /\ members[r] = S
  BY <1>3, <1>5 DEF Stage
<1>7. h.op \in {"remaining", "delRoom"} /\ peers'[r] \subseteq peers[r]
  BY <1>5
<1> QED BY <1>1, <1>3, <1>4, <1>5, <1>6, <1>7, RemoveReturns


\* What the reply to a get overtakes: the socket's own join, if it has not returned.
LEMMA MissedJoin ==
  ASSUME TypeInv, RoomsInv, Reply, NEW h, h = Head(redis), h.op = "get",
         NEW s \in Socket, s = h.socket
  PROVE  /\ \A t \in Socket \ {s} : t \in overtaken' <=> t \in overtaken
         /\ s \in overtaken' <=> s \in overtaken \/ Joining(s) # {}
         /\ contended \subseteq contended' /\ \A k \in Joining(s) : k.room \in contended'
<1>1. redis \in Seq(Command) /\ redis # <<>>
  BY WorkTypes DEF Reply, redisReplies
<1>2. Len(redis) \in Nat \ {0} /\ 1 \in 1..Len(redis) /\ h = redis[1]
  BY <1>1, TailElements
<1>3. PICK missed : /\ missed = Missed(h)
                    /\ overtaken' = overtaken \cup {redis[i].socket : i \in missed}
                    /\ contended' = contended \cup {redis[i].room : i \in missed}
  BY DEF Reply
<1>4. missed = {i \in 2..Len(redis) : redis[i].socket = s /\ redis[i].op \in Joins}
  BY <1>3 DEF Missed
<1>5. \A i \in missed : redis[i].socket = s /\ redis[i] \in Joining(s)
  <2> SUFFICES ASSUME NEW i \in missed PROVE redis[i].socket = s /\ redis[i] \in Joining(s)
    OBVIOUS
  <2>1. i \in 1..Len(redis) /\ redis[i].socket = s /\ redis[i].op \in Joins
    BY <1>2, <1>4
  <2>2. redis[i] \in Work
    BY <1>1, <2>1 DEF Work, ToSet
  <2> QED BY <2>1, <2>2 DEF Joining
<1>6. \A k \in Joining(s) : \E i \in missed : redis[i] = k
  <2> SUFFICES ASSUME NEW k \in Joining(s) PROVE \E i \in missed : redis[i] = k
    OBVIOUS
  <2>1. k \in ToSet(redis) /\ k.socket = s /\ k.op \in Joins
    BY DEF Joining, Work
  <2>2. PICK i \in 1..Len(redis) : redis[i] = k
    BY <1>1, <2>1, Places1
  <2>3. i # 1
    BY <1>2, <2>1, <2>2 DEF Joins
  <2>4. i \in 2..Len(redis)
    BY <1>2, <2>2, <2>3
  <2> QED BY <1>4, <2>1, <2>2, <2>4
<1>7. \A t \in Socket \ {s} : t \in overtaken' <=> t \in overtaken
  BY <1>3, <1>5
<1>8. s \in overtaken' <=> s \in overtaken \/ Joining(s) # {}
  <2>1. CASE Joining(s) = {}
    <3>1. missed = {}
      BY <1>5, <2>1
    <3> QED BY <1>3, <2>1, <3>1
  <2>2. CASE Joining(s) # {}
    <3>1. PICK i \in missed : redis[i].socket = s
      BY <1>5, <1>6, <2>2
    <3> QED BY <1>3, <2>2, <3>1
  <2> QED BY <2>1, <2>2
<1>9. \A k \in Joining(s) : k.room \in contended'
  BY <1>3, <1>6
<1> QED BY <1>3, <1>7, <1>8, <1>9

LEMMA getNothingRooms ==
  ASSUME TypeInv, RoomsInv, ServerStill, Reply, redis # <<>>, NEW h, h = Head(redis),
         h.op = "get", removePeer(h), roomOf[h.socket] = None
  PROVE  RoomsInv'
<1>1. PICK s \in Socket : s = h.socket
  BY Replied, WorkTypes
<1>2. /\ h \in Command /\ h \in Work /\ h.room = None /\ h.op \notin Joins
      /\ Removing(s) = {h} /\ Gone(s) /\ s \notin overtaken
      /\ \A q \in RoomId : s \notin members[q]
  BY <1>1, RemovePlaced, HeadKnown DEF Joins
<1>3. redis' = Tail(redis) /\ UNCHANGED <<toPage, peers, roomOf, fileStats>>
  BY DEF removePeer, Return, redisVars
<1>4. OneEach(redis) /\ Place(s) /\ roomOf[s] = None
  BY <1>1 DEF RoomsInv
<1>5. OneEach(redis') /\ Work' = Work \ {h}
  BY <1>3, <1>4, ReturnedWork
<1>6. \A t \in Socket : Line(t)' /\ (Gone(t)' <=> Gone(t)) /\ (Asking(t)' <=> Asking(t))
  BY StillLines
<1>7. members' = members /\ starts' = starts /\ issued' = issued /\ shared' = shared
  BY DEF ServerStill
<1>8. PICK J : J = Joining(s)
  OBVIOUS
<1>9. /\ \A t \in Socket \ {s} : t \in overtaken' <=> t \in overtaken
      /\ s \in overtaken' <=> s \in overtaken \/ J # {}
      /\ contended \subseteq contended' /\ \A k \in J : k.room \in contended'
  BY <1>1, <1>8, MissedJoin
<1>10. Joining(s)' = J /\ Removing(s)' = {}
  BY <1>2, <1>5, <1>8 DEF Joining, Removing
<1>11. \A k \in Work \cup Work' : (k \in Work /\ k \in Work') \/ (k.socket = s /\ k.room = None)
  <2> SUFFICES ASSUME NEW k \in Work \cup Work', ~(k \in Work /\ k \in Work')
               PROVE  k.socket = s /\ k.room = None
    OBVIOUS
  <2>1. k = h
    BY <1>5
  <2> QED BY <1>1, <1>2, <2>1
<1>13. \A t \in Socket \ {s} : Place(t)'
  <2> SUFFICES ASSUME NEW t \in Socket \ {s} PROVE Place(t)'
    OBVIOUS
  <2>1. /\ roomOf'[t] = roomOf[t] /\ (t \in overtaken' <=> t \in overtaken)
        /\ contended \subseteq contended'
        /\ \A q \in RoomId : t \in peers'[q] => t \in peers[q]
    BY <1>3, <1>9
  <2>2. \A k \in Work \cup Work' : k.socket = t => (k \in Work <=> k \in Work')
    BY <1>11
  <2> QED BY <2>1, <2>2, ReplyOther
<1>14. Place(s)'
  <2>1. GonePlace(s)'
    BY <1>2, <1>6, <1>7, <1>9, <1>10 DEF GonePlace
  <2>2. AskingPlace(s)'
    BY <1>3, <1>4, <1>6, <1>7, <1>8, <1>10 DEF AskingPlace, Place
  <2>3. RemovingPlace(s)'
    BY <1>10 DEF RemovingPlace
  <2>4. ListedPlace(s)'
    <3> SUFFICES ASSUME NEW q \in RoomId
                 PROVE  /\ roomOf[s] # q /\ s \notin members[q]
                        /\ s \in peers[q] => \/ s \in overtaken'
                                             \/ \E k \in J : k.room = q /\ k.op \in {"expire", "set"}
      BY <1>3, <1>7, <1>10 DEF ListedPlace
    <3>1. roomOf[s] # q /\ s \notin members[q]
      BY <1>2, <1>4, FileRoomsAssumption
    <3>2. s \in peers[q] => \/ s \in overtaken
                            \/ \E k \in J : k.room = q /\ k.op \in {"expire", "set"}
      BY <1>4, <1>8, <3>1 DEF Place, ListedPlace
    <3> QED BY <1>9, <3>1, <3>2
  <2>5. JoiningPlace(s)'
    BY <1>9, <1>10 DEF JoiningPlace
  <2> QED BY <2>1, <2>2, <2>3, <2>4, <2>5 DEF Place
<1>15. NewInv'
  <2>1. NewInv
    BY DEF RoomsInv
  <2>2. \A q \in RoomId \ issued' : Unused(q)'
    BY <1>3, <1>5, <1>7, <2>1 DEF NewInv, Unused
  <2>3. ASSUME NEW k \in Work', k.creating /\ k.op \in Joins PROVE New(k.room, k)'
    <3>1. PICK r \in RoomId : r = k.room
      BY <1>5, <2>3, WorkTypes DEF Joins
    <3>2. New(r, k)
      BY <1>5, <2>1, <2>3, <3>1 DEF NewInv
    <3>3. New(r, k)'
      BY <1>3, <1>5, <1>7, <3>2 DEF New
    <3> QED BY <3>1, <3>2, <1>3, <1>5, <1>7 DEF New
  <2> QED BY <2>2, <2>3 DEF NewInv
<1>16. ASSUME NEW q \in RoomId \ contended' PROVE Agree(q)'
  <2>1. \A k \in Work \cup Work' : (k \in Work /\ k \in Work') \/ (k.socket = s /\ k.room # q)
    BY <1>11, FileRoomsAssumption
  <2>2. roomOf[s] # q /\ roomOf'[s] # q /\ \A t \in Socket \ {s} : roomOf'[t] = roomOf[t]
    BY <1>3, <1>4, FileRoomsAssumption
  <2>3. peers'[q] = peers[q] /\ fileStats'[q] = fileStats[q] /\ q \notin contended
    BY <1>3, <1>9
  <2> QED BY <2>1, <2>2, <2>3, OtherRooms
<1> QED BY <1>5, <1>6, <1>13, <1>14, <1>15, <1>16 DEF RoomsInv


LEMMA getRoomRooms ==
  ASSUME TypeInv, RoomsInv, ServerStill, Reply, redis # <<>>, NEW h, h = Head(redis),
         h.op = "get", removePeer(h), roomOf[h.socket] # None
  PROVE  RoomsInv'
<1>1. PICK s \in Socket : s = h.socket
  BY Replied, WorkTypes
<1>2. PICK r \in RoomId : r = roomOf[s] /\ r \in issued
  BY <1>1, WorkTypes
<1>3. /\ h \in Command /\ h \in Work /\ h.room = None /\ h.op \notin Joins
      /\ Removing(s) = {h} /\ Gone(s) /\ s \notin overtaken
      /\ \A q \in RoomId : s \notin members[q]
  BY <1>1, RemovePlaced, HeadKnown DEF Joins
<1>4. PICK y : y = [h EXCEPT !.room = r]
  OBVIOUS
<1>5. y \in Command /\ y.socket = s /\ y.room = r /\ y.creating = h.creating
  BY <1>1, <1>3, <1>4, NextCommandRoom
<1>6. PICK x : x = [y EXCEPT !.op = "srem"]
  OBVIOUS
<1>7. x \in Command /\ x.op = "srem" /\ x.socket = s /\ x.room = r /\ x.op \notin Joins
  BY <1>5, <1>6, NextCommand DEF Joins
<1>8. redis' = Append(Tail(redis), x) /\ UNCHANGED <<toPage, peers, roomOf, fileStats>>
  BY <1>1, <1>2, <1>4, <1>6 DEF removePeer, Continue, redisVars
<1>9. OneEach(redis) /\ Place(s) /\ Alike(x, h)
  BY <1>1, <1>3, <1>7 DEF RoomsInv, Alike
<1>10. OneEach(redis') /\ Work' = (Work \ {h}) \cup {x}
  BY <1>7, <1>8, <1>9, ContinuedWork
<1>11. \A t \in Socket : Line(t)' /\ (Gone(t)' <=> Gone(t)) /\ (Asking(t)' <=> Asking(t))
  BY StillLines
<1>12. members' = members /\ starts' = starts /\ issued' = issued /\ shared' = shared
  BY DEF ServerStill
<1>13. Joining(s) = {}
  BY <1>2, <1>9, FileRoomsAssumption DEF Place, AskingPlace
<1>14. /\ \A t \in Socket : t \in overtaken' <=> t \in overtaken
       /\ contended \subseteq contended'
  BY <1>1, <1>3, <1>13, MissedJoin
<1>15. Joining(s)' = {} /\ Removing(s)' = {x}
  <2>1. \A g \in Work' : g # x /\ g.socket = s => g \in Joining(s) \cup Removing(s) /\ g # h
    BY <1>10 DEF Joining, Removing
  <2> QED BY <1>3, <1>7, <1>10, <1>13, <2>1 DEF Joining, Removing
<1>16. \A k \in Work \cup Work' : (k \in Work /\ k \in Work') \/ (k.socket = s /\ k.room \in {None, r})
  <2> SUFFICES ASSUME NEW k \in Work \cup Work', ~(k \in Work /\ k \in Work')
               PROVE  k.socket = s /\ k.room \in {None, r}
    OBVIOUS
  <2>1. k = h \/ k = x
    BY <1>10
  <2> QED BY <1>1, <1>3, <1>7, <2>1
<1>18. \A t \in Socket \ {s} : Place(t)'
  <2> SUFFICES ASSUME NEW t \in Socket \ {s} PROVE Place(t)'
    OBVIOUS
  <2>1. /\ roomOf'[t] = roomOf[t] /\ (t \in overtaken' <=> t \in overtaken)
        /\ contended \subseteq contended'
        /\ \A q \in RoomId : t \in peers'[q] => t \in peers[q]
    BY <1>8, <1>14
  <2>2. \A k \in Work \cup Work' : k.socket = t => (k \in Work <=> k \in Work')
    BY <1>16
  <2> QED BY <2>1, <2>2, ReplyOther
<1>19. Place(s)'
  <2>1. GonePlace(s)'
    BY <1>3, <1>11, <1>12, <1>14, <1>15 DEF GonePlace
  <2>2. AskingPlace(s)'
    BY <1>8, <1>9, <1>11, <1>12, <1>15 DEF AskingPlace, Place
  <2>3. RemovingPlace(s)'
    BY <1>2, <1>7, <1>8, <1>15 DEF RemovingPlace
  <2>4. ListedPlace(s)'
    <3> SUFFICES ASSUME NEW q \in RoomId
                 PROVE  s \notin members[q] /\ (s \in peers[q] => roomOf[s] = q)
      BY <1>7, <1>8, <1>12, <1>15 DEF ListedPlace
    <3> QED BY <1>3, <1>9, <1>13 DEF Place, ListedPlace
  <2>5. JoiningPlace(s)'
    BY <1>15 DEF JoiningPlace
  <2> QED BY <2>1, <2>2, <2>3, <2>4, <2>5 DEF Place
<1>20. NewInv'
  <2>1. NewInv
    BY DEF RoomsInv
  <2>2. \A q \in RoomId \ issued' : Unused(q)'
    BY <1>2, <1>7, <1>8, <1>10, <1>12, <2>1 DEF NewInv, Unused
  <2>3. ASSUME NEW k \in Work', k.creating /\ k.op \in Joins PROVE New(k.room, k)'
    <3>1. k \in Work \ {h}
      BY <1>7, <1>10, <2>3
    <3>2. PICK q \in RoomId : q = k.room
      BY <2>3, <3>1, WorkTypes DEF Joins
    <3>3. New(q, k)
      BY <2>1, <2>3, <3>1, <3>2 DEF NewInv
    <3>4. q # r
      BY <1>2, <3>3 DEF New
    <3>5. New(q, k)'
      BY <1>7, <1>8, <1>10, <1>12, <3>3, <3>4 DEF New
    <3> QED BY <3>2, <3>5, <1>8, <1>10, <1>12 DEF New
  <2> QED BY <2>2, <2>3 DEF NewInv
<1>21. ASSUME NEW q \in RoomId \ contended' PROVE Agree(q)'
  <2>1. CASE q # r
    <3>1. \A k \in Work \cup Work' : (k \in Work /\ k \in Work') \/ (k.socket = s /\ k.room # q)
      BY <1>16, <2>1, FileRoomsAssumption
    <3>2. roomOf[s] # q /\ roomOf'[s] # q /\ \A t \in Socket \ {s} : roomOf'[t] = roomOf[t]
      BY <1>2, <1>8, <2>1
    <3>3. peers'[q] = peers[q] /\ fileStats'[q] = fileStats[q] /\ q \notin contended
      BY <1>8, <1>14
    <3> QED BY <3>1, <3>2, <3>3, OtherRooms
  <2>2. CASE q = r
    <3>1. At(r) = {h} /\ Stage(h, members[r], peers[r], fileStats[r])
      BY <1>1, <1>2, <1>3, <1>14, <2>2 DEF RoomsInv, Agree, At, Works
    <3>2. At(r)' = {x}
      <4>1. \A g \in Work \ {h} : ~Works(g, r)
        BY <3>1 DEF At
      <4>2. x \in At(r)'
        BY <1>7, <1>10 DEF At, Works
      <4> QED BY <1>8, <1>10, <4>1, <4>2 DEF At, Works
    <3>3. Stage(x, members'[r], peers'[r], fileStats'[r])
      BY <1>1, <1>7, <1>8, <1>12, <3>1 DEF Stage, Joins
    <3> QED BY <2>2, <3>2, <3>3 DEF Agree
  <2> QED BY <2>1, <2>2
<1> QED BY <1>10, <1>11, <1>18, <1>19, <1>20, <1>21 DEF RoomsInv

LEMMA ReplyRooms ==
  ASSUME TypeInv, RoomsInv, Reply
  PROVE  RoomsInv'
<1>1. PICK h : h = Head(redis)
  OBVIOUS
<1>2. redis # <<>> /\ ServerStill /\ (addPeerToRoom(h) \/ removePeer(h))
  BY <1>1 DEF Reply, redisReplies, ServerStill, sessionVars
<1>3. h.op # "get" => UNCHANGED <<overtaken, contended>>
  BY <1>1, NoneMissed
<1>4. CASE h.op = "smembers" /\ addPeerToRoom(h)
  BY <1>1, <1>2, <1>3, <1>4, smembersRooms
<1>5. CASE h.op = "sadd" /\ addPeerToRoom(h)
  BY <1>1, <1>2, <1>3, <1>5, saddRooms
<1>6. CASE h.op = "expire" /\ addPeerToRoom(h)
  BY <1>1, <1>2, <1>3, <1>6, expireRooms
<1>7. CASE h.op = "set" /\ addPeerToRoom(h)
  BY <1>1, <1>2, <1>3, <1>7, setRooms
<1>8. CASE h.op = "get" /\ removePeer(h)
  BY <1>1, <1>2, <1>8, getNothingRooms, getRoomRooms
<1>9. CASE h.op = "srem" /\ removePeer(h)
  BY <1>1, <1>2, <1>3, <1>9, sremRooms
<1>10. CASE h.op = "del" /\ removePeer(h)
  BY <1>1, <1>2, <1>3, <1>10, delRooms
<1>11. CASE h.op = "remaining" /\ removePeer(h)
  BY <1>1, <1>2, <1>3, <1>11, remainingRooms
<1>12. CASE h.op = "delRoom" /\ removePeer(h)
  BY <1>1, <1>2, <1>3, <1>12, delRoomRooms
<1>13. addPeerToRoom(h) => h.op \in {"smembers", "sadd", "expire", "set"}
  BY DEF addPeerToRoom
<1>14. removePeer(h) => h.op \in {"get", "srem", "del", "remaining", "delRoom"}
  BY DEF removePeer
<1> QED BY <1>2, <1>4, <1>5, <1>6, <1>7, <1>8, <1>9, <1>10, <1>11, <1>12, <1>13, <1>14


\* A page's step leaves the server's rooms as they are.
RoomsStill == UNCHANGED <<issued, members, peers, roomOf, redis, fileStats, overtaken, contended>>

LEMMA PlaceStill ==
  ASSUME TypeInv, RoomsStill, NEW s \in Socket, Place(s), Gone(s)' <=> Gone(s),
         Asking(s)' => Asking(s), starts'[s] = starts[s]
  PROVE  Place(s)'
<1>1. Work' = Work /\ UNCHANGED <<members, peers, roomOf, overtaken, contended>>
  BY DEF RoomsStill, Work
<1>2. Joining(s)' = Joining(s) /\ Removing(s)' = Removing(s)
  BY <1>1 DEF Joining, Removing
<1>3. /\ \A h \in Removing(s) : h.op = "get" \/ h.room \in RoomId
      /\ \A h \in Joining(s) : h.room \in RoomId
  BY WorkTypes DEF Joining, Removing, Joins
<1> QED BY <1>1, <1>2, <1>3, PlaceKept

LEMMA PagesKeepRooms ==
  ASSUME TypeInv, RoomsInv, RoomsStill, \A s \in Socket : Line(s)' /\ Place(s)',
         \A p \in Page : \A m \in ToSet(toPage'[p]) :
           m.type = "ROOM_CREATED" => m \in ToSet(toPage[p]),
         \A r \in shared' : \/ r \in shared
                            \/ \E p \in Page : \E m \in ToSet(toPage[p]) :
                                 m.type = "ROOM_CREATED" /\ m.room = r
  PROVE  RoomsInv'
<1>1. Work' = Work /\ UNCHANGED <<issued, members, peers, roomOf, redis, fileStats, contended>>
  BY DEF RoomsStill, Work
<1>2. NewInv'
  <2>1. NewInv
    BY DEF RoomsInv
  <2>2. \A q \in RoomId \ issued' : Unused(q)'
    BY <1>1, <2>1 DEF NewInv, Unused
  <2>3. ASSUME NEW k \in Work', k.creating /\ k.op \in Joins PROVE New(k.room, k)'
    <3>1. PICK r \in RoomId : r = k.room
      BY <1>1, <2>3, WorkTypes DEF Joins
    <3>2. New(r, k)
      BY <1>1, <2>1, <2>3, <3>1 DEF NewInv
    <3>3. New(r, k)'
      BY <1>1, <3>2 DEF New
    <3> QED BY <3>1, <3>3, <1>1 DEF New
  <2> QED BY <2>2, <2>3 DEF NewInv
<1>3. ASSUME NEW q \in RoomId \ contended' PROVE Agree(q)'
  <2>1. Agree(q)
    BY <1>1 DEF RoomsInv
  <2>2. At(q)' = At(q)
    BY <1>1 DEF At, Works
  <2> QED BY <1>1, <2>1, <2>2, AgreeKept
<1>4. OneEach(redis')
  BY <1>1 DEF RoomsInv
<1> QED BY <1>2, <1>3, <1>4 DEF RoomsInv

\* A page that receives a message, or that changes nothing but its session.
LEMMA QuietRooms ==
  ASSUME TypeInv, RoomsInv, RoomsStill, UNCHANGED <<connection, toServer, starts>>,
         \A p \in Page : \A m \in ToSet(toPage'[p]) :
           m.type = "ROOM_CREATED" => m \in ToSet(toPage[p]),
         \A r \in shared' : \/ r \in shared
                            \/ \E p \in Page : \E m \in ToSet(toPage[p]) :
                                 m.type = "ROOM_CREATED" /\ m.room = r
  PROVE  RoomsInv'
<1>1. ASSUME NEW s \in Socket PROVE Line(s)' /\ Place(s)'
  <2>1. Line(s) /\ Place(s)
    BY DEF RoomsInv
  <2>2. Old(s)' <=> Old(s)
    BY DEF Old
  <2>3. Line(s)' /\ (Gone(s)' <=> Gone(s)) /\ (Asking(s)' <=> Asking(s))
    BY <2>1, <2>2, LineKept
  <2> QED BY <2>1, <2>3, PlaceStill
<1> QED BY <1>1, PagesKeepRooms

LEMMA PageStepRooms ==
  ASSUME TypeInv, RoomsInv, NEW p \in Page, PageStep(p)
  PROVE  RoomsInv'
<1>1. PICK type : Receive(p, type) /\ (type = "ROOM_CREATED" \/ UNCHANGED shared)
                  /\ (UNCHANGED shared \/ shared' = shared \cup {Head(toPage[p]).room})
  BY DEF PageStep, PageHandler, onRoomCreated, onPeerJoined, onRoomUsers, onSdpOffer, onSdpAnswer,
         onIceCandidate, onLeaveRoom
<1>2. /\ Head(toPage[p]).type = type /\ Head(toPage[p]) \in ToSet(toPage[p])
      /\ \A q \in Page : ToSet(toPage'[q]) \subseteq ToSet(toPage[q])
  BY <1>1, Received
<1>3. RoomsStill /\ UNCHANGED <<connection, toServer, starts>>
  BY <1>1 DEF Receive, roomVars, redisVars, RoomsStill, PageStep, historyVars
<1>4. \A r \in shared' : \/ r \in shared
                         \/ \E q \in Page : \E m \in ToSet(toPage[q]) :
                              m.type = "ROOM_CREATED" /\ m.room = r
  BY <1>1, <1>2
<1> QED BY <1>2, <1>3, <1>4, QuietRooms

\* A page that sends what asks for nothing, on its current socket.
LEMMA SendingRooms ==
  ASSUME TypeInv, RoomsInv, RoomsStill, UNCHANGED <<connection, toPage, shared, starts>>,
         NEW p \in Page, NEW ms \in Seq(ToServer), Send(p, ms),
         \A m \in ToSet(ms) : m.type \notin Asks \cup {"disconnect"}
  PROVE  RoomsInv'
<1>1. PICK u \in Socket : u = SocketOf(p)
  BY Current
<1>2. ~Has(ms, {"disconnect"}) /\ ~Has(ms, Asks) /\ Apart(ms, Asks, Asks)
  <2>1. ~Has(ms, {"disconnect"}) /\ ~Has(ms, Asks)
    BY DEF Has
  <2>2. DOMAIN ms = 1..Len(ms)
    OBVIOUS
  <2> QED BY <2>1, <2>2, ApartWithout
<1>3. ASSUME NEW s \in Socket PROVE Line(s)' /\ Place(s)'
  <2>1. Line(s) /\ Place(s)
    BY DEF RoomsInv
  <2>2. CASE s = u
    <3>1. Line(s)' /\ ~Gone(s)' /\ ~Gone(s) /\ (Asking(s)' => Asking(s))
      BY <1>1, <1>2, <2>1, <2>2, LineSent
    <3> QED BY <2>1, <3>1, PlaceStill
  <2>3. CASE s # u
    <3>1. toServer'[s] = toServer[s] /\ (Old(s)' <=> Old(s))
      BY <1>1, <2>3, Sent DEF Old
    <3>2. Line(s)' /\ (Gone(s)' <=> Gone(s)) /\ (Asking(s)' <=> Asking(s))
      BY <2>1, <3>1, LineKept
    <3> QED BY <2>1, <3>2, PlaceStill
  <2> QED BY <2>2, <2>3
<1> QED BY <1>3, PagesKeepRooms


LEMMA PeeringStepRooms ==
  ASSUME TypeInv, RoomsInv, NEW p \in Page, NEW s \in Socket, PeeringStep(p, s)
  PROVE  RoomsInv'
<1>1. /\ RoomsStill /\ UNCHANGED <<connection, toPage, shared, starts>>
      /\ Peering(p, s)
  BY DEF PeeringStep, Peering, described, channelOpens, channelCloses, roomVars, redisVars,
         RoomsStill, historyVars
<1>2. CASE UNCHANGED toServer
  BY <1>1, <1>2, QuietRooms
<1>3. CASE \E type \in {"SDP_OFFER", "SDP_ANSWER"} : Describe(p, s, type) /\ session[p].pcs[s] # None
  <2>1. PICK type \in {"SDP_OFFER", "SDP_ANSWER"} : Describe(p, s, type)
    BY <1>3
  <2>2. session[p].pcs[s] \in PeerConnection
    BY <1>3, SessionsWellFormed, SessionFields
  <2>3. PICK ms \in Seq(ToServer) :
          /\ Send(p, ms)
          /\ \A m \in ToSet(ms) : m.type \in {"SDP_OFFER", "SDP_ANSWER", "ICE_CANDIDATE"}
    BY <2>1, <2>2, DescribeMade
  <2>4. \A m \in ToSet(ms) : m.type \notin Asks \cup {"disconnect"}
    BY <2>3 DEF Asks
  <2> QED BY <1>1, <2>3, <2>4, SendingRooms
<1>4. CASE channelOpens(p, s)
  <2>1. PICK r : r = session[p].room
    OBVIOUS
  <2>2. r \in RoomId \cup {None}
    BY <2>1, SessionsWellFormed, SessionFields
  <2>3. PICK type \in Routes :
          Send(p, IF r = None THEN <<>>
                  ELSE <<[type |-> "CONNECTION_INFO", room |-> r, connectionType |-> type]>>)
    BY <1>4, <2>1 DEF channelOpens
  <2>4. PICK ms \in Seq(ToServer) :
          Send(p, ms) /\ \A m \in ToSet(ms) : m.type = "CONNECTION_INFO"
    <3>1. CASE r = None
      BY <2>3, <3>1, ShortSequences, SetNothing
    <3>2. CASE r # None
      <4>1. PICK m \in ToServer :
              m = [type |-> "CONNECTION_INFO", room |-> r, connectionType |-> type]
        BY <2>2, <3>2, MessagesMade, PeerSignallingAssumption
      <4>2. <<m>> \in Seq(ToServer) /\ ToSet(<<m>>) = {m} /\ m.type = "CONNECTION_INFO"
        BY <4>1, ShortSequences, SetOne
      <4>3. Send(p, <<m>>)
        BY <2>3, <3>2, <4>1
      <4> QED BY <4>2, <4>3
    <3> QED BY <3>1, <3>2
  <2>5. \A m \in ToSet(ms) : m.type \notin Asks \cup {"disconnect"}
    BY <2>4 DEF Asks
  <2> QED BY <1>1, <2>4, <2>5, SendingRooms
<1>5. \/ UNCHANGED toServer
      \/ \E type \in {"SDP_OFFER", "SDP_ANSWER"} : Describe(p, s, type) /\ session[p].pcs[s] # None
      \/ channelOpens(p, s)
  BY <1>1 DEF Peering, described, channelCloses
<1> QED BY <1>2, <1>3, <1>4, <1>5

\* Create and Join are pressed once on each connection.
OneRequest == MaxStarts <= 1

LEMMA StartRooms ==
  ASSUME TypeInv, RoomsInv, RoomsStill, OneRequest, NEW p \in Page, NEW m \in ToServer,
         m.type \in Asks, NEW x, Start(p, m, x)
  PROVE  RoomsInv'
<1>1. PICK u \in Socket : u = SocketOf(p)
  BY Current
<1>2. PICK ms : ms = <<m>>
  OBVIOUS
<1>3. ms \in Seq(ToServer) /\ ToSet(ms) = {m}
  BY <1>2, ShortSequences, SetOne
<1>4. /\ Send(p, ms) /\ UNCHANGED <<connection, toPage, shared>>
      /\ starts[u] < MaxStarts /\ starts' = [starts EXCEPT ![u] = @ + 1]
  BY <1>1, <1>2 DEF Start
<1>5. starts \in [Socket -> Nat] /\ starts[u] = 0 /\ starts'[u] # 0
  <2>1. starts \in [Socket -> Nat]
    BY TypesSplit DEF TypeInv, PeerSignallingTypeOK
  <2>2. starts[u] \in Nat /\ starts'[u] = starts[u] + 1
    BY <1>4, <2>1
  <2> QED BY <1>4, <2>1, <2>2, PeerSignallingAssumption DEF OneRequest
<1>6. ~Has(ms, {"disconnect"}) /\ Has(ms, Asks) /\ Apart(ms, Asks, Asks)
  BY <1>2, <1>3, ApartShort DEF Has, Asks
<1>7. Work' = Work /\ UNCHANGED <<members, peers, roomOf, overtaken, contended>>
  BY DEF RoomsStill, Work
<1>8. ASSUME NEW s \in Socket PROVE Line(s)' /\ Place(s)'
  <2>1. Line(s) /\ Place(s)
    BY DEF RoomsInv
  <2>2. CASE s = u
    <3>1. ~Asking(s)
      BY <1>5, <2>1, <2>2 DEF Place, AskingPlace
    <3>2. Line(s)' /\ ~Gone(s)' /\ ~Gone(s)
      BY <1>1, <1>3, <1>4, <1>6, <2>1, <2>2, <3>1, LineSent
    <3>3. Joining(s)' = Joining(s) /\ Removing(s)' = Removing(s)
      BY <1>7 DEF Joining, Removing
    <3>4. /\ Joining(s) = {} /\ roomOf[s] = None
          /\ \A r \in RoomId : s \notin members[r] /\ s \notin peers[r]
      BY <1>5, <2>1, <2>2 DEF Place, AskingPlace
    <3>5. AskingPlace(s)'
      BY <1>5, <1>7, <2>2, <3>3, <3>4 DEF AskingPlace
    <3>6. GonePlace(s)' /\ JoiningPlace(s)'
      BY <1>7, <2>1, <3>2, <3>3, <3>4 DEF Place, GonePlace, JoiningPlace
    <3>7. RemovingPlace(s)'
      BY <1>7, <2>1, <3>2, <3>3 DEF Place, GonePlace, RemovingPlace
    <3>8. ListedPlace(s)'
      BY <1>7, <2>1, <3>3, <3>4, FileRoomsAssumption DEF Place, ListedPlace
    <3> QED BY <3>2, <3>5, <3>6, <3>7, <3>8 DEF Place
  <2>3. CASE s # u
    <3>1. toServer'[s] = toServer[s] /\ (Old(s)' <=> Old(s)) /\ starts'[s] = starts[s]
      BY <1>1, <1>3, <1>4, <1>5, <2>3, Sent DEF Old
    <3>2. Line(s)' /\ (Gone(s)' <=> Gone(s)) /\ (Asking(s)' <=> Asking(s))
      BY <1>4, <2>1, <3>1, LineKept
    <3> QED BY <2>1, <3>1, <3>2, PlaceStill
  <2> QED BY <2>2, <2>3
<1> QED BY <1>4, <1>8, PagesKeepRooms

LEMMA ReconnectRooms ==
  ASSUME TypeInv, RoomsInv, UNCHANGED <<overtaken, contended>>, NEW p \in Page,
         NEW lost \in SUBSET (0..Len(toServer[SocketOf(p)])), Reconnect(p, lost)
  PROVE  RoomsInv'
<1>1. RoomsStill /\ UNCHANGED <<shared, starts>> /\ toPage' = [toPage EXCEPT ![p] = <<>>]
  BY DEF Reconnect, RoomsStill, roomVars, redisVars
<1>2. ASSUME NEW s \in Socket PROVE Line(s)' /\ Place(s)'
  <2>1. Line(s) /\ Place(s)
    BY DEF RoomsInv
  <2>2. Line(s)' /\ (Asking(s)' => Asking(s)) /\ (Gone(s)' <=> Gone(s))
    BY <2>1, LineReconnected
  <2> QED BY <1>1, <2>1, <2>2, PlaceStill
<1>3. \A q \in Page : ToSet(toPage'[q]) \subseteq ToSet(toPage[q])
  <2>1. toPage \in [Page -> Seq(ToPage)]
    BY TypesSplit DEF TypeInv
  <2> QED BY <1>1, <2>1, SetNothing
<1> QED BY <1>1, <1>2, <1>3, PagesKeepRooms


LEMMA UserStepRooms ==
  ASSUME TypeInv, RoomsInv, OneRequest, NEW p \in Page, UserStep(p)
  PROVE  RoomsInv'
<1>1. UNCHANGED <<overtaken, contended>>
  BY DEF UserStep, historyVars
<1>2. CASE createRoom(p)
  <2>1. PICK m \in ToServer : m = [type |-> "CREATE_ROOM"]
    BY MessagesMade
  <2>2. PICK x : Start(p, m, x)
    BY <1>2, <2>1 DEF createRoom
  <2>3. RoomsStill
    BY <1>1, <2>2 DEF Start, RoomsStill, roomVars, redisVars
  <2>4. m.type \in Asks
    BY <2>1 DEF Asks
  <2> QED BY <2>2, <2>3, <2>4, StartRooms
<1>3. CASE joinRoom(p)
  <2>1. PICK r \in shared :
          Start(p, [type |-> "JOIN_ROOM", room |-> r], [session[p] EXCEPT !.room = r])
    BY <1>3 DEF joinRoom
  <2>2. r \in RoomId
    BY <2>1, WorkTypes
  <2>3. PICK m \in ToServer : m = [type |-> "JOIN_ROOM", room |-> r]
    BY <2>2, MessagesMade
  <2>4. PICK x : Start(p, m, x)
    BY <2>1, <2>3
  <2>6. m.type \in Asks
    BY <2>3 DEF Asks
  <2>5. RoomsStill
    BY <1>1, <2>4 DEF Start, RoomsStill, roomVars, redisVars
  <2> QED BY <2>4, <2>5, <2>6, StartRooms
<1>4. CASE pageLeft(p)
  <2>1. PICK lost : lost = {0}
    OBVIOUS
  <2>2. PICK u \in Socket : u = SocketOf(p)
    BY Current
  <2>3. toServer[u] \in Seq(ToServer)
    BY TypesSplit DEF TypeInv
  <2>4. lost \in SUBSET (0..Len(toServer[u])) /\ Reconnect(p, lost)
    BY <1>4, <2>1, <2>3 DEF pageLeft
  <2> QED BY <1>1, <2>2, <2>4, ReconnectRooms
<1> QED BY <1>2, <1>3, <1>4 DEF UserStep

LEMMA FaultRooms ==
  ASSUME TypeInv, RoomsInv, NEW p \in Page, Fault(p)
  PROVE  RoomsInv'
<1>1. UNCHANGED <<overtaken, contended>>
  BY DEF Fault
<1>2. CASE connectionLost(p)
  <2>1. PICK lost \in SUBSET (0..Len(toServer[SocketOf(p)])) : Reconnect(p, lost)
    BY <1>2 DEF connectionLost
  <2> QED BY <1>1, <2>1, ReconnectRooms
<1>3. ASSUME NEW s \in Socket, peerLost(p, s) PROVE RoomsInv'
  <2>1. RoomsStill /\ UNCHANGED <<connection, toServer, toPage, shared, starts>>
    BY <1>1, <1>3 DEF peerLost, RoomsStill, roomVars, redisVars
  <2> QED BY <2>1, QuietRooms
<1> QED BY <1>2, <1>3 DEF Fault

LEMMA StillRooms ==
  ASSUME TypeInv, RoomsInv, UNCHANGED vars
  PROVE  RoomsInv'
<1>1. RoomsStill /\ UNCHANGED <<connection, toServer, toPage, shared, starts>>
  BY DEF vars, RoomsStill, roomVars, redisVars, socketVars, sessionVars, historyVars
<1> QED BY <1>1, QuietRooms

LEMMA StartRoomsInv == Init => RoomsInv
<1> SUFFICES ASSUME Init PROVE RoomsInv
  OBVIOUS
<1>1. /\ connection = [p \in Page |-> 1] /\ toServer = [s \in Socket |-> <<>>]
      /\ toPage = [p \in Page |-> <<>>] /\ issued = {} /\ members = [r \in RoomId |-> {}]
      /\ peers = [r \in RoomId |-> {}] /\ roomOf = [s \in Socket |-> None] /\ redis = <<>>
      /\ fileStats = [r \in RoomId |-> None] /\ shared = {} /\ starts = [s \in Socket |-> 0]
      /\ overtaken = {} /\ contended = {}
  BY DEF Init, FileRoomsInit, PeerSignallingInit
<1>2. Work = {} /\ OneEach(redis)
  BY <1>1, SetNothing DEF Work, OneEach
<1>3. ASSUME NEW s \in Socket PROVE Line(s) /\ Place(s)
  <2>1. toServer[s] = <<>> /\ starts[s] = 0 /\ roomOf[s] = None
    BY <1>1
  <2>2. ~Has(toServer[s], {"disconnect"}) /\ ~Asking(s)
    BY <2>1, SetNothing DEF Has, Asking
  <2>3. Line(s)
    BY <2>1, <2>2, ApartShort DEF Line, DisconnectLast
  <2>4. Joining(s) = {} /\ Removing(s) = {}
    BY <1>2 DEF Joining, Removing
  <2>5. Place(s)
    BY <1>1, <2>1, <2>2, <2>4, FileRoomsAssumption
    DEF Place, GonePlace, AskingPlace, RemovingPlace, ListedPlace, JoiningPlace
  <2> QED BY <2>3, <2>5
<1>4. NewInv
  BY <1>1, <1>2, FileRoomsAssumption DEF NewInv, Unused
<1>5. \A r \in RoomId : Agree(r)
  BY <1>1, <1>2 DEF Agree, At, Counted
<1> QED BY <1>2, <1>3, <1>4, <1>5 DEF RoomsInv

LEMMA StepPeersInv ==
  ASSUME OneRequest
  PROVE  TypeInv /\ TypeInv' /\ PeersInv /\ [Next]_vars => PeersInv'
<1> SUFFICES ASSUME TypeInv, TypeInv', PeersInv, [Next]_vars PROVE PeersInv'
  OBVIOUS
<1>1. CASE lapsed
  <2>1. lapsed'
    BY <1>1 DEF Next, Event, PageStep, PeeringStep, ServerStep, Reply, UserStep, Fault, Lapse, vars,
                historyVars
  <2> QED BY <2>1 DEF PeersInv
<1>2. CASE RoomsInv
  <2>1. CASE UNCHANGED vars
    BY <1>2, <2>1, StillRooms DEF PeersInv
  <2>2. CASE Event
    BY <1>2, <2>2, PageStepRooms, PeeringStepRooms, ServerStepRooms, ReplyRooms
    DEF Event, PeersInv
  <2>3. CASE \E p \in Page : UserStep(p) \/ Fault(p)
    BY <1>2, <2>3, UserStepRooms, FaultRooms DEF PeersInv
  <2>4. CASE Lapse
    BY <2>4 DEF Lapse, PeersInv
  <2> QED BY <2>1, <2>2, <2>3, <2>4 DEF Next
<1> QED BY <1>1, <1>2 DEF PeersInv

LEMMA PeersInvShows == TypeInv /\ PeersInv => PeersAgree
<1> SUFFICES ASSUME TypeInv, RoomsInv, NEW r \in RoomId
             PROVE  /\ peers[r] \subseteq members[r] \cup {s \in Socket : Leaving(s)} \cup overtaken
                    /\ r \notin contended /\ AtWork(r) = {} =>
                         /\ peers[r] = members[r]
                         /\ fileStats[r] = None <=> members[r] = {}
                         /\ members[r] # {} => fileStats[r].peerCount = Cardinality(members[r])
  BY DEF PeersInv, PeersAgree
<1>1. redis \in Seq(Command) /\ peers[r] \subseteq Socket
  BY WorkTypes
<1>2. ASSUME NEW s \in Socket, NEW g \in Work, g.socket = s PROVE Leaving(s)
  <2>1. PICK i \in 1..Len(redis) : redis[i] = g
    BY <1>1, Places1 DEF Work
  <2> QED BY <1>2, <2>1 DEF Leaving
<1>3. ASSUME NEW s \in peers[r] PROVE s \in members[r] \/ Leaving(s) \/ s \in overtaken
  <2>1. s \in Socket /\ Place(s)
    BY <1>1 DEF RoomsInv
  <2>2. \/ s \in members[r] \/ s \in overtaken
        \/ \E g \in Joining(s) \cup Removing(s) : TRUE
    BY <2>1 DEF Place, ListedPlace
  <2>3. \A g \in Joining(s) \cup Removing(s) : g \in Work /\ g.socket = s
    BY DEF Joining, Removing
  <2> QED BY <1>2, <2>1, <2>2, <2>3
<1>4. ASSUME r \notin contended, AtWork(r) = {}
      PROVE  peers[r] = members[r] /\ Counted(fileStats[r], members[r])
  <2>1. At(r) = {}
    <3> SUFFICES ASSUME NEW g \in At(r) PROVE FALSE
      OBVIOUS
    <3>1. g \in Work /\ (g.room = r \/ roomOf[g.socket] = r)
      BY DEF At, Works
    <3>2. PICK i \in 1..Len(redis) : redis[i] = g
      BY <1>1, <3>1, Places1 DEF Work
    <3>3. i \in AtWork(r)
      BY <3>1, <3>2 DEF AtWork
    <3> QED BY <1>4, <3>3
  <2>2. Agree(r)
    BY <1>4 DEF RoomsInv
  <2> QED BY <2>1, <2>2 DEF Agree
<1> QED BY <1>1, <1>3, <1>4 DEF Counted

\* Whoever Redis lists in a file room is one of its members, or on its way in or out, or
\* its disconnect overtook its join; and once no handler is at work on a room that two
\* were never at work on at once, Redis lists its members exactly and the dashboard has
\* their number - until a key expires.  Of a page that asks for one room on a connection:
\* the server keeps one room for a socket, and forgets the first when it asks for a second.
THEOREM PeersKept == ASSUME OneRequest PROVE Spec => []PeersAgree
<1>1. Init => TypeInv /\ PeersInv
  BY StartTypeInv, StartRoomsInv DEF PeersInv
<1>2. TypeInv /\ PeersInv /\ [Next]_vars => (TypeInv /\ PeersInv)'
  BY StepTypeInv, StepPeersInv
<1>3. TypeInv /\ PeersInv => PeersAgree
  BY PeersInvShows
<1> QED BY <1>1, <1>2, <1>3, PTL DEF Spec
=============================================================================
