------------------------------ MODULE ChatRooms ------------------------------
(***************************************************************************)
(* The /chat namespace of the signaling server: ChatGateway and            *)
(* ChatRoomService, the room documents in MongoDB, the chat part of        *)
(* StatsService, and the sockets of the pages.  A handler runs in one      *)
(* step, except that joining awaits MongoDB and bcrypt and closing awaits  *)
(* MongoDB.  Left out: payloads that fail validation, the rate limiter,    *)
(* the text of messages, two fresh identifiers that are the same.          *)
(***************************************************************************)
EXTENDS Naturals, Sequences, FiniteSets, SequencesExt

CONSTANTS
  Page,           \* the browser pages on /chat
  Name,           \* stage names, told apart without regard to case
  RoomId,         \* the identifiers randomUUID yields, none of them twice
  Private,        \* those of the rooms with a password
  None,           \* "undefined" and the empty string
  MaxConnections  \* bound: how often each page connects

ASSUME ChatAssumption ==
  /\ MaxConnections \in [Page -> Nat \ {0}]
  /\ Private \subseteq RoomId
  /\ IsFiniteSet(Page) /\ IsFiniteSet(RoomId)
  /\ None \notin RoomId \cup Name \cup Nat

\* A socket id: the page and the number of the connection.
Socket == UNION {{p} \X (1..MaxConnections[p]) : p \in Page}

VARIABLES
  connection,    \* connection[p]: the number of the page's current connection
  toServer,      \* toServer[s]: messages on their way from socket s
  toPage,        \* toPage[p]: messages on their way to the page's current socket
  chatRooms,     \* the room documents in MongoDB
  expired,       \* the rooms whose time to live is over
  timers,        \* expiryTimers
  firing,        \* firing[r]: how many expiries of r await deleteOne
  participants,  \* participants[r][s]: the stage name of s in r, or None
  suspended,     \* the joins that await MongoDB or bcrypt
  chatStats      \* StatsService.chatRooms: the participant count, or None

socketVars == <<connection, toServer, toPage>>
expiryVars == <<chatRooms, expired, timers, firing>>
roomVars == <<expiryVars, participants, suspended, chatStats>>

SocketOf(p) == <<p, connection[p]>>

\* handleJoinRoom in findOne ("finding") or, with the room found, in what follows.
Suspended == [stage : {"finding", "checking"}, socket : Socket, room : RoomId, name : Name]

ToServer ==
  [type : {"JOIN_ROOM"}, room : RoomId, name : Name]
  \cup [type : {"LEAVE_ROOM", "SEND_MESSAGE"}, room : RoomId]
  \cup [type : {"TYPING"}, room : RoomId, isTyping : BOOLEAN]
  \cup [type : {"disconnect"}]

ToPage ==
  [type : {"JOIN_SUCCESS"}, room : RoomId, participants : SUBSET Name]
  \cup [type : {"JOIN_ERROR"}, reason : {"NAME_TAKEN", "other"}]
  \cup [type : {"USER_JOINED", "USER_LEFT", "NEW_MESSAGE"}, name : Name]
  \cup [type : {"USER_TYPING"}, name : Name, isTyping : BOOLEAN]
  \cup [type : {"ROOM_CLOSED"}]

Nobody == [s \in Socket |-> None]

ChatRoomsTypeOK ==
  /\ connection \in [Page -> Nat]
  /\ \A p \in Page : SocketOf(p) \in Socket
  /\ toServer \in [Socket -> Seq(ToServer)]
  /\ toPage \in [Page -> Seq(ToPage)]
  /\ chatRooms \subseteq RoomId
  /\ expired \subseteq RoomId
  /\ timers \subseteq RoomId
  /\ firing \in [RoomId -> Nat]
  /\ participants \in [RoomId -> [Socket -> Name \cup {None}]]
  /\ suspended \subseteq Suspended
  /\ chatStats \in [RoomId -> Nat \cup {None}]

ChatRoomsInit ==
  /\ connection = [p \in Page |-> 1]
  /\ toServer = [s \in Socket |-> <<>>]
  /\ toPage = [p \in Page |-> <<>>]
  /\ chatRooms = {}
  /\ expired = {}
  /\ timers = {}
  /\ firing = [r \in RoomId |-> 0]
  /\ participants = [r \in RoomId |-> Nobody]
  /\ suspended = {}
  /\ chatStats = [r \in RoomId |-> None]

-----------------------------------------------------------------------------
Members(r) == {s \in Socket : participants[r][s] # None}

\* One message to each of the sockets.
To(sockets, m) == [s \in Socket |-> IF s \in sockets THEN <<m>> ELSE <<>>]

Then(sent, more) == [s \in Socket |-> sent[s] \o more[s]]

\* What is sent to a socket that is no longer in use is lost.
Emit(sent) == toPage' = [p \in Page |-> toPage[p] \o sent[SocketOf(p)]]

Request(s, type) ==
  /\ toServer[s] # <<>>
  /\ Head(toServer[s]).type = type
  /\ toServer' = [toServer EXCEPT ![s] = Tail(@)]
  /\ UNCHANGED connection

\* POST /chat/rooms: the document, and its timer.
createRoom(r) ==
  /\ r \notin chatRooms \cup expired
  /\ chatRooms' = chatRooms \cup {r}
  /\ timers' = timers \cup {r}
  /\ UNCHANGED <<socketVars, expired, firing, participants, suspended, chatStats>>

\* Mutant: a room that is over by now gets no timer and is not closed.
scheduleExpiryIgnoresPast(r) ==
  /\ timers' = IF r \in expired THEN timers ELSE timers \cup {r}
  /\ UNCHANGED firing

\* Once for every room; a room that is over is closed at once.
scheduleExpiry(r) ==
  IF r \in timers \/ r \notin expired
  THEN timers' = timers \cup {r} /\ UNCHANGED firing
  ELSE firing' = [firing EXCEPT ![r] = @ + 1] /\ UNCHANGED timers

\* Two hours after its creation.
timePasses(r) ==
  /\ r \in chatRooms \ expired
  /\ expired' = expired \cup {r}
  /\ UNCHANGED <<socketVars, chatRooms, timers, firing, participants, suspended, chatStats>>

\* The timer of scheduleExpiry fires, and awaits deleteOne.
fire(r) ==
  /\ r \in timers \cap expired
  /\ timers' = timers \ {r}
  /\ firing' = [firing EXCEPT ![r] = @ + 1]
  /\ UNCHANGED <<socketVars, chatRooms, expired, participants, suspended, chatStats>>

\* MongoDB's TTL index.
sweep(r) ==
  /\ r \in chatRooms \cap expired
  /\ chatRooms' = chatRooms \ {r}
  /\ UNCHANGED <<socketVars, expired, timers, firing, participants, suspended, chatStats>>

\* deleteOne resolved.
forceCloseRoom(r) ==
  /\ firing[r] > 0
  /\ firing' = [firing EXCEPT ![r] = @ - 1]
  /\ chatRooms' = chatRooms \ {r}
  /\ Emit(To(Members(r), [type |-> "ROOM_CLOSED"]))
  /\ participants' = [participants EXCEPT ![r] = Nobody]
  /\ chatStats' = [chatStats EXCEPT ![r] = None]
  /\ UNCHANGED <<connection, toServer, expired, timers, suspended>>

nameTaken(h) == \E s \in Members(h.room) : participants[h.room][s] = h.name

handleJoinRoom(s) ==
  /\ Request(s, "JOIN_ROOM")
  /\ LET m == Head(toServer[s]) IN
       suspended' = suspended \cup
         {[stage |-> "finding", socket |-> s, room |-> m.room, name |-> m.name]}
  /\ UNCHANGED <<toPage, expiryVars, participants, chatStats>>

Refuse(h, reason) ==
  /\ Emit(To({h.socket}, [type |-> "JOIN_ERROR", reason |-> reason]))
  /\ suspended' = suspended \ {h}
  /\ UNCHANGED <<connection, toServer, expiryVars, participants, chatStats>>

\* findOne read the document: ROOM_NOT_FOUND, ROOM_EXPIRED, or on to the password.
roomFound(h) ==
  /\ h.stage = "finding"
  /\ \/ /\ h.room \notin chatRooms \/ h.room \in expired
        /\ Refuse(h, "other")
     \/ /\ h.room \in chatRooms \ expired
        /\ suspended' = (suspended \ {h}) \cup {[h EXCEPT !.stage = "checking"]}
        /\ UNCHANGED <<socketVars, expiryVars, participants, chatStats>>

\* The rest of handleJoinRoom, once the password is right and the name is free.
admit(h) ==
  LET r == h.room
      there == Members(r) \cup {h.socket}
      now == [participants[r] EXCEPT ![h.socket] = h.name] IN
    /\ scheduleExpiry(r)
    /\ participants' = [participants EXCEPT ![r] = now]
    /\ Emit(Then(To({h.socket}, [type |-> "JOIN_SUCCESS", room |-> r,
                                 participants |-> {now[s] : s \in there}]),
                 To(there \ {h.socket}, [type |-> "USER_JOINED", name |-> h.name])))
    /\ chatStats' = [chatStats EXCEPT ![r] = Cardinality(there)]
    /\ suspended' = suspended \ {h}
    /\ UNCHANGED <<connection, toServer, chatRooms, expired>>

\* Mutant: the name was looked up before bcrypt.
passwordComparedLate(h) ==
  /\ h.stage = "checking"
  /\ admit(h)

\* The answers of MongoDB and bcrypt have come: INVALID_PASSWORD, NAME_TAKEN, or in.
passwordCompared(h) ==
  /\ h.stage = "checking"
  /\ \/ h.room \in Private /\ Refuse(h, "other")
     \/ nameTaken(h) /\ Refuse(h, "NAME_TAKEN")
     \/ ~nameTaken(h) /\ admit(h)

\* Mutant: the others are not told.
removeParticipantQuietly(s, from) ==
  /\ participants' = [r \in RoomId |-> IF r \in from THEN [participants[r] EXCEPT ![s] = None]
                                       ELSE participants[r]]
  /\ chatStats' = [r \in RoomId |->
                    IF r \notin from THEN chatStats[r]
                    ELSE IF Members(r) = {s} THEN None ELSE Cardinality(Members(r)) - 1]
  /\ UNCHANGED toPage

\* removeParticipant, from each of the rooms; those in which s is not are left alone.
removeParticipant(s, from) ==
  LET left == {r \in from : s \in Members(r)} IN
    /\ participants' = [r \in RoomId |-> IF r \in left THEN [participants[r] EXCEPT ![s] = None]
                                         ELSE participants[r]]
    /\ chatStats' = [r \in RoomId |->
                      IF r \notin left \/ (chatStats[r] = None /\ Members(r) # {s})
                      THEN chatStats[r]
                      ELSE IF Members(r) = {s} THEN None ELSE Cardinality(Members(r)) - 1]
    /\ Emit([t \in Socket |-> SetToSeq({[type |-> "USER_LEFT", name |-> participants[r][s]] :
                                          r \in {q \in left : t \in Members(q) \ {s}}})])

handleLeaveRoom(s) ==
  /\ Request(s, "LEAVE_ROOM")
  /\ removeParticipant(s, {Head(toServer[s]).room})
  /\ UNCHANGED <<expiryVars, suspended>>

\* Mutant: only the socket goes.
handleDisconnectForgotten(s) ==
  /\ Request(s, "disconnect")
  /\ UNCHANGED <<toPage, roomVars>>

handleDisconnect(s) ==
  /\ Request(s, "disconnect")
  /\ removeParticipant(s, RoomId)
  /\ UNCHANGED <<expiryVars, suspended>>

\* handleSendMessage; a reaction goes the same way.
handleSendMessage(s) ==
  /\ Request(s, "SEND_MESSAGE")
  /\ LET r == Head(toServer[s]).room IN
       IF s \in Members(r)
       THEN Emit(To(Members(r), [type |-> "NEW_MESSAGE", name |-> participants[r][s]]))
       ELSE UNCHANGED toPage
  /\ UNCHANGED roomVars

broadcastTyping(s) ==
  /\ Request(s, "TYPING")
  /\ LET m == Head(toServer[s]) IN
       IF s \in Members(m.room)
       THEN Emit(To(Members(m.room) \ {s}, [type |-> "USER_TYPING", isTyping |-> m.isTyping,
                                            name |-> participants[m.room][s]]))
       ELSE UNCHANGED toPage
  /\ UNCHANGED roomVars

Handler(s) ==
  \/ handleJoinRoom(s)
  \/ handleLeaveRoom(s)
  \/ handleSendMessage(s)
  \/ broadcastTyping(s)
  \/ handleDisconnect(s)

Resumed(h) == roomFound(h) \/ passwordCompared(h)

Expiry(r) == fire(r) \/ forceCloseRoom(r)
=============================================================================
