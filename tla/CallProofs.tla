----------------------------- MODULE CallProofs -----------------------------
(***************************************************************************)
(* Theorems about VideoCall, for every choice of its constants.            *)
(***************************************************************************)
EXTENDS VideoCall, SequenceTheorems, FiniteSetTheorems, TLAPS

LEMMA SocketFields ==
  ASSUME NEW s \in Socket
  PROVE  /\ s[1] \in Page
         /\ s[2] \in 1..MaxConnections[s[1]]
         /\ s = <<s[1], s[2]>>
BY DEF Socket

LEMMA SocketMade ==
  ASSUME NEW p \in Page, NEW n \in 1..MaxConnections[p]
  PROVE  <<p, n>> \in Socket
BY DEF Socket

LEMMA ToServerFields ==
  ASSUME NEW m \in ToServer
  PROVE  /\ m.type \in {"JOIN_CALL", "LEAVE_CALL", "TRACK_STATE"} => m.room \in RoomId \cup {None}
         /\ m.type = "TRACK_STATE" => m.media \in BOOLEAN
         /\ m.type \in {"SDP_OFFER", "SDP_ANSWER"} => m.target \in Socket
BY DEF ToServer

LEMMA ToServerMessages ==
  /\ [type |-> "CREATE_CALL"] \in ToServer
  /\ [type |-> "disconnect"] \in ToServer
  /\ \A r \in RoomId \cup {None} :
       /\ [type |-> "JOIN_CALL", room |-> r] \in ToServer
       /\ [type |-> "LEAVE_CALL", room |-> r] \in ToServer
       /\ \A on \in BOOLEAN : [type |-> "TRACK_STATE", room |-> r, media |-> on] \in ToServer
  /\ \A s \in Socket :
       /\ [type |-> "SDP_OFFER", target |-> s] \in ToServer
       /\ [type |-> "SDP_ANSWER", target |-> s] \in ToServer
BY DEF ToServer

LEMMA ToPageFields ==
  ASSUME NEW m \in ToPage
  PROVE  /\ m.type \in {"CALL_CREATED", "CALL_JOINED"} => m.room \in RoomId
         /\ m.type \in {"CALL_JOINED", "TRACK_STATE"} => m.media \in BOOLEAN
         /\ m.type = "PEER_JOINED" => m.peer \in Socket
         /\ m.type = "SDP_OFFER" => m.sender \in Socket
BY DEF ToPage

LEMMA ToPageMessages ==
  /\ [type |-> "JOIN_ERROR"] \in ToPage
  /\ [type |-> "CALL_ENDED"] \in ToPage
  /\ \A r \in RoomId :
       /\ [type |-> "CALL_CREATED", room |-> r] \in ToPage
       /\ \A on \in BOOLEAN : [type |-> "CALL_JOINED", room |-> r, media |-> on] \in ToPage
  /\ \A on \in BOOLEAN : [type |-> "TRACK_STATE", media |-> on] \in ToPage
  /\ \A s \in Socket :
       /\ [type |-> "PEER_JOINED", peer |-> s] \in ToPage
       /\ [type |-> "SDP_OFFER", sender |-> s] \in ToPage
       /\ [type |-> "SDP_ANSWER", sender |-> s] \in ToPage
BY DEF ToPage

LEMMA ShortSequences ==
  ASSUME NEW S
  PROVE  /\ <<>> \in Seq(S)
         /\ \A m \in S : <<m>> \in Seq(S)
         /\ \A s, t \in Seq(S) : s \o t \in Seq(S)
         /\ \A s \in Seq(S), m \in S : Append(s, m) \in Seq(S)
OBVIOUS

\* The first element of a sequence that is not empty, and the rest.
LEMMA HeadTail ==
  ASSUME NEW S, NEW s \in Seq(S), s # <<>>
  PROVE  Head(s) \in S /\ Tail(s) \in Seq(S)
OBVIOUS

-----------------------------------------------------------------------------
(* Type correctness.  A stopped stream was live, so the count of cameras     *)
(* never falls below zero.                                                   *)
LiveCounted == \A p \in Page : session[p].local => session[p].cameras > 0

TypeInv == TypeOK /\ LiveCounted

LEMMA RequestType ==
  ASSUME RoomsTypeOK, NEW s \in Socket, NEW type, Request(s, type)
  PROVE  /\ Head(toServer[s]) \in ToServer
         /\ Head(toServer[s]).type = type
         /\ toServer' \in [Socket -> Seq(ToServer)]
         /\ connection' = connection
BY HeadTail DEF RoomsTypeOK, Request

LEMMA EmitType ==
  ASSUME RoomsTypeOK, NEW sent \in [Socket -> Seq(ToPage)], Emit(sent)
  PROVE  toPage' \in [Page -> Seq(ToPage)]
BY ShortSequences DEF RoomsTypeOK, Emit

LEMMA OnlyType ==
  ASSUME NEW t, NEW m \in ToPage
  PROVE  Only(t, m) \in [Socket -> Seq(ToPage)]
BY ShortSequences DEF Only

LEMMA RoomType ==
  ASSUME RoomsTypeOK, NEW r \in RoomId, rooms[r] # None
  PROVE  /\ rooms[r] \in Room
         /\ rooms[r].host \in Socket
         /\ rooms[r].guest \in Socket \cup {None}
         /\ rooms[r].media \in BOOLEAN
BY DEF RoomsTypeOK, Room

LEMMA removeRoomType ==
  ASSUME RoomsTypeOK, NEW r \in RoomId, removeRoom(r)
  PROVE  /\ rooms' \in [RoomId -> Room \cup {None}]
         /\ socketIndex' \in [Socket -> RoomId \cup {None}]
         /\ timers' \subseteq RoomId
BY DEF RoomsTypeOK, removeRoom

LEMMA closeRoomType ==
  ASSUME RoomsTypeOK, NEW r \in RoomId, NEW s, closeRoom(r, s)
  PROVE  /\ rooms' \in [RoomId -> Room \cup {None}]
         /\ socketIndex' \in [Socket -> RoomId \cup {None}]
         /\ timers' \subseteq RoomId
         /\ toPage' \in [Page -> Seq(ToPage)]
<1>1. Only(OtherPeer(r, s), [type |-> "CALL_ENDED"]) \in [Socket -> Seq(ToPage)]
  BY OnlyType, ToPageMessages
<1> QED
  BY <1>1, EmitType, removeRoomType DEF closeRoom

LEMMA FoundRoom ==
  ASSUME RoomsTypeOK, NEW s \in Socket, findRoomBySocket(s) # None
  PROVE  /\ findRoomBySocket(s) \in RoomId
         /\ findRoomBySocket(s) = socketIndex[s]
         /\ rooms[findRoomBySocket(s)] # None
BY CallAssumption DEF RoomsTypeOK, findRoomBySocket

LEMMA handleCreateCallType ==
  ASSUME RoomsTypeOK, NEW s \in Socket, handleCreateCall(s)
  PROVE  RoomsTypeOK'
<1>1. PICK r \in RoomId : createRoom(r, s) /\ Emit(Only(s, [type |-> "CALL_CREATED", room |-> r]))
  BY DEF handleCreateCall
<1>2. toPage' \in [Page -> Seq(ToPage)]
  BY <1>1, EmitType, OnlyType, ToPageMessages
<1>3. rooms' \in [RoomId -> Room \cup {None}]
  BY <1>1 DEF RoomsTypeOK, createRoom, Room
<1>4. socketIndex' \in [Socket -> RoomId \cup {None}] /\ timers' \subseteq RoomId
  BY <1>1 DEF RoomsTypeOK, createRoom
<1> QED
  BY <1>2, <1>3, <1>4, RequestType DEF RoomsTypeOK, handleCreateCall, SocketOf

LEMMA joinRefusedType ==
  ASSUME RoomsTypeOK, NEW s \in Socket, joinRefused(s)
  PROVE  RoomsTypeOK'
<1>1. toPage' \in [Page -> Seq(ToPage)]
  BY EmitType, OnlyType, ToPageMessages DEF joinRefused
<1> QED
  BY <1>1, RequestType DEF RoomsTypeOK, joinRefused, roomVars, SocketOf

\* A join that is not refused names a room that is there.
LEMMA JoinedRoom ==
  ASSUME RoomsTypeOK, NEW s \in Socket, handleJoinCall(s), NEW r, r = Head(toServer[s]).room
  PROVE  /\ r \in RoomId
         /\ rooms[r] # None
         /\ rooms[r].guest \in {None, s}
         /\ joinRoom(r, s)
<1>1. r \in RoomId \cup {None}
  BY RequestType, ToServerFields DEF handleJoinCall
<1> QED
  BY <1>1 DEF handleJoinCall, Refused

LEMMA handleJoinCallType ==
  ASSUME RoomsTypeOK, NEW s \in Socket, handleJoinCall(s)
  PROVE  RoomsTypeOK'
<1> DEFINE r == Head(toServer[s]).room
           joined == [type |-> "CALL_JOINED", room |-> r, media |-> rooms[r].media]
           peer == [type |-> "PEER_JOINED", peer |-> s]
           sent == [t \in Socket |-> (IF t = s THEN <<joined>> ELSE <<>>)
                                       \o (IF t = rooms[r].host THEN <<peer>> ELSE <<>>)]
<1>1. r \in RoomId /\ rooms[r] # None /\ joinRoom(r, s)
  BY JoinedRoom
<1>2. joined \in ToPage /\ peer \in ToPage
  BY <1>1, RoomType, ToPageMessages
<1>3. sent \in [Socket -> Seq(ToPage)]
  <2> SUFFICES ASSUME NEW t \in Socket PROVE sent[t] \in Seq(ToPage)
    OBVIOUS
  <2> HIDE DEF joined, peer
  <2>1. <<joined>> \in Seq(ToPage) /\ <<peer>> \in Seq(ToPage) /\ <<>> \in Seq(ToPage)
    BY <1>2, ShortSequences
  <2> QED BY <2>1, ShortSequences
<1>4. Emit(sent)
  BY DEF handleJoinCall
<1>5. toPage' \in [Page -> Seq(ToPage)]
  <2> HIDE DEF sent
  <2> QED BY <1>3, <1>4, EmitType
<1>6. rooms' \in [RoomId -> Room \cup {None}]
  BY <1>1, RoomType DEF RoomsTypeOK, joinRoom, Room
<1>7. socketIndex' \in [Socket -> RoomId \cup {None}] /\ timers' \subseteq RoomId
  BY <1>1 DEF RoomsTypeOK, joinRoom
<1> QED
  BY <1>5, <1>6, <1>7, RequestType DEF RoomsTypeOK, handleJoinCall, SocketOf

LEMMA handleSdpType ==
  ASSUME RoomsTypeOK, NEW s \in Socket, handleSdp(s)
  PROVE  RoomsTypeOK'
<1>1. PICK type \in {"SDP_OFFER", "SDP_ANSWER"} :
        /\ Request(s, type)
        /\ Emit(Only(Head(toServer[s]).target, [type |-> type, sender |-> s]))
  BY DEF handleSdp
<1>2. [type |-> type, sender |-> s] \in ToPage
  BY ToPageMessages
<1>3. toPage' \in [Page -> Seq(ToPage)]
  BY <1>1, <1>2, EmitType, OnlyType
<1> QED
  BY <1>1, <1>3, RequestType DEF RoomsTypeOK, handleSdp, roomVars, SocketOf

LEMMA handleTrackStateType ==
  ASSUME RoomsTypeOK, NEW s \in Socket, handleTrackState(s)
  PROVE  RoomsTypeOK'
<1> DEFINE m == Head(toServer[s])
<1>1. m.room \in RoomId \cup {None} /\ m.media \in BOOLEAN
  BY RequestType, ToServerFields DEF handleTrackState
<1>2. rooms' \in [RoomId -> Room \cup {None}] /\ toPage' \in [Page -> Seq(ToPage)]
  <2>1. CASE IsMine(s)
    <3>1. m.room \in RoomId /\ rooms[m.room] # None
      BY <2>1, FoundRoom DEF IsMine
    <3>2. [type |-> "TRACK_STATE", media |-> m.media] \in ToPage
      BY <1>1, ToPageMessages
    <3>3. Only(OtherPeer(m.room, s), [type |-> "TRACK_STATE", media |-> m.media])
            \in [Socket -> Seq(ToPage)]
      BY <3>2, OnlyType
    <3>4. toPage' \in [Page -> Seq(ToPage)]
      BY <2>1, <3>3, EmitType DEF handleTrackState
    <3>5. rooms' \in [RoomId -> Room \cup {None}]
      <4>1. [rooms[m.room] EXCEPT !.media = m.media] \in Room
        BY <1>1, <3>1, RoomType DEF Room
      <4> QED BY <2>1, <3>1, <4>1 DEF handleTrackState, setTrackState, RoomsTypeOK
    <3> QED BY <3>4, <3>5
  <2>2. CASE ~IsMine(s)
    BY <2>2 DEF handleTrackState, RoomsTypeOK
  <2> QED BY <2>1, <2>2
<1> QED
  BY <1>2, RequestType DEF RoomsTypeOK, handleTrackState, SocketOf

LEMMA handleLeaveCallType ==
  ASSUME RoomsTypeOK, NEW s \in Socket, handleLeaveCall(s)
  PROVE  RoomsTypeOK'
<1>1. CASE IsMine(s)
  <2>1. findRoomBySocket(s) \in RoomId /\ closeRoom(findRoomBySocket(s), s)
    BY <1>1, FoundRoom DEF handleLeaveCall, IsMine
  <2> QED
    BY <2>1, closeRoomType, RequestType DEF RoomsTypeOK, handleLeaveCall, SocketOf
<1>2. CASE ~IsMine(s)
  BY <1>2, RequestType DEF RoomsTypeOK, handleLeaveCall, roomVars, SocketOf
<1> QED BY <1>1, <1>2

LEMMA handleDisconnectType ==
  ASSUME RoomsTypeOK, NEW s \in Socket, handleDisconnect(s)
  PROVE  RoomsTypeOK'
<1>1. CASE findRoomBySocket(s) # None
  <2>1. findRoomBySocket(s) \in RoomId /\ closeRoom(findRoomBySocket(s), s)
    BY <1>1, FoundRoom DEF handleDisconnect
  <2> QED
    BY <2>1, closeRoomType, RequestType DEF RoomsTypeOK, handleDisconnect, SocketOf
<1>2. CASE findRoomBySocket(s) = None
  BY <1>2, RequestType DEF RoomsTypeOK, handleDisconnect, roomVars, SocketOf
<1> QED BY <1>1, <1>2

LEMMA expireType ==
  ASSUME RoomsTypeOK, NEW r \in RoomId, expire(r)
  PROVE  RoomsTypeOK'
<1> DEFINE sent == [s \in Socket |->
                      IF s \in Participants(r) THEN <<[type |-> "CALL_ENDED"]>> ELSE <<>>]
<1>1. sent \in [Socket -> Seq(ToPage)]
  BY ToPageMessages, ShortSequences
<1>2. toPage' \in [Page -> Seq(ToPage)]
  BY <1>1, EmitType DEF expire, onRoomExpired
<1> QED
  BY <1>2, removeRoomType DEF RoomsTypeOK, expire, SocketOf

LEMMA HandlerType ==
  ASSUME RoomsTypeOK, NEW s \in Socket, Handler(s)
  PROVE  RoomsTypeOK'
BY handleCreateCallType, joinRefusedType, handleJoinCallType, handleSdpType,
   handleTrackStateType, handleLeaveCallType, handleDisconnectType DEF Handler

LEMMA BecomeType ==
  ASSUME SessionTypeOK, LiveCounted, NEW p \in Page, NEW x \in Session, Become(p, x),
         x.role = "none" <=> x.room = None,
         x.signalling = "none" <=> x.peer = None,
         x.local => x.cameras > 0
  PROVE  /\ session' \in [Page -> Session]
         /\ LiveCounted'
         /\ \A q \in Page :
              /\ session'[q].role = "none" <=> session'[q].room = None
              /\ session'[q].signalling = "none" <=> session'[q].peer = None
BY DEF SessionTypeOK, LiveCounted, Become

LEMMA SessionFields ==
  ASSUME SessionTypeOK, LiveCounted, NEW p \in Page
  PROVE  /\ session[p] \in Session
         /\ session[p].role = "none" <=> session[p].room = None
         /\ session[p].signalling = "none" <=> session[p].peer = None
         /\ session[p].local => session[p].cameras > 0
         /\ session[p].asking \subseteq Asking
         /\ session[p].room \in RoomId \cup {None}
         /\ session[p].media \in BOOLEAN
         /\ session[p].cameras \in Nat
         /\ session[p].local \in BOOLEAN
         /\ session[p].peer \in Socket \cup {None}
BY DEF SessionTypeOK, LiveCounted, Session

LEMMA CurrentSocket ==
  ASSUME RoomsTypeOK, NEW p \in Page
  PROVE  SocketOf(p) \in Socket /\ toServer[SocketOf(p)] \in Seq(ToServer)
BY DEF RoomsTypeOK

LEMMA SendType ==
  ASSUME RoomsTypeOK, NEW p \in Page, NEW m \in ToServer, Send(p, m)
  PROVE  toServer' \in [Socket -> Seq(ToServer)]
BY CurrentSocket, ShortSequences DEF RoomsTypeOK, Send

LEMMA ReceiveType ==
  ASSUME RoomsTypeOK, NEW p \in Page, NEW type, Receive(p, type)
  PROVE  /\ Head(toPage[p]) \in ToPage
         /\ Head(toPage[p]).type = type
         /\ toPage' \in [Page -> Seq(ToPage)]
BY HeadTail DEF RoomsTypeOK, Receive

\* Leaving, or losing the connection, opens a socket of the same page.
LEMMA NextConnection ==
  ASSUME CallAssumption, RoomsTypeOK, NEW p \in Page, connection[p] < MaxConnections[p],
         connection' = [connection EXCEPT ![p] = @ + 1]
  PROVE  /\ connection' \in [Page -> Nat]
         /\ \A q \in Page : SocketOf(q)' \in Socket
<1>1. \A q \in Page : connection[q] \in 1..MaxConnections[q] /\ connection[q] \in Nat
  BY SocketFields DEF RoomsTypeOK, SocketOf
<1>2. MaxConnections[p] \in Nat
  BY CallAssumption DEF CallAssumption
<1>3. connection' \in [Page -> Nat]
  BY <1>1 DEF RoomsTypeOK
<1>4. \A q \in Page : connection'[q] \in 1..MaxConnections[q]
  BY <1>1, <1>2 DEF RoomsTypeOK
<1> QED
  BY <1>3, <1>4, SocketMade DEF SocketOf

LEMMA ReconnectType ==
  ASSUME RoomsTypeOK, UNCHANGED roomVars, NEW p \in Page, NEW ms \in Seq(ToServer),
         Reconnect(p, ms)
  PROVE  RoomsTypeOK'
<1>1. toServer[SocketOf(p)] \o ms \o <<[type |-> "disconnect"]>> \in Seq(ToServer)
  BY CurrentSocket, ShortSequences, ToServerMessages
<1>2. toServer' \in [Socket -> Seq(ToServer)]
  BY <1>1 DEF RoomsTypeOK, Reconnect
<1>3. toPage' \in [Page -> Seq(ToPage)]
  BY ShortSequences DEF RoomsTypeOK, Reconnect
<1> QED
  BY <1>2, <1>3, NextConnection, CallAssumption DEF RoomsTypeOK, Reconnect, roomVars

\* What a stopped stream and a reset leave of a session.
LEMMA ResetType ==
  ASSUME NEW x \in Session, x.local => x.cameras > 0
  PROVE  /\ MediaStopped(x) \in Session
         /\ MediaStopped(x).role = x.role /\ MediaStopped(x).room = x.room
         /\ MediaStopped(x).signalling = x.signalling /\ MediaStopped(x).peer = x.peer
         /\ ~MediaStopped(x).local
         /\ MediaStopped(x).cameras = IF x.local THEN x.cameras - 1 ELSE x.cameras
         /\ MediaStopped(x).creating = x.creating /\ MediaStopped(x).joining = x.joining
         /\ MediaStopped(x).asking = x.asking
         /\ Reset(x) \in Session
         /\ Reset(x).role = "none" /\ Reset(x).room = None
         /\ Reset(x).signalling = "none" /\ Reset(x).peer = None
         /\ ~Reset(x).local /\ ~Reset(x).creating /\ ~Reset(x).joining
         /\ Reset(x).asking = x.asking /\ Reset(x).cameras = MediaStopped(x).cameras
<1>1. MediaStopped(x).cameras = IF x.local THEN x.cameras - 1 ELSE x.cameras
  BY DEF MediaStopped, Session
<1>2. MediaStopped(x).cameras \in Nat
  BY <1>1 DEF Session
<1>3. MediaStopped(x) \in Session
  BY <1>2 DEF MediaStopped, Session
<1>4. Reset(x) \in Session
  BY <1>2 DEF Reset, Fresh, Session, Signalling
<1>5. /\ Reset(x).role = "none" /\ Reset(x).room = None
      /\ Reset(x).signalling = "none" /\ Reset(x).peer = None
      /\ ~Reset(x).local /\ ~Reset(x).creating /\ ~Reset(x).joining
      /\ Reset(x).asking = x.asking /\ Reset(x).cameras = MediaStopped(x).cameras
  BY DEF Reset, Fresh
<1> QED
  BY <1>1, <1>3, <1>4, <1>5 DEF MediaStopped, Session

\* A step of one page: what its session becomes has its type.
LEMMA SessionStepType ==
  ASSUME TypeInv, NEW p \in Page, NEW x \in Session, Become(p, x),
         x.role = "none" <=> x.room = None,
         x.signalling = "none" <=> x.peer = None,
         x.local => x.cameras > 0,
         starts' \in Nat, toggles' \in Nat, drops' \in Nat, severed' \subseteq Page
  PROVE  SessionTypeOK' /\ LiveCounted'
BY BecomeType DEF TypeInv, TypeOK, SessionTypeOK

LEMMA UnmovedRooms ==
  ASSUME RoomsTypeOK, UNCHANGED <<socketVars, roomVars>>
  PROVE  RoomsTypeOK'
BY DEF RoomsTypeOK, socketVars, roomVars, SocketOf

LEMMA createCallType ==
  ASSUME TypeInv, NEW p \in Page, createCall(p)
  PROVE  TypeInv'
<1> DEFINE x == [session[p] EXCEPT !.creating = TRUE, !.asking = @ \cup {Create}]
<1>1. session[p] \in Session /\ Create \in Asking
  BY SessionFields DEF TypeInv, TypeOK, Asking, Create
<1>2. x \in Session /\ x.role = session[p].role /\ x.room = session[p].room
      /\ x.signalling = session[p].signalling /\ x.peer = session[p].peer
      /\ x.local = session[p].local /\ x.cameras = session[p].cameras
  BY <1>1 DEF Session
<1>3. Become(p, x) /\ starts' = starts + 1 /\ UNCHANGED <<toggles, drops, severed>>
  BY DEF createCall
<1>4. SessionTypeOK' /\ LiveCounted'
  <2> HIDE DEF x
  <2> QED
    BY <1>2, <1>3, SessionStepType, SessionFields DEF SessionTypeOK, TypeInv, TypeOK
<1> QED
  BY <1>4, UnmovedRooms DEF createCall, TypeInv, TypeOK

LEMMA joinCallType ==
  ASSUME TypeInv, NEW p \in Page, joinCall(p)
  PROVE  TypeInv'
<1>1. PICK r \in RoomId :
        Become(p, [session[p] EXCEPT !.joining = TRUE, !.asking = @ \cup {Join(r)}])
  BY DEF joinCall
<1> DEFINE x == [session[p] EXCEPT !.joining = TRUE, !.asking = @ \cup {Join(r)}]
<1>2. session[p] \in Session /\ Join(r) \in Asking
  BY SessionFields DEF TypeInv, TypeOK, Asking, Join
<1>3. x \in Session /\ x.role = session[p].role /\ x.room = session[p].room
      /\ x.signalling = session[p].signalling /\ x.peer = session[p].peer
      /\ x.local = session[p].local /\ x.cameras = session[p].cameras
  BY <1>2 DEF Session
<1>4. Become(p, x) /\ starts' = starts + 1 /\ UNCHANGED <<toggles, drops, severed>>
  BY <1>1 DEF joinCall
<1>5. SessionTypeOK' /\ LiveCounted'
  <2> HIDE DEF x
  <2> QED
    BY <1>3, <1>4, SessionStepType, SessionFields DEF SessionTypeOK, TypeInv, TypeOK
<1> QED
  BY <1>5, UnmovedRooms DEF joinCall, TypeInv, TypeOK

LEMMA mediaAcquiredType ==
  ASSUME TypeInv, NEW p \in Page, mediaAcquired(p)
  PROVE  TypeInv'
<1>1. PICK a \in session[p].asking :
        /\ Become(p, [session[p] EXCEPT !.asking = @ \ {a}, !.local = TRUE,
                                        !.cameras = @ + 1, !.media = TRUE])
        /\ Send(p, IF a = Create THEN [type |-> "CREATE_CALL"]
                                 ELSE [type |-> "JOIN_CALL", room |-> a.room])
  BY DEF mediaAcquired
<1> DEFINE x == [session[p] EXCEPT !.asking = @ \ {a}, !.local = TRUE,
                                   !.cameras = @ + 1, !.media = TRUE]
<1>2. session[p] \in Session /\ a.room \in RoomId \cup {None}
  BY SessionFields DEF TypeInv, TypeOK, Asking
<1>3. x \in Session /\ x.role = session[p].role /\ x.room = session[p].room
      /\ x.signalling = session[p].signalling /\ x.peer = session[p].peer
      /\ x.cameras > 0
  <2>1. session[p].cameras + 1 \in Nat /\ session[p].cameras + 1 > 0
    BY <1>2 DEF Session
  <2> QED BY <1>2, <2>1 DEF Session
<1>4. toServer' \in [Socket -> Seq(ToServer)]
  BY <1>1, <1>2, SendType, ToServerMessages DEF TypeInv, TypeOK
<1>5. SessionTypeOK' /\ LiveCounted'
  <2>1. Become(p, x) /\ starts' \in Nat /\ toggles' \in Nat /\ drops' \in Nat /\ severed' \subseteq Page
    BY <1>1 DEF mediaAcquired, TypeInv, TypeOK, SessionTypeOK
  <2> HIDE DEF x
  <2> QED
    BY <1>3, <2>1, SessionStepType, SessionFields DEF TypeInv, TypeOK
<1> QED
  BY <1>4, <1>5 DEF mediaAcquired, TypeInv, TypeOK, RoomsTypeOK, roomVars, SocketOf

LEMMA mediaRefusedType ==
  ASSUME TypeInv, NEW p \in Page, mediaRefused(p)
  PROVE  TypeInv'
<1>1. PICK a \in session[p].asking :
        Become(p, [session[p] EXCEPT !.asking = @ \ {a},
                     !.creating = @ /\ a # Create, !.joining = @ /\ a = Create])
  BY DEF mediaRefused
<1> DEFINE x == [session[p] EXCEPT !.asking = @ \ {a},
                   !.creating = @ /\ a # Create, !.joining = @ /\ a = Create]
<1>2. session[p] \in Session
  BY SessionFields DEF TypeInv, TypeOK
<1>3. x \in Session /\ x.role = session[p].role /\ x.room = session[p].room
      /\ x.signalling = session[p].signalling /\ x.peer = session[p].peer
      /\ x.local = session[p].local /\ x.cameras = session[p].cameras
  BY <1>2 DEF Session
<1>4. SessionTypeOK' /\ LiveCounted'
  <2>1. Become(p, x) /\ starts' \in Nat /\ toggles' \in Nat /\ drops' \in Nat /\ severed' \subseteq Page
    BY <1>1 DEF mediaRefused, TypeInv, TypeOK, SessionTypeOK
  <2> HIDE DEF x
  <2> QED
    BY <1>3, <2>1, SessionStepType, SessionFields DEF TypeInv, TypeOK
<1> QED
  BY <1>4 DEF mediaRefused, TypeInv, TypeOK, RoomsTypeOK, socketVars, roomVars, SocketOf

LEMMA toggleType ==
  ASSUME TypeInv, NEW p \in Page, toggle(p)
  PROVE  TypeInv'
<1> DEFINE x == [session[p] EXCEPT !.media = ~@]
<1>1. session[p] \in Session /\ session[p].room \in RoomId \cup {None} /\ session[p].media \in BOOLEAN
  BY SessionFields DEF TypeInv, TypeOK
<1>2. x \in Session /\ x.role = session[p].role /\ x.room = session[p].room
      /\ x.signalling = session[p].signalling /\ x.peer = session[p].peer
      /\ x.local = session[p].local /\ x.cameras = session[p].cameras
  BY <1>1 DEF Session
<1>3. toServer' \in [Socket -> Seq(ToServer)]
  <2>1. [type |-> "TRACK_STATE", room |-> session[p].room, media |-> ~session[p].media] \in ToServer
    BY <1>1, ToServerMessages
  <2> QED BY <2>1, SendType DEF toggle, TypeInv, TypeOK
<1>4. SessionTypeOK' /\ LiveCounted'
  <2>1. Become(p, x) /\ starts' \in Nat /\ toggles' \in Nat /\ drops' \in Nat /\ severed' \subseteq Page
    BY DEF toggle, TypeInv, TypeOK, SessionTypeOK
  <2> HIDE DEF x
  <2> QED
    BY <1>2, <2>1, SessionStepType, SessionFields DEF TypeInv, TypeOK
<1> QED
  BY <1>3, <1>4 DEF toggle, TypeInv, TypeOK, RoomsTypeOK, roomVars, SocketOf

LEMMA FreshType ==
  /\ Fresh \in Session
  /\ Fresh.role = "none" /\ Fresh.room = None
  /\ Fresh.signalling = "none" /\ Fresh.peer = None
  /\ ~Fresh.local /\ Fresh.cameras = 0
  /\ ~Fresh.creating /\ ~Fresh.joining /\ Fresh.asking = {}
BY DEF Fresh, Session, Signalling

LEMMA leaveCallType ==
  ASSUME TypeInv, NEW p \in Page, leaveCall(p)
  PROVE  TypeInv'
<1> DEFINE x == Reset(session[p])
<1>1. session[p] \in Session /\ session[p].room \in RoomId \cup {None}
      /\ (session[p].local => session[p].cameras > 0)
  BY SessionFields DEF TypeInv, TypeOK
<1>2. x \in Session /\ x.role = "none" /\ x.room = None /\ x.signalling = "none"
      /\ x.peer = None /\ ~x.local
  BY <1>1, ResetType
<1>3. <<[type |-> "LEAVE_CALL", room |-> session[p].room]>> \in Seq(ToServer)
  BY <1>1, ToServerMessages, ShortSequences
<1>4. RoomsTypeOK'
  BY <1>3, ReconnectType DEF leaveCall, TypeInv, TypeOK
<1>5. SessionTypeOK' /\ LiveCounted'
  <2>1. Become(p, x) /\ starts' \in Nat /\ toggles' \in Nat /\ drops' \in Nat /\ severed' \subseteq Page
    BY DEF leaveCall, TypeInv, TypeOK, SessionTypeOK
  <2> HIDE DEF x
  <2> QED BY <1>2, <2>1, SessionStepType
<1> QED BY <1>4, <1>5 DEF TypeInv, TypeOK

LEMMA pageLeftType ==
  ASSUME TypeInv, NEW p \in Page, pageLeft(p)
  PROVE  TypeInv'
<1>1. RoomsTypeOK'
  BY ShortSequences, ReconnectType DEF pageLeft, TypeInv, TypeOK
<1>2. SessionTypeOK' /\ LiveCounted'
  <2>1. Become(p, Fresh) /\ starts' \in Nat /\ toggles' \in Nat /\ drops' \in Nat
        /\ severed' \subseteq Page
    BY DEF pageLeft, TypeInv, TypeOK, SessionTypeOK
  <2> QED BY <2>1, FreshType, SessionStepType
<1> QED BY <1>1, <1>2 DEF TypeInv, TypeOK

\* What is lost of a queue is its end.
LEMMA Prefix ==
  ASSUME NEW S, NEW q \in Seq(S), NEW n \in 0..Len(q)
  PROVE  /\ SubSeq(q, 1, n) \in Seq(S)
         /\ Len(SubSeq(q, 1, n)) = n
         /\ \A i \in 1..n : SubSeq(q, 1, n)[i] = q[i]
OBVIOUS

LEMMA connectionLostType ==
  ASSUME TypeInv, NEW p \in Page, connectionLost(p)
  PROVE  TypeInv'
<1>1. PICK n \in 0..Len(toServer[SocketOf(p)]) :
        toServer' = [toServer EXCEPT ![SocketOf(p)] =
                       SubSeq(@, 1, n) \o <<[type |-> "disconnect"]>>]
  BY DEF connectionLost
<1>2. SubSeq(toServer[SocketOf(p)], 1, n) \o <<[type |-> "disconnect"]>> \in Seq(ToServer)
  BY Prefix, CurrentSocket, ShortSequences, ToServerMessages DEF TypeInv, TypeOK
<1>3. toServer' \in [Socket -> Seq(ToServer)]
  BY <1>1, <1>2 DEF TypeInv, TypeOK, RoomsTypeOK
<1>4. toPage' \in [Page -> Seq(ToPage)]
  BY ShortSequences DEF TypeInv, TypeOK, RoomsTypeOK, connectionLost
<1>5. RoomsTypeOK'
  BY <1>3, <1>4, NextConnection, CallAssumption
  DEF RoomsTypeOK, TypeInv, TypeOK, connectionLost, roomVars
<1>6. SessionTypeOK' /\ LiveCounted'
  BY DEF TypeInv, TypeOK, SessionTypeOK, LiveCounted, connectionLost
<1> QED BY <1>5, <1>6 DEF TypeInv, TypeOK

\* A handler of a page that has received a message leaves the server as it is.
LEMMA ReceivedRooms ==
  ASSUME TypeInv, NEW p \in Page, NEW type, Receive(p, type),
         toServer' \in [Socket -> Seq(ToServer)]
  PROVE  RoomsTypeOK'
BY ReceiveType DEF TypeInv, TypeOK, RoomsTypeOK, Receive, roomVars, SocketOf

LEMMA ReceivedCounters ==
  ASSUME TypeInv, NEW p \in Page, NEW type, Receive(p, type)
  PROVE  starts' \in Nat /\ toggles' \in Nat /\ drops' \in Nat
BY DEF TypeInv, TypeOK, SessionTypeOK, Receive

LEMMA onCallCreatedType ==
  ASSUME TypeInv, NEW p \in Page, onCallCreated(p)
  PROVE  TypeInv'
<1> DEFINE m == Head(toPage[p])
           x == [session[p] EXCEPT !.role = "host", !.creating = FALSE, !.room = m.room]
<1>1. session[p] \in Session /\ m.room \in RoomId
  BY SessionFields, ReceiveType, ToPageFields DEF onCallCreated, TypeInv, TypeOK
<1>2. x \in Session /\ x.role # "none" /\ x.room # None
      /\ x.signalling = session[p].signalling /\ x.peer = session[p].peer
      /\ x.local = session[p].local /\ x.cameras = session[p].cameras
  BY <1>1, CallAssumption DEF Session, CallAssumption
<1>3. RoomsTypeOK' /\ starts' \in Nat /\ toggles' \in Nat /\ drops' \in Nat
  BY ReceivedRooms, ReceivedCounters DEF onCallCreated, TypeInv, TypeOK, RoomsTypeOK
<1>4. Become(p, x) /\ severed' \subseteq Page
  BY DEF onCallCreated, TypeInv, TypeOK, SessionTypeOK
<1>5. SessionTypeOK' /\ LiveCounted'
  <2> HIDE DEF x
  <2> QED BY <1>2, <1>3, <1>4, SessionStepType, SessionFields DEF TypeInv, TypeOK
<1> QED BY <1>3, <1>5 DEF TypeInv, TypeOK

LEMMA onJoinErrorType ==
  ASSUME TypeInv, NEW p \in Page, onJoinError(p)
  PROVE  TypeInv'
<1> DEFINE y == MediaStopped(session[p])
           x == [y EXCEPT !.joining = FALSE]
<1>1. session[p] \in Session /\ (session[p].local => session[p].cameras > 0)
  BY SessionFields DEF TypeInv, TypeOK
<1>2. x \in Session /\ x.role = session[p].role /\ x.room = session[p].room
      /\ x.signalling = session[p].signalling /\ x.peer = session[p].peer /\ ~x.local
  <2>1. y \in Session /\ y.role = session[p].role /\ y.room = session[p].room
        /\ y.signalling = session[p].signalling /\ y.peer = session[p].peer /\ ~y.local
    BY <1>1, ResetType
  <2> HIDE DEF y
  <2> QED BY <2>1 DEF Session
<1>3. RoomsTypeOK' /\ starts' \in Nat /\ toggles' \in Nat /\ drops' \in Nat
  BY ReceivedRooms, ReceivedCounters DEF onJoinError, TypeInv, TypeOK, RoomsTypeOK
<1>4. Become(p, x) /\ severed' \subseteq Page
  BY DEF onJoinError, TypeInv, TypeOK, SessionTypeOK
<1>5. SessionTypeOK' /\ LiveCounted'
  <2> HIDE DEF x
  <2> QED BY <1>2, <1>3, <1>4, SessionStepType, SessionFields DEF TypeInv, TypeOK
<1> QED BY <1>3, <1>5 DEF TypeInv, TypeOK

LEMMA onCallJoinedType ==
  ASSUME TypeInv, NEW p \in Page, onCallJoined(p)
  PROVE  TypeInv'
<1> DEFINE m == Head(toPage[p])
           x == [session[p] EXCEPT !.role = "guest", !.joining = FALSE,
                                   !.room = m.room, !.remoteMedia = m.media]
<1>1. session[p] \in Session /\ m.room \in RoomId /\ m.media \in BOOLEAN
  BY SessionFields, ReceiveType, ToPageFields DEF onCallJoined, TypeInv, TypeOK
<1>2. x \in Session /\ x.role # "none" /\ x.room # None
      /\ x.signalling = session[p].signalling /\ x.peer = session[p].peer
      /\ x.local = session[p].local /\ x.cameras = session[p].cameras
  BY <1>1, CallAssumption DEF Session, CallAssumption
<1>3. toServer' \in [Socket -> Seq(ToServer)]
  BY <1>1, SendType, ToServerMessages DEF onCallJoined, TypeInv, TypeOK
<1>4. RoomsTypeOK' /\ starts' \in Nat /\ toggles' \in Nat /\ drops' \in Nat
  BY <1>3, ReceivedRooms, ReceivedCounters DEF onCallJoined
<1>5. Become(p, x) /\ severed' \subseteq Page
  BY DEF onCallJoined, TypeInv, TypeOK, SessionTypeOK
<1>6. SessionTypeOK' /\ LiveCounted'
  <2> HIDE DEF x
  <2> QED BY <1>2, <1>4, <1>5, SessionStepType, SessionFields DEF TypeInv, TypeOK
<1> QED BY <1>4, <1>6 DEF TypeInv, TypeOK

LEMMA onPeerJoinedType ==
  ASSUME TypeInv, NEW p \in Page, onPeerJoined(p) \/ onSdpOffer(p)
  PROVE  TypeInv'
<1>1. PICK s \in Socket, w \in {"offering", "answering"} :
        Become(p, [session[p] EXCEPT !.peer = s, !.signalling = w])
  <2>1. CASE onPeerJoined(p)
    BY <2>1, ReceiveType, ToPageFields DEF onPeerJoined, createPeerConnection, TypeInv, TypeOK
  <2>2. CASE onSdpOffer(p)
    BY <2>2, ReceiveType, ToPageFields DEF onSdpOffer, createPeerConnection, TypeInv, TypeOK
  <2> QED BY <2>1, <2>2
<1> DEFINE x == [session[p] EXCEPT !.peer = s, !.signalling = w]
<1>2. session[p] \in Session
  BY SessionFields DEF TypeInv, TypeOK
<1>3. x \in Session /\ x.role = session[p].role /\ x.room = session[p].room
      /\ x.signalling # "none" /\ x.peer # None
      /\ x.local = session[p].local /\ x.cameras = session[p].cameras
  BY <1>2, SocketAssumption DEF Session, Signalling
<1>4. RoomsTypeOK' /\ starts' \in Nat /\ toggles' \in Nat /\ drops' \in Nat
  BY ReceivedRooms, ReceivedCounters DEF onPeerJoined, onSdpOffer, TypeInv, TypeOK, RoomsTypeOK
<1>5. Become(p, x) /\ severed' \subseteq Page
  BY <1>1 DEF onPeerJoined, onSdpOffer, TypeInv, TypeOK, SessionTypeOK
<1>6. SessionTypeOK' /\ LiveCounted'
  <2> HIDE DEF x
  <2> QED BY <1>3, <1>4, <1>5, SessionStepType, SessionFields DEF TypeInv, TypeOK
<1> QED BY <1>4, <1>6 DEF TypeInv, TypeOK

\* A change of the signalling state of a connection, which stays one.
LEMMA SignalledType ==
  ASSUME TypeInv, NEW p \in Page, NEW w \in Signalling,
         w = "none" <=> session[p].signalling = "none",
         Become(p, [session[p] EXCEPT !.signalling = w]),
         UNCHANGED <<starts, toggles, drops, severed>>
  PROVE  SessionTypeOK' /\ LiveCounted'
<1> DEFINE x == [session[p] EXCEPT !.signalling = w]
<1>1. session[p] \in Session
  BY SessionFields DEF TypeInv, TypeOK
<1>2. x \in Session /\ x.role = session[p].role /\ x.room = session[p].room
      /\ x.signalling = w /\ x.peer = session[p].peer
      /\ x.local = session[p].local /\ x.cameras = session[p].cameras
  BY <1>1 DEF Session
<1>3. Become(p, x)
  OBVIOUS
<1> HIDE DEF x
<1> QED
  BY <1>2, <1>3, SessionStepType, SessionFields DEF TypeInv, TypeOK, SessionTypeOK

LEMMA onSdpAnswerType ==
  ASSUME TypeInv, NEW p \in Page, onSdpAnswer(p)
  PROVE  TypeInv'
<1> DEFINE w == IF session[p].signalling = "offered" THEN "accepting" ELSE session[p].signalling
<1>1. session[p] \in Session /\ w \in Signalling /\ (w = "none" <=> session[p].signalling = "none")
  BY SessionFields DEF TypeInv, TypeOK, Session, Signalling
<1>2. Become(p, [session[p] EXCEPT !.signalling = w])
  BY DEF onSdpAnswer
<1>3. RoomsTypeOK'
  BY ReceivedRooms DEF onSdpAnswer, TypeInv, TypeOK, RoomsTypeOK
<1>4. SessionTypeOK' /\ LiveCounted'
  <2> HIDE DEF w
  <2> QED BY <1>1, <1>2, SignalledType DEF onSdpAnswer, Receive
<1> QED BY <1>3, <1>4 DEF TypeInv, TypeOK

LEMMA describeType ==
  ASSUME TypeInv, NEW p \in Page, describe(p)
  PROVE  TypeInv'
<1>1. PICK w \in {"offered", "stable"} : Become(p, [session[p] EXCEPT !.signalling = w])
  BY DEF describe
<1>2. session[p].signalling # "none" /\ session[p].peer \in Socket
  BY SessionFields DEF TypeInv, TypeOK, describe
<1>3. toServer' \in [Socket -> Seq(ToServer)]
  <2>1. CASE Send(p, [type |-> "SDP_OFFER", target |-> session[p].peer])
    BY <1>2, <2>1, SendType, ToServerMessages DEF TypeInv, TypeOK
  <2>2. CASE Send(p, [type |-> "SDP_ANSWER", target |-> session[p].peer])
    BY <1>2, <2>2, SendType, ToServerMessages DEF TypeInv, TypeOK
  <2>3. CASE UNCHANGED toServer
    BY <2>3 DEF TypeInv, TypeOK, RoomsTypeOK
  <2> QED BY <2>1, <2>2, <2>3 DEF describe
<1>4. RoomsTypeOK'
  BY <1>3 DEF TypeInv, TypeOK, RoomsTypeOK, describe, roomVars, SocketOf
<1>5. SessionTypeOK' /\ LiveCounted'
  BY <1>1, <1>2, SignalledType DEF describe, Signalling
<1> QED BY <1>4, <1>5 DEF TypeInv, TypeOK

LEMMA onTrackStateType ==
  ASSUME TypeInv, NEW p \in Page, onTrackState(p)
  PROVE  TypeInv'
<1> DEFINE x == [session[p] EXCEPT !.remoteMedia = Head(toPage[p]).media]
<1>1. session[p] \in Session /\ Head(toPage[p]).media \in BOOLEAN
  BY SessionFields, ReceiveType, ToPageFields DEF onTrackState, TypeInv, TypeOK
<1>2. x \in Session /\ x.role = session[p].role /\ x.room = session[p].room
      /\ x.signalling = session[p].signalling /\ x.peer = session[p].peer
      /\ x.local = session[p].local /\ x.cameras = session[p].cameras
  BY <1>1 DEF Session
<1>3. RoomsTypeOK' /\ starts' \in Nat /\ toggles' \in Nat /\ drops' \in Nat
  BY ReceivedRooms, ReceivedCounters DEF onTrackState, TypeInv, TypeOK, RoomsTypeOK
<1>4. Become(p, x) /\ severed' \subseteq Page
  BY DEF onTrackState, TypeInv, TypeOK, SessionTypeOK
<1>5. SessionTypeOK' /\ LiveCounted'
  <2> HIDE DEF x
  <2> QED BY <1>2, <1>3, <1>4, SessionStepType, SessionFields DEF TypeInv, TypeOK
<1> QED BY <1>3, <1>5 DEF TypeInv, TypeOK

LEMMA onCallEndedType ==
  ASSUME TypeInv, NEW p \in Page, onCallEnded(p)
  PROVE  TypeInv'
<1> DEFINE x == Reset(session[p])
<1>1. session[p] \in Session /\ (session[p].local => session[p].cameras > 0)
  BY SessionFields DEF TypeInv, TypeOK
<1>2. x \in Session /\ x.role = "none" /\ x.room = None /\ x.signalling = "none"
      /\ x.peer = None /\ ~x.local
  BY <1>1, ResetType
<1>3. RoomsTypeOK' /\ starts' \in Nat /\ toggles' \in Nat /\ drops' \in Nat
  BY ReceivedRooms, ReceivedCounters DEF onCallEnded, TypeInv, TypeOK, RoomsTypeOK
<1>4. Become(p, x) /\ severed' \subseteq Page
  BY DEF onCallEnded, TypeInv, TypeOK, SessionTypeOK
<1>5. SessionTypeOK' /\ LiveCounted'
  <2> HIDE DEF x
  <2> QED BY <1>2, <1>3, <1>4, SessionStepType
<1> QED BY <1>3, <1>5 DEF TypeInv, TypeOK

LEMMA InitType == Init => TypeInv
<1> SUFFICES ASSUME Init PROVE TypeInv
  OBVIOUS
<1>1. \A p \in Page : MaxConnections[p] \in Nat \ {0}
  BY CallAssumption DEF CallAssumption
<1>2. connection \in [Page -> Nat] /\ \A p \in Page : SocketOf(p) \in Socket
  BY <1>1, SocketMade DEF Init, RoomsInit, SocketOf
<1>3. RoomsTypeOK
  BY <1>2, ShortSequences DEF Init, RoomsInit, RoomsTypeOK
<1>4. SessionTypeOK /\ LiveCounted
  BY FreshType DEF Init, SessionInit, SessionTypeOK, LiveCounted
<1> QED BY <1>3, <1>4 DEF TypeInv, TypeOK

LEMMA UserStepType ==
  ASSUME TypeInv, NEW p \in Page, UserStep(p)
  PROVE  TypeInv'
BY createCallType, joinCallType, mediaAcquiredType, mediaRefusedType, toggleType,
   leaveCallType, pageLeftType, connectionLostType DEF UserStep

LEMMA PageHandlerType ==
  ASSUME TypeInv, NEW p \in Page, PageHandler(p)
  PROVE  TypeInv'
BY onCallCreatedType, onJoinErrorType, onCallJoinedType, onPeerJoinedType, onSdpAnswerType,
   describeType, onTrackStateType, onCallEndedType DEF PageHandler

LEMMA UnmovedSessions ==
  ASSUME TypeInv, UNCHANGED sessionVars
  PROVE  SessionTypeOK' /\ LiveCounted'
BY DEF TypeInv, TypeOK, SessionTypeOK, LiveCounted, sessionVars

LEMMA StepType == TypeInv /\ [Next]_vars => TypeInv'
<1> SUFFICES ASSUME TypeInv, [Next]_vars PROVE TypeInv'
  OBVIOUS
<1>1. ASSUME NEW p \in Page, UserStep(p) \/ PageHandler(p) PROVE TypeInv'
  BY <1>1, UserStepType, PageHandlerType
<1>2. ASSUME NEW s \in Socket, ServerStep(s) PROVE TypeInv'
  BY <1>2, HandlerType, UnmovedSessions DEF ServerStep, TypeInv, TypeOK
<1>3. ASSUME NEW r \in RoomId, Expiry(r) PROVE TypeInv'
  BY <1>3, expireType, UnmovedSessions DEF Expiry, TypeInv, TypeOK
<1>4. CASE UNCHANGED vars
  BY <1>4, UnmovedRooms, UnmovedSessions DEF vars, TypeInv, TypeOK
<1> QED BY <1>1, <1>2, <1>3, <1>4 DEF Next

\* The rooms, the index, the queues and every page's session stay what their
\* declarations say: no handler stores half a room, a page shows a room exactly when
\* it has a role, and a connection has a peer.
THEOREM TypeCorrect == Spec => []TypeOK
<1>1. Init => TypeInv
  BY InitType
<1>2. TypeInv /\ [Next]_vars => TypeInv'
  BY StepType
<1>3. TypeInv => TypeOK
  BY DEF TypeInv
<1> QED
  BY <1>1, <1>2, <1>3, PTL DEF Spec

-----------------------------------------------------------------------------
(* The protocol of one socket.  While Start and Join wait for one another, a *)
(* page has at most one question on its way: as a press that waits for the   *)
(* camera, as a request in the socket's queue, or as an answer in the page's.*)
(* The room of a socket ends once, and the CALL_ENDED is the last the page   *)
(* hears of it.                                                              *)
Has(queue, types) == \E i \in 1..Len(queue) : queue[i].type \in types

\* No message of one kind after one of another.
Apart(queue, before, after) ==
  \A i, j \in 1..Len(queue) :
    i < j /\ queue[i].type \in before => queue[j].type \notin after

Asks == {"CREATE_CALL", "JOIN_CALL"}
Leaves == {"LEAVE_CALL", "disconnect"}
Answers == {"CALL_CREATED", "CALL_JOINED", "JOIN_ERROR"}
Dismissals == {"JOIN_ERROR", "CALL_ENDED"}
Neutral == {"PEER_JOINED", "TRACK_STATE", "SDP_OFFER", "SDP_ANSWER"}

SocketInv(s) ==
  /\ Apart(toServer[s], Asks \cup {"disconnect"}, Asks)
  /\ Has(toServer[s], Asks) => socketIndex[s] = None
  \* only a socket that is no longer in use leaves
  /\ Has(toServer[s], Leaves) => s[2] < connection[s[1]]
  \* one that is not yet in use is unknown
  /\ s[2] > connection[s[1]] => toServer[s] = <<>> /\ socketIndex[s] = None
  \* one that is no longer in use has a disconnect under way, or is in no room
  /\ s[2] < connection[s[1]] =>
       \/ Has(toServer[s], {"disconnect"})
       \/ socketIndex[s] = None /\ ~Has(toServer[s], Asks)

\* The server knows nothing of the page's socket, and the page holds no camera.
Untouched(p) ==
  /\ ~session[p].local
  /\ ~Has(toServer[SocketOf(p)], Asks)
  /\ ~Has(toPage[p], Answers \cup Dismissals)
  /\ socketIndex[SocketOf(p)] = None

Resting(p) == session[p].asking # {} \/ (session[p].role = "none" /\ ~Pending(p))

PageInv(p) ==
  /\ ~(session[p].creating /\ session[p].joining)
  /\ session[p].asking # {} =>
       /\ Pending(p)
       /\ session[p].role = "none"
       /\ \A a, b \in session[p].asking : a = b
  /\ session[p].cameras = IF session[p].local THEN 1 ELSE 0
  /\ Resting(p) => Untouched(p)

\* The room the page believes it is in, or is about to, is the one the server has it
\* in, or its end is under way.
Shown(p, r) == socketIndex[SocketOf(p)] = r \/ Ending(p)

\* What a page hears, against what the server holds of its socket.
QueueInv(p) ==
  /\ Apart(toPage[p], Answers \cup Dismissals, Answers)
  /\ Apart(toPage[p], Dismissals, Dismissals)
  /\ Has(toServer[SocketOf(p)], Asks) => ~Has(toPage[p], Answers \cup Dismissals)
  /\ Has(toPage[p], Dismissals) => socketIndex[SocketOf(p)] = None
  /\ \A i \in 1..Len(toPage[p]) :
       toPage[p][i].type \in {"CALL_CREATED", "CALL_JOINED"} => Shown(p, toPage[p][i].room)
  /\ session[p].role # "none" /\ p \notin severed => Shown(p, session[p].room)

CallInv ==
  /\ RegistryAgrees
  /\ \A s \in Socket : SocketInv(s)
  /\ \A p \in Page : PageInv(p) /\ QueueInv(p)

LEMMA HasTail ==
  ASSUME NEW S, NEW q \in Seq(S), q # <<>>, NEW T
  PROVE  Has(q, T) <=> Head(q).type \in T \/ Has(Tail(q), T)
<1>1. /\ Len(q) \in Nat /\ Len(q) > 0 /\ Len(Tail(q)) = Len(q) - 1
      /\ Head(q) = q[1]
      /\ \A i \in 1..Len(Tail(q)) : Tail(q)[i] = q[i + 1]
  OBVIOUS
<1>2. ASSUME Has(q, T) PROVE Head(q).type \in T \/ Has(Tail(q), T)
  <2>1. PICK i \in 1..Len(q) : q[i].type \in T
    BY <1>2 DEF Has
  <2>2. CASE i = 1
    BY <1>1, <2>1, <2>2
  <2>3. CASE i # 1
    <3>1. i - 1 \in 1..Len(Tail(q)) /\ Tail(q)[i - 1] = q[i]
      BY <1>1, <2>3
    <3> QED BY <2>1, <3>1 DEF Has
  <2> QED BY <2>2, <2>3
<1>3. ASSUME Has(Tail(q), T) PROVE Has(q, T)
  <2>1. PICK i \in 1..Len(Tail(q)) : Tail(q)[i].type \in T
    BY <1>3 DEF Has
  <2>2. i + 1 \in 1..Len(q) /\ q[i + 1].type \in T
    BY <1>1, <2>1
  <2> QED BY <2>2 DEF Has
<1>4. ASSUME Head(q).type \in T PROVE Has(q, T)
  BY <1>1, <1>4 DEF Has
<1> QED BY <1>2, <1>3, <1>4

LEMMA HasAppend ==
  ASSUME NEW S, NEW q \in Seq(S), NEW m, NEW T
  PROVE  Has(Append(q, m), T) <=> Has(q, T) \/ m.type \in T
<1>1. /\ Len(q) \in Nat /\ Len(Append(q, m)) = Len(q) + 1
      /\ \A i \in 1..Len(q) : Append(q, m)[i] = q[i]
      /\ Append(q, m)[Len(q) + 1] = m
  OBVIOUS
<1> QED BY <1>1 DEF Has

LEMMA HasNothing == \A T : ~Has(<<>>, T)
BY DEF Has

LEMMA HasWider ==
  ASSUME NEW q, NEW T, NEW U, T \subseteq U, Has(q, T)
  PROVE  Has(q, U)
BY DEF Has

LEMMA ApartTail ==
  ASSUME NEW S, NEW q \in Seq(S), q # <<>>, NEW A, NEW B, Apart(q, A, B)
  PROVE  /\ Apart(Tail(q), A, B)
         /\ Head(q).type \in A => ~Has(Tail(q), B)
<1>1. /\ Len(q) \in Nat /\ Len(q) > 0 /\ Len(Tail(q)) = Len(q) - 1
      /\ Head(q) = q[1]
      /\ \A i \in 1..Len(Tail(q)) : Tail(q)[i] = q[i + 1] /\ i + 1 \in 1..Len(q)
  OBVIOUS
<1>2. ASSUME NEW i \in 1..Len(Tail(q)), NEW j \in 1..Len(Tail(q)), i < j,
             Tail(q)[i].type \in A
      PROVE  Tail(q)[j].type \notin B
  <2>1. i + 1 < j + 1 /\ q[i + 1].type \in A
    BY <1>1, <1>2
  <2>2. q[j + 1].type \notin B
    BY <1>1, <2>1 DEF Apart
  <2> QED BY <1>1, <2>2
<1>3. ASSUME Head(q).type \in A, NEW j \in 1..Len(Tail(q))
      PROVE  Tail(q)[j].type \notin B
  <2>1. 1 \in 1..Len(q) /\ 1 < j + 1 /\ q[1].type \in A
    BY <1>1, <1>3
  <2>2. q[j + 1].type \notin B
    BY <1>1, <2>1 DEF Apart
  <2> QED BY <1>1, <2>2
<1> QED BY <1>2, <1>3 DEF Apart, Has

LEMMA ApartAppend ==
  ASSUME NEW S, NEW q \in Seq(S), NEW m, NEW A, NEW B, Apart(q, A, B),
         m.type \in B => ~Has(q, A)
  PROVE  Apart(Append(q, m), A, B)
<1>1. /\ Len(q) \in Nat /\ Len(Append(q, m)) = Len(q) + 1
      /\ \A i \in 1..Len(q) : Append(q, m)[i] = q[i]
      /\ Append(q, m)[Len(q) + 1] = m
  OBVIOUS
<1> SUFFICES ASSUME NEW i \in 1..Len(Append(q, m)), NEW j \in 1..Len(Append(q, m)), i < j,
                    Append(q, m)[i].type \in A
             PROVE  Append(q, m)[j].type \notin B
  BY DEF Apart
<1>2. i \in 1..Len(q) /\ q[i].type \in A
  BY <1>1
<1>3. CASE j \in 1..Len(q)
  BY <1>1, <1>2, <1>3 DEF Apart
<1>4. CASE j = Len(q) + 1
  BY <1>1, <1>2, <1>4 DEF Has
<1> QED BY <1>1, <1>3, <1>4

LEMMA ApartNothing == \A A, B : Apart(<<>>, A, B)
BY DEF Apart

LEMMA PrefixApart ==
  ASSUME NEW S, NEW q \in Seq(S), NEW n \in 0..Len(q), NEW A, NEW B, Apart(q, A, B)
  PROVE  /\ Apart(SubSeq(q, 1, n), A, B)
         /\ \A T : Has(SubSeq(q, 1, n), T) => Has(q, T)
<1>1. Len(q) \in Nat /\ \A i \in 1..n : i \in 1..Len(q)
  OBVIOUS
<1> QED BY <1>1, Prefix DEF Apart, Has

-----------------------------------------------------------------------------
(* Steps of the server.                                                      *)
LEMMA OneToAppend ==
  ASSUME NEW S, NEW q \in Seq(S), NEW m \in S
  PROVE  /\ q \o <<m>> = Append(q, m) /\ q \o <<>> = q
         /\ <<m>> \o <<>> = <<m>> /\ <<>> \o <<m>> = <<m>> /\ <<>> \o <<>> = <<>>
OBVIOUS

LEMMA EmitOnly ==
  ASSUME RoomsTypeOK, NEW t, NEW m \in ToPage, Emit(Only(t, m)), NEW p \in Page
  PROVE  toPage'[p] = IF SocketOf(p) = t THEN Append(toPage[p], m) ELSE toPage[p]
<1>1. toPage'[p] = toPage[p] \o (IF SocketOf(p) = t THEN <<m>> ELSE <<>>)
  BY CurrentSocket DEF Emit, Only
<1>2. toPage[p] \in Seq(ToPage)
  BY DEF RoomsTypeOK
<1> QED BY <1>1, <1>2, OneToAppend

LEMMA OwnSocket ==
  ASSUME NEW p \in Page
  PROVE  /\ SocketOf(p)[1] = p /\ SocketOf(p)[2] = connection[p]
         /\ \A q \in Page : SocketOf(p) = SocketOf(q) => p = q
BY DEF SocketOf

LEMMA EndingIsHas == \A p : Ending(p) <=> Has(toPage[p], {"CALL_ENDED"})
BY DEF Ending, Has

\* The message a socket's handler has taken was the first of the socket's queue.
LEMMA Taken ==
  ASSUME RoomsTypeOK, NEW s \in Socket, NEW type, Request(s, type), NEW t \in Socket
  PROVE  /\ toServer[t] \in Seq(ToServer)
         /\ t = s => toServer[t] # <<>> /\ Head(toServer[t]).type = type
                     /\ toServer'[t] = Tail(toServer[t])
         /\ t # s => toServer'[t] = toServer[t]
         /\ Has(toServer'[t], Asks) => Has(toServer[t], Asks)
<1>1. toServer[t] \in Seq(ToServer) /\ toServer \in [Socket -> Seq(ToServer)]
  BY DEF RoomsTypeOK
<1>2. CASE t = s
  BY <1>1, <1>2, HasTail DEF Request
<1>3. CASE t # s
  BY <1>1, <1>3 DEF Request
<1> QED BY <1>2, <1>3

\* A handler that neither answers a question nor puts the socket into a room.
LEMMA ServedSocket ==
  ASSUME RoomsTypeOK, NEW s \in Socket, NEW type, Request(s, type), NEW t \in Socket,
         SocketInv(t), socketIndex'[t] \in {socketIndex[t], None},
         t = s /\ type = "disconnect" => socketIndex'[t] = None
  PROVE  SocketInv(t)'
<1>1. connection' = connection
  BY DEF Request
<1>2. CASE t # s
  BY <1>1, <1>2, Taken DEF SocketInv
<1>3. CASE t = s
  <2>1. /\ toServer[t] \in Seq(ToServer) /\ toServer[t] # <<>>
        /\ Head(toServer[t]).type = type /\ toServer'[t] = Tail(toServer[t])
    BY <1>3, Taken
  <2>2. Apart(Tail(toServer[t]), Asks \cup {"disconnect"}, Asks)
    BY <2>1, ApartTail DEF SocketInv
  <2>3. \A T : Has(toServer[t], T) <=> type \in T \/ Has(Tail(toServer[t]), T)
    BY <2>1, HasTail
  <2>4. ~(t[2] > connection[t[1]])
    BY <2>1 DEF SocketInv
  <2>5. type # "disconnect" => (Has(toServer[t], {"disconnect"}) <=> Has(Tail(toServer[t]), {"disconnect"}))
    BY <2>3
  <2>6. type = "disconnect" => ~Has(Tail(toServer[t]), Asks)
    BY <2>1, ApartTail DEF SocketInv
  <2> QED
    BY <1>1, <1>3, <2>1, <2>2, <2>3, <2>4, <2>5, <2>6 DEF SocketInv
<1> QED BY <1>2, <1>3

\* A socket whose request for a room is granted.
LEMMA SeatedSocket ==
  ASSUME RoomsTypeOK, NEW s \in Socket, NEW type \in Asks, Request(s, type), SocketInv(s)
  PROVE  /\ SocketInv(s)'
         /\ ~Has(toServer'[s], Asks)
         /\ socketIndex[s] = None
<1>1. /\ toServer[s] \in Seq(ToServer) /\ toServer[s] # <<>>
      /\ Head(toServer[s]).type = type /\ toServer'[s] = Tail(toServer[s])
  BY Taken
<1>2. /\ Apart(Tail(toServer[s]), Asks \cup {"disconnect"}, Asks)
      /\ ~Has(Tail(toServer[s]), Asks)
  BY <1>1, ApartTail DEF SocketInv
<1>3. \A T : Has(toServer[s], T) <=> type \in T \/ Has(Tail(toServer[s]), T)
  BY <1>1, HasTail
<1>4. ~(s[2] > connection[s[1]])
  BY <1>1 DEF SocketInv
<1>5. socketIndex[s] = None
  BY <1>3 DEF SocketInv
<1>6. s[2] < connection[s[1]] => Has(Tail(toServer[s]), {"disconnect"})
  BY <1>3 DEF SocketInv, Asks
<1> QED
  BY <1>1, <1>2, <1>3, <1>4, <1>5, <1>6 DEF SocketInv, Request

\* What a page hears besides answers and dismissals changes nothing for it.
LEMMA RelayedPage ==
  ASSUME RoomsTypeOK, UNCHANGED <<sessionVars, connection>>, NEW p \in Page,
         PageInv(p), QueueInv(p),
         socketIndex'[SocketOf(p)] = socketIndex[SocketOf(p)],
         Has(toServer'[SocketOf(p)], Asks) => Has(toServer[SocketOf(p)], Asks),
         \/ toPage'[p] = toPage[p]
         \/ \E m : m.type \in Neutral /\ toPage'[p] = Append(toPage[p], m)
  PROVE  PageInv(p)' /\ QueueInv(p)'
<1> DEFINE s == SocketOf(p)
<1>1. SocketOf(p)' = s /\ session' = session /\ severed' = severed /\ toPage[p] \in Seq(ToPage)
  BY DEF SocketOf, sessionVars, RoomsTypeOK
<1>2. CASE toPage'[p] = toPage[p]
  BY <1>1, <1>2 DEF PageInv, QueueInv, Resting, Untouched, Pending, Shown, Ending
<1>3. ASSUME NEW m, m.type \in Neutral, toPage'[p] = Append(toPage[p], m)
      PROVE  PageInv(p)' /\ QueueInv(p)'
  <2>1. /\ m.type \notin Answers \cup Dismissals
        /\ m.type \notin Answers /\ m.type \notin Dismissals
        /\ m.type \notin {"CALL_ENDED"} /\ m.type \notin {"CALL_CREATED", "CALL_JOINED"}
    BY <1>3 DEF Neutral, Answers, Dismissals
  <2>2. \A T : m.type \notin T => (Has(toPage'[p], T) <=> Has(toPage[p], T))
    BY <1>1, <1>3, HasAppend
  <2>3. Ending(p)' <=> Ending(p)
    <3>1. Has(toPage'[p], {"CALL_ENDED"}) <=> Has(toPage[p], {"CALL_ENDED"})
      BY <2>1, <2>2
    <3> QED BY <3>1 DEF Ending, Has
  <2>4. /\ Apart(toPage'[p], Answers \cup Dismissals, Answers)
        /\ Apart(toPage'[p], Dismissals, Dismissals)
    BY <1>1, <1>3, <2>1, ApartAppend DEF QueueInv
  <2>5. /\ Has(toPage'[p], Answers \cup Dismissals) <=> Has(toPage[p], Answers \cup Dismissals)
        /\ Has(toPage'[p], Dismissals) <=> Has(toPage[p], Dismissals)
    BY <2>1, <2>2
  <2>6. \A r : Shown(p, r)' <=> Shown(p, r)
    BY <1>1, <2>3 DEF Shown
  <2>7. ASSUME NEW i \in 1..Len(toPage'[p]),
               toPage'[p][i].type \in {"CALL_CREATED", "CALL_JOINED"}
        PROVE  Shown(p, toPage[p][i].room)'
    <3>1. i \in 1..Len(toPage[p]) /\ toPage'[p][i] = toPage[p][i]
      BY <1>1, <1>3, <2>1, <2>7
    <3> QED BY <2>6, <2>7, <3>1 DEF QueueInv
  <2>8. QueueInv(p)'
    BY <1>1, <2>4, <2>5, <2>6, <2>7 DEF QueueInv
  <2>9. PageInv(p)'
    BY <1>1, <2>5 DEF PageInv, Resting, Untouched, Pending
  <2> QED BY <2>8, <2>9
<1> QED BY <1>2, <1>3

\* The page of a socket whose room has been closed is told so.
LEMMA EndedPage ==
  ASSUME RoomsTypeOK, UNCHANGED <<sessionVars, connection>>, NEW p \in Page,
         PageInv(p), QueueInv(p), SocketInv(SocketOf(p)),
         socketIndex[SocketOf(p)] # None, socketIndex'[SocketOf(p)] = None,
         Has(toServer'[SocketOf(p)], Asks) => Has(toServer[SocketOf(p)], Asks),
         toPage'[p] = Append(toPage[p], [type |-> "CALL_ENDED"])
  PROVE  PageInv(p)' /\ QueueInv(p)'
<1> DEFINE s == SocketOf(p)
           m == [type |-> "CALL_ENDED"]
<1>1. SocketOf(p)' = s /\ session' = session /\ severed' = severed /\ toPage[p] \in Seq(ToPage)
  BY DEF SocketOf, sessionVars, RoomsTypeOK
<1>2. ~Has(toPage[p], Dismissals) /\ ~Has(toServer[s], Asks)
  BY DEF QueueInv, SocketInv
<1>3. Ending(p)'
  BY <1>1, HasAppend, EndingIsHas DEF Ending, Has
<1>4. /\ Apart(toPage'[p], Answers \cup Dismissals, Answers)
      /\ Apart(toPage'[p], Dismissals, Dismissals)
  BY <1>1, <1>2, ApartAppend DEF QueueInv, Answers, Dismissals
<1>5. QueueInv(p)'
  BY <1>1, <1>2, <1>3, <1>4 DEF QueueInv, Shown
<1>6. ~Resting(p)
  BY DEF PageInv, Untouched
<1>7. PageInv(p)'
  BY <1>1, <1>6 DEF PageInv, Resting, Pending
<1> QED BY <1>5, <1>7

\* The page of a socket whose request is granted gets one answer, and no dismissal.
LEMMA GrantedPage ==
  ASSUME TypeInv, UNCHANGED <<sessionVars, connection>>, NEW p \in Page,
         PageInv(p), QueueInv(p), Has(toServer[SocketOf(p)], Asks),
         ~Has(toServer'[SocketOf(p)], Asks),
         NEW m \in ToPage, m.type \in {"CALL_CREATED", "CALL_JOINED"},
         socketIndex[SocketOf(p)] = None, socketIndex'[SocketOf(p)] = m.room,
         toPage'[p] = Append(toPage[p], m)
  PROVE  PageInv(p)' /\ QueueInv(p)'
<1> DEFINE s == SocketOf(p)
<1>1. SocketOf(p)' = s /\ session' = session /\ severed' = severed /\ toPage[p] \in Seq(ToPage)
  BY DEF SocketOf, sessionVars, TypeInv, TypeOK, RoomsTypeOK
<1>2. ~Has(toPage[p], Answers \cup Dismissals)
  BY DEF QueueInv
<1>3. /\ ~Has(toPage[p], Dismissals) /\ ~Has(toPage[p], {"CALL_ENDED"})
      /\ ~Has(toPage[p], {"CALL_CREATED", "CALL_JOINED"})
  BY <1>2, HasWider DEF Answers, Dismissals
<1>4. /\ Apart(toPage'[p], Answers \cup Dismissals, Answers)
      /\ Apart(toPage'[p], Dismissals, Dismissals)
  BY <1>1, <1>2, <1>3, ApartAppend DEF QueueInv
<1>5. m.type \notin Dismissals
  BY DEF Dismissals
<1>6. ~Has(toPage'[p], Dismissals)
  BY <1>1, <1>3, <1>5, HasAppend
<1>7. ~Ending(p)
  BY <1>3, EndingIsHas
<1>8. ASSUME NEW i \in 1..Len(toPage'[p]), toPage'[p][i].type \in {"CALL_CREATED", "CALL_JOINED"}
      PROVE  Shown(p, toPage[p][i].room)'
  <2>1. toPage'[p][i] = m
    BY <1>1, <1>3, <1>8 DEF Has
  <2> QED BY <1>1, <2>1 DEF Shown
<1>9. ~(session[p].role # "none" /\ p \notin severed)
  <2>1. session[p].role # "none" /\ p \notin severed => session[p].room = None
    BY <1>7 DEF QueueInv, Shown
  <2> QED BY <2>1, SessionFields DEF TypeInv, TypeOK
<1>10. QueueInv(p)'
  BY <1>1, <1>4, <1>6, <1>8, <1>9 DEF QueueInv
<1>11. ~Resting(p)
  BY DEF PageInv, Untouched
<1>12. PageInv(p)'
  BY <1>1, <1>11 DEF PageInv, Resting, Pending
<1> QED BY <1>10, <1>12

\* The page of a socket that is refused is dismissed, and in no room.
LEMMA RefusedPage ==
  ASSUME TypeInv, UNCHANGED <<sessionVars, connection>>, NEW p \in Page,
         PageInv(p), QueueInv(p), Has(toServer[SocketOf(p)], Asks),
         ~Has(toServer'[SocketOf(p)], Asks),
         socketIndex[SocketOf(p)] = None, socketIndex'[SocketOf(p)] = None,
         toPage'[p] = Append(toPage[p], [type |-> "JOIN_ERROR"])
  PROVE  PageInv(p)' /\ QueueInv(p)'
<1> DEFINE s == SocketOf(p)
           m == [type |-> "JOIN_ERROR"]
<1>1. SocketOf(p)' = s /\ session' = session /\ severed' = severed /\ toPage[p] \in Seq(ToPage)
  BY DEF SocketOf, sessionVars, TypeInv, TypeOK, RoomsTypeOK
<1>2. ~Has(toPage[p], Answers \cup Dismissals)
  BY DEF QueueInv
<1>3. /\ ~Has(toPage[p], Dismissals) /\ ~Has(toPage[p], {"CALL_ENDED"})
      /\ ~Has(toPage[p], {"CALL_CREATED", "CALL_JOINED"})
  BY <1>2, HasWider DEF Answers, Dismissals
<1>4. /\ Apart(toPage'[p], Answers \cup Dismissals, Answers)
      /\ Apart(toPage'[p], Dismissals, Dismissals)
  BY <1>1, <1>2, <1>3, ApartAppend DEF QueueInv
<1>5. ~Ending(p)
  BY <1>3, EndingIsHas
<1>6. ASSUME NEW i \in 1..Len(toPage'[p])
      PROVE  toPage'[p][i].type \notin {"CALL_CREATED", "CALL_JOINED"}
  BY <1>1, <1>3 DEF Has
<1>7. ~(session[p].role # "none" /\ p \notin severed)
  <2>1. session[p].role # "none" /\ p \notin severed => session[p].room = None
    BY <1>5 DEF QueueInv, Shown
  <2> QED BY <2>1, SessionFields DEF TypeInv, TypeOK
<1>8. QueueInv(p)'
  BY <1>1, <1>4, <1>6, <1>7 DEF QueueInv
<1>9. ~Resting(p)
  BY DEF PageInv, Untouched
<1>10. PageInv(p)'
  BY <1>1, <1>9 DEF PageInv, Resting, Pending
<1> QED BY <1>8, <1>10

LEMMA ParticipantsOf ==
  ASSUME RoomsTypeOK, NEW r \in RoomId
  PROVE  /\ Participants(r) \subseteq Socket
         /\ rooms[r] # None => Participants(r) = {rooms[r].host, rooms[r].guest} \ {None}
         /\ rooms[r] = None => Participants(r) = {}
         /\ rooms[r] # None => rooms[r].host \in Participants(r)
BY RoomType, SocketAssumption DEF Participants, SocketAssumption

\* An existing room, and the value None, are told apart.
LEMMA RoomIsSomething ==
  ASSUME NEW x \in Room
  PROVE  x # None
BY SocketAssumption DEF Room, SocketAssumption

\* A socket that is in no room opens one or takes the empty place of one.
LEMMA SeatedRegistry ==
  ASSUME RoomsTypeOK, RegistryAgrees, NEW s \in Socket, NEW r \in RoomId, socketIndex[s] = None,
         \/ createRoom(r, s)
         \/ joinRoom(r, s) /\ rooms[r] # None /\ rooms[r].guest = None
  PROVE  /\ RegistryAgrees'
         /\ Participants(r)' = Participants(r) \cup {s}
         /\ \A q \in RoomId \ {r} : Participants(q)' = Participants(q)
         /\ \A t \in Socket \ {s} : socketIndex'[t] = socketIndex[t]
         /\ socketIndex'[s] = r
<1>1. /\ \A q \in RoomId \ {r} : rooms'[q] = rooms[q]
      /\ \A t \in Socket \ {s} : socketIndex'[t] = socketIndex[t]
      /\ socketIndex'[s] = r
      /\ timers' = timers \cup {r}
  BY DEF createRoom, joinRoom, RoomsTypeOK, RegistryAgrees
<1>2. \A q \in RoomId \ {r} : Participants(q)' = Participants(q)
  BY <1>1 DEF Participants
<1>3. Participants(r)' = Participants(r) \cup {s} /\ rooms'[r] # None
  <2>1. CASE createRoom(r, s)
    <3>1. rooms[r] = None /\ rooms'[r] = [host |-> s, guest |-> None, media |-> TRUE]
      BY <2>1 DEF createRoom, RoomsTypeOK
    <3>2. rooms'[r] \in Room
      BY <3>1 DEF Room
    <3>3. rooms'[r] # None /\ rooms'[r].host = s /\ rooms'[r].guest = None /\ s # None
      <4>1. s # None
        BY SocketAssumption DEF SocketAssumption
      <4>2. rooms'[r] # None
        BY <3>2, RoomIsSomething
      <4> QED BY <3>1, <4>1, <4>2
    <3>4. Participants(r)' = {s, None} \ {None} /\ Participants(r) = {}
      BY <3>1, <3>3 DEF Participants
    <3> QED BY <3>3, <3>4
  <2>2. CASE joinRoom(r, s) /\ rooms[r] # None /\ rooms[r].guest = None
    <3>1. rooms[r] \in Room /\ rooms'[r] = [rooms[r] EXCEPT !.guest = s]
      BY <2>2, RoomType DEF joinRoom, RoomsTypeOK
    <3>2. rooms'[r] \in Room /\ rooms'[r].host = rooms[r].host /\ rooms'[r].guest = s
      BY <3>1 DEF Room
    <3> QED
      BY <2>2, <3>2, RoomType, RoomIsSomething, SocketAssumption DEF Participants, SocketAssumption
  <2> QED BY <2>1, <2>2
<1>4. timers' = {q \in RoomId : rooms'[q] # None}
  BY <1>1, <1>3 DEF RegistryAgrees
<1>5. ASSUME NEW t \in Socket, NEW q \in RoomId
      PROVE  socketIndex'[t] = q <=> t \in Participants(q)'
  <2>1. CASE t # s
    BY <1>1, <1>2, <1>3, <2>1 DEF RegistryAgrees
  <2>2. CASE t = s
    <3>1. s \notin Participants(q)
      BY CallAssumption DEF RegistryAgrees, CallAssumption
    <3> QED BY <1>1, <1>2, <1>3, <2>2, <3>1
  <2> QED BY <2>1, <2>2
<1> QED
  BY <1>1, <1>2, <1>3, <1>4, <1>5 DEF RegistryAgrees

\* A room is closed for all its participants.
LEMMA ClosedRegistry ==
  ASSUME RoomsTypeOK, RegistryAgrees, NEW r \in RoomId, removeRoom(r)
  PROVE  /\ RegistryAgrees'
         /\ Participants(r)' = {}
         /\ \A q \in RoomId \ {r} : Participants(q)' = Participants(q)
         /\ \A t \in Socket : socketIndex'[t] = IF socketIndex[t] = r THEN None ELSE socketIndex[t]
<1>1. /\ \A q \in RoomId \ {r} : rooms'[q] = rooms[q]
      /\ rooms'[r] = None
      /\ timers' = timers \ {r}
  BY DEF removeRoom, RoomsTypeOK
<1>2. \A t \in Socket : socketIndex'[t] = IF t \in Participants(r) THEN None ELSE socketIndex[t]
  BY DEF removeRoom
<1>3. \A t \in Socket : socketIndex'[t] = IF socketIndex[t] = r THEN None ELSE socketIndex[t]
  BY <1>2 DEF RegistryAgrees
<1>4. Participants(r)' = {} /\ \A q \in RoomId \ {r} : Participants(q)' = Participants(q)
  BY <1>1 DEF Participants
<1>5. timers' = {q \in RoomId : rooms'[q] # None}
  BY <1>1 DEF RegistryAgrees
<1>6. ASSUME NEW t \in Socket, NEW q \in RoomId
      PROVE  socketIndex'[t] = q <=> t \in Participants(q)'
  BY <1>3, <1>4, CallAssumption DEF RegistryAgrees, CallAssumption
<1> QED
  BY <1>3, <1>4, <1>5, <1>6 DEF RegistryAgrees

\* A handler's step for the sockets and pages it does not concern.
LEMMA OthersServed ==
  ASSUME CallInv, TypeInv, UNCHANGED sessionVars,
         NEW s \in Socket, NEW type, Request(s, type), NEW p \in Page, SocketOf(p) # s,
         socketIndex'[SocketOf(p)] = socketIndex[SocketOf(p)],
         toPage'[p] = toPage[p]
  PROVE  PageInv(p)' /\ QueueInv(p)'
<1>1. SocketOf(p) \in Socket
  BY CurrentSocket DEF TypeInv, TypeOK
<1> QED
  BY <1>1, Taken, RelayedPage DEF CallInv, TypeInv, TypeOK, Request

LEMMA handleCreateCallStep ==
  ASSUME TypeInv, CallInv, UNCHANGED sessionVars, NEW s \in Socket, handleCreateCall(s)
  PROVE  CallInv'
<1>1. PICK r \in RoomId : createRoom(r, s) /\ Emit(Only(s, [type |-> "CALL_CREATED", room |-> r]))
  BY DEF handleCreateCall
<1>2. RoomsTypeOK /\ Request(s, "CREATE_CALL") /\ "CREATE_CALL" \in Asks
  BY DEF TypeInv, TypeOK, handleCreateCall, Asks
<1>3. SocketInv(s)' /\ ~Has(toServer'[s], Asks) /\ socketIndex[s] = None
  BY <1>2, SeatedSocket DEF CallInv
<1>4. /\ RegistryAgrees'
      /\ \A t \in Socket \ {s} : socketIndex'[t] = socketIndex[t]
      /\ socketIndex'[s] = r
  BY <1>1, <1>2, <1>3, SeatedRegistry DEF CallInv
<1>5. ASSUME NEW t \in Socket PROVE SocketInv(t)'
  BY <1>2, <1>3, <1>4, ServedSocket DEF CallInv
<1>6. ASSUME NEW p \in Page PROVE PageInv(p)' /\ QueueInv(p)'
  <2> DEFINE m == [type |-> "CALL_CREATED", room |-> r]
  <2>1. m \in ToPage
    BY ToPageMessages
  <2>2. toPage'[p] = IF SocketOf(p) = s THEN Append(toPage[p], m) ELSE toPage[p]
    BY <1>1, <1>2, <2>1, EmitOnly
  <2>3. CASE SocketOf(p) = s
    <3>1. Has(toServer[s], Asks)
      BY <1>2, Taken, HasTail
    <3> QED
      BY <1>2, <1>3, <1>4, <2>1, <2>2, <2>3, <3>1, GrantedPage DEF CallInv, Request
  <2>4. CASE SocketOf(p) # s
    <3>1. SocketOf(p) \in Socket
      BY <1>2, CurrentSocket
    <3> QED BY <1>2, <1>4, <2>2, <2>4, <3>1, OthersServed
  <2> QED BY <2>3, <2>4
<1> QED BY <1>4, <1>5, <1>6 DEF CallInv

LEMMA joinRefusedStep ==
  ASSUME TypeInv, CallInv, UNCHANGED sessionVars, NEW s \in Socket, joinRefused(s)
  PROVE  CallInv'
<1>1. RoomsTypeOK /\ Request(s, "JOIN_CALL") /\ "JOIN_CALL" \in Asks
  BY DEF TypeInv, TypeOK, joinRefused, Asks
<1>2. SocketInv(s)' /\ ~Has(toServer'[s], Asks) /\ socketIndex[s] = None
  BY <1>1, SeatedSocket DEF CallInv, joinRefused, roomVars
<1>3. RegistryAgrees' /\ socketIndex' = socketIndex
  BY DEF CallInv, RegistryAgrees, joinRefused, roomVars, Participants
<1>4. ASSUME NEW t \in Socket PROVE SocketInv(t)'
  BY <1>1, <1>2, <1>3, ServedSocket DEF CallInv
<1>5. ASSUME NEW p \in Page PROVE PageInv(p)' /\ QueueInv(p)'
  <2> DEFINE m == [type |-> "JOIN_ERROR"]
  <2>1. toPage'[p] = IF SocketOf(p) = s THEN Append(toPage[p], m) ELSE toPage[p]
    BY <1>1, ToPageMessages, EmitOnly DEF joinRefused
  <2>2. CASE SocketOf(p) = s
    <3>1. Has(toServer[s], Asks)
      BY <1>1, Taken, HasTail
    <3> QED
      BY <1>1, <1>2, <1>3, <2>1, <2>2, <3>1, RefusedPage DEF CallInv, Request
  <2>3. CASE SocketOf(p) # s
    BY <1>1, <1>3, <2>1, <2>3, OthersServed
  <2> QED BY <2>2, <2>3
<1> QED BY <1>3, <1>4, <1>5 DEF CallInv

LEMMA handleJoinCallStep ==
  ASSUME TypeInv, CallInv, UNCHANGED sessionVars, NEW s \in Socket, handleJoinCall(s)
  PROVE  CallInv'
<1> DEFINE r == Head(toServer[s]).room
           joined == [type |-> "CALL_JOINED", room |-> r, media |-> rooms[r].media]
           peer == [type |-> "PEER_JOINED", peer |-> s]
<1>1. RoomsTypeOK /\ Request(s, "JOIN_CALL") /\ "JOIN_CALL" \in Asks
  BY DEF TypeInv, TypeOK, handleJoinCall, Asks
<1>2. SocketInv(s)' /\ ~Has(toServer'[s], Asks) /\ socketIndex[s] = None
  BY <1>1, SeatedSocket DEF CallInv
<1>3. r \in RoomId /\ rooms[r] # None /\ rooms[r].guest \in {None, s} /\ joinRoom(r, s)
  BY <1>1, JoinedRoom
<1>4. s \notin Participants(r)
  BY <1>2, <1>3, CallAssumption DEF CallInv, RegistryAgrees, CallAssumption
<1>5. rooms[r].host # s /\ rooms[r].guest = None
  BY <1>1, <1>3, <1>4, SocketAssumption DEF Participants, SocketAssumption
<1>6. /\ RegistryAgrees'
      /\ \A t \in Socket \ {s} : socketIndex'[t] = socketIndex[t]
      /\ socketIndex'[s] = r
  BY <1>1, <1>2, <1>3, <1>5, SeatedRegistry DEF CallInv
<1>7. ASSUME NEW t \in Socket PROVE SocketInv(t)'
  BY <1>1, <1>2, <1>6, ServedSocket DEF CallInv
<1>8. joined \in ToPage /\ peer \in ToPage
  BY <1>1, <1>3, RoomType, ToPageMessages
<1>9. ASSUME NEW p \in Page PROVE PageInv(p)' /\ QueueInv(p)'
  <2>1. SocketOf(p) \in Socket /\ toPage[p] \in Seq(ToPage)
    BY <1>1, CurrentSocket DEF RoomsTypeOK
  <2>2. toPage'[p] = toPage[p] \o ((IF SocketOf(p) = s THEN <<joined>> ELSE <<>>)
                                     \o (IF SocketOf(p) = rooms[r].host THEN <<peer>> ELSE <<>>))
    BY <2>1 DEF handleJoinCall, Emit
  <2>3. CASE SocketOf(p) = s
    <3>1. toPage'[p] = Append(toPage[p], joined)
      <4>1. toPage'[p] = toPage[p] \o (<<joined>> \o <<>>)
        BY <1>5, <2>2, <2>3
      <4> HIDE DEF joined
      <4> QED BY <1>8, <2>1, <4>1, OneToAppend
    <3>2. Has(toServer[s], Asks)
      BY <1>1, Taken, HasTail
    <3> QED
      BY <1>1, <1>2, <1>6, <1>8, <2>3, <3>1, <3>2, GrantedPage DEF CallInv, Request
  <2>4. CASE SocketOf(p) # s
    <3>1. toPage'[p] = toPage[p] \/ toPage'[p] = Append(toPage[p], peer)
      <4>1. \/ toPage'[p] = toPage[p] \o (<<>> \o <<peer>>)
            \/ toPage'[p] = toPage[p] \o (<<>> \o <<>>)
        BY <2>2, <2>4
      <4> HIDE DEF peer
      <4> QED BY <1>8, <2>1, <4>1, OneToAppend
    <3>2. peer.type \in Neutral
      BY DEF Neutral
    <3>3. /\ socketIndex'[SocketOf(p)] = socketIndex[SocketOf(p)]
          /\ toServer'[SocketOf(p)] = toServer[SocketOf(p)]
      BY <1>1, <1>6, <2>1, <2>4, Taken
    <3> HIDE DEF peer
    <3> QED
      BY <1>1, <3>1, <3>2, <3>3, RelayedPage DEF CallInv, Request
  <2> QED BY <2>3, <2>4
<1> QED BY <1>6, <1>7, <1>9 DEF CallInv

\* A relayed message, or one that does not count.
LEMMA RelayStep ==
  ASSUME TypeInv, CallInv, UNCHANGED sessionVars, NEW s \in Socket,
         NEW type, type \notin Asks \cup {"disconnect"}, Request(s, type),
         RegistryAgrees', UNCHANGED socketIndex,
         \/ UNCHANGED toPage
         \/ \E m \in ToPage : m.type \in Neutral /\ \E t : Emit(Only(t, m))
  PROVE  CallInv'
<1>1. RoomsTypeOK
  BY DEF TypeInv, TypeOK
<1>2. ASSUME NEW t \in Socket PROVE SocketInv(t)'
  BY <1>1, <1>2, ServedSocket DEF CallInv
<1>3. ASSUME NEW p \in Page PROVE PageInv(p)' /\ QueueInv(p)'
  <2>1. SocketOf(p) \in Socket
    BY <1>1, CurrentSocket
  <2>2. \/ toPage'[p] = toPage[p]
        \/ \E m : m.type \in Neutral /\ toPage'[p] = Append(toPage[p], m)
    BY <1>1, EmitOnly
  <2> QED
    BY <1>1, <2>1, <2>2, Taken, RelayedPage DEF CallInv, Request
<1> QED BY <1>2, <1>3 DEF CallInv

LEMMA handleSdpStep ==
  ASSUME TypeInv, CallInv, UNCHANGED sessionVars, NEW s \in Socket, handleSdp(s)
  PROVE  CallInv'
<1>1. PICK type \in {"SDP_OFFER", "SDP_ANSWER"} :
        /\ Request(s, type)
        /\ Emit(Only(Head(toServer[s]).target, [type |-> type, sender |-> s]))
  BY DEF handleSdp
<1>2. [type |-> type, sender |-> s] \in ToPage /\ type \in Neutral
      /\ type \notin Asks \cup {"disconnect"}
  BY ToPageMessages DEF Neutral, Asks
<1>3. RegistryAgrees' /\ UNCHANGED socketIndex
  BY DEF CallInv, RegistryAgrees, handleSdp, roomVars, Participants
<1> QED BY <1>1, <1>2, <1>3, RelayStep

LEMMA handleTrackStateStep ==
  ASSUME TypeInv, CallInv, UNCHANGED sessionVars, NEW s \in Socket, handleTrackState(s)
  PROVE  CallInv'
<1> DEFINE m == Head(toServer[s])
<1>1. RoomsTypeOK /\ Request(s, "TRACK_STATE") /\ "TRACK_STATE" \notin Asks \cup {"disconnect"}
  BY DEF TypeInv, TypeOK, handleTrackState, Asks
<1>2. m.media \in BOOLEAN
  BY <1>1, RequestType, ToServerFields
<1>3. \/ UNCHANGED toPage
      \/ \E n \in ToPage : n.type \in Neutral /\ \E t : Emit(Only(t, n))
  BY <1>2, ToPageMessages DEF handleTrackState, Neutral
<1>4. /\ \A r \in RoomId : Participants(r)' = Participants(r)
      /\ \A r \in RoomId : rooms'[r] = None <=> rooms[r] = None
  <2>1. CASE IsMine(s)
    <3>1. m.room \in RoomId /\ rooms[m.room] # None /\ rooms[m.room] \in Room
      BY <1>1, <2>1, FoundRoom, RoomType DEF IsMine
    <3>2. rooms' = [rooms EXCEPT ![m.room] = [rooms[m.room] EXCEPT !.media = m.media]]
      BY <2>1, <3>1 DEF handleTrackState, setTrackState
    <3>3. [rooms[m.room] EXCEPT !.media = m.media] \in Room
      BY <1>2, <3>1 DEF Room
    <3>4. rooms'[m.room] # None /\ rooms'[m.room].host = rooms[m.room].host
          /\ rooms'[m.room].guest = rooms[m.room].guest
      BY <1>1, <3>1, <3>2, <3>3, RoomIsSomething DEF RoomsTypeOK, Room
    <3>5. \A r \in RoomId \ {m.room} : rooms'[r] = rooms[r]
      BY <1>1, <3>1, <3>2 DEF RoomsTypeOK
    <3> QED BY <3>1, <3>4, <3>5 DEF Participants
  <2>2. CASE ~IsMine(s)
    BY <2>2 DEF handleTrackState, Participants
  <2> QED BY <2>1, <2>2
<1>5. RegistryAgrees' /\ UNCHANGED socketIndex
  BY <1>4 DEF CallInv, RegistryAgrees, handleTrackState
<1> QED BY <1>1, <1>3, <1>5, RelayStep

\* The room of a socket that leaves is closed, and the other one is told.
LEMMA CloseStep ==
  ASSUME TypeInv, CallInv, UNCHANGED sessionVars, NEW s \in Socket, NEW type \in Leaves,
         Request(s, type), findRoomBySocket(s) # None, closeRoom(findRoomBySocket(s), s)
  PROVE  CallInv'
<1> DEFINE r == findRoomBySocket(s)
           m == [type |-> "CALL_ENDED"]
<1>1. RoomsTypeOK /\ type \notin Asks
  BY DEF TypeInv, TypeOK, Leaves, Asks
<1>2. r \in RoomId /\ socketIndex[s] = r /\ rooms[r] # None
  BY <1>1, FoundRoom
<1>3. /\ RegistryAgrees'
      /\ \A t \in Socket : socketIndex'[t] = IF socketIndex[t] = r THEN None ELSE socketIndex[t]
  BY <1>1, <1>2, ClosedRegistry DEF CallInv, closeRoom
<1>4. ASSUME NEW t \in Socket PROVE SocketInv(t)'
  BY <1>1, <1>2, <1>3, ServedSocket DEF CallInv
<1>5. s[2] < connection[s[1]]
  <2>1. Has(toServer[s], Leaves)
    BY <1>1, Taken, HasTail
  <2> QED BY <2>1 DEF CallInv, SocketInv
<1>6. ASSUME NEW p \in Page PROVE PageInv(p)' /\ QueueInv(p)'
  <2>1. SocketOf(p) \in Socket /\ SocketOf(p) # s
    <3>1. connection[p] \in Nat
      BY <1>1 DEF RoomsTypeOK
    <3> QED BY <1>1, <1>5, <3>1, CurrentSocket, OwnSocket
  <2>2. toPage'[p] = IF SocketOf(p) = OtherPeer(r, s) THEN Append(toPage[p], m) ELSE toPage[p]
    BY <1>1, ToPageMessages, EmitOnly DEF closeRoom
  <2>3. SocketOf(p) = OtherPeer(r, s) <=> socketIndex[SocketOf(p)] = r
    <3>1. /\ s \in {rooms[r].host, rooms[r].guest}
          /\ socketIndex[SocketOf(p)] = r <=> SocketOf(p) \in {rooms[r].host, rooms[r].guest}
      BY <1>1, <1>2, <2>1, ParticipantsOf, SocketAssumption
      DEF CallInv, RegistryAgrees, SocketAssumption
    <3>2. OtherPeer(r, s) = IF s = rooms[r].host THEN rooms[r].guest ELSE rooms[r].host
      BY <3>1 DEF OtherPeer
    <3> QED BY <2>1, <3>1, <3>2
  <2>4. CASE socketIndex[SocketOf(p)] = r
    BY <1>1, <1>2, <1>3, <2>1, <2>2, <2>3, <2>4, Taken, EndedPage, CallAssumption
    DEF CallInv, Request, CallAssumption
  <2>5. CASE socketIndex[SocketOf(p)] # r
    BY <1>1, <1>3, <2>1, <2>2, <2>3, <2>5, OthersServed
  <2> QED BY <2>4, <2>5
<1> QED BY <1>3, <1>4, <1>6 DEF CallInv

LEMMA handleLeaveCallStep ==
  ASSUME TypeInv, CallInv, UNCHANGED sessionVars, NEW s \in Socket, handleLeaveCall(s)
  PROVE  CallInv'
<1>1. CASE IsMine(s)
  BY <1>1, CloseStep DEF handleLeaveCall, IsMine, Leaves
<1>2. CASE ~IsMine(s)
  <2>1. Request(s, "LEAVE_CALL") /\ UNCHANGED <<toPage, roomVars>>
    BY <1>2 DEF handleLeaveCall
  <2>2. RegistryAgrees' /\ UNCHANGED socketIndex
    BY <2>1 DEF CallInv, RegistryAgrees, roomVars, Participants
  <2> QED BY <2>1, <2>2, RelayStep DEF Asks
<1> QED BY <1>1, <1>2

LEMMA handleDisconnectStep ==
  ASSUME TypeInv, CallInv, UNCHANGED sessionVars, NEW s \in Socket, handleDisconnect(s)
  PROVE  CallInv'
<1>1. CASE findRoomBySocket(s) # None
  BY <1>1, CloseStep DEF handleDisconnect, Leaves
<1>2. CASE findRoomBySocket(s) = None
  <2>1. Request(s, "disconnect") /\ UNCHANGED <<toPage, roomVars>> /\ RoomsTypeOK
    BY <1>2 DEF handleDisconnect, TypeInv, TypeOK
  <2>2. RegistryAgrees' /\ UNCHANGED socketIndex
    BY <2>1 DEF CallInv, RegistryAgrees, roomVars, Participants
  <2>3. socketIndex[s] = None
    <3> SUFFICES ASSUME socketIndex[s] # None PROVE FALSE
      OBVIOUS
    <3>1. socketIndex[s] \in RoomId /\ rooms[socketIndex[s]] = None
      BY <1>2, <2>1 DEF findRoomBySocket, RoomsTypeOK
    <3>2. s \in Participants(socketIndex[s])
      BY <3>1 DEF CallInv, RegistryAgrees
    <3> QED BY <3>1, <3>2 DEF Participants
  <2>4. ASSUME NEW t \in Socket PROVE SocketInv(t)'
    BY <2>1, <2>2, <2>3, ServedSocket DEF CallInv
  <2>5. ASSUME NEW p \in Page PROVE PageInv(p)' /\ QueueInv(p)'
    BY <2>1, <2>2, CurrentSocket, Taken, RelayedPage DEF CallInv, Request
  <2> QED BY <2>2, <2>4, <2>5 DEF CallInv
<1> QED BY <1>1, <1>2

LEMMA ExpiryStep ==
  ASSUME TypeInv, CallInv, NEW r \in RoomId, Expiry(r)
  PROVE  CallInv'
<1> DEFINE m == [type |-> "CALL_ENDED"]
<1>1. RoomsTypeOK /\ UNCHANGED <<sessionVars, connection, toServer>> /\ removeRoom(r)
      /\ onRoomExpired(r)
  BY DEF TypeInv, TypeOK, Expiry, expire
<1>2. /\ RegistryAgrees'
      /\ \A t \in Socket : socketIndex'[t] = IF socketIndex[t] = r THEN None ELSE socketIndex[t]
  BY <1>1, ClosedRegistry DEF CallInv
<1>3. ASSUME NEW t \in Socket PROVE SocketInv(t)'
  BY <1>1, <1>2 DEF CallInv, SocketInv
<1>4. ASSUME NEW p \in Page PROVE PageInv(p)' /\ QueueInv(p)'
  <2>1. SocketOf(p) \in Socket /\ toPage[p] \in Seq(ToPage) /\ m \in ToPage
    BY <1>1, CurrentSocket, ToPageMessages DEF RoomsTypeOK
  <2>2. SocketOf(p) \in Participants(r) <=> socketIndex[SocketOf(p)] = r
    BY <2>1 DEF CallInv, RegistryAgrees
  <2>3. toPage'[p] = IF socketIndex[SocketOf(p)] = r THEN Append(toPage[p], m) ELSE toPage[p]
    <3>1. toPage'[p] = toPage[p] \o (IF SocketOf(p) \in Participants(r) THEN <<m>> ELSE <<>>)
      BY <1>1, <2>1 DEF onRoomExpired, Emit
    <3> HIDE DEF m
    <3> QED BY <2>1, <2>2, <3>1, OneToAppend
  <2>4. CASE socketIndex[SocketOf(p)] = r
    BY <1>1, <1>2, <2>1, <2>3, <2>4, EndedPage, CallAssumption DEF CallInv, CallAssumption
  <2>5. CASE socketIndex[SocketOf(p)] # r
    BY <1>1, <1>2, <2>1, <2>3, <2>5, RelayedPage DEF CallInv
  <2> QED BY <2>4, <2>5
<1> QED BY <1>2, <1>3, <1>4 DEF CallInv

LEMMA ServerStepStep ==
  ASSUME TypeInv, CallInv, NEW s \in Socket, ServerStep(s)
  PROVE  CallInv'
BY handleCreateCallStep, joinRefusedStep, handleJoinCallStep, handleSdpStep,
   handleTrackStateStep, handleLeaveCallStep, handleDisconnectStep DEF ServerStep, Handler

-----------------------------------------------------------------------------
(* Steps of the pages.  They leave the server's rooms alone, so only the     *)
(* page's own socket and session are at stake.                               *)
LEMMA UnmovedRegistry ==
  ASSUME RegistryAgrees, UNCHANGED roomVars
  PROVE  RegistryAgrees'
BY DEF RegistryAgrees, roomVars, Participants

\* A page does nothing to another page.
LEMMA OtherPage ==
  ASSUME TypeInv, CallInv, UNCHANGED roomVars, NEW p \in Page, NEW q \in Page, p # q,
         connection'[q] = connection[q], session'[q] = session[q], toPage'[q] = toPage[q],
         q \in severed' <=> q \in severed,
         \A t \in Socket : t # SocketOf(p) => toServer'[t] = toServer[t]
  PROVE  PageInv(q)' /\ QueueInv(q)'
<1>1. SocketOf(q) \in Socket /\ SocketOf(q)' = SocketOf(q) /\ SocketOf(q) # SocketOf(p)
  BY CurrentSocket, OwnSocket DEF TypeInv, TypeOK, SocketOf
<1>2. toServer'[SocketOf(q)] = toServer[SocketOf(q)] /\ socketIndex' = socketIndex
  BY <1>1 DEF roomVars
<1>3. PageInv(q) /\ QueueInv(q)
  BY DEF CallInv
<1>4. (Resting(q)' <=> Resting(q)) /\ (Untouched(q)' <=> Untouched(q))
  BY <1>1, <1>2 DEF Resting, Untouched, Pending
<1>5. PageInv(q)'
  BY <1>3, <1>4 DEF PageInv, Pending
<1>6. \A r : Shown(q, r)' <=> Shown(q, r)
  BY <1>1, <1>2 DEF Shown, Ending
<1>7. QueueInv(q)'
  BY <1>1, <1>2, <1>3, <1>6 DEF QueueInv
<1> QED BY <1>5, <1>7

\* What a page may send without asking for a room.
Chatter == {"TRACK_STATE", "SDP_OFFER", "SDP_ANSWER"}

LEMMA SentSocket ==
  ASSUME TypeInv, CallInv, UNCHANGED <<connection, roomVars>>, NEW p \in Page,
         NEW s \in Socket, s = SocketOf(p), NEW m \in ToServer, Send(p, m),
         \/ m.type \in Chatter
         \/ m.type \in Asks /\ ~Has(toServer[s], Asks) /\ socketIndex[s] = None
  PROVE  /\ \A t \in Socket : SocketInv(t)'
         /\ Has(toServer'[s], Asks) <=> Has(toServer[s], Asks) \/ m.type \in Asks
         /\ \A t \in Socket : t # s => toServer'[t] = toServer[t]
<1>1. /\ toServer[s] \in Seq(ToServer) /\ s[1] = p /\ s[2] = connection[p]
      /\ connection[p] \in Nat
  BY CurrentSocket, OwnSocket DEF TypeInv, TypeOK, RoomsTypeOK
<1>2. toServer'[s] = Append(toServer[s], m) /\ \A t \in Socket : t # s => toServer'[t] = toServer[t]
  BY <1>1 DEF Send, TypeInv, TypeOK, RoomsTypeOK
<1>3. \A T : Has(toServer'[s], T) <=> Has(toServer[s], T) \/ m.type \in T
  BY <1>1, <1>2, HasAppend
<1>4. m.type \notin Leaves /\ (m.type \in Chatter => m.type \notin Asks)
  BY DEF Leaves, Asks, Chatter
<1>5. ~Has(toServer[s], Leaves) /\ ~Has(toServer[s], {"disconnect"})
  <2>1. ~Has(toServer[s], Leaves)
    BY <1>1 DEF CallInv, SocketInv
  <2> QED BY <2>1, HasWider DEF Leaves
<1>6. m.type \in Asks => ~Has(toServer[s], Asks \cup {"disconnect"})
  BY <1>4, <1>5 DEF Has
<1>7. Apart(toServer'[s], Asks \cup {"disconnect"}, Asks)
  <2>1. Apart(toServer[s], Asks \cup {"disconnect"}, Asks)
    BY DEF CallInv, SocketInv
  <2> QED BY <1>1, <1>2, <1>6, <2>1, ApartAppend
<1>8. SocketInv(s)'
  <2>1. socketIndex' = socketIndex /\ connection' = connection
    BY DEF roomVars
  <2>2. Has(toServer'[s], Asks) => socketIndex[s] = None
    BY <1>1, <1>3, <1>4 DEF CallInv, SocketInv
  <2>3. ~Has(toServer'[s], Leaves)
    BY <1>3, <1>4, <1>5
  <2>4. ~(s[2] < connection[s[1]]) /\ ~(s[2] > connection[s[1]])
    BY <1>1
  <2> QED BY <1>7, <2>1, <2>2, <2>3, <2>4 DEF SocketInv
<1>9. ASSUME NEW t \in Socket, t # s PROVE SocketInv(t)'
  BY <1>2, <1>9 DEF CallInv, SocketInv, roomVars
<1> QED BY <1>2, <1>3, <1>8, <1>9

\* A step of a page within its session that sends and hears nothing.
LEMMA QuietStep ==
  ASSUME TypeInv, CallInv, UNCHANGED <<socketVars, roomVars, severed>>, NEW p \in Page,
         \A q \in Page \ {p} : session'[q] = session[q],
         PageInv(p)', session'[p].role = session[p].role, session'[p].room = session[p].room
  PROVE  CallInv'
<1>1. \A q \in Page : SocketOf(q)' = SocketOf(q)
  BY DEF socketVars, SocketOf
<1>2. \A t \in Socket : SocketInv(t)'
  BY DEF CallInv, SocketInv, socketVars, roomVars
<1>3. QueueInv(p)'
  BY <1>1 DEF CallInv, QueueInv, Shown, Ending, socketVars, roomVars
<1>4. \A q \in Page \ {p} : PageInv(q)' /\ QueueInv(q)'
  BY OtherPage DEF socketVars
<1> QED
  BY <1>2, <1>3, <1>4, UnmovedRegistry DEF CallInv

LEMMA BecomeOne ==
  ASSUME SessionTypeOK, NEW p \in Page, NEW x, Become(p, x)
  PROVE  session'[p] = x /\ \A q \in Page \ {p} : session'[q] = session[q]
BY DEF SessionTypeOK, Become

LEMMA AskStep ==
  ASSUME TypeInv, CallInv, OneAtATime, NEW p \in Page, createCall(p) \/ joinCall(p)
  PROVE  CallInv'
<1>1. SessionTypeOK /\ session[p] \in Session /\ UNCHANGED <<socketVars, roomVars, severed>>
  BY SessionFields DEF TypeInv, TypeOK, createCall, joinCall
<1>2. session[p].role = "none" /\ ~session[p].creating /\ ~session[p].joining
  BY DEF createCall, joinCall, Idle, Pending
<1>3. PageInv(p) /\ session[p].asking = {} /\ Untouched(p)
  BY <1>2 DEF CallInv, PageInv, Resting, Pending
<1>4. /\ \A q \in Page \ {p} : session'[q] = session[q]
      /\ session'[p].role = session[p].role /\ session'[p].room = session[p].room
      /\ session'[p].local = session[p].local /\ session'[p].cameras = session[p].cameras
      /\ \E a : session'[p].asking = {a}
      /\ \/ session'[p].creating /\ ~session'[p].joining
         \/ ~session'[p].creating /\ session'[p].joining
  <2>1. CASE createCall(p)
    <3> DEFINE x == [session[p] EXCEPT !.creating = TRUE, !.asking = @ \cup {Create}]
    <3>1. session'[p] = x /\ \A q \in Page \ {p} : session'[q] = session[q]
      BY <1>1, <2>1, BecomeOne DEF createCall
    <3>2. x.asking = {Create} /\ x.creating /\ ~x.joining /\ x.role = session[p].role
          /\ x.room = session[p].room /\ x.local = session[p].local
          /\ x.cameras = session[p].cameras
      BY <1>1, <1>2, <1>3 DEF Session
    <3> QED BY <3>1, <3>2
  <2>2. CASE joinCall(p)
    <3>1. PICK r \in RoomId :
            Become(p, [session[p] EXCEPT !.joining = TRUE, !.asking = @ \cup {Join(r)}])
      BY <2>2 DEF joinCall
    <3> DEFINE x == [session[p] EXCEPT !.joining = TRUE, !.asking = @ \cup {Join(r)}]
    <3>2. session'[p] = x /\ \A q \in Page \ {p} : session'[q] = session[q]
      BY <1>1, <3>1, BecomeOne
    <3>3. x.asking = {Join(r)} /\ ~x.creating /\ x.joining /\ x.role = session[p].role
          /\ x.room = session[p].room /\ x.local = session[p].local
          /\ x.cameras = session[p].cameras
      BY <1>1, <1>2, <1>3 DEF Session
    <3> QED BY <3>2, <3>3
  <2> QED BY <2>1, <2>2
<1>5. Untouched(p)'
  BY <1>1, <1>3, <1>4 DEF Untouched, socketVars, roomVars, SocketOf
<1>6. PageInv(p)'
  BY <1>2, <1>3, <1>4, <1>5 DEF PageInv, Pending
<1> QED BY <1>1, <1>4, <1>6, QuietStep

LEMMA mediaRefusedStep ==
  ASSUME TypeInv, CallInv, NEW p \in Page, mediaRefused(p)
  PROVE  CallInv'
<1>1. PICK a \in session[p].asking :
        Become(p, [session[p] EXCEPT !.asking = @ \ {a},
                     !.creating = @ /\ a # Create, !.joining = @ /\ a = Create])
  BY DEF mediaRefused
<1> DEFINE x == [session[p] EXCEPT !.asking = @ \ {a},
                   !.creating = @ /\ a # Create, !.joining = @ /\ a = Create]
<1>2. SessionTypeOK /\ session[p] \in Session /\ UNCHANGED <<socketVars, roomVars, severed>>
  BY SessionFields DEF TypeInv, TypeOK, mediaRefused
<1>3. PageInv(p) /\ Untouched(p) /\ session[p].asking = {a}
  BY DEF CallInv, PageInv, Resting
<1>4. session'[p] = x /\ \A q \in Page \ {p} : session'[q] = session[q]
  BY <1>1, <1>2, BecomeOne
<1>5. /\ x.asking = {} /\ x.role = session[p].role /\ x.room = session[p].room
      /\ x.local = session[p].local /\ x.cameras = session[p].cameras
      /\ (x.creating => session[p].creating) /\ (x.joining => session[p].joining)
  BY <1>2, <1>3 DEF Session
<1>6. Untouched(p)'
  BY <1>2, <1>3, <1>4, <1>5 DEF Untouched, socketVars, roomVars, SocketOf
<1>7. PageInv(p)'
  <2> HIDE DEF x
  <2> QED BY <1>3, <1>4, <1>5, <1>6 DEF PageInv, Pending
<1> QED BY <1>2, <1>4, <1>5, <1>7, QuietStep

LEMMA mediaAcquiredStep ==
  ASSUME TypeInv, CallInv, NEW p \in Page, mediaAcquired(p)
  PROVE  CallInv'
<1>1. PICK a \in session[p].asking :
        /\ Become(p, [session[p] EXCEPT !.asking = @ \ {a}, !.local = TRUE,
                                        !.cameras = @ + 1, !.media = TRUE])
        /\ Send(p, IF a = Create THEN [type |-> "CREATE_CALL"]
                                 ELSE [type |-> "JOIN_CALL", room |-> a.room])
  BY DEF mediaAcquired
<1> DEFINE x == [session[p] EXCEPT !.asking = @ \ {a}, !.local = TRUE,
                                   !.cameras = @ + 1, !.media = TRUE]
           m == IF a = Create THEN [type |-> "CREATE_CALL"]
                              ELSE [type |-> "JOIN_CALL", room |-> a.room]
<1>2. PICK s \in Socket : s = SocketOf(p)
  BY CurrentSocket DEF TypeInv, TypeOK
<1>3. SessionTypeOK /\ session[p] \in Session /\ session[p].cameras \in Nat
      /\ UNCHANGED <<connection, toPage, roomVars, severed>>
  BY SessionFields DEF TypeInv, TypeOK, mediaAcquired
<1>4. PageInv(p) /\ Untouched(p) /\ session[p].asking = {a} /\ Pending(p)
      /\ session[p].role = "none" /\ session[p].cameras = 0
  BY DEF CallInv, PageInv, Resting, Untouched
<1>5. session'[p] = x /\ \A q \in Page \ {p} : session'[q] = session[q]
  BY <1>1, <1>3, BecomeOne
<1>6. /\ x.asking = {} /\ x.role = "none" /\ x.local /\ x.cameras = 1
      /\ x.creating = session[p].creating /\ x.joining = session[p].joining
  BY <1>3, <1>4 DEF Session
<1>7. m \in ToServer /\ m.type \in Asks
  <2>1. a.room \in RoomId \cup {None}
    BY <1>3 DEF Session, Asking
  <2> QED BY <2>1, ToServerMessages DEF Asks
<1>8. ~Has(toServer[s], Asks) /\ socketIndex[s] = None /\ ~Has(toPage[p], Answers \cup Dismissals)
  BY <1>2, <1>4 DEF Untouched
<1>9. /\ \A t \in Socket : SocketInv(t)'
      /\ \A t \in Socket : t # s => toServer'[t] = toServer[t]
  <2> HIDE DEF m
  <2> QED BY <1>1, <1>2, <1>3, <1>7, <1>8, SentSocket DEF m
<1>10. PageInv(p)'
  <2> HIDE DEF x
  <2> QED BY <1>4, <1>5, <1>6 DEF PageInv, Pending, Resting
<1>11. QueueInv(p)'
  <2>1. SocketOf(p)' = SocketOf(p)
    BY <1>3 DEF SocketOf
  <2> HIDE DEF x
  <2> QED
    BY <1>2, <1>3, <1>5, <1>6, <1>8, <2>1 DEF CallInv, QueueInv, Shown, Ending, roomVars
<1>12. \A q \in Page \ {p} : PageInv(q)' /\ QueueInv(q)'
  BY <1>2, <1>3, <1>5, <1>9, OtherPage
<1> QED
  BY <1>3, <1>9, <1>10, <1>11, <1>12, UnmovedRegistry DEF CallInv

\* The rest of the queue of a page that has taken a message from it.
LEMMA Heard ==
  ASSUME RoomsTypeOK, NEW p \in Page, NEW type, Receive(p, type)
  PROVE  /\ toPage[p] \in Seq(ToPage)
         /\ toPage[p] # <<>> /\ Head(toPage[p]).type = type /\ toPage'[p] = Tail(toPage[p])
         /\ \A q \in Page \ {p} : toPage'[q] = toPage[q]
         /\ \A T : Has(toPage[p], T) <=> type \in T \/ Has(toPage'[p], T)
         /\ \A A, B : Apart(toPage[p], A, B) =>
              Apart(toPage'[p], A, B) /\ (type \in A => ~Has(toPage'[p], B))
         /\ \A i \in 1..Len(toPage'[p]) :
              i + 1 \in 1..Len(toPage[p]) /\ toPage'[p][i] = toPage[p][i + 1]
<1>1. /\ toPage[p] \in Seq(ToPage) /\ toPage[p] # <<>> /\ Head(toPage[p]).type = type
      /\ toPage'[p] = Tail(toPage[p])
      /\ \A q \in Page \ {p} : toPage'[q] = toPage[q]
  BY DEF RoomsTypeOK, Receive
<1>2. \A T : Has(toPage[p], T) <=> type \in T \/ Has(toPage'[p], T)
  BY <1>1, HasTail
<1>3. \A A, B : Apart(toPage[p], A, B) =>
        Apart(toPage'[p], A, B) /\ (type \in A => ~Has(toPage'[p], B))
  BY <1>1, ApartTail
<1>4. \A i \in 1..Len(toPage'[p]) :
        i + 1 \in 1..Len(toPage[p]) /\ toPage'[p][i] = toPage[p][i + 1]
  BY <1>1
<1> QED BY <1>1, <1>2, <1>3, <1>4

\* A page hears a message that is neither an answer nor a dismissal.
LEMMA HeardNeutral ==
  ASSUME RoomsTypeOK, NEW p \in Page, NEW type \in Neutral, Receive(p, type), QueueInv(p),
         UNCHANGED severed,
         session'[p].role = session[p].role, session'[p].room = session[p].room,
         Has(toServer'[SocketOf(p)], Asks) <=> Has(toServer[SocketOf(p)], Asks)
  PROVE  QueueInv(p)'
<1>1. /\ SocketOf(p)' = SocketOf(p) /\ socketIndex' = socketIndex
      /\ type \notin Answers \cup Dismissals /\ type \notin Dismissals
      /\ type \notin {"CALL_ENDED"}
  BY DEF Receive, SocketOf, roomVars, Neutral, Answers, Dismissals
<1>2. \A T : type \notin T => (Has(toPage'[p], T) <=> Has(toPage[p], T))
  BY Heard
<1>3. /\ Has(toPage'[p], Answers \cup Dismissals) <=> Has(toPage[p], Answers \cup Dismissals)
      /\ Has(toPage'[p], Dismissals) <=> Has(toPage[p], Dismissals)
      /\ Has(toPage'[p], {"CALL_ENDED"}) <=> Has(toPage[p], {"CALL_ENDED"})
  BY <1>1, <1>2
<1>4. Ending(p)' <=> Ending(p)
  BY <1>3 DEF Ending, Has
<1>5. \A r : Shown(p, r)' <=> Shown(p, r)
  BY <1>1, <1>4 DEF Shown
<1>6. ASSUME NEW i \in 1..Len(toPage'[p]), toPage'[p][i].type \in {"CALL_CREATED", "CALL_JOINED"}
      PROVE  Shown(p, toPage[p][i].room)'
  <2>1. i + 1 \in 1..Len(toPage[p]) /\ toPage'[p][i] = toPage[p][i + 1]
    BY Heard
  <2>2. Shown(p, toPage[p][i + 1].room)
    BY <1>6, <2>1 DEF QueueInv
  <2> QED BY <1>1, <1>4, <2>1, <2>2 DEF Shown
<1>7. /\ Apart(toPage'[p], Answers \cup Dismissals, Answers)
      /\ Apart(toPage'[p], Dismissals, Dismissals)
  BY Heard DEF QueueInv
<1>8. session'[p].role # "none" /\ p \notin severed' => Shown(p, session[p].room)'
  <2>1. session'[p].role # "none" /\ p \notin severed' => Shown(p, session[p].room)
    BY DEF QueueInv
  <2> QED BY <1>1, <1>4, <2>1 DEF Shown
<1> QED BY <1>1, <1>3, <1>6, <1>7, <1>8 DEF QueueInv

\* A step that changes neither what a page asks for nor the call it shows.
LEMMA SteadyStep ==
  ASSUME TypeInv, CallInv, UNCHANGED <<connection, roomVars, severed>>, NEW p \in Page,
         \/ UNCHANGED toServer
         \/ \E m \in ToServer : m.type \in Chatter /\ Send(p, m),
         UNCHANGED toPage \/ \E type \in Neutral : Receive(p, type),
         \A q \in Page \ {p} : session'[q] = session[q],
         session'[p].role = session[p].role, session'[p].room = session[p].room,
         session'[p].creating = session[p].creating, session'[p].joining = session[p].joining,
         session'[p].asking = session[p].asking, session'[p].local = session[p].local,
         session'[p].cameras = session[p].cameras
  PROVE  CallInv'
<1>1. PICK s \in Socket : s = SocketOf(p) /\ SocketOf(p)' = s
  BY CurrentSocket DEF TypeInv, TypeOK, SocketOf
<1>2. RoomsTypeOK /\ socketIndex' = socketIndex
  BY DEF TypeInv, TypeOK, roomVars
<1>3. /\ \A t \in Socket : SocketInv(t)'
      /\ Has(toServer'[s], Asks) <=> Has(toServer[s], Asks)
      /\ \A t \in Socket : t # s => toServer'[t] = toServer[t]
  <2>1. CASE UNCHANGED toServer
    BY <1>2, <2>1 DEF CallInv, SocketInv
  <2>2. CASE \E m \in ToServer : m.type \in Chatter /\ Send(p, m)
    BY <1>1, <2>2, SentSocket DEF Chatter, Asks
  <2> QED BY <2>1, <2>2
<1>4. QueueInv(p)'
  <2>1. CASE UNCHANGED toPage
    BY ZenonT(60), <1>1, <1>2, <1>3, <2>1 DEF CallInv, QueueInv, Shown, Ending
  <2>2. CASE \E type \in Neutral : Receive(p, type)
    BY <1>1, <1>2, <1>3, <2>2, HeardNeutral DEF CallInv
  <2> QED BY <2>1, <2>2
<1>5. PageInv(p)'
  <2>1. Has(toPage'[p], Answers \cup Dismissals) => Has(toPage[p], Answers \cup Dismissals)
    BY <1>2, Heard
  <2>2. Resting(p)' <=> Resting(p)
    BY DEF Resting, Pending
  <2>3. Untouched(p) => Untouched(p)'
    BY <1>1, <1>2, <1>3, <2>1 DEF Untouched
  <2> QED BY <2>2, <2>3 DEF CallInv, PageInv, Pending
<1>6. \A q \in Page \ {p} : PageInv(q)' /\ QueueInv(q)'
  <2>1. \A q \in Page \ {p} : toPage'[q] = toPage[q]
    BY <1>2, Heard
  <2> QED BY <1>1, <1>3, <2>1, OtherPage
<1> QED
  BY <1>3, <1>4, <1>5, <1>6, UnmovedRegistry DEF CallInv

\* The fields of a session that a steady step leaves as they are.
Same(x, y) ==
  /\ x.role = y.role /\ x.room = y.room
  /\ x.creating = y.creating /\ x.joining = y.joining /\ x.asking = y.asking
  /\ x.local = y.local /\ x.cameras = y.cameras

LEMMA SameFields ==
  ASSUME NEW x \in Session, NEW v
  PROVE  /\ Same([x EXCEPT !.media = v], x)
         /\ Same([x EXCEPT !.remoteMedia = v], x)
         /\ Same([x EXCEPT !.signalling = v], x)
         /\ \A s : Same([x EXCEPT !.peer = s, !.signalling = v], x)
BY DEF Same, Session

LEMMA toggleStep ==
  ASSUME TypeInv, CallInv, NEW p \in Page, toggle(p)
  PROVE  CallInv'
<1>1. SessionTypeOK /\ session[p] \in Session /\ session[p].room \in RoomId \cup {None}
      /\ session[p].media \in BOOLEAN
  BY SessionFields DEF TypeInv, TypeOK
<1>2. Same(session'[p], session[p]) /\ \A q \in Page \ {p} : session'[q] = session[q]
  <2> DEFINE x == [session[p] EXCEPT !.media = ~@]
  <2>1. Same(x, session[p])
    BY <1>1 DEF Same, Session
  <2>2. Become(p, x)
    BY DEF toggle
  <2> HIDE DEF x
  <2> QED BY <1>1, <2>1, <2>2, BecomeOne
<1>3. \E m \in ToServer : m.type \in Chatter /\ Send(p, m)
  <2> DEFINE m == [type |-> "TRACK_STATE", room |-> session[p].room, media |-> ~session[p].media]
  <2>1. m \in ToServer /\ m.type \in Chatter
    BY <1>1, ToServerMessages DEF Chatter
  <2> QED BY <2>1 DEF toggle
<1> QED BY <1>2, <1>3, SteadyStep DEF toggle, Same

LEMMA describeStep ==
  ASSUME TypeInv, CallInv, NEW p \in Page, describe(p)
  PROVE  CallInv'
<1>1. SessionTypeOK /\ session[p] \in Session
  BY SessionFields DEF TypeInv, TypeOK
<1>2. session[p].peer \in Socket
  BY SessionFields DEF TypeInv, TypeOK, describe
<1>3. Same(session'[p], session[p]) /\ \A q \in Page \ {p} : session'[q] = session[q]
  <2>1. PICK v : Become(p, [session[p] EXCEPT !.signalling = v])
    BY DEF describe
  <2> QED BY <1>1, <2>1, BecomeOne, SameFields
<1>4. \/ UNCHANGED toServer
      \/ \E m \in ToServer : m.type \in Chatter /\ Send(p, m)
  BY <1>2, ToServerMessages DEF describe, Chatter
<1> QED BY <1>3, <1>4, SteadyStep DEF describe, Same

LEMMA HeardStep ==
  ASSUME TypeInv, CallInv, NEW p \in Page,
         \/ onPeerJoined(p) \/ onSdpOffer(p) \/ onSdpAnswer(p) \/ onTrackState(p)
  PROVE  CallInv'
<1>1. SessionTypeOK /\ session[p] \in Session
  BY SessionFields DEF TypeInv, TypeOK
<1>2. \E type \in Neutral : Receive(p, type)
  BY DEF onPeerJoined, onSdpOffer, onSdpAnswer, onTrackState, Neutral
<1>3. PICK x : Become(p, x) /\ Same(x, session[p])
  BY <1>1, SameFields
  DEF onPeerJoined, onSdpOffer, onSdpAnswer, onTrackState, createPeerConnection
<1>4. Same(session'[p], session[p]) /\ \A q \in Page \ {p} : session'[q] = session[q]
  BY <1>1, <1>3, BecomeOne
<1>5. UNCHANGED <<connection, roomVars, severed, toServer>>
  BY <1>2 DEF onPeerJoined, onSdpOffer, onSdpAnswer, onTrackState, Receive
<1> QED BY <1>2, <1>4, <1>5, SteadyStep DEF Same

\* The page hears that its call is created, or joined.
LEMMA GrantHeard ==
  ASSUME TypeInv, CallInv, NEW p \in Page, onCallCreated(p) \/ onCallJoined(p)
  PROVE  CallInv'
<1> DEFINE m == Head(toPage[p])
<1>1. PICK s \in Socket : s = SocketOf(p)
  BY CurrentSocket DEF TypeInv, TypeOK
<1>2. PICK type \in {"CALL_CREATED", "CALL_JOINED"} : Receive(p, type)
  BY DEF onCallCreated, onCallJoined
<1>3. RoomsTypeOK /\ SessionTypeOK /\ session[p] \in Session
      /\ UNCHANGED <<connection, roomVars, severed>>
  BY <1>2, SessionFields DEF TypeInv, TypeOK, Receive, onCallCreated, onCallJoined
<1>4. SocketOf(p)' = s /\ socketIndex' = socketIndex
  BY <1>1, <1>3 DEF SocketOf, roomVars
<1>5. /\ type \in Answers \cup Dismissals /\ type \in Answers
      /\ type \notin Dismissals /\ type \notin {"CALL_ENDED"}
  BY DEF Answers, Dismissals
<1>6. /\ toPage[p] # <<>> /\ m.type = type /\ toPage[p] \in Seq(ToPage)
      /\ ~Has(toPage'[p], Answers)
      /\ Has(toPage'[p], Dismissals) => Has(toPage[p], Dismissals)
      /\ Has(toPage[p], {"CALL_ENDED"}) <=> Has(toPage'[p], {"CALL_ENDED"})
      /\ Has(toPage[p], Answers \cup Dismissals)
      /\ Apart(toPage'[p], Answers \cup Dismissals, Answers)
      /\ Apart(toPage'[p], Dismissals, Dismissals)
  BY <1>2, <1>3, <1>5, Heard DEF CallInv, QueueInv
<1>7. /\ ~Resting(p) /\ session[p].asking = {}
      /\ ~Has(toServer[s], Asks)
      /\ session[p].cameras = IF session[p].local THEN 1 ELSE 0
      /\ ~(session[p].creating /\ session[p].joining)
  BY <1>1, <1>6 DEF CallInv, PageInv, QueueInv, Untouched, Resting
<1>8. /\ session'[p].role # "none" /\ session'[p].room = m.room
      /\ session'[p].asking = {} /\ session'[p].local = session[p].local
      /\ session'[p].cameras = session[p].cameras
      /\ (session'[p].creating => session[p].creating) /\ (session'[p].joining => session[p].joining)
      /\ \A q \in Page \ {p} : session'[q] = session[q]
  <2>1. CASE onCallCreated(p)
    <3> DEFINE x == [session[p] EXCEPT !.role = "host", !.creating = FALSE, !.room = m.room]
    <3>1. session'[p] = x /\ \A q \in Page \ {p} : session'[q] = session[q]
      BY <1>3, <2>1, BecomeOne DEF onCallCreated
    <3> QED BY <1>3, <1>7, <3>1 DEF Session
  <2>2. CASE onCallJoined(p)
    <3> DEFINE x == [session[p] EXCEPT !.role = "guest", !.joining = FALSE,
                                       !.room = m.room, !.remoteMedia = m.media]
    <3>1. session'[p] = x /\ \A q \in Page \ {p} : session'[q] = session[q]
      BY <1>3, <2>2, BecomeOne DEF onCallJoined
    <3> QED BY <1>3, <1>7, <3>1 DEF Session
  <2> QED BY <2>1, <2>2
<1>9. /\ \A t \in Socket : SocketInv(t)'
      /\ Has(toServer'[s], Asks) <=> Has(toServer[s], Asks)
      /\ \A t \in Socket : t # s => toServer'[t] = toServer[t]
  <2>1. CASE onCallCreated(p)
    BY <1>3, <1>4, <2>1 DEF onCallCreated, CallInv, SocketInv
  <2>2. CASE onCallJoined(p)
    <3> DEFINE n == [type |-> "TRACK_STATE", room |-> m.room, media |-> TRUE]
    <3>1. m.room \in RoomId
      BY <1>2, <1>3, ReceiveType, ToPageFields
    <3>2. n \in ToServer /\ n.type \in Chatter /\ n.type \notin Asks
      BY <3>1, ToServerMessages DEF Chatter, Asks
    <3>3. Send(p, n)
      BY <2>2 DEF onCallJoined
    <3> HIDE DEF n
    <3> QED BY <1>1, <1>3, <3>2, <3>3, SentSocket
  <2> QED BY <2>1, <2>2
<1>10. PageInv(p)'
  BY <1>7, <1>8 DEF PageInv, Resting, Pending
<1>11. QueueInv(p)'
  <2>1. Ending(p)' <=> Ending(p)
    BY <1>6 DEF Ending, Has
  <2>2. Shown(p, m.room)
    <3>1. 1 \in 1..Len(toPage[p]) /\ m = toPage[p][1]
      BY <1>6
    <3> QED BY <1>6, <3>1 DEF CallInv, QueueInv
  <2>3. Shown(p, session[p].room)'
    BY <1>1, <1>4, <1>8, <2>1, <2>2 DEF Shown
  <2>4. \A i \in 1..Len(toPage'[p]) : toPage'[p][i].type \notin {"CALL_CREATED", "CALL_JOINED"}
    BY <1>6 DEF Has, Answers
  <2>5. Has(toPage'[p], Dismissals) => socketIndex'[s] = None
    BY <1>1, <1>4, <1>6 DEF CallInv, QueueInv
  <2> QED
    BY <1>4, <1>6, <1>7, <1>9, <2>3, <2>4, <2>5 DEF QueueInv
<1>12. \A q \in Page \ {p} : PageInv(q)' /\ QueueInv(q)'
  <2>1. \A q \in Page \ {p} : toPage'[q] = toPage[q]
    BY <1>2, <1>3, Heard
  <2> QED BY <1>1, <1>3, <1>8, <1>9, <2>1, OtherPage
<1> QED
  BY <1>3, <1>9, <1>10, <1>11, <1>12, UnmovedRegistry DEF CallInv

\* A dismissed page asks for nothing, shows nothing and holds no camera.
LEMMA DismissalHeard ==
  ASSUME TypeInv, CallInv, NEW p \in Page, onJoinError(p) \/ onCallEnded(p)
  PROVE  CallInv'
<1>1. PICK s \in Socket : s = SocketOf(p)
  BY CurrentSocket DEF TypeInv, TypeOK
<1>2. PICK type \in Dismissals : Receive(p, type) /\ (onCallEnded(p) => type = "CALL_ENDED")
                                 /\ (onJoinError(p) => type = "JOIN_ERROR")
  BY DEF onJoinError, onCallEnded, Dismissals, Receive
<1>3. RoomsTypeOK /\ SessionTypeOK /\ session[p] \in Session
      /\ (session[p].local => session[p].cameras > 0)
      /\ UNCHANGED <<connection, roomVars, toServer>> /\ severed' \subseteq severed
      /\ severed \ {p} \subseteq severed'
  BY <1>2, SessionFields DEF TypeInv, TypeOK, Receive, onJoinError, onCallEnded
<1>4. SocketOf(p)' = s /\ socketIndex' = socketIndex
  BY <1>1, <1>3 DEF SocketOf, roomVars
<1>5. type \in Answers \cup Dismissals
  OBVIOUS
<1>6. /\ Has(toPage[p], Dismissals) /\ Has(toPage[p], Answers \cup Dismissals)
      /\ ~Has(toPage'[p], Answers) /\ ~Has(toPage'[p], Dismissals)
      /\ Apart(toPage'[p], Answers \cup Dismissals, Answers)
      /\ Apart(toPage'[p], Dismissals, Dismissals)
  BY <1>2, <1>3, <1>5, Heard DEF CallInv, QueueInv
<1>7. ~Has(toPage'[p], Answers \cup Dismissals)
  BY <1>6 DEF Has
<1>8. /\ ~Resting(p) /\ session[p].asking = {}
      /\ ~Has(toServer[s], Asks) /\ socketIndex[s] = None
      /\ session[p].cameras = IF session[p].local THEN 1 ELSE 0
      /\ ~(session[p].creating /\ session[p].joining)
  BY <1>1, <1>6 DEF CallInv, PageInv, QueueInv, Untouched, Resting
<1>9. /\ session'[p].asking = {} /\ ~session'[p].local /\ session'[p].cameras = 0
      /\ ~(session'[p].creating /\ session'[p].joining)
      /\ \/ session'[p].role = "none"
         \/ session'[p].role = session[p].role /\ session'[p].room = session[p].room
            /\ onJoinError(p)
      /\ \A q \in Page \ {p} : session'[q] = session[q]
  <2>1. MediaStopped(session[p]).cameras = 0
    <3>1. session[p].cameras - 1 = 0 \/ ~session[p].local
      BY <1>8
    <3> QED BY <1>3, <1>8, <3>1, ResetType
  <2>2. CASE onCallEnded(p)
    <3>1. session'[p] = Reset(session[p]) /\ \A q \in Page \ {p} : session'[q] = session[q]
      BY <1>3, <2>2, BecomeOne DEF onCallEnded
    <3> QED BY <1>3, <1>8, <2>1, <3>1, ResetType
  <2>3. CASE onJoinError(p)
    <3> DEFINE y == MediaStopped(session[p])
               x == [y EXCEPT !.joining = FALSE]
    <3>1. session'[p] = x /\ \A q \in Page \ {p} : session'[q] = session[q]
      BY <1>3, <2>3, BecomeOne DEF onJoinError
    <3>2. y \in Session /\ y.asking = {} /\ ~y.local /\ y.cameras = 0
          /\ y.role = session[p].role /\ y.room = session[p].room
      BY <1>3, <1>8, <2>1, ResetType
    <3> HIDE DEF y
    <3>3. x.asking = {} /\ ~x.local /\ x.cameras = 0 /\ ~x.joining
          /\ x.role = session[p].role /\ x.room = session[p].room
      BY <3>2 DEF Session
    <3> QED BY <2>3, <3>1, <3>3
  <2> QED BY <2>2, <2>3
<1>10. Untouched(p)'
  BY <1>3, <1>4, <1>7, <1>8, <1>9 DEF Untouched
<1>11. PageInv(p)'
  BY <1>9, <1>10 DEF PageInv
<1>12. QueueInv(p)'
  <2>1. \A i \in 1..Len(toPage'[p]) : toPage'[p][i].type \notin {"CALL_CREATED", "CALL_JOINED"}
    BY <1>6 DEF Has, Answers
  <2>2. session'[p].role # "none" /\ p \notin severed' => Shown(p, session[p].room)'
    <3> SUFFICES ASSUME session'[p].role # "none", p \notin severed'
                 PROVE  Shown(p, session[p].room)'
      OBVIOUS
    <3>1. onJoinError(p) /\ session'[p].role = session[p].role
          /\ session'[p].room = session[p].room
      BY <1>9
    <3>2. p \notin severed
      BY <3>1 DEF onJoinError
    <3>3. Shown(p, session[p].room)
      BY <3>1, <3>2 DEF CallInv, QueueInv
    <3>4. Has(toPage[p], {"CALL_ENDED"}) <=> Has(toPage'[p], {"CALL_ENDED"})
      BY <1>2, <1>3, <3>1, Heard
    <3>5. Ending(p)' <=> Ending(p)
      BY <3>4 DEF Ending, Has
    <3> QED BY <1>1, <1>4, <3>1, <3>3, <3>5 DEF Shown
  <2> QED
    BY <1>1, <1>3, <1>4, <1>6, <1>7, <2>1, <2>2 DEF QueueInv
<1>13. \A q \in Page \ {p} : PageInv(q)' /\ QueueInv(q)'
  <2>1. \A q \in Page \ {p} : toPage'[q] = toPage[q]
    BY <1>2, <1>3, Heard
  <2> QED BY <1>1, <1>3, <1>9, <2>1, OtherPage
<1>14. \A t \in Socket : SocketInv(t)'
  BY <1>3, <1>4 DEF CallInv, SocketInv
<1> QED
  BY <1>3, <1>11, <1>12, <1>13, <1>14, UnmovedRegistry DEF CallInv

\* A queue to which a disconnect has been added.
LEMMA DisconnectLast ==
  ASSUME NEW pre \in Seq(ToServer), NEW queue,
         queue = Append(pre, [type |-> "disconnect"]),
         Apart(pre, Asks \cup {"disconnect"}, Asks)
  PROVE  /\ Apart(queue, Asks \cup {"disconnect"}, Asks)
         /\ Has(queue, Asks) => Has(pre, Asks)
         /\ Has(queue, {"disconnect"})
<1>1. PICK d : d = [type |-> "disconnect"]
  OBVIOUS
<1>2. d.type = "disconnect" /\ d.type \notin Asks /\ queue = Append(pre, d)
  BY <1>1 DEF Asks
<1>3. \A T : Has(queue, T) <=> Has(pre, T) \/ d.type \in T
  BY <1>2, HasAppend
<1>4. Apart(queue, Asks \cup {"disconnect"}, Asks)
  BY <1>2, ApartAppend
<1> QED BY <1>2, <1>3, <1>4

\* A socket is given up: what it had sent, or the beginning of it, is followed by its
\* disconnect, and the page goes on with a socket nobody knows.
LEMMA HungUp ==
  ASSUME TypeInv, CallInv, UNCHANGED roomVars, NEW p \in Page, NEW s \in Socket, s = SocketOf(p),
         connection[p] < MaxConnections[p], connection' = [connection EXCEPT ![p] = @ + 1],
         NEW pre \in Seq(ToServer),
         Apart(pre, Asks \cup {"disconnect"}, Asks),
         Has(pre, Asks) => Has(toServer[s], Asks),
         toServer' = [toServer EXCEPT ![s] = Append(pre, [type |-> "disconnect"])]
  PROVE  /\ \A t \in Socket : SocketInv(t)'
         /\ \A t \in Socket : t # s => toServer'[t] = toServer[t]
         /\ ~Has(toServer'[SocketOf(p)'], Asks) /\ socketIndex'[SocketOf(p)'] = None
<1>1. /\ s[1] = p /\ s[2] = connection[p] /\ connection \in [Page -> Nat]
      /\ \A t \in Socket : t[1] \in Page /\ t[2] \in Nat
      /\ SocketOf(p)' \in Socket /\ SocketOf(p)' = <<p, connection[p] + 1>>
      /\ socketIndex' = socketIndex
  <2>1. s[1] = p /\ s[2] = connection[p] /\ connection \in [Page -> Nat] /\ RoomsTypeOK
    BY OwnSocket DEF TypeInv, TypeOK, RoomsTypeOK
  <2>2. \A t \in Socket : t[1] \in Page /\ t[2] \in Nat
    BY SocketFields, CallAssumption DEF CallAssumption
  <2>3. SocketOf(p)' \in Socket
    BY <2>1, NextConnection, CallAssumption
  <2>4. SocketOf(p)' = <<p, connection[p] + 1>>
    BY <2>1 DEF SocketOf
  <2> QED BY <2>1, <2>2, <2>3, <2>4 DEF roomVars
<1>2. /\ toServer'[s] = Append(pre, [type |-> "disconnect"])
      /\ \A t \in Socket : t # s => toServer'[t] = toServer[t]
  BY DEF TypeInv, TypeOK, RoomsTypeOK
<1>3. /\ connection'[p] = connection[p] + 1
      /\ \A q \in Page \ {p} : connection'[q] = connection[q]
  BY <1>1
<1>4. SocketInv(s)'
  <2>1. /\ Apart(toServer'[s], Asks \cup {"disconnect"}, Asks)
        /\ Has(toServer'[s], Asks) => Has(pre, Asks)
        /\ Has(toServer'[s], {"disconnect"})
    BY <1>2, DisconnectLast
  <2>2. Has(toServer'[s], Asks) => socketIndex[s] = None
    BY <2>1 DEF CallInv, SocketInv
  <2>4. s[2] < connection'[s[1]] /\ ~(s[2] > connection'[s[1]])
    BY <1>1, <1>3
  <2> QED BY <1>1, <2>1, <2>2, <2>4 DEF SocketInv
<1>5. ASSUME NEW t \in Socket, t # s PROVE SocketInv(t)'
  <2>1. SocketInv(t) /\ toServer'[t] = toServer[t] /\ socketIndex'[t] = socketIndex[t]
    BY <1>1, <1>2, <1>5 DEF CallInv
  <2>2. CASE t[1] # p
    BY <1>1, <1>3, <2>1, <2>2 DEF SocketInv
  <2>3. CASE t[1] = p /\ t[2] < connection[p]
    BY <1>1, <1>3, <2>1, <2>3 DEF SocketInv
  <2>4. CASE t[1] = p /\ t[2] > connection[p]
    <3>1. toServer'[t] = <<>> /\ socketIndex'[t] = None
      BY <2>1, <2>4 DEF SocketInv
    <3>2. ~(t[2] < connection'[t[1]])
      BY <1>1, <1>3, <2>4
    <3> QED BY <3>1, <3>2, HasNothing, ApartNothing DEF SocketInv
  <2>5. ~(t[1] = p /\ t[2] = connection[p])
    BY <1>1, <1>5, SocketFields
  <2> QED BY <1>1, <2>2, <2>3, <2>4, <2>5
<1>6. ~Has(toServer'[SocketOf(p)'], Asks) /\ socketIndex'[SocketOf(p)'] = None
  <2>1. PICK t \in Socket : t = SocketOf(p)'
    BY <1>1
  <2>2. t[1] = p /\ t[2] > connection[p] /\ t # s
    BY <1>1, <2>1
  <2>3. toServer[t] = <<>> /\ socketIndex[t] = None
    BY <2>2 DEF CallInv, SocketInv
  <2> QED BY <1>1, <1>2, <2>1, <2>2, <2>3, HasNothing
<1> QED BY <1>2, <1>4, <1>5, <1>6

LEMMA HangUpStep ==
  ASSUME TypeInv, CallInv, UNCHANGED roomVars, NEW p \in Page, NEW s \in Socket, s = SocketOf(p),
         connection[p] < MaxConnections[p], connection' = [connection EXCEPT ![p] = @ + 1],
         NEW pre \in Seq(ToServer),
         Apart(pre, Asks \cup {"disconnect"}, Asks),
         Has(pre, Asks) => Has(toServer[s], Asks),
         toServer' = [toServer EXCEPT ![s] = Append(pre, [type |-> "disconnect"])],
         toPage' = [toPage EXCEPT ![p] = <<>>],
         \A q \in Page \ {p} : session'[q] = session[q] /\ (q \in severed' <=> q \in severed),
         session'[p].role # "none" => p \in severed',
         ~(session'[p].creating /\ session'[p].joining),
         session'[p].asking # {} =>
           Pending(p)' /\ session'[p].role = "none" /\ \A a, b \in session'[p].asking : a = b,
         session'[p].cameras = IF session'[p].local THEN 1 ELSE 0,
         Resting(p)' => ~session'[p].local
  PROVE  CallInv'
<1>1. /\ \A t \in Socket : SocketInv(t)'
      /\ \A t \in Socket : t # s => toServer'[t] = toServer[t]
      /\ ~Has(toServer'[SocketOf(p)'], Asks) /\ socketIndex'[SocketOf(p)'] = None
  BY HungUp
<1>2. toPage'[p] = <<>> /\ \A q \in Page \ {p} : toPage'[q] = toPage[q]
  BY DEF TypeInv, TypeOK, RoomsTypeOK
<1>3. \A q \in Page \ {p} : connection'[q] = connection[q]
  BY DEF TypeInv, TypeOK, RoomsTypeOK
<1>4. PageInv(p)'
  BY <1>1, <1>2, HasNothing DEF PageInv, Untouched
<1>5. QueueInv(p)'
  BY <1>1, <1>2, HasNothing, ApartNothing DEF QueueInv
<1>6. \A q \in Page \ {p} : PageInv(q)' /\ QueueInv(q)'
  BY <1>1, <1>2, <1>3, OtherPage
<1> QED BY <1>1, <1>4, <1>5, <1>6, UnmovedRegistry DEF CallInv

LEMMA leaveCallStep ==
  ASSUME TypeInv, CallInv, NEW p \in Page, leaveCall(p)
  PROVE  CallInv'
<1> DEFINE leave == [type |-> "LEAVE_CALL", room |-> session[p].room]
<1>1. PICK s \in Socket : s = SocketOf(p)
  BY CurrentSocket DEF TypeInv, TypeOK
<1>2. PICK pre : pre = Append(toServer[s], leave)
  OBVIOUS
<1>3. /\ toServer[s] \in Seq(ToServer) /\ leave \in ToServer /\ leave.type \notin Asks
      /\ session[p] \in Session /\ SessionTypeOK
      /\ (session[p].local => session[p].cameras > 0)
  BY SessionFields, ToServerMessages DEF TypeInv, TypeOK, RoomsTypeOK, Asks
<1>4. /\ pre \in Seq(ToServer)
      /\ Apart(pre, Asks \cup {"disconnect"}, Asks)
      /\ Has(pre, Asks) => Has(toServer[s], Asks)
  <2>1. Apart(toServer[s], Asks \cup {"disconnect"}, Asks)
    BY DEF CallInv, SocketInv
  <2> HIDE DEF leave
  <2> QED BY <1>2, <1>3, <2>1, ApartAppend, HasAppend
<1>5. toServer' = [toServer EXCEPT ![s] = Append(pre, [type |-> "disconnect"])]
  <2>1. toServer' = [toServer EXCEPT ![s] =
                       toServer[s] \o <<leave>> \o <<[type |-> "disconnect"]>>]
    BY <1>1 DEF leaveCall, Reconnect
  <2>2. toServer[s] \o <<leave>> \o <<[type |-> "disconnect"]>>
          = Append(pre, [type |-> "disconnect"])
    <3> HIDE DEF leave
    <3> QED BY <1>2, <1>3, <1>4, ToServerMessages, OneToAppend
  <2> QED BY <2>1, <2>2
<1>6. session[p].asking = {} /\ session[p].cameras = IF session[p].local THEN 1 ELSE 0
  BY DEF CallInv, PageInv, leaveCall
<1>7. /\ session'[p] = Reset(session[p])
      /\ \A q \in Page \ {p} : session'[q] = session[q] /\ (q \in severed' <=> q \in severed)
  BY <1>3, BecomeOne DEF leaveCall
<1>8. /\ session'[p].role = "none" /\ session'[p].asking = {} /\ ~session'[p].local
      /\ ~session'[p].creating /\ session'[p].cameras = 0
  <2>1. MediaStopped(session[p]).cameras = 0
    <3>1. session[p].cameras - 1 = 0 \/ ~session[p].local
      BY <1>6
    <3> QED BY <1>3, <1>6, <3>1, ResetType
  <2> QED BY <1>3, <1>6, <1>7, <2>1, ResetType
<1>9. /\ connection[p] < MaxConnections[p] /\ connection' = [connection EXCEPT ![p] = @ + 1]
      /\ toPage' = [toPage EXCEPT ![p] = <<>>] /\ UNCHANGED roomVars
  BY DEF leaveCall, Reconnect
<1> QED BY <1>1, <1>4, <1>5, <1>7, <1>8, <1>9, HangUpStep

LEMMA pageLeftStep ==
  ASSUME TypeInv, CallInv, NEW p \in Page, pageLeft(p)
  PROVE  CallInv'
<1>1. PICK s \in Socket : s = SocketOf(p)
  BY CurrentSocket DEF TypeInv, TypeOK
<1>2. /\ toServer[s] \in Seq(ToServer) /\ SessionTypeOK
      /\ Apart(toServer[s], Asks \cup {"disconnect"}, Asks)
  BY DEF TypeInv, TypeOK, RoomsTypeOK, CallInv, SocketInv
<1>3. toServer' = [toServer EXCEPT ![s] = Append(toServer[s], [type |-> "disconnect"])]
  <2>1. toServer' = [toServer EXCEPT ![s] = toServer[s] \o <<>> \o <<[type |-> "disconnect"]>>]
    BY <1>1 DEF pageLeft, Reconnect
  <2>2. toServer[s] \o <<>> \o <<[type |-> "disconnect"]>>
          = Append(toServer[s], [type |-> "disconnect"])
    BY <1>2, ToServerMessages, OneToAppend
  <2> QED BY <2>1, <2>2
<1>4. /\ session'[p] = Fresh
      /\ \A q \in Page \ {p} : session'[q] = session[q] /\ (q \in severed' <=> q \in severed)
  BY <1>2, BecomeOne DEF pageLeft
<1>5. /\ connection[p] < MaxConnections[p] /\ connection' = [connection EXCEPT ![p] = @ + 1]
      /\ toPage' = [toPage EXCEPT ![p] = <<>>] /\ UNCHANGED roomVars
  BY DEF pageLeft, Reconnect
<1> QED BY <1>1, <1>2, <1>3, <1>4, <1>5, FreshType, HangUpStep

LEMMA connectionLostStep ==
  ASSUME TypeInv, CallInv, NEW p \in Page, connectionLost(p)
  PROVE  CallInv'
<1>1. PICK s \in Socket : s = SocketOf(p)
  BY CurrentSocket DEF TypeInv, TypeOK
<1>2. /\ toServer[s] \in Seq(ToServer)
      /\ Apart(toServer[s], Asks \cup {"disconnect"}, Asks)
  BY DEF TypeInv, TypeOK, RoomsTypeOK, CallInv, SocketInv
<1>3. PICK n \in 0..Len(toServer[s]) :
        toServer' = [toServer EXCEPT ![s] = SubSeq(@, 1, n) \o <<[type |-> "disconnect"]>>]
  BY <1>1 DEF connectionLost
<1>4. PICK pre : pre = SubSeq(toServer[s], 1, n)
  OBVIOUS
<1>5. /\ pre \in Seq(ToServer)
      /\ Apart(pre, Asks \cup {"disconnect"}, Asks)
      /\ Has(pre, Asks) => Has(toServer[s], Asks)
  BY <1>2, <1>4, Prefix, PrefixApart
<1>6. toServer' = [toServer EXCEPT ![s] = Append(pre, [type |-> "disconnect"])]
  <2>1. pre \o <<[type |-> "disconnect"]>> = Append(pre, [type |-> "disconnect"])
    BY <1>5, ToServerMessages, OneToAppend
  <2> QED BY <1>3, <1>4, <2>1
<1>7. /\ connection[p] < MaxConnections[p] /\ connection' = [connection EXCEPT ![p] = @ + 1]
      /\ toPage' = [toPage EXCEPT ![p] = <<>>] /\ UNCHANGED <<roomVars, session>>
      /\ \A q \in Page \ {p} : q \in severed' <=> q \in severed
      /\ session'[p].role # "none" => p \in severed'
  BY DEF connectionLost
<1>8. PageInv(p) /\ (Resting(p) => ~session[p].local)
  BY DEF CallInv, PageInv, Untouched
<1>9. (Resting(p)' <=> Resting(p)) /\ (Pending(p)' <=> Pending(p))
  BY <1>7 DEF Resting, Pending
<1> QED BY ZenonT(60), <1>1, <1>5, <1>6, <1>7, <1>8, <1>9, HangUpStep DEF PageInv

-----------------------------------------------------------------------------
LEMMA InitCall == Init => CallInv
<1> SUFFICES ASSUME Init PROVE CallInv
  OBVIOUS
<1>1. /\ \A s \in Socket : toServer[s] = <<>> /\ socketIndex[s] = None
      /\ \A p \in Page : toPage[p] = <<>> /\ session[p] = Fresh /\ connection[p] = 1
  BY DEF Init, RoomsInit, SessionInit
<1>2. RegistryAgrees
  BY CallAssumption DEF RegistryAgrees, Participants, Init, RoomsInit, CallAssumption
<1>3. ASSUME NEW s \in Socket PROVE SocketInv(s)
  <2>1. ~(s[2] < connection[s[1]])
    <3>1. MaxConnections[s[1]] \in Nat
      BY SocketFields, CallAssumption DEF CallAssumption
    <3> QED BY <1>1, <3>1, SocketFields
  <2> QED BY <1>1, <2>1, HasNothing, ApartNothing DEF SocketInv
<1>4. ASSUME NEW p \in Page PROVE PageInv(p) /\ QueueInv(p)
  <2>1. SocketOf(p) \in Socket
    BY InitType, CurrentSocket DEF TypeInv, TypeOK
  <2>2. PageInv(p)
    BY <1>1, <2>1, FreshType, HasNothing DEF PageInv, Untouched
  <2>3. QueueInv(p)
    BY <1>1, <2>1, FreshType, HasNothing, ApartNothing DEF QueueInv
  <2> QED BY <2>2, <2>3
<1> QED BY <1>2, <1>3, <1>4 DEF CallInv

LEMMA StepCall ==
  ASSUME OneAtATime
  PROVE  TypeInv /\ CallInv /\ [Next]_vars => CallInv'
<1> SUFFICES ASSUME TypeInv, CallInv, [Next]_vars PROVE CallInv'
  OBVIOUS
<1>1. ASSUME NEW p \in Page, UserStep(p) PROVE CallInv'
  BY <1>1, AskStep, mediaAcquiredStep, mediaRefusedStep, toggleStep, leaveCallStep,
     pageLeftStep, connectionLostStep DEF UserStep
<1>2. ASSUME NEW p \in Page, PageHandler(p) PROVE CallInv'
  BY <1>2, GrantHeard, DismissalHeard, HeardStep, describeStep DEF PageHandler
<1>3. ASSUME NEW s \in Socket, ServerStep(s) PROVE CallInv'
  BY <1>3, ServerStepStep
<1>4. ASSUME NEW r \in RoomId, Expiry(r) PROVE CallInv'
  BY <1>4, ExpiryStep
<1>5. CASE UNCHANGED vars
  <2>1. \A p \in Page : SocketOf(p)' = SocketOf(p)
    BY <1>5 DEF vars, socketVars, SocketOf
  <2>2. UNCHANGED <<connection, toServer, toPage, roomVars, session, severed>>
    BY <1>5 DEF vars, socketVars, sessionVars
  <2>3. \A s \in Socket : SocketInv(s)'
    BY <2>2 DEF CallInv, SocketInv, roomVars
  <2>4. \A p \in Page : PageInv(p)'
    BY <2>1, <2>2 DEF CallInv, PageInv, Resting, Untouched, Pending, roomVars
  <2>5. \A p \in Page : QueueInv(p)'
    BY <2>1, <2>2 DEF CallInv, QueueInv, Shown, Ending, roomVars
  <2> QED BY <2>2, <2>3, <2>4, <2>5, UnmovedRegistry DEF CallInv
<1> QED BY <1>1, <1>2, <1>3, <1>4, <1>5 DEF Next

\* Whatever is started, joined, left, lost or expired in whatever order, the three maps
\* of CallRoomService agree, as long as a page asks for one room at a time.
THEOREM RegistryKept ==
  ASSUME OneAtATime
  PROVE  Spec => []RegistryAgrees
<1>1. Init => TypeInv /\ CallInv
  BY InitType, InitCall
<1>2. TypeInv /\ CallInv /\ [Next]_vars => TypeInv' /\ CallInv'
  BY StepType, StepCall
<1>3. CallInv => RegistryAgrees
  BY DEF CallInv
<1> QED
  BY <1>1, <1>2, <1>3, PTL DEF Spec

\* No room outlives a participant: a page that closes, reloads or loses its connection
\* leaves a disconnect behind that ends its call, and no socket enters a room after it.
THEOREM NoGhosts ==
  ASSUME OneAtATime
  PROVE  Spec => []NoGhostRoom
<1>1. Init => TypeInv /\ CallInv
  BY InitType, InitCall
<1>2. TypeInv /\ CallInv /\ [Next]_vars => TypeInv' /\ CallInv'
  BY StepType, StepCall
<1>3. TypeInv /\ CallInv => NoGhostRoom
  <2> SUFFICES ASSUME TypeInv, CallInv, NEW r \in RoomId, NEW s \in Participants(r)
               PROVE  s = SocketOf(s[1]) \/ Hears(s)
    BY DEF NoGhostRoom
  <2>1. s \in Socket
    BY ParticipantsOf DEF TypeInv, TypeOK
  <2>2. socketIndex[s] # None
    BY <2>1, CallAssumption DEF CallInv, RegistryAgrees, CallAssumption
  <2>3. ~(s[2] > connection[s[1]]) /\ (s[2] < connection[s[1]] => Hears(s))
    BY <2>1, <2>2 DEF CallInv, SocketInv, Has, Hears
  <2>4. s = <<s[1], s[2]>> /\ s[2] \in Nat /\ connection[s[1]] \in Nat
    BY <2>1, SocketFields, CallAssumption DEF CallAssumption, TypeInv, TypeOK, RoomsTypeOK
  <2> QED BY <2>3, <2>4 DEF SocketOf
<1> QED
  BY <1>1, <1>2, <1>3, PTL DEF Spec

\* "Either one leaving (or disconnecting) ends it for both": a page that shows a call is
\* in its room on the server, or CALL_ENDED is on its way to it, unless the page itself
\* has lost its connection since.
THEOREM EndedForBoth ==
  ASSUME OneAtATime
  PROVE  Spec => []EndsForBoth
<1>1. Init => TypeInv /\ CallInv
  BY InitType, InitCall
<1>2. TypeInv /\ CallInv /\ [Next]_vars => TypeInv' /\ CallInv'
  BY StepType, StepCall
<1>3. TypeInv /\ CallInv => EndsForBoth
  <2> SUFFICES ASSUME TypeInv, CallInv, NEW p \in Page \ severed, session[p].role # "none"
               PROVE  SocketOf(p) \in Participants(session[p].room) \/ Ending(p)
    BY DEF EndsForBoth
  <2>1. socketIndex[SocketOf(p)] = session[p].room \/ Ending(p)
    BY DEF CallInv, QueueInv, Shown
  <2>2. session[p].room \in RoomId /\ SocketOf(p) \in Socket
    BY SessionFields, CurrentSocket DEF TypeInv, TypeOK
  <2> QED BY <2>1, <2>2 DEF CallInv, RegistryAgrees
<1> QED
  BY <1>1, <1>2, <1>3, PTL DEF Spec

\* The camera is off on every page that is neither in a call nor waiting for one, and no
\* page holds two streams, whichever way calls are refused, ended, left or lost.
THEOREM CameraOff ==
  ASSUME OneAtATime
  PROVE  Spec => []CameraReleased
<1>1. Init => TypeInv /\ CallInv
  BY InitType, InitCall
<1>2. TypeInv /\ CallInv /\ [Next]_vars => TypeInv' /\ CallInv'
  BY StepType, StepCall
<1>3. CallInv => CameraReleased
  <2> SUFFICES ASSUME CallInv, NEW p \in Page
               PROVE  /\ session[p].cameras <= 1
                      /\ session[p].role = "none" /\ ~Pending(p) => session[p].cameras = 0
    BY DEF CameraReleased
  <2>1. /\ session[p].cameras = IF session[p].local THEN 1 ELSE 0
        /\ session[p].role = "none" /\ ~Pending(p) => ~session[p].local
    BY DEF CallInv, PageInv, Resting, Untouched
  <2> QED BY <2>1
<1> QED
  BY <1>1, <1>2, <1>3, PTL DEF Spec

-----------------------------------------------------------------------------
(* The refinement of PrivateCall.                                            *)
people == [r \in RoomId |-> Participants(r)]

LEMMA PromiseInit == Init => Promise!Init
BY DEF Init, RoomsInit, Promise!Init, Participants

LEMMA NobodyMoved ==
  ASSUME \A r \in RoomId : Participants(r)' = Participants(r)
  PROVE  people' = people
BY DEF people

\* A socket that is in no room is free in the promise.
LEMMA FreeSocket ==
  ASSUME RegistryAgrees, NEW s \in Socket, socketIndex[s] = None
  PROVE  Promise!Free(s)
BY CallAssumption DEF Promise!Free, RegistryAgrees, CallAssumption

LEMMA SeatedPromise ==
  ASSUME TypeInv, CallInv, NEW s \in Socket, handleCreateCall(s) \/ handleJoinCall(s)
  PROVE  Promise!Next
<1>1. RoomsTypeOK /\ RegistryAgrees
  BY DEF TypeInv, TypeOK, CallInv
<1>2. socketIndex[s] = None
  BY <1>1, SeatedSocket DEF CallInv, handleCreateCall, handleJoinCall, Asks
<1>3. Promise!Free(s)
  BY <1>1, <1>2, FreeSocket
<1>4. CASE handleCreateCall(s)
  <2>1. PICK r \in RoomId : createRoom(r, s)
    BY <1>4 DEF handleCreateCall
  <2>2. Participants(r) = {}
    BY <2>1 DEF createRoom, Participants
  <2>3. Participants(r)' = {s} /\ \A q \in RoomId \ {r} : Participants(q)' = Participants(q)
    BY <1>1, <1>2, <2>1, <2>2, SeatedRegistry
  <2>4. people' = [people EXCEPT ![r] = {s}]
    BY <2>3 DEF people
  <2>5. Promise!Start(r, s)
    BY <1>3, <2>2, <2>4 DEF Promise!Start, people
  <2> QED BY <2>5 DEF Promise!Next
<1>5. CASE handleJoinCall(s)
  <2>1. PICK r \in RoomId : rooms[r] # None /\ rooms[r].guest \in {None, s} /\ joinRoom(r, s)
    BY <1>1, <1>5, JoinedRoom
  <2>2. s \notin Participants(r)
    BY <1>1, <1>2, <2>1, CallAssumption DEF RegistryAgrees, CallAssumption
  <2>3. rooms[r].host # s /\ rooms[r].guest = None /\ rooms[r].host # None
    BY <1>1, <2>1, <2>2, RoomType, SocketAssumption DEF Participants, SocketAssumption
  <2>4. Participants(r) = {rooms[r].host}
    BY <2>1, <2>3 DEF Participants
  <2>5. Cardinality(Participants(r)) = 1
    BY <2>4, FS_Singleton
  <2>6. /\ Participants(r)' = Participants(r) \cup {s}
        /\ \A q \in RoomId \ {r} : Participants(q)' = Participants(q)
    BY <1>1, <1>2, <2>1, <2>3, SeatedRegistry
  <2>7. people' = [people EXCEPT ![r] = @ \cup {s}]
    BY <2>1, <2>6 DEF people
  <2>8. Promise!Enter(r, s)
    <3>1. Promise!Cardinality(Participants(r)) = 1
      BY <2>5 DEF Promise!Cardinality, Cardinality
    <3> QED BY <1>3, <2>7, <3>1 DEF Promise!Enter, people
  <2> QED BY <2>1, <2>8 DEF Promise!Next
<1> QED BY <1>4, <1>5

LEMMA ClosedPromise ==
  ASSUME TypeInv, CallInv, NEW r \in RoomId, rooms[r] # None, removeRoom(r)
  PROVE  Promise!Next
<1>1. RoomsTypeOK /\ RegistryAgrees
  BY DEF TypeInv, TypeOK, CallInv
<1>2. Participants(r) # {}
  BY <1>1, ParticipantsOf
<1>3. Participants(r)' = {} /\ \A q \in RoomId \ {r} : Participants(q)' = Participants(q)
  BY <1>1, ClosedRegistry
<1>4. people' = [people EXCEPT ![r] = {}]
  BY <1>3 DEF people
<1>5. Promise!End(r)
  BY <1>2, <1>4 DEF Promise!End, people
<1> QED BY <1>5 DEF Promise!Next

LEMMA TrackStatePromise ==
  ASSUME TypeInv, NEW s \in Socket, handleTrackState(s)
  PROVE  people' = people
<1> DEFINE m == Head(toServer[s])
<1>1. CASE IsMine(s)
  <2>1. m.room \in RoomId /\ rooms[m.room] # None /\ rooms[m.room] \in Room /\ RoomsTypeOK
    BY <1>1, FoundRoom, RoomType DEF IsMine, TypeInv, TypeOK
  <2>2. m.media \in BOOLEAN
    BY <2>1, RequestType, ToServerFields DEF handleTrackState
  <2>3. rooms' = [rooms EXCEPT ![m.room] = [rooms[m.room] EXCEPT !.media = m.media]]
    BY <1>1, <2>1 DEF handleTrackState, setTrackState
  <2>4. [rooms[m.room] EXCEPT !.media = m.media] \in Room
    BY <2>1, <2>2 DEF Room
  <2>5. rooms'[m.room] # None /\ rooms'[m.room].host = rooms[m.room].host
        /\ rooms'[m.room].guest = rooms[m.room].guest
    BY <2>1, <2>3, <2>4, RoomIsSomething DEF RoomsTypeOK, Room
  <2>6. \A r \in RoomId \ {m.room} : rooms'[r] = rooms[r]
    BY <2>1, <2>3 DEF RoomsTypeOK
  <2>7. \A r \in RoomId : Participants(r)' = Participants(r)
    BY <2>1, <2>5, <2>6 DEF Participants
  <2> QED BY <2>7, NobodyMoved
<1>2. CASE ~IsMine(s)
  <2>1. rooms' = rooms
    BY <1>2 DEF handleTrackState
  <2> QED BY <2>1 DEF people, Participants
<1> QED BY <1>1, <1>2

LEMMA HandlerPromise ==
  ASSUME TypeInv, CallInv, NEW s \in Socket, Handler(s)
  PROVE  Promise!Next \/ people' = people
<1>1. RoomsTypeOK
  BY DEF TypeInv, TypeOK
<1>2. CASE handleCreateCall(s) \/ handleJoinCall(s)
  BY <1>2, SeatedPromise
<1>3. CASE joinRefused(s) \/ handleSdp(s)
  BY <1>3 DEF joinRefused, handleSdp, roomVars, people, Participants
<1>4. CASE handleTrackState(s)
  BY <1>4, TrackStatePromise
<1>5. CASE handleLeaveCall(s) \/ handleDisconnect(s)
  <2>1. CASE UNCHANGED roomVars
    BY <2>1 DEF roomVars, people, Participants
  <2>2. CASE findRoomBySocket(s) # None /\ removeRoom(findRoomBySocket(s))
    BY <1>1, <2>2, FoundRoom, ClosedPromise
  <2> QED
    BY <1>5, <2>1, <2>2 DEF handleLeaveCall, handleDisconnect, closeRoom, IsMine
<1> QED BY <1>2, <1>3, <1>4, <1>5 DEF Handler

LEMMA StepPromise == TypeInv /\ CallInv /\ [Next]_vars => [Promise!Next]_people
<1> SUFFICES ASSUME TypeInv, CallInv, [Next]_vars PROVE Promise!Next \/ people' = people
  OBVIOUS
<1>1. CASE UNCHANGED roomVars
  BY <1>1 DEF roomVars, people, Participants
<1>2. ASSUME NEW s \in Socket, Handler(s) PROVE Promise!Next \/ people' = people
  BY <1>2, HandlerPromise
<1>3. ASSUME NEW r \in RoomId, expire(r) PROVE Promise!Next \/ people' = people
  <2>1. rooms[r] # None /\ removeRoom(r)
    BY <1>3 DEF expire, CallInv, RegistryAgrees
  <2> QED BY <2>1, ClosedPromise
<1>4. ASSUME NEW p \in Page, UserStep(p) \/ PageHandler(p) PROVE UNCHANGED roomVars
  BY <1>4 DEF UserStep, createCall, joinCall, mediaAcquired, mediaRefused, toggle, leaveCall,
     pageLeft, connectionLost, PageHandler, onCallCreated, onJoinError, onCallJoined,
     onPeerJoined, onSdpOffer, onSdpAnswer, describe, onTrackState, onCallEnded, Receive
<1> QED BY <1>1, <1>2, <1>3, <1>4 DEF Next, ServerStep, Expiry, vars

\* The server, with its sockets, keeps the promise of a private call: its handlers start
\* a call for somebody who is in none, let such a one join a call of one person, or end
\* the call for both, and do nothing else to who is in which call.
THEOREM PromiseKept ==
  ASSUME OneAtATime
  PROVE  Spec => KeepsPromise
<1>1. Init => TypeInv /\ CallInv
  BY InitType, InitCall
<1>2. TypeInv /\ CallInv /\ [Next]_vars => TypeInv' /\ CallInv'
  BY StepType, StepCall
<1>3. Init => Promise!Init
  BY PromiseInit
<1>4. TypeInv /\ CallInv /\ [Next]_vars => [Promise!Next]_people
  BY StepPromise
<1> QED
  BY <1>1, <1>2, <1>3, <1>4, PTL DEF Spec, KeepsPromise, Promise!Spec, people

-----------------------------------------------------------------------------
(* The indicators.  What a page shows of the other follows from the other's  *)
(* state through two queues, the other's to the server and the page's own:   *)
(* each holds what was said last, or nothing that is said.                   *)
Openings == {"CALL_CREATED", "CALL_JOINED"}
Tracks == {"TRACK_STATE"}

\* What tells a page of the other's state: both messages carry it.
Marks == {"TRACK_STATE", "CALL_JOINED"}

\* Whoever knew x and has read the queue knows y.
Says(queue, x, y) ==
  \/ x = y /\ ~Has(queue, Marks)
  \/ \E i \in 1..Len(queue) :
       /\ queue[i].type \in Marks /\ queue[i].media = y
       /\ \A j \in 1..Len(queue) : i < j => queue[j].type \notin Marks

\* A page announces its state only in a call, and hears of another's only in a call or
\* after the answer that brings it into one.  x is the page's session, out and in are
\* its queues to and from the server, index is the room the server has it in.
Local(x, out, in, index) ==
  /\ x.role # "none" => /\ ~Has(out, Asks)
                        /\ ~Has(in, Answers)
                        /\ index \in {None, x.room}
  /\ x.role = "none" => /\ x.media = TRUE /\ x.remoteMedia = TRUE
                        /\ index # None => Has(in, Openings) /\ ~Has(out, Tracks)
                        /\ ~Has(in, Openings) => ~Has(in, Tracks)
  /\ Apart(in, Tracks, Openings)
  /\ Apart(in, Dismissals, Tracks)
  /\ Apart(out, Asks, Tracks)
  /\ index # None => \A i \in 1..Len(out) : out[i].type \in Tracks => out[i].room = index

Said(p) == toServer[SocketOf(p)]
Index(p) == socketIndex[SocketOf(p)]

LocalInv(p) == Local(session[p], Said(p), toPage[p], Index(p))

\* Who waits alone for a guest: the server will know its state, and it has heard nothing.
Alone(p, r) ==
  rooms[r] # None /\ rooms[r].host = SocketOf(p) /\ rooms[r].guest = None =>
    /\ Says(Said(p), rooms[r].media, session[p].media)
    /\ Says(toPage[p], session[p].remoteMedia, TRUE)

Together(p, q, r) == p # q /\ SocketOf(p) \in Participants(r) /\ SocketOf(q) \in Participants(r)

\* What q is going to show of p, once both queues are empty, is p's state.
Follows(q, p) ==
  \E x \in BOOLEAN : /\ Says(toPage[q], session[q].remoteMedia, x)
                     /\ Says(Said(p), x, session[p].media)

RoomTracks(r) ==
  /\ \A p \in Page : Alone(p, r)
  /\ \A p, q \in Page : Together(p, q, r) => Follows(q, p)

TrackInv ==
  /\ \A p \in Page : LocalInv(p)
  /\ \A r \in RoomId : RoomTracks(r)

LEMMA SaysTail ==
  ASSUME NEW S, NEW q \in Seq(S), q # <<>>, NEW x, NEW y, Says(q, x, y)
  PROVE  /\ Head(q).type \in Marks => Says(Tail(q), Head(q).media, y)
         /\ Head(q).type \notin Marks => Says(Tail(q), x, y)
<1>1. /\ Len(q) \in Nat /\ Len(q) > 0 /\ Len(Tail(q)) = Len(q) - 1
      /\ Head(q) = q[1]
      /\ \A i \in 1..Len(Tail(q)) : Tail(q)[i] = q[i + 1] /\ i + 1 \in 1..Len(q)
  OBVIOUS
<1>2. Has(q, Marks) <=> Head(q).type \in Marks \/ Has(Tail(q), Marks)
  BY HasTail
<1>3. CASE x = y /\ ~Has(q, Marks)
  BY <1>2, <1>3 DEF Says
<1>4. ASSUME NEW i \in 1..Len(q), q[i].type \in Marks, q[i].media = y,
             \A j \in 1..Len(q) : i < j => q[j].type \notin Marks
      PROVE  /\ Head(q).type \in Marks => Says(Tail(q), Head(q).media, y)
             /\ Head(q).type \notin Marks => Says(Tail(q), x, y)
  <2>1. CASE i = 1
    <3>1. \A j \in 1..Len(Tail(q)) : Tail(q)[j].type \notin Marks
      BY <1>1, <1>4, <2>1
    <3>2. ~Has(Tail(q), Marks)
      BY <3>1 DEF Has
    <3> QED BY <1>1, <1>4, <2>1, <3>2 DEF Says
  <2>2. CASE i # 1
    <3>1. /\ i - 1 \in 1..Len(Tail(q)) /\ Tail(q)[i - 1] = q[i]
          /\ \A j \in 1..Len(Tail(q)) : i - 1 < j => i < j + 1
      BY <1>1, <2>2
    <3>2. \A j \in 1..Len(Tail(q)) : i - 1 < j => Tail(q)[j].type \notin Marks
      BY <1>1, <1>4, <3>1
    <3> QED BY <1>4, <3>1, <3>2 DEF Says
  <2> QED BY <2>1, <2>2
<1> QED BY <1>3, <1>4 DEF Says

LEMMA SaysAppend ==
  ASSUME NEW S, NEW q \in Seq(S), NEW m, NEW x, NEW y
  PROVE  /\ m.type \in Marks => Says(Append(q, m), x, m.media)
         /\ m.type \notin Marks /\ Says(q, x, y) => Says(Append(q, m), x, y)
<1>1. /\ Len(q) \in Nat /\ Len(Append(q, m)) = Len(q) + 1
      /\ \A i \in 1..Len(q) : Append(q, m)[i] = q[i]
      /\ Append(q, m)[Len(q) + 1] = m
  OBVIOUS
<1>2. ASSUME m.type \in Marks
      PROVE  Says(Append(q, m), x, m.media)
  <2>1. /\ Len(q) + 1 \in 1..Len(Append(q, m))
        /\ \A j \in 1..Len(Append(q, m)) : ~(Len(q) + 1 < j)
    BY <1>1
  <2> QED BY <1>1, <1>2, <2>1 DEF Says
<1>3. ASSUME m.type \notin Marks, x = y, ~Has(q, Marks)
      PROVE  Says(Append(q, m), x, y)
  BY <1>3, HasAppend DEF Says
<1>4. ASSUME m.type \notin Marks, NEW i \in 1..Len(q), q[i].type \in Marks, q[i].media = y,
             \A j \in 1..Len(q) : i < j => q[j].type \notin Marks
      PROVE  Says(Append(q, m), x, y)
  <2>1. i \in 1..Len(Append(q, m)) /\ Append(q, m)[i] = q[i]
    BY <1>1
  <2>2. \A j \in 1..Len(Append(q, m)) : i < j => Append(q, m)[j].type \notin Marks
    BY <1>1, <1>4
  <2> QED BY <1>4, <2>1, <2>2 DEF Says
<1> QED BY <1>2, <1>3, <1>4 DEF Says

LEMMA SaysOnly ==
  ASSUME NEW q, ~Has(q, Marks), NEW x, NEW y
  PROVE  Says(q, x, y) <=> x = y
BY DEF Says, Has

\* A page says nothing of another's answers.
LEMMA SaidMarks ==
  ASSUME NEW out \in Seq(ToServer)
  PROVE  Has(out, Marks) <=> Has(out, Tracks)
<1>1. \A i \in 1..Len(out) : out[i] \in ToServer
  OBVIOUS
<1>2. \A m \in ToServer : m.type # "CALL_JOINED"
  BY DEF ToServer
<1> QED BY <1>1, <1>2 DEF Has, Marks, Tracks

\* What a handler takes from the page's queue, or a step adds to it.
LEMMA LocalTaken ==
  ASSUME NEW x, NEW out \in Seq(ToServer), out # <<>>, NEW in, NEW index,
         Local(x, out, in, index)
  PROVE  Local(x, Tail(out), in, index)
<1>1. \A T : Has(Tail(out), T) => Has(out, T)
  BY HasTail
<1>2. Apart(Tail(out), Asks, Tracks)
  BY ApartTail DEF Local
<1>3. \A i \in 1..Len(Tail(out)) : Tail(out)[i] = out[i + 1] /\ i + 1 \in 1..Len(out)
  OBVIOUS
<1>4. index # None =>
        \A i \in 1..Len(Tail(out)) : Tail(out)[i].type \in Tracks => Tail(out)[i].room = index
  BY <1>3 DEF Local
<1> QED BY <1>1, <1>2, <1>4 DEF Local

LEMMA LocalSent ==
  ASSUME NEW x, NEW out \in Seq(ToServer), NEW in, NEW index, Local(x, out, in, index),
         NEW m, m.type \in Asks => x.role = "none",
         m.type \in Tracks => /\ x.role # "none"
                              /\ index # None => m.room = index
  PROVE  Local(x, Append(out, m), in, index)
<1>1. \A T : Has(Append(out, m), T) <=> Has(out, T) \/ m.type \in T
  BY HasAppend
<1>2. m.type \in Tracks => ~Has(out, Asks)
  BY DEF Local
<1>3. Apart(Append(out, m), Asks, Tracks)
  BY <1>2, ApartAppend DEF Local
<1>4. /\ Len(Append(out, m)) = Len(out) + 1 /\ Append(out, m)[Len(out) + 1] = m
      /\ \A i \in 1..Len(out) : Append(out, m)[i] = out[i]
      /\ \A i \in 1..(Len(out) + 1) : i \in 1..Len(out) \/ i = Len(out) + 1
  OBVIOUS
<1>5. ASSUME index # None, NEW i \in 1..Len(Append(out, m)), Append(out, m)[i].type \in Tracks
      PROVE  Append(out, m)[i].room = index
  BY <1>4, <1>5 DEF Local
<1> QED BY <1>1, <1>3, <1>5 DEF Local

\* What a page hears, but for what brings it into a call.
LEMMA LocalTold ==
  ASSUME NEW x, NEW out, NEW in \in Seq(ToPage), NEW index, Local(x, out, in, index),
         NEW m, m.type \notin Openings, m.type = "JOIN_ERROR" => x.role = "none",
         m.type \in Tracks => index # None /\ ~Has(in, Dismissals)
  PROVE  Local(x, out, Append(in, m), index)
<1>1. \A T : Has(Append(in, m), T) <=> Has(in, T) \/ m.type \in T
  BY HasAppend
<1>2. Apart(Append(in, m), Tracks, Openings) /\ Apart(Append(in, m), Dismissals, Tracks)
  BY ApartAppend DEF Local
<1>3. x.role # "none" => m.type \notin Answers
  BY DEF Answers, Openings
<1> QED BY <1>1, <1>2, <1>3 DEF Local

LEMMA LocalUnseated ==
  ASSUME NEW x, NEW out, NEW in, NEW index, Local(x, out, in, index)
  PROVE  Local(x, out, in, None)
BY DEF Local

\* The answer that brings a page into a call finds it outside, with nothing on its way.
LEMMA LocalGranted ==
  ASSUME NEW x, NEW out \in Seq(ToServer), out # <<>>, NEW in \in Seq(ToPage),
         Local(x, out, in, None),
         Head(out).type \in Asks, ~Has(in, Answers \cup Dismissals),
         NEW m, m.type \in Openings
  PROVE  /\ Local(x, Tail(out), Append(in, m), m.room)
         /\ x.role = "none"
         /\ ~Has(Tail(out), Tracks) /\ ~Has(in, Tracks)
<1>1. x.role = "none"
  BY HasTail DEF Local
<1>2. ~Has(Tail(out), Tracks) /\ Apart(Tail(out), Asks, Tracks)
  BY ApartTail DEF Local
<1>3. ~Has(in, Openings) /\ ~Has(in, Dismissals)
  BY HasWider DEF Answers, Openings
<1>4. ~Has(in, Tracks)
  BY <1>1, <1>3 DEF Local
<1>5. m.type \notin Tracks
  BY DEF Openings, Tracks
<1>6. Apart(Append(in, m), Tracks, Openings) /\ Apart(Append(in, m), Dismissals, Tracks)
  BY <1>4, <1>5, ApartAppend DEF Local
<1>7. Has(Append(in, m), Openings)
  BY HasAppend
<1>8. \A i \in 1..Len(Tail(out)) : Tail(out)[i].type \notin Tracks
  BY <1>2 DEF Has
<1> QED BY <1>1, <1>2, <1>4, <1>6, <1>7, <1>8 DEF Local

\* The same call and, outside one, the same indicators.
Alike(y, x) ==
  /\ y.role = x.role /\ y.room = x.room
  /\ x.role = "none" => y.media = x.media /\ y.remoteMedia = x.remoteMedia

LEMMA LocalAlike ==
  ASSUME NEW x, NEW y, Alike(y, x), NEW out, NEW in, NEW index, Local(x, out, in, index)
  PROVE  Local(y, out, in, index)
BY DEF Local, Alike

\* What a page has read, but for answers and dismissals.
LEMMA LocalHeard ==
  ASSUME NEW x, NEW out, NEW in \in Seq(ToPage), in # <<>>, NEW index,
         Local(x, out, in, index), Head(in).type \in Neutral
  PROVE  /\ Local(x, out, Tail(in), index)
         /\ Head(in).type \in Tracks => x.role # "none"
<1>1. \A T : Has(in, T) <=> Head(in).type \in T \/ Has(Tail(in), T)
  BY HasTail
<1>2. Head(in).type \notin Openings /\ Head(in).type \notin Answers
  BY DEF Openings, Answers, Neutral
<1>3. /\ Apart(Tail(in), Tracks, Openings) /\ Apart(Tail(in), Dismissals, Tracks)
      /\ Head(in).type \in Tracks => ~Has(Tail(in), Openings)
  BY ApartTail DEF Local
<1>4. Head(in).type \in Tracks => x.role # "none"
  BY <1>1, <1>2, <1>3 DEF Local
<1> QED BY <1>1, <1>2, <1>3, <1>4 DEF Local

\* The end of a call, or of the wait for one: nothing else is on its way.
LEMMA LocalDismissed ==
  ASSUME NEW x, NEW out, NEW in \in Seq(ToPage), in # <<>>, NEW index,
         Local(x, out, in, index), Head(in).type \in Dismissals,
         NEW y, y.role = "none", y.media = TRUE, y.remoteMedia = TRUE
  PROVE  Local(y, out, Tail(in), None)
<1>1. /\ Apart(Tail(in), Tracks, Openings) /\ Apart(Tail(in), Dismissals, Tracks)
      /\ ~Has(Tail(in), Tracks)
  BY ApartTail DEF Local
<1> QED BY <1>1 DEF Local

\* The answer that brings a page into a call is read.
LEMMA LocalOpened ==
  ASSUME NEW x, NEW out, NEW in \in Seq(ToPage), in # <<>>, NEW index,
         Local(x, out, in, index), Head(in).type \in Openings,
         ~Has(out, Asks), ~Has(Tail(in), Answers), index \in {None, Head(in).room},
         NEW y, y.role # "none", y.room = Head(in).room
  PROVE  Local(y, out, Tail(in), index)
<1>1. Apart(Tail(in), Tracks, Openings) /\ Apart(Tail(in), Dismissals, Tracks)
  BY ApartTail DEF Local
<1> QED BY <1>1 DEF Local

LEMMA LocalAnew ==
  ASSUME NEW x, x.role = "none" => x.media = TRUE /\ x.remoteMedia = TRUE
  PROVE  Local(x, <<>>, <<>>, None)
BY HasNothing, ApartNothing DEF Local

-----------------------------------------------------------------------------
(* Whom a step leaves in a room with as much to hear and be heard as before. *)
Keeps(p) ==
  /\ SocketOf(p)' = SocketOf(p)
  /\ \A x \in BOOLEAN :
       Says(Said(p), x, session[p].media) =>
         Says(toServer'[SocketOf(p)], x, session'[p].media)
  /\ \A y \in BOOLEAN :
       Says(toPage[p], session[p].remoteMedia, y) =>
         Says(toPage'[p], session'[p].remoteMedia, y)

LEMMA KeptTracks ==
  ASSUME RoomsTypeOK, NEW r \in RoomId, RoomTracks(r), rooms'[r] \in {rooms[r], None},
         \A p \in Page : SocketOf(p)' \in Participants(r)' => Keeps(p),
         RoomsTypeOK'
  PROVE  RoomTracks(r)'
<1>1. ASSUME NEW p \in Page, rooms'[r] # None, rooms'[r].host = SocketOf(p)', rooms'[r].guest = None
      PROVE  /\ Says(Said(p)', rooms'[r].media, session'[p].media)
             /\ Says(toPage'[p], session'[p].remoteMedia, TRUE)
  <2>1. rooms'[r] = rooms[r] /\ rooms[r] # None /\ rooms[r].media \in BOOLEAN /\ rooms[r].host \in Socket
    BY <1>1, RoomType
  <2>2. SocketOf(p)' \in Participants(r)'
    BY <1>1, <2>1, SocketAssumption DEF Participants, SocketAssumption
  <2>3. Keeps(p)
    BY <2>2
  <2>4. Alone(p, r)
    BY DEF RoomTracks
  <2> QED BY <1>1, <2>1, <2>3, <2>4 DEF Alone, Keeps, Said
<1>2. ASSUME NEW p \in Page, NEW q \in Page, Together(p, q, r)'
      PROVE  Follows(q, p)'
  <2>1. rooms'[r] = rooms[r] /\ Participants(r)' = Participants(r)
    BY <1>2 DEF Together, Participants
  <2>2. Keeps(p) /\ Keeps(q)
    BY <1>2 DEF Together
  <2>3. Follows(q, p)
    BY <1>2, <2>1, <2>2 DEF Together, Keeps, RoomTracks
  <2>4. PICK x \in BOOLEAN : /\ Says(toPage[q], session[q].remoteMedia, x)
                             /\ Says(Said(p), x, session[p].media)
    BY <2>3 DEF Follows
  <2>5. /\ Says(toPage'[q], session'[q].remoteMedia, x)
        /\ Says(toServer'[SocketOf(p)'], x, session'[p].media)
    BY <2>2, <2>4 DEF Keeps
  <2> QED BY <2>5 DEF Follows, Said
<1>3. \A p \in Page : Alone(p, r)'
  BY <1>1 DEF Alone
<1> QED BY <1>2, <1>3 DEF RoomTracks

\* The room of a page, by the index and by the registry.
LEMMA IndexedPage ==
  ASSUME RoomsTypeOK, RegistryAgrees, NEW p \in Page, NEW r \in RoomId
  PROVE  SocketOf(p) \in Participants(r) <=> Index(p) = r
BY DEF RoomsTypeOK, RegistryAgrees, Index

LEMMA TracksKept ==
  ASSUME TypeInv, TrackInv, TypeInv', CallInv', \A p \in Page : LocalInv(p)',
         \A r \in RoomId :
           \/ RoomTracks(r)'
           \/ /\ rooms'[r] \in {rooms[r], None}
              /\ \A p \in Page : Index(p)' = r => Keeps(p)
  PROVE  TrackInv'
<1>1. RoomsTypeOK /\ RoomsTypeOK' /\ RegistryAgrees'
  BY DEF TypeInv, TypeOK, CallInv
<1>2. ASSUME NEW r \in RoomId, rooms'[r] \in {rooms[r], None},
             \A p \in Page : Index(p)' = r => Keeps(p)
      PROVE  RoomTracks(r)'
  <2>1. ASSUME NEW p \in Page, SocketOf(p)' \in Participants(r)'
        PROVE  Keeps(p)
    <3>1. socketIndex'[SocketOf(p)'] = r
      BY <1>1, <2>1 DEF RoomsTypeOK, RegistryAgrees
    <3> QED BY <1>2, <3>1 DEF Index
  <2> QED BY <1>1, <1>2, <2>1, KeptTracks DEF TrackInv
<1>3. \A r \in RoomId : RoomTracks(r)'
  BY <1>2
<1> QED BY <1>3 DEF TrackInv


-----------------------------------------------------------------------------
(* Steps of a page.                                                          *)
LEMMA PageMoved ==
  ASSUME TypeInv, TrackInv, TypeInv', CallInv', UNCHANGED roomVars, NEW p \in Page,
         \A q \in Page \ {p} : /\ connection'[q] = connection[q] /\ session'[q] = session[q]
                               /\ toPage'[q] = toPage[q],
         \A t \in Socket : t # SocketOf(p) => toServer'[t] = toServer[t],
         LocalInv(p)',
         Index(p)' = None \/ Keeps(p)
  PROVE  TrackInv'
<1>1. rooms' = rooms /\ socketIndex' = socketIndex
  BY DEF roomVars
<1>2. ASSUME NEW q \in Page, q # p
      PROVE  LocalInv(q)' /\ Keeps(q)
  <2>1. SocketOf(q)' = SocketOf(q) /\ SocketOf(q) \in Socket /\ SocketOf(q) # SocketOf(p)
    BY <1>2, OwnSocket, CurrentSocket DEF SocketOf, TypeInv, TypeOK
  <2>2. toServer'[SocketOf(q)] = toServer[SocketOf(q)]
    BY <2>1
  <2>3. Keeps(q)
    BY <1>2, <2>1, <2>2 DEF Keeps, Said
  <2>4. Local(session[q], toServer[SocketOf(q)], toPage[q], socketIndex[SocketOf(q)])
    BY DEF TrackInv, LocalInv, Said, Index
  <2>5. Local(session'[q], toServer'[SocketOf(q)'], toPage'[q], socketIndex'[SocketOf(q)'])
    BY <1>1, <1>2, <2>1, <2>2, <2>4
  <2> QED BY <2>3, <2>5 DEF LocalInv, Said, Index
<1>3. \A q \in Page : LocalInv(q)'
  BY <1>2
<1>4. ASSUME NEW r \in RoomId, NEW q \in Page, Index(q)' = r
      PROVE  Keeps(q)
  BY <1>2, <1>4, CallAssumption
<1> QED
  BY <1>1, <1>3, <1>4, TracksKept

\* Nothing that a page sends, hears or becomes is about who is muted.
LEMMA SteadyTracks ==
  ASSUME TypeInv, TrackInv, TypeInv', CallInv', UNCHANGED <<connection, roomVars>>, NEW p \in Page,
         \A q \in Page \ {p} : session'[q] = session[q],
         session'[p].role = session[p].role, session'[p].room = session[p].room,
         session'[p].media = session[p].media, session'[p].remoteMedia = session[p].remoteMedia,
         \/ UNCHANGED toServer
         \/ \E m \in ToServer : /\ m.type \notin Tracks /\ (m.type \in Asks => session[p].role = "none")
                                /\ Send(p, m),
         \/ UNCHANGED toPage
         \/ \E type \in Neutral \ Tracks : Receive(p, type)
  PROVE  TrackInv'
<1> DEFINE s == SocketOf(p)
<1>1. /\ SocketOf(p)' = s /\ s \in Socket /\ toServer[s] \in Seq(ToServer)
      /\ toPage[p] \in Seq(ToPage) /\ toServer \in [Socket -> Seq(ToServer)]
      /\ socketIndex' = socketIndex
  BY CurrentSocket DEF SocketOf, roomVars, TypeInv, TypeOK, RoomsTypeOK
<1>2. Local(session[p], toServer[s], toPage[p], socketIndex[s])
  BY DEF TrackInv, LocalInv, Said, Index
<1>3. Local(session'[p], toServer[s], toPage[p], socketIndex[s])
  BY <1>2, LocalAlike DEF Alike
<1>4. /\ Local(session'[p], toServer'[s], toPage[p], socketIndex[s])
      /\ \A x \in BOOLEAN : Says(toServer[s], x, session[p].media) =>
                              Says(toServer'[s], x, session'[p].media)
      /\ \A t \in Socket : t # s => toServer'[t] = toServer[t]
  <2>1. CASE UNCHANGED toServer
    BY <1>3, <2>1
  <2>2. ASSUME NEW m \in ToServer, m.type \notin Tracks, m.type \in Asks => session[p].role = "none",
               Send(p, m)
        PROVE  <1>4!1 /\ <1>4!2 /\ <1>4!3
    <3>1. toServer'[s] = Append(toServer[s], m) /\ \A t \in Socket : t # s => toServer'[t] = toServer[t]
      BY <1>1, <2>2 DEF Send
    <3>2. m.type \notin Marks
      BY <2>2 DEF Marks, Tracks, ToServer
    <3>3. Local(session'[p], Append(toServer[s], m), toPage[p], socketIndex[s])
      BY <1>1, <1>3, <2>2, LocalSent
    <3>4. \A x \in BOOLEAN : Says(toServer[s], x, session[p].media) =>
                               Says(Append(toServer[s], m), x, session[p].media)
      BY <1>1, <3>2, SaysAppend
    <3> QED BY <3>1, <3>3, <3>4
  <2> QED BY <2>1, <2>2
<1>5. /\ Local(session'[p], toServer'[s], toPage'[p], socketIndex[s])
      /\ \A y \in BOOLEAN : Says(toPage[p], session[p].remoteMedia, y) =>
                              Says(toPage'[p], session'[p].remoteMedia, y)
      /\ \A q \in Page \ {p} : toPage'[q] = toPage[q]
  <2>1. CASE UNCHANGED toPage
    BY <1>4, <2>1
  <2>2. ASSUME NEW type \in Neutral \ Tracks, Receive(p, type)
        PROVE  <1>5!1 /\ <1>5!2 /\ <1>5!3
    <3>1. /\ toPage[p] # <<>> /\ Head(toPage[p]).type = type /\ toPage'[p] = Tail(toPage[p])
          /\ \A q \in Page \ {p} : toPage'[q] = toPage[q]
      BY <2>2, Heard DEF TypeInv, TypeOK
    <3>2. type \notin Marks
      BY DEF Marks, Neutral, Tracks
    <3>3. Local(session'[p], toServer'[s], Tail(toPage[p]), socketIndex[s])
      BY <1>1, <1>4, <3>1, LocalHeard
    <3>4. \A y \in BOOLEAN : Says(toPage[p], session[p].remoteMedia, y) =>
                               Says(Tail(toPage[p]), session[p].remoteMedia, y)
      BY <1>1, <3>1, <3>2, SaysTail
    <3> QED BY <3>1, <3>3, <3>4
  <2> QED BY <2>1, <2>2
<1>6. LocalInv(p)'
  BY <1>1, <1>5 DEF LocalInv, Said, Index
<1>7. Keeps(p)
  BY <1>1, <1>4, <1>5 DEF Keeps, Said
<1>8. \A q \in Page \ {p} : connection'[q] = connection[q] /\ session'[q] = session[q] /\ toPage'[q] = toPage[q]
  BY <1>5
<1> QED
  BY <1>4, <1>6, <1>7, <1>8, PageMoved


LEMMA AskTracks ==
  ASSUME TypeInv, TrackInv, TypeInv', CallInv', NEW p \in Page, createCall(p) \/ joinCall(p) \/ mediaRefused(p)
  PROVE  TrackInv'
<1>1. SessionTypeOK /\ session[p] \in Session /\ UNCHANGED <<socketVars, roomVars>>
  BY SessionFields DEF TypeInv, TypeOK, createCall, joinCall, mediaRefused
<1>2. PICK x : /\ Become(p, x) /\ x.role = session[p].role /\ x.room = session[p].room
               /\ x.media = session[p].media /\ x.remoteMedia = session[p].remoteMedia
  <2>1. CASE createCall(p)
    <3> DEFINE x == [session[p] EXCEPT !.creating = TRUE, !.asking = @ \cup {Create}]
    <3>1. /\ x.role = session[p].role /\ x.room = session[p].room
          /\ x.media = session[p].media /\ x.remoteMedia = session[p].remoteMedia
      BY <1>1 DEF Session
    <3> QED BY <2>1, <3>1 DEF createCall
  <2>2. CASE joinCall(p)
    <3>1. PICK r \in RoomId :
            Become(p, [session[p] EXCEPT !.joining = TRUE, !.asking = @ \cup {Join(r)}])
      BY <2>2 DEF joinCall
    <3> DEFINE x == [session[p] EXCEPT !.joining = TRUE, !.asking = @ \cup {Join(r)}]
    <3>2. /\ x.role = session[p].role /\ x.room = session[p].room
          /\ x.media = session[p].media /\ x.remoteMedia = session[p].remoteMedia
      BY <1>1 DEF Session
    <3> QED BY <3>1, <3>2
  <2>3. CASE mediaRefused(p)
    <3>1. PICK a \in session[p].asking :
            Become(p, [session[p] EXCEPT !.asking = @ \ {a},
                         !.creating = @ /\ a # Create, !.joining = @ /\ a = Create])
      BY <2>3 DEF mediaRefused
    <3> DEFINE x == [session[p] EXCEPT !.asking = @ \ {a},
                       !.creating = @ /\ a # Create, !.joining = @ /\ a = Create]
    <3>2. /\ x.role = session[p].role /\ x.room = session[p].room
          /\ x.media = session[p].media /\ x.remoteMedia = session[p].remoteMedia
      BY <1>1 DEF Session
    <3> QED BY <3>1, <3>2
  <2> QED BY <2>1, <2>2, <2>3
<1>3. session'[p] = x /\ \A q \in Page \ {p} : session'[q] = session[q]
  BY <1>1, <1>2, BecomeOne
<1> QED
  BY <1>1, <1>2, <1>3, SteadyTracks DEF socketVars

\* Whoever waits for the camera is in no call, so its indicators are as at the start.
LEMMA mediaAcquiredTracks ==
  ASSUME TypeInv, CallInv, TrackInv, TypeInv', CallInv', NEW p \in Page, mediaAcquired(p)
  PROVE  TrackInv'
<1>1. PICK a \in session[p].asking :
        /\ Become(p, [session[p] EXCEPT !.asking = @ \ {a}, !.local = TRUE,
                                        !.cameras = @ + 1, !.media = TRUE])
        /\ Send(p, IF a = Create THEN [type |-> "CREATE_CALL"]
                                 ELSE [type |-> "JOIN_CALL", room |-> a.room])
  BY DEF mediaAcquired
<1> DEFINE x == [session[p] EXCEPT !.asking = @ \ {a}, !.local = TRUE,
                                   !.cameras = @ + 1, !.media = TRUE]
           m == IF a = Create THEN [type |-> "CREATE_CALL"]
                              ELSE [type |-> "JOIN_CALL", room |-> a.room]
<1>2. SessionTypeOK /\ session[p] \in Session /\ UNCHANGED <<connection, toPage, roomVars>>
  BY SessionFields DEF TypeInv, TypeOK, mediaAcquired
<1>3. session[p].role = "none"
  BY DEF CallInv, PageInv
<1>4. session[p].media = TRUE
  BY <1>3 DEF TrackInv, LocalInv, Local
<1>5. session'[p] = x /\ \A q \in Page \ {p} : session'[q] = session[q]
  BY <1>1, <1>2, BecomeOne
<1>6. /\ x.role = session[p].role /\ x.room = session[p].room
      /\ x.media = session[p].media /\ x.remoteMedia = session[p].remoteMedia
  BY <1>2, <1>4 DEF Session
<1>7. m \in ToServer /\ m.type \notin Tracks
  <2>1. a.room \in RoomId \cup {None}
    BY <1>2 DEF Session, Asking
  <2> QED BY <2>1, ToServerMessages DEF Tracks
<1>8. \E n \in ToServer : /\ n.type \notin Tracks /\ (n.type \in Asks => session[p].role = "none")
                          /\ Send(p, n)
  BY <1>1, <1>3, <1>7
<1> HIDE DEF x
<1> QED BY <1>2, <1>5, <1>6, <1>8, SteadyTracks

LEMMA IndicatorFields ==
  ASSUME NEW x \in Session, NEW v
  PROVE  /\ [x EXCEPT !.media = v].remoteMedia = x.remoteMedia
         /\ [x EXCEPT !.media = v].media = v
         /\ [x EXCEPT !.remoteMedia = v].media = x.media
         /\ [x EXCEPT !.remoteMedia = v].remoteMedia = v
         /\ [x EXCEPT !.signalling = v].media = x.media
         /\ [x EXCEPT !.signalling = v].remoteMedia = x.remoteMedia
         /\ \A s : /\ [x EXCEPT !.peer = s, !.signalling = v].media = x.media
                   /\ [x EXCEPT !.peer = s, !.signalling = v].remoteMedia = x.remoteMedia
BY DEF Session

LEMMA SignallingTracks ==
  ASSUME TypeInv, TrackInv, TypeInv', CallInv', NEW p \in Page,
         describe(p) \/ onPeerJoined(p) \/ onSdpOffer(p) \/ onSdpAnswer(p)
  PROVE  TrackInv'
<1>1. SessionTypeOK /\ session[p] \in Session
  BY SessionFields DEF TypeInv, TypeOK
<1>2. PICK x : /\ Become(p, x) /\ Same(x, session[p])
               /\ x.media = session[p].media /\ x.remoteMedia = session[p].remoteMedia
  <2>1. CASE describe(p) \/ onSdpAnswer(p)
    <3>1. PICK v : Become(p, [session[p] EXCEPT !.signalling = v])
      BY <2>1 DEF describe, onSdpAnswer
    <3>2. PICK x : x = [session[p] EXCEPT !.signalling = v]
      OBVIOUS
    <3>3. Same(x, session[p])
      BY <1>1, <3>2, SameFields
    <3>4. x.media = session[p].media /\ x.remoteMedia = session[p].remoteMedia
      BY <1>1, <3>2, IndicatorFields
    <3> QED BY <3>1, <3>2, <3>3, <3>4
  <2>2. CASE onPeerJoined(p) \/ onSdpOffer(p)
    <3>1. PICK s, v : Become(p, [session[p] EXCEPT !.peer = s, !.signalling = v])
      BY <2>2 DEF onPeerJoined, onSdpOffer, createPeerConnection
    <3>2. PICK x : x = [session[p] EXCEPT !.peer = s, !.signalling = v]
      OBVIOUS
    <3>3. Same(x, session[p])
      BY <1>1, <3>2, SameFields
    <3>4. x.media = session[p].media /\ x.remoteMedia = session[p].remoteMedia
      BY <1>1, <3>2, IndicatorFields
    <3> QED BY <3>1, <3>2, <3>3, <3>4
  <2> QED BY <2>1, <2>2
<1>3. session'[p] = x /\ \A q \in Page \ {p} : session'[q] = session[q]
  BY <1>1, <1>2, BecomeOne
<1>4. \/ UNCHANGED toServer
      \/ \E m \in ToServer : /\ m.type \notin Tracks /\ (m.type \in Asks => session[p].role = "none")
                             /\ Send(p, m)
  <2>1. CASE describe(p)
    <3>1. session[p].peer \in Socket
      BY <2>1, SessionFields DEF TypeInv, TypeOK, describe
    <3> QED BY <2>1, <3>1, ToServerMessages DEF describe, Tracks, Asks
  <2>2. CASE ~describe(p)
    BY <2>2 DEF onPeerJoined, onSdpOffer, onSdpAnswer
  <2> QED BY <2>1, <2>2
<1>5. \/ UNCHANGED toPage
      \/ \E type \in Neutral \ Tracks : Receive(p, type)
  BY DEF describe, onPeerJoined, onSdpOffer, onSdpAnswer, Neutral, Tracks
<1>6. UNCHANGED <<connection, roomVars>>
  BY DEF describe, onPeerJoined, onSdpOffer, onSdpAnswer, Receive
<1> QED BY <1>2, <1>3, <1>4, <1>5, <1>6, SteadyTracks DEF Same

\* Who toggles says so, wherever the message goes.
LEMMA toggleTracks ==
  ASSUME TypeInv, CallInv, TrackInv, TypeInv', CallInv', NEW p \in Page, toggle(p)
  PROVE  TrackInv'
<1> DEFINE s == SocketOf(p)
<1>1. /\ SocketOf(p)' = s /\ s \in Socket /\ toServer[s] \in Seq(ToServer)
      /\ toServer \in [Socket -> Seq(ToServer)]
      /\ socketIndex' = socketIndex /\ toPage' = toPage /\ connection' = connection
      /\ SessionTypeOK /\ session[p] \in Session /\ session[p].role # "none"
      /\ UNCHANGED roomVars
  BY CurrentSocket, SessionFields DEF SocketOf, roomVars, TypeInv, TypeOK, RoomsTypeOK, toggle
<1>2. PICK on : on = ~session[p].media
  OBVIOUS
<1>3. PICK m : m = [type |-> "TRACK_STATE", room |-> session[p].room, media |-> on]
  OBVIOUS
<1>4. m.type = "TRACK_STATE" /\ m.room = session[p].room /\ m.media = on
  BY <1>3
<1>5. /\ toServer'[s] = Append(toServer[s], m)
      /\ \A t \in Socket : t # s => toServer'[t] = toServer[t]
  <2>1. Send(p, m)
    BY <1>2, <1>3 DEF toggle
  <2> QED BY <1>1, <2>1 DEF Send
<1>6. PICK x : x = [session[p] EXCEPT !.media = on]
  OBVIOUS
<1>7. /\ x.role = session[p].role /\ x.room = session[p].room
      /\ x.media = on /\ x.remoteMedia = session[p].remoteMedia
  BY <1>1, <1>6 DEF Session
<1>8. session'[p] = x /\ \A q \in Page \ {p} : session'[q] = session[q]
  <2>1. Become(p, x)
    BY <1>2, <1>6 DEF toggle
  <2> QED BY <1>1, <2>1, BecomeOne
<1>9. Local(session[p], toServer[s], toPage[p], socketIndex[s])
  BY DEF TrackInv, LocalInv, Said, Index
<1>10. Local(x, toServer[s], toPage[p], socketIndex[s])
  BY <1>1, <1>7, <1>9, LocalAlike DEF Alike
<1>11. Local(x, Append(toServer[s], m), toPage[p], socketIndex[s])
  <2>1. m.type \notin Asks /\ x.role # "none"
    BY <1>1, <1>4, <1>7 DEF Asks
  <2>2. socketIndex[s] # None => m.room = socketIndex[s]
    BY <1>1, <1>4, <1>9 DEF Local
  <2> QED BY <1>1, <1>10, <2>1, <2>2, LocalSent
<1>12. LocalInv(p)'
  BY <1>1, <1>5, <1>8, <1>11 DEF LocalInv, Said, Index
<1>13. \A y : Says(toServer'[s], y, session'[p].media)
  BY <1>1, <1>4, <1>5, <1>7, <1>8, SaysAppend DEF Marks
<1>14. Keeps(p)
  BY <1>1, <1>7, <1>8, <1>13 DEF Keeps
<1> QED
  BY <1>1, <1>5, <1>8, <1>12, <1>14, PageMoved

\* The other's state is news only to a page in a call.
LEMMA onTrackStateTracks ==
  ASSUME TypeInv, TrackInv, TypeInv', CallInv', NEW p \in Page, onTrackState(p)
  PROVE  TrackInv'
<1> DEFINE s == SocketOf(p)
<1>1. PICK m : m = Head(toPage[p])
  OBVIOUS
<1>2. /\ SocketOf(p)' = s /\ s \in Socket /\ toPage[p] \in Seq(ToPage)
      /\ socketIndex' = socketIndex /\ toServer' = toServer /\ connection' = connection
      /\ SessionTypeOK /\ session[p] \in Session /\ UNCHANGED roomVars
  BY CurrentSocket, SessionFields
  DEF SocketOf, roomVars, TypeInv, TypeOK, RoomsTypeOK, onTrackState, Receive
<1>3. /\ toPage[p] # <<>> /\ m.type = "TRACK_STATE" /\ toPage'[p] = Tail(toPage[p])
      /\ \A q \in Page \ {p} : toPage'[q] = toPage[q]
  BY <1>1, Heard DEF TypeInv, TypeOK, onTrackState
<1>4. PICK x : x = [session[p] EXCEPT !.remoteMedia = m.media]
  OBVIOUS
<1>5. /\ x.role = session[p].role /\ x.room = session[p].room
      /\ x.media = session[p].media /\ x.remoteMedia = m.media
  BY <1>2, <1>4 DEF Session
<1>6. session'[p] = x /\ \A q \in Page \ {p} : session'[q] = session[q]
  <2>1. Become(p, x)
    BY <1>1, <1>4 DEF onTrackState
  <2> QED BY <1>2, <2>1, BecomeOne
<1>7. Local(session[p], toServer[s], toPage[p], socketIndex[s])
  BY DEF TrackInv, LocalInv, Said, Index
<1>8. /\ Local(session[p], toServer[s], Tail(toPage[p]), socketIndex[s])
      /\ session[p].role # "none"
  <2>1. Head(toPage[p]).type \in Neutral /\ Head(toPage[p]).type \in Tracks
    BY <1>1, <1>3 DEF Neutral, Tracks
  <2> QED BY <1>2, <1>3, <1>7, <2>1, LocalHeard
<1>9. Local(x, toServer[s], Tail(toPage[p]), socketIndex[s])
  BY <1>5, <1>8, LocalAlike DEF Alike
<1>10. LocalInv(p)'
  BY <1>2, <1>3, <1>6, <1>9 DEF LocalInv, Said, Index
<1>11. \A y \in BOOLEAN : Says(toPage[p], session[p].remoteMedia, y) =>
                            Says(Tail(toPage[p]), m.media, y)
  BY <1>1, <1>2, <1>3, SaysTail DEF Marks
<1>12. Keeps(p)
  BY <1>2, <1>3, <1>5, <1>6, <1>11 DEF Keeps, Said
<1> QED
  BY <1>2, <1>3, <1>6, <1>10, <1>12, PageMoved


\* A page that enters its call is unmuted, and so is known to the server.
LEMMA OpenedTracks ==
  ASSUME TypeInv, CallInv, TrackInv, TypeInv', CallInv', NEW p \in Page,
         onCallCreated(p) \/ onCallJoined(p)
  PROVE  TrackInv'
<1> DEFINE s == SocketOf(p)
<1>1. PICK m : m = Head(toPage[p])
  OBVIOUS
<1>2. PICK type \in {"CALL_CREATED", "CALL_JOINED"} : Receive(p, type)
  BY DEF onCallCreated, onCallJoined
<1>3. /\ SocketOf(p)' = s /\ s \in Socket /\ toPage[p] \in Seq(ToPage)
      /\ toServer[s] \in Seq(ToServer) /\ toServer \in [Socket -> Seq(ToServer)]
      /\ socketIndex' = socketIndex /\ connection' = connection
      /\ SessionTypeOK /\ session[p] \in Session /\ UNCHANGED roomVars
  BY <1>2, CurrentSocket, SessionFields
  DEF SocketOf, roomVars, TypeInv, TypeOK, RoomsTypeOK, Receive
<1>4. /\ toPage[p] # <<>> /\ m.type = type /\ m \in ToPage /\ toPage'[p] = Tail(toPage[p])
      /\ \A q \in Page \ {p} : toPage'[q] = toPage[q]
  <2>1. RoomsTypeOK
    BY DEF TypeInv, TypeOK
  <2>2. m \in ToPage /\ m.type = type
    BY <1>1, <1>2, <2>1, ReceiveType
  <2> QED BY <1>2, <2>1, <2>2, Heard
<1>5. /\ ~Has(toServer[s], Asks) /\ ~Has(Tail(toPage[p]), Answers)
      /\ socketIndex[s] \in {None, m.room}
  <2>1. QueueInv(p)
    BY DEF CallInv
  <2>2. /\ type \in Answers \cup Dismissals
        /\ Has(toPage[p], Answers \cup Dismissals)
        /\ ~Has(Tail(toPage[p]), Answers)
    <3>1. type \in Answers \cup Dismissals
      BY DEF Answers
    <3> QED BY <1>1, <1>3, <1>4, <2>1, <3>1, HasTail, ApartTail DEF QueueInv
  <2>3. Shown(p, m.room)
    <3>1. 1 \in 1..Len(toPage[p]) /\ m = toPage[p][1]
      BY <1>1, <1>3, <1>4
    <3> QED BY <1>2, <1>4, <2>1, <3>1 DEF QueueInv
  <2>4. Ending(p) => Has(toPage[p], Dismissals)
    BY EndingIsHas, HasWider DEF Dismissals
  <2> QED BY <1>4, <2>1, <2>2, <2>3, <2>4 DEF QueueInv, Shown
<1>6. Local(session[p], toServer[s], toPage[p], socketIndex[s])
  BY DEF TrackInv, LocalInv, Said, Index
<1>7. /\ session[p].role = "none"
      /\ \A y : y.role # "none" /\ y.room = m.room =>
                 Local(y, toServer[s], Tail(toPage[p]), socketIndex[s])
  <2>1. ASSUME NEW y, y.role # "none", y.room = m.room
        PROVE  Local(y, toServer[s], Tail(toPage[p]), socketIndex[s])
    <3>1. Head(toPage[p]).type \in Openings
      BY <1>1, <1>4 DEF Openings
    <3> QED BY <1>1, <1>3, <1>4, <1>5, <1>6, <2>1, <3>1, LocalOpened
  <2>2. session[p].role = "none"
    <3>1. Has(toPage[p], Answers)
      BY <1>1, <1>3, <1>4, HasTail DEF Answers
    <3> QED BY <1>6, <3>1 DEF Local
  <2> QED BY <2>1, <2>2
<1>8. session[p].media = TRUE
  BY <1>6, <1>7 DEF Local
<1>9. CASE onCallCreated(p)
  <2>1. PICK x : x = [session[p] EXCEPT !.role = "host", !.creating = FALSE, !.room = m.room]
    OBVIOUS
  <2>2. /\ x.role # "none" /\ x.room = m.room
        /\ x.media = session[p].media /\ x.remoteMedia = session[p].remoteMedia
    BY <1>3, <2>1 DEF Session
  <2>3. session'[p] = x /\ \A q \in Page \ {p} : session'[q] = session[q]
    <3>1. Become(p, x)
      BY <1>1, <1>9, <2>1 DEF onCallCreated
    <3> QED BY <1>3, <3>1, BecomeOne
  <2>4. Local(x, toServer[s], Tail(toPage[p]), socketIndex[s]) /\ toServer' = toServer
    BY <1>7, <1>9, <2>2 DEF onCallCreated
  <2>5. LocalInv(p)'
    BY <1>3, <1>4, <2>3, <2>4 DEF LocalInv, Said, Index
  <2>6. type = "CALL_CREATED"
    BY <1>2, <1>9 DEF onCallCreated, Receive
  <2>7. \A y \in BOOLEAN : Says(toPage[p], session[p].remoteMedia, y) =>
                             Says(Tail(toPage[p]), session[p].remoteMedia, y)
    BY <1>1, <1>3, <1>4, <2>6, SaysTail DEF Marks
  <2>8. Keeps(p)
    BY <1>3, <1>4, <2>2, <2>3, <2>4, <2>7 DEF Keeps, Said
  <2> QED BY <1>3, <1>4, <2>3, <2>4, <2>5, <2>8, PageMoved
<1>10. CASE onCallJoined(p)
  <2>1. PICK x : x = [session[p] EXCEPT !.role = "guest", !.joining = FALSE,
                                        !.room = m.room, !.remoteMedia = m.media]
    OBVIOUS
  <2>2. /\ x.role # "none" /\ x.room = m.room
        /\ x.media = session[p].media /\ x.remoteMedia = m.media
    BY <1>3, <2>1 DEF Session
  <2>3. session'[p] = x /\ \A q \in Page \ {p} : session'[q] = session[q]
    <3>1. Become(p, x)
      BY <1>1, <1>10, <2>1 DEF onCallJoined
    <3> QED BY <1>3, <3>1, BecomeOne
  <2>4. PICK n : n = [type |-> "TRACK_STATE", room |-> m.room, media |-> TRUE]
    OBVIOUS
  <2>5. n.type = "TRACK_STATE" /\ n.room = m.room /\ n.media = TRUE
    BY <2>4
  <2>6. /\ toServer'[s] = Append(toServer[s], n)
        /\ \A t \in Socket : t # s => toServer'[t] = toServer[t]
    <3>1. Send(p, n)
      BY <1>1, <1>10, <2>4 DEF onCallJoined
    <3> QED BY <1>3, <3>1 DEF Send
  <2>7. Local(x, toServer[s], Tail(toPage[p]), socketIndex[s])
    BY <1>7, <2>2
  <2>8. Local(x, Append(toServer[s], n), Tail(toPage[p]), socketIndex[s])
    <3>1. n.type \notin Asks /\ (socketIndex[s] # None => n.room = socketIndex[s])
      BY <1>5, <2>5 DEF Asks
    <3> QED BY <1>3, <2>2, <2>7, <3>1, LocalSent
  <2>9. LocalInv(p)'
    BY <1>3, <1>4, <2>3, <2>6, <2>8 DEF LocalInv, Said, Index
  <2>10. type = "CALL_JOINED"
    BY <1>2, <1>10 DEF onCallJoined, Receive
  <2>11. \A y \in BOOLEAN : Says(toPage[p], session[p].remoteMedia, y) =>
                              Says(Tail(toPage[p]), m.media, y)
    BY <1>1, <1>3, <1>4, <2>10, SaysTail DEF Marks
  <2>12. \A y : Says(Append(toServer[s], n), y, x.media)
    BY <1>3, <1>8, <2>2, <2>5, SaysAppend DEF Marks
  <2>13. Keeps(p)
    BY <1>3, <1>4, <2>2, <2>3, <2>6, <2>11, <2>12 DEF Keeps
  <2> QED BY <1>3, <1>4, <2>3, <2>6, <2>9, <2>13, PageMoved
<1> QED BY <1>9, <1>10

\* A page that is dismissed is in no room, and its indicators are as at the start.
LEMMA DismissedTracks ==
  ASSUME TypeInv, CallInv, TrackInv, TypeInv', CallInv', NEW p \in Page,
         onJoinError(p) \/ onCallEnded(p)
  PROVE  TrackInv'
<1> DEFINE s == SocketOf(p)
<1>1. PICK type \in Dismissals : /\ Receive(p, type)
                                 /\ onJoinError(p) => type = "JOIN_ERROR"
  BY DEF onJoinError, onCallEnded, Dismissals, Receive
<1>2. /\ SocketOf(p)' = s /\ s \in Socket /\ toPage[p] \in Seq(ToPage)
      /\ socketIndex' = socketIndex /\ connection' = connection
      /\ SessionTypeOK /\ session[p] \in Session /\ UNCHANGED roomVars
      /\ toServer' = toServer
  BY <1>1, CurrentSocket, SessionFields
  DEF SocketOf, roomVars, TypeInv, TypeOK, RoomsTypeOK, Receive, onJoinError, onCallEnded
<1>3. /\ toPage[p] # <<>> /\ Head(toPage[p]).type = type /\ toPage'[p] = Tail(toPage[p])
      /\ \A q \in Page \ {p} : toPage'[q] = toPage[q]
      /\ \A T : Has(toPage[p], T) <=> type \in T \/ Has(toPage'[p], T)
  BY <1>1, Heard DEF TypeInv, TypeOK
<1>4. socketIndex[s] = None
  <2>1. Has(toPage[p], Dismissals)
    BY <1>1, <1>3
  <2> QED BY <2>1 DEF CallInv, QueueInv
<1>5. Local(session[p], toServer[s], toPage[p], socketIndex[s])
  BY DEF TrackInv, LocalInv, Said, Index
<1>6. PICK x : /\ Become(p, x) /\ x.role = "none" /\ x.media = TRUE /\ x.remoteMedia = TRUE
  <2>1. CASE onCallEnded(p)
    <3>1. PICK x : x = Reset(session[p])
      OBVIOUS
    <3>2. x.role = "none" /\ x.media = TRUE /\ x.remoteMedia = TRUE
      BY <3>1 DEF Reset, Fresh
    <3> QED BY <2>1, <3>1, <3>2 DEF onCallEnded
  <2>2. CASE onJoinError(p)
    <3>1. session[p].role = "none"
      <4>1. Has(toPage[p], Answers)
        BY <1>1, <1>3, <2>2 DEF Answers
      <4> QED BY <1>5, <4>1 DEF Local
    <3>2. session[p].media = TRUE /\ session[p].remoteMedia = TRUE
      BY <1>5, <3>1 DEF Local
    <3>3. PICK x : x = [MediaStopped(session[p]) EXCEPT !.joining = FALSE]
      OBVIOUS
    <3>4. x.role = "none" /\ x.media = TRUE /\ x.remoteMedia = TRUE
      BY <1>2, <3>1, <3>2, <3>3 DEF MediaStopped, Session
    <3> QED BY <2>2, <3>3, <3>4 DEF onJoinError
  <2> QED BY <2>1, <2>2
<1>7. session'[p] = x /\ \A q \in Page \ {p} : session'[q] = session[q]
  BY <1>2, <1>6, BecomeOne
<1>8. Local(x, toServer[s], Tail(toPage[p]), None)
  BY <1>1, <1>2, <1>3, <1>5, <1>6, LocalDismissed
<1>9. LocalInv(p)'
  BY <1>2, <1>3, <1>4, <1>7, <1>8 DEF LocalInv, Said, Index
<1>10. Index(p)' = None
  BY <1>2, <1>4 DEF Index
<1> QED BY <1>2, <1>3, <1>7, <1>9, <1>10, PageMoved

\* A page that connects anew is in no room, and nothing is on its way.
LEMMA AnewTracks ==
  ASSUME TypeInv, CallInv, TrackInv, TypeInv', CallInv', UNCHANGED roomVars, NEW p \in Page,
         connection' = [connection EXCEPT ![p] = @ + 1],
         NEW queue, toServer' = [toServer EXCEPT ![SocketOf(p)] = queue],
         toPage' = [toPage EXCEPT ![p] = <<>>],
         \A q \in Page \ {p} : session'[q] = session[q],
         session'[p].role = "none" => session'[p].media = TRUE /\ session'[p].remoteMedia = TRUE
  PROVE  TrackInv'
<1>1. /\ connection \in [Page -> Nat] /\ toServer \in [Socket -> Seq(ToServer)]
      /\ toPage \in [Page -> Seq(ToPage)] /\ socketIndex' = socketIndex
  BY DEF TypeInv, TypeOK, RoomsTypeOK, roomVars
<1>2. PICK t \in Socket : t = SocketOf(p)'
  BY DEF TypeInv, TypeOK, RoomsTypeOK
<1>3. t[1] = p /\ t[2] = connection[p] + 1 /\ t # SocketOf(p)
  BY <1>1, <1>2 DEF SocketOf
<1>4. toServer[t] = <<>> /\ socketIndex[t] = None
  BY <1>1, <1>3 DEF CallInv, SocketInv
<1>5. /\ toServer'[t] = <<>> /\ toPage'[p] = <<>>
      /\ \A u \in Socket : u # SocketOf(p) => toServer'[u] = toServer[u]
      /\ \A q \in Page \ {p} : connection'[q] = connection[q] /\ toPage'[q] = toPage[q]
  BY <1>1, <1>3, <1>4
<1>6. Local(session'[p], <<>>, <<>>, None)
  BY LocalAnew
<1>7. LocalInv(p)'
  BY <1>1, <1>2, <1>4, <1>5, <1>6 DEF LocalInv, Said, Index
<1>8. Index(p)' = None
  BY <1>1, <1>2, <1>4 DEF Index
<1> QED BY <1>5, <1>7, <1>8, PageMoved

LEMMA ReconnectTracks ==
  ASSUME TypeInv, CallInv, TrackInv, TypeInv', CallInv', NEW p \in Page,
         leaveCall(p) \/ pageLeft(p) \/ connectionLost(p)
  PROVE  TrackInv'
<1>1. /\ UNCHANGED roomVars /\ connection' = [connection EXCEPT ![p] = @ + 1]
      /\ toPage' = [toPage EXCEPT ![p] = <<>>]
      /\ \E queue : toServer' = [toServer EXCEPT ![SocketOf(p)] = queue]
  BY DEF leaveCall, pageLeft, connectionLost, Reconnect
<1>2. SessionTypeOK
  BY DEF TypeInv, TypeOK
<1>3. \A q \in Page \ {p} : session'[q] = session[q]
  BY <1>2, BecomeOne DEF leaveCall, pageLeft, connectionLost
<1>4. session'[p].role = "none" => session'[p].media = TRUE /\ session'[p].remoteMedia = TRUE
  <2>1. CASE leaveCall(p) \/ pageLeft(p)
    <3>1. session'[p] = Reset(session[p]) \/ session'[p] = Fresh
      BY <1>2, <2>1, BecomeOne DEF leaveCall, pageLeft
    <3>2. CASE session'[p] = Reset(session[p])
      BY <3>2 DEF Reset, Fresh
    <3>3. CASE session'[p] = Fresh
      BY <3>3 DEF Fresh
    <3> QED BY <3>1, <3>2, <3>3
  <2>2. CASE connectionLost(p)
    <3>1. session' = session
      BY <2>2 DEF connectionLost
    <3> QED BY <3>1 DEF TrackInv, LocalInv, Local
  <2> QED BY <2>1, <2>2
<1> QED BY <1>1, <1>3, <1>4, AnewTracks


-----------------------------------------------------------------------------
(* Steps of the server.                                                      *)
LEMMA ServedPage ==
  ASSUME TypeInv, TrackInv, UNCHANGED <<sessionVars, connection>>, NEW p \in Page,
         \/ toServer'[SocketOf(p)] = toServer[SocketOf(p)]
         \/ /\ toServer[SocketOf(p)] # <<>> /\ Head(toServer[SocketOf(p)]).type \notin Tracks
            /\ toServer'[SocketOf(p)] = Tail(toServer[SocketOf(p)]),
         \/ toPage'[p] = toPage[p]
         \/ \E m : /\ m.type \notin Openings /\ m.type \notin Tracks
                   /\ m.type = "JOIN_ERROR" => session[p].role = "none"
                   /\ toPage'[p] = Append(toPage[p], m),
         socketIndex'[SocketOf(p)] \in {socketIndex[SocketOf(p)], None}
  PROVE  LocalInv(p)' /\ Keeps(p)
<1>1. PICK s \in Socket : s = SocketOf(p)
  BY CurrentSocket DEF TypeInv, TypeOK
<1>2. /\ SocketOf(p)' = s /\ session' = session
      /\ toServer[s] \in Seq(ToServer) /\ toPage[p] \in Seq(ToPage)
  BY <1>1 DEF SocketOf, sessionVars, TypeInv, TypeOK, RoomsTypeOK
<1>3. Local(session[p], toServer[s], toPage[p], socketIndex[s])
  BY <1>1 DEF TrackInv, LocalInv, Said, Index
<1>4. /\ Local(session[p], toServer'[s], toPage[p], socketIndex[s])
      /\ \A x \in BOOLEAN : Says(toServer[s], x, session[p].media) =>
                              Says(toServer'[s], x, session[p].media)
  <2>1. CASE toServer'[s] = toServer[s]
    BY <1>3, <2>1
  <2>2. CASE /\ toServer[s] # <<>> /\ Head(toServer[s]).type \notin Tracks
             /\ toServer'[s] = Tail(toServer[s])
    <3>1. Head(toServer[s]).type \notin Marks
      <4>1. Head(toServer[s]) \in ToServer
        BY <1>2, <2>2, HeadTail
      <4> QED BY <2>2, <4>1 DEF ToServer, Marks, Tracks
    <3>2. Local(session[p], Tail(toServer[s]), toPage[p], socketIndex[s])
      BY <1>2, <1>3, <2>2, LocalTaken
    <3>3. \A x \in BOOLEAN : Says(toServer[s], x, session[p].media) =>
                               Says(Tail(toServer[s]), x, session[p].media)
      BY <1>2, <2>2, <3>1, SaysTail
    <3> QED BY <2>2, <3>2, <3>3
  <2> QED BY <1>1, <2>1, <2>2
<1>5. /\ Local(session[p], toServer'[s], toPage'[p], socketIndex[s])
      /\ \A y \in BOOLEAN : Says(toPage[p], session[p].remoteMedia, y) =>
                              Says(toPage'[p], session[p].remoteMedia, y)
  <2>1. CASE toPage'[p] = toPage[p]
    BY <1>4, <2>1
  <2>2. ASSUME NEW m, m.type \notin Openings, m.type \notin Tracks,
               m.type = "JOIN_ERROR" => session[p].role = "none",
               toPage'[p] = Append(toPage[p], m)
        PROVE  <1>5!1 /\ <1>5!2
    <3>1. m.type \notin Marks
      BY <2>2 DEF Openings, Tracks, Marks
    <3>2. Local(session[p], toServer'[s], Append(toPage[p], m), socketIndex[s])
      BY <1>2, <1>4, <2>2, LocalTold
    <3>3. \A y \in BOOLEAN : Says(toPage[p], session[p].remoteMedia, y) =>
                               Says(Append(toPage[p], m), session[p].remoteMedia, y)
      BY <1>2, <3>1, SaysAppend
    <3> QED BY <2>2, <3>2, <3>3
  <2> QED BY <2>1, <2>2
<1>6. Local(session[p], toServer'[s], toPage'[p], socketIndex'[s])
  BY <1>1, <1>5, LocalUnseated
<1>7. LocalInv(p)'
  BY <1>2, <1>6 DEF LocalInv, Said, Index
<1>8. Keeps(p)
  BY <1>1, <1>2, <1>4, <1>5 DEF Keeps, Said
<1> QED BY <1>7, <1>8

\* A handler that is not about who is muted and brings nobody into a call.
LEMMA ServedTracks ==
  ASSUME TypeInv, TrackInv, TypeInv', CallInv', UNCHANGED sessionVars,
         NEW s \in Socket, NEW type, type \notin Tracks, Request(s, type),
         \A p \in Page :
           \/ toPage'[p] = toPage[p]
           \/ \E m : /\ m.type \notin Openings /\ m.type \notin Tracks
                     /\ m.type = "JOIN_ERROR" => session[p].role = "none"
                     /\ toPage'[p] = Append(toPage[p], m),
         \A t \in Socket : socketIndex'[t] \in {socketIndex[t], None},
         \A r \in RoomId : rooms'[r] \in {rooms[r], None}
  PROVE  TrackInv'
<1>1. ASSUME NEW p \in Page
      PROVE  LocalInv(p)' /\ Keeps(p)
  <2>1. PICK t \in Socket : t = SocketOf(p)
    BY CurrentSocket DEF TypeInv, TypeOK
  <2>2. \/ toServer'[t] = toServer[t]
        \/ /\ toServer[t] # <<>> /\ Head(toServer[t]).type \notin Tracks
           /\ toServer'[t] = Tail(toServer[t])
    BY Taken DEF TypeInv, TypeOK
  <2>3. UNCHANGED <<sessionVars, connection>>
    BY DEF Request
  <2> QED BY <2>1, <2>2, <2>3, ServedPage
<1> QED BY <1>1, TracksKept

LEMMA EmitTold ==
  ASSUME RoomsTypeOK, NEW t, NEW m \in ToPage, Emit(Only(t, m)),
         m.type \notin Openings, m.type \notin Tracks,
         NEW p \in Page, m.type = "JOIN_ERROR" /\ SocketOf(p) = t => session[p].role = "none"
  PROVE  \/ toPage'[p] = toPage[p]
         \/ \E n : /\ n.type \notin Openings /\ n.type \notin Tracks
                   /\ n.type = "JOIN_ERROR" => session[p].role = "none"
                   /\ toPage'[p] = Append(toPage[p], n)
BY EmitOnly

LEMMA joinRefusedTracks ==
  ASSUME TypeInv, TrackInv, TypeInv', CallInv', UNCHANGED sessionVars, NEW s \in Socket, joinRefused(s)
  PROVE  TrackInv'
<1>1. RoomsTypeOK /\ Request(s, "JOIN_CALL") /\ UNCHANGED roomVars
  BY DEF TypeInv, TypeOK, joinRefused
<1>2. PICK m \in ToPage : m.type = "JOIN_ERROR" /\ Emit(Only(s, m))
  BY ToPageMessages DEF joinRefused
<1>3. ASSUME NEW p \in Page, SocketOf(p) = s
      PROVE  session[p].role = "none"
  <2>1. toServer[s] \in Seq(ToServer) /\ toServer[s] # <<>> /\ Head(toServer[s]).type \in Asks
    BY <1>1, Taken DEF Asks
  <2>2. Has(toServer[s], Asks)
    BY <2>1, HasTail
  <2>3. LocalInv(p)
    BY DEF TrackInv
  <2> QED BY <1>3, <2>2, <2>3 DEF LocalInv, Local, Said
<1>4. ASSUME NEW p \in Page
      PROVE  \/ toPage'[p] = toPage[p]
             \/ \E n : /\ n.type \notin Openings /\ n.type \notin Tracks
                       /\ n.type = "JOIN_ERROR" => session[p].role = "none"
                       /\ toPage'[p] = Append(toPage[p], n)
  BY <1>1, <1>2, <1>3, EmitTold DEF Openings, Tracks
<1>5. "JOIN_CALL" \notin Tracks
  BY DEF Tracks
<1> QED BY <1>1, <1>4, <1>5, ServedTracks DEF roomVars

LEMMA handleSdpTracks ==
  ASSUME TypeInv, TrackInv, TypeInv', CallInv', UNCHANGED sessionVars, NEW s \in Socket, handleSdp(s)
  PROVE  TrackInv'
<1>1. PICK type \in {"SDP_OFFER", "SDP_ANSWER"} :
        /\ Request(s, type)
        /\ Emit(Only(Head(toServer[s]).target, [type |-> type, sender |-> s]))
  BY DEF handleSdp
<1>2. PICK m \in ToPage : m.type = type /\ Emit(Only(Head(toServer[s]).target, m))
  BY <1>1, ToPageMessages
<1>3. ASSUME NEW p \in Page
      PROVE  \/ toPage'[p] = toPage[p]
             \/ \E n : /\ n.type \notin Openings /\ n.type \notin Tracks
                       /\ n.type = "JOIN_ERROR" => session[p].role = "none"
                       /\ toPage'[p] = Append(toPage[p], n)
  BY <1>2, EmitTold DEF Openings, Tracks, TypeInv, TypeOK
<1>4. type \notin Tracks /\ UNCHANGED roomVars
  BY DEF Tracks, handleSdp
<1> QED BY <1>1, <1>3, <1>4, ServedTracks DEF roomVars

LEMMA ClosedTracks ==
  ASSUME TypeInv, CallInv, TrackInv, TypeInv', CallInv', UNCHANGED sessionVars,
         NEW s \in Socket, NEW type \in Leaves,
         Request(s, type), findRoomBySocket(s) # None, closeRoom(findRoomBySocket(s), s)
  PROVE  TrackInv'
<1>1. PICK r \in RoomId : r = findRoomBySocket(s)
  BY FoundRoom DEF TypeInv, TypeOK
<1>2. PICK m \in ToPage : m.type = "CALL_ENDED" /\ Emit(Only(OtherPeer(r, s), m))
  BY <1>1, ToPageMessages DEF closeRoom
<1>3. ASSUME NEW p \in Page
      PROVE  \/ toPage'[p] = toPage[p]
             \/ \E n : /\ n.type \notin Openings /\ n.type \notin Tracks
                       /\ n.type = "JOIN_ERROR" => session[p].role = "none"
                       /\ toPage'[p] = Append(toPage[p], n)
  BY <1>2, EmitTold DEF Openings, Tracks, TypeInv, TypeOK
<1>4. removeRoom(r)
  BY <1>1 DEF closeRoom
<1>5. \A t \in Socket : socketIndex'[t] \in {socketIndex[t], None}
  BY <1>4, ClosedRegistry DEF TypeInv, TypeOK, CallInv
<1>6. \A q \in RoomId : rooms'[q] \in {rooms[q], None}
  BY <1>4 DEF removeRoom, TypeInv, TypeOK, RoomsTypeOK
<1>7. type \notin Tracks
  BY DEF Tracks, Leaves
<1> QED BY <1>3, <1>5, <1>6, <1>7, ServedTracks

LEMMA LeaveTracks ==
  ASSUME TypeInv, CallInv, TrackInv, TypeInv', CallInv', UNCHANGED sessionVars, NEW s \in Socket,
         handleLeaveCall(s) \/ handleDisconnect(s)
  PROVE  TrackInv'
<1>1. PICK type \in Leaves : Request(s, type)
  BY DEF handleLeaveCall, handleDisconnect, Leaves
<1>2. CASE findRoomBySocket(s) # None /\ closeRoom(findRoomBySocket(s), s)
  BY <1>1, <1>2, ClosedTracks
<1>3. CASE UNCHANGED <<toPage, roomVars>>
  <2>1. type \notin Tracks
    BY DEF Tracks, Leaves
  <2> QED BY <1>1, <1>3, <2>1, ServedTracks DEF roomVars
<1> QED BY <1>2, <1>3 DEF handleLeaveCall, handleDisconnect, IsMine

LEMMA ExpiryTracks ==
  ASSUME TypeInv, CallInv, TrackInv, TypeInv', CallInv', NEW r \in RoomId, Expiry(r)
  PROVE  TrackInv'
<1>1. PICK m \in ToPage : m = [type |-> "CALL_ENDED"]
  BY ToPageMessages
<1>2. /\ UNCHANGED <<sessionVars, connection>> /\ toServer' = toServer /\ removeRoom(r)
      /\ onRoomExpired(r)
  BY DEF Expiry, expire
<1>3. ASSUME NEW p \in Page
      PROVE  \/ toPage'[p] = toPage[p]
             \/ \E n : /\ n.type \notin Openings /\ n.type \notin Tracks
                       /\ n.type = "JOIN_ERROR" => session[p].role = "none"
                       /\ toPage'[p] = Append(toPage[p], n)
  <2>1. SocketOf(p) \in Socket /\ toPage[p] \in Seq(ToPage)
    BY CurrentSocket DEF TypeInv, TypeOK, RoomsTypeOK
  <2>2. toPage'[p] = toPage[p] \o (IF SocketOf(p) \in Participants(r) THEN <<m>> ELSE <<>>)
    BY <1>1, <1>2, <2>1 DEF onRoomExpired, Emit
  <2>3. toPage'[p] = toPage[p] \/ toPage'[p] = Append(toPage[p], m)
    BY <2>1, <2>2, OneToAppend
  <2>4. m.type = "CALL_ENDED"
    BY <1>1
  <2> QED BY <2>3, <2>4 DEF Openings, Tracks
<1>4. \A t \in Socket : socketIndex'[t] \in {socketIndex[t], None}
  BY <1>2, ClosedRegistry DEF TypeInv, TypeOK, CallInv
<1>5. \A q \in RoomId : rooms'[q] \in {rooms[q], None}
  BY <1>2 DEF removeRoom, TypeInv, TypeOK, RoomsTypeOK
<1>6. ASSUME NEW p \in Page
      PROVE  LocalInv(p)' /\ Keeps(p)
  <2>1. SocketOf(p) \in Socket
    BY CurrentSocket DEF TypeInv, TypeOK
  <2> QED BY <1>2, <1>3, <1>4, <2>1, ServedPage
<1> QED BY <1>5, <1>6, TracksKept


\* The page of a socket whose request for a room is granted has heard nothing and said
\* nothing, and shows what a page shows at the start.
LEMMA GrantedLocal ==
  ASSUME TypeInv, CallInv, TrackInv, UNCHANGED sessionVars,
         NEW s \in Socket, NEW type \in Asks, Request(s, type), NEW p \in Page, SocketOf(p) = s,
         NEW m, m.type \in Openings, toPage'[p] = Append(toPage[p], m), socketIndex'[s] = m.room
  PROVE  /\ LocalInv(p)'
         /\ session[p].media = TRUE /\ session[p].remoteMedia = TRUE
         /\ ~Has(toServer'[s], Marks) /\ ~Has(toPage[p], Marks)
<1>1. /\ toServer[s] \in Seq(ToServer) /\ toServer[s] # <<>>
      /\ Head(toServer[s]).type \in Asks /\ toServer'[s] = Tail(toServer[s])
      /\ toPage[p] \in Seq(ToPage) /\ SocketOf(p)' = s /\ session' = session
  BY Taken DEF TypeInv, TypeOK, RoomsTypeOK, SocketOf, sessionVars, Request
<1>2. Has(toServer[s], Asks)
  BY <1>1, HasTail
<1>3. socketIndex[s] = None
  BY <1>2 DEF CallInv, SocketInv
<1>4. ~Has(toPage[p], Answers \cup Dismissals)
  BY <1>2 DEF CallInv, QueueInv
<1>5. Local(session[p], toServer[s], toPage[p], None)
  BY <1>3 DEF TrackInv, LocalInv, Said, Index
<1>6. /\ Local(session[p], Tail(toServer[s]), Append(toPage[p], m), m.room)
      /\ session[p].role = "none"
      /\ ~Has(Tail(toServer[s]), Tracks) /\ ~Has(toPage[p], Tracks)
  BY <1>1, <1>4, <1>5, LocalGranted
<1>7. LocalInv(p)'
  BY <1>1, <1>6 DEF LocalInv, Said, Index
<1>8. session[p].media = TRUE /\ session[p].remoteMedia = TRUE
  BY <1>5, <1>6 DEF Local
<1>9. ~Has(toServer'[s], Marks)
  <2>1. Tail(toServer[s]) \in Seq(ToServer)
    BY <1>1, HeadTail
  <2> QED BY <1>1, <1>6, <2>1, SaidMarks
<1>10. ~Has(toPage[p], Marks)
  BY <1>4, <1>6 DEF Has, Marks, Tracks, Answers
<1> QED BY <1>7, <1>8, <1>9, <1>10

\* A page that no request of its own is served for.
LEMMA OthersKept ==
  ASSUME TypeInv, TrackInv, UNCHANGED sessionVars, NEW s \in Socket, NEW type, Request(s, type),
         NEW p \in Page, SocketOf(p) # s,
         socketIndex'[SocketOf(p)] = socketIndex[SocketOf(p)],
         \/ toPage'[p] = toPage[p]
         \/ \E m : /\ m.type \notin Openings /\ m.type \notin Tracks /\ m.type # "JOIN_ERROR"
                   /\ toPage'[p] = Append(toPage[p], m)
  PROVE  LocalInv(p)' /\ Keeps(p)
<1>1. toServer'[SocketOf(p)] = toServer[SocketOf(p)] /\ UNCHANGED <<sessionVars, connection>>
  BY Taken, CurrentSocket DEF TypeInv, TypeOK, Request
<1> QED BY <1>1, ServedPage

LEMMA handleCreateCallTracks ==
  ASSUME TypeInv, CallInv, TrackInv, TypeInv', CallInv', UNCHANGED sessionVars,
         NEW s \in Socket, handleCreateCall(s)
  PROVE  TrackInv'
<1>1. PICK r \in RoomId : createRoom(r, s) /\ Emit(Only(s, [type |-> "CALL_CREATED", room |-> r]))
  BY DEF handleCreateCall
<1>2. PICK m \in ToPage : /\ m.type = "CALL_CREATED" /\ m.room = r /\ Emit(Only(s, m))
  BY <1>1, ToPageMessages
<1>3. /\ Request(s, "CREATE_CALL") /\ "CREATE_CALL" \in Asks
      /\ RoomsTypeOK /\ RegistryAgrees
      /\ connection' = connection /\ session' = session
      /\ m.type \in Openings /\ m.type \notin Marks
  BY <1>2 DEF handleCreateCall, Asks, TypeInv, TypeOK, CallInv, Request, sessionVars, Openings, Marks
<1>4. socketIndex[s] = None
  BY <1>3, SeatedSocket DEF CallInv
<1>5. /\ \A t \in Socket \ {s} : socketIndex'[t] = socketIndex[t]
      /\ socketIndex'[s] = r
  BY <1>1, <1>3, <1>4, SeatedRegistry
<1>6. /\ rooms'[r].host = s /\ rooms'[r].guest = None /\ rooms'[r].media = TRUE
      /\ rooms'[r] # None
      /\ \A q \in RoomId \ {r} : rooms'[q] = rooms[q]
  <2>1. [host |-> s, guest |-> None, media |-> TRUE] \in Room
    BY DEF Room
  <2> QED BY <1>1, <1>3, <2>1, RoomIsSomething DEF createRoom, RoomsTypeOK
<1>7. ASSUME NEW p \in Page, SocketOf(p) # s
      PROVE  LocalInv(p)' /\ Keeps(p)
  <2>1. SocketOf(p) \in Socket /\ toPage'[p] = toPage[p]
    BY <1>2, <1>3, <1>7, EmitOnly, CurrentSocket
  <2>2. socketIndex'[SocketOf(p)] = socketIndex[SocketOf(p)]
    BY <1>5, <1>7, <2>1
  <2> QED BY <1>3, <1>7, <2>1, <2>2, OthersKept
<1>8. ASSUME NEW p \in Page, SocketOf(p) = s
      PROVE  /\ LocalInv(p)'
             /\ Says(toServer'[s], TRUE, session[p].media)
             /\ Says(toPage'[p], session[p].remoteMedia, TRUE)
  <2>1. toPage'[p] = Append(toPage[p], m) /\ toPage[p] \in Seq(ToPage)
    BY <1>2, <1>3, <1>8, EmitOnly DEF RoomsTypeOK
  <2>2. /\ LocalInv(p)'
        /\ session[p].media = TRUE /\ session[p].remoteMedia = TRUE
        /\ ~Has(toServer'[s], Marks) /\ ~Has(toPage[p], Marks)
    BY <1>2, <1>3, <1>5, <1>8, <2>1, GrantedLocal
  <2>3. Says(toServer'[s], TRUE, session[p].media)
    BY <2>2, SaysOnly
  <2>4. ~Has(toPage'[p], Marks)
    BY <1>3, <2>1, <2>2, HasAppend
  <2>5. Says(toPage'[p], session[p].remoteMedia, TRUE)
    BY <2>2, <2>4, SaysOnly
  <2> QED BY <2>2, <2>3, <2>5
<1>9. \A p \in Page : LocalInv(p)' /\ SocketOf(p)' = SocketOf(p)
  BY <1>3, <1>7, <1>8 DEF SocketOf
<1>10. RoomTracks(r)'
  <2>1. ASSUME NEW p \in Page, SocketOf(p)' = s
        PROVE  /\ Says(Said(p)', rooms'[r].media, session'[p].media)
               /\ Says(toPage'[p], session'[p].remoteMedia, TRUE)
    BY <1>3, <1>6, <1>8, <1>9, <2>1 DEF Said
  <2>2. \A p \in Page : Alone(p, r)'
    BY <1>6, <2>1 DEF Alone
  <2>3. ASSUME NEW p \in Page, NEW q \in Page, Together(p, q, r)'
        PROVE  FALSE
    <3>1. SocketOf(p)' = s /\ SocketOf(q)' = s
      BY <1>6, <2>3 DEF Together, Participants
    <3> QED BY <1>9, <2>3, <3>1, OwnSocket DEF Together
  <2> QED BY <2>2, <2>3 DEF RoomTracks
<1>11. ASSUME NEW q \in RoomId, q # r, NEW p \in Page, Index(p)' = q
       PROVE  Keeps(p)
  <2>1. SocketOf(p) # s
    BY <1>5, <1>9, <1>11 DEF Index
  <2> QED BY <1>7, <2>1
<1> QED BY <1>6, <1>9, <1>10, <1>11, TracksKept

\* The guest shows what the server kept of the host's state, and the host what it shows
\* of a guest that has said nothing.
LEMMA handleJoinCallTracks ==
  ASSUME TypeInv, CallInv, TrackInv, TypeInv', CallInv', UNCHANGED sessionVars,
         NEW s \in Socket, handleJoinCall(s)
  PROVE  TrackInv'
<1>1. PICK r : r = Head(toServer[s]).room
  OBVIOUS
<1>2. /\ Request(s, "JOIN_CALL") /\ "JOIN_CALL" \in Asks
      /\ RoomsTypeOK /\ RegistryAgrees
      /\ connection' = connection /\ session' = session
  BY DEF handleJoinCall, Asks, TypeInv, TypeOK, CallInv, Request, sessionVars
<1>3. r \in RoomId /\ rooms[r] # None /\ rooms[r].guest \in {None, s} /\ joinRoom(r, s)
  BY <1>1, <1>2, JoinedRoom
<1>4. socketIndex[s] = None
  BY <1>2, SeatedSocket DEF CallInv
<1>5. /\ rooms[r].host # s /\ rooms[r].guest = None
      /\ rooms[r] \in Room /\ rooms[r].host \in Socket /\ rooms[r].media \in BOOLEAN
  <2>1. s \notin Participants(r)
    BY <1>2, <1>3, <1>4, CallAssumption DEF RegistryAgrees, CallAssumption
  <2> QED BY <1>2, <1>3, <2>1, RoomType, SocketAssumption DEF Participants, SocketAssumption
<1>6. PICK h \in Socket : h = rooms[r].host
  BY <1>5
<1>7. PICK joined : joined = [type |-> "CALL_JOINED", room |-> r, media |-> rooms[r].media]
  OBVIOUS
<1>8. PICK peer : peer = [type |-> "PEER_JOINED", peer |-> s]
  OBVIOUS
<1>9. /\ joined \in ToPage /\ joined.type = "CALL_JOINED" /\ joined.room = r
      /\ joined.media = rooms[r].media
      /\ peer \in ToPage /\ peer.type = "PEER_JOINED"
  BY <1>3, <1>5, <1>7, <1>8, ToPageMessages
<1>10. /\ \A t \in Socket \ {s} : socketIndex'[t] = socketIndex[t]
       /\ socketIndex'[s] = r
  BY <1>2, <1>3, <1>4, <1>5, SeatedRegistry
<1>11. /\ Participants(r)' = {h, s} /\ rooms'[r].guest # None
       /\ \A q \in RoomId \ {r} : rooms'[q] = rooms[q]
  <2>1. /\ rooms'[r] \in Room /\ rooms'[r].host = h /\ rooms'[r].guest = s
        /\ \A q \in RoomId \ {r} : rooms'[q] = rooms[q]
    BY <1>2, <1>3, <1>5, <1>6 DEF joinRoom, RoomsTypeOK, Room
  <2>2. rooms'[r] # None
    BY <2>1, RoomIsSomething
  <2> QED BY <2>1, <2>2, SocketAssumption DEF Participants, SocketAssumption
<1>12. ASSUME NEW p \in Page
       PROVE  /\ SocketOf(p) = s => toPage'[p] = Append(toPage[p], joined)
              /\ SocketOf(p) # s =>
                   toPage'[p] = toPage[p] \/ toPage'[p] = Append(toPage[p], peer)
              /\ SocketOf(p) \in Socket /\ toPage[p] \in Seq(ToPage) /\ SocketOf(p)' = SocketOf(p)
  <2>1. SocketOf(p) \in Socket /\ toPage[p] \in Seq(ToPage) /\ SocketOf(p)' = SocketOf(p)
    BY <1>2, CurrentSocket DEF RoomsTypeOK, SocketOf
  <2>2. toPage'[p] = toPage[p] \o ((IF SocketOf(p) = s THEN <<joined>> ELSE <<>>)
                                     \o (IF SocketOf(p) = h THEN <<peer>> ELSE <<>>))
    BY <1>1, <1>6, <1>7, <1>8, <2>1 DEF handleJoinCall, Emit
  <2>3. /\ SocketOf(p) = s => toPage'[p] = toPage[p] \o (<<joined>> \o <<>>)
        /\ SocketOf(p) # s => \/ toPage'[p] = toPage[p] \o (<<>> \o <<peer>>)
                              \/ toPage'[p] = toPage[p] \o (<<>> \o <<>>)
    BY <1>5, <1>6, <2>2
  <2> QED BY <1>9, <2>1, <2>3, OneToAppend
<1>13. ASSUME NEW p \in Page, SocketOf(p) # s
       PROVE  LocalInv(p)' /\ Keeps(p)
  <2>1. socketIndex'[SocketOf(p)] = socketIndex[SocketOf(p)]
    BY <1>10, <1>12, <1>13
  <2>2. peer.type \notin Openings /\ peer.type \notin Tracks /\ peer.type # "JOIN_ERROR"
    BY <1>9 DEF Openings, Tracks
  <2>3. \/ toPage'[p] = toPage[p]
        \/ \E m : /\ m.type \notin Openings /\ m.type \notin Tracks /\ m.type # "JOIN_ERROR"
                  /\ toPage'[p] = Append(toPage[p], m)
    BY <1>12, <1>13, <2>2
  <2> QED BY <1>2, <1>13, <2>1, <2>3, OthersKept
<1>14. ASSUME NEW p \in Page, SocketOf(p) = s
       PROVE  /\ LocalInv(p)'
              /\ Says(toServer'[s], TRUE, session[p].media)
              /\ Says(toPage'[p], session[p].remoteMedia, rooms[r].media)
  <2>1. joined.type \in Openings /\ joined.type \in Marks
    BY <1>9 DEF Openings, Marks
  <2>2. /\ LocalInv(p)'
        /\ session[p].media = TRUE
        /\ ~Has(toServer'[s], Marks)
    BY <1>2, <1>9, <1>10, <1>12, <1>14, <2>1, GrantedLocal
  <2>3. Says(toServer'[s], TRUE, session[p].media)
    BY <2>2, SaysOnly
  <2>4. Says(Append(toPage[p], joined), session[p].remoteMedia, joined.media)
    BY <1>12, <2>1, SaysAppend
  <2> QED BY <1>9, <1>12, <1>14, <2>2, <2>3, <2>4
<1>15. \A p \in Page : LocalInv(p)'
  BY <1>13, <1>14
<1>16. ASSUME NEW p \in Page, SocketOf(p) = h
       PROVE  /\ Says(toServer'[SocketOf(p)], rooms[r].media, session[p].media)
              /\ Says(toPage'[p], session[p].remoteMedia, TRUE)
  <2>1. /\ Says(toServer[SocketOf(p)], rooms[r].media, session[p].media)
        /\ Says(toPage[p], session[p].remoteMedia, TRUE)
    BY <1>3, <1>5, <1>6, <1>16 DEF TrackInv, RoomTracks, Alone, Said
  <2>2. Keeps(p)
    BY <1>5, <1>6, <1>13, <1>16
  <2> QED BY <1>2, <1>5, <2>1, <2>2 DEF Keeps, Said
<1>17. RoomTracks(r)'
  <2>1. \A p \in Page : Alone(p, r)'
    BY <1>11 DEF Alone
  <2>2. ASSUME NEW p \in Page, NEW q \in Page, Together(p, q, r)'
        PROVE  Follows(q, p)'
    <3>1. SocketOf(p) \in {h, s} /\ SocketOf(q) \in {h, s} /\ SocketOf(p) # SocketOf(q)
      <4>1. p # q /\ SocketOf(p) \in {h, s} /\ SocketOf(q) \in {h, s}
        BY <1>11, <1>12, <2>2 DEF Together
      <4> QED BY <4>1, OwnSocket
    <3>2. CASE SocketOf(p) = h /\ SocketOf(q) = s
      <4>1. /\ Says(toPage'[q], session'[q].remoteMedia, rooms[r].media)
            /\ Says(toServer'[SocketOf(p)'], rooms[r].media, session'[p].media)
        BY <1>2, <1>12, <1>14, <1>16, <3>2
      <4> QED BY <1>5, <4>1 DEF Follows, Said
    <3>3. CASE SocketOf(p) = s /\ SocketOf(q) = h
      <4>1. /\ Says(toPage'[q], session'[q].remoteMedia, TRUE)
            /\ Says(toServer'[SocketOf(p)'], TRUE, session'[p].media)
        BY <1>2, <1>12, <1>14, <1>16, <3>3
      <4> QED BY <4>1 DEF Follows, Said
    <3> QED BY <3>1, <3>2, <3>3
  <2> QED BY <2>1, <2>2 DEF RoomTracks
<1>18. ASSUME NEW q \in RoomId, q # r, NEW p \in Page, Index(p)' = q
       PROVE  Keeps(p)
  <2>1. SocketOf(p) # s
    BY <1>10, <1>12, <1>18 DEF Index
  <2> QED BY <1>13, <2>1
<1> QED BY <1>11, <1>15, <1>17, <1>18, TracksKept


\* A TRACK_STATE that does not count comes from a socket in no room.
LEMMA StrayTracks ==
  ASSUME TypeInv, CallInv, TrackInv, TypeInv', CallInv', UNCHANGED sessionVars,
         NEW s \in Socket, handleTrackState(s), ~IsMine(s)
  PROVE  TrackInv'
<1>1. /\ Request(s, "TRACK_STATE") /\ RoomsTypeOK /\ RegistryAgrees
      /\ toPage' = toPage /\ rooms' = rooms /\ socketIndex' = socketIndex
      /\ connection' = connection /\ session' = session
  BY DEF handleTrackState, TypeInv, TypeOK, CallInv, Request, sessionVars
<1>2. ASSUME NEW p \in Page, SocketOf(p) # s
      PROVE  LocalInv(p)' /\ Keeps(p)
  BY <1>1, <1>2, OthersKept
<1>3. ASSUME NEW p \in Page, SocketOf(p) = s
      PROVE  LocalInv(p)' /\ Index(p)' = None
  <2>1. /\ toServer[s] \in Seq(ToServer) /\ toServer[s] # <<>>
        /\ Head(toServer[s]).type = "TRACK_STATE" /\ toServer'[s] = Tail(toServer[s])
        /\ SocketOf(p)' = s
    BY <1>1, <1>3, Taken DEF SocketOf
  <2>2. Local(session[p], toServer[s], toPage[p], socketIndex[s])
    BY <1>3 DEF TrackInv, LocalInv, Said, Index
  <2>3. socketIndex[s] = None
    <3> SUFFICES ASSUME socketIndex[s] # None PROVE FALSE
      OBVIOUS
    <3>1. PICK r \in RoomId : r = socketIndex[s]
      BY <1>1 DEF RoomsTypeOK
    <3>2. rooms[r] # None
      BY <1>1, <3>1 DEF RegistryAgrees, Participants
    <3>3. Head(toServer[s]).room = r
      <4>1. 1 \in 1..Len(toServer[s]) /\ Head(toServer[s]) = toServer[s][1]
        BY <2>1
      <4> QED BY <2>1, <2>2, <3>1, <4>1 DEF Local, Tracks
    <3> QED BY <3>1, <3>2, <3>3 DEF IsMine, findRoomBySocket
  <2>4. Local(session[p], Tail(toServer[s]), toPage[p], socketIndex[s])
    BY <2>1, <2>2, LocalTaken
  <2>5. LocalInv(p)'
    BY <1>1, <2>1, <2>4 DEF LocalInv, Said, Index
  <2> QED BY <1>1, <2>1, <2>3, <2>5 DEF Index
<1>4. \A p \in Page : LocalInv(p)'
  BY <1>2, <1>3
<1>5. ASSUME NEW r \in RoomId, NEW p \in Page, Index(p)' = r
      PROVE  Keeps(p)
  BY <1>2, <1>3, <1>5, CallAssumption DEF CallAssumption
<1> QED BY <1>1, <1>4, <1>5, TracksKept

\* One that does is kept for a guest to come, and relayed to the other one.
LEMMA RelayedTracks ==
  ASSUME TypeInv, CallInv, TrackInv, TypeInv', CallInv', UNCHANGED sessionVars,
         NEW s \in Socket, handleTrackState(s), IsMine(s)
  PROVE  TrackInv'
<1>1. PICK m : m = Head(toServer[s])
  OBVIOUS
<1>2. /\ Request(s, "TRACK_STATE") /\ RoomsTypeOK /\ RegistryAgrees
      /\ socketIndex' = socketIndex
      /\ connection' = connection /\ session' = session
  BY DEF handleTrackState, TypeInv, TypeOK, CallInv, Request, sessionVars
<1>3. m \in ToServer /\ m.type = "TRACK_STATE" /\ m.media \in BOOLEAN
  BY <1>1, <1>2, RequestType, ToServerFields
<1>4. PICK r \in RoomId : r = m.room /\ r = socketIndex[s] /\ rooms[r] # None
  BY <1>1, <1>2, FoundRoom DEF IsMine
<1>5. PICK o : o = OtherPeer(r, s)
  OBVIOUS
<1>6. PICK n \in ToPage : /\ n.type = "TRACK_STATE" /\ n.media = m.media
                          /\ Emit(Only(o, n))
  <2>1. [type |-> "TRACK_STATE", media |-> m.media] \in ToPage
    BY <1>3, ToPageMessages
  <2> QED BY <1>1, <1>4, <1>5, <2>1 DEF handleTrackState
<1>7. /\ rooms[r].host \in Socket /\ rooms[r].guest \in Socket \cup {None}
      /\ rooms'[r].host = rooms[r].host /\ rooms'[r].guest = rooms[r].guest
      /\ rooms'[r].media = m.media /\ rooms'[r] # None
      /\ \A q \in RoomId \ {r} : rooms'[q] = rooms[q]
  <2>1. rooms[r] \in Room /\ rooms[r].host \in Socket /\ rooms[r].guest \in Socket \cup {None}
    BY <1>2, <1>4, RoomType
  <2>2. rooms' = [rooms EXCEPT ![r] = [rooms[r] EXCEPT !.media = m.media]]
    BY <1>1, <1>4 DEF handleTrackState, setTrackState
  <2>3. PICK x : x = [rooms[r] EXCEPT !.media = m.media]
    OBVIOUS
  <2>4. /\ x \in Room /\ x.host = rooms[r].host /\ x.guest = rooms[r].guest
        /\ x.media = m.media
    BY <1>3, <2>1, <2>3 DEF Room
  <2>5. x # None
    BY <2>4, RoomIsSomething
  <2>6. rooms'[r] = x /\ \A q \in RoomId \ {r} : rooms'[q] = rooms[q]
    BY <1>2, <2>2, <2>3 DEF RoomsTypeOK
  <2> QED BY <2>1, <2>4, <2>5, <2>6
<1>8. /\ s \in Participants(r) /\ Participants(r) = {rooms[r].host, rooms[r].guest} \ {None}
      /\ Participants(r)' = Participants(r)
  BY <1>2, <1>4, <1>7 DEF RegistryAgrees, Participants
<1>9. /\ \A t \in Participants(r) : t # s => o = t
      /\ o # None => o \in Participants(r) /\ socketIndex[o] = r
      /\ s = rooms[r].host /\ rooms[r].guest = None => o = None
  BY <1>2, <1>4, <1>5, <1>7, <1>8, SocketAssumption
  DEF OtherPeer, RegistryAgrees, SocketAssumption
<1>10. ASSUME NEW p \in Page
       PROVE  /\ SocketOf(p) \in Socket /\ SocketOf(p)' = SocketOf(p) /\ SocketOf(p) # None
              /\ toPage[p] \in Seq(ToPage)
              /\ toPage'[p] = IF SocketOf(p) = o THEN Append(toPage[p], n) ELSE toPage[p]
  BY <1>2, <1>6, EmitOnly, CurrentSocket, SocketAssumption
  DEF RoomsTypeOK, SocketOf, SocketAssumption
<1>11. ASSUME NEW p \in Page, SocketOf(p) # s, SocketOf(p) # o
       PROVE  LocalInv(p)' /\ Keeps(p)
  BY <1>2, <1>10, <1>11, OthersKept
\* what the sender has said
<1>12. ASSUME NEW p \in Page, SocketOf(p) = s
       PROVE  /\ Local(session[p], toServer'[s], toPage[p], socketIndex[s])
              /\ \A x : Says(toServer[s], x, session[p].media) =>
                          Says(toServer'[s], m.media, session[p].media)
  <2>1. /\ toServer[s] \in Seq(ToServer) /\ toServer[s] # <<>>
        /\ m.type \in Marks /\ toServer'[s] = Tail(toServer[s])
    BY <1>2, <1>3, Taken DEF Marks
  <2>2. Local(session[p], toServer[s], toPage[p], socketIndex[s])
    BY <1>12 DEF TrackInv, LocalInv, Said, Index
  <2>3. Local(session[p], Tail(toServer[s]), toPage[p], socketIndex[s])
    BY <2>1, <2>2, LocalTaken
  <2>4. \A x : Says(toServer[s], x, session[p].media) =>
                 Says(Tail(toServer[s]), m.media, session[p].media)
    BY <1>1, <2>1, SaysTail
  <2> QED BY <2>1, <2>3, <2>4
<1>13. ASSUME NEW p \in Page, SocketOf(p) # s
       PROVE  toServer'[SocketOf(p)] = toServer[SocketOf(p)]
  BY <1>2, <1>10, <1>13, Taken
\* what the other one hears
<1>14. ASSUME NEW p \in Page, SocketOf(p) = o
       PROVE  /\ \A out : Local(session[p], out, toPage[p], r) =>
                            Local(session[p], out, toPage'[p], r)
              /\ \A x : Says(toPage'[p], x, m.media)
  <2>1. ~Has(toPage[p], Dismissals)
    <3>1. socketIndex[SocketOf(p)] = r
      BY <1>9, <1>10, <1>14
    <3> QED BY <1>4, <3>1, CallAssumption DEF CallInv, QueueInv, CallAssumption
  <2>2. n.type \notin Openings /\ n.type # "JOIN_ERROR" /\ r # None /\ n.type \in Marks
    BY <1>6, CallAssumption DEF Openings, CallAssumption, Marks
  <2>3. ASSUME NEW out, Local(session[p], out, toPage[p], r)
        PROVE  Local(session[p], out, Append(toPage[p], n), r)
    BY <1>10, <2>1, <2>2, <2>3, LocalTold
  <2>4. \A x : Says(Append(toPage[p], n), x, n.media)
    BY <1>10, <2>2, SaysAppend
  <2> QED BY <1>6, <1>10, <1>14, <2>3, <2>4
<1>15. ASSUME NEW p \in Page
       PROVE  LocalInv(p)'
  <2>1. Local(session[p], toServer'[SocketOf(p)], toPage[p], socketIndex[SocketOf(p)])
    <3>1. CASE SocketOf(p) = s
      BY <1>12, <3>1
    <3>2. CASE SocketOf(p) # s
      BY <1>13, <3>2 DEF TrackInv, LocalInv, Said, Index
    <3> QED BY <3>1, <3>2
  <2>2. Local(session[p], toServer'[SocketOf(p)], toPage'[p], socketIndex[SocketOf(p)])
    <3>1. CASE SocketOf(p) = o
      <4>1. socketIndex[SocketOf(p)] = r
        BY <1>9, <1>10, <3>1
      <4> QED BY <1>14, <2>1, <3>1, <4>1
    <3>2. CASE SocketOf(p) # o
      BY <1>10, <2>1, <3>2
    <3> QED BY <3>1, <3>2
  <2> QED BY <1>2, <1>10, <2>2 DEF LocalInv, Said, Index
<1>16. ASSUME NEW p \in Page
       PROVE  Alone(p, r)'
  <2> SUFFICES ASSUME rooms[r].host = SocketOf(p), rooms[r].guest = None
               PROVE  /\ Says(toServer'[SocketOf(p)], m.media, session[p].media)
                      /\ Says(toPage'[p], session[p].remoteMedia, TRUE)
    BY <1>2, <1>7, <1>10 DEF Alone, Said
  <2>1. SocketOf(p) = s /\ o = None
    BY <1>8, <1>9
  <2>2. /\ Says(toServer[s], rooms[r].media, session[p].media)
        /\ Says(toPage[p], session[p].remoteMedia, TRUE)
    BY <1>4, <2>1 DEF TrackInv, RoomTracks, Alone, Said
  <2> QED BY <1>10, <1>12, <2>1, <2>2
<1>17. ASSUME NEW p \in Page, NEW q \in Page, Together(p, q, r)'
       PROVE  Follows(q, p)'
  <2>1. Together(p, q, r) /\ SocketOf(p) # SocketOf(q)
    BY <1>8, <1>10, <1>17, OwnSocket DEF Together
  <2>2. PICK x \in BOOLEAN : /\ Says(toPage[q], session[q].remoteMedia, x)
                             /\ Says(toServer[SocketOf(p)], x, session[p].media)
    BY <2>1 DEF TrackInv, RoomTracks, Follows, Said
  <2>3. CASE SocketOf(p) = s
    <3>1. SocketOf(q) = o
      BY <1>9, <2>1, <2>3 DEF Together
    <3>2. /\ Says(toPage'[q], session[q].remoteMedia, m.media)
          /\ Says(toServer'[SocketOf(p)], m.media, session[p].media)
      BY <1>12, <1>14, <2>2, <2>3, <3>1
    <3> QED BY <1>2, <1>3, <1>10, <3>2 DEF Follows, Said
  <2>4. CASE SocketOf(p) # s
    <3>1. SocketOf(p) = o /\ SocketOf(q) # o
      BY <1>9, <2>1, <2>4 DEF Together
    <3>2. toPage'[q] = toPage[q] /\ toServer'[SocketOf(p)] = toServer[SocketOf(p)]
      BY <1>10, <1>13, <2>4, <3>1
    <3> QED BY <1>2, <1>10, <2>2, <3>2 DEF Follows, Said
  <2> QED BY <2>3, <2>4
<1>18. RoomTracks(r)'
  BY <1>16, <1>17 DEF RoomTracks
<1>19. ASSUME NEW q \in RoomId, q # r, NEW p \in Page, Index(p)' = q
       PROVE  Keeps(p)
  <2>1. socketIndex[SocketOf(p)] = q
    BY <1>2, <1>10, <1>19 DEF Index
  <2>2. SocketOf(p) # s /\ SocketOf(p) # o
    BY <1>4, <1>9, <1>10, <1>19, <2>1
  <2> QED BY <1>11, <2>2
<1> QED BY <1>7, <1>15, <1>18, <1>19, TracksKept


-----------------------------------------------------------------------------
LEMMA InitTracks == Init => TrackInv
<1> SUFFICES ASSUME Init PROVE TrackInv
  OBVIOUS
<1>1. /\ \A s \in Socket : toServer[s] = <<>> /\ socketIndex[s] = None
      /\ \A p \in Page : toPage[p] = <<>> /\ session[p] = Fresh /\ SocketOf(p) \in Socket
      /\ \A r \in RoomId : rooms[r] = None
  BY InitType, CurrentSocket DEF Init, RoomsInit, SessionInit, TypeInv, TypeOK
<1>2. ASSUME NEW p \in Page PROVE LocalInv(p)
  <2>1. Local(Fresh, <<>>, <<>>, None)
    BY LocalAnew DEF Fresh
  <2> QED BY <1>1, <2>1 DEF LocalInv, Said, Index
<1>3. ASSUME NEW r \in RoomId PROVE RoomTracks(r)
  BY <1>1 DEF RoomTracks, Alone, Together, Participants
<1> QED BY <1>2, <1>3 DEF TrackInv

LEMMA StepTracks ==
  TypeInv /\ CallInv /\ TrackInv /\ [Next]_vars /\ TypeInv' /\ CallInv' => TrackInv'
<1> SUFFICES ASSUME TypeInv, CallInv, TrackInv, [Next]_vars, TypeInv', CallInv' PROVE TrackInv'
  OBVIOUS
<1>1. ASSUME NEW p \in Page, UserStep(p) PROVE TrackInv'
  BY <1>1, AskTracks, mediaAcquiredTracks, toggleTracks, ReconnectTracks DEF UserStep
<1>2. ASSUME NEW p \in Page, PageHandler(p) PROVE TrackInv'
  BY <1>2, OpenedTracks, DismissedTracks, SignallingTracks, onTrackStateTracks DEF PageHandler
<1>3. ASSUME NEW s \in Socket, ServerStep(s) PROVE TrackInv'
  BY <1>3, handleCreateCallTracks, joinRefusedTracks, handleJoinCallTracks, handleSdpTracks,
     StrayTracks, RelayedTracks, LeaveTracks DEF ServerStep, Handler
<1>4. ASSUME NEW r \in RoomId, Expiry(r) PROVE TrackInv'
  BY <1>4, ExpiryTracks
<1>5. CASE UNCHANGED vars
  <2>1. \A p \in Page : LocalInv(p)'
    BY <1>5 DEF TrackInv, LocalInv, Said, Index, SocketOf, vars, socketVars, roomVars, sessionVars
  <2>2. \A p \in Page : Keeps(p)
    BY <1>5 DEF Keeps, Said, SocketOf, vars, socketVars, sessionVars
  <2>3. rooms' = rooms
    BY <1>5 DEF vars, roomVars
  <2> QED BY <2>1, <2>2, <2>3, TracksKept
<1> QED BY <1>1, <1>2, <1>3, <1>4, <1>5 DEF Next

LEMMA TracksAgreed == TypeInv /\ TrackInv => TrackStateAgreed
<1> SUFFICES ASSUME TypeInv, TrackInv,
                    NEW r \in RoomId, NEW p \in Page, NEW q \in Page,
                    p # q, InCall(p, r), InCall(q, r), Quiet(p), Quiet(q)
             PROVE  session[p].remoteMedia = session[q].media
  BY DEF TrackStateAgreed
<1>1. Together(q, p, r)
  BY DEF Together, InCall
<1>2. PICK x \in BOOLEAN : /\ Says(toPage[p], session[p].remoteMedia, x)
                           /\ Says(Said(q), x, session[q].media)
  BY <1>1 DEF TrackInv, RoomTracks, Follows
<1>3. ~Has(toPage[p], Marks)
  <2>1. ~Has(toPage[p], Answers)
    BY DEF TrackInv, LocalInv, Local, InCall
  <2> QED BY <2>1 DEF Has, Marks, Answers, Quiet, Mentions
<1>4. ~Has(Said(q), Marks)
  <2>1. Said(q) \in Seq(ToServer)
    BY CurrentSocket DEF Said, TypeInv, TypeOK
  <2>2. ~Has(Said(q), Tracks)
    BY DEF Has, Tracks, Quiet, Mentions, Said
  <2> QED BY <2>1, <2>2, SaidMarks
<1> QED BY <1>2, <1>3, <1>4, SaysOnly

\* The indicators of a call are right: when neither page has a TRACK_STATE on its way,
\* to the server or from it, each shows whether the other's camera and microphone are
\* on - also the guest who came after the toggle, from what the room has kept of it,
\* whoever toggled while the other's message was still in the queue, and however often
\* either page has been in a call or lost its connection before.
THEOREM IndicatorsAgree ==
  ASSUME OneAtATime
  PROVE  Spec => []TrackStateAgreed
<1>1. Init => TypeInv /\ CallInv /\ TrackInv
  BY InitType, InitCall, InitTracks
<1>2. TypeInv /\ CallInv /\ TrackInv /\ [Next]_vars => (TypeInv /\ CallInv /\ TrackInv)'
  BY StepType, StepCall, StepTracks
<1>3. TypeInv /\ CallInv /\ TrackInv => TrackStateAgreed
  BY TracksAgreed
<1> QED BY <1>1, <1>2, <1>3, PTL DEF Spec
=============================================================================
