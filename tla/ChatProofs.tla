----------------------------- MODULE ChatProofs -----------------------------
(***************************************************************************)
(* Theorems about Chat, for every choice of its constants.                 *)
(***************************************************************************)
EXTENDS Chat, Queues, SequenceTheorems, FiniteSetTheorems, TLAPS

LEMMA SocketFields ==
  ASSUME NEW s \in Socket
  PROVE  /\ s[1] \in Page
         /\ s[2] \in 1..MaxConnections[s[1]]
         /\ s = <<s[1], s[2]>>
BY DEF Socket

LEMMA SocketMade ==
  ASSUME NEW p \in Page, NEW n \in 1..MaxConnections[p]
  PROVE  <<p, n>> \in Socket
BY DEF Socket

LEMMA SocketsFinite == IsFiniteSet(Socket)
<1> DEFINE f == [p \in Page |-> {p} \X (1..MaxConnections[p])]
<1>1. ASSUME NEW p \in Page
      PROVE  IsFiniteSet({p} \X (1..MaxConnections[p]))
  <2>1. IsFiniteSet({p})
    BY FS_Singleton
  <2>2. IsFiniteSet(1..MaxConnections[p])
    <3>1. 1 \in Int /\ MaxConnections[p] \in Int
      BY ChatAssumption
    <3> QED
      BY <3>1, FS_Interval
  <2> QED
    BY <2>1, <2>2, FS_Product
<1>2. IsFiniteSet({f[p] : p \in Page})
  <2> HIDE DEF f
  <2> QED
    BY ImageFinite, ChatAssumption
<1>3. \A T \in {f[p] : p \in Page} : IsFiniteSet(T)
  BY <1>1
<1>4. Socket = UNION {f[p] : p \in Page}
  BY DEF Socket
<1> QED
  <2> HIDE DEF f
  <2> QED
    BY <1>2, <1>3, <1>4, FS_UNION

\* The sequence that SetToSeq makes of a finite set has its elements and no others.
LEMMA SetToSeqElements ==
  ASSUME NEW S, IsFiniteSet(S)
  PROVE  /\ SetToSeq(S) \in Seq(S)
         /\ \A m \in S : \E i \in 1..Len(SetToSeq(S)) : SetToSeq(S)[i] = m
<1> DEFINE n == Cardinality(S)
<1>1. n \in Nat /\ \E f : f \in Bijection(1..n, S)
  BY FS_CardinalityType DEF ExistsBijection
<1>2. PICK f \in [1..n -> S] : IsInjective(f)
  BY <1>1 DEF Bijection, Injection, IsInjective
<1>3. SetToSeq(S) \in [1..n -> S] /\ IsInjective(SetToSeq(S))
  BY <1>2 DEF SetToSeq
<1> HIDE DEF n
<1>4. PICK q : q = SetToSeq(S)
  OBVIOUS
<1>5. q \in Injection(1..n, S) /\ q \in Seq(S) /\ Len(q) = n
  BY <1>1, <1>3, <1>4 DEF Injection
<1>6. IsFiniteSet(1..n) /\ Cardinality(1..n) = n
  BY <1>1, FS_Interval
<1>7. q \in Surjection(1..n, S)
  BY <1>1, <1>5, <1>6, FS_Injection DEF n
<1> QED
  BY <1>4, <1>5, <1>7 DEF Surjection

LEMMA ToServerFields ==
  ASSUME NEW m \in ToServer
  PROVE  /\ m.type \in {"JOIN_ROOM", "LEAVE_ROOM", "SEND_MESSAGE", "TYPING"} => m.room \in RoomId
         /\ m.type = "JOIN_ROOM" => m.name \in Name
         /\ m.type = "TYPING" => m.isTyping \in BOOLEAN
BY DEF ToServer

LEMMA ToServerMessages ==
  /\ [type |-> "disconnect"] \in ToServer
  /\ \A r \in RoomId :
       /\ [type |-> "LEAVE_ROOM", room |-> r] \in ToServer
       /\ [type |-> "SEND_MESSAGE", room |-> r] \in ToServer
       /\ \A n \in Name : [type |-> "JOIN_ROOM", room |-> r, name |-> n] \in ToServer
       /\ \A on \in BOOLEAN : [type |-> "TYPING", room |-> r, isTyping |-> on] \in ToServer
BY DEF ToServer

LEMMA ToPageFields ==
  ASSUME NEW m \in ToPage
  PROVE  /\ m.type = "JOIN_SUCCESS" => m.room \in RoomId /\ m.participants \in SUBSET Name
         /\ m.type \in {"USER_JOINED", "USER_LEFT", "NEW_MESSAGE", "USER_TYPING"} => m.name \in Name
         /\ m.type = "USER_TYPING" => m.isTyping \in BOOLEAN
BY DEF ToPage

LEMMA ToPageMessages ==
  /\ [type |-> "ROOM_CLOSED"] \in ToPage
  /\ \A reason \in {"NAME_TAKEN", "other"} : [type |-> "JOIN_ERROR", reason |-> reason] \in ToPage
  /\ \A r \in RoomId, names \in SUBSET Name :
       [type |-> "JOIN_SUCCESS", room |-> r, participants |-> names] \in ToPage
  /\ \A n \in Name :
       /\ [type |-> "USER_JOINED", name |-> n] \in ToPage
       /\ [type |-> "USER_LEFT", name |-> n] \in ToPage
       /\ [type |-> "NEW_MESSAGE", name |-> n] \in ToPage
       /\ \A on \in BOOLEAN : [type |-> "USER_TYPING", isTyping |-> on, name |-> n] \in ToPage
BY DEF ToPage

-----------------------------------------------------------------------------
(* Type correctness, of the server first.                                    *)
LEMMA RequestType ==
  ASSUME ChatRoomsTypeOK, NEW s \in Socket, NEW type, Request(s, type)
  PROVE  /\ Head(toServer[s]) \in ToServer
         /\ Head(toServer[s]).type = type
         /\ toServer' \in [Socket -> Seq(ToServer)]
         /\ connection' = connection
BY HeadTail DEF ChatRoomsTypeOK, Request

LEMMA EmitType ==
  ASSUME ChatRoomsTypeOK, NEW sent \in [Socket -> Seq(ToPage)], Emit(sent)
  PROVE  toPage' \in [Page -> Seq(ToPage)]
BY ShortSequences DEF ChatRoomsTypeOK, Emit

LEMMA ToType ==
  ASSUME NEW sockets, NEW m \in ToPage
  PROVE  To(sockets, m) \in [Socket -> Seq(ToPage)]
BY ShortSequences DEF To

LEMMA ThenType ==
  ASSUME NEW sent \in [Socket -> Seq(ToPage)], NEW more \in [Socket -> Seq(ToPage)]
  PROVE  Then(sent, more) \in [Socket -> Seq(ToPage)]
BY ShortSequences DEF Then

LEMMA MemberName ==
  ASSUME ChatRoomsTypeOK, NEW r \in RoomId, NEW s \in Members(r)
  PROVE  s \in Socket /\ participants[r][s] \in Name /\ participants[r][s] # None
BY DEF ChatRoomsTypeOK, Members

LEMMA MembersFinite ==
  ASSUME ChatRoomsTypeOK, NEW r \in RoomId
  PROVE  IsFiniteSet(Members(r)) /\ Cardinality(Members(r)) \in Nat
<1>1. Members(r) \subseteq Socket
  BY DEF Members
<1> QED
  BY <1>1, SocketsFinite, FS_Subset, FS_CardinalityType

LEMMA createRoomType ==
  ASSUME ChatRoomsTypeOK, NEW r \in RoomId, createRoom(r) \/ timePasses(r) \/ sweep(r) \/ fire(r)
  PROVE  ChatRoomsTypeOK'
BY DEF ChatRoomsTypeOK, createRoom, timePasses, sweep, fire, socketVars, SocketOf

LEMMA forceCloseRoomType ==
  ASSUME ChatRoomsTypeOK, NEW r \in RoomId, forceCloseRoom(r)
  PROVE  ChatRoomsTypeOK'
<1>1. toPage' \in [Page -> Seq(ToPage)]
  BY EmitType, ToType, ToPageMessages DEF forceCloseRoom
<1>2. firing' \in [RoomId -> Nat]
  BY DEF ChatRoomsTypeOK, forceCloseRoom
<1>3. participants' \in [RoomId -> [Socket -> Name \cup {None}]]
  BY DEF ChatRoomsTypeOK, forceCloseRoom, Nobody
<1>4. chatStats' \in [RoomId -> Nat \cup {None}]
  BY DEF ChatRoomsTypeOK, forceCloseRoom
<1> QED
  BY <1>1, <1>2, <1>3, <1>4 DEF ChatRoomsTypeOK, forceCloseRoom, SocketOf

LEMMA handleJoinRoomType ==
  ASSUME ChatRoomsTypeOK, NEW s \in Socket, handleJoinRoom(s)
  PROVE  ChatRoomsTypeOK'
<1>1. suspended' \subseteq Suspended
  <2>1. Head(toServer[s]).room \in RoomId /\ Head(toServer[s]).name \in Name
    BY RequestType, ToServerFields DEF handleJoinRoom
  <2> QED
    BY <2>1 DEF ChatRoomsTypeOK, handleJoinRoom, Suspended
<1> QED
  BY <1>1, RequestType DEF ChatRoomsTypeOK, handleJoinRoom, expiryVars, SocketOf

LEMMA SuspendedFields ==
  ASSUME ChatRoomsTypeOK, NEW h \in suspended
  PROVE  /\ h \in Suspended
         /\ h.stage \in {"finding", "checking"}
         /\ h.socket \in Socket
         /\ h.room \in RoomId
         /\ h.name \in Name
         /\ h.name # None
BY ChatAssumption DEF ChatRoomsTypeOK, Suspended

LEMMA RefuseType ==
  ASSUME ChatRoomsTypeOK, NEW h \in suspended, NEW reason \in {"NAME_TAKEN", "other"},
         Refuse(h, reason)
  PROVE  ChatRoomsTypeOK'
<1>1. toPage' \in [Page -> Seq(ToPage)]
  BY EmitType, ToType, ToPageMessages DEF Refuse
<1> QED
  BY <1>1 DEF ChatRoomsTypeOK, Refuse, expiryVars, SocketOf

LEMMA roomFoundType ==
  ASSUME ChatRoomsTypeOK, NEW h \in suspended, roomFound(h)
  PROVE  ChatRoomsTypeOK'
<1>1. CASE Refuse(h, "other")
  BY <1>1, RefuseType
<1>2. CASE /\ suspended' = (suspended \ {h}) \cup {[h EXCEPT !.stage = "checking"]}
           /\ UNCHANGED <<socketVars, expiryVars, participants, chatStats>>
  <2>1. [h EXCEPT !.stage = "checking"] \in Suspended
    BY SuspendedFields DEF Suspended
  <2> QED
    BY <1>2, <2>1 DEF ChatRoomsTypeOK, expiryVars, socketVars, SocketOf
<1> QED BY <1>1, <1>2 DEF roomFound

\* Who is in the room after an admission.
LEMMA AdmitMembers ==
  ASSUME ChatRoomsTypeOK, NEW h \in suspended, admit(h)
  PROVE  /\ participants' \in [RoomId -> [Socket -> Name \cup {None}]]
         /\ Members(h.room)' = Members(h.room) \cup {h.socket}
         /\ \A r \in RoomId \ {h.room} : participants'[r] = participants[r]
         /\ participants'[h.room][h.socket] = h.name
         /\ \A s \in Socket \ {h.socket} : participants'[h.room][s] = participants[h.room][s]
BY SuspendedFields DEF ChatRoomsTypeOK, admit, Members

LEMMA scheduleExpiryType ==
  ASSUME ChatRoomsTypeOK, NEW r \in RoomId, scheduleExpiry(r)
  PROVE  timers' \subseteq RoomId /\ firing' \in [RoomId -> Nat]
<1>1. CASE r \in timers \/ r \notin expired
  BY <1>1 DEF ChatRoomsTypeOK, scheduleExpiry
<1>2. CASE ~(r \in timers \/ r \notin expired)
  <2>1. firing[r] + 1 \in Nat
    BY DEF ChatRoomsTypeOK
  <2> QED
    BY <1>2, <2>1 DEF ChatRoomsTypeOK, scheduleExpiry
<1> QED BY <1>1, <1>2

LEMMA admitType ==
  ASSUME ChatRoomsTypeOK, NEW h \in suspended, admit(h)
  PROVE  ChatRoomsTypeOK'
<1> DEFINE r == h.room
           there == Members(r) \cup {h.socket}
           now == [participants[r] EXCEPT ![h.socket] = h.name]
           success == [type |-> "JOIN_SUCCESS", room |-> r, participants |-> {now[s] : s \in there}]
           joined == [type |-> "USER_JOINED", name |-> h.name]
<1>1. success \in ToPage /\ joined \in ToPage
  <2>1. \A s \in there : now[s] \in Name
    BY SuspendedFields, MemberName DEF ChatRoomsTypeOK
  <2> QED
    BY <2>1, SuspendedFields, ToPageMessages
<1>2. Emit(Then(To({h.socket}, success), To(there \ {h.socket}, joined)))
  BY DEF admit
<1>3. toPage' \in [Page -> Seq(ToPage)]
  <2> HIDE DEF success, joined, there
  <2>1. Then(To({h.socket}, success), To(there \ {h.socket}, joined)) \in [Socket -> Seq(ToPage)]
    BY <1>1, ToType, ThenType
  <2> QED
    BY <1>2, <2>1, EmitType
<1>4. Cardinality(there) \in Nat
  <2>1. IsFiniteSet(Members(r))
    BY MembersFinite, SuspendedFields
  <2>2. IsFiniteSet(there)
    BY <2>1, FS_AddElement
  <2> QED
    BY <2>2, FS_CardinalityType
<1>5. chatStats' \in [RoomId -> Nat \cup {None}]
  BY <1>4 DEF ChatRoomsTypeOK, admit
<1>6. timers' \subseteq RoomId /\ firing' \in [RoomId -> Nat]
  BY SuspendedFields, scheduleExpiryType DEF admit
<1> QED
  BY <1>3, <1>5, <1>6, AdmitMembers DEF ChatRoomsTypeOK, admit, SocketOf

LEMMA passwordComparedType ==
  ASSUME ChatRoomsTypeOK, NEW h \in suspended, passwordCompared(h)
  PROVE  ChatRoomsTypeOK'
BY RefuseType, admitType DEF passwordCompared

\* What removeParticipant sends to the socket t.
Goodbyes(t, s, from) ==
  {[type |-> "USER_LEFT", name |-> participants[r][s]] :
     r \in {q \in {q \in from : s \in Members(q)} : t \in Members(q) \ {s}}}

LEMMA GoodbyesFinite ==
  ASSUME ChatRoomsTypeOK, NEW s \in Socket, NEW t \in Socket, NEW from \in SUBSET RoomId
  PROVE  IsFiniteSet(Goodbyes(t, s, from)) /\ Goodbyes(t, s, from) \subseteq ToPage
<1> DEFINE rooms == {q \in {q \in from : s \in Members(q)} : t \in Members(q) \ {s}}
           f == [r \in RoomId |-> [type |-> "USER_LEFT", name |-> participants[r][s]]]
<1>1. rooms \subseteq RoomId
  OBVIOUS
<1>2. IsFiniteSet(rooms)
  BY <1>1, FS_Subset, ChatAssumption
<1>3. Goodbyes(t, s, from) = {f[r] : r \in rooms}
  BY <1>1 DEF Goodbyes
<1>4. IsFiniteSet({f[r] : r \in rooms})
  <2> HIDE DEF f, rooms
  <2> QED BY <1>2, ImageFinite
<1>5. Goodbyes(t, s, from) \subseteq ToPage
  <2> SUFFICES ASSUME NEW r \in rooms PROVE f[r] \in ToPage
    BY <1>3
  <2> QED
    BY MemberName, ToPageMessages
<1> QED
  BY <1>3, <1>4, <1>5

LEMMA GoodbyesType ==
  ASSUME ChatRoomsTypeOK, NEW s \in Socket, NEW from \in SUBSET RoomId
  PROVE  [t \in Socket |-> SetToSeq(Goodbyes(t, s, from))] \in [Socket -> Seq(ToPage)]
<1> SUFFICES ASSUME NEW t \in Socket PROVE SetToSeq(Goodbyes(t, s, from)) \in Seq(ToPage)
  OBVIOUS
<1>1. SetToSeq(Goodbyes(t, s, from)) \in Seq(Goodbyes(t, s, from))
  BY GoodbyesFinite, SetToSeqElements
<1> QED
  BY <1>1, GoodbyesFinite, SeqMonotonic

LEMMA removeParticipantEmits ==
  ASSUME NEW s, NEW from, removeParticipant(s, from)
  PROVE  Emit([t \in Socket |-> SetToSeq(Goodbyes(t, s, from))])
BY DEF removeParticipant, Goodbyes

\* Who is in the rooms after a departure.
LEMMA RemoveMembers ==
  ASSUME ChatRoomsTypeOK, NEW s \in Socket, NEW from \in SUBSET RoomId, removeParticipant(s, from)
  PROVE  /\ participants' \in [RoomId -> [Socket -> Name \cup {None}]]
         /\ \A r \in RoomId :
              /\ Members(r)' = IF r \in from THEN Members(r) \ {s} ELSE Members(r)
              /\ \A t \in Members(r)' : participants'[r][t] = participants[r][t]
BY DEF ChatRoomsTypeOK, removeParticipant, Members

LEMMA removeParticipantType ==
  ASSUME ChatRoomsTypeOK, NEW s \in Socket, NEW from \in SUBSET RoomId, removeParticipant(s, from)
  PROVE  /\ participants' \in [RoomId -> [Socket -> Name \cup {None}]]
         /\ chatStats' \in [RoomId -> Nat \cup {None}]
         /\ toPage' \in [Page -> Seq(ToPage)]
<1>1. toPage' \in [Page -> Seq(ToPage)]
  BY EmitType, GoodbyesType, removeParticipantEmits
<1>2. chatStats' \in [RoomId -> Nat \cup {None}]
  <2>1. ASSUME NEW r \in RoomId, s \in Members(r), Members(r) # {s}
        PROVE  Cardinality(Members(r)) - 1 \in Nat
    <3>1. Cardinality(Members(r) \ {s}) = Cardinality(Members(r)) - 1
      BY <2>1, MembersFinite, FS_RemoveElement
    <3>2. IsFiniteSet(Members(r) \ {s})
      BY MembersFinite, FS_RemoveElement
    <3> QED
      BY <3>1, <3>2, FS_CardinalityType
  <2> QED
    BY <2>1 DEF ChatRoomsTypeOK, removeParticipant
<1> QED
  BY <1>1, <1>2, RemoveMembers

LEMMA handleLeaveRoomType ==
  ASSUME ChatRoomsTypeOK, NEW s \in Socket, handleLeaveRoom(s)
  PROVE  ChatRoomsTypeOK'
<1>1. {Head(toServer[s]).room} \in SUBSET RoomId
  BY RequestType, ToServerFields DEF handleLeaveRoom
<1> QED
  BY <1>1, RequestType, removeParticipantType
     DEF handleLeaveRoom, ChatRoomsTypeOK, expiryVars, SocketOf

LEMMA handleDisconnectType ==
  ASSUME ChatRoomsTypeOK, NEW s \in Socket, handleDisconnect(s)
  PROVE  ChatRoomsTypeOK'
BY RequestType, removeParticipantType
   DEF handleDisconnect, ChatRoomsTypeOK, expiryVars, SocketOf

LEMMA handleSendMessageType ==
  ASSUME ChatRoomsTypeOK, NEW s \in Socket, handleSendMessage(s)
  PROVE  ChatRoomsTypeOK'
<1>1. PICK r \in RoomId : r = Head(toServer[s]).room
  BY RequestType, ToServerFields DEF handleSendMessage
<1>2. CASE s \in Members(r)
  <2>1. [type |-> "NEW_MESSAGE", name |-> participants[r][s]] \in ToPage
    BY <1>2, MemberName, ToPageMessages
  <2>2. toPage' \in [Page -> Seq(ToPage)]
    BY <1>1, <1>2, <2>1, ToType, EmitType DEF handleSendMessage
  <2> QED
    BY <2>2, RequestType DEF handleSendMessage, ChatRoomsTypeOK, roomVars, expiryVars, SocketOf
<1>3. CASE s \notin Members(r)
  BY <1>1, <1>3, RequestType
     DEF handleSendMessage, ChatRoomsTypeOK, roomVars, expiryVars, SocketOf
<1> QED BY <1>2, <1>3

LEMMA broadcastTypingType ==
  ASSUME ChatRoomsTypeOK, NEW s \in Socket, broadcastTyping(s)
  PROVE  ChatRoomsTypeOK'
<1>1. PICK r \in RoomId : r = Head(toServer[s]).room
  BY RequestType, ToServerFields DEF broadcastTyping
<1>2. CASE s \in Members(r)
  <2>1. [type |-> "USER_TYPING", isTyping |-> Head(toServer[s]).isTyping,
         name |-> participants[r][s]] \in ToPage
    BY <1>2, MemberName, ToPageMessages, RequestType, ToServerFields DEF broadcastTyping
  <2>2. toPage' \in [Page -> Seq(ToPage)]
    BY <1>1, <1>2, <2>1, ToType, EmitType DEF broadcastTyping
  <2> QED
    BY <2>2, RequestType DEF broadcastTyping, ChatRoomsTypeOK, roomVars, expiryVars, SocketOf
<1>3. CASE s \notin Members(r)
  BY <1>1, <1>3, RequestType
     DEF broadcastTyping, ChatRoomsTypeOK, roomVars, expiryVars, SocketOf
<1> QED BY <1>2, <1>3

LEMMA HandlerType ==
  ASSUME ChatRoomsTypeOK, NEW s \in Socket, Handler(s)
  PROVE  ChatRoomsTypeOK'
BY handleJoinRoomType, handleLeaveRoomType, handleSendMessageType, broadcastTypingType,
   handleDisconnectType DEF Handler

-----------------------------------------------------------------------------
(* Type correctness of the pages.                                            *)
LEMMA SessionFields ==
  ASSUME ChatSocketTypeOK, NEW p \in Page
  PROVE  /\ session[p] \in Session
         /\ session[p].room \in RoomId \cup {None}
         /\ session[p].name \in Name \cup {None}
         /\ session[p].roster \subseteq Name
         /\ session[p].typing \subseteq Name
         /\ session[p].isTyping \in BOOLEAN
         /\ session[p].room = None <=> session[p].name = None
         /\ session[p].phase = "joining" => session[p].room # None
         /\ session[p].phase = "closed" => session[p].room = None
BY DEF ChatSocketTypeOK, Session

LEMMA BecomeType ==
  ASSUME ChatSocketTypeOK, NEW p \in Page, NEW x \in Session, Become(p, x),
         x.room = None <=> x.name = None,
         x.phase = "joining" => x.room # None,
         x.phase = "closed" => x.room = None
  PROVE  /\ session' \in [Page -> Session]
         /\ \A q \in Page :
              /\ session'[q].room = None <=> session'[q].name = None
              /\ session'[q].phase = "joining" => session'[q].room # None
              /\ session'[q].phase = "closed" => session'[q].room = None
BY DEF ChatSocketTypeOK, Become

LEMMA CurrentSocket ==
  ASSUME ChatRoomsTypeOK, NEW p \in Page
  PROVE  SocketOf(p) \in Socket /\ toServer[SocketOf(p)] \in Seq(ToServer)
BY DEF ChatRoomsTypeOK

LEMMA SendType ==
  ASSUME ChatRoomsTypeOK, NEW p \in Page, NEW ms \in Seq(ToServer), Send(p, ms)
  PROVE  toServer' \in [Socket -> Seq(ToServer)]
BY CurrentSocket, ShortSequences DEF ChatRoomsTypeOK, Send

LEMMA ReceiveType ==
  ASSUME ChatRoomsTypeOK, NEW p \in Page, NEW type, Receive(p, type)
  PROVE  /\ Head(toPage[p]) \in ToPage
         /\ Head(toPage[p]).type = type
         /\ toPage' \in [Page -> Seq(ToPage)]
BY HeadTail DEF ChatRoomsTypeOK, Receive

LEMMA StopTypingType ==
  ASSUME NEW x \in Session
  PROVE  /\ StopTyping(x) \in Seq(ToServer)
         /\ typingStopped(x) \in Session
         /\ typingStopped(x).room = x.room
         /\ typingStopped(x).name = x.name
         /\ typingStopped(x).phase = x.phase
         /\ typingStopped(x).roster = x.roster
<1>1. x.room # None => [type |-> "TYPING", room |-> x.room, isTyping |-> FALSE] \in ToServer
  BY ToServerMessages DEF Session
<1> QED
  BY <1>1, ShortSequences DEF StopTyping, Typing, typingStopped, Session

\* A lost connection, or a page opened again, opens a socket of the same page.
LEMMA ReconnectType ==
  ASSUME ChatRoomsTypeOK, NEW p \in Page, NEW lost \in SUBSET Nat,
         NEW ms \in Seq(ToServer), Reconnect(p, lost, ms)
  PROVE  /\ connection' \in [Page -> Nat]
         /\ \A q \in Page : SocketOf(q)' \in Socket
         /\ toServer' \in [Socket -> Seq(ToServer)]
         /\ toPage' \in [Page -> Seq(ToPage)]
<1>1. \A q \in Page : connection[q] \in 1..MaxConnections[q] /\ connection[q] \in Nat
  BY SocketFields DEF ChatRoomsTypeOK, SocketOf
<1>2. \A q \in Page : connection'[q] \in 1..MaxConnections[q] /\ connection'[q] \in Nat
  <2> SUFFICES ASSUME NEW q \in Page
               PROVE  connection'[q] \in 1..MaxConnections[q] /\ connection'[q] \in Nat
    OBVIOUS
  <2>1. connection'[q] = IF q = p THEN connection[q] + 1 ELSE connection[q]
    BY DEF ChatRoomsTypeOK, Reconnect
  <2>2. connection[p] < MaxConnections[p] /\ MaxConnections[p] \in Nat
    BY ChatAssumption DEF Reconnect
  <2> QED BY <1>1, <2>1, <2>2
<1>3. connection' \in [Page -> Nat] /\ \A q \in Page : SocketOf(q)' \in Socket
  BY <1>2, SocketMade DEF ChatRoomsTypeOK, Reconnect, SocketOf
<1>4. toServer' \in [Socket -> Seq(ToServer)]
  <2> DEFINE s == SocketOf(p)
  <2>1. PICK n \in lost :
          toServer' = [toServer EXCEPT
                         ![s] = SubSeq(@, 1, Len(@) - n) \o <<[type |-> "disconnect"]>>,
                         ![<<p, connection[p] + 1>>] = ms]
    BY DEF Reconnect
  <2>2. SubSeq(toServer[s], 1, Len(toServer[s]) - n) \in Seq(ToServer)
    BY CurrentSocket
  <2>3. SubSeq(toServer[s], 1, Len(toServer[s]) - n) \o <<[type |-> "disconnect"]>> \in Seq(ToServer)
    BY <2>2, ShortSequences, ToServerMessages
  <2> QED
    BY <2>1, <2>3 DEF ChatRoomsTypeOK
<1> QED
  BY <1>3, <1>4, ShortSequences DEF ChatRoomsTypeOK, Reconnect

LEMMA RoomVarsType ==
  ASSUME ChatRoomsTypeOK, UNCHANGED roomVars,
         connection' \in [Page -> Nat],
         \A q \in Page : SocketOf(q)' \in Socket,
         toServer' \in [Socket -> Seq(ToServer)],
         toPage' \in [Page -> Seq(ToPage)]
  PROVE  ChatRoomsTypeOK'
BY DEF ChatRoomsTypeOK, roomVars, expiryVars

LEMMA SameSockets ==
  ASSUME ChatRoomsTypeOK, connection' = connection
  PROVE  connection' \in [Page -> Nat] /\ \A q \in Page : SocketOf(q)' \in Socket
BY DEF ChatRoomsTypeOK, SocketOf

LEMMA joinRoomType ==
  ASSUME ChatRoomsTypeOK, ChatSocketTypeOK, NEW p \in Page, joinRoom(p)
  PROVE  ChatRoomsTypeOK' /\ ChatSocketTypeOK'
<1>1. PICK r \in RoomId, n \in Name :
        /\ Become(p, [session[p] EXCEPT !.phase = "joining", !.room = r, !.name = n])
        /\ Send(p, <<[type |-> "JOIN_ROOM", room |-> r, name |-> n]>>)
  <2>1. PICK r \in RoomId, n \in Name :
          LET x == [session[p] EXCEPT !.phase = "joining", !.room = r, !.name = n] IN
            Become(p, x) /\ Send(p, <<JoinRoom(x)>>)
    BY DEF joinRoom
  <2>2. JoinRoom([session[p] EXCEPT !.phase = "joining", !.room = r, !.name = n])
          = [type |-> "JOIN_ROOM", room |-> r, name |-> n]
    BY SessionFields DEF JoinRoom, Session
  <2> QED BY <2>1, <2>2
<1> DEFINE x == [session[p] EXCEPT !.phase = "joining", !.room = r, !.name = n]
<1>2. x \in Session /\ x.phase = "joining" /\ x.room = r /\ x.name = n
  BY SessionFields DEF Session
<1>3. r # None /\ n # None
  BY ChatAssumption
<1>4. Become(p, x)
  BY <1>1
<1>5. toServer' \in [Socket -> Seq(ToServer)]
  <2>1. <<[type |-> "JOIN_ROOM", room |-> r, name |-> n]>> \in Seq(ToServer)
    BY ToServerMessages, ShortSequences
  <2> QED BY <1>1, <2>1, SendType
<1> HIDE DEF x
<1>6. ChatRoomsTypeOK'
  BY <1>5, RoomVarsType, SameSockets DEF joinRoom, ChatRoomsTypeOK
<1>7. starts' \in [Page -> Nat]
  BY DEF joinRoom, ChatSocketTypeOK
<1> QED
  BY <1>2, <1>3, <1>4, <1>6, <1>7, BecomeType DEF joinRoom, ChatSocketTypeOK

LEMMA leaveRoomType ==
  ASSUME ChatRoomsTypeOK, ChatSocketTypeOK, NEW p \in Page, leaveRoom(p)
  PROVE  ChatRoomsTypeOK' /\ ChatSocketTypeOK'
<1> DEFINE x == [Fresh EXCEPT !.isTyping = session[p].isTyping]
<1>1. x \in Session /\ x.phase = "idle" /\ x.room = None /\ x.name = None
  BY SessionFields DEF Session, Fresh
<1>2. Become(p, x)
  BY DEF leaveRoom
<1>3. toServer' \in [Socket -> Seq(ToServer)]
  <2> DEFINE ms == IF session[p].room = None THEN <<>>
                   ELSE <<[type |-> "LEAVE_ROOM", room |-> session[p].room]>>
  <2>1. ms \in Seq(ToServer)
    BY SessionFields, ToServerMessages, ShortSequences
  <2>2. Send(p, ms)
    BY DEF leaveRoom
  <2> HIDE DEF ms
  <2> QED BY <2>1, <2>2, SendType
<1> HIDE DEF x
<1>4. ChatRoomsTypeOK'
  BY <1>3, RoomVarsType, SameSockets DEF leaveRoom, ChatRoomsTypeOK
<1> QED
  BY <1>1, <1>2, <1>4, BecomeType DEF leaveRoom, ChatSocketTypeOK

LEMMA sendMessageType ==
  ASSUME ChatRoomsTypeOK, ChatSocketTypeOK, NEW p \in Page, sendMessage(p)
  PROVE  ChatRoomsTypeOK' /\ ChatSocketTypeOK'
<1>1. session[p].room \in RoomId
  BY SessionFields DEF sendMessage, Act
<1>2. toServer' \in [Socket -> Seq(ToServer)]
  <2> DEFINE ms == <<[type |-> "SEND_MESSAGE", room |-> session[p].room]>> \o StopTyping(session[p])
  <2>1. ms \in Seq(ToServer)
    BY <1>1, SessionFields, StopTypingType, ToServerMessages, ShortSequences
  <2>2. Send(p, ms)
    BY DEF sendMessage
  <2> HIDE DEF ms
  <2> QED BY <2>1, <2>2, SendType
<1>3. ChatRoomsTypeOK'
  BY <1>2, RoomVarsType, SameSockets DEF sendMessage, Act, ChatRoomsTypeOK
<1>4. acts' \in Nat
  BY DEF sendMessage, Act, ChatSocketTypeOK
<1> QED
  BY <1>3, <1>4, SessionFields, StopTypingType, BecomeType DEF sendMessage, Act, ChatSocketTypeOK

LEMMA notifyTypingType ==
  ASSUME ChatRoomsTypeOK, ChatSocketTypeOK, NEW p \in Page, notifyTyping(p)
  PROVE  ChatRoomsTypeOK' /\ ChatSocketTypeOK'
<1>1. session[p].room \in RoomId
  BY SessionFields DEF notifyTyping, Act
<1>2. toServer' \in [Socket -> Seq(ToServer)]
  <2> DEFINE ms == IF session[p].isTyping THEN <<>> ELSE <<Typing(session[p], TRUE)>>
  <2>1. ms \in Seq(ToServer)
    BY <1>1, ToServerMessages, ShortSequences DEF Typing
  <2>2. Send(p, ms)
    BY DEF notifyTyping
  <2> HIDE DEF ms
  <2> QED BY <2>1, <2>2, SendType
<1>3. ChatRoomsTypeOK'
  BY <1>2, RoomVarsType, SameSockets DEF notifyTyping, Act, ChatRoomsTypeOK
<1>4. acts' \in Nat
  BY DEF notifyTyping, Act, ChatSocketTypeOK
<1> DEFINE x == [session[p] EXCEPT !.isTyping = TRUE, !.typingTimer = TRUE]
<1>5. x \in Session /\ x.phase = session[p].phase /\ x.room = session[p].room
        /\ x.name = session[p].name
  BY SessionFields DEF Session
<1>6. Become(p, x)
  BY DEF notifyTyping
<1> HIDE DEF x
<1> QED
  BY <1>3, <1>4, <1>5, <1>6, SessionFields, BecomeType DEF notifyTyping, Act, ChatSocketTypeOK

LEMMA typingTimerFiresType ==
  ASSUME ChatRoomsTypeOK, ChatSocketTypeOK, NEW p \in Page, typingTimerFires(p)
  PROVE  ChatRoomsTypeOK' /\ ChatSocketTypeOK'
<1>1. toServer' \in [Socket -> Seq(ToServer)]
  BY SessionFields, StopTypingType, SendType DEF typingTimerFires
<1>2. ChatRoomsTypeOK'
  BY <1>1, RoomVarsType, SameSockets DEF typingTimerFires, ChatRoomsTypeOK
<1> QED
  BY <1>2, SessionFields, StopTypingType, BecomeType DEF typingTimerFires, ChatSocketTypeOK

LEMMA RejoinType ==
  ASSUME ChatSocketTypeOK, NEW p \in Page
  PROVE  /\ Rejoin(session[p]) \in Seq(ToServer)
         /\ onConnect(session[p]) \in Session
         /\ onConnect(session[p]).room = session[p].room
         /\ onConnect(session[p]).name = session[p].name
         /\ onConnect(session[p]).phase = IF session[p].room = None THEN session[p].phase
                                          ELSE "joining"
<1>1. session[p].room # None => JoinRoom(session[p]) \in ToServer
  BY SessionFields, ToServerMessages DEF JoinRoom
<1> QED
  BY <1>1, SessionFields, ShortSequences DEF Rejoin, onConnect, Session

LEMMA pageLeftType ==
  ASSUME ChatRoomsTypeOK, ChatSocketTypeOK, NEW p \in Page, pageLeft(p)
  PROVE  ChatRoomsTypeOK' /\ ChatSocketTypeOK'
<1>1. Reconnect(p, {0}, <<>>) /\ {0} \in SUBSET Nat /\ <<>> \in Seq(ToServer)
  BY ShortSequences DEF pageLeft
<1>2. ChatRoomsTypeOK'
  BY <1>1, ReconnectType, RoomVarsType DEF pageLeft
<1>3. Fresh \in Session /\ Fresh.room = None /\ Fresh.name = None /\ Fresh.phase = "idle"
  BY DEF Fresh, Session
<1> QED
  BY <1>2, <1>3, BecomeType DEF pageLeft, ChatSocketTypeOK

LEMMA connectionLostType ==
  ASSUME ChatRoomsTypeOK, ChatSocketTypeOK, NEW p \in Page, connectionLost(p)
  PROVE  ChatRoomsTypeOK' /\ ChatSocketTypeOK'
<1>1. Reconnect(p, 0..Len(toServer[SocketOf(p)]), Rejoin(session[p]))
        /\ 0..Len(toServer[SocketOf(p)]) \in SUBSET Nat
  BY DEF connectionLost
<1>2. ChatRoomsTypeOK'
  BY <1>1, RejoinType, ReconnectType, RoomVarsType DEF connectionLost
<1>3. drops' \in Nat
  BY DEF connectionLost, ChatSocketTypeOK
<1> QED
  BY <1>2, <1>3, RejoinType, SessionFields, BecomeType DEF connectionLost, ChatSocketTypeOK

\* Messages that change at most who is there and who types.
LEMMA ListsType ==
  ASSUME ChatRoomsTypeOK, ChatSocketTypeOK, NEW p \in Page,
         NEW type, Receive(p, type), NEW x \in Session, Become(p, x), interrupted' \subseteq Page,
         x.room = session[p].room, x.name = session[p].name,
         x.phase \in {session[p].phase, "joined", "idle"}
  PROVE  ChatRoomsTypeOK' /\ ChatSocketTypeOK'
<1>1. ChatRoomsTypeOK'
  BY ReceiveType, RoomVarsType, SameSockets DEF Receive, ChatRoomsTypeOK
<1> QED
  BY <1>1, SessionFields, BecomeType DEF Receive, ChatSocketTypeOK

LEMMA onJoinSuccessType ==
  ASSUME ChatRoomsTypeOK, ChatSocketTypeOK, NEW p \in Page, onJoinSuccess(p) \/ onJoinError(p)
  PROVE  ChatRoomsTypeOK' /\ ChatSocketTypeOK'
<1>1. CASE onJoinSuccess(p)
  <2> DEFINE x == [session[p] EXCEPT !.phase = "joined", !.roster = Head(toPage[p]).participants]
  <2>1. x \in Session /\ x.phase = "joined" /\ x.room = session[p].room /\ x.name = session[p].name
    BY <1>1, SessionFields, ReceiveType, ToPageFields DEF onJoinSuccess, Session
  <2>2. Become(p, x) /\ Receive(p, "JOIN_SUCCESS") /\ interrupted' \subseteq Page
    BY <1>1 DEF onJoinSuccess, ChatSocketTypeOK
  <2> HIDE DEF x
  <2> QED BY <2>1, <2>2, ListsType
<1>2. CASE onJoinError(p)
  <2> DEFINE x == [session[p] EXCEPT !.phase = "idle"]
  <2>1. x \in Session /\ x.phase = "idle" /\ x.room = session[p].room /\ x.name = session[p].name
    BY SessionFields DEF Session
  <2>2. Become(p, x) /\ Receive(p, "JOIN_ERROR") /\ interrupted' \subseteq Page
    BY <1>2 DEF onJoinError, ChatSocketTypeOK
  <2> HIDE DEF x
  <2> QED BY <2>1, <2>2, ListsType
<1> QED BY <1>1, <1>2

LEMMA onUserJoinedType ==
  ASSUME ChatRoomsTypeOK, ChatSocketTypeOK, NEW p \in Page, onUserJoined(p)
  PROVE  ChatRoomsTypeOK' /\ ChatSocketTypeOK'
<1> DEFINE x == [session[p] EXCEPT !.roster = @ \cup {Head(toPage[p]).name}]
<1>1. x \in Session /\ x.phase = session[p].phase /\ x.room = session[p].room
        /\ x.name = session[p].name
  BY SMTT(30), SessionFields, ReceiveType, ToPageFields DEF onUserJoined, Session
<1>2. Become(p, x) /\ Receive(p, "USER_JOINED") /\ interrupted' \subseteq Page
  BY DEF onUserJoined, ChatSocketTypeOK
<1> HIDE DEF x
<1> QED BY <1>1, <1>2, ListsType

LEMMA onUserLeftType ==
  ASSUME ChatRoomsTypeOK, ChatSocketTypeOK, NEW p \in Page, onUserLeft(p)
  PROVE  ChatRoomsTypeOK' /\ ChatSocketTypeOK'
<1> DEFINE n == Head(toPage[p]).name
           x == [session[p] EXCEPT !.roster = @ \ {n}, !.typing = @ \ {n}]
<1>1. x \in Session /\ x.phase = session[p].phase /\ x.room = session[p].room
        /\ x.name = session[p].name
  BY SessionFields DEF Session
<1>2. Become(p, x) /\ Receive(p, "USER_LEFT") /\ interrupted' \subseteq Page
  BY DEF onUserLeft, ChatSocketTypeOK
<1> HIDE DEF x
<1> QED BY <1>1, <1>2, ListsType

LEMMA onUserTypingType ==
  ASSUME ChatRoomsTypeOK, ChatSocketTypeOK, NEW p \in Page, onUserTyping(p)
  PROVE  ChatRoomsTypeOK' /\ ChatSocketTypeOK'
<1> DEFINE m == Head(toPage[p])
           x == [session[p] EXCEPT !.typing = IF m.isTyping THEN @ \cup {m.name}
                                              ELSE @ \ {m.name}]
<1>1. m.name \in Name
  BY ReceiveType, ToPageFields DEF onUserTyping
<1>2. x \in Session /\ x.phase = session[p].phase /\ x.room = session[p].room
        /\ x.name = session[p].name
  BY <1>1, SessionFields DEF Session
<1>3. Become(p, x) /\ Receive(p, "USER_TYPING") /\ interrupted' \subseteq Page
  BY DEF onUserTyping, ChatSocketTypeOK
<1> HIDE DEF x
<1> QED BY <1>2, <1>3, ListsType

LEMMA onNewMessageType ==
  ASSUME ChatRoomsTypeOK, ChatSocketTypeOK, NEW p \in Page, onNewMessage(p)
  PROVE  ChatRoomsTypeOK' /\ ChatSocketTypeOK'
<1>1. ChatRoomsTypeOK'
  BY ReceiveType, RoomVarsType, SameSockets DEF onNewMessage, Receive, ChatRoomsTypeOK
<1> QED
  BY <1>1 DEF onNewMessage, Receive, ChatSocketTypeOK

LEMMA onRoomClosedType ==
  ASSUME ChatRoomsTypeOK, ChatSocketTypeOK, NEW p \in Page, onRoomClosed(p)
  PROVE  ChatRoomsTypeOK' /\ ChatSocketTypeOK'
<1> DEFINE x == [session[p] EXCEPT !.phase = "closed", !.room = None, !.name = None]
<1>1. x \in Session /\ x.phase = "closed" /\ x.room = None /\ x.name = None
  BY SessionFields DEF Session
<1>2. Become(p, x) /\ Receive(p, "ROOM_CLOSED")
  BY DEF onRoomClosed
<1> HIDE DEF x
<1>3. ChatRoomsTypeOK'
  BY <1>2, ReceiveType, RoomVarsType, SameSockets DEF Receive, ChatRoomsTypeOK
<1> QED
  BY <1>1, <1>2, <1>3, BecomeType DEF onRoomClosed, Receive, ChatSocketTypeOK

LEMMA UserStepType ==
  ASSUME ChatRoomsTypeOK, ChatSocketTypeOK, NEW p \in Page, UserStep(p)
  PROVE  ChatRoomsTypeOK' /\ ChatSocketTypeOK'
BY joinRoomType, leaveRoomType, sendMessageType, notifyTypingType, typingTimerFiresType,
   pageLeftType, connectionLostType DEF UserStep

LEMMA PageHandlerType ==
  ASSUME ChatRoomsTypeOK, ChatSocketTypeOK, NEW p \in Page, PageHandler(p)
  PROVE  ChatRoomsTypeOK' /\ ChatSocketTypeOK'
BY onJoinSuccessType, onUserJoinedType, onUserLeftType, onUserTypingType, onNewMessageType,
   onRoomClosedType DEF PageHandler

LEMMA restartType ==
  ASSUME TypeOK, restart
  PROVE  TypeOK'
<1> USE DEF TypeOK
<1>1. \A q \in Page : connection[q] \in 1..MaxConnections[q] /\ connection[q] \in Nat
  BY SocketFields DEF ChatRoomsTypeOK, SocketOf
<1>2. \A q \in Page : connection'[q] \in 1..MaxConnections[q] /\ connection'[q] \in Nat
  <2> SUFFICES ASSUME NEW q \in Page
               PROVE  connection'[q] \in 1..MaxConnections[q] /\ connection'[q] \in Nat
    OBVIOUS
  <2>1. connection'[q] = connection[q] + 1 /\ connection[q] < MaxConnections[q]
    BY DEF restart
  <2> QED BY <1>1, <2>1, ChatAssumption
<1>3. connection' \in [Page -> Nat] /\ \A q \in Page : SocketOf(q)' \in Socket
  BY <1>2, SocketMade DEF restart, SocketOf
<1>4. toServer' \in [Socket -> Seq(ToServer)]
  BY SocketFields, RejoinType, ShortSequences DEF restart
<1>5. ChatRoomsTypeOK'
  BY <1>3, <1>4, ShortSequences DEF restart, ChatRoomsTypeOK, Nobody
<1>6. ChatSocketTypeOK'
  <2>1. \A p \in Page : session'[p] = onConnect(session[p])
    BY DEF restart
  <2>2. session' \in [Page -> Session]
    BY RejoinType DEF restart
  <2>3. ASSUME NEW p \in Page
        PROVE  /\ session'[p].room = None <=> session'[p].name = None
               /\ session'[p].phase = "joining" => session'[p].room # None
               /\ session'[p].phase = "closed" => session'[p].room = None
    BY <2>1, RejoinType, SessionFields
  <2> QED
    BY <2>2, <2>3 DEF restart, ChatSocketTypeOK
<1> QED
  BY <1>5, <1>6 DEF restart

LEMMA InitType == Init => TypeOK
<1> SUFFICES ASSUME Init PROVE TypeOK
  OBVIOUS
<1>1. ChatRoomsTypeOK
  <2>1. \A p \in Page : SocketOf(p) \in Socket
    BY SocketMade, ChatAssumption DEF Init, ChatRoomsInit, SocketOf
  <2> QED
    BY <2>1, ShortSequences DEF Init, ChatRoomsInit, ChatRoomsTypeOK, Nobody
<1>2. Fresh \in Session /\ Fresh.room = None /\ Fresh.name = None /\ Fresh.phase = "idle"
  BY DEF Fresh, Session
<1>3. ChatSocketTypeOK
  BY <1>2 DEF Init, ChatSocketInit, ChatSocketTypeOK
<1> QED
  BY <1>1, <1>3 DEF Init, TypeOK

LEMMA TypeStep ==
  ASSUME TypeOK, [Next]_vars
  PROVE  TypeOK'
<1>1. CASE UNCHANGED vars
  BY <1>1 DEF TypeOK, ChatRoomsTypeOK, ChatSocketTypeOK, vars, socketVars, roomVars, expiryVars,
              sessionVars, SocketOf
<1>2. ASSUME NEW p \in Page, PageStep(p) \/ (UserStep(p) /\ UNCHANGED <<restarts, overtaken>>)
      PROVE  TypeOK'
  BY <1>2, PageHandlerType, UserStepType DEF TypeOK, PageStep
<1>3. ASSUME UNCHANGED sessionVars, ChatRoomsTypeOK' PROVE ChatRoomsTypeOK' /\ ChatSocketTypeOK'
  BY <1>3 DEF TypeOK, ChatSocketTypeOK, sessionVars
<1>4. ASSUME NEW s \in Socket, ServerStep(s) PROVE TypeOK'
  BY <1>3, <1>4, HandlerType DEF TypeOK, ServerStep
<1>5. ASSUME NEW h \in suspended, Resume(h) PROVE TypeOK'
  <2>1. ChatRoomsTypeOK'
    BY <1>5, roomFoundType, passwordComparedType DEF TypeOK, Resume, Resumed
  <2>2. overtaken' \subseteq Socket
    BY <1>5, SuspendedFields DEF TypeOK, Resume
  <2> QED
    BY <1>3, <1>5, <2>1, <2>2 DEF TypeOK, Resume
<1>6. ASSUME NEW r \in RoomId, Close(r) \/ Outside(r) PROVE TypeOK'
  BY <1>3, <1>6, createRoomType, forceCloseRoomType DEF TypeOK, Close, Outside, Expiry
<1>7. CASE restart
  BY <1>7, restartType
<1> QED
  BY <1>1, <1>2, <1>4, <1>5, <1>6, <1>7 DEF Next

\* Every state of the pages, the sockets and the server is of its type, for any pages,
\* names and rooms; also where a page is told of the end of a room that it has left.
THEOREM TypeCorrect == Spec => []TypeOK
BY InitType, TypeStep, PTL DEF Spec

-----------------------------------------------------------------------------
(* Names, timers and counts.  Each of these invariants is inductive together *)
(* with the types: a room changes only when somebody is admitted or removed  *)
(* or when it is closed.                                                     *)
\* What a step does to who is in the rooms and to what depends on it.
LEMMA MembersStep ==
  ASSUME TypeOK, Next
  PROVE  \/ UNCHANGED <<participants, timers, firing, chatStats>>
         \/ \E h \in suspended : /\ Resume(h) /\ h.stage = "checking"
                                 /\ ~nameTaken(h) /\ admit(h)
         \/ \E s \in Socket, from \in SUBSET RoomId :
              /\ ServerStep(s) /\ removeParticipant(s, from)
              /\ UNCHANGED <<expiryVars, suspended>>
         \/ \E r \in RoomId : Close(r) \/ Outside(r)
         \/ restart
<1>1. ASSUME NEW p \in Page, PageStep(p) \/ UserStep(p)
      PROVE  UNCHANGED <<participants, timers, firing, chatStats>>
  BY <1>1 DEF PageStep, PageHandler, UserStep, onJoinSuccess, onJoinError, onUserJoined,
              onUserLeft, onUserTyping, onNewMessage, onRoomClosed, Receive, joinRoom, leaveRoom,
              sendMessage, notifyTyping, typingTimerFires, pageLeft, connectionLost, Act,
              roomVars, expiryVars
<1>2. ASSUME NEW s \in Socket, ServerStep(s)
      PROVE  \/ UNCHANGED <<participants, timers, firing, chatStats>>
             \/ \E from \in SUBSET RoomId :
                  /\ ServerStep(s) /\ removeParticipant(s, from)
                  /\ UNCHANGED <<expiryVars, suspended>>
  <2>1. CASE handleLeaveRoom(s)
    <3>1. {Head(toServer[s]).room} \in SUBSET RoomId
      BY <2>1, RequestType, ToServerFields DEF handleLeaveRoom, TypeOK
    <3> QED
      BY <1>2, <2>1, <3>1 DEF handleLeaveRoom
  <2>2. CASE handleDisconnect(s)
    <3>1. removeParticipant(s, RoomId) /\ UNCHANGED <<expiryVars, suspended>>
      BY <2>2 DEF handleDisconnect
    <3> QED BY <1>2, <3>1
  <2>3. CASE handleJoinRoom(s) \/ handleSendMessage(s) \/ broadcastTyping(s)
    BY <2>3 DEF handleJoinRoom, handleSendMessage, broadcastTyping, roomVars, expiryVars
  <2> QED BY <1>2, <2>1, <2>2, <2>3 DEF ServerStep, Handler
<1>3. ASSUME NEW h \in suspended, Resume(h)
      PROVE  \/ UNCHANGED <<participants, timers, firing, chatStats>>
             \/ h.stage = "checking" /\ ~nameTaken(h) /\ admit(h)
  BY <1>3 DEF Resume, Resumed, roomFound, passwordCompared, Refuse, expiryVars
<1> QED
  BY <1>1, <1>2, <1>3 DEF Next

LEMMA NamesUniqueStep ==
  ASSUME TypeOK, NamesUnique, [Next]_vars
  PROVE  NamesUnique'
<1>1. CASE UNCHANGED participants
  BY <1>1 DEF NamesUnique, Members
<1>2. ASSUME NEW h \in suspended, ~nameTaken(h), admit(h) PROVE NamesUnique'
  BY <1>2, AdmitMembers, SuspendedFields, MemberName
     DEF NamesUnique, nameTaken, TypeOK, Members
<1>3. ASSUME NEW s \in Socket, NEW from \in SUBSET RoomId, removeParticipant(s, from)
      PROVE  NamesUnique'
  <2>1. \A r \in RoomId : /\ Members(r)' \subseteq Members(r)
                          /\ \A t \in Members(r)' : participants'[r][t] = participants[r][t]
    BY <1>3, RemoveMembers DEF TypeOK
  <2> QED BY <2>1 DEF NamesUnique
<1>4. ASSUME NEW r \in RoomId, forceCloseRoom(r) PROVE NamesUnique'
  BY <1>4 DEF forceCloseRoom, NamesUnique, Members, Nobody, TypeOK, ChatRoomsTypeOK
<1>5. ASSUME NEW r \in RoomId, Close(r) \/ Outside(r) PROVE NamesUnique'
  BY <1>1, <1>4, <1>5 DEF Close, Outside, Expiry, fire, createRoom, timePasses, sweep
<1>6. CASE restart
  BY <1>6 DEF restart, NamesUnique, Members, Nobody
<1> QED
  BY <1>1, <1>2, <1>3, <1>5, <1>6, MembersStep DEF vars, roomVars

\* Nobody in a room goes by the name of another, whatever the joins, password checks,
\* lost connections and restarts that overlap: names are looked up after the last await.
THEOREM UniqueNames == Spec => []NamesUnique
<1>1. Init => NamesUnique
  BY DEF Init, ChatRoomsInit, NamesUnique, Members, Nobody
<1> QED
  BY <1>1, TypeCorrect, NamesUniqueStep, PTL DEF Spec

LEMMA RoomsKeptStep ==
  ASSUME TypeOK, RoomsKept, [Next]_vars
  PROVE  RoomsKept'
<1>1. CASE UNCHANGED <<participants, timers, firing, chatStats>>
  BY <1>1 DEF RoomsKept, Members
<1>2. ASSUME NEW h \in suspended, admit(h) PROVE RoomsKept'
  <2>1. PICK r \in RoomId : r = h.room
    BY SuspendedFields DEF TypeOK
  <2>2. r \in timers' \/ firing'[r] > 0
    BY <1>2, <2>1 DEF admit, scheduleExpiry, TypeOK, ChatRoomsTypeOK
  <2>3. Members(r)' = Members(r) \cup {h.socket}
    BY <1>2, <2>1, AdmitMembers DEF TypeOK
  <2>4. chatStats' = [chatStats EXCEPT ![r] = Cardinality(Members(r) \cup {h.socket})]
    BY <1>2, <2>1 DEF admit
  <2>5. ASSUME NEW q \in RoomId \ {r}
        PROVE  /\ Members(q)' = Members(q) /\ chatStats'[q] = chatStats[q]
               /\ q \in timers => q \in timers'
               /\ firing'[q] = firing[q]
    BY <1>2, <2>1, AdmitMembers DEF admit, scheduleExpiry, TypeOK, ChatRoomsTypeOK, Members
  <2>6. chatStats'[r] = IF Members(r)' = {} THEN None ELSE Cardinality(Members(r)')
    <3>1. Members(r) \cup {h.socket} # {}
      OBVIOUS
    <3> QED BY <2>3, <2>4, <3>1 DEF TypeOK, ChatRoomsTypeOK
  <2> QED BY <2>2, <2>5, <2>6 DEF RoomsKept
<1>3. ASSUME NEW s \in Socket, NEW from \in SUBSET RoomId, removeParticipant(s, from),
             UNCHANGED expiryVars
      PROVE  RoomsKept'
  <2> SUFFICES ASSUME NEW r \in RoomId
               PROVE  /\ Members(r)' # {} => r \in timers \/ firing[r] > 0
                      /\ chatStats'[r] = IF Members(r)' = {} THEN None
                                         ELSE Cardinality(Members(r)')
    BY <1>3 DEF RoomsKept, expiryVars
  <2>1. Members(r)' = IF r \in from THEN Members(r) \ {s} ELSE Members(r)
    BY <1>3, RemoveMembers DEF TypeOK
  <2>2. CASE r \notin from \/ s \notin Members(r)
    <3>1. Members(r)' = Members(r) /\ chatStats'[r] = chatStats[r]
      BY <1>3, <2>1, <2>2 DEF removeParticipant
    <3> QED BY <3>1 DEF RoomsKept
  <2>3. CASE r \in from /\ s \in Members(r)
    <3>1. IsFiniteSet(Members(r)) /\ Cardinality(Members(r)) \in Nat
      BY MembersFinite DEF TypeOK
    <3>2. chatStats[r] = Cardinality(Members(r)) /\ chatStats[r] # None
      BY <2>3, <3>1, ChatAssumption DEF RoomsKept
    <3>3. chatStats'[r] = IF Members(r) = {s} THEN None ELSE Cardinality(Members(r)) - 1
      BY <1>3, <2>3, <3>2 DEF removeParticipant
    <3>4. Cardinality(Members(r) \ {s}) = Cardinality(Members(r)) - 1
      BY <2>3, <3>1, FS_RemoveElement
    <3>5. Members(r)' = Members(r) \ {s} /\ (Members(r) \ {s} = {} <=> Members(r) = {s})
      BY <2>1, <2>3
    <3>6. Members(r) # {}
      BY <2>3
    <3> QED BY <3>3, <3>4, <3>5, <3>6 DEF RoomsKept
  <2> QED BY <2>2, <2>3
<1>4. ASSUME NEW r \in RoomId, Close(r) \/ Outside(r) PROVE RoomsKept'
  <2>1. CASE forceCloseRoom(r)
    BY <2>1 DEF forceCloseRoom, RoomsKept, Members, Nobody, TypeOK, ChatRoomsTypeOK
  <2>2. CASE fire(r)
    <3>1. \A q \in RoomId : Members(q)' = Members(q)
      BY <2>2 DEF fire, Members
    <3>2. \A q \in RoomId : q \in timers \/ firing[q] > 0 => q \in timers' \/ firing'[q] > 0
      BY <2>2 DEF fire, TypeOK, ChatRoomsTypeOK
    <3> QED BY <2>2, <3>1, <3>2 DEF fire, RoomsKept
  <2>3. CASE createRoom(r)
    BY <2>3 DEF createRoom, RoomsKept, Members
  <2>4. CASE timePasses(r) \/ sweep(r)
    BY <1>1, <2>4 DEF timePasses, sweep
  <2> QED BY <1>4, <2>1, <2>2, <2>3, <2>4 DEF Close, Outside, Expiry
<1>5. CASE restart
  BY <1>5 DEF restart, RoomsKept, Members, Nobody
<1> QED
  BY <1>1, <1>2, <1>3, <1>4, <1>5, MembersStep DEF vars, roomVars, expiryVars

\* A room that people are in has a timer or is being closed, and the dashboard counts
\* them: every admission arms the timer anew, for a room created before a restart too.
THEOREM KeptRooms == Spec => []RoomsKept
<1>1. Init => RoomsKept
  BY DEF Init, ChatRoomsInit, RoomsKept, Members, Nobody
<1> QED
  BY <1>1, TypeCorrect, RoomsKeptStep, PTL DEF Spec

-----------------------------------------------------------------------------
(* Who is where.  A ROOM_CLOSED names no room.  A page that has left a room  *)
(* and joins the next while the end of the first is still on its way takes   *)
(* it for the end of the next, so the theorems below are about the           *)
(* behaviours in which that does not happen.                                 *)
ClosedInTurn == \A p \in Page : onRoomClosed(p) => session[p].phase # "joining"

Answers == {"JOIN_SUCCESS", "JOIN_ERROR"}

Leaves(s, r) == \E m \in ToSet(toServer[s]) : m.type = "LEAVE_ROOM" /\ m.room = r

Waits(s) == \E h \in suspended : h.socket = s

\* A socket has one join on its way at most, waits for one at most, and is then in no
\* room but those that it leaves before.
SocketInv(s) ==
  /\ s[2] > connection[s[1]] =>
       toServer[s] = <<>> /\ ~Waits(s) /\ \A r \in RoomId : s \notin Members(r)
  /\ s = SocketOf(s[1]) => ~Has(toServer[s], {"disconnect"})
  /\ Has(toServer[s], {"JOIN_ROOM"}) => ~Waits(s)
  /\ Apart(toServer[s], {"JOIN_ROOM"}, {"JOIN_ROOM", "LEAVE_ROOM"})
  /\ Waits(s) => \A r \in RoomId : s \notin Members(r)
  /\ Has(toServer[s], {"JOIN_ROOM"}) => \A r \in RoomId : s \in Members(r) => Leaves(s, r)
  /\ \A q, r \in RoomId : s \in Members(q) \cap Members(r) => q = r

WaitsOnce == \A g, h \in suspended : g.socket = h.socket => g = h

\* The page is in a room, or has its admission on the way.
Active(p) == session[p].phase = "joined" \/ Has(toPage[p], {"JOIN_SUCCESS"})

\* Only a page that is joining has a join on its way, with the server or answered - one
\* of the three.  In a room it is, or is told that it is no more.
PageInv(p) ==
  LET s == SocketOf(p)
      x == session[p] IN
    /\ Has(toServer[s], {"JOIN_ROOM"}) \/ Waits(s) \/ Has(toPage[p], Answers) => x.phase = "joining"
    /\ Has(toPage[p], Answers) => ~Has(toServer[s], {"JOIN_ROOM"}) /\ ~Waits(s)
    /\ Apart(toPage[p], Answers, Answers)
    /\ \A m \in ToSet(toServer[s]) : m.type = "JOIN_ROOM" => m.room = x.room
    /\ \A h \in suspended : h.socket = s => h.room = x.room
    /\ Waits(s) \/ Active(p) => ~Has(toServer[s], {"LEAVE_ROOM"})
    /\ Active(p) => x.room # None /\ (s \in Members(x.room) \/ Has(toPage[p], {"ROOM_CLOSED"}))
    /\ \A r \in RoomId : s \in Members(r) => (Active(p) /\ x.room = r) \/ Leaves(s, r)

\* The end of the room comes when the page is in it no more.
ClosedInv(p) ==
  LET gone == SocketOf(p) \notin Members(session[p].room) IN
    /\ session[p].phase = "joined" /\ Has(toPage[p], {"ROOM_CLOSED"}) => gone
    /\ ~Apart(toPage[p], {"JOIN_SUCCESS"}, {"ROOM_CLOSED"}) => gone

\* m says whether somebody of name n is in the room.
About(m, n) == m.type = "JOIN_SUCCESS" \/ (m.type \in {"USER_JOINED", "USER_LEFT"} /\ m.name = n)

Says(m, n) == IF m.type = "JOIN_SUCCESS" THEN n \in m.participants ELSE m.type = "USER_JOINED"

\* Whoever reads the queue to its end has n among the names if and only if it is in "there".
Told(queue, roster, n, there) ==
  IF \E i \in 1..Len(queue) : About(queue[i], n)
  THEN \E i \in 1..Len(queue) :
         /\ About(queue[i], n)
         /\ \A j \in 1..Len(queue) : j > i => ~About(queue[j], n)
         /\ Says(queue[i], n) <=> n \in there
  ELSE n \in roster <=> n \in there

Names(r) == {participants[r][s] : s \in Members(r)}

RosterInv(p) ==
  Active(p) /\ SocketOf(p) \in Members(session[p].room) =>
    \A n \in Name : Told(toPage[p], session[p].roster, n, Names(session[p].room))

PresenceInv ==
  /\ WaitsOnce
  /\ \A s \in Socket : SocketInv(s)
  /\ \A p \in Page : PageInv(p) /\ ClosedInv(p)

-----------------------------------------------------------------------------
(* Steps of the server.  Most of them only shorten the queues of sockets,    *)
(* take members away and send messages that neither admit nor dismiss.       *)
LEMMA RequestQueue ==
  ASSUME ChatRoomsTypeOK, NEW s \in Socket, NEW type, Request(s, type)
  PROVE  /\ connection' = connection
         /\ Head(toServer[s]) \in ToServer /\ Head(toServer[s]).type = type
         /\ ToSet(toServer[s]) = {Head(toServer[s])} \cup ToSet(toServer'[s])
         /\ \A A, B : Apart(toServer[s], A, B) =>
              Apart(toServer'[s], A, B) /\ (type \in A => ~Has(toServer'[s], B))
         /\ \A t \in Socket \ {s} : toServer'[t] = toServer[t]
<1>1. /\ toServer[s] \in Seq(ToServer) /\ toServer[s] # <<>>
      /\ toServer'[s] = Tail(toServer[s])
      /\ \A t \in Socket \ {s} : toServer'[t] = toServer[t]
  BY DEF Request, ChatRoomsTypeOK
<1>2. ToSet(toServer[s]) = {Head(toServer[s])} \cup ToSet(toServer'[s])
  BY <1>1, SetTail
<1> QED
  BY <1>1, <1>2, RequestType, ApartTail

LEMMA EmitTo ==
  ASSUME ChatRoomsTypeOK, NEW sockets, NEW m, Emit(To(sockets, m)), NEW p \in Page
  PROVE  toPage'[p] = toPage[p] \o (IF SocketOf(p) \in sockets THEN <<m>> ELSE <<>>)
BY CurrentSocket DEF Emit, To

LEMMA EmitOne ==
  ASSUME ChatRoomsTypeOK, NEW sockets, NEW m, Emit(To(sockets, m)), NEW p \in Page,
         SocketOf(p) \in sockets
  PROVE  toPage'[p] = toPage[p] \o <<m>>
BY CurrentSocket DEF Emit, To

LEMMA SocketServer ==
  ASSUME NEW s \in Socket, SocketInv(s), connection' = connection,
         ToSet(toServer'[s]) \subseteq ToSet(toServer[s]),
         toServer[s] = <<>> => toServer'[s] = <<>>,
         \A A, B : Apart(toServer[s], A, B) => Apart(toServer'[s], A, B),
         Waits(s)' => Waits(s),
         \A r \in RoomId : s \in Members(r)' => s \in Members(r),
         \A r \in RoomId : s \in Members(r)' /\ Leaves(s, r) => Leaves(s, r)'
  PROVE  SocketInv(s)'
<1>1. \A T : Has(toServer'[s], T) => Has(toServer[s], T)
  BY DEF Has
<1>2. (s = SocketOf(s[1]))' <=> s = SocketOf(s[1])
  BY DEF SocketOf
<1> QED
  BY <1>1, <1>2 DEF SocketInv

\* The page is sent nothing that admits or dismisses it.
Quietly(p) ==
  \E ms \in Seq(ToPage) : /\ toPage'[p] = toPage[p] \o ms
                         /\ ~Has(ms, Answers) /\ ~Has(ms, {"ROOM_CLOSED"})

LEMMA NothingSent ==
  ASSUME ChatRoomsTypeOK, NEW p \in Page, toPage'[p] = toPage[p]
  PROVE  Quietly(p)
<1>1. toPage'[p] = toPage[p] \o <<>> /\ <<>> \in Seq(ToPage)
  BY ShortSequences DEF ChatRoomsTypeOK
<1> QED BY <1>1, SetNothing DEF Quietly, Has

LEMMA NewsSent ==
  ASSUME ChatRoomsTypeOK, NEW p \in Page, NEW sockets, NEW m \in ToPage, Emit(To(sockets, m)),
         SocketOf(p) \in sockets => m.type \notin Answers \cup {"ROOM_CLOSED"}
  PROVE  Quietly(p)
<1>1. CASE SocketOf(p) \in sockets
  <2>1. toPage'[p] = toPage[p] \o <<m>> /\ <<m>> \in Seq(ToPage)
    BY <1>1, EmitTo, ShortSequences
  <2>2. PICK ms : ms = <<m>>
    OBVIOUS
  <2>3. ToSet(ms) = {m}
    BY <2>2, SetOne
  <2>4. ~Has(ms, Answers) /\ ~Has(ms, {"ROOM_CLOSED"})
    BY <1>1, <2>3 DEF Has
  <2> QED BY <2>1, <2>2, <2>4 DEF Quietly
<1>2. CASE SocketOf(p) \notin sockets
  <2>1. toPage'[p] = toPage[p]
    <3>1. \A q \in Seq(ToPage) : q \o <<>> = q
      OBVIOUS
    <3>2. toPage'[p] = toPage[p] \o <<>>
      BY <1>2, EmitTo
    <3> QED BY <3>1, <3>2 DEF ChatRoomsTypeOK
  <2> QED BY <2>1, NothingSent
<1> QED BY <1>1, <1>2

LEMMA GoodbyesSent ==
  ASSUME ChatRoomsTypeOK, NEW s \in Socket, NEW from \in SUBSET RoomId,
         removeParticipant(s, from), NEW p \in Page
  PROVE  Quietly(p)
<1>1. PICK t \in Socket : t = SocketOf(p)
  BY CurrentSocket
<1>2. PICK ms : ms = SetToSeq(Goodbyes(t, s, from))
  OBVIOUS
<1>3. toPage'[p] = toPage[p] \o ms
  <2>1. PICK f : f = [u \in Socket |-> SetToSeq(Goodbyes(u, s, from))]
    OBVIOUS
  <2>2. f[t] = ms
    BY <1>2, <2>1
  <2>3. Emit(f)
    BY <2>1, removeParticipantEmits
  <2> QED BY <1>1, <2>2, <2>3 DEF Emit
<1>4. ms \in Seq(Goodbyes(t, s, from)) /\ ms \in Seq(ToPage)
  BY <1>2, GoodbyesFinite, SetToSeqElements, SeqMonotonic
<1>5. \A m \in ToSet(ms) : m.type = "USER_LEFT"
  <2>1. ToSet(ms) \subseteq Goodbyes(t, s, from)
    BY <1>4 DEF ToSet
  <2> QED BY <2>1 DEF Goodbyes
<1> QED BY <1>3, <1>4, <1>5 DEF Quietly, Has, Answers

LEMMA PageServer ==
  ASSUME TypeOK, NEW p \in Page, PageInv(p), ClosedInv(p), UNCHANGED <<connection, session>>,
         NEW s, s = SocketOf(p),
         Quietly(p),
         ToSet(toServer'[s]) \subseteq ToSet(toServer[s]),
         \A h \in suspended' : h.socket = s => \E g \in suspended : g.socket = s /\ g.room = h.room,
         \A r \in RoomId : s \in Members(r)' => s \in Members(r),
         Active(p) => \A r \in RoomId : s \in Members(r) => s \in Members(r)',
         \A r \in RoomId : s \in Members(r)' /\ Leaves(s, r) => Leaves(s, r)'
  PROVE  PageInv(p)' /\ ClosedInv(p)'
<1> PICK ms \in Seq(ToPage) : /\ toPage'[p] = toPage[p] \o ms
                             /\ ~Has(ms, Answers) /\ ~Has(ms, {"ROOM_CLOSED"})
  BY DEF Quietly
<1>1. toPage[p] \in Seq(ToPage) /\ session[p].room \in RoomId \cup {None}
  BY SessionFields DEF TypeOK, ChatRoomsTypeOK
<1>2. ToSet(toPage'[p]) = ToSet(toPage[p]) \cup ToSet(ms)
  BY <1>1, SetConcat
<1>3. \A T : ~Has(ms, T) => (Has(toPage'[p], T) <=> Has(toPage[p], T))
  BY <1>2 DEF Has
<1>4. \A A, B : ~Has(ms, B) /\ Apart(toPage[p], A, B) => Apart(toPage'[p], A, B)
  BY <1>1, ApartConcat, ApartWithout
<1>5. ~Has(ms, {"JOIN_SUCCESS"})
  BY DEF Has, Answers
<1>6. Active(p)' <=> Active(p)
  BY <1>3, <1>5 DEF Active
<1>7. s = SocketOf(p)'
  BY DEF SocketOf
<1>8. \A T : Has(toServer'[s], T) => Has(toServer[s], T)
  BY DEF Has
<1>9. Waits(s)' => Waits(s)
  BY DEF Waits
<1>10. PageInv(p)'
  BY <1>1, <1>3, <1>4, <1>6, <1>7, <1>8, <1>9 DEF PageInv
<1>11. ClosedInv(p)'
  <2>1. Apart(toPage'[p], {"JOIN_SUCCESS"}, {"ROOM_CLOSED"})
          \/ ~Apart(toPage[p], {"JOIN_SUCCESS"}, {"ROOM_CLOSED"})
    BY <1>4
  <2>2. ~Apart(toPage[p], {"JOIN_SUCCESS"}, {"ROOM_CLOSED"}) => Has(toPage[p], {"JOIN_SUCCESS"})
    BY <1>1 DEF Apart, Has, ToSet
  <2>3. session[p].phase = "joined" \/ Has(toPage[p], {"JOIN_SUCCESS"}) => session[p].room \in RoomId
    BY <1>1 DEF PageInv, Active
  <2> QED
    BY <1>3, <1>7, <2>1, <2>2, <2>3 DEF ClosedInv
<1> QED BY <1>10, <1>11

LEMMA handleJoinRoomPresence ==
  ASSUME TypeOK, PresenceInv, NEW s \in Socket, ServerStep(s), handleJoinRoom(s)
  PROVE  PresenceInv'
<1> USE DEF TypeOK
<1>1. PICK h : /\ h = [stage |-> "finding", socket |-> s, room |-> Head(toServer[s]).room,
                       name |-> Head(toServer[s]).name]
               /\ suspended' = suspended \cup {h}
  BY DEF handleJoinRoom
<1>2. h.socket = s /\ h.room = Head(toServer[s]).room
  BY <1>1
<1>3. Request(s, "JOIN_ROOM") /\ UNCHANGED <<toPage, participants, connection, session>>
  BY DEF handleJoinRoom, Request, ServerStep, sessionVars
<1>4. /\ ToSet(toServer[s]) = {Head(toServer[s])} \cup ToSet(toServer'[s])
      /\ Head(toServer[s]).type = "JOIN_ROOM"
      /\ toServer[s] # <<>>
      /\ \A t \in Socket \ {s} : toServer'[t] = toServer[t]
  BY <1>3, RequestQueue DEF Request
<1>5. Has(toServer[s], {"JOIN_ROOM"}) /\ Head(toServer[s]) \in ToSet(toServer[s])
  BY <1>4 DEF Has
<1>6. SocketInv(s) /\ ~Waits(s)
  BY <1>5 DEF PresenceInv, SocketInv
<1>7. ~Has(toServer'[s], {"JOIN_ROOM", "LEAVE_ROOM"})
  BY <1>3, <1>6, RequestQueue DEF SocketInv
<1>8. \A r \in RoomId : s \notin Members(r) /\ s \notin Members(r)'
  BY <1>3, <1>4, <1>5, <1>6, <1>7 DEF SocketInv, Leaves, Has, Members
<1>9. \A t \in Socket \ {s} : Waits(t)' <=> Waits(t)
  BY <1>1, <1>2 DEF Waits
<1>10. WaitsOnce'
  BY <1>1, <1>2, <1>6 DEF PresenceInv, WaitsOnce, Waits
<1>11. ASSUME NEW t \in Socket PROVE SocketInv(t)'
  <2>1. CASE t # s
    <3>1. SocketInv(t) /\ toServer'[t] = toServer[t]
      BY <1>4, <2>1 DEF PresenceInv
    <3> QED BY <1>3, <1>9, <2>1, <3>1, SocketServer DEF Members, Leaves
  <2>2. CASE t = s
    <3>1. /\ ~Has(toServer'[s], {"JOIN_ROOM"})
          /\ Has(toServer'[s], {"disconnect"}) => Has(toServer[s], {"disconnect"})
      BY <1>4, <1>7 DEF Has
    <3>2. ~(s[2] > connection[s[1]])
      BY <1>4, <1>6 DEF SocketInv
    <3>3. Apart(toServer'[s], {"JOIN_ROOM"}, {"JOIN_ROOM", "LEAVE_ROOM"})
      BY <1>3, <1>6, RequestQueue DEF SocketInv
    <3> QED BY <1>3, <1>6, <1>8, <2>2, <3>1, <3>2, <3>3 DEF SocketInv, SocketOf
  <2> QED BY <2>1, <2>2
<1>12. ASSUME NEW p \in Page PROVE PageInv(p)' /\ ClosedInv(p)'
  <2>1. PICK t \in Socket : t = SocketOf(p)
    BY CurrentSocket
  <2>2. PageInv(p) /\ ClosedInv(p)
    BY DEF PresenceInv
  <2>3. CASE t # s
    BY <1>1, <1>2, <1>3, <1>4, <2>1, <2>2, <2>3, NothingSent, PageServer DEF Members, Leaves
  <2>4. CASE t = s
    <3>1. /\ session[p].phase = "joining" /\ ~Has(toPage[p], Answers) /\ h.room = session[p].room
      BY <1>2, <1>4, <1>5, <2>1, <2>2, <2>4 DEF PageInv
    <3>2. ~Active(p) /\ ~Active(p)'
      BY <1>3, <3>1 DEF Active, Has, Answers
    <3>3. \A g \in suspended' : g.socket = s => g.room = session[p].room
      BY <1>1, <1>6, <3>1 DEF Waits
    <3>4. /\ ~Has(toServer'[s], {"JOIN_ROOM"}) /\ ~Has(toServer'[s], {"LEAVE_ROOM"})
          /\ \A m \in ToSet(toServer'[s]) : m.type # "JOIN_ROOM"
      BY <1>7 DEF Has
    <3>5. s = SocketOf(p)' /\ session'[p] = session[p] /\ toPage'[p] = toPage[p]
      BY <1>3, <2>1, <2>4 DEF SocketOf
    <3>6. PageInv(p)'
      BY <1>8, <2>2, <3>1, <3>2, <3>3, <3>4, <3>5 DEF PageInv
    <3>7. ClosedInv(p)'
      BY <1>3, <2>1, <2>2, <2>4, <3>5, <3>1 DEF ClosedInv, Members
    <3> QED BY <3>6, <3>7
  <2> QED BY <2>3, <2>4
<1> QED BY <1>10, <1>11, <1>12 DEF PresenceInv

LEMMA RefusePresence ==
  ASSUME TypeOK, PresenceInv, NEW h \in suspended, NEW reason, Refuse(h, reason),
         reason \in {"NAME_TAKEN", "other"}, UNCHANGED session
  PROVE  PresenceInv'
<1> USE DEF TypeOK
<1>1. PICK s \in Socket : s = h.socket
  BY SuspendedFields
<1>2. PICK m \in ToPage : m = [type |-> "JOIN_ERROR", reason |-> reason]
  BY ToPageMessages
<1>3. /\ Emit(To({s}, m)) /\ m.type = "JOIN_ERROR"
      /\ suspended' = suspended \ {h} /\ UNCHANGED <<connection, toServer, participants>>
  BY <1>1, <1>2 DEF Refuse
<1>4. SocketInv(s) /\ Waits(s) /\ ~Waits(s)'
  BY <1>1, <1>3 DEF PresenceInv, WaitsOnce, Waits
<1>5. \A t \in Socket : Waits(t)' => Waits(t)
  BY <1>3 DEF Waits
<1>6. WaitsOnce'
  BY <1>3 DEF PresenceInv, WaitsOnce
<1>7. ASSUME NEW t \in Socket PROVE SocketInv(t)'
  BY <1>3, <1>5, SocketServer DEF PresenceInv, Members, Leaves
<1>8. ASSUME NEW p \in Page PROVE PageInv(p)' /\ ClosedInv(p)'
  <2>1. PICK t \in Socket : t = SocketOf(p)
    BY CurrentSocket
  <2>2. PageInv(p) /\ ClosedInv(p)
    BY DEF PresenceInv
  <2>3. CASE t # s
    <3>1. Quietly(p)
      BY <1>3, <2>1, <2>3, NewsSent
    <3> QED BY <1>3, <2>1, <2>2, <3>1, PageServer DEF Members, Leaves
  <2>4. CASE t = s
    <3>1. /\ session[p].phase = "joining" /\ ~Has(toPage[p], Answers)
          /\ ~Has(toServer[s], {"JOIN_ROOM"}) /\ ~Has(toServer[s], {"LEAVE_ROOM"})
      BY <1>4, <2>1, <2>2, <2>4 DEF PageInv, PresenceInv, SocketInv
    <3>2. toPage[p] \in Seq(ToPage) /\ toPage'[p] = toPage[p] \o <<m>> /\ <<m>> \in Seq(ToPage)
      <4>1. toPage'[p] = toPage[p] \o <<m>>
        BY <1>3, <2>1, <2>4, EmitTo
      <4> QED BY <4>1, ShortSequences DEF ChatRoomsTypeOK
    <3>3. ToSet(toPage'[p]) = ToSet(toPage[p]) \cup {m}
      BY <3>2, SetMore
    <3>4. ~Active(p) /\ ~Active(p)'
      BY <1>3, <3>1, <3>3 DEF Active, Has, Answers
    <3>5. ~Has(toPage'[p], {"JOIN_SUCCESS"})
      BY <1>3, <3>1, <3>3 DEF Has, Answers
    <3>6. Apart(toPage'[p], Answers, Answers)
      BY <2>2, <3>1, <3>2, ApartConcat, ApartShort DEF PageInv
    <3>7. s = SocketOf(p)'
      BY <1>3, <2>1, <2>4 DEF SocketOf
    <3>8. \A r \in RoomId : s \notin Members(r) /\ s \notin Members(r)'
      BY <1>3, <1>4 DEF SocketInv, Members
    <3>9. PageInv(p)'
      BY <1>3, <1>4, <2>1, <2>2, <2>4, <3>1, <3>4, <3>6, <3>7, <3>8 DEF PageInv
    <3>10. ClosedInv(p)'
      <4>1. Apart(toPage'[p], {"JOIN_SUCCESS"}, {"ROOM_CLOSED"})
        <5>1. toPage'[p] \in Seq(ToPage)
          BY <3>2, ShortSequences
        <5> QED BY <3>5, <5>1 DEF Apart, Has, ToSet
      <4> QED BY <3>1, <4>1 DEF ClosedInv
    <3> QED BY <3>9, <3>10
  <2> QED BY <2>3, <2>4
<1> QED BY <1>6, <1>7, <1>8 DEF PresenceInv

LEMMA roomFoundPresence ==
  ASSUME TypeOK, PresenceInv, NEW h \in suspended, roomFound(h), UNCHANGED session
  PROVE  PresenceInv'
<1> USE DEF TypeOK
<1>1. CASE Refuse(h, "other")
  BY <1>1, RefusePresence
<1>2. CASE /\ suspended' = (suspended \ {h}) \cup {[h EXCEPT !.stage = "checking"]}
           /\ UNCHANGED <<socketVars, expiryVars, participants, chatStats>>
  <2>1. PICK g : g = [h EXCEPT !.stage = "checking"]
    OBVIOUS
  <2>2. g.socket = h.socket /\ g.room = h.room /\ suspended' = (suspended \ {h}) \cup {g}
    BY <1>2, <2>1, SuspendedFields DEF Suspended
  <2>3. UNCHANGED <<connection, toServer, toPage, participants>>
    BY <1>2 DEF socketVars
  <2>4. \A t \in Socket : Waits(t)' => Waits(t)
    BY <2>2 DEF Waits
  <2>5. WaitsOnce'
    BY <2>2 DEF PresenceInv, WaitsOnce
  <2>6. ASSUME NEW t \in Socket PROVE SocketInv(t)'
    BY <2>3, <2>4, SocketServer DEF PresenceInv, Members, Leaves
  <2>7. ASSUME NEW p \in Page PROVE PageInv(p)' /\ ClosedInv(p)'
    BY <2>2, <2>3, NothingSent, PageServer DEF PresenceInv, Members, Leaves
  <2> QED BY <2>5, <2>6, <2>7 DEF PresenceInv
<1> QED BY <1>1, <1>2 DEF roomFound

LEMMA admitPresence ==
  ASSUME TypeOK, PresenceInv, NEW h \in suspended, admit(h), UNCHANGED session
  PROVE  PresenceInv'
<1> USE DEF TypeOK
<1> DEFINE r == h.room
           there == Members(r) \cup {h.socket}
<1>1. PICK s \in Socket : s = h.socket
  BY SuspendedFields
<1>2. PICK names : Emit(Then(To({s}, [type |-> "JOIN_SUCCESS", room |-> r, participants |-> names]),
                             To(there \ {s}, [type |-> "USER_JOINED", name |-> h.name])))
  BY <1>1 DEF admit
<1>3. suspended' = suspended \ {h} /\ UNCHANGED <<connection, toServer>>
  BY DEF admit
<1>4. SocketInv(s) /\ Waits(s) /\ ~Waits(s)'
  BY <1>1, <1>3 DEF PresenceInv, WaitsOnce, Waits
<1>5. \A t \in Socket : Waits(t)' => Waits(t)
  BY <1>3 DEF Waits
<1>6. WaitsOnce'
  BY <1>3 DEF PresenceInv, WaitsOnce
<1>7. /\ r \in RoomId
      /\ s \in Members(r)'
      /\ \A q \in RoomId : s \notin Members(q) /\ (q # r => s \notin Members(q)')
      /\ \A t \in Socket \ {s}, q \in RoomId : t \in Members(q)' <=> t \in Members(q)
  <2>1. \A q \in RoomId : s \notin Members(q)
    BY <1>4 DEF SocketInv
  <2> QED BY <1>1, <2>1, SuspendedFields, AdmitMembers DEF Members
<1>8. ASSUME NEW t \in Socket PROVE SocketInv(t)'
  <2>1. CASE t # s
    BY <1>3, <1>5, <1>7, <2>1, SocketServer DEF PresenceInv, Leaves
  <2>2. CASE t = s
    <3>1. ~Has(toServer[s], {"JOIN_ROOM"}) /\ ~(s[2] > connection[s[1]])
      BY <1>4 DEF SocketInv
    <3> QED BY <1>3, <1>4, <1>7, <2>2, <3>1 DEF SocketInv, SocketOf
  <2> QED BY <2>1, <2>2
<1>9. ASSUME NEW p \in Page PROVE PageInv(p)' /\ ClosedInv(p)'
  <2>1. PICK t \in Socket : t = SocketOf(p)
    BY CurrentSocket
  <2>2. PageInv(p) /\ ClosedInv(p)
    BY DEF PresenceInv
  <2>3. PICK a, b : /\ a = [type |-> "JOIN_SUCCESS", room |-> r, participants |-> names]
                    /\ b = [type |-> "USER_JOINED", name |-> h.name]
    OBVIOUS
  <2>4. toPage'[p] = toPage[p] \o (To({s}, a)[t] \o To(there \ {s}, b)[t])
    BY <1>2, <2>1, <2>3 DEF Emit, Then
  <2>5. CASE t # s
    <3>1. PICK ms : ms = To(there \ {s}, b)[t]
      OBVIOUS
    <3>2. b \in ToPage /\ b.type = "USER_JOINED"
      BY <2>3, SuspendedFields, ToPageMessages
    <3>3. ms = <<b>> \/ ms = <<>>
      BY <3>1 DEF To
    <3>4. ms \in Seq(ToPage) /\ ~Has(ms, Answers) /\ ~Has(ms, {"ROOM_CLOSED"})
      <4>1. ms \in Seq(ToPage) /\ ToSet(ms) \subseteq {b}
        <5>1. ToSet(<<b>>) = {b} /\ ToSet(<<>>) = {}
          BY SetOne, SetNothing
        <5>2. <<b>> \in Seq(ToPage) /\ <<>> \in Seq(ToPage)
          BY <3>2, ShortSequences
        <5> QED BY <3>3, <5>1, <5>2
      <4> QED BY <3>2, <4>1 DEF Has, Answers
    <3>5. toPage'[p] = toPage[p] \o ms
      <4>1. To({s}, a)[t] = <<>>
        BY <2>5 DEF To
      <4>2. <<>> \o ms = ms
        BY <3>4
      <4> QED BY <2>4, <3>1, <4>1, <4>2
    <3>6. Quietly(p)
      BY <3>4, <3>5 DEF Quietly
    <3>7. \A g \in suspended' : g \in suspended
      BY <1>3
    <3> QED BY <1>3, <1>7, <2>1, <2>2, <2>5, <3>6, <3>7, PageServer DEF Leaves
  <2>6. CASE t = s
    <3>1. /\ session[p].phase = "joining" /\ ~Has(toPage[p], Answers) /\ r = session[p].room
          /\ ~Has(toServer[s], {"JOIN_ROOM"}) /\ ~Has(toServer[s], {"LEAVE_ROOM"})
      BY <1>1, <1>4, <2>1, <2>2, <2>6 DEF PageInv, SocketInv
    <3>2. toPage'[p] = toPage[p] \o <<a>>
      <4>1. To({s}, a)[t] = <<a>> /\ To(there \ {s}, b)[t] = <<>>
        BY <2>6 DEF To
      <4>2. <<a>> \o <<>> = <<a>>
        OBVIOUS
      <4> QED BY <2>4, <4>1, <4>2
    <3>3. a.type = "JOIN_SUCCESS"
      BY <2>3
    <3>4. toPage[p] \in Seq(ToPage) /\ toPage[p] \in Seq(ToPage \cup {a})
            /\ <<a>> \in Seq(ToPage \cup {a})
      BY SeqMonotonic, ShortSequences DEF ChatRoomsTypeOK
    <3>5. ToSet(toPage'[p]) = ToSet(toPage[p]) \cup {a}
      BY <3>2, <3>4, SetMore
    <3>6. ~Active(p) /\ Active(p)'
      BY <3>1, <3>3, <3>5 DEF Active, Has, Answers
    <3>7. Apart(toPage'[p], Answers, Answers)
      BY <2>2, <3>1, <3>2, <3>4, ApartConcat, ApartShort DEF PageInv
    <3>8. s = SocketOf(p)'
      BY <1>3, <2>1, <2>6 DEF SocketOf
    <3>9. r # None
      BY <1>7, ChatAssumption
    <3>10. PageInv(p)'
      BY <1>3, <1>4, <1>7, <2>1, <2>2, <2>6, <3>1, <3>6, <3>7, <3>8, <3>9 DEF PageInv
    <3>11. ClosedInv(p)'
      <4>1. Apart(toPage'[p], {"JOIN_SUCCESS"}, {"ROOM_CLOSED"})
        <5>1. ~Has(<<a>>, {"ROOM_CLOSED"})
          BY <3>3, SetOne DEF Has
        <5>2. Apart(toPage[p], {"JOIN_SUCCESS"}, {"ROOM_CLOSED"})
          BY <3>1, <3>4 DEF Apart, Has, ToSet, Answers
        <5> QED BY <3>2, <3>4, <5>1, <5>2, ApartConcat, ApartShort
      <4> QED BY <3>1, <4>1 DEF ClosedInv
    <3> QED BY <3>10, <3>11
  <2> QED BY <2>5, <2>6
<1> QED BY <1>6, <1>8, <1>9 DEF PresenceInv

\* Leaving a room, or all of them.  A page that is in a room does not leave it: what it
\* has sent to leave one was handled before it asked for the next.
LEMMA removePresence ==
  ASSUME TypeOK, PresenceInv, NEW s \in Socket, NEW from \in SUBSET RoomId,
         NEW type \in {"LEAVE_ROOM", "disconnect"},
         Request(s, type), removeParticipant(s, from), UNCHANGED <<suspended, session>>,
         type = "LEAVE_ROOM" => from = {Head(toServer[s]).room},
         type = "disconnect" => from = RoomId
  PROVE  PresenceInv'
<1> USE DEF TypeOK
<1>1. /\ connection' = connection /\ Head(toServer[s]).type = type
      /\ ToSet(toServer[s]) = {Head(toServer[s])} \cup ToSet(toServer'[s])
      /\ \A A, B : Apart(toServer[s], A, B) => Apart(toServer'[s], A, B)
      /\ \A t \in Socket \ {s} : toServer'[t] = toServer[t]
      /\ toServer[s] # <<>>
  BY RequestQueue DEF Request
<1>2. \A r \in RoomId : Members(r)' = IF r \in from THEN Members(r) \ {s} ELSE Members(r)
  BY RemoveMembers
<1>3. WaitsOnce'
  BY DEF PresenceInv, WaitsOnce
<1>4. \A t \in Socket : ToSet(toServer'[t]) \subseteq ToSet(toServer[t])
  BY <1>1
<1>5. ASSUME NEW t \in Socket, NEW r \in RoomId, t \in Members(r)', Leaves(t, r)
      PROVE  Leaves(t, r)'
  <2>1. CASE t # s
    BY <1>1, <1>5, <2>1 DEF Leaves
  <2>2. CASE t = s
    <3>1. r \notin from
      BY <1>2, <1>5, <2>2
    <3>2. ~(Head(toServer[s]).type = "LEAVE_ROOM" /\ Head(toServer[s]).room = r)
      BY <1>1, <3>1
    <3> QED BY <1>1, <1>5, <2>2, <3>2 DEF Leaves
  <2> QED BY <2>1, <2>2
<1>6. ASSUME NEW t \in Socket PROVE SocketInv(t)'
  <2>1. \A A, B : Apart(toServer[t], A, B) => Apart(toServer'[t], A, B)
    BY <1>1
  <2>2. toServer[t] = <<>> => toServer'[t] = <<>>
    BY <1>1
  <2>3. Waits(t)' => Waits(t)
    BY DEF Waits
  <2> QED BY <1>1, <1>2, <1>4, <1>5, <2>1, <2>2, <2>3, SocketServer DEF PresenceInv
<1>7. ASSUME NEW p \in Page PROVE PageInv(p)' /\ ClosedInv(p)'
  <2>1. PICK t \in Socket : t = SocketOf(p)
    BY CurrentSocket
  <2>2. PageInv(p) /\ ClosedInv(p)
    BY DEF PresenceInv
  <2>3. Quietly(p)
    BY GoodbyesSent
  <2>4. ASSUME Active(p) PROVE t # s
    <3>1. ~Has(toServer[t], {"LEAVE_ROOM"})
      BY <2>1, <2>2, <2>4 DEF PageInv
    <3>2. ~Has(toServer[t], {"disconnect"})
      BY <2>1 DEF PresenceInv, SocketInv, SocketOf
    <3> QED BY <1>1, <3>1, <3>2 DEF Has
  <2>5. Active(p) => \A r \in RoomId : t \in Members(r) => t \in Members(r)'
    BY <1>2, <2>4
  <2>6. \A r \in RoomId : t \in Members(r)' => t \in Members(r)
    BY <1>2
  <2> QED BY <1>1, <1>4, <1>5, <2>1, <2>2, <2>3, <2>5, <2>6, PageServer
<1> QED BY <1>3, <1>6, <1>7 DEF PresenceInv

\* A message, or typing, changes neither who is where nor who comes or goes.
LEMMA newsPresence ==
  ASSUME TypeOK, PresenceInv, NEW s \in Socket, UNCHANGED session,
         handleSendMessage(s) \/ broadcastTyping(s)
  PROVE  PresenceInv'
<1> USE DEF TypeOK
<1>1. PICK type \in {"SEND_MESSAGE", "TYPING"} :
        Request(s, type) /\ UNCHANGED <<suspended, participants>>
  BY DEF handleSendMessage, broadcastTyping, roomVars
<1>2. /\ connection' = connection /\ Head(toServer[s]).type = type
      /\ ToSet(toServer[s]) = {Head(toServer[s])} \cup ToSet(toServer'[s])
      /\ \A A, B : Apart(toServer[s], A, B) => Apart(toServer'[s], A, B)
      /\ \A t \in Socket \ {s} : toServer'[t] = toServer[t]
      /\ toServer[s] # <<>>
  BY <1>1, RequestQueue DEF Request
<1>3. \A r \in RoomId : Members(r)' = Members(r)
  BY <1>1 DEF Members
<1>4. \A t \in Socket : Waits(t)' <=> Waits(t)
  BY <1>1 DEF Waits
<1>5. \A t \in Socket : ToSet(toServer'[t]) \subseteq ToSet(toServer[t])
  BY <1>2
<1>6. \A t \in Socket, r \in RoomId : Leaves(t, r) => Leaves(t, r)'
  BY <1>2 DEF Leaves
<1>7. ASSUME NEW t \in Socket PROVE SocketInv(t)'
  <2>1. \A A, B : Apart(toServer[t], A, B) => Apart(toServer'[t], A, B)
    BY <1>2
  <2>2. toServer[t] = <<>> => toServer'[t] = <<>>
    BY <1>2
  <2> QED BY <1>2, <1>3, <1>4, <1>5, <1>6, <2>1, <2>2, SocketServer DEF PresenceInv
<1>8. ASSUME NEW p \in Page PROVE Quietly(p)
  <2>1. CASE UNCHANGED toPage
    BY <2>1, NothingSent
  <2>2. CASE handleSendMessage(s) /\ ~UNCHANGED toPage
    <3>1. PICK r \in RoomId : r = Head(toServer[s]).room
      BY <2>2, RequestType, ToServerFields DEF handleSendMessage
    <3>2. s \in Members(r)
            /\ Emit(To(Members(r), [type |-> "NEW_MESSAGE", name |-> participants[r][s]]))
      BY <2>2, <3>1 DEF handleSendMessage
    <3>3. PICK m \in ToPage : m = [type |-> "NEW_MESSAGE", name |-> participants[r][s]]
      BY <3>2, MemberName, ToPageMessages
    <3> QED BY <3>2, <3>3, NewsSent DEF Answers
  <2>3. CASE broadcastTyping(s) /\ ~UNCHANGED toPage
    <3>1. PICK r \in RoomId : r = Head(toServer[s]).room
      BY <2>3, RequestType, ToServerFields DEF broadcastTyping
    <3>2. PICK m : m = [type |-> "USER_TYPING", isTyping |-> Head(toServer[s]).isTyping,
                        name |-> participants[r][s]]
      OBVIOUS
    <3>3. s \in Members(r) /\ Emit(To(Members(r) \ {s}, m))
      BY <2>3, <3>1, <3>2 DEF broadcastTyping
    <3>4. Head(toServer[s]).isTyping \in BOOLEAN
      BY <2>3, RequestType, ToServerFields DEF broadcastTyping
    <3>5. m \in ToPage /\ m.type = "USER_TYPING"
      BY <3>2, <3>3, <3>4, MemberName, ToPageMessages
    <3> QED BY <3>3, <3>5, NewsSent DEF Answers
  <2> QED BY <2>1, <2>2, <2>3
<1>9. ASSUME NEW p \in Page PROVE PageInv(p)' /\ ClosedInv(p)'
  <2>1. PICK t \in Socket : t = SocketOf(p)
    BY CurrentSocket
  <2> QED BY <1>1, <1>2, <1>3, <1>5, <1>6, <1>8, <2>1, PageServer DEF PresenceInv
<1> QED BY <1>1, <1>7, <1>9 DEF PresenceInv, WaitsOnce

LEMMA ServerStepPresence ==
  ASSUME TypeOK, PresenceInv, NEW s \in Socket, ServerStep(s)
  PROVE  PresenceInv'
<1>1. UNCHANGED session
  BY DEF ServerStep, sessionVars
<1>2. CASE handleLeaveRoom(s)
  <2>1. Head(toServer[s]).room \in RoomId
    BY <1>2, RequestType, ToServerFields DEF handleLeaveRoom, TypeOK
  <2>2. PICK from \in SUBSET RoomId : from = {Head(toServer[s]).room}
    BY <2>1
  <2>3. /\ Request(s, "LEAVE_ROOM") /\ removeParticipant(s, from) /\ UNCHANGED suspended
    BY <1>2, <2>2 DEF handleLeaveRoom
  <2> QED BY <1>1, <2>2, <2>3, removePresence
<1>3. CASE handleDisconnect(s)
  <2>1. PICK from \in SUBSET RoomId : from = RoomId
    OBVIOUS
  <2>2. /\ Request(s, "disconnect") /\ removeParticipant(s, from) /\ UNCHANGED suspended
    BY <1>3, <2>1 DEF handleDisconnect
  <2> QED BY <1>1, <2>1, <2>2, removePresence
<1> QED
  BY <1>1, <1>2, <1>3, handleJoinRoomPresence, newsPresence DEF ServerStep, Handler

LEMMA ResumePresence ==
  ASSUME TypeOK, PresenceInv, NEW h \in suspended, Resume(h)
  PROVE  PresenceInv'
BY roomFoundPresence, admitPresence, RefusePresence
   DEF Resume, Resumed, passwordCompared, sessionVars

LEMMA forceCloseRoomPresence ==
  ASSUME TypeOK, PresenceInv, NEW r \in RoomId, forceCloseRoom(r), UNCHANGED session
  PROVE  PresenceInv'
<1> USE DEF TypeOK
<1>1. PICK m \in ToPage : m = [type |-> "ROOM_CLOSED"]
  BY ToPageMessages
<1>2. /\ m.type = "ROOM_CLOSED" /\ Emit(To(Members(r), m))
      /\ UNCHANGED <<connection, toServer, suspended>>
  BY <1>1 DEF forceCloseRoom
<1>3. \A q \in RoomId : Members(q)' = IF q = r THEN {} ELSE Members(q)
  BY DEF forceCloseRoom, ChatRoomsTypeOK, Members, Nobody
<1>4. WaitsOnce'
  BY <1>2 DEF PresenceInv, WaitsOnce
<1>5. \A t \in Socket : Waits(t)' => Waits(t)
  BY <1>2 DEF Waits
<1>6. ASSUME NEW t \in Socket PROVE SocketInv(t)'
  BY <1>2, <1>3, <1>5, SocketServer DEF PresenceInv, Leaves
<1>7. ASSUME NEW p \in Page PROVE PageInv(p)' /\ ClosedInv(p)'
  <2>1. PICK t \in Socket : t = SocketOf(p) /\ t = SocketOf(p)'
    BY <1>2, CurrentSocket DEF SocketOf
  <2>2. PageInv(p) /\ ClosedInv(p) /\ SocketInv(t)
    BY DEF PresenceInv
  <2>3. CASE t \notin Members(r)
    <3>1. Quietly(p)
      BY <1>2, <2>1, <2>3, NewsSent
    <3> QED BY <1>2, <1>3, <2>1, <2>2, <2>3, <3>1, PageServer DEF Leaves
  <2>4. CASE t \in Members(r)
    <3>1. toPage[p] \in Seq(ToPage) /\ toPage'[p] = toPage[p] \o <<m>>
      <4>1. PICK sockets : sockets = Members(r)
        OBVIOUS
      <4>2. toPage'[p] = toPage[p] \o <<m>>
        BY <1>2, <2>1, <2>4, <4>1, EmitOne
      <4> QED BY <4>2 DEF ChatRoomsTypeOK
    <3>2. ToSet(toPage'[p]) = ToSet(toPage[p]) \cup {m}
      BY <3>1, SetMore
    <3>3. /\ Has(toPage'[p], {"ROOM_CLOSED"})
          /\ Has(toPage'[p], Answers) <=> Has(toPage[p], Answers)
          /\ Has(toPage'[p], {"JOIN_SUCCESS"}) <=> Has(toPage[p], {"JOIN_SUCCESS"})
      BY <1>2, <3>2 DEF Has, Answers
    <3>4. Active(p)' <=> Active(p)
      BY <3>3 DEF Active
    <3>5. Apart(toPage'[p], Answers, Answers)
      <4>1. ~Has(<<m>>, Answers)
        BY <1>2, SetOne DEF Has, Answers
      <4>2. <<m>> \in Seq(ToPage)
        BY ShortSequences
      <4> QED BY <2>2, <3>1, <4>1, <4>2, ApartConcat, ApartShort DEF PageInv
    <3>6. \A q \in RoomId : t \notin Members(q)'
      BY <1>3, <2>2, <2>4 DEF SocketInv
    <3>7. \A T : Has(toServer'[t], T) <=> Has(toServer[t], T)
      BY <1>2
    <3>8. PageInv(p)'
      BY <1>2, <1>5, <2>1, <2>2, <3>3, <3>4, <3>5, <3>6, <3>7 DEF PageInv
    <3>9. CASE session[p].room \in RoomId
      <4>1. ClosedInv(p)'
        BY <2>1, <3>6, <3>9 DEF ClosedInv
      <4> QED BY <3>8, <4>1
    <3>10. CASE session[p].room \notin RoomId
      <4>1. ~Active(p)' /\ toPage'[p] \in Seq(ToPage)
        BY <2>2, <3>1, <3>4, <3>10, SessionFields, ShortSequences DEF PageInv
      <4>2. Apart(toPage'[p], {"JOIN_SUCCESS"}, {"ROOM_CLOSED"})
        BY <4>1 DEF Active, Apart, Has, ToSet
      <4>3. ClosedInv(p)'
        BY <4>1, <4>2 DEF Active, ClosedInv
      <4> QED BY <3>8, <4>3
    <3> QED BY <3>9, <3>10
  <2> QED BY <2>3, <2>4
<1> QED BY <1>4, <1>6, <1>7 DEF PresenceInv

-----------------------------------------------------------------------------
(* Steps of the pages.                                                       *)
LEMMA SocketSame ==
  ASSUME NEW s \in Socket, SocketInv(s),
         connection'[s[1]] = connection[s[1]],
         toServer'[s] = toServer[s], UNCHANGED <<suspended, participants>>
  PROVE  SocketInv(s)'
<1>1. /\ Waits(s)' <=> Waits(s)
      /\ (s = SocketOf(s[1]))' <=> s = SocketOf(s[1])
      /\ \A r : Members(r)' = Members(r)
      /\ \A r : Leaves(s, r)' <=> Leaves(s, r)
  BY DEF Waits, SocketOf, Members, Leaves
<1> QED BY <1>1 DEF SocketInv

LEMMA PageSame ==
  ASSUME NEW p \in Page, PageInv(p), ClosedInv(p),
         connection'[p] = connection[p], session'[p] = session[p], toPage'[p] = toPage[p],
         toServer'[SocketOf(p)] = toServer[SocketOf(p)], UNCHANGED <<suspended, participants>>
  PROVE  PageInv(p)' /\ ClosedInv(p)'
<1>1. PICK s : s = SocketOf(p) /\ s = SocketOf(p)'
  BY DEF SocketOf
<1>2. /\ Waits(s)' <=> Waits(s)
      /\ Active(p)' <=> Active(p)
      /\ \A r : Members(r)' = Members(r)
      /\ \A r : Leaves(s, r)' <=> Leaves(s, r)
  BY <1>1 DEF Waits, Active, Members, Leaves
<1> QED BY <1>1, <1>2 DEF PageInv, ClosedInv

\* What a step of the page p leaves alone.
OnlyPage(p) ==
  /\ UNCHANGED <<suspended, participants>>
  /\ \A q \in Page \ {p} : /\ connection'[q] = connection[q] /\ session'[q] = session[q]
                           /\ toPage'[q] = toPage[q]
  /\ \A s \in Socket : s[1] # p => toServer'[s] = toServer[s]

LEMMA OnlyPagePresence ==
  ASSUME TypeOK, PresenceInv, NEW p \in Page, OnlyPage(p),
         \A s \in Socket : s[1] = p => SocketInv(s)',
         PageInv(p)', ClosedInv(p)'
  PROVE  PresenceInv'
<1>1. WaitsOnce'
  BY DEF PresenceInv, WaitsOnce, OnlyPage
<1>2. ASSUME NEW s \in Socket PROVE SocketInv(s)'
  <2>1. CASE s[1] # p
    BY <2>1, SocketFields, SocketSame DEF PresenceInv, OnlyPage
  <2> QED BY <2>1
<1>3. ASSUME NEW q \in Page PROVE PageInv(q)' /\ ClosedInv(q)'
  <2>1. CASE q # p
    <3>1. toServer'[SocketOf(q)] = toServer[SocketOf(q)]
      BY <2>1, CurrentSocket DEF OnlyPage, SocketOf, TypeOK
    <3> QED BY <2>1, <3>1, PageSame DEF PresenceInv, OnlyPage
  <2> QED BY <2>1
<1> QED BY <1>1, <1>2, <1>3 DEF PresenceInv

\* A page sends and its session changes.
LEMMA SendStep ==
  ASSUME TypeOK, PresenceInv, NEW p \in Page, NEW ms \in Seq(ToServer), NEW x, Send(p, ms),
         Become(p, x), UNCHANGED <<connection, toPage, roomVars>>
  PROVE  /\ OnlyPage(p)
         /\ session'[p] = x /\ connection' = connection
         /\ toServer'[SocketOf(p)] = toServer[SocketOf(p)] \o ms
         /\ \A s \in Socket : s[1] = p /\ s # SocketOf(p) => SocketInv(s)'
         /\ PageInv(p) /\ ClosedInv(p) /\ SocketInv(SocketOf(p))
<1>1. /\ UNCHANGED <<suspended, participants>>
      /\ session'[p] = x
      /\ \A q \in Page \ {p} : session'[q] = session[q]
      /\ toServer'[SocketOf(p)] = toServer[SocketOf(p)] \o ms
      /\ \A s \in Socket : s # SocketOf(p) => toServer'[s] = toServer[s]
  BY CurrentSocket DEF Send, Become, roomVars, TypeOK, ChatRoomsTypeOK, ChatSocketTypeOK
<1>2. OnlyPage(p)
  BY <1>1 DEF OnlyPage, SocketOf
<1>3. \A s \in Socket : s # SocketOf(p) => SocketInv(s)'
  BY <1>1, SocketSame DEF PresenceInv
<1> QED BY <1>1, <1>2, <1>3, CurrentSocket DEF PresenceInv, TypeOK

LEMMA TypingPresence ==
  ASSUME TypeOK, PresenceInv, NEW p \in Page, NEW ms \in Seq(ToServer), NEW x, Send(p, ms),
         Become(p, x), UNCHANGED <<connection, toPage, roomVars>>,
         x.phase = session[p].phase, x.room = session[p].room,
         ~Has(ms, {"JOIN_ROOM", "LEAVE_ROOM", "disconnect"})
  PROVE  PresenceInv'
<1>1. PICK s \in Socket : s = SocketOf(p) /\ s = SocketOf(p)'
  BY CurrentSocket DEF SocketOf, TypeOK
<1>2. toServer[s] \in Seq(ToServer)
  BY <1>1 DEF TypeOK, ChatRoomsTypeOK
<1>3. toServer'[s] = toServer[s] \o ms /\ PageInv(p) /\ ClosedInv(p) /\ SocketInv(s) /\ OnlyPage(p)
        /\ session'[p] = x
  BY <1>1, SendStep
<1>4. ToSet(toServer'[s]) = ToSet(toServer[s]) \cup ToSet(ms)
  BY <1>2, <1>3, SetConcat
<1>5. \A T \in {{"JOIN_ROOM"}, {"LEAVE_ROOM"}, {"disconnect"}} :
        Has(toServer'[s], T) <=> Has(toServer[s], T)
  BY <1>4 DEF Has
<1>6. Apart(toServer[s], {"JOIN_ROOM"}, {"JOIN_ROOM", "LEAVE_ROOM"}) =>
        Apart(toServer'[s], {"JOIN_ROOM"}, {"JOIN_ROOM", "LEAVE_ROOM"})
  <2>1. ~Has(ms, {"JOIN_ROOM", "LEAVE_ROOM"}) /\ DOMAIN ms = 1..Len(ms)
    BY DEF Has
  <2> QED BY <1>2, <1>3, <2>1, ApartConcat, ApartWithout
<1>7. /\ Waits(s)' <=> Waits(s)
      /\ Active(p)' <=> Active(p)
      /\ \A r : Members(r)' = Members(r)
      /\ \A r : Leaves(s, r)' <=> Leaves(s, r)
  <2>1. UNCHANGED <<suspended, participants>>
    BY DEF roomVars
  <2>2. \A r : Leaves(s, r)' <=> Leaves(s, r)
    BY <1>4 DEF Leaves, Has
  <2> QED BY <1>3, <2>1, <2>2 DEF Waits, Active, Members
<1>8. SocketInv(s)'
  <2>2. ~(s[2] > connection[s[1]])
    BY <1>1 DEF TypeOK, ChatRoomsTypeOK, SocketOf
  <2> QED BY <1>3, <1>5, <1>6, <1>7, <2>2 DEF SocketInv, SocketOf
<1>9. PageInv(p)'
  <2>1. \A m \in ToSet(toServer'[s]) : m.type = "JOIN_ROOM" => m \in ToSet(toServer[s])
    BY <1>4 DEF Has
  <2>2. UNCHANGED suspended
    BY DEF roomVars
  <2> QED BY <1>1, <1>3, <1>5, <1>7, <2>1, <2>2 DEF PageInv
<1>10. ClosedInv(p)'
  BY <1>1, <1>3, <1>7 DEF ClosedInv
<1> QED
  BY <1>1, <1>8, <1>9, <1>10, SendStep, OnlyPagePresence

LEMMA typingPresence ==
  ASSUME TypeOK, PresenceInv, NEW p \in Page,
         sendMessage(p) \/ notifyTyping(p) \/ typingTimerFires(p)
  PROVE  PresenceInv'
<1> USE DEF TypeOK
<1>1. /\ StopTyping(session[p]) \in Seq(ToServer)
      /\ \A m \in ToSet(StopTyping(session[p])) : m.type = "TYPING"
      /\ typingStopped(session[p]).phase = session[p].phase
      /\ typingStopped(session[p]).room = session[p].room
  <2>1. session[p] \in Session
    BY SessionFields
  <2>2. PICK m : m = Typing(session[p], FALSE)
    OBVIOUS
  <2>3. m.type = "TYPING"
    BY <2>2 DEF Typing
  <2>4. ToSet(StopTyping(session[p])) \subseteq {m}
    BY <2>2, SetOne, SetNothing DEF StopTyping
  <2> QED BY <2>1, <2>3, <2>4, StopTypingType
<1>2. CASE typingTimerFires(p)
  <2>1. ~Has(StopTyping(session[p]), {"JOIN_ROOM", "LEAVE_ROOM", "disconnect"})
    BY <1>1 DEF Has
  <2> QED BY <1>1, <1>2, <2>1, TypingPresence DEF typingTimerFires
<1>3. CASE sendMessage(p)
  <2>1. PICK m : m = [type |-> "SEND_MESSAGE", room |-> session[p].room]
    OBVIOUS
  <2>2. m \in ToServer /\ m.type = "SEND_MESSAGE"
    BY <1>3, <2>1, SessionFields, ToServerMessages DEF sendMessage, Act
  <2>3. PICK ms : ms = <<m>> \o StopTyping(session[p])
    OBVIOUS
  <2>4. <<m>> \in Seq(ToServer)
    BY <2>2, ShortSequences
  <2>5. ms \in Seq(ToServer)
    BY <1>1, <2>3, <2>4
  <2>6. ToSet(ms) = {m} \cup ToSet(StopTyping(session[p]))
    <3>1. PICK first : first = <<m>>
      OBVIOUS
    <3>2. ToSet(first) = {m} /\ first \in Seq(ToServer)
      BY <2>4, <3>1, SetOne
    <3>3. PICK rest : rest = StopTyping(session[p])
      OBVIOUS
    <3>4. rest \in Seq(ToServer) /\ ms = first \o rest
      BY <1>1, <2>3, <3>1, <3>3
    <3>5. ToSet(ms) = ToSet(first) \cup ToSet(rest)
      BY <3>2, <3>4, SetConcat
    <3> QED BY <3>2, <3>3, <3>5
  <2>7. ~Has(ms, {"JOIN_ROOM", "LEAVE_ROOM", "disconnect"})
    BY <1>1, <2>2, <2>6 DEF Has
  <2>8. Send(p, ms) /\ Become(p, typingStopped(session[p]))
    BY <1>3, <2>1, <2>3 DEF sendMessage
  <2> QED BY <1>1, <1>3, <2>5, <2>7, <2>8, TypingPresence DEF sendMessage, Act
<1>4. CASE notifyTyping(p)
  <2>1. PICK m : m = Typing(session[p], TRUE)
    OBVIOUS
  <2>2. m \in ToServer /\ m.type = "TYPING"
    BY <1>4, <2>1, SessionFields, ToServerMessages DEF notifyTyping, Act, Typing
  <2>3. PICK ms : ms = IF session[p].isTyping THEN <<>> ELSE <<m>>
    OBVIOUS
  <2>4. <<m>> \in Seq(ToServer) /\ <<>> \in Seq(ToServer)
    BY <2>2, ShortSequences
  <2>5. ToSet(<<m>>) = {m} /\ ToSet(<<>>) = {}
    BY SetOne, SetNothing
  <2>6. ms \in Seq(ToServer) /\ ToSet(ms) \subseteq {m}
    BY <2>3, <2>4, <2>5
  <2>7. ~Has(ms, {"JOIN_ROOM", "LEAVE_ROOM", "disconnect"})
    BY <2>2, <2>6 DEF Has
  <2>8. PICK x : x = [session[p] EXCEPT !.isTyping = TRUE, !.typingTimer = TRUE]
    OBVIOUS
  <2>9. x.phase = session[p].phase /\ x.room = session[p].room
    BY <2>8, SessionFields DEF Session
  <2>10. Send(p, ms) /\ Become(p, x)
    BY <1>4, <2>1, <2>3, <2>8 DEF notifyTyping
  <2> QED BY <1>4, <2>6, <2>7, <2>9, <2>10, TypingPresence DEF notifyTyping, Act
<1> QED BY <1>2, <1>3, <1>4

LEMMA joinRoomPresence ==
  ASSUME TypeOK, PresenceInv, NEW p \in Page, joinRoom(p)
  PROVE  PresenceInv'
<1> USE DEF TypeOK
<1>1. PICK r \in RoomId, n \in Name :
        LET x == [session[p] EXCEPT !.phase = "joining", !.room = r, !.name = n] IN
          Become(p, x) /\ Send(p, <<JoinRoom(x)>>)
  BY DEF joinRoom
<1>2. PICK x : x = [session[p] EXCEPT !.phase = "joining", !.room = r, !.name = n]
  OBVIOUS
<1>3. PICK m : m = [type |-> "JOIN_ROOM", room |-> r, name |-> n]
  OBVIOUS
<1>4. x.phase = "joining" /\ x.room = r /\ JoinRoom(x) = m
  BY <1>2, <1>3, SessionFields DEF Session, JoinRoom
<1>5. m.type = "JOIN_ROOM" /\ m.room = r /\ m \in ToServer
  BY <1>3, ToServerMessages
<1>6. <<m>> \in Seq(ToServer) /\ Send(p, <<m>>) /\ Become(p, x)
  BY <1>1, <1>2, <1>4, <1>5, ShortSequences
<1>7. UNCHANGED <<connection, toPage, suspended, participants>>
  BY DEF joinRoom, roomVars
<1>8. PICK s \in Socket : s = SocketOf(p) /\ s = SocketOf(p)'
  BY <1>7, CurrentSocket DEF SocketOf
<1>9. /\ OnlyPage(p) /\ session'[p] = x /\ toServer'[s] = toServer[s] \o <<m>>
      /\ \A t \in Socket : t[1] = p /\ t # s => SocketInv(t)'
      /\ PageInv(p) /\ ClosedInv(p) /\ SocketInv(s)
  BY <1>6, <1>8, SendStep DEF joinRoom
<1>10. toServer[s] \in Seq(ToServer)
  BY <1>8 DEF ChatRoomsTypeOK
<1>11. ToSet(toServer'[s]) = ToSet(toServer[s]) \cup {m}
  BY <1>9, <1>10, SetMore
<1>12. /\ ~Has(toServer[s], {"JOIN_ROOM"}) /\ ~Waits(s) /\ ~Has(toPage[p], Answers)
       /\ session[p].phase # "joined"
  BY <1>8, <1>9 DEF joinRoom, PageInv
<1>13. ~Active(p) /\ ~Active(p)'
  BY <1>4, <1>7, <1>9, <1>12 DEF Active, Has, Answers
<1>14. /\ Has(toServer'[s], {"disconnect"}) => Has(toServer[s], {"disconnect"})
       /\ \A q : Leaves(s, q)' <=> Leaves(s, q)
       /\ \A q : Members(q)' = Members(q)
       /\ ~Waits(s)'
  <2>1. \A q : Leaves(s, q)' <=> Leaves(s, q)
    BY <1>5, <1>11 DEF Leaves
  <2> QED BY <1>5, <1>7, <1>11, <1>12, <2>1 DEF Has, Members, Waits
<1>15. SocketInv(s)'
  <2>1. Apart(toServer'[s], {"JOIN_ROOM"}, {"JOIN_ROOM", "LEAVE_ROOM"})
    BY <1>5, <1>9, <1>10, <1>12, ApartMore DEF SocketInv
  <2>2. \A q \in RoomId : s \in Members(q) => Leaves(s, q)
    BY <1>8, <1>9, <1>13 DEF PageInv
  <2>3. ~(s[2] > connection[s[1]])
    BY <1>8 DEF ChatRoomsTypeOK, SocketOf
  <2> QED BY <1>7, <1>9, <1>14, <2>1, <2>2, <2>3 DEF SocketInv, SocketOf
<1>16. PageInv(p)'
  <2>1. \A k \in ToSet(toServer'[s]) : k.type = "JOIN_ROOM" => k.room = x.room
    BY <1>4, <1>5, <1>11, <1>12 DEF Has
  <2>2. \A h \in suspended' : h.socket # s
    BY <1>7, <1>12 DEF Waits
  <2> QED BY <1>4, <1>7, <1>8, <1>9, <1>12, <1>13, <1>14, <2>1, <2>2 DEF PageInv
<1>17. ClosedInv(p)'
  <2>1. Apart(toPage[p], {"JOIN_SUCCESS"}, {"ROOM_CLOSED"})
    <3>1. toPage[p] \in Seq(ToPage)
      BY DEF ChatRoomsTypeOK
    <3> QED BY <1>12, <3>1 DEF Apart, Has, ToSet, Answers
  <2> QED BY <1>4, <1>7, <1>9, <2>1 DEF ClosedInv
<1> QED
  BY <1>8, <1>9, <1>15, <1>16, <1>17, OnlyPagePresence

LEMMA leaveRoomPresence ==
  ASSUME TypeOK, PresenceInv, NEW p \in Page, leaveRoom(p)
  PROVE  PresenceInv'
<1> USE DEF TypeOK
<1>1. PICK r \in RoomId : r = session[p].room
  <2>1. PageInv(p) /\ Active(p)
    BY DEF PresenceInv, leaveRoom, Active
  <2> QED BY <2>1, SessionFields DEF PageInv
<1>2. PICK x : x = [Fresh EXCEPT !.isTyping = session[p].isTyping]
  OBVIOUS
<1>3. x.phase = "idle" /\ x.room = None
  BY <1>2 DEF Fresh
<1>4. PICK m : m = [type |-> "LEAVE_ROOM", room |-> r]
  OBVIOUS
<1>5. m.type = "LEAVE_ROOM" /\ m.room = r /\ m \in ToServer
  BY <1>4, ToServerMessages
<1>6. <<m>> \in Seq(ToServer) /\ Send(p, <<m>>) /\ Become(p, x)
  <2>1. r # None
    BY ChatAssumption
  <2> QED BY <1>1, <1>2, <1>4, <1>5, <2>1, ShortSequences DEF leaveRoom
<1>7. UNCHANGED <<connection, toPage, suspended, participants>>
  BY DEF leaveRoom, roomVars
<1>8. PICK s \in Socket : s = SocketOf(p) /\ s = SocketOf(p)'
  BY <1>7, CurrentSocket DEF SocketOf
<1>9. /\ OnlyPage(p) /\ session'[p] = x /\ toServer'[s] = toServer[s] \o <<m>>
      /\ \A t \in Socket : t[1] = p /\ t # s => SocketInv(t)'
      /\ PageInv(p) /\ ClosedInv(p) /\ SocketInv(s)
  BY <1>6, <1>8, SendStep DEF leaveRoom
<1>10. toServer[s] \in Seq(ToServer)
  BY <1>8 DEF ChatRoomsTypeOK
<1>11. ToSet(toServer'[s]) = ToSet(toServer[s]) \cup {m}
  BY <1>9, <1>10, SetMore
<1>12. /\ ~Has(toServer[s], {"JOIN_ROOM"}) /\ ~Waits(s) /\ ~Has(toPage[p], Answers)
       /\ ~Has(toServer[s], {"LEAVE_ROOM"})
  BY <1>8, <1>9 DEF leaveRoom, PageInv, Active
<1>13. ~Active(p)'
  BY <1>3, <1>7, <1>9, <1>12 DEF Active, Has, Answers
<1>14. /\ ~Has(toServer'[s], {"JOIN_ROOM"})
       /\ Has(toServer'[s], {"disconnect"}) => Has(toServer[s], {"disconnect"})
       /\ Leaves(s, r)'
       /\ \A q : Members(q)' = Members(q)
       /\ ~Waits(s)'
  BY <1>5, <1>7, <1>11, <1>12 DEF Has, Members, Waits, Leaves
<1>15. SocketInv(s)'
  <2>1. Apart(toServer'[s], {"JOIN_ROOM"}, {"JOIN_ROOM", "LEAVE_ROOM"})
    BY <1>5, <1>9, <1>10, <1>12, ApartMore DEF SocketInv
  <2>2. ~(s[2] > connection[s[1]])
    BY <1>8 DEF ChatRoomsTypeOK, SocketOf
  <2> QED BY <1>7, <1>9, <1>14, <2>1, <2>2 DEF SocketInv, SocketOf
<1>16. PageInv(p)'
  <2>1. \A q \in RoomId : s \in Members(q) => q = r
    <3>1. \A q : ~Leaves(s, q)
      BY <1>12 DEF Leaves, Has
    <3> QED BY <1>1, <1>8, <1>9, <3>1 DEF PageInv
  <2>2. \A h \in suspended' : h.socket # s
    BY <1>7, <1>12 DEF Waits
  <2>3. \A k \in ToSet(toServer'[s]) : k.type # "JOIN_ROOM"
    BY <1>14 DEF Has
  <2> QED BY <1>3, <1>7, <1>8, <1>9, <1>12, <1>13, <1>14, <2>1, <2>2, <2>3 DEF PageInv
<1>17. ClosedInv(p)'
  <2>1. Apart(toPage[p], {"JOIN_SUCCESS"}, {"ROOM_CLOSED"})
    <3>1. toPage[p] \in Seq(ToPage)
      BY DEF ChatRoomsTypeOK
    <3> QED BY <1>12, <3>1 DEF Apart, Has, ToSet, Answers
  <2> QED BY <1>3, <1>7, <1>9, <2>1 DEF ClosedInv
<1> QED
  BY <1>8, <1>9, <1>15, <1>16, <1>17, OnlyPagePresence

\* What reading a message does to the queue, and leaves alone.
LEMMA ReceiveStep ==
  ASSUME TypeOK, PresenceInv, NEW p \in Page, NEW type, Receive(p, type),
         \A q \in Page \ {p} : session'[q] = session[q]
  PROVE  /\ toPage[p] \in Seq(ToPage) /\ toPage'[p] \in Seq(ToPage)
         /\ DOMAIN toPage'[p] = 1..Len(toPage'[p])
         /\ Head(toPage[p]) \in ToPage /\ Head(toPage[p]).type = type
         /\ ToSet(toPage[p]) = {Head(toPage[p])} \cup ToSet(toPage'[p])
         /\ \A A, B : Apart(toPage[p], A, B) =>
              Apart(toPage'[p], A, B) /\ (type \in A => ~Has(toPage'[p], B))
         /\ UNCHANGED <<connection, toServer, suspended, participants>>
         /\ OnlyPage(p)
         /\ \A s \in Socket : SocketInv(s)'
         /\ PageInv(p) /\ ClosedInv(p) /\ SocketInv(SocketOf(p))
<1> USE DEF TypeOK
<1>1. /\ toPage[p] \in Seq(ToPage) /\ toPage[p] # <<>> /\ toPage'[p] = Tail(toPage[p])
      /\ \A q \in Page \ {p} : toPage'[q] = toPage[q]
      /\ UNCHANGED <<connection, toServer, suspended, participants>>
  BY DEF Receive, ChatRoomsTypeOK, roomVars
<1>2. ToSet(toPage[p]) = {Head(toPage[p])} \cup ToSet(toPage'[p])
  BY <1>1, SetTail
<1>3. Head(toPage[p]) \in ToPage /\ Head(toPage[p]).type = type
  BY ReceiveType
<1>4. toPage'[p] \in Seq(ToPage) /\ DOMAIN toPage'[p] = 1..Len(toPage'[p])
  BY <1>1
<1>5. \A A, B : Apart(toPage[p], A, B) =>
        Apart(toPage'[p], A, B) /\ (type \in A => ~Has(toPage'[p], B))
  BY <1>1, <1>3, ApartTail
<1>6. OnlyPage(p)
  BY <1>1 DEF OnlyPage
<1>7. \A s \in Socket : SocketInv(s)'
  BY <1>1, SocketSame DEF PresenceInv
<1> QED
  BY <1>1, <1>2, <1>3, <1>4, <1>5, <1>6, <1>7, CurrentSocket DEF PresenceInv

LEMMA SessionBecomes ==
  ASSUME TypeOK, NEW p \in Page, NEW x, Become(p, x)
  PROVE  session'[p] = x /\ \A q \in Page \ {p} : session'[q] = session[q]
BY DEF TypeOK, ChatSocketTypeOK, Become

LEMMA onJoinSuccessPresence ==
  ASSUME TypeOK, PresenceInv, NEW p \in Page, onJoinSuccess(p)
  PROVE  PresenceInv'
<1>1. PICK x : x = [session[p] EXCEPT !.phase = "joined", !.roster = Head(toPage[p]).participants]
  OBVIOUS
<1>2. x.phase = "joined" /\ x.room = session[p].room
  BY <1>1, SessionFields DEF TypeOK, Session
<1>3. Receive(p, "JOIN_SUCCESS") /\ Become(p, x)
  BY <1>1 DEF onJoinSuccess
<1>4. session'[p] = x /\ \A q \in Page \ {p} : session'[q] = session[q]
  BY <1>3, SessionBecomes
<1>5. PICK s : s = SocketOf(p) /\ s = SocketOf(p)'
  BY <1>3 DEF Receive, SocketOf
<1>6. /\ ToSet(toPage[p]) = {Head(toPage[p])} \cup ToSet(toPage'[p])
      /\ Head(toPage[p]).type = "JOIN_SUCCESS"
      /\ DOMAIN toPage'[p] = 1..Len(toPage'[p])
      /\ UNCHANGED <<toServer, suspended, participants>>
      /\ PageInv(p) /\ ClosedInv(p) /\ OnlyPage(p)
      /\ \A t \in Socket : SocketInv(t)'
  BY <1>3, <1>4, ReceiveStep
<1>7. \A A, B : Apart(toPage[p], A, B) =>
        Apart(toPage'[p], A, B) /\ ("JOIN_SUCCESS" \in A => ~Has(toPage'[p], B))
  BY <1>3, <1>4, ReceiveStep
<1>8. Has(toPage[p], Answers) /\ Active(p) /\ Active(p)'
  BY <1>2, <1>4, <1>6 DEF Has, Answers, Active
<1>9. ~Has(toPage'[p], Answers) /\ ~Has(toPage'[p], {"JOIN_SUCCESS"})
  <2>1. Apart(toPage[p], Answers, Answers)
    BY <1>6 DEF PageInv
  <2> QED BY <1>7, <2>1 DEF Answers, Has
<1>10. ~Has(toServer[s], {"JOIN_ROOM"}) /\ ~Waits(s) /\ ~Has(toServer[s], {"LEAVE_ROOM"})
  BY <1>5, <1>6, <1>8 DEF PageInv
<1>11. Has(toPage'[p], {"ROOM_CLOSED"}) <=> Has(toPage[p], {"ROOM_CLOSED"})
  BY <1>6 DEF Has
<1>12. \A r : Members(r)' = Members(r) /\ (Leaves(s, r)' <=> Leaves(s, r))
  BY <1>6 DEF Members, Leaves
<1>13. PageInv(p)'
  <2>1. ~Waits(s)'
    BY <1>6, <1>10 DEF Waits
  <2>2. Apart(toPage'[p], Answers, Answers)
    BY <1>6, <1>7 DEF PageInv
  <2> QED BY <1>2, <1>4, <1>5, <1>6, <1>8, <1>9, <1>10, <1>11, <1>12, <2>1, <2>2 DEF PageInv
<1>14. ClosedInv(p)'
  <2>1. Has(toPage'[p], {"ROOM_CLOSED"}) => s \notin Members(session[p].room)
    BY <1>5, <1>6, <1>7 DEF ClosedInv
  <2>2. Apart(toPage'[p], {"JOIN_SUCCESS"}, {"ROOM_CLOSED"})
    BY <1>6, <1>9, ApartAbsent
  <2> QED BY <1>2, <1>4, <1>5, <1>12, <2>1, <2>2 DEF ClosedInv
<1> QED BY <1>6, <1>13, <1>14, OnlyPagePresence

LEMMA onJoinErrorPresence ==
  ASSUME TypeOK, PresenceInv, NEW p \in Page, onJoinError(p)
  PROVE  PresenceInv'
<1>1. PICK x : x = [session[p] EXCEPT !.phase = "idle"]
  OBVIOUS
<1>2. x.phase = "idle" /\ x.room = session[p].room
  BY <1>1, SessionFields DEF TypeOK, Session
<1>3. Receive(p, "JOIN_ERROR") /\ Become(p, x)
  BY <1>1 DEF onJoinError
<1>4. session'[p] = x /\ \A q \in Page \ {p} : session'[q] = session[q]
  BY <1>3, SessionBecomes
<1>5. PICK s : s = SocketOf(p) /\ s = SocketOf(p)'
  BY <1>3 DEF Receive, SocketOf
<1>6. /\ ToSet(toPage[p]) = {Head(toPage[p])} \cup ToSet(toPage'[p])
      /\ Head(toPage[p]).type = "JOIN_ERROR"
      /\ DOMAIN toPage'[p] = 1..Len(toPage'[p])
      /\ UNCHANGED <<toServer, suspended, participants>>
      /\ PageInv(p) /\ ClosedInv(p) /\ OnlyPage(p)
      /\ \A t \in Socket : SocketInv(t)'
  BY <1>3, <1>4, ReceiveStep
<1>7. \A A, B : Apart(toPage[p], A, B) =>
        Apart(toPage'[p], A, B) /\ ("JOIN_ERROR" \in A => ~Has(toPage'[p], B))
  BY <1>3, <1>4, ReceiveStep
<1>8. Has(toPage[p], Answers) /\ session[p].phase = "joining"
  BY <1>6 DEF Has, Answers, PageInv
<1>9. ~Has(toPage'[p], Answers) /\ ~Has(toPage'[p], {"JOIN_SUCCESS"})
  <2>1. Apart(toPage[p], Answers, Answers)
    BY <1>6 DEF PageInv
  <2> QED BY <1>7, <2>1 DEF Answers, Has
<1>10. ~Active(p) /\ ~Active(p)'
  BY <1>2, <1>4, <1>6, <1>8, <1>9 DEF Active, Has
<1>11. ~Has(toServer[s], {"JOIN_ROOM"}) /\ ~Waits(s)
  BY <1>5, <1>6, <1>8 DEF PageInv
<1>12. \A r : Members(r)' = Members(r) /\ (Leaves(s, r)' <=> Leaves(s, r))
  BY <1>6 DEF Members, Leaves
<1>13. PageInv(p)'
  <2>1. ~Waits(s)'
    BY <1>6, <1>11 DEF Waits
  <2>2. Apart(toPage'[p], Answers, Answers)
    BY <1>6, <1>7 DEF PageInv
  <2> QED BY <1>2, <1>4, <1>5, <1>6, <1>9, <1>10, <1>11, <1>12, <2>1, <2>2 DEF PageInv
<1>14. ClosedInv(p)'
  <2>1. Apart(toPage'[p], {"JOIN_SUCCESS"}, {"ROOM_CLOSED"})
    BY <1>6, <1>9, ApartAbsent
  <2> QED BY <1>2, <1>4, <1>5, <2>1 DEF ClosedInv
<1> QED BY <1>6, <1>13, <1>14, OnlyPagePresence

LEMMA onRoomClosedPresence ==
  ASSUME TypeOK, PresenceInv, NEW p \in Page, onRoomClosed(p), session[p].phase # "joining"
  PROVE  PresenceInv'
<1>1. PICK x : x = [session[p] EXCEPT !.phase = "closed", !.room = None, !.name = None]
  OBVIOUS
<1>2. x.phase = "closed" /\ x.room = None
  BY <1>1, SessionFields DEF TypeOK, Session
<1>3. Receive(p, "ROOM_CLOSED") /\ Become(p, x)
  BY <1>1 DEF onRoomClosed
<1>4. session'[p] = x /\ \A q \in Page \ {p} : session'[q] = session[q]
  BY <1>3, SessionBecomes
<1>5. PICK s : s = SocketOf(p) /\ s = SocketOf(p)'
  BY <1>3 DEF Receive, SocketOf
<1>6. /\ ToSet(toPage[p]) = {Head(toPage[p])} \cup ToSet(toPage'[p])
      /\ Head(toPage[p]).type = "ROOM_CLOSED"
      /\ DOMAIN toPage'[p] = 1..Len(toPage'[p])
      /\ UNCHANGED <<toServer, suspended, participants>>
      /\ PageInv(p) /\ ClosedInv(p) /\ OnlyPage(p)
      /\ \A t \in Socket : SocketInv(t)'
  BY <1>3, <1>4, ReceiveStep
<1>7. /\ ~Has(toServer[s], {"JOIN_ROOM"}) /\ ~Waits(s)
      /\ ~Has(toPage[p], Answers) /\ ~Has(toPage'[p], Answers)
      /\ ~Has(toPage[p], {"JOIN_SUCCESS"}) /\ ~Has(toPage'[p], {"JOIN_SUCCESS"})
  <2>1. ~Has(toServer[s], {"JOIN_ROOM"}) /\ ~Waits(s) /\ ~Has(toPage[p], Answers)
    BY <1>5, <1>6 DEF PageInv
  <2> QED BY <1>6, <2>1 DEF Has, Answers
<1>8. ~Active(p)' /\ (Active(p) => session[p].phase = "joined")
  BY <1>2, <1>4, <1>7 DEF Active
<1>9. Active(p) => s \notin Members(session[p].room)
  <2>1. Has(toPage[p], {"ROOM_CLOSED"})
    BY <1>6 DEF Has
  <2> QED BY <1>5, <1>6, <1>8, <2>1 DEF ClosedInv
<1>10. \A r : Members(r)' = Members(r) /\ (Leaves(s, r)' <=> Leaves(s, r))
  BY <1>6 DEF Members, Leaves
<1>11. PageInv(p)'
  <2>1. ~Waits(s)' /\ \A h \in suspended' : h.socket # s
    BY <1>6, <1>7 DEF Waits
  <2>2. Apart(toPage'[p], Answers, Answers)
    BY <1>6, <1>7, ApartAbsent
  <2>3. \A r \in RoomId : s \in Members(r) => Leaves(s, r)
    BY <1>5, <1>6, <1>9 DEF PageInv
  <2>4. \A m \in ToSet(toServer[s]) : m.type # "JOIN_ROOM"
    BY <1>7 DEF Has
  <2> QED BY <1>2, <1>4, <1>5, <1>6, <1>7, <1>8, <1>10, <2>1, <2>2, <2>3, <2>4 DEF PageInv
<1>12. ClosedInv(p)'
  <2>1. Apart(toPage'[p], {"JOIN_SUCCESS"}, {"ROOM_CLOSED"})
    BY <1>6, <1>7, ApartAbsent
  <2> QED BY <1>2, <1>4, <2>1 DEF ClosedInv
<1> QED BY <1>6, <1>11, <1>12, OnlyPagePresence

\* The news of others, and messages.
News == {"USER_JOINED", "USER_LEFT", "USER_TYPING", "NEW_MESSAGE"}

LEMMA NewsRead ==
  ASSUME TypeOK, PresenceInv, NEW p \in Page, NEW type \in News, Receive(p, type), NEW x,
         x.phase = session[p].phase, x.room = session[p].room,
         session'[p] = x, \A q \in Page \ {p} : session'[q] = session[q]
  PROVE  PresenceInv'
<1>1. PICK s : s = SocketOf(p) /\ s = SocketOf(p)'
  BY DEF Receive, SocketOf
<1>2. /\ ToSet(toPage[p]) = {Head(toPage[p])} \cup ToSet(toPage'[p])
      /\ Head(toPage[p]).type = type
      /\ UNCHANGED <<toServer, suspended, participants>>
      /\ PageInv(p) /\ ClosedInv(p) /\ OnlyPage(p)
      /\ \A t \in Socket : SocketInv(t)'
  BY ReceiveStep
<1>3. \A A, B : Apart(toPage[p], A, B) => Apart(toPage'[p], A, B)
  BY ReceiveStep
<1>4. \A T \in {Answers, {"JOIN_SUCCESS"}, {"ROOM_CLOSED"}} :
        Has(toPage'[p], T) <=> Has(toPage[p], T)
  BY <1>2 DEF Has, Answers, News
<1>5. /\ Waits(s)' <=> Waits(s)
      /\ Active(p)' <=> Active(p)
      /\ \A r : Members(r)' = Members(r)
      /\ \A r : Leaves(s, r)' <=> Leaves(s, r)
  BY <1>2, <1>4 DEF Waits, Active, Members, Leaves
<1>6. PageInv(p)'
  BY <1>1, <1>2, <1>3, <1>4, <1>5 DEF PageInv
<1>7. ClosedInv(p)'
  BY <1>1, <1>2, <1>3, <1>4, <1>5 DEF ClosedInv
<1> QED BY <1>2, <1>6, <1>7, OnlyPagePresence

LEMMA newsReadPresence ==
  ASSUME TypeOK, PresenceInv, NEW p \in Page,
         onUserJoined(p) \/ onUserLeft(p) \/ onUserTyping(p) \/ onNewMessage(p)
  PROVE  PresenceInv'
<1> USE DEF TypeOK
<1>1. CASE onUserJoined(p)
  <2>1. PICK x : x = [session[p] EXCEPT !.roster = @ \cup {Head(toPage[p]).name}]
    OBVIOUS
  <2>2. x.phase = session[p].phase /\ x.room = session[p].room
    BY <2>1, SessionFields DEF Session
  <2>3. Become(p, x) /\ Receive(p, "USER_JOINED")
    BY <1>1, <2>1 DEF onUserJoined
  <2> QED BY <2>2, <2>3, SessionBecomes, NewsRead DEF News
<1>2. CASE onUserLeft(p)
  <2>1. PICK x : x = [session[p] EXCEPT !.roster = @ \ {Head(toPage[p]).name},
                                        !.typing = @ \ {Head(toPage[p]).name}]
    OBVIOUS
  <2>2. x.phase = session[p].phase /\ x.room = session[p].room
    BY <2>1, SessionFields DEF Session
  <2>3. Become(p, x) /\ Receive(p, "USER_LEFT")
    BY <1>2, <2>1 DEF onUserLeft
  <2> QED BY <2>2, <2>3, SessionBecomes, NewsRead DEF News
<1>3. CASE onUserTyping(p)
  <2>1. PICK names : Become(p, [session[p] EXCEPT !.typing = names])
    BY <1>3 DEF onUserTyping
  <2>2. PICK x : x = [session[p] EXCEPT !.typing = names]
    OBVIOUS
  <2>3. x.phase = session[p].phase /\ x.room = session[p].room
    BY <2>2, SessionFields DEF Session
  <2>4. Become(p, x) /\ Receive(p, "USER_TYPING")
    BY <1>3, <2>1, <2>2 DEF onUserTyping
  <2> QED BY <2>3, <2>4, SessionBecomes, NewsRead DEF News
<1>4. CASE onNewMessage(p)
  BY <1>4, NewsRead DEF onNewMessage, News
<1> QED BY <1>1, <1>2, <1>3, <1>4

\* A socket of a page: its current one, the next one, or another.
LEMMA SocketsOfPage ==
  ASSUME ChatRoomsTypeOK, NEW p \in Page, NEW s \in Socket, s[1] = p
  PROVE  /\ s[2] \in Nat /\ connection[p] \in Nat
         /\ s = SocketOf(p) <=> s[2] = connection[p]
         /\ \A k : s = <<p, k>> <=> s[2] = k
<1>1. s = <<s[1], s[2]>> /\ s[2] \in Nat
  BY SocketFields
<1> QED BY <1>1 DEF ChatRoomsTypeOK, SocketOf

\* What a page sends on a new socket: nothing, or that it joins again.
Again(x, ms) ==
  /\ \A m \in ToSet(ms) : m.type = "JOIN_ROOM" /\ m.room = x.room /\ x.phase = "joining"
  /\ \A A, B : Apart(ms, A, B)

LEMMA RejoinAgain ==
  ASSUME ChatSocketTypeOK, NEW p \in Page
  PROVE  Again(onConnect(session[p]), Rejoin(session[p]))
<1>1. CASE session[p].room = None
  BY <1>1, SetNothing, ApartShort DEF Again, Rejoin
<1>2. CASE session[p].room # None
  <2>1. PICK m : m = JoinRoom(session[p])
    OBVIOUS
  <2>2. m.type = "JOIN_ROOM" /\ m.room = session[p].room
    BY <2>1 DEF JoinRoom
  <2>3. PICK ms : ms = Rejoin(session[p]) /\ ms = <<m>>
    BY <1>2, <2>1 DEF Rejoin
  <2>4. ToSet(ms) = {m} /\ \A A, B : Apart(ms, A, B)
    BY <2>3, SetOne, ApartShort
  <2>5. PICK x : x = onConnect(session[p])
    OBVIOUS
  <2>6. x.phase = "joining" /\ x.room = session[p].room
    BY <1>2, <2>5, RejoinType
  <2> QED BY <2>2, <2>3, <2>4, <2>5, <2>6 DEF Again
<1> QED BY <1>1, <1>2

LEMMA ReconnectPresence ==
  ASSUME TypeOK, PresenceInv, NEW p \in Page, NEW ms \in Seq(ToServer), NEW x,
         NEW lost \in SUBSET (0..Len(toServer[SocketOf(p)])),
         Reconnect(p, lost, ms), Become(p, x), UNCHANGED roomVars,
         Again(x, ms), x.phase # "joined"
  PROVE  PresenceInv'
<1> USE DEF TypeOK
<1>1. PICK s \in Socket : s = SocketOf(p)
  BY CurrentSocket
<1>2. PICK t \in Socket : t = SocketOf(p)'
  <2>1. lost \in SUBSET Nat
    BY <1>1, CurrentSocket
  <2> QED BY <2>1, ReconnectType
<1>3. /\ connection[p] \in Nat /\ connection'[p] = connection[p] + 1
      /\ \A q \in Page \ {p} : connection'[q] = connection[q] /\ toPage'[q] = toPage[q]
      /\ toPage'[p] = <<>>
      /\ UNCHANGED <<suspended, participants>>
  BY DEF Reconnect, ChatRoomsTypeOK, roomVars
<1>4. t = <<p, connection[p] + 1>> /\ s = <<p, connection[p]>> /\ s # t
  BY <1>1, <1>2, <1>3 DEF SocketOf
<1>5. PICK n \in lost :
        toServer' = [toServer EXCEPT ![s] = SubSeq(@, 1, Len(@) - n) \o <<[type |-> "disconnect"]>>,
                                     ![t] = ms]
  BY <1>1, <1>4 DEF Reconnect
<1>6. toServer[s] \in Seq(ToServer)
  BY <1>1, CurrentSocket
<1>7. PICK k \in 0..Len(toServer[s]) : k = Len(toServer[s]) - n
  <2>1. Len(toServer[s]) \in Nat /\ n \in 0..Len(toServer[s])
    BY <1>1, <1>5, <1>6
  <2>2. Len(toServer[s]) - n \in 0..Len(toServer[s])
    BY <2>1
  <2> QED BY <2>2
<1>8. PICK q : q = SubSeq(toServer[s], 1, k)
  OBVIOUS
<1>9. PICK d : d = [type |-> "disconnect"]
  OBVIOUS
<1>10. /\ toServer'[s] = q \o <<d>> /\ toServer'[t] = ms
       /\ \A u \in Socket \ {s, t} : toServer'[u] = toServer[u]
  BY <1>4, <1>5, <1>7, <1>8, <1>9 DEF ChatRoomsTypeOK
<1>11. q \in Seq(ToServer) /\ d \in ToServer /\ d.type = "disconnect"
  BY <1>6, <1>7, <1>8, <1>9, Prefix, ToServerMessages
<1>12. ToSet(toServer'[s]) = ToSet(q) \cup {d}
  BY <1>10, <1>11, SetMore
<1>13. session'[p] = x /\ \A r \in Page \ {p} : session'[r] = session[r]
  BY SessionBecomes
<1>14. OnlyPage(p)
  BY <1>3, <1>4, <1>10, <1>13 DEF OnlyPage
<1>15. \A u : Waits(u)' <=> Waits(u)
  BY <1>3 DEF Waits
<1>16. \A r : Members(r)' = Members(r)
  BY <1>3 DEF Members
<1>17. SocketInv(s) /\ SocketInv(t)
  BY DEF PresenceInv
<1>18. /\ ToSet(q) \subseteq ToSet(toServer[s])
       /\ Apart(q, {"JOIN_ROOM"}, {"JOIN_ROOM", "LEAVE_ROOM"})
       /\ \A m \in ToSet(toServer[s]) :
            m.type = "LEAVE_ROOM" /\ Has(q, {"JOIN_ROOM"}) => m \in ToSet(q)
  <2>1. PICK A, B : A = {"JOIN_ROOM"} /\ B = {"JOIN_ROOM", "LEAVE_ROOM"}
    OBVIOUS
  <2>2. Apart(toServer[s], A, B)
    BY <1>17, <2>1 DEF SocketInv
  <2>3. /\ ToSet(q) \subseteq ToSet(toServer[s])
        /\ Apart(q, A, B)
        /\ \A m \in ToSet(toServer[s]) : m.type \in B \ A /\ Has(q, A) => m \in ToSet(q)
    BY <1>6, <1>7, <1>8, <2>2, PrefixApart
  <2> QED BY <2>1, <2>3
<1>19. SocketInv(s)'
  <2>1. Has(toServer'[s], {"JOIN_ROOM"}) => Has(q, {"JOIN_ROOM"}) /\ Has(toServer[s], {"JOIN_ROOM"})
    BY <1>11, <1>12, <1>18 DEF Has
  <2>2. Apart(toServer'[s], {"JOIN_ROOM"}, {"JOIN_ROOM", "LEAVE_ROOM"})
    BY <1>10, <1>11, <1>18, ApartMore
  <2>3. \A r : Has(q, {"JOIN_ROOM"}) /\ Leaves(s, r) => Leaves(s, r)'
    BY <1>12, <1>18 DEF Leaves
  <2>4. s # SocketOf(s[1])' /\ ~(s[2] > connection'[s[1]])
    BY <1>3, <1>4 DEF SocketOf
  <2> QED BY <1>15, <1>16, <1>17, <2>1, <2>2, <2>3, <2>4 DEF SocketInv
<1>20. /\ ~Waits(t) /\ ~Waits(t)' /\ \A r \in RoomId : t \notin Members(r) /\ t \notin Members(r)'
  <2>1. t[2] > connection[t[1]]
    BY <1>3, <1>4
  <2> QED BY <1>15, <1>16, <1>17, <2>1 DEF SocketInv
<1>21. ~Has(ms, {"disconnect"}) /\ ~Has(ms, {"LEAVE_ROOM"}) /\ \A A, B : Apart(ms, A, B)
  BY DEF Again, Has
<1>22. SocketInv(t)'
  <2>1. ~(t[2] > connection'[t[1]])
    BY <1>3, <1>4
  <2> QED BY <1>10, <1>20, <1>21, <2>1 DEF SocketInv
<1>23. ASSUME NEW u \in Socket, u[1] = p, u # s, u # t PROVE SocketInv(u)'
  <2>1. u[2] \in Nat /\ u[2] # connection[p] /\ u # SocketOf(p)
    BY <1>1, <1>23, SocketsOfPage
  <2>2. SocketInv(u) /\ toServer'[u] = toServer[u]
    BY <1>10, <1>23 DEF PresenceInv
  <2>3. u # SocketOf(u[1])'
    BY <1>2, <1>23
  <2>4. u[2] > connection'[u[1]] => u[2] > connection[u[1]]
    BY <1>3, <1>23, <2>1
  <2>5. \A r : Leaves(u, r)' <=> Leaves(u, r)
    BY <2>2 DEF Leaves
  <2> QED BY <1>15, <1>16, <2>2, <2>3, <2>4, <2>5 DEF SocketInv
<1>24. ~Active(p)' /\ ~Has(toPage'[p], Answers) /\ \A A, B : Apart(toPage'[p], A, B)
  BY <1>3, <1>13, SetNothing, ApartShort DEF Active, Has
<1>25. PageInv(p)'
  <2>1. \A h \in suspended' : h.socket # t
    BY <1>20 DEF Waits
  <2>2. \A m \in ToSet(toServer'[t]) : m.type = "JOIN_ROOM" /\ m.room = x.room /\ x.phase = "joining"
    BY <1>10 DEF Again
  <2>3. Has(toServer'[t], {"JOIN_ROOM"}) => x.phase = "joining"
    BY <2>2 DEF Has
  <2> QED BY <1>2, <1>13, <1>20, <1>24, <2>1, <2>2, <2>3 DEF PageInv
<1>26. ClosedInv(p)'
  BY <1>13, <1>24 DEF ClosedInv
<1> QED BY <1>14, <1>19, <1>22, <1>23, <1>25, <1>26, OnlyPagePresence

LEMMA pageLeftPresence ==
  ASSUME TypeOK, PresenceInv, NEW p \in Page, pageLeft(p)
  PROVE  PresenceInv'
<1>1. PICK x, ms, lost : x = Fresh /\ ms = <<>> /\ lost = {0}
  OBVIOUS
<1>2. x.phase = "idle" /\ ms \in Seq(ToServer) /\ Again(x, ms)
  BY <1>1, SetNothing, ApartShort, ShortSequences DEF Fresh, Again
<1>3. lost \in SUBSET (0..Len(toServer[SocketOf(p)]))
  BY <1>1, CurrentSocket DEF TypeOK
<1>4. Reconnect(p, lost, ms) /\ Become(p, x) /\ UNCHANGED roomVars
  BY <1>1 DEF pageLeft
<1> QED BY <1>2, <1>3, <1>4, ReconnectPresence

LEMMA connectionLostPresence ==
  ASSUME TypeOK, PresenceInv, NEW p \in Page, connectionLost(p)
  PROVE  PresenceInv'
<1>1. PICK x, ms, lost : /\ x = onConnect(session[p]) /\ ms = Rejoin(session[p])
                         /\ lost = 0..Len(toServer[SocketOf(p)])
  OBVIOUS
<1>2. Again(x, ms) /\ ms \in Seq(ToServer)
  BY <1>1, RejoinAgain, RejoinType DEF TypeOK
<1>3. x.phase # "joined"
  <2>1. session[p].phase = "joined" => session[p].room # None
    BY DEF PresenceInv, PageInv, Active
  <2> QED BY <1>1, <2>1, RejoinType DEF TypeOK
<1>4. Reconnect(p, lost, ms) /\ Become(p, x) /\ UNCHANGED roomVars
  BY <1>1 DEF connectionLost
<1>5. lost \in SUBSET (0..Len(toServer[SocketOf(p)]))
  BY <1>1
<1> QED BY <1>2, <1>3, <1>4, <1>5, ReconnectPresence

LEMMA restartPresence ==
  ASSUME TypeOK, PresenceInv, restart
  PROVE  PresenceInv'
<1> USE DEF TypeOK
<1>1. /\ suspended' = {} /\ \A r \in RoomId : Members(r)' = {}
      /\ \A p \in Page : /\ connection'[p] = connection[p] + 1 /\ connection[p] \in Nat
                         /\ toPage'[p] = <<>> /\ session'[p] = onConnect(session[p])
  BY DEF restart, Members, Nobody, ChatRoomsTypeOK
<1>2. \A s : ~Waits(s)'
  BY <1>1 DEF Waits
<1>3. WaitsOnce'
  BY <1>1 DEF WaitsOnce
<1>4. ASSUME NEW s \in Socket PROVE SocketInv(s)'
  <2>1. s[1] \in Page /\ s[2] \in Nat
    BY SocketFields
  <2>2. CASE s[2] = connection[s[1]] + 1
    <3>1. PICK ms : ms = Rejoin(session[s[1]])
      OBVIOUS
    <3>2. toServer'[s] = ms /\ Again(onConnect(session[s[1]]), ms)
      BY <2>1, <2>2, <3>1, RejoinAgain DEF restart
    <3>3. ~Has(ms, {"disconnect"}) /\ Apart(ms, {"JOIN_ROOM"}, {"JOIN_ROOM", "LEAVE_ROOM"})
      BY <3>2 DEF Again, Has
    <3>4. ~(s[2] > connection'[s[1]])
      BY <1>1, <2>1, <2>2
    <3> QED BY <1>1, <1>2, <3>2, <3>3, <3>4 DEF SocketInv
  <2>3. CASE s[2] # connection[s[1]] + 1
    <3>1. toServer'[s] = <<>>
      BY <2>3 DEF restart
    <3>2. \A T : ~Has(toServer'[s], T)
      BY <3>1, SetNothing DEF Has
    <3>3. Apart(toServer'[s], {"JOIN_ROOM"}, {"JOIN_ROOM", "LEAVE_ROOM"})
      BY <3>1, ApartShort
    <3> QED BY <1>1, <1>2, <3>1, <3>2, <3>3 DEF SocketInv
  <2> QED BY <2>2, <2>3
<1>5. ASSUME NEW p \in Page PROVE PageInv(p)' /\ ClosedInv(p)'
  <2>1. PICK x, ms : x = onConnect(session[p]) /\ ms = Rejoin(session[p])
    OBVIOUS
  <2>2. PICK t \in Socket : t = SocketOf(p)'
    BY restartType DEF ChatRoomsTypeOK
  <2>3. t = <<p, connection[p] + 1>>
    BY <1>1, <2>2 DEF SocketOf
  <2>4. toServer'[t] = ms /\ Again(x, ms)
    BY <2>1, <2>3, RejoinAgain DEF restart
  <2>5. x.phase # "joined"
    <3>1. session[p].phase = "joined" => session[p].room # None
      BY DEF PresenceInv, PageInv, Active
    <3> QED BY <2>1, <3>1, RejoinType
  <2>6. session'[p] = x /\ toPage'[p] = <<>>
    BY <1>1, <2>1
  <2>7. ~Active(p)' /\ ~Has(toPage'[p], Answers) /\ \A A, B : Apart(toPage'[p], A, B)
    BY <2>5, <2>6, SetNothing, ApartShort DEF Active, Has
  <2>8. \A m \in ToSet(toServer'[t]) : m.type = "JOIN_ROOM" /\ m.room = x.room /\ x.phase = "joining"
    BY <2>4 DEF Again
  <2>9. Has(toServer'[t], {"JOIN_ROOM"}) => x.phase = "joining"
    BY <2>8 DEF Has
  <2>10. PageInv(p)'
    BY <1>1, <1>2, <2>2, <2>6, <2>7, <2>8, <2>9 DEF PageInv
  <2>11. ClosedInv(p)'
    BY <2>5, <2>6, <2>7 DEF ClosedInv
  <2> QED BY <2>10, <2>11
<1> QED BY <1>3, <1>4, <1>5 DEF PresenceInv

LEMMA PresenceInit == ASSUME Init PROVE PresenceInv
<1>1. /\ suspended = {} /\ \A r \in RoomId : Members(r) = {}
      /\ \A s \in Socket : toServer[s] = <<>>
      /\ \A p \in Page : connection[p] = 1 /\ toPage[p] = <<>> /\ session[p] = Fresh
  BY DEF Init, ChatRoomsInit, ChatSocketInit, Members, Nobody
<1>2. \A s : ~Waits(s)
  BY <1>1 DEF Waits
<1>3. /\ \A s \in Socket : \A T : ~Has(toServer[s], T)
      /\ \A s \in Socket : \A A, B : Apart(toServer[s], A, B)
      /\ \A p \in Page : \A T : ~Has(toPage[p], T)
      /\ \A p \in Page : \A A, B : Apart(toPage[p], A, B)
  BY <1>1, SetNothing, ApartShort DEF Has
<1>4. \A s \in Socket : SocketInv(s)
  BY <1>1, <1>2, <1>3 DEF SocketInv
<1>5. ASSUME NEW p \in Page PROVE PageInv(p) /\ ClosedInv(p)
  <2>1. PICK s \in Socket : s = SocketOf(p)
    BY InitType, CurrentSocket DEF TypeOK
  <2>2. session[p].phase = "idle" /\ ~Active(p)
    BY <1>1, <1>3 DEF Fresh, Active
  <2>3. ToSet(toServer[s]) = {}
    BY <1>1, SetNothing
  <2> QED BY <1>1, <1>2, <1>3, <2>1, <2>2, <2>3 DEF PageInv, ClosedInv
<1> QED BY <1>1, <1>4, <1>5 DEF PresenceInv, WaitsOnce

-----------------------------------------------------------------------------
\* A step in which nothing that PresenceInv looks at changes.
LEMMA NothingSeen ==
  ASSUME PresenceInv, UNCHANGED <<socketVars, participants, suspended, session>>
  PROVE  PresenceInv'
<1>1. UNCHANGED <<connection, toServer, toPage>>
  BY DEF socketVars
<1>2. \A s \in Socket : SocketInv(s)'
  BY <1>1, SocketSame DEF PresenceInv
<1>3. \A p \in Page : PageInv(p)' /\ ClosedInv(p)'
  BY <1>1, PageSame DEF PresenceInv
<1> QED BY <1>2, <1>3 DEF PresenceInv, WaitsOnce

LEMMA PresenceStep ==
  ASSUME TypeOK, PresenceInv, [Next]_vars, [ClosedInTurn]_vars
  PROVE  PresenceInv'
<1>1. CASE UNCHANGED vars
  BY <1>1, NothingSeen DEF vars, roomVars, sessionVars
<1>2. CASE ~UNCHANGED vars
  <2>1. ClosedInTurn
    BY <1>2
  <2>2. ASSUME NEW p \in Page, PageStep(p) PROVE PresenceInv'
    BY <2>1, <2>2, onJoinSuccessPresence, onJoinErrorPresence, onRoomClosedPresence,
       newsReadPresence DEF PageStep, PageHandler, ClosedInTurn
  <2>3. ASSUME NEW p \in Page, UserStep(p) PROVE PresenceInv'
    BY <2>3, joinRoomPresence, leaveRoomPresence, typingPresence, pageLeftPresence,
       connectionLostPresence DEF UserStep
  <2>4. ASSUME NEW r \in RoomId, Close(r) \/ Outside(r) PROVE PresenceInv'
    <3>1. CASE forceCloseRoom(r)
      BY <2>4, <3>1, forceCloseRoomPresence DEF Close, Outside, sessionVars
    <3>2. CASE ~forceCloseRoom(r)
      BY <2>4, <3>2, NothingSeen
         DEF Close, Outside, Expiry, fire, createRoom, timePasses, sweep, sessionVars
    <3> QED BY <3>1, <3>2
  <2> QED
    BY <1>2, <2>2, <2>3, <2>4, ServerStepPresence, ResumePresence, restartPresence DEF Next
<1> QED BY <1>1, <1>2

LEMMA MentionsHas ==
  ASSUME NEW S, NEW q \in Seq(S), NEW type
  PROVE  Mentions(q, type) <=> Has(q, {type})
BY DEF Mentions, Has, ToSet

\* A participant's socket is in use, or its disconnect is on its way, or overtook its join.
ServedInv == \A r \in RoomId : \A s \in Members(r) : InUse(s) \/ s \in overtaken

\* Nothing but the disconnect of a socket takes its mention from the queue.
LEMMA InUseKept ==
  ASSUME TypeOK, NEW s \in Socket, InUse(s), connection'[s[1]] = connection[s[1]],
         \/ toServer'[s] = toServer[s]
         \/ \E type \in {"JOIN_ROOM", "LEAVE_ROOM", "SEND_MESSAGE", "TYPING"} :
              Request(s, type)
         \/ \E S : \E ms \in Seq(S) : toServer'[s] = toServer[s] \o ms
  PROVE  InUse(s)'
<1>1. CASE s = SocketOf(s[1])
  BY <1>1 DEF InUse, SocketOf
<1>2. CASE Mentions(toServer[s], "disconnect")
  <2>1. toServer[s] \in Seq(ToServer)
    BY DEF TypeOK, ChatRoomsTypeOK
  <2>2. CASE toServer'[s] = toServer[s]
    BY <1>2, <2>2 DEF InUse
  <2>3. CASE \E type \in {"JOIN_ROOM", "LEAVE_ROOM", "SEND_MESSAGE", "TYPING"} : Request(s, type)
    <3>1. PICK type \in {"JOIN_ROOM", "LEAVE_ROOM", "SEND_MESSAGE", "TYPING"} : Request(s, type)
      BY <2>3
    <3>2. /\ ToSet(toServer[s]) = {Head(toServer[s])} \cup ToSet(toServer'[s])
          /\ Head(toServer[s]).type # "disconnect" /\ toServer[s] # <<>>
          /\ toServer'[s] = Tail(toServer[s])
      BY <3>1, RequestQueue DEF Request, TypeOK, ChatRoomsTypeOK
    <3>3. toServer'[s] \in Seq(ToServer)
      BY <2>1, <3>2, HeadTail
    <3>4. Has(toServer'[s], {"disconnect"})
      BY <1>2, <2>1, <3>2, MentionsHas DEF Has
    <3> QED BY <3>3, <3>4, MentionsHas DEF InUse
  <2>4. CASE \E S : \E ms \in Seq(S) : toServer'[s] = toServer[s] \o ms
    <3>1. PICK S : \E ms \in Seq(S) : toServer'[s] = toServer[s] \o ms
      BY <2>4
    <3>2. PICK ms \in Seq(S) : toServer'[s] = toServer[s] \o ms
      BY <3>1
    <3> DEFINE All == ToServer \cup S
    <3>3. toServer[s] \in Seq(All) /\ ms \in Seq(All)
      BY <2>1, SeqMonotonic
    <3>4. /\ toServer'[s] \in Seq(All)
          /\ ToSet(toServer'[s]) = ToSet(toServer[s]) \cup ToSet(ms)
      BY <3>2, <3>3, SetConcat, ShortSequences
    <3>5. Has(toServer'[s], {"disconnect"})
      BY <1>2, <2>1, <3>4, MentionsHas DEF Has
    <3> QED BY <3>4, <3>5, MentionsHas DEF InUse
  <2> QED BY <2>2, <2>3, <2>4
<1> QED BY <1>1, <1>2 DEF InUse

LEMMA UserSends ==
  ASSUME NEW p \in Page,
         \/ joinRoom(p) \/ leaveRoom(p) \/ sendMessage(p) \/ notifyTyping(p) \/ typingTimerFires(p)
  PROVE  /\ connection' = connection
         /\ \E S : \E ms \in Seq(S) : Send(p, ms)
<1>1. ASSUME NEW a, Send(p, <<a>>) PROVE \E S : \E ms \in Seq(S) : Send(p, ms)
  <2>1. <<a>> \in Seq({a})
    BY ShortSequences
  <2> QED BY <1>1, <2>1
<1>2. ASSUME Send(p, <<>>) PROVE \E S : \E ms \in Seq(S) : Send(p, ms)
  <2>1. <<>> \in Seq({})
    BY ShortSequences
  <2> QED BY <1>2, <2>1
<1>3. CASE joinRoom(p)
  BY <1>1, <1>3 DEF joinRoom
<1>4. CASE leaveRoom(p)
  BY <1>1, <1>2, <1>4 DEF leaveRoom
<1>5. CASE sendMessage(p)
  <2>1. PICK a, b : a = [type |-> "SEND_MESSAGE", room |-> session[p].room]
                      /\ b = Typing(session[p], FALSE)
    OBVIOUS
  <2>2. PICK ms : ms = <<a>> \o StopTyping(session[p])
    OBVIOUS
  <2>3. <<a>> \in Seq({a, b}) /\ <<b>> \in Seq({a, b}) /\ <<>> \in Seq({a, b})
    BY ShortSequences
  <2>4. StopTyping(session[p]) \in Seq({a, b})
    BY <2>1, <2>3 DEF StopTyping
  <2>5. ms \in Seq({a, b})
    BY <2>2, <2>3, <2>4, ShortSequences
  <2>6. Send(p, ms) /\ connection' = connection
    BY <1>5, <2>1, <2>2 DEF sendMessage, Act
  <2> QED BY <2>5, <2>6
<1>6. CASE notifyTyping(p)
  BY <1>1, <1>2, <1>6 DEF notifyTyping, Act
<1>7. CASE typingTimerFires(p)
  BY <1>1, <1>2, <1>7 DEF typingTimerFires, StopTyping
<1> QED BY <1>3, <1>4, <1>5, <1>6, <1>7

\* The socket that a page gives up has its disconnect on the way, its next is in use.
LEMMA ReconnectInUse ==
  ASSUME TypeOK, NEW p \in Page, NEW lost \in SUBSET Nat, NEW ms, Reconnect(p, lost, ms),
         NEW u \in Socket, InUse(u)
  PROVE  InUse(u)'
<1> USE DEF TypeOK
<1>1. PICK s \in Socket : s = SocketOf(p)
  BY CurrentSocket
<1>2. /\ connection[p] \in Nat /\ connection'[p] = connection[p] + 1
      /\ \A q \in Page \ {p} : connection'[q] = connection[q]
      /\ s = <<p, connection[p]>> /\ u[1] \in Page
  BY <1>1, SocketFields DEF Reconnect, ChatRoomsTypeOK, SocketOf
<1>3. PICK n \in lost :
        toServer' = [toServer EXCEPT ![s] = SubSeq(@, 1, Len(@) - n) \o <<[type |-> "disconnect"]>>,
                                     ![<<p, connection[p] + 1>>] = ms]
  BY <1>1 DEF Reconnect
<1>4. CASE u = <<p, connection[p] + 1>>
  BY <1>2, <1>4 DEF InUse, SocketOf
<1>5. CASE u = s
  <2>1. toServer[s] \in Seq(ToServer)
    BY <1>1, CurrentSocket
  <2>2. PICK q : q = SubSeq(toServer[s], 1, Len(toServer[s]) - n)
    OBVIOUS
  <2>3. PICK d : d = [type |-> "disconnect"]
    OBVIOUS
  <2>4. q \in Seq(ToServer) /\ d \in ToServer /\ d.type = "disconnect"
    BY <2>1, <2>2, <2>3, ToServerMessages
  <2>5. toServer'[s] = q \o <<d>>
    <3>1. s # <<p, connection[p] + 1>>
      BY <1>2
    <3>2. PICK t : t = <<p, connection[p] + 1>>
      OBVIOUS
    <3> QED BY <1>3, <2>2, <2>3, <3>1, <3>2 DEF ChatRoomsTypeOK
  <2>6. toServer'[s] \in Seq(ToServer) /\ ToSet(toServer'[s]) = ToSet(q) \cup {d}
    BY <2>4, <2>5, SetMore, ShortSequences
  <2>7. Has(toServer'[s], {"disconnect"})
    BY <2>4, <2>6 DEF Has
  <2> QED BY <1>5, <2>6, <2>7, MentionsHas DEF InUse
<1>6. CASE u # s /\ u # <<p, connection[p] + 1>>
  <2>1. toServer'[u] = toServer[u]
    BY <1>3, <1>6 DEF ChatRoomsTypeOK
  <2>2. CASE u[1] = p
    <3>1. u # SocketOf(u[1])
      BY <1>1, <1>6, <2>2
    <3> QED BY <2>1, <3>1 DEF InUse
  <2>3. CASE u[1] # p
    BY <1>2, <2>1, <2>3, InUseKept
  <2> QED BY <2>2, <2>3
<1> QED BY <1>4, <1>5, <1>6

LEMMA ServedStep ==
  ASSUME TypeOK, ServedInv, [Next]_vars
  PROVE  ServedInv'
<1> USE DEF TypeOK
<1>1. ASSUME \A s \in Socket : InUse(s) => InUse(s)', overtaken \subseteq overtaken',
             \A r \in RoomId : Members(r)' \subseteq Members(r)
      PROVE  ServedInv'
  <2>1. \A r \in RoomId : Members(r) \subseteq Socket
    BY DEF Members
  <2> QED BY <1>1, <2>1 DEF ServedInv
<1>2. CASE UNCHANGED vars
  BY <1>1, <1>2, InUseKept DEF vars, socketVars, roomVars, Members
<1>3. ASSUME NEW p \in Page, PageStep(p) PROVE ServedInv'
  <2>1. UNCHANGED <<connection, toServer, participants, overtaken>>
    BY <1>3 DEF PageStep, PageHandler, onJoinSuccess, onJoinError, onUserJoined, onUserLeft,
                onUserTyping, onNewMessage, onRoomClosed, Receive, roomVars
  <2> QED BY <1>1, <2>1, InUseKept DEF Members
<1>4. ASSUME NEW p \in Page, UserStep(p), UNCHANGED overtaken PROVE ServedInv'
  <2>1. \A r : Members(r)' = Members(r)
    BY <1>4 DEF UserStep, joinRoom, leaveRoom, sendMessage, notifyTyping, typingTimerFires,
                pageLeft, connectionLost, Act, roomVars, Members
  <2>2. ASSUME NEW s \in Socket, InUse(s) PROVE InUse(s)'
    <3>1. CASE pageLeft(p)
      BY <2>2, <3>1, ReconnectInUse DEF pageLeft
    <3>2. CASE connectionLost(p)
      <4>1. 0..Len(toServer[SocketOf(p)]) \in SUBSET Nat
        OBVIOUS
      <4> QED BY <2>2, <3>2, <4>1, ReconnectInUse DEF connectionLost
    <3>3. CASE \/ joinRoom(p) \/ leaveRoom(p) \/ sendMessage(p)
               \/ notifyTyping(p) \/ typingTimerFires(p)
      <4>1. connection' = connection /\ \E S : \E ms \in Seq(S) : Send(p, ms)
        BY <3>3, UserSends
      <4>2. \/ toServer'[s] = toServer[s]
            \/ \E S : \E ms \in Seq(S) : toServer'[s] = toServer[s] \o ms
        BY <4>1 DEF Send, ChatRoomsTypeOK
      <4> QED BY <2>2, <4>1, <4>2, InUseKept
    <3> QED BY <1>4, <3>1, <3>2, <3>3 DEF UserStep
  <2> QED BY <1>1, <1>4, <2>1, <2>2
<1>5. ASSUME NEW s \in Socket, ServerStep(s) PROVE ServedInv'
  <2>1. PICK type : Request(s, type)
    BY <1>5 DEF ServerStep, Handler, handleJoinRoom, handleLeaveRoom, handleDisconnect,
                handleSendMessage, broadcastTyping
  <2>2. /\ connection' = connection /\ overtaken' = overtaken
        /\ \A t \in Socket \ {s} : toServer'[t] = toServer[t]
    BY <1>5, <2>1, RequestQueue DEF ServerStep
  <2>3. \A t \in Socket \ {s} : InUse(t) => InUse(t)'
    BY <2>2, InUseKept
  <2>4. CASE handleDisconnect(s)
    <3>1. \A r \in RoomId : Members(r)' = Members(r) \ {s}
      BY <2>4, RemoveMembers DEF handleDisconnect
    <3>2. \A r \in RoomId : Members(r)' \subseteq Socket \ {s}
      BY <3>1 DEF Members
    <3> QED BY <2>2, <2>3, <3>1, <3>2 DEF ServedInv
  <2>5. CASE ~handleDisconnect(s)
    <3>1. \E k \in {"JOIN_ROOM", "LEAVE_ROOM", "SEND_MESSAGE", "TYPING"} : Request(s, k)
      BY <1>5, <2>5 DEF ServerStep, Handler, handleJoinRoom, handleLeaveRoom,
                        handleSendMessage, broadcastTyping
    <3>2. InUse(s) => InUse(s)'
      BY <2>2, <3>1, InUseKept
    <3>3. \A r \in RoomId : Members(r)' \subseteq Members(r)
      <4>1. CASE handleLeaveRoom(s)
        <5>1. {Head(toServer[s]).room} \in SUBSET RoomId
          BY <4>1, RequestType, ToServerFields DEF handleLeaveRoom
        <5> QED BY <4>1, <5>1, RemoveMembers DEF handleLeaveRoom
      <4>2. CASE handleJoinRoom(s) \/ handleSendMessage(s) \/ broadcastTyping(s)
        BY <4>2 DEF handleJoinRoom, handleSendMessage, broadcastTyping, roomVars, Members
      <4> QED BY <1>5, <2>5, <4>1, <4>2 DEF ServerStep, Handler
    <3> QED BY <1>1, <2>2, <2>3, <3>2, <3>3
  <2> QED BY <2>4, <2>5
<1>6. ASSUME NEW h \in suspended, Resume(h) PROVE ServedInv'
  <2>1. UNCHANGED <<connection, toServer>>
    BY <1>6 DEF Resume, Resumed, roomFound, passwordCompared, Refuse, admit, socketVars
  <2>2. \A t \in Socket : InUse(t) => InUse(t)'
    BY <2>1, InUseKept
  <2>3. InUse(h.socket)' \/ h.socket \in overtaken'
    BY <1>6, <2>2, SuspendedFields DEF Resume
  <2>4. \A r \in RoomId : Members(r)' \subseteq Members(r) \cup {h.socket}
    <3>1. CASE admit(h)
      <4>1. \A r \in RoomId \ {h.room} : Members(r)' = Members(r)
        BY <3>1, AdmitMembers DEF Members
      <4> QED BY <3>1, <4>1, AdmitMembers
    <3>2. CASE ~admit(h)
      BY <1>6, <3>2 DEF Resume, Resumed, roomFound, passwordCompared, Refuse, Members
    <3> QED BY <3>1, <3>2
  <2>5. overtaken \subseteq overtaken' /\ \A r \in RoomId : Members(r) \subseteq Socket
    BY <1>6 DEF Resume, Members
  <2> QED BY <2>2, <2>3, <2>4, <2>5 DEF ServedInv
<1>7. ASSUME NEW r \in RoomId, Close(r) \/ Outside(r) PROVE ServedInv'
  <2>1. UNCHANGED <<connection, toServer, overtaken>>
    BY <1>7 DEF Close, Outside, Expiry, fire, forceCloseRoom, createRoom, timePasses, sweep,
                socketVars
  <2>2. \A q \in RoomId : Members(q)' \subseteq Members(q)
    BY <1>7 DEF Close, Outside, Expiry, fire, forceCloseRoom, createRoom, timePasses, sweep,
                Members, Nobody, ChatRoomsTypeOK
  <2> QED BY <1>1, <2>1, <2>2, InUseKept
<1>8. CASE restart
  BY <1>8 DEF restart, ServedInv, Members, Nobody
<1> QED
  BY <1>2, <1>3, <1>4, <1>5, <1>6, <1>7, <1>8 DEF Next

\* Whoever the server has in a room is reachable, or about to be taken out - unless the
\* socket's end overtook its join, which a join that awaits bcrypt lets happen.
THEOREM Served == Spec => []ServedInv
<1>1. Init => ServedInv
  BY DEF Init, ChatRoomsInit, ServedInv, Members, Nobody
<1> QED
  BY <1>1, TypeCorrect, ServedStep, PTL DEF Spec

\* The server and the pages agree on who is in a room, whatever joins, password checks,
\* departures, expiries, lost connections and restarts overlap - except that a page takes
\* the end of the room that it has just left for the end of the one that it joins.
THEOREM Present == Spec /\ [][ClosedInTurn]_vars => []PresenceAgrees
<1>1. ASSUME TypeOK, PresenceInv, ServedInv PROVE PresenceAgrees
  <2> SUFFICES ASSUME NEW p \in Page, session[p].phase = "joined"
               PROVE  In(p, session[p].room) \/ Mentions(toPage[p], "ROOM_CLOSED")
    BY <1>1 DEF PresenceAgrees, ServedInv
  <2>1. toPage[p] \in Seq(ToPage)
    BY <1>1 DEF TypeOK, ChatRoomsTypeOK
  <2>2. SocketOf(p) \in Members(session[p].room) \/ Has(toPage[p], {"ROOM_CLOSED"})
    BY <1>1 DEF PresenceInv, PageInv, Active
  <2> QED BY <2>1, <2>2, MentionsHas DEF In
<1>2. Init => PresenceInv
  BY PresenceInit
<1> QED
  BY <1>1, <1>2, TypeCorrect, Served, PresenceStep, PTL DEF Spec

-----------------------------------------------------------------------------
(* Who is in the room.  The last message about a name that a page has yet to *)
(* read tells whether somebody of that name is in its room; without one, its *)
(* list tells it.                                                            *)
LEMMA ToldTail ==
  ASSUME NEW S, NEW q \in Seq(S), q # <<>>, NEW roster, NEW n, NEW there, NEW heard,
         Told(q, roster, n, there),
         IF About(Head(q), n) THEN n \in heard <=> Says(Head(q), n) ELSE n \in heard <=> n \in roster
  PROVE  Told(Tail(q), heard, n, there)
<1>1. /\ Len(q) \in Nat /\ Len(q) > 0 /\ Len(Tail(q)) = Len(q) - 1 /\ Head(q) = q[1]
      /\ \A i \in 1..Len(Tail(q)) : Tail(q)[i] = q[i + 1] /\ i + 1 \in 1..Len(q)
      /\ \A i \in 1..Len(q) : i # 1 => i - 1 \in 1..Len(Tail(q)) /\ Tail(q)[i - 1] = q[i]
  <2>1. /\ Len(q) \in Nat /\ Len(q) > 0 /\ Len(Tail(q)) = Len(q) - 1 /\ Head(q) = q[1]
        /\ \A i \in 1..Len(Tail(q)) : Tail(q)[i] = q[i + 1] /\ i + 1 \in 1..Len(q)
    OBVIOUS
  <2>2. ASSUME NEW i \in 1..Len(q), i # 1
        PROVE  i - 1 \in 1..Len(Tail(q)) /\ Tail(q)[i - 1] = q[i]
    <3>1. i - 1 \in 1..Len(Tail(q)) /\ (i - 1) + 1 = i
      BY <2>1, <2>2
    <3> QED BY <2>1, <3>1
  <2> QED BY <2>1, <2>2
<1>2. CASE \E i \in 1..Len(q) : About(q[i], n)
  <2>1. PICK i \in 1..Len(q) :
          /\ About(q[i], n)
          /\ \A j \in 1..Len(q) : j > i => ~About(q[j], n)
          /\ Says(q[i], n) <=> n \in there
    BY <1>2 DEF Told
  <2>2. CASE i = 1
    <3>1. \A j \in 1..Len(Tail(q)) : ~About(Tail(q)[j], n)
      <4> SUFFICES ASSUME NEW j \in 1..Len(Tail(q)) PROVE ~About(q[j + 1], n)
        BY <1>1
      <4>1. j + 1 > i
        BY <2>2
      <4> QED BY <1>1, <2>1, <4>1
    <3> QED BY <1>1, <2>1, <2>2, <3>1 DEF Told
  <2>3. CASE i # 1
    <3>1. PICK k \in 1..Len(Tail(q)) : k = i - 1 /\ Tail(q)[k] = q[i]
      BY <1>1, <2>3
    <3>2. ASSUME NEW j \in 1..Len(Tail(q)), j > k PROVE ~About(Tail(q)[j], n)
      <4>1. j + 1 > i
        BY <3>1, <3>2
      <4> QED BY <1>1, <2>1, <4>1
    <3>3. About(Tail(q)[k], n) /\ (Says(Tail(q)[k], n) <=> n \in there)
      BY <2>1, <3>1
    <3> QED BY <3>2, <3>3 DEF Told
  <2> QED BY <2>2, <2>3
<1>3. CASE ~\E i \in 1..Len(q) : About(q[i], n)
  <2>1. ~About(Head(q), n) /\ ~\E i \in 1..Len(Tail(q)) : About(Tail(q)[i], n)
    BY <1>1, <1>3
  <2> QED BY <1>3, <2>1 DEF Told
<1> QED BY <1>2, <1>3

\* More messages: some that say it anew, or only such as do not concern the name.
LEMMA ToldMore ==
  ASSUME NEW S, NEW q \in Seq(S), NEW ms \in Seq(S), NEW roster, NEW n, NEW now,
         ms # <<>>, \A m \in ToSet(ms) : About(m, n) /\ (Says(m, n) <=> n \in now)
  PROVE  Told(q \o ms, roster, n, now)
<1>1. /\ Len(q \o ms) = Len(q) + Len(ms) /\ Len(q) \in Nat /\ Len(ms) \in Nat \ {0}
      /\ (q \o ms)[Len(q) + Len(ms)] = ms[Len(ms)]
      /\ ms[Len(ms)] \in ToSet(ms)
  <2>1. Len(ms) \in Nat \ {0} /\ DOMAIN ms = 1..Len(ms)
    OBVIOUS
  <2>2. Len(ms) \in 1..Len(ms)
    BY <2>1
  <2> QED BY <2>1, <2>2, ConcatElements DEF ToSet
<1>2. PICK i \in 1..Len(q \o ms) : i = Len(q) + Len(ms) /\ i = Len(q \o ms)
  BY <1>1
<1>3. About((q \o ms)[i], n) /\ (Says((q \o ms)[i], n) <=> n \in now)
  BY <1>1, <1>2
<1>4. \A j \in 1..Len(q \o ms) : ~(j > i)
  BY <1>1, <1>2
<1> QED BY <1>3, <1>4 DEF Told

LEMMA ToldStill ==
  ASSUME NEW S, NEW q \in Seq(S), NEW ms \in Seq(S), NEW roster, NEW n, NEW there, NEW now,
         Told(q, roster, n, there), n \in there <=> n \in now,
         \A m \in ToSet(ms) : ~About(m, n)
  PROVE  Told(q \o ms, roster, n, now)
<1>1. /\ Len(q \o ms) = Len(q) + Len(ms) /\ Len(q) \in Nat /\ Len(ms) \in Nat
      /\ \A i \in 1..Len(q) : (q \o ms)[i] = q[i] /\ i \in 1..Len(q \o ms)
  BY ConcatElements
<1>2. ASSUME NEW i \in 1..Len(q \o ms), i \notin 1..Len(q) PROVE ~About((q \o ms)[i], n)
  <2>1. i - Len(q) \in 1..Len(ms) /\ Len(q) + (i - Len(q)) = i
    BY <1>1, <1>2
  <2>2. (q \o ms)[i] = ms[i - Len(q)]
    BY <2>1, ConcatElements
  <2>3. ms[i - Len(q)] \in ToSet(ms)
    BY <2>1 DEF ToSet
  <2> QED BY <2>2, <2>3
<1>3. CASE \E i \in 1..Len(q) : About(q[i], n)
  <2>1. PICK i \in 1..Len(q) :
          /\ About(q[i], n)
          /\ \A j \in 1..Len(q) : j > i => ~About(q[j], n)
          /\ Says(q[i], n) <=> n \in there
    BY <1>3 DEF Told
  <2>2. \A j \in 1..Len(q \o ms) : j > i => ~About((q \o ms)[j], n)
    BY <1>1, <1>2, <2>1
  <2> QED BY <1>1, <2>1, <2>2 DEF Told
<1>4. CASE ~\E i \in 1..Len(q) : About(q[i], n)
  <2>1. ~\E i \in 1..Len(q \o ms) : About((q \o ms)[i], n)
    BY <1>1, <1>2, <1>4
  <2> QED BY <1>4, <2>1 DEF Told
<1> QED BY <1>3, <1>4

\* A page that is sent nothing about its room, in which nothing happens.
LEMMA RosterStill ==
  ASSUME TypeOK, NEW p \in Page, RosterInv(p), UNCHANGED <<connection, session>>,
         NEW s, s = SocketOf(p), NEW r, r = session[p].room,
         s \in Members(r)' => s \in Members(r) /\ Names(r)' = Names(r),
         \/ toPage'[p] = toPage[p]
         \/ \E m \in ToPage : /\ toPage'[p] = toPage[p] \o <<m>>
                              /\ m.type \notin {"JOIN_SUCCESS", "USER_JOINED", "USER_LEFT"}
  PROVE  RosterInv(p)'
<1>1. PICK ms \in Seq(ToPage) : /\ toPage'[p] = toPage[p] \o ms
                               /\ \A m \in ToSet(ms) :
                                    m.type \notin {"JOIN_SUCCESS", "USER_JOINED", "USER_LEFT"}
  <2>1. CASE toPage'[p] = toPage[p]
    <3>1. toPage'[p] = toPage[p] \o <<>> /\ <<>> \in Seq(ToPage)
      BY <2>1, ShortSequences DEF TypeOK, ChatRoomsTypeOK
    <3> QED BY <3>1, SetNothing
  <2>2. CASE toPage'[p] # toPage[p]
    <3>1. PICK m \in ToPage : /\ toPage'[p] = toPage[p] \o <<m>>
                             /\ m.type \notin {"JOIN_SUCCESS", "USER_JOINED", "USER_LEFT"}
      BY <2>2
    <3>2. PICK ms : ms = <<m>>
      OBVIOUS
    <3>3. ToSet(ms) = {m} /\ ms \in Seq(ToPage)
      BY <3>2, SetOne, ShortSequences
    <3> QED BY <3>1, <3>2, <3>3
  <2> QED BY <2>1, <2>2
<1>2. toPage[p] \in Seq(ToPage)
  BY DEF TypeOK, ChatRoomsTypeOK
<1>3. ToSet(toPage'[p]) = ToSet(toPage[p]) \cup ToSet(ms)
  BY <1>1, <1>2, SetConcat
<1>4. Active(p)' => Active(p)
  BY <1>1, <1>3 DEF Active, Has
<1>5. \A n : \A m \in ToSet(ms) : ~About(m, n)
  BY <1>1 DEF About
<1>6. s = SocketOf(p)' /\ session'[p] = session[p]
  BY DEF SocketOf
<1> SUFFICES ASSUME Active(p)', s \in Members(r)', NEW n \in Name
             PROVE  Told(toPage'[p], session[p].roster, n, Names(r)')
  BY <1>6 DEF RosterInv
<1>7. Told(toPage[p], session[p].roster, n, Names(r)) /\ Names(r)' = Names(r)
  BY <1>4 DEF RosterInv
<1> QED BY <1>1, <1>2, <1>5, <1>7, ToldStill

\* A page that is in no room after the step.
LEMMA RosterOut ==
  ASSUME NEW p \in Page, ~Active(p)'
  PROVE  RosterInv(p)'
BY DEF RosterInv

LEMMA EmitNone ==
  ASSUME ChatRoomsTypeOK, NEW sockets, NEW m, Emit(To(sockets, m)), NEW p \in Page,
         SocketOf(p) \notin sockets
  PROVE  toPage'[p] = toPage[p]
<1>1. \A q \in Seq(ToPage) : q \o <<>> = q
  OBVIOUS
<1>2. toPage'[p] = toPage[p] \o <<>>
  BY CurrentSocket DEF Emit, To
<1> QED BY <1>1, <1>2 DEF ChatRoomsTypeOK

\* Whoever comes in is told who is there, and they are told who comes.
LEMMA admitRoster ==
  ASSUME TypeOK, PresenceInv, NEW h \in suspended, admit(h), UNCHANGED session,
         NEW p \in Page, RosterInv(p)
  PROVE  RosterInv(p)'
<1> USE DEF TypeOK
<1>1. PICK s \in Socket, t \in Socket : s = h.socket /\ t = SocketOf(p) /\ t = SocketOf(p)'
  BY SuspendedFields, CurrentSocket DEF admit, SocketOf
<1>2. PICK r \in RoomId : r = h.room
  BY SuspendedFields
<1>3. /\ participants' \in [RoomId -> [Socket -> Name \cup {None}]]
      /\ Members(r)' = Members(r) \cup {s}
      /\ \A q \in RoomId \ {r} : participants'[q] = participants[q]
      /\ participants'[r][s] = h.name
      /\ \A u \in Socket \ {s} : participants'[r][u] = participants[r][u]
      /\ UNCHANGED connection
  BY ZenonT(60), <1>1, <1>2, AdmitMembers DEF admit
<1>4. s \notin Members(r) /\ Members(r) \subseteq Socket /\ Waits(s)
  BY <1>1 DEF PresenceInv, SocketInv, Members, Waits
<1>5. Names(r)' = Names(r) \cup {h.name}
  BY <1>3, <1>4 DEF Names
<1>6. PICK names : names = Names(r)'
  OBVIOUS
<1>7. PICK a, b : /\ a = [type |-> "JOIN_SUCCESS", room |-> r, participants |-> names]
                  /\ b = [type |-> "USER_JOINED", name |-> h.name]
  OBVIOUS
<1>8. Emit(Then(To({s}, a), To((Members(r) \cup {s}) \ {s}, b)))
  <2>1. \A u \in Members(r) \cup {s} :
          participants'[r][u] = [participants[r] EXCEPT ![s] = h.name][u]
    BY <1>1, <1>2, <1>3, <1>4 DEF admit, ChatRoomsTypeOK
  <2>2. names = {[participants[r] EXCEPT ![s] = h.name][u] : u \in Members(r) \cup {s}}
    BY <1>3, <1>6, <2>1 DEF Names
  <2> QED BY <1>1, <1>2, <1>7, <2>2 DEF admit
<1>9. PICK others : others = (Members(r) \cup {s}) \ {s}
  OBVIOUS
<1>10. toPage'[p] = toPage[p] \o (To({s}, a)[t] \o To(others, b)[t])
  BY <1>1, <1>8, <1>9 DEF Emit, Then
<1>11. toPage[p] \in Seq(ToPage) /\ session'[p] = session[p] /\ session[p].room \in RoomId \cup {None}
  BY SessionFields DEF ChatRoomsTypeOK
<1>12. a \in ToPage /\ b \in ToPage
  <2>1. names \in SUBSET Name
    BY <1>3, <1>6 DEF Names, Members
  <2> QED BY <1>7, <2>1, SuspendedFields, ToPageMessages
<1>13. CASE t = s
  <2>1. toPage'[p] = toPage[p] \o <<a>>
    <3>1. To({s}, a)[t] = <<a>> /\ To(others, b)[t] = <<>>
      BY <1>9, <1>13 DEF To
    <3>2. <<a>> \o <<>> = <<a>>
      OBVIOUS
    <3> QED BY <1>10, <3>1, <3>2
  <2>2. session[p].room = r
    BY <1>1, <1>2, <1>13 DEF PresenceInv, PageInv
  <2>3. PICK ms : ms = <<a>>
    OBVIOUS
  <2>4. ms \in Seq(ToPage) /\ ms # <<>> /\ ToSet(ms) = {a}
    BY <1>12, <2>3, ShortSequences, SetOne
  <2>5. ASSUME NEW n \in Name PROVE Told(toPage'[p], session[p].roster, n, Names(r)')
    <3>1. \A m \in ToSet(ms) : About(m, n) /\ (Says(m, n) <=> n \in names)
      BY <1>7, <2>4 DEF About, Says
    <3> QED BY ZenonT(60), <1>6, <1>11, <2>1, <2>3, <2>4, <3>1, ToldMore
  <2> QED BY <1>11, <2>2, <2>5 DEF RosterInv
<1>14. CASE t # s /\ t \in Members(r)
  <2>1. toPage'[p] = toPage[p] \o <<b>>
    <3>1. To({s}, a)[t] = <<>> /\ To(others, b)[t] = <<b>>
      BY <1>9, <1>14 DEF To
    <3>2. <<>> \o <<b>> = <<b>>
      OBVIOUS
    <3> QED BY <1>10, <3>1, <3>2
  <2>2. PICK ms : ms = <<b>>
    OBVIOUS
  <2>3. ms \in Seq(ToPage) /\ ms # <<>> /\ ToSet(ms) = {b}
    BY <1>12, <2>2, ShortSequences, SetOne
  <2>4. ToSet(toPage'[p]) = ToSet(toPage[p]) \cup {b}
    BY <1>11, <2>1, SetMore
  <2>5. Active(p)' => Active(p)
    BY <1>7, <1>11, <2>4 DEF Active, Has
  <2> SUFFICES ASSUME Active(p), t \in Members(session[p].room)'
               PROVE  \A n \in Name : Told(toPage'[p], session[p].roster, n, Names(session[p].room)')
    BY <1>1, <1>11, <2>5 DEF RosterInv
  <2>6. session[p].room \in RoomId
    BY <1>11 DEF PresenceInv, PageInv
  <2>7. session[p].room = r
    <3>1. session[p].room # r => t \in Members(session[p].room)
      BY <1>3, <2>6 DEF Members
    <3> QED BY <1>14, <2>6, <3>1 DEF PresenceInv, SocketInv
  <2>8. ASSUME NEW n \in Name PROVE Told(toPage'[p], session[p].roster, n, Names(r)')
    <3>1. CASE n = h.name
      <4>1. \A m \in ToSet(ms) : About(m, n) /\ (Says(m, n) <=> n \in names)
        BY <1>5, <1>6, <1>7, <2>3, <3>1 DEF About, Says
      <4>2. PICK roster : roster = session[p].roster
        OBVIOUS
      <4>3. Told(toPage[p] \o ms, roster, n, names)
        BY <1>11, <2>3, <4>1, ToldMore
      <4> QED BY <1>6, <2>1, <2>2, <4>2, <4>3
    <3>2. CASE n # h.name
      <4>1. \A m \in ToSet(ms) : ~About(m, n)
        BY <1>7, <2>3, <3>2 DEF About
      <4>2. Told(toPage[p], session[p].roster, n, Names(r))
        BY <1>1, <1>14, <2>7 DEF RosterInv
      <4>3. n \in Names(r) <=> n \in names
        BY <1>5, <1>6, <3>2
      <4>4. PICK roster, there : roster = session[p].roster /\ there = Names(r)
        OBVIOUS
      <4>5. Told(toPage[p] \o ms, roster, n, names)
        BY <1>11, <2>3, <4>1, <4>2, <4>3, <4>4, ToldStill
      <4> QED BY <1>6, <2>1, <2>2, <4>4, <4>5
    <3> QED BY <3>1, <3>2
  <2> QED BY <2>7, <2>8
<1>15. CASE t # s /\ t \notin Members(r)
  <2>1. toPage'[p] = toPage[p]
    <3>1. To({s}, a)[t] = <<>> /\ To(others, b)[t] = <<>>
      BY <1>9, <1>15 DEF To
    <3>2. <<>> \o <<>> = <<>> /\ \A q \in Seq(ToPage) : q \o <<>> = q
      OBVIOUS
    <3> QED BY <1>10, <1>11, <3>1, <3>2
  <2>2. Active(p)' => Active(p)
    BY <1>11, <2>1 DEF Active, Has
  <2>3. Active(p) => session[p].room \in RoomId
    BY <1>11 DEF PresenceInv, PageInv
  <2>4. \A q \in RoomId : t \in Members(q)' => t \in Members(q) /\ Names(q)' = Names(q)
    BY <1>3, <1>15 DEF Members, Names
  <2> QED
    BY <1>1, <1>11, <2>1, <2>2, <2>3, <2>4 DEF RosterInv
<1> QED BY <1>13, <1>14, <1>15

\* Whoever stays is told who leaves; nobody who is left goes by that name.
LEMMA removeRoster ==
  ASSUME TypeOK, NamesUnique, PresenceInv, NEW s \in Socket, NEW from \in SUBSET RoomId,
         removeParticipant(s, from), UNCHANGED <<connection, session>>,
         NEW p \in Page, RosterInv(p)
  PROVE  RosterInv(p)'
<1> USE DEF TypeOK
<1>1. PICK t \in Socket : t = SocketOf(p) /\ t = SocketOf(p)'
  BY CurrentSocket DEF SocketOf
<1>2. PICK ms : ms = SetToSeq(Goodbyes(t, s, from))
  OBVIOUS
<1>3. toPage'[p] = toPage[p] \o ms
  <2>1. PICK f : f = [u \in Socket |-> SetToSeq(Goodbyes(u, s, from))]
    OBVIOUS
  <2>2. f[t] = ms
    BY <1>2, <2>1
  <2>3. Emit(f)
    BY <2>1, removeParticipantEmits
  <2> QED BY <1>1, <2>2, <2>3 DEF Emit
<1>4. /\ ms \in Seq(Goodbyes(t, s, from)) /\ ms \in Seq(ToPage)
      /\ \A m \in Goodbyes(t, s, from) : \E i \in 1..Len(ms) : ms[i] = m
  BY <1>2, GoodbyesFinite, SetToSeqElements, SeqMonotonic
<1>5. ToSet(ms) \subseteq Goodbyes(t, s, from)
  BY <1>4 DEF ToSet
<1>6. toPage[p] \in Seq(ToPage) /\ session'[p] = session[p] /\ session[p].room \in RoomId \cup {None}
  BY SessionFields DEF ChatRoomsTypeOK
<1>7. ToSet(toPage'[p]) = ToSet(toPage[p]) \cup ToSet(ms)
  BY <1>3, <1>4, <1>6, SetConcat
<1>8. Active(p)' => Active(p)
  BY <1>5, <1>6, <1>7 DEF Active, Has, Goodbyes
<1>9. \A q \in RoomId :
        /\ Members(q)' = IF q \in from THEN Members(q) \ {s} ELSE Members(q)
        /\ \A u \in Members(q)' : participants'[q][u] = participants[q][u]
  BY RemoveMembers
<1> SUFFICES ASSUME Active(p), t \in Members(session[p].room)'
             PROVE  \A n \in Name : Told(toPage'[p], session[p].roster, n, Names(session[p].room)')
  BY <1>1, <1>6, <1>8 DEF RosterInv
<1>10. PICK r \in RoomId : r = session[p].room
  BY <1>6 DEF PresenceInv, PageInv
<1>11. t \in Members(r) /\ \A q \in RoomId : t \in Members(q) => q = r
  BY <1>9, <1>10 DEF PresenceInv, SocketInv
<1>12. \A n \in Name : Told(toPage[p], session[p].roster, n, Names(r))
  BY <1>1, <1>10, <1>11 DEF RosterInv
<1>13. CASE r \in from /\ s \in Members(r)
  <2>1. t # s
    BY <1>9, <1>10, <1>13
  <2>2. PICK m : m = [type |-> "USER_LEFT", name |-> participants[r][s]]
    OBVIOUS
  <2>3. Goodbyes(t, s, from) = {m}
    BY <1>11, <1>13, <2>1, <2>2 DEF Goodbyes
  <2>4. ms # <<>>
    BY <1>4, <2>3
  <2>5. Names(r)' = Names(r) \ {participants[r][s]}
    <3>1. Names(r)' = {participants[r][u] : u \in Members(r) \ {s}}
      BY <1>9, <1>13 DEF Names
    <3>2. \A u \in Members(r) \ {s} : participants[r][u] # participants[r][s]
      BY <1>13 DEF NamesUnique
    <3> QED BY <3>1, <3>2 DEF Names
  <2>6. ASSUME NEW n \in Name PROVE Told(toPage'[p], session[p].roster, n, Names(r)')
    <3>1. PICK now : now = Names(r)'
      OBVIOUS
    <3>2. CASE n = participants[r][s]
      <4>1. \A k \in ToSet(ms) : About(k, n) /\ (Says(k, n) <=> n \in now)
        BY <1>5, <2>2, <2>3, <2>5, <3>1, <3>2 DEF About, Says
      <4>2. PICK roster : roster = session[p].roster
        OBVIOUS
      <4>3. Told(toPage[p] \o ms, roster, n, now)
        BY <1>4, <1>6, <2>4, <4>1, ToldMore
      <4> QED BY <1>3, <3>1, <4>2, <4>3
    <3>3. CASE n # participants[r][s]
      <4>1. \A k \in ToSet(ms) : ~About(k, n)
        BY <1>5, <2>2, <2>3, <3>3 DEF About
      <4>2. n \in Names(r) <=> n \in now
        BY <2>5, <3>1, <3>3
      <4> QED BY <1>3, <1>4, <1>6, <1>12, <3>1, <4>1, <4>2, ToldStill
    <3> QED BY <3>2, <3>3
  <2> QED BY <1>10, <2>6
<1>14. CASE ~(r \in from /\ s \in Members(r))
  <2>1. Goodbyes(t, s, from) = {}
    BY <1>11, <1>14 DEF Goodbyes
  <2>2. ToSet(ms) = {}
    BY <1>5, <2>1
  <2>3. Names(r)' = Names(r)
    BY <1>9, <1>14 DEF Names
  <2>4. ASSUME NEW n \in Name PROVE Told(toPage'[p], session[p].roster, n, Names(r)')
    BY <1>3, <1>4, <1>6, <1>12, <2>2, <2>3, ToldStill
  <2> QED BY <1>10, <2>4
<1> QED BY <1>13, <1>14

LEMMA forceCloseRoomRoster ==
  ASSUME TypeOK, PresenceInv, NEW r \in RoomId, forceCloseRoom(r), UNCHANGED session,
         NEW p \in Page, RosterInv(p)
  PROVE  RosterInv(p)'
<1> USE DEF TypeOK
<1>1. PICK m \in ToPage : m = [type |-> "ROOM_CLOSED"]
  BY ToPageMessages
<1>2. Emit(To(Members(r), m)) /\ UNCHANGED connection
  BY <1>1 DEF forceCloseRoom
<1>3. PICK s : s = SocketOf(p)
  OBVIOUS
<1>4. PICK q : q = session[p].room
  OBVIOUS
<1>5. s \in Members(q)' => s \in Members(q) /\ Names(q)' = Names(q)
  <2>1. CASE q = r
    BY <2>1 DEF forceCloseRoom, ChatRoomsTypeOK, Members, Nobody
  <2>2. CASE q # r
    <3>1. participants'[q] = participants[q]
      BY <2>2 DEF forceCloseRoom
    <3> QED BY <3>1 DEF Members, Names
  <2> QED BY <2>1, <2>2
<1>6. PICK sockets : sockets = Members(r)
  OBVIOUS
<1>7. toPage'[p] = toPage[p] \/ toPage'[p] = toPage[p] \o <<m>>
  BY <1>2, <1>6, EmitOne, EmitNone
<1> QED BY <1>1, <1>2, <1>3, <1>4, <1>5, <1>7, RosterStill

LEMMA newsRoster ==
  ASSUME TypeOK, PresenceInv, NEW s \in Socket, UNCHANGED session,
         handleSendMessage(s) \/ broadcastTyping(s), NEW p \in Page, RosterInv(p)
  PROVE  RosterInv(p)'
<1> USE DEF TypeOK
<1>1. UNCHANGED <<connection, participants>>
  BY DEF handleSendMessage, broadcastTyping, Request, roomVars
<1>2. \A r : Members(r)' = Members(r) /\ Names(r)' = Names(r)
  BY <1>1 DEF Members, Names
<1>3. \/ toPage'[p] = toPage[p]
      \/ \E m \in ToPage : /\ toPage'[p] = toPage[p] \o <<m>>
                           /\ m.type \notin {"JOIN_SUCCESS", "USER_JOINED", "USER_LEFT"}
  <2>1. CASE UNCHANGED toPage
    BY <2>1
  <2>2. CASE handleSendMessage(s) /\ ~UNCHANGED toPage
    <3>1. PICK r \in RoomId : r = Head(toServer[s]).room
      BY <2>2, RequestType, ToServerFields DEF handleSendMessage
    <3>2. s \in Members(r)
            /\ Emit(To(Members(r), [type |-> "NEW_MESSAGE", name |-> participants[r][s]]))
      BY <2>2, <3>1 DEF handleSendMessage
    <3>3. PICK m \in ToPage : m = [type |-> "NEW_MESSAGE", name |-> participants[r][s]]
      BY <3>2, MemberName, ToPageMessages
    <3>4. PICK sockets : sockets = Members(r)
      OBVIOUS
    <3> QED BY <3>2, <3>3, <3>4, EmitOne, EmitNone
  <2>3. CASE broadcastTyping(s) /\ ~UNCHANGED toPage
    <3>1. PICK r \in RoomId : r = Head(toServer[s]).room
      BY <2>3, RequestType, ToServerFields DEF broadcastTyping
    <3>2. PICK m : m = [type |-> "USER_TYPING", isTyping |-> Head(toServer[s]).isTyping,
                        name |-> participants[r][s]]
      OBVIOUS
    <3>3. s \in Members(r) /\ Emit(To(Members(r) \ {s}, m))
      BY <2>3, <3>1, <3>2 DEF broadcastTyping
    <3>4. Head(toServer[s]).isTyping \in BOOLEAN
      BY <2>3, RequestType, ToServerFields DEF broadcastTyping
    <3>5. m \in ToPage /\ m.type = "USER_TYPING"
      BY <3>2, <3>3, <3>4, MemberName, ToPageMessages
    <3>6. PICK sockets : sockets = Members(r) \ {s}
      OBVIOUS
    <3> QED BY <3>3, <3>5, <3>6, EmitOne, EmitNone
  <2> QED BY <2>1, <2>2, <2>3
<1>4. PICK t : t = SocketOf(p)
  OBVIOUS
<1>5. PICK q : q = session[p].room
  OBVIOUS
<1> QED BY <1>1, <1>2, <1>3, <1>4, <1>5, RosterStill

\* A step that sends the page nothing and moves nobody.
LEMMA NobodyMoves ==
  ASSUME TypeOK, NEW p \in Page, RosterInv(p), UNCHANGED <<connection, session, participants>>,
         toPage'[p] = toPage[p]
  PROVE  RosterInv(p)'
<1>1. \A r : Members(r)' = Members(r) /\ Names(r)' = Names(r)
  BY DEF Members, Names
<1> QED BY <1>1, RosterStill

LEMMA ServerRoster ==
  ASSUME TypeOK, NamesUnique, PresenceInv, NEW s \in Socket, ServerStep(s),
         NEW p \in Page, RosterInv(p)
  PROVE  RosterInv(p)'
<1>1. UNCHANGED session
  BY DEF ServerStep, sessionVars
<1>2. CASE handleLeaveRoom(s)
  <2>1. Head(toServer[s]).room \in RoomId
    BY <1>2, RequestType, ToServerFields DEF handleLeaveRoom, TypeOK
  <2>2. PICK from \in SUBSET RoomId : from = {Head(toServer[s]).room}
    BY <2>1
  <2>3. removeParticipant(s, from) /\ UNCHANGED connection
    BY <1>2, <2>2 DEF handleLeaveRoom, Request
  <2> QED BY <1>1, <2>2, <2>3, removeRoster
<1>3. CASE handleDisconnect(s)
  <2>1. PICK from \in SUBSET RoomId : from = RoomId
    OBVIOUS
  <2>2. removeParticipant(s, from) /\ UNCHANGED connection
    BY <1>3, <2>1 DEF handleDisconnect, Request
  <2> QED BY <1>1, <2>1, <2>2, removeRoster
<1>4. CASE handleJoinRoom(s)
  BY <1>1, <1>4, NobodyMoves DEF handleJoinRoom, Request
<1> QED
  BY <1>1, <1>2, <1>3, <1>4, newsRoster DEF ServerStep, Handler

LEMMA ResumeRoster ==
  ASSUME TypeOK, PresenceInv, NEW h \in suspended, Resume(h), NEW p \in Page, RosterInv(p)
  PROVE  RosterInv(p)'
<1>1. UNCHANGED session
  BY DEF Resume, sessionVars
<1>2. CASE \E reason \in {"NAME_TAKEN", "other"} : Refuse(h, reason)
  <2>1. PICK reason \in {"NAME_TAKEN", "other"} : Refuse(h, reason)
    BY <1>2
  <2>2. PICK m \in ToPage : m = [type |-> "JOIN_ERROR", reason |-> reason]
    BY ToPageMessages
  <2>3. Emit(To({h.socket}, m)) /\ UNCHANGED <<connection, participants>>
    BY <2>1, <2>2 DEF Refuse
  <2>4. toPage'[p] = toPage[p] \/ toPage'[p] = toPage[p] \o <<m>>
    BY <2>3, EmitOne, EmitNone DEF TypeOK
  <2>5. \A r : Members(r)' = Members(r) /\ Names(r)' = Names(r)
    BY <2>3 DEF Members, Names
  <2>6. PICK t, q : t = SocketOf(p) /\ q = session[p].room
    OBVIOUS
  <2> QED BY <1>1, <2>2, <2>3, <2>4, <2>5, <2>6, RosterStill
<1>3. CASE admit(h)
  BY <1>1, <1>3, admitRoster
<1>4. CASE UNCHANGED <<connection, toPage, participants>>
  BY <1>1, <1>4, NobodyMoves
<1> QED
  BY <1>2, <1>3, <1>4 DEF Resume, Resumed, roomFound, passwordCompared, socketVars

\* A page reads a message; only those of JOIN_SUCCESS, USER_JOINED and USER_LEFT change its list.
LEMMA ReadRoster ==
  ASSUME TypeOK, NEW p \in Page, RosterInv(p), Active(p), NEW type, Receive(p, type), NEW x,
         session'[p] = x, x.room = session[p].room,
         \A n \in Name :
           IF About(Head(toPage[p]), n) THEN n \in x.roster <=> Says(Head(toPage[p]), n)
           ELSE n \in x.roster <=> n \in session[p].roster
  PROVE  RosterInv(p)'
<1>1. /\ toPage[p] \in Seq(ToPage) /\ toPage[p] # <<>> /\ toPage'[p] = Tail(toPage[p])
      /\ UNCHANGED <<connection, participants>>
  BY DEF TypeOK, Receive, ChatRoomsTypeOK, roomVars
<1>2. SocketOf(p)' = SocketOf(p) /\ \A r : Members(r)' = Members(r) /\ Names(r)' = Names(r)
  BY <1>1 DEF SocketOf, Members, Names
<1> SUFFICES ASSUME SocketOf(p) \in Members(session[p].room), NEW n \in Name
             PROVE  Told(Tail(toPage[p]), x.roster, n, Names(session[p].room))
  BY <1>1, <1>2 DEF RosterInv
<1>3. Told(toPage[p], session[p].roster, n, Names(session[p].room))
  BY DEF RosterInv
<1>4. PICK heard, roster, there :
        heard = x.roster /\ roster = session[p].roster /\ there = Names(session[p].room)
  OBVIOUS
<1>5. Told(Tail(toPage[p]), heard, n, there)
  BY <1>1, <1>3, <1>4, ToldTail
<1> QED BY <1>4, <1>5

LEMMA PageRoster ==
  ASSUME TypeOK, PresenceInv, NEW p \in Page, PageStep(p), onRoomClosed(p) => session[p].phase # "joining",
         RosterInv(p)
  PROVE  RosterInv(p)'
<1> USE DEF TypeOK
<1> PICK m : m = Head(toPage[p])
  OBVIOUS
<1>1. CASE onJoinSuccess(p)
  <2>1. PICK x : x = [session[p] EXCEPT !.phase = "joined", !.roster = m.participants]
    OBVIOUS
  <2>2. x.room = session[p].room /\ x.roster = m.participants
    BY <2>1, SessionFields DEF Session
  <2>3. Receive(p, "JOIN_SUCCESS") /\ session'[p] = x /\ m.type = "JOIN_SUCCESS"
    BY <1>1, <2>1, SessionBecomes, ReceiveType DEF onJoinSuccess
  <2>4. Active(p)
    <3>1. ToSet(toPage[p]) = {m} \cup ToSet(Tail(toPage[p]))
      BY <2>3, SetTail DEF Receive, ChatRoomsTypeOK
    <3> QED BY <2>3, <3>1 DEF Active, Has
  <2> QED BY <2>2, <2>3, <2>4, ReadRoster DEF About, Says
<1>2. CASE onUserJoined(p)
  <2>1. PICK x : x = [session[p] EXCEPT !.roster = @ \cup {m.name}]
    OBVIOUS
  <2>2. x.room = session[p].room /\ x.phase = session[p].phase /\ x.roster = session[p].roster \cup {m.name}
    BY <2>1, SessionFields DEF Session
  <2>3. Receive(p, "USER_JOINED") /\ session'[p] = x /\ m.type = "USER_JOINED"
    BY <1>2, <2>1, SessionBecomes, ReceiveType DEF onUserJoined
  <2>4. CASE Active(p)
    BY <2>2, <2>3, <2>4, ReadRoster DEF About, Says
  <2>5. CASE ~Active(p)
    <3>1. ToSet(toPage'[p]) \subseteq ToSet(toPage[p])
      BY <2>3, SetTail DEF Receive, ChatRoomsTypeOK
    <3> QED BY <2>2, <2>3, <2>5, <3>1, RosterOut DEF Active, Has
  <2> QED BY <2>4, <2>5
<1>3. CASE onUserLeft(p)
  <2>1. PICK x : x = [session[p] EXCEPT !.roster = @ \ {m.name}, !.typing = @ \ {m.name}]
    OBVIOUS
  <2>2. x.room = session[p].room /\ x.phase = session[p].phase /\ x.roster = session[p].roster \ {m.name}
    BY <2>1, SessionFields DEF Session
  <2>3. Receive(p, "USER_LEFT") /\ session'[p] = x /\ m.type = "USER_LEFT"
    BY <1>3, <2>1, SessionBecomes, ReceiveType DEF onUserLeft
  <2>4. CASE Active(p)
    BY <2>2, <2>3, <2>4, ReadRoster DEF About, Says
  <2>5. CASE ~Active(p)
    <3>1. ToSet(toPage'[p]) \subseteq ToSet(toPage[p])
      BY <2>3, SetTail DEF Receive, ChatRoomsTypeOK
    <3> QED BY <2>2, <2>3, <2>5, <3>1, RosterOut DEF Active, Has
  <2> QED BY <2>4, <2>5
<1>4. CASE onUserTyping(p) \/ onNewMessage(p)
  <2>1. PICK type \in {"USER_TYPING", "NEW_MESSAGE"} :
          /\ Receive(p, type) /\ session'[p].room = session[p].room
          /\ session'[p].phase = session[p].phase /\ session'[p].roster = session[p].roster
    <3>1. CASE onUserTyping(p)
      <4>1. PICK names : Become(p, [session[p] EXCEPT !.typing = names])
        BY <3>1 DEF onUserTyping
      <4>2. PICK x : x = [session[p] EXCEPT !.typing = names]
        OBVIOUS
      <4>3. /\ x.room = session[p].room /\ x.phase = session[p].phase
            /\ x.roster = session[p].roster
        BY <4>2, SessionFields DEF Session
      <4> QED BY <3>1, <4>1, <4>2, <4>3, SessionBecomes DEF onUserTyping
    <3>2. CASE onNewMessage(p)
      BY <3>2 DEF onNewMessage
    <3> QED BY <1>4, <3>1, <3>2
  <2>2. m.type = type
    BY <2>1, ReceiveType
  <2>3. CASE Active(p)
    <3>1. PICK x : x = session'[p]
      OBVIOUS
    <3> QED BY <2>1, <2>2, <2>3, <3>1, ReadRoster DEF About
  <2>4. CASE ~Active(p)
    <3>1. ToSet(toPage'[p]) \subseteq ToSet(toPage[p])
      BY <2>1, SetTail DEF Receive, ChatRoomsTypeOK
    <3> QED BY <2>1, <2>4, <3>1, RosterOut DEF Active, Has
  <2> QED BY <2>3, <2>4
<1>5. CASE onJoinError(p)
  <2>1. PICK x : x = [session[p] EXCEPT !.phase = "idle"]
    OBVIOUS
  <2>2. x.phase = "idle"
    BY <2>1, SessionFields DEF Session
  <2>3. Receive(p, "JOIN_ERROR") /\ session'[p] = x /\ m.type = "JOIN_ERROR"
    BY <1>5, <2>1, SessionBecomes, ReceiveType DEF onJoinError
  <2>4. ~Has(toPage'[p], Answers)
    <3>1. Apart(toPage[p], Answers, Answers)
      BY DEF PresenceInv, PageInv
    <3> QED BY <2>3, <3>1, ApartTail DEF Receive, ChatRoomsTypeOK, Answers
  <2> QED BY <2>2, <2>3, <2>4, RosterOut DEF Active, Has, Answers
<1>6. CASE onRoomClosed(p)
  <2>1. PICK x : x = [session[p] EXCEPT !.phase = "closed", !.room = None, !.name = None]
    OBVIOUS
  <2>2. x.phase = "closed"
    BY <2>1, SessionFields DEF Session
  <2>3. Receive(p, "ROOM_CLOSED") /\ session'[p] = x
    BY <1>6, <2>1, SessionBecomes DEF onRoomClosed
  <2>4. ToSet(toPage'[p]) \subseteq ToSet(toPage[p])
    BY <2>3, SetTail DEF Receive, ChatRoomsTypeOK
  <2>5. ~Has(toPage'[p], {"JOIN_SUCCESS"})
    BY <1>6, <2>4 DEF PresenceInv, PageInv, Has, Answers
  <2> QED BY <2>2, <2>3, <2>5, RosterOut DEF Active
<1> QED BY <1>1, <1>2, <1>3, <1>4, <1>5, <1>6 DEF PageStep, PageHandler

\* The list of the page p stays as it is when another page, or only its typing, acts.
LEMMA RosterSame ==
  ASSUME NEW p \in Page, RosterInv(p), connection'[p] = connection[p], toPage'[p] = toPage[p],
         session'[p].phase = session[p].phase, session'[p].room = session[p].room,
         session'[p].roster = session[p].roster, UNCHANGED participants
  PROVE  RosterInv(p)'
<1>1. /\ Active(p)' <=> Active(p)
      /\ SocketOf(p)' = SocketOf(p)
      /\ \A r : Members(r)' = Members(r) /\ Names(r)' = Names(r)
  BY DEF Active, SocketOf, Members, Names
<1> QED BY <1>1 DEF RosterInv

\* A page that gives up its socket, or leaves its room, is in none.
LEMMA UserRoster ==
  ASSUME TypeOK, PresenceInv, NEW p \in Page, UserStep(p), RosterInv(p)
  PROVE  RosterInv(p)'
<1> USE DEF TypeOK
<1>1. CASE joinRoom(p)
  <2>1. PICK r \in RoomId, n \in Name :
          Become(p, [session[p] EXCEPT !.phase = "joining", !.room = r, !.name = n])
    BY <1>1 DEF joinRoom
  <2>2. PICK x : x = [session[p] EXCEPT !.phase = "joining", !.room = r, !.name = n]
    OBVIOUS
  <2>3. x.phase = "joining" /\ session'[p] = x /\ toPage'[p] = toPage[p]
    BY <1>1, <2>1, <2>2, SessionFields, SessionBecomes DEF Session, joinRoom
  <2>4. ~Has(toPage[p], {"JOIN_SUCCESS"})
    BY <1>1 DEF joinRoom, PresenceInv, PageInv, Has, Answers
  <2> QED BY <2>3, <2>4, RosterOut DEF Active
<1>2. CASE leaveRoom(p)
  <2>1. PICK x : x = [Fresh EXCEPT !.isTyping = session[p].isTyping]
    OBVIOUS
  <2>2. x.phase = "idle"
    BY <2>1 DEF Fresh
  <2>3. session'[p] = x /\ toPage'[p] = toPage[p]
    BY <1>2, <2>1, SessionBecomes DEF leaveRoom
  <2>4. ~Has(toPage[p], {"JOIN_SUCCESS"})
    BY <1>2 DEF leaveRoom, PresenceInv, PageInv, Has, Answers
  <2> QED BY <2>2, <2>3, <2>4, RosterOut DEF Active
<1>3. CASE sendMessage(p) \/ notifyTyping(p) \/ typingTimerFires(p)
  <2>1. UNCHANGED <<connection, toPage, participants>>
    BY <1>3 DEF sendMessage, notifyTyping, typingTimerFires, Act, roomVars
  <2>2. PICK x : /\ Become(p, x) /\ x.phase = session[p].phase /\ x.room = session[p].room
                 /\ x.roster = session[p].roster
    <3>1. CASE notifyTyping(p)
      <4>1. PICK x : x = [session[p] EXCEPT !.isTyping = TRUE, !.typingTimer = TRUE]
        OBVIOUS
      <4>2. /\ x.phase = session[p].phase /\ x.room = session[p].room
            /\ x.roster = session[p].roster
        BY <4>1, SessionFields DEF Session
      <4> QED BY <3>1, <4>1, <4>2 DEF notifyTyping
    <3>2. CASE sendMessage(p) \/ typingTimerFires(p)
      <4>1. Become(p, typingStopped(session[p]))
        BY <3>2 DEF sendMessage, typingTimerFires
      <4>2. session[p] \in Session
        BY SessionFields
      <4> QED BY <4>1, <4>2, StopTypingType
    <3> QED BY <1>3, <3>1, <3>2
  <2> QED BY <2>1, <2>2, SessionBecomes, RosterSame
<1>4. CASE pageLeft(p) \/ connectionLost(p)
  <2>1. toPage'[p] = <<>>
    BY <1>4 DEF pageLeft, connectionLost, Reconnect, ChatRoomsTypeOK
  <2>2. session'[p].phase # "joined"
    <3>1. CASE pageLeft(p)
      BY <3>1, SessionBecomes DEF pageLeft, Fresh
    <3>2. CASE connectionLost(p)
      <4>1. session[p].phase = "joined" => session[p].room # None
        BY DEF PresenceInv, PageInv, Active
      <4>2. session'[p] = onConnect(session[p])
        BY <3>2, SessionBecomes DEF connectionLost
      <4> QED BY <4>1, <4>2, RejoinType
    <3> QED BY <1>4, <3>1, <3>2
  <2> QED BY <2>1, <2>2, SetNothing, RosterOut DEF Active, Has
<1> QED BY <1>1, <1>2, <1>3, <1>4 DEF UserStep

\* What a step of the page q leaves alone of another page.
LEMMA OtherRoster ==
  ASSUME TypeOK, NEW q \in Page, PageStep(q) \/ UserStep(q), NEW p \in Page \ {q}, RosterInv(p)
  PROVE  RosterInv(p)'
<1> USE DEF TypeOK
<1>1. UNCHANGED participants
  BY DEF PageStep, PageHandler, onJoinSuccess, onJoinError, onUserJoined, onUserLeft,
         onUserTyping, onNewMessage, onRoomClosed, Receive, UserStep, joinRoom, leaveRoom,
         sendMessage, notifyTyping, typingTimerFires, pageLeft, connectionLost, Act, roomVars
<1>2. session'[p] = session[p]
  <2>1. session' = session \/ \E x : Become(q, x)
    BY DEF PageStep, PageHandler, onJoinSuccess, onJoinError, onUserJoined, onUserLeft,
           onUserTyping, onNewMessage, onRoomClosed, UserStep, joinRoom, leaveRoom,
           sendMessage, notifyTyping, typingTimerFires, pageLeft, connectionLost
  <2> QED BY <2>1, SessionBecomes
<1>3. connection'[p] = connection[p] /\ toPage'[p] = toPage[p]
  BY DEF PageStep, PageHandler, onJoinSuccess, onJoinError, onUserJoined, onUserLeft,
         onUserTyping, onNewMessage, onRoomClosed, Receive, UserStep, joinRoom, leaveRoom,
         sendMessage, notifyTyping, typingTimerFires, pageLeft, connectionLost, Act, Reconnect,
         ChatRoomsTypeOK
<1> QED BY <1>1, <1>2, <1>3, RosterSame

LEMMA RosterStep ==
  ASSUME TypeOK, NamesUnique, PresenceInv, [Next]_vars, [ClosedInTurn]_vars,
         NEW p \in Page, RosterInv(p)
  PROVE  RosterInv(p)'
<1>1. CASE UNCHANGED vars
  BY <1>1, NobodyMoves DEF vars, socketVars, roomVars, sessionVars
<1>2. CASE ~UNCHANGED vars
  <2>1. ClosedInTurn
    BY <1>2
  <2>2. ASSUME NEW q \in Page, PageStep(q) \/ UserStep(q) PROVE RosterInv(p)'
    BY <2>1, <2>2, PageRoster, UserRoster, OtherRoster DEF ClosedInTurn
  <2>3. ASSUME NEW r \in RoomId, Close(r) \/ Outside(r) PROVE RosterInv(p)'
    <3>1. CASE forceCloseRoom(r)
      BY <2>3, <3>1, forceCloseRoomRoster DEF Close, Outside, sessionVars
    <3>2. CASE ~forceCloseRoom(r)
      BY <2>3, <3>2, NobodyMoves
         DEF Close, Outside, Expiry, fire, createRoom, timePasses, sweep, socketVars, sessionVars
    <3> QED BY <3>1, <3>2
  <2>4. CASE restart
    <3>1. \A r \in RoomId : Members(r)' = {}
      BY <2>4 DEF restart, Members, Nobody
    <3>2. session'[p] = onConnect(session[p]) /\ toPage'[p] = <<>>
      BY <2>4 DEF restart
    <3>3. session'[p].phase # "joined"
      <4>1. session[p].phase = "joined" => session[p].room # None
        BY DEF PresenceInv, PageInv, Active
      <4> QED BY <3>2, <4>1, RejoinType DEF TypeOK
    <3> QED BY <3>2, <3>3, SetNothing, RosterOut DEF Active, Has
  <2> QED
    BY <1>2, <2>2, <2>3, <2>4, ServerRoster, ResumeRoster DEF Next
<1> QED BY <1>1, <1>2

\* A page in a room lists who the server has in it, once it has read the news: JOIN_SUCCESS
\* holds whom the later USER_JOINED and USER_LEFT add to and take from, in their order.
THEOREM Rosters == Spec /\ [][ClosedInTurn]_vars => []RosterAgrees
<1> DEFINE Inv == NamesUnique /\ PresenceInv /\ \A p \in Page : RosterInv(p)
<1>1. ASSUME TypeOK, Inv PROVE RosterAgrees
  <2> SUFFICES ASSUME NEW r \in RoomId, NEW p \in Page, In(p, r),
                      Settled(p, {"JOIN_SUCCESS", "USER_JOINED", "USER_LEFT"})
               PROVE  session[p].roster = Names(r)
    BY DEF RosterAgrees, Names
  <2>1. session[p].roster \subseteq Name
    BY <1>1, SessionFields DEF TypeOK
  <2>2. Names(r) \subseteq Name
    BY <1>1, MemberName DEF TypeOK, Names
  <2>3. ASSUME NEW n \in Name PROVE n \in session[p].roster <=> n \in Names(r)
    <3>1. Told(toPage[p], session[p].roster, n, Names(r))
      BY <1>1 DEF In, RosterInv, Active
    <3>2. \A i \in 1..Len(toPage[p]) : ~About(toPage[p][i], n)
      BY DEF Settled, Mentions, About
    <3> QED BY <3>1, <3>2 DEF Told
  <2> QED BY <2>1, <2>2, <2>3
<1>2. Init => Inv
  <2>1. ASSUME Init PROVE NamesUnique
    BY <2>1 DEF Init, ChatRoomsInit, NamesUnique, Members, Nobody
  <2>2. ASSUME Init, NEW p \in Page PROVE RosterInv(p)
    <3>1. session[p].phase = "idle" /\ toPage[p] = <<>>
      BY <2>2 DEF Init, ChatRoomsInit, ChatSocketInit, Fresh
    <3> QED BY <3>1, SetNothing DEF RosterInv, Active, Has
  <2> QED BY <2>1, <2>2, PresenceInit
<1>3. ASSUME TypeOK, Inv, [Next]_vars, [ClosedInTurn]_vars PROVE Inv'
  BY <1>3, NamesUniqueStep, PresenceStep, RosterStep
<1> QED
  <2> HIDE DEF Inv
  <2> QED BY <1>1, <1>2, <1>3, TypeCorrect, PTL DEF Spec


-----------------------------------------------------------------------------
(* Who is typing.  What a page will show once it has read its messages is the *)
(* last that USER_TYPING or USER_LEFT say of a name; whoever it will show has *)
(* yet to tell that it stops, or that it leaves.                              *)
Turns(m, n) == m.type \in {"USER_TYPING", "USER_LEFT"} /\ m.name = n

TurnsOn(m) == m.type = "USER_TYPING" /\ m.isTyping

\* Whoever reads the queue to its end shows n typing.
Shown(queue, typing, n) ==
  IF \E i \in 1..Len(queue) : Turns(queue[i], n)
  THEN \E i \in 1..Len(queue) :
         /\ Turns(queue[i], n)
         /\ \A j \in 1..Len(queue) : j > i => ~Turns(queue[j], n)
         /\ TurnsOn(queue[i])
  ELSE n \in typing

\* The page p is in its room, or will be, and shows what it heard there.
Hears(p) ==
  /\ p \notin interrupted
  /\ Active(p)
  /\ SocketOf(p) \in Members(session[p].room)
  /\ Apart(toPage[p], {"USER_TYPING"}, {"JOIN_SUCCESS"})

\* Somebody else in the room r of the socket s goes by the name n and types.
TypesIn(r, s, n) == \E t \in Members(r) : t # s /\ participants[r][t] = n /\ Types(t)

TypingInv(p) ==
  /\ p \notin interrupted /\ session[p].phase # "joined" => session[p].typing = {}
  /\ Hears(p) => \A n \in Name : Shown(toPage[p], session[p].typing, n) =>
                   TypesIn(session[p].room, SocketOf(p), n)

Endings == {"TYPING", "LEAVE_ROOM", "disconnect"}

\* Whoever says in the queue that it types goes on ("on"), or says more.
Followed(queue, on) ==
  \A i \in 1..Len(queue) :
    queue[i].type = "TYPING" /\ queue[i].isTyping =>
      on \/ \E j \in 1..Len(queue) : j > i /\ queue[j].type \in Endings

\* What is for another room than r comes after LEAVE_ROOM.
Aimed(queue, r) ==
  \A i \in 1..Len(queue) :
    queue[i].type \in {"TYPING", "LEAVE_ROOM"} /\ queue[i].room # r =>
      \E j \in 1..Len(queue) : j < i /\ queue[j].type = "LEAVE_ROOM" /\ queue[j].room = r

\* What follows JOIN_ROOM is for that room.
Towards(queue) ==
  \A i, j \in 1..Len(queue) :
    i < j /\ queue[i].type = "JOIN_ROOM" /\ queue[j].type = "TYPING" => queue[j].room = queue[i].room

Typist(s) == s = SocketOf(s[1]) /\ session[s[1]].isTyping

\* What a socket still has to say is for the room that it is in, or comes to be in.
QueueInv(s) ==
  /\ Followed(toServer[s], Typist(s))
  /\ \A r \in RoomId : s \in Members(r) => Aimed(toServer[s], r)
  /\ \A h \in suspended : h.socket = s =>
       \A m \in ToSet(toServer[s]) :
         m.type # "LEAVE_ROOM" /\ (m.type = "TYPING" => m.room = h.room)
  /\ Towards(toServer[s])

LEMMA TailElements ==
  ASSUME NEW S, NEW q \in Seq(S), q # <<>>
  PROVE  /\ Len(q) \in Nat /\ Len(q) > 0 /\ Len(Tail(q)) = Len(q) - 1 /\ Head(q) = q[1]
         /\ 1 \in 1..Len(q) /\ DOMAIN Tail(q) = 1..Len(Tail(q))
         /\ \A i \in 1..Len(Tail(q)) : Tail(q)[i] = q[i + 1] /\ i + 1 \in 1..Len(q)
         /\ \A i \in 1..Len(q) : i # 1 => i - 1 \in 1..Len(Tail(q)) /\ Tail(q)[i - 1] = q[i]
<1>1. /\ Len(q) \in Nat /\ Len(q) > 0 /\ Len(Tail(q)) = Len(q) - 1 /\ Head(q) = q[1]
      /\ 1 \in 1..Len(q) /\ DOMAIN Tail(q) = 1..Len(Tail(q))
      /\ \A i \in 1..Len(Tail(q)) : Tail(q)[i] = q[i + 1] /\ i + 1 \in 1..Len(q)
  OBVIOUS
<1>2. ASSUME NEW i \in 1..Len(q), i # 1
      PROVE  i - 1 \in 1..Len(Tail(q)) /\ Tail(q)[i - 1] = q[i]
  <2>1. i - 1 \in 1..Len(Tail(q)) /\ (i - 1) + 1 = i
    BY <1>1, <1>2
  <2> QED BY <1>1, <2>1
<1> QED BY <1>1, <1>2

LEMMA MoreElements ==
  ASSUME NEW S, NEW q \in Seq(S), NEW ms \in Seq(S)
  PROVE  /\ Len(q) \in Nat /\ Len(ms) \in Nat /\ DOMAIN q = 1..Len(q) /\ DOMAIN ms = 1..Len(ms)
         /\ \A i \in 1..Len(q) : (q \o ms)[i] = q[i] /\ i \in 1..Len(q \o ms)
         /\ \A i \in 1..Len(ms) : (q \o ms)[Len(q) + i] = ms[i] /\ Len(q) + i \in 1..Len(q \o ms)
         /\ \A i \in 1..Len(q \o ms) : i \notin 1..Len(q) =>
              i - Len(q) \in 1..Len(ms) /\ (q \o ms)[i] = ms[i - Len(q)]
<1>1. /\ Len(q \o ms) = Len(q) + Len(ms) /\ Len(q) \in Nat /\ Len(ms) \in Nat
      /\ DOMAIN q = 1..Len(q) /\ DOMAIN ms = 1..Len(ms)
      /\ \A i \in 1..Len(q) : (q \o ms)[i] = q[i]
      /\ \A i \in 1..Len(ms) : (q \o ms)[Len(q) + i] = ms[i]
  BY ConcatElements
<1>2. ASSUME NEW i \in 1..Len(q \o ms), i \notin 1..Len(q)
      PROVE  i - Len(q) \in 1..Len(ms) /\ (q \o ms)[i] = ms[i - Len(q)]
  <2>1. i - Len(q) \in 1..Len(ms) /\ Len(q) + (i - Len(q)) = i
    BY <1>1, <1>2
  <2> QED BY <1>1, <2>1
<1>3. /\ \A i \in 1..Len(q) : i \in 1..Len(q \o ms)
      /\ \A i \in 1..Len(ms) : Len(q) + i \in 1..Len(q \o ms)
  BY <1>1
<1> QED BY <1>1, <1>2, <1>3

LEMMA ShownTail ==
  ASSUME NEW S, NEW q \in Seq(S), q # <<>>, NEW typing, NEW n, NEW heard,
         Shown(Tail(q), heard, n),
         IF Turns(Head(q), n) THEN n \in heard => TurnsOn(Head(q)) ELSE n \in heard => n \in typing
  PROVE  Shown(q, typing, n)
<1> PICK rest : rest = Tail(q)
  OBVIOUS
<1>1. /\ Len(q) \in Nat /\ Head(q) = q[1] /\ 1 \in 1..Len(q)
      /\ \A i \in 1..Len(rest) : rest[i] = q[i + 1] /\ i + 1 \in 1..Len(q)
      /\ \A i \in 1..Len(q) : i # 1 => i - 1 \in 1..Len(rest) /\ rest[i - 1] = q[i]
  BY TailElements
<1>2. CASE \E i \in 1..Len(rest) : Turns(rest[i], n)
  <2>1. PICK i \in 1..Len(rest) :
          /\ Turns(rest[i], n)
          /\ \A j \in 1..Len(rest) : j > i => ~Turns(rest[j], n)
          /\ TurnsOn(rest[i])
    BY <1>2 DEF Shown
  <2>2. PICK k \in 1..Len(q) : k = i + 1 /\ q[k] = rest[i]
    BY <1>1
  <2>3. ASSUME NEW j \in 1..Len(q), j > k PROVE ~Turns(q[j], n)
    <3>1. j # 1 /\ j - 1 > i
      BY <2>2, <2>3
    <3> QED BY <1>1, <2>1, <3>1
  <2> QED BY <2>1, <2>2, <2>3 DEF Shown
<1>3. CASE ~\E i \in 1..Len(rest) : Turns(rest[i], n)
  <2>1. n \in heard
    BY <1>3 DEF Shown
  <2>2. \A j \in 1..Len(q) : j # 1 => ~Turns(q[j], n)
    BY <1>1, <1>3
  <2>3. CASE Turns(q[1], n)
    <3>1. TurnsOn(q[1])
      BY <1>1, <2>1, <2>3
    <3>2. \A j \in 1..Len(q) : j > 1 => ~Turns(q[j], n)
      BY <2>2
    <3> QED BY <1>1, <2>3, <3>1, <3>2 DEF Shown
  <2>4. CASE ~Turns(q[1], n)
    <3>1. \A j \in 1..Len(q) : ~Turns(q[j], n)
      BY <2>2, <2>4
    <3>2. n \in typing
      BY <1>1, <2>1, <2>4
    <3> QED BY <3>1, <3>2 DEF Shown
  <2> QED BY <2>3, <2>4
<1> QED BY <1>2, <1>3

\* More messages: some that say that n does not type, or only such as do not concern n.
LEMMA ShownNot ==
  ASSUME NEW S, NEW q \in Seq(S), NEW ms \in Seq(S), NEW typing, NEW n,
         ms # <<>>, \A m \in ToSet(ms) : Turns(m, n) /\ ~TurnsOn(m)
  PROVE  ~Shown(q \o ms, typing, n)
<1> PICK all : all = q \o ms
  OBVIOUS
<1>1. /\ Len(q) \in Nat /\ Len(ms) \in Nat /\ DOMAIN ms = 1..Len(ms)
      /\ \A i \in 1..Len(ms) : all[Len(q) + i] = ms[i] /\ Len(q) + i \in 1..Len(all)
      /\ \A i \in 1..Len(all) : i \notin 1..Len(q) => i - Len(q) \in 1..Len(ms) /\ all[i] = ms[i - Len(q)]
  BY MoreElements
<1>2. \A i \in 1..Len(ms) : Turns(ms[i], n) /\ ~TurnsOn(ms[i])
  BY <1>1 DEF ToSet
<1>3. Len(ms) # 0
  OBVIOUS
<1>4. Len(ms) \in 1..Len(ms)
  BY <1>1, <1>3
<1>5. PICK k \in 1..Len(all) : k = Len(q) + Len(ms) /\ Turns(all[k], n)
  BY <1>1, <1>2, <1>4
<1>6. ASSUME NEW i \in 1..Len(all), TurnsOn(all[i]), \A j \in 1..Len(all) : j > i => ~Turns(all[j], n)
      PROVE  FALSE
  <2>1. i \in 1..Len(q)
    BY <1>1, <1>2, <1>6
  <2>2. k > i
    BY <1>1, <1>4, <1>5, <2>1
  <2> QED BY <1>5, <1>6, <2>2
<1> QED BY <1>5, <1>6 DEF Shown

LEMMA ShownStill ==
  ASSUME NEW S, NEW q \in Seq(S), NEW ms \in Seq(S), NEW typing, NEW n,
         \A m \in ToSet(ms) : ~Turns(m, n), Shown(q \o ms, typing, n)
  PROVE  Shown(q, typing, n)
<1> PICK all : all = q \o ms
  OBVIOUS
<1>1. /\ Len(q) \in Nat /\ DOMAIN ms = 1..Len(ms)
      /\ \A i \in 1..Len(q) : all[i] = q[i] /\ i \in 1..Len(all)
      /\ \A i \in 1..Len(all) : i \notin 1..Len(q) => i - Len(q) \in 1..Len(ms) /\ all[i] = ms[i - Len(q)]
  BY MoreElements
<1>2. \A i \in 1..Len(all) : Turns(all[i], n) => i \in 1..Len(q) /\ Turns(q[i], n)
  BY <1>1 DEF ToSet
<1>3. CASE \E i \in 1..Len(all) : Turns(all[i], n)
  <2>1. PICK i \in 1..Len(all) :
          /\ Turns(all[i], n)
          /\ \A j \in 1..Len(all) : j > i => ~Turns(all[j], n)
          /\ TurnsOn(all[i])
    BY <1>3 DEF Shown
  <2>2. i \in 1..Len(q) /\ Turns(q[i], n) /\ TurnsOn(q[i])
    BY <1>1, <1>2, <2>1
  <2>3. \A j \in 1..Len(q) : j > i => ~Turns(q[j], n)
    BY <1>1, <2>1
  <2> QED BY <2>2, <2>3 DEF Shown
<1>4. CASE ~\E i \in 1..Len(all) : Turns(all[i], n)
  <2>1. ~\E i \in 1..Len(q) : Turns(q[i], n)
    BY <1>1, <1>4
  <2> QED BY <1>4, <2>1 DEF Shown
<1> QED BY <1>3, <1>4

LEMMA ShownOn ==
  ASSUME NEW S, NEW q \in Seq(S), NEW typing, NEW n, Shown(q, typing, n), n \notin typing
  PROVE  Has(q, {"USER_TYPING"})
<1>1. DOMAIN q = 1..Len(q)
  OBVIOUS
<1>2. PICK i \in 1..Len(q) : TurnsOn(q[i])
  BY DEF Shown
<1> QED BY <1>1, <1>2 DEF TurnsOn, Has, ToSet


LEMMA ApartCons ==
  ASSUME NEW S, NEW q \in Seq(S), q # <<>>, NEW A, NEW B, Apart(Tail(q), A, B),
         Head(q).type \in A => ~Has(Tail(q), B)
  PROVE  Apart(q, A, B)
<1> PICK rest : rest = Tail(q)
  OBVIOUS
<1>1. /\ Len(q) \in Nat /\ Head(q) = q[1] /\ DOMAIN rest = 1..Len(rest)
      /\ \A i \in 1..Len(q) : i # 1 => i - 1 \in 1..Len(rest) /\ rest[i - 1] = q[i]
  BY TailElements
<1> SUFFICES ASSUME NEW i \in 1..Len(q), NEW j \in 1..Len(q), i < j, q[i].type \in A
             PROVE  q[j].type \notin B
  BY DEF Apart
<1>2. j # 1
  OBVIOUS
<1>3. j - 1 \in 1..Len(rest) /\ rest[j - 1] = q[j]
  BY <1>1, <1>2
<1>4. CASE i = 1
  BY <1>1, <1>3, <1>4 DEF Has, ToSet
<1>5. CASE i # 1
  <2>1. i - 1 \in 1..Len(rest) /\ rest[i - 1] = q[i] /\ i - 1 < j - 1
    BY <1>1, <1>5
  <2> QED BY <1>3, <2>1 DEF Apart
<1> QED BY <1>4, <1>5

LEMMA ApartPart ==
  ASSUME NEW S, NEW q \in Seq(S), NEW ms \in Seq(S), NEW A, NEW B, Apart(q \o ms, A, B)
  PROVE  Apart(q, A, B) /\ (Has(q, A) => ~Has(ms, B))
<1> PICK all : all = q \o ms
  OBVIOUS
<1>1. /\ Len(q) \in Nat /\ DOMAIN ms = 1..Len(ms) /\ DOMAIN q = 1..Len(q)
      /\ \A i \in 1..Len(q) : all[i] = q[i] /\ i \in 1..Len(all)
      /\ \A i \in 1..Len(ms) : all[Len(q) + i] = ms[i] /\ Len(q) + i \in 1..Len(all)
  BY MoreElements
<1>2. Apart(q, A, B)
  BY <1>1 DEF Apart
<1>3. ASSUME NEW i \in 1..Len(q), q[i].type \in A, NEW j \in 1..Len(ms)
      PROVE  ms[j].type \notin B
  <2>1. i < Len(q) + j
    BY <1>1
  <2> QED BY <1>1, <1>3, <2>1 DEF Apart
<1> QED BY <1>1, <1>2, <1>3 DEF Has, ToSet

LEMMA FollowedTail ==
  ASSUME NEW S, NEW q \in Seq(S), q # <<>>, NEW on, Followed(q, on)
  PROVE  /\ Followed(Tail(q), on)
         /\ Head(q).type = "TYPING" /\ Head(q).isTyping => on \/ Has(Tail(q), Endings)
<1> PICK rest : rest = Tail(q)
  OBVIOUS
<1>1. /\ Len(q) \in Nat /\ Head(q) = q[1] /\ 1 \in 1..Len(q) /\ DOMAIN rest = 1..Len(rest)
      /\ \A i \in 1..Len(rest) : rest[i] = q[i + 1] /\ i + 1 \in 1..Len(q)
      /\ \A i \in 1..Len(q) : i # 1 => i - 1 \in 1..Len(rest) /\ rest[i - 1] = q[i]
  BY TailElements
<1>2. ASSUME NEW i \in 1..Len(rest), rest[i].type = "TYPING", rest[i].isTyping, ~on
      PROVE  \E j \in 1..Len(rest) : j > i /\ rest[j].type \in Endings
  <2>1. PICK j \in 1..Len(q) : j > i + 1 /\ q[j].type \in Endings
    BY <1>1, <1>2 DEF Followed
  <2>2. j # 1 /\ j - 1 > i
    BY <2>1
  <2> QED BY <1>1, <2>1, <2>2
<1>3. ASSUME q[1].type = "TYPING", q[1].isTyping, ~on
      PROVE  \E j \in 1..Len(rest) : rest[j].type \in Endings
  <2>1. PICK j \in 1..Len(q) : j > 1 /\ q[j].type \in Endings
    BY <1>1, <1>3 DEF Followed
  <2>2. j # 1
    BY <2>1
  <2> QED BY <1>1, <2>1, <2>2
<1> QED BY <1>1, <1>2, <1>3 DEF Followed, Has, ToSet

LEMMA FollowedMore ==
  ASSUME NEW S, NEW q \in Seq(S), NEW ms \in Seq(S), NEW on, NEW now,
         Followed(q, on), Followed(ms, now), on => now \/ Has(ms, Endings)
  PROVE  Followed(q \o ms, now)
<1> PICK all : all = q \o ms
  OBVIOUS
<1>1. /\ Len(q) \in Nat /\ DOMAIN ms = 1..Len(ms) /\ Len(ms) \in Nat
      /\ \A i \in 1..Len(q) : all[i] = q[i] /\ i \in 1..Len(all)
      /\ \A i \in 1..Len(ms) : all[Len(q) + i] = ms[i] /\ Len(q) + i \in 1..Len(all)
      /\ \A i \in 1..Len(all) : i \notin 1..Len(q) => i - Len(q) \in 1..Len(ms) /\ all[i] = ms[i - Len(q)]
  BY MoreElements
<1> SUFFICES ASSUME NEW i \in 1..Len(all), all[i].type = "TYPING", all[i].isTyping, ~now
             PROVE  \E j \in 1..Len(all) : j > i /\ all[j].type \in Endings
  BY DEF Followed
<1>2. CASE i \in 1..Len(q)
  <2>1. CASE on
    <3>1. PICK j \in 1..Len(ms) : ms[j].type \in Endings
      BY <1>1, <2>1 DEF Has, ToSet
    <3>2. Len(q) + j > i
      BY <1>1, <1>2
    <3> QED BY <1>1, <3>1, <3>2
  <2>2. CASE ~on
    <3>1. PICK j \in 1..Len(q) : j > i /\ q[j].type \in Endings
      BY <1>1, <1>2, <2>2 DEF Followed
    <3> QED BY <1>1, <3>1
  <2> QED BY <2>1, <2>2
<1>3. CASE i \notin 1..Len(q)
  <2>1. i - Len(q) \in 1..Len(ms) /\ all[i] = ms[i - Len(q)]
    BY <1>1, <1>3
  <2>2. PICK j \in 1..Len(ms) : j > i - Len(q) /\ ms[j].type \in Endings
    BY <2>1 DEF Followed
  <2>3. Len(q) + j > i
    BY <1>1, <2>2
  <2> QED BY <1>1, <2>2, <2>3
<1> QED BY <1>2, <1>3

\* Nothing that is said before the end of the connection goes without an end.
LEMMA FollowedOver ==
  ASSUME NEW S, NEW q \in Seq(S), NEW m \in S, m.type = "disconnect", NEW on
  PROVE  Followed(q \o <<m>>, on)
<1> PICK ms : ms = <<m>> /\ ms \in Seq(S)
  BY ShortSequences
<1> PICK all : all = q \o ms
  OBVIOUS
<1>1. /\ Len(q) \in Nat /\ Len(ms) = 1 /\ ms[1] = m
      /\ \A i \in 1..Len(ms) : all[Len(q) + i] = ms[i] /\ Len(q) + i \in 1..Len(all)
      /\ \A i \in 1..Len(all) : i \notin 1..Len(q) => i - Len(q) \in 1..Len(ms) /\ all[i] = ms[i - Len(q)]
  BY MoreElements
<1>2. all[Len(q) + 1].type = "disconnect" /\ Len(q) + 1 \in 1..Len(all)
  BY <1>1
<1>3. ASSUME NEW i \in 1..Len(all), all[i].type = "TYPING"
      PROVE  Len(q) + 1 > i
  <2>1. i \in 1..Len(q)
    <3>1. ASSUME i \notin 1..Len(q) PROVE FALSE
      <4>1. i - Len(q) = 1
        BY <1>1, <3>1
      <4> QED BY <1>1, <1>3, <3>1, <4>1
    <3> QED BY <3>1
  <2> QED BY <1>1, <2>1
<1> QED BY <1>2, <1>3 DEF Followed, Endings

LEMMA AimedTail ==
  ASSUME NEW S, NEW q \in Seq(S), q # <<>>, NEW r, Aimed(q, r)
  PROVE  /\ Head(q).type \in {"TYPING", "LEAVE_ROOM"} => Head(q).room = r
         /\ ~(Head(q).type = "LEAVE_ROOM" /\ Head(q).room = r) => Aimed(Tail(q), r)
<1> PICK rest : rest = Tail(q)
  OBVIOUS
<1>1. /\ Len(q) \in Nat /\ Head(q) = q[1] /\ 1 \in 1..Len(q)
      /\ \A i \in 1..Len(rest) : rest[i] = q[i + 1] /\ i + 1 \in 1..Len(q)
      /\ \A i \in 1..Len(q) : i # 1 => i - 1 \in 1..Len(rest) /\ rest[i - 1] = q[i]
  BY TailElements
<1>2. q[1].type \in {"TYPING", "LEAVE_ROOM"} => q[1].room = r
  <2>1. \A j \in 1..Len(q) : ~(j < 1)
    OBVIOUS
  <2> QED BY <1>1, <2>1 DEF Aimed
<1>3. ASSUME ~(q[1].type = "LEAVE_ROOM" /\ q[1].room = r), NEW i \in 1..Len(rest),
             rest[i].type \in {"TYPING", "LEAVE_ROOM"}, rest[i].room # r
      PROVE  \E j \in 1..Len(rest) : j < i /\ rest[j].type = "LEAVE_ROOM" /\ rest[j].room = r
  <2>1. PICK j \in 1..Len(q) : j < i + 1 /\ q[j].type = "LEAVE_ROOM" /\ q[j].room = r
    BY <1>1, <1>3 DEF Aimed
  <2>2. j # 1
    BY <1>3, <2>1
  <2>3. j - 1 < i
    BY <2>1
  <2> QED BY <1>1, <2>1, <2>2, <2>3
<1> QED BY <1>1, <1>2, <1>3 DEF Aimed

LEMMA AimedMore ==
  ASSUME NEW S, NEW q \in Seq(S), NEW ms \in Seq(S), NEW r, Aimed(q, r),
         \/ \A m \in ToSet(ms) : m.type \in {"TYPING", "LEAVE_ROOM"} => m.room = r
         \/ \E m \in ToSet(q) : m.type = "LEAVE_ROOM" /\ m.room = r
  PROVE  Aimed(q \o ms, r)
<1> PICK all : all = q \o ms
  OBVIOUS
<1>1. /\ Len(q) \in Nat /\ DOMAIN q = 1..Len(q) /\ DOMAIN ms = 1..Len(ms)
      /\ \A i \in 1..Len(q) : all[i] = q[i] /\ i \in 1..Len(all)
      /\ \A i \in 1..Len(all) : i \notin 1..Len(q) => i - Len(q) \in 1..Len(ms) /\ all[i] = ms[i - Len(q)]
  BY MoreElements
<1> SUFFICES ASSUME NEW i \in 1..Len(all), all[i].type \in {"TYPING", "LEAVE_ROOM"}, all[i].room # r
             PROVE  \E j \in 1..Len(all) : j < i /\ all[j].type = "LEAVE_ROOM" /\ all[j].room = r
  BY DEF Aimed
<1>2. CASE i \in 1..Len(q)
  BY <1>1, <1>2 DEF Aimed
<1>3. CASE i \notin 1..Len(q)
  <2>1. all[i] \in ToSet(ms)
    BY <1>1, <1>3 DEF ToSet
  <2>2. PICK j \in 1..Len(q) : q[j].type = "LEAVE_ROOM" /\ q[j].room = r
    BY <1>1, <2>1 DEF ToSet
  <2>3. j < i
    BY <1>1, <1>3
  <2> QED BY <1>1, <2>2, <2>3
<1> QED BY <1>2, <1>3

LEMMA AimedAll ==
  ASSUME NEW S, NEW q \in Seq(S), NEW r,
         \A m \in ToSet(q) : m.type \in {"TYPING", "LEAVE_ROOM"} => m.room = r
  PROVE  Aimed(q, r)
<1>1. DOMAIN q = 1..Len(q)
  OBVIOUS
<1> QED BY <1>1 DEF Aimed, ToSet

LEMMA TowardsTail ==
  ASSUME NEW S, NEW q \in Seq(S), q # <<>>, Towards(q)
  PROVE  /\ Towards(Tail(q))
         /\ Head(q).type = "JOIN_ROOM" =>
              \A m \in ToSet(Tail(q)) : m.type = "TYPING" => m.room = Head(q).room
<1> PICK rest : rest = Tail(q)
  OBVIOUS
<1>1. /\ Len(q) \in Nat /\ Head(q) = q[1] /\ 1 \in 1..Len(q) /\ DOMAIN rest = 1..Len(rest)
      /\ \A i \in 1..Len(rest) : rest[i] = q[i + 1] /\ i + 1 \in 1..Len(q)
  BY TailElements
<1>2. \A i, j \in 1..Len(rest) : i < j => i + 1 < j + 1
  OBVIOUS
<1>3. \A j \in 1..Len(rest) : 1 < j + 1
  OBVIOUS
<1>4. Towards(rest)
  BY <1>1, <1>2 DEF Towards
<1>5. ASSUME q[1].type = "JOIN_ROOM", NEW j \in 1..Len(rest), rest[j].type = "TYPING"
      PROVE  rest[j].room = q[1].room
  BY <1>1, <1>3, <1>5 DEF Towards
<1> QED BY <1>1, <1>4, <1>5 DEF ToSet

LEMMA TowardsMore ==
  ASSUME NEW S, NEW q \in Seq(S), NEW ms \in Seq(S), Towards(q), Towards(ms),
         \A a \in ToSet(q), b \in ToSet(ms) :
           a.type = "JOIN_ROOM" /\ b.type = "TYPING" => b.room = a.room
  PROVE  Towards(q \o ms)
<1> PICK all : all = q \o ms
  OBVIOUS
<1>1. /\ Len(q) \in Nat /\ DOMAIN q = 1..Len(q) /\ DOMAIN ms = 1..Len(ms) /\ Len(ms) \in Nat
      /\ \A i \in 1..Len(q) : all[i] = q[i] /\ i \in 1..Len(all)
      /\ \A i \in 1..Len(all) : i \notin 1..Len(q) => i - Len(q) \in 1..Len(ms) /\ all[i] = ms[i - Len(q)]
  BY MoreElements
<1> SUFFICES ASSUME NEW i \in 1..Len(all), NEW j \in 1..Len(all), i < j,
                    all[i].type = "JOIN_ROOM", all[j].type = "TYPING"
             PROVE  all[j].room = all[i].room
  BY DEF Towards
<1>2. CASE j \in 1..Len(q)
  <2>1. i \in 1..Len(q)
    BY <1>1, <1>2
  <2> QED BY <1>1, <1>2, <2>1 DEF Towards
<1>3. CASE j \notin 1..Len(q) /\ i \in 1..Len(q)
  <2>1. all[i] \in ToSet(q) /\ all[j] \in ToSet(ms)
    BY <1>1, <1>3 DEF ToSet
  <2> QED BY <2>1
<1>4. CASE j \notin 1..Len(q) /\ i \notin 1..Len(q)
  <2>1. /\ i - Len(q) \in 1..Len(ms) /\ all[i] = ms[i - Len(q)]
        /\ j - Len(q) \in 1..Len(ms) /\ all[j] = ms[j - Len(q)]
        /\ i - Len(q) < j - Len(q)
    BY <1>1, <1>4
  <2> QED BY <2>1 DEF Towards
<1> QED BY <1>2, <1>3, <1>4

LEMMA PrefixAims ==
  ASSUME NEW S, NEW q \in Seq(S), NEW n \in 0..Len(q)
  PROVE  /\ \A r : Aimed(q, r) => Aimed(SubSeq(q, 1, n), r)
         /\ Towards(q) => Towards(SubSeq(q, 1, n))
<1> PICK part : part = SubSeq(q, 1, n)
  OBVIOUS
<1>1. /\ Len(part) = n /\ n \in Nat /\ Len(q) \in Nat
      /\ \A i \in 1..n : part[i] = q[i] /\ i \in 1..Len(q)
  BY Prefix
<1>2. ASSUME NEW r, Aimed(q, r) PROVE Aimed(part, r)
  <2> SUFFICES ASSUME NEW i \in 1..n, part[i].type \in {"TYPING", "LEAVE_ROOM"}, part[i].room # r
               PROVE  \E j \in 1..n : j < i /\ part[j].type = "LEAVE_ROOM" /\ part[j].room = r
    BY <1>1 DEF Aimed
  <2>1. PICK j \in 1..Len(q) : j < i /\ q[j].type = "LEAVE_ROOM" /\ q[j].room = r
    BY <1>1, <1>2 DEF Aimed
  <2>2. j \in 1..n
    BY <1>1, <2>1
  <2> QED BY <1>1, <2>1, <2>2
<1>3. Towards(q) => Towards(part)
  BY <1>1 DEF Towards
<1> QED BY <1>2, <1>3


LEMMA QueueKept ==
  ASSUME NEW s \in Socket, QueueInv(s), toServer'[s] = toServer[s], Typist(s) => Typist(s)',
         \A h \in suspended' : h.socket = s => \E g \in suspended : g.socket = s /\ g.room = h.room,
         \A r \in RoomId : s \in Members(r)' => s \in Members(r)
  PROVE  QueueInv(s)'
<1>1. Followed(toServer'[s], Typist(s)')
  BY DEF QueueInv, Followed
<1> QED BY <1>1 DEF QueueInv

LEMMA QueueRead ==
  ASSUME ChatRoomsTypeOK, NEW s \in Socket, QueueInv(s), NEW type, Request(s, type),
         Typist(s) => Typist(s)',
         \A h \in suspended' : h.socket = s => \E g \in suspended : g.socket = s /\ g.room = h.room,
         \A r \in RoomId : s \in Members(r)' => s \in Members(r),
         NEW left, left = Head(toServer[s]).room, type = "LEAVE_ROOM" => s \notin Members(left)'
  PROVE  QueueInv(s)'
<1> PICK q : q = toServer[s]
  OBVIOUS
<1>1. q \in Seq(ToServer) /\ q # <<>> /\ toServer'[s] = Tail(q) /\ Head(q).type = type
  BY DEF ChatRoomsTypeOK, Request
<1>2. Followed(Tail(q), Typist(s)')
  <2>1. Followed(q, Typist(s)')
    BY DEF QueueInv, Followed
  <2>2. PICK now : now = Typist(s)'
    OBVIOUS
  <2> QED BY <1>1, <2>1, <2>2, FollowedTail
<1>3. ASSUME NEW r \in RoomId, s \in Members(r)' PROVE Aimed(Tail(q), r)
  <2>1. Aimed(q, r)
    BY <1>3 DEF QueueInv
  <2>2. ~(Head(q).type = "LEAVE_ROOM" /\ Head(q).room = r)
    BY <1>1, <1>3
  <2> QED BY <1>1, <2>1, <2>2, AimedTail
<1>4. ToSet(Tail(q)) \subseteq ToSet(q)
  BY <1>1, SetTail
<1>5. Towards(Tail(q))
  <2>1. Towards(q)
    BY DEF QueueInv
  <2> QED BY <1>1, <2>1, TowardsTail
<1> QED BY <1>1, <1>2, <1>3, <1>4, <1>5 DEF QueueInv

LEMMA QueueSent ==
  ASSUME ChatRoomsTypeOK, NEW s \in Socket, QueueInv(s), NEW ms \in Seq(ToServer),
         toServer'[s] = toServer[s] \o ms, UNCHANGED <<suspended, participants>>,
         Followed(ms, Typist(s)'), Typist(s) => Typist(s)' \/ Has(ms, Endings), Towards(ms),
         \A r \in RoomId : s \in Members(r) =>
           \/ \A m \in ToSet(ms) : m.type \in {"TYPING", "LEAVE_ROOM"} => m.room = r
           \/ Leaves(s, r),
         \A m \in ToSet(ms) : m.type = "LEAVE_ROOM" => ~Waits(s),
         \A m \in ToSet(ms) : m.type = "TYPING" =>
           /\ \A h \in suspended : h.socket = s => m.room = h.room
           /\ \A a \in ToSet(toServer[s]) : a.type = "JOIN_ROOM" => m.room = a.room
  PROVE  QueueInv(s)'
<1> PICK q : q = toServer[s]
  OBVIOUS
<1>1. q \in Seq(ToServer) /\ toServer'[s] = q \o ms
  BY DEF ChatRoomsTypeOK
<1>2. Followed(q \o ms, Typist(s)')
  <2>1. PICK on, now : on = Typist(s) /\ now = Typist(s)'
    OBVIOUS
  <2>2. Followed(q, on)
    BY <2>1 DEF QueueInv
  <2> QED BY <1>1, <2>1, <2>2, FollowedMore
<1>3. ASSUME NEW r \in RoomId, s \in Members(r)' PROVE Aimed(q \o ms, r)
  <2>1. s \in Members(r)
    BY <1>3 DEF Members
  <2>2. Aimed(q, r)
    BY <2>1 DEF QueueInv
  <2>3. \/ \A m \in ToSet(ms) : m.type \in {"TYPING", "LEAVE_ROOM"} => m.room = r
        \/ \E m \in ToSet(q) : m.type = "LEAVE_ROOM" /\ m.room = r
    BY <2>1 DEF Leaves
  <2> QED BY <1>1, <2>2, <2>3, AimedMore
<1>4. ToSet(q \o ms) = ToSet(q) \cup ToSet(ms)
  BY <1>1, SetConcat
<1>5. Towards(q \o ms)
  <2>1. Towards(q)
    BY DEF QueueInv
  <2> QED BY <1>1, <2>1, TowardsMore
<1>6. ASSUME NEW h \in suspended', h.socket = s, NEW m \in ToSet(q \o ms)
      PROVE  m.type # "LEAVE_ROOM" /\ (m.type = "TYPING" => m.room = h.room)
  <2>1. h \in suspended /\ Waits(s)
    BY <1>6 DEF Waits
  <2> QED BY <1>4, <1>6, <2>1 DEF QueueInv
<1> QED BY <1>1, <1>2, <1>3, <1>5, <1>6 DEF QueueInv

\* The server reads a message of the socket s.
LEMMA ServerQueues ==
  ASSUME TypeOK, PresenceInv, NEW s \in Socket, ServerStep(s), NEW u \in Socket, QueueInv(u)
  PROVE  QueueInv(u)'
<1> USE DEF TypeOK
<1>1. PICK type : Request(s, type) /\ (type = "JOIN_ROOM" <=> handleJoinRoom(s))
  BY DEF ServerStep, Handler, handleJoinRoom, handleLeaveRoom, handleSendMessage, broadcastTyping,
         handleDisconnect, Request
<1>2. Typist(u) => Typist(u)'
  BY <1>1 DEF ServerStep, sessionVars, Typist, SocketOf, Request
<1>3. \A r \in RoomId : u \in Members(r)' => u \in Members(r)
  <2>1. CASE UNCHANGED participants
    BY <2>1 DEF Members
  <2>2. CASE handleLeaveRoom(s)
    <3>1. Head(toServer[s]).room \in RoomId
      BY <2>2, RequestType, ToServerFields DEF handleLeaveRoom
    <3>2. PICK from \in SUBSET RoomId : from = {Head(toServer[s]).room}
      BY <3>1
    <3> QED BY <2>2, <3>2, RemoveMembers DEF handleLeaveRoom
  <2>3. CASE handleDisconnect(s)
    <3>1. PICK from \in SUBSET RoomId : from = RoomId
      OBVIOUS
    <3> QED BY <2>3, <3>1, RemoveMembers DEF handleDisconnect
  <2> QED
    BY <2>1, <2>2, <2>3 DEF ServerStep, Handler, handleJoinRoom, handleSendMessage, broadcastTyping,
                            roomVars
<1>4. CASE u # s
  <2>1. toServer'[u] = toServer[u]
    BY <1>1, <1>4 DEF Request, ChatRoomsTypeOK
  <2>2. \A h \in suspended' : h.socket = u => h \in suspended
    BY <1>4 DEF ServerStep, Handler, handleJoinRoom, handleLeaveRoom, handleSendMessage, broadcastTyping,
                handleDisconnect, roomVars
  <2> QED BY <1>2, <1>3, <2>1, <2>2, QueueKept
<1>5. CASE u = s /\ ~handleJoinRoom(s)
  <2>1. UNCHANGED suspended
    BY <1>5 DEF ServerStep, Handler, handleLeaveRoom, handleSendMessage, broadcastTyping,
                handleDisconnect, roomVars
  <2> PICK left : left = Head(toServer[s]).room
    OBVIOUS
  <2>2. type = "LEAVE_ROOM" => s \notin Members(left)'
    <3> SUFFICES ASSUME type = "LEAVE_ROOM" PROVE s \notin Members(left)'
      OBVIOUS
    <3>1. handleLeaveRoom(s)
      BY <1>1 DEF ServerStep, Handler, handleJoinRoom, handleSendMessage, broadcastTyping,
                  handleDisconnect, Request
    <3>2. PICK r \in RoomId : r = Head(toServer[s]).room
      BY <3>1, RequestType, ToServerFields DEF handleLeaveRoom
    <3>3. PICK from \in SUBSET RoomId : from = {r}
      OBVIOUS
    <3>4. removeParticipant(s, from)
      BY <3>1, <3>2, <3>3 DEF handleLeaveRoom
    <3> QED BY <3>2, <3>3, <3>4, RemoveMembers
  <2> QED BY <1>1, <1>2, <1>3, <1>5, <2>1, <2>2, QueueRead
<1>6. CASE u = s /\ handleJoinRoom(s)
  <2> PICK q : q = toServer[s]
    OBVIOUS
  <2>1. /\ q \in Seq(ToServer) /\ q # <<>> /\ Head(q).type = "JOIN_ROOM" /\ toServer'[s] = Tail(q)
        /\ \A h \in suspended' : h \in suspended \/ h.room = Head(q).room
        /\ Request(s, "JOIN_ROOM")
    BY <1>6 DEF handleJoinRoom, Request, ChatRoomsTypeOK
  <2>2. ToSet(q) = {Head(q)} \cup ToSet(Tail(q))
    BY <2>1, SetTail
  <2>3. Has(q, {"JOIN_ROOM"})
    BY <2>1, <2>2 DEF Has
  <2>4. ~Waits(s)
    BY <2>3 DEF PresenceInv, SocketInv
  <2>5. ~Has(Tail(q), {"JOIN_ROOM", "LEAVE_ROOM"})
    <3>1. Apart(q, {"JOIN_ROOM"}, {"JOIN_ROOM", "LEAVE_ROOM"})
      BY DEF PresenceInv, SocketInv
    <3> QED BY <2>1, <3>1, ApartTail
  <2>6. Towards(Tail(q)) /\ \A m \in ToSet(Tail(q)) : m.type = "TYPING" => m.room = Head(q).room
    <3>1. Towards(q)
      BY <1>6 DEF QueueInv
    <3> QED BY <2>1, <3>1, TowardsTail
  <2>7. Followed(Tail(q), Typist(s)')
    <3>1. Followed(q, Typist(s)')
      BY <1>2, <1>6 DEF QueueInv, Followed
    <3>2. PICK now : now = Typist(s)'
      OBVIOUS
    <3> QED BY <2>1, <3>1, <3>2, FollowedTail
  <2>8. ASSUME NEW r \in RoomId, s \in Members(r)' PROVE Aimed(Tail(q), r)
    <3>1. Aimed(q, r)
      BY <1>3, <1>6, <2>8 DEF QueueInv
    <3> QED BY <2>1, <3>1, AimedTail
  <2>9. ASSUME NEW h \in suspended', h.socket = s, NEW m \in ToSet(Tail(q))
        PROVE  m.type # "LEAVE_ROOM" /\ (m.type = "TYPING" => m.room = h.room)
    <3>1. h.room = Head(q).room
      BY <2>1, <2>4, <2>9 DEF Waits
    <3> QED BY <2>5, <2>6, <2>9, <3>1 DEF Has
  <2> QED BY <1>6, <2>1, <2>6, <2>7, <2>8, <2>9 DEF QueueInv
<1> QED BY <1>4, <1>5, <1>6

LEMMA ResumeQueues ==
  ASSUME TypeOK, PresenceInv, NEW h \in suspended, Resume(h), NEW u \in Socket, QueueInv(u)
  PROVE  QueueInv(u)'
<1> USE DEF TypeOK
<1>1. UNCHANGED <<connection, toServer, session>>
  BY DEF Resume, Resumed, roomFound, passwordCompared, Refuse, admit, sessionVars, socketVars
<1>2. Typist(u) => Typist(u)'
  BY <1>1 DEF Typist, SocketOf
<1>3. \A g \in suspended' : \E k \in suspended : k.socket = g.socket /\ k.room = g.room
  <2>1. CASE suspended' \subseteq suspended
    BY <2>1
  <2>2. CASE suspended' = (suspended \ {h}) \cup {[h EXCEPT !.stage = "checking"]}
    <3>1. PICK k : k = [h EXCEPT !.stage = "checking"]
      OBVIOUS
    <3>2. k.socket = h.socket /\ k.room = h.room
      BY <3>1, SuspendedFields DEF Suspended
    <3> QED BY <2>2, <3>1, <3>2
  <2> QED
    BY <2>1, <2>2 DEF Resume, Resumed, roomFound, passwordCompared, Refuse, admit
<1>4. CASE UNCHANGED participants
  BY <1>1, <1>2, <1>3, <1>4, QueueKept DEF Members
<1>5. CASE admit(h)
  <2>1. PICK r \in RoomId, s \in Socket : r = h.room /\ s = h.socket
    BY SuspendedFields
  <2>2. /\ Members(r)' = Members(r) \cup {s}
        /\ \A q \in RoomId \ {r} : participants'[q] = participants[q]
    BY <1>5, <2>1, AdmitMembers
  <2>3. \A q \in RoomId : u \in Members(q)' => u \in Members(q) \/ (q = r /\ u = s)
    BY <2>2 DEF Members
  <2>4. CASE u = s
    <3>1. toServer[s] \in Seq(ToServer)
      BY DEF ChatRoomsTypeOK
    <3>2. \A m \in ToSet(toServer[s]) : m.type \in {"TYPING", "LEAVE_ROOM"} => m.room = r
      BY <2>1, <2>4 DEF QueueInv
    <3>3. Aimed(toServer[s], r)
      BY <3>1, <3>2, AimedAll
    <3>4. Followed(toServer[s], Typist(s)')
      BY <1>2, <2>4 DEF QueueInv, Followed
    <3>5. \A q \in RoomId : s \in Members(q)' => Aimed(toServer[s], q)
      BY <2>3, <2>4, <3>3 DEF QueueInv
    <3>6. \A g \in suspended' : g.socket = s =>
            \A m \in ToSet(toServer[s]) :
              m.type # "LEAVE_ROOM" /\ (m.type = "TYPING" => m.room = g.room)
      BY <1>3, <2>4 DEF QueueInv
    <3> QED BY <1>1, <2>4, <3>4, <3>5, <3>6 DEF QueueInv
  <2>5. CASE u # s
    BY <1>1, <1>2, <1>3, <2>3, <2>5, QueueKept
  <2> QED BY <2>4, <2>5
<1> QED
  BY <1>4, <1>5 DEF Resume, Resumed, roomFound, passwordCompared, Refuse

\* Nothing that a socket has said changes, and it comes into no room.
LEMMA QuietQueues ==
  ASSUME NEW u \in Socket, QueueInv(u),
         UNCHANGED <<connection, toServer, session, suspended>>,
         \A r \in RoomId : u \in Members(r)' => u \in Members(r)
  PROVE  QueueInv(u)'
<1>1. Typist(u) => Typist(u)'
  BY DEF Typist, SocketOf
<1> QED BY <1>1, QueueKept

LEMMA RoomQueues ==
  ASSUME TypeOK, NEW r \in RoomId, Close(r) \/ Outside(r), NEW u \in Socket, QueueInv(u)
  PROVE  QueueInv(u)'
<1>1. UNCHANGED <<connection, toServer, session, suspended>>
  BY DEF Close, Outside, Expiry, fire, forceCloseRoom, createRoom, timePasses, sweep, socketVars,
         sessionVars
<1>2. \A q \in RoomId : u \in Members(q)' => u \in Members(q)
  <2>1. CASE UNCHANGED participants
    BY <2>1 DEF Members
  <2>2. CASE forceCloseRoom(r)
    BY <2>2 DEF forceCloseRoom, Members, Nobody, TypeOK, ChatRoomsTypeOK
  <2> QED
    BY <2>1, <2>2 DEF Close, Outside, Expiry, fire, createRoom, timePasses, sweep
<1> QED BY <1>1, <1>2, QuietQueues


\* A page that reads neither says anything nor takes up or stops typing.
LEMMA ReadingOnly ==
  ASSUME TypeOK, NEW p \in Page, PageStep(p)
  PROVE  /\ UNCHANGED <<connection, toServer, suspended, participants>>
         /\ \A q \in Page \ {p} : session'[q] = session[q]
         /\ session'[p].isTyping = session[p].isTyping
<1> USE DEF TypeOK
<1>1. UNCHANGED <<connection, toServer, suspended, participants>>
  BY DEF PageStep, PageHandler, onJoinSuccess, onJoinError, onUserJoined, onUserLeft,
         onUserTyping, onNewMessage, onRoomClosed, Receive, roomVars
<1>2. CASE UNCHANGED session
  BY <1>1, <1>2
<1>3. CASE \E x : Become(p, x) /\ x.isTyping = session[p].isTyping
  BY <1>1, <1>3, SessionBecomes
<1>4. CASE PageHandler(p) /\ ~onNewMessage(p)
  <2>1. PICK y, z : /\ y = session[p]
                    /\ \/ z \in {[y EXCEPT !.phase = "joined", !.roster = Head(toPage[p]).participants],
                                 [y EXCEPT !.phase = "idle"],
                                 [y EXCEPT !.roster = @ \cup {Head(toPage[p]).name}],
                                 [y EXCEPT !.phase = "closed", !.room = None, !.name = None]}
                       \/ \E a, b : z = [y EXCEPT !.roster = a, !.typing = b]
                       \/ \E b : z = [y EXCEPT !.typing = b]
                    /\ Become(p, z)
    BY <1>4 DEF PageHandler, onJoinSuccess, onJoinError, onUserJoined, onUserLeft, onUserTyping,
                onRoomClosed
  <2>2. y \in Session
    BY <2>1, SessionFields
  <2>3. z.isTyping = y.isTyping
    BY <2>1, <2>2 DEF Session
  <2> QED BY <1>3, <2>1, <2>3
<1> QED BY <1>2, <1>4 DEF PageStep, PageHandler, onNewMessage

LEMMA PageQueues ==
  ASSUME TypeOK, NEW p \in Page, PageStep(p), NEW u \in Socket, QueueInv(u)
  PROVE  QueueInv(u)'
<1>1. Typist(u) => Typist(u)'
  <2>1. u[1] \in Page
    BY SocketFields
  <2> QED BY <2>1, ReadingOnly DEF Typist, SocketOf
<1>2. toServer'[u] = toServer[u] /\ UNCHANGED <<suspended, participants>>
  BY ReadingOnly
<1> QED BY <1>1, <1>2, QueueKept DEF Members

\* What the page p says on its socket is for its room, and it leaves when it has joined.
LEMMA SaysQueues ==
  ASSUME TypeOK, PresenceInv, NEW p \in Page, NEW ms \in Seq(ToServer), NEW x, Send(p, ms),
         Become(p, x), UNCHANGED <<connection, toPage, roomVars>>,
         \A m \in ToSet(ms) :
           /\ m.type \in {"TYPING", "LEAVE_ROOM"} => m.room = session[p].room
           /\ m.type = "LEAVE_ROOM" => session[p].phase = "joined",
         Towards(ms), Followed(ms, x.isTyping), session[p].isTyping => x.isTyping \/ Has(ms, Endings),
         NEW u \in Socket, QueueInv(u)
  PROVE  QueueInv(u)'
<1> USE DEF TypeOK
<1>1. /\ session'[p] = x /\ connection' = connection
      /\ toServer'[SocketOf(p)] = toServer[SocketOf(p)] \o ms
      /\ UNCHANGED <<suspended, participants>>
      /\ \A q \in Page \ {p} : session'[q] = session[q]
  BY SendStep, SessionBecomes DEF roomVars
<1>2. u[1] \in Page
  BY SocketFields
<1>3. CASE u # SocketOf(p)
  <2>1. toServer'[u] = toServer[u]
    BY <1>3 DEF Send, ChatRoomsTypeOK
  <2>2. Typist(u) => Typist(u)'
    BY <1>1, <1>2, <1>3 DEF Typist, SocketOf
  <2> QED BY <1>1, <2>1, <2>2, QueueKept DEF Members
<1>4. CASE u = SocketOf(p)
  <2>1. u[1] = p /\ u = SocketOf(p)'
    BY <1>1, <1>4 DEF SocketOf
  <2>2. (Typist(u) <=> session[p].isTyping) /\ (Typist(u)' <=> x.isTyping)
    BY <1>1, <1>4, <2>1 DEF Typist
  <2>3. PageInv(p)
    BY DEF PresenceInv
  <2>4. \A r \in RoomId : u \in Members(r) => session[p].room = r \/ Leaves(u, r)
    BY <1>4, <2>3 DEF PageInv
  <2>5. Waits(u) => session[p].phase = "joining"
    BY <1>4, <2>3 DEF PageInv
  <2>6. /\ \A h \in suspended : h.socket = u => h.room = session[p].room
        /\ \A a \in ToSet(toServer[u]) : a.type = "JOIN_ROOM" => a.room = session[p].room
    BY <1>4, <2>3 DEF PageInv
  <2>7. toServer'[u] = toServer[u] \o ms
    BY <1>1, <1>4
  <2>8. Followed(ms, Typist(u)') /\ (Typist(u) => Typist(u)' \/ Has(ms, Endings))
    BY <2>2 DEF Followed
  <2>9. /\ \A m \in ToSet(ms) : m.type = "LEAVE_ROOM" => ~Waits(u)
        /\ \A r \in RoomId : u \in Members(r) =>
           \/ \A m \in ToSet(ms) : m.type \in {"TYPING", "LEAVE_ROOM"} => m.room = r
           \/ Leaves(u, r)
        /\ \A m \in ToSet(ms) : m.type = "TYPING" =>
           /\ \A h \in suspended : h.socket = u => m.room = h.room
           /\ \A a \in ToSet(toServer[u]) : a.type = "JOIN_ROOM" => m.room = a.room
    BY <2>4, <2>5, <2>6
  <2> QED BY <1>1, <2>7, <2>8, <2>9, QueueSent
<1> QED BY <1>3, <1>4

\* What one message of a page says.
LEMMA ShortQueues ==
  /\ Towards(<<>>) /\ \A on : Followed(<<>>, on)
  /\ \A a : Towards(<<a>>) /\ \A on : (a.type = "TYPING" /\ a.isTyping => on) => Followed(<<a>>, on)
BY DEF Towards, Followed

\* What joinRoom and leaveRoom say: nothing about typing.
LEMMA JoinSays ==
  ASSUME TypeOK, NEW p \in Page, joinRoom(p) \/ leaveRoom(p)
  PROVE  \E x, ms :
           /\ ms \in Seq(ToServer)
           /\ Send(p, ms) /\ Become(p, x) /\ UNCHANGED <<connection, toPage, roomVars>>
           /\ x.isTyping = session[p].isTyping
           /\ \/ ms = <<>>
              \/ \E m : /\ ms = <<m>> /\ m.type \in {"JOIN_ROOM", "LEAVE_ROOM"}
                        /\ m.type = "LEAVE_ROOM" => session[p].phase = "joined" /\ m.room = session[p].room
<1> USE DEF TypeOK
<1>1. CASE joinRoom(p)
  <2>1. PICK r \in RoomId, n \in Name :
          LET x == [session[p] EXCEPT !.phase = "joining", !.room = r, !.name = n] IN
            Become(p, x) /\ Send(p, <<JoinRoom(x)>>)
    BY <1>1 DEF joinRoom
  <2>2. PICK x : x = [session[p] EXCEPT !.phase = "joining", !.room = r, !.name = n]
    OBVIOUS
  <2>3. x.isTyping = session[p].isTyping /\ x.room = r /\ x.name = n
    BY <2>2, SessionFields DEF Session
  <2>4. PICK m \in ToServer : m = JoinRoom(x) /\ m.type = "JOIN_ROOM"
    BY <2>3, ToServerMessages DEF JoinRoom
  <2>5. <<m>> \in Seq(ToServer)
    BY ShortSequences
  <2> QED BY <1>1, <2>1, <2>2, <2>3, <2>4, <2>5 DEF joinRoom
<1>2. CASE leaveRoom(p)
  <2>1. PICK x : x = [Fresh EXCEPT !.isTyping = session[p].isTyping]
    OBVIOUS
  <2>2. x.isTyping = session[p].isTyping
    BY <2>1 DEF Fresh
  <2>3. CASE session[p].room = None
    BY <1>2, <2>1, <2>2, <2>3, ShortSequences DEF leaveRoom
  <2>4. CASE session[p].room # None
    <3>1. PICK m \in ToServer : m = [type |-> "LEAVE_ROOM", room |-> session[p].room]
      BY <2>4, SessionFields, ToServerMessages
    <3>2. <<m>> \in Seq(ToServer) /\ m.type = "LEAVE_ROOM" /\ m.room = session[p].room
      BY <3>1, ShortSequences
    <3>3. Send(p, <<m>>) /\ Become(p, x) /\ UNCHANGED <<connection, toPage, roomVars>>
            /\ session[p].phase = "joined"
      BY <1>2, <2>1, <2>4, <3>1 DEF leaveRoom
    <3> QED BY <2>2, <3>2, <3>3
  <2> QED BY <2>3, <2>4
<1> QED BY <1>1, <1>2

LEMMA joinRoomQueues ==
  ASSUME TypeOK, PresenceInv, NEW p \in Page, joinRoom(p) \/ leaveRoom(p),
         NEW u \in Socket, QueueInv(u)
  PROVE  QueueInv(u)'
<1> USE DEF TypeOK
<1>1. PICK x, ms :
        /\ ms \in Seq(ToServer)
        /\ Send(p, ms) /\ Become(p, x) /\ UNCHANGED <<connection, toPage, roomVars>>
        /\ x.isTyping = session[p].isTyping
        /\ \/ ms = <<>>
           \/ \E m : /\ ms = <<m>> /\ m.type \in {"JOIN_ROOM", "LEAVE_ROOM"}
                     /\ m.type = "LEAVE_ROOM" => session[p].phase = "joined" /\ m.room = session[p].room
  BY JoinSays
<1>2. Towards(ms) /\ Followed(ms, x.isTyping)
  BY <1>1, ShortQueues
<1>3. \A m \in ToSet(ms) :
        /\ m.type \in {"TYPING", "LEAVE_ROOM"} => m.room = session[p].room
        /\ m.type = "LEAVE_ROOM" => session[p].phase = "joined"
  BY <1>1, SetNothing, SetOne
<1> QED BY <1>1, <1>2, <1>3, SaysQueues

\* What sendMessage, notifyTyping and typingTimerFires say.
LEMMA TypingSays ==
  ASSUME TypeOK, NEW p \in Page, sendMessage(p) \/ notifyTyping(p) \/ typingTimerFires(p)
  PROVE  \E x, ms :
           /\ ms \in Seq(ToServer)
           /\ Send(p, ms) /\ Become(p, x) /\ UNCHANGED <<connection, toPage, roomVars, interrupted>>
           /\ x.phase = session[p].phase /\ x.room = session[p].room /\ x.typing = session[p].typing
           /\ \A m \in ToSet(ms) :
                /\ m.type \in {"TYPING", "SEND_MESSAGE"}
                /\ m.type = "TYPING" => m.room = session[p].room
           /\ Towards(ms) /\ Followed(ms, x.isTyping)
           /\ session[p].isTyping => x.isTyping \/ Has(ms, Endings)
<1> USE DEF TypeOK
<1>1. CASE notifyTyping(p)
  <2>1. PICK x : x = [session[p] EXCEPT !.isTyping = TRUE, !.typingTimer = TRUE]
    OBVIOUS
  <2>2. /\ x.isTyping = TRUE /\ x.phase = session[p].phase /\ x.room = session[p].room
        /\ x.typing = session[p].typing
    BY <2>1, SessionFields DEF Session
  <2>3. PICK m \in ToServer : m = Typing(session[p], TRUE)
    BY <1>1, SessionFields, ToServerMessages DEF notifyTyping, Act, Typing
  <2>4. m.type = "TYPING" /\ m.room = session[p].room
    BY <2>3 DEF Typing
  <2>5. PICK ms \in Seq(ToServer) : ms \in {<<>>, <<m>>} /\ Send(p, ms)
    BY <1>1, <2>3, ShortSequences DEF notifyTyping
  <2>6. Towards(ms) /\ Followed(ms, TRUE)
    BY <2>5, ShortQueues
  <2>7. \A k \in ToSet(ms) : k = m
    BY <2>5, SetNothing, SetOne
  <2> QED BY <1>1, <2>1, <2>2, <2>4, <2>5, <2>6, <2>7 DEF notifyTyping, Act
<1>2. CASE sendMessage(p) \/ typingTimerFires(p)
  <2>1. PICK x : x = typingStopped(session[p]) /\ x = [session[p] EXCEPT !.typingTimer = FALSE,
                                                     !.isTyping = @ /\ session[p].room = None]
    BY DEF typingStopped
  <2>2. /\ x.isTyping = (session[p].isTyping /\ session[p].room = None)
        /\ x.phase = session[p].phase /\ x.room = session[p].room /\ x.typing = session[p].typing
    BY <2>1, SessionFields DEF Session
  <2>3. PICK m : m = Typing(session[p], FALSE)
    OBVIOUS
  <2>4. m.type = "TYPING" /\ m.room = session[p].room /\ m.isTyping = FALSE
    BY <2>3 DEF Typing
  <2>5. /\ StopTyping(session[p]) \in {<<>>, <<m>>} /\ StopTyping(session[p]) \in Seq(ToServer)
        /\ session[p].isTyping /\ session[p].room # None => StopTyping(session[p]) = <<m>>
    BY <2>3, SessionFields, StopTypingType DEF StopTyping
  <2>6. CASE typingTimerFires(p)
    <3>1. PICK ms \in Seq(ToServer) : ms = StopTyping(session[p])
      BY <2>5
    <3>2. Send(p, ms) /\ Become(p, x) /\ UNCHANGED <<connection, toPage, roomVars, interrupted>>
      BY <2>1, <2>6, <3>1 DEF typingTimerFires
    <3>3. Towards(ms) /\ Followed(ms, x.isTyping)
      BY <2>4, <2>5, <3>1, ShortQueues
    <3>4. \A k \in ToSet(ms) : k = m
      BY <2>5, <3>1, SetNothing, SetOne
    <3>5. session[p].isTyping => x.isTyping \/ Has(ms, Endings)
      <4>1. session[p].isTyping /\ session[p].room # None => m \in ToSet(ms)
        BY <2>5, <3>1, SetOne
      <4> QED BY <2>2, <2>4, <4>1, SessionFields DEF Has, Endings
    <3> QED BY <2>2, <2>4, <3>2, <3>3, <3>4, <3>5
  <2>7. CASE sendMessage(p)
    <3>1. PICK k \in ToServer : k = [type |-> "SEND_MESSAGE", room |-> session[p].room]
      BY <2>7, SessionFields, ToServerMessages DEF sendMessage, Act
    <3>2. PICK ms \in Seq(ToServer) : ms = <<k>> \o StopTyping(session[p])
      BY <2>5, ShortSequences
    <3>3. Send(p, ms) /\ Become(p, x) /\ UNCHANGED <<connection, toPage, roomVars, interrupted>>
      BY <2>1, <2>7, <3>1, <3>2 DEF sendMessage, Act
    <3>4. k.type = "SEND_MESSAGE"
      BY <3>1
    <3>5. PICK first, stop, on :
            first = <<k>> /\ stop = StopTyping(session[p]) /\ on = x.isTyping
      OBVIOUS
    <3>6. /\ first \in Seq(ToServer) /\ ToSet(first) = {k} /\ Towards(first) /\ Followed(first, on)
          /\ stop \in Seq(ToServer) /\ ToSet(stop) \subseteq {m} /\ Towards(stop)
          /\ Followed(stop, on) /\ ms = first \o stop
      BY <2>4, <2>5, <3>2, <3>4, <3>5, ShortSequences, ShortQueues, SetNothing, SetOne
    <3>7. Towards(ms) /\ Followed(ms, x.isTyping)
      <4>1. Towards(ms)
        BY <3>4, <3>6, TowardsMore
      <4>2. Followed(ms, on)
        BY <3>6, FollowedMore
      <4> QED BY <3>5, <4>1, <4>2
    <3>8. ToSet(ms) = {k} \cup ToSet(stop) /\ \A j \in ToSet(ms) : j \in {k, m}
      BY <3>6, SetConcat
    <3>9. session[p].isTyping => x.isTyping \/ Has(ms, Endings)
      <4>1. session[p].isTyping /\ session[p].room # None => m \in ToSet(ms)
        BY <2>5, <3>5, <3>8, SetOne
      <4> QED BY <2>2, <2>4, <4>1, SessionFields DEF Has, Endings
    <3> QED BY <2>2, <2>4, <3>3, <3>4, <3>7, <3>8, <3>9
  <2> QED BY <1>2, <2>6, <2>7
<1> QED BY <1>1, <1>2

LEMMA typingQueues ==
  ASSUME TypeOK, PresenceInv, NEW p \in Page,
         sendMessage(p) \/ notifyTyping(p) \/ typingTimerFires(p), NEW u \in Socket, QueueInv(u)
  PROVE  QueueInv(u)'
<1>1. PICK x, ms :
        /\ ms \in Seq(ToServer)
        /\ Send(p, ms) /\ Become(p, x) /\ UNCHANGED <<connection, toPage, roomVars, interrupted>>
        /\ \A m \in ToSet(ms) :
             /\ m.type \in {"TYPING", "SEND_MESSAGE"}
             /\ m.type = "TYPING" => m.room = session[p].room
        /\ Towards(ms) /\ Followed(ms, x.isTyping)
        /\ session[p].isTyping => x.isTyping \/ Has(ms, Endings)
  BY TypingSays
<1> QED BY <1>1, SaysQueues

\* A socket that has said no more than that it joins is in no room and waits for none.
LEMMA NewQueue ==
  ASSUME NEW u \in Socket, \A m \in ToSet(toServer'[u]) : m.type = "JOIN_ROOM",
         toServer'[u] \in Seq(ToServer),
         \A r \in RoomId : u \notin Members(r)', ~Waits(u)'
  PROVE  QueueInv(u)'
<1>1. \A i \in 1..Len(toServer'[u]) : toServer'[u][i].type = "JOIN_ROOM"
  BY DEF ToSet
<1> QED BY <1>1 DEF QueueInv, Followed, Towards, Waits

LEMMA ReconnectQueues ==
  ASSUME TypeOK, PresenceInv, NEW p \in Page, NEW ms \in Seq(ToServer), NEW x,
         NEW lost \in SUBSET (0..Len(toServer[SocketOf(p)])),
         Reconnect(p, lost, ms), Become(p, x), UNCHANGED roomVars,
         \A m \in ToSet(ms) : m.type = "JOIN_ROOM",
         NEW u \in Socket, QueueInv(u)
  PROVE  QueueInv(u)'
<1> USE DEF TypeOK
<1> PICK s : s = SocketOf(p)
  OBVIOUS
<1>1. /\ s \in Socket /\ toServer[s] \in Seq(ToServer) /\ s[1] = p /\ s[2] = connection[p]
      /\ connection[p] \in Nat
  BY CurrentSocket DEF SocketOf, ChatRoomsTypeOK
<1>2. PICK n \in lost :
        toServer' = [toServer EXCEPT
                       ![s] = SubSeq(@, 1, Len(@) - n) \o <<[type |-> "disconnect"]>>,
                       ![<<p, connection[p] + 1>>] = ms]
  BY DEF Reconnect
<1>3. connection' = [connection EXCEPT ![p] = @ + 1] /\ connection[p] < MaxConnections[p]
  BY DEF Reconnect
<1>4. PICK t : t = <<p, connection[p] + 1>>
  OBVIOUS
<1>5. t # s /\ t[1] = p /\ t[2] = connection[p] + 1
  BY <1>1, <1>4
<1>6. UNCHANGED <<suspended, participants>>
  BY DEF roomVars
<1>7. u[1] \in Page
  BY SocketFields
<1>8. CASE u = t
  <2>1. toServer'[u] = ms
    BY <1>1, <1>2, <1>4, <1>5, <1>8 DEF ChatRoomsTypeOK
  <2>2. ~Waits(u) /\ \A r \in RoomId : u \notin Members(r)
    <3>1. u[2] > connection[u[1]]
      BY <1>1, <1>5, <1>8
    <3> QED BY <3>1 DEF PresenceInv, SocketInv
  <2>3. ~Waits(u)' /\ \A r \in RoomId : u \notin Members(r)'
    BY <1>6, <2>2 DEF Waits, Members
  <2> QED BY <2>1, <2>3, NewQueue
<1>9. CASE u # t /\ u # s
  <2>1. toServer'[u] = toServer[u]
    BY <1>2, <1>4, <1>9 DEF ChatRoomsTypeOK
  <2>2. Typist(u) => Typist(u)'
    <3>1. Typist(u) => u[1] # p
      BY <1>9 DEF Typist
    <3>2. u[1] # p => session'[u[1]] = session[u[1]] /\ connection'[u[1]] = connection[u[1]]
      BY <1>3, <1>7, SessionBecomes DEF ChatRoomsTypeOK
    <3> QED BY <3>1, <3>2 DEF Typist, SocketOf
  <2> QED BY <1>6, <2>1, <2>2, QueueKept DEF Members
<1>10. CASE u = s
  <2>1. PICK m \in ToServer : m = [type |-> "disconnect"]
    BY ToServerMessages
  <2>2. PICK q : q = SubSeq(toServer[s], 1, Len(toServer[s]) - n)
    OBVIOUS
  <2>3. toServer'[s] = q \o <<m>>
    BY <1>1, <1>2, <1>4, <1>5, <2>1, <2>2 DEF ChatRoomsTypeOK
  <2>4. /\ q \in Seq(ToServer) /\ ToSet(q) \subseteq ToSet(toServer[s])
        /\ \A r : Aimed(toServer[s], r) => Aimed(q, r)
        /\ Towards(toServer[s]) => Towards(q)
    <3>1. PICK k \in 0..Len(toServer[s]) : k = Len(toServer[s]) - n
      <4>1. n \in 0..Len(toServer[s]) /\ Len(toServer[s]) \in Nat
        BY <1>1, <1>2
      <4>2. \A l \in Nat : \A i \in 0..l : l - i \in 0..l
        OBVIOUS
      <4> QED BY <4>1, <4>2
    <3>2. Apart(toServer[s], {}, {})
      BY DEF Apart
    <3> QED BY <1>1, <2>2, <3>1, <3>2, Prefix, PrefixAims, PrefixApart
  <2>5. <<m>> \in Seq(ToServer) /\ ToSet(<<m>>) = {m} /\ m.type = "disconnect"
    BY <2>1, ShortSequences, SetOne
  <2>6. Followed(q \o <<m>>, Typist(u)')
    <3> PICK now : now = Typist(u)'
      OBVIOUS
    <3> QED BY <2>4, <2>5, FollowedOver
  <2>7. ASSUME NEW r \in RoomId, u \in Members(r)' PROVE Aimed(q \o <<m>>, r)
    <3>1. Aimed(q, r)
      BY <1>6, <1>10, <2>4, <2>7 DEF QueueInv, Members
    <3>2. PICK more : more = <<m>>
      OBVIOUS
    <3>3. \A k \in ToSet(more) : k.type \in {"TYPING", "LEAVE_ROOM"} => k.room = r
      BY <2>5, <3>2
    <3> QED BY <2>4, <2>5, <3>1, <3>2, <3>3, AimedMore
  <2>8. ToSet(q \o <<m>>) = ToSet(q) \cup {m}
    BY <2>4, SetMore
  <2>9. Towards(q \o <<m>>)
    <3>1. Towards(q)
      BY <1>10, <2>4 DEF QueueInv
    <3>2. PICK more : more = <<m>>
      OBVIOUS
    <3>3. Towards(more) /\ \A b \in ToSet(more) : b.type # "TYPING"
      BY <2>5, <3>2, ShortQueues
    <3> QED BY <2>4, <2>5, <3>1, <3>2, <3>3, TowardsMore
  <2>10. ASSUME NEW h \in suspended', h.socket = u, NEW k \in ToSet(q \o <<m>>)
         PROVE  k.type # "LEAVE_ROOM" /\ (k.type = "TYPING" => k.room = h.room)
    BY <1>6, <1>10, <2>4, <2>5, <2>8, <2>10 DEF QueueInv
  <2> QED BY <1>10, <2>3, <2>6, <2>7, <2>9, <2>10 DEF QueueInv
<1> QED BY <1>8, <1>9, <1>10


LEMMA UserQueues ==
  ASSUME TypeOK, PresenceInv, NEW p \in Page, UserStep(p), NEW u \in Socket, QueueInv(u)
  PROVE  QueueInv(u)'
<1> USE DEF TypeOK
<1>1. CASE pageLeft(p)
  <2>1. PICK lost : lost = {0} /\ lost \in SUBSET (0..Len(toServer[SocketOf(p)]))
    <3>1. Len(toServer[SocketOf(p)]) \in Nat
      BY CurrentSocket
    <3>2. \A l \in Nat : {0} \in SUBSET (0..l)
      OBVIOUS
    <3> QED BY <3>1, <3>2
  <2>2. PICK ms : ms = <<>> /\ ms \in Seq(ToServer)
    BY ShortSequences
  <2>3. Reconnect(p, lost, ms) /\ Become(p, Fresh) /\ UNCHANGED roomVars
    BY <1>1, <2>1, <2>2 DEF pageLeft
  <2>4. \A m \in ToSet(ms) : m.type = "JOIN_ROOM"
    BY <2>2, SetNothing
  <2> QED BY <2>1, <2>2, <2>3, <2>4, ReconnectQueues
<1>2. CASE connectionLost(p)
  <2>1. PICK lost : /\ lost = 0..Len(toServer[SocketOf(p)])
                    /\ lost \in SUBSET (0..Len(toServer[SocketOf(p)]))
    OBVIOUS
  <2>2. PICK ms : ms = Rejoin(session[p]) /\ ms \in Seq(ToServer)
    BY RejoinType
  <2>3. Reconnect(p, lost, ms) /\ Become(p, onConnect(session[p])) /\ UNCHANGED roomVars
    BY <1>2, <2>1, <2>2 DEF connectionLost
  <2>4. \A m \in ToSet(ms) : m.type = "JOIN_ROOM"
    BY <2>2, RejoinAgain DEF Again
  <2> QED BY <2>1, <2>2, <2>3, <2>4, ReconnectQueues
<1> QED BY <1>1, <1>2, joinRoomQueues, typingQueues DEF UserStep

LEMMA restartQueues ==
  ASSUME TypeOK, restart, NEW u \in Socket
  PROVE  QueueInv(u)'
<1> USE DEF TypeOK
<1>1. u[1] \in Page
  BY SocketFields
<1>2. toServer'[u] \in {<<>>, Rejoin(session[u[1]])}
  BY DEF restart
<1>3. toServer'[u] \in Seq(ToServer) /\ \A m \in ToSet(toServer'[u]) : m.type = "JOIN_ROOM"
  BY <1>1, <1>2, RejoinType, RejoinAgain, ShortSequences, SetNothing DEF Again
<1>4. ~Waits(u)' /\ \A r \in RoomId : u \notin Members(r)'
  BY DEF restart, Waits, Members, Nobody
<1> QED BY <1>3, <1>4, NewQueue

LEMMA QueueStep ==
  ASSUME TypeOK, PresenceInv, [Next]_vars, NEW u \in Socket, QueueInv(u)
  PROVE  QueueInv(u)'
<1>1. CASE UNCHANGED vars
  BY <1>1, QuietQueues DEF vars, socketVars, roomVars, sessionVars, Members
<1>2. CASE Next
  BY <1>2, PageQueues, UserQueues, ServerQueues, ResumeQueues, RoomQueues, restartQueues DEF Next
<1> QED BY <1>1, <1>2


LEMMA EndingsMentioned ==
  ASSUME NEW S, NEW q \in Seq(S)
  PROVE  Has(q, Endings) <=> \E type \in {"TYPING", "LEAVE_ROOM", "disconnect"} : Mentions(q, type)
BY MentionsHas DEF Has, Endings

LEMMA TypesKept ==
  ASSUME TypeOK, TypeOK', NEW t \in Socket, Types(t),
         Typist(t) => Typist(t)' \/ Has(toServer'[t], Endings),
         Has(toServer[t], Endings) => Has(toServer'[t], Endings)
  PROVE  Types(t)'
<1>1. toServer[t] \in Seq(ToServer) /\ toServer'[t] \in Seq(ToServer)
  BY DEF TypeOK, ChatRoomsTypeOK
<1>2. PICK q, now : q = toServer[t] /\ now = toServer'[t]
  OBVIOUS
<1>3. /\ Has(q, Endings) <=> \E type \in {"TYPING", "LEAVE_ROOM", "disconnect"} : Mentions(q, type)
      /\ Has(now, Endings) <=> \E type \in {"TYPING", "LEAVE_ROOM", "disconnect"} : Mentions(now, type)
  BY <1>1, <1>2, EndingsMentioned
<1>4. Types(t) <=> Typist(t) \/ Has(q, Endings)
  BY <1>2, <1>3 DEF Types, Typist
<1>5. Types(t)' <=> Typist(t)' \/ Has(now, Endings)
  BY <1>2, <1>3 DEF Types, Typist
<1> QED BY <1>2, <1>4, <1>5

\* The server reads a message that is no end, or one of another socket.
LEMMA ServerTypes ==
  ASSUME TypeOK, TypeOK', NEW s \in Socket, NEW type, Request(s, type), UNCHANGED session,
         NEW t \in Socket, Types(t), t # s \/ type \notin Endings
  PROVE  Types(t)'
<1>1. Typist(t) => Typist(t)'
  BY DEF Request, Typist, SocketOf
<1>2. Has(toServer[t], Endings) => Has(toServer'[t], Endings)
  <2>1. CASE t # s
    BY <2>1 DEF Request, TypeOK, ChatRoomsTypeOK
  <2>2. CASE t = s
    <3>1. /\ Head(toServer[s]).type = type
          /\ ToSet(toServer[s]) = {Head(toServer[s])} \cup ToSet(toServer'[s])
      BY RequestQueue DEF TypeOK
    <3> QED BY <2>2, <3>1 DEF Has
  <2> QED BY <2>1, <2>2
<1> QED BY <1>1, <1>2, TypesKept

LEMMA SameTypes ==
  ASSUME UNCHANGED <<connection, toServer, session>>, NEW t
  PROVE  Types(t)' <=> Types(t)
BY DEF Types, SocketOf, Mentions

\* What a page is sent leaves what it will show right: news that is not about typing, as
\* long as whoever types stays and types; or that somebody stops; or that somebody types.
LEMMA TypingSent ==
  ASSUME TypeOK, NEW p \in Page, TypingInv(p), UNCHANGED <<connection, session, interrupted>>,
         NEW ms \in Seq(ToPage), toPage'[p] = toPage[p] \o ms, ~Has(ms, {"JOIN_SUCCESS"}),
         NEW s, s = SocketOf(p), NEW r, r = session[p].room,
         Active(p) => (s \in Members(r)' => s \in Members(r)),
         Hears(p) /\ s \in Members(r)' => \A n \in Name :
           \/ /\ \A m \in ToSet(ms) : ~Turns(m, n)
              /\ \A t \in Members(r) : t # s /\ participants[r][t] = n /\ Types(t) =>
                   t \in Members(r)' /\ participants'[r][t] = n /\ Types(t)'
           \/ ms # <<>> /\ \A m \in ToSet(ms) : Turns(m, n) /\ ~TurnsOn(m)
           \/ TypesIn(r, s, n)'
  PROVE  TypingInv(p)'
<1>1. toPage[p] \in Seq(ToPage) /\ session'[p] = session[p] /\ s = SocketOf(p)'
  BY DEF TypeOK, ChatRoomsTypeOK, SocketOf
<1>2. ToSet(toPage'[p]) = ToSet(toPage[p]) \cup ToSet(ms)
  BY <1>1, SetConcat
<1> SUFFICES ASSUME Hears(p)', NEW n \in Name, Shown(toPage'[p], session[p].typing, n)
             PROVE  TypesIn(r, s, n)'
  BY <1>1 DEF TypingInv
<1> PICK q, typing : q = toPage[p] /\ typing = session[p].typing
  OBVIOUS
<1>3. Shown(q \o ms, typing, n)
  OBVIOUS
<1>4. Hears(p) /\ s \in Members(r)'
  <2>1. Apart(q \o ms, {"USER_TYPING"}, {"JOIN_SUCCESS"}) /\ s \in Members(r)'
    BY <1>1 DEF Hears
  <2>2. Apart(q, {"USER_TYPING"}, {"JOIN_SUCCESS"})
    BY <1>1, <2>1, ApartPart
  <2>3. Active(p)
    BY <1>1, <1>2 DEF Hears, Active, Has
  <2> QED BY <1>1, <2>1, <2>2, <2>3 DEF Hears
<1>5. CASE /\ \A m \in ToSet(ms) : ~Turns(m, n)
           /\ \A t \in Members(r) : t # s /\ participants[r][t] = n /\ Types(t) =>
                t \in Members(r)' /\ participants'[r][t] = n /\ Types(t)'
  <2>1. Shown(q, typing, n)
    BY <1>1, <1>3, <1>5, ShownStill
  <2>2. TypesIn(r, s, n)
    BY <1>4, <2>1 DEF TypingInv
  <2> QED BY <1>5, <2>2 DEF TypesIn
<1>6. CASE ms # <<>> /\ \A m \in ToSet(ms) : Turns(m, n) /\ ~TurnsOn(m)
  BY <1>1, <1>3, <1>6, ShownNot
<1> QED BY <1>4, <1>5, <1>6

\* A step that is about no typing, in which nobody comes or goes that the page sees.
LEMMA TypingQuiet ==
  ASSUME TypeOK, NEW p \in Page, TypingInv(p), UNCHANGED <<connection, session, interrupted>>,
         \/ toPage'[p] = toPage[p]
         \/ \E m \in ToPage : /\ toPage'[p] = toPage[p] \o <<m>>
                              /\ m.type \notin {"JOIN_SUCCESS", "USER_TYPING", "USER_LEFT"},
         NEW s, s = SocketOf(p), NEW r, r = session[p].room,
         Active(p) => (s \in Members(r)' => s \in Members(r)),
         Hears(p) /\ s \in Members(r)' =>
           \A t \in Members(r) : t # s /\ Types(t) =>
             t \in Members(r)' /\ participants'[r][t] = participants[r][t] /\ Types(t)'
  PROVE  TypingInv(p)'
<1>1. PICK ms \in Seq(ToPage) : /\ toPage'[p] = toPage[p] \o ms
                               /\ \A m \in ToSet(ms) :
                                    m.type \notin {"JOIN_SUCCESS", "USER_TYPING", "USER_LEFT"}
  <2>1. CASE toPage'[p] = toPage[p]
    <3>1. toPage'[p] = toPage[p] \o <<>> /\ <<>> \in Seq(ToPage)
      BY <2>1, ShortSequences DEF TypeOK, ChatRoomsTypeOK
    <3> QED BY <3>1, SetNothing
  <2>2. CASE toPage'[p] # toPage[p]
    <3>1. PICK m \in ToPage : /\ toPage'[p] = toPage[p] \o <<m>>
                             /\ m.type \notin {"JOIN_SUCCESS", "USER_TYPING", "USER_LEFT"}
      BY <2>2
    <3>2. PICK ms : ms = <<m>>
      OBVIOUS
    <3>3. ToSet(ms) = {m} /\ ms \in Seq(ToPage)
      BY <3>2, SetOne, ShortSequences
    <3> QED BY <3>1, <3>2, <3>3
  <2> QED BY <2>1, <2>2
<1>2. ~Has(ms, {"JOIN_SUCCESS"}) /\ \A n : \A m \in ToSet(ms) : ~Turns(m, n)
  BY <1>1 DEF Has, Turns
<1>3. Hears(p) /\ s \in Members(r)' => \A n \in Name :
        /\ \A m \in ToSet(ms) : ~Turns(m, n)
        /\ \A t \in Members(r) : t # s /\ participants[r][t] = n /\ Types(t) =>
             t \in Members(r)' /\ participants'[r][t] = n /\ Types(t)'
  BY <1>2
<1> QED BY <1>1, <1>2, <1>3, TypingSent


\* Whoever hears that the socket u types knows it to be in its room; u types on, or says more.
LEMMA broadcastTypingShown ==
  ASSUME TypeOK, TypeOK', PresenceInv, NEW u \in Socket, broadcastTyping(u),
         UNCHANGED <<session, interrupted>>, QueueInv(u), NEW p \in Page, TypingInv(p)
  PROVE  TypingInv(p)'
<1> USE DEF TypeOK
<1>1. PICK s \in Socket : s = SocketOf(p)
  BY CurrentSocket
<1>2. PICK k \in ToServer : k = Head(toServer[u]) /\ k.type = "TYPING"
  BY RequestType DEF broadcastTyping
<1>3. PICK room \in RoomId : room = k.room /\ k.isTyping \in BOOLEAN
  BY <1>2, ToServerFields
<1>4. Request(u, "TYPING") /\ UNCHANGED <<connection, participants>>
  BY DEF broadcastTyping, Request, roomVars
<1>5. PICK r : r = session[p].room
  OBVIOUS
<1>6. \A t \in Members(r) : t # u /\ Types(t) => Types(t)'
  BY <1>4, ServerTypes DEF Members
<1>7. CASE toPage'[p] = toPage[p] /\ (u \notin Members(r) \/ u = s)
  <2>1. \A t \in Members(r) : t # s /\ Types(t) =>
          t \in Members(r)' /\ participants'[r][t] = participants[r][t] /\ Types(t)'
    BY <1>4, <1>6, <1>7 DEF Members
  <2>2. s \in Members(r)' => s \in Members(r)
    BY <1>4 DEF Members
  <2> QED BY <1>1, <1>4, <1>5, <1>7, <2>1, <2>2, TypingQuiet
<1>8. CASE ~Hears(p)
  <2>1. \/ toPage'[p] = toPage[p]
        \/ \E m \in ToPage : toPage'[p] = toPage[p] \o <<m>> /\ m.type = "USER_TYPING"
    <3>1. PICK m : m = [type |-> "USER_TYPING", isTyping |-> k.isTyping,
                        name |-> participants[room][u]]
      OBVIOUS
    <3>2. CASE u \in Members(room)
      <4>1. m \in ToPage /\ m.type = "USER_TYPING"
        BY <1>3, <3>1, <3>2, MemberName, ToPageMessages
      <4>2. PICK sockets : sockets = Members(room) \ {u}
        OBVIOUS
      <4>3. Emit(To(sockets, m))
        BY <1>2, <1>3, <3>1, <3>2, <4>2 DEF broadcastTyping
      <4> QED BY <4>1, <4>3, EmitOne, EmitNone
    <3>3. CASE u \notin Members(room)
      BY <1>2, <1>3, <3>3 DEF broadcastTyping
    <3> QED BY <3>2, <3>3
  <2>2. PICK ms \in Seq(ToPage) : toPage'[p] = toPage[p] \o ms /\ ~Has(ms, {"JOIN_SUCCESS"})
    <3>1. CASE toPage'[p] = toPage[p]
      <4>1. toPage'[p] = toPage[p] \o <<>> /\ <<>> \in Seq(ToPage)
        BY <3>1, ShortSequences DEF ChatRoomsTypeOK
      <4> QED BY <4>1, SetNothing DEF Has
    <3>2. CASE toPage'[p] # toPage[p]
      <4>1. PICK m \in ToPage : toPage'[p] = toPage[p] \o <<m>> /\ m.type = "USER_TYPING"
        BY <2>1, <3>2
      <4> QED BY <4>1, ShortSequences, SetOne DEF Has
    <3> QED BY <3>1, <3>2
  <2>3. s \in Members(r)' => s \in Members(r)
    BY <1>4 DEF Members
  <2> QED BY <1>1, <1>4, <1>5, <1>8, <2>2, <2>3, TypingSent
<1>9. CASE Hears(p) /\ ~(toPage'[p] = toPage[p] /\ (u \notin Members(r) \/ u = s))
  <2>1. s \in Members(r) /\ r \in RoomId
    BY <1>1, <1>5, <1>9, SessionFields DEF Hears, PresenceInv, PageInv
  <2>2. \A q \in RoomId : s \in Members(q) => q = r
    BY <2>1 DEF PresenceInv, SocketInv
  <2>3. u \in Members(r) => room = r
    <3> SUFFICES ASSUME u \in Members(r) PROVE room = r
      OBVIOUS
    <3>1. Aimed(toServer[u], r)
      BY <2>1 DEF QueueInv
    <3>2. toServer[u] \in Seq(ToServer) /\ toServer[u] # <<>>
      BY <1>4 DEF ChatRoomsTypeOK, Request
    <3> QED BY <1>2, <1>3, <3>1, <3>2, AimedTail
  <2>4. PICK m : m = [type |-> "USER_TYPING", isTyping |-> k.isTyping, name |-> participants[room][u]]
    OBVIOUS
  <2>5. PICK sockets : sockets = Members(room) \ {u}
    OBVIOUS
  <2>6. CASE u \in Members(room)
    <3>1. Emit(To(sockets, m))
      BY <1>2, <1>3, <2>4, <2>5, <2>6 DEF broadcastTyping
    <3>2. s \in sockets
      <4>1. CASE toPage'[p] # toPage[p]
        BY <1>1, <3>1, <4>1, EmitNone
      <4>2. CASE toPage'[p] = toPage[p]
        <5>1. u \in Members(r) /\ u # s
          BY <1>9, <4>2
        <5> QED BY <2>1, <2>3, <2>5, <5>1
      <4> QED BY <4>1, <4>2
    <3>3. room = r /\ u # s /\ toPage'[p] = toPage[p] \o <<m>>
      BY <1>1, <2>2, <2>5, <3>1, <3>2, EmitOne
    <3>4. m \in ToPage /\ m.type = "USER_TYPING" /\ m.isTyping = k.isTyping
            /\ m.name = participants[r][u]
      BY <1>3, <2>4, <2>6, <3>3, MemberName, ToPageMessages
    <3>5. PICK ms : ms = <<m>>
      OBVIOUS
    <3>6. ms \in Seq(ToPage) /\ ms # <<>> /\ ToSet(ms) = {m} /\ toPage'[p] = toPage[p] \o ms
      BY <3>3, <3>4, <3>5, ShortSequences, SetOne
    <3>7. ASSUME k.isTyping PROVE Types(u)'
      <4>1. Followed(toServer[u], Typist(u))
        BY DEF QueueInv
      <4>2. PICK on : on = Typist(u)
        OBVIOUS
      <4>3. toServer[u] \in Seq(ToServer) /\ toServer[u] # <<>> /\ toServer'[u] = Tail(toServer[u])
        BY <1>4 DEF ChatRoomsTypeOK, Request
      <4>4. Typist(u) \/ Has(toServer'[u], Endings)
        BY <1>2, <3>7, <4>1, <4>2, <4>3, FollowedTail
      <4>5. Typist(u) => Typist(u)'
        BY <1>4 DEF Typist, SocketOf
      <4>6. toServer'[u] \in Seq(ToServer)
        BY <4>3, HeadTail
      <4>7. PICK now : now = toServer'[u]
        OBVIOUS
      <4>8. Has(now, Endings) => \E type \in {"TYPING", "LEAVE_ROOM", "disconnect"} : Mentions(now, type)
        BY <4>6, <4>7, EndingsMentioned
      <4> QED BY <4>4, <4>5, <4>7, <4>8 DEF Types, Typist
    <3>8. ASSUME NEW n \in Name
          PROVE  \/ /\ \A j \in ToSet(ms) : ~Turns(j, n)
                    /\ \A t \in Members(r) : t # s /\ participants[r][t] = n /\ Types(t) =>
                         t \in Members(r)' /\ participants'[r][t] = n /\ Types(t)'
                 \/ ms # <<>> /\ \A j \in ToSet(ms) : Turns(j, n) /\ ~TurnsOn(j)
                 \/ TypesIn(r, s, n)'
      <4>1. CASE n # m.name
        <5>1. \A j \in ToSet(ms) : ~Turns(j, n)
          BY <3>6, <4>1 DEF Turns
        <5>2. \A t \in Members(r) : participants[r][t] = n => t # u
          BY <3>4, <4>1
        <5> QED BY <1>4, <1>6, <5>1, <5>2 DEF Members
      <4>2. CASE n = m.name /\ k.isTyping
        <5>1. Types(u)' /\ u \in Members(r)' /\ participants'[r][u] = n
          BY <1>4, <2>6, <3>3, <3>4, <3>7, <4>2 DEF Members
        <5> QED BY <3>3, <5>1 DEF TypesIn
      <4>3. CASE n = m.name /\ ~k.isTyping
        BY <3>4, <3>6, <4>3 DEF Turns, TurnsOn
      <4> QED BY <4>1, <4>2, <4>3
    <3>9. ~Has(ms, {"JOIN_SUCCESS"})
      BY <3>4, <3>6 DEF Has
    <3>10. s \in Members(r)' => s \in Members(r)
      BY <2>1
    <3> QED BY <1>1, <1>4, <1>5, <3>6, <3>8, <3>9, <3>10, TypingSent
  <2>7. CASE u \notin Members(room)
    <3>1. UNCHANGED toPage
      BY <1>2, <1>3, <2>7 DEF broadcastTyping
    <3>2. u \notin Members(r)
      BY <2>3, <2>7
    <3> QED BY <1>9, <3>1, <3>2
  <2> QED BY <2>6, <2>7
<1> QED BY <1>7, <1>8, <1>9

\* Whoever leaves is no longer shown; whoever stays types on.
LEMMA removeShown ==
  ASSUME TypeOK, TypeOK', PresenceInv, NEW u \in Socket, NEW from \in SUBSET RoomId,
         removeParticipant(u, from), NEW type, Request(u, type), UNCHANGED <<session, interrupted>>,
         \A q \in RoomId : u \in Members(q) => q \in from, NEW p \in Page, TypingInv(p)
  PROVE  TypingInv(p)'
<1> USE DEF TypeOK
<1>1. PICK s \in Socket : s = SocketOf(p)
  BY CurrentSocket
<1>2. PICK ms : ms = SetToSeq(Goodbyes(s, u, from))
  OBVIOUS
<1>3. toPage'[p] = toPage[p] \o ms
  <2>1. PICK f : f = [v \in Socket |-> SetToSeq(Goodbyes(v, u, from))]
    OBVIOUS
  <2>2. f[s] = ms
    BY <1>2, <2>1
  <2>3. Emit(f)
    BY <2>1, removeParticipantEmits
  <2> QED BY <1>1, <2>2, <2>3 DEF Emit
<1>4. /\ ms \in Seq(Goodbyes(s, u, from)) /\ ms \in Seq(ToPage)
      /\ \A m \in Goodbyes(s, u, from) : \E i \in 1..Len(ms) : ms[i] = m
  BY <1>2, GoodbyesFinite, SetToSeqElements, SeqMonotonic
<1>5. ToSet(ms) \subseteq Goodbyes(s, u, from)
  BY <1>4 DEF ToSet
<1>6. ~Has(ms, {"JOIN_SUCCESS"})
  BY <1>5 DEF Has, Goodbyes
<1>7. \A q \in RoomId :
        /\ Members(q)' = IF q \in from THEN Members(q) \ {u} ELSE Members(q)
        /\ \A v \in Members(q)' : participants'[q][v] = participants[q][v]
  BY RemoveMembers
<1>8. UNCHANGED connection
  BY DEF Request
<1>9. PICK r : r = session[p].room
  OBVIOUS
<1>10. r \in RoomId \cup {None}
  BY <1>9, SessionFields
<1>11. ASSUME Hears(p), s \in Members(r)', NEW n \in Name
       PROVE  \/ /\ \A m \in ToSet(ms) : ~Turns(m, n)
                 /\ \A t \in Members(r) : t # s /\ participants[r][t] = n /\ Types(t) =>
                      t \in Members(r)' /\ participants'[r][t] = n /\ Types(t)'
              \/ ms # <<>> /\ \A m \in ToSet(ms) : Turns(m, n) /\ ~TurnsOn(m)
  <2>1. r \in RoomId
    BY <1>9, <1>10, <1>11 DEF Hears, PresenceInv, PageInv
  <2>2. s \in Members(r) /\ \A q \in RoomId : s \in Members(q) => q = r
    BY <1>7, <1>11, <2>1 DEF PresenceInv, SocketInv
  <2>3. ASSUME NEW t \in Members(r), t # u, Types(t)
        PROVE  t \in Members(r)' /\ participants'[r][t] = participants[r][t] /\ Types(t)'
    <3>1. t \in Members(r)' /\ participants'[r][t] = participants[r][t]
      BY <1>7, <2>1, <2>3
    <3> QED BY <2>3, <3>1, ServerTypes DEF Members
  <2>4. CASE u \in Members(r)
    <3>1. u # s /\ r \in from
      BY <1>7, <1>11, <2>1, <2>4
    <3>2. PICK m : m = [type |-> "USER_LEFT", name |-> participants[r][u]]
      OBVIOUS
    <3>3. Goodbyes(s, u, from) = {m}
      BY <2>1, <2>2, <2>4, <3>1, <3>2 DEF Goodbyes
    <3>4. ms # <<>>
      BY <1>4, <3>3
    <3>5. CASE n = participants[r][u]
      BY <1>5, <3>2, <3>3, <3>4, <3>5 DEF Turns, TurnsOn
    <3>6. CASE n # participants[r][u]
      <4>1. \A k \in ToSet(ms) : ~Turns(k, n)
        BY <1>5, <3>2, <3>3, <3>6 DEF Turns
      <4> QED BY <2>3, <3>6, <4>1
    <3> QED BY <3>5, <3>6
  <2>5. CASE u \notin Members(r)
    <3>1. Goodbyes(s, u, from) = {}
      BY <2>2, <2>5 DEF Goodbyes
    <3>2. ToSet(ms) = {}
      BY <1>5, <3>1
    <3> QED BY <2>3, <2>5, <3>2
  <2> QED BY <2>4, <2>5
<1>12. Active(p) => (s \in Members(r)' => s \in Members(r))
  <2>1. Active(p) => r \in RoomId
    BY <1>9, <1>10 DEF PresenceInv, PageInv
  <2> QED BY <1>7, <2>1
<1>13. Hears(p) /\ s \in Members(r)' => \A n \in Name :
         \/ /\ \A m \in ToSet(ms) : ~Turns(m, n)
            /\ \A t \in Members(r) : t # s /\ participants[r][t] = n /\ Types(t) =>
                 t \in Members(r)' /\ participants'[r][t] = n /\ Types(t)'
         \/ ms # <<>> /\ \A m \in ToSet(ms) : Turns(m, n) /\ ~TurnsOn(m)
         \/ TypesIn(r, s, n)'
  BY <1>11
<1> QED BY <1>1, <1>3, <1>4, <1>6, <1>8, <1>9, <1>12, <1>13, TypingSent


\* A page tells when its user stops typing.
LEMMA SaysTypes ==
  ASSUME TypeOK, TypeOK', NEW p \in Page, NEW ms \in Seq(ToServer), NEW x, Send(p, ms),
         Become(p, x), UNCHANGED connection, session[p].isTyping => x.isTyping \/ Has(ms, Endings),
         NEW t \in Socket, Types(t)
  PROVE  Types(t)'
<1> USE DEF TypeOK
<1>1. session'[p] = x /\ \A q \in Page \ {p} : session'[q] = session[q]
  BY SessionBecomes
<1>2. t[1] \in Page
  BY SocketFields
<1>3. SocketOf(p) \in Socket /\ toServer[SocketOf(p)] \in Seq(ToServer)
  BY CurrentSocket
<1>4. CASE t # SocketOf(p)
  <2>1. toServer'[t] = toServer[t]
    BY <1>4 DEF Send, ChatRoomsTypeOK
  <2>2. Typist(t) => Typist(t)'
    BY <1>1, <1>2, <1>4 DEF Typist, SocketOf
  <2> QED BY <2>1, <2>2, TypesKept
<1>5. CASE t = SocketOf(p)
  <2>1. toServer'[t] = toServer[t] \o ms
    BY <1>3, <1>5 DEF Send, ChatRoomsTypeOK
  <2>2. ToSet(toServer'[t]) = ToSet(toServer[t]) \cup ToSet(ms)
    BY <1>3, <1>5, <2>1, SetConcat
  <2>3. t[1] = p /\ t = SocketOf(p)'
    BY <1>5 DEF SocketOf
  <2>4. Typist(t) => Typist(t)' \/ Has(ms, Endings)
    BY <1>1, <2>3 DEF Typist
  <2> QED BY <2>2, <2>4, TypesKept DEF Has
<1> QED BY <1>4, <1>5

\* A socket that a page gives up ends with its disconnect.
LEMMA ReconnectTypes ==
  ASSUME TypeOK, TypeOK', PresenceInv, NEW p \in Page, NEW ms, NEW x,
         NEW lost \in SUBSET (0..Len(toServer[SocketOf(p)])),
         Reconnect(p, lost, ms), Become(p, x), NEW t \in Socket, Types(t)
  PROVE  Types(t)'
<1> USE DEF TypeOK
<1> PICK s : s = SocketOf(p)
  OBVIOUS
<1>1. /\ s \in Socket /\ toServer[s] \in Seq(ToServer) /\ s[1] = p /\ s[2] = connection[p]
      /\ connection[p] \in Nat
  BY CurrentSocket DEF SocketOf, ChatRoomsTypeOK
<1>2. PICK n \in lost :
        toServer' = [toServer EXCEPT
                       ![s] = SubSeq(@, 1, Len(@) - n) \o <<[type |-> "disconnect"]>>,
                       ![<<p, connection[p] + 1>>] = ms]
  BY DEF Reconnect
<1>3. connection' = [connection EXCEPT ![p] = @ + 1]
  BY DEF Reconnect
<1>4. PICK new : new = <<p, connection[p] + 1>>
  OBVIOUS
<1>5. new # s /\ new[1] = p /\ new[2] = connection[p] + 1
  BY <1>1, <1>4
<1>6. t[1] \in Page
  BY SocketFields
<1>7. CASE t = new
  <2>1. t[2] > connection[t[1]] /\ t # SocketOf(t[1])
    BY <1>1, <1>5, <1>7
  <2>2. toServer[t] = <<>>
    BY <2>1 DEF PresenceInv, SocketInv
  <2> QED BY <2>1, <2>2 DEF Types, Mentions
<1>8. CASE t # new /\ t # s
  <2>1. toServer'[t] = toServer[t]
    BY <1>2, <1>4, <1>8 DEF ChatRoomsTypeOK
  <2>2. Typist(t) => Typist(t)'
    <3>1. Typist(t) => t[1] # p
      BY <1>8 DEF Typist
    <3>2. t[1] # p => session'[t[1]] = session[t[1]] /\ connection'[t[1]] = connection[t[1]]
      BY <1>3, <1>6, SessionBecomes DEF ChatRoomsTypeOK
    <3> QED BY <3>1, <3>2 DEF Typist, SocketOf
  <2> QED BY <2>1, <2>2, TypesKept
<1>9. CASE t = s
  <2>1. PICK m \in ToServer : m = [type |-> "disconnect"] /\ m.type = "disconnect"
    BY ToServerMessages
  <2>2. PICK q : q = SubSeq(toServer[s], 1, Len(toServer[s]) - n)
    OBVIOUS
  <2>3. toServer'[s] = q \o <<m>>
    BY <1>1, <1>2, <1>4, <1>5, <2>1, <2>2 DEF ChatRoomsTypeOK
  <2>4. q \in Seq(ToServer)
    <3>1. PICK k \in 0..Len(toServer[s]) : k = Len(toServer[s]) - n
      <4>1. n \in 0..Len(toServer[s]) /\ Len(toServer[s]) \in Nat
        BY <1>1, <1>2
      <4>2. \A l \in Nat : \A i \in 0..l : l - i \in 0..l
        OBVIOUS
      <4> QED BY <4>1, <4>2
    <3> QED BY <1>1, <2>2, <3>1, Prefix
  <2>5. ToSet(q \o <<m>>) = ToSet(q) \cup {m}
    BY <2>4, SetMore
  <2>6. Has(toServer'[t], Endings)
    BY <1>9, <2>1, <2>3, <2>5 DEF Has, Endings
  <2> QED BY <2>6, TypesKept
<1> QED BY <1>7, <1>8, <1>9

\* Whoever types goes on, or has yet to tell that it stops, whatever the pages do.
LEMMA UserTypes ==
  ASSUME TypeOK, TypeOK', PresenceInv, NEW p \in Page, PageStep(p) \/ UserStep(p),
         NEW t \in Socket, Types(t)
  PROVE  Types(t)'
<1>1. CASE PageStep(p)
  <2>1. Typist(t) => Typist(t)'
    <3>1. t[1] \in Page
      BY SocketFields
    <3> QED BY <1>1, <3>1, ReadingOnly DEF Typist, SocketOf
  <2> QED BY <1>1, <2>1, ReadingOnly, TypesKept
<1>2. CASE joinRoom(p) \/ leaveRoom(p)
  <2>1. PICK x, ms :
          /\ ms \in Seq(ToServer)
          /\ Send(p, ms) /\ Become(p, x) /\ UNCHANGED connection /\ x.isTyping = session[p].isTyping
    BY <1>2, JoinSays
  <2> QED BY <2>1, SaysTypes
<1>3. CASE sendMessage(p) \/ notifyTyping(p) \/ typingTimerFires(p)
  <2>1. PICK x, ms :
          /\ ms \in Seq(ToServer)
          /\ Send(p, ms) /\ Become(p, x) /\ UNCHANGED connection
          /\ session[p].isTyping => x.isTyping \/ Has(ms, Endings)
    BY <1>3, TypingSays
  <2> QED BY <2>1, SaysTypes
<1>4. CASE pageLeft(p)
  <2>1. PICK lost : lost = {0} /\ lost \in SUBSET (0..Len(toServer[SocketOf(p)]))
    <3>1. Len(toServer[SocketOf(p)]) \in Nat
      BY CurrentSocket DEF TypeOK
    <3>2. \A l \in Nat : {0} \in SUBSET (0..l)
      OBVIOUS
    <3> QED BY <3>1, <3>2
  <2>2. PICK ms : ms = <<>>
    OBVIOUS
  <2>3. Reconnect(p, lost, ms) /\ Become(p, Fresh)
    BY <1>4, <2>1, <2>2 DEF pageLeft
  <2> QED BY <2>1, <2>3, ReconnectTypes
<1>5. CASE connectionLost(p)
  <2>1. PICK lost : /\ lost = 0..Len(toServer[SocketOf(p)])
                    /\ lost \in SUBSET (0..Len(toServer[SocketOf(p)]))
    OBVIOUS
  <2>2. PICK ms : ms = Rejoin(session[p])
    OBVIOUS
  <2>3. Reconnect(p, lost, ms) /\ Become(p, onConnect(session[p]))
    BY <1>5, <2>1, <2>2 DEF connectionLost
  <2> QED BY <2>1, <2>3, ReconnectTypes
<1> QED BY <1>1, <1>2, <1>3, <1>4, <1>5 DEF UserStep


\* A handler that leaves the rooms alone and tells of nobody that it types or is gone.
LEMMA newsTyping ==
  ASSUME TypeOK, TypeOK', PresenceInv, NEW u \in Socket, handleJoinRoom(u) \/ handleSendMessage(u),
         UNCHANGED <<session, interrupted>>, NEW p \in Page, TypingInv(p)
  PROVE  TypingInv(p)'
<1> USE DEF TypeOK
<1>1. UNCHANGED <<connection, participants>>
  BY DEF handleJoinRoom, handleSendMessage, Request, roomVars
<1>2. PICK type \in {"JOIN_ROOM", "SEND_MESSAGE"} : Request(u, type)
  BY DEF handleJoinRoom, handleSendMessage
<1>3. \A t \in Socket : Types(t) => Types(t)'
  BY <1>2, ServerTypes DEF Endings
<1>4. \/ toPage'[p] = toPage[p]
      \/ \E m \in ToPage : /\ toPage'[p] = toPage[p] \o <<m>>
                           /\ m.type \notin {"JOIN_SUCCESS", "USER_TYPING", "USER_LEFT"}
  <2>1. CASE UNCHANGED toPage
    BY <2>1
  <2>2. CASE handleSendMessage(u) /\ ~UNCHANGED toPage
    <3>1. PICK r \in RoomId : r = Head(toServer[u]).room
      BY <2>2, RequestType, ToServerFields DEF handleSendMessage
    <3>2. u \in Members(r)
            /\ Emit(To(Members(r), [type |-> "NEW_MESSAGE", name |-> participants[r][u]]))
      BY <2>2, <3>1 DEF handleSendMessage
    <3>3. PICK m \in ToPage : m = [type |-> "NEW_MESSAGE", name |-> participants[r][u]]
      BY <3>2, MemberName, ToPageMessages
    <3>4. PICK sockets : sockets = Members(r)
      OBVIOUS
    <3> QED BY <3>2, <3>3, <3>4, EmitOne, EmitNone
  <2> QED BY <2>1, <2>2 DEF handleJoinRoom
<1>5. PICK s, r : s = SocketOf(p) /\ r = session[p].room
  OBVIOUS
<1>6. s \in Members(r)' => s \in Members(r)
  BY <1>1 DEF Members
<1>7. \A t \in Members(r) : t # s /\ Types(t) =>
        t \in Members(r)' /\ participants'[r][t] = participants[r][t] /\ Types(t)'
  BY <1>1, <1>3 DEF Members
<1> QED BY <1>1, <1>4, <1>5, <1>6, <1>7, TypingQuiet

LEMMA ServerTyping ==
  ASSUME TypeOK, TypeOK', PresenceInv, NEW u \in Socket, ServerStep(u), QueueInv(u),
         NEW p \in Page, TypingInv(p)
  PROVE  TypingInv(p)'
<1> USE DEF TypeOK
<1>1. UNCHANGED <<session, interrupted>>
  BY DEF ServerStep, sessionVars
<1>2. CASE handleJoinRoom(u) \/ handleSendMessage(u)
  BY <1>1, <1>2, newsTyping
<1>3. CASE broadcastTyping(u)
  BY <1>1, <1>3, broadcastTypingShown
<1>4. CASE handleLeaveRoom(u)
  <2>1. PICK k \in ToServer : k = Head(toServer[u]) /\ k.type = "LEAVE_ROOM"
    BY <1>4, RequestType DEF handleLeaveRoom
  <2>2. PICK room \in RoomId : room = k.room
    BY <2>1, ToServerFields
  <2>3. PICK from \in SUBSET RoomId : from = {room}
    OBVIOUS
  <2>4. Request(u, "LEAVE_ROOM") /\ removeParticipant(u, from)
    BY <1>4, <2>1, <2>2, <2>3 DEF handleLeaveRoom
  <2>5. ASSUME NEW q \in RoomId, u \in Members(q) PROVE q \in from
    <3>1. Aimed(toServer[u], q)
      BY <2>5 DEF QueueInv
    <3>2. toServer[u] \in Seq(ToServer) /\ toServer[u] # <<>>
      BY <2>4 DEF ChatRoomsTypeOK, Request
    <3> QED BY <2>1, <2>2, <2>3, <3>1, <3>2, AimedTail
  <2> QED BY <1>1, <2>4, <2>5, removeShown
<1>5. CASE handleDisconnect(u)
  <2>1. PICK from \in SUBSET RoomId : from = RoomId
    OBVIOUS
  <2>2. Request(u, "disconnect") /\ removeParticipant(u, from)
    BY <1>5, <2>1 DEF handleDisconnect
  <2> QED BY <1>1, <2>1, <2>2, removeShown
<1> QED BY <1>2, <1>3, <1>4, <1>5 DEF ServerStep, Handler

\* Whoever is let in has heard nobody type since it left its last room, or is interrupted.
LEMMA admitTyping ==
  ASSUME TypeOK, PresenceInv, NEW h \in suspended, admit(h), UNCHANGED <<session, interrupted>>,
         NEW p \in Page, TypingInv(p)
  PROVE  TypingInv(p)'
<1> USE DEF TypeOK
<1>1. PICK s \in Socket, t \in Socket : s = h.socket /\ t = SocketOf(p) /\ t = SocketOf(p)'
  BY SuspendedFields, CurrentSocket DEF admit, SocketOf
<1>2. PICK r \in RoomId : r = h.room
  BY SuspendedFields
<1>3. /\ participants' \in [RoomId -> [Socket -> Name \cup {None}]]
      /\ Members(r)' = Members(r) \cup {s}
      /\ \A q \in RoomId \ {r} : participants'[q] = participants[q]
      /\ participants'[r][s] = h.name
      /\ \A u \in Socket \ {s} : participants'[r][u] = participants[r][u]
      /\ UNCHANGED <<connection, toServer>>
  BY ZenonT(60), <1>1, <1>2, AdmitMembers DEF admit
<1>4. Waits(s) /\ \A q \in RoomId : s \notin Members(q) /\ Members(q) \subseteq Socket
  BY <1>1 DEF PresenceInv, SocketInv, Members, Waits
<1>5. PICK names : names = {participants'[r][v] : v \in Members(r)'}
  OBVIOUS
<1>6. PICK a, b : /\ a = [type |-> "JOIN_SUCCESS", room |-> r, participants |-> names]
                  /\ b = [type |-> "USER_JOINED", name |-> h.name]
  OBVIOUS
<1>7. Emit(Then(To({s}, a), To((Members(r) \cup {s}) \ {s}, b)))
  <2>1. \A u \in Members(r) \cup {s} :
          participants'[r][u] = [participants[r] EXCEPT ![s] = h.name][u]
    BY <1>1, <1>2, <1>3, <1>4 DEF admit, ChatRoomsTypeOK
  <2>2. names = {[participants[r] EXCEPT ![s] = h.name][u] : u \in Members(r) \cup {s}}
    BY <1>3, <1>5, <2>1
  <2> QED BY <1>1, <1>2, <1>6, <2>2 DEF admit
<1>8. PICK others : others = (Members(r) \cup {s}) \ {s}
  OBVIOUS
<1>9. toPage'[p] = toPage[p] \o (To({s}, a)[t] \o To(others, b)[t])
  BY <1>1, <1>7, <1>8 DEF Emit, Then
<1>10. /\ toPage[p] \in Seq(ToPage) /\ session'[p] = session[p]
       /\ session[p].room \in RoomId \cup {None}
  BY SessionFields DEF ChatRoomsTypeOK
<1>11. a \in ToPage /\ b \in ToPage /\ a.type = "JOIN_SUCCESS" /\ b.type = "USER_JOINED"
  <2>1. names \in SUBSET Name
    BY <1>3, <1>5 DEF Members
  <2> QED BY <1>6, <2>1, SuspendedFields, ToPageMessages
<1>12. CASE t = s
  <2>1. toPage'[p] = toPage[p] \o <<a>>
    <3>1. To({s}, a)[t] = <<a>> /\ To(others, b)[t] = <<>>
      BY <1>8, <1>12 DEF To
    <3>2. <<a>> \o <<>> = <<a>>
      OBVIOUS
    <3> QED BY <1>9, <3>1, <3>2
  <2>2. session[p].phase = "joining"
    BY <1>1, <1>4, <1>12 DEF PresenceInv, PageInv
  <2>3. PICK q, ms : q = toPage[p] /\ ms = <<a>>
    OBVIOUS
  <2>4. /\ q \in Seq(ToPage) /\ ms \in Seq(ToPage) /\ ToSet(ms) = {a} /\ toPage'[p] = q \o ms
        /\ q \o ms \in Seq(ToPage)
    BY <1>10, <1>11, <2>1, <2>3, ShortSequences, SetOne
  <2>5. ToSet(q \o ms) = ToSet(q) \cup {a}
    BY <2>4, SetConcat
  <2>6. ASSUME Hears(p)', NEW n \in Name, Shown(q \o ms, session[p].typing, n) PROVE FALSE
    <3>1. Apart(q \o ms, {"USER_TYPING"}, {"JOIN_SUCCESS"}) /\ p \notin interrupted
      BY <2>4, <2>6 DEF Hears
    <3>2. ~Has(q, {"USER_TYPING"})
      BY <1>11, <2>4, <3>1, ApartPart DEF Has
    <3>3. n \notin session[p].typing
      BY <2>2, <3>1 DEF TypingInv
    <3>4. PICK typing : typing = session[p].typing
      OBVIOUS
    <3>5. Has(q \o ms, {"USER_TYPING"})
      BY <2>4, <2>6, <3>3, <3>4, ShownOn
    <3> QED BY <1>11, <2>5, <3>2, <3>5 DEF Has
  <2> QED BY <1>10, <2>4, <2>6 DEF TypingInv
<1>13. CASE t # s
  <2>1. \/ toPage'[p] = toPage[p]
        \/ toPage'[p] = toPage[p] \o <<b>>
    <3>1. To({s}, a)[t] = <<>> /\ To(others, b)[t] \in {<<>>, <<b>>}
      BY <1>8, <1>13 DEF To
    <3>2. <<>> \o <<b>> = <<b>> /\ <<>> \o <<>> = <<>> /\ \A q \in Seq(ToPage) : q \o <<>> = q
      OBVIOUS
    <3> QED BY <1>9, <1>10, <3>1, <3>2
  <2>2. PICK room : room = session[p].room
    OBVIOUS
  <2>3. Active(p) => room \in RoomId
    BY <1>10, <2>2 DEF PresenceInv, PageInv
  <2>4. \A q \in RoomId : t \in Members(q)' => t \in Members(q)
    BY <1>3, <1>13 DEF Members
  <2>5. \A v \in Socket : Types(v) => Types(v)'
    BY <1>3, SameTypes
  <2>6. \A q \in RoomId : \A v \in Members(q) :
          v \in Members(q)' /\ participants'[q][v] = participants[q][v]
    BY <1>3, <1>4 DEF Members
  <2>7. Hears(p) /\ t \in Members(room)' =>
          \A v \in Members(room) : v # t /\ Types(v) =>
            v \in Members(room)' /\ participants'[room][v] = participants[room][v] /\ Types(v)'
    BY <1>4, <2>3, <2>5, <2>6 DEF Hears
  <2>8. Active(p) => (t \in Members(room)' => t \in Members(room))
    BY <2>3, <2>4
  <2>9. \/ toPage'[p] = toPage[p]
        \/ \E m \in ToPage : /\ toPage'[p] = toPage[p] \o <<m>>
                             /\ m.type \notin {"JOIN_SUCCESS", "USER_TYPING", "USER_LEFT"}
    BY <1>11, <2>1
  <2> QED BY <1>1, <1>3, <2>2, <2>7, <2>8, <2>9, TypingQuiet
<1> QED BY <1>12, <1>13


\* A step that the page does not see, and in which whoever types goes on.
LEMMA TypingSame ==
  ASSUME NEW p \in Page, TypingInv(p), connection'[p] = connection[p], toPage'[p] = toPage[p],
         session'[p].phase = session[p].phase, session'[p].room = session[p].room,
         session'[p].typing = session[p].typing, p \in interrupted' <=> p \in interrupted,
         UNCHANGED participants, \A t \in Socket : Types(t) => Types(t)'
  PROVE  TypingInv(p)'
<1>1. /\ Hears(p)' <=> Hears(p)
      /\ SocketOf(p)' = SocketOf(p)
      /\ \A r : Members(r)' = Members(r)
  BY DEF Hears, Active, SocketOf, Members
<1>2. PICK s, r : s = SocketOf(p) /\ r = session[p].room
  OBVIOUS
<1>3. \A n : TypesIn(r, s, n) => TypesIn(r, s, n)'
  BY <1>1 DEF TypesIn, Members
<1>4. Hears(p) => \A n \in Name : Shown(toPage[p], session[p].typing, n) => TypesIn(r, s, n)'
  BY <1>2, <1>3 DEF TypingInv
<1> QED BY <1>1, <1>2, <1>4 DEF TypingInv

LEMMA ResumeTyping ==
  ASSUME TypeOK, PresenceInv, NEW h \in suspended, Resume(h), NEW p \in Page, TypingInv(p)
  PROVE  TypingInv(p)'
<1>1. UNCHANGED <<session, interrupted>>
  BY DEF Resume, sessionVars
<1>2. CASE \E reason \in {"NAME_TAKEN", "other"} : Refuse(h, reason)
  <2>1. PICK reason \in {"NAME_TAKEN", "other"} : Refuse(h, reason)
    BY <1>2
  <2>2. PICK m \in ToPage : m = [type |-> "JOIN_ERROR", reason |-> reason]
    BY ToPageMessages
  <2>3. Emit(To({h.socket}, m)) /\ UNCHANGED <<connection, toServer, participants>>
    BY <2>1, <2>2 DEF Refuse
  <2>4. toPage'[p] = toPage[p] \/ toPage'[p] = toPage[p] \o <<m>>
    BY <2>3, EmitOne, EmitNone DEF TypeOK
  <2>5. \A r : Members(r)' = Members(r)
    BY <2>3 DEF Members
  <2>6. PICK t, q : t = SocketOf(p) /\ q = session[p].room
    OBVIOUS
  <2>7. \A v \in Members(q) : v # t /\ Types(v) =>
          v \in Members(q)' /\ participants'[q][v] = participants[q][v] /\ Types(v)'
    BY <1>1, <2>3, <2>5, SameTypes
  <2> QED BY <1>1, <2>2, <2>3, <2>4, <2>5, <2>6, <2>7, TypingQuiet
<1>3. CASE admit(h)
  BY <1>1, <1>3, admitTyping
<1>4. CASE UNCHANGED <<connection, toPage, toServer, participants>>
  BY <1>1, <1>4, SameTypes, TypingSame
<1> QED
  BY <1>2, <1>3, <1>4 DEF Resume, Resumed, roomFound, passwordCompared, socketVars

LEMMA forceCloseRoomTyping ==
  ASSUME TypeOK, NEW r \in RoomId, forceCloseRoom(r), UNCHANGED <<session, interrupted>>,
         NEW p \in Page, TypingInv(p)
  PROVE  TypingInv(p)'
<1> USE DEF TypeOK
<1>1. PICK m \in ToPage : m = [type |-> "ROOM_CLOSED"]
  BY ToPageMessages
<1>2. Emit(To(Members(r), m)) /\ UNCHANGED <<connection, toServer>>
  BY <1>1 DEF forceCloseRoom
<1>3. PICK s, q : s = SocketOf(p) /\ q = session[p].room
  OBVIOUS
<1>4. s \in Members(q)' =>
        /\ s \in Members(q)
        /\ \A t \in Members(q) : t # s /\ Types(t) =>
             t \in Members(q)' /\ participants'[q][t] = participants[q][t] /\ Types(t)'
  <2>1. CASE q = r
    BY <2>1 DEF forceCloseRoom, ChatRoomsTypeOK, Members, Nobody
  <2>2. CASE q # r
    <3>1. participants'[q] = participants[q]
      BY <2>2 DEF forceCloseRoom
    <3>2. \A t \in Socket : Types(t) => Types(t)'
      BY <1>2, SameTypes
    <3> QED BY <3>1, <3>2 DEF Members
  <2> QED BY <2>1, <2>2
<1>5. PICK sockets : sockets = Members(r)
  OBVIOUS
<1>6. toPage'[p] = toPage[p] \/ toPage'[p] = toPage[p] \o <<m>>
  BY <1>2, <1>5, EmitOne, EmitNone
<1> QED BY <1>1, <1>2, <1>3, <1>4, <1>6, TypingQuiet

\* A page reads a message; what USER_TYPING and USER_LEFT say is what it shows.
LEMMA ReadTyping ==
  ASSUME TypeOK, NEW p \in Page, TypingInv(p), NEW type, Receive(p, type), NEW x,
         session'[p] = x, x.room = session[p].room, interrupted \subseteq interrupted',
         Active(p)' => Active(p),
         type = "USER_TYPING" /\ p \notin interrupted' => ~Has(toPage'[p], {"JOIN_SUCCESS"}),
         p \notin interrupted' /\ x.phase # "joined" => x.typing = {},
         \A n \in Name :
           IF Turns(Head(toPage[p]), n) THEN n \in x.typing => TurnsOn(Head(toPage[p]))
           ELSE n \in x.typing => n \in session[p].typing,
         \A t \in Socket : Types(t) => Types(t)'
  PROVE  TypingInv(p)'
<1>1. /\ toPage[p] \in Seq(ToPage) /\ toPage[p] # <<>> /\ toPage'[p] = Tail(toPage[p])
      /\ Head(toPage[p]).type = type /\ UNCHANGED <<connection, participants>>
  BY DEF TypeOK, Receive, ChatRoomsTypeOK, roomVars
<1>2. PICK s, r : s = SocketOf(p) /\ r = session[p].room
  OBVIOUS
<1>3. s = SocketOf(p)' /\ session'[p].room = r /\ \A q : Members(q)' = Members(q)
  BY <1>1, <1>2 DEF SocketOf, Members
<1> SUFFICES ASSUME Hears(p)', NEW n \in Name, Shown(Tail(toPage[p]), x.typing, n)
             PROVE  TypesIn(r, s, n)'
  BY <1>1, <1>3 DEF TypingInv
<1>4. PICK q, heard, typing : q = toPage[p] /\ heard = x.typing /\ typing = session[p].typing
  OBVIOUS
<1>5. Hears(p)
  <2>1. Apart(Tail(q), {"USER_TYPING"}, {"JOIN_SUCCESS"}) /\ p \notin interrupted'
          /\ Active(p)' /\ s \in Members(r)
    BY <1>1, <1>2, <1>3, <1>4 DEF Hears
  <2>2. Apart(q, {"USER_TYPING"}, {"JOIN_SUCCESS"})
    BY <1>1, <1>4, <2>1, ApartCons
  <2> QED BY <1>2, <1>4, <2>1, <2>2 DEF Hears
<1>6. Shown(q, typing, n)
  BY <1>1, <1>4, ShownTail
<1>7. TypesIn(r, s, n)
  BY <1>2, <1>4, <1>5, <1>6 DEF TypingInv
<1> QED BY <1>1, <1>3, <1>7 DEF TypesIn, Members


LEMMA PageTyping ==
  ASSUME TypeOK, TypeOK', PresenceInv, NEW p \in Page, PageStep(p), TypingInv(p)
  PROVE  TypingInv(p)'
<1> USE DEF TypeOK
<1> PICK m : m = Head(toPage[p])
  OBVIOUS
<1>1. \A t \in Socket : Types(t) => Types(t)'
  BY UserTypes
<1>2. ASSUME NEW type, Receive(p, type), session'[p].phase = session[p].phase
      PROVE  Active(p)' => Active(p)
  <2>1. ToSet(toPage'[p]) \subseteq ToSet(toPage[p])
    BY <1>2, SetTail DEF Receive, ChatRoomsTypeOK
  <2> QED BY <1>2, <2>1 DEF Active, Has
<1>3. CASE onJoinSuccess(p)
  <2>1. PICK x : x = [session[p] EXCEPT !.phase = "joined", !.roster = m.participants]
    OBVIOUS
  <2>2. x.room = session[p].room /\ x.phase = "joined" /\ x.typing = session[p].typing
    BY <2>1, SessionFields DEF Session
  <2>3. Receive(p, "JOIN_SUCCESS") /\ session'[p] = x /\ m.type = "JOIN_SUCCESS"
    BY <1>3, <2>1, SessionBecomes, ReceiveType DEF onJoinSuccess
  <2>4. Active(p)
    <3>1. ToSet(toPage[p]) = {m} \cup ToSet(Tail(toPage[p]))
      BY <2>3, SetTail DEF Receive, ChatRoomsTypeOK
    <3> QED BY <2>3, <3>1 DEF Active, Has
  <2>5. interrupted \subseteq interrupted'
    BY <1>3 DEF onJoinSuccess
  <2> QED BY <1>1, <2>2, <2>3, <2>4, <2>5, ReadTyping DEF Turns
<1>4. CASE onUserJoined(p) \/ onNewMessage(p)
  <2>1. PICK x, type :
          /\ Receive(p, type) /\ session'[p] = x /\ x.room = session[p].room
          /\ x.phase = session[p].phase /\ x.typing = session[p].typing
          /\ type \in {"USER_JOINED", "NEW_MESSAGE"}
    <3>1. CASE onUserJoined(p)
      <4>1. PICK x : x = [session[p] EXCEPT !.roster = @ \cup {m.name}]
        OBVIOUS
      <4>2. /\ x.room = session[p].room /\ x.phase = session[p].phase
            /\ x.typing = session[p].typing
        BY <4>1, SessionFields DEF Session
      <4> QED BY <3>1, <4>1, <4>2, SessionBecomes DEF onUserJoined
    <3>2. CASE onNewMessage(p)
      BY <3>2 DEF onNewMessage
    <3> QED BY <1>4, <3>1, <3>2
  <2>2. m.type = type /\ interrupted \subseteq interrupted'
    BY <1>4, <2>1, ReceiveType DEF onUserJoined, onNewMessage
  <2>3. p \notin interrupted' /\ x.phase # "joined" => x.typing = {}
    BY <2>1, <2>2 DEF TypingInv
  <2>4. Active(p)' => Active(p)
    BY <1>2, <2>1
  <2> QED BY <1>1, <2>1, <2>2, <2>3, <2>4, ReadTyping DEF Turns
<1>5. CASE onUserLeft(p)
  <2>1. PICK x : x = [session[p] EXCEPT !.roster = @ \ {m.name}, !.typing = @ \ {m.name}]
    OBVIOUS
  <2>2. /\ x.room = session[p].room /\ x.phase = session[p].phase
        /\ x.typing = session[p].typing \ {m.name}
    BY <2>1, SessionFields DEF Session
  <2>3. Receive(p, "USER_LEFT") /\ session'[p] = x /\ m.type = "USER_LEFT"
    BY <1>5, <2>1, SessionBecomes, ReceiveType DEF onUserLeft
  <2>4. interrupted \subseteq interrupted'
    BY <1>5 DEF onUserLeft
  <2>5. p \notin interrupted' /\ x.phase # "joined" => x.typing = {}
    BY <2>2, <2>4 DEF TypingInv
  <2>6. Active(p)' => Active(p)
    BY <1>2, <2>2, <2>3
  <2> QED BY <1>1, <2>2, <2>3, <2>4, <2>5, <2>6, ReadTyping DEF Turns
<1>6. CASE onUserTyping(p)
  <2>1. PICK names : /\ names = IF m.isTyping THEN session[p].typing \cup {m.name}
                                ELSE session[p].typing \ {m.name}
                     /\ Become(p, [session[p] EXCEPT !.typing = names])
    BY <1>6 DEF onUserTyping
  <2>2. PICK x : x = [session[p] EXCEPT !.typing = names]
    OBVIOUS
  <2>3. x.room = session[p].room /\ x.phase = session[p].phase /\ x.typing = names
    BY <2>2, SessionFields DEF Session
  <2>4. Receive(p, "USER_TYPING") /\ session'[p] = x /\ m.type = "USER_TYPING"
    BY <1>6, <2>1, <2>2, SessionBecomes, ReceiveType DEF onUserTyping
  <2>5. interrupted \subseteq interrupted' /\ (p \notin interrupted' => x.phase = "joined")
    BY <1>6, <2>3 DEF onUserTyping
  <2>6. p \notin interrupted' => ~Has(toPage'[p], {"JOIN_SUCCESS"})
    <3>1. ToSet(toPage'[p]) \subseteq ToSet(toPage[p])
      BY <2>4, SetTail DEF Receive, ChatRoomsTypeOK
    <3>2. session[p].phase = "joined" => ~Has(toPage[p], Answers)
      BY DEF PresenceInv, PageInv
    <3> QED BY <2>3, <2>5, <3>1, <3>2 DEF Has, Answers
  <2>7. Active(p)' => Active(p)
    BY <1>2, <2>3, <2>4
  <2>8. ASSUME NEW n \in Name
        PROVE  IF Turns(m, n) THEN n \in x.typing => TurnsOn(m)
               ELSE n \in x.typing => n \in session[p].typing
    BY <2>1, <2>3, <2>4 DEF Turns, TurnsOn
  <2> QED BY <1>1, <2>3, <2>4, <2>5, <2>6, <2>7, <2>8, ReadTyping
<1>7. CASE onJoinError(p)
  <2>1. PICK x : x = [session[p] EXCEPT !.phase = "idle"]
    OBVIOUS
  <2>2. x.phase = "idle" /\ x.typing = session[p].typing
    BY <2>1, SessionFields DEF Session
  <2>3. Receive(p, "JOIN_ERROR") /\ session'[p] = x /\ m.type = "JOIN_ERROR"
    BY <1>7, <2>1, SessionBecomes, ReceiveType DEF onJoinError
  <2>4. ~Has(toPage'[p], Answers) /\ Has(toPage[p], Answers)
    <3>1. Apart(toPage[p], Answers, Answers)
      BY DEF PresenceInv, PageInv
    <3>2. ToSet(toPage[p]) = {m} \cup ToSet(Tail(toPage[p]))
      BY <2>3, SetTail DEF Receive, ChatRoomsTypeOK
    <3>3. ~Has(toPage'[p], Answers)
      BY <2>3, <3>1, ApartTail DEF Receive, ChatRoomsTypeOK, Answers
    <3> QED BY <2>3, <3>2, <3>3 DEF Has, Answers
  <2>5. session[p].phase = "joining"
    BY <2>4 DEF PresenceInv, PageInv
  <2>6. p \notin interrupted' => x.typing = {}
    BY <1>7, <2>2, <2>5 DEF TypingInv, onJoinError
  <2>7. ~Active(p)'
    BY <2>2, <2>3, <2>4 DEF Active, Has, Answers
  <2> QED BY <2>3, <2>6, <2>7 DEF TypingInv, Hears
<1>8. CASE onRoomClosed(p)
  BY <1>8 DEF onRoomClosed, TypingInv, Hears
<1> QED BY <1>3, <1>4, <1>5, <1>6, <1>7, <1>8 DEF PageStep, PageHandler

\* A page that joins another room shows nobody typing, or has been interrupted.
LEMMA UserTyping ==
  ASSUME TypeOK, TypeOK', PresenceInv, NEW p \in Page, UserStep(p), TypingInv(p)
  PROVE  TypingInv(p)'
<1> USE DEF TypeOK
<1>1. CASE joinRoom(p)
  <2>1. PICK r \in RoomId, n \in Name :
          Become(p, [session[p] EXCEPT !.phase = "joining", !.room = r, !.name = n])
    BY <1>1 DEF joinRoom
  <2>2. PICK x : x = [session[p] EXCEPT !.phase = "joining", !.room = r, !.name = n]
    OBVIOUS
  <2>3. /\ x.phase = "joining" /\ x.typing = session[p].typing /\ session'[p] = x
        /\ toPage'[p] = toPage[p] /\ UNCHANGED interrupted /\ session[p].phase # "joined"
    BY <1>1, <2>1, <2>2, SessionFields, SessionBecomes DEF Session, joinRoom
  <2>4. ~Has(toPage[p], {"JOIN_SUCCESS"})
    BY <1>1 DEF joinRoom, PresenceInv, PageInv, Has, Answers
  <2> QED BY <2>3, <2>4 DEF TypingInv, Hears, Active
<1>2. CASE leaveRoom(p)
  <2>1. PICK x : x = [Fresh EXCEPT !.isTyping = session[p].isTyping]
    OBVIOUS
  <2>2. x.phase = "idle" /\ x.typing = {}
    BY <2>1 DEF Fresh
  <2>3. session'[p] = x /\ toPage'[p] = toPage[p]
    BY <1>2, <2>1, SessionBecomes DEF leaveRoom
  <2>4. ~Has(toPage[p], {"JOIN_SUCCESS"})
    BY <1>2 DEF leaveRoom, PresenceInv, PageInv, Has, Answers
  <2> QED BY <2>2, <2>3, <2>4 DEF TypingInv, Hears, Active
<1>3. CASE sendMessage(p) \/ notifyTyping(p) \/ typingTimerFires(p)
  <2>1. PICK x, ms :
          /\ Become(p, x) /\ UNCHANGED <<connection, toPage, roomVars, interrupted>>
          /\ x.phase = session[p].phase /\ x.room = session[p].room /\ x.typing = session[p].typing
    BY <1>3, TypingSays
  <2>2. \A t \in Socket : Types(t) => Types(t)'
    BY UserTypes
  <2> QED BY <2>1, <2>2, SessionBecomes, TypingSame DEF roomVars
<1>4. CASE pageLeft(p)
  <2>1. toPage'[p] = <<>> /\ session'[p] = Fresh
    BY <1>4, SessionBecomes DEF pageLeft, Reconnect, ChatRoomsTypeOK
  <2> QED BY <2>1, SetNothing DEF TypingInv, Hears, Active, Has, Fresh
<1>5. CASE connectionLost(p)
  BY <1>5 DEF connectionLost, TypingInv, Hears
<1> QED BY <1>1, <1>2, <1>3, <1>4, <1>5 DEF UserStep

LEMMA OtherTyping ==
  ASSUME TypeOK, TypeOK', PresenceInv, NEW q \in Page, PageStep(q) \/ UserStep(q),
         NEW p \in Page \ {q}, TypingInv(p)
  PROVE  TypingInv(p)'
<1> USE DEF TypeOK
<1>1. UNCHANGED participants
  BY DEF PageStep, PageHandler, onJoinSuccess, onJoinError, onUserJoined, onUserLeft,
         onUserTyping, onNewMessage, onRoomClosed, Receive, UserStep, joinRoom, leaveRoom,
         sendMessage, notifyTyping, typingTimerFires, pageLeft, connectionLost, Act, roomVars
<1>2. session'[p] = session[p]
  <2>1. session' = session \/ \E x : Become(q, x)
    BY DEF PageStep, PageHandler, onJoinSuccess, onJoinError, onUserJoined, onUserLeft,
           onUserTyping, onNewMessage, onRoomClosed, UserStep, joinRoom, leaveRoom,
           sendMessage, notifyTyping, typingTimerFires, pageLeft, connectionLost
  <2> QED BY <2>1, SessionBecomes
<1>3. connection'[p] = connection[p] /\ toPage'[p] = toPage[p]
  BY DEF PageStep, PageHandler, onJoinSuccess, onJoinError, onUserJoined, onUserLeft,
         onUserTyping, onNewMessage, onRoomClosed, Receive, UserStep, joinRoom, leaveRoom,
         sendMessage, notifyTyping, typingTimerFires, pageLeft, connectionLost, Act, Reconnect,
         ChatRoomsTypeOK
<1>4. p \in interrupted' <=> p \in interrupted
  BY DEF PageStep, PageHandler, onJoinSuccess, onJoinError, onUserJoined, onUserLeft,
         onUserTyping, onNewMessage, onRoomClosed, UserStep, joinRoom, leaveRoom,
         sendMessage, notifyTyping, typingTimerFires, pageLeft, connectionLost, Act
<1>5. \A t \in Socket : Types(t) => Types(t)'
  BY UserTypes
<1> QED BY <1>1, <1>2, <1>3, <1>4, <1>5, TypingSame

LEMMA TypingStep ==
  ASSUME TypeOK, TypeOK', PresenceInv, [Next]_vars, \A u \in Socket : QueueInv(u),
         NEW p \in Page, TypingInv(p)
  PROVE  TypingInv(p)'
<1>1. CASE UNCHANGED <<connection, toServer, toPage, participants, session, interrupted>>
  BY <1>1, SameTypes, TypingSame
<1>2. ASSUME NEW q \in Page, PageStep(q) \/ UserStep(q) PROVE TypingInv(p)'
  BY <1>2, PageTyping, UserTyping, OtherTyping
<1>3. ASSUME NEW r \in RoomId, Close(r) \/ Outside(r) PROVE TypingInv(p)'
  <2>1. CASE forceCloseRoom(r)
    BY <1>3, <2>1, forceCloseRoomTyping DEF Close, Outside, sessionVars
  <2>2. CASE ~forceCloseRoom(r)
    BY <1>1, <1>3, <2>2
       DEF Close, Outside, Expiry, fire, createRoom, timePasses, sweep, socketVars, sessionVars
  <2> QED BY <2>1, <2>2
<1>4. CASE restart
  BY <1>4 DEF restart, TypingInv, Hears
<1>5. CASE UNCHANGED vars
  BY <1>1, <1>5 DEF vars, socketVars, roomVars, sessionVars
<1> QED
  BY <1>2, <1>3, <1>4, <1>5, ServerTyping, ResumeTyping DEF Next

\* Who a page shows typing is typing, or has yet to tell that it stops or leaves, once the
\* page has read what it was sent: the server passes on what a socket tells of its room
\* in the order it tells it, and USER_LEFT when it leaves. Unless the page was interrupted,
\* for nothing resets what it shows.
THEOREM TypingKept == Spec /\ [][ClosedInTurn]_vars => []TypingShown
<1> DEFINE Inv == /\ PresenceInv
                  /\ \A u \in Socket : QueueInv(u)
                  /\ \A p \in Page : TypingInv(p)
<1>1. ASSUME TypeOK, Inv PROVE TypingShown
  <2> SUFFICES ASSUME NEW r \in RoomId, NEW p \in Page \ interrupted, In(p, r),
                      NEW n \in session[p].typing, Settled(p, {"USER_TYPING", "USER_LEFT"})
               PROVE  \E s \in Members(r) : participants[r][s] = n /\ Types(s)
    BY DEF TypingShown
  <2>1. n \in Name
    BY <1>1, SessionFields DEF TypeOK, Session
  <2>2. toPage[p] \in Seq(ToPage) /\ session[p].phase = "joined" /\ session[p].room = r
          /\ SocketOf(p) \in Members(r)
    BY <1>1 DEF TypeOK, ChatRoomsTypeOK, In
  <2>3. ~Has(toPage[p], {"JOIN_SUCCESS"})
    BY <1>1, <2>2 DEF PresenceInv, PageInv, Has, Answers
  <2>4. Apart(toPage[p], {"USER_TYPING"}, {"JOIN_SUCCESS"})
    <3>1. DOMAIN toPage[p] = 1..Len(toPage[p])
      BY <2>2
    <3> QED BY <2>3, <3>1, ApartWithout
  <2>5. Hears(p)
    BY <2>2, <2>4 DEF Hears, Active
  <2>6. \A i \in 1..Len(toPage[p]) : ~Turns(toPage[p][i], n)
    BY DEF Settled, Mentions, Turns
  <2>7. Shown(toPage[p], session[p].typing, n)
    BY <2>6 DEF Shown
  <2>8. TypesIn(r, SocketOf(p), n)
    BY <1>1, <2>1, <2>2, <2>5, <2>7 DEF TypingInv
  <2> QED BY <2>8 DEF TypesIn
<1>2. Init => Inv
  <2>1. ASSUME Init, NEW p \in Page PROVE TypingInv(p)
    <3>1. session[p].phase = "idle" /\ session[p].typing = {} /\ toPage[p] = <<>>
      BY <2>1 DEF Init, ChatRoomsInit, ChatSocketInit, Fresh
    <3> QED BY <3>1, SetNothing DEF TypingInv, Hears, Active, Has
  <2>2. ASSUME Init, NEW u \in Socket PROVE QueueInv(u)
    <3>1. toServer[u] = <<>> /\ suspended = {}
      BY <2>2 DEF Init, ChatRoomsInit
    <3> QED BY <3>1, SetNothing DEF QueueInv, Followed, Aimed, Towards
  <2> QED BY <2>1, <2>2, PresenceInit
<1>3. ASSUME TypeOK, TypeOK', Inv, [Next]_vars, [ClosedInTurn]_vars PROVE Inv'
  <2>1. PresenceInv'
    BY <1>3, PresenceStep
  <2>2. ASSUME NEW u \in Socket PROVE QueueInv(u)'
    BY <1>3, QueueStep
  <2>3. ASSUME NEW p \in Page PROVE TypingInv(p)'
    BY <1>3, TypingStep
  <2>4. Socket' = Socket
    BY DEF Socket
  <2> QED BY <2>1, <2>2, <2>3, <2>4
<1> QED
  <2> HIDE DEF Inv
  <2> QED BY <1>1, <1>2, <1>3, TypeCorrect, PTL DEF Spec
=============================================================================
