----------------------------- MODULE ChatSocket ------------------------------
(***************************************************************************)
(* useChatSocket on each page: joining and leaving a room, who is in it    *)
(* and who is typing, and joining again by itself after a lost connection. *)
(* Messages are told apart only by who wrote them, reactions and replies   *)
(* are left out, and so is what a user sends while there is no connection. *)
(***************************************************************************)
EXTENDS ChatRooms

CONSTANTS
  MaxStarts,  \* bound: how often each page's user presses Join
  MaxActs,    \* bound: how often users type or send
  MaxDrops    \* bound: how often a connection to the server is lost

ASSUME ChatSocketAssumption ==
  /\ MaxStarts \in Nat
  /\ MaxActs \in Nat
  /\ MaxDrops \in Nat

VARIABLES
  session,     \* session[p]: the refs and state of the hook on page p
  starts,      \* starts[p]: how often Join was pressed on page p (bound)
  acts,        \* number of what MaxActs bounds so far
  drops,       \* number of lost connections so far (bound)
  interrupted  \* history: the pages that joined anew, or saw their room closed,
               \* without having left it, or heard who types while in no room

sessionVars == <<session, starts, acts, drops, interrupted>>

\* room and name are refs, kept after a refused join.
Session ==
  [phase : {"idle", "joining", "joined", "closed"}, room : RoomId \cup {None},
   name : Name \cup {None}, roster : SUBSET Name, typing : SUBSET Name,
   isTyping : BOOLEAN, typingTimer : BOOLEAN]

Fresh ==
  [phase |-> "idle", room |-> None, name |-> None, roster |-> {}, typing |-> {},
   isTyping |-> FALSE, typingTimer |-> FALSE]

ChatSocketTypeOK ==
  /\ session \in [Page -> Session]
  /\ \A p \in Page :
       /\ session[p].room = None <=> session[p].name = None
       /\ session[p].phase = "joining" => session[p].room # None
       /\ session[p].phase = "closed" => session[p].room = None
  /\ starts \in [Page -> Nat]
  /\ acts \in Nat
  /\ drops \in Nat
  /\ interrupted \subseteq Page

ChatSocketInit ==
  /\ session = [p \in Page |-> Fresh]
  /\ starts = [p \in Page |-> 0]
  /\ acts = 0
  /\ drops = 0
  /\ interrupted = {}

Become(p, state) == session' = [session EXCEPT ![p] = state]

Send(p, ms) == toServer' = [toServer EXCEPT ![SocketOf(p)] = @ \o ms]

JoinRoom(x) == [type |-> "JOIN_ROOM", room |-> x.room, name |-> x.name]

Typing(x, on) == [type |-> "TYPING", room |-> x.room, isTyping |-> on]

joinRoom(p) ==
  /\ session[p].phase \in {"idle", "closed"}
  /\ starts[p] < MaxStarts
  /\ starts' = [starts EXCEPT ![p] = @ + 1]
  /\ \E r \in RoomId, n \in Name :
       LET x == [session[p] EXCEPT !.phase = "joining", !.room = r, !.name = n] IN
         Become(p, x) /\ Send(p, <<JoinRoom(x)>>)
  /\ UNCHANGED <<connection, toPage, roomVars, acts, drops, interrupted>>

\* resetRoomState clears the refs before stopTypingNow, which then sends nothing and
\* leaves isTypingRef as it was.
leaveRoom(p) ==
  /\ session[p].phase = "joined"
  /\ Become(p, [Fresh EXCEPT !.isTyping = session[p].isTyping])
  /\ Send(p, IF session[p].room = None THEN <<>>
             ELSE <<[type |-> "LEAVE_ROOM", room |-> session[p].room]>>)
  /\ interrupted' = interrupted \ {p}
  /\ UNCHANGED <<connection, toPage, roomVars, starts, acts, drops>>

Act(p) ==
  /\ session[p].phase = "joined"
  /\ session[p].room # None
  /\ acts < MaxActs
  /\ acts' = acts + 1
  /\ UNCHANGED <<connection, toPage, roomVars, starts, drops, interrupted>>

\* stopTypingNow.
typingStopped(x) ==
  [x EXCEPT !.typingTimer = FALSE, !.isTyping = @ /\ x.room = None]

StopTyping(x) == IF x.isTyping /\ x.room # None THEN <<Typing(x, FALSE)>> ELSE <<>>

sendMessage(p) ==
  /\ Act(p)
  /\ Become(p, typingStopped(session[p]))
  /\ Send(p, <<[type |-> "SEND_MESSAGE", room |-> session[p].room]>> \o StopTyping(session[p]))

notifyTyping(p) ==
  /\ Act(p)
  /\ Become(p, [session[p] EXCEPT !.isTyping = TRUE, !.typingTimer = TRUE])
  /\ Send(p, IF session[p].isTyping THEN <<>> ELSE <<Typing(session[p], TRUE)>>)

typingTimerFires(p) ==
  /\ session[p].typingTimer
  /\ Become(p, typingStopped(session[p]))
  /\ Send(p, StopTyping(session[p]))
  /\ UNCHANGED <<connection, toPage, roomVars, starts, acts, drops, interrupted>>

\* The page's socket closes, its last messages lost or not, and a new one connects
\* and sends ms.
Reconnect(p, lost, ms) ==
  /\ connection[p] < MaxConnections[p]
  /\ connection' = [connection EXCEPT ![p] = @ + 1]
  /\ \E n \in lost :
       toServer' = [toServer EXCEPT
                      ![SocketOf(p)] = SubSeq(@, 1, Len(@) - n) \o <<[type |-> "disconnect"]>>,
                      ![<<p, connection[p] + 1>>] = ms]
  /\ toPage' = [toPage EXCEPT ![p] = <<>>]

\* The page is left and opened again.
pageLeft(p) ==
  /\ session[p] # Fresh
  /\ Reconnect(p, {0}, <<>>)
  /\ Become(p, Fresh)
  /\ interrupted' = interrupted \ {p}
  /\ UNCHANGED <<roomVars, starts, acts, drops>>

\* The 'connect' handler: whoever has a room and a name joins it again.
onConnect(x) ==
  IF x.room = None THEN x ELSE [x EXCEPT !.phase = "joining"]

Rejoin(x) == IF x.room = None THEN <<>> ELSE <<JoinRoom(x)>>

connectionLost(p) ==
  /\ drops < MaxDrops
  /\ drops' = drops + 1
  /\ Reconnect(p, 0..Len(toServer[SocketOf(p)]), Rejoin(session[p]))
  /\ Become(p, onConnect(session[p]))
  /\ interrupted' = interrupted \cup {p}
  /\ UNCHANGED <<roomVars, starts, acts>>

-----------------------------------------------------------------------------
Receive(p, type) ==
  /\ toPage[p] # <<>>
  /\ Head(toPage[p]).type = type
  /\ toPage' = [toPage EXCEPT ![p] = Tail(@)]
  /\ UNCHANGED <<connection, toServer, roomVars, starts, acts, drops>>

\* Who is typing is not reset.
onJoinSuccess(p) ==
  /\ Receive(p, "JOIN_SUCCESS")
  /\ Become(p, [session[p] EXCEPT !.phase = "joined", !.roster = Head(toPage[p]).participants])
  /\ UNCHANGED interrupted

onJoinError(p) ==
  /\ Receive(p, "JOIN_ERROR")
  /\ Become(p, [session[p] EXCEPT !.phase = "idle"])
  /\ UNCHANGED interrupted

onUserJoined(p) ==
  /\ Receive(p, "USER_JOINED")
  /\ Become(p, [session[p] EXCEPT !.roster = @ \cup {Head(toPage[p]).name}])
  /\ UNCHANGED interrupted

\* Mutant: who leaves while typing types on.
onUserLeftStillTyping(p) ==
  /\ Receive(p, "USER_LEFT")
  /\ Become(p, [session[p] EXCEPT !.roster = @ \ {Head(toPage[p]).name}])
  /\ UNCHANGED interrupted

onUserLeft(p) ==
  /\ Receive(p, "USER_LEFT")
  /\ LET n == Head(toPage[p]).name IN
       Become(p, [session[p] EXCEPT !.roster = @ \ {n}, !.typing = @ \ {n}])
  /\ UNCHANGED interrupted

onUserTyping(p) ==
  /\ Receive(p, "USER_TYPING")
  /\ LET m == Head(toPage[p]) IN
       Become(p, [session[p] EXCEPT !.typing = IF m.isTyping THEN @ \cup {m.name}
                                               ELSE @ \ {m.name}])
  /\ interrupted' = IF session[p].phase = "joined" THEN interrupted
                    ELSE interrupted \cup {p}

\* NEW_MESSAGE, appended to a list that no property looks at.
onNewMessage(p) ==
  /\ Receive(p, "NEW_MESSAGE")
  /\ UNCHANGED <<session, interrupted>>

\* Mutant: the refs survive the room.
onRoomClosedKeepsRoom(p) ==
  /\ Receive(p, "ROOM_CLOSED")
  /\ Become(p, [session[p] EXCEPT !.phase = "closed"])
  /\ interrupted' = interrupted \cup {p}

\* The lists are not cleared.
onRoomClosed(p) ==
  /\ Receive(p, "ROOM_CLOSED")
  /\ Become(p, [session[p] EXCEPT !.phase = "closed", !.room = None, !.name = None])
  /\ interrupted' = interrupted \cup {p}

PageHandler(p) ==
  \/ onJoinSuccess(p)
  \/ onJoinError(p)
  \/ onUserJoined(p)
  \/ onUserLeft(p)
  \/ onUserTyping(p)
  \/ onNewMessage(p)
  \/ onRoomClosed(p)

UserStep(p) ==
  \/ joinRoom(p)
  \/ leaveRoom(p)
  \/ sendMessage(p)
  \/ notifyTyping(p)
  \/ typingTimerFires(p)
  \/ pageLeft(p)
  \/ connectionLost(p)
=============================================================================
