-------------------------------- MODULE Chat ---------------------------------
(***************************************************************************)
(* Chat rooms: the pages, the server with its database, the sockets        *)
(* between them, and restarts of the server.                               *)
(***************************************************************************)
EXTENDS ChatSocket

CONSTANT MaxRestarts  \* bound: how often the server restarts

ASSUME RestartAssumption == MaxRestarts \in Nat

VARIABLES
  restarts,  \* number of restarts so far (bound)
  overtaken  \* history: the sockets that were let in after their disconnect

vars == <<socketVars, roomVars, sessionVars, restarts, overtaken>>

TypeOK ==
  /\ ChatRoomsTypeOK
  /\ ChatSocketTypeOK
  /\ restarts \in Nat
  /\ overtaken \subseteq Socket

Init ==
  /\ ChatRoomsInit
  /\ ChatSocketInit
  /\ restarts = 0
  /\ overtaken = {}

Mentions(queue, type) == \E i \in 1..Len(queue) : queue[i].type = type

InUse(s) == s = SocketOf(s[1]) \/ Mentions(toServer[s], "disconnect")

\* The server starts again with nothing but MongoDB; every page connects anew.
restart ==
  /\ restarts < MaxRestarts
  /\ restarts' = restarts + 1
  /\ \A p \in Page : connection[p] < MaxConnections[p]
  /\ connection' = [p \in Page |-> connection[p] + 1]
  /\ toServer' = [s \in Socket |->
                   IF s[2] = connection[s[1]] + 1 THEN Rejoin(session[s[1]]) ELSE <<>>]
  /\ toPage' = [p \in Page |-> <<>>]
  /\ session' = [p \in Page |-> onConnect(session[p])]
  /\ interrupted' = Page
  /\ timers' = {}
  /\ firing' = [r \in RoomId |-> 0]
  /\ participants' = [r \in RoomId |-> Nobody]
  /\ suspended' = {}
  /\ chatStats' = [r \in RoomId |-> None]
  /\ UNCHANGED <<chatRooms, expired, starts, acts, drops, overtaken>>

ServerStep(s) == Handler(s) /\ UNCHANGED <<sessionVars, restarts, overtaken>>

Resume(h) ==
  /\ Resumed(h)
  /\ overtaken' = IF InUse(h.socket) THEN overtaken ELSE overtaken \cup {h.socket}
  /\ UNCHANGED <<sessionVars, restarts>>

Close(r) == Expiry(r) /\ UNCHANGED <<sessionVars, restarts, overtaken>>

PageStep(p) == PageHandler(p) /\ UNCHANGED <<restarts, overtaken>>

Outside(r) ==
  /\ createRoom(r) \/ timePasses(r) \/ sweep(r)
  /\ UNCHANGED <<sessionVars, restarts, overtaken>>

Next ==
  \/ \E p \in Page : PageStep(p) \/ (UserStep(p) /\ UNCHANGED <<restarts, overtaken>>)
  \/ \E s \in Socket : ServerStep(s)
  \/ \E h \in suspended : Resume(h)
  \/ \E r \in RoomId : Close(r) \/ Outside(r)
  \/ restart

Spec == Init /\ [][Next]_vars

-----------------------------------------------------------------------------
\* "That stage name is already taken in this room": nobody in a room goes by the
\* name of another, however their joins and their passwords' checks interleave.
NamesUnique ==
  \A r \in RoomId : \A s, t \in Members(r) :
    participants[r][s] = participants[r][t] => s = t

In(p, r) ==
  /\ session[p].phase = "joined"
  /\ session[p].room = r
  /\ SocketOf(p) \in Members(r)

Settled(p, types) == \A type \in types : ~Mentions(toPage[p], type)

\* A page in a room lists who the server has in it, once no news is under way.
RosterAgrees ==
  \A r \in RoomId, p \in Page :
    In(p, r) /\ Settled(p, {"JOIN_SUCCESS", "USER_JOINED", "USER_LEFT"}) =>
      session[p].roster = {participants[r][s] : s \in Members(r)}

\* The server and the pages agree on who is in a room: a participant's socket is in
\* use, or its disconnect is on its way - unless that overtook its join - and a page
\* that shows a room takes part in it or is about to see it closed.
PresenceAgrees ==
  /\ \A r \in RoomId : \A s \in Members(r) : InUse(s) \/ s \in overtaken
  /\ \A p \in Page :
       session[p].phase = "joined" =>
         In(p, session[p].room) \/ Mentions(toPage[p], "ROOM_CLOSED")

\* Also after a restart, a room that people are in will be closed when its time is
\* over, and the dashboard counts them.
RoomsKept ==
  \A r \in RoomId :
    /\ Members(r) # {} => r \in timers \/ firing[r] > 0
    /\ chatStats[r] = IF Members(r) = {} THEN None ELSE Cardinality(Members(r))

Types(s) ==
  \/ s = SocketOf(s[1]) /\ session[s[1]].isTyping
  \/ \E type \in {"TYPING", "LEAVE_ROOM", "disconnect"} : Mentions(toServer[s], type)

\* Who a page shows typing is typing, or is about to be shown to have stopped or left
\* - unless the page joined anew, or heard it of the room it had left: nothing resets
\* what it shows.
TypingShown ==
  \A r \in RoomId : \A p \in Page \ interrupted : In(p, r) =>
    \A n \in session[p].typing :
      \/ ~Settled(p, {"USER_TYPING", "USER_LEFT"})
      \/ \E s \in Members(r) : participants[r][s] = n /\ Types(s)
=============================================================================
