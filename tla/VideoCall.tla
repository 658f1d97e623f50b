----------------------------- MODULE VideoCall ------------------------------
(***************************************************************************)
(* Private video calls: the pages, the server's rooms and the sockets      *)
(* between them.  "A call is exactly two people - either one leaving (or   *)
(* disconnecting) ends it for both."                                       *)
(***************************************************************************)
EXTENDS CallSession, FiniteSets

vars == <<socketVars, roomVars, sessionVars>>

TypeOK == RoomsTypeOK /\ SessionTypeOK

Init == RoomsInit /\ SessionInit

ServerStep(s) == Handler(s) /\ UNCHANGED sessionVars

\* The offer/answer exchange of two pages is over.
Settled(p) ==
  /\ session[p].signalling \in {"none", "stable"}
  /\ \A i \in 1..Len(toPage[p]) :
       toPage[p][i].type \notin {"PEER_JOINED", "SDP_OFFER", "SDP_ANSWER"}
  /\ \A i \in 1..Len(toServer[SocketOf(p)]) :
       toServer[SocketOf(p)][i].type \notin {"SDP_OFFER", "SDP_ANSWER"}

\* Two hours after its creation; the exchange takes seconds, so a room does not
\* expire in the middle of it.
Expiry(r) ==
  /\ \A p \in Page : SocketOf(p) \in Participants(r) => Settled(p)
  /\ expire(r)
  /\ UNCHANGED sessionVars

Next ==
  \/ \E p \in Page : UserStep(p) \/ PageHandler(p)
  \/ \E s \in Socket : ServerStep(s)
  \/ \E r \in RoomId : Expiry(r)

\* The event loops of the server and of the pages.
Fairness ==
  /\ \A p \in Page : WF_vars(PageHandler(p))
  /\ \A s \in Socket : WF_vars(ServerStep(s))

Spec == Init /\ [][Next]_vars

FairSpec == Spec /\ Fairness

-----------------------------------------------------------------------------
\* The maps of CallRoomService agree: a timer for every room and no other, and
\* every participant, and nobody else, indexed under its room.
RegistryAgrees ==
  /\ timers = {r \in RoomId : rooms[r] # None}
  /\ \A s \in Socket, r \in RoomId : socketIndex[s] = r <=> s \in Participants(r)

Hears(s) == \E i \in 1..Len(toServer[s]) : toServer[s][i].type = "disconnect"

\* No room outlives a participant: its sockets are in use, or their disconnect
\* is on its way to the server and will close it.
NoGhostRoom ==
  \A r \in RoomId : \A s \in Participants(r) : s = SocketOf(s[1]) \/ Hears(s)

Ending(p) == \E i \in 1..Len(toPage[p]) : toPage[p][i].type = "CALL_ENDED"

\* A page that shows a call is in that call's room on the server, or is about to
\* be told that it has ended - unless it has lost its connection since.
EndsForBoth ==
  \A p \in Page \ severed :
    session[p].role # "none" =>
      SocketOf(p) \in Participants(session[p].room) \/ Ending(p)

Mentions(queue, type) == \E i \in 1..Len(queue) : queue[i].type = type

\* The pages of a call agree on who is muted once no TRACK_STATE is under way:
\* each shows the other's state.
InCall(p, r) ==
  /\ session[p].role # "none"
  /\ session[p].room = r
  /\ SocketOf(p) \in Participants(r)

Quiet(p) ==
  /\ ~Mentions(toPage[p], "TRACK_STATE")
  /\ ~Mentions(toServer[SocketOf(p)], "TRACK_STATE")

TrackStateAgreed ==
  \A r \in RoomId : \A p, q \in Page :
    p # q /\ InCall(p, r) /\ InCall(q, r) /\ Quiet(p) /\ Quiet(q) =>
      session[p].remoteMedia = session[q].media

\* The camera is on only for a call: at most one stream is live, and none on a
\* page that is not in a call nor waiting for one.
CameraReleased ==
  \A p \in Page :
    /\ session[p].cameras <= 1
    /\ session[p].role = "none" /\ ~Pending(p) => session[p].cameras = 0

Linked(p, q) == session[p].signalling = "stable" /\ session[p].peer = SocketOf(q)

\* p shares a call with a page and one of them has no connection to the other.
Connecting(p) ==
  \E q \in Page \ {p}, r \in RoomId :
    /\ InCall(p, r) /\ InCall(q, r)
    /\ ~(Linked(p, q) /\ Linked(q, p))

\* Two pages in a room get their offer and answer through to each other, unless
\* the call ends.
CallConnects == \A p \in Page : Connecting(p) ~> ~Connecting(p)

\* Start and Join are answered: their buttons do not stay disabled, unless the
\* connection was lost with the request on it.
RequestAnswered ==
  \A p \in Page :
    Pending(p) /\ session[p].asking = {} ~> ~Pending(p) \/ p \in severed

-----------------------------------------------------------------------------
Promise == INSTANCE PrivateCall WITH
             Person <- Socket, Call <- RoomId,
             people <- [r \in RoomId |-> Participants(r)]

\* "A call is exactly two people - either one leaving (or disconnecting) ends it for
\* both": what the server's handlers do to a room is what the promise allows.  Nobody
\* is replaced or is in two calls, and a call never goes on with one of its two.
KeepsPromise == Promise!Spec
=============================================================================
