----------------------------- MODULE LiveStream ------------------------------
(***************************************************************************)
(* Live streams: the broadcaster's page, the viewers' pages, the server's  *)
(* rooms and the sockets between them.                                     *)
(***************************************************************************)
EXTENDS StreamSession

VARIABLES
  overtaken,  \* history: the sockets whose bcrypt result came after their
              \* disconnect, or after the end of the stream
  kicked      \* history: the viewers a broadcaster removed

vars == <<socketVars, roomVars, sessionVars, overtaken, kicked>>

TypeOK ==
  /\ StreamRoomsTypeOK
  /\ StreamSessionTypeOK
  /\ overtaken \subseteq Socket
  /\ kicked \subseteq Socket

Init ==
  /\ StreamRoomsInit
  /\ StreamSessionInit
  /\ overtaken = {}
  /\ kicked = {}

Mentions(queue, type) == \E i \in 1..Len(queue) : queue[i].type = type

Hears(s) == Mentions(toServer[s], "disconnect")

InUse(s) == s = SocketOf(s[1]) \/ Hears(s)

ServerStep(s) ==
  /\ Handler(s)
  /\ kicked' = IF Head(toServer[s]).type = "KICK_VIEWER"
               THEN kicked \cup (UNION {room[r].viewers \ room'[r].viewers : r \in rooms})
               ELSE kicked
  /\ UNCHANGED <<sessionVars, overtaken>>

Resume(h) ==
  /\ Resumed(h)
  /\ overtaken' = IF InUse(h.socket) /\ (h.op = "join" => h.room \in rooms)
                  THEN overtaken ELSE overtaken \cup {h.socket}
  /\ UNCHANGED <<sessionVars, kicked>>

Expiry(r) == expire(r) /\ UNCHANGED <<sessionVars, overtaken, kicked>>

Next ==
  \/ \E p \in Page : (UserStep(p) \/ PageHandler(p)) /\ UNCHANGED <<overtaken, kicked>>
  \/ \E s \in Socket : ServerStep(s)
  \/ \E h \in suspended : Resume(h)
  \/ \E r \in RoomId : Expiry(r)

\* The event loops of the server and of the pages, and bcrypt's answer.
Fairness ==
  /\ \A p \in Page : WF_vars(PageHandler(p) /\ UNCHANGED <<overtaken, kicked>>)
  /\ \A s \in Socket : WF_vars(ServerStep(s))
  /\ \A h \in Suspended : WF_vars(h \in suspended /\ Resume(h))

SafeSpec == Init /\ [][Next]_vars

Spec == SafeSpec /\ Fairness

-----------------------------------------------------------------------------
\* The maps of StreamRoomService and the dashboard's list agree: a timer and an
\* entry for every stream and no other, its broadcaster and its viewers, and
\* nobody else, indexed under it, and the viewers counted.
StreamRegistryAgrees ==
  /\ timers = rooms
  /\ \A r \in RoomId :
       /\ r \in rooms <=> streamStats[r] # None
       /\ r \in rooms => streamStats[r] = [viewers |-> Cardinality(room[r].viewers),
                                           track |-> room[r].track]
       /\ \A s \in Socket :
            /\ broadcasterIndex[s] = r <=> r \in rooms /\ room[r].broadcaster = s
            /\ viewerIndex[s] = r <=> r \in rooms /\ s \in room[r].viewers

\* No stream outlives its broadcaster and no viewer its page: their sockets are in
\* use, or their disconnect is on its way to the server - unless it overtook bcrypt.
NoGhostStream ==
  \A r \in rooms :
    \A s \in room[r].viewers \cup {room[r].broadcaster} : InUse(s) \/ s \in overtaken

Over(p) == Mentions(toPage[p], "STREAM_ENDED") \/ Mentions(toPage[p], "STREAM_KICKED")

\* A page that shows a stream takes part in it on the server, in the role it shows,
\* or is about to be told that it is over - unless its connection was lost.
AudienceTold ==
  \A p \in Page \ severed :
    session[p].role # "none" /\ SocketOf(p) \notin overtaken =>
      LET r == session[p].room IN
        \/ Over(p)
        \/ r \in rooms /\ (IF session[p].role = "viewer" THEN SocketOf(p) \in room[r].viewers
                                                         ELSE SocketOf(p) = room[r].broadcaster)

\* p takes part in r as far as the server and the page know.
In(p, r) ==
  /\ session[p].room = r
  /\ r \in rooms
  /\ SocketOf(p) \in room[r].viewers \cup {room[r].broadcaster}

\* The broadcaster's page lists who watches, once no news is under way: nobody is
\* missing, and who has gone is listed only if removed by the broadcaster, as nothing
\* tells the page, or if let in after the end of the broadcaster's stream before.
ViewersListed ==
  \A r \in rooms, p \in Page :
    In(p, r) /\ session[p].role = "broadcaster"
      /\ ~Mentions(toPage[p], "VIEWER_JOINED") /\ ~Mentions(toPage[p], "VIEWER_LEFT") =>
      /\ room[r].viewers \subseteq session[p].viewers
      /\ session[p].viewers \subseteq room[r].viewers \cup kicked \cup overtaken

\* Captions, messages and reactions reach only those in the stream they are for: who
\* has left, was removed or has joined another one sees none of them.
PostsStayInside ==
  \A p \in Page : \A post \in session[p].posts : post.room = session[p].room

\* The microphone, camera and screen are captured, and captions made of them, only
\* by a page that is live or about to be - but for a camera that was on behind the
\* screen when the stream ended, and a screen picked after the end.
CaptureReleased ==
  \A p \in Page :
    session[p].role # "broadcaster" /\ ~session[p].creating =>
      /\ session[p].active # "camera"
      /\ session[p].captions = "off"

Linked(p, q) == session[p].peers[SocketOf(q)] = "stable"

\* Viewer p shares a stream with its broadcaster and they are not connected.
Connecting(p) ==
  \E q \in Page \ {p}, r \in RoomId :
    /\ In(p, r) /\ In(q, r)
    /\ session[q].role = "broadcaster"
    /\ ~(Linked(p, q) /\ Linked(q, p))

\* Every viewer gets connected to the broadcaster, or the stream ends for it.
ViewerConnects == \A p \in Page : Connecting(p) ~> ~Connecting(p)
=============================================================================
