------------------------------ MODULE FileShare ------------------------------
(***************************************************************************)
(* File sharing up to the open data channels: the pages, the server, Redis *)
(* and the sockets between them.                                           *)
(***************************************************************************)
EXTENDS PeerSignalling

VARIABLES
  lapsed,     \* history: whether a key in Redis has expired
  overtaken,  \* history: the sockets whose disconnect found no socket:<s>:room yet
  contended,  \* history: the rooms on which two handlers were at work at once
  crossed,    \* history: those of them that both were joining
  severed     \* history: the pages that lost their connection, or one to a peer

historyVars == <<lapsed, overtaken, contended, crossed, severed>>

vars == <<socketVars, roomVars, sessionVars, historyVars>>

TypeOK ==
  /\ FileRoomsTypeOK
  /\ PeerSignallingTypeOK
  /\ lapsed \in BOOLEAN
  /\ overtaken \subseteq Socket
  /\ crossed \subseteq contended /\ contended \subseteq RoomId
  /\ severed \subseteq Page

Init ==
  /\ FileRoomsInit
  /\ PeerSignallingInit
  /\ lapsed = FALSE
  /\ overtaken = {}
  /\ contended = {}
  /\ crossed = {}
  /\ severed = {}

\* The handlers at work on a room; that of a disconnect as soon as it has begun.
AtWork(r) ==
  {i \in 1..Len(redis) : redis[i].room = r \/ roomOf[redis[i].socket] = r}

Joins == {"smembers", "sadd", "expire", "set"}

Entering(r) == {i \in AtWork(r) : redis[i].op \in Joins}

ServerStep(s) ==
  /\ Handler(s)
  /\ contended' = contended \cup {r \in RoomId : Cardinality(AtWork(r)') > 1}
  /\ crossed' = crossed \cup {r \in RoomId : Cardinality(Entering(r)') > 1}
  /\ UNCHANGED <<sessionVars, lapsed, overtaken, severed>>

\* The joins that the reply to this get will overtake.
Missed(h) ==
  IF h.op # "get" THEN {}
  ELSE {i \in 2..Len(redis) : redis[i].socket = h.socket /\ redis[i].op \in Joins}

Reply ==
  /\ redisReplies
  /\ LET missed == Missed(Head(redis)) IN
       /\ overtaken' = overtaken \cup {redis[i].socket : i \in missed}
       /\ contended' = contended \cup {redis[i].room : i \in missed}
  /\ UNCHANGED <<sessionVars, lapsed, crossed, severed>>

Lapse ==
  /\ drops < MaxDrops
  /\ Quiet
  /\ drops' = drops + 1
  /\ lapsed' = TRUE
  /\ lapse
  /\ UNCHANGED <<session, shared, starts, overtaken, contended, crossed, severed>>

PageStep(p) == PageHandler(p) /\ UNCHANGED historyVars

PeeringStep(p, s) == Peering(p, s) /\ UNCHANGED historyVars

UserStep(p) == (createRoom(p) \/ joinRoom(p) \/ pageLeft(p)) /\ UNCHANGED historyVars

Fault(p) ==
  /\ \/ connectionLost(p) /\ severed' = severed \cup {p}
     \/ \E s \in Socket : peerLost(p, s) /\ severed' = severed \cup {p, s[1]}
  /\ UNCHANGED <<lapsed, overtaken, contended, crossed>>

Event ==
  \/ \E p \in Page : PageStep(p)
  \/ \E p \in Page, s \in Socket : PeeringStep(p, s)
  \/ \E s \in Socket : ServerStep(s)
  \/ Reply

Next ==
  \/ Event
  \/ \E p \in Page : UserStep(p) \/ Fault(p)
  \/ Lapse

\* The event loops of the server and the pages, Redis' replies and the browsers'
\* descriptions and connectivity checks go on as long as there is anything to do.
Fairness == WF_vars(Event)

Spec == Init /\ [][Next]_vars /\ Fairness

-----------------------------------------------------------------------------
Leaving(s) == \E i \in 1..Len(redis) : redis[i].socket = s

\* Redis knows who is in a room, and the dashboard how many, as soon as no handler is at
\* work on it - unless two of them were at once; a peer that is gone is being removed -
\* unless its disconnect overtook its join.
PeersAgree ==
  lapsed \/ \A r \in RoomId :
    /\ peers[r] \subseteq members[r] \cup {s \in Socket : Leaving(s)} \cup overtaken
    /\ r \notin contended /\ AtWork(r) = {} =>
         /\ peers[r] = members[r]
         /\ fileStats[r] = None <=> members[r] = {}
         /\ members[r] # {} => fileStats[r].peerCount = Cardinality(members[r])

In(p, r) == session[p].room = r /\ SocketOf(p) \in members[r]

Pairs == {pair \in SUBSET Page : Cardinality(pair) = 2}

Meeting(pair) ==
  /\ \E r \in RoomId \ crossed : \A p \in pair : In(p, r)
  /\ severed \cap pair = {}

Open(p, q) == LET pc == session[p].pcs[SocketOf(q)] IN pc # None /\ pc.open

\* Also when Redis has forgotten them, two pages that stay in a room and came one after
\* the other open a data channel to each other.
PeersLink ==
  \A pair \in Pairs :
    Meeting(pair) ~> ~Meeting(pair) \/ \A p, q \in pair : p # q => Open(p, q)

\* "A new peer joined -> We (existing member) initiate offer to that peer": of two
\* pages that connect to each other, one offers.
OneOffers ==
  \A p, q \in Page :
    LET a == session[p].pcs[SocketOf(q)]
        b == session[q].pcs[SocketOf(p)] IN
      a = None \/ b = None \/ {a.local, b.local} # {"offer"}
=============================================================================
