--------------------------- MODULE PeerSignalling ----------------------------
(***************************************************************************)
(* The signalling side of usePeerConnection on each page: creating and     *)
(* joining a room, and one RTCPeerConnection for each peer, from the       *)
(* offer to the open data channel.  A connection gathers one candidate,    *)
(* an await of one connection's description is one step.                   *)
(***************************************************************************)
EXTENDS FileRooms

CONSTANTS
  Routes,     \* what classifyConnectionType finds
  MaxStarts,  \* bound: how often Create or Join is pressed on each connection
  MaxDrops    \* bound: how often a connection, to the server or a peer, or a key is lost

ASSUME PeerSignallingAssumption ==
  /\ Routes \subseteq ConnectionType
  /\ MaxStarts \in Nat
  /\ MaxDrops \in Nat

VARIABLES
  session,  \* session[p]: the refs of the hook on page p
  shared,   \* the rooms whose identifier a page has seen
  starts,   \* starts[s]: how often Create or Join was pressed on socket s (bound)
  drops     \* number of what MaxDrops bounds so far (bound)

sessionVars == <<session, shared, starts, drops>>

\* An RTCPeerConnection: its number on the page, the numbers of the remote connections
\* that its remote description and its candidates are from, and the handler's await:
\* of its own description for an offer, or of setRemoteDescription.  ready is
\* remoteDescriptionSet, open the data channel.
PeerConnection ==
  [id : Nat \ {0}, local : {"none", "offer", "answer"}, remote : Nat, heard : SUBSET Nat,
   awaits : {"none", "offer", "setOffer", "setAnswer"}, ready : BOOLEAN, open : BOOLEAN]

\* null is no connection.
ASSUME PeerConnectionAssumption == None \notin PeerConnection

\* candidates is candidateQueues, made the number of connections created.
Session ==
  [room : RoomId \cup {None}, pcs : [Socket -> PeerConnection \cup {None}],
   candidates : [Socket -> SUBSET Nat], made : Nat]

Fresh ==
  [room |-> None, pcs |-> [s \in Socket |-> None], candidates |-> [s \in Socket |-> {}],
   made |-> 0]

PeerSignallingTypeOK ==
  /\ session \in [Page -> Session]
  /\ \A p \in Page, s \in Socket :
       session[p].pcs[s] # None => session[p].pcs[s].id <= session[p].made
  /\ shared \subseteq issued
  /\ starts \in [Socket -> Nat]
  /\ drops \in Nat

PeerSignallingInit ==
  /\ session = [p \in Page |-> Fresh]
  /\ shared = {}
  /\ starts = [s \in Socket |-> 0]
  /\ drops = 0

Become(p, state) == session' = [session EXCEPT ![p] = state]

Send(p, ms) == toServer' = [toServer EXCEPT ![SocketOf(p)] = @ \o ms]

-----------------------------------------------------------------------------
\* The form is shown to a page without a room.
Start(p, m, state) ==
  /\ session[p].room = None
  /\ starts[SocketOf(p)] < MaxStarts
  /\ starts' = [starts EXCEPT ![SocketOf(p)] = @ + 1]
  /\ Send(p, <<m>>)
  /\ Become(p, state)
  /\ UNCHANGED <<connection, toPage, roomVars, shared, drops>>

\* As often as there are identifiers.
createRoom(p) ==
  /\ Cardinality(issued) + Cardinality({s \in Socket : toServer[s] # <<>>})
       < Cardinality(RoomId)
  /\ Start(p, [type |-> "CREATE_ROOM"], session[p])

joinRoom(p) ==
  \E r \in shared : Start(p, [type |-> "JOIN_ROOM", room |-> r], [session[p] EXCEPT !.room = r])

NewConnection(x) ==
  [id |-> x.made + 1, local |-> "none", remote |-> 0, heard |-> {}, awaits |-> "none",
   ready |-> FALSE, open |-> FALSE]

\* Mutant: the peer's number is forgotten, not its connection.
createPeerConnectionUncounted(x, s) ==
  [x EXCEPT !.pcs[s] = NewConnection(x), !.candidates[s] = {}]

\* A connection to s that was there is closed, and with it what awaits it.
createPeerConnection(x, s) ==
  [x EXCEPT !.pcs[s] = NewConnection(x), !.candidates[s] = {}, !.made = @ + 1]

closePeer(x, s) == [x EXCEPT !.pcs[s] = None, !.candidates[s] = {}]

Receive(p, type) ==
  /\ toPage[p] # <<>>
  /\ Head(toPage[p]).type = type
  /\ toPage' = [toPage EXCEPT ![p] = Tail(@)]
  /\ UNCHANGED <<connection, toServer, roomVars, starts, drops>>

onRoomCreated(p) ==
  /\ Receive(p, "ROOM_CREATED")
  /\ shared' = shared \cup {Head(toPage[p]).room}
  /\ Become(p, [session[p] EXCEPT !.room = Head(toPage[p]).room])

\* Up to the await of createOffer and setLocalDescription.
onPeerJoined(p) ==
  /\ Receive(p, "PEER_JOINED")
  /\ UNCHANGED shared
  /\ LET s == Head(toPage[p]).peer IN
       Become(p, [createPeerConnection(session[p], s) EXCEPT !.pcs[s].awaits = "offer"])

\* A connection for each of the peers that has none, numbered in any order.
onRoomUsers(p) ==
  /\ Receive(p, "room-users")
  /\ UNCHANGED shared
  /\ LET new == {s \in Head(toPage[p]).peers : session[p].pcs[s] = None} IN
       \E number \in [new -> 1..Cardinality(new)] :
         /\ \A s, t \in new : number[s] = number[t] => s = t
         /\ Become(p, [session[p] EXCEPT
              !.pcs = [s \in Socket |->
                         IF s \in new
                         THEN [NewConnection(session[p]) EXCEPT !.id = @ - 1 + number[s]]
                         ELSE @[s]],
              !.candidates = [s \in Socket |-> IF s \in new THEN {} ELSE @[s]],
              !.made = @ + Cardinality(new)])

\* An offer that comes during the await of an own offer makes that offer fail, as it
\* undoes one that was sent.
onSdpOffer(p) ==
  /\ Receive(p, "SDP_OFFER")
  /\ UNCHANGED shared
  /\ LET s == Head(toPage[p]).peer
         x == IF session[p].pcs[s] = None THEN createPeerConnection(session[p], s)
              ELSE session[p] IN
       Become(p, [x EXCEPT !.pcs[s].awaits = "setOffer", !.pcs[s].local = "none",
                           !.pcs[s].remote = Head(toPage[p]).pc])

\* An answer is an error but for a connection that has offered.
onSdpAnswer(p) ==
  /\ Receive(p, "SDP_ANSWER")
  /\ UNCHANGED shared
  /\ LET s == Head(toPage[p]).peer
         pc == session[p].pcs[s] IN
       IF pc # None /\ pc.local = "offer" /\ pc.remote = 0
       THEN Become(p, [session[p] EXCEPT !.pcs[s].awaits = "setAnswer",
                                         !.pcs[s].remote = Head(toPage[p]).pc])
       ELSE UNCHANGED session

\* Mutant: a candidate that is early is not kept.
onIceCandidateUnqueued(p) ==
  /\ Receive(p, "ICE_CANDIDATE")
  /\ UNCHANGED shared
  /\ LET s == Head(toPage[p]).peer
         pc == session[p].pcs[s] IN
       IF pc # None /\ pc.ready
       THEN Become(p, [session[p] EXCEPT !.pcs[s].heard = @ \cup {Head(toPage[p]).pc}])
       ELSE UNCHANGED session

onIceCandidate(p) ==
  /\ Receive(p, "ICE_CANDIDATE")
  /\ UNCHANGED shared
  /\ LET m == Head(toPage[p])
         pc == session[p].pcs[m.peer] IN
       Become(p, IF pc # None /\ pc.ready
                 THEN [session[p] EXCEPT !.pcs[m.peer].heard = @ \cup {m.pc}]
                 ELSE [session[p] EXCEPT !.candidates[m.peer] = @ \cup {m.pc}])

onLeaveRoom(p) ==
  /\ Receive(p, "LEAVE_ROOM")
  /\ UNCHANGED shared
  /\ Become(p, closePeer(session[p], Head(toPage[p]).peer))

\* A description and the candidate gathered for it.
Describe(p, s, type) ==
  Send(p, <<[type |-> type, peer |-> s, pc |-> session[p].pcs[s].id],
            [type |-> "ICE_CANDIDATE", peer |-> s, pc |-> session[p].pcs[s].id]>>)

\* drainCandidateQueue, of a connection whose remote description is set.
drained(x, s) ==
  [x EXCEPT !.pcs[s].heard = @ \cup x.candidates[s], !.candidates[s] = {},
            !.pcs[s].ready = TRUE, !.pcs[s].awaits = "none"]

\* What a handler awaited is there, and it goes on.
described(p, s) ==
  /\ session[p].pcs[s] # None
  /\ LET x == session[p] IN
       \/ /\ x.pcs[s].awaits = "offer"
          /\ Become(p, [x EXCEPT !.pcs[s].awaits = "none", !.pcs[s].local = "offer"])
          /\ Describe(p, s, "SDP_OFFER")
       \/ /\ x.pcs[s].awaits = "setOffer"
          /\ Become(p, [drained(x, s) EXCEPT !.pcs[s].local = "answer"])
          /\ Describe(p, s, "SDP_ANSWER")
       \/ /\ x.pcs[s].awaits = "setAnswer"
          /\ Become(p, drained(x, s))
          /\ UNCHANGED toServer
  /\ UNCHANGED <<connection, toPage, roomVars, shared, starts, drops>>

-----------------------------------------------------------------------------
\* Two connections that have each other's descriptions and candidates.
Ends(a, b) ==
  /\ a # None /\ b # None
  /\ a.ready /\ b.ready
  /\ a.remote = b.id /\ b.remote = a.id
  /\ {a.local, b.local} = {"offer", "answer"}
  /\ b.id \in a.heard /\ a.id \in b.heard

Linked(p, s) ==
  \E t \in Socket : t[1] = p /\ Ends(session[p].pcs[s], session[s[1]].pcs[t])

\* dc.onopen; the connection's type is reported once the page has its room.
channelOpens(p, s) ==
  /\ Linked(p, s)
  /\ ~session[p].pcs[s].open
  /\ Become(p, [session[p] EXCEPT !.pcs[s].open = TRUE])
  /\ \E type \in Routes :
       Send(p, IF session[p].room = None THEN <<>>
               ELSE <<[type |-> "CONNECTION_INFO", room |-> session[p].room,
                       connectionType |-> type]>>)
  /\ UNCHANGED <<connection, toPage, roomVars, shared, starts, drops>>

\* dc.onclose: the other end is gone.
channelCloses(p, s) ==
  /\ session[p].pcs[s] # None
  /\ session[p].pcs[s].open
  /\ ~Linked(p, s)
  /\ Become(p, [session[p] EXCEPT !.pcs[s].open = FALSE])
  /\ UNCHANGED <<connection, toServer, toPage, roomVars, shared, starts, drops>>

\* Bound: nothing else is under way when a peer is lost or a key expires.
Quiet ==
  /\ redis = <<>>
  /\ \A s \in Socket : toServer[s] = <<>>
  /\ \A p \in Page : toPage[p] = <<>>

\* A connection that is 'disconnected', be it for a moment, or 'failed'.
peerLost(p, s) ==
  /\ session[p].pcs[s] # None
  /\ session[p].pcs[s].ready
  /\ drops < MaxDrops /\ Quiet
  /\ drops' = drops + 1
  /\ Become(p, closePeer(session[p], s))
  /\ UNCHANGED <<connection, toServer, toPage, roomVars, shared, starts>>

\* The page's socket closes, its last messages lost or not, and a new one connects.
Reconnect(p, lost) ==
  /\ connection[p] < MaxConnections[p]
  /\ connection' = [connection EXCEPT ![p] = @ + 1]
  /\ \E n \in lost :
       toServer' = [toServer EXCEPT ![SocketOf(p)] =
                     SubSeq(@, 1, Len(@) - n) \o <<[type |-> "disconnect"]>>]
  /\ toPage' = [toPage EXCEPT ![p] = <<>>]
  /\ UNCHANGED <<roomVars, shared, starts>>

\* The page is left and opened again.
pageLeft(p) ==
  /\ session[p] # Fresh
  /\ Reconnect(p, {0})
  /\ Become(p, Fresh)
  /\ UNCHANGED drops

\* The page keeps its room and its peers, and joins nothing anew.
connectionLost(p) ==
  /\ drops < MaxDrops
  /\ drops' = drops + 1
  /\ Reconnect(p, 0..Len(toServer[SocketOf(p)]))
  /\ UNCHANGED session

PageHandler(p) ==
  \/ onRoomCreated(p)
  \/ onPeerJoined(p)
  \/ onRoomUsers(p)
  \/ onSdpOffer(p)
  \/ onSdpAnswer(p)
  \/ onIceCandidate(p)
  \/ onLeaveRoom(p)

Peering(p, s) == described(p, s) \/ channelOpens(p, s) \/ channelCloses(p, s)
=============================================================================
