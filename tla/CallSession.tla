---------------------------- MODULE CallSession -----------------------------
(***************************************************************************)
(* useCallSession on each page: starting, joining and leaving a call, the  *)
(* camera, the track-state indicators and the offer/answer exchange.  A    *)
(* handler that awaits (getUserMedia, the session descriptions) is         *)
(* suspended in the model too; ICE candidates are left out.                *)
(***************************************************************************)
EXTENDS CallRooms

CONSTANTS
  OneAtATime,  \* TRUE: a user waits for Start or Join to be answered before the other
  MaxStarts,   \* bound: how often Start or Join is pressed
  MaxToggles,  \* bound: how often a camera or microphone is toggled
  MaxDrops     \* bound: how often a connection to the server is lost

ASSUME SessionAssumption ==
  /\ OneAtATime \in BOOLEAN
  /\ MaxStarts \in Nat
  /\ MaxToggles \in Nat
  /\ MaxDrops \in Nat

VARIABLES
  session,  \* session[p]: the refs and state of the hook on page p
  starts,   \* number of Start and Join presses so far (bound)
  toggles,  \* number of toggles so far (bound)
  drops,    \* number of lost connections so far (bound)
  severed   \* history: the pages that lost the connection of their call

sessionVars == <<session, starts, toggles, drops, severed>>

\* A createCall or joinCall that waits for the camera.
Asking == [room : RoomId \cup {None}]
Create == [room |-> None]
Join(r) == [room |-> r]

\* Where the page's RTCPeerConnection is, "none" when peerRef is null.
Signalling == {"none", "offering", "offered", "answering", "accepting", "stable"}

Session ==
  [role : {"none", "host", "guest"}, room : RoomId \cup {None}, creating : BOOLEAN,
   joining : BOOLEAN, asking : SUBSET Asking, local : BOOLEAN, cameras : Nat,
   media : BOOLEAN, remoteMedia : BOOLEAN, signalling : Signalling,
   peer : Socket \cup {None}]

Fresh ==
  [role |-> "none", room |-> None, creating |-> FALSE, joining |-> FALSE, asking |-> {},
   local |-> FALSE, cameras |-> 0, media |-> TRUE, remoteMedia |-> TRUE,
   signalling |-> "none", peer |-> None]

SessionTypeOK ==
  /\ session \in [Page -> Session]
  /\ \A p \in Page :
       /\ session[p].role = "none" <=> session[p].room = None
       /\ session[p].signalling = "none" <=> session[p].peer = None
  /\ starts \in Nat
  /\ toggles \in Nat
  /\ drops \in Nat
  /\ severed \subseteq Page

SessionInit ==
  /\ session = [p \in Page |-> Fresh]
  /\ starts = 0
  /\ toggles = 0
  /\ drops = 0
  /\ severed = {}

Become(p, state) == session' = [session EXCEPT ![p] = state]

\* stopLocalMedia: the tracks of the stream in localStreamRef are stopped.
MediaStopped(x) ==
  [x EXCEPT !.local = FALSE, !.cameras = IF x.local THEN @ - 1 ELSE @]

\* Mutant: the room identifier survives the call.
ResetKeepsRoom(x) ==
  [Fresh EXCEPT !.room = x.room, !.asking = x.asking, !.cameras = MediaStopped(x).cameras]

\* resetSessionState; what awaits the camera is not cancelled.
Reset(x) == [Fresh EXCEPT !.asking = x.asking, !.cameras = MediaStopped(x).cameras]

Send(p, m) == toServer' = [toServer EXCEPT ![SocketOf(p)] = Append(@, m)]

Idle(p) == session[p].role = "none" /\ starts < MaxStarts

Pending(p) == session[p].creating \/ session[p].joining

createCall(p) ==
  /\ Idle(p)
  /\ ~session[p].creating
  /\ OneAtATime => ~Pending(p)
  /\ Become(p, [session[p] EXCEPT !.creating = TRUE, !.asking = @ \cup {Create}])
  /\ starts' = starts + 1
  /\ UNCHANGED <<socketVars, roomVars, toggles, drops, severed>>

joinCall(p) ==
  /\ Idle(p)
  /\ ~session[p].joining
  /\ OneAtATime => ~Pending(p)
  /\ \E r \in RoomId :
       Become(p, [session[p] EXCEPT !.joining = TRUE, !.asking = @ \cup {Join(r)}])
  /\ starts' = starts + 1
  /\ UNCHANGED <<socketVars, roomVars, toggles, drops, severed>>

\* getUserMedia resolved.
mediaAcquired(p) ==
  /\ \E a \in session[p].asking :
       /\ Become(p, [session[p] EXCEPT !.asking = @ \ {a}, !.local = TRUE,
                                       !.cameras = @ + 1, !.media = TRUE])
       /\ Send(p, IF a = Create THEN [type |-> "CREATE_CALL"]
                                ELSE [type |-> "JOIN_CALL", room |-> a.room])
  /\ UNCHANGED <<connection, toPage, roomVars, starts, toggles, drops, severed>>

\* getUserMedia rejected: no camera, or permission denied.
mediaRefused(p) ==
  /\ \E a \in session[p].asking :
       Become(p, [session[p] EXCEPT !.asking = @ \ {a},
                    !.creating = @ /\ a # Create, !.joining = @ /\ a = Create])
  /\ UNCHANGED <<socketVars, roomVars, starts, toggles, drops, severed>>

\* toggleMic and toggleCamera.
toggle(p) ==
  /\ session[p].role # "none"
  /\ session[p].local
  /\ toggles < MaxToggles
  /\ toggles' = toggles + 1
  /\ Become(p, [session[p] EXCEPT !.media = ~@])
  /\ Send(p, [type |-> "TRACK_STATE", room |-> session[p].room, media |-> ~session[p].media])
  /\ UNCHANGED <<connection, toPage, roomVars, starts, drops, severed>>

\* The page's socket closes after it has sent ms, and the page connects anew.
Reconnect(p, ms) ==
  /\ connection[p] < MaxConnections[p]
  /\ connection' = [connection EXCEPT ![p] = @ + 1]
  /\ toServer' = [toServer EXCEPT ![SocketOf(p)] =
                    @ \o ms \o <<[type |-> "disconnect"]>>]
  /\ toPage' = [toPage EXCEPT ![p] = <<>>]

leaveCall(p) ==
  /\ session[p].role # "none"
  /\ Reconnect(p, <<[type |-> "LEAVE_CALL", room |-> session[p].room]>>)
  /\ Become(p, Reset(session[p]))
  /\ severed' = severed \ {p}
  /\ UNCHANGED <<roomVars, starts, toggles, drops>>

\* The page is left and opened again.
pageLeft(p) ==
  /\ session[p] # Fresh
  /\ Reconnect(p, <<>>)
  /\ Become(p, Fresh)
  /\ severed' = severed \ {p}
  /\ UNCHANGED <<roomVars, starts, toggles, drops>>

\* The connection to the server is lost, with the last messages on it, and
\* socket.io connects again; the hook only notes isSocketConnected.
connectionLost(p) ==
  /\ drops < MaxDrops
  /\ connection[p] < MaxConnections[p]
  /\ drops' = drops + 1
  /\ connection' = [connection EXCEPT ![p] = @ + 1]
  /\ \E n \in 0..Len(toServer[SocketOf(p)]) :
       toServer' = [toServer EXCEPT ![SocketOf(p)] =
                      SubSeq(@, 1, n) \o <<[type |-> "disconnect"]>>]
  /\ toPage' = [toPage EXCEPT ![p] = <<>>]
  /\ severed' = IF session[p].role # "none" \/ (Pending(p) /\ session[p].asking = {})
                THEN severed \cup {p} ELSE severed
  /\ UNCHANGED <<roomVars, session, starts, toggles>>

-----------------------------------------------------------------------------
Receive(p, type) ==
  /\ toPage[p] # <<>>
  /\ Head(toPage[p]).type = type
  /\ toPage' = [toPage EXCEPT ![p] = Tail(@)]
  /\ UNCHANGED <<connection, roomVars, starts, toggles, drops>>

onCallCreated(p) ==
  /\ Receive(p, "CALL_CREATED")
  /\ Become(p, [session[p] EXCEPT !.role = "host", !.creating = FALSE,
                                  !.room = Head(toPage[p]).room])
  /\ UNCHANGED <<toServer, severed>>

\* Mutant: the camera stays on.
onJoinErrorKeepsMedia(p) ==
  /\ Receive(p, "JOIN_ERROR")
  /\ Become(p, [session[p] EXCEPT !.joining = FALSE])
  /\ UNCHANGED <<toServer, severed>>

onJoinError(p) ==
  /\ Receive(p, "JOIN_ERROR")
  /\ Become(p, [MediaStopped(session[p]) EXCEPT !.joining = FALSE])
  /\ UNCHANGED <<toServer, severed>>

onCallJoined(p) ==
  /\ Receive(p, "CALL_JOINED")
  /\ LET m == Head(toPage[p]) IN
       /\ Become(p, [session[p] EXCEPT !.role = "guest", !.joining = FALSE,
                                       !.room = m.room, !.remoteMedia = m.media])
       /\ Send(p, [type |-> "TRACK_STATE", room |-> m.room, media |-> TRUE])
  /\ UNCHANGED severed

\* createPeerConnection closes the one before, whose handlers never resume.
createPeerConnection(p, s, signalling) ==
  Become(p, [session[p] EXCEPT !.peer = s, !.signalling = signalling])

onPeerJoined(p) ==
  /\ Receive(p, "PEER_JOINED")
  /\ createPeerConnection(p, Head(toPage[p]).peer, "offering")
  /\ UNCHANGED <<toServer, severed>>

onSdpOffer(p) ==
  /\ Receive(p, "SDP_OFFER")
  /\ createPeerConnection(p, Head(toPage[p]).sender, "answering")
  /\ UNCHANGED <<toServer, severed>>

\* The answer goes to whatever connection there is; only one that has made an
\* offer accepts it.
onSdpAnswer(p) ==
  /\ Receive(p, "SDP_ANSWER")
  /\ Become(p, [session[p] EXCEPT !.signalling = IF @ = "offered" THEN "accepting" ELSE @])
  /\ UNCHANGED <<toServer, severed>>

\* The awaits of the session descriptions resolve.
describe(p) ==
  /\ \/ /\ session[p].signalling = "offering"
        /\ Become(p, [session[p] EXCEPT !.signalling = "offered"])
        /\ Send(p, [type |-> "SDP_OFFER", target |-> session[p].peer])
     \/ /\ session[p].signalling = "answering"
        /\ Become(p, [session[p] EXCEPT !.signalling = "stable"])
        /\ Send(p, [type |-> "SDP_ANSWER", target |-> session[p].peer])
     \/ /\ session[p].signalling = "accepting"
        /\ Become(p, [session[p] EXCEPT !.signalling = "stable"])
        /\ UNCHANGED toServer
  /\ UNCHANGED <<connection, toPage, roomVars, starts, toggles, drops, severed>>

onTrackState(p) ==
  /\ Receive(p, "TRACK_STATE")
  /\ Become(p, [session[p] EXCEPT !.remoteMedia = Head(toPage[p]).media])
  /\ UNCHANGED <<toServer, severed>>

onCallEnded(p) ==
  /\ Receive(p, "CALL_ENDED")
  /\ Become(p, Reset(session[p]))
  /\ severed' = severed \ {p}
  /\ UNCHANGED toServer

PageHandler(p) ==
  \/ onCallCreated(p)
  \/ onJoinError(p)
  \/ onCallJoined(p)
  \/ onPeerJoined(p)
  \/ onSdpOffer(p)
  \/ onSdpAnswer(p)
  \/ describe(p)
  \/ onTrackState(p)
  \/ onCallEnded(p)

UserStep(p) ==
  \/ createCall(p)
  \/ joinCall(p)
  \/ mediaAcquired(p)
  \/ mediaRefused(p)
  \/ toggle(p)
  \/ leaveCall(p)
  \/ pageLeft(p)
  \/ connectionLost(p)
=============================================================================
