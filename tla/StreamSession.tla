---------------------------- MODULE StreamSession ----------------------------
(***************************************************************************)
(* useStreamSession on each page, with the caption recognition it runs:    *)
(* going live, watching and leaving, what is captured and shown, and the   *)
(* offer/answer exchange with each viewer.  A handler that awaits (the     *)
(* camera, the screen picker, the session descriptions) is suspended in    *)
(* the model too.  The microphone stands for the camera's mute as well.    *)
(* Left out: the choice of devices, the lobby's list, ICE candidates and   *)
(* what the recogniser says after it was stopped.                          *)
(***************************************************************************)
EXTENDS StreamRooms

CONSTANTS
  Host,       \* the pages whose user goes live; the others watch
  MaxStarts,  \* bound: how often each page goes live or joins
  MaxActs,    \* bound: how often users toggle, share, post or remove a viewer
  MaxDrops    \* bound: how often a connection to the server is lost

ASSUME StreamSessionAssumption ==
  /\ Host \subseteq Page
  /\ MaxStarts \in [Page -> Nat]
  /\ MaxActs \in Nat
  /\ MaxDrops \in Nat

VARIABLES
  session,  \* session[p]: the refs and state of the hook on page p
  starts,   \* starts[p]: how often page p went live or joined (bound)
  acts,     \* number of what MaxActs bounds so far
  drops,    \* number of lost connections so far (bound)
  severed   \* history: the pages that lost the connection of their stream

sessionVars == <<session, starts, acts, drops, severed>>

\* A peer's RTCPeerConnection, "none" when peersRef has none.
Signalling == {"none", "new", "offering", "offered", "answering", "accepting", "stable"}

NoPeers == [s \in Socket |-> "none"]

\* active: the capture in localStreamRef; hasCamera: cameraVideoTrackRef is set.  A
\* picker keeps the microphone's state of when it was opened, and so does the
\* screen's onended.
Session ==
  [role : {"none", "broadcaster", "viewer"}, room : RoomId \cup {None},
   creating : BOOLEAN, joining : BOOLEAN, asking : BOOLEAN,
   active : {"none", "camera", "screen"}, hasCamera : BOOLEAN,
   mic : BOOLEAN, shown : Track, pickers : SUBSET BOOLEAN, screenMic : BOOLEAN,
   captions : {"off", "listening", "waiting", "failed"},
   viewers : SUBSET Socket, count : Nat, posts : SUBSET Post,
   peers : [Socket -> Signalling]]

Fresh ==
  [role |-> "none", room |-> None, creating |-> FALSE, joining |-> FALSE, asking |-> FALSE,
   active |-> "none", hasCamera |-> FALSE,
   mic |-> TRUE, shown |-> InitialTrack, pickers |-> {}, screenMic |-> TRUE,
   captions |-> "off", viewers |-> {}, count |-> 0, posts |-> {}, peers |-> NoPeers]

StreamSessionTypeOK ==
  /\ session \in [Page -> Session]
  /\ \A p \in Page : session[p].role = "none" <=> session[p].room = None
  /\ starts \in [Page -> Nat]
  /\ acts \in Nat
  /\ drops \in Nat
  /\ severed \subseteq Page

StreamSessionInit ==
  /\ session = [p \in Page |-> Fresh]
  /\ starts = [p \in Page |-> 0]
  /\ acts = 0
  /\ drops = 0
  /\ severed = {}

Become(p, state) == session' = [session EXCEPT ![p] = state]

Send(p, m) == toServer' = [toServer EXCEPT ![SocketOf(p)] = Append(@, m)]

\* Mutant: the peer connections are closed, the media is not stopped.
resetSessionKeepsMedia(x) ==
  [Fresh EXCEPT !.creating = x.creating, !.asking = x.asking, !.pickers = x.pickers,
                !.active = x.active, !.hasCamera = x.hasCamera]

\* Mutant: the page still shows the stream's room.
resetSessionKeepsRoom(x) ==
  [Fresh EXCEPT !.creating = x.creating, !.asking = x.asking, !.pickers = x.pickers,
                !.room = x.room]

\* stopLocalMedia and the rest: what is in localStreamRef is stopped (not a camera
\* behind a screen), what awaits the camera or the picker is not cancelled.
resetSessionState(x) ==
  [Fresh EXCEPT !.creating = x.creating, !.asking = x.asking, !.pickers = x.pickers]

Pending(p) == session[p].creating \/ session[p].joining

\* A user goes live or joins only when neither button waits for an answer.
mayStart(p) ==
  /\ session[p].role = "none"
  /\ ~Pending(p)
  /\ starts[p] < MaxStarts[p]
  /\ starts' = [starts EXCEPT ![p] = @ + 1]

createStream(p) ==
  /\ p \in Host
  /\ mayStart(p)
  /\ Become(p, [session[p] EXCEPT !.creating = TRUE, !.asking = TRUE])
  /\ UNCHANGED <<socketVars, roomVars, acts, drops, severed>>

\* getUserMedia resolved: refs of an earlier capture are overwritten.
mediaAcquired(p) ==
  /\ session[p].asking
  /\ Become(p, [session[p] EXCEPT !.asking = FALSE, !.active = "camera", !.hasCamera = TRUE,
                                  !.mic = TRUE])
  /\ Send(p, [type |-> "CREATE_STREAM"])
  /\ UNCHANGED <<connection, toPage, roomVars, starts, acts, drops, severed>>

mediaRefused(p) ==
  /\ session[p].asking
  /\ Become(p, [session[p] EXCEPT !.asking = FALSE, !.creating = FALSE])
  /\ UNCHANGED <<socketVars, roomVars, starts, acts, drops, severed>>

joinStream(p) ==
  /\ p \notin Host
  /\ mayStart(p)
  /\ Become(p, [session[p] EXCEPT !.joining = TRUE])
  /\ \E r \in RoomId : Send(p, [type |-> "JOIN_STREAM", room |-> r])
  /\ UNCHANGED <<connection, toPage, roomVars, acts, drops, severed>>

Act(p, role) ==
  /\ session[p].role \in role
  /\ acts < MaxActs
  /\ acts' = acts + 1
  /\ UNCHANGED <<connection, toPage, roomVars, starts, drops, severed>>

Announce(p, mic, source) ==
  Send(p, [type |-> "TRACK_STATE", room |-> session[p].room,
           track |-> [media |-> mic, source |-> source]])

\* The microphone's own state, and the picture as last shown.
toggleMic(p) ==
  /\ Act(p, {"broadcaster"})
  /\ session[p].active # "none"
  /\ LET mic == ~session[p].mic IN
       /\ Become(p, [session[p] EXCEPT !.mic = mic, !.shown.media = mic])
       /\ Announce(p, mic, session[p].shown.source)

openPicker(p) ==
  /\ Act(p, {"broadcaster"})
  /\ session[p].shown.source = "camera"
  /\ Become(p, [session[p] EXCEPT !.pickers = @ \cup {session[p].shown.media}])
  /\ UNCHANGED toServer

\* getDisplayMedia resolved, for a stream or for none any more (there is no room
\* then, and the server ignores the announcement), or the picker was cancelled.
screenPicked(p) ==
  /\ \E mic \in session[p].pickers :
       LET x == [session[p] EXCEPT !.pickers = @ \ {mic}] IN
         \/ /\ Become(p, [x EXCEPT !.active = "screen",
                                   !.shown.source = "screen", !.screenMic = mic])
            /\ IF x.role = "none" THEN UNCHANGED toServer ELSE Announce(p, mic, "screen")
         \/ Become(p, x) /\ UNCHANGED toServer
  /\ UNCHANGED <<connection, toPage, roomVars, starts, acts, drops, severed>>

revertToCameraVideo(p, mic) ==
  IF session[p].hasCamera
  THEN /\ Become(p, [session[p] EXCEPT !.active = "camera", !.shown.source = "camera"])
       /\ Announce(p, mic, "camera")
  ELSE UNCHANGED <<session, toServer>>

stopSharing(p) ==
  /\ Act(p, {"broadcaster"})
  /\ session[p].shown.source = "screen"
  /\ revertToCameraVideo(p, session[p].shown.media)

\* The browser's own "stop sharing": the screen track ends.
screenEnded(p) ==
  /\ Act(p, {"broadcaster"})
  /\ session[p].active = "screen"
  /\ revertToCameraVideo(p, session[p].screenMic)

\* sendChatMessage and sendReaction.
sendPost(p) ==
  /\ Act(p, {"broadcaster", "viewer"})
  /\ \E kind \in {"MESSAGE", "REACTION"} :
       Send(p, [type |-> "POST", post |-> [kind |-> kind, room |-> session[p].room]])
  /\ UNCHANGED session

\* onResult of the recogniser.
captionHeard(p) ==
  /\ Act(p, {"broadcaster"})
  /\ session[p].captions = "listening"
  /\ Send(p, [type |-> "POST", post |-> [kind |-> "CAPTION", room |-> session[p].room]])
  /\ UNCHANGED session

\* onerror with an error that retrying does not help, or onend, which restarts the
\* recogniser when the timer fires.
recognitionEnds(p) ==
  /\ Act(p, {"broadcaster"})
  /\ session[p].captions = "listening"
  /\ \E c \in {"failed", "waiting"} : Become(p, [session[p] EXCEPT !.captions = c])
  /\ UNCHANGED toServer

restartTimer(p) ==
  /\ session[p].captions = "waiting"
  /\ Become(p, [session[p] EXCEPT !.captions = "listening"])
  /\ UNCHANGED <<socketVars, roomVars, starts, acts, drops, severed>>

kickButton(p) ==
  /\ Act(p, {"broadcaster"})
  /\ \E v \in session[p].viewers :
       Send(p, [type |-> "KICK_VIEWER", room |-> session[p].room, viewer |-> v])
  /\ UNCHANGED session

\* Nothing changes on the page until the server's STREAM_ENDED.
endStream(p) ==
  /\ session[p].role = "broadcaster"
  /\ \A i \in 1..Len(toServer[SocketOf(p)]) : toServer[SocketOf(p)][i].type # "END_STREAM"
  /\ Send(p, [type |-> "END_STREAM", room |-> session[p].room])
  /\ UNCHANGED <<connection, toPage, roomVars, sessionVars>>

\* The page's socket closes, its last messages lost or not, and a new one connects.
Reconnect(p, lost) ==
  /\ connection[p] < MaxConnections[p]
  /\ connection' = [connection EXCEPT ![p] = @ + 1]
  /\ \E n \in lost :
       toServer' = [toServer EXCEPT ![SocketOf(p)] =
                      SubSeq(@, 1, Len(@) - n) \o <<[type |-> "disconnect"]>>]
  /\ toPage' = [toPage EXCEPT ![p] = <<>>]

leaveStream(p) ==
  /\ session[p].role = "viewer"
  /\ Reconnect(p, {0})
  /\ Become(p, resetSessionState(session[p]))
  /\ severed' = severed \ {p}
  /\ UNCHANGED <<roomVars, starts, acts, drops>>

\* The page is left and opened again.
pageLeft(p) ==
  /\ session[p] # Fresh
  /\ Reconnect(p, {0})
  /\ Become(p, Fresh)
  /\ severed' = severed \ {p}
  /\ UNCHANGED <<roomVars, starts, acts, drops>>

\* socket.io connects again by itself; the hook only notes isSocketConnected.
connectionLost(p) ==
  /\ drops < MaxDrops
  /\ drops' = drops + 1
  /\ Reconnect(p, 0..Len(toServer[SocketOf(p)]))
  /\ severed' = IF session[p].role # "none" \/ (Pending(p) /\ ~session[p].asking)
                THEN severed \cup {p} ELSE severed
  /\ UNCHANGED <<roomVars, session, starts, acts>>

-----------------------------------------------------------------------------
Receive(p, type) ==
  /\ toPage[p] # <<>>
  /\ Head(toPage[p]).type = type
  /\ toPage' = [toPage EXCEPT ![p] = Tail(@)]
  /\ UNCHANGED <<connection, toServer, roomVars, starts, acts, drops>>

onStreamCreated(p) ==
  /\ Receive(p, "STREAM_CREATED")
  /\ Become(p, [session[p] EXCEPT !.role = "broadcaster", !.creating = FALSE,
                                  !.room = Head(toPage[p]).room, !.captions = "listening"])
  /\ UNCHANGED severed

onJoinError(p) ==
  /\ Receive(p, "JOIN_ERROR")
  /\ Become(p, [session[p] EXCEPT !.creating = FALSE, !.joining = FALSE])
  /\ UNCHANGED severed

\* createPeerConnection closes the one before, whose handlers never resume.
withPeer(x, s, signalling) == [x EXCEPT !.peers[s] = signalling]

onViewerJoined(p) ==
  /\ Receive(p, "VIEWER_JOINED")
  /\ LET v == Head(toPage[p]).viewer IN
       Become(p, withPeer([session[p] EXCEPT !.viewers = @ \cup {v}], v, "offering"))
  /\ UNCHANGED severed

onViewerLeft(p) ==
  /\ Receive(p, "VIEWER_LEFT")
  /\ LET v == Head(toPage[p]).viewer IN
       Become(p, withPeer([session[p] EXCEPT !.viewers = @ \ {v}], v, "none"))
  /\ UNCHANGED severed

onStreamJoined(p) ==
  /\ Receive(p, "STREAM_JOINED")
  /\ LET m == Head(toPage[p]) IN
       Become(p, withPeer([session[p] EXCEPT !.role = "viewer", !.joining = FALSE,
                             !.room = m.room, !.count = m.count, !.shown = m.track],
                          m.broadcaster, "new"))
  /\ UNCHANGED severed

\* Taken from whoever sends it, in a stream or not.
onSdpOffer(p) ==
  /\ Receive(p, "SDP_OFFER")
  /\ Become(p, withPeer(session[p], Head(toPage[p]).sender, "answering"))
  /\ UNCHANGED severed

\* Only a connection that has made an offer accepts an answer.
onSdpAnswer(p) ==
  /\ Receive(p, "SDP_ANSWER")
  /\ LET s == Head(toPage[p]).sender IN
       Become(p, IF session[p].peers[s] = "offered"
                 THEN withPeer(session[p], s, "accepting") ELSE session[p])
  /\ UNCHANGED severed

\* The awaits of the session descriptions resolve.
describe(p) ==
  /\ \E s \in Socket :
       \/ /\ session[p].peers[s] = "offering"
          /\ Become(p, withPeer(session[p], s, "offered"))
          /\ Send(p, [type |-> "SDP_OFFER", target |-> s])
       \/ /\ session[p].peers[s] = "answering"
          /\ Become(p, withPeer(session[p], s, "stable"))
          /\ Send(p, [type |-> "SDP_ANSWER", target |-> s])
       \/ /\ session[p].peers[s] = "accepting"
          /\ Become(p, withPeer(session[p], s, "stable"))
          /\ UNCHANGED toServer
  /\ UNCHANGED <<connection, toPage, roomVars, starts, acts, drops, severed>>

\* onconnectionstatechange: the other end is gone.  A network that fails between two
\* pages that are both there is left out.
peerLost(p) ==
  /\ \E s \in Socket :
       /\ session[p].peers[s] = "stable"
       /\ \A n \in 1..MaxConnections[p] : session[s[1]].peers[<<p, n>>] = "none"
       /\ Become(p, withPeer(session[p], s, "none"))
  /\ UNCHANGED <<socketVars, roomVars, starts, acts, drops, severed>>

onViewerCount(p) ==
  /\ Receive(p, "VIEWER_COUNT")
  /\ Become(p, [session[p] EXCEPT !.count = Head(toPage[p]).count])
  /\ UNCHANGED severed

\* On the broadcaster's page too.
onTrackState(p) ==
  /\ Receive(p, "TRACK_STATE")
  /\ Become(p, [session[p] EXCEPT !.shown = Head(toPage[p]).track])
  /\ UNCHANGED severed

\* CAPTION, NEW_STREAM_MESSAGE and NEW_REACTION.
onPost(p) ==
  /\ Receive(p, "POST")
  /\ Become(p, [session[p] EXCEPT !.posts = @ \cup {Head(toPage[p]).post}])
  /\ UNCHANGED severed

\* STREAM_KICKED and STREAM_ENDED.
onStreamOver(p) ==
  /\ \E type \in {"STREAM_KICKED", "STREAM_ENDED"} : Receive(p, type)
  /\ Become(p, resetSessionState(session[p]))
  /\ severed' = severed \ {p}

PageHandler(p) ==
  \/ onStreamCreated(p)
  \/ onJoinError(p)
  \/ onViewerJoined(p)
  \/ onViewerLeft(p)
  \/ onStreamJoined(p)
  \/ onSdpOffer(p)
  \/ onSdpAnswer(p)
  \/ describe(p)
  \/ onViewerCount(p)
  \/ onTrackState(p)
  \/ onPost(p)
  \/ onStreamOver(p)

UserStep(p) ==
  \/ createStream(p)
  \/ mediaAcquired(p)
  \/ mediaRefused(p)
  \/ joinStream(p)
  \/ toggleMic(p)
  \/ openPicker(p)
  \/ screenPicked(p)
  \/ stopSharing(p)
  \/ screenEnded(p)
  \/ sendPost(p)
  \/ captionHeard(p)
  \/ recognitionEnds(p)
  \/ restartTimer(p)
  \/ kickButton(p)
  \/ endStream(p)
  \/ leaveStream(p)
  \/ pageLeft(p)
  \/ connectionLost(p)
  \/ peerLost(p)
=============================================================================
