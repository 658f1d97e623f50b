----------------------------- MODULE FileSender -----------------------------
(***************************************************************************)
(* The sending half of usePeerConnection: broadcastFiles takes the open    *)
(* channels once and streams the queue one file after another with         *)
(* sendOneFile, which suspends at each of its awaits (the file id, the     *)
(* wait for FILE_ACCEPT, waitForUnblock, reading the next slice).          *)
(***************************************************************************)
EXTENDS TransferChannel, FiniteSets

CONSTANTS
  Queues,        \* the selections a user can drop in: sequences of files
  BufferHigh,    \* BUFFER_HIGH_WATERMARK, in messages
  MaxPauses,     \* bound: how often the user pauses
  MaxBroadcasts  \* bound: how many selections are sent

ASSUME SenderAssumption ==
  /\ Queues \subseteq Seq(File) \ {<<>>}
  /\ BufferHigh \in Nat
  /\ MaxPauses \in Nat
  /\ MaxBroadcasts \in Nat

VARIABLES
  pc,          \* where broadcastFiles is suspended
  todo,        \* the files still to send, the current one first
  targets,     \* the channels captured when the broadcast started
  lost,        \* those of them that have closed since
  clogged,     \* those of them with a full buffer: bufferedAmount never changes again
  offset,      \* the next chunk sendOneFile streams
  resumeAt,    \* resumeOffsetsRef: the offset each FILE_ACCEPT reported
  userPaused,  \* isUserPausedRef
  slowPeers,   \* backpressurePeersRef
  activeSend,  \* activeSendFileIdRef
  closing,     \* closed channels whose peer is not cleaned up yet
  pauses,      \* number of pauses so far (bound)
  broadcasts   \* number of broadcasts so far (bound)

senderVars == <<pc, todo, targets, lost, clogged, offset, resumeAt,
                userPaused, slowPeers, activeSend, closing, pauses, broadcasts>>

Phase == {"idle", "hash", "accept", "loop", "blocked", "read"}

SenderTypeOK ==
  /\ pc \in Phase
  /\ todo \in Seq(File)
  /\ targets \subseteq Receiver
  /\ lost \subseteq targets
  /\ clogged \subseteq lost
  /\ offset \in Nat
  /\ resumeAt \in [File -> Nat \cup {None}]
  /\ userPaused \in BOOLEAN
  /\ slowPeers \subseteq Receiver
  /\ activeSend \in File \cup {None}
  /\ closing \subseteq Receiver
  /\ pauses \in Nat
  /\ broadcasts \in Nat

SenderInit ==
  /\ pc = "idle"
  /\ todo = <<>>
  /\ targets = {}
  /\ lost = {}
  /\ clogged = {}
  /\ offset = 0
  /\ resumeAt = [f \in File |-> None]
  /\ userPaused = FALSE
  /\ slowPeers = {}
  /\ activeSend = None
  /\ closing = {}
  /\ pauses = 0
  /\ broadcasts = 0

isSendBlocked == userPaused \/ slowPeers # {}

Current == Head(todo)

\* channels.forEach(dc => dc.send(m)) for each m of ms, no channel closed.
SendToAll(ms) ==
  /\ lost = {}
  /\ toReceiver' = [r \in Receiver |->
                      IF r \in targets THEN toReceiver[r] \o ms ELSE toReceiver[r]]

\* send() on a closed channel throws: the channels before it in the forEach
\* have the message, sendOneFile rejects and broadcastFiles gives up.
SendThrows(m) ==
  /\ lost # {}
  /\ \E reached \in SUBSET (targets \ lost) :
       toReceiver' = [r \in Receiver |->
                        IF r \in reached THEN Append(toReceiver[r], m) ELSE toReceiver[r]]
  /\ pc' = "idle"
  /\ todo' = <<>>
  /\ targets' = {}
  /\ lost' = {}
  /\ clogged' = {}

broadcastFiles ==
  /\ pc = "idle"
  /\ broadcasts < MaxBroadcasts
  /\ \E r \in Receiver : link[r]
  /\ targets' = {r \in Receiver : link[r]}
  /\ todo' \in Queues
  /\ pc' = "hash"
  /\ broadcasts' = broadcasts + 1
  /\ UNCHANGED <<lost, clogged, offset, resumeAt, userPaused, slowPeers,
                 activeSend, closing, pauses, channelVars>>

\* computeFileId resolved: announce the file, and a pause still in force.
offerFile ==
  /\ pc = "hash"
  /\ activeSend' = Current
  /\ resumeAt' = [resumeAt EXCEPT ![Current] = None]
  /\ \/ /\ SendToAll(IF userPaused THEN <<Offer(Current), Paused(Current)>>
                                   ELSE <<Offer(Current)>>)
        /\ pc' = IF Cardinality(targets) = 1 THEN "accept" ELSE "loop"
        /\ offset' = 0
        /\ UNCHANGED <<todo, targets, lost, clogged>>
     \/ SendThrows(Offer(Current)) /\ UNCHANGED offset
  /\ UNCHANGED <<userPaused, slowPeers, closing, pauses, broadcasts, link,
                 toSender>>

\* Mutant: the offset of FILE_ACCEPT is ignored.
acceptWaitOverFromZero ==
  /\ pc = "accept"
  /\ offset' = 0
  /\ pc' = "loop"
  /\ UNCHANGED <<todo, targets, lost, clogged, resumeAt, userPaused, slowPeers,
                 activeSend, closing, pauses, broadcasts, channelVars>>

\* RESUME_ACCEPT_WAIT_MS is over, whether FILE_ACCEPT has arrived or not.
acceptWaitOver ==
  /\ pc = "accept"
  /\ offset' = IF resumeAt[Current] = None THEN 0 ELSE resumeAt[Current]
  /\ pc' = "loop"
  /\ UNCHANGED <<todo, targets, lost, clogged, resumeAt, userPaused, slowPeers,
                 activeSend, closing, pauses, broadcasts, channelVars>>

waitForUnblock ==
  /\ pc = "loop"
  /\ offset < Size[Current]
  /\ isSendBlocked
  /\ pc' = "blocked"
  /\ UNCHANGED <<todo, targets, lost, clogged, offset, resumeAt, userPaused,
                 slowPeers, activeSend, closing, pauses, broadcasts,
                 channelVars>>

readSlice ==
  /\ pc = "loop"
  /\ offset < Size[Current]
  /\ ~isSendBlocked
  /\ clogged = {}
  /\ \A r \in targets \ lost : Len(toReceiver[r]) <= BufferHigh
  /\ pc' = "read"
  /\ UNCHANGED <<todo, targets, lost, clogged, offset, resumeAt, userPaused,
                 slowPeers, activeSend, closing, pauses, broadcasts,
                 channelVars>>

\* slice.arrayBuffer() resolved; nothing is re-checked before the chunk goes.
sendChunk ==
  /\ pc = "read"
  /\ \/ /\ SendToAll(<<Chunk(Current, offset)>>)
        /\ offset' = offset + 1
        /\ pc' = "loop"
        /\ UNCHANGED <<todo, targets, lost, clogged>>
     \/ SendThrows(Chunk(Current, offset)) /\ UNCHANGED offset
  /\ UNCHANGED <<resumeAt, userPaused, slowPeers, activeSend, closing, pauses,
                 broadcasts, link, toSender>>

completeFile ==
  /\ pc = "loop"
  /\ offset >= Size[Current]
  /\ \/ /\ SendToAll(<<Complete(Current)>>)
        /\ resumeAt' = [resumeAt EXCEPT ![Current] = None]
        /\ activeSend' = None
        /\ todo' = Tail(todo)
        /\ pc' = IF Tail(todo) = <<>> THEN "idle" ELSE "hash"
        /\ targets' = IF Tail(todo) = <<>> THEN {} ELSE targets
        /\ UNCHANGED <<lost, clogged>>
     \/ SendThrows(Complete(Current)) /\ UNCHANGED <<resumeAt, activeSend>>
  /\ UNCHANGED <<offset, userPaused, slowPeers, closing, pauses, broadcasts,
                 link, toSender>>

\* Mutant: the call of notifyMaybeUnblocked is forgotten.
NotifiedNever(p) == p

\* notifyMaybeUnblocked: a loop waiting in waitForUnblock looks again.
Notified(p) == IF p = "blocked" THEN "loop" ELSE p

TellOpenChannels(m) ==
  toReceiver' = [r \in Receiver |->
                   IF link[r] THEN Append(toReceiver[r], m) ELSE toReceiver[r]]

pauseSend ==
  /\ ~userPaused
  /\ activeSend # None
  /\ pauses < MaxPauses
  /\ userPaused' = TRUE
  /\ pauses' = pauses + 1
  /\ TellOpenChannels(Paused(activeSend))
  /\ UNCHANGED <<pc, todo, targets, lost, clogged, offset, resumeAt, slowPeers,
                 activeSend, closing, broadcasts, link, toSender>>

resumeSend ==
  /\ userPaused
  /\ activeSend # None
  /\ userPaused' = FALSE
  /\ pc' = Notified(pc)
  /\ TellOpenChannels(Resumed(activeSend))
  /\ UNCHANGED <<todo, targets, lost, clogged, offset, resumeAt, slowPeers,
                 activeSend, closing, pauses, broadcasts, link, toSender>>

\* dc.onmessage on the sender's side of the channel to r.
onAccept(r) ==
  /\ toSender[r] # <<>>
  /\ LET m == Head(toSender[r]) IN
       /\ m.type = "FILE_ACCEPT"
       /\ resumeAt' = [resumeAt EXCEPT ![m.file] = m.start]
  /\ toSender' = [toSender EXCEPT ![r] = Tail(@)]
  /\ UNCHANGED <<pc, todo, targets, lost, clogged, offset, userPaused,
                 slowPeers, activeSend, closing, pauses, broadcasts, link,
                 toReceiver>>

\* Mutant: a signal is only honoured for the file being sent.
onBackpressureGated(r) ==
  /\ toSender[r] # <<>>
  /\ LET m == Head(toSender[r]) IN
       /\ m.type = "WRITE_BACKPRESSURE"
       /\ slowPeers' = IF m.file # activeSend THEN slowPeers
                       ELSE IF m.engaged THEN slowPeers \cup {r} ELSE slowPeers \ {r}
  /\ pc' = Notified(pc)
  /\ toSender' = [toSender EXCEPT ![r] = Tail(@)]
  /\ UNCHANGED <<todo, targets, lost, clogged, offset, resumeAt, userPaused,
                 activeSend, closing, pauses, broadcasts, link, toReceiver>>

onBackpressure(r) ==
  /\ toSender[r] # <<>>
  /\ LET m == Head(toSender[r]) IN
       /\ m.type = "WRITE_BACKPRESSURE"
       /\ slowPeers' = IF m.engaged THEN slowPeers \cup {r} ELSE slowPeers \ {r}
  /\ pc' = Notified(pc)
  /\ toSender' = [toSender EXCEPT ![r] = Tail(@)]
  /\ UNCHANGED <<todo, targets, lost, clogged, offset, resumeAt, userPaused,
                 activeSend, closing, pauses, broadcasts, link, toReceiver>>

\* Mutant: closePeer leaves the peer in backpressurePeersRef.
closePeerKeepsSlow(r) ==
  /\ r \in closing
  /\ closing' = closing \ {r}
  /\ UNCHANGED <<pc, todo, targets, lost, clogged, offset, resumeAt, userPaused,
                 slowPeers, activeSend, pauses, broadcasts, channelVars>>

\* closePeer(r), on a failed connection or on LEAVE_ROOM, after the channel closed.
closePeer(r) ==
  /\ r \in closing
  /\ closing' = closing \ {r}
  /\ slowPeers' = slowPeers \ {r}
  /\ pc' = IF r \in slowPeers THEN Notified(pc) ELSE pc
  /\ UNCHANGED <<todo, targets, lost, clogged, offset, resumeAt, userPaused,
                 activeSend, pauses, broadcasts, channelVars>>

SenderLoop ==
  \/ offerFile
  \/ acceptWaitOver
  \/ waitForUnblock
  \/ readSlice
  \/ sendChunk
  \/ completeFile

SenderHandler(r) == onAccept(r) \/ onBackpressure(r) \/ closePeer(r)

SenderNext ==
  \/ broadcastFiles
  \/ SenderLoop
  \/ pauseSend
  \/ resumeSend
  \/ \E r \in Receiver : SenderHandler(r)
=============================================================================
