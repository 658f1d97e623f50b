---------------------------- MODULE FileTransfer ----------------------------
(***************************************************************************)
(* File sharing in one room: a sending page, the receiving pages with      *)
(* their OPFS workers, and the data channels between them, under page      *)
(* reloads on either side.  The comments in usePeerConnection state what   *)
(* the parts promise each other; the properties below say it of the whole. *)
(***************************************************************************)
EXTENDS FileSender, FileReceiver

CONSTANTS
  TimelyAccept,        \* TRUE: a receiver answers FILE_OFFER in RESUME_ACCEPT_WAIT_MS
  MaxSenderReloads,    \* bound: how often the sending page is left and reopened
  MaxReceiverReloads,  \* bound: how often receiving pages are, in total
  DrainedReload        \* TRUE: a page is only left with no write waiting in its worker

ASSUME TransferAssumption ==
  /\ TimelyAccept \in BOOLEAN
  /\ MaxSenderReloads \in Nat
  /\ MaxReceiverReloads \in Nat
  /\ DrainedReload \in BOOLEAN

VARIABLES
  senderReloads,   \* number of reloads of the sending page so far (bound)
  receiverReloads  \* number of reloads of receiving pages so far (bound)

reloadVars == <<senderReloads, receiverReloads>>

vars == <<channelVars, senderVars, workerVars, receiverVars, reloadVars>>

TypeOK ==
  /\ ChannelTypeOK
  /\ SenderTypeOK
  /\ WorkerTypeOK
  /\ ReceiverTypeOK
  /\ senderReloads \in Nat
  /\ receiverReloads \in Nat

Init ==
  /\ ChannelInit
  /\ SenderInit
  /\ WorkerInit
  /\ ReceiverInit
  /\ senderReloads = 0
  /\ receiverReloads = 0

\* The offer has been dealt with: accepted or given up, with nothing in flight.
OfferSettled(r) ==
  /\ \A i \in 1..Len(toReceiver[r]) : toReceiver[r][i].type # "FILE_OFFER"
  /\ \A h \in offers[r] : h.channel # "open"
  /\ \A i \in 1..Len(toSender[r]) : toSender[r][i].type # "FILE_ACCEPT"

\* The sender's timer against the receiver's IndexedDB and OPFS: untimed, unless
\* the receiver is assumed to answer within RESUME_ACCEPT_WAIT_MS.
InTime == TimelyAccept /\ pc = "accept" =>
            pc' = "accept" \/ \A r \in targets \ lost : OfferSettled(r)

OnlySender == UNCHANGED <<workerVars, receiverVars, reloadVars>>

SenderStep == SenderNext /\ InTime /\ OnlySender

ReceiverStep(r) ==
  /\ ReceiverHandler(r)
  /\ UNCHANGED <<senderVars, reloadVars>>

OpfsStep(r) ==
  /\ WorkerStep(r)
  /\ UNCHANGED <<channelVars, senderVars, receiverVars, reloadVars>>

\* The sending page is left and opened again: every channel closes.
SenderReload ==
  /\ senderReloads < MaxSenderReloads
  /\ senderReloads' = senderReloads + 1
  /\ pc' = "idle"
  /\ todo' = <<>>
  /\ targets' = {}
  /\ lost' = {}
  /\ clogged' = {}
  /\ offset' = 0
  /\ resumeAt' = [f \in File |-> None]
  /\ userPaused' = FALSE
  /\ slowPeers' = {}
  /\ activeSend' = None
  /\ closing' = {}
  /\ link' = [r \in Receiver |-> FALSE]
  /\ toReceiver' = [r \in Receiver |-> <<>>]
  /\ toSender' = [r \in Receiver |-> <<>>]
  /\ ChannelsClosed
  /\ UNCHANGED <<pauses, broadcasts, workerVars, receiverReloads>>

WritesWaiting(r) ==
  \E i \in 1..Len(toWorker[r]) : toWorker[r][i].type = "WRITE_CHUNK"

\* The page of r is left and opened again: the sender sees its channel close
\* now and cleans up in closePeer.
ReceiverReload(r) ==
  /\ receiverReloads < MaxReceiverReloads
  /\ DrainedReload => ~WritesWaiting(r)
  /\ receiverReloads' = receiverReloads + 1
  /\ PageReloaded(r)
  /\ link' = [link EXCEPT ![r] = FALSE]
  /\ toReceiver' = [toReceiver EXCEPT ![r] = <<>>]
  /\ toSender' = [toSender EXCEPT ![r] = <<>>]
  /\ lost' = lost \cup (targets \cap {r})
  /\ clogged' = IF r \in targets \ lost /\ Len(toReceiver[r]) > BufferHigh
                THEN clogged \cup {r} ELSE clogged
  /\ closing' = IF link[r] THEN closing \cup {r} ELSE closing
  /\ UNCHANGED <<pc, todo, targets, offset, resumeAt, userPaused, slowPeers,
                 activeSend, pauses, broadcasts, senderReloads>>

\* The page of r joins the room again and a new channel opens.
Rejoin(r) ==
  /\ ~link[r]
  /\ r \notin closing
  /\ link' = [link EXCEPT ![r] = TRUE]
  /\ UNCHANGED <<toReceiver, toSender, senderVars, workerVars, receiverVars, reloadVars>>

Next ==
  \/ SenderStep
  \/ \E r \in Receiver :
       \/ ReceiverStep(r)
       \/ OpfsStep(r)
       \/ ReceiverReload(r)
       \/ Rejoin(r)
  \/ SenderReload

\* Everything but the user's choices (what to send, pausing, resuming, reloading
\* and rejoining) is driven by the browsers' event loops.
Fairness ==
  /\ WF_vars(SenderLoop /\ InTime /\ OnlySender)
  /\ \A r \in Receiver :
       /\ WF_vars(SenderHandler(r) /\ OnlySender)
       /\ WF_vars(ReceiverStep(r))
       /\ WF_vars(OpfsStep(r))

Spec == Init /\ [][Next]_vars

FairSpec == Spec /\ Fairness

-----------------------------------------------------------------------------
\* What the user of a receiving page is given is the file the sender offered.
\* (finishReceive hands the download over as complete without checking it.)
DeliveredIntact ==
  \A r \in Receiver : \A d \in delivered[r] : d.data = Whole(d.file)

ChunksBefore(queue, n) == {i \in 1..(n - 1) : queue[i].type = "CHUNK"}

\* Each chunk on its way to a page that is ready for it belongs to the file the page
\* receives, and will arrive when the page has counted as many as come before it: the
\* page numbers chunks by counting them from startOffset, the sender from its own offset.
Aligned ==
  \A r \in Receiver : ready[r] =>
    \A i \in 1..Len(toReceiver[r]) : toReceiver[r][i].type = "CHUNK" =>
      toReceiver[r][i].data =
        [file |-> meta[r], index |-> total[r] + Cardinality(ChunksBefore(toReceiver[r], i))]

\* What is on disk is a prefix of the file: no hole, nothing in the wrong place.
DiskIsPrefix ==
  \A r \in Receiver, f \in File :
    disk[r][f] = SubSeq(Whole(f), 1, Len(disk[r][f]))

WritesOf(r, f) ==
  {i \in 1..Len(toWorker[r]) : toWorker[r][i].type = "WRITE_CHUNK" /\ toWorker[r][i].file = f}

\* A transfer record never claims more than the disk holds and the worker is
\* about to write, so that "resume from the last written byte" can be kept.
RecordBacked ==
  \A r \in Receiver, f \in File :
    record[r][f] # None => record[r][f] <= Len(disk[r][f]) + Cardinality(WritesOf(r, f))

\* When a download that is not the sender's file starts, the user has been shown
\* an error: the write that failed has reached the onWriteError listener.
CorruptionReported ==
  \A r \in Receiver : \A d \in delivered[r] : d.data = Whole(d.file) \/ d.warned

Signals(r) == {i \in 1..Len(toSender[r]) : toSender[r][i].type = "WRITE_BACKPRESSURE"}

\* Sender and receiver agree on backpressure, signals in flight counted: the last one
\* says what the receiver has decided, and the sender believes it when there is none. A
\* stale "engaged" that nobody will release would hold up the send loop for ever.
BackpressureAgreed ==
  \A r \in Receiver : link[r] =>
    /\ Signals(r) = {} => (r \in slowPeers <=> engaged[r])
    /\ \A i \in Signals(r) :
         (\A j \in Signals(r) : j <= i) => toSender[r][i].engaged = engaged[r]

\* A peer that has left counts as slow only until closePeer has run for it, so
\* it cannot keep the send loop blocked, nor pass its state on when it rejoins.
DepartedPeersCleaned ==
  \A r \in slowPeers : link[r] \/ r \in closing

\* The send loop waits in waitForUnblock only while something blocks it: every
\* handler that lifts the last reason wakes it (notifyMaybeUnblocked).
NoLostWakeup == pc = "blocked" => isSendBlocked

\* Every broadcast comes to an end, unless the user leaves it paused, a write
\* fails (nothing then lowers the lag, so backpressure may stay engaged) or a peer
\* leaves with its buffer full, which never drains: neither a slow disk nor a
\* peer that is gone keeps the send loop waiting for ever.
SendEnds ==
  pc # "idle" ~> pc = "idle" \/ userPaused \/ faults > 0 \/ clogged # {}

\* Every receiver a broadcast is sent to gets its download or an error, unless it
\* leaves or the user leaves the broadcast paused.
EveryoneServed ==
  \A r \in Receiver :
    r \in targets \ lost ~> delivered[r] # {} \/ error[r] \/ ~link[r] \/ userPaused

=============================================================================
