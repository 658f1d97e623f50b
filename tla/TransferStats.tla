---------------------------- MODULE TransferStats ----------------------------
(***************************************************************************)
(* What the dashboard is told of a transfer: the progress and backpressure *)
(* reports of the two pages of a file room (usePeerConnection) and the     *)
(* part of StatsService that keeps them.  One page sends a queue of files  *)
(* to the other; of the transfer itself (see FileTransfer) only what the   *)
(* reports tell apart is kept: every chunk arrives and is written, and a   *)
(* FILE_OFFER or TRANSFER_COMPLETE is handled in one step.  A throttle is  *)
(* a choice: the last report may or may not be long enough ago.            *)
(***************************************************************************)
EXTENDS Naturals, Sequences, FiniteSets

CONSTANTS
  Size,          \* the files of the queue, in chunks
  None,          \* null and undefined
  HighLag,       \* WRITE_LAG_HIGH_WATERMARK, in chunks
  LowLag,        \* WRITE_LAG_LOW_WATERMARK, in chunks
  MaxPauses,     \* bound: how often the user pauses
  MaxReports,    \* bound: a page's reports under way
  MaxCounting    \* bound: the server's additions under way

\* broadcastFiles returns at once when there are no files.
ASSUME TransferStatsAssumption ==
  /\ Size \in Seq(Nat \ {0}) /\ Size # <<>>
  /\ HighLag \in Nat /\ LowLag \in Nat
  /\ {MaxPauses, MaxReports, MaxCounting} \subseteq Nat
  /\ None \notin Nat \cup BOOLEAN

VARIABLES
  sending,     \* the refs of the sending page and where its send loop is
  receiving,   \* the variables of the receiving page
  channel,     \* the data channel to the receiver
  signals,     \* WRITE_BACKPRESSURE on its way back: engaged or not
  pauses,      \* how often the user has paused
  open,        \* the pages that are open
  reports,     \* reports[p]: what page p has told the signaling server
  peers,       \* the peerCount of the room's entry, which goes with the last of them
  transfers,   \* the room's transfers: an entry or None for each socket and direction
  timers,      \* the timers that remove finished transfers
  counting,    \* recordFileTransferProgress at its await: what is still to be added
  total,       \* stats:total:fileBytes
  removed,     \* history: the transfers that were removed as finished
  retold       \* history: one of them was reported again

pageVars == <<sending, receiving, channel, signals, pauses, open>>
statsVars == <<peers, transfers, timers, counting, total, removed, retold>>

Page == {"sender", "receiver"}
File == 1..Len(Size)

\* Of the two keys in use: the sender's socket sends, the receiver's receives.
Direction == [sender |-> "send", receiver |-> "receive"]
Key == {"send", "receive"}

Progress == [type : {"PROGRESS"}, file : File, bytes : Nat, paused : BOOLEAN \cup {None}]
Backpressure == [type : {"BACKPRESSURE"}, file : File, engaged : BOOLEAN]
Report == Progress \cup Backpressure \cup [type : {"disconnect"}]

\* ActiveFileTransferStat.
Transfer ==
  [file : File, bytes : Nat, paused : BOOLEAN \cup {None}, engaged : BOOLEAN \cup {None}]

\* lastSendProgressRef.
SendProgress == [file : File, bytes : Nat]

\* null is neither of the two objects.
ASSUME NullAssumption == None \notin SendProgress \cup Transfer

Sending ==
  [step : {"idle", "waiting", "loop", "reading", "next", "done", "failed"},
   file : 0..Len(Size), offset : Nat, paused : BOOLEAN, slow : BOOLEAN,
   last : SendProgress \cup {None}]

Receiving ==
  [file : 0..Len(Size), active : BOOLEAN, total : Nat, confirmed : Nat, engaged : BOOLEAN]

TypeOK ==
  /\ sending \in Sending
  /\ receiving \in Receiving
  /\ channel \in Seq({"FILE_OFFER", "CHUNK", "TRANSFER_COMPLETE"})
  /\ signals \in Seq(BOOLEAN)
  /\ pauses \in 0..MaxPauses
  /\ open \subseteq Page
  /\ reports \in [Page -> Seq(Report)]
  /\ peers \subseteq Page
  /\ transfers \in [Key -> Transfer \cup {None}]
  /\ timers \subseteq [key : Key, bytes : Nat]
  /\ counting \in Seq(Nat \ {0})
  /\ total \in Nat
  /\ removed \subseteq Key \X File
  /\ retold \in BOOLEAN

Init ==
  /\ sending = [step |-> "idle", file |-> 0, offset |-> 0, paused |-> FALSE,
                slow |-> FALSE, last |-> None]
  /\ receiving = [file |-> 0, active |-> FALSE, total |-> 0, confirmed |-> 0,
                  engaged |-> FALSE]
  /\ channel = <<>>
  /\ signals = <<>>
  /\ pauses = 0
  /\ open = Page
  /\ reports = [p \in Page |-> <<>>]
  /\ peers = Page
  /\ transfers = [k \in Key |-> None]
  /\ timers = {}
  /\ counting = <<>>
  /\ total = 0
  /\ removed = {}
  /\ retold = FALSE

-----------------------------------------------------------------------------
\* The sending page.

isSendBlocked(x) == x.paused \/ x.slow

\* activeSendFileIdRef, which stays set when a send throws.
Active(x) == x.step \in {"waiting", "loop", "reading", "failed"}

Tell(p, more) ==
  /\ Len(reports[p]) + Len(more) <= MaxReports
  /\ reports' = [reports EXCEPT ![p] = @ \o more]

reportTransferProgress(file, bytes, paused) ==
  <<[type |-> "PROGRESS", file |-> file, bytes |-> bytes, paused |-> paused]>>

flushSendProgressNow(x, paused) ==
  Tell("sender", IF x.last = None THEN <<>>
                 ELSE reportTransferProgress(x.last.file, x.last.bytes, paused))

\* The sender's page goes on to x and flushes.
Flushed(x, paused) == sending' = x /\ flushSendProgressNow(x, paused)

\* sendOneFile, up to the wait for FILE_ACCEPT.
offerFile ==
  /\ sending.step \in {"idle", "next"}
  /\ "receiver" \in open
  /\ sending' = [sending EXCEPT !.step = "waiting", !.file = @ + 1, !.offset = 0]
  /\ channel' = Append(channel, "FILE_OFFER")
  /\ UNCHANGED <<receiving, signals, pauses, open, reports>>

acceptWaitOver ==
  /\ sending.step = "waiting"
  /\ sending' = [sending EXCEPT !.step = "loop", !.last = [file |-> sending.file, bytes |-> 0]]
  /\ UNCHANGED <<receiving, channel, signals, pauses, open, reports>>

\* One turn of the loop up to slice.arrayBuffer, unless it waits to be unblocked.
readSlice ==
  /\ sending.step = "loop"
  /\ ~isSendBlocked(sending)
  /\ sending' = [sending EXCEPT !.step = "reading"]
  /\ UNCHANGED <<receiving, channel, signals, pauses, open, reports>>

\* Mutant: one file too many.
NextFileOffByOne == IF sending.file <= Len(Size) THEN "next" ELSE "done"

NextFile == IF sending.file < Len(Size) THEN "next" ELSE "done"

\* The chunk has been read and is sent, whether the user has paused by now or not;
\* after the last one the file is complete.
sendChunk ==
  /\ sending.step = "reading"
  /\ "receiver" \in open
  /\ LET sent == sending.offset + 1
         last == sent = Size[sending.file] IN
       /\ sending' = [sending EXCEPT !.offset = sent,
                        !.last = [file |-> sending.file, bytes |-> sent],
                        !.step = IF last THEN NextFile ELSE "loop"]
       /\ channel' = channel \o (IF last THEN <<"CHUNK", "TRANSFER_COMPLETE">> ELSE <<"CHUNK">>)
       /\ \E due \in BOOLEAN :
            Tell("sender", IF last \/ due THEN reportTransferProgress(sending.file, sent, FALSE)
                           ELSE <<>>)
  /\ UNCHANGED <<receiving, signals, pauses, open>>

\* dc.send on a closed channel throws, and the broadcast is over.
sendThrows ==
  /\ sending.step \in {"next", "reading"}
  /\ "receiver" \notin open
  /\ sending' = [sending EXCEPT !.step = "failed"]
  /\ UNCHANGED <<receiving, channel, signals, pauses, open, reports>>

pauseSend ==
  /\ pauses < MaxPauses
  /\ ~sending.paused
  /\ Active(sending)
  /\ pauses' = pauses + 1
  /\ Flushed([sending EXCEPT !.paused = TRUE], TRUE)
  /\ UNCHANGED <<receiving, channel, signals, open>>

resumeSend ==
  /\ sending.paused
  /\ Active(sending)
  /\ LET x == [sending EXCEPT !.paused = FALSE] IN Flushed(x, isSendBlocked(x))
  /\ UNCHANGED <<receiving, channel, signals, pauses, open>>

onBackpressure ==
  /\ signals # <<>>
  /\ signals' = Tail(signals)
  /\ LET x == [sending EXCEPT !.slow = Head(signals)] IN Flushed(x, isSendBlocked(x))
  /\ UNCHANGED <<receiving, channel, pauses, open>>

\* Mutant: the sender goes on, and tells nobody.
closePeerUnflushed ==
  /\ "receiver" \notin open
  /\ sending.slow
  /\ sending' = [sending EXCEPT !.slow = FALSE]
  /\ UNCHANGED <<receiving, channel, signals, pauses, open, reports>>

\* The receiver has gone: closePeer, as far as it has backpressure to lift.
closePeer ==
  /\ "receiver" \notin open
  /\ sending.slow
  /\ LET x == [sending EXCEPT !.slow = FALSE] IN Flushed(x, isSendBlocked(x))
  /\ UNCHANGED <<receiving, channel, signals, pauses, open>>

SenderStep ==
  /\ "sender" \in open
  /\ \/ offerFile
     \/ acceptWaitOver
     \/ readSlice
     \/ sendChunk
     \/ sendThrows
     \/ pauseSend
     \/ resumeSend
     \/ onBackpressure
     \/ closePeer
  /\ UNCHANGED statsVars

-----------------------------------------------------------------------------
\* The receiving page.

EngagedAfter(x) ==
  LET lag == x.total - x.confirmed IN
  IF x.engaged THEN ~(lag < LowLag) ELSE lag > HighLag

\* The receiver's page goes on to x; it announces a crossed watermark, and reports
\* its lag then and from time to time, after the reports made before it.
reportWriteLag(x, before) ==
  LET engaged == EngagedAfter(x)
      transitioned == engaged # x.engaged IN
    /\ receiving' = [x EXCEPT !.engaged = engaged]
    /\ signals' = IF transitioned THEN Append(signals, engaged) ELSE signals
    /\ \E due \in BOOLEAN :
         Tell("receiver", before \o
           (IF transitioned \/ due
            THEN <<[type |-> "BACKPRESSURE", file |-> x.file, engaged |-> engaged]>> ELSE <<>>))

Arrives(m) ==
  /\ channel # <<>>
  /\ Head(channel) = m
  /\ channel' = Tail(channel)

onOffer ==
  /\ Arrives("FILE_OFFER")
  /\ receiving' = [file |-> receiving.file + 1, active |-> TRUE, total |-> 0, confirmed |-> 0,
                   engaged |-> FALSE]
  /\ UNCHANGED <<sending, signals, pauses, open, reports>>

\* processIncomingChunk.
onChunk ==
  /\ Arrives("CHUNK")
  /\ LET x == [receiving EXCEPT !.total = @ + 1] IN
       \/ reportWriteLag(x, reportTransferProgress(x.file, x.total, None))
       \/ /\ x.total < Size[x.file]
          /\ receiving' = x
          /\ UNCHANGED <<signals, reports>>
  /\ UNCHANGED <<sending, pauses, open>>

\* The worker confirms a write.
onChunkWritten ==
  /\ receiving.active
  /\ receiving.confirmed < receiving.total
  /\ reportWriteLag([receiving EXCEPT !.confirmed = @ + 1], <<>>)
  /\ UNCHANGED <<sending, channel, pauses, open>>

\* finishReceive: the worker closes the file after its last write.
onComplete ==
  /\ Arrives("TRANSFER_COMPLETE")
  /\ receiving.confirmed = receiving.total
  /\ receiving' = [receiving EXCEPT !.active = FALSE]
  /\ UNCHANGED <<sending, signals, pauses, open, reports>>

ReceiverStep ==
  /\ "receiver" \in open
  /\ onOffer \/ onChunk \/ onChunkWritten \/ onComplete
  /\ UNCHANGED statsVars

\* A page is closed: the channel with it, and its socket.
PageLeft(p) ==
  /\ p \in open
  /\ open' = open \ {p}
  /\ channel' = <<>>
  /\ signals' = <<>>
  /\ Tell(p, <<[type |-> "disconnect"]>>)
  /\ UNCHANGED <<sending, receiving, pauses, statsVars>>

-----------------------------------------------------------------------------
\* FileGateway and StatsService.

Arrived(p, type) ==
  /\ reports[p] # <<>>
  /\ Head(reports[p]).type = type
  /\ reports' = [reports EXCEPT ![p] = Tail(@)]

Delta(k, bytes) ==
  LET previous == IF transfers[k] = None THEN 0 ELSE transfers[k].bytes IN
  IF bytes > previous THEN bytes - previous ELSE 0

\* "given ?? previous?.field"
Or(given, k, field) ==
  IF given # None \/ transfers[k] = None THEN given ELSE transfers[k][field]

\* Up to the await: the entry, the timer of a finished transfer and what is to be
\* added.  A transfer that was finished and removed is counted once more.
recordFileTransferProgress(k, m) ==
  /\ transfers' = [transfers EXCEPT ![k] =
       [file |-> m.file, bytes |-> m.bytes,
        paused |-> Or(m.paused, k, "paused"), engaged |-> Or(None, k, "engaged")]]
  /\ timers' = IF m.bytes >= Size[m.file] THEN timers \cup {[key |-> k, bytes |-> m.bytes]}
               ELSE timers
  /\ counting' = IF Delta(k, m.bytes) > 0 THEN Append(counting, Delta(k, m.bytes)) ELSE counting
  /\ retold' = (retold \/ (transfers[k] = None /\ <<k, m.file>> \in removed))

\* FILE_TRANSFER_PROGRESS.  The room is there: it goes with its last peer.
handleFileTransferProgress(p) ==
  /\ Arrived(p, "PROGRESS")
  /\ Len(counting) < MaxCounting
  /\ recordFileTransferProgress(Direction[p], Head(reports[p]))
  /\ UNCHANGED <<peers, total, removed>>

\* FILE_TRANSFER_BACKPRESSURE: only a note on an entry there is.
recordFileTransferBackpressure(k, m) ==
  transfers' = IF transfers[k] = None THEN transfers
               ELSE [transfers EXCEPT ![k].engaged = m.engaged, ![k].file = m.file]

handleFileTransferBackpressure(p) ==
  /\ Arrived(p, "BACKPRESSURE")
  /\ recordFileTransferBackpressure(Direction[p], Head(reports[p]))
  /\ UNCHANGED <<peers, timers, counting, total, removed, retold>>

\* setFileRoomPeerCount: the room's entry goes with its last peer.  Its timers stay,
\* and find what they look for in an entry that nothing reads any more.
setFileRoomPeerCount(now) ==
  /\ peers' = now
  /\ transfers' = IF now = {} THEN [k \in Key |-> None] ELSE transfers

handleDisconnect(p) ==
  /\ Arrived(p, "disconnect")
  /\ setFileRoomPeerCount(peers \ {p})
  /\ UNCHANGED <<timers, counting, total, removed, retold>>

\* Mutant: whatever is listed under the key is removed.
timerFiresUnchecked(t) ==
  /\ timers' = timers \ {t}
  /\ transfers' = [transfers EXCEPT ![t.key] = None]
  /\ UNCHANGED <<reports, peers, counting, total, removed, retold>>

\* Three seconds after a transfer was reported as finished.
timerFires(t) ==
  /\ timers' = timers \ {t}
  /\ LET current == transfers[t.key] IN
       IF current # None /\ current.bytes = t.bytes
       THEN /\ transfers' = [transfers EXCEPT ![t.key] = None]
            /\ removed' = removed \cup {<<t.key, current.file>>}
       ELSE UNCHANGED <<transfers, removed>>
  /\ UNCHANGED <<reports, peers, counting, total, retold>>

\* addToBucket resolved: incrby.
bucketWritten ==
  /\ counting # <<>>
  /\ counting' = Tail(counting)
  /\ total' = total + Head(counting)
  /\ UNCHANGED <<reports, peers, transfers, timers, removed, retold>>

StatsStep ==
  /\ \/ \E p \in Page :
          \/ handleFileTransferProgress(p)
          \/ handleFileTransferBackpressure(p)
          \/ handleDisconnect(p)
     \/ \E t \in timers : timerFires(t)
     \/ bucketWritten
  /\ UNCHANGED pageVars

\* getSnapshot, of the room: its entry, its transfers and the bytes of all of them.
getSnapshot ==
  [peerCount |-> Cardinality(peers),
   activeTransfers |-> {[key |-> k, stat |-> transfers[k]] :
                          k \in {k \in Key : transfers[k] # None}},
   totalFileBytesTracked |-> total]

Next ==
  \/ SenderStep
  \/ ReceiverStep
  \/ \E p \in Page : PageLeft(p)
  \/ StatsStep

Spec == Init /\ [][Next]_<<pageVars, reports, statsVars>>

-----------------------------------------------------------------------------
\* A transfer is shown as paused only while something holds the sender back, once
\* its reports have arrived: whatever lifts the last reason is reported as well.
PauseLifted ==
  "sender" \in open /\ reports["sender"] = <<>> =>
    \A t \in getSnapshot.activeTransfers :
      t.key = "send" /\ t.stat.paused => isSendBlocked(sending)

\* The chunks of the files before file f, and n of its own.
Before[f \in 0..Len(Size)] == IF f <= 1 THEN 0 ELSE Before[f - 1] + Size[f - 1]
UpTo(f, n) == Before[f] + n

Listed(k) == IF transfers[k] = None THEN 0 ELSE transfers[k].bytes

\* The bytes counted for good are at least those listed and at most those sent and
\* received, unless a transfer was reported again after it had been removed: no
\* timer of an earlier file makes a running one count twice.
BytesCounted ==
  counting = <<>> /\ ~retold =>
    /\ Listed("send") + Listed("receive") <= total
    /\ total <= UpTo(sending.file, sending.offset) + UpTo(receiving.file, receiving.total)
=============================================================================
