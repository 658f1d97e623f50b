---------------------------- MODULE FileReceiver ----------------------------
(***************************************************************************)
(* The receiving half of usePeerConnection on every receiving page: the    *)
(* data channel's onmessage handlers, which suspend at their awaits and    *)
(* then interleave with each other, with the chunks that keep arriving and *)
(* with the replies of the OPFS worker; the opfsClient listeners; and the  *)
(* transfer records in IndexedDB.                                          *)
(***************************************************************************)
EXTENDS OpfsWorker

CONSTANTS
  OpfsReceiver,  \* the browsers with OPFS; the others keep chunks in memory
  HighLag,       \* WRITE_LAG_HIGH_WATERMARK, in chunks
  LowLag         \* WRITE_LAG_LOW_WATERMARK, in chunks

ASSUME ReceiverAssumption ==
  /\ OpfsReceiver \subseteq Receiver
  /\ HighLag \in Nat
  /\ LowLag \in Nat
  /\ LowLag <= HighLag

VARIABLES
  \* variables of the channel, local to bindDataChannel
  active,       \* activeFileId
  ready,        \* receiveReady
  early,        \* pendingEarlyChunks
  confirmed,    \* confirmedWrittenBytes
  engaged,      \* writeBackpressureEngaged
  \* refs and state of the page, shared by its channels
  meta,         \* fileMetadataRef
  total,        \* receivedTotalRef
  memory,       \* receivedChunksRef
  listening,    \* files with an onChunkWritten and an onWriteError listener
  error,        \* receiveError is set
  shownPaused,  \* isReceivePaused
  \* suspended handlers
  offers,       \* FILE_OFFER handlers
  finishing,    \* TRANSFER_COMPLETE handlers, inside finishReceive
  \* what outlives the page
  record,       \* record[r][f]: receivedBytes of the transfer record of f
  delivered     \* the downloads handed to the user, with or without an error shown

receiverVars == <<active, ready, early, confirmed, engaged, meta, total, memory,
                  listening, error, shownPaused, offers, finishing, record, delivered>>

\* A handler's channel: open, closed, or closed while backpressure was engaged.
ChannelOf == {"open", "closed", "closedEngaged"}

OfferHandler ==
  [file : File, stage : {"lookup", "init"}, start : Nat, channel : ChannelOf]

FinishHandler ==
  [file : File, stage : {"close", "get", "forget"}, channel : ChannelOf]

Download == [file : File, data : Content, warned : BOOLEAN]

ReceiverTypeOK ==
  /\ active \in [Receiver -> File \cup {None}]
  /\ ready \in [Receiver -> BOOLEAN]
  /\ early \in [Receiver -> Seq(Payload)]
  /\ confirmed \in [Receiver -> Nat]
  /\ engaged \in [Receiver -> BOOLEAN]
  /\ meta \in [Receiver -> File \cup {None}]
  /\ total \in [Receiver -> Nat]
  /\ memory \in [Receiver -> Seq(Payload)]
  /\ listening \in [Receiver -> SUBSET File]
  /\ error \in [Receiver -> BOOLEAN]
  /\ shownPaused \in [Receiver -> BOOLEAN]
  /\ offers \in [Receiver -> SUBSET OfferHandler]
  /\ finishing \in [Receiver -> SUBSET FinishHandler]
  /\ record \in [Receiver -> [File -> Nat \cup {None}]]
  /\ delivered \in [Receiver -> SUBSET Download]

ReceiverInit ==
  /\ active = [r \in Receiver |-> None]
  /\ ready = [r \in Receiver |-> FALSE]
  /\ early = [r \in Receiver |-> <<>>]
  /\ confirmed = [r \in Receiver |-> 0]
  /\ engaged = [r \in Receiver |-> FALSE]
  /\ meta = [r \in Receiver |-> None]
  /\ total = [r \in Receiver |-> 0]
  /\ memory = [r \in Receiver |-> <<>>]
  /\ listening = [r \in Receiver |-> {}]
  /\ error = [r \in Receiver |-> FALSE]
  /\ shownPaused = [r \in Receiver |-> FALSE]
  /\ offers = [r \in Receiver |-> {}]
  /\ finishing = [r \in Receiver |-> {}]
  /\ record = [r \in Receiver |-> [f \in File |-> None]]
  /\ delivered = [r \in Receiver |-> {}]

-----------------------------------------------------------------------------
\* reportWriteLag when the page has counted n chunks and c are confirmed: the
\* new value of writeBackpressureEngaged and the message a transition sends,
\* followed by what else the handler sends.
Lag(n, c) == IF n > c THEN n - c ELSE 0

EngagedAfter(r, n, c) ==
  IF active[r] = None \/ r \notin OpfsReceiver THEN engaged[r]
  ELSE IF engaged[r] THEN Lag(n, c) >= LowLag ELSE Lag(n, c) > HighLag

LagSignal(r, n, c) ==
  IF EngagedAfter(r, n, c) = engaged[r] THEN <<>>
  ELSE <<Backpressure(active[r], EngagedAfter(r, n, c))>>

reportWriteLag(r, n, c, more) ==
  /\ engaged' = [engaged EXCEPT ![r] = EngagedAfter(r, n, c)]
  /\ toSender' = [toSender EXCEPT ![r] = @ \o LagSignal(r, n, c) \o more]

\* processIncomingChunk for each chunk of cs: to the worker when a file is
\* active on the channel of a page with OPFS, to the page's memory otherwise.
ToDisk(r) == r \in OpfsReceiver /\ active[r] # None

\* Mutant: chunks are placed after the running total that includes them.
WritesAfterCounting(r, cs) ==
  [i \in 1..Len(cs) |-> WriteChunk(active[r], cs[i], total[r] + i)]

Writes(r, cs) ==
  [i \in 1..Len(cs) |-> WriteChunk(active[r], cs[i], total[r] + i - 1)]

IsLastChunk(r, n) == meta[r] # None /\ n >= Size[meta[r]]

\* Mutant: the record counts a chunk that has not arrived.
StoreChunksAhead(r, cs) ==
  /\ total' = [total EXCEPT ![r] = @ + Len(cs)]
  /\ toWorker' = [toWorker EXCEPT ![r] = @ \o Writes(r, cs)]
  /\ record' = IF meta[r] = None \/ cs = <<>> THEN record
               ELSE [record EXCEPT ![r][active[r]] = total[r] + Len(cs) + 1]
  /\ UNCHANGED memory

StoreChunks(r, cs) ==
  /\ total' = [total EXCEPT ![r] = @ + Len(cs)]
  /\ IF ToDisk(r)
     THEN /\ toWorker' = [toWorker EXCEPT ![r] = @ \o Writes(r, cs)]
          /\ record' = IF meta[r] = None \/ cs = <<>> THEN record
                       ELSE [record EXCEPT ![r][active[r]] = total[r] + Len(cs)]
          /\ UNCHANGED memory
     ELSE /\ memory' = [memory EXCEPT ![r] = @ \o cs]
          /\ UNCHANGED <<toWorker, record>>

NextMessage(r, type) == toReceiver[r] # <<>> /\ Head(toReceiver[r]).type = type

TakeMessage(r) == toReceiver' = [toReceiver EXCEPT ![r] = Tail(@)]

\* The worker runs on its own: a handler only posts to it.
WorkerElsewhere == UNCHANGED <<suspended, handles, disk, fromWorker, faults>>

\* An offer's chunk arrives; the lag is reported for the last chunk, and for
\* another one unless the report is throttled.
onChunk(r) ==
  /\ NextMessage(r, "CHUNK")
  /\ LET c == Head(toReceiver[r]).data IN
       IF ready[r]
       THEN /\ StoreChunks(r, <<c>>)
            /\ \/ reportWriteLag(r, total[r] + 1, confirmed[r], <<>>)
               \/ ~IsLastChunk(r, total[r] + 1) /\ UNCHANGED <<engaged, toSender>>
            /\ UNCHANGED early
       ELSE /\ early' = [early EXCEPT ![r] = Append(@, c)]
            /\ UNCHANGED <<total, toWorker, record, memory, engaged, toSender>>
  /\ TakeMessage(r)
  /\ WorkerElsewhere
  /\ UNCHANGED <<link, active, ready, confirmed, meta, listening, error,
                 shownPaused, offers, finishing, delivered>>

\* Mutant: receivedTotalRef restarts from 0 when a transfer resumes.
StartFileFromZero(r, f, start) ==
  /\ meta' = [meta EXCEPT ![r] = f]
  /\ memory' = [memory EXCEPT ![r] = <<>>]
  /\ total' = [total EXCEPT ![r] = 0]
  /\ shownPaused' = [shownPaused EXCEPT ![r] = FALSE]
  /\ error' = [error EXCEPT ![r] = FALSE]

\* What FILE_OFFER resets once it knows the offset to start from.
StartFile(r, f, start) ==
  /\ meta' = [meta EXCEPT ![r] = f]
  /\ memory' = [memory EXCEPT ![r] = <<>>]
  /\ total' = [total EXCEPT ![r] = start]
  /\ shownPaused' = [shownPaused EXCEPT ![r] = FALSE]
  /\ error' = [error EXCEPT ![r] = FALSE]

\* FILE_OFFER on a page with OPFS, up to the lookup of the transfer record.
onOffer(r) ==
  /\ NextMessage(r, "FILE_OFFER")
  /\ r \in OpfsReceiver
  /\ LET f == Head(toReceiver[r]).file IN
       /\ active' = [active EXCEPT ![r] = f]
       /\ offers' = [offers EXCEPT ![r] =
            @ \cup {[file |-> f, stage |-> "lookup", start |-> 0, channel |-> "open"]}]
  /\ ready' = [ready EXCEPT ![r] = FALSE]
  /\ early' = [early EXCEPT ![r] = <<>>]
  /\ TakeMessage(r)
  /\ WorkerElsewhere
  /\ UNCHANGED <<link, toSender, toWorker, confirmed, engaged, meta, total, memory,
                 listening, error, shownPaused, finishing, record, delivered>>

\* FILE_OFFER without OPFS: nothing to await, the whole handler runs at once.
onOfferInMemory(r) ==
  /\ NextMessage(r, "FILE_OFFER")
  /\ r \notin OpfsReceiver
  /\ LET f == Head(toReceiver[r]).file IN
       /\ active' = [active EXCEPT ![r] = f]
       /\ StartFile(r, f, 0)
       /\ toSender' = [toSender EXCEPT ![r] = Append(@, Accept(f, 0))]
  /\ confirmed' = [confirmed EXCEPT ![r] = 0]
  /\ engaged' = [engaged EXCEPT ![r] = FALSE]
  /\ ready' = [ready EXCEPT ![r] = TRUE]
  /\ early' = [early EXCEPT ![r] = <<>>]
  /\ TakeMessage(r)
  /\ WorkerElsewhere
  /\ UNCHANGED <<link, toWorker, listening, offers, finishing, record, delivered>>

\* Mutant: a file without a transfer record is not looked out for.
StartOffsetUnchecked(r, f) == record[r][f]

StartOffset(r, f) == IF record[r][f] = None THEN 0 ELSE record[r][f]

\* getTransferRecord resolved: FILE_OFFER goes on to initOpfsFile.
recordFound(r, h) ==
  /\ h.stage = "lookup"
  /\ LET start == StartOffset(r, h.file) IN
       /\ StartFile(r, h.file, start)
       /\ IF h.channel = "open"
          THEN /\ confirmed' = [confirmed EXCEPT ![r] = start]
               /\ engaged' = [engaged EXCEPT ![r] = FALSE]
          ELSE UNCHANGED <<confirmed, engaged>>
       /\ offers' = [offers EXCEPT ![r] =
            (@ \ {h}) \cup {[h EXCEPT !.stage = "init", !.start = start]}]
  /\ toWorker' = [toWorker EXCEPT ![r] = Append(@, InitFile(h.file))]
  /\ WorkerElsewhere
  /\ UNCHANGED <<channelVars, active, ready, early, listening, finishing,
                 record, delivered>>

NextReply(r, type) == fromWorker[r] # <<>> /\ Head(fromWorker[r]).type = type

ReplyFile(r) == Head(fromWorker[r]).file

TakeReply(r) == fromWorker' = [fromWorker EXCEPT ![r] = Tail(@)]

\* The handlers of r that await a reply about file f at one of the stages.
OffersAt(r, f, stages) == {h \in offers[r] : h.file = f /\ h.stage \in stages}
FinishingAt(r, f, stages) == {h \in finishing[r] : h.file = f /\ h.stage \in stages}

\* initOpfsFile resolved: listen to the worker, replay the early chunks in
\* order, report the lag and tell the sender where to start.
fileInitialised(r) ==
  /\ NextReply(r, "INIT_SUCCESS")
  /\ \E h \in OffersAt(r, ReplyFile(r), {"init"}) :
       /\ offers' = [offers EXCEPT ![r] = @ \ {h}]
       /\ IF h.channel = "open"
          THEN LET accept == <<Accept(h.file, h.start)>>
                   n == total[r] + Len(early[r]) IN
               /\ listening' = [listening EXCEPT ![r] = @ \cup {h.file}]
               /\ StoreChunks(r, early[r])
               /\ \/ early[r] # <<>> /\ reportWriteLag(r, n, confirmed[r], accept)
                  \/ /\ early[r] = <<>> \/ ~IsLastChunk(r, n)
                     /\ toSender' = [toSender EXCEPT ![r] = @ \o accept]
                     /\ UNCHANGED engaged
               /\ ready' = [ready EXCEPT ![r] = TRUE]
               /\ early' = [early EXCEPT ![r] = <<>>]
          ELSE UNCHANGED <<listening, total, toWorker, record, memory, toSender,
                           engaged, ready, early>>
  /\ TakeReply(r)
  /\ UNCHANGED <<link, toReceiver, suspended, handles, disk, faults, active,
                 confirmed, meta, error, shownPaused, finishing, delivered>>

\* a.click() on a link to the received file.
HandOver(r, f, data) ==
  delivered' = [delivered EXCEPT ![r] =
                  @ \cup {[file |-> f, data |-> data, warned |-> error[r]]}]

\* TRANSFER_COMPLETE: finishReceive up to its first await.
onComplete(r) ==
  /\ NextMessage(r, "TRANSFER_COMPLETE")
  /\ LET f == Head(toReceiver[r]).file
         handler(stage) == [file |-> f, stage |-> stage, channel |-> "open"] IN
       \/ /\ meta[r] # f
          /\ active' = [active EXCEPT ![r] = None]
          /\ UNCHANGED <<finishing, toWorker, delivered>>
       \/ /\ meta[r] = f
          /\ r \in OpfsReceiver
          /\ toWorker' = [toWorker EXCEPT ![r] = Append(@, CloseFile(f))]
          /\ finishing' = [finishing EXCEPT ![r] = @ \cup {handler("close")}]
          /\ UNCHANGED <<active, delivered>>
       \/ /\ meta[r] = f
          /\ r \notin OpfsReceiver
          /\ HandOver(r, f, memory[r])
          /\ finishing' = [finishing EXCEPT ![r] = @ \cup {handler("forget")}]
          /\ UNCHANGED <<active, toWorker>>
  /\ TakeMessage(r)
  /\ WorkerElsewhere
  /\ UNCHANGED <<link, toSender, ready, early, confirmed, engaged, meta, total,
                 memory, listening, error, shownPaused, offers, record>>

\* Mutant: finishReceive stops after closing the file.
fileClosedOnly(r) ==
  /\ NextReply(r, "FILE_CLOSED")
  /\ finishing' = [finishing EXCEPT ![r] = @ \ FinishingAt(r, ReplyFile(r), {"close"})]
  /\ TakeReply(r)
  /\ UNCHANGED <<channelVars, toWorker, suspended, handles, disk, faults, active,
                 ready, early, confirmed, engaged, meta, total, memory, listening,
                 error, shownPaused, offers, record, delivered>>

\* closeOpfsFile resolved.
fileClosed(r) ==
  /\ NextReply(r, "FILE_CLOSED")
  /\ \E h \in FinishingAt(r, ReplyFile(r), {"close"}) :
       finishing' = [finishing EXCEPT ![r] = (@ \ {h}) \cup {[h EXCEPT !.stage = "get"]}]
  /\ toWorker' = [toWorker EXCEPT ![r] = Append(@, GetFile(ReplyFile(r)))]
  /\ TakeReply(r)
  /\ UNCHANGED <<channelVars, suspended, handles, disk, faults, active, ready,
                 early, confirmed, engaged, meta, total, memory, listening, error,
                 shownPaused, offers, record, delivered>>

\* getOpfsFile resolved: the download starts, the record is deleted.
fileReady(r) ==
  /\ NextReply(r, "FILE_READY")
  /\ LET f == ReplyFile(r) IN
       /\ \E h \in FinishingAt(r, f, {"get"}) :
            finishing' = [finishing EXCEPT ![r] =
                            (@ \ {h}) \cup {[h EXCEPT !.stage = "forget"]}]
       /\ HandOver(r, f, Head(fromWorker[r]).data)
       /\ record' = [record EXCEPT ![r][f] = None]
  /\ TakeReply(r)
  /\ UNCHANGED <<channelVars, toWorker, suspended, handles, disk, faults, active,
                 ready, early, confirmed, engaged, meta, total, memory, listening,
                 error, shownPaused, offers>>

\* The end of finishReceive and of the TRANSFER_COMPLETE handler.
EndOfFile(r, h) ==
  /\ finishing' = [finishing EXCEPT ![r] = @ \ {h}]
  /\ listening' = [listening EXCEPT ![r] = @ \ {h.file}]
  /\ memory' = [memory EXCEPT ![r] = <<>>]
  /\ shownPaused' = [shownPaused EXCEPT ![r] = FALSE]
  /\ IF h.channel = "open"
     THEN /\ confirmed' = [confirmed EXCEPT ![r] = 0]
          /\ active' = [active EXCEPT ![r] = None]
     ELSE UNCHANGED <<confirmed, active>>

\* deleteTransferRecord resolved: backpressure still asserted is released; on
\* a closed channel that send throws, and the catch reports an error.
recordDeleted(r, h) ==
  /\ h.stage = "forget"
  /\ EndOfFile(r, h)
  /\ IF h.channel = "open" /\ engaged[r]
     THEN /\ engaged' = [engaged EXCEPT ![r] = FALSE]
          /\ toSender' = [toSender EXCEPT ![r] = Append(@, Backpressure(h.file, FALSE))]
     ELSE UNCHANGED <<engaged, toSender>>
  /\ error' = [error EXCEPT ![r] = @ \/ h.channel = "closedEngaged"]
  /\ UNCHANGED <<link, toReceiver, workerVars, ready, early, meta, total, offers,
                 record, delivered>>

\* Mutant: the listener counts the chunk and does not re-evaluate the lag.
chunkWrittenUnreported(r) ==
  /\ NextReply(r, "CHUNK_WRITTEN")
  /\ confirmed' = [confirmed EXCEPT ![r] = Head(fromWorker[r]).currentOffset]
  /\ TakeReply(r)
  /\ UNCHANGED <<channelVars, toWorker, suspended, handles, disk, faults, active,
                 ready, early, engaged, meta, total, memory, listening, error,
                 shownPaused, offers, finishing, record, delivered>>

\* CHUNK_WRITTEN: the listener counts it and re-evaluates the lag.
chunkWritten(r) ==
  /\ NextReply(r, "CHUNK_WRITTEN")
  /\ LET n == Head(fromWorker[r]).currentOffset IN
       IF ReplyFile(r) \in listening[r]
       THEN /\ confirmed' = [confirmed EXCEPT ![r] = n]
            /\ reportWriteLag(r, total[r], n, <<>>)
       ELSE UNCHANGED <<confirmed, engaged, toSender>>
  /\ TakeReply(r)
  /\ UNCHANGED <<link, toReceiver, toWorker, suspended, handles, disk, faults,
                 active, ready, early, meta, total, memory, listening, error,
                 shownPaused, offers, finishing, record, delivered>>

\* ERROR: rejects the request pending for that file (a FILE_OFFER handler only
\* logs it, finishReceive reports it), else the write-error listener is told.
workerError(r) ==
  /\ NextReply(r, "ERROR")
  /\ LET f == ReplyFile(r)
         offering == OffersAt(r, f, {"init"})
         receiving == FinishingAt(r, f, {"close", "get"}) IN
       \/ \E h \in offering \cup receiving :
            /\ offers' = [offers EXCEPT ![r] = @ \ {h}]
            /\ IF h \in receiving
               THEN EndOfFile(r, h) /\ error' = [error EXCEPT ![r] = TRUE]
               ELSE UNCHANGED <<finishing, listening, memory, shownPaused, confirmed,
                                active, error>>
       \/ /\ offering \cup receiving = {}
          /\ error' = [error EXCEPT ![r] = @ \/ f \in listening[r]]
          /\ UNCHANGED <<offers, finishing, listening, memory, shownPaused,
                         confirmed, active>>
  /\ TakeReply(r)
  /\ UNCHANGED <<channelVars, toWorker, suspended, handles, disk, faults, ready,
                 early, engaged, meta, total, record, delivered>>

\* A reply nobody waits for any more.
AwaitedAt == [INIT_SUCCESS |-> "init", FILE_CLOSED |-> "close", FILE_READY |-> "get"]

replyDropped(r) ==
  /\ fromWorker[r] # <<>>
  /\ LET m == Head(fromWorker[r]) IN
       /\ m.type \in DOMAIN AwaitedAt
       /\ \A h \in offers[r] \cup finishing[r] :
            ~(h.file = m.file /\ h.stage = AwaitedAt[m.type])
  /\ TakeReply(r)
  /\ UNCHANGED <<channelVars, toWorker, suspended, handles, disk, faults, receiverVars>>

\* TRANSFER_PAUSED and TRANSFER_RESUMED.
onPauseSignal(r) ==
  /\ NextMessage(r, "TRANSFER_PAUSED") \/ NextMessage(r, "TRANSFER_RESUMED")
  /\ LET m == Head(toReceiver[r]) IN
       shownPaused' = IF meta[r] # m.file THEN shownPaused
                      ELSE [shownPaused EXCEPT ![r] = (m.type = "TRANSFER_PAUSED")]
  /\ TakeMessage(r)
  /\ UNCHANGED <<link, toSender, workerVars, active, ready, early, confirmed,
                 engaged, meta, total, memory, listening, error, offers, finishing,
                 record, delivered>>

ReceiverHandler(r) ==
  \/ onChunk(r)
  \/ onOffer(r)
  \/ onOfferInMemory(r)
  \/ \E h \in offers[r] : recordFound(r, h)
  \/ fileInitialised(r)
  \/ onComplete(r)
  \/ fileClosed(r)
  \/ fileReady(r)
  \/ \E h \in finishing[r] : recordDeleted(r, h)
  \/ chunkWritten(r)
  \/ workerError(r)
  \/ replyDropped(r)
  \/ onPauseSignal(r)

-----------------------------------------------------------------------------
\* dc.onclose on every page: the sender's page is gone.  Handlers still suspended
\* keep running without their channel; the next one starts with fresh variables.
Orphaned(r, h) ==
  IF h.channel # "open" THEN h
  ELSE [h EXCEPT !.channel = IF engaged[r] THEN "closedEngaged" ELSE "closed"]

ChannelsClosed ==
  /\ listening' = [r \in Receiver |-> listening[r] \ {active[r]}]
  /\ error' = [r \in Receiver |->
                 error[r] \/ (active[r] # None /\ meta[r] = active[r])]
  /\ active' = [r \in Receiver |-> None]
  /\ ready' = [r \in Receiver |-> FALSE]
  /\ early' = [r \in Receiver |-> <<>>]
  /\ confirmed' = [r \in Receiver |-> 0]
  /\ engaged' = [r \in Receiver |-> FALSE]
  /\ offers' = [r \in Receiver |-> {Orphaned(r, h) : h \in offers[r]}]
  /\ finishing' = [r \in Receiver |-> {Orphaned(r, h) : h \in finishing[r]}]
  /\ UNCHANGED <<meta, total, memory, shownPaused, record, delivered>>

\* The page of r is loaded anew: only disk, records and downloads remain.
PageReloaded(r) ==
  /\ active' = [active EXCEPT ![r] = None]
  /\ ready' = [ready EXCEPT ![r] = FALSE]
  /\ early' = [early EXCEPT ![r] = <<>>]
  /\ confirmed' = [confirmed EXCEPT ![r] = 0]
  /\ engaged' = [engaged EXCEPT ![r] = FALSE]
  /\ meta' = [meta EXCEPT ![r] = None]
  /\ total' = [total EXCEPT ![r] = 0]
  /\ memory' = [memory EXCEPT ![r] = <<>>]
  /\ listening' = [listening EXCEPT ![r] = {}]
  /\ error' = [error EXCEPT ![r] = FALSE]
  /\ shownPaused' = [shownPaused EXCEPT ![r] = FALSE]
  /\ offers' = [offers EXCEPT ![r] = {}]
  /\ finishing' = [finishing EXCEPT ![r] = {}]
  /\ TerminateWorker(r)
  /\ UNCHANGED <<record, delivered>>
=============================================================================
