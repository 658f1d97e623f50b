------------------------- MODULE FileTransferProofs -------------------------
(***************************************************************************)
(* Theorems about FileTransfer, for every choice of its constants.         *)
(***************************************************************************)
EXTENDS FileTransfer, Queues

LEMMA DownMessages ==
  ASSUME NEW f \in File
  PROVE  /\ Offer(f) \in DownMessage
         /\ Paused(f) \in DownMessage
         /\ Resumed(f) \in DownMessage
         /\ Complete(f) \in DownMessage
         /\ \A i \in Nat : Chunk(f, i) \in DownMessage
BY DEF Offer, Paused, Resumed, Complete, Chunk, DownMessage, Payload

LEMMA UpMessages ==
  ASSUME NEW f \in File
  PROVE  /\ \A start \in Nat : Accept(f, start) \in UpMessage
         /\ \A on \in BOOLEAN : Backpressure(f, on) \in UpMessage
BY DEF Accept, Backpressure, UpMessage

LEMMA DownMessageFields ==
  ASSUME NEW m \in DownMessage
  PROVE  /\ m.type = "CHUNK" => m.data \in Payload
         /\ m.type # "CHUNK" => m.file \in File
BY DEF DownMessage

LEMMA UpMessageFields ==
  ASSUME NEW m \in UpMessage
  PROVE  /\ m.file \in File
         /\ m.type = "FILE_ACCEPT" => m.start \in Nat
         /\ m.type = "WRITE_BACKPRESSURE" => m.engaged \in BOOLEAN
BY DEF UpMessage

\* A message is added to a queue.
LEMMA Posted ==
  ASSUME NEW S, NEW queues \in [Receiver -> Seq(S)], NEW r \in Receiver, NEW m \in S
  PROVE  [queues EXCEPT ![r] = Append(@, m)] \in [Receiver -> Seq(S)]
OBVIOUS

-----------------------------------------------------------------------------
(* Type correctness.  The send loop looks at the head of its queue, and a   *)
(* broadcast starts from cleared targets: the type invariant is inductive    *)
(* together with these two facts.                                            *)
HasCurrent == IF pc = "idle" THEN targets = {} ELSE todo # <<>>

SenderInv == ChannelTypeOK /\ SenderTypeOK /\ HasCurrent

LEMMA SendToAllType ==
  ASSUME ChannelTypeOK, NEW ms \in Seq(DownMessage), SendToAll(ms)
  PROVE  toReceiver' \in [Receiver -> Seq(DownMessage)]
BY DEF ChannelTypeOK, SendToAll

LEMMA SendThrowsType ==
  ASSUME ChannelTypeOK, SenderTypeOK, NEW m \in DownMessage, SendThrows(m)
  PROVE  toReceiver' \in [Receiver -> Seq(DownMessage)]
BY DEF ChannelTypeOK, SendThrows

LEMMA TellOpenChannelsType ==
  ASSUME ChannelTypeOK, NEW m \in DownMessage, TellOpenChannels(m)
  PROVE  toReceiver' \in [Receiver -> Seq(DownMessage)]
BY DEF ChannelTypeOK, TellOpenChannels

LEMMA CurrentType ==
  ASSUME SenderInv, pc # "idle"
  PROVE  Current \in File /\ Tail(todo) \in Seq(File)
BY HeadTail DEF SenderInv, SenderTypeOK, HasCurrent, Current

LEMMA GivenUp ==
  ASSUME NEW m, SendThrows(m)
  PROVE  pc' = "idle" /\ todo' = <<>> /\ targets' = {} /\ lost' = {} /\ clogged' = {}
BY DEF SendThrows

LEMMA broadcastFilesType ==
  ASSUME SenderInv, broadcastFiles
  PROVE  SenderInv'
<1>1. todo' \in Seq(File) /\ todo' # <<>>
  BY SenderAssumption DEF broadcastFiles
<1>2. ChannelTypeOK'
  BY DEF SenderInv, ChannelTypeOK, broadcastFiles, channelVars
<1>3. lost = {} /\ clogged = {}
  BY DEF SenderInv, SenderTypeOK, HasCurrent, broadcastFiles
<1>4. targets' \subseteq Receiver /\ lost' \subseteq targets' /\ clogged' \subseteq lost'
  BY <1>3 DEF broadcastFiles
<1> QED
  BY <1>1, <1>2, <1>4 DEF SenderInv, SenderTypeOK, HasCurrent, broadcastFiles, Phase

LEMMA offerFileType ==
  ASSUME SenderInv, offerFile
  PROVE  SenderInv'
<1>1. Current \in File
  BY CurrentType DEF offerFile
<1>2. Offer(Current) \in DownMessage /\ Paused(Current) \in DownMessage
  BY <1>1, DownMessages
<1>3. toReceiver' \in [Receiver -> Seq(DownMessage)]
  <2> DEFINE announced == IF userPaused THEN <<Offer(Current), Paused(Current)>>
                                        ELSE <<Offer(Current)>>
  <2>1. announced \in Seq(DownMessage)
    BY <1>2
  <2>2. CASE SendToAll(announced)
    BY <2>1, <2>2, SendToAllType DEF SenderInv
  <2>3. CASE SendThrows(Offer(Current))
    BY <1>2, <2>3, SendThrowsType DEF SenderInv
  <2> QED BY <2>2, <2>3 DEF offerFile
<1>4. ChannelTypeOK'
  BY <1>3 DEF SenderInv, ChannelTypeOK, offerFile
<1>5. resumeAt' \in [File -> Nat \cup {None}] /\ activeSend' \in File
  BY <1>1 DEF SenderInv, SenderTypeOK, offerFile
<1>6. \/ UNCHANGED <<todo, targets, lost, clogged>> /\ pc' \in {"accept", "loop"} /\ offset' = 0
      \/ pc' = "idle" /\ todo' = <<>> /\ targets' = {} /\ lost' = {} /\ clogged' = {} /\ offset' = offset
  BY GivenUp DEF offerFile
<1>7. todo' \in Seq(File) /\ targets' \subseteq Receiver /\ lost' \subseteq targets' /\ clogged' \subseteq lost'
  BY <1>6, ShortSequences DEF SenderInv, SenderTypeOK
<1>8. pc' \in Phase /\ offset' \in Nat /\ HasCurrent'
  BY <1>6 DEF SenderInv, SenderTypeOK, HasCurrent, offerFile, Phase
<1> QED
  BY <1>4, <1>5, <1>7, <1>8 DEF SenderInv, SenderTypeOK, offerFile

LEMMA sendChunkType ==
  ASSUME SenderInv, sendChunk
  PROVE  SenderInv'
<1>1. Chunk(Current, offset) \in DownMessage
  BY CurrentType, DownMessages DEF sendChunk, SenderInv, SenderTypeOK
<1>2. toReceiver' \in [Receiver -> Seq(DownMessage)]
  <2>1. CASE SendToAll(<<Chunk(Current, offset)>>)
    BY <1>1, <2>1, SendToAllType, ShortSequences DEF SenderInv
  <2>2. CASE SendThrows(Chunk(Current, offset))
    BY <1>1, <2>2, SendThrowsType DEF SenderInv
  <2> QED BY <2>1, <2>2 DEF sendChunk
<1>3. ChannelTypeOK'
  BY <1>2 DEF SenderInv, ChannelTypeOK, sendChunk
<1>4. \/ UNCHANGED <<todo, targets, lost, clogged>> /\ pc' = "loop" /\ offset' = offset + 1
      \/ pc' = "idle" /\ todo' = <<>> /\ targets' = {} /\ lost' = {} /\ clogged' = {} /\ offset' = offset
  BY GivenUp DEF sendChunk
<1>5. todo' \in Seq(File) /\ targets' \subseteq Receiver /\ lost' \subseteq targets' /\ clogged' \subseteq lost'
  BY <1>4, ShortSequences DEF SenderInv, SenderTypeOK
<1>6. pc' \in Phase /\ offset' \in Nat /\ HasCurrent'
  BY <1>4 DEF SenderInv, SenderTypeOK, HasCurrent, sendChunk, Phase
<1> QED
  BY <1>3, <1>5, <1>6 DEF SenderInv, SenderTypeOK, sendChunk

LEMMA completeFileType ==
  ASSUME SenderInv, completeFile
  PROVE  SenderInv'
<1>1. Current \in File /\ Tail(todo) \in Seq(File)
  BY CurrentType DEF completeFile
<1>2. Complete(Current) \in DownMessage
  BY <1>1, DownMessages
<1>3. toReceiver' \in [Receiver -> Seq(DownMessage)]
  <2>1. CASE SendToAll(<<Complete(Current)>>)
    BY <1>2, <2>1, SendToAllType, ShortSequences DEF SenderInv
  <2>2. CASE SendThrows(Complete(Current))
    BY <1>2, <2>2, SendThrowsType DEF SenderInv
  <2> QED BY <2>1, <2>2 DEF completeFile
<1>4. ChannelTypeOK'
  BY <1>3 DEF SenderInv, ChannelTypeOK, completeFile
<1>5. \/ /\ todo' = Tail(todo)
         /\ pc' = IF Tail(todo) = <<>> THEN "idle" ELSE "hash"
         /\ targets' = IF Tail(todo) = <<>> THEN {} ELSE targets
         /\ lost = {} /\ lost' = {} /\ clogged' = {}
         /\ resumeAt' = [resumeAt EXCEPT ![Current] = None]
         /\ activeSend' = None
      \/ /\ pc' = "idle" /\ todo' = <<>> /\ targets' = {} /\ lost' = {} /\ clogged' = {}
         /\ UNCHANGED <<resumeAt, activeSend>>
  BY GivenUp DEF completeFile, SendToAll, SenderInv, SenderTypeOK
<1> QED
  BY <1>1, <1>4, <1>5, ShortSequences
     DEF SenderInv, SenderTypeOK, HasCurrent, completeFile, Phase

LEMMA acceptWaitOverType ==
  ASSUME SenderInv, acceptWaitOver
  PROVE  SenderInv'
<1>1. Current \in File
  BY CurrentType DEF acceptWaitOver
<1> QED
  BY <1>1
     DEF SenderInv, ChannelTypeOK, SenderTypeOK, HasCurrent, acceptWaitOver, Phase, channelVars

\* The steps of the loop that neither send nor look at the file.
LEMMA waitingType ==
  ASSUME SenderInv, waitForUnblock \/ readSlice
  PROVE  SenderInv'
BY DEF SenderInv, ChannelTypeOK, SenderTypeOK, HasCurrent, waitForUnblock, readSlice,
       Phase, channelVars

LEMMA userType ==
  ASSUME SenderInv, pauseSend \/ resumeSend
  PROVE  SenderInv'
<1>1. activeSend \in File
  BY DEF SenderInv, SenderTypeOK, pauseSend, resumeSend
<1>2. Paused(activeSend) \in DownMessage /\ Resumed(activeSend) \in DownMessage
  BY <1>1, DownMessages
<1>3. toReceiver' \in [Receiver -> Seq(DownMessage)]
  BY <1>2, TellOpenChannelsType DEF SenderInv, pauseSend, resumeSend
<1>4. ChannelTypeOK'
  BY <1>3 DEF SenderInv, ChannelTypeOK, pauseSend, resumeSend
<1>5. pc' \in Phase /\ HasCurrent'
  BY DEF SenderInv, SenderTypeOK, HasCurrent, pauseSend, resumeSend, Notified, Phase
<1>6. userPaused' \in BOOLEAN
  BY DEF pauseSend, resumeSend
<1>7. pauses' \in Nat
  BY DEF SenderInv, SenderTypeOK, pauseSend, resumeSend
<1> QED
  BY <1>4, <1>5, <1>6, <1>7 DEF SenderInv, SenderTypeOK, pauseSend, resumeSend

LEMMA SenderHandlerType ==
  ASSUME SenderInv, NEW r \in Receiver, SenderHandler(r)
  PROVE  SenderInv'
<1>1. toSender[r] # <<>> =>
        Head(toSender[r]) \in UpMessage /\ Tail(toSender[r]) \in Seq(UpMessage)
  BY HeadTail DEF SenderInv, ChannelTypeOK
<1>2. CASE onAccept(r)
  <2>1. Head(toSender[r]).file \in File /\ Head(toSender[r]).start \in Nat
    BY <1>1, <1>2, UpMessageFields DEF onAccept
  <2> QED
    BY <1>1, <1>2, <2>1
       DEF SenderInv, ChannelTypeOK, SenderTypeOK, HasCurrent, onAccept
<1>3. CASE onBackpressure(r)
  BY <1>1, <1>3
     DEF SenderInv, ChannelTypeOK, SenderTypeOK, HasCurrent, onBackpressure, Notified, Phase
<1>4. CASE closePeer(r)
  BY <1>4
     DEF SenderInv, ChannelTypeOK, SenderTypeOK, HasCurrent, closePeer, Notified, Phase,
         channelVars
<1> QED BY <1>2, <1>3, <1>4 DEF SenderHandler

LEMMA SenderNextType ==
  ASSUME SenderInv, SenderNext
  PROVE  SenderInv'
BY broadcastFilesType, offerFileType, acceptWaitOverType, waitingType, sendChunkType,
   completeFileType, userType, SenderHandlerType
   DEF SenderNext, SenderLoop

LEMMA FunctionIsSeq ==
  ASSUME NEW S, NEW n \in Nat, NEW s \in [1..n -> S]
  PROVE  s \in Seq(S)
BY SeqDef

LEMMA WrittenType ==
  ASSUME NEW data \in Content, NEW chunk \in Payload, NEW at \in Nat
  PROVE  Written(data, chunk, at) \in Content
<1> DEFINE n == Longer(Len(data), at + 1)
           S == Payload \cup {None}
<1>1. Len(data) \in Nat /\ \A i \in 1..Len(data) : data[i] \in S
  BY LenProperties, ElementOfSeq DEF Content
<1>2. n \in Nat
  BY <1>1 DEF Longer
<1>3. Written(data, chunk, at) \in [1..n -> S]
  BY <1>1, <1>2 DEF Written
<1> HIDE DEF n, S
<1>4. Written(data, chunk, at) \in Seq(S)
  BY <1>2, <1>3, FunctionIsSeq
<1> QED BY <1>4 DEF S, Content

LEMMA RequestFields ==
  ASSUME NEW m \in WorkerRequest
  PROVE  /\ m.file \in File
         /\ m.type \in {"INIT_FILE", "GET_FILE"} => m \in Suspending
         /\ m.type = "WRITE_CHUNK" => m.chunk \in Payload /\ m.offset \in Nat
BY DEF WorkerRequest, Suspending

LEMMA ReplyTypes ==
  ASSUME NEW f \in File
  PROVE  /\ [type |-> "INIT_SUCCESS", file |-> f] \in WorkerReply
         /\ [type |-> "FILE_CLOSED", file |-> f] \in WorkerReply
         /\ Failure(f) \in WorkerReply
         /\ \A n \in Nat : [type |-> "CHUNK_WRITTEN", file |-> f, currentOffset |-> n]
                             \in WorkerReply
         /\ \A data \in Content : [type |-> "FILE_READY", file |-> f, data |-> data]
                                    \in WorkerReply
BY DEF WorkerReply, Failure

LEMMA ReplySent ==
  ASSUME WorkerTypeOK, NEW r \in Receiver, NEW m \in WorkerReply, Reply(r, m)
  PROVE  fromWorker' \in [Receiver -> Seq(WorkerReply)]
BY DEF WorkerTypeOK, Reply

LEMMA RequestTaken ==
  ASSUME WorkerTypeOK, NEW r \in Receiver, toWorker[r] # <<>>
  PROVE  /\ Head(toWorker[r]) \in WorkerRequest
         /\ Take(r) => toWorker' \in [Receiver -> Seq(WorkerRequest)]
<1>1. Head(toWorker[r]) \in WorkerRequest /\ Tail(toWorker[r]) \in Seq(WorkerRequest)
  BY HeadTail DEF WorkerTypeOK
<1> QED BY <1>1 DEF WorkerTypeOK, Take

LEMMA WorkerStepType ==
  ASSUME WorkerTypeOK, NEW r \in Receiver, WorkerStep(r)
  PROVE  WorkerTypeOK'
<1> DEFINE m == Head(toWorker[r])
<1>1. CASE writeChunk(r)
  <2>1. m \in WorkerRequest /\ toWorker' \in [Receiver -> Seq(WorkerRequest)]
    BY <1>1, RequestTaken DEF writeChunk
  <2>2. m.file \in File /\ m.chunk \in Payload /\ m.offset \in Nat
    BY <1>1, <2>1, RequestFields DEF writeChunk
  <2>3. Written(disk[r][m.file], m.chunk, m.offset) \in Content
    BY <2>2, WrittenType DEF WorkerTypeOK
  <2>4. disk' \in [Receiver -> [File -> Content]]
    BY <1>1, <2>2, <2>3 DEF WorkerTypeOK, writeChunk
  <2> DEFINE reply == [type |-> "CHUNK_WRITTEN", file |-> m.file,
                       currentOffset |-> m.offset + 1]
  <2>5. reply \in WorkerReply
    BY <2>2 DEF WorkerReply
  <2>6. Reply(r, reply)
    BY <1>1 DEF writeChunk
  <2>7. fromWorker' \in [Receiver -> Seq(WorkerReply)]
    BY <2>5, <2>6, ReplySent
  <2> QED BY <1>1, <2>1, <2>4, <2>7 DEF WorkerTypeOK, writeChunk
<1>2. CASE writeChunkFails(r)
  <2>1. m \in WorkerRequest /\ toWorker' \in [Receiver -> Seq(WorkerRequest)]
    BY <1>2, RequestTaken DEF writeChunkFails
  <2>2. fromWorker' \in [Receiver -> Seq(WorkerReply)]
    BY <1>2, <2>1, RequestFields, ReplyTypes, ReplySent DEF writeChunkFails
  <2>3. faults' \in Nat
    BY <1>2 DEF WorkerTypeOK, writeChunkFails
  <2> QED BY <1>2, <2>1, <2>2, <2>3 DEF WorkerTypeOK, writeChunkFails
<1>3. CASE closeFile(r)
  <2>1. m \in WorkerRequest /\ toWorker' \in [Receiver -> Seq(WorkerRequest)]
    BY <1>3, RequestTaken DEF closeFile
  <2>2. fromWorker' \in [Receiver -> Seq(WorkerReply)]
    BY <1>3, <2>1, RequestFields, ReplyTypes, ReplySent DEF closeFile
  <2> QED BY <1>3, <2>1, <2>2 DEF WorkerTypeOK, closeFile
<1>4. CASE suspend(r)
  <2>1. m \in WorkerRequest /\ toWorker' \in [Receiver -> Seq(WorkerRequest)]
    BY <1>4, RequestTaken DEF suspend
  <2>2. m \in Suspending
    BY <1>4, <2>1, RequestFields DEF suspend
  <2> QED BY <1>4, <2>1, <2>2 DEF WorkerTypeOK, suspend
<1>5. CASE initFile(r)
  <2>1. PICK h \in suspended[r] :
          /\ h \in Suspending
          /\ IF h.file \in handles[r]
             THEN Reply(r, Failure(h.file)) /\ UNCHANGED handles
             ELSE /\ handles' = [handles EXCEPT ![r] = @ \cup {h.file}]
                  /\ Reply(r, [type |-> "INIT_SUCCESS", file |-> h.file])
          /\ suspended' = [suspended EXCEPT ![r] = @ \ {h}]
    BY <1>5 DEF initFile, WorkerTypeOK
  <2>2. h.file \in File
    BY <2>1 DEF Suspending
  <2>3. fromWorker' \in [Receiver -> Seq(WorkerReply)]
    BY <2>1, <2>2, ReplyTypes, ReplySent
  <2>4. handles' \in [Receiver -> SUBSET File]
    BY <2>1, <2>2 DEF WorkerTypeOK
  <2> QED BY <1>5, <2>1, <2>3, <2>4 DEF WorkerTypeOK, initFile
<1>6. CASE getFile(r)
  <2>1. PICK h \in suspended[r] :
          /\ h \in Suspending
          /\ Reply(r, [type |-> "FILE_READY", file |-> h.file, data |-> disk[r][h.file]])
          /\ suspended' = [suspended EXCEPT ![r] = @ \ {h}]
    BY <1>6 DEF getFile, WorkerTypeOK
  <2>2. h.file \in File /\ disk[r][h.file] \in Content
    BY <2>1 DEF Suspending, WorkerTypeOK
  <2>3. fromWorker' \in [Receiver -> Seq(WorkerReply)]
    BY <2>1, <2>2, ReplyTypes, ReplySent
  <2> QED BY <1>6, <2>1, <2>3 DEF WorkerTypeOK, getFile
<1> QED BY <1>1, <1>2, <1>3, <1>4, <1>5, <1>6 DEF WorkerStep

ReceiverInv == ChannelTypeOK /\ WorkerTypeOK /\ ReceiverTypeOK

LEMMA reportWriteLagType ==
  ASSUME ReceiverInv, NEW r \in Receiver, NEW n \in Nat, NEW c \in Nat,
         NEW more \in Seq(UpMessage), reportWriteLag(r, n, c, more)
  PROVE  /\ engaged' \in [Receiver -> BOOLEAN]
         /\ toSender' \in [Receiver -> Seq(UpMessage)]
<1>1. EngagedAfter(r, n, c) \in BOOLEAN
  <2>1. engaged[r] \in BOOLEAN
    BY DEF ReceiverInv, ReceiverTypeOK
  <2>2. (Lag(n, c) >= LowLag) \in BOOLEAN /\ (Lag(n, c) > HighLag) \in BOOLEAN
    OBVIOUS
  <2> QED BY <2>1, <2>2, Zenon DEF EngagedAfter
<1>2. LagSignal(r, n, c) \in Seq(UpMessage)
  <2>1. CASE EngagedAfter(r, n, c) = engaged[r]
    BY <2>1, ShortSequences DEF LagSignal
  <2>2. CASE EngagedAfter(r, n, c) # engaged[r]
    <3>1. active[r] \in File
      BY <2>2 DEF ReceiverInv, ReceiverTypeOK, EngagedAfter
    <3>2. Backpressure(active[r], EngagedAfter(r, n, c)) \in UpMessage
      BY <1>1, <3>1, UpMessages
    <3> QED BY <2>2, <3>2, ShortSequences DEF LagSignal
  <2> QED BY <2>1, <2>2
<1>3. engaged' \in [Receiver -> BOOLEAN]
  BY <1>1 DEF ReceiverInv, ReceiverTypeOK, reportWriteLag
<1>4. toSender' \in [Receiver -> Seq(UpMessage)]
  BY <1>2 DEF ReceiverInv, ChannelTypeOK, reportWriteLag
<1> QED BY <1>3, <1>4

LEMMA RecordSaved ==
  ASSUME ReceiverInv, NEW r \in Receiver, NEW f \in File, NEW v \in Nat \cup {None}
  PROVE  [record EXCEPT ![r][f] = v] \in [Receiver -> [File -> Nat \cup {None}]]
<1>1. record \in [Receiver -> [File -> Nat \cup {None}]]
  BY DEF ReceiverInv, ReceiverTypeOK
<1>2. [record[r] EXCEPT ![f] = v] \in [File -> Nat \cup {None}]
  BY <1>1
<1> QED BY <1>1, <1>2

LEMMA StoreChunksType ==
  ASSUME ReceiverInv, NEW r \in Receiver, NEW cs \in Seq(Payload), StoreChunks(r, cs)
  PROVE  /\ total' \in [Receiver -> Nat]
         /\ toWorker' \in [Receiver -> Seq(WorkerRequest)]
         /\ record' \in [Receiver -> [File -> Nat \cup {None}]]
         /\ memory' \in [Receiver -> Seq(Payload)]
<1>1. Len(cs) \in Nat /\ total[r] \in Nat
  BY LenProperties DEF ReceiverInv, ReceiverTypeOK
<1>2. total' \in [Receiver -> Nat]
  BY <1>1 DEF ReceiverInv, ReceiverTypeOK, StoreChunks
<1>3. CASE ToDisk(r)
  <2>1. active[r] \in File
    BY <1>3 DEF ToDisk, ReceiverInv, ReceiverTypeOK
  <2>2. \A i \in 1..Len(cs) : cs[i] \in Payload /\ total[r] + i - 1 \in Nat
    BY <1>1, ElementOfSeq
  <2>3. \A i \in 1..Len(cs) : WriteChunk(active[r], cs[i], total[r] + i - 1) \in WorkerRequest
    BY <2>1, <2>2 DEF WriteChunk, WorkerRequest
  <2>4. Writes(r, cs) \in [1..Len(cs) -> WorkerRequest]
    BY <2>3 DEF Writes
  <2>5. Writes(r, cs) \in Seq(WorkerRequest)
    BY <1>1, <2>4, FunctionIsSeq
  <2>6. toWorker' \in [Receiver -> Seq(WorkerRequest)]
    <3>1. toWorker' = [toWorker EXCEPT ![r] = @ \o Writes(r, cs)]
      BY <1>3 DEF StoreChunks
    <3> QED BY <2>5, <3>1 DEF ReceiverInv, WorkerTypeOK
  <2>7. record' \in [Receiver -> [File -> Nat \cup {None}]]
    <3>1. \/ record' = record
          \/ record' = [record EXCEPT ![r][active[r]] = total[r] + Len(cs)]
      BY <1>3 DEF StoreChunks
    <3>2. total[r] + Len(cs) \in Nat \cup {None}
      BY <1>1
    <3>3. [record EXCEPT ![r][active[r]] = total[r] + Len(cs)]
            \in [Receiver -> [File -> Nat \cup {None}]]
      BY <2>1, <3>2, RecordSaved
    <3> QED BY <3>1, <3>3 DEF ReceiverInv, ReceiverTypeOK
  <2>8. memory' = memory
    BY <1>3 DEF StoreChunks
  <2> QED BY <1>2, <2>6, <2>7, <2>8 DEF ReceiverInv, ReceiverTypeOK
<1>4. CASE ~ToDisk(r)
  <2>1. /\ memory' = [memory EXCEPT ![r] = @ \o cs]
        /\ toWorker' = toWorker
        /\ record' = record
    BY <1>4 DEF StoreChunks
  <2> QED BY <1>2, <2>1 DEF ReceiverInv, ReceiverTypeOK, WorkerTypeOK
<1> QED BY <1>3, <1>4

LEMMA MessageTaken ==
  ASSUME ReceiverInv, NEW r \in Receiver, NEW type, NextMessage(r, type)
  PROVE  /\ Head(toReceiver[r]) \in DownMessage
         /\ Head(toReceiver[r]).type = type
         /\ type = "CHUNK" => Head(toReceiver[r]).data \in Payload
         /\ type # "CHUNK" => Head(toReceiver[r]).file \in File
         /\ TakeMessage(r) => toReceiver' \in [Receiver -> Seq(DownMessage)]
<1>1. Head(toReceiver[r]) \in DownMessage /\ Tail(toReceiver[r]) \in Seq(DownMessage)
  BY HeadTail DEF ReceiverInv, ChannelTypeOK, NextMessage
<1>2. TakeMessage(r) => toReceiver' \in [Receiver -> Seq(DownMessage)]
  BY <1>1 DEF ReceiverInv, ChannelTypeOK, TakeMessage
<1> QED BY <1>1, <1>2, DownMessageFields DEF NextMessage

LEMMA ReplyTaken ==
  ASSUME ReceiverInv, NEW r \in Receiver, fromWorker[r] # <<>>
  PROVE  /\ Head(fromWorker[r]) \in WorkerReply
         /\ ReplyFile(r) \in File
         /\ TakeReply(r) => fromWorker' \in [Receiver -> Seq(WorkerReply)]
<1>1. Head(fromWorker[r]) \in WorkerReply /\ Tail(fromWorker[r]) \in Seq(WorkerReply)
  BY HeadTail DEF ReceiverInv, WorkerTypeOK
<1>2. ReplyFile(r) \in File
  BY <1>1 DEF ReplyFile, WorkerReply
<1>3. TakeReply(r) => fromWorker' \in [Receiver -> Seq(WorkerReply)]
  BY <1>1 DEF ReceiverInv, WorkerTypeOK, TakeReply
<1> QED BY <1>1, <1>2, <1>3

LEMMA onChunkType ==
  ASSUME ReceiverInv, NEW r \in Receiver, onChunk(r)
  PROVE  ReceiverInv'
<1> DEFINE c == Head(toReceiver[r]).data
<1>1. c \in Payload /\ toReceiver' \in [Receiver -> Seq(DownMessage)]
  BY MessageTaken DEF onChunk
<1>2. CASE ready[r]
  <2>1. /\ total' \in [Receiver -> Nat]
        /\ toWorker' \in [Receiver -> Seq(WorkerRequest)]
        /\ record' \in [Receiver -> [File -> Nat \cup {None}]]
        /\ memory' \in [Receiver -> Seq(Payload)]
    <3>1. <<c>> \in Seq(Payload)
      BY <1>1, ShortSequences
    <3>2. StoreChunks(r, <<c>>)
      BY <1>2 DEF onChunk
    <3> QED BY <3>1, <3>2, StoreChunksType
  <2>2. /\ engaged' \in [Receiver -> BOOLEAN]
        /\ toSender' \in [Receiver -> Seq(UpMessage)]
    <3>1. \/ reportWriteLag(r, total[r] + 1, confirmed[r], <<>>)
          \/ UNCHANGED <<engaged, toSender>>
      BY <1>2 DEF onChunk
    <3>2. total[r] + 1 \in Nat /\ confirmed[r] \in Nat
      BY DEF ReceiverInv, ReceiverTypeOK
    <3>3. <<>> \in Seq(UpMessage)
      BY ShortSequences
    <3>4. CASE reportWriteLag(r, total[r] + 1, confirmed[r], <<>>)
      BY <3>2, <3>3, <3>4, reportWriteLagType
    <3> QED BY <3>1, <3>4 DEF ReceiverInv, ReceiverTypeOK, ChannelTypeOK
  <2> QED
    BY <1>1, <1>2, <2>1, <2>2
       DEF ReceiverInv, ChannelTypeOK, WorkerTypeOK, ReceiverTypeOK, onChunk, WorkerElsewhere
<1>3. CASE ~ready[r]
  <2>1. early' = [early EXCEPT ![r] = Append(@, c)]
    BY <1>3 DEF onChunk
  <2>2. early' \in [Receiver -> Seq(Payload)]
    BY <1>1, <2>1 DEF ReceiverInv, ReceiverTypeOK
  <2> QED
    BY <1>1, <1>3, <2>2
       DEF ReceiverInv, ChannelTypeOK, WorkerTypeOK, ReceiverTypeOK, onChunk, WorkerElsewhere
<1> QED BY <1>2, <1>3

LEMMA OfferHandlerAdded ==
  ASSUME ReceiverInv, NEW r \in Receiver, NEW h \in OfferHandler, NEW g \in OfferHandler
  PROVE  /\ [offers EXCEPT ![r] = @ \cup {h}] \in [Receiver -> SUBSET OfferHandler]
         /\ [offers EXCEPT ![r] = (@ \ {g}) \cup {h}] \in [Receiver -> SUBSET OfferHandler]
BY DEF ReceiverInv, ReceiverTypeOK

LEMMA onOfferType ==
  ASSUME ReceiverInv, NEW r \in Receiver, onOffer(r)
  PROVE  ReceiverInv'
<1> DEFINE f == Head(toReceiver[r]).file
           h == [file |-> f, stage |-> "lookup", start |-> 0, channel |-> "open"]
<1>1. f \in File /\ toReceiver' \in [Receiver -> Seq(DownMessage)]
  BY MessageTaken DEF onOffer
<1>2. h \in OfferHandler
  BY <1>1 DEF OfferHandler, ChannelOf
<1>3. offers' \in [Receiver -> SUBSET OfferHandler]
  BY <1>2, OfferHandlerAdded DEF onOffer
<1>4. active' \in [Receiver -> File \cup {None}]
  BY <1>1 DEF ReceiverInv, ReceiverTypeOK, onOffer
<1>5. ready' \in [Receiver -> BOOLEAN] /\ early' \in [Receiver -> Seq(Payload)]
  BY ShortSequences DEF ReceiverInv, ReceiverTypeOK, onOffer
<1> QED
  BY <1>1, <1>3, <1>4, <1>5
     DEF ReceiverInv, ChannelTypeOK, WorkerTypeOK, ReceiverTypeOK, onOffer, WorkerElsewhere

LEMMA StartFileType ==
  ASSUME ReceiverInv, NEW r \in Receiver, NEW f \in File, NEW start \in Nat,
         StartFile(r, f, start)
  PROVE  /\ meta' \in [Receiver -> File \cup {None}]
         /\ memory' \in [Receiver -> Seq(Payload)]
         /\ total' \in [Receiver -> Nat]
         /\ shownPaused' \in [Receiver -> BOOLEAN]
         /\ error' \in [Receiver -> BOOLEAN]
BY ShortSequences DEF ReceiverInv, ReceiverTypeOK, StartFile

LEMMA onOfferInMemoryType ==
  ASSUME ReceiverInv, NEW r \in Receiver, onOfferInMemory(r)
  PROVE  ReceiverInv'
<1> DEFINE f == Head(toReceiver[r]).file
<1>1. f \in File /\ toReceiver' \in [Receiver -> Seq(DownMessage)]
  BY MessageTaken DEF onOfferInMemory
<1>2. /\ meta' \in [Receiver -> File \cup {None}]
      /\ memory' \in [Receiver -> Seq(Payload)]
      /\ total' \in [Receiver -> Nat]
      /\ shownPaused' \in [Receiver -> BOOLEAN]
      /\ error' \in [Receiver -> BOOLEAN]
  BY <1>1, StartFileType DEF onOfferInMemory
<1>3. toSender' \in [Receiver -> Seq(UpMessage)]
  <2>1. Accept(f, 0) \in UpMessage
    BY <1>1, UpMessages
  <2> QED BY <2>1 DEF ReceiverInv, ChannelTypeOK, onOfferInMemory
<1>4. /\ active' \in [Receiver -> File \cup {None}]
      /\ confirmed' \in [Receiver -> Nat]
  BY <1>1 DEF ReceiverInv, ReceiverTypeOK, onOfferInMemory
<1>5. /\ engaged' \in [Receiver -> BOOLEAN]
      /\ ready' \in [Receiver -> BOOLEAN]
      /\ early' \in [Receiver -> Seq(Payload)]
  BY ShortSequences DEF ReceiverInv, ReceiverTypeOK, onOfferInMemory
<1> QED
  BY <1>1, <1>2, <1>3, <1>4, <1>5
     DEF ReceiverInv, ChannelTypeOK, WorkerTypeOK, ReceiverTypeOK, onOfferInMemory,
         WorkerElsewhere

LEMMA recordFoundType ==
  ASSUME ReceiverInv, NEW r \in Receiver, NEW h \in offers[r], recordFound(r, h)
  PROVE  ReceiverInv'
<1> DEFINE start == StartOffset(r, h.file)
           g == [h EXCEPT !.stage = "init", !.start = start]
<1>1. h \in OfferHandler
  BY DEF ReceiverInv, ReceiverTypeOK
<1>2. h.file \in File /\ start \in Nat
  <2>1. h.file \in File
    BY <1>1 DEF OfferHandler
  <2>2. record[r][h.file] \in Nat \cup {None}
    BY <2>1 DEF ReceiverInv, ReceiverTypeOK
  <2> QED BY <2>1, <2>2 DEF StartOffset
<1>3. g \in OfferHandler
  BY <1>1, <1>2 DEF OfferHandler
<1>4. /\ meta' \in [Receiver -> File \cup {None}]
      /\ memory' \in [Receiver -> Seq(Payload)]
      /\ total' \in [Receiver -> Nat]
      /\ shownPaused' \in [Receiver -> BOOLEAN]
      /\ error' \in [Receiver -> BOOLEAN]
  <2>1. StartFile(r, h.file, start)
    BY DEF recordFound
  <2> QED BY <1>2, <2>1, StartFileType
<1>5. confirmed' \in [Receiver -> Nat] /\ engaged' \in [Receiver -> BOOLEAN]
  <2>1. /\ confirmed' = [confirmed EXCEPT ![r] = start] \/ confirmed' = confirmed
        /\ engaged' = [engaged EXCEPT ![r] = FALSE] \/ engaged' = engaged
    BY DEF recordFound
  <2>2. confirmed' \in [Receiver -> Nat]
    BY <1>2, <2>1 DEF ReceiverInv, ReceiverTypeOK
  <2>3. engaged' \in [Receiver -> BOOLEAN]
    BY <2>1 DEF ReceiverInv, ReceiverTypeOK
  <2> QED BY <2>2, <2>3
<1>6. offers' \in [Receiver -> SUBSET OfferHandler]
  <2>1. offers' = [offers EXCEPT ![r] = (@ \ {h}) \cup {g}]
    BY DEF recordFound
  <2> QED BY <1>1, <1>3, <2>1, OfferHandlerAdded
<1>7. toWorker' \in [Receiver -> Seq(WorkerRequest)]
  <2>1. InitFile(h.file) \in WorkerRequest
    BY <1>2 DEF InitFile, WorkerRequest, Suspending
  <2>2. toWorker' = [toWorker EXCEPT ![r] = Append(@, InitFile(h.file))]
    BY DEF recordFound
  <2> QED BY <2>1, <2>2 DEF ReceiverInv, WorkerTypeOK
<1> QED
  BY <1>4, <1>5, <1>6, <1>7
     DEF ReceiverInv, ChannelTypeOK, WorkerTypeOK, ReceiverTypeOK, recordFound,
         WorkerElsewhere, channelVars

LEMMA fileInitialisedType ==
  ASSUME ReceiverInv, NEW r \in Receiver, fileInitialised(r)
  PROVE  ReceiverInv'
<1>1. /\ ReplyFile(r) \in File
      /\ fromWorker' \in [Receiver -> Seq(WorkerReply)]
  BY ReplyTaken DEF fileInitialised, NextReply
<1>2. PICK h \in OffersAt(r, ReplyFile(r), {"init"}) :
        /\ offers' = [offers EXCEPT ![r] = @ \ {h}]
        /\ IF h.channel = "open"
           THEN LET accept == <<Accept(h.file, h.start)>>
                    n == total[r] + Len(early[r]) IN
                /\ listening' = [listening EXCEPT ![r] = @ \cup {h.file}]
                /\ StoreChunks(r, early[r])
                /\ \/ early[r] # <<>> /\ reportWriteLag(r, n, confirmed[r], accept)
                   \/ /\ early[r] = <<>> \/ ~IsLastChunk(r, n)
                      /\ toSender' = [toSender EXCEPT ![r] = @ \o accept]
                      /\ UNCHANGED engaged
                /\ ready' = [ready EXCEPT ![r] = TRUE]
                /\ early' = [early EXCEPT ![r] = <<>>]
           ELSE UNCHANGED <<listening, total, toWorker, record, memory, toSender,
                            engaged, ready, early>>
  BY DEF fileInitialised
<1>3. h \in OfferHandler
  BY DEF OffersAt, ReceiverInv, ReceiverTypeOK
<1>4. offers' \in [Receiver -> SUBSET OfferHandler]
  BY <1>2 DEF ReceiverInv, ReceiverTypeOK
<1>5. CASE h.channel = "open"
  <2> DEFINE accept == <<Accept(h.file, h.start)>>
             n == total[r] + Len(early[r])
  <2>1. early[r] \in Seq(Payload) /\ total[r] \in Nat /\ confirmed[r] \in Nat
    BY DEF ReceiverInv, ReceiverTypeOK
  <2>2. n \in Nat
    BY <2>1, LenProperties
  <2>3. accept \in Seq(UpMessage)
    <3>1. Accept(h.file, h.start) \in UpMessage
      BY <1>3, UpMessages DEF OfferHandler
    <3> QED BY <3>1, ShortSequences
  <2>4. /\ total' \in [Receiver -> Nat]
        /\ toWorker' \in [Receiver -> Seq(WorkerRequest)]
        /\ record' \in [Receiver -> [File -> Nat \cup {None}]]
        /\ memory' \in [Receiver -> Seq(Payload)]
    BY <1>2, <1>5, <2>1, StoreChunksType
  <2>5. engaged' \in [Receiver -> BOOLEAN] /\ toSender' \in [Receiver -> Seq(UpMessage)]
    <3>1. CASE reportWriteLag(r, n, confirmed[r], accept)
      BY <2>1, <2>2, <2>3, <3>1, reportWriteLagType
    <3>2. CASE toSender' = [toSender EXCEPT ![r] = @ \o accept] /\ engaged' = engaged
      BY <2>3, <3>2 DEF ReceiverInv, ChannelTypeOK, ReceiverTypeOK
    <3> QED BY <1>2, <1>5, <3>1, <3>2
  <2>6. listening' \in [Receiver -> SUBSET File]
    <3>1. listening' = [listening EXCEPT ![r] = @ \cup {h.file}] /\ h.file \in File
      BY <1>2, <1>3, <1>5 DEF OfferHandler
    <3> QED BY <3>1 DEF ReceiverInv, ReceiverTypeOK
  <2>7. ready' \in [Receiver -> BOOLEAN] /\ early' \in [Receiver -> Seq(Payload)]
    <3>1. ready' = [ready EXCEPT ![r] = TRUE] /\ early' = [early EXCEPT ![r] = <<>>]
      BY <1>2, <1>5
    <3> QED BY <3>1, ShortSequences DEF ReceiverInv, ReceiverTypeOK
  <2> QED
    BY <1>1, <1>4, <2>4, <2>5, <2>6, <2>7
       DEF ReceiverInv, ChannelTypeOK, WorkerTypeOK, ReceiverTypeOK, fileInitialised
<1>6. CASE h.channel # "open"
  <2>1. UNCHANGED <<listening, total, toWorker, record, memory, toSender, engaged,
                    ready, early>>
    BY <1>2, <1>6
  <2> QED
    BY <1>1, <1>4, <2>1
       DEF ReceiverInv, ChannelTypeOK, WorkerTypeOK, ReceiverTypeOK, fileInitialised
<1> QED BY <1>5, <1>6

LEMMA FinishHandlers ==
  ASSUME ReceiverInv, NEW r \in Receiver, NEW h \in FinishHandler, NEW g \in FinishHandler
  PROVE  /\ [finishing EXCEPT ![r] = @ \cup {h}] \in [Receiver -> SUBSET FinishHandler]
         /\ [finishing EXCEPT ![r] = (@ \ {g}) \cup {h}] \in [Receiver -> SUBSET FinishHandler]
BY DEF ReceiverInv, ReceiverTypeOK

LEMMA DownloadType ==
  ASSUME ReceiverInv, NEW r \in Receiver, NEW f \in File, NEW data \in Content,
         HandOver(r, f, data)
  PROVE  delivered' \in [Receiver -> SUBSET Download]
<1> DEFINE download == [file |-> f, data |-> data, warned |-> error[r]]
<1>1. download \in Download
  BY DEF ReceiverInv, ReceiverTypeOK, Download
<1> QED
  BY <1>1 DEF ReceiverInv, ReceiverTypeOK, HandOver

LEMMA onCompleteType ==
  ASSUME ReceiverInv, NEW r \in Receiver, onComplete(r)
  PROVE  ReceiverInv'
<1> DEFINE f == Head(toReceiver[r]).file
           handler(stage) == [file |-> f, stage |-> stage, channel |-> "open"]
<1>1. f \in File /\ toReceiver' \in [Receiver -> Seq(DownMessage)]
  BY MessageTaken DEF onComplete
<1>2. handler("close") \in FinishHandler /\ handler("forget") \in FinishHandler
  BY <1>1 DEF FinishHandler, ChannelOf
<1>3. active' \in [Receiver -> File \cup {None}]
  <2>1. active' = [active EXCEPT ![r] = None] \/ active' = active
    BY DEF onComplete
  <2> QED BY <2>1 DEF ReceiverInv, ReceiverTypeOK
<1>4. finishing' \in [Receiver -> SUBSET FinishHandler]
  <2>1. \/ finishing' = finishing
        \/ finishing' = [finishing EXCEPT ![r] = @ \cup {handler("close")}]
        \/ finishing' = [finishing EXCEPT ![r] = @ \cup {handler("forget")}]
    BY DEF onComplete
  <2> HIDE DEF handler
  <2>2. ASSUME NEW h \in FinishHandler
        PROVE  [finishing EXCEPT ![r] = @ \cup {h}] \in [Receiver -> SUBSET FinishHandler]
    BY FinishHandlers
  <2>3. finishing \in [Receiver -> SUBSET FinishHandler]
    BY DEF ReceiverInv, ReceiverTypeOK
  <2> QED BY <1>2, <2>1, <2>2, <2>3
<1>5. toWorker' \in [Receiver -> Seq(WorkerRequest)]
  <2>1. \/ toWorker' = toWorker
        \/ toWorker' = [toWorker EXCEPT ![r] = Append(@, CloseFile(f))]
    BY DEF onComplete
  <2>2. CloseFile(f) \in WorkerRequest
    BY <1>1 DEF CloseFile, WorkerRequest
  <2>3. toWorker \in [Receiver -> Seq(WorkerRequest)]
    BY DEF ReceiverInv, WorkerTypeOK
  <2>4. [toWorker EXCEPT ![r] = Append(@, CloseFile(f))] \in [Receiver -> Seq(WorkerRequest)]
    BY <2>2, <2>3
  <2> QED BY <2>1, <2>3, <2>4
<1>6. delivered' \in [Receiver -> SUBSET Download]
  <2>1. delivered' = delivered \/ HandOver(r, f, memory[r])
    BY DEF onComplete
  <2>2. memory[r] \in Content
    BY SeqMonotonic DEF Content, ReceiverInv, ReceiverTypeOK
  <2> QED BY <1>1, <2>1, <2>2, DownloadType DEF ReceiverInv, ReceiverTypeOK
<1> QED
  BY <1>1, <1>3, <1>4, <1>5, <1>6
     DEF ReceiverInv, ChannelTypeOK, WorkerTypeOK, ReceiverTypeOK, onComplete, WorkerElsewhere

LEMMA fileClosedType ==
  ASSUME ReceiverInv, NEW r \in Receiver, fileClosed(r)
  PROVE  ReceiverInv'
<1>1. ReplyFile(r) \in File /\ fromWorker' \in [Receiver -> Seq(WorkerReply)]
  BY ReplyTaken DEF fileClosed, NextReply
<1>2. finishing' \in [Receiver -> SUBSET FinishHandler]
  <2>1. PICK h \in FinishingAt(r, ReplyFile(r), {"close"}) :
          finishing' = [finishing EXCEPT ![r] = (@ \ {h}) \cup {[h EXCEPT !.stage = "get"]}]
    BY DEF fileClosed
  <2>2. h \in FinishHandler
    BY DEF FinishingAt, ReceiverInv, ReceiverTypeOK
  <2>3. [h EXCEPT !.stage = "get"] \in FinishHandler
    BY <2>2 DEF FinishHandler
  <2> QED BY <2>1, <2>2, <2>3, FinishHandlers
<1>3. toWorker' \in [Receiver -> Seq(WorkerRequest)]
  <2>1. GetFile(ReplyFile(r)) \in WorkerRequest
    BY <1>1 DEF GetFile, WorkerRequest, Suspending
  <2> QED BY <2>1 DEF ReceiverInv, WorkerTypeOK, fileClosed
<1> QED
  BY <1>1, <1>2, <1>3
     DEF ReceiverInv, ChannelTypeOK, WorkerTypeOK, ReceiverTypeOK, fileClosed, channelVars

LEMMA fileReadyType ==
  ASSUME ReceiverInv, NEW r \in Receiver, fileReady(r)
  PROVE  ReceiverInv'
<1>1. ReplyFile(r) \in File /\ fromWorker' \in [Receiver -> Seq(WorkerReply)]
  BY ReplyTaken DEF fileReady, NextReply
<1>2. finishing' \in [Receiver -> SUBSET FinishHandler]
  <2>1. PICK h \in FinishingAt(r, ReplyFile(r), {"get"}) :
          finishing' = [finishing EXCEPT ![r] = (@ \ {h}) \cup {[h EXCEPT !.stage = "forget"]}]
    BY DEF fileReady
  <2>2. h \in FinishHandler
    BY DEF FinishingAt, ReceiverInv, ReceiverTypeOK
  <2>3. [h EXCEPT !.stage = "forget"] \in FinishHandler
    BY <2>2 DEF FinishHandler
  <2> QED BY <2>1, <2>2, <2>3, FinishHandlers
<1>3. delivered' \in [Receiver -> SUBSET Download]
  <2>1. Head(fromWorker[r]).data \in Content
    BY ReplyTaken DEF fileReady, NextReply, WorkerReply
  <2> QED BY <1>1, <2>1, DownloadType DEF fileReady
<1>4. record' \in [Receiver -> [File -> Nat \cup {None}]]
  BY <1>1, RecordSaved DEF fileReady
<1> QED
  BY <1>1, <1>2, <1>3, <1>4
     DEF ReceiverInv, ChannelTypeOK, WorkerTypeOK, ReceiverTypeOK, fileReady, channelVars

LEMMA EndOfFileType ==
  ASSUME ReceiverInv, NEW r \in Receiver, NEW h, EndOfFile(r, h)
  PROVE  /\ finishing' \in [Receiver -> SUBSET FinishHandler]
         /\ listening' \in [Receiver -> SUBSET File]
         /\ memory' \in [Receiver -> Seq(Payload)]
         /\ shownPaused' \in [Receiver -> BOOLEAN]
         /\ confirmed' \in [Receiver -> Nat]
         /\ active' \in [Receiver -> File \cup {None}]
<1>1. /\ finishing' = [finishing EXCEPT ![r] = @ \ {h}]
      /\ listening' = [listening EXCEPT ![r] = @ \ {h.file}]
      /\ memory' = [memory EXCEPT ![r] = <<>>]
      /\ shownPaused' = [shownPaused EXCEPT ![r] = FALSE]
      /\ confirmed' = [confirmed EXCEPT ![r] = 0] \/ confirmed' = confirmed
      /\ active' = [active EXCEPT ![r] = None] \/ active' = active
  BY DEF EndOfFile
<1>2. /\ finishing' \in [Receiver -> SUBSET FinishHandler]
      /\ listening' \in [Receiver -> SUBSET File]
      /\ memory' \in [Receiver -> Seq(Payload)]
      /\ shownPaused' \in [Receiver -> BOOLEAN]
  BY <1>1, ShortSequences DEF ReceiverInv, ReceiverTypeOK
<1>3. confirmed' \in [Receiver -> Nat]
  <2>1. confirmed \in [Receiver -> Nat]
    BY DEF ReceiverInv, ReceiverTypeOK
  <2>2. [confirmed EXCEPT ![r] = 0] \in [Receiver -> Nat]
    BY <2>1
  <2> QED BY <1>1, <2>1, <2>2
<1>4. active' \in [Receiver -> File \cup {None}]
  <2>1. active \in [Receiver -> File \cup {None}]
    BY DEF ReceiverInv, ReceiverTypeOK
  <2>2. [active EXCEPT ![r] = None] \in [Receiver -> File \cup {None}]
    BY <2>1
  <2> QED BY <1>1, <2>1, <2>2
<1> QED BY <1>2, <1>3, <1>4

LEMMA recordDeletedType ==
  ASSUME ReceiverInv, NEW r \in Receiver, NEW h \in finishing[r], recordDeleted(r, h)
  PROVE  ReceiverInv'
<1>1. h \in FinishHandler
  BY DEF ReceiverInv, ReceiverTypeOK
<1>2. /\ finishing' \in [Receiver -> SUBSET FinishHandler]
      /\ listening' \in [Receiver -> SUBSET File]
      /\ memory' \in [Receiver -> Seq(Payload)]
      /\ shownPaused' \in [Receiver -> BOOLEAN]
      /\ confirmed' \in [Receiver -> Nat]
      /\ active' \in [Receiver -> File \cup {None}]
  BY EndOfFileType DEF recordDeleted
<1>3. engaged' \in [Receiver -> BOOLEAN]
  <2>1. engaged' = [engaged EXCEPT ![r] = FALSE] \/ engaged' = engaged
    BY DEF recordDeleted
  <2> QED BY <2>1 DEF ReceiverInv, ReceiverTypeOK
<1>4. toSender' \in [Receiver -> Seq(UpMessage)]
  <2>1. \/ toSender' = [toSender EXCEPT ![r] = Append(@, Backpressure(h.file, FALSE))]
        \/ toSender' = toSender
    BY DEF recordDeleted
  <2>2. Backpressure(h.file, FALSE) \in UpMessage
    BY <1>1, UpMessages DEF FinishHandler
  <2>3. toSender \in [Receiver -> Seq(UpMessage)]
    BY DEF ReceiverInv, ChannelTypeOK
  <2>4. [toSender EXCEPT ![r] = Append(@, Backpressure(h.file, FALSE))]
          \in [Receiver -> Seq(UpMessage)]
    BY <2>2, <2>3, Posted
  <2> QED BY <2>1, <2>3, <2>4
<1>5. error' \in [Receiver -> BOOLEAN]
  BY DEF recordDeleted, ReceiverInv, ReceiverTypeOK
<1> QED
  BY <1>2, <1>3, <1>4, <1>5
     DEF ReceiverInv, ChannelTypeOK, WorkerTypeOK, ReceiverTypeOK, recordDeleted, workerVars

LEMMA chunkWrittenType ==
  ASSUME ReceiverInv, NEW r \in Receiver, chunkWritten(r)
  PROVE  ReceiverInv'
<1> DEFINE n == Head(fromWorker[r]).currentOffset
<1>1. fromWorker' \in [Receiver -> Seq(WorkerReply)]
  BY ReplyTaken DEF chunkWritten, NextReply
<1>2. n \in Nat
  BY ReplyTaken DEF chunkWritten, NextReply, WorkerReply
<1>3. CASE ReplyFile(r) \in listening[r]
  <2>1. confirmed' = [confirmed EXCEPT ![r] = n] /\ reportWriteLag(r, total[r], n, <<>>)
    BY <1>3 DEF chunkWritten
  <2>2. total[r] \in Nat /\ <<>> \in Seq(UpMessage)
    BY ShortSequences DEF ReceiverInv, ReceiverTypeOK
  <2>3. engaged' \in [Receiver -> BOOLEAN] /\ toSender' \in [Receiver -> Seq(UpMessage)]
    BY <1>2, <2>1, <2>2, reportWriteLagType
  <2>4. confirmed' \in [Receiver -> Nat]
    BY <1>2, <2>1 DEF ReceiverInv, ReceiverTypeOK
  <2> QED
    BY <1>1, <2>3, <2>4
       DEF ReceiverInv, ChannelTypeOK, WorkerTypeOK, ReceiverTypeOK, chunkWritten
<1>4. CASE ReplyFile(r) \notin listening[r]
  BY <1>1, <1>4
     DEF ReceiverInv, ChannelTypeOK, WorkerTypeOK, ReceiverTypeOK, chunkWritten
<1> QED BY <1>3, <1>4

LEMMA workerErrorType ==
  ASSUME ReceiverInv, NEW r \in Receiver, workerError(r)
  PROVE  ReceiverInv'
<1>1. fromWorker' \in [Receiver -> Seq(WorkerReply)]
  BY ReplyTaken DEF workerError, NextReply
<1>2. \/ \E h : /\ offers' = [offers EXCEPT ![r] = @ \ {h}]
                /\ EndOfFile(r, h) /\ error' = [error EXCEPT ![r] = TRUE]
      \/ \E h : /\ offers' = [offers EXCEPT ![r] = @ \ {h}]
                /\ UNCHANGED <<finishing, listening, memory, shownPaused, confirmed,
                               active, error>>
      \/ /\ error' = [error EXCEPT ![r] = @ \/ ReplyFile(r) \in listening[r]]
         /\ UNCHANGED <<offers, finishing, listening, memory, shownPaused, confirmed,
                        active>>
  BY DEF workerError
<1>3. CASE \E h : /\ offers' = [offers EXCEPT ![r] = @ \ {h}]
                  /\ EndOfFile(r, h) /\ error' = [error EXCEPT ![r] = TRUE]
  <2>1. PICK h : /\ offers' = [offers EXCEPT ![r] = @ \ {h}]
                 /\ EndOfFile(r, h) /\ error' = [error EXCEPT ![r] = TRUE]
    BY <1>3
  <2>2. /\ offers' \in [Receiver -> SUBSET OfferHandler]
        /\ error' \in [Receiver -> BOOLEAN]
    BY <2>1 DEF ReceiverInv, ReceiverTypeOK
  <2>3. /\ finishing' \in [Receiver -> SUBSET FinishHandler]
        /\ listening' \in [Receiver -> SUBSET File]
        /\ memory' \in [Receiver -> Seq(Payload)]
        /\ shownPaused' \in [Receiver -> BOOLEAN]
        /\ confirmed' \in [Receiver -> Nat]
        /\ active' \in [Receiver -> File \cup {None}]
    BY <2>1, EndOfFileType
  <2> QED
    BY <1>1, <2>2, <2>3
       DEF ReceiverInv, ChannelTypeOK, WorkerTypeOK, ReceiverTypeOK, workerError, channelVars
<1>4. CASE \E h : /\ offers' = [offers EXCEPT ![r] = @ \ {h}]
                  /\ UNCHANGED <<finishing, listening, memory, shownPaused, confirmed,
                                 active, error>>
  BY <1>1, <1>4
     DEF ReceiverInv, ChannelTypeOK, WorkerTypeOK, ReceiverTypeOK, workerError, channelVars
<1>5. CASE /\ error' = [error EXCEPT ![r] = @ \/ ReplyFile(r) \in listening[r]]
           /\ UNCHANGED <<offers, finishing, listening, memory, shownPaused, confirmed,
                          active>>
  <2>1. error' \in [Receiver -> BOOLEAN]
    BY <1>5 DEF ReceiverInv, ReceiverTypeOK
  <2> QED
    BY <1>1, <1>5, <2>1
       DEF ReceiverInv, ChannelTypeOK, WorkerTypeOK, ReceiverTypeOK, workerError, channelVars
<1> QED BY <1>2, <1>3, <1>4, <1>5

LEMMA replyDroppedType ==
  ASSUME ReceiverInv, NEW r \in Receiver, replyDropped(r)
  PROVE  ReceiverInv'
<1>1. fromWorker' \in [Receiver -> Seq(WorkerReply)]
  BY ReplyTaken DEF replyDropped
<1> QED
  BY <1>1
     DEF ReceiverInv, ChannelTypeOK, WorkerTypeOK, ReceiverTypeOK, replyDropped,
         channelVars, receiverVars

LEMMA onPauseSignalType ==
  ASSUME ReceiverInv, NEW r \in Receiver, onPauseSignal(r)
  PROVE  ReceiverInv'
<1>1. toReceiver' \in [Receiver -> Seq(DownMessage)]
  BY MessageTaken DEF onPauseSignal
<1>2. shownPaused' \in [Receiver -> BOOLEAN]
  BY DEF ReceiverInv, ReceiverTypeOK, onPauseSignal
<1> QED
  BY <1>1, <1>2
     DEF ReceiverInv, ChannelTypeOK, WorkerTypeOK, ReceiverTypeOK, onPauseSignal, workerVars

LEMMA ReceiverHandlerType ==
  ASSUME ReceiverInv, NEW r \in Receiver, ReceiverHandler(r)
  PROVE  ReceiverInv'
BY onChunkType, onOfferType, onOfferInMemoryType, recordFoundType, fileInitialisedType,
   onCompleteType, fileClosedType, fileReadyType, recordDeletedType, chunkWrittenType,
   workerErrorType, replyDroppedType, onPauseSignalType
   DEF ReceiverHandler

-----------------------------------------------------------------------------
TypeInv == TypeOK /\ HasCurrent

LEMMA TypeInvParts ==
  TypeInv <=> /\ SenderInv
              /\ ReceiverInv
              /\ senderReloads \in Nat
              /\ receiverReloads \in Nat
BY DEF TypeInv, TypeOK, SenderInv, ReceiverInv

LEMMA InitType == Init => TypeInv
<1> SUFFICES ASSUME Init PROVE TypeInv
  OBVIOUS
<1>1. ChannelTypeOK
  BY ShortSequences DEF Init, ChannelInit, ChannelTypeOK
<1>2. SenderTypeOK /\ HasCurrent
  BY ShortSequences DEF Init, SenderInit, SenderTypeOK, HasCurrent, Phase
<1>3. WorkerTypeOK
  BY ShortSequences DEF Init, WorkerInit, WorkerTypeOK, Content
<1>4. ReceiverTypeOK
  BY ShortSequences DEF Init, ReceiverInit, ReceiverTypeOK
<1> QED BY <1>1, <1>2, <1>3, <1>4 DEF TypeInv, TypeOK, Init

LEMMA TerminateWorkerType ==
  ASSUME WorkerTypeOK, NEW r \in Receiver, TerminateWorker(r)
  PROVE  WorkerTypeOK'
BY ShortSequences DEF WorkerTypeOK, TerminateWorker

LEMMA PageReloadedType ==
  ASSUME ReceiverInv, NEW r \in Receiver, PageReloaded(r)
  PROVE  WorkerTypeOK' /\ ReceiverTypeOK'
<1>1. WorkerTypeOK'
  BY TerminateWorkerType DEF PageReloaded, ReceiverInv
<1>2. ReceiverTypeOK'
  BY ShortSequences DEF ReceiverInv, ReceiverTypeOK, PageReloaded
<1> QED BY <1>1, <1>2

LEMMA OrphanedType ==
  ASSUME NEW r
  PROVE  /\ \A h \in OfferHandler : Orphaned(r, h) \in OfferHandler
         /\ \A h \in FinishHandler : Orphaned(r, h) \in FinishHandler
<1>1. ASSUME NEW c \in ChannelOf
      PROVE  /\ \A h \in OfferHandler : [h EXCEPT !.channel = c] \in OfferHandler
             /\ \A h \in FinishHandler : [h EXCEPT !.channel = c] \in FinishHandler
  BY DEF OfferHandler, FinishHandler
<1>2. (IF engaged[r] THEN "closedEngaged" ELSE "closed") \in ChannelOf
  BY DEF ChannelOf
<1> QED BY <1>1, <1>2 DEF Orphaned

LEMMA ChannelsClosedType ==
  ASSUME ReceiverInv, ChannelsClosed
  PROVE  ReceiverTypeOK'
<1>1. /\ listening' \in [Receiver -> SUBSET File]
      /\ active' \in [Receiver -> File \cup {None}]
      /\ early' \in [Receiver -> Seq(Payload)]
      /\ confirmed' \in [Receiver -> Nat]
  BY ShortSequences DEF ReceiverInv, ReceiverTypeOK, ChannelsClosed
<1>2. /\ error' \in [Receiver -> BOOLEAN]
      /\ ready' \in [Receiver -> BOOLEAN]
      /\ engaged' \in [Receiver -> BOOLEAN]
  BY DEF ReceiverInv, ReceiverTypeOK, ChannelsClosed
<1>3. offers' \in [Receiver -> SUBSET OfferHandler]
  <2>1. ASSUME NEW r \in Receiver, NEW h \in offers[r]
        PROVE  Orphaned(r, h) \in OfferHandler
    <3>1. h \in OfferHandler
      BY DEF ReceiverInv, ReceiverTypeOK
    <3> QED BY <3>1, OrphanedType
  <2> QED BY <2>1 DEF ChannelsClosed
<1>4. finishing' \in [Receiver -> SUBSET FinishHandler]
  <2>1. ASSUME NEW r \in Receiver, NEW h \in finishing[r]
        PROVE  Orphaned(r, h) \in FinishHandler
    <3>1. h \in FinishHandler
      BY DEF ReceiverInv, ReceiverTypeOK
    <3> QED BY <3>1, OrphanedType
  <2> QED BY <2>1 DEF ChannelsClosed
<1> QED
  BY <1>1, <1>2, <1>3, <1>4 DEF ReceiverInv, ReceiverTypeOK, ChannelsClosed

LEMMA SenderReloadType ==
  ASSUME TypeInv, SenderReload
  PROVE  TypeInv'
<1>1. ChannelTypeOK'
  BY ShortSequences DEF SenderReload, ChannelTypeOK
<1>2. SenderTypeOK' /\ HasCurrent'
  BY ShortSequences DEF TypeInv, TypeOK, SenderTypeOK, HasCurrent, SenderReload, Phase
<1>3. WorkerTypeOK'
  BY DEF TypeInv, TypeOK, WorkerTypeOK, SenderReload, workerVars
<1>4. ReceiverTypeOK'
  BY ChannelsClosedType, TypeInvParts DEF SenderReload
<1> QED
  BY <1>1, <1>2, <1>3, <1>4 DEF TypeInv, TypeOK, SenderReload

LEMMA ReceiverReloadType ==
  ASSUME TypeInv, NEW r \in Receiver, ReceiverReload(r)
  PROVE  TypeInv'
<1>1. ChannelTypeOK'
  BY ShortSequences DEF TypeInv, TypeOK, ChannelTypeOK, ReceiverReload
<1>2. SenderTypeOK' /\ HasCurrent'
  BY DEF TypeInv, TypeOK, SenderTypeOK, HasCurrent, ReceiverReload
<1>3. WorkerTypeOK' /\ ReceiverTypeOK'
  BY PageReloadedType, TypeInvParts DEF ReceiverReload
<1> QED
  BY <1>1, <1>2, <1>3 DEF TypeInv, TypeOK, ReceiverReload

LEMMA RejoinType ==
  ASSUME TypeInv, NEW r \in Receiver, Rejoin(r)
  PROVE  TypeInv'
BY DEF TypeInv, TypeOK, ChannelTypeOK, SenderTypeOK, HasCurrent, WorkerTypeOK,
       ReceiverTypeOK, Rejoin, senderVars, workerVars, receiverVars, reloadVars

LEMMA StepType == TypeInv /\ [Next]_vars => TypeInv'
<1> SUFFICES ASSUME TypeInv, [Next]_vars PROVE TypeInv'
  OBVIOUS
<1>1. CASE SenderStep
  <2>1. SenderInv'
    BY <1>1, TypeInvParts, SenderNextType DEF SenderStep
  <2>2. WorkerTypeOK' /\ ReceiverTypeOK'
    BY <1>1 DEF SenderStep, OnlySender, TypeInv, TypeOK, WorkerTypeOK, ReceiverTypeOK,
                workerVars, receiverVars
  <2> QED
    BY <1>1, <2>1, <2>2
       DEF SenderStep, OnlySender, SenderInv, TypeInv, TypeOK, reloadVars
<1>2. ASSUME NEW r \in Receiver, ReceiverStep(r)
      PROVE  TypeInv'
  <2>1. ReceiverInv'
    BY <1>2, TypeInvParts, ReceiverHandlerType DEF ReceiverStep
  <2>2. SenderTypeOK' /\ HasCurrent'
    BY <1>2 DEF ReceiverStep, TypeInv, TypeOK, SenderTypeOK, HasCurrent, senderVars
  <2> QED
    BY <1>2, <2>1, <2>2 DEF ReceiverStep, ReceiverInv, TypeInv, TypeOK, reloadVars
<1>3. ASSUME NEW r \in Receiver, OpfsStep(r)
      PROVE  TypeInv'
  <2>1. WorkerTypeOK'
    BY <1>3, WorkerStepType DEF OpfsStep, TypeInv, TypeOK
  <2>2. ChannelTypeOK' /\ ReceiverTypeOK'
    BY <1>3 DEF OpfsStep, TypeInv, TypeOK, ChannelTypeOK, ReceiverTypeOK, channelVars,
                receiverVars
  <2>3. SenderTypeOK' /\ HasCurrent'
    BY <1>3 DEF OpfsStep, TypeInv, TypeOK, SenderTypeOK, HasCurrent, senderVars
  <2> QED
    BY <1>3, <2>1, <2>2, <2>3 DEF OpfsStep, TypeInv, TypeOK, reloadVars
<1>4. CASE UNCHANGED vars
  <2>1. ChannelTypeOK' /\ WorkerTypeOK' /\ ReceiverTypeOK'
    BY <1>4 DEF vars, TypeInv, TypeOK, ChannelTypeOK, WorkerTypeOK, ReceiverTypeOK,
                channelVars, workerVars, receiverVars
  <2>2. SenderTypeOK' /\ HasCurrent'
    BY <1>4 DEF vars, TypeInv, TypeOK, SenderTypeOK, HasCurrent, senderVars
  <2> QED BY <1>4, <2>1, <2>2 DEF vars, TypeInv, TypeOK, reloadVars
<1> QED
  BY <1>1, <1>2, <1>3, <1>4, SenderReloadType, ReceiverReloadType, RejoinType DEF Next

\* Every variable keeps its type: no handler, in whatever order the handlers of
\* the pages and of the workers run, leaves a state the next one cannot read.
THEOREM TypeCorrect == Spec => []TypeOK
<1>1. TypeInv => TypeOK
  BY DEF TypeInv
<1> QED BY InitType, StepType, <1>1, PTL DEF Spec

-----------------------------------------------------------------------------
\* The send loop is never left waiting once nothing blocks it: whoever lifts the
\* last reason (the user, a receiver's signal, a departed peer's clean-up) wakes it.
THEOREM WakeupKept == Spec => []NoLostWakeup
<1>1. Init => NoLostWakeup
  BY DEF Init, SenderInit, NoLostWakeup
<1>2. NoLostWakeup /\ [Next]_vars => NoLostWakeup'
  <2> SUFFICES ASSUME NoLostWakeup, [Next]_vars PROVE NoLostWakeup'
    OBVIOUS
  <2>1. CASE SenderNext
    <3>1. CASE broadcastFiles \/ SenderLoop
      BY <3>1 DEF NoLostWakeup, isSendBlocked, broadcastFiles, SenderLoop, offerFile,
                  acceptWaitOver, waitForUnblock, readSlice, sendChunk, completeFile, SendThrows
    <3>2. CASE pauseSend \/ resumeSend
      BY <3>2 DEF NoLostWakeup, isSendBlocked, pauseSend, resumeSend, Notified
    <3>3. ASSUME NEW r \in Receiver, SenderHandler(r)
          PROVE  NoLostWakeup'
      BY <3>3 DEF NoLostWakeup, isSendBlocked, SenderHandler, onAccept, onBackpressure,
                  closePeer, Notified
    <3> QED BY <2>1, <3>1, <3>2, <3>3 DEF SenderNext
  <2>2. CASE UNCHANGED senderVars
    BY <2>2 DEF NoLostWakeup, isSendBlocked, senderVars
  <2>3. CASE SenderReload
    BY <2>3 DEF NoLostWakeup, SenderReload
  <2>4. ASSUME NEW r \in Receiver, ReceiverReload(r)
        PROVE  NoLostWakeup'
    BY <2>4 DEF NoLostWakeup, isSendBlocked, ReceiverReload
  <2> QED
    BY <2>1, <2>2, <2>3, <2>4
       DEF Next, SenderStep, ReceiverStep, OpfsStep, Rejoin, vars
<1> QED BY <1>1, <1>2, PTL DEF Spec

-----------------------------------------------------------------------------
(* What a peer that has left can still do to the sender: nothing, once its    *)
(* channel is closed.  A signal marks r as slow only if it is on an open      *)
(* channel, so only open channels may carry messages, and whatever sends on a *)
(* channel (an active file, a suspended handler, a broadcast's target) must   *)
(* hold an open one.                                                          *)
ClosedIsEmpty ==
  \A r \in Receiver : ~link[r] => toReceiver[r] = <<>> /\ toSender[r] = <<>>

ActiveIsOpen ==
  \A r \in Receiver : active[r] # None => link[r]

HandlersAreOpen ==
  \A r \in Receiver : \A h \in offers[r] \cup finishing[r] :
    h.channel = "open" => link[r]

TargetsAreOpen ==
  \A r \in targets : link[r] \/ r \in lost

LinkInv ==
  /\ ClosedIsEmpty
  /\ ActiveIsOpen
  /\ HandlersAreOpen
  /\ TargetsAreOpen
  /\ DepartedPeersCleaned

LEMMA InitLink == Init => LinkInv
BY DEF Init, ChannelInit, SenderInit, ReceiverInit, LinkInv, ClosedIsEmpty, ActiveIsOpen,
       HandlersAreOpen, TargetsAreOpen, DepartedPeersCleaned

\* The sender puts messages on open channels only.
LEMMA SendsOnOpen ==
  ASSUME LinkInv, NEW r \in Receiver, ~link[r],
         \/ \E ms : SendToAll(ms)
         \/ \E m : SendThrows(m)
         \/ \E m : TellOpenChannels(m)
  PROVE  toReceiver'[r] = toReceiver[r]
<1>1. r \notin targets \ lost
  BY DEF LinkInv, TargetsAreOpen
<1>2. CASE \E ms : SendToAll(ms)
  BY <1>1, <1>2 DEF SendToAll
<1>3. CASE \E m : SendThrows(m)
  BY <1>1, <1>3 DEF SendThrows
<1>4. CASE \E m : TellOpenChannels(m)
  BY <1>4 DEF TellOpenChannels
<1> QED BY <1>2, <1>3, <1>4

LEMMA SenderLoopLink ==
  ASSUME TypeInv, LinkInv, broadcastFiles \/ SenderLoop \/ pauseSend \/ resumeSend, OnlySender
  PROVE  LinkInv'
<1>1. UNCHANGED <<link, toSender, active, offers, finishing, slowPeers, closing>>
  BY DEF broadcastFiles, SenderLoop, offerFile, acceptWaitOver, waitForUnblock, readSlice,
         sendChunk, completeFile, pauseSend, resumeSend, OnlySender, receiverVars, channelVars
<1>2. ASSUME NEW r \in Receiver, ~link[r]
      PROVE  toReceiver'[r] = toReceiver[r]
  BY <1>2, SendsOnOpen
     DEF broadcastFiles, SenderLoop, offerFile, acceptWaitOver, waitForUnblock, readSlice,
         sendChunk, completeFile, pauseSend, resumeSend, channelVars
<1>3. TargetsAreOpen'
  <2>1. \/ targets' = {r \in Receiver : link[r]}
        \/ targets' = {}
        \/ targets' = targets /\ lost' = lost
    BY DEF broadcastFiles, SenderLoop, offerFile, acceptWaitOver, waitForUnblock, readSlice,
           sendChunk, completeFile, pauseSend, resumeSend, SendThrows
  <2> QED BY <1>1, <2>1 DEF LinkInv, TargetsAreOpen
<1> QED
  BY <1>1, <1>2, <1>3
     DEF LinkInv, ClosedIsEmpty, ActiveIsOpen, HandlersAreOpen, DepartedPeersCleaned

LEMMA SenderHandlerLink ==
  ASSUME TypeInv, LinkInv, NEW r \in Receiver, SenderHandler(r), OnlySender
  PROVE  LinkInv'
<1>1. UNCHANGED <<link, toReceiver, active, offers, finishing, targets, lost>>
  BY DEF SenderHandler, onAccept, onBackpressure, closePeer, OnlySender, receiverVars,
         channelVars
<1>2. \/ toSender' = toSender
      \/ toSender[r] # <<>> /\ toSender' = [toSender EXCEPT ![r] = Tail(@)]
  <2>1. CASE onAccept(r)
    BY <2>1 DEF onAccept
  <2>2. CASE onBackpressure(r)
    BY <2>2 DEF onBackpressure
  <2>3. CASE closePeer(r)
    BY <2>3 DEF closePeer, channelVars
  <2> QED BY <2>1, <2>2, <2>3 DEF SenderHandler
<1>3. ClosedIsEmpty'
  <2>1. toSender \in [Receiver -> Seq(UpMessage)]
    BY DEF TypeInv, TypeOK, ChannelTypeOK
  <2>2. CASE toSender' = toSender
    BY <1>1, <2>2 DEF LinkInv, ClosedIsEmpty
  <2>3. CASE toSender[r] # <<>> /\ toSender' = [toSender EXCEPT ![r] = Tail(@)]
    BY <1>1, <2>1, <2>3 DEF LinkInv, ClosedIsEmpty
  <2> QED BY <1>2, <2>2, <2>3
<1>4. DepartedPeersCleaned'
  <2>1. CASE onAccept(r)
    BY <1>1, <2>1 DEF onAccept, LinkInv, DepartedPeersCleaned
  <2>2. CASE onBackpressure(r)
    BY <1>1, <2>2 DEF onBackpressure, LinkInv, ClosedIsEmpty, DepartedPeersCleaned
  <2>3. CASE closePeer(r)
    BY <1>1, <2>3 DEF closePeer, LinkInv, DepartedPeersCleaned
  <2> QED BY <2>1, <2>2, <2>3 DEF SenderHandler
<1> QED
  BY <1>1, <1>3, <1>4
     DEF LinkInv, ActiveIsOpen, HandlersAreOpen, TargetsAreOpen

\* A handler on the page of r touches no other page's channel and handlers.
OtherPagesKept(r) ==
  /\ link' = link
  /\ \A q \in Receiver \ {r} :
       /\ toReceiver'[q] = toReceiver[q]
       /\ toSender'[q] = toSender[q]
       /\ active'[q] = active[q]
       /\ offers'[q] = offers[q]
       /\ finishing'[q] = finishing[q]

LEMMA HandlersKeepOthers ==
  ASSUME TypeInv, NEW r \in Receiver, ReceiverHandler(r)
  PROVE  OtherPagesKept(r)
<1> USE DEF OtherPagesKept, channelVars
<1>1. /\ toReceiver \in [Receiver -> Seq(DownMessage)]
      /\ toSender \in [Receiver -> Seq(UpMessage)]
      /\ active \in [Receiver -> File \cup {None}]
      /\ offers \in [Receiver -> SUBSET OfferHandler]
      /\ finishing \in [Receiver -> SUBSET FinishHandler]
  BY DEF TypeInv, TypeOK, ChannelTypeOK, ReceiverTypeOK
<1>2. CASE onChunk(r)
  BY <1>1, <1>2 DEF onChunk, TakeMessage, reportWriteLag
<1>3. CASE onOffer(r)
  BY <1>1, <1>3 DEF onOffer, TakeMessage
<1>4. CASE onOfferInMemory(r)
  BY <1>1, <1>4 DEF onOfferInMemory, TakeMessage
<1>5. ASSUME NEW h \in offers[r], recordFound(r, h)
      PROVE  OtherPagesKept(r)
  BY <1>1, <1>5 DEF recordFound
<1>6. CASE fileInitialised(r)
  BY <1>1, <1>6 DEF fileInitialised, reportWriteLag
<1>7. CASE onComplete(r)
  BY <1>1, <1>7 DEF onComplete, TakeMessage
<1>8. CASE fileClosed(r)
  BY <1>1, <1>8 DEF fileClosed
<1>9. CASE fileReady(r)
  BY <1>1, <1>9 DEF fileReady
<1>10. ASSUME NEW h \in finishing[r], recordDeleted(r, h)
       PROVE  OtherPagesKept(r)
  BY <1>1, <1>10 DEF recordDeleted, EndOfFile
<1>11. CASE chunkWritten(r)
  BY <1>1, <1>11 DEF chunkWritten, reportWriteLag
<1>12. CASE workerError(r)
  BY <1>1, <1>12 DEF workerError, EndOfFile
<1>13. CASE replyDropped(r) \/ onPauseSignal(r)
  BY <1>1, <1>13 DEF replyDropped, onPauseSignal, TakeMessage, receiverVars
<1> QED
  BY <1>2, <1>3, <1>4, <1>5, <1>6, <1>7, <1>8, <1>9, <1>10, <1>11, <1>12, <1>13
     DEF ReceiverHandler

\* On a page without a channel no handler can use one.
QuietPage(r) ==
  /\ toReceiver'[r] = <<>>
  /\ toSender'[r] = <<>>
  /\ active'[r] = None
  /\ \A h \in offers'[r] \cup finishing'[r] : h.channel # "open"

LEMMA UnlinkedStaysQuiet ==
  ASSUME TypeInv, LinkInv, NEW r \in Receiver, ~link[r], ReceiverHandler(r)
  PROVE  QuietPage(r)
<1> USE DEF QuietPage, channelVars
<1>1. /\ toReceiver \in [Receiver -> Seq(DownMessage)]
      /\ toSender \in [Receiver -> Seq(UpMessage)]
      /\ active \in [Receiver -> File \cup {None}]
      /\ offers \in [Receiver -> SUBSET OfferHandler]
      /\ finishing \in [Receiver -> SUBSET FinishHandler]
  BY DEF TypeInv, TypeOK, ChannelTypeOK, ReceiverTypeOK
<1>2. /\ toReceiver[r] = <<>>
      /\ toSender[r] = <<>>
      /\ active[r] = None
      /\ \A h \in offers[r] \cup finishing[r] : h.channel # "open"
  BY DEF LinkInv, ClosedIsEmpty, ActiveIsOpen, HandlersAreOpen
<1>3. ~(onChunk(r) \/ onOffer(r) \/ onOfferInMemory(r) \/ onComplete(r) \/ onPauseSignal(r))
  BY <1>2 DEF onChunk, onOffer, onOfferInMemory, onComplete, onPauseSignal, NextMessage
<1>4. ASSUME NEW h \in offers[r], recordFound(r, h)
      PROVE  QuietPage(r)
  <2>1. [h EXCEPT !.stage = "init", !.start = StartOffset(r, h.file)].channel = h.channel
    BY <1>1 DEF OfferHandler
  <2> QED BY <1>1, <1>2, <1>4, <2>1 DEF recordFound
<1>5. CASE fileInitialised(r)
  BY <1>1, <1>2, <1>5 DEF fileInitialised, OffersAt
<1>6. CASE fileClosed(r)
  BY <1>1, <1>2, <1>6 DEF fileClosed, FinishingAt, FinishHandler
<1>7. CASE fileReady(r)
  BY <1>1, <1>2, <1>7 DEF fileReady, FinishingAt, FinishHandler
<1>8. ASSUME NEW h \in finishing[r], recordDeleted(r, h)
      PROVE  QuietPage(r)
  BY <1>1, <1>2, <1>8 DEF recordDeleted, EndOfFile
<1>9. CASE chunkWritten(r)
  <2>1. \A n, c : LagSignal(r, n, c) = <<>>
    BY <1>2 DEF LagSignal, EngagedAfter
  <2>2. toSender'[r] = <<>>
    BY <1>1, <1>2, <1>9, <2>1 DEF chunkWritten, reportWriteLag
  <2> QED BY <1>2, <1>9, <2>2 DEF chunkWritten
<1>10. CASE workerError(r)
  BY <1>1, <1>2, <1>10 DEF workerError, EndOfFile
<1>11. CASE replyDropped(r)
  BY <1>2, <1>11 DEF replyDropped, receiverVars
<1> QED
  BY <1>3, <1>4, <1>5, <1>6, <1>7, <1>8, <1>9, <1>10, <1>11 DEF ReceiverHandler

LEMMA ReceiverStepLink ==
  ASSUME TypeInv, LinkInv, NEW r \in Receiver, ReceiverStep(r)
  PROVE  LinkInv'
<1>1. OtherPagesKept(r) /\ (~link[r] => QuietPage(r))
  BY HandlersKeepOthers, UnlinkedStaysQuiet DEF ReceiverStep
<1>2. UNCHANGED <<link, targets, lost, slowPeers, closing>>
  BY <1>1 DEF OtherPagesKept, ReceiverStep, senderVars
<1>3. ClosedIsEmpty' /\ ActiveIsOpen' /\ HandlersAreOpen'
  BY <1>1 DEF OtherPagesKept, QuietPage, LinkInv, ClosedIsEmpty, ActiveIsOpen, HandlersAreOpen
<1> QED
  BY <1>2, <1>3 DEF LinkInv, TargetsAreOpen, DepartedPeersCleaned

LEMMA SenderReloadLink ==
  ASSUME TypeInv, LinkInv, SenderReload
  PROVE  LinkInv'
<1>1. /\ \A r \in Receiver : toReceiver'[r] = <<>> /\ toSender'[r] = <<>> /\ active'[r] = None
      /\ targets' = {} /\ slowPeers' = {}
  BY DEF SenderReload, ChannelsClosed
<1>2. ASSUME NEW r \in Receiver, NEW h \in offers[r] \cup finishing[r]
      PROVE  Orphaned(r, h).channel # "open"
  <2>1. h \in OfferHandler \cup FinishHandler
    BY DEF TypeInv, TypeOK, ReceiverTypeOK
  <2>2. \A c : [h EXCEPT !.channel = c].channel = c
    BY <2>1 DEF OfferHandler, FinishHandler
  <2> QED BY <2>2 DEF Orphaned
<1>3. HandlersAreOpen'
  BY <1>2 DEF SenderReload, ChannelsClosed, HandlersAreOpen
<1> QED
  BY <1>1, <1>3 DEF LinkInv, ClosedIsEmpty, ActiveIsOpen, TargetsAreOpen, DepartedPeersCleaned

LEMMA ReceiverReloadLink ==
  ASSUME TypeInv, LinkInv, NEW r \in Receiver, ReceiverReload(r)
  PROVE  LinkInv'
<1>1. /\ link' = [link EXCEPT ![r] = FALSE]
      /\ toReceiver' = [toReceiver EXCEPT ![r] = <<>>]
      /\ toSender' = [toSender EXCEPT ![r] = <<>>]
      /\ active' = [active EXCEPT ![r] = None]
      /\ offers' = [offers EXCEPT ![r] = {}]
      /\ finishing' = [finishing EXCEPT ![r] = {}]
      /\ lost' = lost \cup (targets \cap {r})
      /\ closing' = IF link[r] THEN closing \cup {r} ELSE closing
      /\ UNCHANGED <<targets, slowPeers>>
  BY DEF ReceiverReload, PageReloaded
<1>2. /\ link \in [Receiver -> BOOLEAN]
      /\ toReceiver \in [Receiver -> Seq(DownMessage)]
      /\ toSender \in [Receiver -> Seq(UpMessage)]
      /\ active \in [Receiver -> File \cup {None}]
      /\ offers \in [Receiver -> SUBSET OfferHandler]
      /\ finishing \in [Receiver -> SUBSET FinishHandler]
      /\ targets \subseteq Receiver
      /\ slowPeers \subseteq Receiver
  BY DEF TypeInv, TypeOK, ChannelTypeOK, SenderTypeOK, ReceiverTypeOK
<1>3. ClosedIsEmpty' /\ ActiveIsOpen'
  BY <1>1, <1>2 DEF LinkInv, ClosedIsEmpty, ActiveIsOpen
<1>4. HandlersAreOpen'
  BY <1>1, <1>2 DEF LinkInv, HandlersAreOpen
<1>5. TargetsAreOpen' /\ DepartedPeersCleaned'
  BY <1>1, <1>2 DEF LinkInv, TargetsAreOpen, DepartedPeersCleaned
<1> QED BY <1>3, <1>4, <1>5 DEF LinkInv

LEMMA RejoinLink ==
  ASSUME TypeInv, LinkInv, NEW r \in Receiver, Rejoin(r)
  PROVE  LinkInv'
<1>1. /\ link' = [link EXCEPT ![r] = TRUE]
      /\ UNCHANGED <<toReceiver, toSender, active, offers, finishing, targets, lost,
                     slowPeers, closing>>
  BY DEF Rejoin, senderVars, receiverVars
<1>2. link \in [Receiver -> BOOLEAN] /\ targets \subseteq Receiver /\ slowPeers \subseteq Receiver
  BY DEF TypeInv, TypeOK, ChannelTypeOK, SenderTypeOK
<1> QED
  BY <1>1, <1>2
     DEF LinkInv, ClosedIsEmpty, ActiveIsOpen, HandlersAreOpen, TargetsAreOpen,
         DepartedPeersCleaned

LEMMA StepLink == TypeInv /\ LinkInv /\ [Next]_vars => LinkInv'
<1> SUFFICES ASSUME TypeInv, LinkInv, [Next]_vars PROVE LinkInv'
  OBVIOUS
<1>1. CASE SenderStep
  BY <1>1, SenderLoopLink, SenderHandlerLink DEF SenderStep, SenderNext
<1>2. CASE UNCHANGED <<channelVars, senderVars, receiverVars>>
  BY <1>2 DEF channelVars, senderVars, receiverVars, LinkInv, ClosedIsEmpty, ActiveIsOpen,
              HandlersAreOpen, TargetsAreOpen, DepartedPeersCleaned
<1> QED
  BY <1>1, <1>2, ReceiverStepLink, SenderReloadLink, ReceiverReloadLink, RejoinLink
     DEF Next, OpfsStep, vars

\* A peer whose channel closed is counted as slow only until closePeer has run
\* for it, however its signals, its departure and its return interleave.
THEOREM DepartedCleaned == Spec => []DepartedPeersCleaned
<1>1. TypeInv /\ LinkInv => DepartedPeersCleaned
  BY DEF LinkInv
<1> QED BY InitType, InitLink, StepType, StepLink, <1>1, PTL DEF Spec

-----------------------------------------------------------------------------
(* Backpressure.  Read along the channel to the sender: the last signal says  *)
(* what the receiver has decided, and with no signal under way the sender has *)
(* heard it.  Each signal sent or taken keeps that.  A page without a channel *)
(* has decided nothing, so a page that rejoins starts in agreement once       *)
(* closePeer has run for it (DepartedPeersCleaned, in LinkInv).               *)
SignalsIn(queue) == {i \in 1..Len(queue) : queue[i].type = "WRITE_BACKPRESSURE"}

Says(queue, slow, on) ==
  /\ SignalsIn(queue) = {} => (slow <=> on)
  /\ \A i \in SignalsIn(queue) :
       (\A j \in SignalsIn(queue) : j <= i) => queue[i].engaged = on

\* The code breaks the agreement in one place: FILE_OFFER sets
\* writeBackpressureEngaged to false without a signal (usePeerConnection.ts:491).
ResetsWhenReleased ==
  \A r \in Receiver : \A h \in offers[r] :
    recordFound(r, h) /\ h.channel = "open" => ~engaged[r]

AgreesAt(r) ==
  /\ link[r] => Says(toSender[r], r \in slowPeers, engaged[r])
  /\ ~link[r] => ~engaged[r]
  /\ r \in closing => ~link[r]
  /\ engaged[r] => r \in OpfsReceiver

AgreeInv == \A r \in Receiver : AgreesAt(r)

\* A message is added: a signal says what has just been decided, another says nothing.
LEMMA SaysMore ==
  ASSUME NEW q \in Seq(UpMessage), NEW m \in UpMessage, NEW slow, NEW on,
         Says(q, slow, on)
  PROVE  /\ m.type = "WRITE_BACKPRESSURE" => Says(Append(q, m), slow, m.engaged)
         /\ m.type # "WRITE_BACKPRESSURE" => Says(Append(q, m), slow, on)
<1>1. PICK s : s = Append(q, m)
  OBVIOUS
<1>2. /\ Len(q) \in Nat /\ Len(s) = Len(q) + 1 /\ s[Len(q) + 1] = m
      /\ \A i \in 1..Len(q) : s[i] = q[i]
  BY <1>1
<1>3. CASE m.type = "WRITE_BACKPRESSURE"
  <2>1. Len(q) + 1 \in SignalsIn(s) /\ \A i \in SignalsIn(s) : i <= Len(q) + 1 /\ i \in Nat
    BY <1>2, <1>3 DEF SignalsIn
  <2>2. ASSUME NEW i \in SignalsIn(s), \A j \in SignalsIn(s) : j <= i
        PROVE  s[i].engaged = m.engaged
    <3>1. i = Len(q) + 1
      BY <1>2, <2>1, <2>2
    <3> QED BY <1>2, <3>1
  <2> QED BY <1>1, <1>3, <2>1, <2>2 DEF Says
<1>4. CASE m.type # "WRITE_BACKPRESSURE"
  <2>1. SignalsIn(s) = SignalsIn(q)
    BY <1>2, <1>4 DEF SignalsIn
  <2>2. \A i \in SignalsIn(q) : s[i] = q[i]
    BY <1>2 DEF SignalsIn
  <2> QED BY <1>1, <1>4, <2>1, <2>2 DEF Says
<1> QED BY <1>3, <1>4

\* The first message is taken: the sender believes a signal, and there is one less.
LEMMA SaysTail ==
  ASSUME NEW q \in Seq(UpMessage), q # <<>>, NEW slow, NEW on, Says(q, slow, on)
  PROVE  /\ Head(q).type = "WRITE_BACKPRESSURE" => Says(Tail(q), Head(q).engaged, on)
         /\ Head(q).type # "WRITE_BACKPRESSURE" => Says(Tail(q), slow, on)
<1>1. PICK s : s = Tail(q)
  OBVIOUS
<1>2. /\ Len(q) \in Nat /\ Len(q) > 0 /\ Len(s) = Len(q) - 1 /\ Head(q) = q[1]
      /\ \A i \in 1..Len(s) : s[i] = q[i + 1]
  BY <1>1
<1>3. \A i \in 1..Len(s) : i \in SignalsIn(s) <=> i + 1 \in SignalsIn(q)
  BY <1>2 DEF SignalsIn
<1>4. \A i \in SignalsIn(q) : i = 1 \/ (i - 1 \in SignalsIn(s) /\ i - 1 + 1 = i)
  BY <1>2 DEF SignalsIn
<1>5. SignalsIn(s) \subseteq 1..Len(s)
  BY DEF SignalsIn
<1>6. ASSUME NEW i \in SignalsIn(s), \A j \in SignalsIn(s) : j <= i
      PROVE  s[i].engaged = on
  <2>1. i + 1 \in SignalsIn(q) /\ i \in 1..Len(s)
    BY <1>3, <1>5
  <2>2. ASSUME NEW j \in SignalsIn(q) PROVE j <= i + 1
    BY <1>2, <1>4, <1>6, <2>1, <2>2
  <2>3. q[i + 1].engaged = on
    BY <2>1, <2>2 DEF Says
  <2> QED BY <1>2, <2>1, <2>3
<1>7. CASE Head(q).type = "WRITE_BACKPRESSURE"
  <2>1. ASSUME SignalsIn(s) = {} PROVE Head(q).engaged = on
    <3>1. 1 \in SignalsIn(q) /\ \A j \in SignalsIn(q) : j <= 1
      BY <1>2, <1>4, <1>7, <2>1 DEF SignalsIn
    <3> QED BY <1>2, <3>1 DEF Says
  <2> QED BY <1>1, <1>6, <1>7, <2>1 DEF Says
<1>8. CASE Head(q).type # "WRITE_BACKPRESSURE"
  <2>1. ASSUME SignalsIn(s) = {} PROVE SignalsIn(q) = {}
    BY <1>2, <1>4, <1>8, <2>1 DEF SignalsIn
  <2> QED BY <1>1, <1>6, <1>8, <2>1 DEF Says
<1> QED BY <1>7, <1>8


\* What reportWriteLag sends is what it decides, whatever else the handler sends.
LEMMA ReportAgrees ==
  ASSUME TypeInv, LinkInv, NEW r \in Receiver, AgreesAt(r), NEW n \in Nat, NEW c \in Nat,
         NEW more, reportWriteLag(r, n, c, more),
         more = <<>> \/ \E f \in File, start \in Nat : more = <<Accept(f, start)>>
  PROVE  /\ link[r] => Says(toSender'[r], r \in slowPeers, engaged'[r])
         /\ ~link[r] => ~engaged'[r]
         /\ engaged'[r] => r \in OpfsReceiver
<1> DEFINE on == EngagedAfter(r, n, c)
<1>1. /\ toSender[r] \in Seq(UpMessage) /\ engaged[r] \in BOOLEAN
      /\ toSender \in [Receiver -> Seq(UpMessage)] /\ engaged \in [Receiver -> BOOLEAN]
      /\ active[r] \in File \cup {None}
  BY DEF TypeInv, TypeOK, ChannelTypeOK, ReceiverTypeOK
<1>2. on \in BOOLEAN /\ engaged'[r] = on
  <2>1. (Lag(n, c) >= LowLag) \in BOOLEAN /\ (Lag(n, c) > HighLag) \in BOOLEAN
    OBVIOUS
  <2> QED BY <1>1, <2>1, Zenon DEF EngagedAfter, reportWriteLag
<1>3. toSender'[r] = toSender[r] \o LagSignal(r, n, c) \o more
  BY <1>1 DEF reportWriteLag
<1>4. on # engaged[r] => active[r] \in File /\ r \in OpfsReceiver /\ link[r]
  BY <1>1 DEF EngagedAfter, LinkInv, ActiveIsOpen
<1>5. PICK q : q = toSender[r] \o LagSignal(r, n, c)
  OBVIOUS
<1>6. q \in Seq(UpMessage) /\ (link[r] => Says(q, r \in slowPeers, on))
  <2>1. CASE on = engaged[r]
    <3>1. LagSignal(r, n, c) = <<>>
      BY <2>1 DEF LagSignal
    <3>2. q = toSender[r]
      BY <1>1, <1>5, <3>1
    <3> QED BY <1>1, <2>1, <3>2 DEF AgreesAt
  <2>2. CASE on # engaged[r]
    <3>1. PICK m : m = Backpressure(active[r], on)
      OBVIOUS
    <3>2. m \in UpMessage /\ m.type = "WRITE_BACKPRESSURE" /\ m.engaged = on
      BY <1>2, <1>4, <2>2, <3>1, UpMessages DEF Backpressure
    <3>3. LagSignal(r, n, c) = <<m>>
      BY <2>2, <3>1 DEF LagSignal
    <3>4. q = Append(toSender[r], m) /\ q \in Seq(UpMessage)
      BY <1>1, <1>5, <3>2, <3>3
    <3>5. Says(toSender[r], r \in slowPeers, engaged[r])
      BY <1>4, <2>2 DEF AgreesAt
    <3>6. Says(Append(toSender[r], m), r \in slowPeers, m.engaged)
      BY <1>1, <3>2, <3>5, SaysMore
    <3> QED BY <3>2, <3>4, <3>6
  <2> QED BY <2>1, <2>2
<1>7. link[r] => Says(toSender'[r], r \in slowPeers, on)
  <2>1. CASE more = <<>>
    <3>1. toSender'[r] = q
      BY <1>3, <1>5, <1>6, <2>1
    <3> QED BY <1>6, <3>1
  <2>2. ASSUME NEW f \in File, NEW start \in Nat, more = <<Accept(f, start)>>, link[r]
        PROVE  Says(toSender'[r], r \in slowPeers, on)
    <3>1. PICK m : m = Accept(f, start)
      OBVIOUS
    <3>2. m \in UpMessage /\ m.type # "WRITE_BACKPRESSURE"
      BY <3>1, UpMessages DEF Accept
    <3>3. toSender'[r] = Append(q, m)
      BY <1>3, <1>5, <1>6, <2>2, <3>1
    <3>4. Says(Append(q, m), r \in slowPeers, on)
      BY <1>2, <1>6, <2>2, <3>2, SaysMore
    <3> QED BY <3>3, <3>4
  <2> QED BY <2>1, <2>2
<1>8. ~link[r] => ~on
  BY <1>4 DEF AgreesAt
<1>9. on => r \in OpfsReceiver
  BY <1>4 DEF AgreesAt
<1> QED BY <1>2, <1>7, <1>8, <1>9

\* The handlers of a page that are told apart here by what they do to the signals.
LEMMA AgreesAfter ==
  ASSUME TypeInv, NEW r \in Receiver, ReceiverStep(r),
         /\ link[r] => Says(toSender'[r], r \in slowPeers, engaged'[r])
         /\ ~link[r] => ~engaged'[r]
         /\ engaged'[r] => r \in OpfsReceiver,
         AgreesAt(r)
  PROVE  AgreesAt(r)'
<1>1. link' = link /\ slowPeers' = slowPeers /\ closing' = closing
  BY HandlersKeepOthers DEF ReceiverStep, OtherPagesKept, senderVars
<1>2. link'[r] = link[r] /\ (r \in slowPeers' <=> r \in slowPeers) /\ (r \in closing' <=> r \in closing)
  BY <1>1
<1>3. link'[r] => Says(toSender'[r], r \in slowPeers', engaged'[r])
  BY <1>1
<1> QED BY <1>2, <1>3 DEF AgreesAt

\* A message that is no signal is sent and nothing is decided.
LEMMA SentBesides ==
  ASSUME TypeInv, NEW r \in Receiver, AgreesAt(r), NEW f \in File, NEW start \in Nat,
         toSender' = [toSender EXCEPT ![r] = Append(@, Accept(f, start))]
  PROVE  link[r] => Says(toSender'[r], r \in slowPeers, engaged[r])
<1>1. toSender[r] \in Seq(UpMessage) /\ engaged[r] \in BOOLEAN
      /\ toSender \in [Receiver -> Seq(UpMessage)]
  BY DEF TypeInv, TypeOK, ChannelTypeOK, ReceiverTypeOK
<1>2. PICK m : m = Accept(f, start)
  OBVIOUS
<1>3. m \in UpMessage /\ m.type # "WRITE_BACKPRESSURE" /\ toSender'[r] = Append(toSender[r], m)
  BY <1>1, <1>2, UpMessages DEF Accept
<1> QED BY <1>1, <1>3, SaysMore DEF AgreesAt

LEMMA ReceiverStepAgrees ==
  ASSUME TypeInv, LinkInv, NEW r \in Receiver, ReceiverStep(r), AgreesAt(r), ResetsWhenReleased
  PROVE  AgreesAt(r)'
<1> DEFINE Agreed == /\ link[r] => Says(toSender'[r], r \in slowPeers, engaged'[r])
                     /\ ~link[r] => ~engaged'[r]
                     /\ engaged'[r] => r \in OpfsReceiver
<1>1. /\ toSender \in [Receiver -> Seq(UpMessage)] /\ engaged \in [Receiver -> BOOLEAN]
      /\ toSender[r] \in Seq(UpMessage) /\ engaged[r] \in BOOLEAN
      /\ total[r] \in Nat /\ confirmed[r] \in Nat /\ early[r] \in Seq(Payload)
      /\ offers[r] \subseteq OfferHandler /\ finishing[r] \subseteq FinishHandler
  BY DEF TypeInv, TypeOK, ChannelTypeOK, ReceiverTypeOK
<1>2. /\ link[r] => Says(toSender[r], r \in slowPeers, engaged[r])
      /\ ~link[r] => ~engaged[r]
      /\ engaged[r] => r \in OpfsReceiver
  BY DEF AgreesAt
<1>3. ASSUME UNCHANGED <<toSender, engaged>> PROVE Agreed
  BY <1>2, <1>3
<1>4. ASSUME onChunk(r) PROVE Agreed
  <2>1. \/ reportWriteLag(r, total[r] + 1, confirmed[r], <<>>)
        \/ UNCHANGED <<toSender, engaged>>
    BY <1>4 DEF onChunk
  <2>2. CASE reportWriteLag(r, total[r] + 1, confirmed[r], <<>>)
    <3>1. total[r] + 1 \in Nat
      BY <1>1
    <3> QED BY <1>1, <2>2, <3>1, ReportAgrees
  <2> QED BY <1>3, <2>1, <2>2
<1>5. ASSUME onOfferInMemory(r) PROVE Agreed
  <2>1. ~engaged[r] /\ r \notin OpfsReceiver /\ ~engaged'[r]
    BY <1>1, <1>2, <1>5 DEF onOfferInMemory
  <2>2. PICK f : f = Head(toReceiver[r]).file
    OBVIOUS
  <2>3. f \in File
    BY <1>5, <2>2, MessageTaken, TypeInvParts DEF onOfferInMemory
  <2>4. toSender' = [toSender EXCEPT ![r] = Append(@, Accept(f, 0))]
    BY <1>5, <2>2 DEF onOfferInMemory
  <2>5. link[r] => Says(toSender'[r], r \in slowPeers, engaged[r])
    BY <2>3, <2>4, SentBesides
  <2>6. engaged'[r] = engaged[r]
    BY <1>1, <1>5, <2>1 DEF onOfferInMemory
  <2> QED BY <2>1, <2>5, <2>6
<1>6. ASSUME NEW h \in offers[r], recordFound(r, h) PROVE Agreed
  <2>1. UNCHANGED toSender
    BY <1>6 DEF recordFound, channelVars
  <2>2. engaged' = engaged \/ (h.channel = "open" /\ engaged' = [engaged EXCEPT ![r] = FALSE])
    BY <1>6 DEF recordFound
  <2>3. CASE h.channel = "open" /\ engaged' = [engaged EXCEPT ![r] = FALSE]
    <3>1. ~engaged[r]
      BY <1>6, <2>3 DEF ResetsWhenReleased
    <3>2. engaged' = engaged
      BY <1>1, <2>3, <3>1
    <3> QED BY <1>3, <2>1, <3>2
  <2> QED BY <1>3, <2>1, <2>2, <2>3
<1>7. ASSUME fileInitialised(r) PROVE Agreed
  <2>1. PICK h \in OffersAt(r, ReplyFile(r), {"init"}) :
          IF h.channel = "open"
          THEN LET accept == <<Accept(h.file, h.start)>>
                   n == total[r] + Len(early[r]) IN
               \/ reportWriteLag(r, n, confirmed[r], accept)
               \/ /\ toSender' = [toSender EXCEPT ![r] = @ \o accept]
                  /\ UNCHANGED engaged
          ELSE UNCHANGED <<toSender, engaged>>
    BY <1>7 DEF fileInitialised
  <2>2. h.file \in File /\ h.start \in Nat
    BY <1>1 DEF OffersAt, OfferHandler
  <2>3. total[r] + Len(early[r]) \in Nat
    BY <1>1
  <2>4. CASE reportWriteLag(r, total[r] + Len(early[r]), confirmed[r], <<Accept(h.file, h.start)>>)
    <3>1. PICK more : more = <<Accept(h.file, h.start)>>
      OBVIOUS
    <3>2. reportWriteLag(r, total[r] + Len(early[r]), confirmed[r], more)
      BY <2>4, <3>1
    <3> QED BY <1>1, <2>2, <2>3, <3>1, <3>2, ReportAgrees
  <2>5. CASE toSender' = [toSender EXCEPT ![r] = @ \o <<Accept(h.file, h.start)>>] /\ UNCHANGED engaged
    <3>1. PICK m : m = Accept(h.file, h.start)
      OBVIOUS
    <3>2. toSender' = [toSender EXCEPT ![r] = @ \o <<m>>]
      BY <2>5, <3>1
    <3>3. toSender' = [toSender EXCEPT ![r] = Append(@, m)]
      <4>1. m \in UpMessage
        BY <2>2, <3>1, UpMessages
      <4>2. toSender[r] \o <<m>> = Append(toSender[r], m)
        BY <1>1, <4>1
      <4> QED BY <1>1, <3>2, <4>2
    <3>4. link[r] => Says(toSender'[r], r \in slowPeers, engaged[r])
      BY <2>2, <3>1, <3>3, SentBesides
    <3> QED BY <1>2, <2>5, <3>4
  <2> QED BY <1>3, <2>1, <2>4, <2>5
<1>8. ASSUME NEW h \in finishing[r], recordDeleted(r, h) PROVE Agreed
  <2>1. CASE h.channel = "open" /\ engaged[r]
    <3>1. PICK m : m = Backpressure(h.file, FALSE)
      OBVIOUS
    <3>2. m \in UpMessage /\ m.type = "WRITE_BACKPRESSURE" /\ m.engaged = FALSE
      BY <1>1, <3>1, UpMessages DEF Backpressure, FinishHandler
    <3>3. toSender'[r] = Append(toSender[r], m) /\ engaged'[r] = FALSE
      BY <1>1, <1>8, <2>1, <3>1 DEF recordDeleted
    <3>4. link[r]
      BY <1>2, <2>1
    <3>5. Says(Append(toSender[r], m), r \in slowPeers, m.engaged)
      BY <1>1, <1>2, <3>2, <3>4, SaysMore
    <3> QED BY <3>2, <3>3, <3>4, <3>5
  <2>2. CASE ~(h.channel = "open" /\ engaged[r])
    <3>1. UNCHANGED <<toSender, engaged>>
      BY <1>8, <2>2 DEF recordDeleted
    <3> QED BY <1>3, <3>1
  <2> QED BY <2>1, <2>2
<1>9. ASSUME chunkWritten(r) PROVE Agreed
  <2>1. PICK n : n = Head(fromWorker[r]).currentOffset
    OBVIOUS
  <2>2. \/ reportWriteLag(r, total[r], n, <<>>)
        \/ UNCHANGED <<toSender, engaged>>
    BY <1>9, <2>1 DEF chunkWritten
  <2>3. n \in Nat
    <3>1. Head(fromWorker[r]) \in WorkerReply /\ Head(fromWorker[r]).type = "CHUNK_WRITTEN"
      BY <1>9, ReplyTaken, TypeInvParts DEF chunkWritten, NextReply
    <3> QED BY <2>1, <3>1 DEF WorkerReply
  <2>4. CASE reportWriteLag(r, total[r], n, <<>>)
    BY <1>1, <2>3, <2>4, ReportAgrees
  <2> QED BY <1>3, <2>2, <2>4
<1>10. ASSUME onOffer(r) \/ onComplete(r) \/ fileClosed(r) \/ fileReady(r)
              \/ workerError(r) \/ replyDropped(r) \/ onPauseSignal(r)
       PROVE  Agreed
  <2>1. UNCHANGED <<toSender, engaged>>
    BY <1>10 DEF onOffer, onComplete, fileClosed, fileReady, workerError, replyDropped,
                 onPauseSignal, channelVars, receiverVars
  <2> QED BY <1>3, <2>1
<1>11. Agreed
  BY <1>4, <1>5, <1>6, <1>7, <1>8, <1>9, <1>10 DEF ReceiverStep, ReceiverHandler
<1> QED BY <1>11, AgreesAfter


LEMMA InitAgrees == Init => AgreeInv
BY DEF Init, ChannelInit, SenderInit, ReceiverInit, AgreeInv, AgreesAt, Says, SignalsIn

\* The sender takes what a page has sent it, or cleans up after it.
LEMMA SenderHandlerAgrees ==
  ASSUME TypeInv, AgreeInv, NEW r \in Receiver, SenderHandler(r), OnlySender
  PROVE  AgreeInv'
<1>1. UNCHANGED <<link, engaged>>
  BY DEF SenderHandler, onAccept, onBackpressure, closePeer, OnlySender, receiverVars, channelVars
<1>2. /\ toSender \in [Receiver -> Seq(UpMessage)]
      /\ engaged \in [Receiver -> BOOLEAN] /\ link \in [Receiver -> BOOLEAN]
      /\ slowPeers \subseteq Receiver /\ closing \subseteq Receiver
  BY DEF TypeInv, TypeOK, ChannelTypeOK, ReceiverTypeOK, SenderTypeOK
<1>3. ASSUME NEW q \in Receiver PROVE AgreesAt(q)
  BY DEF AgreeInv
<1>4. ASSUME NEW q \in Receiver, q # r PROVE AgreesAt(q)'
  <2>1. toSender'[q] = toSender[q] /\ (q \in slowPeers' <=> q \in slowPeers)
        /\ (q \in closing' <=> q \in closing)
    BY <1>2, <1>4 DEF SenderHandler, onAccept, onBackpressure, closePeer, channelVars
  <2>2. link[q] => Says(toSender'[q], q \in slowPeers', engaged[q])
    BY <1>3, <2>1 DEF AgreesAt
  <2> QED BY <1>1, <1>3, <2>1, <2>2 DEF AgreesAt
<1>5. AgreesAt(r)'
  <2>1. CASE onAccept(r)
    <3>1. /\ toSender[r] # <<>> /\ Head(toSender[r]).type # "WRITE_BACKPRESSURE"
          /\ toSender'[r] = Tail(toSender[r])
          /\ slowPeers' = slowPeers /\ closing' = closing
      BY <1>2, <2>1 DEF onAccept
    <3>2. link[r] => Says(toSender'[r], r \in slowPeers', engaged[r])
      <4>1. link[r] => Says(toSender[r], r \in slowPeers, engaged[r])
        BY <1>3 DEF AgreesAt
      <4>2. toSender[r] \in Seq(UpMessage) /\ engaged[r] \in BOOLEAN
        BY <1>2
      <4>3. link[r] => Says(Tail(toSender[r]), r \in slowPeers, engaged[r])
        BY <3>1, <4>1, <4>2, SaysTail
      <4> QED BY <3>1, <4>3
    <3> QED BY <1>1, <1>3, <3>1, <3>2 DEF AgreesAt
  <2>2. CASE onBackpressure(r)
    <3>1. /\ toSender[r] # <<>> /\ Head(toSender[r]).type = "WRITE_BACKPRESSURE"
          /\ toSender'[r] = Tail(toSender[r])
          /\ r \in slowPeers' <=> Head(toSender[r]).engaged
          /\ closing' = closing
      BY <1>2, <2>2 DEF onBackpressure
    <3>2. link[r] => Says(toSender'[r], r \in slowPeers', engaged[r])
      <4>1. link[r] => Says(toSender[r], r \in slowPeers, engaged[r])
        BY <1>3 DEF AgreesAt
      <4>2. toSender[r] \in Seq(UpMessage) /\ engaged[r] \in BOOLEAN
        BY <1>2
      <4>3. Head(toSender[r]).engaged \in BOOLEAN
        BY <3>1, <4>2, HeadTail, UpMessageFields
      <4>4. link[r] => Says(Tail(toSender[r]), Head(toSender[r]).engaged, engaged[r])
        BY <3>1, <4>1, <4>2, SaysTail
      <4>5. (r \in slowPeers') = Head(toSender[r]).engaged
        BY <3>1, <4>3
      <4> QED BY <3>1, <4>4, <4>5
    <3> QED BY <1>1, <1>3, <3>1, <3>2 DEF AgreesAt
  <2>3. CASE closePeer(r)
    <3>1. r \in closing /\ r \notin closing' /\ toSender' = toSender
      BY <2>3 DEF closePeer, channelVars
    <3>2. ~link[r]
      BY <1>3, <3>1 DEF AgreesAt
    <3> QED BY <1>1, <1>3, <3>1, <3>2 DEF AgreesAt
  <2> QED BY <2>1, <2>2, <2>3 DEF SenderHandler
<1> QED BY <1>4, <1>5 DEF AgreeInv

LEMMA PagesAgree ==
  ASSUME TypeInv, LinkInv, AgreeInv, NEW r \in Receiver,
         (ReceiverStep(r) /\ ResetsWhenReleased) \/ ReceiverReload(r) \/ Rejoin(r)
  PROVE  AgreeInv'
<1>1. /\ toSender \in [Receiver -> Seq(UpMessage)]
      /\ engaged \in [Receiver -> BOOLEAN] /\ link \in [Receiver -> BOOLEAN]
      /\ slowPeers \subseteq Receiver /\ closing \subseteq Receiver
  BY DEF TypeInv, TypeOK, ChannelTypeOK, ReceiverTypeOK, SenderTypeOK
<1>2. ASSUME NEW q \in Receiver PROVE AgreesAt(q)
  BY DEF AgreeInv
<1>3. slowPeers' = slowPeers
  BY DEF ReceiverStep, ReceiverReload, Rejoin, senderVars
<1>4. ASSUME NEW q \in Receiver, q # r PROVE AgreesAt(q)'
  <2>1. /\ toSender'[q] = toSender[q] /\ link'[q] = link[q]
        /\ q \in closing' <=> q \in closing
    <3>1. CASE ReceiverStep(r)
      BY <1>4, <3>1, HandlersKeepOthers DEF ReceiverStep, OtherPagesKept, senderVars
    <3>2. CASE ReceiverReload(r)
      BY <1>1, <1>4, <3>2 DEF ReceiverReload
    <3>3. CASE Rejoin(r)
      BY <1>1, <1>4, <3>3 DEF Rejoin, senderVars
    <3> QED BY <3>1, <3>2, <3>3
  <2>2. engaged'[q] = engaged[q]
    <3>1. CASE ReceiverStep(r)
      BY <1>1, <1>4, <3>1
         DEF ReceiverStep, ReceiverHandler, onChunk, onOffer, onOfferInMemory, recordFound,
             fileInitialised, onComplete, fileClosed, fileReady, recordDeleted, chunkWritten,
             workerError, replyDropped, onPauseSignal, reportWriteLag, receiverVars
    <3>2. CASE ReceiverReload(r)
      BY <1>1, <1>4, <3>2 DEF ReceiverReload, PageReloaded
    <3>3. CASE Rejoin(r)
      BY <3>3 DEF Rejoin, receiverVars
    <3> QED BY <3>1, <3>2, <3>3
  <2>3. link[q] => Says(toSender'[q], q \in slowPeers', engaged'[q])
    BY <1>2, <1>3, <2>1, <2>2 DEF AgreesAt
  <2> QED BY <1>2, <2>1, <2>2, <2>3 DEF AgreesAt
<1>5. AgreesAt(r)'
  <2>1. CASE ReceiverStep(r) /\ ResetsWhenReleased
    BY <1>2, <2>1, ReceiverStepAgrees
  <2>2. CASE ReceiverReload(r)
    <3>1. /\ ~link'[r] /\ ~engaged'[r]
      BY <1>1, <2>2 DEF ReceiverReload, PageReloaded
    <3> QED BY <3>1 DEF AgreesAt
  <2>3. CASE Rejoin(r)
    <3>1. ~link[r] /\ r \notin closing /\ closing' = closing /\ toSender' = toSender /\ engaged' = engaged
      BY <2>3 DEF Rejoin, senderVars, receiverVars
    <3>2. r \notin slowPeers /\ ~engaged[r] /\ toSender[r] = <<>>
      BY <1>2, <3>1 DEF LinkInv, DepartedPeersCleaned, ClosedIsEmpty, AgreesAt
    <3>3. Says(toSender'[r], r \in slowPeers', engaged'[r])
      BY <1>3, <3>1, <3>2 DEF Says, SignalsIn
    <3> QED BY <1>2, <3>1, <3>2, <3>3 DEF AgreesAt
  <2> QED BY <2>1, <2>2, <2>3
<1> QED BY <1>4, <1>5 DEF AgreeInv

LEMMA StepAgrees ==
  TypeInv /\ LinkInv /\ AgreeInv /\ [Next]_vars /\ [ResetsWhenReleased]_vars => AgreeInv'
<1> SUFFICES ASSUME TypeInv, LinkInv, AgreeInv, [Next]_vars, [ResetsWhenReleased]_vars
             PROVE  AgreeInv'
  OBVIOUS
<1>1. ASSUME UNCHANGED <<link, toSender, slowPeers, closing, engaged>> PROVE AgreeInv'
  BY <1>1 DEF AgreeInv, AgreesAt
<1>2. CASE SenderStep
  <2>1. CASE broadcastFiles \/ SenderLoop \/ pauseSend \/ resumeSend
    <3>1. UNCHANGED <<link, toSender, slowPeers, closing, engaged>>
      BY <1>2, <2>1
         DEF SenderStep, OnlySender, broadcastFiles, SenderLoop, offerFile, acceptWaitOver,
             waitForUnblock, readSlice, sendChunk, completeFile, pauseSend, resumeSend,
             channelVars, receiverVars
    <3> QED BY <1>1, <3>1
  <2> QED BY <1>2, <2>1, SenderHandlerAgrees DEF SenderStep, SenderNext
<1>3. CASE UNCHANGED <<channelVars, senderVars, receiverVars>>
  BY <1>1, <1>3 DEF channelVars, senderVars, receiverVars
<1>4. CASE SenderReload
  BY <1>4 DEF SenderReload, ChannelsClosed, AgreeInv, AgreesAt
<1>5. ASSUME NEW r \in Receiver, ReceiverStep(r) PROVE AgreeInv'
  <2>1. CASE ResetsWhenReleased
    BY <1>5, <2>1, PagesAgree
  <2>2. CASE UNCHANGED vars
    BY <1>3, <2>2 DEF vars
  <2> QED BY <2>1, <2>2
<1> QED
  BY <1>2, <1>3, <1>4, <1>5, PagesAgree DEF Next, OpfsStep, vars

\* Unless FILE_OFFER finds backpressure engaged, sender and receivers agree on it, however
\* signals, chunks, confirmations, departures and returns interleave: the one reset without
\* a signal is the only way to leave a sender waiting for a release that is never sent.
THEOREM BackpressureKept == Spec /\ [][ResetsWhenReleased]_vars => []BackpressureAgreed
<1>1. TypeInv /\ AgreeInv => BackpressureAgreed
  <2> SUFFICES ASSUME TypeInv, AgreeInv, NEW r \in Receiver, link[r]
               PROVE  /\ Signals(r) = {} => (r \in slowPeers <=> engaged[r])
                      /\ \A i \in Signals(r) :
                           (\A j \in Signals(r) : j <= i) => toSender[r][i].engaged = engaged[r]
    BY DEF BackpressureAgreed
  <2>1. Says(toSender[r], r \in slowPeers, engaged[r]) /\ SignalsIn(toSender[r]) = Signals(r)
    BY DEF AgreeInv, AgreesAt, SignalsIn, Signals
  <2> QED BY <2>1 DEF Says
<1> QED BY InitType, InitLink, InitAgrees, StepType, StepLink, StepAgrees, <1>1, PTL DEF Spec

-----------------------------------------------------------------------------
(***************************************************************************)
(* Why the sender and a receiver agree on the place of every chunk:        *)
(* Aligned.                                                                *)
(***************************************************************************)
Chunks == {m \in DownMessage : m.type = "CHUNK"}
ChunkIndex == [m \in Chunks |-> m.data.index]

\* The chunks in the queue are those of f from n up to, and without, m.
Run(queue, f, n, m) ==
  /\ Numbered(queue, Chunks, ChunkIndex, n, m)
  /\ \A x \in ToSet(queue) : x.type = "CHUNK" => x.data.file = f

Body == {"FILE_OFFER", "CHUNK", "TRANSFER_COMPLETE"}

\* Nothing but pauses and resumes is on its way.
Quiet(queue) == ~Has(queue, Body)

LEMMA RunQuiet ==
  ASSUME NEW q \in Seq(DownMessage), Quiet(q), NEW f, NEW n \in Nat
  PROVE  Run(q, f, n, n)
<1>1. \A x \in ToSet(q) : x \notin Chunks /\ x.type # "CHUNK"
  BY DEF Quiet, Has, Body, Chunks
<1> QED BY <1>1, NumberedNone DEF Run

LEMMA RunMore ==
  ASSUME NEW q \in Seq(DownMessage), NEW x \in DownMessage, NEW f, NEW n \in Nat, NEW m,
         Run(q, f, n, m)
  PROVE  /\ x.type # "CHUNK" => Run(Append(q, x), f, n, m)
         /\ x.type = "CHUNK" /\ x.data.file = f /\ x.data.index = m
              => Run(Append(q, x), f, n, m + 1)
<1>1. PICK s : s = Append(q, x)
  OBVIOUS
<1>2. ToSet(s) = ToSet(q) \cup {x}
  <2>1. s = q \o <<x>>
    BY <1>1
  <2> QED BY <2>1, SetMore
<1>3. CASE x.type # "CHUNK"
  <2>1. x \notin Chunks
    BY <1>3 DEF Chunks
  <2>2. Numbered(s, Chunks, ChunkIndex, n, m)
    BY <1>1, <2>1, NumberedMore DEF Run
  <2> QED BY <1>1, <1>2, <1>3, <2>2 DEF Run
<1>4. ASSUME x.type = "CHUNK", x.data.file = f, x.data.index = m
      PROVE  Run(s, f, n, m + 1)
  <2>1. x \in Chunks /\ ChunkIndex[x] = m
    BY <1>4 DEF Chunks, ChunkIndex
  <2>2. Numbered(s, Chunks, ChunkIndex, n, m + 1)
    BY <1>1, <2>1, NumberedMore DEF Run
  <2> QED BY <1>2, <1>4, <2>2 DEF Run
<1> QED BY <1>1, <1>3, <1>4

LEMMA RunTail ==
  ASSUME NEW q \in Seq(DownMessage), q # <<>>, NEW f, NEW n \in Nat, NEW m, Run(q, f, n, m)
  PROVE  /\ Head(q).type # "CHUNK" => Run(Tail(q), f, n, m)
         /\ Head(q).type = "CHUNK" => /\ Head(q).data = [file |-> f, index |-> n]
                                      /\ Run(Tail(q), f, n + 1, m)
<1>1. ToSet(q) = {Head(q)} \cup ToSet(Tail(q)) /\ Head(q) \in DownMessage
  BY SetTail, HeadTail
<1>2. CASE Head(q).type # "CHUNK"
  <2>1. Head(q) \notin Chunks
    BY <1>2 DEF Chunks
  <2>2. Numbered(Tail(q), Chunks, ChunkIndex, n, m)
    BY <2>1, NumberedTail DEF Run
  <2> QED BY <1>1, <1>2, <2>2 DEF Run
<1>3. CASE Head(q).type = "CHUNK"
  <2>1. Head(q) \in Chunks
    BY <1>1, <1>3 DEF Chunks
  <2>2. ChunkIndex[Head(q)] = n /\ Numbered(Tail(q), Chunks, ChunkIndex, n + 1, m)
    BY <2>1, NumberedTail DEF Run
  <2>3. Head(q).data \in Payload /\ Head(q).data.file = f /\ Head(q).data.index = n
    BY <1>1, <1>3, <2>1, <2>2, DownMessageFields DEF Run, ChunkIndex
  <2>4. Head(q).data = [file |-> f, index |-> n]
    BY <2>3 DEF Payload
  <2> QED BY <1>1, <1>3, <2>2, <2>4 DEF Run
<1> QED BY <1>2, <1>3

\* What Aligned says of one page.
LEMMA RunAligned ==
  ASSUME NEW q \in Seq(DownMessage), NEW f \in File, NEW n \in Nat, NEW m, Run(q, f, n, m),
         NEW i \in 1..Len(q), q[i].type = "CHUNK"
  PROVE  q[i].data = [file |-> f, index |-> n + Cardinality(ChunksBefore(q, i))]
<1>1. \A j \in 1..Len(q) : q[j] \in DownMessage /\ q[j] \in ToSet(q)
  BY DEF ToSet
<1>2. Places(q, Chunks, i - 1) = ChunksBefore(q, i)
  BY <1>1 DEF Places, Chunks, ChunksBefore
<1>3. q[i] \in Chunks /\ i \in Places(q, Chunks, Len(q))
  BY <1>1 DEF Places, Chunks
<1>4. ChunkIndex[q[i]] = n + Cardinality(ChunksBefore(q, i))
  BY <1>2, <1>3 DEF Run, Numbered
<1>5. /\ q[i].data \in Payload /\ q[i].data.file = f
      /\ q[i].data.index = n + Cardinality(ChunksBefore(q, i))
  BY <1>1, <1>3, <1>4, DownMessageFields DEF Run, ChunkIndex
<1> QED BY <1>5 DEF Payload


-----------------------------------------------------------------------------
(* The agreement on where a file starts is a hand-over: FILE_OFFER on its way,*)
(* the handler that looks up the record, FILE_ACCEPT on its way, and then the *)
(* sender's own offset.  At most one of them is there at a time, and behind   *)
(* an offer nothing but pauses follows until the sender has waited for the    *)
(* answer; each of them knows the file and the place the page counts from.    *)
Streaming == {"loop", "blocked", "read"}

\* What the runs do too: a selection goes to the one page that is in the room ...
OneTarget == broadcastFiles => \E r \in Receiver : targets' = {r}

\* ... and a lookup begun before the sender's page was reloaded is over before
\* the next file's has resolved (otherwise it renames the file under reception).
LookupsInTurn ==
  \A r \in Receiver : \A h \in offers[r] :
    recordFound(r, h) /\ h.channel # "open" =>
      /\ ~ready[r]
      /\ \A k \in offers[r] : k.channel = "open" => k.stage = "lookup"

Opened(r) == {h \in offers[r] : h.channel = "open"}

Awaiting(r) ==
  \/ Has(toReceiver[r], {"FILE_OFFER"})
  \/ Opened(r) # {}
  \/ Has(toSender[r], {"FILE_ACCEPT"})

SingleTarget == pc # "idle" => \E r \in Receiver : targets = {r}

SenderWaits(r) == Awaiting(r) => pc = "accept" /\ r \in targets \ lost

OfferIsLast(r) ==
  /\ Apart(toReceiver[r], {"FILE_OFFER"}, Body)
  /\ \A x \in ToSet(toReceiver[r]) : x.type = "FILE_OFFER" =>
       /\ x.file = Current
       /\ Opened(r) = {}
       /\ ~Has(toSender[r], {"FILE_ACCEPT"})

HandlerKnows(r) ==
  \A h \in Opened(r) :
    /\ h.file = Current
    /\ ~ready[r]
    /\ early[r] = <<>>
    /\ Quiet(toReceiver[r])
    /\ ~Has(toSender[r], {"FILE_ACCEPT"})
    /\ h.stage = "init" => total[r] = h.start /\ meta[r] = h.file
    /\ \A k \in Opened(r) : k = h

AcceptKnows(r) ==
  \A x \in ToSet(toSender[r]) : x.type = "FILE_ACCEPT" =>
    /\ ready[r]
    /\ meta[r] = Current
    /\ x.file = Current
    /\ x.start = total[r]
    /\ Quiet(toReceiver[r])

SenderKnows(r) ==
  pc = "accept" /\ r \in targets \ lost /\ ~Awaiting(r) =>
    /\ Quiet(toReceiver[r])
    /\ ready[r] => meta[r] = Current /\ resumeAt[Current] = total[r]

LoopKnows(r) ==
  pc \in Streaming /\ r \in targets \ lost /\ ready[r] =>
    meta[r] = Current /\ Run(toReceiver[r], Current, total[r], offset)

Counted(r) == ready[r] => meta[r] \in File /\ \E m \in Nat : Run(toReceiver[r], meta[r], total[r], m)

DataAt(r) ==
  /\ SenderWaits(r)
  /\ OfferIsLast(r)
  /\ HandlerKnows(r)
  /\ AcceptKnows(r)
  /\ SenderKnows(r)
  /\ LoopKnows(r)
  /\ Counted(r)

DataInv == SingleTarget /\ \A r \in Receiver : DataAt(r)

LEMMA SettledIsNotAwaited ==
  ASSUME TypeInv, NEW r \in Receiver
  PROVE  OfferSettled(r) <=> ~Awaiting(r)
<1>1. /\ DOMAIN toReceiver[r] = 1..Len(toReceiver[r])
      /\ DOMAIN toSender[r] = 1..Len(toSender[r])
  BY DEF TypeInv, TypeOK, ChannelTypeOK
<1> QED BY <1>1 DEF OfferSettled, Awaiting, Opened, Has, ToSet

LEMMA DataTypes ==
  ASSUME TypeInv, NEW r \in Receiver
  PROVE  /\ toReceiver[r] \in Seq(DownMessage) /\ toReceiver \in [Receiver -> Seq(DownMessage)]
         /\ toSender[r] \in Seq(UpMessage) /\ toSender \in [Receiver -> Seq(UpMessage)]
         /\ ready \in [Receiver -> BOOLEAN] /\ meta \in [Receiver -> File \cup {None}]
         /\ total \in [Receiver -> Nat] /\ total[r] \in Nat
         /\ early \in [Receiver -> Seq(Payload)]
         /\ offers \in [Receiver -> SUBSET OfferHandler] /\ offers[r] \subseteq OfferHandler
         /\ offset \in Nat /\ targets \subseteq Receiver /\ lost \subseteq targets
         /\ resumeAt \in [File -> Nat \cup {None}]
         /\ pc # "idle" => Current \in File
<1>1. TypeOK /\ SenderInv
  BY TypeInvParts DEF TypeInv
<1> QED BY <1>1, CurrentType DEF TypeOK, ChannelTypeOK, ReceiverTypeOK, SenderTypeOK

\* What a step that concerns no chunk and no offer leaves alone.
LoopKept(r) ==
  /\ UNCHANGED <<todo, offset, resumeAt>>
  /\ r \in targets' \ lost' <=> r \in targets \ lost
  /\ pc' = pc \/ {pc, pc'} \subseteq Streaming

PageKept(r) ==
  /\ ready'[r] = ready[r]
  /\ meta'[r] = meta[r]
  /\ total'[r] = total[r]
  /\ early'[r] = early[r]
  /\ offers'[r] = offers[r]

SameBody(r) ==
  /\ Apart(toReceiver'[r], {"FILE_OFFER"}, Body)
  /\ \A x : x.type \in Body => (x \in ToSet(toReceiver'[r]) <=> x \in ToSet(toReceiver[r]))
  /\ \A f, n, m : n \in Nat /\ Run(toReceiver[r], f, n, m) => Run(toReceiver'[r], f, n, m)

SameAccepts(r) ==
  \A x : x.type = "FILE_ACCEPT" => (x \in ToSet(toSender'[r]) <=> x \in ToSet(toSender[r]))

LEMMA DataKept ==
  ASSUME TypeInv, NEW r \in Receiver, DataAt(r), LoopKept(r), PageKept(r), SameBody(r),
         SameAccepts(r)
  PROVE  DataAt(r)'
<1>1. /\ Has(toReceiver'[r], {"FILE_OFFER"}) <=> Has(toReceiver[r], {"FILE_OFFER"})
      /\ Quiet(toReceiver'[r]) <=> Quiet(toReceiver[r])
  BY DEF SameBody, Has, Quiet, Body
<1>2. Has(toSender'[r], {"FILE_ACCEPT"}) <=> Has(toSender[r], {"FILE_ACCEPT"})
  BY DEF SameAccepts, Has
<1>3. Opened(r)' = Opened(r)
  BY DEF Opened, PageKept
<1>4. Awaiting(r)' <=> Awaiting(r)
  BY <1>1, <1>2, <1>3 DEF Awaiting
<1>5. Current' = Current
  BY DEF LoopKept, Current
<1>6. /\ pc' = "accept" <=> pc = "accept"
      /\ pc' \in Streaming <=> pc \in Streaming
  BY DEF LoopKept, Streaming
<1>7. SenderWaits(r)'
  BY <1>4, <1>6 DEF DataAt, SenderWaits, LoopKept
<1>8. OfferIsLast(r)'
  <2>1. \A x \in ToSet(toReceiver'[r]) : x.type = "FILE_OFFER" => x \in ToSet(toReceiver[r])
    BY DEF SameBody, Body
  <2>2. OfferIsLast(r)
    BY DEF DataAt
  <2>3. Apart(toReceiver'[r], {"FILE_OFFER"}, Body)
    BY DEF SameBody
  <2> QED BY <1>2, <1>3, <1>5, <2>1, <2>2, <2>3 DEF OfferIsLast
<1>9. HandlerKnows(r)'
  BY <1>1, <1>2, <1>3, <1>5 DEF DataAt, HandlerKnows, PageKept
<1>10. AcceptKnows(r)'
  <2>1. AcceptKnows(r)
    BY DEF DataAt
  <2>2. \A x \in ToSet(toSender'[r]) : x.type = "FILE_ACCEPT" => x \in ToSet(toSender[r])
    BY DEF SameAccepts
  <2> QED BY <1>1, <1>5, <2>1, <2>2 DEF AcceptKnows, PageKept
<1>11. SenderKnows(r)'
  <2>1. SenderKnows(r)
    BY DEF DataAt
  <2> QED BY <1>1, <1>4, <1>5, <1>6, <2>1 DEF SenderKnows, PageKept, LoopKept
<1>12. LoopKnows(r)' /\ Counted(r)'
  <2>1. LoopKnows(r) /\ Counted(r) /\ total[r] \in Nat
    BY DataTypes DEF DataAt
  <2>2. \A f, m : Run(toReceiver[r], f, total[r], m) => Run(toReceiver'[r], f, total'[r], m)
    BY <2>1 DEF SameBody, PageKept
  <2>3. LoopKnows(r)'
    BY <1>5, <1>6, <2>1, <2>2 DEF LoopKnows, PageKept, LoopKept
  <2>4. Counted(r)'
    BY <2>1, <2>2 DEF Counted, PageKept
  <2> QED BY <2>3, <2>4
<1> QED BY <1>7, <1>8, <1>9, <1>10, <1>11, <1>12 DEF DataAt


LEMMA BodyKept ==
  ASSUME TypeInv, NEW r \in Receiver, OfferIsLast(r),
         \/ toReceiver'[r] = toReceiver[r]
         \/ \E x \in DownMessage : x.type \notin Body /\ toReceiver'[r] = Append(toReceiver[r], x)
         \/ /\ toReceiver[r] # <<>>
            /\ Head(toReceiver[r]).type \notin Body
            /\ toReceiver'[r] = Tail(toReceiver[r])
  PROVE  SameBody(r)
<1>1. toReceiver[r] \in Seq(DownMessage) /\ Apart(toReceiver[r], {"FILE_OFFER"}, Body)
  BY DataTypes DEF OfferIsLast
<1>2. CASE toReceiver'[r] = toReceiver[r]
  BY <1>1, <1>2 DEF SameBody
<1>3. ASSUME NEW x \in DownMessage, x.type \notin Body, toReceiver'[r] = Append(toReceiver[r], x)
      PROVE  SameBody(r)
  <2>1. toReceiver'[r] = toReceiver[r] \o <<x>>
    BY <1>1, <1>3
  <2>2. ToSet(toReceiver'[r]) = ToSet(toReceiver[r]) \cup {x}
    BY <1>1, <2>1, SetMore
  <2>3. Apart(toReceiver'[r], {"FILE_OFFER"}, Body)
    BY <1>1, <1>3, <2>1, ApartMore
  <2>4. x.type # "CHUNK"
    BY <1>3 DEF Body
  <2>5. \A f, n, m : n \in Nat /\ Run(toReceiver[r], f, n, m) => Run(toReceiver'[r], f, n, m)
    BY <1>1, <1>3, <2>4, RunMore
  <2> QED BY <1>3, <2>2, <2>3, <2>5 DEF SameBody
<1>4. ASSUME toReceiver[r] # <<>>, Head(toReceiver[r]).type \notin Body,
             toReceiver'[r] = Tail(toReceiver[r])
      PROVE  SameBody(r)
  <2>1. ToSet(toReceiver[r]) = {Head(toReceiver[r])} \cup ToSet(toReceiver'[r])
    BY <1>1, <1>4, SetTail
  <2>2. Apart(toReceiver'[r], {"FILE_OFFER"}, Body)
    BY <1>1, <1>4, ApartTail
  <2>3. Head(toReceiver[r]).type # "CHUNK"
    BY <1>4 DEF Body
  <2>4. \A f, n, m : n \in Nat /\ Run(toReceiver[r], f, n, m) => Run(toReceiver'[r], f, n, m)
    BY <1>1, <1>4, <2>3, RunTail
  <2> QED BY <1>4, <2>1, <2>2, <2>4 DEF SameBody
<1> QED BY <1>2, <1>3, <1>4

LEMMA AcceptsKept ==
  ASSUME TypeInv, NEW r \in Receiver,
         \/ toSender'[r] = toSender[r]
         \/ \E x \in UpMessage : x.type # "FILE_ACCEPT" /\ toSender'[r] = Append(toSender[r], x)
         \/ /\ toSender[r] # <<>>
            /\ Head(toSender[r]).type # "FILE_ACCEPT"
            /\ toSender'[r] = Tail(toSender[r])
  PROVE  SameAccepts(r)
<1>1. toSender[r] \in Seq(UpMessage)
  BY DataTypes
<1>2. CASE toSender'[r] = toSender[r]
  BY <1>2 DEF SameAccepts
<1>3. ASSUME NEW x \in UpMessage, x.type # "FILE_ACCEPT", toSender'[r] = Append(toSender[r], x)
      PROVE  SameAccepts(r)
  <2>1. toSender'[r] = toSender[r] \o <<x>>
    BY <1>1, <1>3
  <2> QED BY <1>1, <1>3, <2>1, SetMore DEF SameAccepts
<1>4. ASSUME toSender[r] # <<>>, Head(toSender[r]).type # "FILE_ACCEPT",
             toSender'[r] = Tail(toSender[r])
      PROVE  SameAccepts(r)
  BY <1>1, <1>4, SetTail DEF SameAccepts
<1> QED BY <1>2, <1>3, <1>4

LEMMA InitData == Init => DataInv
<1> SUFFICES ASSUME Init PROVE DataInv
  OBVIOUS
<1>1. pc = "idle"
  BY DEF Init, SenderInit
<1>2. ASSUME NEW r \in Receiver PROVE DataAt(r)
  <2>1. toReceiver[r] = <<>> /\ toSender[r] = <<>> /\ offers[r] = {} /\ ~ready[r]
    BY DEF Init, ChannelInit, ReceiverInit
  <2>2. Apart(<<>>, {"FILE_OFFER"}, Body) /\ ToSet(<<>>) = {}
    BY ApartShort, SetNothing
  <2> QED
    BY <1>1, <2>1, <2>2
       DEF DataAt, SenderWaits, OfferIsLast, HandlerKnows, AcceptKnows, SenderKnows,
           LoopKnows, Counted, Awaiting, Opened, Has, Streaming
<1> QED BY <1>1, <1>2 DEF DataInv, SingleTarget

-----------------------------------------------------------------------------
\* While no page is being waited for, no page has an offer, a lookup or an answer under way.
LEMMA NothingAwaited ==
  ASSUME NEW r \in Receiver, DataAt(r), pc # "accept" \/ r \notin targets \ lost
  PROVE  ~Awaiting(r)
BY DEF DataAt, SenderWaits

\* The page has been waited for and its queue grows or stays: what is left to show.
LEMMA DataUnawaited ==
  ASSUME NEW r \in Receiver, ~Awaiting(r)', Apart(toReceiver'[r], {"FILE_OFFER"}, Body),
         SenderKnows(r)', LoopKnows(r)', Counted(r)'
  PROVE  DataAt(r)'
<1>1. /\ ~Has(toReceiver'[r], {"FILE_OFFER"})
      /\ Opened(r)' = {}
      /\ ~Has(toSender'[r], {"FILE_ACCEPT"})
  BY DEF Awaiting
<1>2. OfferIsLast(r)' /\ AcceptKnows(r)' /\ HandlerKnows(r)' /\ SenderWaits(r)'
  BY <1>1 DEF OfferIsLast, AcceptKnows, HandlerKnows, SenderWaits, Has
<1> QED BY <1>2 DEF DataAt

\* The part of the sender's steps that touches neither the pages nor what they sent.
LEMMA SenderLeaves ==
  ASSUME OnlySender, NEW r \in Receiver
  PROVE  /\ PageKept(r)
         /\ UNCHANGED <<ready, meta, total, early, offers>>
BY DEF OnlySender, receiverVars, PageKept

LEMMA broadcastFilesData ==
  ASSUME TypeInv, DataInv, broadcastFiles, OnlySender, OneTarget
  PROVE  DataInv'
<1>1. /\ pc = "idle" /\ pc' = "hash" /\ toReceiver' = toReceiver /\ toSender' = toSender
      /\ \E r \in Receiver : targets' = {r}
  BY DEF broadcastFiles, channelVars, OneTarget
<1>2. ASSUME NEW r \in Receiver PROVE DataAt(r)'
  <2>1. DataAt(r) /\ ~Awaiting(r) /\ PageKept(r) /\ UNCHANGED <<ready, meta, total, offers>>
    BY <1>1, NothingAwaited, SenderLeaves DEF DataInv
  <2>2. ~Awaiting(r)'
    BY <1>1, <2>1 DEF Awaiting, Opened
  <2>3. Apart(toReceiver'[r], {"FILE_OFFER"}, Body) /\ Counted(r)'
    BY <1>1, <2>1 DEF DataAt, OfferIsLast, Counted
  <2>4. SenderKnows(r)' /\ LoopKnows(r)'
    BY <1>1 DEF SenderKnows, LoopKnows, Streaming
  <2> QED BY <2>2, <2>3, <2>4, DataUnawaited
<1> QED BY <1>1, <1>2 DEF DataInv, SingleTarget

\* With one receiver a send that throws has reached nobody.
LEMMA ThrownToNobody ==
  ASSUME TypeInv, SingleTarget, pc # "idle", NEW m, SendThrows(m)
  PROVE  toReceiver' = toReceiver
<1>1. PICK t \in Receiver : targets = {t}
  BY DEF SingleTarget
<1>2. targets \ lost = {}
  BY <1>1, DataTypes DEF SendThrows
<1>3. toReceiver' = [r \in Receiver |-> toReceiver[r]]
  BY <1>2 DEF SendThrows
<1> QED BY <1>3, DataTypes

\* A broadcast that gives up, or is between two files, waits for nothing.
LEMMA GivenUpData ==
  ASSUME TypeInv, DataInv, pc # "accept", pc' \in {"idle", "hash"}, OnlySender,
         toSender' = toSender, NEW r \in Receiver,
         \/ toReceiver'[r] = toReceiver[r]
         \/ \E f \in File : toReceiver'[r] = Append(toReceiver[r], Complete(f))
  PROVE  DataAt(r)'
<1>1. DataAt(r) /\ ~Awaiting(r) /\ UNCHANGED <<ready, meta, total, offers>>
  BY NothingAwaited, SenderLeaves DEF DataInv
<1>2. SenderKnows(r)' /\ LoopKnows(r)'
  BY DEF SenderKnows, LoopKnows, Streaming
<1>3. CASE toReceiver'[r] = toReceiver[r]
  <2>1. ~Awaiting(r)' /\ Counted(r)' /\ Apart(toReceiver'[r], {"FILE_OFFER"}, Body)
    BY <1>1, <1>3 DEF Awaiting, Opened, DataAt, Counted, OfferIsLast
  <2> QED BY <1>2, <2>1, DataUnawaited
<1>4. ASSUME NEW f \in File, toReceiver'[r] = Append(toReceiver[r], Complete(f))
      PROVE  DataAt(r)'
  <2>1. PICK x : x = Complete(f)
    OBVIOUS
  <2>2. x \in DownMessage /\ x.type = "TRANSFER_COMPLETE" /\ toReceiver[r] \in Seq(DownMessage)
    BY <2>1, DownMessages, DataTypes DEF Complete
  <2>3. toReceiver'[r] = toReceiver[r] \o <<x>> /\ toReceiver'[r] = Append(toReceiver[r], x)
    BY <1>4, <2>1, <2>2
  <2>4. ToSet(toReceiver'[r]) = ToSet(toReceiver[r]) \cup {x}
    BY <2>2, <2>3, SetMore
  <2>5. ~Has(toReceiver[r], {"FILE_OFFER"}) /\ ~Has(toReceiver'[r], {"FILE_OFFER"})
    BY <1>1, <2>2, <2>4 DEF Awaiting, Has
  <2>6. ~Awaiting(r)'
    BY <1>1, <2>5 DEF Awaiting, Opened
  <2>7. Apart(toReceiver'[r], {"FILE_OFFER"}, Body)
    BY <2>2, <2>3, <2>5, ApartMore, ApartAbsent, ConcatElements
  <2>8. Counted(r)'
    <3>1. Counted(r) /\ total[r] \in Nat
      BY <1>1, DataTypes DEF DataAt
    <3>2. \A g, m : Run(toReceiver[r], g, total[r], m) => Run(toReceiver'[r], g, total[r], m)
      BY <2>2, <2>3, <3>1, RunMore
    <3> QED BY <1>1, <3>1, <3>2 DEF Counted
  <2> QED BY <1>2, <2>6, <2>7, <2>8, DataUnawaited
<1> QED BY <1>3, <1>4


\* An offer, and a pause in force, goes to a page nothing is awaited from.
LEMMA OfferSent ==
  ASSUME TypeInv, NEW r \in Receiver, DataAt(r), ~Awaiting(r), pc = "hash", OnlySender,
         toSender' = toSender, todo' = todo, pc' = "accept", r \in targets' \ lost',
         toReceiver'[r] = toReceiver[r] \o
           (IF userPaused THEN <<Offer(Current), Paused(Current)>> ELSE <<Offer(Current)>>)
  PROVE  DataAt(r)'
<1>1. PICK x, y : x = Offer(Current) /\ y = Paused(Current)
  OBVIOUS
<1>2. /\ x \in DownMessage /\ x.type = "FILE_OFFER" /\ x.file = Current
      /\ y \in DownMessage /\ y.type = "TRANSFER_PAUSED"
      /\ toReceiver[r] \in Seq(DownMessage) /\ total[r] \in Nat
  BY <1>1, DownMessages, DataTypes DEF Offer, Paused
<1>3. PICK q : q = Append(toReceiver[r], x)
  OBVIOUS
<1>4. q = toReceiver[r] \o <<x>> /\ q \in Seq(DownMessage)
  BY <1>2, <1>3
<1>5. toReceiver'[r] = IF userPaused THEN Append(q, y) ELSE q
  <2>1. CASE userPaused
    <3>1. toReceiver'[r] = toReceiver[r] \o <<x, y>>
      BY <1>1, <2>1
    <3> QED BY <1>2, <1>3, <2>1, <3>1
  <2>2. CASE ~userPaused
    BY <1>1, <1>4, <2>2
  <2> QED BY <2>1, <2>2
<1>6. UNCHANGED <<ready, meta, total, offers>> /\ Current' = Current
  BY SenderLeaves DEF Current
<1>7. ~Has(toReceiver[r], {"FILE_OFFER"}) /\ Opened(r) = {} /\ ~Has(toSender[r], {"FILE_ACCEPT"})
  BY DEF Awaiting
<1>8. Apart(q, {"FILE_OFFER"}, Body) /\ ToSet(q) = ToSet(toReceiver[r]) \cup {x}
  <2>1. Apart(toReceiver[r], {"FILE_OFFER"}, Body)
    BY DEF DataAt, OfferIsLast
  <2> QED BY <1>2, <1>4, <1>7, <2>1, ApartMore, SetMore
<1>9. Apart(toReceiver'[r], {"FILE_OFFER"}, Body)
      /\ \A z \in ToSet(toReceiver'[r]) : z.type = "FILE_OFFER" => z = x
  <2>1. \A z \in ToSet(q) : z.type = "FILE_OFFER" => z = x
    BY <1>7, <1>8 DEF Has
  <2>2. CASE userPaused
    <3>1. toReceiver'[r] = q \o <<y>>
      BY <1>2, <1>4, <1>5, <2>2, AppendConcat
    <3>2. ToSet(toReceiver'[r]) = ToSet(q) \cup {y}
      BY <1>4, <3>1, SetMore
    <3>3. y.type \notin Body
      BY <1>2 DEF Body
    <3>4. Apart(toReceiver'[r], {"FILE_OFFER"}, Body)
      BY <1>2, <1>4, <1>8, <3>1, <3>3, ApartMore
    <3> QED BY <1>2, <2>1, <3>2, <3>4
  <2> QED BY <1>5, <1>8, <2>1, <2>2
<1>10. OfferIsLast(r)'
  BY <1>2, <1>6, <1>7, <1>9 DEF OfferIsLast, Opened
<1>11. Awaiting(r)'
  <2>1. x \in ToSet(toReceiver'[r])
    <3>1. x \in ToSet(q)
      BY <1>8
    <3>2. ToSet(q \o <<y>>) = ToSet(q) \cup {y} /\ Append(q, y) = q \o <<y>>
      BY <1>2, <1>4, SetMore, AppendConcat
    <3> QED BY <1>5, <3>1, <3>2
  <2> QED BY <1>2, <2>1 DEF Awaiting, Has
<1>12. Counted(r)'
  <2>1. \A f, m : Run(toReceiver[r], f, total[r], m) => Run(q, f, total[r], m)
    BY <1>2, <1>3, RunMore
  <2>2. \A f, m : Run(q, f, total[r], m) => Run(Append(q, y), f, total[r], m)
    BY <1>2, <1>4, RunMore
  <2>3. \A f, m : Run(toReceiver[r], f, total[r], m) => Run(toReceiver'[r], f, total[r], m)
    BY <1>5, <2>1, <2>2
  <2> QED BY <1>6, <2>3 DEF DataAt, Counted
<1>13. SenderWaits(r)' /\ HandlerKnows(r)' /\ AcceptKnows(r)' /\ SenderKnows(r)' /\ LoopKnows(r)'
  BY <1>6, <1>7, <1>11
     DEF SenderWaits, HandlerKnows, AcceptKnows, SenderKnows, LoopKnows, Opened, Has, Streaming
<1> QED BY <1>10, <1>12, <1>13 DEF DataAt

LEMMA offerFileData ==
  ASSUME TypeInv, DataInv, offerFile, OnlySender
  PROVE  DataInv'
<1>1. pc = "hash" /\ toSender' = toSender
  BY DEF offerFile
<1>2. PICK t \in Receiver : targets = {t}
  BY <1>1 DEF DataInv, SingleTarget
<1>3. CASE SendThrows(Offer(Current))
  <2>1. toReceiver' = toReceiver /\ pc' = "idle"
    BY <1>1, <1>3, ThrownToNobody DEF DataInv, SendThrows
  <2>2. ASSUME NEW r \in Receiver PROVE DataAt(r)'
    BY <1>1, <2>1, GivenUpData
  <2> QED BY <2>1, <2>2 DEF DataInv, SingleTarget
<1>4. ASSUME SendToAll(IF userPaused THEN <<Offer(Current), Paused(Current)>>
                                     ELSE <<Offer(Current)>>),
             pc' = IF Cardinality(targets) = 1 THEN "accept" ELSE "loop",
             UNCHANGED <<todo, targets, lost>>
      PROVE  DataInv'
  <2>1. Cardinality(targets) = 1
    BY <1>2, FS_Singleton
  <2>2. pc' = "accept" /\ targets' \ lost' = {t}
    BY <1>2, <1>4, <2>1 DEF SendToAll
  <2>3. ASSUME NEW r \in Receiver PROVE DataAt(r)'
    <3>1. DataAt(r) /\ ~Awaiting(r)
      BY <1>1, NothingAwaited DEF DataInv
    <3>2. CASE r = t
      <4>1. toReceiver'[r] = toReceiver[r] \o
              (IF userPaused THEN <<Offer(Current), Paused(Current)>> ELSE <<Offer(Current)>>)
        BY <1>2, <1>4, <3>2 DEF SendToAll
      <4> QED BY <1>1, <1>4, <2>2, <3>1, <3>2, <4>1, OfferSent
    <3>3. CASE r # t
      <4>1. toReceiver'[r] = toReceiver[r]
        BY <1>2, <1>4, <3>3 DEF SendToAll
      <4>2. UNCHANGED <<ready, meta, total, offers>>
        BY SenderLeaves
      <4>3. ~Awaiting(r)' /\ Counted(r)' /\ Apart(toReceiver'[r], {"FILE_OFFER"}, Body)
        BY <1>1, <3>1, <4>1, <4>2 DEF Awaiting, Opened, DataAt, Counted, OfferIsLast
      <4>4. SenderKnows(r)' /\ LoopKnows(r)'
        BY <2>2, <3>3 DEF SenderKnows, LoopKnows
      <4> QED BY <4>3, <4>4, DataUnawaited
    <3> QED BY <3>2, <3>3
  <2> QED BY <1>2, <1>4, <2>3 DEF DataInv, SingleTarget
<1> QED BY <1>3, <1>4 DEF offerFile

\* The wait is over in time: whatever the page answered, the loop starts where it counts from.
LEMMA acceptWaitOverData ==
  ASSUME TypeInv, DataInv, acceptWaitOver, InTime, TimelyAccept, OnlySender
  PROVE  DataInv'
<1>1. /\ pc = "accept" /\ pc' = "loop" /\ toReceiver' = toReceiver /\ toSender' = toSender
      /\ UNCHANGED <<todo, targets, lost, resumeAt>>
      /\ offset' = IF resumeAt[Current] = None THEN 0 ELSE resumeAt[Current]
  BY DEF acceptWaitOver, channelVars
<1>2. ASSUME NEW r \in Receiver PROVE DataAt(r)'
  <2>1. DataAt(r)
    BY DEF DataInv
  <2>2. ~Awaiting(r)
    <3>1. CASE r \in targets \ lost
      <4>1. OfferSettled(r)
        BY <1>1, <3>1 DEF InTime
      <4> QED BY <4>1, SettledIsNotAwaited
    <3> QED BY <2>1, <3>1, NothingAwaited
  <2>3. UNCHANGED <<ready, meta, total, offers>>
    BY SenderLeaves
  <2>4. ~Awaiting(r)' /\ Counted(r)' /\ Apart(toReceiver'[r], {"FILE_OFFER"}, Body)
    BY <1>1, <2>1, <2>2, <2>3 DEF Awaiting, Opened, DataAt, Counted, OfferIsLast
  <2>5. SenderKnows(r)'
    BY <1>1 DEF SenderKnows
  <2>6. LoopKnows(r)'
    <3>1. SUFFICES ASSUME r \in targets \ lost, ready[r]
                   PROVE  meta[r] = Current /\ Run(toReceiver[r], Current, total[r], offset')
      BY <1>1, <2>3 DEF LoopKnows, Current
    <3>2. Quiet(toReceiver[r]) /\ meta[r] = Current /\ resumeAt[Current] = total[r]
      BY <1>1, <2>1, <2>2, <3>1 DEF DataAt, SenderKnows
    <3>3. total[r] \in Nat /\ toReceiver[r] \in Seq(DownMessage) /\ total[r] # None
      BY DataTypes, NoneAssumption
    <3>4. offset' = total[r]
      BY <1>1, <3>2, <3>3
    <3> QED BY <3>2, <3>3, <3>4, RunQuiet
  <2> QED BY <2>4, <2>5, <2>6, DataUnawaited
<1> QED BY <1>1, <1>2 DEF DataInv, SingleTarget

LEMMA sendChunkData ==
  ASSUME TypeInv, DataInv, sendChunk, OnlySender
  PROVE  DataInv'
<1>1. pc = "read" /\ toSender' = toSender /\ Current \in File /\ offset \in Nat
  BY DataTypes DEF sendChunk, TypeInv, TypeOK, SenderTypeOK, Phase, DataInv, SingleTarget
<1>2. PICK t \in Receiver : targets = {t}
  BY <1>1 DEF DataInv, SingleTarget
<1>3. CASE SendThrows(Chunk(Current, offset))
  <2>1. toReceiver' = toReceiver /\ pc' = "idle"
    BY <1>1, <1>3, ThrownToNobody DEF DataInv, SendThrows
  <2>2. ASSUME NEW r \in Receiver PROVE DataAt(r)'
    BY <1>1, <2>1, GivenUpData
  <2> QED BY <2>1, <2>2 DEF DataInv, SingleTarget
<1>4. ASSUME SendToAll(<<Chunk(Current, offset)>>), offset' = offset + 1, pc' = "loop",
             UNCHANGED <<todo, targets, lost>>
      PROVE  DataInv'
  <2>1. PICK x : x = Chunk(Current, offset)
    OBVIOUS
  <2>2. /\ x \in DownMessage /\ x.type = "CHUNK"
        /\ x.data.file = Current /\ x.data.index = offset
    BY <1>1, <2>1, DownMessages DEF Chunk
  <2>3. ASSUME NEW r \in Receiver PROVE DataAt(r)'
    <3>1. DataAt(r) /\ ~Awaiting(r) /\ UNCHANGED <<ready, meta, total, offers>>
      BY <1>1, NothingAwaited, SenderLeaves DEF DataInv
    <3>2. toReceiver[r] \in Seq(DownMessage) /\ total[r] \in Nat
      BY DataTypes
    <3>3. CASE r = t
      <4>1. toReceiver'[r] = toReceiver[r] \o <<x>>
        BY <1>2, <1>4, <2>1, <3>3 DEF SendToAll
      <4>2. toReceiver'[r] = Append(toReceiver[r], x)
            /\ ToSet(toReceiver'[r]) = ToSet(toReceiver[r]) \cup {x}
        BY <2>2, <3>2, <4>1, SetMore
      <4>3. ~Has(toReceiver[r], {"FILE_OFFER"}) /\ ~Has(toReceiver'[r], {"FILE_OFFER"})
        BY <2>2, <3>1, <4>2 DEF Awaiting, Has
      <4>4. ~Awaiting(r)'
        BY <1>1, <3>1, <4>3 DEF Awaiting, Opened
      <4>5. Apart(toReceiver'[r], {"FILE_OFFER"}, Body)
        BY <2>2, <3>1, <3>2, <4>1, <4>3, ApartMore DEF DataAt, OfferIsLast
      <4>6. SenderKnows(r)'
        BY <1>4 DEF SenderKnows
      <4>7. ASSUME ready[r], r \in targets \ lost
            PROVE  /\ meta[r] = Current
                   /\ Run(toReceiver'[r], Current, total[r], offset + 1)
        <5>1. meta[r] = Current /\ Run(toReceiver[r], Current, total[r], offset)
          BY <1>1, <3>1, <4>7 DEF DataAt, LoopKnows, Streaming
        <5> QED BY <2>2, <3>2, <4>2, <5>1, RunMore
      <4>8. LoopKnows(r)'
        BY <1>4, <3>1, <4>7 DEF LoopKnows, Current
      <4>9. r \in targets \ lost
        BY <1>2, <1>4, <3>3 DEF SendToAll
      <4>10. Counted(r)'
        BY <1>1, <3>1, <4>7, <4>9 DEF Counted
      <4> QED BY <4>4, <4>5, <4>6, <4>8, <4>10, DataUnawaited
    <3>4. CASE r # t
      <4>1. toReceiver'[r] = toReceiver[r]
        BY <1>2, <1>4, <3>4 DEF SendToAll
      <4>2. ~Awaiting(r)' /\ Counted(r)' /\ Apart(toReceiver'[r], {"FILE_OFFER"}, Body)
        BY <1>1, <3>1, <4>1 DEF Awaiting, Opened, DataAt, Counted, OfferIsLast
      <4>3. SenderKnows(r)' /\ LoopKnows(r)'
        BY <1>2, <1>4, <3>4 DEF SenderKnows, LoopKnows
      <4> QED BY <4>2, <4>3, DataUnawaited
    <3> QED BY <3>3, <3>4
  <2> QED BY <1>2, <1>4, <2>3 DEF DataInv, SingleTarget
<1> QED BY <1>3, <1>4 DEF sendChunk

LEMMA completeFileData ==
  ASSUME TypeInv, DataInv, completeFile, OnlySender
  PROVE  DataInv'
<1>1. pc = "loop" /\ toSender' = toSender /\ Current \in File /\ pc' \in {"idle", "hash"}
  <2>1. pc = "loop" /\ toSender' = toSender /\ pc' \in {"idle", "hash"}
    BY DEF completeFile, SendThrows
  <2>2. Current \in File
    BY <2>1, TypeInvParts, CurrentType
  <2> QED BY <2>1, <2>2
<1>2. PICK t \in Receiver : targets = {t}
  BY <1>1 DEF DataInv, SingleTarget
<1>3. CASE SendThrows(Complete(Current))
  <2>1. toReceiver' = toReceiver /\ pc' = "idle"
    BY <1>1, <1>3, ThrownToNobody DEF DataInv, SendThrows
  <2>2. ASSUME NEW r \in Receiver PROVE DataAt(r)'
    BY <1>1, <2>1, GivenUpData
  <2> QED BY <2>1, <2>2 DEF DataInv, SingleTarget
<1>4. ASSUME SendToAll(<<Complete(Current)>>),
             pc' = IF Tail(todo) = <<>> THEN "idle" ELSE "hash",
             targets' = IF Tail(todo) = <<>> THEN {} ELSE targets
      PROVE  DataInv'
  <2>1. ASSUME NEW r \in Receiver PROVE DataAt(r)'
    <3>1. PICK x : x = Complete(Current)
      OBVIOUS
    <3>2. x \in DownMessage /\ toReceiver[r] \in Seq(DownMessage)
      BY <1>1, <3>1, DownMessages, DataTypes
    <3>3. toReceiver'[r] = IF r \in targets THEN toReceiver[r] \o <<x>> ELSE toReceiver[r]
      BY <1>4, <3>1 DEF SendToAll
    <3>4. toReceiver'[r] = toReceiver[r] \/ toReceiver'[r] = Append(toReceiver[r], x)
      BY <3>2, <3>3
    <3> QED BY <1>1, <3>1, <3>4, GivenUpData
  <2>2. SingleTarget'
    BY <1>2, <1>4 DEF SingleTarget
  <2> QED BY <2>1, <2>2 DEF DataInv
<1> QED BY <1>3, <1>4 DEF completeFile


\* Waiting, pausing and resuming concern neither chunks nor offers.
LEMMA waitingData ==
  ASSUME TypeInv, DataInv, waitForUnblock \/ readSlice \/ pauseSend \/ resumeSend, OnlySender
  PROVE  DataInv'
<1>1. /\ UNCHANGED <<todo, targets, lost, offset, resumeAt, toSender>>
      /\ pc' = pc \/ {pc, pc'} \subseteq Streaming
  BY DEF waitForUnblock, readSlice, pauseSend, resumeSend, channelVars, Notified, Streaming
<1>2. ASSUME NEW r \in Receiver PROVE DataAt(r)'
  <2>1. DataAt(r) /\ PageKept(r) /\ LoopKept(r)
    BY <1>1, SenderLeaves DEF DataInv, LoopKept
  <2>2. \/ toReceiver'[r] = toReceiver[r]
        \/ \E x \in DownMessage : x.type \notin Body /\ toReceiver'[r] = Append(toReceiver[r], x)
    <3>1. CASE waitForUnblock \/ readSlice
      BY <3>1 DEF waitForUnblock, readSlice, channelVars
    <3>2. CASE pauseSend \/ resumeSend
      <4>1. PICK x : x \in {Paused(activeSend), Resumed(activeSend)} /\ TellOpenChannels(x)
        BY <3>2 DEF pauseSend, resumeSend
      <4>2. activeSend \in File
        BY <3>2 DEF pauseSend, resumeSend, TypeInv, TypeOK, SenderTypeOK
      <4>3. x \in DownMessage /\ x.type \notin Body
        <5>1. x \in DownMessage
          BY <4>1, <4>2, DownMessages
        <5>2. x.type \in {"TRANSFER_PAUSED", "TRANSFER_RESUMED"}
          BY <4>1 DEF Paused, Resumed
        <5> QED BY <5>1, <5>2 DEF Body
      <4> QED BY <4>1, <4>3 DEF TellOpenChannels
    <3> QED BY <3>1, <3>2
  <2>3. SameBody(r) /\ SameAccepts(r)
    BY <1>1, <2>1, <2>2, BodyKept, AcceptsKept DEF DataAt
  <2> QED BY <2>1, <2>3, DataKept
<1>3. SingleTarget'
  BY <1>1 DEF DataInv, SingleTarget, Streaming
<1> QED BY <1>2, <1>3 DEF DataInv

\* FILE_ACCEPT arrives while the sender waits for it: it carries the page's count.
LEMMA onAcceptData ==
  ASSUME TypeInv, DataInv, NEW r \in Receiver, onAccept(r), OnlySender
  PROVE  DataInv'
<1>1. /\ UNCHANGED <<pc, todo, targets, lost, offset, toReceiver>>
      /\ toSender[r] # <<>> /\ Head(toSender[r]).type = "FILE_ACCEPT"
      /\ resumeAt' = [resumeAt EXCEPT ![Head(toSender[r]).file] = Head(toSender[r]).start]
      /\ toSender' = [toSender EXCEPT ![r] = Tail(@)]
  BY DEF onAccept
<1>2. PICK x : x = Head(toSender[r])
  OBVIOUS
<1>3. ToSet(toSender[r]) = {x} \cup ToSet(Tail(toSender[r]))
  BY <1>1, <1>2, DataTypes, SetTail
<1>4. DataAt(r) /\ Awaiting(r)
  BY <1>1, <1>2, <1>3 DEF DataInv, Awaiting, Has
<1>5. /\ ready[r] /\ meta[r] = Current /\ x.file = Current /\ x.start = total[r]
      /\ Quiet(toReceiver[r])
      /\ pc = "accept" /\ r \in targets \ lost
  BY <1>1, <1>2, <1>3, <1>4 DEF DataAt, AcceptKnows, SenderWaits
<1>6. Current \in File /\ resumeAt'[Current] = total[r]
  BY <1>1, <1>2, <1>5, DataTypes
<1>7. DataAt(r)'
  <2>1. UNCHANGED <<ready, meta, total, early, offers>>
    BY SenderLeaves
  <2>2. toSender'[r] = Tail(toSender[r])
    BY <1>1, DataTypes
  <2>3. \A y \in ToSet(toSender'[r]) : y \in ToSet(toSender[r])
    BY <1>3, <2>2
  <2>4. Awaiting(r)' => Awaiting(r)
    BY <1>1, <2>1, <2>3 DEF Awaiting, Opened, Has
  <2>5. SenderWaits(r)'
    BY <1>1, <1>4, <2>4 DEF DataAt, SenderWaits
  <2>6. OfferIsLast(r)' /\ HandlerKnows(r)'
    BY <1>1, <1>4, <2>1, <2>3 DEF DataAt, OfferIsLast, HandlerKnows, Opened, Has, Current
  <2>7. AcceptKnows(r)'
    BY <1>1, <1>4, <2>1, <2>3 DEF DataAt, AcceptKnows, Current
  <2>8. SenderKnows(r)'
    BY <1>1, <1>5, <1>6, <2>1 DEF SenderKnows, Current
  <2>9. LoopKnows(r)' /\ Counted(r)'
    BY <1>1, <1>4, <2>1 DEF DataAt, LoopKnows, Counted, Current
  <2> QED BY <2>5, <2>6, <2>7, <2>8, <2>9 DEF DataAt
<1>8. ASSUME NEW s \in Receiver, s # r PROVE DataAt(s)'
  <2>1. DataAt(s) /\ UNCHANGED <<ready, meta, total, early, offers>>
    BY SenderLeaves DEF DataInv
  <2>2. toSender'[s] = toSender[s]
    BY <1>1, <1>8, DataTypes
  <2>3. s \notin targets
    <3>1. PICK t \in Receiver : targets = {t}
      BY <1>5 DEF DataInv, SingleTarget
    <3> QED BY <1>5, <1>8, <3>1
  <2>4. ~Awaiting(s) /\ ~Awaiting(s)'
    BY <1>1, <2>1, <2>2, <2>3, NothingAwaited DEF Awaiting, Opened
  <2>5. Apart(toReceiver'[s], {"FILE_OFFER"}, Body) /\ Counted(s)'
    BY <1>1, <2>1 DEF DataAt, OfferIsLast, Counted
  <2>6. SenderKnows(s)' /\ LoopKnows(s)'
    BY <1>1, <2>3 DEF SenderKnows, LoopKnows
  <2> QED BY <2>4, <2>5, <2>6, DataUnawaited
<1>9. SingleTarget'
  BY <1>1 DEF DataInv, SingleTarget
<1> QED BY <1>7, <1>8, <1>9 DEF DataInv

LEMMA unblockingData ==
  ASSUME TypeInv, DataInv, NEW s \in Receiver, onBackpressure(s) \/ closePeer(s), OnlySender
  PROVE  DataInv'
<1>1. /\ UNCHANGED <<todo, targets, lost, offset, resumeAt, toReceiver>>
      /\ pc' = pc \/ {pc, pc'} \subseteq Streaming
  BY DEF onBackpressure, closePeer, channelVars, Notified, Streaming
<1>2. ASSUME NEW r \in Receiver PROVE DataAt(r)'
  <2>1. DataAt(r) /\ PageKept(r) /\ LoopKept(r)
    BY <1>1, SenderLeaves DEF DataInv, LoopKept
  <2>2. \/ toSender'[r] = toSender[r]
        \/ /\ toSender[r] # <<>>
           /\ Head(toSender[r]).type # "FILE_ACCEPT"
           /\ toSender'[r] = Tail(toSender[r])
    <3>1. CASE onBackpressure(s)
      BY <3>1, DataTypes DEF onBackpressure
    <3>2. CASE closePeer(s)
      BY <3>2 DEF closePeer, channelVars
    <3> QED BY <3>1, <3>2
  <2>3. SameBody(r) /\ SameAccepts(r)
    BY <1>1, <2>1, <2>2, BodyKept, AcceptsKept DEF DataAt
  <2> QED BY <2>1, <2>3, DataKept
<1>3. SingleTarget'
  BY <1>1 DEF DataInv, SingleTarget, Streaming
<1> QED BY <1>2, <1>3 DEF DataInv

LEMMA SenderStepData ==
  ASSUME TypeInv, DataInv, SenderStep, TimelyAccept, OneTarget
  PROVE  DataInv'
BY broadcastFilesData, offerFileData, acceptWaitOverData, waitingData, sendChunkData,
   completeFileData, onAcceptData, unblockingData
   DEF SenderStep, SenderNext, SenderLoop, SenderHandler


-----------------------------------------------------------------------------
\* What the steps of a page leave alone.
LEMMA StepLeaves ==
  ASSUME NEW r \in Receiver, ReceiverStep(r)
  PROVE  /\ UNCHANGED <<pc, todo, targets, lost, offset, resumeAt>>
         /\ LoopKept(r) /\ Current' = Current
BY DEF ReceiverStep, senderVars, LoopKept, Current

\* A handler of one page counts nothing on another page.
LEMMA CountsElsewhere ==
  ASSUME TypeInv, NEW r \in Receiver, ReceiverHandler(r), NEW s \in Receiver, s # r
  PROVE  /\ ready'[s] = ready[s] /\ meta'[s] = meta[s] /\ total'[s] = total[s]
         /\ early'[s] = early[s]
<1>1. CASE onChunk(r)
  BY <1>1, DataTypes DEF onChunk, StoreChunks
<1>2. CASE onOffer(r) \/ onOfferInMemory(r) \/ \E h \in offers[r] : recordFound(r, h)
  BY <1>2, DataTypes DEF onOffer, onOfferInMemory, recordFound, StartFile
<1>3. CASE fileInitialised(r)
  <2>1. CASE UNCHANGED <<ready, total, early>>
    BY <1>3, <2>1 DEF fileInitialised
  <2>2. CASE /\ StoreChunks(r, early[r])
             /\ ready' = [ready EXCEPT ![r] = TRUE]
             /\ early' = [early EXCEPT ![r] = <<>>]
    BY <1>3, <2>2, DataTypes DEF fileInitialised, StoreChunks
  <2> QED BY <1>3, <2>1, <2>2 DEF fileInitialised
<1>4. CASE \/ onComplete(r) \/ fileClosed(r) \/ fileReady(r)
           \/ \E h \in finishing[r] : recordDeleted(r, h)
           \/ chunkWritten(r) \/ workerError(r) \/ replyDropped(r) \/ onPauseSignal(r)
  <2>1. UNCHANGED <<ready, meta, total, early>>
    BY <1>4 DEF onComplete, fileClosed, fileReady, recordDeleted, chunkWritten, workerError,
                replyDropped, onPauseSignal, receiverVars
  <2> QED BY <2>1
<1> QED BY <1>1, <1>2, <1>3, <1>4 DEF ReceiverHandler

LEMMA OtherPagesData ==
  ASSUME TypeInv, DataInv, NEW r \in Receiver, ReceiverStep(r), NEW s \in Receiver, s # r
  PROVE  DataAt(s)'
<1>1. DataAt(s) /\ LoopKept(s)
  BY DEF DataInv, ReceiverStep, senderVars, LoopKept
<1>2. toReceiver'[s] = toReceiver[s] /\ toSender'[s] = toSender[s] /\ offers'[s] = offers[s]
  BY HandlersKeepOthers DEF ReceiverStep, OtherPagesKept
<1>3. /\ ready'[s] = ready[s] /\ meta'[s] = meta[s] /\ total'[s] = total[s]
      /\ early'[s] = early[s]
  BY CountsElsewhere DEF ReceiverStep
<1>4. PageKept(s)
  BY <1>2, <1>3 DEF PageKept
<1>5. SameBody(s) /\ SameAccepts(s)
  BY <1>1, <1>2, BodyKept, AcceptsKept DEF DataAt
<1> QED BY <1>1, <1>4, <1>5, DataKept

\* reportWriteLag sends no FILE_ACCEPT.
LEMMA LagKeepsAccepts ==
  ASSUME TypeInv, NEW r \in Receiver, NEW n \in Nat, NEW c \in Nat,
         reportWriteLag(r, n, c, <<>>)
  PROVE  SameAccepts(r)
<1>1. /\ toSender[r] \in Seq(UpMessage) /\ toSender \in [Receiver -> Seq(UpMessage)]
      /\ active[r] \in File \cup {None} /\ engaged[r] \in BOOLEAN
  BY DEF TypeInv, TypeOK, ChannelTypeOK, ReceiverTypeOK
<1>2. toSender'[r] = toSender[r] \o LagSignal(r, n, c) \o <<>>
  BY <1>1 DEF reportWriteLag
<1>3. CASE EngagedAfter(r, n, c) = engaged[r]
  <2>1. LagSignal(r, n, c) = <<>>
    BY <1>3 DEF LagSignal
  <2>2. toSender'[r] = toSender[r]
    BY <1>1, <1>2, <2>1
  <2> QED BY <2>2, AcceptsKept
<1>4. CASE EngagedAfter(r, n, c) # engaged[r]
  <2>1. PICK x : x = Backpressure(active[r], EngagedAfter(r, n, c))
    OBVIOUS
  <2>2. active[r] \in File /\ EngagedAfter(r, n, c) \in BOOLEAN
    <3>1. active[r] \in File
      BY <1>1, <1>4 DEF EngagedAfter
    <3>2. (Lag(n, c) >= LowLag) \in BOOLEAN /\ (Lag(n, c) > HighLag) \in BOOLEAN
      OBVIOUS
    <3>3. EngagedAfter(r, n, c) \in BOOLEAN
      BY <1>1, <3>2, Zenon DEF EngagedAfter
    <3> QED BY <3>1, <3>3
  <2>3. x \in UpMessage /\ x.type # "FILE_ACCEPT"
    BY <2>1, <2>2, UpMessages DEF Backpressure
  <2>4. LagSignal(r, n, c) = <<x>>
    BY <1>4, <2>1 DEF LagSignal
  <2>5. toSender'[r] = Append(toSender[r], x)
    BY <1>1, <1>2, <2>3, <2>4
  <2> QED BY <2>3, <2>5, AcceptsKept
<1> QED BY <1>3, <1>4

\* The first message of the queue of r is taken.
LEMMA Taken ==
  ASSUME TypeInv, NEW r \in Receiver, NEW type, NextMessage(r, type), TakeMessage(r)
  PROVE  /\ toReceiver[r] # <<>> /\ toReceiver[r] \in Seq(DownMessage)
         /\ toReceiver'[r] = Tail(toReceiver[r])
         /\ toReceiver'[r] \in Seq(DownMessage)
         /\ Head(toReceiver[r]) \in DownMessage /\ Head(toReceiver[r]).type = type
         /\ Head(toReceiver[r]) \in ToSet(toReceiver[r])
         /\ ToSet(toReceiver'[r]) \subseteq ToSet(toReceiver[r])
<1>1. toReceiver \in [Receiver -> Seq(DownMessage)] /\ toReceiver[r] \in Seq(DownMessage)
  BY DataTypes
<1>2. toReceiver[r] # <<>> /\ toReceiver'[r] = Tail(toReceiver[r])
  BY <1>1 DEF NextMessage, TakeMessage
<1>3. ToSet(toReceiver[r]) = {Head(toReceiver[r])} \cup ToSet(Tail(toReceiver[r]))
  BY <1>1, <1>2, SetTail
<1> QED BY <1>1, <1>2, <1>3, HeadTail DEF NextMessage

\* A chunk, or the end of a file, is taken: no page that sees one is being waited for.
LEMMA BodyTaken ==
  ASSUME TypeInv, NEW r \in Receiver, DataAt(r), ReceiverStep(r),
         NEW type \in {"CHUNK", "TRANSFER_COMPLETE"}, NextMessage(r, type), TakeMessage(r),
         UNCHANGED <<ready, meta, offers>>, SameAccepts(r),
         ready[r] => total'[r] = IF type = "CHUNK" THEN total[r] + 1 ELSE total[r]
  PROVE  DataAt(r)'
<1>1. total[r] \in Nat
  BY DataTypes
<1>2. /\ toReceiver[r] # <<>> /\ toReceiver[r] \in Seq(DownMessage)
      /\ toReceiver'[r] = Tail(toReceiver[r])
      /\ Head(toReceiver[r]).type = type
      /\ Head(toReceiver[r]) \in ToSet(toReceiver[r])
      /\ ToSet(toReceiver'[r]) \subseteq ToSet(toReceiver[r])
  BY Taken
<1>3. ~Quiet(toReceiver[r])
  BY <1>2 DEF Quiet, Has, Body
<1>4. Opened(r) = {} /\ ~Has(toSender[r], {"FILE_ACCEPT"})
  BY <1>3 DEF DataAt, HandlerKnows, AcceptKnows, Has
<1>5. ~Has(toSender'[r], {"FILE_ACCEPT"}) /\ Opened(r)' = {}
  BY <1>4 DEF SameAccepts, Has, Opened
<1>6. Has(toReceiver'[r], {"FILE_OFFER"}) <=> Has(toReceiver[r], {"FILE_OFFER"})
  BY <1>2, SetTail DEF Has
<1>7. Awaiting(r)' <=> Awaiting(r)
  BY <1>4, <1>5, <1>6 DEF Awaiting
<1>8. SenderWaits(r)' /\ HandlerKnows(r)' /\ AcceptKnows(r)'
  BY <1>5, <1>7, StepLeaves DEF DataAt, SenderWaits, HandlerKnows, AcceptKnows, Has
<1>9. OfferIsLast(r)'
  <2>1. Apart(toReceiver'[r], {"FILE_OFFER"}, Body)
    BY <1>2, ApartTail DEF DataAt, OfferIsLast
  <2> QED BY <1>2, <1>5, <2>1, StepLeaves DEF DataAt, OfferIsLast
<1>10. SenderKnows(r)'
  <2>1. ~(pc = "accept" /\ r \in targets \ lost /\ ~Awaiting(r))
    BY <1>3 DEF DataAt, SenderKnows
  <2> QED BY <1>7, <2>1, StepLeaves DEF SenderKnows
<1>11. LoopKnows(r)' /\ Counted(r)'
  <2>1. CASE ready[r]
    <3>1. \A f, m : Run(toReceiver[r], f, total[r], m) => Run(toReceiver'[r], f, total'[r], m)
      BY <1>1, <1>2, <2>1, RunTail
    <3> QED BY <3>1, StepLeaves DEF DataAt, LoopKnows, Counted
  <2>2. CASE ~ready[r]
    BY <2>2 DEF LoopKnows, Counted
  <2> QED BY <2>1, <2>2
<1> QED BY <1>8, <1>9, <1>10, <1>11 DEF DataAt

LEMMA onChunkData ==
  ASSUME TypeInv, DataInv, NEW r \in Receiver, ReceiverStep(r), onChunk(r)
  PROVE  DataAt(r)'
<1>1. DataAt(r) /\ total[r] \in Nat /\ total \in [Receiver -> Nat]
  BY DataTypes DEF DataInv
<1>2. NextMessage(r, "CHUNK") /\ TakeMessage(r) /\ UNCHANGED <<ready, meta, offers>>
  BY DEF onChunk
<1>3. SameAccepts(r)
  <2>1. \/ reportWriteLag(r, total[r] + 1, confirmed[r], <<>>)
        \/ UNCHANGED toSender
    BY DEF onChunk
  <2>2. total[r] + 1 \in Nat /\ confirmed[r] \in Nat
    BY <1>1 DEF TypeInv, TypeOK, ReceiverTypeOK
  <2> QED BY <2>1, <2>2, LagKeepsAccepts, AcceptsKept
<1>4. ready[r] => total'[r] = total[r] + 1
  <2>1. SUFFICES ASSUME ready[r] PROVE total'[r] = total[r] + 1
    OBVIOUS
  <2>2. PICK cs : cs = <<Head(toReceiver[r]).data>>
    OBVIOUS
  <2>3. Len(cs) = 1 /\ StoreChunks(r, cs)
    BY <2>1, <2>2 DEF onChunk
  <2> QED BY <1>1, <2>3 DEF StoreChunks
<1> QED BY <1>1, <1>2, <1>3, <1>4, BodyTaken

LEMMA onCompleteData ==
  ASSUME TypeInv, DataInv, NEW r \in Receiver, ReceiverStep(r), onComplete(r)
  PROVE  DataAt(r)'
<1>1. /\ NextMessage(r, "TRANSFER_COMPLETE") /\ TakeMessage(r)
      /\ UNCHANGED <<ready, meta, offers, total, toSender>>
  BY DEF onComplete
<1>2. SameAccepts(r) /\ DataAt(r)
  BY <1>1, AcceptsKept DEF DataInv
<1> QED BY <1>1, <1>2, BodyTaken

\* An offer is the last thing on its way: behind it there is nothing to keep in order.
LEMMA OfferTaken ==
  ASSUME TypeInv, NEW r \in Receiver, DataAt(r), NextMessage(r, "FILE_OFFER"), TakeMessage(r)
  PROVE  /\ Head(toReceiver[r]).file = Current
         /\ pc = "accept" /\ r \in targets \ lost
         /\ Opened(r) = {} /\ ~Has(toSender[r], {"FILE_ACCEPT"})
         /\ toReceiver'[r] \in Seq(DownMessage)
         /\ Quiet(toReceiver'[r])
         /\ Apart(toReceiver'[r], {"FILE_OFFER"}, Body)
<1>1. /\ toReceiver[r] # <<>> /\ toReceiver[r] \in Seq(DownMessage)
      /\ toReceiver'[r] = Tail(toReceiver[r]) /\ toReceiver'[r] \in Seq(DownMessage)
      /\ Head(toReceiver[r]).type = "FILE_OFFER"
      /\ Head(toReceiver[r]) \in ToSet(toReceiver[r])
  BY Taken
<1>2. OfferIsLast(r) /\ Apart(toReceiver[r], {"FILE_OFFER"}, Body)
  BY DEF DataAt, OfferIsLast
<1>3. /\ Apart(toReceiver'[r], {"FILE_OFFER"}, Body)
      /\ ~Has(toReceiver'[r], Body)
  BY <1>1, <1>2, ApartTail
<1>4. /\ Head(toReceiver[r]).file = Current
      /\ Opened(r) = {} /\ ~Has(toSender[r], {"FILE_ACCEPT"})
  BY <1>1, <1>2 DEF OfferIsLast
<1>5. Awaiting(r)
  BY <1>1 DEF Awaiting, Has
<1>6. pc = "accept" /\ r \in targets \ lost
  BY <1>5 DEF DataAt, SenderWaits
<1> QED BY <1>1, <1>3, <1>4, <1>6 DEF Quiet

LEMMA onOfferData ==
  ASSUME TypeInv, DataInv, NEW r \in Receiver, ReceiverStep(r), onOffer(r)
  PROVE  DataAt(r)'
<1>1. DataAt(r)
  BY DEF DataInv
<1>2. /\ Head(toReceiver[r]).file = Current
      /\ pc = "accept" /\ r \in targets \ lost
      /\ Opened(r) = {} /\ ~Has(toSender[r], {"FILE_ACCEPT"})
      /\ Quiet(toReceiver'[r])
      /\ Apart(toReceiver'[r], {"FILE_OFFER"}, Body)
  BY <1>1, OfferTaken DEF onOffer
<1>3. PICK h : h = [file |-> Head(toReceiver[r]).file, stage |-> "lookup", start |-> 0,
                    channel |-> "open"]
  OBVIOUS
<1>4. /\ h.file = Current /\ h.stage = "lookup" /\ h.channel = "open"
  BY <1>2, <1>3
<1>5. /\ offers' = [offers EXCEPT ![r] = @ \cup {h}]
      /\ ready' = [ready EXCEPT ![r] = FALSE]
      /\ early' = [early EXCEPT ![r] = <<>>]
      /\ toSender' = toSender
  BY <1>3 DEF onOffer
<1>6. offers'[r] = offers[r] \cup {h} /\ ~ready'[r] /\ early'[r] = <<>>
  BY <1>5, DataTypes
<1>7. Opened(r)' = {h}
  BY <1>2, <1>4, <1>6 DEF Opened
<1>8. ~Has(toReceiver'[r], {"FILE_OFFER"})
  BY <1>2 DEF Quiet, Body, Has
<1>9. Current' = Current /\ UNCHANGED <<pc, targets, lost>>
  BY StepLeaves
<1>10. SenderWaits(r)' /\ SenderKnows(r)'
  BY <1>2, <1>7, <1>9 DEF SenderWaits, SenderKnows, Awaiting
<1>11. HandlerKnows(r)'
  BY <1>2, <1>4, <1>5, <1>6, <1>7, <1>9 DEF HandlerKnows
<1>12. OfferIsLast(r)' /\ AcceptKnows(r)' /\ LoopKnows(r)' /\ Counted(r)'
  BY <1>2, <1>5, <1>6, <1>8 DEF OfferIsLast, AcceptKnows, LoopKnows, Counted, Has
<1> QED BY <1>10, <1>11, <1>12 DEF DataAt

LEMMA onOfferInMemoryData ==
  ASSUME TypeInv, DataInv, NEW r \in Receiver, ReceiverStep(r), onOfferInMemory(r)
  PROVE  DataAt(r)'
<1>1. DataAt(r)
  BY DEF DataInv
<1>2. PICK f : f = Head(toReceiver[r]).file
  OBVIOUS
<1>3. /\ f = Current
      /\ pc = "accept" /\ r \in targets \ lost
      /\ Opened(r) = {} /\ ~Has(toSender[r], {"FILE_ACCEPT"})
      /\ toReceiver'[r] \in Seq(DownMessage)
      /\ Quiet(toReceiver'[r])
      /\ Apart(toReceiver'[r], {"FILE_OFFER"}, Body)
  BY <1>1, <1>2, OfferTaken DEF onOfferInMemory
<1>4. f \in File /\ toSender[r] \in Seq(UpMessage)
  BY <1>3, DataTypes
<1>5. PICK x : x = Accept(f, 0)
  OBVIOUS
<1>6. x \in UpMessage /\ x.type = "FILE_ACCEPT" /\ x.file = f /\ x.start = 0
  BY <1>4, <1>5, UpMessages DEF Accept
<1>7. /\ toSender' = [toSender EXCEPT ![r] = Append(@, x)]
      /\ ready' = [ready EXCEPT ![r] = TRUE]
      /\ meta' = [meta EXCEPT ![r] = f] /\ total' = [total EXCEPT ![r] = 0]
      /\ offers' = offers
  BY <1>2, <1>5 DEF onOfferInMemory, StartFile
<1>8. /\ toSender'[r] = Append(toSender[r], x) /\ ready'[r] /\ meta'[r] = f /\ total'[r] = 0
      /\ Opened(r)' = {}
  BY <1>3, <1>7, DataTypes DEF Opened
<1>9. ToSet(toSender'[r]) = ToSet(toSender[r]) \cup {x}
  <2>1. toSender'[r] = toSender[r] \o <<x>>
    BY <1>4, <1>6, <1>8
  <2> QED BY <1>4, <2>1, SetMore
<1>10. \A y \in ToSet(toSender'[r]) : y.type = "FILE_ACCEPT" => y = x
  BY <1>3, <1>9 DEF Has
<1>11. Awaiting(r)' /\ ~Has(toReceiver'[r], {"FILE_OFFER"})
  BY <1>3, <1>6, <1>9 DEF Awaiting, Has, Quiet, Body
<1>12. Current' = Current /\ UNCHANGED <<pc, targets, lost>>
  BY StepLeaves
<1>13. SenderWaits(r)' /\ SenderKnows(r)'
  BY <1>3, <1>11, <1>12 DEF SenderWaits, SenderKnows
<1>14. AcceptKnows(r)' /\ HandlerKnows(r)' /\ OfferIsLast(r)'
  BY <1>3, <1>6, <1>8, <1>10, <1>11, <1>12 DEF AcceptKnows, HandlerKnows, OfferIsLast, Has
<1>15. LoopKnows(r)' /\ Counted(r)'
  <2>1. Run(toReceiver'[r], f, 0, 0)
    BY <1>3, RunQuiet
  <2> QED BY <1>3, <1>4, <1>8, <1>12, <2>1 DEF LoopKnows, Counted, Streaming
<1> QED BY <1>13, <1>14, <1>15 DEF DataAt

LEMMA recordFoundData ==
  ASSUME TypeInv, DataInv, NEW r \in Receiver, ReceiverStep(r), LookupsInTurn,
         NEW h \in offers[r], recordFound(r, h)
  PROVE  DataAt(r)'
<1>1. DataAt(r) /\ h \in OfferHandler
  BY DataTypes DEF DataInv
<1>2. PICK start, g : start = StartOffset(r, h.file)
                      /\ g = [h EXCEPT !.stage = "init", !.start = start]
  OBVIOUS
<1>3. /\ offers' = [offers EXCEPT ![r] = (@ \ {h}) \cup {g}]
      /\ meta' = [meta EXCEPT ![r] = h.file]
      /\ total' = [total EXCEPT ![r] = start]
      /\ UNCHANGED <<toReceiver, toSender, ready, early>>
  BY <1>2 DEF recordFound, StartFile, channelVars
<1>4. /\ offers'[r] = (offers[r] \ {h}) \cup {g}
      /\ meta'[r] = h.file /\ total'[r] = start
  BY <1>3, DataTypes
<1>5. g.file = h.file /\ g.stage = "init" /\ g.start = start /\ g.channel = h.channel
  BY <1>1, <1>2 DEF OfferHandler
<1>6. Current' = Current /\ UNCHANGED <<pc, targets, lost>>
  BY StepLeaves
<1>7. CASE h.channel = "open"
  <2>1. h \in Opened(r) /\ Awaiting(r)
    BY <1>7 DEF Opened, Awaiting
  <2>2. /\ h.file = Current /\ ~ready[r] /\ early[r] = <<>> /\ Quiet(toReceiver[r])
        /\ ~Has(toSender[r], {"FILE_ACCEPT"})
        /\ Opened(r) = {h}
    BY <1>1, <2>1 DEF DataAt, HandlerKnows
  <2>3. Opened(r)' = {g}
    BY <1>4, <1>5, <1>7, <2>2 DEF Opened
  <2>4. HandlerKnows(r)'
    BY <1>3, <1>4, <1>5, <1>6, <2>2, <2>3 DEF HandlerKnows
  <2>5. SenderWaits(r)' /\ SenderKnows(r)'
    BY <1>1, <1>6, <2>1, <2>3 DEF DataAt, SenderWaits, SenderKnows, Awaiting
  <2>6. OfferIsLast(r)'
    BY <1>1, <1>3, <2>2 DEF DataAt, OfferIsLast, Quiet, Has, Body
  <2>7. AcceptKnows(r)' /\ LoopKnows(r)' /\ Counted(r)'
    BY <1>3, <2>2 DEF AcceptKnows, LoopKnows, Counted, Has
  <2> QED BY <2>4, <2>5, <2>6, <2>7 DEF DataAt
<1>8. CASE h.channel # "open"
  <2>1. ~ready[r] /\ \A k \in Opened(r) : k.stage = "lookup"
    BY <1>8 DEF LookupsInTurn, Opened
  <2>2. Opened(r)' = Opened(r)
    BY <1>4, <1>5, <1>8 DEF Opened
  <2>3. Awaiting(r)' <=> Awaiting(r)
    BY <1>3, <2>2 DEF Awaiting
  <2>4. SenderWaits(r)' /\ OfferIsLast(r)'
    BY <1>1, <1>3, <1>6, <2>2, <2>3 DEF DataAt, SenderWaits, OfferIsLast
  <2>5. HandlerKnows(r)'
    BY <1>1, <1>3, <1>6, <2>1, <2>2 DEF DataAt, HandlerKnows
  <2>6. ~Has(toSender[r], {"FILE_ACCEPT"})
    BY <1>1, <2>1 DEF DataAt, AcceptKnows, Has
  <2>7. SenderKnows(r)'
    BY <1>1, <1>3, <1>6, <2>1, <2>3 DEF DataAt, SenderKnows
  <2>8. AcceptKnows(r)' /\ LoopKnows(r)' /\ Counted(r)'
    BY <1>3, <2>1, <2>6 DEF AcceptKnows, LoopKnows, Counted, Has
  <2> QED BY <2>4, <2>5, <2>7, <2>8 DEF DataAt
<1> QED BY <1>7, <1>8

\* A page loses handlers whose channel has closed: none of its sender's business.
LEMMA OrphanGone ==
  ASSUME TypeInv, NEW r \in Receiver, DataAt(r), ReceiverStep(r), Opened(r)' = Opened(r),
         UNCHANGED <<toReceiver, toSender, ready, meta, total, early>>
  PROVE  DataAt(r)'
<1>1. Current' = Current /\ UNCHANGED <<pc, targets, lost, offset, resumeAt>>
  BY StepLeaves
<1>2. Awaiting(r)' <=> Awaiting(r)
  BY DEF Awaiting
<1>3. SenderWaits(r)' /\ OfferIsLast(r)' /\ HandlerKnows(r)' /\ AcceptKnows(r)'
  BY <1>1, <1>2 DEF DataAt, SenderWaits, OfferIsLast, HandlerKnows, AcceptKnows
<1>4. SenderKnows(r)' /\ LoopKnows(r)' /\ Counted(r)'
  BY <1>1, <1>2 DEF DataAt, SenderKnows, LoopKnows, Counted
<1> QED BY <1>3, <1>4 DEF DataAt

LEMMA fileInitialisedData ==
  ASSUME TypeInv, DataInv, NEW r \in Receiver, ReceiverStep(r), fileInitialised(r)
  PROVE  DataAt(r)'
<1>1. DataAt(r) /\ UNCHANGED <<toReceiver, meta>>
  BY DEF DataInv, fileInitialised
<1>2. PICK h \in offers[r] :
        /\ h.stage = "init"
        /\ offers' = [offers EXCEPT ![r] = @ \ {h}]
        /\ IF h.channel = "open"
           THEN LET accept == <<Accept(h.file, h.start)>> IN
                /\ StoreChunks(r, early[r])
                /\ early[r] = <<>> => toSender' = [toSender EXCEPT ![r] = @ \o accept]
                /\ ready' = [ready EXCEPT ![r] = TRUE]
           ELSE UNCHANGED <<total, toSender, ready, early>>
  BY DEF fileInitialised, OffersAt
<1>3. offers'[r] = offers[r] \ {h} /\ h \in OfferHandler
  BY <1>2, DataTypes
<1>4. CASE h.channel # "open"
  <2>1. Opened(r)' = Opened(r)
    BY <1>3, <1>4 DEF Opened
  <2> QED BY <1>1, <1>2, <1>4, <2>1, OrphanGone
<1>5. CASE h.channel = "open"
  <2>1. h \in Opened(r)
    BY <1>5 DEF Opened
  <2>2. /\ h.file = Current /\ ~ready[r] /\ early[r] = <<>> /\ Quiet(toReceiver[r])
        /\ ~Has(toSender[r], {"FILE_ACCEPT"})
        /\ total[r] = h.start /\ meta[r] = h.file
        /\ Opened(r) = {h}
    BY <1>1, <1>2, <2>1 DEF DataAt, HandlerKnows
  <2>3. pc = "accept" /\ r \in targets \ lost
    BY <1>1, <2>1 DEF DataAt, SenderWaits, Awaiting
  <2>4. PICK x : x = Accept(h.file, h.start)
    OBVIOUS
  <2>5. x \in UpMessage /\ x.type = "FILE_ACCEPT" /\ x.file = h.file /\ x.start = h.start
    BY <1>3, <2>4, UpMessages DEF Accept, OfferHandler
  <2>6. ready'[r] /\ toSender'[r] = toSender[r] \o <<x>>
    BY <1>2, <1>5, <2>2, <2>4, DataTypes
  <2>7. ToSet(toSender'[r]) = ToSet(toSender[r]) \cup {x}
    BY <2>6, DataTypes, SetMore
  <2>8. \A y \in ToSet(toSender'[r]) : y.type = "FILE_ACCEPT" => y = x
    BY <2>2, <2>7 DEF Has
  <2>9. total'[r] = total[r]
    <3>1. PICK cs : cs = early[r]
      OBVIOUS
    <3>2. Len(cs) = 0 /\ StoreChunks(r, cs)
      BY <1>2, <1>5, <2>2, <3>1
    <3>3. total' = [total EXCEPT ![r] = @ + Len(cs)]
      BY <3>2 DEF StoreChunks
    <3> QED BY <3>2, <3>3, DataTypes
  <2>10. Opened(r)' = {} /\ Current' = Current /\ UNCHANGED <<pc, targets, lost>>
    BY <1>3, <2>2, StepLeaves DEF Opened
  <2>11. Awaiting(r)' /\ ~Has(toReceiver'[r], {"FILE_OFFER"})
    BY <1>1, <2>2, <2>5, <2>7 DEF Awaiting, Has, Quiet, Body
  <2>12. SenderWaits(r)' /\ SenderKnows(r)'
    BY <2>3, <2>10, <2>11 DEF SenderWaits, SenderKnows
  <2>13. OfferIsLast(r)'
    BY <1>1, <2>11 DEF DataAt, OfferIsLast, Has
  <2>14. AcceptKnows(r)' /\ HandlerKnows(r)'
    BY <1>1, <2>2, <2>5, <2>6, <2>8, <2>9, <2>10 DEF AcceptKnows, HandlerKnows
  <2>15. LoopKnows(r)' /\ Counted(r)'
    <3>1. Current \in File /\ total[r] \in Nat /\ toReceiver[r] \in Seq(DownMessage)
      BY <2>3, DataTypes
    <3>2. Run(toReceiver[r], Current, total[r], total[r])
      BY <2>2, <3>1, RunQuiet
    <3> QED BY <1>1, <2>2, <2>3, <2>9, <2>10, <3>1, <3>2 DEF LoopKnows, Counted, Streaming
  <2> QED BY <2>12, <2>13, <2>14, <2>15 DEF DataAt
<1> QED BY <1>4, <1>5

\* initOpfsFile was refused: the page stays as it was and the wait ends without an answer.
LEMMA workerErrorData ==
  ASSUME TypeInv, DataInv, NEW r \in Receiver, ReceiverStep(r), workerError(r)
  PROVE  DataAt(r)'
<1>1. DataAt(r) /\ UNCHANGED <<toReceiver, toSender, meta, ready, total, early>>
  BY DEF DataInv, workerError, channelVars
<1>2. PICK h : offers' = [offers EXCEPT ![r] = @ \ {h}] \/ offers' = offers
  BY DEF workerError
<1>3. offers'[r] = offers[r] \ {h} \/ offers'[r] = offers[r]
  BY <1>2, DataTypes
<1>4. CASE Opened(r)' = Opened(r)
  BY <1>1, <1>4, OrphanGone
<1>5. CASE Opened(r)' # Opened(r)
  <2>1. h \in Opened(r)
    BY <1>3, <1>5 DEF Opened
  <2>2. /\ ~ready[r] /\ Quiet(toReceiver[r]) /\ ~Has(toSender[r], {"FILE_ACCEPT"})
        /\ Opened(r) = {h}
    BY <1>1, <2>1 DEF DataAt, HandlerKnows
  <2>3. Opened(r)' = {} /\ ~Has(toReceiver[r], {"FILE_OFFER"})
    BY <1>3, <1>5, <2>2 DEF Opened, Quiet, Has, Body
  <2>4. ~Awaiting(r)'
    BY <1>1, <2>2, <2>3 DEF Awaiting
  <2>5. SenderKnows(r)' /\ LoopKnows(r)' /\ Counted(r)'
    BY <1>1, <2>2 DEF SenderKnows, LoopKnows, Counted
  <2>6. Apart(toReceiver'[r], {"FILE_OFFER"}, Body)
    BY <1>1 DEF DataAt, OfferIsLast
  <2> QED BY <2>4, <2>5, <2>6, DataUnawaited
<1> QED BY <1>4, <1>5

\* The handlers that concern neither chunks nor offers.
Aside(r) ==
  \/ fileClosed(r)
  \/ fileReady(r)
  \/ \E h \in finishing[r] : recordDeleted(r, h)
  \/ chunkWritten(r)
  \/ replyDropped(r)
  \/ onPauseSignal(r)

LEMMA AsideLeaves ==
  ASSUME TypeInv, NEW r \in Receiver, ReceiverStep(r), Aside(r)
  PROVE  /\ LoopKept(r) /\ PageKept(r) /\ SameAccepts(r)
         /\ \/ toReceiver'[r] = toReceiver[r]
            \/ /\ toReceiver[r] # <<>>
               /\ Head(toReceiver[r]).type \notin Body
               /\ toReceiver'[r] = Tail(toReceiver[r])
<1> USE DEF Aside
<1>1. LoopKept(r)
  BY StepLeaves
<1>2. PageKept(r)
  BY DEF PageKept, fileClosed, fileReady, recordDeleted, chunkWritten, replyDropped,
         onPauseSignal, receiverVars
<1>3. \/ toReceiver'[r] = toReceiver[r]
      \/ /\ toReceiver[r] # <<>>
         /\ Head(toReceiver[r]).type \notin Body
         /\ toReceiver'[r] = Tail(toReceiver[r])
  <2>1. CASE onPauseSignal(r)
    <3>1. PICK type \in {"TRANSFER_PAUSED", "TRANSFER_RESUMED"} : NextMessage(r, type)
      BY <2>1 DEF onPauseSignal
    <3>2. TakeMessage(r)
      BY <2>1 DEF onPauseSignal
    <3>3. /\ toReceiver[r] # <<>> /\ Head(toReceiver[r]).type = type
          /\ toReceiver'[r] = Tail(toReceiver[r])
      BY <3>1, <3>2, Taken
    <3>4. Head(toReceiver[r]).type \notin Body
      BY <3>1, <3>3 DEF Body
    <3> QED BY <3>3, <3>4
  <2>3. onPauseSignal(r) \/ toReceiver' = toReceiver
    BY DEF fileClosed, fileReady, recordDeleted, chunkWritten, replyDropped, channelVars
  <2> QED BY <2>1, <2>3
<1>4. SameAccepts(r)
  <2>1. CASE toSender' = toSender
    BY <2>1, AcceptsKept
  <2>2. ASSUME NEW h \in finishing[r], recordDeleted(r, h)
        PROVE  SameAccepts(r)
    <3>1. h.file \in File
      BY DEF TypeInv, TypeOK, ReceiverTypeOK, FinishHandler
    <3>2. PICK x : x = Backpressure(h.file, FALSE)
      OBVIOUS
    <3>3. x \in UpMessage /\ x.type # "FILE_ACCEPT"
      BY <3>1, <3>2, UpMessages DEF Backpressure
    <3>4. toSender' = toSender \/ toSender' = [toSender EXCEPT ![r] = Append(@, x)]
      BY <2>2, <3>2 DEF recordDeleted
    <3>5. toSender' = toSender \/ toSender'[r] = Append(toSender[r], x)
      BY <3>4, DataTypes
    <3> QED BY <2>1, <3>3, <3>5, AcceptsKept
  <2>3. CASE chunkWritten(r)
    <3>1. PICK n : n = Head(fromWorker[r]).currentOffset
      OBVIOUS
    <3>2. toSender' = toSender \/ reportWriteLag(r, total[r], n, <<>>)
      BY <2>3, <3>1 DEF chunkWritten
    <3>3. n \in Nat /\ total[r] \in Nat
      <4>1. fromWorker[r] \in Seq(WorkerReply) /\ fromWorker[r] # <<>>
        BY <2>3 DEF chunkWritten, NextReply, TypeInv, TypeOK, WorkerTypeOK
      <4>2. Head(fromWorker[r]) \in WorkerReply
        BY <4>1, HeadTail
      <4>3. Head(fromWorker[r]).type = "CHUNK_WRITTEN"
        BY <2>3 DEF chunkWritten, NextReply
      <4> QED BY <3>1, <4>2, <4>3, DataTypes DEF WorkerReply
    <3> QED BY <2>1, <3>2, <3>3, LagKeepsAccepts
  <2>4. \/ toSender' = toSender \/ chunkWritten(r)
        \/ \E h \in finishing[r] : recordDeleted(r, h)
    BY DEF fileClosed, fileReady, replyDropped, onPauseSignal, channelVars
  <2> QED BY <2>1, <2>2, <2>3, <2>4
<1> QED BY <1>1, <1>2, <1>3, <1>4

LEMMA AsideData ==
  ASSUME TypeInv, DataInv, NEW r \in Receiver, ReceiverStep(r), Aside(r)
  PROVE  DataAt(r)'
<1>1. DataAt(r) /\ LoopKept(r) /\ PageKept(r) /\ SameAccepts(r)
  BY AsideLeaves DEF DataInv
<1>2. SameBody(r)
  BY <1>1, AsideLeaves, BodyKept DEF DataAt
<1> QED BY <1>1, <1>2, DataKept

LEMMA ReceiverStepData ==
  ASSUME TypeInv, DataInv, NEW r \in Receiver, ReceiverStep(r), LookupsInTurn
  PROVE  DataInv'
<1>1. DataAt(r)'
  BY onChunkData, onOfferData, onOfferInMemoryData, recordFoundData, fileInitialisedData,
     onCompleteData, workerErrorData, AsideData
     DEF ReceiverStep, ReceiverHandler, Aside
<1>2. \A s \in Receiver : DataAt(s)'
  BY <1>1, OtherPagesData
<1>3. SingleTarget'
  BY DEF DataInv, SingleTarget, ReceiverStep, senderVars
<1> QED BY <1>2, <1>3 DEF DataInv

\* The workers know nothing of offers, nor does a page that joins the room.
LEMMA ElsewhereData ==
  ASSUME DataInv, UNCHANGED <<toReceiver, toSender, senderVars, receiverVars>>
  PROVE  DataInv'
<1>1. SingleTarget'
  BY DEF DataInv, SingleTarget, senderVars
<1>2. ASSUME NEW r \in Receiver PROVE DataAt(r)'
  BY DEF DataInv, DataAt, SenderWaits, OfferIsLast, HandlerKnows, AcceptKnows, SenderKnows,
         LoopKnows, Counted, Awaiting, Opened, Current, senderVars, receiverVars
<1> QED BY <1>1, <1>2 DEF DataInv

LEMMA NothingSentData ==
  ASSUME NEW r \in Receiver, toReceiver'[r] = <<>>, toSender'[r] = <<>>, Opened(r)' = {},
         ~ready'[r]
  PROVE  DataAt(r)'
<1>1. Apart(<<>>, {"FILE_OFFER"}, Body) /\ ToSet(<<>>) = {}
  BY ApartShort, SetNothing
<1>2. ~Awaiting(r)'
  BY <1>1 DEF Awaiting, Has
<1>3. SenderKnows(r)' /\ LoopKnows(r)' /\ Counted(r)'
  BY <1>1 DEF SenderKnows, LoopKnows, Counted, Quiet, Has
<1> QED BY <1>1, <1>2, <1>3, DataUnawaited

LEMMA SenderReloadData ==
  ASSUME TypeInv, SenderReload
  PROVE  DataInv'
<1>1. ASSUME NEW r \in Receiver PROVE DataAt(r)'
  <2>1. toReceiver'[r] = <<>> /\ toSender'[r] = <<>> /\ ~ready'[r]
        /\ offers'[r] = {Orphaned(r, h) : h \in offers[r]}
    BY DEF SenderReload, ChannelsClosed
  <2>2. ASSUME NEW h \in offers[r] PROVE Orphaned(r, h).channel # "open"
    <3>1. h \in OfferHandler
      BY DataTypes
    <3> QED BY <3>1, ZenonT(60) DEF Orphaned, OfferHandler
  <2>3. Opened(r)' = {}
    BY <2>1, <2>2 DEF Opened
  <2> QED BY <2>1, <2>3, NothingSentData
<1>2. SingleTarget'
  BY DEF SenderReload, SingleTarget
<1> QED BY <1>1, <1>2 DEF DataInv

LEMMA ReceiverReloadData ==
  ASSUME TypeInv, DataInv, NEW r \in Receiver, ReceiverReload(r)
  PROVE  DataInv'
<1>1. /\ toReceiver' = [toReceiver EXCEPT ![r] = <<>>]
      /\ toSender' = [toSender EXCEPT ![r] = <<>>]
      /\ lost' = lost \cup (targets \cap {r})
      /\ UNCHANGED <<pc, todo, targets, offset, resumeAt>>
      /\ PageReloaded(r)
  BY DEF ReceiverReload
<1>2. DataAt(r)'
  <2>1. toReceiver'[r] = <<>> /\ toSender'[r] = <<>>
    BY <1>1, DataTypes
  <2>2. ~ready'[r] /\ offers'[r] = {}
    BY <1>1, DataTypes DEF PageReloaded
  <2> QED BY <2>1, <2>2, NothingSentData DEF Opened
<1>3. ASSUME NEW s \in Receiver, s # r PROVE DataAt(s)'
  <2>1. DataAt(s) /\ LoopKept(s)
    BY <1>1, <1>3, DataTypes DEF DataInv, LoopKept
  <2>2. PageKept(s)
    BY <1>1, <1>3, DataTypes DEF PageKept, PageReloaded
  <2>3. toReceiver'[s] = toReceiver[s] /\ toSender'[s] = toSender[s]
    BY <1>1, <1>3, DataTypes
  <2> QED BY <2>1, <2>2, <2>3, DataKept, BodyKept, AcceptsKept DEF DataAt
<1>4. SingleTarget'
  BY <1>1 DEF DataInv, SingleTarget
<1> QED BY <1>2, <1>3, <1>4 DEF DataInv

LEMMA StepData ==
  TimelyAccept /\ TypeInv /\ DataInv /\ [Next]_vars /\ [OneTarget]_vars /\ [LookupsInTurn]_vars
    => DataInv'
<1> SUFFICES ASSUME TimelyAccept, TypeInv, DataInv, [Next]_vars, [OneTarget]_vars,
                    [LookupsInTurn]_vars
             PROVE  DataInv'
  OBVIOUS
<1>1. CASE UNCHANGED vars
  BY <1>1, ElsewhereData DEF vars, channelVars
<1>2. CASE Next /\ OneTarget /\ LookupsInTurn
  <2>1. CASE SenderStep
    BY <1>2, <2>1, SenderStepData
  <2>2. ASSUME NEW r \in Receiver, ReceiverStep(r) PROVE DataInv'
    BY <1>2, <2>2, ReceiverStepData
  <2>3. ASSUME NEW r \in Receiver, OpfsStep(r) \/ Rejoin(r) PROVE DataInv'
    BY <2>3, ElsewhereData DEF OpfsStep, Rejoin, channelVars
  <2> QED BY <1>2, <2>1, <2>2, <2>3, SenderReloadData, ReceiverReloadData DEF Next
<1> QED BY <1>1, <1>2

LEMMA DataIsAligned ==
  ASSUME TypeInv, DataInv
  PROVE  Aligned
<1> SUFFICES ASSUME NEW r \in Receiver, ready[r], NEW i \in 1..Len(toReceiver[r]),
                    toReceiver[r][i].type = "CHUNK"
             PROVE  toReceiver[r][i].data =
                      [file |-> meta[r],
                       index |-> total[r] + Cardinality(ChunksBefore(toReceiver[r], i))]
  BY DEF Aligned
<1>1. DataAt(r) /\ toReceiver[r] \in Seq(DownMessage) /\ total[r] \in Nat
  BY DataTypes DEF DataInv
<1>2. meta[r] \in File
  BY <1>1 DEF DataAt, Counted
<1>3. PICK m : Run(toReceiver[r], meta[r], total[r], m)
  BY <1>1 DEF DataAt, Counted
<1> QED BY <1>1, <1>2, <1>3, RunAligned

\* A page that receives counts the chunks of the file its sender is sending, and counts
\* them as the sender does: every chunk on its way carries the file of fileMetadataRef and
\* the place that receivedTotalRef will have when it is taken, also when the transfer
\* resumes at a transfer record, across pauses, failed writes and reloads of either page.
\* It holds if the answer to an offer comes within RESUME_ACCEPT_WAIT_MS (a later one is
\* ignored, and the sender starts at 0), if a broadcast has one target (with several no
\* answer is awaited), and if no lookup that outlived its channel resolves amid another.
THEOREM ChunksAligned ==
  ASSUME TimelyAccept
  PROVE  Spec /\ [][OneTarget]_vars /\ [][LookupsInTurn]_vars => []Aligned
<1>1. Init => TypeInv /\ DataInv
  BY InitType, InitData
<1>2. /\ TypeInv /\ DataInv
      /\ [Next]_vars /\ [OneTarget]_vars /\ [LookupsInTurn]_vars
      => TypeInv' /\ DataInv'
  BY StepType, StepData
<1>3. TypeInv /\ DataInv => Aligned
  BY DataIsAligned
<1> QED BY <1>1, <1>2, <1>3, PTL DEF Spec
=============================================================================
