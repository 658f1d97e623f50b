--------------------------- MODULE FileDiskProofs ---------------------------
(***************************************************************************)
(* Why what a receiving page writes, records and hands over is the file    *)
(* that was sent, for every choice of the files and receivers:             *)
(* FileTransfer's DiskIsPrefix, RecordBacked and DeliveredIntact; and why, *)
(* when writes fail, the user is told: CorruptionReported.                 *)
(***************************************************************************)
EXTENDS FileTransferProofs

\* Between FILE_OFFER and TRANSFER_COMPLETE.
Sending == {"accept"} \cup Streaming

\* The rest of a file is still to come: its end is on the way, or the sender is at it.
Owed(r) ==
  \/ Has(toReceiver[r], {"TRANSFER_COMPLETE"})
  \/ ~Has(toReceiver[r], {"FILE_OFFER"}) /\ pc \in Sending /\ r \in targets \ lost

Receiving(r) == ready[r] /\ Owed(r)

-----------------------------------------------------------------------------
(* What is on its way to the page: the end of a file comes after its chunks, *)
(* to a page that receives this file, and chunks only come to such a page.   *)
ReadsInside == pc = "read" => offset < Size[Current]

EndIsLast(r) ==
  /\ Apart(toReceiver[r], {"TRANSFER_COMPLETE"}, {"TRANSFER_COMPLETE", "CHUNK"})
  /\ \A x \in ToSet(toReceiver[r]) : x.type = "TRANSFER_COMPLETE" =>
       /\ ready[r]
       /\ meta[r] = x.file
       /\ ~(pc \in Streaming /\ r \in targets \ lost)

ChunksWanted(r) ==
  \A x \in ToSet(toReceiver[r]) : x.type = "CHUNK" =>
    Receiving(r) /\ x.data.index < Size[x.data.file]

Answered(r) == pc \in Sending /\ r \in targets \ lost /\ ~Awaiting(r) => ready[r]

EndIsWhole(r) ==
  Has(toReceiver[r], {"TRANSFER_COMPLETE"}) =>
    \E m \in Nat : m >= Size[meta[r]] /\ Run(toReceiver[r], meta[r], total[r], m)

SentAt(r) == EndIsLast(r) /\ ChunksWanted(r) /\ Answered(r) /\ EndIsWhole(r)

-----------------------------------------------------------------------------
(* One access handle at a time: from the task that opens it to the one that  *)
(* closes it, and in between the file is being received.                     *)
Initing(r, f) == \E h \in offers[r] : h.stage = "init" /\ h.file = f

InitSuspended(r) == \E x \in suspended[r] : x.type = "INIT_FILE"

AllOpen(r) ==
  /\ \A h \in offers[r] \cup finishing[r] : h.channel = "open"
  /\ Has(fromWorker[r], {"ERROR"}) => MaxFaults > 0
  /\ r \notin OpfsReceiver => offers[r] = {} /\ handles[r] = {}

TasksInOrder(r) ==
  /\ Apart(toWorker[r], {"CLOSE_FILE"}, {"CLOSE_FILE", "WRITE_CHUNK"})
  /\ Apart(toWorker[r], {"INIT_FILE"}, {"INIT_FILE", "CLOSE_FILE", "WRITE_CHUNK"})
  /\ Apart(fromWorker[r], {"INIT_SUCCESS"}, {"INIT_SUCCESS"})

UsesHandle(r) ==
  \A x \in ToSet(toWorker[r]) : x.type \in {"CLOSE_FILE", "WRITE_CHUNK"} => x.file \in handles[r]

OpensHandle(r) ==
  /\ \A x \in ToSet(toWorker[r]) : x.type = "INIT_FILE" =>
       /\ Initing(r, x.file)
       /\ ~InitSuspended(r)
       /\ ~Has(fromWorker[r], {"INIT_SUCCESS"})
       /\ handles[r] = {} \/ Has(toWorker[r], {"CLOSE_FILE"})
  /\ \A x \in suspended[r] : x.type = "INIT_FILE" =>
       /\ Initing(r, x.file)
       /\ handles[r] = {}
       /\ ~Has(fromWorker[r], {"INIT_SUCCESS"})
  /\ \A x \in ToSet(fromWorker[r]) : x.type = "INIT_SUCCESS" =>
       /\ Initing(r, x.file)
       /\ x.file \in handles[r]
       /\ ~Has(toWorker[r], {"CLOSE_FILE", "WRITE_CHUNK"})

HandleForFile(r) ==
  /\ \A f, g \in handles[r] : f = g
  /\ handles[r] # {} =>
       \/ Has(toWorker[r], {"CLOSE_FILE"})
       \/ Has(fromWorker[r], {"INIT_SUCCESS"})
       \/ Receiving(r) /\ meta[r] \in handles[r]
  /\ Receiving(r) /\ r \in OpfsReceiver =>
       meta[r] \in handles[r] /\ ~Has(toWorker[r], {"CLOSE_FILE"})

ActiveFile(r) ==
  /\ ready[r] => active[r] \in {None, meta[r]}
  /\ \A h \in offers[r] : active[r] \in {None, h.file}

HandlesAt(r) ==
  /\ AllOpen(r)
  /\ TasksInOrder(r)
  /\ UsesHandle(r)
  /\ OpensHandle(r)
  /\ HandleForFile(r)
  /\ ActiveFile(r)

-----------------------------------------------------------------------------
(* The writes waiting in the worker continue what is on disk.                *)
WritesTo(f) == {x \in WorkerRequest : x.type = "WRITE_CHUNK" /\ x.file = f}
WriteOffset == [x \in WorkerRequest |-> x.offset]

\* The writes for f are those from n up to, and without, m, and leave no hole.
Continues(r, f, n, m) ==
  /\ Numbered(toWorker[r], WritesTo(f), WriteOffset, n, m)
  /\ n <= Len(disk[r][f])

\* The first k chunks are on disk or waiting to be written.
Backed(r, f, m, k) == k <= m \/ k <= Len(disk[r][f])

WritesRight(r) ==
  \A x \in ToSet(toWorker[r]) : x.type = "WRITE_CHUNK" =>
    /\ x.chunk = [file |-> x.file, index |-> x.offset]
    /\ x.offset < Size[x.file]

ClaimsBacked(r, f, m) ==
  /\ record[r][f] # None => Backed(r, f, m, record[r][f])
  /\ \A h \in offers[r] : h.stage = "init" /\ h.file = f => Backed(r, f, m, h.start)
  /\ Receiving(r) /\ r \in OpfsReceiver /\ meta[r] = f /\ active[r] = f => m = total[r]

WritesContinue(r) ==
  \A f \in File : \E n, m \in Nat : Continues(r, f, n, m) /\ ClaimsBacked(r, f, m)

PrefixOnDisk(r) ==
  \A f \in File :
    /\ Len(disk[r][f]) <= Size[f]
    /\ \A i \in 1..Len(disk[r][f]) : disk[r][f][i] = [file |-> f, index |-> i - 1]

WritesAt(r) == WritesRight(r) /\ WritesContinue(r) /\ PrefixOnDisk(r)

DiskInv == ReadsInside /\ \A r \in Receiver : SentAt(r) /\ HandlesAt(r) /\ WritesAt(r)

-----------------------------------------------------------------------------
(* What is handed over is complete, if a file is finished before the next.   *)
FinishedInTurn ==
  \A r \in Receiver : onOffer(r) \/ onOfferInMemory(r) => finishing[r] = {}

OneAtATime(r) ==
  /\ offers[r] # {} \/ Receiving(r) => finishing[r] = {}
  /\ Receiving(r) => active[r] = meta[r]
  /\ \A h \in offers[r] : active[r] = h.file

CloseIsWhole(r) ==
  \A x \in ToSet(toWorker[r]) : x.type = "CLOSE_FILE" =>
    \E n, m \in Nat : Continues(r, x.file, n, m) /\ m >= Size[x.file]

Closed(r, f) ==
  \/ \E x \in ToSet(fromWorker[r]) : x.type = "FILE_CLOSED" /\ x.file = f
  \/ \E x \in ToSet(toWorker[r]) \cup suspended[r] : x.type = "GET_FILE" /\ x.file = f

ClosedIsWhole(r) == \A f \in File : Closed(r, f) => Len(disk[r][f]) = Size[f]

ReadIsWhole(r) ==
  \A x \in ToSet(fromWorker[r]) : x.type = "FILE_READY" => x.data = Whole(x.file)

MemoryIsPrefix(r) ==
  Receiving(r) /\ r \notin OpfsReceiver =>
    /\ Len(memory[r]) = total[r]
    /\ total[r] <= Size[meta[r]]
    /\ \A i \in 1..total[r] : memory[r][i] = [file |-> meta[r], index |-> i - 1]

InTurn(r) == OneAtATime(r) /\ MemoryIsPrefix(r)

DownloadsWhole(r) == \A d \in delivered[r] : d.data = Whole(d.file)

\* What the worker's side of a reception promises, and what the page's side.
WorkIsWhole(r) == CloseIsWhole(r) /\ ClosedIsWhole(r) /\ ReadIsWhole(r)

PageIsWhole(r) == InTurn(r) /\ DownloadsWhole(r)

IntactInv == \A r \in Receiver : WorkIsWhole(r) /\ PageIsWhole(r)

-----------------------------------------------------------------------------
\* The runs that the theorems are about: every answer is in time, no write fails, the
\* sending page stays, and a receiving page is left with no write waiting.
Undisturbed ==
  TimelyAccept /\ DrainedReload /\ MaxFaults = 0 /\ MaxSenderReloads = 0

LEMMA DiskTypes ==
  ASSUME TypeInv, NEW r \in Receiver
  PROVE  /\ toWorker \in [Receiver -> Seq(WorkerRequest)] /\ toWorker[r] \in Seq(WorkerRequest)
         /\ fromWorker \in [Receiver -> Seq(WorkerReply)] /\ fromWorker[r] \in Seq(WorkerReply)
         /\ suspended \in [Receiver -> SUBSET Suspending] /\ suspended[r] \subseteq Suspending
         /\ handles \in [Receiver -> SUBSET File] /\ handles[r] \subseteq File
         /\ disk \in [Receiver -> [File -> Content]]
         /\ record \in [Receiver -> [File -> Nat \cup {None}]]
         /\ active \in [Receiver -> File \cup {None}] /\ active[r] \in File \cup {None}
         /\ finishing \in [Receiver -> SUBSET FinishHandler]
         /\ finishing[r] \subseteq FinishHandler
         /\ memory \in [Receiver -> Seq(Payload)]
         /\ delivered \in [Receiver -> SUBSET Download]
BY DEF TypeInv, TypeOK, WorkerTypeOK, ReceiverTypeOK

\* What a queue holds of chunks and of ends of files stays.
SameChunks(r) ==
  /\ Apart(toReceiver'[r], {"TRANSFER_COMPLETE"}, {"TRANSFER_COMPLETE", "CHUNK"})
  /\ \A x : x.type \in {"CHUNK", "TRANSFER_COMPLETE"} =>
       (x \in ToSet(toReceiver'[r]) <=> x \in ToSet(toReceiver[r]))
  /\ \A f, n, m : n \in Nat /\ Run(toReceiver[r], f, n, m) => Run(toReceiver'[r], f, n, m)

LEMMA ChunksKept ==
  ASSUME TypeInv, NEW r \in Receiver, EndIsLast(r),
         \/ toReceiver'[r] = toReceiver[r]
         \/ \E x \in DownMessage : /\ x.type \notin {"CHUNK", "TRANSFER_COMPLETE"}
                                   /\ toReceiver'[r] = Append(toReceiver[r], x)
         \/ /\ toReceiver[r] # <<>>
            /\ Head(toReceiver[r]).type \notin {"CHUNK", "TRANSFER_COMPLETE"}
            /\ toReceiver'[r] = Tail(toReceiver[r])
  PROVE  SameChunks(r)
<1>1. /\ toReceiver[r] \in Seq(DownMessage)
      /\ Apart(toReceiver[r], {"TRANSFER_COMPLETE"}, {"TRANSFER_COMPLETE", "CHUNK"})
  BY DataTypes DEF EndIsLast
<1>2. CASE toReceiver'[r] = toReceiver[r]
  BY <1>1, <1>2 DEF SameChunks
<1>3. ASSUME NEW x \in DownMessage, x.type \notin {"CHUNK", "TRANSFER_COMPLETE"},
             toReceiver'[r] = Append(toReceiver[r], x)
      PROVE  SameChunks(r)
  <2>1. toReceiver'[r] = toReceiver[r] \o <<x>>
    BY <1>1, <1>3
  <2>2. ToSet(toReceiver'[r]) = ToSet(toReceiver[r]) \cup {x}
    BY <1>1, <2>1, SetMore
  <2>3. Apart(toReceiver'[r], {"TRANSFER_COMPLETE"}, {"TRANSFER_COMPLETE", "CHUNK"})
    BY <1>1, <1>3, <2>1, ApartMore
  <2>4. \A f, n, m : n \in Nat /\ Run(toReceiver[r], f, n, m) => Run(toReceiver'[r], f, n, m)
    BY <1>1, <1>3, RunMore
  <2> QED BY <1>3, <2>2, <2>3, <2>4 DEF SameChunks
<1>4. ASSUME toReceiver[r] # <<>>, Head(toReceiver[r]).type \notin {"CHUNK", "TRANSFER_COMPLETE"},
             toReceiver'[r] = Tail(toReceiver[r])
      PROVE  SameChunks(r)
  <2>1. ToSet(toReceiver[r]) = {Head(toReceiver[r])} \cup ToSet(toReceiver'[r])
    BY <1>1, <1>4, SetTail
  <2>2. Apart(toReceiver'[r], {"TRANSFER_COMPLETE"}, {"TRANSFER_COMPLETE", "CHUNK"})
    BY <1>1, <1>4, ApartTail
  <2>3. \A f, n, m : n \in Nat /\ Run(toReceiver[r], f, n, m) => Run(toReceiver'[r], f, n, m)
    BY <1>1, <1>4, RunTail
  <2> QED BY <1>4, <2>1, <2>2, <2>3 DEF SameChunks
<1> QED BY <1>2, <1>3, <1>4

LEMMA SentKept ==
  ASSUME TypeInv, NEW r \in Receiver, SentAt(r), SameChunks(r),
         ready'[r] = ready[r], meta'[r] = meta[r], total'[r] = total[r],
         Receiving(r)' <=> Receiving(r), Answered(r)',
         ~(pc' \in Streaming /\ r \in targets' \ lost'
             /\ Has(toReceiver[r], {"TRANSFER_COMPLETE"}))
  PROVE  SentAt(r)'
<1>1. Has(toReceiver'[r], {"TRANSFER_COMPLETE"}) <=> Has(toReceiver[r], {"TRANSFER_COMPLETE"})
  BY DEF SameChunks, Has
<1>2. EndIsLast(r)'
  BY <1>1 DEF SentAt, EndIsLast, SameChunks, Has
<1>3. ChunksWanted(r)'
  BY DEF SentAt, ChunksWanted, SameChunks
<1>4. EndIsWhole(r)'
  BY <1>1, DataTypes DEF SentAt, EndIsWhole, SameChunks
<1> QED BY <1>2, <1>3, <1>4 DEF SentAt

ReceptionKept(r) == SentAt(r)' /\ (Receiving(r)' <=> Receiving(r))

\* The sender is at no file for r, before the step and after it, and sends r nothing.
LEMMA NotItsSender ==
  ASSUME TypeInv, NEW r \in Receiver, SentAt(r), OnlySender, toReceiver'[r] = toReceiver[r],
         pc \notin Sending \/ r \notin targets \ lost,
         pc' \notin Sending \/ r \notin targets' \ lost'
  PROVE  ReceptionKept(r)
<1>1. SameChunks(r)
  BY ChunksKept DEF SentAt
<1>2. UNCHANGED <<ready, meta, total>>
  BY SenderLeaves
<1>3. Receiving(r)' <=> Receiving(r)
  BY <1>2 DEF Receiving, Owed
<1>4. Answered(r)' /\ (pc' \in Streaming => r \notin targets' \ lost')
  BY DEF Answered, Sending
<1> QED BY <1>1, <1>2, <1>3, <1>4, SentKept DEF ReceptionKept

\* Pauses, resumes and backpressure concern neither chunks nor ends of files.
LEMMA NotForChunks ==
  ASSUME TypeInv, NEW r \in Receiver, DataAt(r), SentAt(r), LoopKept(r), PageKept(r),
         SameAccepts(r),
         \/ toReceiver'[r] = toReceiver[r]
         \/ \E x \in DownMessage : x.type \notin Body /\ toReceiver'[r] = Append(toReceiver[r], x)
         \/ /\ toReceiver[r] # <<>>
            /\ Head(toReceiver[r]).type \notin Body
            /\ toReceiver'[r] = Tail(toReceiver[r])
  PROVE  ReceptionKept(r)
<1>1. SameBody(r)
  BY BodyKept DEF DataAt
<1>2. SameChunks(r)
  BY ChunksKept DEF SentAt, Body
<1>3. /\ Has(toReceiver'[r], {"FILE_OFFER"}) <=> Has(toReceiver[r], {"FILE_OFFER"})
      /\ Has(toReceiver'[r], {"TRANSFER_COMPLETE"}) <=> Has(toReceiver[r], {"TRANSFER_COMPLETE"})
      /\ Has(toSender'[r], {"FILE_ACCEPT"}) <=> Has(toSender[r], {"FILE_ACCEPT"})
  BY <1>1 DEF SameBody, SameAccepts, Has, Body
<1>4. /\ pc' \in Sending <=> pc \in Sending
      /\ pc' \in Streaming <=> pc \in Streaming
  BY DEF LoopKept, Sending
<1>5. Receiving(r)' <=> Receiving(r)
  BY <1>3, <1>4 DEF Receiving, Owed, LoopKept, PageKept
<1>6. Answered(r)'
  <2>1. Awaiting(r)' <=> Awaiting(r)
    BY <1>3 DEF Awaiting, Opened, PageKept
  <2> QED BY <1>4, <2>1 DEF SentAt, Answered, LoopKept, PageKept
<1>7. ~(pc' \in Streaming /\ r \in targets' \ lost' /\ Has(toReceiver[r], {"TRANSFER_COMPLETE"}))
  BY <1>4 DEF SentAt, EndIsLast, LoopKept, Has
<1> QED BY <1>2, <1>5, <1>6, <1>7, SentKept DEF ReceptionKept, PageKept

-----------------------------------------------------------------------------
\* The steps of the sender, seen by one page.
SentEverywhere == \A r \in Receiver : SentAt(r)

LEMMA startSent ==
  ASSUME TypeInv, SentEverywhere, OnlySender, NEW r \in Receiver,
         broadcastFiles \/ (SingleTarget /\ pc # "idle" /\ \E m : SendThrows(m))
  PROVE  ReceptionKept(r)
<1>1. CASE broadcastFiles
  <2>1. pc = "idle" /\ pc' = "hash" /\ toReceiver' = toReceiver
    BY <1>1 DEF broadcastFiles, channelVars
  <2> QED BY <2>1, NotItsSender DEF SentEverywhere, Sending, Streaming
<1>2. ASSUME SingleTarget, pc # "idle", NEW m, SendThrows(m)
      PROVE  ReceptionKept(r)
  <2>1. toReceiver' = toReceiver
    BY <1>2, ThrownToNobody
  <2>2. PICK t \in Receiver : targets = {t}
    BY <1>2 DEF SingleTarget
  <2>3. targets \ lost = {} /\ pc' = "idle"
    BY <1>2, <2>2, DataTypes DEF SendThrows
  <2> QED BY <2>1, <2>3, NotItsSender DEF SentEverywhere, Sending, Streaming
<1> QED BY <1>1, <1>2

LEMMA offerFileSent ==
  ASSUME TypeInv, DataInv, SentEverywhere, OnlySender, offerFile, NEW r \in Receiver
  PROVE  ReceptionKept(r)
<1>1. pc = "hash" /\ pc # "idle" /\ toSender' = toSender
  BY DEF offerFile
<1>2. CASE SendThrows(Offer(Current))
  BY <1>1, <1>2, startSent DEF DataInv
<1>3. ASSUME SendToAll(IF userPaused THEN <<Offer(Current), Paused(Current)>>
                                     ELSE <<Offer(Current)>>),
             UNCHANGED <<todo, targets, lost>>,
             pc' = IF Cardinality(targets) = 1 THEN "accept" ELSE "loop"
      PROVE  ReceptionKept(r)
  <2>1. PICK t \in Receiver : targets = {t}
    BY <1>1 DEF DataInv, SingleTarget
  <2>2. pc' = "accept"
    BY <1>3, <2>1, FS_Singleton
  <2>3. CASE r # t
    <3>1. toReceiver'[r] = toReceiver[r]
      BY <1>3, <2>1, <2>3 DEF SendToAll
    <3> QED BY <1>3, <2>1, <2>3, <3>1, NotItsSender DEF SentEverywhere
  <2>4. CASE r = t
    <3>1. PICK x, y : x = Offer(Current) /\ y = Paused(Current)
      OBVIOUS
    <3>2. /\ x \in DownMessage /\ x.type = "FILE_OFFER"
          /\ y \in DownMessage /\ y.type = "TRANSFER_PAUSED"
          /\ toReceiver[r] \in Seq(DownMessage)
      BY <1>1, <3>1, DownMessages, DataTypes DEF Offer, Paused
    <3>3. PICK ms : ms = (IF userPaused THEN <<x, y>> ELSE <<x>>)
      OBVIOUS
    <3>4. ms \in Seq(DownMessage) /\ ms # <<>> /\ ToSet(ms) \subseteq {x, y} /\ x \in ToSet(ms)
      BY <3>2, <3>3 DEF ToSet
    <3>5. toReceiver'[r] = toReceiver[r] \o ms
      BY <1>3, <2>1, <2>4, <3>1, <3>3 DEF SendToAll
    <3>6. ToSet(toReceiver'[r]) = ToSet(toReceiver[r]) \cup ToSet(ms)
      BY <3>2, <3>4, <3>5, SetConcat
    <3>7. Apart(toReceiver'[r], {"TRANSFER_COMPLETE"}, {"TRANSFER_COMPLETE", "CHUNK"})
      <4>1. ~Has(ms, {"TRANSFER_COMPLETE", "CHUNK"}) /\ DOMAIN ms = 1..Len(ms)
        BY <3>2, <3>4 DEF Has
      <4>2. Apart(ms, {"TRANSFER_COMPLETE"}, {"TRANSFER_COMPLETE", "CHUNK"})
        BY <4>1, ApartWithout
      <4>3. Apart(toReceiver[r], {"TRANSFER_COMPLETE"}, {"TRANSFER_COMPLETE", "CHUNK"})
        BY DEF SentEverywhere, SentAt, EndIsLast
      <4> QED BY <3>2, <3>4, <3>5, <4>1, <4>2, <4>3, ApartConcat
    <3>8. ASSUME NEW f, NEW n \in Nat, NEW m, Run(toReceiver[r], f, n, m)
          PROVE  Run(toReceiver'[r], f, n, m)
      <4>1. Run(Append(toReceiver[r], x), f, n, m) /\ Append(toReceiver[r], x) \in Seq(DownMessage)
        BY <3>2, <3>8, RunMore
      <4>2. Run(Append(Append(toReceiver[r], x), y), f, n, m)
        BY <3>2, <4>1, RunMore
      <4>3. CASE userPaused
        <5>1. toReceiver'[r] = Append(Append(toReceiver[r], x), y)
          BY <3>2, <3>3, <3>5, <4>3
        <5> QED BY <4>2, <5>1
      <4>4. CASE ~userPaused
        <5>1. toReceiver'[r] = Append(toReceiver[r], x)
          BY <3>2, <3>3, <3>5, <4>4
        <5> QED BY <4>1, <5>1
      <4> QED BY <4>3, <4>4
    <3>9. SameChunks(r)
      BY <3>2, <3>4, <3>6, <3>7, <3>8 DEF SameChunks
    <3>10. Has(toReceiver'[r], {"FILE_OFFER"})
           /\ (Has(toReceiver'[r], {"TRANSFER_COMPLETE"})
                 <=> Has(toReceiver[r], {"TRANSFER_COMPLETE"}))
      BY <3>2, <3>4, <3>6 DEF Has
    <3>11. UNCHANGED <<ready, meta, total>>
      BY SenderLeaves
    <3>12. Receiving(r)' <=> Receiving(r)
      BY <1>1, <3>10, <3>11 DEF Receiving, Owed, Sending, Streaming
    <3>13. Answered(r)'
      BY <3>10 DEF Answered, Awaiting
    <3>14. pc' \notin Streaming
      BY <2>2 DEF Streaming
    <3> QED BY <3>9, <3>11, <3>12, <3>13, <3>14, SentKept DEF ReceptionKept, SentEverywhere
  <2> QED BY <2>3, <2>4
<1> QED BY <1>2, <1>3 DEF offerFile

LEMMA acceptWaitOverSent ==
  ASSUME TypeInv, DataInv, SentEverywhere, OnlySender, acceptWaitOver, InTime, TimelyAccept,
         NEW r \in Receiver
  PROVE  ReceptionKept(r)
<1>1. /\ pc = "accept" /\ pc' = "loop" /\ toReceiver' = toReceiver /\ toSender' = toSender
      /\ UNCHANGED <<todo, targets, lost>>
  BY DEF acceptWaitOver, channelVars
<1>2. UNCHANGED <<ready, meta, total, offers>> /\ SentAt(r) /\ DataAt(r)
  BY SenderLeaves DEF SentEverywhere, DataInv
<1>3. CASE r \notin targets \ lost
  BY <1>1, <1>2, <1>3, NotItsSender
<1>4. CASE r \in targets \ lost
  <2>1. ~Awaiting(r)
    <3>1. OfferSettled(r)
      BY <1>1, <1>4 DEF InTime
    <3> QED BY <3>1, SettledIsNotAwaited
  <2>2. ready[r] /\ Quiet(toReceiver[r])
    BY <1>1, <1>2, <1>4, <2>1 DEF SentAt, Answered, Sending, DataAt, SenderKnows
  <2>3. SameChunks(r)
    BY <1>1, <1>2, ChunksKept DEF SentAt
  <2>4. Receiving(r)' <=> Receiving(r)
    BY <1>1, <1>2 DEF Receiving, Owed, Sending, Streaming
  <2>5. Answered(r)' /\ ~Has(toReceiver[r], {"TRANSFER_COMPLETE"})
    BY <1>2, <2>2 DEF Answered, Quiet, Has, Body
  <2> QED BY <1>2, <2>3, <2>4, <2>5, SentKept DEF ReceptionKept
<1> QED BY <1>3, <1>4

\* While the sender streams to r the page is receiving, and no end is on its way.
LEMMA StreamsTo ==
  ASSUME NEW r \in Receiver, DataAt(r), SentAt(r), pc \in Streaming, r \in targets \ lost
  PROVE  /\ ~Awaiting(r) /\ ready[r] /\ Receiving(r)
         /\ ~Has(toReceiver[r], {"FILE_OFFER"})
         /\ ~Has(toReceiver[r], {"TRANSFER_COMPLETE"})
         /\ meta[r] = Current /\ Run(toReceiver[r], Current, total[r], offset)
<1>1. ~Awaiting(r)
  BY NothingAwaited DEF Streaming
<1>2. ready[r] /\ ~Has(toReceiver[r], {"FILE_OFFER"})
  BY <1>1 DEF SentAt, Answered, Sending, Awaiting
<1>3. ~Has(toReceiver[r], {"TRANSFER_COMPLETE"})
  BY DEF SentAt, EndIsLast, Has
<1>4. meta[r] = Current /\ Run(toReceiver[r], Current, total[r], offset)
  BY <1>2 DEF DataAt, LoopKnows
<1> QED BY <1>1, <1>2, <1>3, <1>4 DEF Receiving, Owed, Sending

LEMMA sendChunkSent ==
  ASSUME TypeInv, DataInv, SentEverywhere, ReadsInside, OnlySender, sendChunk, NEW r \in Receiver
  PROVE  ReceptionKept(r)
<1>1. pc = "read" /\ pc # "idle" /\ toSender' = toSender /\ SentAt(r) /\ DataAt(r)
      /\ UNCHANGED <<ready, meta, total, offers>>
  BY SenderLeaves DEF sendChunk, SentEverywhere, DataInv
<1>2. CASE SendThrows(Chunk(Current, offset))
  BY <1>1, <1>2, startSent DEF DataInv
<1>3. ASSUME SendToAll(<<Chunk(Current, offset)>>), pc' = "loop", UNCHANGED <<todo, targets, lost>>
      PROVE  ReceptionKept(r)
  <2>1. CASE r \notin targets
    <3>1. toReceiver'[r] = toReceiver[r]
      BY <1>3, <2>1 DEF SendToAll
    <3> QED BY <1>1, <1>3, <2>1, <3>1, NotItsSender
  <2>2. CASE r \in targets
    <3>1. PICK x : x = Chunk(Current, offset)
      OBVIOUS
    <3>2. /\ x \in DownMessage /\ x.type = "CHUNK"
          /\ x.data.file = Current /\ x.data.index = offset
          /\ toReceiver[r] \in Seq(DownMessage)
      BY <1>1, <3>1, DownMessages, DataTypes DEF Chunk
    <3>3. toReceiver'[r] = toReceiver[r] \o <<x>> /\ r \in targets \ lost
      BY <1>3, <2>2, <3>1 DEF SendToAll
    <3>4. ToSet(toReceiver'[r]) = ToSet(toReceiver[r]) \cup {x}
      BY <3>2, <3>3, SetMore
    <3>5. /\ ~Awaiting(r) /\ ready[r] /\ Receiving(r)
          /\ ~Has(toReceiver[r], {"FILE_OFFER"})
          /\ ~Has(toReceiver[r], {"TRANSFER_COMPLETE"})
      BY <1>1, <3>3, StreamsTo DEF Streaming
    <3>6. ~Has(toReceiver'[r], {"FILE_OFFER"}) /\ ~Has(toReceiver'[r], {"TRANSFER_COMPLETE"})
      BY <3>2, <3>4, <3>5 DEF Has
    <3>7. Receiving(r)'
      BY <1>1, <1>3, <3>3, <3>5, <3>6 DEF Receiving, Owed, Sending, Streaming
    <3>8. EndIsLast(r)'
      <4>1. Apart(toReceiver'[r], {"TRANSFER_COMPLETE"}, {"TRANSFER_COMPLETE", "CHUNK"})
        BY <1>1, <3>2, <3>3, <3>5, ApartMore DEF SentAt, EndIsLast
      <4> QED BY <3>6, <4>1 DEF EndIsLast, Has
    <3>9. ChunksWanted(r)'
      BY <1>1, <3>2, <3>4, <3>7 DEF SentAt, ChunksWanted, ReadsInside
    <3>10. Answered(r)' /\ EndIsWhole(r)'
      BY <1>1, <3>5, <3>6 DEF Answered, EndIsWhole
    <3> QED BY <3>5, <3>7, <3>8, <3>9, <3>10 DEF ReceptionKept, SentAt
  <2> QED BY <2>1, <2>2
<1> QED BY <1>2, <1>3 DEF sendChunk

LEMMA completeFileSent ==
  ASSUME TypeInv, DataInv, SentEverywhere, OnlySender, completeFile, NEW r \in Receiver
  PROVE  ReceptionKept(r)
<1>1. pc = "loop" /\ pc # "idle" /\ toSender' = toSender /\ SentAt(r) /\ DataAt(r)
      /\ UNCHANGED <<ready, meta, total, offers>> /\ Size[Current] <= offset /\ offset \in Nat
      /\ Current \in File
  BY SenderLeaves, DataTypes, SizeAssumption DEF completeFile, SentEverywhere, DataInv
<1>2. CASE SendThrows(Complete(Current))
  BY <1>1, <1>2, startSent DEF DataInv
<1>3. ASSUME SendToAll(<<Complete(Current)>>),
             pc' = IF Tail(todo) = <<>> THEN "idle" ELSE "hash"
      PROVE  ReceptionKept(r)
  <2>0. pc' \notin Sending
    BY <1>3 DEF Sending, Streaming
  <2>1. CASE r \notin targets
    <3>1. toReceiver'[r] = toReceiver[r]
      BY <1>3, <2>1 DEF SendToAll
    <3> QED BY <1>1, <2>0, <2>1, <3>1, NotItsSender
  <2>2. CASE r \in targets
    <3>1. PICK x : x = Complete(Current)
      OBVIOUS
    <3>2. /\ x \in DownMessage /\ x.type = "TRANSFER_COMPLETE" /\ x.file = Current
          /\ toReceiver[r] \in Seq(DownMessage) /\ total[r] \in Nat
      BY <1>1, <3>1, DownMessages, DataTypes DEF Complete
    <3>3. toReceiver'[r] = toReceiver[r] \o <<x>> /\ r \in targets \ lost
      BY <1>3, <2>2, <3>1 DEF SendToAll
    <3>4. ToSet(toReceiver'[r]) = ToSet(toReceiver[r]) \cup {x}
      BY <3>2, <3>3, SetMore
    <3>5. /\ ~Awaiting(r) /\ ready[r] /\ Receiving(r)
          /\ ~Has(toReceiver[r], {"TRANSFER_COMPLETE"})
          /\ meta[r] = Current /\ Run(toReceiver[r], Current, total[r], offset)
      BY <1>1, <3>3, StreamsTo DEF Streaming
    <3>6. Receiving(r)'
      BY <1>1, <3>2, <3>4, <3>5 DEF Receiving, Owed, Has
    <3>7. EndIsLast(r)'
      <4>1. Apart(toReceiver'[r], {"TRANSFER_COMPLETE"}, {"TRANSFER_COMPLETE", "CHUNK"})
        BY <1>1, <3>2, <3>3, <3>5, ApartMore DEF SentAt, EndIsLast
      <4>2. \A y \in ToSet(toReceiver'[r]) : y.type = "TRANSFER_COMPLETE" => y = x
        BY <3>4, <3>5 DEF Has
      <4> QED BY <1>1, <2>0, <3>2, <3>5, <4>1, <4>2 DEF EndIsLast, Sending
    <3>8. ChunksWanted(r)' /\ Answered(r)'
      BY <1>1, <3>2, <3>4, <3>5, <3>6 DEF SentAt, ChunksWanted, Answered
    <3>9. EndIsWhole(r)'
      <4>1. toReceiver'[r] = Append(toReceiver[r], x)
        BY <3>2, <3>3
      <4>2. Run(toReceiver'[r], Current, total[r], offset)
        BY <3>2, <3>5, <4>1, RunMore
      <4>3. meta'[r] = Current /\ total'[r] = total[r] /\ offset >= Size[Current]
        BY <1>1, <3>5, SizeAssumption
      <4> QED BY <1>1, <4>2, <4>3 DEF EndIsWhole
    <3> QED BY <3>5, <3>6, <3>7, <3>8, <3>9 DEF ReceptionKept, SentAt
  <2> QED BY <2>1, <2>2
<1> QED BY <1>2, <1>3 DEF completeFile

LEMMA waitingSent ==
  ASSUME TypeInv, DataInv, SentEverywhere, OnlySender, NEW r \in Receiver,
         \/ waitForUnblock \/ readSlice \/ pauseSend \/ resumeSend
         \/ \E s \in Receiver : onBackpressure(s) \/ closePeer(s)
  PROVE  ReceptionKept(r)
<1>1. /\ UNCHANGED <<todo, targets, lost, offset, resumeAt>>
      /\ pc' = pc \/ {pc, pc'} \subseteq Streaming
  BY DEF waitForUnblock, readSlice, pauseSend, resumeSend, onBackpressure, closePeer,
         channelVars, Notified, Streaming
<1>2. DataAt(r) /\ SentAt(r) /\ PageKept(r) /\ LoopKept(r)
  BY <1>1, SenderLeaves DEF DataInv, SentEverywhere, LoopKept
<1>3. \/ toReceiver'[r] = toReceiver[r]
      \/ \E x \in DownMessage : x.type \notin Body /\ toReceiver'[r] = Append(toReceiver[r], x)
  <2>1. CASE toReceiver' = toReceiver
    BY <2>1
  <2>2. CASE pauseSend \/ resumeSend
    <3>1. PICK x : x \in {Paused(activeSend), Resumed(activeSend)} /\ TellOpenChannels(x)
      BY <2>2 DEF pauseSend, resumeSend
    <3>2. activeSend \in File
      BY <2>2 DEF pauseSend, resumeSend, TypeInv, TypeOK, SenderTypeOK
    <3>3. x \in DownMessage
      BY <3>1, <3>2, DownMessages
    <3>4. x.type \in {"TRANSFER_PAUSED", "TRANSFER_RESUMED"}
      BY <3>1 DEF Paused, Resumed
    <3>5. x.type \notin Body
      BY <3>4 DEF Body
    <3> QED BY <3>1, <3>3, <3>5 DEF TellOpenChannels
  <2>3. toReceiver' = toReceiver \/ pauseSend \/ resumeSend
    BY DEF waitForUnblock, readSlice, onBackpressure, closePeer, channelVars
  <2> QED BY <2>1, <2>2, <2>3
<1>4. \/ toSender'[r] = toSender[r]
      \/ /\ toSender[r] # <<>>
         /\ Head(toSender[r]).type # "FILE_ACCEPT"
         /\ toSender'[r] = Tail(toSender[r])
  <2>1. ASSUME NEW s \in Receiver, onBackpressure(s)
        PROVE  \/ toSender'[r] = toSender[r]
               \/ /\ toSender[r] # <<>>
                  /\ Head(toSender[r]).type # "FILE_ACCEPT"
                  /\ toSender'[r] = Tail(toSender[r])
    BY <2>1, DataTypes DEF onBackpressure
  <2>2. toSender' = toSender \/ \E s \in Receiver : onBackpressure(s)
    BY DEF waitForUnblock, readSlice, pauseSend, resumeSend, closePeer, channelVars
  <2> QED BY <2>1, <2>2
<1>5. SameAccepts(r)
  BY <1>4, AcceptsKept
<1> QED BY <1>2, <1>3, <1>5, NotForChunks

LEMMA onAcceptSent ==
  ASSUME TypeInv, DataInv, SentEverywhere, OnlySender, NEW s \in Receiver, onAccept(s),
         NEW r \in Receiver
  PROVE  ReceptionKept(r)
<1>1. /\ UNCHANGED <<pc, targets, lost, toReceiver>>
      /\ toSender[s] # <<>> /\ Head(toSender[s]).type = "FILE_ACCEPT"
      /\ toSender' = [toSender EXCEPT ![s] = Tail(@)]
  BY DEF onAccept
<1>2. SentAt(r) /\ DataAt(r) /\ UNCHANGED <<ready, meta, total, offers>>
  BY SenderLeaves DEF SentEverywhere, DataInv
<1>3. SameChunks(r)
  BY <1>1, <1>2, ChunksKept DEF SentAt
<1>4. Receiving(r)' <=> Receiving(r)
  BY <1>1, <1>2 DEF Receiving, Owed
<1>5. Answered(r)'
  <2>1. CASE r = s
    <3>1. ToSet(toSender[r]) = {Head(toSender[r])} \cup ToSet(Tail(toSender[r]))
      BY <1>1, <2>1, DataTypes, SetTail
    <3>2. ready[r]
      BY <1>1, <1>2, <2>1, <3>1 DEF DataAt, AcceptKnows
    <3> QED BY <1>2, <3>2 DEF Answered
  <2>2. CASE r # s
    <3>1. toSender'[r] = toSender[r]
      BY <1>1, <2>2, DataTypes
    <3> QED BY <1>1, <1>2, <3>1 DEF SentAt, Answered, Awaiting, Opened
  <2> QED BY <2>1, <2>2
<1>6. ~(pc' \in Streaming /\ r \in targets' \ lost' /\ Has(toReceiver[r], {"TRANSFER_COMPLETE"}))
  BY <1>1, <1>2 DEF SentAt, EndIsLast, Has
<1> QED BY <1>2, <1>3, <1>4, <1>5, <1>6, SentKept DEF ReceptionKept

\* A slice is only read inside the file.
LEMMA ReadsKept ==
  ASSUME ReadsInside, SenderStep
  PROVE  ReadsInside'
<1>1. CASE readSlice
  BY <1>1 DEF readSlice, ReadsInside, Current
<1>2. CASE pauseSend \/ resumeSend \/ \E r \in Receiver : SenderHandler(r)
  BY <1>2 DEF pauseSend, resumeSend, SenderHandler, onAccept, onBackpressure, closePeer,
              ReadsInside, Current, Notified
<1>3. CASE broadcastFiles \/ offerFile \/ acceptWaitOver \/ waitForUnblock \/ sendChunk
             \/ completeFile
  <2>1. pc' # "read"
    BY <1>3 DEF broadcastFiles, offerFile, acceptWaitOver, waitForUnblock, sendChunk,
                completeFile, SendThrows
  <2> QED BY <2>1 DEF ReadsInside
<1> QED BY <1>1, <1>2, <1>3 DEF SenderStep, SenderNext, SenderLoop

LEMMA SenderStepSent ==
  ASSUME TypeInv, DataInv, SentEverywhere, ReadsInside, SenderStep, TimelyAccept,
         NEW r \in Receiver
  PROVE  ReceptionKept(r)
BY startSent, offerFileSent, acceptWaitOverSent, waitingSent, sendChunkSent, completeFileSent,
   onAcceptSent
   DEF SenderStep, SenderNext, SenderLoop, SenderHandler

-----------------------------------------------------------------------------
\* The steps of the page itself.
LEMMA PageAsked ==
  ASSUME TypeInv, NEW r \in Receiver, DataAt(r), AllOpen(r), NEW h \in offers[r]
  PROVE  /\ h \in OfferHandler /\ h.channel = "open"
         /\ offers[r] = {h} /\ h.file = Current
         /\ ~ready[r] /\ early[r] = <<>> /\ ~Receiving(r)
         /\ Quiet(toReceiver[r]) /\ ~Has(toSender[r], {"FILE_ACCEPT"})
         /\ pc = "accept" /\ r \in targets \ lost
         /\ h.stage = "init" => total[r] = h.start /\ meta[r] = h.file
<1>1. Opened(r) = offers[r] /\ h \in Opened(r) /\ h.channel = "open"
  BY DEF AllOpen, Opened
<1>2. Awaiting(r)
  BY <1>1 DEF Awaiting
<1> QED BY <1>1, <1>2, DataTypes DEF DataAt, HandlerKnows, SenderWaits, Receiving

LEMMA QuietSent ==
  ASSUME NEW r \in Receiver, toReceiver'[r] \in Seq(DownMessage), Quiet(toReceiver'[r]),
         Answered(r)'
  PROVE  SentAt(r)'
<1>1. ~Has(toReceiver'[r], {"TRANSFER_COMPLETE", "CHUNK"})
      /\ DOMAIN toReceiver'[r] = 1..Len(toReceiver'[r])
  BY DEF Quiet, Has, Body
<1>2. Apart(toReceiver'[r], {"TRANSFER_COMPLETE"}, {"TRANSFER_COMPLETE", "CHUNK"})
  BY <1>1, ApartWithout
<1> QED BY <1>1, <1>2 DEF SentAt, EndIsLast, ChunksWanted, EndIsWhole, Has

LEMMA onChunkSent ==
  ASSUME TypeInv, NEW r \in Receiver, ReceiverStep(r), DataAt(r), SentAt(r), onChunk(r)
  PROVE  /\ SentAt(r)' /\ Receiving(r) /\ Receiving(r)'
         /\ total'[r] = total[r] + 1 /\ total[r] < Size[meta[r]]
         /\ Head(toReceiver[r]).data = [file |-> meta[r], index |-> total[r]]
<1>1. NextMessage(r, "CHUNK") /\ TakeMessage(r) /\ UNCHANGED <<ready, meta, offers>>
  BY DEF onChunk
<1>2. /\ toReceiver[r] # <<>> /\ toReceiver[r] \in Seq(DownMessage)
      /\ toReceiver'[r] = Tail(toReceiver[r])
      /\ Head(toReceiver[r]).type = "CHUNK"
      /\ Head(toReceiver[r]) \in ToSet(toReceiver[r])
      /\ ToSet(toReceiver'[r]) \subseteq ToSet(toReceiver[r])
  BY <1>1, Taken
<1>3. Receiving(r) /\ ready[r] /\ Head(toReceiver[r]).data.index < Size[Head(toReceiver[r]).data.file]
  BY <1>2 DEF SentAt, ChunksWanted, Receiving
<1>4. total'[r] = total[r] + 1 /\ total[r] \in Nat
  <2>1. PICK cs : cs = <<Head(toReceiver[r]).data>>
    OBVIOUS
  <2>2. Len(cs) = 1 /\ StoreChunks(r, cs)
    BY <1>3, <2>1 DEF onChunk
  <2> QED BY <2>2, DataTypes DEF StoreChunks
<1>5. PICK m \in Nat : Run(toReceiver[r], meta[r], total[r], m)
  BY <1>3 DEF DataAt, Counted
<1>6. Head(toReceiver[r]).data = [file |-> meta[r], index |-> total[r]]
  BY <1>2, <1>4, <1>5, RunTail
<1>7. total[r] < Size[meta[r]]
  BY <1>3, <1>6
<1>8. /\ Has(toReceiver'[r], {"TRANSFER_COMPLETE"}) <=> Has(toReceiver[r], {"TRANSFER_COMPLETE"})
      /\ Has(toReceiver'[r], {"FILE_OFFER"}) <=> Has(toReceiver[r], {"FILE_OFFER"})
  BY <1>2, SetTail DEF Has
<1>9. Receiving(r)'
  BY <1>1, <1>3, <1>8, StepLeaves DEF Receiving, Owed
<1>10. EndIsLast(r)' /\ ChunksWanted(r)' /\ Answered(r)'
  <2>1. Apart(toReceiver'[r], {"TRANSFER_COMPLETE"}, {"TRANSFER_COMPLETE", "CHUNK"})
    BY <1>2, ApartTail DEF SentAt, EndIsLast
  <2> QED BY <1>1, <1>2, <1>3, <1>9, <2>1, StepLeaves
          DEF SentAt, EndIsLast, ChunksWanted, Answered
<1>11. EndIsWhole(r)'
  <2>1. \A f, k : Run(toReceiver[r], f, total[r], k) => Run(toReceiver'[r], f, total'[r], k)
    BY <1>2, <1>4, RunTail
  <2> QED BY <1>1, <1>8, <2>1 DEF SentAt, EndIsWhole
<1> QED BY <1>3, <1>4, <1>6, <1>7, <1>9, <1>10, <1>11 DEF SentAt

LEMMA onCompleteSent ==
  ASSUME TypeInv, NEW r \in Receiver, ReceiverStep(r), DataAt(r), SentAt(r), onComplete(r)
  PROVE  /\ SentAt(r)' /\ Receiving(r) /\ ~Receiving(r)' /\ Opened(r) = {}
         /\ Head(toReceiver[r]).file = meta[r] /\ Size[meta[r]] <= total[r]
         /\ meta[r] \in File
<1>1. /\ NextMessage(r, "TRANSFER_COMPLETE") /\ TakeMessage(r)
      /\ UNCHANGED <<ready, meta, offers, total, toSender>>
  BY DEF onComplete
<1>2. /\ toReceiver[r] # <<>> /\ toReceiver[r] \in Seq(DownMessage)
      /\ toReceiver'[r] = Tail(toReceiver[r]) /\ toReceiver'[r] \in Seq(DownMessage)
      /\ Head(toReceiver[r]).type = "TRANSFER_COMPLETE"
      /\ Head(toReceiver[r]) \in ToSet(toReceiver[r])
  BY <1>1, Taken
<1>3. /\ ready[r] /\ Head(toReceiver[r]).file = meta[r]
      /\ ~(pc \in Streaming /\ r \in targets \ lost)
      /\ Apart(toReceiver[r], {"TRANSFER_COMPLETE"}, {"TRANSFER_COMPLETE", "CHUNK"})
  BY <1>2 DEF SentAt, EndIsLast
<1>4. Receiving(r) /\ ~Quiet(toReceiver[r])
  BY <1>2, <1>3 DEF Receiving, Owed, Has, Quiet, Body
<1>5. Opened(r) = {} /\ ~Has(toSender[r], {"FILE_ACCEPT"})
  BY <1>4 DEF DataAt, HandlerKnows, AcceptKnows, Has
<1>6. ~Has(toReceiver'[r], {"TRANSFER_COMPLETE", "CHUNK"})
  BY <1>2, <1>3, ApartTail
<1>7. ~Receiving(r)'
  <2>1. SUFFICES ASSUME ~Has(toReceiver'[r], {"FILE_OFFER"}), pc \in Sending, r \in targets \ lost
                 PROVE  FALSE
    BY <1>6, StepLeaves DEF Receiving, Owed, Has
  <2>2. pc = "accept"
    BY <1>3, <2>1 DEF Sending
  <2>3. ~Has(toReceiver[r], {"FILE_OFFER"})
    BY <1>2, <2>1, SetTail DEF Has
  <2>4. ~Awaiting(r)
    BY <1>5, <2>3 DEF Awaiting
  <2> QED BY <1>4, <2>1, <2>2, <2>4 DEF DataAt, SenderKnows
<1>8. SentAt(r)'
  <2>1. Apart(toReceiver'[r], {"TRANSFER_COMPLETE"}, {"TRANSFER_COMPLETE", "CHUNK"})
    BY <1>2, <1>3, ApartTail
  <2> QED BY <1>1, <1>3, <1>6, <2>1
          DEF SentAt, EndIsLast, ChunksWanted, EndIsWhole, Answered, Has
<1>9. Size[meta[r]] <= total[r] /\ meta[r] \in File
  <2>1. PICK m \in Nat : m >= Size[meta[r]] /\ Run(toReceiver[r], meta[r], total[r], m)
    BY <1>2 DEF SentAt, EndIsWhole, Has
  <2>2. Run(toReceiver'[r], meta[r], total[r], m) /\ total[r] \in Nat
    BY <1>2, <2>1, DataTypes, RunTail
  <2>3. \A x \in ToSet(toReceiver'[r]) : x \notin Chunks
    BY <1>6 DEF Has, Chunks
  <2>4. m = total[r]
    <3>1. Numbered(toReceiver'[r], Chunks, ChunkIndex, total[r], m)
      BY <2>2 DEF Run
    <3> QED BY <1>2, <2>2, <2>3, <3>1, NumberedBounds
  <2>5. meta[r] \in File /\ Size[meta[r]] \in Nat
    BY <1>3, SizeAssumption DEF DataAt, Counted
  <2> QED BY <2>1, <2>2, <2>4, <2>5
<1> QED BY <1>3, <1>4, <1>5, <1>7, <1>8, <1>9

LEMMA onOfferSent ==
  ASSUME TypeInv, NEW r \in Receiver, ReceiverStep(r), DataAt(r), AllOpen(r),
         onOffer(r) \/ onOfferInMemory(r)
  PROVE  /\ SentAt(r)' /\ ~Receiving(r) /\ offers[r] = {}
         /\ Receiving(r)' <=> onOfferInMemory(r)
<1>1. NextMessage(r, "FILE_OFFER") /\ TakeMessage(r)
  BY DEF onOffer, onOfferInMemory
<1>2. /\ pc = "accept" /\ r \in targets \ lost
      /\ Opened(r) = {} /\ toReceiver'[r] \in Seq(DownMessage)
      /\ Quiet(toReceiver'[r])
  BY <1>1, OfferTaken
<1>3. offers[r] = {}
  BY <1>2 DEF AllOpen, Opened
<1>4. /\ toReceiver[r] # <<>> /\ toReceiver[r] \in Seq(DownMessage)
      /\ toReceiver'[r] = Tail(toReceiver[r])
      /\ Head(toReceiver[r]).type = "FILE_OFFER"
      /\ Head(toReceiver[r]) \in ToSet(toReceiver[r])
  BY <1>1, Taken
<1>5. ~Has(toReceiver[r], {"TRANSFER_COMPLETE"})
  BY <1>2, <1>4, SetTail DEF Has, Quiet, Body
<1>6. ~Receiving(r)
  BY <1>4, <1>5 DEF Receiving, Owed, Has
<1>7. CASE onOffer(r)
  <2>1. ~ready'[r] /\ r \in OpfsReceiver
    BY <1>7, DataTypes DEF onOffer
  <2>2. PICK h : h.channel = "open" /\ offers' = [offers EXCEPT ![r] = @ \cup {h}]
    BY <1>7 DEF onOffer
  <2>3. h \in Opened(r)'
    BY <2>2, DataTypes DEF Opened
  <2>4. Answered(r)' /\ ~Receiving(r)'
    BY <2>1, <2>3 DEF Answered, Awaiting, Receiving
  <2> QED BY <1>2, <1>3, <1>6, <2>1, <2>4, QuietSent DEF onOfferInMemory
<1>8. CASE onOfferInMemory(r)
  <2>1. ready'[r]
    BY <1>8, DataTypes DEF onOfferInMemory
  <2>2. ~Has(toReceiver'[r], {"FILE_OFFER"})
    BY <1>2 DEF Quiet, Has, Body
  <2>3. Answered(r)' /\ Receiving(r)'
    BY <1>2, <2>1, <2>2, StepLeaves DEF Answered, Receiving, Owed, Sending
  <2> QED BY <1>2, <1>3, <1>6, <1>8, <2>3, QuietSent
<1> QED BY <1>7, <1>8

LEMMA recordFoundSent ==
  ASSUME TypeInv, NEW r \in Receiver, ReceiverStep(r), DataAt(r), AllOpen(r),
         NEW h \in offers[r], recordFound(r, h)
  PROVE  SentAt(r)' /\ ~Receiving(r) /\ ~Receiving(r)'
<1>1. /\ h \in OfferHandler /\ h.channel = "open" /\ ~ready[r] /\ ~Receiving(r)
      /\ Quiet(toReceiver[r])
  BY PageAsked
<1>2. UNCHANGED <<toReceiver, ready>>
  BY DEF recordFound, channelVars
<1>3. PICK start, g : start = StartOffset(r, h.file)
                      /\ g = [h EXCEPT !.stage = "init", !.start = start]
  OBVIOUS
<1>4. offers'[r] = (offers[r] \ {h}) \cup {g}
  BY <1>3, DataTypes DEF recordFound
<1>5. g.channel = "open"
  BY <1>1, <1>3 DEF OfferHandler
<1>6. Awaiting(r)'
  BY <1>4, <1>5 DEF Awaiting, Opened
<1>7. Answered(r)' /\ ~Receiving(r)'
  BY <1>1, <1>2, <1>6 DEF Answered, Receiving
<1> QED BY <1>1, <1>2, <1>7, DataTypes, QuietSent

LEMMA fileInitialisedSent ==
  ASSUME TypeInv, NEW r \in Receiver, ReceiverStep(r), DataAt(r), AllOpen(r), fileInitialised(r)
  PROVE  SentAt(r)' /\ ~Receiving(r) /\ Receiving(r)' /\ offers'[r] = {}
<1>1. PICK h \in offers[r] : /\ offers' = [offers EXCEPT ![r] = @ \ {h}]
                             /\ h.channel = "open" => ready' = [ready EXCEPT ![r] = TRUE]
  BY DEF fileInitialised, OffersAt
<1>2. /\ h.channel = "open" /\ offers[r] = {h} /\ ~Receiving(r) /\ Quiet(toReceiver[r])
      /\ pc = "accept" /\ r \in targets \ lost
  BY PageAsked
<1>3. ready'[r] /\ offers'[r] = {} /\ toReceiver' = toReceiver
  BY <1>1, <1>2, DataTypes DEF fileInitialised
<1>4. ~Has(toReceiver[r], {"FILE_OFFER"})
  BY <1>2 DEF Quiet, Has, Body
<1>5. Answered(r)' /\ Receiving(r)'
  BY <1>2, <1>3, <1>4, StepLeaves DEF Answered, Receiving, Owed, Sending
<1> QED BY <1>2, <1>3, <1>5, DataTypes, QuietSent

-----------------------------------------------------------------------------
\* The worker's queue changes in requests to read only, if at all.
SameWork(r) ==
  /\ Apart(toWorker'[r], {"CLOSE_FILE"}, {"CLOSE_FILE", "WRITE_CHUNK"})
  /\ Apart(toWorker'[r], {"INIT_FILE"}, {"INIT_FILE", "CLOSE_FILE", "WRITE_CHUNK"})
  /\ \A x : x.type \in {"INIT_FILE", "CLOSE_FILE", "WRITE_CHUNK"} =>
       (x \in ToSet(toWorker'[r]) <=> x \in ToSet(toWorker[r]))

SameSuccess(r) ==
  /\ Apart(fromWorker'[r], {"INIT_SUCCESS"}, {"INIT_SUCCESS"})
  /\ \A x : x.type = "INIT_SUCCESS" =>
       (x \in ToSet(fromWorker'[r]) <=> x \in ToSet(fromWorker[r]))
  /\ Has(fromWorker'[r], {"ERROR"}) => MaxFaults > 0 \/ Has(fromWorker[r], {"ERROR"})

LEMMA WorkKept ==
  ASSUME TypeInv, NEW r \in Receiver, TasksInOrder(r),
         \/ toWorker'[r] = toWorker[r]
         \/ \E x \in WorkerRequest : /\ x.type = "GET_FILE"
                                     /\ toWorker'[r] = Append(toWorker[r], x)
         \/ /\ toWorker[r] # <<>> /\ Head(toWorker[r]).type = "GET_FILE"
            /\ toWorker'[r] = Tail(toWorker[r])
  PROVE  SameWork(r)
<1>1. /\ toWorker[r] \in Seq(WorkerRequest)
      /\ Apart(toWorker[r], {"CLOSE_FILE"}, {"CLOSE_FILE", "WRITE_CHUNK"})
      /\ Apart(toWorker[r], {"INIT_FILE"}, {"INIT_FILE", "CLOSE_FILE", "WRITE_CHUNK"})
  BY DiskTypes DEF TasksInOrder
<1>2. CASE toWorker'[r] = toWorker[r]
  BY <1>1, <1>2 DEF SameWork
<1>3. ASSUME NEW x \in WorkerRequest, x.type = "GET_FILE", toWorker'[r] = Append(toWorker[r], x)
      PROVE  SameWork(r)
  <2>1. toWorker'[r] = toWorker[r] \o <<x>>
    BY <1>1, <1>3
  <2>2. ToSet(toWorker'[r]) = ToSet(toWorker[r]) \cup {x}
    BY <1>1, <2>1, SetMore
  <2>3. /\ Apart(toWorker'[r], {"CLOSE_FILE"}, {"CLOSE_FILE", "WRITE_CHUNK"})
        /\ Apart(toWorker'[r], {"INIT_FILE"}, {"INIT_FILE", "CLOSE_FILE", "WRITE_CHUNK"})
    BY <1>1, <1>3, <2>1, ApartMore
  <2> QED BY <1>3, <2>2, <2>3 DEF SameWork
<1>4. ASSUME toWorker[r] # <<>>, Head(toWorker[r]).type = "GET_FILE",
             toWorker'[r] = Tail(toWorker[r])
      PROVE  SameWork(r)
  <2>1. ToSet(toWorker[r]) = {Head(toWorker[r])} \cup ToSet(toWorker'[r])
    BY <1>1, <1>4, SetTail
  <2>2. /\ Apart(toWorker'[r], {"CLOSE_FILE"}, {"CLOSE_FILE", "WRITE_CHUNK"})
        /\ Apart(toWorker'[r], {"INIT_FILE"}, {"INIT_FILE", "CLOSE_FILE", "WRITE_CHUNK"})
    BY <1>1, <1>4, ApartTail
  <2> QED BY <1>4, <2>1, <2>2 DEF SameWork
<1> QED BY <1>2, <1>3, <1>4

LEMMA SuccessKept ==
  ASSUME TypeInv, NEW r \in Receiver, TasksInOrder(r),
         \/ fromWorker'[r] = fromWorker[r]
         \/ \E x \in WorkerReply : /\ x.type # "INIT_SUCCESS"
                                   /\ x.type = "ERROR" => MaxFaults > 0
                                   /\ fromWorker'[r] = Append(fromWorker[r], x)
         \/ /\ fromWorker[r] # <<>> /\ Head(fromWorker[r]).type # "INIT_SUCCESS"
            /\ fromWorker'[r] = Tail(fromWorker[r])
  PROVE  SameSuccess(r)
<1>1. /\ fromWorker[r] \in Seq(WorkerReply)
      /\ Apart(fromWorker[r], {"INIT_SUCCESS"}, {"INIT_SUCCESS"})
  BY DiskTypes DEF TasksInOrder
<1>2. CASE fromWorker'[r] = fromWorker[r]
  BY <1>1, <1>2 DEF SameSuccess
<1>3. ASSUME NEW x \in WorkerReply, x.type # "INIT_SUCCESS", x.type = "ERROR" => MaxFaults > 0,
             fromWorker'[r] = Append(fromWorker[r], x)
      PROVE  SameSuccess(r)
  <2>1. fromWorker'[r] = fromWorker[r] \o <<x>>
    BY <1>1, <1>3
  <2>2. ToSet(fromWorker'[r]) = ToSet(fromWorker[r]) \cup {x}
    BY <1>1, <2>1, SetMore
  <2>3. Apart(fromWorker'[r], {"INIT_SUCCESS"}, {"INIT_SUCCESS"})
    BY <1>1, <1>3, <2>1, ApartMore
  <2>4. Has(fromWorker'[r], {"ERROR"}) => MaxFaults > 0 \/ Has(fromWorker[r], {"ERROR"})
    BY <1>3, <2>2 DEF Has
  <2> QED BY <1>3, <2>2, <2>3, <2>4 DEF SameSuccess
<1>4. ASSUME fromWorker[r] # <<>>, Head(fromWorker[r]).type # "INIT_SUCCESS",
             fromWorker'[r] = Tail(fromWorker[r])
      PROVE  SameSuccess(r)
  <2>1. ToSet(fromWorker[r]) = {Head(fromWorker[r])} \cup ToSet(fromWorker'[r])
    BY <1>1, <1>4, SetTail
  <2>2. Apart(fromWorker'[r], {"INIT_SUCCESS"}, {"INIT_SUCCESS"})
    BY <1>1, <1>4, ApartTail
  <2> QED BY <1>4, <2>1, <2>2 DEF SameSuccess, Has
<1> QED BY <1>2, <1>3, <1>4

\* The same requests, handles and handlers, and the same file under reception.
LEMMA HandlesKept ==
  ASSUME NEW r \in Receiver, HandlesAt(r), SameWork(r), SameSuccess(r),
         handles'[r] = handles[r], offers'[r] = offers[r],
         \A h \in finishing'[r] : h.channel = "open",
         \A x : x.type = "INIT_FILE" => (x \in suspended'[r] <=> x \in suspended[r]),
         ready'[r] = ready[r], meta'[r] = meta[r], active'[r] \in {active[r], None},
         Receiving(r)' <=> Receiving(r)
  PROVE  HandlesAt(r)'
<1>1. /\ \A T : T \subseteq {"CLOSE_FILE", "WRITE_CHUNK", "INIT_FILE"} =>
           (Has(toWorker'[r], T) <=> Has(toWorker[r], T))
      /\ Has(fromWorker'[r], {"INIT_SUCCESS"}) <=> Has(fromWorker[r], {"INIT_SUCCESS"})
  BY DEF SameWork, SameSuccess, Has
<1>2. /\ Has(toWorker'[r], {"CLOSE_FILE"}) <=> Has(toWorker[r], {"CLOSE_FILE"})
      /\ Has(toWorker'[r], {"CLOSE_FILE", "WRITE_CHUNK"})
           <=> Has(toWorker[r], {"CLOSE_FILE", "WRITE_CHUNK"})
      /\ Has(fromWorker'[r], {"INIT_SUCCESS"}) <=> Has(fromWorker[r], {"INIT_SUCCESS"})
  BY <1>1
<1>3. /\ InitSuspended(r)' <=> InitSuspended(r)
      /\ \A f : Initing(r, f)' <=> Initing(r, f)
  BY DEF InitSuspended, Initing
<1>4. AllOpen(r)' /\ TasksInOrder(r)' /\ UsesHandle(r)'
  BY <1>2 DEF HandlesAt, AllOpen, TasksInOrder, UsesHandle, SameWork, SameSuccess
<1>5. OpensHandle(r)'
  <2>1. OpensHandle(r)
    BY DEF HandlesAt
  <2>2. \A x \in ToSet(toWorker'[r]) : x.type = "INIT_FILE" => x \in ToSet(toWorker[r])
    BY DEF SameWork
  <2>3. \A x \in ToSet(fromWorker'[r]) : x.type = "INIT_SUCCESS" => x \in ToSet(fromWorker[r])
    BY DEF SameSuccess
  <2> QED BY <1>2, <1>3, <2>1, <2>2, <2>3 DEF OpensHandle
<1>6. HandleForFile(r)' /\ ActiveFile(r)'
  BY <1>2 DEF HandlesAt, HandleForFile, ActiveFile
<1> QED BY <1>4, <1>5, <1>6 DEF HandlesAt

-----------------------------------------------------------------------------
\* The handlers that concern neither chunks nor offers, nor the access handle.
LEMMA AsideSent ==
  ASSUME TypeInv, NEW r \in Receiver, DataAt(r), SentAt(r), ReceiverStep(r), Aside(r)
  PROVE  ReceptionKept(r)
BY AsideLeaves, NotForChunks

\* What the handlers after a file's end are left with.
LEMMA FinishingOpen ==
  ASSUME TypeInv, NEW r \in Receiver, \A h \in finishing[r] : h.channel = "open",
         NEW type, NEW from, NEW to, NextReply(r, type),
         \E h \in FinishingAt(r, ReplyFile(r), {from}) :
           finishing' = [finishing EXCEPT ![r] = (@ \ {h}) \cup {[h EXCEPT !.stage = to]}]
  PROVE  \A h \in finishing'[r] : h.channel = "open"
<1>1. PICK h \in finishing[r] :
        finishing' = [finishing EXCEPT ![r] = (@ \ {h}) \cup {[h EXCEPT !.stage = to]}]
  BY DEF FinishingAt
<1>2. h \in FinishHandler /\ h.channel = "open"
  BY DiskTypes
<1>3. [h EXCEPT !.stage = to].channel = "open"
  BY <1>2 DEF FinishHandler
<1>4. finishing'[r] = (finishing[r] \ {h}) \cup {[h EXCEPT !.stage = to]}
  BY <1>1, DiskTypes
<1> QED BY <1>3, <1>4

LEMMA TakenReply ==
  ASSUME TypeInv, NEW r \in Receiver, NEW type, NextReply(r, type), TakeReply(r)
  PROVE  /\ fromWorker[r] # <<>> /\ fromWorker[r] \in Seq(WorkerReply)
         /\ fromWorker'[r] = Tail(fromWorker[r])
         /\ Head(fromWorker[r]) \in WorkerReply /\ Head(fromWorker[r]).type = type
         /\ Head(fromWorker[r]) \in ToSet(fromWorker[r])
         /\ ReplyFile(r) \in File
<1>1. fromWorker[r] # <<>> /\ fromWorker[r] \in Seq(WorkerReply)
      /\ fromWorker \in [Receiver -> Seq(WorkerReply)]
  BY DiskTypes DEF NextReply
<1>2. Head(fromWorker[r]) \in WorkerReply /\ Head(fromWorker[r]) \in ToSet(fromWorker[r])
  BY <1>1, HeadTail, SetTail
<1> QED BY <1>1, <1>2 DEF NextReply, TakeReply, ReplyFile, WorkerReply

LEMMA AsideHandles ==
  ASSUME TypeInv, NEW r \in Receiver, DataAt(r), SentAt(r), HandlesAt(r), ReceiverStep(r), Aside(r)
  PROVE  HandlesAt(r)'
<1> USE DEF Aside
<1>1. /\ Receiving(r)' <=> Receiving(r)
      /\ ready'[r] = ready[r] /\ meta'[r] = meta[r] /\ offers'[r] = offers[r]
  BY AsideSent, AsideLeaves DEF ReceptionKept, PageKept
<1>2. handles'[r] = handles[r] /\ suspended'[r] = suspended[r]
  BY DEF fileClosed, fileReady, recordDeleted, chunkWritten, replyDropped, onPauseSignal,
         workerVars
<1>3. active'[r] \in {active[r], None}
  <2>1. ASSUME NEW h \in finishing[r], recordDeleted(r, h) PROVE active'[r] \in {active[r], None}
    BY <2>1, DiskTypes DEF recordDeleted, EndOfFile
  <2>2. active' = active \/ \E h \in finishing[r] : recordDeleted(r, h)
    BY DEF fileClosed, fileReady, chunkWritten, replyDropped, onPauseSignal, receiverVars
  <2> QED BY <2>1, <2>2
<1>4. AllOpen(r) /\ TasksInOrder(r) /\ OpensHandle(r)
  BY DEF HandlesAt
<1>5. \A h \in finishing'[r] : h.channel = "open"
  <2>1. \A h \in finishing[r] : h.channel = "open"
    BY <1>4 DEF AllOpen
  <2>2. CASE fileClosed(r)
    BY <2>1, <2>2, FinishingOpen DEF fileClosed
  <2>3. CASE fileReady(r)
    BY <2>1, <2>3, FinishingOpen DEF fileReady
  <2>4. CASE finishing'[r] \subseteq finishing[r]
    BY <2>1, <2>4
  <2>5. ASSUME NEW h \in finishing[r], recordDeleted(r, h)
        PROVE  finishing'[r] \subseteq finishing[r]
    BY <2>5, DiskTypes DEF recordDeleted, EndOfFile
  <2>6. \/ fileClosed(r) \/ fileReady(r) \/ finishing' = finishing
        \/ \E h \in finishing[r] : recordDeleted(r, h)
    BY DEF chunkWritten, replyDropped, onPauseSignal, receiverVars
  <2> QED BY <2>2, <2>3, <2>4, <2>5, <2>6
<1>6. SameWork(r)
  <2>1. CASE fileClosed(r)
    <3>1. PICK x : x = GetFile(ReplyFile(r))
      OBVIOUS
    <3>2. ReplyFile(r) \in File
      BY <2>1, TakenReply DEF fileClosed
    <3>3. x \in WorkerRequest /\ x.type = "GET_FILE"
      BY <3>1, <3>2 DEF GetFile, WorkerRequest, Suspending
    <3>4. toWorker'[r] = Append(toWorker[r], x)
      BY <2>1, <3>1, DiskTypes DEF fileClosed
    <3> QED BY <1>4, <3>3, <3>4, WorkKept
  <2>2. CASE toWorker' = toWorker
    BY <1>4, <2>2, WorkKept
  <2>3. fileClosed(r) \/ toWorker' = toWorker
    BY DEF fileReady, recordDeleted, chunkWritten, replyDropped, onPauseSignal, workerVars
  <2> QED BY <2>1, <2>2, <2>3
<1>7. SameSuccess(r)
  <2>1. CASE fromWorker' = fromWorker
    BY <1>4, <2>1, SuccessKept
  <2>2. ASSUME NEW type \in {"FILE_CLOSED", "FILE_READY", "CHUNK_WRITTEN"}, NextReply(r, type),
               TakeReply(r)
        PROVE  SameSuccess(r)
    <3>1. /\ fromWorker[r] # <<>> /\ fromWorker'[r] = Tail(fromWorker[r])
          /\ Head(fromWorker[r]).type = type
      BY <2>2, TakenReply
    <3> QED BY <1>4, <3>1, SuccessKept
  <2>3. CASE replyDropped(r)
    <3>1. PICK m : m = Head(fromWorker[r])
      OBVIOUS
    <3>2. /\ fromWorker[r] # <<>> /\ m.type \in DOMAIN AwaitedAt /\ TakeReply(r)
          /\ \A h \in offers[r] \cup finishing[r] :
               ~(h.file = m.file /\ h.stage = AwaitedAt[m.type])
      BY <2>3, <3>1 DEF replyDropped
    <3>3. NextReply(r, m.type)
      BY <3>1, <3>2 DEF NextReply
    <3>4. m.type # "INIT_SUCCESS"
      <4>1. SUFFICES ASSUME m.type = "INIT_SUCCESS" PROVE FALSE
        OBVIOUS
      <4>2. m \in ToSet(fromWorker[r])
        BY <3>1, <3>2, <3>3, TakenReply
      <4>3. Initing(r, m.file)
        BY <1>4, <4>1, <4>2 DEF OpensHandle
      <4> QED BY <3>2, <4>1, <4>3 DEF Initing, AwaitedAt
    <3>5. m.type \in {"FILE_CLOSED", "FILE_READY"}
      BY <3>2, <3>4 DEF AwaitedAt
    <3> QED BY <2>2, <3>2, <3>3, <3>5
  <2> QED BY <2>1, <2>2, <2>3
          DEF fileClosed, fileReady, recordDeleted, chunkWritten, onPauseSignal, workerVars
<1> QED BY <1>1, <1>2, <1>3, <1>5, <1>6, <1>7, HandlesKept

-----------------------------------------------------------------------------
\* What StoreChunks does with no chunk and with one.
LEMMA StoredNothing ==
  ASSUME TypeInv, NEW r \in Receiver, NEW cs, cs = <<>>, StoreChunks(r, cs)
  PROVE  /\ toWorker'[r] = toWorker[r]
         /\ record'[r] = record[r]
         /\ total'[r] = total[r]
         /\ memory'[r] = memory[r]
<1>1. Len(cs) = 0 /\ cs \in Seq(Payload)
  BY ShortSequences
<1>2. total'[r] = total[r]
  BY <1>1, DataTypes DEF StoreChunks
<1>3. CASE ToDisk(r)
  <2>1. PICK ws : ws = Writes(r, cs)
    OBVIOUS
  <2>2. ws = <<>>
    <3>1. ws \in [1..0 -> WorkerRequest]
      BY <1>1, <2>1 DEF Writes
    <3>2. ws \in Seq(WorkerRequest) /\ Len(ws) = 0
      BY <3>1, FunctionIsSeq
    <3> QED BY <3>2
  <2>3. /\ toWorker' = [toWorker EXCEPT ![r] = @ \o ws]
        /\ record' = record /\ memory' = memory
    BY <1>3, <2>1 DEF StoreChunks
  <2>4. toWorker'[r] = toWorker[r] \o ws
    BY <2>3, DiskTypes
  <2> QED BY <1>2, <2>2, <2>3, <2>4, DiskTypes
<1>4. CASE ~ToDisk(r)
  <2>1. memory' = [memory EXCEPT ![r] = @ \o cs] /\ UNCHANGED <<toWorker, record>>
    BY <1>4 DEF StoreChunks
  <2>2. memory'[r] = memory[r] \o cs /\ memory[r] \in Seq(Payload)
    BY <2>1, DiskTypes
  <2> QED BY <1>2, <2>1, <2>2
<1> QED BY <1>3, <1>4

LEMMA StoredOne ==
  ASSUME TypeInv, NEW r \in Receiver, NEW c \in Payload, NEW cs, cs = <<c>>,
         StoreChunks(r, cs), meta[r] # None
  PROVE  /\ total'[r] = total[r] + 1
         /\ ToDisk(r) =>
              /\ toWorker'[r] = Append(toWorker[r], WriteChunk(active[r], c, total[r]))
              /\ record'[r] = [record[r] EXCEPT ![active[r]] = total[r] + 1]
              /\ memory' = memory
         /\ ~ToDisk(r) =>
              /\ toWorker'[r] = toWorker[r]
              /\ record'[r] = record[r]
              /\ memory'[r] = Append(memory[r], c)
<1>1. Len(cs) = 1 /\ cs \in Seq(Payload) /\ cs[1] = c /\ cs # <<>>
  BY ShortSequences
<1>2. total'[r] = total[r] + 1 /\ total[r] \in Nat
  BY <1>1, DataTypes DEF StoreChunks
<1>3. CASE ToDisk(r)
  <2>1. PICK ws : ws = Writes(r, cs)
    OBVIOUS
  <2>2. PICK w : w = WriteChunk(active[r], c, total[r])
    OBVIOUS
  <2>3. ws = <<w>>
    <3>1. ws = [i \in 1..1 |-> WriteChunk(active[r], cs[i], total[r] + i - 1)]
      BY <1>1, <2>1 DEF Writes
    <3>2. \A i \in 1..1 : WriteChunk(active[r], cs[i], total[r] + i - 1) = w
      <4>1. total[r] + 1 - 1 = total[r]
        BY <1>2
      <4> QED BY <1>1, <2>2, <4>1
    <3>3. ws = [i \in 1..1 |-> w]
      BY <3>1, <3>2
    <3> QED BY <3>3
  <2>4. /\ toWorker' = [toWorker EXCEPT ![r] = @ \o ws]
        /\ record' = [record EXCEPT ![r][active[r]] = total[r] + Len(cs)]
        /\ memory' = memory
    BY <1>1, <1>3, <2>1 DEF StoreChunks
  <2>5. toWorker'[r] = toWorker[r] \o ws /\ toWorker[r] \in Seq(WorkerRequest)
    BY <2>4, DiskTypes
  <2>6. w \in WorkerRequest
    <3>1. active[r] \in File
      BY <1>3, DiskTypes DEF ToDisk
    <3> QED BY <1>2, <2>2, <3>1 DEF WriteChunk, WorkerRequest
  <2>7. toWorker'[r] = Append(toWorker[r], w)
    BY <2>3, <2>5, <2>6, AppendConcat
  <2>8. record'[r] = [record[r] EXCEPT ![active[r]] = total[r] + 1]
    BY <1>1, <2>4, DiskTypes
  <2> QED BY <1>2, <1>3, <2>2, <2>4, <2>7, <2>8
<1>4. CASE ~ToDisk(r)
  <2>1. memory' = [memory EXCEPT ![r] = @ \o cs] /\ UNCHANGED <<toWorker, record>>
    BY <1>4 DEF StoreChunks
  <2>2. memory'[r] = memory[r] \o cs /\ memory[r] \in Seq(Payload)
    BY <2>1, DiskTypes
  <2> QED BY <1>2, <1>4, <2>1, <2>2, AppendConcat
<1> QED BY <1>3, <1>4

-----------------------------------------------------------------------------
\* The access handle, while no file is being opened.
LEMMA NoOffers ==
  ASSUME NEW r \in Receiver, HandlesAt(r), \A h \in offers[r] : h.stage # "init"
  PROVE  /\ ~Has(toWorker[r], {"INIT_FILE"})
         /\ ~InitSuspended(r)
         /\ ~Has(fromWorker[r], {"INIT_SUCCESS"})
BY DEF HandlesAt, OpensHandle, Initing, InitSuspended, Has

LEMMA NothingOpens ==
  ASSUME NEW r \in Receiver, AllOpen(r)',
         toWorker'[r] \in Seq(WorkerRequest), fromWorker'[r] \in Seq(WorkerReply),
         ~Has(toWorker'[r], {"INIT_FILE"}), ~InitSuspended(r)',
         ~Has(fromWorker'[r], {"INIT_SUCCESS"}),
         Apart(toWorker'[r], {"CLOSE_FILE"}, {"CLOSE_FILE", "WRITE_CHUNK"}),
         UsesHandle(r)', HandleForFile(r)', ActiveFile(r)'
  PROVE  HandlesAt(r)'
<1>1. DOMAIN toWorker'[r] = 1..Len(toWorker'[r]) /\ DOMAIN fromWorker'[r] = 1..Len(fromWorker'[r])
  OBVIOUS
<1>2. TasksInOrder(r)'
  BY <1>1, ApartAbsent DEF TasksInOrder
<1>3. OpensHandle(r)'
  BY DEF OpensHandle, InitSuspended, Has
<1> QED BY <1>2, <1>3 DEF HandlesAt

\* While a page receives a file, none is being opened and its channel carries the file.
LEMMA WhileReceiving ==
  ASSUME NEW r \in Receiver, DataAt(r), HandlesAt(r), ready[r]
  PROVE  /\ offers[r] = {}
         /\ ~Has(toWorker[r], {"INIT_FILE"})
         /\ ~InitSuspended(r)
         /\ ~Has(fromWorker[r], {"INIT_SUCCESS"})
         /\ meta[r] \in File /\ active[r] \in {None, meta[r]}
<1>1. offers[r] = {}
  BY DEF DataAt, HandlerKnows, HandlesAt, AllOpen, Opened
<1> QED BY <1>1, NoOffers DEF DataAt, Counted, HandlesAt, ActiveFile

\* A chunk of a file that is received goes where processIncomingChunk puts it.
LEMMA ChunkStored ==
  ASSUME TypeInv, NEW r \in Receiver, ReceiverStep(r), DataAt(r), SentAt(r), onChunk(r)
  PROVE  /\ meta[r] \in File /\ Head(toReceiver[r]).data \in Payload
         /\ ToDisk(r) =>
              /\ toWorker'[r] = Append(toWorker[r],
                                       WriteChunk(active[r], Head(toReceiver[r]).data, total[r]))
              /\ record'[r] = [record[r] EXCEPT ![active[r]] = total[r] + 1]
              /\ memory' = memory
         /\ ~ToDisk(r) =>
              /\ toWorker'[r] = toWorker[r]
              /\ record'[r] = record[r]
              /\ memory'[r] = Append(memory[r], Head(toReceiver[r]).data)
<1>1. Receiving(r) /\ ready[r]
  BY onChunkSent DEF Receiving
<1>2. meta[r] \in File /\ meta[r] # None
  BY <1>1, NoneAssumption DEF DataAt, Counted
<1>3. Head(toReceiver[r]).data \in Payload
  <2>1. ReceiverInv /\ NextMessage(r, "CHUNK")
    BY TypeInvParts DEF onChunk
  <2> QED BY <2>1, MessageTaken
<1>4. PICK c, cs : c = Head(toReceiver[r]).data /\ cs = <<c>>
  OBVIOUS
<1>5. StoreChunks(r, cs)
  BY <1>1, <1>4 DEF onChunk
<1> QED BY <1>2, <1>3, <1>4, <1>5, StoredOne

LEMMA onChunkHandles ==
  ASSUME TypeInv, TypeInv', NEW r \in Receiver, DataAt(r), SentAt(r), HandlesAt(r),
         ReceiverStep(r), onChunk(r)
  PROVE  HandlesAt(r)'
<1>1. /\ Receiving(r) /\ Receiving(r)'
      /\ UNCHANGED <<active, ready, meta, offers, finishing, suspended, handles, fromWorker>>
  BY onChunkSent DEF onChunk, WorkerElsewhere
<1>2. /\ offers[r] = {} /\ ~Has(toWorker[r], {"INIT_FILE"}) /\ ~InitSuspended(r)
      /\ ~Has(fromWorker[r], {"INIT_SUCCESS"})
      /\ meta[r] \in File /\ active[r] \in {None, meta[r]}
  BY <1>1, WhileReceiving DEF Receiving
<1>3. TasksInOrder(r) /\ AllOpen(r) /\ UsesHandle(r) /\ HandleForFile(r) /\ ActiveFile(r)
  BY DEF HandlesAt
<1>4. CASE ~ToDisk(r)
  <2>1. toWorker'[r] = toWorker[r] /\ fromWorker'[r] = fromWorker[r]
    BY <1>1, <1>4, ChunkStored
  <2>2. SameWork(r) /\ SameSuccess(r)
    BY <1>3, <2>1, WorkKept, SuccessKept
  <2> QED BY <1>1, <1>3, <2>2, HandlesKept DEF AllOpen
<1>5. CASE ToDisk(r)
  <2>1. active[r] = meta[r] /\ r \in OpfsReceiver
    BY <1>2, <1>5 DEF ToDisk
  <2>2. PICK x : x = WriteChunk(active[r], Head(toReceiver[r]).data, total[r])
    OBVIOUS
  <2>3. /\ toWorker'[r] = Append(toWorker[r], x) /\ x.type = "WRITE_CHUNK" /\ x.file = meta[r]
        /\ x \in WorkerRequest
    BY <1>2, <1>5, <2>1, <2>2, ChunkStored, DataTypes DEF WriteChunk, WorkerRequest
  <2>4. toWorker[r] \in Seq(WorkerRequest) /\ toWorker'[r] = toWorker[r] \o <<x>>
        /\ toWorker'[r] \in Seq(WorkerRequest) /\ fromWorker'[r] \in Seq(WorkerReply)
    BY <1>1, <2>3, AppendConcat, DiskTypes
  <2>5. ToSet(toWorker'[r]) = ToSet(toWorker[r]) \cup {x}
    BY <2>4, SetMore
  <2>6. meta[r] \in handles[r] /\ ~Has(toWorker[r], {"CLOSE_FILE"})
    BY <1>1, <1>3, <2>1 DEF HandleForFile
  <2>7. ~Has(toWorker'[r], {"INIT_FILE"}) /\ ~Has(toWorker'[r], {"CLOSE_FILE"})
    BY <1>2, <2>3, <2>5, <2>6 DEF Has
  <2>8. Apart(toWorker'[r], {"CLOSE_FILE"}, {"CLOSE_FILE", "WRITE_CHUNK"})
    BY <1>3, <2>3, <2>4, <2>6, ApartMore DEF TasksInOrder
  <2>9. UsesHandle(r)'
    BY <1>1, <1>3, <2>3, <2>5, <2>6 DEF UsesHandle
  <2>10. HandleForFile(r)' /\ ActiveFile(r)' /\ AllOpen(r)'
    BY <1>1, <1>3, <2>6, <2>7 DEF HandleForFile, ActiveFile, AllOpen
  <2> QED BY <1>1, <1>2, <2>4, <2>7, <2>8, <2>9, <2>10, NothingOpens DEF InitSuspended
<1> QED BY <1>4, <1>5

LEMMA onOfferHandles ==
  ASSUME TypeInv, NEW r \in Receiver, DataAt(r), SentAt(r), HandlesAt(r), ReceiverStep(r),
         onOffer(r) \/ onOfferInMemory(r)
  PROVE  HandlesAt(r)'
<1>1. AllOpen(r) /\ TasksInOrder(r) /\ UsesHandle(r) /\ HandleForFile(r)
  BY DEF HandlesAt
<1>2. ~Receiving(r) /\ offers[r] = {} /\ (Receiving(r)' <=> onOfferInMemory(r))
  BY <1>1, onOfferSent
<1>3. UNCHANGED <<toWorker, fromWorker, suspended, handles, finishing>>
  BY DEF onOffer, onOfferInMemory, WorkerElsewhere
<1>4. /\ ~Has(toWorker[r], {"INIT_FILE"}) /\ ~InitSuspended(r)
      /\ ~Has(fromWorker[r], {"INIT_SUCCESS"})
  BY <1>2, NoOffers
<1>5. UsesHandle(r)' /\ ~InitSuspended(r)'
  BY <1>1, <1>3, <1>4 DEF UsesHandle, InitSuspended
<1>6. CASE onOffer(r)
  <2>1. PICK f : /\ active' = [active EXCEPT ![r] = f]
                 /\ offers' = [offers EXCEPT ![r] =
                      @ \cup {[file |-> f, stage |-> "lookup", start |-> 0, channel |-> "open"]}]
    BY <1>6 DEF onOffer
  <2>2. active'[r] = f /\ ~ready'[r] /\ r \in OpfsReceiver
        /\ offers'[r] = {[file |-> f, stage |-> "lookup", start |-> 0, channel |-> "open"]}
    BY <1>2, <1>6, <2>1, DataTypes, DiskTypes DEF onOffer
  <2>3. ActiveFile(r)' /\ AllOpen(r)'
    BY <1>1, <1>3, <2>2 DEF ActiveFile, AllOpen
  <2>4. HandleForFile(r)'
    <3>1. ~Receiving(r)'
      BY <2>2 DEF Receiving
    <3> QED BY <1>1, <1>2, <1>3, <3>1 DEF HandleForFile
  <2> QED BY <1>1, <1>3, <1>4, <1>5, <2>3, <2>4, NothingOpens, DiskTypes DEF TasksInOrder
<1>7. CASE onOfferInMemory(r)
  <2>1. PICK f : active' = [active EXCEPT ![r] = f] /\ StartFile(r, f, 0)
    BY <1>7 DEF onOfferInMemory
  <2>2. active'[r] = f /\ meta'[r] = f /\ r \notin OpfsReceiver /\ offers' = offers
    BY <1>7, <2>1, DataTypes, DiskTypes DEF onOfferInMemory, StartFile
  <2>3. ActiveFile(r)' /\ AllOpen(r)' /\ handles[r] = {}
    BY <1>1, <1>2, <1>3, <2>2 DEF ActiveFile, AllOpen
  <2>4. HandleForFile(r)'
    BY <1>3, <2>2, <2>3 DEF HandleForFile
  <2> QED BY <1>1, <1>3, <1>4, <1>5, <2>3, <2>4, NothingOpens, DiskTypes DEF TasksInOrder
<1> QED BY <1>6, <1>7

LEMMA recordFoundHandles ==
  ASSUME TypeInv, NEW r \in Receiver, DataAt(r), SentAt(r), HandlesAt(r), ReceiverStep(r),
         NEW h \in offers[r], recordFound(r, h)
  PROVE  HandlesAt(r)'
<1>1. AllOpen(r) /\ TasksInOrder(r) /\ UsesHandle(r) /\ HandleForFile(r) /\ ActiveFile(r)
  BY DEF HandlesAt
<1>2. /\ h \in OfferHandler /\ h.channel = "open" /\ offers[r] = {h} /\ ~ready[r]
      /\ ~Receiving(r) /\ ~Receiving(r)' /\ r \in OpfsReceiver
  BY <1>1, PageAsked, recordFoundSent DEF AllOpen
<1>3. /\ h.stage = "lookup"
      /\ UNCHANGED <<fromWorker, suspended, handles, finishing, ready, active>>
  BY DEF recordFound, WorkerElsewhere
<1>4. PICK start, g : start = StartOffset(r, h.file)
                      /\ g = [h EXCEPT !.stage = "init", !.start = start]
  OBVIOUS
<1>5. offers'[r] = {g} /\ g.channel = "open" /\ g.stage = "init" /\ g.file = h.file
  <2>1. offers' = [offers EXCEPT ![r] = (@ \ {h}) \cup {g}]
    BY <1>4 DEF recordFound
  <2>2. g.channel = "open" /\ g.stage = "init" /\ g.file = h.file
    BY <1>2, <1>4 DEF OfferHandler
  <2> QED BY <1>2, <2>1, <2>2, DataTypes
<1>6. PICK x : x = InitFile(h.file)
  OBVIOUS
<1>7. x.type = "INIT_FILE" /\ x.file = h.file /\ x \in WorkerRequest
  BY <1>2, <1>6 DEF InitFile, WorkerRequest, Suspending, OfferHandler
<1>8. toWorker'[r] = toWorker[r] \o <<x>> /\ toWorker[r] \in Seq(WorkerRequest)
  <2>1. toWorker' = [toWorker EXCEPT ![r] = Append(@, x)]
    BY <1>6 DEF recordFound
  <2> QED BY <1>7, <2>1, DiskTypes, AppendConcat
<1>9. ToSet(toWorker'[r]) = ToSet(toWorker[r]) \cup {x}
  BY <1>8, SetMore
<1>10. /\ ~Has(toWorker[r], {"INIT_FILE"}) /\ ~InitSuspended(r)
       /\ ~Has(fromWorker[r], {"INIT_SUCCESS"})
  BY <1>2, <1>3, NoOffers
<1>11. TasksInOrder(r)'
  <2>1. Apart(toWorker'[r], {"CLOSE_FILE"}, {"CLOSE_FILE", "WRITE_CHUNK"})
    BY <1>1, <1>7, <1>8, ApartMore DEF TasksInOrder
  <2>2. Apart(toWorker'[r], {"INIT_FILE"}, {"INIT_FILE", "CLOSE_FILE", "WRITE_CHUNK"})
    BY <1>1, <1>7, <1>8, <1>10, ApartMore DEF TasksInOrder
  <2> QED BY <1>1, <1>3, <2>1, <2>2 DEF TasksInOrder
<1>12. AllOpen(r)' /\ ActiveFile(r)'
  BY <1>1, <1>2, <1>3, <1>5 DEF AllOpen, ActiveFile
<1>13. UsesHandle(r)'
  BY <1>1, <1>3, <1>7, <1>9 DEF UsesHandle
<1>14. /\ Has(toWorker[r], {"CLOSE_FILE"}) => Has(toWorker'[r], {"CLOSE_FILE"})
       /\ handles[r] # {} => Has(toWorker[r], {"CLOSE_FILE"})
  BY <1>1, <1>2, <1>9, <1>10 DEF HandleForFile, Has
<1>15. HandleForFile(r)'
  BY <1>1, <1>2, <1>3, <1>14 DEF HandleForFile
<1>16. OpensHandle(r)'
  <2>1. Initing(r, h.file)'
    BY <1>5 DEF Initing
  <2>2. \A y \in ToSet(toWorker'[r]) : y.type = "INIT_FILE" => y = x
    BY <1>9, <1>10 DEF Has
  <2>3. ~InitSuspended(r)' /\ ~Has(fromWorker'[r], {"INIT_SUCCESS"})
    BY <1>3, <1>10 DEF InitSuspended
  <2>4. handles'[r] = {} \/ Has(toWorker'[r], {"CLOSE_FILE"})
    BY <1>3, <1>14
  <2> QED BY <1>7, <2>1, <2>2, <2>3, <2>4 DEF OpensHandle, InitSuspended, Has
<1> QED BY <1>11, <1>12, <1>13, <1>15, <1>16 DEF HandlesAt

LEMMA fileInitialisedHandles ==
  ASSUME TypeInv, NEW r \in Receiver, DataAt(r), SentAt(r), HandlesAt(r), ReceiverStep(r),
         fileInitialised(r)
  PROVE  /\ HandlesAt(r)'
         /\ toWorker'[r] = toWorker[r] /\ record'[r] = record[r] /\ total'[r] = total[r]
         /\ memory'[r] = memory[r]
         /\ ~Has(toWorker[r], {"CLOSE_FILE", "WRITE_CHUNK"})
         /\ \E h \in offers[r] : h.stage = "init" /\ h.file = meta[r] /\ h.start = total[r]
<1>1. AllOpen(r) /\ TasksInOrder(r) /\ UsesHandle(r) /\ HandleForFile(r) /\ ActiveFile(r)
      /\ OpensHandle(r)
  BY DEF HandlesAt
<1>2. PICK h \in offers[r] : /\ h.file = ReplyFile(r) /\ h.stage = "init"
                             /\ offers' = [offers EXCEPT ![r] = @ \ {h}]
                             /\ h.channel = "open" => StoreChunks(r, early[r])
  BY DEF fileInitialised, OffersAt
<1>3. /\ h.channel = "open" /\ offers[r] = {h} /\ early[r] = <<>> /\ r \in OpfsReceiver
      /\ meta[r] = h.file /\ h.start = total[r]
      /\ Receiving(r)' /\ offers'[r] = {}
  BY <1>1, <1>2, PageAsked, fileInitialisedSent DEF AllOpen
<1>4. PICK cs : cs = early[r]
  OBVIOUS
<1>5. /\ toWorker'[r] = toWorker[r] /\ record'[r] = record[r] /\ total'[r] = total[r]
      /\ memory'[r] = memory[r]
  BY <1>2, <1>3, <1>4, StoredNothing
<1>6. UNCHANGED <<suspended, handles, finishing, active, meta>>
  BY DEF fileInitialised
<1>7. /\ fromWorker[r] # <<>> /\ fromWorker[r] \in Seq(WorkerReply)
      /\ fromWorker'[r] = Tail(fromWorker[r])
      /\ Head(fromWorker[r]).type = "INIT_SUCCESS"
      /\ Head(fromWorker[r]) \in ToSet(fromWorker[r])
  BY TakenReply DEF fileInitialised
<1>8. Head(fromWorker[r]).file = meta[r]
  BY <1>2, <1>3 DEF ReplyFile
<1>9. /\ meta[r] \in handles[r] /\ ~Has(toWorker[r], {"CLOSE_FILE", "WRITE_CHUNK"})
  BY <1>1, <1>7, <1>8 DEF OpensHandle
<1>10. ~Has(fromWorker'[r], {"INIT_SUCCESS"})
  BY <1>1, <1>7, ApartTail DEF TasksInOrder
<1>11. Has(fromWorker'[r], {"ERROR"}) => MaxFaults > 0
  BY <1>1, <1>7, SetTail DEF AllOpen, Has
<1>12. ~Has(toWorker[r], {"INIT_FILE"}) /\ ~InitSuspended(r)
  BY <1>1, <1>7 DEF OpensHandle, InitSuspended, Has
<1>13. AllOpen(r)' /\ UsesHandle(r)' /\ ActiveFile(r)'
  BY <1>1, <1>2, <1>3, <1>5, <1>6, <1>11 DEF AllOpen, UsesHandle, ActiveFile
<1>14. HandleForFile(r)'
  BY <1>1, <1>3, <1>5, <1>6, <1>9 DEF HandleForFile, Has
<1>15. HandlesAt(r)'
  <2>1. ~InitSuspended(r)' /\ ~Has(toWorker'[r], {"INIT_FILE"})
    BY <1>5, <1>6, <1>12 DEF InitSuspended
  <2>2. Apart(toWorker'[r], {"CLOSE_FILE"}, {"CLOSE_FILE", "WRITE_CHUNK"})
    BY <1>1, <1>5 DEF TasksInOrder
  <2>3. toWorker'[r] \in Seq(WorkerRequest) /\ fromWorker'[r] \in Seq(WorkerReply)
    BY <1>5, <1>7, DiskTypes, HeadTail
  <2> QED BY <1>10, <1>13, <1>14, <2>1, <2>2, <2>3, NothingOpens
<1> QED BY <1>2, <1>3, <1>5, <1>9, <1>15

\* What onComplete does when the file that ends is the one received.
LEMMA CompletePosts ==
  ASSUME TypeInv, NEW r \in Receiver, DataAt(r), SentAt(r), ReceiverStep(r), onComplete(r)
  PROVE  /\ UNCHANGED <<active, ready, meta, total, memory, offers, record>>
         /\ UNCHANGED <<suspended, handles, disk, fromWorker, faults>>
         /\ r \in OpfsReceiver =>
              /\ toWorker'[r] = Append(toWorker[r], CloseFile(meta[r]))
              /\ finishing'[r] = finishing[r] \cup
                   {[file |-> meta[r], stage |-> "close", channel |-> "open"]}
              /\ delivered' = delivered
         /\ r \notin OpfsReceiver =>
              /\ toWorker' = toWorker
              /\ finishing'[r] = finishing[r] \cup
                   {[file |-> meta[r], stage |-> "forget", channel |-> "open"]}
              /\ HandOver(r, meta[r], memory[r])
<1>1. Head(toReceiver[r]).file = meta[r]
  BY onCompleteSent
<1>2. PICK f : f = Head(toReceiver[r]).file
  OBVIOUS
<1>3. /\ UNCHANGED <<ready, meta, total, memory, offers, record>>
      /\ UNCHANGED <<suspended, handles, disk, fromWorker, faults>>
  BY DEF onComplete, WorkerElsewhere
<1>4. CASE r \in OpfsReceiver
  <2>1. /\ toWorker' = [toWorker EXCEPT ![r] = Append(@, CloseFile(f))]
        /\ finishing' = [finishing EXCEPT ![r] =
             @ \cup {[file |-> f, stage |-> "close", channel |-> "open"]}]
        /\ UNCHANGED <<active, delivered>>
    BY <1>1, <1>2, <1>4 DEF onComplete
  <2> QED BY <1>1, <1>2, <1>3, <1>4, <2>1, DiskTypes
<1>5. CASE r \notin OpfsReceiver
  <2>1. /\ finishing' = [finishing EXCEPT ![r] =
             @ \cup {[file |-> f, stage |-> "forget", channel |-> "open"]}]
        /\ HandOver(r, f, memory[r])
        /\ UNCHANGED <<active, toWorker>>
    BY <1>1, <1>2, <1>5 DEF onComplete
  <2> QED BY <1>1, <1>2, <1>3, <1>5, <2>1, DiskTypes
<1> QED BY <1>4, <1>5

LEMMA onCompleteHandles ==
  ASSUME TypeInv, NEW r \in Receiver, DataAt(r), SentAt(r), HandlesAt(r), ReceiverStep(r),
         onComplete(r)
  PROVE  HandlesAt(r)'
<1>1. AllOpen(r) /\ TasksInOrder(r) /\ UsesHandle(r) /\ HandleForFile(r) /\ ActiveFile(r)
  BY DEF HandlesAt
<1>2. Receiving(r) /\ ~Receiving(r)' /\ ready[r]
  BY onCompleteSent DEF Receiving
<1>3. /\ UNCHANGED <<active, ready, meta, offers>>
      /\ UNCHANGED <<suspended, handles, fromWorker>>
      /\ r \in OpfsReceiver =>
           /\ toWorker'[r] = Append(toWorker[r], CloseFile(meta[r]))
           /\ finishing'[r] = finishing[r] \cup
                {[file |-> meta[r], stage |-> "close", channel |-> "open"]}
      /\ r \notin OpfsReceiver =>
           /\ toWorker' = toWorker
           /\ finishing'[r] = finishing[r] \cup
                {[file |-> meta[r], stage |-> "forget", channel |-> "open"]}
  BY CompletePosts
<1>4. /\ offers[r] = {} /\ ~Has(toWorker[r], {"INIT_FILE"}) /\ ~InitSuspended(r)
      /\ ~Has(fromWorker[r], {"INIT_SUCCESS"}) /\ meta[r] \in File
  BY <1>2, WhileReceiving
<1>5. \A h \in finishing'[r] : h.channel = "open"
  BY <1>1, <1>3 DEF AllOpen
<1>6. AllOpen(r)' /\ ActiveFile(r)' /\ ~InitSuspended(r)'
  BY <1>1, <1>3, <1>4, <1>5 DEF AllOpen, ActiveFile, InitSuspended
<1>7. CASE r \in OpfsReceiver
  <2>1. PICK x : x = CloseFile(meta[r])
    OBVIOUS
  <2>2. x.type = "CLOSE_FILE" /\ x.file = meta[r] /\ x \in WorkerRequest
    BY <1>4, <2>1 DEF CloseFile, WorkerRequest
  <2>3. toWorker'[r] = toWorker[r] \o <<x>> /\ toWorker[r] \in Seq(WorkerRequest)
        /\ toWorker'[r] \in Seq(WorkerRequest) /\ fromWorker'[r] \in Seq(WorkerReply)
    <3>1. toWorker'[r] = Append(toWorker[r], x) /\ fromWorker'[r] = fromWorker[r]
      BY <1>3, <1>7, <2>1
    <3>2. toWorker[r] \in Seq(WorkerRequest) /\ fromWorker[r] \in Seq(WorkerReply)
      BY DiskTypes
    <3> QED BY <2>2, <3>1, <3>2, AppendConcat
  <2>4. ToSet(toWorker'[r]) = ToSet(toWorker[r]) \cup {x}
    BY <2>3, SetMore
  <2>5. meta[r] \in handles[r] /\ ~Has(toWorker[r], {"CLOSE_FILE"})
    BY <1>1, <1>2, <1>7 DEF HandleForFile
  <2>6. Apart(toWorker'[r], {"CLOSE_FILE"}, {"CLOSE_FILE", "WRITE_CHUNK"})
    BY <1>1, <2>2, <2>3, <2>5, ApartMore DEF TasksInOrder
  <2>7. UsesHandle(r)'
    BY <1>1, <1>3, <2>2, <2>4, <2>5 DEF UsesHandle
  <2>8. ~Has(toWorker'[r], {"INIT_FILE"}) /\ Has(toWorker'[r], {"CLOSE_FILE"})
    BY <1>4, <2>2, <2>4 DEF Has
  <2>9. HandleForFile(r)'
    BY <1>1, <1>2, <1>3, <2>8 DEF HandleForFile
  <2> QED BY <1>3, <1>4, <1>6, <2>3, <2>6, <2>7, <2>8, <2>9, NothingOpens
<1>8. CASE r \notin OpfsReceiver
  <2>1. handles'[r] = {} /\ toWorker' = toWorker /\ fromWorker' = fromWorker
    BY <1>1, <1>3, <1>8 DEF AllOpen
  <2>2. HandleForFile(r)' /\ UsesHandle(r)'
    BY <1>1, <1>3, <1>8, <2>1 DEF HandleForFile, UsesHandle
  <2> QED BY <1>1, <1>4, <1>6, <2>1, <2>2, NothingOpens, DiskTypes DEF TasksInOrder
<1> QED BY <1>7, <1>8

LEMMA NoWorkerError ==
  ASSUME TypeInv, NEW r \in Receiver, HandlesAt(r), MaxFaults = 0
  PROVE  ~workerError(r)
<1> SUFFICES ASSUME workerError(r) PROVE FALSE
  OBVIOUS
<1>1. ~Has(fromWorker[r], {"ERROR"})
  BY DEF HandlesAt, AllOpen
<1>2. Head(fromWorker[r]) \in ToSet(fromWorker[r]) /\ Head(fromWorker[r]).type = "ERROR"
  BY TakenReply DEF workerError
<1> QED BY <1>1, <1>2 DEF Has

\* An ERROR that no FILE_OFFER handler waits for leaves the reception as it is.
LEMMA workerErrorHandles ==
  ASSUME TypeInv, NEW r \in Receiver, DataAt(r), SentAt(r), HandlesAt(r), ReceiverStep(r),
         workerError(r), offers[r] = {}
  PROVE  ReceptionKept(r) /\ HandlesAt(r)' /\ offers'[r] = {}
<1>1. AllOpen(r) /\ TasksInOrder(r)
  BY DEF HandlesAt
<1>2. offers'[r] = offers[r]
  <2>1. offers' = offers \/ \E h : offers' = [offers EXCEPT ![r] = @ \ {h}]
    BY DEF workerError
  <2> QED BY <2>1, DataTypes
<1>3. LoopKept(r) /\ PageKept(r) /\ SameAccepts(r)
  <2>1. LoopKept(r)
    BY StepLeaves
  <2>2. PageKept(r)
    BY <1>2 DEF workerError, PageKept
  <2>3. toSender'[r] = toSender[r]
    BY DEF workerError, channelVars
  <2> QED BY <2>1, <2>2, <2>3, AcceptsKept
<1>4. ReceptionKept(r)
  <2>1. toReceiver'[r] = toReceiver[r]
    BY DEF workerError, channelVars
  <2> QED BY <1>3, <2>1, NotForChunks
<1>5. SameWork(r) /\ SameSuccess(r)
  <2>1. fromWorker[r] # <<>> /\ fromWorker'[r] = Tail(fromWorker[r])
        /\ Head(fromWorker[r]).type = "ERROR"
    BY TakenReply DEF workerError
  <2>2. toWorker'[r] = toWorker[r]
    BY DEF workerError
  <2> QED BY <1>1, <2>1, <2>2, WorkKept, SuccessKept
<1>6. /\ active'[r] \in {active[r], None}
      /\ finishing'[r] \subseteq finishing[r]
  <2>1. \/ UNCHANGED <<active, finishing>>
        \/ \E h : EndOfFile(r, h)
    BY DEF workerError
  <2> QED BY <2>1, DiskTypes DEF EndOfFile
<1>7. UNCHANGED <<handles, suspended>>
  BY DEF workerError
<1>8. \A h \in finishing'[r] : h.channel = "open"
  BY <1>1, <1>6 DEF AllOpen
<1>9. HandlesAt(r)'
  BY <1>2, <1>3, <1>4, <1>5, <1>6, <1>7, <1>8, HandlesKept DEF PageKept, ReceptionKept
<1> QED BY <1>2, <1>4, <1>9

\* The page's own steps.
LEMMA PageStep ==
  ASSUME TypeInv, TypeInv', NEW r \in Receiver, DataAt(r), SentAt(r), HandlesAt(r),
         ReceiverStep(r), workerError(r) => offers[r] = {}
  PROVE  SentAt(r)' /\ HandlesAt(r)'
<1>1. AllOpen(r)
  BY DEF HandlesAt
<1>2. CASE onChunk(r)
  BY <1>2, onChunkSent, onChunkHandles
<1>3. CASE onOffer(r) \/ onOfferInMemory(r)
  BY <1>1, <1>3, onOfferSent, onOfferHandles
<1>4. ASSUME NEW h \in offers[r], recordFound(r, h) PROVE SentAt(r)' /\ HandlesAt(r)'
  BY <1>1, <1>4, recordFoundSent, recordFoundHandles
<1>5. CASE fileInitialised(r)
  BY <1>1, <1>5, fileInitialisedSent, fileInitialisedHandles
<1>6. CASE onComplete(r)
  BY <1>6, onCompleteSent, onCompleteHandles
<1>7. CASE Aside(r)
  BY <1>7, AsideSent, AsideHandles DEF ReceptionKept
<1>8. CASE workerError(r)
  BY <1>8, workerErrorHandles DEF ReceptionKept
<1> QED BY <1>2, <1>3, <1>4, <1>5, <1>6, <1>7, <1>8 DEF ReceiverStep, ReceiverHandler, Aside

-----------------------------------------------------------------------------
\* The worker's steps.
LEMMA WorkerAside ==
  ASSUME NEW s \in Receiver, UNCHANGED <<toReceiver, toSender, senderVars, receiverVars>>
  PROVE  /\ SentAt(s)' <=> SentAt(s)
         /\ Receiving(s)' <=> Receiving(s)
         /\ \A f : Initing(s, f)' <=> Initing(s, f)
         /\ ActiveFile(s)' <=> ActiveFile(s)
         /\ Current' = Current /\ (ReadsInside' <=> ReadsInside)
<1> USE DEF senderVars, receiverVars
<1>1. Current' = Current
  BY DEF Current
<1>2. Awaiting(s)' <=> Awaiting(s)
  BY DEF Awaiting, Opened
<1>3. Receiving(s)' <=> Receiving(s)
  BY DEF Receiving, Owed
<1>4. EndIsLast(s)' <=> EndIsLast(s)
  BY DEF EndIsLast
<1>5. ChunksWanted(s)' <=> ChunksWanted(s)
  BY <1>3 DEF ChunksWanted
<1>6. Answered(s)' <=> Answered(s)
  BY <1>2 DEF Answered
<1>7. EndIsWhole(s)' <=> EndIsWhole(s)
  BY DEF EndIsWhole
<1> QED BY <1>1, <1>3, <1>4, <1>5, <1>6, <1>7 DEF SentAt, Initing, ActiveFile, ReadsInside

LEMMA TakenRequest ==
  ASSUME TypeInv, NEW r \in Receiver, toWorker[r] # <<>>, Take(r)
  PROVE  /\ toWorker[r] \in Seq(WorkerRequest) /\ toWorker'[r] = Tail(toWorker[r])
         /\ toWorker'[r] \in Seq(WorkerRequest)
         /\ Head(toWorker[r]) \in WorkerRequest
         /\ Head(toWorker[r]) \in ToSet(toWorker[r]) /\ Head(toWorker[r]).file \in File
         /\ ToSet(toWorker[r]) = {Head(toWorker[r])} \cup ToSet(toWorker'[r])
<1>1. toWorker[r] \in Seq(WorkerRequest) /\ toWorker \in [Receiver -> Seq(WorkerRequest)]
  BY DiskTypes
<1>2. Head(toWorker[r]) \in WorkerRequest /\ Tail(toWorker[r]) \in Seq(WorkerRequest)
      /\ toWorker'[r] = Tail(toWorker[r])
  BY <1>1, HeadTail DEF Take
<1>3. Head(toWorker[r]).file \in File
  BY <1>2, RequestFields
<1>4. ToSet(toWorker[r]) = {Head(toWorker[r])} \cup ToSet(toWorker'[r])
  BY <1>1, <1>2, SetTail
<1> QED BY <1>1, <1>2, <1>3, <1>4

LEMMA Replied ==
  ASSUME TypeInv, NEW r \in Receiver, NEW x \in WorkerReply, Reply(r, x)
  PROVE  /\ fromWorker'[r] = Append(fromWorker[r], x)
         /\ fromWorker[r] \in Seq(WorkerReply) /\ fromWorker'[r] \in Seq(WorkerReply)
         /\ fromWorker'[r] = fromWorker[r] \o <<x>>
         /\ ToSet(fromWorker'[r]) = ToSet(fromWorker[r]) \cup {x}
<1>1. fromWorker'[r] = Append(fromWorker[r], x) /\ fromWorker[r] \in Seq(WorkerReply)
  BY DiskTypes DEF Reply
<1>2. fromWorker'[r] = fromWorker[r] \o <<x>> /\ fromWorker'[r] \in Seq(WorkerReply)
  BY <1>1, AppendConcat
<1> QED BY <1>1, <1>2, SetMore

LEMMA writeChunkHandles ==
  ASSUME TypeInv, NEW r \in Receiver, HandlesAt(r), OpfsStep(r),
         writeChunk(r) \/ writeChunkFails(r)
  PROVE  HandlesAt(r)'
<1>1. UNCHANGED <<toReceiver, toSender, senderVars, receiverVars>>
  BY DEF OpfsStep, channelVars
<1>2. /\ Receiving(r)' <=> Receiving(r)
      /\ \A f : Initing(r, f)' <=> Initing(r, f)
      /\ ActiveFile(r)' <=> ActiveFile(r)
      /\ UNCHANGED <<meta, offers, finishing>>
  BY <1>1, WorkerAside DEF receiverVars
<1>3. PICK m : m = Head(toWorker[r])
  OBVIOUS
<1>4. /\ toWorker[r] # <<>> /\ m.type = "WRITE_CHUNK"
      /\ Take(r) /\ UNCHANGED <<suspended, handles>>
  BY <1>3 DEF writeChunk, writeChunkFails
<1>5. /\ toWorker[r] \in Seq(WorkerRequest) /\ toWorker'[r] = Tail(toWorker[r])
      /\ ToSet(toWorker[r]) = {m} \cup ToSet(toWorker'[r])
      /\ m.file \in File /\ m.offset \in Nat
  <2>1. m \in WorkerRequest
    BY <1>3, <1>4, TakenRequest
  <2>2. m.offset \in Nat
    BY <1>4, <2>1, RequestFields
  <2> QED BY <1>3, <1>4, <2>2, TakenRequest
<1>6. AllOpen(r) /\ TasksInOrder(r) /\ UsesHandle(r) /\ HandleForFile(r) /\ ActiveFile(r)
      /\ OpensHandle(r)
  BY DEF HandlesAt
<1>7. SameSuccess(r)
  <2>1. PICK x, y : /\ x = [type |-> "CHUNK_WRITTEN", file |-> m.file, currentOffset |-> m.offset + 1]
                    /\ y = Failure(m.file)
    OBVIOUS
  <2>2. x \in WorkerReply /\ y \in WorkerReply /\ x.type = "CHUNK_WRITTEN" /\ y.type = "ERROR"
    BY <1>5, <2>1 DEF WorkerReply, Failure
  <2>3. m.file \in handles[r]
    BY <1>4, <1>5, <1>6 DEF UsesHandle
  <2>4. CASE writeChunk(r)
    <3>1. fromWorker'[r] = Append(fromWorker[r], x)
      BY <1>3, <2>1, <2>2, <2>4, Replied DEF writeChunk
    <3> QED BY <1>6, <2>2, <3>1, SuccessKept
  <2>5. CASE writeChunkFails(r)
    <3>1. fromWorker'[r] = Append(fromWorker[r], y)
      BY <1>3, <2>1, <2>2, <2>5, Replied DEF writeChunkFails
    <3>2. MaxFaults > 0
      BY <1>3, <2>3, <2>5, FaultAssumption DEF writeChunkFails, TypeInv, TypeOK, WorkerTypeOK
    <3> QED BY <1>6, <2>2, <3>1, <3>2, SuccessKept
  <2> QED BY <2>4, <2>5
<1>8. /\ Has(fromWorker'[r], {"INIT_SUCCESS"}) <=> Has(fromWorker[r], {"INIT_SUCCESS"})
      /\ Has(fromWorker'[r], {"ERROR"}) => MaxFaults > 0
      /\ Has(toWorker'[r], {"CLOSE_FILE"}) <=> Has(toWorker[r], {"CLOSE_FILE"})
      /\ Has(toWorker'[r], {"CLOSE_FILE", "WRITE_CHUNK"}) =>
           Has(toWorker[r], {"CLOSE_FILE", "WRITE_CHUNK"})
      /\ InitSuspended(r)' <=> InitSuspended(r)
  BY <1>4, <1>5, <1>6, <1>7 DEF AllOpen, SameSuccess, Has, InitSuspended
<1>9. TasksInOrder(r)'
  BY <1>4, <1>5, <1>6, <1>7, ApartTail DEF TasksInOrder, SameSuccess
<1>10. AllOpen(r)' /\ UsesHandle(r)' /\ HandleForFile(r)'
  BY <1>2, <1>4, <1>5, <1>6, <1>8 DEF AllOpen, UsesHandle, HandleForFile
<1>11. OpensHandle(r)'
  <2>1. \A x \in ToSet(fromWorker'[r]) : x.type = "INIT_SUCCESS" => x \in ToSet(fromWorker[r])
    BY <1>7 DEF SameSuccess
  <2> QED BY <1>2, <1>4, <1>5, <1>6, <1>8, <2>1 DEF OpensHandle
<1> QED BY <1>2, <1>6, <1>9, <1>10, <1>11 DEF HandlesAt

LEMMA NoFailedWrite ==
  ASSUME TypeInv, NEW r \in Receiver, HandlesAt(r), writeChunkFails(r), MaxFaults = 0
  PROVE  FALSE
<1>1. PICK m : m = Head(toWorker[r])
  OBVIOUS
<1>2. toWorker[r] # <<>> /\ m.type = "WRITE_CHUNK" /\ Take(r)
      /\ (m.file \in handles[r] => faults < MaxFaults)
  BY <1>1 DEF writeChunkFails
<1>3. m \in ToSet(toWorker[r])
  BY <1>1, <1>2, TakenRequest
<1>4. m.file \in handles[r]
  BY <1>2, <1>3 DEF HandlesAt, UsesHandle
<1> QED BY <1>2, <1>4 DEF TypeInv, TypeOK, WorkerTypeOK

LEMMA closeFileHandles ==
  ASSUME TypeInv, NEW r \in Receiver, HandlesAt(r), OpfsStep(r), closeFile(r)
  PROVE  HandlesAt(r)'
<1>1. UNCHANGED <<toReceiver, toSender, senderVars, receiverVars>>
  BY DEF OpfsStep, channelVars
<1>2. /\ Receiving(r)' <=> Receiving(r)
      /\ ActiveFile(r)' <=> ActiveFile(r)
      /\ \A f : Initing(r, f)' <=> Initing(r, f)
      /\ UNCHANGED <<meta, offers, finishing>>
  BY <1>1, WorkerAside DEF receiverVars
<1>3. PICK m : m = Head(toWorker[r])
  OBVIOUS
<1>4. /\ toWorker[r] # <<>> /\ m.type = "CLOSE_FILE"
      /\ handles' = [handles EXCEPT ![r] = @ \ {m.file}]
      /\ Reply(r, [type |-> "FILE_CLOSED", file |-> m.file])
      /\ Take(r) /\ UNCHANGED suspended
  BY <1>3 DEF closeFile
<1>5. /\ toWorker[r] \in Seq(WorkerRequest) /\ toWorker'[r] = Tail(toWorker[r])
      /\ toWorker'[r] \in Seq(WorkerRequest)
      /\ ToSet(toWorker[r]) = {m} \cup ToSet(toWorker'[r])
      /\ m.file \in File
  BY <1>3, <1>4, TakenRequest
<1>6. AllOpen(r) /\ TasksInOrder(r) /\ UsesHandle(r) /\ HandleForFile(r) /\ ActiveFile(r)
      /\ OpensHandle(r)
  BY DEF HandlesAt
<1>7. SameSuccess(r)
  <2>1. PICK x : x = [type |-> "FILE_CLOSED", file |-> m.file]
    OBVIOUS
  <2>2. x \in WorkerReply /\ x.type = "FILE_CLOSED"
    BY <1>5, <2>1 DEF WorkerReply
  <2>3. fromWorker'[r] = Append(fromWorker[r], x)
    BY <1>4, <2>1, <2>2, Replied
  <2> QED BY <1>6, <2>2, <2>3, SuccessKept
<1>8. Has(toWorker[r], {"CLOSE_FILE"}) /\ Has(toWorker[r], {"CLOSE_FILE", "WRITE_CHUNK"})
  BY <1>4, <1>5 DEF Has
<1>9. m.file \in handles[r] /\ handles[r] = {m.file} /\ handles'[r] = {}
  BY <1>4, <1>5, <1>6, DiskTypes DEF UsesHandle, HandleForFile
<1>10. ~Has(toWorker'[r], {"CLOSE_FILE", "WRITE_CHUNK"})
  BY <1>3, <1>4, <1>5, <1>6, ApartTail DEF TasksInOrder
<1>11. ~(Receiving(r) /\ r \in OpfsReceiver)
  BY <1>6, <1>8 DEF HandleForFile
<1>12. ~Has(fromWorker[r], {"INIT_SUCCESS"}) /\ ~InitSuspended(r)
  BY <1>6, <1>8, <1>9 DEF OpensHandle, InitSuspended, Has
<1>13. ~Has(fromWorker'[r], {"INIT_SUCCESS"}) /\ (Has(fromWorker'[r], {"ERROR"}) => MaxFaults > 0)
       /\ ~InitSuspended(r)'
  BY <1>4, <1>6, <1>7, <1>12 DEF AllOpen, SameSuccess, Has, InitSuspended
<1>14. AllOpen(r)' /\ UsesHandle(r)' /\ HandleForFile(r)'
  BY <1>2, <1>6, <1>9, <1>10, <1>11, <1>13 DEF AllOpen, UsesHandle, HandleForFile, Has
<1>15. TasksInOrder(r)'
  BY <1>4, <1>5, <1>6, <1>7, ApartTail DEF TasksInOrder, SameSuccess
<1>16. OpensHandle(r)'
  BY <1>2, <1>5, <1>6, <1>9, <1>13 DEF OpensHandle, InitSuspended, Has
<1> QED BY <1>2, <1>6, <1>14, <1>15, <1>16 DEF HandlesAt

LEMMA suspendHandles ==
  ASSUME TypeInv, NEW r \in Receiver, HandlesAt(r), OpfsStep(r), suspend(r)
  PROVE  HandlesAt(r)'
<1>1. UNCHANGED <<toReceiver, toSender, senderVars, receiverVars>>
  BY DEF OpfsStep, channelVars
<1>2. /\ Receiving(r)' <=> Receiving(r)
      /\ ActiveFile(r)' <=> ActiveFile(r)
      /\ \A f : Initing(r, f)' <=> Initing(r, f)
      /\ UNCHANGED <<meta, offers, finishing, ready, active>>
  BY <1>1, WorkerAside DEF receiverVars
<1>3. PICK m : m = Head(toWorker[r])
  OBVIOUS
<1>4. /\ toWorker[r] # <<>> /\ m.type \in {"INIT_FILE", "GET_FILE"}
      /\ suspended' = [suspended EXCEPT ![r] = @ \cup {m}]
      /\ Take(r) /\ UNCHANGED <<handles, fromWorker>>
  BY <1>3 DEF suspend
<1>5. /\ toWorker[r] \in Seq(WorkerRequest) /\ toWorker'[r] = Tail(toWorker[r])
      /\ toWorker'[r] \in Seq(WorkerRequest)
      /\ ToSet(toWorker[r]) = {m} \cup ToSet(toWorker'[r])
  BY <1>3, <1>4, TakenRequest
<1>6. AllOpen(r) /\ TasksInOrder(r) /\ UsesHandle(r) /\ HandleForFile(r) /\ ActiveFile(r)
      /\ OpensHandle(r)
  BY DEF HandlesAt
<1>7. suspended'[r] = suspended[r] \cup {m}
  BY <1>4, DiskTypes
<1>8. CASE m.type = "GET_FILE"
  <2>1. SameWork(r) /\ SameSuccess(r)
    BY <1>3, <1>4, <1>5, <1>6, <1>8, WorkKept, SuccessKept
  <2>2. \A x : x.type = "INIT_FILE" => (x \in suspended'[r] <=> x \in suspended[r])
    BY <1>7, <1>8
  <2> QED BY <1>2, <1>4, <1>6, <2>1, <2>2, HandlesKept DEF AllOpen
<1>9. CASE m.type = "INIT_FILE"
  <2>1. ~Has(toWorker'[r], {"INIT_FILE", "CLOSE_FILE", "WRITE_CHUNK"})
    BY <1>3, <1>4, <1>5, <1>6, <1>9, ApartTail DEF TasksInOrder
  <2>2. ~Has(toWorker[r], {"CLOSE_FILE"})
    BY <1>5, <1>9, <2>1 DEF Has
  <2>3. /\ Initing(r, m.file) /\ ~InitSuspended(r) /\ ~Has(fromWorker[r], {"INIT_SUCCESS"})
        /\ handles[r] = {}
    BY <1>5, <1>6, <1>9, <2>2 DEF OpensHandle
  <2>4. \A x \in suspended'[r] : x.type = "INIT_FILE" => x = m
    BY <1>7, <2>3 DEF InitSuspended
  <2>5. TasksInOrder(r)'
    BY <1>4, <1>5, <1>6, ApartTail DEF TasksInOrder
  <2>6. AllOpen(r)' /\ UsesHandle(r)' /\ HandleForFile(r)'
    BY <1>2, <1>4, <1>6, <2>1, <2>3 DEF AllOpen, UsesHandle, HandleForFile, Has
  <2>7. OpensHandle(r)'
    BY <1>2, <1>4, <2>1, <2>3, <2>4 DEF OpensHandle, Has
  <2> QED BY <1>2, <1>6, <2>5, <2>6, <2>7 DEF HandlesAt
<1> QED BY <1>4, <1>8, <1>9

LEMMA initFileHandles ==
  ASSUME TypeInv, NEW r \in Receiver, DataAt(r), HandlesAt(r), OpfsStep(r), initFile(r)
  PROVE  HandlesAt(r)' /\ UNCHANGED <<toWorker, disk>>
<1>1. UNCHANGED <<toReceiver, toSender, senderVars, receiverVars>>
  BY DEF OpfsStep, channelVars
<1>2. /\ Receiving(r)' <=> Receiving(r)
      /\ ActiveFile(r)' <=> ActiveFile(r)
      /\ \A f : Initing(r, f)' <=> Initing(r, f)
      /\ UNCHANGED <<meta, offers, finishing>>
  BY <1>1, WorkerAside DEF receiverVars
<1>3. PICK m \in suspended[r] :
        /\ m.type = "INIT_FILE"
        /\ m.file \notin handles[r] =>
             /\ handles' = [handles EXCEPT ![r] = @ \cup {m.file}]
             /\ Reply(r, [type |-> "INIT_SUCCESS", file |-> m.file])
        /\ suspended' = [suspended EXCEPT ![r] = @ \ {m}]
        /\ UNCHANGED <<toWorker, disk>>
  BY DEF initFile
<1>4. AllOpen(r) /\ TasksInOrder(r) /\ UsesHandle(r) /\ HandleForFile(r) /\ ActiveFile(r)
      /\ OpensHandle(r)
  BY DEF HandlesAt
<1>5. Initing(r, m.file) /\ handles[r] = {} /\ ~Has(fromWorker[r], {"INIT_SUCCESS"})
      /\ InitSuspended(r)
  BY <1>3, <1>4 DEF OpensHandle, InitSuspended
<1>6. m.file \in File /\ handles'[r] = {m.file} /\ suspended'[r] = suspended[r] \ {m}
  BY <1>3, <1>5, DiskTypes DEF Suspending
<1>7. PICK x : x = [type |-> "INIT_SUCCESS", file |-> m.file]
  OBVIOUS
<1>8. x.type = "INIT_SUCCESS" /\ x.file = m.file /\ x \in WorkerReply
  BY <1>6, <1>7 DEF WorkerReply
<1>9. /\ fromWorker[r] \in Seq(WorkerReply) /\ fromWorker'[r] = fromWorker[r] \o <<x>>
      /\ ToSet(fromWorker'[r]) = ToSet(fromWorker[r]) \cup {x}
  BY <1>3, <1>5, <1>7, <1>8, Replied
<1>10. PICK h \in offers[r] : h.stage = "init" /\ h.file = m.file
  BY <1>5 DEF Initing
<1>11. offers[r] = {h} /\ r \in OpfsReceiver
  BY <1>4, <1>10, PageAsked DEF AllOpen
<1>12. ~InitSuspended(r)'
  <2>1. SUFFICES ASSUME NEW y \in suspended'[r], y.type = "INIT_FILE" PROVE FALSE
    BY DEF InitSuspended
  <2>2. y \in suspended[r] /\ y # m
    BY <1>6, <2>1
  <2>3. Initing(r, y.file)
    BY <1>4, <2>1, <2>2 DEF OpensHandle
  <2>4. y.file = m.file
    BY <1>10, <1>11, <2>3 DEF Initing
  <2>5. y \in Suspending /\ m \in Suspending
    BY <2>2, DiskTypes
  <2> QED BY <1>3, <2>1, <2>2, <2>4, <2>5 DEF Suspending
<1>13. ~Has(toWorker[r], {"CLOSE_FILE", "WRITE_CHUNK"}) /\ ~Has(toWorker[r], {"INIT_FILE"})
       /\ ~Has(toWorker[r], {"CLOSE_FILE"})
  BY <1>4, <1>5 DEF UsesHandle, OpensHandle, Has
<1>14. ~Receiving(r)
  BY <1>4, <1>5, <1>11 DEF HandleForFile
<1>15. TasksInOrder(r)'
  <2>1. Apart(fromWorker'[r], {"INIT_SUCCESS"}, {"INIT_SUCCESS"})
    BY <1>4, <1>5, <1>8, <1>9, ApartMore DEF TasksInOrder
  <2> QED BY <1>3, <1>4, <2>1 DEF TasksInOrder
<1>16. AllOpen(r)'
  BY <1>2, <1>4, <1>8, <1>9, <1>11 DEF AllOpen, Has
<1>17. UsesHandle(r)' /\ HandleForFile(r)'
  BY <1>2, <1>3, <1>6, <1>8, <1>9, <1>13, <1>14 DEF UsesHandle, HandleForFile, Has
<1>18. OpensHandle(r)'
  <2>1. \A y \in ToSet(fromWorker'[r]) : y.type = "INIT_SUCCESS" => y = x
    BY <1>5, <1>9 DEF Has
  <2> QED BY <1>2, <1>3, <1>5, <1>6, <1>8, <1>12, <1>13, <2>1
          DEF OpensHandle, InitSuspended, Has
<1> QED BY <1>2, <1>3, <1>4, <1>15, <1>16, <1>17, <1>18 DEF HandlesAt

LEMMA getFileHandles ==
  ASSUME TypeInv, NEW r \in Receiver, HandlesAt(r), OpfsStep(r), getFile(r)
  PROVE  HandlesAt(r)' /\ UNCHANGED <<toWorker, disk>>
<1>1. UNCHANGED <<toReceiver, toSender, senderVars, receiverVars>>
  BY DEF OpfsStep, channelVars
<1>2. /\ Receiving(r)' <=> Receiving(r)
      /\ UNCHANGED <<meta, offers, finishing, ready, active>>
  BY <1>1, WorkerAside DEF receiverVars
<1>3. PICK m \in suspended[r] :
        /\ m.type = "GET_FILE"
        /\ Reply(r, [type |-> "FILE_READY", file |-> m.file, data |-> disk[r][m.file]])
        /\ suspended' = [suspended EXCEPT ![r] = @ \ {m}]
        /\ UNCHANGED <<toWorker, handles, disk>>
  BY DEF getFile
<1>4. AllOpen(r) /\ TasksInOrder(r)
  BY DEF HandlesAt
<1>5. PICK x : x = [type |-> "FILE_READY", file |-> m.file, data |-> disk[r][m.file]]
  OBVIOUS
<1>6. x \in WorkerReply /\ x.type = "FILE_READY"
  <2>1. m.file \in File /\ disk[r][m.file] \in Content
    BY DiskTypes DEF Suspending
  <2> QED BY <1>5, <2>1 DEF WorkerReply
<1>7. fromWorker'[r] = Append(fromWorker[r], x)
  BY <1>3, <1>5, <1>6, Replied
<1>8. SameWork(r) /\ SameSuccess(r)
  BY <1>3, <1>4, <1>6, <1>7, WorkKept, SuccessKept
<1>9. \A y : y.type = "INIT_FILE" => (y \in suspended'[r] <=> y \in suspended[r])
  BY <1>3, DiskTypes
<1> QED BY <1>2, <1>3, <1>4, <1>8, <1>9, HandlesKept DEF AllOpen

LEMMA WorkerStepHandles ==
  ASSUME TypeInv, NEW r \in Receiver, DataAt(r), HandlesAt(r), OpfsStep(r)
  PROVE  HandlesAt(r)'
BY writeChunkHandles, closeFileHandles, suspendHandles, initFileHandles, getFileHandles
   DEF OpfsStep, WorkerStep

-----------------------------------------------------------------------------
\* Steps of other pages, and of their workers.
PageUntouched(s) ==
  /\ LoopKept(s) /\ PageKept(s)
  /\ toReceiver'[s] = toReceiver[s] /\ toSender'[s] = toSender[s]
  /\ active'[s] = active[s] /\ finishing'[s] = finishing[s]
  /\ memory'[s] = memory[s] /\ record'[s] = record[s] /\ delivered'[s] = delivered[s]
  /\ toWorker'[s] = toWorker[s] /\ suspended'[s] = suspended[s]
  /\ handles'[s] = handles[s] /\ disk'[s] = disk[s] /\ fromWorker'[s] = fromWorker[s]

\* What the handlers of one page leave of the files of another page.
DataElsewhere(s) ==
  /\ handles'[s] = handles[s] /\ disk'[s] = disk[s] /\ suspended'[s] = suspended[s]
  /\ toWorker'[s] = toWorker[s] /\ fromWorker'[s] = fromWorker[s]
  /\ memory'[s] = memory[s] /\ record'[s] = record[s] /\ delivered'[s] = delivered[s]

LEMMA StoredElsewhere ==
  ASSUME TypeInv, NEW r \in Receiver, NEW cs, StoreChunks(r, cs), NEW s \in Receiver, s # r
  PROVE  toWorker'[s] = toWorker[s] /\ memory'[s] = memory[s] /\ record'[s] = record[s]
<1>1. CASE ToDisk(r)
  <2>1. \/ record' = record
        \/ record' = [record EXCEPT ![r] = [@ EXCEPT ![active[r]] = total[r] + Len(cs)]]
    BY <1>1 DEF StoreChunks
  <2> QED BY <1>1, <2>1, DiskTypes DEF StoreChunks
<1>2. CASE ~ToDisk(r)
  BY <1>2, DiskTypes DEF StoreChunks
<1> QED BY <1>1, <1>2

LEMMA HandlerElsewhere ==
  ASSUME TypeInv, NEW r \in Receiver, ReceiverHandler(r), NEW s \in Receiver, s # r
  PROVE  DataElsewhere(s)
<1> USE DEF DataElsewhere
<1>1. CASE onChunk(r)
  <2>1. (\E cs : StoreChunks(r, cs)) \/ UNCHANGED <<toWorker, record, memory>>
    BY <1>1 DEF onChunk
  <2>2. UNCHANGED <<handles, disk, suspended, fromWorker, delivered>>
    BY <1>1 DEF onChunk, WorkerElsewhere
  <2> QED BY <2>1, <2>2, StoredElsewhere
<1>2. CASE onOffer(r) \/ onOfferInMemory(r)
  BY <1>2, DiskTypes DEF onOffer, onOfferInMemory, StartFile, WorkerElsewhere
<1>3. CASE \E h \in offers[r] : recordFound(r, h)
  BY <1>3, DiskTypes DEF recordFound, StartFile, WorkerElsewhere
<1>4. CASE fileInitialised(r)
  <2>1. (\E cs : StoreChunks(r, cs)) \/ UNCHANGED <<toWorker, record, memory>>
    BY <1>4 DEF fileInitialised
  <2>2. UNCHANGED <<handles, disk, suspended, delivered>> /\ TakeReply(r)
    BY <1>4 DEF fileInitialised
  <2>3. fromWorker'[s] = fromWorker[s]
    BY <2>2, DiskTypes DEF TakeReply
  <2> QED BY <2>1, <2>2, <2>3, StoredElsewhere
<1>5. CASE onComplete(r)
  BY <1>5, DiskTypes DEF onComplete, HandOver, WorkerElsewhere
<1>6. CASE fileClosed(r)
  BY <1>6, DiskTypes DEF fileClosed, TakeReply
<1>7. CASE fileReady(r)
  BY <1>7, DiskTypes DEF fileReady, HandOver, TakeReply
<1>8. CASE \E h \in finishing[r] : recordDeleted(r, h)
  BY <1>8, DiskTypes DEF recordDeleted, EndOfFile, workerVars
<1>9. CASE chunkWritten(r) \/ replyDropped(r)
  BY <1>9, DiskTypes DEF chunkWritten, replyDropped, TakeReply, receiverVars
<1>10. CASE workerError(r)
  <2>1. UNCHANGED <<handles, disk, suspended, toWorker, record, delivered>> /\ TakeReply(r)
    BY <1>10 DEF workerError
  <2>2. memory' = memory \/ memory' = [memory EXCEPT ![r] = <<>>]
    BY <1>10 DEF workerError, EndOfFile
  <2> QED BY <2>1, <2>2, DiskTypes DEF TakeReply
<1>11. CASE onPauseSignal(r)
  BY <1>11 DEF onPauseSignal, workerVars
<1> QED BY <1>1, <1>2, <1>3, <1>4, <1>5, <1>6, <1>7, <1>8, <1>9, <1>10, <1>11
        DEF ReceiverHandler

LEMMA PageStepElsewhere ==
  ASSUME TypeInv, NEW r \in Receiver, ReceiverStep(r), NEW s \in Receiver, s # r
  PROVE  PageUntouched(s)
<1>1. /\ toReceiver'[s] = toReceiver[s] /\ toSender'[s] = toSender[s] /\ offers'[s] = offers[s]
      /\ active'[s] = active[s] /\ finishing'[s] = finishing[s]
  BY HandlersKeepOthers DEF ReceiverStep, OtherPagesKept
<1>2. /\ ready'[s] = ready[s] /\ meta'[s] = meta[s] /\ total'[s] = total[s]
      /\ early'[s] = early[s]
  BY CountsElsewhere DEF ReceiverStep
<1>3. DataElsewhere(s)
  BY HandlerElsewhere DEF ReceiverStep
<1>4. LoopKept(s)
  BY DEF ReceiverStep, senderVars, LoopKept
<1> QED BY <1>1, <1>2, <1>3, <1>4 DEF PageUntouched, PageKept, DataElsewhere

LEMMA WorkerStepElsewhere ==
  ASSUME TypeInv, NEW r \in Receiver, OpfsStep(r), NEW s \in Receiver, s # r
  PROVE  PageUntouched(s)
<1>1. UNCHANGED <<channelVars, senderVars, receiverVars>>
  BY DEF OpfsStep
<1>2. LoopKept(s) /\ PageKept(s)
  BY <1>1 DEF LoopKept, PageKept, senderVars, receiverVars
<1>3. /\ toWorker'[s] = toWorker[s] /\ suspended'[s] = suspended[s]
      /\ handles'[s] = handles[s] /\ disk'[s] = disk[s] /\ fromWorker'[s] = fromWorker[s]
  <2>1. CASE writeChunk(r)
    BY <2>1, DiskTypes DEF writeChunk, Reply, Take
  <2>2. CASE writeChunkFails(r)
    BY <2>2, DiskTypes DEF writeChunkFails, Reply, Take
  <2>3. CASE closeFile(r)
    BY <2>3, DiskTypes DEF closeFile, Reply, Take
  <2>4. CASE suspend(r)
    BY <2>4, DiskTypes DEF suspend, Take
  <2>5. CASE initFile(r)
    BY <2>5, DiskTypes DEF initFile, Reply
  <2>6. CASE getFile(r)
    BY <2>6, DiskTypes DEF getFile, Reply
  <2> QED BY <2>1, <2>2, <2>3, <2>4, <2>5, <2>6 DEF OpfsStep, WorkerStep
<1> QED BY <1>1, <1>2, <1>3 DEF PageUntouched, channelVars, receiverVars

LEMMA ReloadElsewhere ==
  ASSUME TypeInv, NEW r \in Receiver, ReceiverReload(r), NEW s \in Receiver, s # r
  PROVE  PageUntouched(s)
<1>1. /\ toReceiver' = [toReceiver EXCEPT ![r] = <<>>]
      /\ toSender' = [toSender EXCEPT ![r] = <<>>]
      /\ lost' = lost \cup (targets \cap {r})
      /\ UNCHANGED <<pc, todo, targets, offset, resumeAt>>
      /\ PageReloaded(r)
  BY DEF ReceiverReload
<1>2. LoopKept(s)
  BY <1>1, DataTypes DEF LoopKept
<1>3. /\ PageKept(s) /\ active'[s] = active[s] /\ finishing'[s] = finishing[s]
      /\ memory'[s] = memory[s] /\ record'[s] = record[s] /\ delivered'[s] = delivered[s]
  BY <1>1, DataTypes, DiskTypes DEF PageKept, PageReloaded
<1>4. /\ toWorker'[s] = toWorker[s] /\ suspended'[s] = suspended[s]
      /\ handles'[s] = handles[s] /\ disk'[s] = disk[s] /\ fromWorker'[s] = fromWorker[s]
  BY <1>1, DiskTypes DEF PageReloaded, TerminateWorker
<1> QED BY <1>1, <1>2, <1>3, <1>4, DataTypes DEF PageUntouched

LEMMA UntouchedHandles ==
  ASSUME TypeInv, NEW s \in Receiver, DataAt(s), SentAt(s), HandlesAt(s), PageUntouched(s)
  PROVE  ReceptionKept(s) /\ HandlesAt(s)'
<1>1. LoopKept(s) /\ PageKept(s) /\ toReceiver'[s] = toReceiver[s] /\ SameAccepts(s)
  BY AcceptsKept DEF PageUntouched
<1>2. ReceptionKept(s)
  BY <1>1, NotForChunks
<1>3. TasksInOrder(s) /\ AllOpen(s)
  BY DEF HandlesAt
<1>4. SameWork(s) /\ SameSuccess(s)
  BY <1>3, WorkKept, SuccessKept DEF PageUntouched
<1> QED BY <1>1, <1>2, <1>3, <1>4, HandlesKept DEF PageUntouched, PageKept, ReceptionKept, AllOpen

LEMMA SenderHandles ==
  ASSUME TypeInv, NEW r \in Receiver, HandlesAt(r), ReceptionKept(r), OnlySender
  PROVE  HandlesAt(r)'
<1>1. UNCHANGED <<workerVars, receiverVars>>
  BY DEF OnlySender
<1>2. TasksInOrder(r) /\ AllOpen(r)
  BY DEF HandlesAt
<1>3. SameWork(r) /\ SameSuccess(r)
  BY <1>1, <1>2, WorkKept, SuccessKept DEF workerVars
<1> QED BY <1>1, <1>2, <1>3, HandlesKept DEF ReceptionKept, AllOpen, workerVars, receiverVars

\* A page that has just been loaded.
LEMMA PageLoaded ==
  ASSUME TypeInv, NEW r \in Receiver, ReceiverReload(r)
  PROVE  /\ toReceiver'[r] = <<>> /\ toWorker'[r] = <<>> /\ fromWorker'[r] = <<>>
         /\ suspended'[r] = {} /\ handles'[r] = {} /\ offers'[r] = {} /\ finishing'[r] = {}
         /\ ~ready'[r] /\ active'[r] = None
         /\ disk' = disk /\ record' = record /\ delivered' = delivered
         /\ r \notin targets' \ lost'
BY DataTypes, DiskTypes DEF ReceiverReload, PageReloaded, TerminateWorker

LEMMA PageLoadedKnows ==
  ASSUME TypeInv, NEW r \in Receiver, ReceiverReload(r)
  PROVE  SentAt(r)' /\ HandlesAt(r)' /\ ~Receiving(r)'
<1>1. /\ toReceiver'[r] = <<>> /\ toWorker'[r] = <<>> /\ fromWorker'[r] = <<>>
      /\ suspended'[r] = {} /\ handles'[r] = {} /\ offers'[r] = {} /\ finishing'[r] = {}
      /\ ~ready'[r] /\ active'[r] = None /\ r \notin targets' \ lost'
  BY PageLoaded
<1>2. \A T : ~Has(<<>>, T)
  BY SetNothing DEF Has
<1>3. SentAt(r)'
  <2>1. Answered(r)'
    BY <1>1 DEF Answered
  <2>2. toReceiver'[r] \in Seq(DownMessage) /\ Quiet(toReceiver'[r])
    BY <1>1, <1>2, ShortSequences DEF Quiet
  <2> QED BY <2>1, <2>2, QuietSent
<1>4. AllOpen(r)' /\ UsesHandle(r)' /\ HandleForFile(r)' /\ ActiveFile(r)' /\ ~InitSuspended(r)'
      /\ ~Receiving(r)'
  BY <1>1, <1>2, SetNothing
     DEF AllOpen, UsesHandle, HandleForFile, ActiveFile, InitSuspended, Receiving
<1>5. HandlesAt(r)'
  <2>1. Apart(toWorker'[r], {"CLOSE_FILE"}, {"CLOSE_FILE", "WRITE_CHUNK"})
    BY <1>1, ApartShort
  <2>2. toWorker'[r] \in Seq(WorkerRequest) /\ fromWorker'[r] \in Seq(WorkerReply)
    BY <1>1, ShortSequences
  <2> QED BY <1>1, <1>2, <1>4, <2>1, <2>2, NothingOpens
<1> QED BY <1>3, <1>4, <1>5

-----------------------------------------------------------------------------
\* The writes waiting in the worker.
SameWrites(r) ==
  /\ \A x \in ToSet(toWorker'[r]) : x.type = "WRITE_CHUNK" => x \in ToSet(toWorker[r])
  /\ \A f, n, m : n \in Nat /\ Numbered(toWorker[r], WritesTo(f), WriteOffset, n, m)
                    => Numbered(toWorker'[r], WritesTo(f), WriteOffset, n, m)

LEMMA WritesQueued ==
  ASSUME TypeInv, NEW r \in Receiver,
         \/ toWorker'[r] = toWorker[r]
         \/ \E x \in WorkerRequest : /\ x.type # "WRITE_CHUNK"
                                     /\ toWorker'[r] = Append(toWorker[r], x)
         \/ /\ toWorker[r] # <<>> /\ Head(toWorker[r]).type # "WRITE_CHUNK"
            /\ toWorker'[r] = Tail(toWorker[r])
         \/ toWorker'[r] = <<>> /\ ~WritesWaiting(r)
  PROVE  SameWrites(r)
<1>1. toWorker[r] \in Seq(WorkerRequest)
  BY DiskTypes
<1>2. CASE toWorker'[r] = toWorker[r]
  BY <1>2 DEF SameWrites
<1>3. ASSUME NEW x \in WorkerRequest, x.type # "WRITE_CHUNK", toWorker'[r] = Append(toWorker[r], x)
      PROVE  SameWrites(r)
  <2>1. toWorker'[r] = toWorker[r] \o <<x>>
    BY <1>1, <1>3
  <2>2. ToSet(toWorker'[r]) = ToSet(toWorker[r]) \cup {x}
    BY <1>1, <2>1, SetMore
  <2>3. \A f : x \notin WritesTo(f)
    BY <1>3 DEF WritesTo
  <2>4. ASSUME NEW f, NEW n \in Nat, NEW m, Numbered(toWorker[r], WritesTo(f), WriteOffset, n, m)
        PROVE  Numbered(toWorker'[r], WritesTo(f), WriteOffset, n, m)
    BY <1>1, <1>3, <2>3, <2>4, NumberedMore
  <2> QED BY <1>3, <2>2, <2>4 DEF SameWrites
<1>4. ASSUME toWorker[r] # <<>>, Head(toWorker[r]).type # "WRITE_CHUNK",
             toWorker'[r] = Tail(toWorker[r])
      PROVE  SameWrites(r)
  <2>1. ToSet(toWorker[r]) = {Head(toWorker[r])} \cup ToSet(toWorker'[r])
    BY <1>1, <1>4, SetTail
  <2>2. \A f : Head(toWorker[r]) \notin WritesTo(f)
    BY <1>4 DEF WritesTo
  <2>3. ASSUME NEW f, NEW n \in Nat, NEW m, Numbered(toWorker[r], WritesTo(f), WriteOffset, n, m)
        PROVE  Numbered(toWorker'[r], WritesTo(f), WriteOffset, n, m)
    <3>1. PICK q \in Seq(WorkerRequest) : q = toWorker[r]
      BY <1>1
    <3>2. q # <<>> /\ Head(q) \notin WritesTo(f) /\ toWorker'[r] = Tail(q)
          /\ Numbered(q, WritesTo(f), WriteOffset, n, m)
      BY <1>4, <2>2, <2>3, <3>1
    <3>3. Numbered(Tail(q), WritesTo(f), WriteOffset, n, m)
      BY <3>2, NumberedTail
    <3> QED BY <3>2, <3>3
  <2> QED BY <2>1, <2>3 DEF SameWrites
<1>5. ASSUME toWorker'[r] = <<>>, ~WritesWaiting(r)
      PROVE  SameWrites(r)
  <2>1. \A f : \A x \in ToSet(toWorker[r]) : x \notin WritesTo(f)
    BY <1>1, <1>5 DEF WritesTo, WritesWaiting, ToSet
  <2>2. ASSUME NEW f, NEW n \in Nat, NEW m, Numbered(toWorker[r], WritesTo(f), WriteOffset, n, m)
        PROVE  Numbered(toWorker'[r], WritesTo(f), WriteOffset, n, m)
    <3>1. m = n
      BY <1>1, <2>1, <2>2, NumberedBounds
    <3>2. PICK q : q = toWorker'[r]
      OBVIOUS
    <3>3. q \in Seq(WorkerRequest) /\ \A x \in ToSet(q) : x \notin WritesTo(f)
      BY <1>5, <3>2, ShortSequences, SetNothing
    <3>4. Numbered(q, WritesTo(f), WriteOffset, n, n)
      BY <3>3, NumberedNone
    <3> QED BY <3>1, <3>2, <3>4
  <2> QED BY <1>5, <2>2, SetNothing DEF SameWrites
<1> QED BY <1>2, <1>3, <1>4, <1>5

LEMMA WritesKept ==
  ASSUME TypeInv, NEW r \in Receiver, WritesAt(r), SameWrites(r),
         disk'[r] = disk[r],
         \A f \in File : record'[r][f] \in {record[r][f], None},
         \A h \in offers'[r] : h.stage = "init" =>
            h \in offers[r] \/ h.start = StartOffset(r, h.file),
         Receiving(r)' /\ r \in OpfsReceiver /\ active'[r] = meta'[r] /\ meta'[r] \in File =>
            Receiving(r) /\ active[r] = meta[r] /\ meta'[r] = meta[r] /\ total'[r] = total[r]
  PROVE  WritesAt(r)'
<1>1. WritesRight(r) /\ WritesContinue(r) /\ PrefixOnDisk(r)
  BY DEF WritesAt
<1>2. WritesRight(r)' /\ PrefixOnDisk(r)'
  BY <1>1 DEF WritesRight, PrefixOnDisk, SameWrites
<1>3. ASSUME NEW f \in File
      PROVE  \E n, m \in Nat : Continues(r, f, n, m)' /\ ClaimsBacked(r, f, m)'
  <2>1. PICK n \in Nat, m \in Nat : Continues(r, f, n, m) /\ ClaimsBacked(r, f, m)
    BY <1>1 DEF WritesContinue
  <2>2. Continues(r, f, n, m)'
    BY <2>1 DEF Continues, SameWrites
  <2>3. \A k : Backed(r, f, m, k)' <=> Backed(r, f, m, k)
    BY DEF Backed
  <2>4. record[r][f] # None => Backed(r, f, m, record[r][f])
    BY <2>1 DEF ClaimsBacked
  <2>5. (record[r][f] # None => Backed(r, f, m, record[r][f]))'
    BY <2>4 DEF Backed
  <2>6. Backed(r, f, m, 0) /\ Backed(r, f, m, StartOffset(r, f))
    <3>1. Backed(r, f, m, 0)
      BY <2>1 DEF Backed
    <3> QED BY <2>4, <3>1 DEF StartOffset
  <2>7. ASSUME NEW h \in offers'[r], h.stage = "init", h.file = f
        PROVE  Backed(r, f, m, h.start)'
    BY <2>1, <2>3, <2>6, <2>7 DEF ClaimsBacked
  <2>8. Receiving(r)' /\ r \in OpfsReceiver /\ meta'[r] = f /\ active'[r] = f => m = total'[r]
    BY <2>1 DEF ClaimsBacked
  <2> QED BY <2>2, <2>5, <2>7, <2>8 DEF ClaimsBacked
<1>4. WritesContinue(r)'
  BY <1>3 DEF WritesContinue
<1> QED BY <1>2, <1>4 DEF WritesAt

LEMMA SenderWrites ==
  ASSUME TypeInv, NEW r \in Receiver, WritesAt(r), ReceptionKept(r), OnlySender
  PROVE  WritesAt(r)'
<1>1. UNCHANGED <<workerVars, receiverVars>>
  BY DEF OnlySender
<1>2. SameWrites(r)
  BY <1>1, WritesQueued DEF workerVars
<1> QED BY <1>1, <1>2, WritesKept DEF ReceptionKept, workerVars, receiverVars

LEMMA UntouchedWrites ==
  ASSUME TypeInv, NEW s \in Receiver, WritesAt(s), ReceptionKept(s), PageUntouched(s)
  PROVE  WritesAt(s)'
<1>1. SameWrites(s)
  BY WritesQueued DEF PageUntouched
<1> QED BY <1>1, WritesKept DEF ReceptionKept, PageUntouched, PageKept

LEMMA ReloadWrites ==
  ASSUME TypeInv, NEW r \in Receiver, WritesAt(r), ReceiverReload(r), DrainedReload
  PROVE  WritesAt(r)'
<1>1. /\ toWorker'[r] = <<>> /\ offers'[r] = {} /\ disk' = disk /\ record' = record
      /\ ~Receiving(r)'
  BY PageLoaded, PageLoadedKnows
<1>2. ~WritesWaiting(r)
  BY DEF ReceiverReload
<1>3. SameWrites(r)
  BY <1>1, <1>2, WritesQueued
<1> QED BY <1>1, <1>3, WritesKept

LEMMA AsideWrites ==
  ASSUME TypeInv, NEW r \in Receiver, DataAt(r), SentAt(r), WritesAt(r), ReceiverStep(r), Aside(r)
  PROVE  WritesAt(r)'
<1> USE DEF Aside
<1>1. /\ Receiving(r)' <=> Receiving(r)
      /\ meta'[r] = meta[r] /\ total'[r] = total[r] /\ offers'[r] = offers[r]
  BY AsideSent, AsideLeaves DEF ReceptionKept, PageKept
<1>2. disk' = disk
  BY DEF fileClosed, fileReady, recordDeleted, chunkWritten, replyDropped, onPauseSignal,
         workerVars
<1>3. active'[r] \in {active[r], None}
  <2>1. ASSUME NEW h \in finishing[r], recordDeleted(r, h) PROVE active'[r] \in {active[r], None}
    BY <2>1, DiskTypes DEF recordDeleted, EndOfFile
  <2>2. active' = active \/ \E h \in finishing[r] : recordDeleted(r, h)
    BY DEF fileClosed, fileReady, chunkWritten, replyDropped, onPauseSignal, receiverVars
  <2> QED BY <2>1, <2>2
<1>4. \A f \in File : record'[r][f] \in {record[r][f], None}
  <2>1. CASE fileReady(r)
    <3>1. PICK g : g = ReplyFile(r) /\ record' = [record EXCEPT ![r][g] = None]
      BY <2>1 DEF fileReady
    <3> QED BY <3>1, DiskTypes
  <2>2. fileReady(r) \/ record' = record
    BY DEF fileClosed, recordDeleted, chunkWritten, replyDropped, onPauseSignal, receiverVars
  <2> QED BY <2>1, <2>2
<1>5. SameWrites(r)
  <2>1. CASE fileClosed(r)
    <3>1. PICK x : x = GetFile(ReplyFile(r))
      OBVIOUS
    <3>2. ReplyFile(r) \in File
      BY <2>1, TakenReply DEF fileClosed
    <3>3. x \in WorkerRequest /\ x.type = "GET_FILE"
      BY <3>1, <3>2 DEF GetFile, WorkerRequest, Suspending
    <3>4. toWorker'[r] = Append(toWorker[r], x)
      BY <2>1, <3>1, DiskTypes DEF fileClosed
    <3> QED BY <3>3, <3>4, WritesQueued
  <2>2. fileClosed(r) \/ toWorker' = toWorker
    BY DEF fileReady, recordDeleted, chunkWritten, replyDropped, onPauseSignal, workerVars
  <2> QED BY <2>1, <2>2, WritesQueued
<1> QED BY <1>1, <1>2, <1>3, <1>4, <1>5, NoneAssumption, WritesKept

LEMMA onOfferWrites ==
  ASSUME TypeInv, NEW r \in Receiver, DataAt(r), HandlesAt(r), WritesAt(r), ReceiverStep(r),
         onOffer(r) \/ onOfferInMemory(r)
  PROVE  WritesAt(r)'
<1>1. AllOpen(r)
  BY DEF HandlesAt
<1>2. offers[r] = {} /\ (Receiving(r)' <=> onOfferInMemory(r))
  BY <1>1, onOfferSent
<1>3. UNCHANGED <<toWorker, disk, record>>
  BY DEF onOffer, onOfferInMemory, WorkerElsewhere
<1>4. onOfferInMemory(r) => r \notin OpfsReceiver
  BY DEF onOfferInMemory
<1>5. \A h \in offers'[r] : h.stage # "init"
  <2>1. CASE onOffer(r)
    <3>1. PICK f : offers' = [offers EXCEPT ![r] =
                      @ \cup {[file |-> f, stage |-> "lookup", start |-> 0, channel |-> "open"]}]
      BY <2>1 DEF onOffer
    <3>2. offers'[r] = {[file |-> f, stage |-> "lookup", start |-> 0, channel |-> "open"]}
      BY <1>2, <3>1, DataTypes
    <3> QED BY <3>2
  <2>2. CASE onOfferInMemory(r)
    BY <1>2, <2>2 DEF onOfferInMemory
  <2> QED BY <2>1, <2>2
<1>6. SameWrites(r)
  BY <1>3, WritesQueued
<1> QED BY <1>2, <1>3, <1>4, <1>5, <1>6, WritesKept

LEMMA recordFoundWrites ==
  ASSUME TypeInv, NEW r \in Receiver, DataAt(r), HandlesAt(r), WritesAt(r), ReceiverStep(r),
         NEW h \in offers[r], recordFound(r, h)
  PROVE  WritesAt(r)'
<1>1. AllOpen(r)
  BY DEF HandlesAt
<1>2. ~Receiving(r)' /\ h \in OfferHandler
  BY <1>1, recordFoundSent, PageAsked
<1>3. UNCHANGED <<disk, record>>
  BY DEF recordFound, WorkerElsewhere
<1>4. PICK start, g : start = StartOffset(r, h.file)
                      /\ g = [h EXCEPT !.stage = "init", !.start = start]
  OBVIOUS
<1>5. offers'[r] = (offers[r] \ {h}) \cup {g} /\ g.start = start /\ g.file = h.file
  <2>1. offers' = [offers EXCEPT ![r] = (@ \ {h}) \cup {g}]
    BY <1>4 DEF recordFound
  <2>2. g.start = start /\ g.file = h.file
    BY <1>2, <1>4 DEF OfferHandler
  <2> QED BY <2>1, <2>2, DataTypes
<1>6. SameWrites(r)
  <2>1. PICK x : x = InitFile(h.file)
    OBVIOUS
  <2>2. x.type = "INIT_FILE" /\ x \in WorkerRequest
    BY <1>2, <2>1 DEF InitFile, WorkerRequest, Suspending, OfferHandler
  <2>3. toWorker'[r] = Append(toWorker[r], x)
    BY <2>1, DiskTypes DEF recordFound
  <2> QED BY <2>2, <2>3, WritesQueued
<1> QED BY <1>2, <1>3, <1>4, <1>5, <1>6, WritesKept

LEMMA onCompleteWrites ==
  ASSUME TypeInv, NEW r \in Receiver, DataAt(r), SentAt(r), WritesAt(r), ReceiverStep(r),
         onComplete(r)
  PROVE  WritesAt(r)'
<1>1. ~Receiving(r)' /\ meta[r] \in File
  BY onCompleteSent
<1>2. /\ UNCHANGED <<offers, record, disk>>
      /\ r \in OpfsReceiver => toWorker'[r] = Append(toWorker[r], CloseFile(meta[r]))
      /\ r \notin OpfsReceiver => toWorker' = toWorker
  BY CompletePosts
<1>3. SameWrites(r)
  <2>1. PICK x : x = CloseFile(meta[r])
    OBVIOUS
  <2>2. x.type = "CLOSE_FILE" /\ x \in WorkerRequest
    BY <1>1, <2>1 DEF CloseFile, WorkerRequest
  <2> QED BY <1>2, <2>1, <2>2, WritesQueued
<1> QED BY <1>1, <1>2, <1>3, WritesKept

\* A chunk goes to the worker: the next one to be written, counted by the record.
LEMMA onChunkWrites ==
  ASSUME TypeInv, NEW r \in Receiver, DataAt(r), SentAt(r), HandlesAt(r), WritesAt(r),
         ReceiverStep(r), onChunk(r)
  PROVE  WritesAt(r)'
<1>1. /\ Receiving(r) /\ total'[r] = total[r] + 1 /\ total[r] < Size[meta[r]]
      /\ Head(toReceiver[r]).data = [file |-> meta[r], index |-> total[r]]
      /\ Head(toReceiver[r]).data \in Payload
      /\ meta[r] \in File /\ total[r] \in Nat
      /\ UNCHANGED <<active, meta, offers, disk>>
  BY onChunkSent, ChunkStored, DataTypes DEF onChunk, WorkerElsewhere
<1>2. offers[r] = {} /\ active[r] \in {None, meta[r]}
  BY <1>1, WhileReceiving DEF Receiving
<1>3. WritesRight(r) /\ WritesContinue(r) /\ PrefixOnDisk(r)
  BY DEF WritesAt
<1>4. CASE ~ToDisk(r)
  <2>1. toWorker'[r] = toWorker[r] /\ record'[r] = record[r]
    BY <1>4, ChunkStored
  <2>2. SameWrites(r)
    BY <2>1, WritesQueued
  <2>3. ~(r \in OpfsReceiver /\ active'[r] = meta'[r])
    BY <1>1, <1>4, NoneAssumption DEF ToDisk
  <2> QED BY <1>1, <1>2, <2>1, <2>2, <2>3, WritesKept
<1>5. CASE ToDisk(r)
  <2>1. active[r] = meta[r] /\ r \in OpfsReceiver
    BY <1>2, <1>5 DEF ToDisk
  <2>2. PICK x : x = WriteChunk(active[r], Head(toReceiver[r]).data, total[r])
    OBVIOUS
  <2>3. /\ x.type = "WRITE_CHUNK" /\ x.file = meta[r] /\ x.offset = total[r]
        /\ x.chunk = [file |-> meta[r], index |-> total[r]]
        /\ x \in WorkerRequest
    BY <1>1, <2>1, <2>2 DEF WriteChunk, WorkerRequest
  <2>4. /\ toWorker'[r] = Append(toWorker[r], x)
        /\ record'[r] = [record[r] EXCEPT ![meta[r]] = total[r] + 1]
    BY <1>5, <2>1, <2>2, ChunkStored
  <2>5. PICK q \in Seq(WorkerRequest) : q = toWorker[r]
    BY DiskTypes
  <2>6. toWorker'[r] = q \o <<x>>
    BY <2>3, <2>4, <2>5, AppendConcat
  <2>7. ToSet(toWorker'[r]) = ToSet(q) \cup {x}
    BY <2>6, SetMore
  <2>8. WritesRight(r)'
    BY <1>1, <1>3, <2>3, <2>5, <2>7 DEF WritesRight
  <2>9. PrefixOnDisk(r)'
    BY <1>1, <1>3 DEF PrefixOnDisk
  <2>10. ASSUME NEW f \in File
         PROVE  \E n, m \in Nat : Continues(r, f, n, m)' /\ ClaimsBacked(r, f, m)'
    <3>1. PICK n \in Nat, m \in Nat : Continues(r, f, n, m) /\ ClaimsBacked(r, f, m)
      BY <1>3 DEF WritesContinue
    <3>2. Numbered(q, WritesTo(f), WriteOffset, n, m) /\ n <= Len(disk[r][f])
      BY <2>5, <3>1 DEF Continues
    <3>3. CASE f = meta[r]
      <4>1. m = total[r]
        BY <1>1, <2>1, <3>1, <3>3 DEF ClaimsBacked
      <4>2. x \in WritesTo(f) /\ WriteOffset[x] = m
        BY <2>3, <3>3, <4>1 DEF WritesTo, WriteOffset
      <4>3. Numbered(Append(q, x), WritesTo(f), WriteOffset, n, m + 1)
        BY <2>3, <3>2, <4>2, NumberedMore
      <4>4. Continues(r, f, n, m + 1)'
        BY <1>1, <2>4, <2>5, <3>2, <4>3 DEF Continues
      <4>5. record'[r][f] = m + 1
        BY <2>4, <3>3, <4>1, DiskTypes
      <4>6. ClaimsBacked(r, f, m + 1)'
        <5>1. (record[r][f] # None => Backed(r, f, m + 1, record[r][f]))'
          BY <4>5 DEF Backed
        <5> QED BY <1>1, <1>2, <4>1, <5>1 DEF ClaimsBacked
      <4> QED BY <4>4, <4>6
    <3>4. CASE f # meta[r]
      <4>1. x \notin WritesTo(f)
        BY <2>3, <3>4 DEF WritesTo
      <4>2. Numbered(Append(q, x), WritesTo(f), WriteOffset, n, m)
        BY <2>3, <3>2, <4>1, NumberedMore
      <4>3. Continues(r, f, n, m)'
        BY <1>1, <2>4, <2>5, <3>2, <4>2 DEF Continues
      <4>4. record'[r][f] = record[r][f]
        BY <2>4, <3>4, DiskTypes
      <4>5. ClaimsBacked(r, f, m)'
        BY <1>1, <1>2, <3>1, <3>4, <4>4 DEF ClaimsBacked, Backed
      <4> QED BY <4>3, <4>5
    <3> QED BY <3>3, <3>4
  <2>11. WritesContinue(r)'
    BY <2>10 DEF WritesContinue
  <2> QED BY <2>8, <2>9, <2>11 DEF WritesAt
<1> QED BY <1>4, <1>5

\* Reception starts where the disk ends, or before: nothing is left to be written.
LEMMA fileInitialisedWrites ==
  ASSUME TypeInv, NEW r \in Receiver, DataAt(r), SentAt(r), HandlesAt(r), WritesAt(r),
         ReceiverStep(r), fileInitialised(r)
  PROVE  WritesAt(r)'
<1>1. /\ toWorker'[r] = toWorker[r] /\ record'[r] = record[r] /\ total'[r] = total[r]
      /\ ~Has(toWorker[r], {"CLOSE_FILE", "WRITE_CHUNK"})
  BY fileInitialisedHandles
<1>2. PICK h \in offers[r] : h.stage = "init" /\ h.file = meta[r] /\ h.start = total[r]
  BY fileInitialisedHandles
<1>3. offers'[r] = {}
  <2>1. AllOpen(r)
    BY DEF HandlesAt
  <2> QED BY <2>1, fileInitialisedSent
<1>4. UNCHANGED <<disk, meta>>
  BY DEF fileInitialised
<1>5. WritesRight(r) /\ WritesContinue(r) /\ PrefixOnDisk(r)
  BY DEF WritesAt
<1>6. PICK q \in Seq(WorkerRequest) : q = toWorker[r]
  BY DiskTypes
<1>7. total[r] \in Nat
  BY DataTypes
<1>8. ASSUME NEW f \in File
      PROVE  \E n, m \in Nat : Continues(r, f, n, m)' /\ ClaimsBacked(r, f, m)'
  <2>1. PICK n \in Nat, m \in Nat : Continues(r, f, n, m) /\ ClaimsBacked(r, f, m)
    BY <1>5 DEF WritesContinue
  <2>2. Numbered(q, WritesTo(f), WriteOffset, n, m) /\ n <= Len(disk[r][f])
    BY <1>6, <2>1 DEF Continues
  <2>3. \A x \in ToSet(q) : x \notin WritesTo(f)
    BY <1>1, <1>6 DEF Has, WritesTo
  <2>4. m = n
    BY <2>2, <2>3, NumberedBounds
  <2>5. record'[r][f] # None => Backed(r, f, m, record[r][f])
    BY <1>1, <2>1 DEF ClaimsBacked
  <2>6. CASE f # meta[r]
    <3>1. Continues(r, f, n, m)'
      BY <1>1, <1>4, <2>1 DEF Continues
    <3>2. ClaimsBacked(r, f, m)'
      BY <1>1, <1>3, <1>4, <2>5, <2>6 DEF ClaimsBacked, Backed
    <3> QED BY <3>1, <3>2
  <2>7. CASE f = meta[r]
    <3>1. Backed(r, f, m, total[r])
      BY <1>2, <2>1, <2>7 DEF ClaimsBacked
    <3>2. /\ disk[r][f] \in Seq(Payload \cup {None}) /\ Len(disk[r][f]) \in Nat
          /\ record[r][f] \in Nat \cup {None}
      BY DiskTypes DEF Content
    <3>3. total[r] <= Len(disk[r][f])
      BY <1>7, <2>2, <2>4, <3>1, <3>2 DEF Backed
    <3>4. Numbered(q, WritesTo(f), WriteOffset, total[r], total[r])
      BY <1>7, <2>3, NumberedNone
    <3>5. PICK k \in Nat : k = total[r]
      BY <1>7
    <3>6. Continues(r, f, k, k)'
      BY <1>1, <1>4, <1>6, <3>3, <3>4, <3>5 DEF Continues
    <3>7. record'[r][f] # None => record'[r][f] <= Len(disk[r][f])
      BY <1>1, <2>2, <2>4, <2>5, <3>2 DEF Backed
    <3>8. ClaimsBacked(r, f, k)'
      BY <1>1, <1>3, <1>4, <3>5, <3>7 DEF ClaimsBacked, Backed
    <3> QED BY <3>6, <3>8
  <2> QED BY <2>6, <2>7
<1>9. WritesContinue(r)'
  BY <1>8 DEF WritesContinue
<1>10. WritesRight(r)' /\ PrefixOnDisk(r)'
  BY <1>1, <1>4, <1>5 DEF WritesRight, PrefixOnDisk
<1> QED BY <1>9, <1>10 DEF WritesAt

\* A write at the end of the content or before it leaves no hole.
LEMMA WrittenNext ==
  ASSUME NEW data \in Content, NEW chunk \in Payload \cup {None}, NEW at \in 0..Len(data),
         NEW new, new = Written(data, chunk, at)
  PROVE  /\ Len(new) \in Nat /\ Len(new) >= Len(data) /\ Len(new) >= at + 1
         /\ Len(new) = Len(data) \/ Len(new) = at + 1
         /\ \A i \in 1..Len(new) : \/ i = at + 1 /\ new[i] = chunk
                                   \/ i \in 1..Len(data) /\ new[i] = data[i]
<1>1. Len(data) \in Nat /\ data \in Seq(Payload \cup {None})
  BY DEF Content
<1>2. PICK k \in Nat : /\ k = Longer(Len(data), at + 1)
                       /\ k >= Len(data) /\ k >= at + 1
                       /\ k = Len(data) \/ k = at + 1
  BY <1>1 DEF Longer
<1>3. new = [i \in 1..k |->
               IF i = at + 1 THEN chunk ELSE IF i <= Len(data) THEN data[i] ELSE None]
  BY <1>2 DEF Written
<1>4. \A i \in 1..k : i # at + 1 => i \in 1..Len(data)
  BY <1>1, <1>2
<1>5. \A i \in 1..k : \/ i = at + 1 /\ new[i] = chunk
                      \/ i \in 1..Len(data) /\ new[i] = data[i]
  BY <1>1, <1>3, <1>4
<1>6. new \in [1..k -> Payload \cup {None}]
  <2>1. \A i \in 1..Len(data) : data[i] \in Payload \cup {None}
    BY <1>1
  <2>2. \A i \in 1..k : new[i] \in Payload \cup {None}
    BY <1>5, <2>1
  <2> QED BY <1>3, <2>2
<1>7. Len(new) = k
  BY <1>2, <1>6, FunctionIsSeq
<1> QED BY <1>2, <1>5, <1>7

LEMMA writeChunkWrites ==
  ASSUME TypeInv, NEW r \in Receiver, WritesAt(r), OpfsStep(r), writeChunk(r)
  PROVE  WritesAt(r)'
<1>1. UNCHANGED <<toReceiver, toSender, senderVars, receiverVars>>
  BY DEF OpfsStep, channelVars
<1>2. /\ Receiving(r)' <=> Receiving(r)
      /\ UNCHANGED <<meta, total, active, offers, record>>
  BY <1>1, WorkerAside DEF receiverVars
<1>3. PICK m0 : m0 = Head(toWorker[r])
  OBVIOUS
<1>4. /\ toWorker[r] # <<>> /\ m0.type = "WRITE_CHUNK" /\ Take(r)
      /\ disk' = [disk EXCEPT ![r][m0.file] = Written(@, m0.chunk, m0.offset)]
  BY <1>3 DEF writeChunk
<1>5. PICK q \in Seq(WorkerRequest) : q = toWorker[r]
  BY DiskTypes
<1>6. /\ toWorker'[r] = Tail(q) /\ q # <<>> /\ m0 = Head(q)
      /\ ToSet(q) = {m0} \cup ToSet(toWorker'[r])
      /\ m0 \in WorkerRequest /\ m0.file \in File
  BY <1>3, <1>4, <1>5, TakenRequest
<1>7. m0.chunk \in Payload /\ m0.offset \in Nat
  BY <1>4, <1>6, RequestFields
<1>8. WritesRight(r) /\ WritesContinue(r) /\ PrefixOnDisk(r)
  BY DEF WritesAt
<1>9. m0.chunk = [file |-> m0.file, index |-> m0.offset] /\ m0.offset < Size[m0.file]
  BY <1>4, <1>5, <1>6, <1>8 DEF WritesRight
<1>10. PICK n \in Nat, m \in Nat : Continues(r, m0.file, n, m) /\ ClaimsBacked(r, m0.file, m)
  BY <1>6, <1>8 DEF WritesContinue
<1>11. /\ m0.offset = n /\ Numbered(Tail(q), WritesTo(m0.file), WriteOffset, n + 1, m)
       /\ n <= Len(disk[r][m0.file])
  <2>1. m0 \in WritesTo(m0.file) /\ WriteOffset[m0] = m0.offset
    BY <1>4, <1>6 DEF WritesTo, WriteOffset
  <2>2. Numbered(q, WritesTo(m0.file), WriteOffset, n, m) /\ n <= Len(disk[r][m0.file])
    BY <1>5, <1>10 DEF Continues
  <2> QED BY <1>6, <2>1, <2>2, NumberedTail
<1>12. PICK data \in Content : data = disk[r][m0.file] /\ Len(data) \in Nat
  <2>1. disk[r][m0.file] \in Content
    BY <1>6, DiskTypes
  <2> QED BY <2>1 DEF Content
<1>13. PICK new : new = Written(data, m0.chunk, n)
  OBVIOUS
<1>14. /\ disk'[r][m0.file] = new
       /\ \A f \in File : f # m0.file => disk'[r][f] = disk[r][f]
  BY <1>4, <1>6, <1>11, <1>12, <1>13, DiskTypes
<1>15. /\ Len(new) \in Nat /\ Len(new) >= Len(data) /\ Len(new) >= n + 1
       /\ Len(new) = Len(data) \/ Len(new) = n + 1
       /\ \A i \in 1..Len(new) : \/ i = n + 1 /\ new[i] = m0.chunk
                                 \/ i \in 1..Len(data) /\ new[i] = data[i]
  <2>1. n \in 0..Len(data) /\ m0.chunk \in Payload \cup {None}
    BY <1>7, <1>11, <1>12
  <2> QED BY <1>13, <2>1, WrittenNext
<1>16. WritesRight(r)'
  BY <1>5, <1>6, <1>8 DEF WritesRight
<1>17. PrefixOnDisk(r)'
  <2>1. ASSUME NEW f \in File, f # m0.file
        PROVE  /\ Len(disk'[r][f]) <= Size[f]
               /\ \A i \in 1..Len(disk'[r][f]) : disk'[r][f][i] = [file |-> f, index |-> i - 1]
    BY <1>8, <1>14, <2>1 DEF PrefixOnDisk
  <2>2. Len(new) <= Size[m0.file]
    <3>1. Len(data) <= Size[m0.file] /\ Size[m0.file] \in Nat
      BY <1>6, <1>8, <1>12, SizeAssumption DEF PrefixOnDisk
    <3> QED BY <1>9, <1>11, <1>15, <3>1
  <2>3. ASSUME NEW i \in 1..Len(new)
        PROVE  new[i] = [file |-> m0.file, index |-> i - 1]
    <3>1. CASE i = n + 1 /\ new[i] = m0.chunk
      <4>1. i - 1 = m0.offset
        BY <1>7, <1>11, <3>1
      <4> QED BY <1>9, <3>1, <4>1
    <3>2. CASE i \in 1..Len(data) /\ new[i] = data[i]
      BY <1>6, <1>8, <1>12, <3>2 DEF PrefixOnDisk
    <3> QED BY <1>15, <3>1, <3>2
  <2> QED BY <1>14, <2>1, <2>2, <2>3 DEF PrefixOnDisk
<1>18. ASSUME NEW f \in File
       PROVE  \E k, l \in Nat : Continues(r, f, k, l)' /\ ClaimsBacked(r, f, l)'
  <2>1. CASE f = m0.file
    <3>1. PICK k \in Nat : k = n + 1
      OBVIOUS
    <3>2. Continues(r, f, k, m)'
      BY <1>6, <1>11, <1>14, <1>15, <2>1, <3>1 DEF Continues
    <3>3. ClaimsBacked(r, f, m)'
      <4>1. ASSUME NEW j, j \in Nat, Backed(r, f, m, j) PROVE Backed(r, f, m, j)'
        BY <1>12, <1>14, <1>15, <2>1, <4>1 DEF Backed
      <4>2. record[r][f] \in Nat \cup {None} /\ \A h \in offers[r] : h.start \in Nat
        BY DiskTypes, DataTypes DEF OfferHandler
      <4> QED BY <1>2, <1>10, <2>1, <4>1, <4>2 DEF ClaimsBacked
    <3> QED BY <3>2, <3>3
  <2>2. CASE f # m0.file
    <3>1. PICK k \in Nat, l \in Nat : Continues(r, f, k, l) /\ ClaimsBacked(r, f, l)
      BY <1>8 DEF WritesContinue
    <3>2. m0 \notin WritesTo(f)
      BY <2>2 DEF WritesTo
    <3>3. Numbered(q, WritesTo(f), WriteOffset, k, l)
      BY <1>5, <3>1 DEF Continues
    <3>4. Numbered(Tail(q), WritesTo(f), WriteOffset, k, l)
      BY <1>6, <3>2, <3>3, NumberedTail
    <3>5. Continues(r, f, k, l)'
      BY <1>6, <1>14, <2>2, <3>1, <3>4 DEF Continues
    <3>6. ClaimsBacked(r, f, l)'
      BY <1>2, <1>14, <2>2, <3>1 DEF ClaimsBacked, Backed
    <3> QED BY <3>5, <3>6
  <2> QED BY <2>1, <2>2
<1>19. WritesContinue(r)'
  BY <1>18 DEF WritesContinue
<1> QED BY <1>16, <1>17, <1>19 DEF WritesAt

LEMMA WorkerStepWrites ==
  ASSUME TypeInv, NEW r \in Receiver, DataAt(r), HandlesAt(r), WritesAt(r), OpfsStep(r),
         MaxFaults = 0
  PROVE  WritesAt(r)'
<1>1. UNCHANGED <<toReceiver, toSender, senderVars, receiverVars>>
  BY DEF OpfsStep, channelVars
<1>2. /\ Receiving(r)' <=> Receiving(r)
      /\ UNCHANGED <<meta, total, active, offers, record>>
  BY <1>1, WorkerAside DEF receiverVars
<1>3. CASE writeChunk(r)
  BY <1>3, writeChunkWrites
<1>4. CASE SameWrites(r) /\ disk' = disk
  BY <1>2, <1>4, WritesKept
<1>5. CASE closeFile(r) \/ suspend(r)
  <2>1. /\ toWorker[r] # <<>> /\ Head(toWorker[r]).type # "WRITE_CHUNK" /\ Take(r)
        /\ disk' = disk
    BY <1>5 DEF closeFile, suspend
  <2>2. toWorker'[r] = Tail(toWorker[r])
    BY <2>1, TakenRequest
  <2> QED BY <1>4, <2>1, <2>2, WritesQueued
<1>6. CASE initFile(r) \/ getFile(r)
  <2>1. UNCHANGED <<toWorker, disk>>
    BY <1>6, initFileHandles, getFileHandles
  <2> QED BY <1>4, <2>1, WritesQueued
<1> QED BY <1>3, <1>5, <1>6, NoFailedWrite DEF OpfsStep, WorkerStep

LEMMA PageStepWrites ==
  ASSUME TypeInv, NEW r \in Receiver, DataAt(r), SentAt(r), HandlesAt(r), WritesAt(r),
         ReceiverStep(r), MaxFaults = 0
  PROVE  WritesAt(r)'
BY onChunkWrites, onOfferWrites, recordFoundWrites, fileInitialisedWrites, onCompleteWrites,
   AsideWrites, NoWorkerError
   DEF ReceiverStep, ReceiverHandler, Aside

-----------------------------------------------------------------------------
PageDisk(r) == SentAt(r) /\ HandlesAt(r) /\ WritesAt(r)

LEMMA DiskParts == DiskInv <=> ReadsInside /\ \A r \in Receiver : PageDisk(r)
BY DEF DiskInv, PageDisk

LEMMA InitDisk == Init => DiskInv
<1> SUFFICES ASSUME Init PROVE DiskInv
  OBVIOUS
<1>1. pc = "idle"
  BY DEF Init, SenderInit
<1>2. ASSUME NEW r \in Receiver PROVE PageDisk(r)
  <2>1. /\ toReceiver[r] = <<>> /\ toWorker[r] = <<>> /\ fromWorker[r] = <<>>
        /\ suspended[r] = {} /\ handles[r] = {} /\ offers[r] = {} /\ finishing[r] = {}
        /\ ~ready[r] /\ active[r] = None
        /\ \A f \in File : disk[r][f] = <<>> /\ record[r][f] = None
    BY DEF Init, ChannelInit, WorkerInit, ReceiverInit
  <2>2. ToSet(<<>>) = {} /\ \A A, B : Apart(<<>>, A, B)
    BY SetNothing, ApartShort
  <2>3. SentAt(r)
    BY <1>1, <2>1, <2>2
       DEF SentAt, EndIsLast, ChunksWanted, Answered, EndIsWhole, Has, Sending, Streaming
  <2>4. HandlesAt(r)
    BY <2>1, <2>2
       DEF HandlesAt, AllOpen, TasksInOrder, UsesHandle, OpensHandle, HandleForFile, ActiveFile,
           Receiving, Has
  <2>5. ASSUME NEW f \in File
        PROVE  \E n, m \in Nat : Continues(r, f, n, m) /\ ClaimsBacked(r, f, m)
    <3>1. PICK q : q = toWorker[r]
      OBVIOUS
    <3>2. q \in Seq(WorkerRequest) /\ \A x \in ToSet(q) : x \notin WritesTo(f)
      BY <2>1, <2>2, <3>1, ShortSequences
    <3>3. PICK n \in Nat : n = 0
      OBVIOUS
    <3>4. Numbered(q, WritesTo(f), WriteOffset, n, n)
      BY <3>2, NumberedNone
    <3>5. Continues(r, f, n, n) /\ ClaimsBacked(r, f, n)
      BY <2>1, <3>1, <3>3, <3>4 DEF Continues, ClaimsBacked, Receiving
    <3> QED BY <3>5
  <2>6. PrefixOnDisk(r)
    <3>1. ASSUME NEW f \in File
          PROVE  /\ Len(disk[r][f]) = 0 /\ Len(disk[r][f]) <= Size[f]
                 /\ 1..Len(disk[r][f]) = {}
      BY <2>1, SizeAssumption
    <3> QED BY <3>1 DEF PrefixOnDisk
  <2>7. WritesRight(r) /\ WritesContinue(r)
    BY <2>1, <2>2, <2>5 DEF WritesRight, WritesContinue
  <2> QED BY <2>3, <2>4, <2>6, <2>7 DEF PageDisk, WritesAt
<1>3. ReadsInside
  BY <1>1 DEF ReadsInside
<1> QED BY <1>2, <1>3, DiskParts

LEMMA UntouchedDisk ==
  ASSUME TypeInv, DataInv, NEW s \in Receiver, PageDisk(s), PageUntouched(s)
  PROVE  PageDisk(s)'
<1>1. DataAt(s)
  BY DEF DataInv
<1> QED BY <1>1, UntouchedHandles, UntouchedWrites DEF PageDisk, ReceptionKept

\* A closed channel has no handler left, so none looks up a record for it.
LEMMA NothingOrphaned ==
  ASSUME DiskInv
  PROVE  LookupsInTurn
BY DEF DiskInv, HandlesAt, AllOpen, LookupsInTurn

LEMMA StepDisk ==
  ASSUME Undisturbed, TypeInv, TypeInv', DataInv, DiskInv, Next
  PROVE  DiskInv'
<1>1. ReadsInside /\ SentEverywhere /\ \A r \in Receiver : PageDisk(r) /\ DataAt(r)
  BY DEF DiskInv, SentEverywhere, PageDisk, DataInv
<1>2. TimelyAccept /\ DrainedReload /\ MaxFaults = 0 /\ MaxSenderReloads = 0
  BY DEF Undisturbed
<1>3. CASE SenderStep
  <2>1. ReadsInside' /\ OnlySender
    BY <1>1, <1>3, ReadsKept DEF SenderStep
  <2>2. ASSUME NEW r \in Receiver PROVE PageDisk(r)'
    <3>1. ReceptionKept(r)
      BY <1>1, <1>2, <1>3, SenderStepSent
    <3>2. HandlesAt(r) /\ WritesAt(r)
      BY <1>1 DEF PageDisk
    <3> QED BY <2>1, <3>1, <3>2, SenderHandles, SenderWrites DEF PageDisk, ReceptionKept
  <2> QED BY <2>1, <2>2 DEF DiskInv, PageDisk
<1>4. ASSUME NEW r \in Receiver, ReceiverStep(r) PROVE DiskInv'
  <2>1. ReadsInside'
    BY <1>1, <1>4, StepLeaves DEF ReadsInside
  <2>2. SentAt(r) /\ HandlesAt(r) /\ WritesAt(r) /\ DataAt(r)
    BY <1>1 DEF PageDisk
  <2>3. PageDisk(r)'
    BY <1>2, <1>4, <2>2, NoWorkerError, PageStep, PageStepWrites DEF PageDisk
  <2>4. ASSUME NEW s \in Receiver, s # r PROVE PageDisk(s)'
    BY <1>1, <1>4, <2>4, PageStepElsewhere, UntouchedDisk
  <2> QED BY <2>1, <2>3, <2>4 DEF DiskInv, PageDisk
<1>5. ASSUME NEW r \in Receiver, OpfsStep(r) PROVE DiskInv'
  <2>1. UNCHANGED <<toReceiver, toSender, senderVars, receiverVars>>
    BY <1>5 DEF OpfsStep, channelVars
  <2>2. ReadsInside' /\ SentAt(r)'
    BY <1>1, <2>1, WorkerAside DEF PageDisk
  <2>3. HandlesAt(r) /\ WritesAt(r) /\ DataAt(r)
    BY <1>1 DEF PageDisk
  <2>4. PageDisk(r)'
    BY <1>2, <1>5, <2>2, <2>3, WorkerStepHandles, WorkerStepWrites DEF PageDisk
  <2>5. ASSUME NEW s \in Receiver, s # r PROVE PageDisk(s)'
    BY <1>1, <1>5, <2>5, WorkerStepElsewhere, UntouchedDisk
  <2> QED BY <2>2, <2>4, <2>5 DEF DiskInv, PageDisk
<1>6. ASSUME NEW r \in Receiver, ReceiverReload(r) PROVE DiskInv'
  <2>1. ReadsInside'
    BY <1>1, <1>6 DEF ReceiverReload, ReadsInside, Current
  <2>2. WritesAt(r)
    BY <1>1 DEF PageDisk
  <2>3. PageDisk(r)'
    BY <1>2, <1>6, <2>2, PageLoadedKnows, ReloadWrites DEF PageDisk
  <2>4. ASSUME NEW s \in Receiver, s # r PROVE PageDisk(s)'
    BY <1>1, <1>6, <2>4, ReloadElsewhere, UntouchedDisk
  <2> QED BY <2>1, <2>3, <2>4 DEF DiskInv, PageDisk
<1>7. ASSUME NEW r \in Receiver, Rejoin(r) PROVE DiskInv'
  <2>1. UNCHANGED <<toReceiver, toSender, senderVars, workerVars, receiverVars>>
    BY <1>7 DEF Rejoin
  <2>2. ReadsInside'
    BY <1>1, <2>1 DEF ReadsInside, Current, senderVars
  <2>3. ASSUME NEW s \in Receiver PROVE PageDisk(s)'
    <3>1. PageUntouched(s)
      BY <2>1 DEF PageUntouched, LoopKept, PageKept, senderVars, workerVars, receiverVars
    <3> QED BY <1>1, <3>1, UntouchedDisk
  <2> QED BY <2>2, <2>3 DEF DiskInv, PageDisk
<1>8. ~SenderReload
  BY <1>2 DEF SenderReload, TypeInv, TypeOK
<1> QED BY <1>3, <1>4, <1>5, <1>6, <1>7, <1>8 DEF Next

LEMMA StillDisk ==
  ASSUME TypeInv, DataInv, DiskInv, UNCHANGED vars
  PROVE  DiskInv'
<1>1. UNCHANGED <<toReceiver, toSender, senderVars, workerVars, receiverVars>>
  BY DEF vars, channelVars
<1>2. ReadsInside'
  BY <1>1 DEF DiskInv, ReadsInside, Current, senderVars
<1>3. ASSUME NEW s \in Receiver PROVE PageDisk(s)'
  <2>1. PageUntouched(s)
    BY <1>1 DEF PageUntouched, LoopKept, PageKept, senderVars, workerVars, receiverVars
  <2>2. PageDisk(s)
    BY DEF DiskInv, PageDisk
  <2> QED BY <2>1, <2>2, UntouchedDisk
<1> QED BY <1>2, <1>3 DEF DiskInv, PageDisk

\* The invariant that all of this is for.
WriteInv == TypeInv /\ DataInv /\ DiskInv

LEMMA InitWrite == Init => WriteInv
BY InitType, InitData, InitDisk DEF WriteInv

LEMMA StepWrite == Undisturbed /\ WriteInv /\ [Next]_vars /\ [OneTarget]_vars => WriteInv'
<1> SUFFICES ASSUME Undisturbed, WriteInv, [Next]_vars, [OneTarget]_vars PROVE WriteInv'
  OBVIOUS
<1>1. TypeInv /\ DataInv /\ DiskInv /\ TimelyAccept
  BY DEF WriteInv, Undisturbed
<1>2. TypeInv'
  BY <1>1, StepType
<1>3. LookupsInTurn
  BY <1>1, NothingOrphaned
<1>4. DataInv'
  BY <1>1, <1>3, StepData
<1>5. DiskInv'
  BY <1>1, <1>2, StepDisk, StillDisk
<1> QED BY <1>2, <1>4, <1>5 DEF WriteInv

LEMMA WritePrefix ==
  ASSUME WriteInv
  PROVE  DiskIsPrefix
<1> SUFFICES ASSUME NEW r \in Receiver, NEW f \in File
             PROVE  disk[r][f] = SubSeq(Whole(f), 1, Len(disk[r][f]))
  BY DEF DiskIsPrefix
<1>1. TypeInv /\ PrefixOnDisk(r)
  BY DEF WriteInv, DiskInv, WritesAt
<1>2. PICK d : d = disk[r][f]
  OBVIOUS
<1>3. /\ d \in Seq(Payload \cup {None}) /\ Len(d) \in Nat /\ Len(d) <= Size[f]
      /\ \A i \in 1..Len(d) : d[i] = [file |-> f, index |-> i - 1]
  BY <1>1, <1>2, DiskTypes DEF Content, PrefixOnDisk
<1>4. PICK w : w = Whole(f)
  OBVIOUS
<1>5. /\ w \in Seq(Payload) /\ Len(w) = Size[f] /\ Len(d) \in 0..Len(w)
      /\ \A i \in 1..Len(d) : w[i] = [file |-> f, index |-> i - 1]
  <2>1. Size[f] \in Nat /\ w = [i \in 1..Size[f] |-> [file |-> f, index |-> i - 1]]
    BY <1>4, SizeAssumption DEF Whole
  <2>2. \A i \in 1..Size[f] : [file |-> f, index |-> i - 1] \in Payload
    BY <2>1 DEF Payload
  <2>3. w \in [1..Size[f] -> Payload]
    BY <2>1, <2>2
  <2>4. w \in Seq(Payload)
    BY <2>1, <2>3, FunctionIsSeq
  <2>5. Len(w) = Size[f]
    BY <2>1, <2>3, <2>4
  <2>6. \A i \in 1..Len(d) : i \in 1..Size[f]
    BY <1>3, <2>1
  <2> QED BY <1>3, <2>1, <2>4, <2>5, <2>6
<1>6. PICK s : s = SubSeq(w, 1, Len(d))
  OBVIOUS
<1>7. /\ s \in Seq(Payload) /\ Len(s) = Len(d)
      /\ \A i \in 1..Len(d) : s[i] = w[i]
  BY <1>5, <1>6, Prefix
<1>8. d = s
  <2>1. d \in Seq(Payload \cup {None}) /\ s \in Seq(Payload \cup {None}) /\ Len(d) = Len(s)
    BY <1>3, <1>7
  <2>2. \A i \in 1..Len(d) : d[i] = s[i]
    BY <1>3, <1>5, <1>7
  <2> QED BY <2>1, <2>2
<1> QED BY <1>2, <1>4, <1>6, <1>8

LEMMA WriteBacked ==
  ASSUME WriteInv
  PROVE  RecordBacked
<1> SUFFICES ASSUME NEW r \in Receiver, NEW f \in File, record[r][f] # None
             PROVE  record[r][f] <= Len(disk[r][f]) + Cardinality(WritesOf(r, f))
  BY DEF RecordBacked
<1>1. TypeInv /\ WritesContinue(r)
  BY DEF WriteInv, DiskInv, WritesAt
<1>2. PICK n \in Nat, m \in Nat : Continues(r, f, n, m) /\ ClaimsBacked(r, f, m)
  BY <1>1 DEF WritesContinue
<1>3. PICK q \in Seq(WorkerRequest) : q = toWorker[r]
  BY <1>1, DiskTypes
<1>4. Places(q, WritesTo(f), Len(q)) = WritesOf(r, f)
  <2>1. \A i \in 1..Len(q) : q[i] \in WorkerRequest
    OBVIOUS
  <2> QED BY <1>3, <2>1 DEF Places, WritesTo, WritesOf
<1>5. Cardinality(WritesOf(r, f)) \in Nat
  BY <1>4, PlacesFinite
<1>6. m = n + Cardinality(WritesOf(r, f)) /\ n <= Len(disk[r][f])
  BY <1>2, <1>3, <1>4 DEF Continues, Numbered
<1>7. record[r][f] \in Nat /\ Len(disk[r][f]) \in Nat
  <2>1. disk[r][f] \in Seq(Payload \cup {None}) /\ record[r][f] \in Nat \cup {None}
    BY <1>1, DiskTypes DEF Content
  <2> QED BY <2>1
<1>8. record[r][f] <= m \/ record[r][f] <= Len(disk[r][f])
  BY <1>2 DEF ClaimsBacked, Backed
<1> QED BY <1>5, <1>6, <1>7, <1>8

\* What the worker writes is a prefix of the file at every moment: no chunk is written
\* twice in the wrong place, none is left out, and a transfer that resumes at its record
\* goes on where the content ends.  It holds when no write fails, the sending page stays
\* open and a receiving page is only left with no write waiting (after any of those the
\* record may claim more than is on disk), and when the answer to every offer is awaited:
\* a broadcast to one page, answered within RESUME_ACCEPT_WAIT_MS.
THEOREM PrefixWritten ==
  ASSUME Undisturbed
  PROVE  Spec /\ [][OneTarget]_vars => []DiskIsPrefix
<1>1. WriteInv /\ [Next]_vars /\ [OneTarget]_vars => WriteInv'
  BY StepWrite
<1>2. WriteInv => DiskIsPrefix
  BY WritePrefix
<1> QED BY <1>1, <1>2, InitWrite, PTL DEF Spec

\* saveTransferRecord, which does not wait for the worker, never claims more than what is
\* on disk and what the worker has been sent to write: under the same conditions, the
\* promise that a transfer resumes from the last written byte can be kept.
THEOREM RecordsBacked ==
  ASSUME Undisturbed
  PROVE  Spec /\ [][OneTarget]_vars => []RecordBacked
<1>1. WriteInv /\ [Next]_vars /\ [OneTarget]_vars => WriteInv'
  BY StepWrite
<1>2. WriteInv => RecordBacked
  BY WriteBacked
<1> QED BY <1>1, <1>2, InitWrite, PTL DEF Spec

-----------------------------------------------------------------------------
(* Files are received one at a time, and in memory in full.                  *)
LEMMA InTurnKept ==
  ASSUME NEW r \in Receiver, InTurn(r), Receiving(r)' <=> Receiving(r),
         offers'[r] = offers[r], finishing'[r] = finishing[r], active'[r] = active[r],
         meta'[r] = meta[r], total'[r] = total[r], memory'[r] = memory[r]
  PROVE  InTurn(r)'
BY DEF InTurn, OneAtATime, MemoryIsPrefix

\* A page at which nothing is being received.
LEMMA InTurnIdle ==
  ASSUME NEW r \in Receiver, ~Receiving(r)', offers'[r] = {}
  PROVE  InTurn(r)'
BY DEF InTurn, OneAtATime, MemoryIsPrefix

LEMMA AsideInTurn ==
  ASSUME TypeInv, NEW r \in Receiver, DataAt(r), SentAt(r), ReceiverStep(r), Aside(r), InTurn(r)
  PROVE  InTurn(r)'
<1>1. /\ Receiving(r)' <=> Receiving(r)
      /\ meta'[r] = meta[r] /\ total'[r] = total[r] /\ offers'[r] = offers[r]
  BY AsideSent, AsideLeaves DEF ReceptionKept, PageKept
<1>2. CASE finishing[r] # {}
  BY <1>1, <1>2, InTurnIdle DEF InTurn, OneAtATime
<1>3. CASE finishing[r] = {}
  <2>1. chunkWritten(r) \/ replyDropped(r) \/ onPauseSignal(r)
    BY <1>3 DEF Aside, fileClosed, fileReady, FinishingAt
  <2>2. UNCHANGED <<finishing, active, memory>>
    BY <2>1 DEF chunkWritten, replyDropped, onPauseSignal, receiverVars
  <2> QED BY <1>1, <2>2, InTurnKept
<1> QED BY <1>2, <1>3

LEMMA onOfferInTurn ==
  ASSUME TypeInv, NEW r \in Receiver, DataAt(r), HandlesAt(r), ReceiverStep(r),
         onOffer(r) \/ onOfferInMemory(r), finishing[r] = {}
  PROVE  InTurn(r)'
<1>1. offers[r] = {} /\ (Receiving(r)' <=> onOfferInMemory(r))
  BY onOfferSent DEF HandlesAt
<1>2. finishing' = finishing
  BY DEF onOffer, onOfferInMemory
<1>3. PICK f : f = Head(toReceiver[r]).file
  OBVIOUS
<1>4. active'[r] = f
  BY <1>3, DiskTypes DEF onOffer, onOfferInMemory
<1>5. CASE onOffer(r)
  <2>1. ~Receiving(r)'
    BY <1>1, <1>5 DEF onOffer, onOfferInMemory
  <2>2. PICK h : /\ h = [file |-> f, stage |-> "lookup", start |-> 0, channel |-> "open"]
                 /\ offers' = [offers EXCEPT ![r] = @ \cup {h}]
    BY <1>3, <1>5 DEF onOffer
  <2>3. offers'[r] = {h} /\ h.file = f
    BY <1>1, <2>2, DataTypes
  <2> QED BY <1>2, <1>4, <2>1, <2>3 DEF InTurn, OneAtATime, MemoryIsPrefix
<1>6. CASE onOfferInMemory(r)
  <2>1. offers' = offers /\ StartFile(r, f, 0)
    BY <1>3, <1>6 DEF onOfferInMemory
  <2>2. meta'[r] = f /\ total'[r] = 0 /\ memory'[r] = <<>>
    BY <2>1, DataTypes, DiskTypes DEF StartFile
  <2>3. f \in File
    BY <1>3, <1>6, OfferTaken, DataTypes DEF onOfferInMemory
  <2>4. OneAtATime(r)'
    BY <1>1, <1>2, <1>4, <2>1, <2>2 DEF OneAtATime
  <2>5. MemoryIsPrefix(r)'
    BY <2>2, <2>3, SizeAssumption DEF MemoryIsPrefix
  <2> QED BY <2>4, <2>5 DEF InTurn
<1> QED BY <1>5, <1>6

\* The lookup of a transfer record is over: the handler goes on with the same file.
LEMMA RecordFoundPosts ==
  ASSUME TypeInv, NEW r \in Receiver, NEW h \in offers[r], recordFound(r, h), NEW x,
         x = InitFile(h.file)
  PROVE  /\ \E g : /\ offers'[r] = (offers[r] \ {h}) \cup {g}
                   /\ g.file = h.file /\ g.stage = "init" /\ g.start = StartOffset(r, h.file)
         /\ x \in WorkerRequest /\ x.type = "INIT_FILE" /\ x.file = h.file
         /\ toWorker'[r] = Append(toWorker[r], x)
         /\ ToSet(toWorker'[r]) = ToSet(toWorker[r]) \cup {x}
<1>1. PICK g : g = [h EXCEPT !.stage = "init", !.start = StartOffset(r, h.file)]
  OBVIOUS
<1>2. h \in OfferHandler
  BY DataTypes
<1>3. g.file = h.file /\ g.stage = "init" /\ g.start = StartOffset(r, h.file)
  BY <1>1, <1>2 DEF OfferHandler
<1>4. offers'[r] = (offers[r] \ {h}) \cup {g}
  <2>1. offers' = [offers EXCEPT ![r] = (@ \ {h}) \cup {g}]
    BY <1>1 DEF recordFound
  <2> QED BY <2>1, DataTypes
<1>5. x \in WorkerRequest /\ x.type = "INIT_FILE" /\ x.file = h.file
  BY <1>2 DEF InitFile, WorkerRequest, Suspending, OfferHandler
<1>6. toWorker'[r] = Append(toWorker[r], x) /\ toWorker[r] \in Seq(WorkerRequest)
  BY DiskTypes DEF recordFound
<1>7. ToSet(toWorker'[r]) = ToSet(toWorker[r]) \cup {x}
  <2>1. toWorker'[r] = toWorker[r] \o <<x>>
    BY <1>5, <1>6, AppendConcat
  <2> QED BY <1>6, <2>1, SetMore
<1> QED BY <1>3, <1>4, <1>5, <1>6, <1>7

\* What the handlers post to the worker, besides the request to open a file.
LEMMA ChunkPosts ==
  ASSUME TypeInv, NEW r \in Receiver, ReceiverStep(r), DataAt(r), SentAt(r), onChunk(r),
         OneAtATime(r), r \in OpfsReceiver, NEW x,
         x = WriteChunk(meta[r], [file |-> meta[r], index |-> total[r]], total[r])
  PROVE  /\ x \in WorkerRequest /\ x.type = "WRITE_CHUNK" /\ x.file = meta[r]
         /\ x.chunk = [file |-> meta[r], index |-> total[r]] /\ x.offset = total[r]
         /\ toWorker'[r] = Append(toWorker[r], x)
         /\ ToSet(toWorker'[r]) = ToSet(toWorker[r]) \cup {x}
<1>1. Receiving(r) /\ Head(toReceiver[r]).data = [file |-> meta[r], index |-> total[r]]
  BY onChunkSent
<1>2. active[r] = meta[r] /\ meta[r] \in File /\ Head(toReceiver[r]).data \in Payload
  BY <1>1, ChunkStored DEF OneAtATime
<1>3. ToDisk(r)
  BY <1>2, NoneAssumption DEF ToDisk
<1>4. toWorker'[r] = Append(toWorker[r], x) /\ toWorker[r] \in Seq(WorkerRequest)
  BY <1>1, <1>2, <1>3, ChunkStored, DiskTypes
<1>5. /\ x \in WorkerRequest /\ x.type = "WRITE_CHUNK" /\ x.file = meta[r]
      /\ x.chunk = [file |-> meta[r], index |-> total[r]] /\ x.offset = total[r]
  <2>1. total[r] \in Nat /\ [file |-> meta[r], index |-> total[r]] \in Payload
    BY <1>1, <1>2, DataTypes
  <2> QED BY <1>2, <2>1 DEF WriteChunk, WorkerRequest
<1>6. ToSet(toWorker'[r]) = ToSet(toWorker[r]) \cup {x}
  <2>1. toWorker'[r] = toWorker[r] \o <<x>>
    BY <1>4, <1>5, AppendConcat
  <2> QED BY <1>4, <2>1, SetMore
<1> QED BY <1>4, <1>5, <1>6

LEMMA ClosePosted ==
  ASSUME TypeInv, NEW r \in Receiver, ReceiverStep(r), DataAt(r), SentAt(r), onComplete(r),
         r \in OpfsReceiver, NEW x, x = CloseFile(meta[r])
  PROVE  /\ x \in WorkerRequest /\ x.type = "CLOSE_FILE" /\ x.file = meta[r]
         /\ toWorker'[r] = Append(toWorker[r], x)
         /\ ToSet(toWorker'[r]) = ToSet(toWorker[r]) \cup {x}
         /\ delivered' = delivered
<1>1. meta[r] \in File
  BY onCompleteSent
<1>2. /\ toWorker'[r] = Append(toWorker[r], x) /\ toWorker[r] \in Seq(WorkerRequest)
      /\ delivered' = delivered
  BY CompletePosts, DiskTypes
<1>3. x.type = "CLOSE_FILE" /\ x \in WorkerRequest /\ x.file = meta[r]
  BY <1>1 DEF CloseFile, WorkerRequest
<1>4. ToSet(toWorker'[r]) = ToSet(toWorker[r]) \cup {x}
  <2>1. toWorker'[r] = toWorker[r] \o <<x>>
    BY <1>2, <1>3, AppendConcat
  <2> QED BY <1>2, <2>1, SetMore
<1> QED BY <1>2, <1>3, <1>4

LEMMA FileClosedPosts ==
  ASSUME TypeInv, NEW r \in Receiver, fileClosed(r), NEW x, x = GetFile(ReplyFile(r))
  PROVE  /\ x \in WorkerRequest /\ x.type = "GET_FILE" /\ x.file = ReplyFile(r)
         /\ toWorker'[r] = Append(toWorker[r], x) /\ toWorker[r] \in Seq(WorkerRequest)
         /\ ToSet(toWorker'[r]) = ToSet(toWorker[r]) \cup {x}
<1>1. ReplyFile(r) \in File
  BY TakenReply DEF fileClosed
<1>2. x.type = "GET_FILE" /\ x \in WorkerRequest /\ x.file = ReplyFile(r)
  BY <1>1 DEF GetFile, WorkerRequest, Suspending
<1>3. toWorker'[r] = Append(toWorker[r], x) /\ toWorker[r] \in Seq(WorkerRequest)
  BY DiskTypes DEF fileClosed
<1>4. ToSet(toWorker'[r]) = ToSet(toWorker[r]) \cup {x}
  <2>1. toWorker'[r] = toWorker[r] \o <<x>>
    BY <1>2, <1>3, AppendConcat
  <2> QED BY <1>3, <2>1, SetMore
<1> QED BY <1>2, <1>3, <1>4

LEMMA recordFoundInTurn ==
  ASSUME TypeInv, NEW r \in Receiver, DataAt(r), HandlesAt(r), ReceiverStep(r), InTurn(r),
         NEW h \in offers[r], recordFound(r, h)
  PROVE  InTurn(r)'
<1>1. ~Receiving(r)'
  BY recordFoundSent DEF HandlesAt
<1>2. UNCHANGED <<active, finishing>>
  BY DEF recordFound
<1>3. \E g : offers'[r] = (offers[r] \ {h}) \cup {g} /\ g.file = h.file
  BY RecordFoundPosts
<1> QED BY <1>1, <1>2, <1>3 DEF InTurn, OneAtATime, MemoryIsPrefix

LEMMA fileInitialisedInTurn ==
  ASSUME TypeInv, NEW r \in Receiver, DataAt(r), SentAt(r), HandlesAt(r), ReceiverStep(r),
         InTurn(r), fileInitialised(r)
  PROVE  InTurn(r)'
<1>1. AllOpen(r)
  BY DEF HandlesAt
<1>2. offers'[r] = {}
  BY <1>1, fileInitialisedSent
<1>3. \E h \in offers[r] : h.file = meta[r]
  BY fileInitialisedHandles
<1>4. UNCHANGED <<active, meta, finishing>>
  BY DEF fileInitialised
<1>5. finishing'[r] = {} /\ active'[r] = meta'[r]
  BY <1>3, <1>4 DEF InTurn, OneAtATime
<1>6. r \in OpfsReceiver
  BY <1>1, <1>3 DEF AllOpen
<1> QED BY <1>2, <1>4, <1>5, <1>6 DEF InTurn, OneAtATime, MemoryIsPrefix

LEMMA onChunkInTurn ==
  ASSUME TypeInv, NEW r \in Receiver, DataAt(r), SentAt(r), ReceiverStep(r), InTurn(r), onChunk(r)
  PROVE  InTurn(r)'
<1>1. /\ Receiving(r) /\ Receiving(r)' /\ total'[r] = total[r] + 1 /\ total[r] < Size[meta[r]]
      /\ Head(toReceiver[r]).data = [file |-> meta[r], index |-> total[r]]
  BY onChunkSent
<1>2. UNCHANGED <<active, meta, offers, finishing>>
  BY DEF onChunk
<1>3. active[r] = meta[r] /\ meta[r] \in File
  BY <1>1, ChunkStored DEF InTurn, OneAtATime
<1>4. OneAtATime(r)'
  BY <1>1, <1>2 DEF InTurn, OneAtATime
<1>5. CASE r \notin OpfsReceiver
  <2>1. PICK c : c = Head(toReceiver[r]).data
    OBVIOUS
  <2>2. memory'[r] = Append(memory[r], c) /\ c \in Payload
    BY <1>5, <2>1, ChunkStored DEF ToDisk
  <2>3. PICK s \in Seq(Payload) : s = memory[r]
    BY DiskTypes
  <2>4. /\ Len(s) = total[r] /\ total[r] \in Nat /\ Size[meta[r]] \in Nat
        /\ \A i \in 1..total[r] : s[i] = [file |-> meta[r], index |-> i - 1]
    BY <1>1, <1>3, <1>5, <2>3, DataTypes, SizeAssumption DEF InTurn, MemoryIsPrefix
  <2>5. PICK t : t = Append(s, c)
    OBVIOUS
  <2>6. /\ Len(t) = total[r] + 1
        /\ \A i \in 1..(total[r] + 1) : t[i] = [file |-> meta[r], index |-> i - 1]
    <3>1. Len(t) = total[r] + 1 /\ t[total[r] + 1] = c
          /\ \A i \in 1..total[r] : t[i] = s[i]
      BY <2>2, <2>4, <2>5
    <3>2. total[r] = (total[r] + 1) - 1 /\ c = [file |-> meta[r], index |-> total[r]]
      BY <1>1, <2>1, <2>4
    <3>3. ASSUME NEW i \in 1..(total[r] + 1)
          PROVE  t[i] = [file |-> meta[r], index |-> i - 1]
      <4>1. i = total[r] + 1 \/ i \in 1..total[r]
        BY <2>4
      <4> QED BY <2>4, <3>1, <3>2, <4>1
    <3> QED BY <3>1, <3>3
  <2>7. MemoryIsPrefix(r)'
    BY <1>1, <1>2, <2>2, <2>3, <2>4, <2>5, <2>6 DEF MemoryIsPrefix
  <2> QED BY <1>4, <2>7 DEF InTurn
<1>6. CASE r \in OpfsReceiver
  BY <1>4, <1>6 DEF InTurn, MemoryIsPrefix
<1> QED BY <1>5, <1>6

\* TRANSFER_COMPLETE: nothing is received any more, and memory holds the file.
LEMMA onCompleteInTurn ==
  ASSUME TypeInv, NEW r \in Receiver, DataAt(r), SentAt(r), HandlesAt(r), ReceiverStep(r),
         InTurn(r), onComplete(r)
  PROVE  /\ offers'[r] = {} /\ ~Receiving(r)' /\ InTurn(r)'
         /\ r \notin OpfsReceiver => memory[r] = Whole(meta[r])
<1>1. /\ Receiving(r) /\ ~Receiving(r)' /\ Opened(r) = {} /\ meta[r] \in File
      /\ Size[meta[r]] <= total[r]
  BY onCompleteSent
<1>2. offers' = offers
  BY CompletePosts
<1>3. offers'[r] = {}
  BY <1>1, <1>2 DEF HandlesAt, AllOpen, Opened
<1>4. ASSUME r \notin OpfsReceiver PROVE memory[r] = Whole(meta[r])
  <2>1. PICK s \in Seq(Payload) : s = memory[r]
    BY DiskTypes
  <2>2. /\ Len(s) = Size[meta[r]] /\ Size[meta[r]] \in Nat
        /\ \A i \in 1..Size[meta[r]] : s[i] = [file |-> meta[r], index |-> i - 1]
    <3>1. /\ Len(s) = total[r] /\ total[r] <= Size[meta[r]]
          /\ \A i \in 1..total[r] : s[i] = [file |-> meta[r], index |-> i - 1]
      BY <1>1, <1>4, <2>1 DEF InTurn, MemoryIsPrefix
    <3>2. total[r] = Size[meta[r]]
      BY <1>1, <3>1, DataTypes, SizeAssumption
    <3> QED BY <1>1, <3>1, <3>2, SizeAssumption
  <2>3. s = [i \in 1..Size[meta[r]] |-> s[i]]
    BY <2>2
  <2>4. s = [i \in 1..Size[meta[r]] |-> [file |-> meta[r], index |-> i - 1]]
    BY <2>2, <2>3
  <2> QED BY <2>1, <2>4 DEF Whole
<1> QED BY <1>1, <1>3, <1>4, InTurnIdle

LEMMA workerErrorInTurn ==
  ASSUME TypeInv, NEW r \in Receiver, DataAt(r), SentAt(r), HandlesAt(r), ReceiverStep(r),
         InTurn(r), workerError(r), offers[r] = {}
  PROVE  InTurn(r)'
<1>1. offers'[r] = offers[r] /\ (Receiving(r)' <=> Receiving(r))
  BY workerErrorHandles DEF ReceptionKept
<1>2. meta' = meta /\ total' = total
  BY DEF workerError
<1>3. CASE \E h \in FinishingAt(r, ReplyFile(r), {"close", "get"}) : TRUE
  <2>1. ~Receiving(r)
    BY <1>3 DEF FinishingAt, InTurn, OneAtATime
  <2> QED BY <1>1, <2>1, InTurnIdle
<1>4. CASE FinishingAt(r, ReplyFile(r), {"close", "get"}) = {}
  <2>1. OffersAt(r, ReplyFile(r), {"init"}) = {}
    BY DEF OffersAt
  <2>2. UNCHANGED <<finishing, memory, active>>
    BY <1>4, <2>1 DEF workerError
  <2> QED BY <1>1, <1>2, <2>2, InTurnKept
<1> QED BY <1>3, <1>4

LEMMA PageStepInTurn ==
  ASSUME TypeInv, NEW r \in Receiver, DataAt(r), SentAt(r), HandlesAt(r), ReceiverStep(r),
         InTurn(r), workerError(r) => offers[r] = {},
         onOffer(r) \/ onOfferInMemory(r) => finishing[r] = {}
  PROVE  InTurn(r)'
<1>1. ASSUME NEW h \in offers[r], recordFound(r, h) PROVE InTurn(r)'
  BY <1>1, recordFoundInTurn
<1> QED
  BY <1>1, onChunkInTurn, onOfferInTurn, fileInitialisedInTurn, onCompleteInTurn, AsideInTurn,
     workerErrorInTurn
  DEF ReceiverStep, ReceiverHandler, Aside

-----------------------------------------------------------------------------
(* What is handed over.  First what a step of the worker leaves whole.        *)
LEMMA ClosesKept ==
  ASSUME NEW r \in Receiver, CloseIsWhole(r), SameWrites(r), disk'[r] = disk[r],
         \A x \in ToSet(toWorker'[r]) : x.type = "CLOSE_FILE" => x \in ToSet(toWorker[r])
  PROVE  CloseIsWhole(r)'
<1> SUFFICES ASSUME NEW x \in ToSet(toWorker'[r]), x.type = "CLOSE_FILE"
             PROVE  \E n, m \in Nat : Continues(r, x.file, n, m)' /\ m >= Size[x.file]
  BY DEF CloseIsWhole
<1>1. PICK n \in Nat, m \in Nat : Continues(r, x.file, n, m) /\ m >= Size[x.file]
  BY DEF CloseIsWhole
<1>2. Continues(r, x.file, n, m)'
  BY <1>1 DEF Continues, SameWrites
<1> QED BY <1>1, <1>2

LEMMA NoCloses ==
  ASSUME NEW r \in Receiver, ~Has(toWorker'[r], {"CLOSE_FILE"})
  PROVE  CloseIsWhole(r)'
BY DEF CloseIsWhole, Has

LEMMA ClosedKept ==
  ASSUME NEW r \in Receiver, ClosedIsWhole(r), disk'[r] = disk[r],
         \A f \in File : Closed(r, f)' => Closed(r, f)
  PROVE  ClosedIsWhole(r)'
BY DEF ClosedIsWhole

\* A write makes the content longer, if anything, and is one write less to come.
LEMMA WriteLands ==
  ASSUME TypeInv, NEW r \in Receiver, WritesAt(r), writeChunk(r)
  PROVE  /\ \A f \in File : Len(disk'[r][f]) >= Len(disk[r][f])
         /\ \A f \in File, n, m \in Nat :
              Continues(r, f, n, m) => \E k \in Nat : Continues(r, f, k, m)'
<1>1. PICK x : x = Head(toWorker[r])
  OBVIOUS
<1>2. /\ toWorker[r] # <<>> /\ x.type = "WRITE_CHUNK" /\ Take(r)
      /\ disk' = [disk EXCEPT ![r][x.file] = Written(@, x.chunk, x.offset)]
  BY <1>1 DEF writeChunk
<1>3. PICK q \in Seq(WorkerRequest) : q = toWorker[r]
  BY DiskTypes
<1>4. /\ toWorker'[r] = Tail(q) /\ q # <<>> /\ x = Head(q)
      /\ x \in WorkerRequest /\ x.file \in File
  BY <1>1, <1>2, <1>3, TakenRequest
<1>5. x.chunk \in Payload /\ x.offset \in Nat
  BY <1>2, <1>4, RequestFields
<1>6. x \in WritesTo(x.file) /\ WriteOffset[x] = x.offset
  BY <1>2, <1>4 DEF WritesTo, WriteOffset
<1>7. ASSUME NEW n \in Nat, NEW m \in Nat, Continues(r, x.file, n, m)
      PROVE  /\ x.offset = n /\ n <= Len(disk[r][x.file])
             /\ Numbered(Tail(q), WritesTo(x.file), WriteOffset, n + 1, m)
  <2>1. Numbered(q, WritesTo(x.file), WriteOffset, n, m) /\ n <= Len(disk[r][x.file])
    BY <1>3, <1>7 DEF Continues
  <2> QED BY <1>4, <1>6, <2>1, NumberedTail
<1>8. x.offset <= Len(disk[r][x.file])
  BY <1>4, <1>7 DEF WritesAt, WritesContinue
<1>9. PICK data \in Content : data = disk[r][x.file] /\ Len(data) \in Nat
  <2>1. disk[r][x.file] \in Content
    BY <1>4, DiskTypes
  <2> QED BY <2>1 DEF Content
<1>10. PICK new : new = Written(data, x.chunk, x.offset)
  OBVIOUS
<1>11. /\ disk'[r][x.file] = new
       /\ \A f \in File : f # x.file => disk'[r][f] = disk[r][f]
  BY <1>2, <1>4, <1>9, <1>10, DiskTypes
<1>12. Len(new) \in Nat /\ Len(new) >= Len(data) /\ Len(new) >= x.offset + 1
  <2>1. x.offset \in 0..Len(data) /\ x.chunk \in Payload \cup {None}
    BY <1>5, <1>8, <1>9
  <2> QED BY <1>10, <2>1, WrittenNext
<1>13. ASSUME NEW f \in File PROVE Len(disk'[r][f]) >= Len(disk[r][f])
  <2>1. disk[r][f] \in Seq(Payload \cup {None})
    BY DiskTypes DEF Content
  <2> QED BY <1>9, <1>11, <1>12, <2>1
<1>14. ASSUME NEW f \in File, NEW n \in Nat, NEW m \in Nat, Continues(r, f, n, m)
       PROVE  \E k \in Nat : Continues(r, f, k, m)'
  <2>1. CASE f = x.file
    <3>1. PICK k \in Nat : k = n + 1
      OBVIOUS
    <3>2. Continues(r, f, k, m)'
      BY <1>4, <1>7, <1>11, <1>12, <1>14, <2>1, <3>1 DEF Continues
    <3> QED BY <3>2
  <2>2. CASE f # x.file
    <3>1. x \notin WritesTo(f)
      BY <2>2 DEF WritesTo
    <3>2. Numbered(q, WritesTo(f), WriteOffset, n, m) /\ n <= Len(disk[r][f])
      BY <1>3, <1>14 DEF Continues
    <3>3. Numbered(Tail(q), WritesTo(f), WriteOffset, n, m)
      BY <1>4, <3>1, <3>2, NumberedTail
    <3> QED BY <1>4, <1>11, <2>2, <3>2, <3>3 DEF Continues
  <2> QED BY <2>1, <2>2
<1> QED BY <1>13, <1>14

\* Content that is as long as the file is the file.
LEMMA FullIsWhole ==
  ASSUME TypeInv, NEW r \in Receiver, PrefixOnDisk(r), NEW f \in File, Len(disk[r][f]) = Size[f]
  PROVE  disk[r][f] = Whole(f)
<1>1. PICK d : d = disk[r][f]
  OBVIOUS
<1>2. d \in Seq(Payload \cup {None}) /\ Len(d) = Size[f] /\ Size[f] \in Nat
  BY <1>1, DiskTypes, SizeAssumption DEF Content
<1>3. \A i \in 1..Size[f] : d[i] = [file |-> f, index |-> i - 1]
  BY <1>1, <1>2 DEF PrefixOnDisk
<1>4. d = [i \in 1..Size[f] |-> d[i]]
  BY <1>2
<1>5. d = [i \in 1..Size[f] |-> [file |-> f, index |-> i - 1]]
  BY <1>3, <1>4
<1> QED BY <1>1, <1>5 DEF Whole

LEMMA writeChunkWhole ==
  ASSUME TypeInv, TypeInv', NEW r \in Receiver, WritesAt(r), WritesAt(r)', WorkIsWhole(r),
         OpfsStep(r), writeChunk(r)
  PROVE  WorkIsWhole(r)'
<1>1. PICK y : y = [type |-> "CHUNK_WRITTEN", file |-> Head(toWorker[r]).file,
                    currentOffset |-> Head(toWorker[r]).offset + 1]
  OBVIOUS
<1>2. /\ toWorker[r] # <<>> /\ Head(toWorker[r]).type = "WRITE_CHUNK" /\ Take(r)
      /\ Reply(r, y) /\ suspended' = suspended
  BY <1>1 DEF writeChunk
<1>3. ToSet(toWorker'[r]) \subseteq ToSet(toWorker[r])
  BY <1>2, TakenRequest
<1>4. ToSet(fromWorker'[r]) = ToSet(fromWorker[r]) \cup {y} /\ y.type = "CHUNK_WRITTEN"
  <2>1. Head(toWorker[r]).file \in File /\ Head(toWorker[r]).offset \in Nat
    BY <1>2, TakenRequest, RequestFields
  <2>2. y \in WorkerReply /\ y.type = "CHUNK_WRITTEN"
    BY <1>1, <2>1 DEF WorkerReply
  <2> QED BY <1>2, <2>2, Replied
<1>5. CloseIsWhole(r)'
  <2>1. ASSUME NEW x \in ToSet(toWorker'[r]), x.type = "CLOSE_FILE"
        PROVE  \E n, m \in Nat : Continues(r, x.file, n, m)' /\ m >= Size[x.file]
    <3>1. x \in ToSet(toWorker[r]) /\ x.file \in File
      <4>1. toWorker[r] \in Seq(WorkerRequest)
        BY DiskTypes
      <4>2. x \in WorkerRequest
        BY <1>2, <1>3, <2>1, <4>1, SetTail
      <4> QED BY <1>3, <2>1, <4>2 DEF WorkerRequest, Suspending
    <3>2. PICK n \in Nat, m \in Nat : Continues(r, x.file, n, m) /\ m >= Size[x.file]
      BY <2>1, <3>1 DEF WorkIsWhole, CloseIsWhole
    <3>3. \E k \in Nat : Continues(r, x.file, k, m)'
      BY <1>2, <3>1, <3>2, WriteLands
    <3> QED BY <3>2, <3>3
  <2> QED BY <2>1 DEF CloseIsWhole
<1>6. ClosedIsWhole(r)'
  <2>1. ASSUME NEW f \in File, Closed(r, f)' PROVE Len(disk'[r][f]) = Size[f]
    <3>1. Closed(r, f)
      BY <1>2, <1>3, <1>4, <2>1 DEF Closed
    <3>2. Len(disk[r][f]) = Size[f]
      BY <3>1 DEF WorkIsWhole, ClosedIsWhole
    <3>3. Len(disk'[r][f]) >= Len(disk[r][f])
      BY <1>2, WriteLands
    <3>4. Len(disk'[r][f]) <= Size[f]
      BY DEF WritesAt, PrefixOnDisk
    <3>5. Len(disk'[r][f]) \in Nat /\ Size[f] \in Nat
      <4>1. PICK d : d = disk'[r][f]
        OBVIOUS
      <4>2. d \in Content
        BY <4>1 DEF TypeInv, TypeOK, WorkerTypeOK
      <4> QED BY <4>1, <4>2, SizeAssumption DEF Content
    <3> QED BY <3>2, <3>3, <3>4, <3>5
  <2> QED BY <2>1 DEF ClosedIsWhole
<1>7. ReadIsWhole(r)'
  BY <1>4 DEF WorkIsWhole, ReadIsWhole
<1> QED BY <1>5, <1>6, <1>7 DEF WorkIsWhole

LEMMA closeFileWhole ==
  ASSUME TypeInv, NEW r \in Receiver, HandlesAt(r), WritesAt(r), WorkIsWhole(r),
         OpfsStep(r), closeFile(r)
  PROVE  WorkIsWhole(r)'
<1>1. PICK x, y : x = Head(toWorker[r]) /\ y = [type |-> "FILE_CLOSED", file |-> x.file]
  OBVIOUS
<1>2. /\ toWorker[r] # <<>> /\ x.type = "CLOSE_FILE" /\ Take(r)
      /\ Reply(r, y) /\ suspended' = suspended /\ disk' = disk
  BY <1>1 DEF closeFile
<1>3. /\ x \in ToSet(toWorker[r]) /\ x.file \in File
      /\ ToSet(toWorker'[r]) \subseteq ToSet(toWorker[r])
      /\ toWorker'[r] = Tail(toWorker[r]) /\ toWorker[r] \in Seq(WorkerRequest)
  BY <1>1, <1>2, TakenRequest
<1>4. ToSet(fromWorker'[r]) = ToSet(fromWorker[r]) \cup {y} /\ y.type = "FILE_CLOSED"
  <2>1. y \in WorkerReply /\ y.type = "FILE_CLOSED"
    BY <1>1, <1>3 DEF WorkerReply
  <2> QED BY <1>2, <2>1, Replied
<1>5. ~Has(toWorker'[r], {"CLOSE_FILE", "WRITE_CHUNK"})
  BY <1>1, <1>2, <1>3, ApartTail DEF HandlesAt, TasksInOrder
<1>6. CloseIsWhole(r)'
  BY <1>5, NoCloses DEF Has
<1>7. Len(disk[r][x.file]) = Size[x.file]
  <2>1. PICK n \in Nat, m \in Nat : Continues(r, x.file, n, m) /\ m >= Size[x.file]
    BY <1>2, <1>3 DEF WorkIsWhole, CloseIsWhole
  <2>2. PICK q \in Seq(WorkerRequest) : q = toWorker[r]
    BY <1>3
  <2>3. Numbered(Tail(q), WritesTo(x.file), WriteOffset, n, m)
    <3>1. Head(q) \notin WritesTo(x.file) /\ q # <<>>
      BY <1>1, <1>2, <2>2 DEF WritesTo
    <3>2. Numbered(q, WritesTo(x.file), WriteOffset, n, m)
      BY <2>1, <2>2 DEF Continues
    <3> QED BY <3>1, <3>2, NumberedTail
  <2>4. Tail(q) \in Seq(WorkerRequest) /\ \A z \in ToSet(Tail(q)) : z \notin WritesTo(x.file)
    BY <1>2, <1>3, <1>5, <2>2, HeadTail DEF Has, WritesTo
  <2>5. m = n
    <3>1. PICK t \in Seq(WorkerRequest) : t = Tail(q)
      BY <2>4
    <3>2. /\ Numbered(t, WritesTo(x.file), WriteOffset, n, m)
          /\ \A z \in ToSet(t) : z \notin WritesTo(x.file)
      BY <2>3, <2>4, <3>1
    <3> QED BY <3>2, NumberedBounds
  <2>6. n <= Len(disk[r][x.file])
    BY <2>1 DEF Continues
  <2>7. Len(disk[r][x.file]) <= Size[x.file]
    BY <1>3 DEF WritesAt, PrefixOnDisk
  <2>8. Len(disk[r][x.file]) \in Nat /\ Size[x.file] \in Nat
    <3>1. disk[r][x.file] \in Seq(Payload \cup {None})
      BY <1>3, DiskTypes DEF Content
    <3> QED BY <1>3, <3>1, SizeAssumption
  <2> QED BY <2>1, <2>5, <2>6, <2>7, <2>8
<1>8. ClosedIsWhole(r)'
  <2>1. ASSUME NEW f \in File, Closed(r, f)' PROVE f = x.file \/ Closed(r, f)
    BY <1>1, <1>2, <1>3, <1>4, <2>1 DEF Closed
  <2> QED BY <1>2, <1>7, <2>1 DEF ClosedIsWhole, WorkIsWhole
<1>9. ReadIsWhole(r)'
  BY <1>4 DEF WorkIsWhole, ReadIsWhole
<1> QED BY <1>6, <1>8, <1>9 DEF WorkIsWhole

LEMMA suspendWhole ==
  ASSUME TypeInv, NEW r \in Receiver, WorkIsWhole(r), OpfsStep(r), suspend(r)
  PROVE  WorkIsWhole(r)'
<1>1. PICK x : x = Head(toWorker[r])
  OBVIOUS
<1>2. /\ toWorker[r] # <<>> /\ x.type \in {"INIT_FILE", "GET_FILE"} /\ Take(r)
      /\ suspended' = [suspended EXCEPT ![r] = @ \cup {x}]
      /\ UNCHANGED <<disk, fromWorker>>
  BY <1>1 DEF suspend
<1>3. /\ x \in ToSet(toWorker[r]) /\ toWorker'[r] = Tail(toWorker[r])
      /\ ToSet(toWorker'[r]) \subseteq ToSet(toWorker[r])
  BY <1>1, <1>2, TakenRequest
<1>4. suspended'[r] = suspended[r] \cup {x}
  BY <1>2, DiskTypes
<1>5. SameWrites(r)
  BY <1>1, <1>2, <1>3, WritesQueued
<1>6. CloseIsWhole(r)'
  BY <1>2, <1>3, <1>5, ClosesKept DEF WorkIsWhole
<1>7. \A f \in File : Closed(r, f)' => Closed(r, f)
  BY <1>2, <1>3, <1>4 DEF Closed
<1> QED BY <1>2, <1>6, <1>7, ClosedKept DEF WorkIsWhole, ReadIsWhole

LEMMA answerWhole ==
  ASSUME TypeInv, NEW r \in Receiver, WritesAt(r), WorkIsWhole(r), OpfsStep(r),
         \/ getFile(r)
         \/ initFile(r) /\ UNCHANGED <<toWorker, disk>>
  PROVE  WorkIsWhole(r)'
<1>1. CASE getFile(r)
  <2>1. PICK x, y : /\ x \in suspended[r] /\ x.type = "GET_FILE"
                    /\ y = [type |-> "FILE_READY", file |-> x.file, data |-> disk[r][x.file]]
                    /\ Reply(r, y)
                    /\ suspended' = [suspended EXCEPT ![r] = @ \ {x}]
                    /\ UNCHANGED <<toWorker, disk>>
    BY <1>1 DEF getFile
  <2>2. suspended'[r] \subseteq suspended[r] /\ x.file \in File
    BY <2>1, DiskTypes DEF Suspending
  <2>3. ToSet(fromWorker'[r]) = ToSet(fromWorker[r]) \cup {y} /\ y.type = "FILE_READY"
    <3>1. disk[r][x.file] \in Content
      BY <2>2, DiskTypes
    <3>2. y \in WorkerReply
      BY <2>1, <2>2, <3>1 DEF WorkerReply
    <3> QED BY <2>1, <3>2, Replied
  <2>4. y.file = x.file /\ y.data = Whole(x.file)
    <3>1. Closed(r, x.file)
      BY <2>1 DEF Closed
    <3>2. Len(disk[r][x.file]) = Size[x.file]
      BY <2>2, <3>1 DEF WorkIsWhole, ClosedIsWhole
    <3> QED BY <2>1, <2>2, <3>2, FullIsWhole DEF WritesAt
  <2>5. ReadIsWhole(r)'
    BY <2>3, <2>4 DEF ReadIsWhole, WorkIsWhole
  <2>6. CloseIsWhole(r)'
    BY <2>1, ClosesKept, WritesQueued DEF WorkIsWhole
  <2>7. \A f \in File : Closed(r, f)' => Closed(r, f)
    BY <2>1, <2>2, <2>3 DEF Closed
  <2> QED BY <2>1, <2>5, <2>6, <2>7, ClosedKept DEF WorkIsWhole
<1>2. CASE initFile(r) /\ UNCHANGED <<toWorker, disk>>
  <2>1. PICK x, y : /\ x \in suspended[r]
                    /\ \/ y = Failure(x.file)
                       \/ y = [type |-> "INIT_SUCCESS", file |-> x.file]
                    /\ Reply(r, y)
                    /\ suspended' = [suspended EXCEPT ![r] = @ \ {x}]
    BY <1>2 DEF initFile
  <2>2. suspended'[r] \subseteq suspended[r] /\ x.file \in File
    BY <2>1, DiskTypes DEF Suspending
  <2>3. /\ ToSet(fromWorker'[r]) = ToSet(fromWorker[r]) \cup {y}
        /\ y.type \notin {"FILE_CLOSED", "FILE_READY"}
    <3>1. y \in WorkerReply /\ y.type \notin {"FILE_CLOSED", "FILE_READY"}
      BY <2>1, <2>2 DEF WorkerReply, Failure
    <3> QED BY <2>1, <3>1, Replied
  <2>4. CloseIsWhole(r)'
    BY <1>2, ClosesKept, WritesQueued DEF WorkIsWhole
  <2>5. \A f \in File : Closed(r, f)' => Closed(r, f)
    BY <1>2, <2>2, <2>3 DEF Closed
  <2>6. ReadIsWhole(r)'
    BY <2>3 DEF ReadIsWhole, WorkIsWhole
  <2> QED BY <1>2, <2>4, <2>5, <2>6, ClosedKept DEF WorkIsWhole
<1> QED BY <1>1, <1>2

LEMMA WorkerStepWhole ==
  ASSUME TypeInv, TypeInv', NEW r \in Receiver, DataAt(r), HandlesAt(r), WritesAt(r), WritesAt(r)',
         WorkIsWhole(r), OpfsStep(r), MaxFaults = 0
  PROVE  WorkIsWhole(r)'
<1>1. ~writeChunkFails(r)
  BY NoFailedWrite
<1>2. CASE initFile(r)
  BY <1>2, initFileHandles, answerWhole
<1> QED BY <1>1, <1>2, writeChunkWhole, closeFileWhole, suspendWhole, answerWhole
        DEF OpfsStep, WorkerStep

LEMMA WholeWorkKept ==
  ASSUME NEW r \in Receiver, WorkIsWhole(r), SameWrites(r),
         disk'[r] = disk[r], suspended'[r] \subseteq suspended[r],
         ToSet(fromWorker'[r]) \subseteq ToSet(fromWorker[r]),
         \A x \in ToSet(toWorker'[r]) :
           x.type \in {"CLOSE_FILE", "GET_FILE"} => x \in ToSet(toWorker[r])
  PROVE  WorkIsWhole(r)'
<1>1. CloseIsWhole(r)'
  BY ClosesKept DEF WorkIsWhole
<1>2. \A f \in File : Closed(r, f)' => Closed(r, f)
  BY DEF Closed
<1>3. ReadIsWhole(r)'
  BY DEF ReadIsWhole, WorkIsWhole
<1> QED BY <1>1, <1>2, <1>3, ClosedKept DEF WorkIsWhole

LEMMA DownloadsKept ==
  ASSUME NEW r \in Receiver, DownloadsWhole(r), delivered'[r] = delivered[r]
  PROVE  DownloadsWhole(r)'
BY DEF DownloadsWhole

LEMMA AsideWhole ==
  ASSUME TypeInv, NEW r \in Receiver, ReceiverStep(r), Aside(r),
         WorkIsWhole(r), DownloadsWhole(r)
  PROVE  WorkIsWhole(r)' /\ DownloadsWhole(r)'
<1> USE DEF Aside
<1>2. disk' = disk /\ suspended' = suspended
  BY DEF fileClosed, fileReady, recordDeleted, chunkWritten, replyDropped, onPauseSignal,
         workerVars
<1>3. /\ ToSet(fromWorker'[r]) \subseteq ToSet(fromWorker[r])
      /\ fromWorker[r] \in Seq(WorkerReply)
  <2>1. fromWorker' = fromWorker \/ (fromWorker[r] # <<>> /\ TakeReply(r))
    <3>1. CASE fileClosed(r) \/ fileReady(r)
      BY <3>1 DEF fileClosed, fileReady, NextReply
    <3>2. CASE chunkWritten(r) \/ replyDropped(r)
      BY <3>2 DEF chunkWritten, replyDropped, NextReply
    <3>3. CASE onPauseSignal(r) \/ \E h \in finishing[r] : recordDeleted(r, h)
      BY <3>3 DEF onPauseSignal, recordDeleted, workerVars
    <3> QED BY <3>1, <3>2, <3>3
  <2>2. ASSUME fromWorker[r] # <<>>, TakeReply(r) PROVE fromWorker'[r] = Tail(fromWorker[r])
    BY <2>2, DiskTypes DEF TakeReply
  <2> QED BY <2>1, <2>2, DiskTypes, SetTail
<1>4. CASE fileClosed(r)
  <2>1. PICK x : x = GetFile(ReplyFile(r))
    OBVIOUS
  <2>2. /\ Head(fromWorker[r]) \in ToSet(fromWorker[r]) /\ ReplyFile(r) \in File
        /\ Head(fromWorker[r]).type = "FILE_CLOSED"
    BY <1>4, TakenReply DEF fileClosed
  <2>3. /\ toWorker'[r] = Append(toWorker[r], x) /\ toWorker[r] \in Seq(WorkerRequest)
        /\ x \in WorkerRequest /\ x.type = "GET_FILE" /\ x.file = ReplyFile(r)
        /\ ToSet(toWorker'[r]) = ToSet(toWorker[r]) \cup {x}
    BY <1>4, <2>1, FileClosedPosts
  <2>4. SameWrites(r)
    BY <2>3, WritesQueued
  <2>5. CloseIsWhole(r)'
    BY <1>2, <2>3, <2>4, ClosesKept DEF WorkIsWhole
  <2>6. Closed(r, ReplyFile(r))
    BY <2>2 DEF Closed, ReplyFile
  <2>7. \A g \in File : Closed(r, g)' => Closed(r, g)
    BY <1>2, <1>3, <2>3, <2>6 DEF Closed
  <2>8. WorkIsWhole(r)'
    BY <1>2, <1>3, <2>5, <2>7, ClosedKept DEF WorkIsWhole, ReadIsWhole
  <2> QED BY <1>4, <2>8, DownloadsKept DEF fileClosed
<1>5. CASE ~fileClosed(r)
  <2>1. toWorker' = toWorker
    BY <1>5 DEF fileReady, recordDeleted, chunkWritten, replyDropped, onPauseSignal, workerVars
  <2>2. WorkIsWhole(r)'
    BY <1>2, <1>3, <2>1, WholeWorkKept, WritesQueued
  <2>3. CASE fileReady(r)
    <3>1. PICK f, data : f = ReplyFile(r) /\ data = Head(fromWorker[r]).data
      OBVIOUS
    <3>2. /\ Head(fromWorker[r]) \in ToSet(fromWorker[r])
          /\ Head(fromWorker[r]).type = "FILE_READY" /\ Head(fromWorker[r]).file = f
      BY <2>3, <3>1, TakenReply DEF fileReady, ReplyFile
    <3>3. data = Whole(f)
      BY <3>1, <3>2 DEF WorkIsWhole, ReadIsWhole
    <3>4. delivered'[r] = delivered[r] \cup {[file |-> f, data |-> data, warned |-> error[r]]}
      BY <2>3, <3>1, DiskTypes DEF fileReady, HandOver
    <3> QED BY <2>2, <3>3, <3>4 DEF DownloadsWhole
  <2>4. CASE ~fileReady(r)
    <3>1. delivered' = delivered
      BY <1>5, <2>4 DEF recordDeleted, chunkWritten, replyDropped, onPauseSignal, receiverVars
    <3> QED BY <2>2, <3>1, DownloadsKept
  <2> QED BY <2>3, <2>4
<1> QED BY <1>4, <1>5

LEMMA onOfferWhole ==
  ASSUME TypeInv, NEW r \in Receiver, WorkIsWhole(r), DownloadsWhole(r),
         onOffer(r) \/ onOfferInMemory(r)
  PROVE  WorkIsWhole(r)' /\ DownloadsWhole(r)'
<1>1. UNCHANGED <<toWorker, suspended, disk, fromWorker, delivered>>
  BY DEF onOffer, onOfferInMemory, WorkerElsewhere
<1> QED BY <1>1, WholeWorkKept, WritesQueued, DownloadsKept

LEMMA recordFoundWhole ==
  ASSUME TypeInv, NEW r \in Receiver, WorkIsWhole(r), DownloadsWhole(r),
         NEW h \in offers[r], recordFound(r, h)
  PROVE  WorkIsWhole(r)' /\ DownloadsWhole(r)'
<1>1. UNCHANGED <<suspended, disk, fromWorker, delivered>>
  BY DEF recordFound, WorkerElsewhere
<1>2. PICK x : x = InitFile(h.file)
  OBVIOUS
<1>3. /\ x \in WorkerRequest /\ x.type = "INIT_FILE"
      /\ toWorker'[r] = Append(toWorker[r], x)
      /\ ToSet(toWorker'[r]) = ToSet(toWorker[r]) \cup {x}
  BY <1>2, RecordFoundPosts
<1>4. SameWrites(r)
  BY <1>3, WritesQueued
<1> QED BY <1>1, <1>3, <1>4, WholeWorkKept, DownloadsKept

LEMMA fileInitialisedWhole ==
  ASSUME TypeInv, NEW r \in Receiver, DataAt(r), SentAt(r), HandlesAt(r), ReceiverStep(r),
         WorkIsWhole(r), DownloadsWhole(r), fileInitialised(r)
  PROVE  WorkIsWhole(r)' /\ DownloadsWhole(r)'
<1>1. toWorker'[r] = toWorker[r]
  BY fileInitialisedHandles
<1>2. UNCHANGED <<suspended, disk, delivered>> /\ TakeReply(r) /\ NextReply(r, "INIT_SUCCESS")
  BY DEF fileInitialised
<1>3. ToSet(fromWorker'[r]) \subseteq ToSet(fromWorker[r])
  BY <1>2, TakenReply, SetTail
<1> QED BY <1>1, <1>2, <1>3, WholeWorkKept, WritesQueued, DownloadsKept

LEMMA onChunkWhole ==
  ASSUME TypeInv, NEW r \in Receiver, DataAt(r), SentAt(r), HandlesAt(r), ReceiverStep(r),
         WorkIsWhole(r), PageIsWhole(r), onChunk(r)
  PROVE  WorkIsWhole(r)' /\ DownloadsWhole(r)'
<1>1. UNCHANGED <<suspended, disk, fromWorker, delivered>>
  BY DEF onChunk, WorkerElsewhere
<1>2. DownloadsWhole(r)'
  BY <1>1, DownloadsKept DEF PageIsWhole
<1>3. CASE r \in OpfsReceiver
  <2>1. Receiving(r) /\ OneAtATime(r)
    BY onChunkSent DEF PageIsWhole, InTurn
  <2>2. PICK x : x = WriteChunk(meta[r], [file |-> meta[r], index |-> total[r]], total[r])
    OBVIOUS
  <2>3. x.type = "WRITE_CHUNK" /\ ToSet(toWorker'[r]) = ToSet(toWorker[r]) \cup {x}
    BY <1>3, <2>1, <2>2, ChunkPosts
  <2>4. ~Has(toWorker'[r], {"CLOSE_FILE"})
    BY <1>3, <2>1, <2>3 DEF HandlesAt, HandleForFile, Has
  <2>5. \A f \in File : Closed(r, f)' => Closed(r, f)
    BY <1>1, <2>3 DEF Closed
  <2>6. WorkIsWhole(r)'
    BY <1>1, <2>4, <2>5, NoCloses, ClosedKept DEF WorkIsWhole, ReadIsWhole
  <2> QED BY <1>2, <2>6
<1>4. CASE r \notin OpfsReceiver
  <2>1. toWorker'[r] = toWorker[r]
    BY <1>4, ChunkStored DEF ToDisk
  <2> QED BY <1>1, <1>2, <2>1, WholeWorkKept, WritesQueued
<1> QED BY <1>3, <1>4

LEMMA onCompleteWhole ==
  ASSUME TypeInv, NEW r \in Receiver, DataAt(r), SentAt(r), HandlesAt(r), WritesAt(r),
         ReceiverStep(r), WorkIsWhole(r), PageIsWhole(r), onComplete(r)
  PROVE  WorkIsWhole(r)' /\ DownloadsWhole(r)'
<1>1. /\ Receiving(r) /\ meta[r] \in File /\ Size[meta[r]] <= total[r]
  BY onCompleteSent
<1>2. UNCHANGED <<suspended, disk, fromWorker>>
  BY CompletePosts
<1>3. DownloadsWhole(r) /\ OneAtATime(r) /\ InTurn(r)
  BY DEF PageIsWhole, InTurn
<1>4. CASE r \in OpfsReceiver
  <2>1. PICK x : x = CloseFile(meta[r])
    OBVIOUS
  <2>2. /\ toWorker'[r] = Append(toWorker[r], x) /\ delivered' = delivered
        /\ x.type = "CLOSE_FILE" /\ x \in WorkerRequest /\ x.file = meta[r]
        /\ ToSet(toWorker'[r]) = ToSet(toWorker[r]) \cup {x}
    BY <1>4, <2>1, ClosePosted
  <2>3. SameWrites(r)
    BY <2>2, WritesQueued
  <2>4. PICK n \in Nat, m \in Nat : Continues(r, x.file, n, m) /\ ClaimsBacked(r, x.file, m)
    BY <1>1, <2>2 DEF WritesAt, WritesContinue
  <2>5. m >= Size[x.file]
    <3>1. active[r] = x.file
      BY <1>1, <1>3, <2>2 DEF OneAtATime
    <3>2. m = total[r]
      BY <1>1, <1>4, <2>2, <2>4, <3>1 DEF ClaimsBacked
    <3> QED BY <1>1, <2>2, <3>2, DataTypes, SizeAssumption
  <2>6. Continues(r, x.file, n, m)'
    <3>1. Numbered(toWorker[r], WritesTo(x.file), WriteOffset, n, m) /\ n <= Len(disk[r][x.file])
      BY <2>4 DEF Continues
    <3>2. Numbered(toWorker'[r], WritesTo(x.file), WriteOffset, n, m)
      BY <2>3, <3>1 DEF SameWrites
    <3> QED BY <1>2, <3>1, <3>2 DEF Continues
  <2>7. CloseIsWhole(r)'
    <3>1. ASSUME NEW y \in ToSet(toWorker'[r]), y.type = "CLOSE_FILE" PROVE y = x
      BY <1>1, <1>4, <2>2, <3>1 DEF HandlesAt, HandleForFile, Has
    <3>2. \E k, l \in Nat : Continues(r, x.file, k, l)' /\ l >= Size[x.file]
      BY <2>5, <2>6
    <3> QED BY <3>1, <3>2 DEF CloseIsWhole
  <2>8. \A f \in File : Closed(r, f)' => Closed(r, f)
    BY <1>2, <2>2 DEF Closed
  <2>9. WorkIsWhole(r)'
    BY <1>2, <2>7, <2>8, ClosedKept DEF WorkIsWhole, ReadIsWhole
  <2> QED BY <1>3, <2>2, <2>9, DownloadsKept
<1>5. CASE r \notin OpfsReceiver
  <2>1. toWorker' = toWorker /\ HandOver(r, meta[r], memory[r])
    BY <1>5, CompletePosts
  <2>2. WorkIsWhole(r)'
    BY <1>2, <2>1, WholeWorkKept, WritesQueued
  <2>3. PICK s : s = memory[r]
    OBVIOUS
  <2>4. s = Whole(meta[r])
    BY <1>3, <1>5, <2>3, onCompleteInTurn
  <2>5. delivered'[r] = delivered[r] \cup {[file |-> meta[r], data |-> s, warned |-> error[r]]}
    BY <2>1, <2>3, DiskTypes DEF HandOver
  <2>6. DownloadsWhole(r)'
    BY <1>3, <2>4, <2>5 DEF DownloadsWhole
  <2> QED BY <2>2, <2>6
<1> QED BY <1>4, <1>5

LEMMA PageStepWhole ==
  ASSUME TypeInv, NEW r \in Receiver, DataAt(r), SentAt(r), HandlesAt(r), WritesAt(r),
         ReceiverStep(r), MaxFaults = 0, FinishedInTurn, WorkIsWhole(r), PageIsWhole(r)
  PROVE  WorkIsWhole(r)' /\ PageIsWhole(r)'
<1>1. ~workerError(r) /\ InTurn(r) /\ DownloadsWhole(r)
  BY NoWorkerError DEF PageIsWhole
<1>2. InTurn(r)'
  BY <1>1, PageStepInTurn DEF FinishedInTurn
<1> SUFFICES WorkIsWhole(r)' /\ DownloadsWhole(r)'
  BY <1>2 DEF PageIsWhole
<1>3. CASE onChunk(r)
  BY <1>3, onChunkWhole
<1>4. CASE onOffer(r) \/ onOfferInMemory(r)
  BY <1>1, <1>4, onOfferWhole
<1>5. ASSUME NEW h \in offers[r], recordFound(r, h) PROVE WorkIsWhole(r)' /\ DownloadsWhole(r)'
  BY <1>1, <1>5, recordFoundWhole
<1>6. CASE fileInitialised(r)
  BY <1>1, <1>6, fileInitialisedWhole
<1>7. CASE onComplete(r)
  BY <1>7, onCompleteWhole
<1>8. CASE Aside(r)
  BY <1>1, <1>8, AsideWhole
<1> QED BY <1>1, <1>3, <1>4, <1>5, <1>6, <1>7, <1>8 DEF ReceiverStep, ReceiverHandler, Aside

LEMMA UntouchedWhole ==
  ASSUME TypeInv, NEW s \in Receiver, WorkIsWhole(s), PageIsWhole(s), ReceptionKept(s),
         PageUntouched(s)
  PROVE  WorkIsWhole(s)' /\ PageIsWhole(s)'
<1>1. SameWrites(s)
  BY WritesQueued DEF PageUntouched
<1>2. WorkIsWhole(s)'
  BY <1>1, WholeWorkKept DEF PageUntouched
<1>3. InTurn(s)' /\ DownloadsWhole(s)'
  BY InTurnKept, DownloadsKept DEF PageIsWhole, PageUntouched, PageKept, ReceptionKept
<1> QED BY <1>2, <1>3 DEF PageIsWhole

LEMMA SenderWhole ==
  ASSUME TypeInv, NEW r \in Receiver, WorkIsWhole(r), PageIsWhole(r), ReceptionKept(r), OnlySender
  PROVE  WorkIsWhole(r)' /\ PageIsWhole(r)'
<1>1. UNCHANGED <<workerVars, receiverVars>>
  BY DEF OnlySender
<1>2. SameWrites(r)
  BY <1>1, WritesQueued DEF workerVars
<1>3. WorkIsWhole(r)'
  BY <1>1, <1>2, WholeWorkKept DEF workerVars
<1>4. InTurn(r)' /\ DownloadsWhole(r)'
  BY <1>1, InTurnKept, DownloadsKept DEF PageIsWhole, ReceptionKept, receiverVars
<1> QED BY <1>3, <1>4 DEF PageIsWhole

LEMMA ReloadWhole ==
  ASSUME TypeInv, NEW r \in Receiver, PageIsWhole(r), ReceiverReload(r)
  PROVE  WorkIsWhole(r)' /\ PageIsWhole(r)'
<1>1. /\ toWorker'[r] = <<>> /\ fromWorker'[r] = <<>> /\ suspended'[r] = {} /\ offers'[r] = {}
      /\ delivered' = delivered /\ ~Receiving(r)'
  BY PageLoaded, PageLoadedKnows
<1>2. ToSet(toWorker'[r]) = {} /\ ToSet(fromWorker'[r]) = {}
  BY <1>1, SetNothing
<1>3. WorkIsWhole(r)'
  BY <1>1, <1>2 DEF WorkIsWhole, CloseIsWhole, ClosedIsWhole, Closed, ReadIsWhole
<1> QED BY <1>1, <1>3, InTurnIdle, DownloadsKept DEF PageIsWhole

LEMMA InitIntact == Init => IntactInv
<1> SUFFICES ASSUME Init, NEW r \in Receiver PROVE WorkIsWhole(r) /\ PageIsWhole(r)
  BY DEF IntactInv
<1>1. /\ toWorker[r] = <<>> /\ fromWorker[r] = <<>> /\ suspended[r] = {} /\ offers[r] = {}
      /\ delivered[r] = {} /\ ~Receiving(r)
  BY DEF Init, WorkerInit, ReceiverInit, Receiving
<1>2. ToSet(toWorker[r]) = {} /\ ToSet(fromWorker[r]) = {}
  BY <1>1, SetNothing
<1>3. WorkIsWhole(r)
  BY <1>1, <1>2 DEF WorkIsWhole, CloseIsWhole, ClosedIsWhole, Closed, ReadIsWhole
<1> QED BY <1>1, <1>3 DEF PageIsWhole, InTurn, OneAtATime, MemoryIsPrefix, DownloadsWhole

LEMMA StepIntact ==
  ASSUME Undisturbed, WriteInv, WriteInv', IntactInv, [Next]_vars, [FinishedInTurn]_vars
  PROVE  IntactInv'
<1>1. /\ TypeInv /\ TypeInv' /\ DataInv /\ DiskInv /\ ReadsInside /\ SentEverywhere
      /\ TimelyAccept /\ MaxFaults = 0 /\ MaxSenderReloads = 0
  BY DEF WriteInv, DiskInv, SentEverywhere, Undisturbed
<1>2. \A s \in Receiver :
        /\ DataAt(s) /\ SentAt(s) /\ HandlesAt(s) /\ WritesAt(s) /\ WritesAt(s)'
        /\ WorkIsWhole(s) /\ PageIsWhole(s)
  BY DEF WriteInv, DiskInv, DataInv, IntactInv
<1>3. ASSUME NEW s \in Receiver, PageUntouched(s) PROVE WorkIsWhole(s)' /\ PageIsWhole(s)'
  BY <1>1, <1>2, <1>3, UntouchedHandles, UntouchedWhole
<1>4. CASE UNCHANGED vars
  <2>1. UNCHANGED <<toReceiver, toSender, senderVars, workerVars, receiverVars>>
    BY <1>4 DEF vars, channelVars
  <2>2. ASSUME NEW s \in Receiver PROVE PageUntouched(s)
    BY <2>1 DEF PageUntouched, LoopKept, PageKept, senderVars, workerVars, receiverVars
  <2> QED BY <1>3, <2>2 DEF IntactInv
<1>5. CASE Next /\ FinishedInTurn
  <2>1. CASE SenderStep
    <3>1. ASSUME NEW r \in Receiver PROVE WorkIsWhole(r)' /\ PageIsWhole(r)'
      <4>1. ReceptionKept(r) /\ OnlySender
        BY <1>1, <2>1, SenderStepSent DEF SenderStep
      <4> QED BY <1>1, <1>2, <4>1, SenderWhole
    <3> QED BY <3>1 DEF IntactInv
  <2>2. ASSUME NEW r \in Receiver, ReceiverStep(r) PROVE IntactInv'
    <3>1. WorkIsWhole(r)' /\ PageIsWhole(r)'
      BY <1>1, <1>2, <1>5, <2>2, PageStepWhole
    <3>2. ASSUME NEW s \in Receiver, s # r PROVE WorkIsWhole(s)' /\ PageIsWhole(s)'
      BY <1>1, <1>3, <2>2, <3>2, PageStepElsewhere
    <3> QED BY <3>1, <3>2 DEF IntactInv
  <2>3. ASSUME NEW r \in Receiver, OpfsStep(r) PROVE IntactInv'
    <3>1. WorkIsWhole(r)'
      BY <1>1, <1>2, <2>3, WorkerStepWhole
    <3>2. PageIsWhole(r)'
      <4>1. UNCHANGED <<toReceiver, toSender, senderVars, receiverVars>>
        BY <2>3 DEF OpfsStep, channelVars
      <4>2. Receiving(r)' <=> Receiving(r)
        BY <4>1, WorkerAside
      <4> QED BY <1>2, <4>1, <4>2, InTurnKept, DownloadsKept DEF PageIsWhole, receiverVars
    <3>3. ASSUME NEW s \in Receiver, s # r PROVE WorkIsWhole(s)' /\ PageIsWhole(s)'
      BY <1>1, <1>3, <2>3, <3>3, WorkerStepElsewhere
    <3> QED BY <3>1, <3>2, <3>3 DEF IntactInv
  <2>4. ASSUME NEW r \in Receiver, ReceiverReload(r) PROVE IntactInv'
    <3>1. WorkIsWhole(r)' /\ PageIsWhole(r)'
      BY <1>1, <1>2, <2>4, ReloadWhole
    <3>2. ASSUME NEW s \in Receiver, s # r PROVE WorkIsWhole(s)' /\ PageIsWhole(s)'
      BY <1>1, <1>3, <2>4, <3>2, ReloadElsewhere
    <3> QED BY <3>1, <3>2 DEF IntactInv
  <2>5. ASSUME NEW r \in Receiver, Rejoin(r) PROVE IntactInv'
    <3>1. UNCHANGED <<toReceiver, toSender, senderVars, workerVars, receiverVars>>
      BY <2>5 DEF Rejoin
    <3>2. ASSUME NEW s \in Receiver PROVE PageUntouched(s)
      BY <3>1 DEF PageUntouched, LoopKept, PageKept, senderVars, workerVars, receiverVars
    <3> QED BY <1>3, <3>2 DEF IntactInv
  <2>6. ~SenderReload
    BY <1>1 DEF SenderReload, TypeInv, TypeOK
  <2> QED BY <1>5, <2>1, <2>2, <2>3, <2>4, <2>5, <2>6 DEF Next
<1> QED BY <1>4, <1>5

\* finishReceive hands a file over without comparing it with what was announced, and it is
\* the sender's file all the same: from the worker's disk or from the page's memory,
\* resumed or sent anew.  One more condition is needed, and the code does not enforce it:
\* the next file is offered when finishReceive is over (FinishedInTurn), since its end
\* sets activeFileId to null whatever file is active by then.
THEOREM IntactDelivered ==
  ASSUME Undisturbed
  PROVE  Spec /\ [][OneTarget]_vars /\ [][FinishedInTurn]_vars => []DeliveredIntact
<1>1. WriteInv /\ [Next]_vars /\ [OneTarget]_vars => WriteInv'
  BY StepWrite
<1>2. WriteInv /\ WriteInv' /\ IntactInv /\ [Next]_vars /\ [FinishedInTurn]_vars => IntactInv'
  BY StepIntact
<1>3. IntactInv => DeliveredIntact
  BY DEF IntactInv, PageIsWhole, DownloadsWhole, DeliveredIntact
<1> QED BY <1>1, <1>2, <1>3, InitWrite, InitIntact, PTL DEF Spec

-----------------------------------------------------------------------------
(* When a write fails: a download that is not the sender's file comes with an *)
(* error.  First where a chunk the page has counted can be: on disk, on its   *)
(* way to the disk, or lost, and then an error is shown or on its way.        *)
OnDisk(r, f, i) == i <= Len(disk[r][f]) /\ disk[r][f][i] = [file |-> f, index |-> i - 1]

ToWrite(r, f, i) ==
  \E x \in ToSet(toWorker[r]) : x.type = "WRITE_CHUNK" /\ x.file = f /\ x.offset = i - 1

Told(r) == error[r] \/ Has(fromWorker[r], {"ERROR"})

There(r, f, i) == OnDisk(r, f, i) \/ Told(r)

Coming(r, f, i) == There(r, f, i) \/ ToWrite(r, f, i)

\* The runs the theorem is about: a file is offered when the page and its worker are done
\* with the one before, and a transfer only resumes where the disk holds all that the
\* record claims.
WorkerIdle(r) == toWorker[r] = <<>> /\ suspended[r] = {} /\ fromWorker[r] = <<>>

SettledInTurn ==
  \A r \in Receiver : onOffer(r) \/ onOfferInMemory(r) => finishing[r] = {} /\ WorkerIdle(r)

ResumesIntact ==
  \A r \in Receiver : \A h \in offers[r] : recordFound(r, h) =>
    \A i \in 1..StartOffset(r, h.file) : OnDisk(r, h.file, i)

\* Only right chunks are written, in their places; others may be missing before them.
DiskRight(r) == WritesRight(r) /\ \A f \in File : Len(disk[r][f]) <= Size[f]

MemoryHasNoWorker(r) == r \notin OpfsReceiver => WorkerIdle(r)

\* Before the end of a file arrives, nothing is closed, read or ready; and until the file
\* is open, nothing is written.
NothingClosed(r) ==
  offers[r] # {} \/ Receiving(r) =>
    /\ ~Has(toWorker[r], {"CLOSE_FILE"})
    /\ \A f \in File : ~Closed(r, f)
    /\ ~Has(fromWorker[r], {"FILE_READY"})

NothingWritten(r) ==
  offers[r] # {} => ~Has(toWorker[r], {"WRITE_CHUNK"}) /\ ~Has(fromWorker[r], {"ERROR"})

\* Once a file is closed, its writes are over, and once it is ready, so are their errors.
WritesOver(r) ==
  /\ Apart(fromWorker[r], {"FILE_READY"}, {"ERROR"})
  /\ (\E f \in File : Closed(r, f)) \/ Has(fromWorker[r], {"FILE_READY"}) =>
       ~Has(toWorker[r], {"WRITE_CHUNK"})
  /\ \A h \in finishing[r] : h.stage = "forget" =>
       ~Has(toWorker[r], {"WRITE_CHUNK"}) /\ ~Has(fromWorker[r], {"ERROR"})

\* The error of a write that fails will be heard.
Heard(r) ==
  /\ Receiving(r) /\ r \in OpfsReceiver => meta[r] \in listening[r]
  /\ error[r] \/
       /\ \A x \in ToSet(toWorker[r]) : x.type = "WRITE_CHUNK" => x.file \in listening[r]
       /\ \A x \in ToSet(fromWorker[r]) : x.type = "ERROR" => x.file \in listening[r]

\* What the page has counted, and what it is about to count from.
PageCovered(r) ==
  /\ Receiving(r) /\ r \in OpfsReceiver => \A i \in 1..total[r] : Coming(r, meta[r], i)
  /\ \A h \in offers[r] : h.stage = "init" => \A i \in 1..h.start : OnDisk(r, h.file, i)

\* What the worker closes, has closed and has read.
WorkCovered(r) ==
  /\ \A x \in ToSet(toWorker[r]) : x.type = "CLOSE_FILE" =>
       \A i \in 1..Size[x.file] : Coming(r, x.file, i)
  /\ \A f \in File : Closed(r, f) => \A i \in 1..Size[f] : There(r, f, i)
  /\ \A x \in ToSet(fromWorker[r]) : x.type = "FILE_READY" => x.data = Whole(x.file) \/ Told(r)

Guarded(r) ==
  /\ MemoryHasNoWorker(r) /\ DiskRight(r)
  /\ NothingClosed(r) /\ NothingWritten(r) /\ WritesOver(r)
  /\ Heard(r) /\ PageCovered(r) /\ WorkCovered(r)

DownloadsTold(r) == \A d \in delivered[r] : d.data = Whole(d.file) \/ d.warned

GuardInv ==
  /\ ReadsInside
  /\ \A r \in Receiver :
       SentAt(r) /\ HandlesAt(r) /\ InTurn(r) /\ Guarded(r) /\ DownloadsTold(r)

-----------------------------------------------------------------------------
\* A worker with nothing to do, at a page that is not receiving to disk.
LEMMA IdleGuarded ==
  ASSUME NEW r \in Receiver, DiskRight(r), WorkerIdle(r)', disk'[r] = disk[r],
         \A h \in offers'[r] : h.stage # "init",
         Receiving(r)' => r \notin OpfsReceiver
  PROVE  Guarded(r)'
<1>1. /\ ToSet(toWorker'[r]) = {} /\ ToSet(fromWorker'[r]) = {} /\ suspended'[r] = {}
      /\ Apart(fromWorker'[r], {"FILE_READY"}, {"ERROR"})
  BY SetNothing, ApartShort DEF WorkerIdle
<1>2. \A T : ~Has(toWorker'[r], T) /\ ~Has(fromWorker'[r], T)
  BY <1>1 DEF Has
<1>3. \A f \in File : ~Closed(r, f)'
  BY <1>1 DEF Closed
<1>4. MemoryHasNoWorker(r)' /\ DiskRight(r)'
  BY <1>1 DEF MemoryHasNoWorker, DiskRight, WritesRight
<1>5. NothingClosed(r)' /\ NothingWritten(r)' /\ WritesOver(r)'
  BY <1>1, <1>2, <1>3 DEF NothingClosed, NothingWritten, WritesOver
<1>6. Heard(r)' /\ PageCovered(r)' /\ WorkCovered(r)'
  BY <1>1, <1>3 DEF Heard, PageCovered, WorkCovered
<1> QED BY <1>4, <1>5, <1>6 DEF Guarded

LEMMA InitGuarded ==
  ASSUME Init, NEW r \in Receiver
  PROVE  Guarded(r) /\ DownloadsTold(r)
<1>1. /\ toWorker[r] = <<>> /\ fromWorker[r] = <<>> /\ suspended[r] = {} /\ offers[r] = {}
      /\ finishing[r] = {} /\ delivered[r] = {} /\ ~Receiving(r)
      /\ \A f \in File : disk[r][f] = <<>>
  BY DEF Init, WorkerInit, ReceiverInit, Receiving
<1>2. /\ ToSet(toWorker[r]) = {} /\ ToSet(fromWorker[r]) = {}
      /\ Apart(fromWorker[r], {"FILE_READY"}, {"ERROR"})
  BY <1>1, SetNothing, ApartShort
<1>3. \A f \in File : ~Closed(r, f)
  BY <1>1, <1>2 DEF Closed
<1>4. ASSUME NEW f \in File PROVE Len(disk[r][f]) <= Size[f]
  <2>1. Len(disk[r][f]) = 0
    BY <1>1
  <2> QED BY <2>1, SizeAssumption
<1>5. MemoryHasNoWorker(r) /\ DiskRight(r)
  BY <1>1, <1>2, <1>4 DEF MemoryHasNoWorker, WorkerIdle, DiskRight, WritesRight
<1>6. NothingClosed(r) /\ NothingWritten(r) /\ WritesOver(r)
  BY <1>1, <1>2, <1>3 DEF NothingClosed, NothingWritten, WritesOver, Has
<1>7. Heard(r) /\ PageCovered(r) /\ WorkCovered(r)
  BY <1>1, <1>2, <1>3 DEF Heard, PageCovered, WorkCovered
<1> QED BY <1>1, <1>5, <1>6, <1>7 DEF Guarded, DownloadsTold

\* Requests that stand for chunks stay, and so does the word of a failure.
ChunksStay(r) ==
  /\ Told(r) => Told(r)'
  /\ \A f \in File : \A i \in Nat \ {0} :
       /\ OnDisk(r, f, i) => OnDisk(r, f, i)'
       /\ Coming(r, f, i) => Coming(r, f, i)'

LEMMA ChunksKeptOnDisk ==
  ASSUME NEW r \in Receiver, disk'[r] = disk[r], Told(r) => Told(r)',
         \A x \in ToSet(toWorker[r]) : x.type = "WRITE_CHUNK" => x \in ToSet(toWorker'[r])
  PROVE  ChunksStay(r)
BY DEF ChunksStay, OnDisk, Coming, There, ToWrite

\* What is closed, has been closed or read is still covered.
LEMMA WorkCoveredKept ==
  ASSUME TypeInv', NEW r \in Receiver, WorkCovered(r), ChunksStay(r),
         \A x \in ToSet(toWorker'[r]) : x.type = "CLOSE_FILE" =>
           x \in ToSet(toWorker[r]) \/ \A i \in 1..Size[x.file] : Coming(r, x.file, i),
         \A f \in File : Closed(r, f)' =>
           Closed(r, f) \/ \A i \in 1..Size[f] : There(r, f, i),
         \A x \in ToSet(fromWorker'[r]) : x.type = "FILE_READY" =>
           x \in ToSet(fromWorker[r]) \/ x.data = Whole(x.file) \/ Told(r)
  PROVE  WorkCovered(r)'
<1>1. ASSUME NEW x \in ToSet(toWorker'[r]), x.type = "CLOSE_FILE", NEW i \in 1..Size[x.file]
      PROVE  Coming(r, x.file, i)'
  <2>1. x.file \in File
    <3>1. PICK q \in Seq(WorkerRequest) : q = toWorker'[r]
      BY DEF TypeInv, TypeOK, WorkerTypeOK
    <3>2. x \in WorkerRequest
      BY <1>1, <3>1 DEF ToSet
    <3> QED BY <1>1, <3>2 DEF WorkerRequest, Suspending
  <2>2. i \in Nat \ {0}
    BY <2>1, SizeAssumption
  <2>3. PICK f \in File : f = x.file
    BY <2>1
  <2>4. Coming(r, f, i)
    BY <1>1, <2>3 DEF WorkCovered
  <2>5. Coming(r, f, i)'
    BY <2>2, <2>4 DEF ChunksStay
  <2> QED BY <2>3, <2>5
<1>2. ASSUME NEW f \in File, Closed(r, f)', NEW i \in 1..Size[f] PROVE There(r, f, i)'
  <2>1. There(r, f, i) /\ i \in Nat \ {0}
    BY <1>2, SizeAssumption DEF WorkCovered
  <2> QED BY <2>1 DEF ChunksStay, There
<1>3. ASSUME NEW x \in ToSet(fromWorker'[r]), x.type = "FILE_READY"
      PROVE  x.data = Whole(x.file) \/ Told(r)'
  BY <1>3 DEF WorkCovered, ChunksStay
<1> QED BY <1>1, <1>2, <1>3 DEF WorkCovered

\* Nothing is received that was not, and what is received is still covered.
LEMMA PageCoveredKept ==
  ASSUME TypeInv, NEW r \in Receiver, DataAt(r), HandlesAt(r), PageCovered(r), ChunksStay(r),
         offers'[r] \subseteq offers[r],
         Receiving(r)' => Receiving(r) /\ meta'[r] = meta[r] /\ total'[r] = total[r]
  PROVE  PageCovered(r)'
<1>1. ASSUME Receiving(r)', r \in OpfsReceiver, NEW i \in 1..total'[r]
      PROVE  Coming(r, meta[r], i)'
  <2>1. Coming(r, meta[r], i) /\ i \in Nat \ {0}
    BY <1>1, DataTypes DEF PageCovered
  <2>2. PICK f \in File : f = meta[r] /\ f = meta'[r]
    BY <1>1, WhileReceiving DEF Receiving
  <2>3. Coming(r, f, i)'
    BY <2>1, <2>2 DEF ChunksStay
  <2> QED BY <2>2, <2>3
<1>2. ASSUME NEW h \in offers'[r], h.stage = "init", NEW i \in 1..h.start
      PROVE  OnDisk(r, h.file, i)'
  <2>1. OnDisk(r, h.file, i)
    BY <1>2 DEF PageCovered
  <2>2. h.file \in File /\ i \in Nat \ {0}
    <3>1. h \in OfferHandler
      BY DataTypes
    <3> QED BY <3>1 DEF OfferHandler
  <2> QED BY <2>1, <2>2 DEF ChunksStay
<1> QED BY <1>1, <1>2 DEF PageCovered

\* A step that changes nothing for the worker but its order, and forgets no failure.
LEMMA GuardedSame ==
  ASSUME TypeInv, TypeInv', NEW r \in Receiver, DataAt(r), HandlesAt(r), Guarded(r),
         MemoryHasNoWorker(r)', Heard(r)',
         disk'[r] = disk[r], offers'[r] \subseteq offers[r],
         \A x : x.type = "WRITE_CHUNK" => (x \in ToSet(toWorker'[r]) <=> x \in ToSet(toWorker[r])),
         \A x \in ToSet(toWorker'[r]) : x.type = "CLOSE_FILE" => x \in ToSet(toWorker[r]),
         \A x \in ToSet(fromWorker'[r]) :
           x.type \in {"FILE_READY", "ERROR"} => x \in ToSet(fromWorker[r]),
         Apart(fromWorker'[r], {"FILE_READY"}, {"ERROR"}),
         \A f \in File : Closed(r, f)' => Closed(r, f),
         Told(r) => Told(r)',
         \A h \in finishing'[r] : h.stage = "forget" =>
           ~Has(toWorker'[r], {"WRITE_CHUNK"}) /\ ~Has(fromWorker'[r], {"ERROR"}),
         Receiving(r)' => Receiving(r) /\ meta'[r] = meta[r] /\ total'[r] = total[r]
  PROVE  Guarded(r)'
<1>1. DiskRight(r)'
  BY DEF Guarded, DiskRight, WritesRight
<1>2. NothingClosed(r)' /\ NothingWritten(r)'
  BY DEF Guarded, NothingClosed, NothingWritten, Has
<1>3. WritesOver(r)'
  BY DEF Guarded, WritesOver, Has
<1>4. ChunksStay(r)
  BY ChunksKeptOnDisk
<1>5. PageCovered(r)'
  BY <1>4, PageCoveredKept DEF Guarded
<1>6. WorkCovered(r)'
  <2>1. \A x \in ToSet(fromWorker'[r]) : x.type = "FILE_READY" => x \in ToSet(fromWorker[r])
    OBVIOUS
  <2>2. WorkCovered(r)
    BY DEF Guarded
  <2> QED BY <1>4, <2>1, <2>2, WorkCoveredKept
<1> QED BY <1>1, <1>2, <1>3, <1>5, <1>6 DEF Guarded

\* The page takes a reply of the worker.
LEMMA AnswerTaken ==
  ASSUME TypeInv, NEW r \in Receiver, WritesOver(r), fromWorker[r] # <<>>, TakeReply(r)
  PROVE  /\ ToSet(fromWorker[r]) = {Head(fromWorker[r])} \cup ToSet(fromWorker'[r])
         /\ Apart(fromWorker'[r], {"FILE_READY"}, {"ERROR"})
         /\ Head(fromWorker[r]).type = "FILE_READY" => ~Has(fromWorker'[r], {"ERROR"})
<1>1. fromWorker[r] \in Seq(WorkerReply) /\ fromWorker'[r] = Tail(fromWorker[r])
  BY DiskTypes DEF TakeReply
<1>2. Apart(fromWorker[r], {"FILE_READY"}, {"ERROR"})
  BY DEF WritesOver
<1>3. PICK q \in Seq(WorkerReply) : q = fromWorker[r] /\ q # <<>>
  BY <1>1
<1>4. /\ Apart(Tail(q), {"FILE_READY"}, {"ERROR"})
      /\ Head(q).type \in {"FILE_READY"} => ~Has(Tail(q), {"ERROR"})
  BY <1>2, <1>3, ApartTail
<1>5. ToSet(q) = {Head(q)} \cup ToSet(Tail(q))
  BY <1>3, SetTail
<1>6. Head(fromWorker[r]).type = "FILE_READY" => ~Has(fromWorker'[r], {"ERROR"})
  BY <1>1, <1>3, <1>4
<1> QED BY <1>1, <1>3, <1>4, <1>5, <1>6

\* Once a close is at the head, and once it is done, no write is left.
LEMMA NoWriteAfterClose ==
  ASSUME TypeInv, NEW r \in Receiver, TasksInOrder(r), toWorker[r] # <<>>,
         Head(toWorker[r]).type = "CLOSE_FILE"
  PROVE  ~Has(toWorker[r], {"WRITE_CHUNK"})
<1>1. PICK q \in Seq(WorkerRequest) : q = toWorker[r] /\ q # <<>>
  BY DiskTypes
<1>2. ~Has(Tail(q), {"CLOSE_FILE", "WRITE_CHUNK"})
  BY <1>1, ApartTail DEF TasksInOrder
<1>3. ToSet(q) = {Head(q)} \cup ToSet(Tail(q))
  BY <1>1, SetTail
<1> QED BY <1>1, <1>2, <1>3 DEF Has

\* What a reply adds to the replies, if it does not fail after the file is ready.
LEMMA AnswerAdded ==
  ASSUME TypeInv, NEW r \in Receiver, WritesOver(r), NEW x \in WorkerReply, Reply(r, x),
         x.type = "ERROR" => ~Has(fromWorker[r], {"FILE_READY"})
  PROVE  /\ ToSet(fromWorker'[r]) = ToSet(fromWorker[r]) \cup {x}
         /\ Apart(fromWorker'[r], {"FILE_READY"}, {"ERROR"})
<1>1. /\ fromWorker[r] \in Seq(WorkerReply) /\ fromWorker'[r] = fromWorker[r] \o <<x>>
      /\ ToSet(fromWorker'[r]) = ToSet(fromWorker[r]) \cup {x}
  BY Replied
<1>2. Apart(fromWorker[r], {"FILE_READY"}, {"ERROR"})
  BY DEF WritesOver
<1>3. Has(fromWorker[r], {"FILE_READY"}) => x.type \notin {"ERROR"}
  OBVIOUS
<1> QED BY <1>1, <1>2, <1>3, ApartMore

\* The page, and what the worker holds of the page's business, when the worker steps.
LEMMA PageAside ==
  ASSUME NEW r \in Receiver, OpfsStep(r)
  PROVE  /\ UNCHANGED <<error, listening, offers, finishing, meta, total, delivered>>
         /\ Receiving(r)' <=> Receiving(r)
<1>1. UNCHANGED <<toReceiver, toSender, senderVars, receiverVars>>
  BY DEF OpfsStep, channelVars
<1> QED BY <1>1, WorkerAside DEF receiverVars

LEMMA suspendGuarded ==
  ASSUME TypeInv, TypeInv', NEW r \in Receiver, DataAt(r), HandlesAt(r), Guarded(r),
         r \in OpfsReceiver, OpfsStep(r), suspend(r)
  PROVE  Guarded(r)'
<1>1. PICK x : x = Head(toWorker[r])
  OBVIOUS
<1>2. /\ toWorker[r] # <<>> /\ x.type \in {"INIT_FILE", "GET_FILE"} /\ Take(r)
      /\ suspended' = [suspended EXCEPT ![r] = @ \cup {x}]
      /\ UNCHANGED <<disk, fromWorker>>
  BY <1>1 DEF suspend
<1>3. ToSet(toWorker[r]) = {x} \cup ToSet(toWorker'[r])
  BY <1>1, <1>2, TakenRequest
<1>4. suspended'[r] = suspended[r] \cup {x}
  BY <1>2, DiskTypes
<1>5. \A f \in File : Closed(r, f)' => Closed(r, f)
  BY <1>2, <1>3, <1>4 DEF Closed
<1>6. /\ UNCHANGED <<error, listening, offers, finishing, meta, total>>
      /\ Receiving(r)' <=> Receiving(r)
  BY PageAside
<1>7. Heard(r)' /\ MemoryHasNoWorker(r)'
  BY <1>2, <1>3, <1>6 DEF Guarded, Heard, MemoryHasNoWorker
<1>8. Told(r) => Told(r)'
  BY <1>2, <1>6 DEF Told
<1>9. /\ Apart(fromWorker'[r], {"FILE_READY"}, {"ERROR"})
      /\ \A h \in finishing'[r] : h.stage = "forget" =>
           ~Has(toWorker'[r], {"WRITE_CHUNK"}) /\ ~Has(fromWorker'[r], {"ERROR"})
  BY <1>2, <1>3, <1>6 DEF Guarded, WritesOver, Has
<1>10. \A y : y.type = "WRITE_CHUNK" => (y \in ToSet(toWorker'[r]) <=> y \in ToSet(toWorker[r]))
  BY <1>2, <1>3
<1> QED BY <1>2, <1>3, <1>5, <1>6, <1>7, <1>8, <1>9, <1>10, GuardedSame

LEMMA initFileGuarded ==
  ASSUME TypeInv, TypeInv', NEW r \in Receiver, DataAt(r), HandlesAt(r), Guarded(r),
         r \in OpfsReceiver, OpfsStep(r), initFile(r)
  PROVE  Guarded(r)'
<1>1. PICK x \in suspended[r] :
        /\ x.type = "INIT_FILE"
        /\ IF x.file \in handles[r] THEN Reply(r, Failure(x.file))
           ELSE Reply(r, [type |-> "INIT_SUCCESS", file |-> x.file])
        /\ suspended' = [suspended EXCEPT ![r] = @ \ {x}]
        /\ UNCHANGED <<toWorker, disk>>
  BY DEF initFile
<1>2. PICK y : y = [type |-> "INIT_SUCCESS", file |-> x.file]
  OBVIOUS
<1>3. /\ Reply(r, y) /\ y \in WorkerReply /\ y.type = "INIT_SUCCESS" /\ WritesOver(r)
  <2>1. handles[r] = {} /\ x.file \in File
    BY <1>1, DiskTypes DEF HandlesAt, OpensHandle, Suspending
  <2> QED BY <1>1, <1>2, <2>1 DEF WorkerReply, Guarded
<1>4. /\ ToSet(fromWorker'[r]) = ToSet(fromWorker[r]) \cup {y}
      /\ Apart(fromWorker'[r], {"FILE_READY"}, {"ERROR"})
  BY <1>3, AnswerAdded
<1>5. suspended'[r] \subseteq suspended[r]
  BY <1>1, DiskTypes
<1>6. \A f \in File : Closed(r, f)' => Closed(r, f)
  BY <1>1, <1>3, <1>4, <1>5 DEF Closed
<1>7. /\ UNCHANGED <<error, listening, offers, finishing, meta, total>>
      /\ Receiving(r)' <=> Receiving(r)
  BY PageAside
<1>8. Heard(r)' /\ MemoryHasNoWorker(r)'
  BY <1>1, <1>3, <1>4, <1>7 DEF Guarded, Heard, MemoryHasNoWorker
<1>9. Told(r) => Told(r)'
  BY <1>4, <1>7 DEF Told, Has
<1>10. \A h \in finishing'[r] : h.stage = "forget" =>
         ~Has(toWorker'[r], {"WRITE_CHUNK"}) /\ ~Has(fromWorker'[r], {"ERROR"})
  BY <1>1, <1>3, <1>4, <1>7 DEF Guarded, WritesOver, Has
<1>11. \A z \in ToSet(fromWorker'[r]) :
         z.type \in {"FILE_READY", "ERROR"} => z \in ToSet(fromWorker[r])
  BY <1>3, <1>4
<1> QED BY <1>1, <1>4, <1>6, <1>7, <1>8, <1>9, <1>10, <1>11, GuardedSame

LEMMA closeFileGuarded ==
  ASSUME TypeInv, TypeInv', NEW r \in Receiver, DataAt(r), HandlesAt(r), Guarded(r),
         r \in OpfsReceiver, OpfsStep(r), closeFile(r)
  PROVE  Guarded(r)'
<1>1. PICK x, y : x = Head(toWorker[r]) /\ y = [type |-> "FILE_CLOSED", file |-> x.file]
  OBVIOUS
<1>2. /\ toWorker[r] # <<>> /\ x.type = "CLOSE_FILE" /\ Take(r)
      /\ Reply(r, y) /\ suspended' = suspended /\ disk' = disk
  BY <1>1 DEF closeFile
<1>3. /\ x \in ToSet(toWorker[r]) /\ x.file \in File
      /\ ToSet(toWorker[r]) = {x} \cup ToSet(toWorker'[r])
  BY <1>1, <1>2, TakenRequest
<1>4. /\ ToSet(fromWorker'[r]) = ToSet(fromWorker[r]) \cup {y} /\ y.type = "FILE_CLOSED"
      /\ Apart(fromWorker'[r], {"FILE_READY"}, {"ERROR"})
  <2>1. y \in WorkerReply /\ y.type = "FILE_CLOSED" /\ WritesOver(r)
    BY <1>1, <1>3 DEF WorkerReply, Guarded
  <2> QED BY <1>2, <2>1, AnswerAdded
<1>5. ~Has(toWorker[r], {"WRITE_CHUNK"})
  BY <1>1, <1>2, NoWriteAfterClose DEF HandlesAt
<1>6. offers[r] = {} /\ ~Receiving(r)
  BY <1>2, <1>3 DEF Guarded, NothingClosed, Has
<1>7. /\ UNCHANGED <<error, listening, offers, finishing, meta, total>>
      /\ Receiving(r)' <=> Receiving(r)
  BY PageAside
<1>8. DiskRight(r)' /\ MemoryHasNoWorker(r)'
  BY <1>2, <1>3 DEF Guarded, DiskRight, WritesRight, MemoryHasNoWorker
<1>9. NothingClosed(r)' /\ NothingWritten(r)' /\ PageCovered(r)'
  BY <1>6, <1>7 DEF NothingClosed, NothingWritten, PageCovered
<1>10. ~Has(toWorker'[r], {"WRITE_CHUNK"})
  BY <1>3, <1>5 DEF Has
<1>11. WritesOver(r)'
  BY <1>4, <1>7, <1>10 DEF Guarded, WritesOver, Has
<1>12. Heard(r)'
  BY <1>3, <1>4, <1>6, <1>7 DEF Guarded, Heard
<1>13. ChunksStay(r)
  <2>1. Told(r) => Told(r)'
    BY <1>4, <1>7 DEF Told, Has
  <2> QED BY <1>2, <1>5, <2>1, ChunksKeptOnDisk DEF Has
<1>14. WorkCovered(r)'
  <2>1. ASSUME NEW f \in File, Closed(r, f)'
        PROVE  Closed(r, f) \/ \A i \in 1..Size[f] : There(r, f, i)
    <3>1. Closed(r, f) \/ f = x.file
      BY <1>1, <1>2, <1>3, <1>4, <2>1 DEF Closed
    <3>2. ASSUME f = x.file, NEW i \in 1..Size[f] PROVE There(r, f, i)
      <4>1. Coming(r, f, i)
        BY <1>2, <1>3, <3>2 DEF Guarded, WorkCovered
      <4> QED BY <1>5, <4>1 DEF Coming, ToWrite, Has
    <3> QED BY <3>1, <3>2
  <2>2. \A z \in ToSet(toWorker'[r]) : z.type = "CLOSE_FILE" => z \in ToSet(toWorker[r])
    BY <1>3
  <2>3. \A z \in ToSet(fromWorker'[r]) : z.type = "FILE_READY" => z \in ToSet(fromWorker[r])
    BY <1>4
  <2> QED BY <1>13, <2>1, <2>2, <2>3, WorkCoveredKept DEF Guarded
<1> QED BY <1>8, <1>9, <1>11, <1>12, <1>14 DEF Guarded

LEMMA getFileGuarded ==
  ASSUME TypeInv, TypeInv', NEW r \in Receiver, DataAt(r), HandlesAt(r), Guarded(r),
         r \in OpfsReceiver, OpfsStep(r), getFile(r)
  PROVE  Guarded(r)'
<1>1. PICK x, y : /\ x \in suspended[r] /\ x.type = "GET_FILE"
                  /\ y = [type |-> "FILE_READY", file |-> x.file, data |-> disk[r][x.file]]
                  /\ Reply(r, y)
                  /\ suspended' = [suspended EXCEPT ![r] = @ \ {x}]
                  /\ UNCHANGED <<toWorker, disk>>
  BY DEF getFile
<1>2. suspended'[r] \subseteq suspended[r] /\ x.file \in File
  BY <1>1, DiskTypes DEF Suspending
<1>3. Closed(r, x.file)
  BY <1>1 DEF Closed
<1>4. y \in WorkerReply /\ y.type = "FILE_READY" /\ y.file = x.file /\ y.data = disk[r][x.file]
  <2>1. disk[r][x.file] \in Content
    BY <1>2, DiskTypes
  <2> QED BY <1>1, <1>2, <2>1 DEF WorkerReply
<1>5. /\ ToSet(fromWorker'[r]) = ToSet(fromWorker[r]) \cup {y}
      /\ Apart(fromWorker'[r], {"FILE_READY"}, {"ERROR"})
  BY <1>1, <1>4, AnswerAdded DEF Guarded
<1>6. ~Has(toWorker[r], {"WRITE_CHUNK"})
  BY <1>2, <1>3 DEF Guarded, WritesOver
<1>7. offers[r] = {} /\ ~Receiving(r)
  BY <1>2, <1>3 DEF Guarded, NothingClosed
<1>8. /\ UNCHANGED <<error, listening, offers, finishing, meta, total>>
      /\ Receiving(r)' <=> Receiving(r)
  BY PageAside
<1>9. DiskRight(r)' /\ MemoryHasNoWorker(r)'
  BY <1>1 DEF Guarded, DiskRight, WritesRight, MemoryHasNoWorker
<1>10. NothingClosed(r)' /\ NothingWritten(r)' /\ PageCovered(r)'
  BY <1>7, <1>8 DEF NothingClosed, NothingWritten, PageCovered
<1>11. WritesOver(r)'
  BY <1>1, <1>4, <1>5, <1>6, <1>8 DEF Guarded, WritesOver, Has
<1>12. Heard(r)'
  BY <1>1, <1>4, <1>5, <1>7, <1>8 DEF Guarded, Heard
<1>13. ChunksStay(r)
  <2>1. Told(r) => Told(r)'
    BY <1>5, <1>8 DEF Told, Has
  <2> QED BY <1>1, <2>1, ChunksKeptOnDisk
<1>14. y.data = Whole(y.file) \/ Told(r)
  <2> SUFFICES ASSUME ~Told(r) PROVE disk[r][x.file] = Whole(x.file)
    BY <1>4
  <2>1. PICK d : d = disk[r][x.file]
    OBVIOUS
  <2>2. d \in Seq(Payload \cup {None}) /\ Size[x.file] \in Nat /\ Len(d) <= Size[x.file]
    BY <1>2, <2>1, DiskTypes, SizeAssumption DEF Content, Guarded, DiskRight
  <2>3. \A i \in 1..Size[x.file] : i <= Len(d) /\ d[i] = [file |-> x.file, index |-> i - 1]
    BY <1>2, <1>3, <2>1 DEF Guarded, WorkCovered, There, OnDisk
  <2>4. Len(d) = Size[x.file]
    <3>1. CASE Size[x.file] = 0
      BY <2>2, <3>1
    <3>2. CASE Size[x.file] # 0
      <4>1. PICK n \in Nat : n = Size[x.file] /\ n \in 1..n
        BY <2>2, <3>2
      <4>2. n <= Len(d)
        BY <2>3, <4>1
      <4>3. Len(d) \in Nat
        BY <2>2
      <4> QED BY <2>2, <4>1, <4>2, <4>3
    <3> QED BY <3>1, <3>2
  <2>5. d = [i \in 1..Size[x.file] |-> d[i]]
    BY <2>2, <2>4
  <2>6. d = [i \in 1..Size[x.file] |-> [file |-> x.file, index |-> i - 1]]
    BY <2>3, <2>5
  <2> QED BY <2>1, <2>6 DEF Whole
<1>15. WorkCovered(r)'
  <2>1. \A f \in File : Closed(r, f)' => Closed(r, f)
    BY <1>1, <1>2, <1>4, <1>5 DEF Closed
  <2>2. \A z \in ToSet(fromWorker'[r]) : z.type = "FILE_READY" =>
          z \in ToSet(fromWorker[r]) \/ z.data = Whole(z.file) \/ Told(r)
    BY <1>5, <1>14
  <2>3. \A z \in ToSet(toWorker'[r]) : z \in ToSet(toWorker[r])
    BY <1>1
  <2> QED BY <1>13, <2>1, <2>2, <2>3, WorkCoveredKept DEF Guarded
<1> QED BY <1>9, <1>10, <1>11, <1>12, <1>15 DEF Guarded

\* A write at any place: the content grows to it, and nothing else of it changes.
LEMMA WrittenAt ==
  ASSUME NEW data \in Content, NEW chunk \in Payload, NEW at \in Nat,
         NEW new, new = Written(data, chunk, at)
  PROVE  /\ Len(data) \in Nat /\ Len(new) \in Nat
         /\ Len(new) >= Len(data) /\ Len(new) >= at + 1
         /\ Len(new) = Len(data) \/ Len(new) = at + 1
         /\ new[at + 1] = chunk
         /\ \A i \in 1..Len(data) : i # at + 1 => new[i] = data[i]
<1>1. Len(data) \in Nat
  BY DEF Content
<1>2. PICK n \in Nat : /\ n = Longer(Len(data), at + 1)
                       /\ n >= Len(data) /\ n >= at + 1 /\ n \in {Len(data), at + 1}
  BY <1>1 DEF Longer
<1>3. new = [i \in 1..n |->
               IF i = at + 1 THEN chunk ELSE IF i <= Len(data) THEN data[i] ELSE None]
  BY <1>2 DEF Written
<1>4. new \in Seq(Payload \cup {None}) /\ Len(new) = n
  <2>1. ASSUME NEW i \in 1..Len(data) PROVE data[i] \in Payload \cup {None}
    BY DEF Content
  <2> QED BY <1>1, <1>2, <1>3, <2>1
<1>5. new[at + 1] = chunk
  <2>1. at + 1 \in 1..n
    BY <1>2
  <2> QED BY <1>3, <2>1
<1>6. ASSUME NEW i \in 1..Len(data), i # at + 1 PROVE new[i] = data[i]
  <2>1. i \in 1..n /\ i <= Len(data)
    BY <1>1, <1>2
  <2> QED BY <1>3, <1>6, <2>1
<1> QED BY <1>1, <1>2, <1>4, <1>5, <1>6

\* A right chunk that is written stands where it belongs, and so does what stood there.
LEMMA RightChunkLands ==
  ASSUME TypeInv, NEW r \in Receiver, DiskRight(r), writeChunk(r), NEW x, x = Head(toWorker[r])
  PROVE  /\ \A f \in File : Len(disk'[r][f]) <= Size[f]
         /\ \A f \in File, i \in Nat \ {0} : OnDisk(r, f, i) => OnDisk(r, f, i)'
         /\ OnDisk(r, x.file, x.offset + 1)'
<1>1. x = Head(toWorker[r])
  OBVIOUS
<1>2. /\ toWorker[r] # <<>> /\ x.type = "WRITE_CHUNK" /\ Take(r)
      /\ disk' = [disk EXCEPT ![r][x.file] = Written(@, x.chunk, x.offset)]
  BY <1>1 DEF writeChunk
<1>3. x \in ToSet(toWorker[r]) /\ x.file \in File /\ x.chunk \in Payload /\ x.offset \in Nat
  BY <1>1, <1>2, TakenRequest, RequestFields
<1>4. x.chunk = [file |-> x.file, index |-> x.offset] /\ x.offset < Size[x.file]
  BY <1>2, <1>3 DEF DiskRight, WritesRight
<1>5. PICK data \in Content : data = disk[r][x.file]
  BY <1>3, DiskTypes
<1>6. PICK new : new = Written(data, x.chunk, x.offset)
  OBVIOUS
<1>7. /\ disk'[r][x.file] = new
      /\ \A f \in File : f # x.file => disk'[r][f] = disk[r][f]
  BY <1>2, <1>3, <1>5, <1>6, DiskTypes
<1>8. /\ Len(data) \in Nat /\ Len(new) \in Nat
      /\ Len(new) >= Len(data) /\ Len(new) >= x.offset + 1
      /\ Len(new) = Len(data) \/ Len(new) = x.offset + 1
      /\ new[x.offset + 1] = x.chunk
      /\ \A i \in 1..Len(data) : i # x.offset + 1 => new[i] = data[i]
  BY <1>3, <1>5, <1>6, WrittenAt
<1>9. ASSUME NEW f \in File PROVE Len(disk'[r][f]) <= Size[f]
  <2>1. Len(disk[r][f]) <= Size[f] /\ Size[f] \in Nat
    BY SizeAssumption DEF DiskRight
  <2>2. CASE f = x.file
    BY <1>3, <1>4, <1>5, <1>7, <1>8, <2>1, <2>2
  <2>3. CASE f # x.file
    BY <1>7, <2>1, <2>3
  <2> QED BY <2>2, <2>3
<1>10. /\ x.offset + 1 <= Len(new) /\ (x.offset + 1) - 1 = x.offset
       /\ new[x.offset + 1] = [file |-> x.file, index |-> (x.offset + 1) - 1]
  BY <1>3, <1>4, <1>8
<1>11. OnDisk(r, x.file, x.offset + 1)'
  BY <1>7, <1>10 DEF OnDisk
<1>12. ASSUME NEW f \in File, NEW i \in Nat \ {0}, OnDisk(r, f, i) PROVE OnDisk(r, f, i)'
  <2>1. CASE f # x.file
    BY <1>7, <1>12, <2>1 DEF OnDisk
  <2>2. CASE f = x.file /\ i = x.offset + 1
    BY <1>11, <2>2
  <2>3. CASE f = x.file /\ i # x.offset + 1
    <3>1. i <= Len(data) /\ data[i] = [file |-> f, index |-> i - 1] /\ i \in 1..Len(data)
      BY <1>5, <1>8, <1>12, <2>3 DEF OnDisk
    <3>2. new[i] = data[i] /\ i <= Len(new)
      BY <1>8, <2>3, <3>1
    <3> QED BY <1>7, <2>3, <3>1, <3>2 DEF OnDisk
  <2> QED BY <2>1, <2>2, <2>3
<1> QED BY <1>9, <1>11, <1>12

LEMMA writeChunkGuarded ==
  ASSUME TypeInv, TypeInv', NEW r \in Receiver, DataAt(r), HandlesAt(r), Guarded(r),
         r \in OpfsReceiver, OpfsStep(r), writeChunk(r)
  PROVE  Guarded(r)'
<1>1. PICK x, y : /\ x = Head(toWorker[r])
                  /\ y = [type |-> "CHUNK_WRITTEN", file |-> x.file, currentOffset |-> x.offset + 1]
  OBVIOUS
<1>2. /\ toWorker[r] # <<>> /\ x.type = "WRITE_CHUNK" /\ Take(r)
      /\ Reply(r, y) /\ suspended' = suspended
  BY <1>1 DEF writeChunk
<1>3. /\ x \in ToSet(toWorker[r]) /\ x.file \in File /\ x.offset \in Nat
      /\ ToSet(toWorker[r]) = {x} \cup ToSet(toWorker'[r])
  BY <1>1, <1>2, TakenRequest, RequestFields
<1>4. /\ ToSet(fromWorker'[r]) = ToSet(fromWorker[r]) \cup {y} /\ y.type = "CHUNK_WRITTEN"
      /\ Apart(fromWorker'[r], {"FILE_READY"}, {"ERROR"})
  <2>1. y \in WorkerReply /\ y.type = "CHUNK_WRITTEN" /\ WritesOver(r)
    BY <1>1, <1>3 DEF WorkerReply, Guarded
  <2> QED BY <1>2, <2>1, AnswerAdded
<1>5. /\ \A f \in File : Len(disk'[r][f]) <= Size[f]
      /\ \A f \in File, i \in Nat \ {0} : OnDisk(r, f, i) => OnDisk(r, f, i)'
      /\ OnDisk(r, x.file, x.offset + 1)'
  BY <1>1, RightChunkLands DEF Guarded
<1>6. offers[r] = {}
  BY <1>2, <1>3 DEF Guarded, NothingWritten, Has
<1>7. /\ UNCHANGED <<error, listening, offers, finishing, meta, total>>
      /\ Receiving(r)' <=> Receiving(r)
  BY PageAside
<1>8. DiskRight(r)' /\ MemoryHasNoWorker(r)'
  BY <1>3, <1>5 DEF Guarded, DiskRight, WritesRight, MemoryHasNoWorker
<1>9. \A f \in File : Closed(r, f)' => Closed(r, f)
  BY <1>2, <1>3, <1>4 DEF Closed
<1>10. NothingClosed(r)' /\ NothingWritten(r)'
  BY <1>3, <1>4, <1>6, <1>7, <1>9 DEF Guarded, NothingClosed, NothingWritten, Has
<1>11. WritesOver(r)'
  <2>1. /\ ~Has(fromWorker[r], {"FILE_READY"}) /\ \A f \in File : ~Closed(r, f)
        /\ \A h \in finishing[r] : h.stage # "forget"
    BY <1>2, <1>3 DEF Guarded, WritesOver, Has
  <2> QED BY <1>4, <1>7, <1>9, <2>1 DEF WritesOver, Has
<1>12. Heard(r)'
  BY <1>3, <1>4, <1>7 DEF Guarded, Heard
<1>13. ChunksStay(r)
  <2>1. Told(r) => Told(r)'
    BY <1>4, <1>7 DEF Told, Has
  <2>2. ASSUME NEW f \in File, NEW i \in Nat \ {0}, ToWrite(r, f, i) PROVE Coming(r, f, i)'
    <3>1. PICK z \in ToSet(toWorker[r]) : z.type = "WRITE_CHUNK" /\ z.file = f /\ z.offset = i - 1
      BY <2>2 DEF ToWrite
    <3>2. CASE z = x
      <4>1. OnDisk(r, f, i)'
        BY <1>3, <1>5, <3>1, <3>2
      <4> QED BY <4>1 DEF Coming, There
    <3>3. CASE z # x
      BY <1>3, <3>1, <3>3 DEF Coming, ToWrite
    <3> QED BY <3>2, <3>3
  <2> QED BY <1>5, <2>1, <2>2 DEF ChunksStay, Coming, There
<1>14. PageCovered(r)'
  BY <1>7, <1>13, PageCoveredKept DEF Guarded
<1>15. WorkCovered(r)'
  <2>1. \A z \in ToSet(fromWorker'[r]) : z.type = "FILE_READY" => z \in ToSet(fromWorker[r])
    BY <1>4
  <2>2. \A z \in ToSet(toWorker'[r]) : z \in ToSet(toWorker[r])
    BY <1>3
  <2> QED BY <1>9, <1>13, <2>1, <2>2, WorkCoveredKept DEF Guarded
<1> QED BY <1>8, <1>10, <1>11, <1>12, <1>14, <1>15 DEF Guarded

\* A write that fails leaves a hole, and an error that will be heard.
LEMMA writeChunkFailsGuarded ==
  ASSUME TypeInv, TypeInv', NEW r \in Receiver, DataAt(r), HandlesAt(r), Guarded(r),
         r \in OpfsReceiver, OpfsStep(r), writeChunkFails(r)
  PROVE  Guarded(r)'
<1>1. PICK x, y : x = Head(toWorker[r]) /\ y = Failure(x.file)
  OBVIOUS
<1>2. /\ toWorker[r] # <<>> /\ x.type = "WRITE_CHUNK" /\ Take(r)
      /\ Reply(r, y) /\ suspended' = suspended /\ disk' = disk
  BY <1>1 DEF writeChunkFails
<1>3. /\ x \in ToSet(toWorker[r]) /\ x.file \in File
      /\ ToSet(toWorker[r]) = {x} \cup ToSet(toWorker'[r])
  BY <1>1, <1>2, TakenRequest
<1>4. /\ offers[r] = {}
      /\ ~Has(fromWorker[r], {"FILE_READY"}) /\ \A f \in File : ~Closed(r, f)
      /\ \A h \in finishing[r] : h.stage # "forget"
  BY <1>2, <1>3 DEF Guarded, NothingWritten, WritesOver, Has
<1>5. /\ ToSet(fromWorker'[r]) = ToSet(fromWorker[r]) \cup {y}
      /\ y.type = "ERROR" /\ y.file = x.file
      /\ Apart(fromWorker'[r], {"FILE_READY"}, {"ERROR"})
  <2>1. y \in WorkerReply /\ y.type = "ERROR" /\ y.file = x.file /\ WritesOver(r)
    BY <1>1, <1>3 DEF WorkerReply, Failure, Guarded
  <2> QED BY <1>2, <1>4, <2>1, AnswerAdded
<1>6. /\ UNCHANGED <<error, listening, offers, finishing, meta, total>>
      /\ Receiving(r)' <=> Receiving(r)
  BY PageAside
<1>7. DiskRight(r)' /\ MemoryHasNoWorker(r)'
  BY <1>2, <1>3 DEF Guarded, DiskRight, WritesRight, MemoryHasNoWorker
<1>8. \A f \in File : Closed(r, f)' => Closed(r, f)
  BY <1>2, <1>3, <1>5 DEF Closed
<1>9. NothingClosed(r)' /\ NothingWritten(r)'
  BY <1>3, <1>4, <1>5, <1>6, <1>8 DEF Guarded, NothingClosed, NothingWritten, Has
<1>10. WritesOver(r)'
  BY <1>4, <1>5, <1>6, <1>8 DEF WritesOver, Has
<1>11. Heard(r)'
  BY <1>2, <1>3, <1>5, <1>6 DEF Guarded, Heard
<1>12. Told(r)'
  BY <1>5 DEF Told, Has
<1>13. ChunksStay(r)
  BY <1>2, <1>12 DEF ChunksStay, Coming, There, OnDisk
<1>14. PageCovered(r)'
  BY <1>6, <1>13, PageCoveredKept DEF Guarded
<1>15. WorkCovered(r)'
  BY <1>12 DEF WorkCovered, Coming, There
<1> QED BY <1>7, <1>9, <1>10, <1>11, <1>14, <1>15 DEF Guarded

LEMMA WorkerStepGuarded ==
  ASSUME TypeInv, TypeInv', NEW r \in Receiver, DataAt(r), HandlesAt(r), Guarded(r), OpfsStep(r)
  PROVE  Guarded(r)'
<1>1. r \in OpfsReceiver
  <2> SUFFICES ASSUME r \notin OpfsReceiver PROVE FALSE
    OBVIOUS
  <2>1. toWorker[r] = <<>> /\ suspended[r] = {}
    BY DEF Guarded, MemoryHasNoWorker, WorkerIdle
  <2> QED BY <2>1 DEF OpfsStep, WorkerStep, writeChunk, writeChunkFails, closeFile, suspend,
                      initFile, getFile
<1> QED
  BY <1>1, writeChunkGuarded, writeChunkFailsGuarded, closeFileGuarded, suspendGuarded,
     initFileGuarded, getFileGuarded
  DEF OpfsStep, WorkerStep

-----------------------------------------------------------------------------
\* The same of the page's own steps.
LEMMA HeardKept ==
  ASSUME NEW r \in Receiver, Heard(r), error[r] => error'[r], listening'[r] = listening[r],
         \A x \in ToSet(toWorker'[r]) : x.type = "WRITE_CHUNK" => x \in ToSet(toWorker[r]),
         \A x \in ToSet(fromWorker'[r]) : x.type = "ERROR" => x \in ToSet(fromWorker[r]),
         Receiving(r)' => Receiving(r) /\ meta'[r] = meta[r]
  PROVE  Heard(r)'
BY DEF Heard

\* The worker and the page's reception, when the page is busy with something else.
LEMMA AsideKeeps ==
  ASSUME TypeInv, NEW r \in Receiver, DataAt(r), SentAt(r), ReceiverStep(r), Aside(r)
  PROVE  /\ disk' = disk /\ suspended' = suspended
         /\ offers'[r] = offers[r] /\ meta'[r] = meta[r] /\ total'[r] = total[r]
         /\ Receiving(r)' <=> Receiving(r)
<1>1. disk' = disk /\ suspended' = suspended
  BY DEF Aside, fileClosed, fileReady, recordDeleted, chunkWritten, replyDropped, onPauseSignal,
         workerVars
<1> QED BY <1>1, AsideSent, AsideLeaves DEF ReceptionKept, PageKept

LEMMA fileClosedGuarded ==
  ASSUME TypeInv, TypeInv', NEW r \in Receiver, DataAt(r), SentAt(r), HandlesAt(r), Guarded(r),
         r \in OpfsReceiver, ReceiverStep(r), fileClosed(r)
  PROVE  Guarded(r)'
<1>1. PICK x : x = GetFile(ReplyFile(r))
  OBVIOUS
<1>2. /\ Head(fromWorker[r]) \in ToSet(fromWorker[r]) /\ ReplyFile(r) \in File
      /\ Head(fromWorker[r]).type = "FILE_CLOSED" /\ fromWorker[r] # <<>> /\ TakeReply(r)
  BY TakenReply DEF fileClosed
<1>3. /\ ToSet(fromWorker[r]) = {Head(fromWorker[r])} \cup ToSet(fromWorker'[r])
      /\ Apart(fromWorker'[r], {"FILE_READY"}, {"ERROR"})
  BY <1>2, AnswerTaken DEF Guarded
<1>4. /\ x.type = "GET_FILE" /\ x.file = ReplyFile(r)
      /\ ToSet(toWorker'[r]) = ToSet(toWorker[r]) \cup {x}
  BY <1>1, FileClosedPosts
<1>5. /\ disk' = disk /\ suspended' = suspended
      /\ offers'[r] = offers[r] /\ meta'[r] = meta[r] /\ total'[r] = total[r]
      /\ Receiving(r)' <=> Receiving(r)
  BY AsideKeeps DEF Aside
<1>6. UNCHANGED <<error, listening>>
  BY DEF fileClosed
<1>7. Closed(r, ReplyFile(r))
  BY <1>2 DEF Closed, ReplyFile
<1>8. \A f \in File : Closed(r, f)' => Closed(r, f)
  BY <1>3, <1>4, <1>5, <1>7 DEF Closed
<1>9. Told(r) => Told(r)'
  BY <1>2, <1>3, <1>6 DEF Told, Has
<1>10. Heard(r)' /\ MemoryHasNoWorker(r)'
  BY <1>3, <1>4, <1>5, <1>6, HeardKept DEF Guarded, MemoryHasNoWorker
<1>11. \A h \in finishing'[r] : h.stage = "forget" => h \in finishing[r]
  <2>1. PICK h : finishing' = [finishing EXCEPT ![r] = (@ \ {h}) \cup {[h EXCEPT !.stage = "get"]}]
                 /\ h \in FinishingAt(r, ReplyFile(r), {"close"})
    BY DEF fileClosed
  <2>2. PICK g : g = [h EXCEPT !.stage = "get"]
    OBVIOUS
  <2>3. g.stage = "get"
    BY <2>1, <2>2, DiskTypes DEF FinishingAt, FinishHandler
  <2>4. finishing'[r] = (finishing[r] \ {h}) \cup {g}
    BY <2>1, <2>2, DiskTypes
  <2> QED BY <2>3, <2>4
<1>12. \A h \in finishing'[r] : h.stage = "forget" =>
         ~Has(toWorker'[r], {"WRITE_CHUNK"}) /\ ~Has(fromWorker'[r], {"ERROR"})
  BY <1>3, <1>4, <1>11 DEF Guarded, WritesOver, Has
<1>13. /\ \A y : y.type = "WRITE_CHUNK" =>
            (y \in ToSet(toWorker'[r]) <=> y \in ToSet(toWorker[r]))
       /\ \A y \in ToSet(toWorker'[r]) : y.type = "CLOSE_FILE" => y \in ToSet(toWorker[r])
  BY <1>4
<1>14. ToSet(fromWorker'[r]) \subseteq ToSet(fromWorker[r])
  BY <1>3
<1> QED BY <1>3, <1>5, <1>8, <1>9, <1>10, <1>12, <1>13, <1>14, GuardedSame

\* A file is ready when all its errors have been heard: then its chunks are there, or the
\* error is shown.
LEMMA fileReadyGuarded ==
  ASSUME TypeInv, TypeInv', NEW r \in Receiver, DataAt(r), SentAt(r), HandlesAt(r), Guarded(r),
         DownloadsTold(r), r \in OpfsReceiver, ReceiverStep(r), fileReady(r)
  PROVE  Guarded(r)' /\ DownloadsTold(r)'
<1>1. PICK x : x = Head(fromWorker[r])
  OBVIOUS
<1>2. /\ x \in ToSet(fromWorker[r]) /\ x.type = "FILE_READY"
      /\ fromWorker[r] # <<>> /\ TakeReply(r)
  BY <1>1, TakenReply DEF fileReady
<1>3. /\ ToSet(fromWorker[r]) = {x} \cup ToSet(fromWorker'[r])
      /\ Apart(fromWorker'[r], {"FILE_READY"}, {"ERROR"})
      /\ ~Has(fromWorker'[r], {"ERROR"})
  BY <1>1, <1>2, AnswerTaken DEF Guarded
<1>4. ~Has(toWorker[r], {"WRITE_CHUNK"})
  BY <1>2 DEF Guarded, WritesOver, Has
<1>5. /\ disk' = disk /\ suspended' = suspended
      /\ offers'[r] = offers[r] /\ meta'[r] = meta[r] /\ total'[r] = total[r]
      /\ Receiving(r)' <=> Receiving(r)
  BY AsideKeeps DEF Aside
<1>6. UNCHANGED <<error, listening, toWorker>>
  BY DEF fileReady
<1>7. ~Has(fromWorker[r], {"ERROR"})
  BY <1>2, <1>3 DEF Has
<1>8. Guarded(r)'
  <2>1. \A f \in File : Closed(r, f)' => Closed(r, f)
    BY <1>3, <1>5, <1>6 DEF Closed
  <2>2. Told(r) => Told(r)'
    BY <1>6, <1>7 DEF Told
  <2>3. ToSet(fromWorker'[r]) \subseteq ToSet(fromWorker[r])
    BY <1>3
  <2>4. Heard(r)' /\ MemoryHasNoWorker(r)'
    BY <1>5, <1>6, <2>3, HeardKept DEF Guarded, MemoryHasNoWorker
  <2>5. \A h \in finishing'[r] : h.stage = "forget" =>
          ~Has(toWorker'[r], {"WRITE_CHUNK"}) /\ ~Has(fromWorker'[r], {"ERROR"})
    BY <1>3, <1>4, <1>6
  <2> QED BY <1>3, <1>5, <1>6, <2>1, <2>2, <2>3, <2>4, <2>5, GuardedSame
<1>9. DownloadsTold(r)'
  <2>1. PICK d : d = [file |-> x.file, data |-> x.data, warned |-> error[r]]
    OBVIOUS
  <2>2. delivered'[r] = delivered[r] \cup {d}
    BY <1>1, <2>1, DiskTypes DEF fileReady, HandOver, ReplyFile
  <2>3. x.data = Whole(x.file) \/ error[r]
    BY <1>2, <1>7 DEF Guarded, WorkCovered, Told
  <2>4. d.data = Whole(d.file) \/ d.warned
    BY <2>1, <2>3
  <2> QED BY <2>2, <2>4 DEF DownloadsTold
<1> QED BY <1>8, <1>9

LEMMA recordDeletedGuarded ==
  ASSUME TypeInv, TypeInv', NEW r \in Receiver, DataAt(r), SentAt(r), HandlesAt(r),
         OneAtATime(r), Guarded(r), r \in OpfsReceiver, ReceiverStep(r),
         NEW h \in finishing[r], recordDeleted(r, h)
  PROVE  Guarded(r)'
<1>1. h.stage = "forget" /\ UNCHANGED <<toWorker, fromWorker>>
  BY DEF recordDeleted, workerVars
<1>2. /\ disk' = disk /\ suspended' = suspended
      /\ offers'[r] = offers[r] /\ meta'[r] = meta[r] /\ total'[r] = total[r]
      /\ Receiving(r)' <=> Receiving(r)
  BY AsideKeeps DEF Aside
<1>3. ~Has(toWorker[r], {"WRITE_CHUNK"}) /\ ~Has(fromWorker[r], {"ERROR"})
  BY <1>1 DEF Guarded, WritesOver
<1>4. ~Receiving(r)
  BY DEF OneAtATime
<1>5. error[r] => error'[r]
  BY DEF recordDeleted, TypeInv, TypeOK, ReceiverTypeOK
<1>6. Heard(r)' /\ MemoryHasNoWorker(r)'
  BY <1>1, <1>2, <1>3, <1>4 DEF Heard, Has, MemoryHasNoWorker
<1>7. Told(r) => Told(r)'
  BY <1>1, <1>5 DEF Told
<1>8. \A f \in File : Closed(r, f)' => Closed(r, f)
  BY <1>1, <1>2 DEF Closed
<1>9. Apart(fromWorker'[r], {"FILE_READY"}, {"ERROR"})
  BY <1>1 DEF Guarded, WritesOver
<1> QED BY <1>1, <1>2, <1>3, <1>6, <1>7, <1>8, <1>9, GuardedSame

LEMMA quietGuarded ==
  ASSUME TypeInv, TypeInv', NEW r \in Receiver, DataAt(r), SentAt(r), HandlesAt(r), Guarded(r),
         r \in OpfsReceiver, ReceiverStep(r),
         chunkWritten(r) \/ replyDropped(r) \/ onPauseSignal(r)
  PROVE  Guarded(r)'
<1>1. UNCHANGED <<error, listening, toWorker, finishing>>
  BY DEF chunkWritten, replyDropped, onPauseSignal, workerVars, receiverVars
<1>2. /\ disk' = disk /\ suspended' = suspended
      /\ offers'[r] = offers[r] /\ meta'[r] = meta[r] /\ total'[r] = total[r]
      /\ Receiving(r)' <=> Receiving(r)
  BY AsideKeeps DEF Aside
<1>3. /\ ToSet(fromWorker'[r]) \subseteq ToSet(fromWorker[r])
      /\ Apart(fromWorker'[r], {"FILE_READY"}, {"ERROR"})
      /\ Has(fromWorker[r], {"ERROR"}) => Has(fromWorker'[r], {"ERROR"})
  <2>1. CASE onPauseSignal(r)
    BY <2>1 DEF onPauseSignal, workerVars, Guarded, WritesOver
  <2>2. CASE chunkWritten(r) \/ replyDropped(r)
    <3>1. fromWorker[r] # <<>> /\ TakeReply(r) /\ Head(fromWorker[r]).type # "ERROR"
      BY <2>2 DEF chunkWritten, replyDropped, NextReply, AwaitedAt
    <3>2. /\ ToSet(fromWorker[r]) = {Head(fromWorker[r])} \cup ToSet(fromWorker'[r])
          /\ Apart(fromWorker'[r], {"FILE_READY"}, {"ERROR"})
      BY <3>1, AnswerTaken DEF Guarded
    <3> QED BY <3>1, <3>2 DEF Has
  <2> QED BY <2>1, <2>2
<1>4. \A f \in File : Closed(r, f)' => Closed(r, f)
  BY <1>1, <1>2, <1>3 DEF Closed
<1>5. Told(r) => Told(r)'
  BY <1>1, <1>3 DEF Told
<1>6. Heard(r)' /\ MemoryHasNoWorker(r)'
  BY <1>1, <1>2, <1>3, HeardKept DEF Guarded, MemoryHasNoWorker
<1>7. \A h \in finishing'[r] : h.stage = "forget" =>
        ~Has(toWorker'[r], {"WRITE_CHUNK"}) /\ ~Has(fromWorker'[r], {"ERROR"})
  BY <1>1, <1>3 DEF Guarded, WritesOver, Has
<1> QED BY <1>1, <1>2, <1>3, <1>4, <1>5, <1>6, <1>7, GuardedSame

\* The error of a failed write is shown, whether finishReceive waits for it or not.
LEMMA workerErrorGuarded ==
  ASSUME TypeInv, TypeInv', NEW r \in Receiver, DataAt(r), SentAt(r), HandlesAt(r),
         OneAtATime(r), Guarded(r), r \in OpfsReceiver, ReceiverStep(r), workerError(r)
  PROVE  Guarded(r)' /\ offers[r] = {}
<1>1. /\ Head(fromWorker[r]) \in ToSet(fromWorker[r]) /\ Head(fromWorker[r]).type = "ERROR"
      /\ fromWorker[r] # <<>> /\ TakeReply(r)
  BY TakenReply DEF workerError
<1>2. offers[r] = {}
  BY <1>1 DEF Guarded, NothingWritten, Has
<1>3. /\ ToSet(fromWorker'[r]) \subseteq ToSet(fromWorker[r])
      /\ Apart(fromWorker'[r], {"FILE_READY"}, {"ERROR"})
  BY <1>1, AnswerTaken DEF Guarded
<1>4. offers'[r] = {} /\ (Receiving(r)' <=> Receiving(r))
  BY <1>2, workerErrorHandles DEF ReceptionKept
<1>5. UNCHANGED <<toWorker, suspended, disk, meta, total>>
  BY DEF workerError
<1>6. /\ error'[r] /\ finishing'[r] \subseteq finishing[r]
      /\ Receiving(r) => listening'[r] = listening[r]
  <2>1. ASSUME NEW h \in FinishingAt(r, ReplyFile(r), {"close", "get"}),
               EndOfFile(r, h), error' = [error EXCEPT ![r] = TRUE]
        PROVE  error'[r] /\ finishing'[r] \subseteq finishing[r] /\ ~Receiving(r)
    <3>1. ~Receiving(r)
      BY <2>1 DEF FinishingAt, OneAtATime
    <3>2. finishing' = [finishing EXCEPT ![r] = @ \ {h}]
      BY <2>1 DEF EndOfFile
    <3> QED BY <2>1, <3>1, <3>2, DiskTypes DEF TypeInv, TypeOK, ReceiverTypeOK
  <2>2. ASSUME error' = [error EXCEPT ![r] = @ \/ ReplyFile(r) \in listening[r]],
               UNCHANGED <<finishing, listening>>
        PROVE  error'[r] /\ finishing'[r] \subseteq finishing[r] /\ listening'[r] = listening[r]
    <3>1. error[r] \/ ReplyFile(r) \in listening[r]
      BY <1>1 DEF Guarded, Heard, ReplyFile
    <3>2. error'[r] = (error[r] \/ ReplyFile(r) \in listening[r])
      BY <2>2 DEF TypeInv, TypeOK, ReceiverTypeOK
    <3> QED BY <2>2, <3>1, <3>2
  <2>3. OffersAt(r, ReplyFile(r), {"init"}) = {}
    BY <1>2 DEF OffersAt
  <2>4. \/ \E h \in FinishingAt(r, ReplyFile(r), {"close", "get"}) :
             EndOfFile(r, h) /\ error' = [error EXCEPT ![r] = TRUE]
        \/ /\ error' = [error EXCEPT ![r] = @ \/ ReplyFile(r) \in listening[r]]
           /\ UNCHANGED <<finishing, listening>>
    BY <2>3 DEF workerError
  <2> QED BY <2>1, <2>2, <2>4
<1>7. Heard(r)' /\ MemoryHasNoWorker(r)'
  BY <1>4, <1>5, <1>6 DEF Guarded, Heard, MemoryHasNoWorker
<1>8. Told(r)'
  BY <1>6 DEF Told
<1>9. \A f \in File : Closed(r, f)' => Closed(r, f)
  BY <1>3, <1>5 DEF Closed
<1>10. \A h \in finishing'[r] : h.stage = "forget" =>
         ~Has(toWorker'[r], {"WRITE_CHUNK"}) /\ ~Has(fromWorker'[r], {"ERROR"})
  BY <1>3, <1>5, <1>6 DEF Guarded, WritesOver, Has
<1> QED BY <1>2, <1>3, <1>4, <1>5, <1>7, <1>8, <1>9, <1>10, GuardedSame

LEMMA onChunkGuarded ==
  ASSUME TypeInv, TypeInv', NEW r \in Receiver, DataAt(r), SentAt(r), HandlesAt(r),
         OneAtATime(r), Guarded(r), r \in OpfsReceiver, ReceiverStep(r), onChunk(r)
  PROVE  Guarded(r)'
<1>1. /\ Receiving(r) /\ Receiving(r)' /\ total'[r] = total[r] + 1
      /\ total[r] < Size[meta[r]] /\ meta[r] \in File
  BY onChunkSent, ChunkStored
<1>2. UNCHANGED <<suspended, disk, fromWorker, error, listening, offers, finishing, meta>>
  BY DEF onChunk, WorkerElsewhere
<1>3. PICK x : x = WriteChunk(meta[r], [file |-> meta[r], index |-> total[r]], total[r])
  OBVIOUS
<1>4. /\ x.type = "WRITE_CHUNK" /\ x.file = meta[r]
      /\ x.chunk = [file |-> meta[r], index |-> total[r]] /\ x.offset = total[r]
      /\ ToSet(toWorker'[r]) = ToSet(toWorker[r]) \cup {x}
  BY <1>3, ChunkPosts
<1>5. offers[r] = {} /\ finishing[r] = {}
  BY <1>1, WhileReceiving DEF OneAtATime, Receiving
<1>6. /\ ~Has(toWorker[r], {"CLOSE_FILE"}) /\ ~Has(fromWorker[r], {"FILE_READY"})
      /\ \A f \in File : ~Closed(r, f)
  BY <1>1 DEF Guarded, NothingClosed
<1>7. DiskRight(r)' /\ MemoryHasNoWorker(r)'
  BY <1>1, <1>2, <1>4 DEF Guarded, DiskRight, WritesRight, MemoryHasNoWorker
<1>8. \A f \in File : ~Closed(r, f)'
  BY <1>2, <1>4, <1>6 DEF Closed
<1>9. NothingClosed(r)' /\ NothingWritten(r)' /\ WritesOver(r)'
  BY <1>2, <1>4, <1>5, <1>6, <1>8 DEF NothingClosed, NothingWritten, Guarded, WritesOver, Has
<1>10. Heard(r)'
  BY <1>1, <1>2, <1>4 DEF Guarded, Heard
<1>11. ChunksStay(r)
  <2>1. Told(r) => Told(r)'
    BY <1>2 DEF Told
  <2> QED BY <1>2, <1>4, <2>1, ChunksKeptOnDisk
<1>12. PageCovered(r)'
  <2>1. PICK f \in File : f = meta[r] /\ f = meta'[r]
    BY <1>1, <1>2
  <2>2. ASSUME NEW i \in 1..total'[r] PROVE Coming(r, f, i)'
    <3>1. total[r] \in Nat /\ i \in Nat \ {0} /\ (i \in 1..total[r] \/ i = total[r] + 1)
      <4>1. PICK n \in Nat : n = total[r]
        BY DataTypes
      <4>2. i \in 1..(n + 1)
        BY <1>1, <4>1
      <4> QED BY <4>1, <4>2
    <3>2. CASE i \in 1..total[r]
      <4>1. Coming(r, f, i)
        BY <1>1, <2>1, <3>2 DEF Guarded, PageCovered
      <4> QED BY <1>11, <3>1, <4>1 DEF ChunksStay
    <3>3. CASE i = total[r] + 1
      <4>1. x.offset = i - 1
        BY <1>4, <3>1, <3>3
      <4> QED BY <1>4, <2>1, <4>1 DEF Coming, ToWrite
    <3> QED BY <3>1, <3>2, <3>3
  <2> QED BY <1>2, <1>5, <2>1, <2>2 DEF PageCovered
<1>13. WorkCovered(r)'
  BY <1>2, <1>4, <1>6, <1>8 DEF WorkCovered, Has
<1> QED BY <1>7, <1>9, <1>10, <1>12, <1>13 DEF Guarded

LEMMA onOfferGuarded ==
  ASSUME TypeInv, NEW r \in Receiver, DataAt(r), HandlesAt(r), Guarded(r), ReceiverStep(r),
         onOffer(r) \/ onOfferInMemory(r), WorkerIdle(r)
  PROVE  Guarded(r)'
<1>1. /\ offers[r] = {}
      /\ Receiving(r)' <=> onOfferInMemory(r)
  BY onOfferSent DEF HandlesAt
<1>2. UNCHANGED <<toWorker, suspended, fromWorker, disk>>
  BY DEF onOffer, onOfferInMemory, WorkerElsewhere
<1>3. \A h \in offers'[r] : h.stage # "init"
  <2>1. CASE onOffer(r)
    <3>1. PICK g : /\ g = [file |-> Head(toReceiver[r]).file, stage |-> "lookup", start |-> 0,
                          channel |-> "open"]
                   /\ offers' = [offers EXCEPT ![r] = @ \cup {g}]
      BY <2>1 DEF onOffer
    <3>2. g.stage = "lookup" /\ offers'[r] = offers[r] \cup {g}
      BY <3>1, DataTypes
    <3> QED BY <1>1, <3>2
  <2>2. CASE onOfferInMemory(r)
    BY <1>1, <2>2 DEF onOfferInMemory
  <2> QED BY <2>1, <2>2
<1>4. Receiving(r)' => r \notin OpfsReceiver
  BY <1>1 DEF onOfferInMemory
<1> QED BY <1>2, <1>3, <1>4, IdleGuarded DEF WorkerIdle, Guarded

LEMMA recordFoundGuarded ==
  ASSUME TypeInv, NEW r \in Receiver, DataAt(r), HandlesAt(r), Guarded(r), ReceiverStep(r),
         NEW h \in offers[r], recordFound(r, h),
         \A i \in 1..StartOffset(r, h.file) : OnDisk(r, h.file, i)
  PROVE  Guarded(r)'
<1>1. offers[r] = {h} /\ ~Receiving(r)' /\ r \in OpfsReceiver
  BY PageAsked, recordFoundSent DEF HandlesAt, AllOpen
<1>2. UNCHANGED <<suspended, disk, fromWorker, listening, finishing>>
  BY DEF recordFound, WorkerElsewhere
<1>3. PICK x : x = InitFile(h.file)
  OBVIOUS
<1>4. /\ \E g : /\ offers'[r] = (offers[r] \ {h}) \cup {g}
                /\ g.file = h.file /\ g.stage = "init" /\ g.start = StartOffset(r, h.file)
      /\ x.type = "INIT_FILE" /\ ToSet(toWorker'[r]) = ToSet(toWorker[r]) \cup {x}
  BY <1>3, RecordFoundPosts
<1>5. PICK g : offers'[r] = {g} /\ g.file = h.file /\ g.start = StartOffset(r, h.file)
  BY <1>1, <1>4
<1>6. /\ ~Has(toWorker[r], {"CLOSE_FILE"}) /\ ~Has(fromWorker[r], {"FILE_READY"})
      /\ \A f \in File : ~Closed(r, f)
      /\ ~Has(toWorker[r], {"WRITE_CHUNK"}) /\ ~Has(fromWorker[r], {"ERROR"})
  BY <1>1 DEF Guarded, NothingClosed, NothingWritten
<1>7. DiskRight(r)' /\ MemoryHasNoWorker(r)'
  BY <1>1, <1>2, <1>4 DEF Guarded, DiskRight, WritesRight, MemoryHasNoWorker
<1>8. \A f \in File : ~Closed(r, f)'
  BY <1>2, <1>4, <1>6 DEF Closed
<1>9. NothingClosed(r)' /\ NothingWritten(r)' /\ WritesOver(r)'
  BY <1>2, <1>4, <1>6, <1>8 DEF NothingClosed, NothingWritten, Guarded, WritesOver, Has
<1>10. Heard(r)'
  BY <1>1, <1>2, <1>4, <1>6 DEF Heard, Has
<1>11. PageCovered(r)'
  <2>1. ASSUME NEW i \in 1..g.start PROVE OnDisk(r, g.file, i)'
    BY <1>2, <1>5 DEF OnDisk
  <2> QED BY <1>1, <1>5, <2>1 DEF PageCovered
<1>12. WorkCovered(r)'
  BY <1>2, <1>4, <1>6, <1>8 DEF WorkCovered, Has
<1> QED BY <1>7, <1>9, <1>10, <1>11, <1>12 DEF Guarded

LEMMA fileInitialisedGuarded ==
  ASSUME TypeInv, NEW r \in Receiver, DataAt(r), SentAt(r), HandlesAt(r), Guarded(r),
         ReceiverStep(r), fileInitialised(r)
  PROVE  Guarded(r)'
<1>1. Receiving(r)' /\ offers'[r] = {}
  BY fileInitialisedSent DEF HandlesAt
<1>2. /\ toWorker'[r] = toWorker[r] /\ total'[r] = total[r]
      /\ \E h \in offers[r] : h.stage = "init" /\ h.file = meta[r] /\ h.start = total[r]
  BY fileInitialisedHandles
<1>3. PICK h \in offers[r] : h.stage = "init" /\ h.file = meta[r] /\ h.start = total[r]
  BY <1>2
<1>4. h.channel = "open" /\ offers[r] = {h}
  BY PageAsked DEF HandlesAt
<1>5. UNCHANGED <<suspended, disk, finishing, meta, error>> /\ meta[r] \in listening'[r]
  <2>1. PICK k \in offers[r] :
          k.channel = "open" => listening' = [listening EXCEPT ![r] = @ \cup {k.file}]
    BY DEF fileInitialised, OffersAt
  <2>2. listening' = [listening EXCEPT ![r] = @ \cup {meta[r]}]
    BY <1>3, <1>4, <2>1
  <2>3. meta[r] \in listening'[r]
    BY <2>2 DEF TypeInv, TypeOK, ReceiverTypeOK
  <2> QED BY <2>3 DEF fileInitialised
<1>6. /\ ToSet(fromWorker'[r]) \subseteq ToSet(fromWorker[r])
      /\ Apart(fromWorker'[r], {"FILE_READY"}, {"ERROR"})
  BY AnswerTaken DEF fileInitialised, NextReply, Guarded
<1>7. /\ ~Has(toWorker[r], {"CLOSE_FILE"}) /\ ~Has(fromWorker[r], {"FILE_READY"})
      /\ \A f \in File : ~Closed(r, f)
      /\ ~Has(toWorker[r], {"WRITE_CHUNK"}) /\ ~Has(fromWorker[r], {"ERROR"})
  BY <1>3 DEF Guarded, NothingClosed, NothingWritten
<1>8. r \in OpfsReceiver
  BY <1>3 DEF HandlesAt, AllOpen
<1>9. DiskRight(r)' /\ MemoryHasNoWorker(r)'
  BY <1>2, <1>5, <1>8 DEF Guarded, DiskRight, WritesRight, MemoryHasNoWorker
<1>10. \A f \in File : ~Closed(r, f)'
  BY <1>2, <1>5, <1>6, <1>7 DEF Closed
<1>11. NothingClosed(r)' /\ NothingWritten(r)' /\ WritesOver(r)'
  BY <1>1, <1>2, <1>6, <1>7, <1>10 DEF NothingClosed, NothingWritten, WritesOver, Has
<1>12. Heard(r)'
  BY <1>2, <1>5, <1>6, <1>7 DEF Heard, Has
<1>13. PageCovered(r)'
  <2>1. PICK f \in File : f = meta[r] /\ f = meta'[r] /\ f = h.file
    <3>1. h \in OfferHandler
      BY DataTypes
    <3> QED BY <1>3, <1>5, <3>1 DEF OfferHandler
  <2>2. ASSUME NEW i \in 1..total'[r] PROVE OnDisk(r, f, i)'
    <3>1. OnDisk(r, f, i)
      BY <1>2, <1>3, <2>1 DEF Guarded, PageCovered
    <3> QED BY <1>5, <3>1 DEF OnDisk
  <2> QED BY <1>1, <2>1, <2>2 DEF PageCovered, Coming, There
<1>14. WorkCovered(r)'
  BY <1>2, <1>6, <1>7, <1>10 DEF WorkCovered, Has
<1> QED BY <1>9, <1>11, <1>12, <1>13, <1>14 DEF Guarded

\* The end of a file: all that it has is on disk, to be written before it is closed, or lost.
LEMMA onCompleteGuarded ==
  ASSUME TypeInv, TypeInv', NEW r \in Receiver, DataAt(r), SentAt(r), HandlesAt(r), InTurn(r),
         Guarded(r), r \in OpfsReceiver, ReceiverStep(r), onComplete(r)
  PROVE  Guarded(r)'
<1>1. /\ Receiving(r) /\ Size[meta[r]] <= total[r] /\ meta[r] \in File
      /\ offers'[r] = {} /\ ~Receiving(r)'
  BY onCompleteSent, onCompleteInTurn
<1>2. /\ UNCHANGED <<suspended, disk, fromWorker>>
      /\ finishing'[r] = finishing[r] \cup
           {[file |-> meta[r], stage |-> "close", channel |-> "open"]}
  BY CompletePosts
<1>3. UNCHANGED <<error, listening>>
  BY DEF onComplete
<1>4. PICK x : x = CloseFile(meta[r])
  OBVIOUS
<1>5. /\ x.type = "CLOSE_FILE" /\ x.file = meta[r]
      /\ ToSet(toWorker'[r]) = ToSet(toWorker[r]) \cup {x}
  BY <1>4, ClosePosted
<1>6. DiskRight(r)' /\ MemoryHasNoWorker(r)'
  BY <1>2, <1>5 DEF Guarded, DiskRight, WritesRight, MemoryHasNoWorker
<1>7. \A f \in File : Closed(r, f)' => Closed(r, f)
  BY <1>2, <1>5 DEF Closed
<1>8. NothingClosed(r)' /\ NothingWritten(r)' /\ PageCovered(r)'
  BY <1>1 DEF NothingClosed, NothingWritten, PageCovered
<1>9. WritesOver(r)'
  <2>1. \A k \in finishing'[r] : k.stage = "forget" => k \in finishing[r]
    BY <1>2
  <2> QED BY <1>2, <1>5, <1>7, <2>1 DEF Guarded, WritesOver, Has
<1>10. Heard(r)'
  BY <1>1, <1>2, <1>3, <1>5 DEF Guarded, Heard
<1>11. ChunksStay(r)
  <2>1. Told(r) => Told(r)'
    BY <1>2, <1>3 DEF Told
  <2> QED BY <1>2, <1>5, <2>1, ChunksKeptOnDisk
<1>12. WorkCovered(r)'
  <2>1. PICK f \in File : f = meta[r]
    BY <1>1
  <2>2. ASSUME NEW i \in 1..Size[f] PROVE Coming(r, f, i)
    <3>1. Size[f] \in Nat /\ total[r] \in Nat /\ Size[f] <= total[r]
      BY <1>1, <2>1, DataTypes, SizeAssumption
    <3>2. i \in 1..total[r]
      BY <3>1
    <3> QED BY <1>1, <2>1, <3>2 DEF Guarded, PageCovered
  <2>3. \A y \in ToSet(toWorker'[r]) : y.type = "CLOSE_FILE" =>
          y \in ToSet(toWorker[r]) \/ \A i \in 1..Size[y.file] : Coming(r, y.file, i)
    BY <1>5, <2>1, <2>2
  <2>4. \A y \in ToSet(fromWorker'[r]) : y \in ToSet(fromWorker[r])
    BY <1>2
  <2> QED BY <1>7, <1>11, <2>3, <2>4, WorkCoveredKept DEF Guarded
<1> QED BY <1>6, <1>8, <1>9, <1>10, <1>12 DEF Guarded

\* A page without OPFS posts nothing to a worker, and hears nothing from one.
LEMMA MemoryStepIdle ==
  ASSUME TypeInv, NEW r \in Receiver, DataAt(r), SentAt(r), HandlesAt(r), WorkerIdle(r),
         r \notin OpfsReceiver, ReceiverStep(r)
  PROVE  WorkerIdle(r)' /\ disk' = disk /\ ~fileReady(r)
<1>1. /\ toWorker[r] = <<>> /\ suspended[r] = {} /\ fromWorker[r] = <<>> /\ offers[r] = {}
  BY DEF WorkerIdle, HandlesAt, AllOpen
<1>2. /\ ~fileInitialised(r) /\ ~fileClosed(r) /\ ~fileReady(r) /\ ~chunkWritten(r)
      /\ ~workerError(r) /\ ~replyDropped(r) /\ ~onOffer(r)
  BY <1>1 DEF fileInitialised, fileClosed, fileReady, chunkWritten, workerError, replyDropped,
              NextReply, onOffer
<1>3. toWorker'[r] = toWorker[r] /\ UNCHANGED <<suspended, disk, fromWorker>>
  <2>1. CASE onChunk(r)
    <3>1. toWorker'[r] = toWorker[r]
      BY <2>1, ChunkStored DEF ToDisk
    <3> QED BY <2>1, <3>1 DEF onChunk, WorkerElsewhere
  <2>2. CASE onComplete(r)
    BY <2>2, CompletePosts
  <2>3. CASE onOfferInMemory(r)
    BY <2>3 DEF onOfferInMemory, WorkerElsewhere
  <2>4. CASE onPauseSignal(r)
    BY <2>4 DEF onPauseSignal, workerVars
  <2>5. ASSUME NEW h \in finishing[r], recordDeleted(r, h)
        PROVE  toWorker'[r] = toWorker[r] /\ UNCHANGED <<suspended, disk, fromWorker>>
    BY <2>5 DEF recordDeleted, workerVars
  <2> QED BY <1>1, <1>2, <2>1, <2>2, <2>3, <2>4, <2>5 DEF ReceiverStep, ReceiverHandler
<1> QED BY <1>1, <1>2, <1>3 DEF WorkerIdle

LEMMA ErrorAfterOffers ==
  ASSUME TypeInv, NEW r \in Receiver, Guarded(r), workerError(r)
  PROVE  offers[r] = {}
<1>1. /\ Head(fromWorker[r]) \in ToSet(fromWorker[r]) /\ Head(fromWorker[r]).type = "ERROR"
  BY TakenReply DEF workerError
<1> QED BY <1>1 DEF Guarded, NothingWritten, Has

LEMMA PageStepGuarded ==
  ASSUME TypeInv, TypeInv', NEW r \in Receiver, DataAt(r), SentAt(r), HandlesAt(r),
         HandlesAt(r)', InTurn(r), Guarded(r), DownloadsTold(r), ReceiverStep(r),
         SettledInTurn, ResumesIntact
  PROVE  Guarded(r)'
<1>1. OneAtATime(r)
  BY DEF InTurn
<1>2. CASE r \in OpfsReceiver
  <2>1. CASE onChunk(r)
    BY <1>1, <1>2, <2>1, onChunkGuarded
  <2>2. CASE onOffer(r) \/ onOfferInMemory(r)
    BY <2>2, onOfferGuarded DEF SettledInTurn
  <2>3. ASSUME NEW h \in offers[r], recordFound(r, h) PROVE Guarded(r)'
    BY <2>3, recordFoundGuarded DEF ResumesIntact
  <2>4. CASE fileInitialised(r)
    BY <2>4, fileInitialisedGuarded
  <2>5. CASE onComplete(r)
    BY <1>2, <2>5, onCompleteGuarded
  <2>6. CASE fileClosed(r)
    BY <1>2, <2>6, fileClosedGuarded
  <2>7. CASE fileReady(r)
    BY <1>2, <2>7, fileReadyGuarded
  <2>8. ASSUME NEW h \in finishing[r], recordDeleted(r, h) PROVE Guarded(r)'
    BY <1>1, <1>2, <2>8, recordDeletedGuarded
  <2>9. CASE workerError(r)
    BY <1>1, <1>2, <2>9, workerErrorGuarded
  <2>10. CASE chunkWritten(r) \/ replyDropped(r) \/ onPauseSignal(r)
    BY <1>2, <2>10, quietGuarded
  <2> QED BY <2>1, <2>2, <2>3, <2>4, <2>5, <2>6, <2>7, <2>8, <2>9, <2>10
          DEF ReceiverStep, ReceiverHandler
<1>3. CASE r \notin OpfsReceiver
  <2>1. WorkerIdle(r)' /\ disk' = disk
    BY <1>3, MemoryStepIdle DEF Guarded, MemoryHasNoWorker
  <2>2. offers'[r] = {}
    BY <1>3 DEF HandlesAt, AllOpen
  <2> QED BY <1>3, <2>1, <2>2, IdleGuarded DEF Guarded
<1> QED BY <1>2, <1>3

\* What a page hands over is the sender's file, or the user has been shown an error.
LEMMA PageStepTold ==
  ASSUME TypeInv, TypeInv', NEW r \in Receiver, DataAt(r), SentAt(r), HandlesAt(r),
         InTurn(r), Guarded(r), DownloadsTold(r), ReceiverStep(r)
  PROVE  DownloadsTold(r)'
<1>1. CASE fileReady(r)
  <2>1. r \in OpfsReceiver
    BY <1>1, MemoryStepIdle DEF Guarded, MemoryHasNoWorker
  <2> QED BY <1>1, <2>1, fileReadyGuarded
<1>2. CASE onComplete(r) /\ r \notin OpfsReceiver
  <2>1. PICK s, d : s = memory[r] /\ d = [file |-> meta[r], data |-> s, warned |-> error[r]]
    OBVIOUS
  <2>2. s = Whole(meta[r])
    BY <1>2, <2>1, onCompleteInTurn
  <2>3. delivered'[r] = delivered[r] \cup {d}
    BY <1>2, <2>1, CompletePosts, DiskTypes DEF HandOver
  <2>4. d.data = Whole(d.file)
    BY <2>1, <2>2
  <2> QED BY <2>3, <2>4 DEF DownloadsTold
<1>3. CASE ~fileReady(r) /\ ~(onComplete(r) /\ r \notin OpfsReceiver)
  <2>1. onComplete(r) => delivered' = delivered
    BY <1>3, CompletePosts
  <2>2. ~onComplete(r) => delivered' = delivered
    BY <1>3 DEF ReceiverStep, ReceiverHandler, onChunk, onOffer, onOfferInMemory, recordFound,
       fileInitialised, fileClosed, recordDeleted, chunkWritten, workerError, replyDropped,
       onPauseSignal, receiverVars
  <2> QED BY <2>1, <2>2 DEF DownloadsTold
<1> QED BY <1>1, <1>2, <1>3

-----------------------------------------------------------------------------
\* The steps of the sender and of other pages.
LEMMA SenderGuarded ==
  ASSUME TypeInv, TypeInv', NEW r \in Receiver, DataAt(r), HandlesAt(r), Guarded(r),
         DownloadsTold(r), Receiving(r)' <=> Receiving(r),
         toWorker'[r] = toWorker[r], suspended'[r] = suspended[r], disk'[r] = disk[r],
         fromWorker'[r] = fromWorker[r], meta'[r] = meta[r], total'[r] = total[r],
         listening'[r] = listening[r], error'[r] = error[r], offers'[r] = offers[r],
         finishing'[r] = finishing[r], delivered'[r] = delivered[r]
  PROVE  Guarded(r)' /\ DownloadsTold(r)'
<1>1. Heard(r)' /\ MemoryHasNoWorker(r)'
  BY HeardKept DEF Guarded, MemoryHasNoWorker, WorkerIdle
<1>2. Told(r) => Told(r)'
  BY DEF Told
<1>3. \A f \in File : Closed(r, f)' => Closed(r, f)
  BY DEF Closed
<1>4. /\ Apart(fromWorker'[r], {"FILE_READY"}, {"ERROR"})
      /\ \A h \in finishing'[r] : h.stage = "forget" =>
           ~Has(toWorker'[r], {"WRITE_CHUNK"}) /\ ~Has(fromWorker'[r], {"ERROR"})
  BY DEF Guarded, WritesOver
<1>5. Guarded(r)'
  BY <1>1, <1>2, <1>3, <1>4, GuardedSame
<1> QED BY <1>5 DEF DownloadsTold

LEMMA ReloadGuarded ==
  ASSUME TypeInv, NEW r \in Receiver, Guarded(r), DownloadsTold(r), ReceiverReload(r)
  PROVE  Guarded(r)' /\ DownloadsTold(r)'
<1>1. /\ WorkerIdle(r)' /\ offers'[r] = {} /\ ~Receiving(r)'
      /\ disk' = disk /\ delivered' = delivered
  BY PageLoaded, PageLoadedKnows DEF WorkerIdle
<1>2. Guarded(r)'
  BY <1>1, IdleGuarded DEF Guarded
<1> QED BY <1>1, <1>2 DEF DownloadsTold

\* What another page is told of failures.
LEMMA WarningsElsewhere ==
  ASSUME TypeInv, NEW r \in Receiver, ReceiverHandler(r) \/ ReceiverReload(r),
         NEW s \in Receiver, s # r
  PROVE  listening'[s] = listening[s] /\ error'[s] = error[s]
<1>1. /\ listening \in [Receiver -> SUBSET File] /\ error \in [Receiver -> BOOLEAN]
  BY DEF TypeInv, TypeOK, ReceiverTypeOK
<1>2. CASE ReceiverReload(r)
  BY <1>1, <1>2 DEF ReceiverReload, PageReloaded
<1>3. CASE fileInitialised(r)
  BY <1>1, <1>3 DEF fileInitialised
<1>4. CASE onOfferInMemory(r) \/ \E h \in offers[r] : recordFound(r, h)
  BY <1>1, <1>4 DEF onOfferInMemory, recordFound, StartFile
<1>5. CASE workerError(r) \/ \E h \in finishing[r] : recordDeleted(r, h)
  BY <1>1, <1>5 DEF workerError, recordDeleted, EndOfFile
<1>6. CASE \/ onChunk(r) \/ onOffer(r) \/ onComplete(r) \/ fileClosed(r) \/ fileReady(r)
           \/ chunkWritten(r) \/ replyDropped(r) \/ onPauseSignal(r)
  BY <1>6 DEF onChunk, onOffer, onComplete, fileClosed, fileReady, chunkWritten, replyDropped,
              onPauseSignal, receiverVars
<1> QED BY <1>2, <1>3, <1>4, <1>5, <1>6 DEF ReceiverHandler

-----------------------------------------------------------------------------
\* All that the invariant says of one page.
PageGuard(r) == SentAt(r) /\ HandlesAt(r) /\ InTurn(r) /\ Guarded(r) /\ DownloadsTold(r)

LEMMA GuardParts == GuardInv <=> ReadsInside /\ \A r \in Receiver : PageGuard(r)
BY DEF GuardInv, PageGuard

LEMMA UntouchedGuard ==
  ASSUME TypeInv, TypeInv', NEW s \in Receiver, DataAt(s), PageGuard(s), PageUntouched(s),
         listening'[s] = listening[s], error'[s] = error[s]
  PROVE  PageGuard(s)'
<1>1. SentAt(s) /\ HandlesAt(s) /\ InTurn(s) /\ Guarded(s) /\ DownloadsTold(s)
  BY DEF PageGuard
<1>2. SentAt(s)' /\ HandlesAt(s)' /\ (Receiving(s)' <=> Receiving(s))
  BY <1>1, UntouchedHandles DEF ReceptionKept
<1>3. /\ toWorker'[s] = toWorker[s] /\ suspended'[s] = suspended[s] /\ disk'[s] = disk[s]
      /\ fromWorker'[s] = fromWorker[s] /\ meta'[s] = meta[s] /\ total'[s] = total[s]
      /\ offers'[s] = offers[s] /\ finishing'[s] = finishing[s] /\ active'[s] = active[s]
      /\ memory'[s] = memory[s] /\ delivered'[s] = delivered[s]
  BY DEF PageUntouched, PageKept
<1>4. InTurn(s)'
  BY <1>1, <1>2, <1>3, InTurnKept
<1>5. Guarded(s)' /\ DownloadsTold(s)'
  BY <1>1, <1>2, <1>3, SenderGuarded
<1> QED BY <1>2, <1>4, <1>5 DEF PageGuard

\* What a step of the sender leaves of a page.
LEMMA SenderStepGuard ==
  ASSUME TypeInv, TypeInv', NEW r \in Receiver, DataAt(r), PageGuard(r), ReceptionKept(r),
         OnlySender
  PROVE  PageGuard(r)'
<1>1. SentAt(r) /\ HandlesAt(r) /\ InTurn(r) /\ Guarded(r) /\ DownloadsTold(r)
  BY DEF PageGuard
<1>2. SentAt(r)' /\ HandlesAt(r)' /\ (Receiving(r)' <=> Receiving(r))
  BY <1>1, SenderHandles DEF ReceptionKept
<1>3. UNCHANGED <<workerVars, receiverVars>>
  BY DEF OnlySender
<1>4. InTurn(r)'
  BY <1>1, <1>2, <1>3, InTurnKept DEF receiverVars
<1>5. Guarded(r)' /\ DownloadsTold(r)'
  BY <1>1, <1>2, <1>3, SenderGuarded DEF workerVars, receiverVars
<1> QED BY <1>2, <1>4, <1>5 DEF PageGuard

\* A step of the page itself, of its worker, and its reload.
LEMMA PageStepGuard ==
  ASSUME TypeInv, TypeInv', NEW r \in Receiver, DataAt(r), PageGuard(r), ReceiverStep(r),
         SettledInTurn, ResumesIntact
  PROVE  PageGuard(r)'
<1>1. SentAt(r) /\ HandlesAt(r) /\ InTurn(r) /\ Guarded(r) /\ DownloadsTold(r)
  BY DEF PageGuard
<1>2. workerError(r) => offers[r] = {}
  BY <1>1, ErrorAfterOffers
<1>3. onOffer(r) \/ onOfferInMemory(r) => finishing[r] = {}
  BY DEF SettledInTurn
<1>4. SentAt(r)' /\ HandlesAt(r)'
  BY <1>1, <1>2, PageStep
<1>5. InTurn(r)'
  BY <1>1, <1>2, <1>3, PageStepInTurn
<1>6. Guarded(r)' /\ DownloadsTold(r)'
  BY <1>1, <1>4, PageStepGuarded, PageStepTold
<1> QED BY <1>4, <1>5, <1>6 DEF PageGuard

LEMMA WorkerStepGuard ==
  ASSUME TypeInv, TypeInv', NEW r \in Receiver, DataAt(r), PageGuard(r), OpfsStep(r)
  PROVE  PageGuard(r)'
<1>1. SentAt(r) /\ HandlesAt(r) /\ InTurn(r) /\ Guarded(r) /\ DownloadsTold(r)
  BY DEF PageGuard
<1>2. UNCHANGED <<toReceiver, toSender, senderVars, receiverVars>>
  BY DEF OpfsStep, channelVars
<1>3. SentAt(r)' /\ (Receiving(r)' <=> Receiving(r))
  BY <1>1, <1>2, WorkerAside
<1>4. HandlesAt(r)' /\ Guarded(r)'
  BY <1>1, WorkerStepHandles, WorkerStepGuarded
<1>5. InTurn(r)'
  BY <1>1, <1>2, <1>3, InTurnKept DEF receiverVars
<1>6. DownloadsTold(r)'
  BY <1>1, <1>2 DEF DownloadsTold, receiverVars
<1> QED BY <1>3, <1>4, <1>5, <1>6 DEF PageGuard

LEMMA ReloadGuard ==
  ASSUME TypeInv, NEW r \in Receiver, PageGuard(r), ReceiverReload(r)
  PROVE  PageGuard(r)'
<1>1. SentAt(r)' /\ HandlesAt(r)' /\ ~Receiving(r)' /\ offers'[r] = {}
  BY PageLoaded, PageLoadedKnows
<1>2. InTurn(r)'
  BY <1>1, InTurnIdle
<1>3. Guarded(r)' /\ DownloadsTold(r)'
  BY ReloadGuarded DEF PageGuard
<1> QED BY <1>1, <1>2, <1>3 DEF PageGuard

LEMMA StepGuard ==
  ASSUME TimelyAccept, MaxSenderReloads = 0, TypeInv, TypeInv', DataInv, GuardInv, Next,
         SettledInTurn, ResumesIntact
  PROVE  GuardInv'
<1>1. ReadsInside /\ SentEverywhere /\ \A r \in Receiver : PageGuard(r) /\ DataAt(r)
  BY DEF GuardInv, SentEverywhere, PageGuard, DataInv
<1>2. CASE SenderStep
  <2>1. ReadsInside' /\ OnlySender
    BY <1>1, <1>2, ReadsKept DEF SenderStep
  <2>2. ASSUME NEW r \in Receiver PROVE PageGuard(r)'
    BY <1>1, <1>2, <2>1, SenderStepSent, SenderStepGuard
  <2> QED BY <2>1, <2>2 DEF GuardInv, PageGuard
<1>3. ASSUME NEW r \in Receiver, ReceiverStep(r) PROVE GuardInv'
  <2>1. ReadsInside'
    BY <1>1, <1>3, StepLeaves DEF ReadsInside
  <2>2. PageGuard(r)'
    BY <1>1, <1>3, PageStepGuard
  <2>3. ASSUME NEW s \in Receiver, s # r PROVE PageGuard(s)'
    <3>1. PageUntouched(s)
      BY <1>3, <2>3, PageStepElsewhere
    <3>2. listening'[s] = listening[s] /\ error'[s] = error[s]
      BY <1>3, <2>3, WarningsElsewhere DEF ReceiverStep
    <3> QED BY <1>1, <3>1, <3>2, UntouchedGuard
  <2> QED BY <2>1, <2>2, <2>3 DEF GuardInv, PageGuard
<1>4. ASSUME NEW r \in Receiver, OpfsStep(r) PROVE GuardInv'
  <2>1. UNCHANGED <<toReceiver, toSender, senderVars, receiverVars>>
    BY <1>4 DEF OpfsStep, channelVars
  <2>2. ReadsInside'
    BY <1>1, <1>4, <2>1, WorkerAside
  <2>3. PageGuard(r)'
    BY <1>1, <1>4, WorkerStepGuard
  <2>4. ASSUME NEW s \in Receiver, s # r PROVE PageGuard(s)'
    <3>1. PageUntouched(s)
      BY <1>4, <2>4, WorkerStepElsewhere
    <3>2. listening'[s] = listening[s] /\ error'[s] = error[s]
      BY <2>1 DEF receiverVars
    <3> QED BY <1>1, <3>1, <3>2, UntouchedGuard
  <2> QED BY <2>2, <2>3, <2>4 DEF GuardInv, PageGuard
<1>5. ASSUME NEW r \in Receiver, ReceiverReload(r) PROVE GuardInv'
  <2>1. ReadsInside'
    BY <1>1, <1>5 DEF ReceiverReload, ReadsInside, Current
  <2>2. PageGuard(r)'
    BY <1>1, <1>5, ReloadGuard
  <2>3. ASSUME NEW s \in Receiver, s # r PROVE PageGuard(s)'
    BY <1>1, <1>5, <2>3, ReloadElsewhere, WarningsElsewhere, UntouchedGuard
  <2> QED BY <2>1, <2>2, <2>3 DEF GuardInv, PageGuard
<1>6. ASSUME NEW r \in Receiver, Rejoin(r) PROVE GuardInv'
  <2>1. UNCHANGED <<toReceiver, toSender, senderVars, workerVars, receiverVars>>
    BY <1>6 DEF Rejoin
  <2>2. ReadsInside'
    BY <1>1, <2>1 DEF ReadsInside, Current, senderVars
  <2>3. ASSUME NEW s \in Receiver PROVE PageGuard(s)'
    <3>1. PageUntouched(s) /\ listening'[s] = listening[s] /\ error'[s] = error[s]
      BY <2>1 DEF PageUntouched, LoopKept, PageKept, senderVars, workerVars, receiverVars
    <3> QED BY <1>1, <3>1, UntouchedGuard
  <2> QED BY <2>2, <2>3 DEF GuardInv, PageGuard
<1>7. ~SenderReload
  BY DEF SenderReload, TypeInv, TypeOK
<1> QED BY <1>2, <1>3, <1>4, <1>5, <1>6, <1>7 DEF Next

LEMMA StillGuard ==
  ASSUME TypeInv, TypeInv', DataInv, GuardInv, UNCHANGED vars
  PROVE  GuardInv'
<1>1. UNCHANGED <<toReceiver, toSender, senderVars, workerVars, receiverVars>>
  BY DEF vars, channelVars
<1>2. ReadsInside'
  BY <1>1 DEF GuardInv, ReadsInside, Current, senderVars
<1>3. ASSUME NEW s \in Receiver PROVE PageGuard(s)'
  <2>1. PageUntouched(s) /\ listening'[s] = listening[s] /\ error'[s] = error[s]
    BY <1>1 DEF PageUntouched, LoopKept, PageKept, senderVars, workerVars, receiverVars
  <2>2. PageGuard(s) /\ DataAt(s)
    BY DEF GuardInv, PageGuard, DataInv
  <2> QED BY <2>1, <2>2, UntouchedGuard
<1> QED BY <1>2, <1>3 DEF GuardInv, PageGuard

\* The invariant of the runs in which writes may fail.
ToldInv == TypeInv /\ DataInv /\ GuardInv

LEMMA InitTold == Init => ToldInv
<1> SUFFICES ASSUME Init PROVE GuardInv
  BY InitType, InitData DEF ToldInv
<1>1. ReadsInside /\ \A r \in Receiver : SentAt(r) /\ HandlesAt(r)
  BY InitDisk DEF DiskInv
<1>2. \A r \in Receiver : InTurn(r) /\ Guarded(r) /\ DownloadsTold(r)
  BY InitIntact, InitGuarded DEF IntactInv, PageIsWhole
<1> QED BY <1>1, <1>2 DEF GuardInv

LEMMA StepTold ==
  ASSUME TimelyAccept, MaxSenderReloads = 0, ToldInv, [Next]_vars, [OneTarget]_vars,
         [SettledInTurn]_vars, [ResumesIntact]_vars
  PROVE  ToldInv'
<1>1. TypeInv /\ DataInv /\ GuardInv
  BY DEF ToldInv
<1>2. TypeInv'
  BY <1>1, StepType
<1>3. LookupsInTurn
  BY <1>1 DEF GuardInv, HandlesAt, AllOpen, LookupsInTurn
<1>4. DataInv'
  BY <1>1, <1>3, StepData
<1>5. CASE UNCHANGED vars
  BY <1>1, <1>2, <1>4, <1>5, StillGuard DEF ToldInv
<1>6. CASE Next /\ SettledInTurn /\ ResumesIntact
  BY <1>1, <1>2, <1>4, <1>6, StepGuard DEF ToldInv
<1> QED BY <1>5, <1>6

\* A write that fails does not end the reception: the chunk is lost, the file goes on
\* being received, closed and handed over.  What is handed over is the sender's file, or
\* the user has been shown an error by then, however many writes fail and whenever the
\* receiving page is reloaded.  Two conditions are needed that the code does not enforce:
\* a file is offered when the page and its worker are done with the one before
\* (SettledInTurn), since FILE_OFFER takes the error back; and a transfer resumes only
\* where the disk holds what the record claims (ResumesIntact), since the record outlives
\* the reception that an error has ended.
THEOREM FailuresReported ==
  ASSUME TimelyAccept, MaxSenderReloads = 0
  PROVE  Spec /\ [][OneTarget]_vars /\ [][SettledInTurn]_vars /\ [][ResumesIntact]_vars
           => []CorruptionReported
<1>1. ToldInv /\ [Next]_vars /\ [OneTarget]_vars /\ [SettledInTurn]_vars /\ [ResumesIntact]_vars
        => ToldInv'
  BY StepTold
<1>2. ToldInv => CorruptionReported
  BY DEF ToldInv, GuardInv, DownloadsTold, CorruptionReported
<1> QED BY <1>1, <1>2, InitTold, PTL DEF Spec
=============================================================================
