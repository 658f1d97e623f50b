----------------------------- MODULE OpfsWorker -----------------------------
(***************************************************************************)
(* The OPFS worker of each receiving page.  Its task queue is first in,    *)
(* first out; WRITE_CHUNK and CLOSE_FILE run to completion in their task,  *)
(* INIT_FILE and GET_FILE suspend and finish at a later time.  The private *)
(* file system survives the page; the worker and its handles do not.       *)
(***************************************************************************)
EXTENDS TransferChannel

CONSTANTS MaxFaults  \* bound: how many writes fail (quota exceeded, disk error)

ASSUME FaultAssumption == MaxFaults \in Nat

VARIABLES
  toWorker,    \* toWorker[r]: messages posted to the worker
  suspended,   \* suspended[r]: its INIT_FILE and GET_FILE calls under way
  handles,     \* activeHandles: the files whose access handle is open
  disk,        \* disk[r][f]: the content of the OPFS entry of f
  fromWorker,  \* fromWorker[r]: replies on their way to the page
  faults       \* number of failed writes so far (bound)

workerVars == <<toWorker, suspended, handles, disk, fromWorker, faults>>

InitFile(f)  == [type |-> "INIT_FILE", file |-> f]
CloseFile(f) == [type |-> "CLOSE_FILE", file |-> f]
GetFile(f)   == [type |-> "GET_FILE", file |-> f]

WriteChunk(f, chunk, at) ==
  [type |-> "WRITE_CHUNK", file |-> f, chunk |-> chunk, offset |-> at]

Suspending == [type : {"INIT_FILE", "GET_FILE"}, file : File]

WorkerRequest ==
  Suspending
  \cup [type : {"CLOSE_FILE"}, file : File]
  \cup [type : {"WRITE_CHUNK"}, file : File, chunk : Payload, offset : Nat]

\* An entry's content, a position never written holding None.
Content == Seq(Payload \cup {None})

WorkerReply ==
  [type : {"INIT_SUCCESS", "FILE_CLOSED", "ERROR"}, file : File]
  \cup [type : {"CHUNK_WRITTEN"}, file : File, currentOffset : Nat]
  \cup [type : {"FILE_READY"}, file : File, data : Content]

WorkerTypeOK ==
  /\ toWorker \in [Receiver -> Seq(WorkerRequest)]
  /\ suspended \in [Receiver -> SUBSET Suspending]
  /\ handles \in [Receiver -> SUBSET File]
  /\ disk \in [Receiver -> [File -> Content]]
  /\ fromWorker \in [Receiver -> Seq(WorkerReply)]
  /\ faults \in Nat

WorkerInit ==
  /\ toWorker = [r \in Receiver |-> <<>>]
  /\ suspended = [r \in Receiver |-> {}]
  /\ handles = [r \in Receiver |-> {}]
  /\ disk = [r \in Receiver |-> [f \in File |-> <<>>]]
  /\ fromWorker = [r \in Receiver |-> <<>>]
  /\ faults = 0

Reply(r, m) == fromWorker' = [fromWorker EXCEPT ![r] = Append(@, m)]

Failure(f) == [type |-> "ERROR", file |-> f]

Take(r) == toWorker' = [toWorker EXCEPT ![r] = Tail(@)]

\* handle.write(chunk, { at }): the entry grows, with a hole if need be.
Longer(m, n) == IF m < n THEN n ELSE m
Written(data, chunk, at) ==
  [i \in 1..Longer(Len(data), at + 1) |->
     IF i = at + 1 THEN chunk ELSE IF i <= Len(data) THEN data[i] ELSE None]

writeChunk(r) ==
  /\ toWorker[r] # <<>>
  /\ LET m == Head(toWorker[r]) IN
       /\ m.type = "WRITE_CHUNK"
       /\ m.file \in handles[r]
       /\ disk' = [disk EXCEPT ![r][m.file] = Written(@, m.chunk, m.offset)]
       /\ Reply(r, [type |-> "CHUNK_WRITTEN", file |-> m.file,
                    currentOffset |-> m.offset + 1])
  /\ Take(r)
  /\ UNCHANGED <<suspended, handles, faults>>

\* Mutant: the catch of the write posts no ERROR.
writeChunkFailsSilently(r) ==
  /\ toWorker[r] # <<>>
  /\ Head(toWorker[r]).type = "WRITE_CHUNK"
  /\ faults < MaxFaults
  /\ faults' = faults + 1
  /\ Take(r)
  /\ UNCHANGED <<suspended, handles, disk, fromWorker>>

\* No handle, or the file system refuses the write.
writeChunkFails(r) ==
  /\ toWorker[r] # <<>>
  /\ LET m == Head(toWorker[r]) IN
       /\ m.type = "WRITE_CHUNK"
       /\ \/ m.file \notin handles[r] /\ UNCHANGED faults
          \/ /\ m.file \in handles[r]
             /\ faults < MaxFaults
             /\ faults' = faults + 1
       /\ Reply(r, Failure(m.file))
  /\ Take(r)
  /\ UNCHANGED <<suspended, handles, disk>>

closeFile(r) ==
  /\ toWorker[r] # <<>>
  /\ LET m == Head(toWorker[r]) IN
       /\ m.type = "CLOSE_FILE"
       /\ handles' = [handles EXCEPT ![r] = @ \ {m.file}]
       /\ Reply(r, [type |-> "FILE_CLOSED", file |-> m.file])
  /\ Take(r)
  /\ UNCHANGED <<suspended, disk, faults>>

\* handleDirectoryBackedMessage up to its first await ...
suspend(r) ==
  /\ toWorker[r] # <<>>
  /\ Head(toWorker[r]).type \in {"INIT_FILE", "GET_FILE"}
  /\ suspended' = [suspended EXCEPT ![r] = @ \cup {Head(toWorker[r])}]
  /\ Take(r)
  /\ UNCHANGED <<handles, disk, fromWorker, faults>>

\* ... and its rest.  An access handle is exclusive: a second one is refused.
initFile(r) ==
  \E m \in suspended[r] :
    /\ m.type = "INIT_FILE"
    /\ IF m.file \in handles[r]
       THEN Reply(r, Failure(m.file)) /\ UNCHANGED handles
       ELSE /\ handles' = [handles EXCEPT ![r] = @ \cup {m.file}]
            /\ Reply(r, [type |-> "INIT_SUCCESS", file |-> m.file])
    /\ suspended' = [suspended EXCEPT ![r] = @ \ {m}]
    /\ UNCHANGED <<toWorker, disk, faults>>

getFile(r) ==
  \E m \in suspended[r] :
    /\ m.type = "GET_FILE"
    /\ Reply(r, [type |-> "FILE_READY", file |-> m.file, data |-> disk[r][m.file]])
    /\ suspended' = [suspended EXCEPT ![r] = @ \ {m}]
    /\ UNCHANGED <<toWorker, handles, disk, faults>>

WorkerStep(r) ==
  \/ writeChunk(r)
  \/ writeChunkFails(r)
  \/ closeFile(r)
  \/ suspend(r)
  \/ initFile(r)
  \/ getFile(r)

\* The page is gone: the worker is terminated and its handles are released.
TerminateWorker(r) ==
  /\ toWorker' = [toWorker EXCEPT ![r] = <<>>]
  /\ suspended' = [suspended EXCEPT ![r] = {}]
  /\ handles' = [handles EXCEPT ![r] = {}]
  /\ fromWorker' = [fromWorker EXCEPT ![r] = <<>>]
  /\ UNCHANGED <<disk, faults>>
=============================================================================
