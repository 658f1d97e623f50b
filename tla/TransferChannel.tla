-------------------------- MODULE TransferChannel --------------------------
(***************************************************************************)
(* The WebRTC data channels of the file-sharing page: one ordered,         *)
(* reliable channel in each direction between the sending page and every   *)
(* receiving page, and the FileTransferSignal messages they carry.  Bytes  *)
(* are abstracted to chunks: an offset counts chunks of CHUNK_SIZE, and a  *)
(* chunk's payload is the pair of its file and its index.                  *)
(***************************************************************************)
EXTENDS Naturals, Sequences

CONSTANTS
  File,      \* the files a user can pick; a member stands for computeFileId(file)
  Size,      \* the number of chunks of each file
  Receiver,  \* the pages that joined the sender's room
  None       \* "null" and "undefined"

ASSUME SizeAssumption == Size \in [File -> Nat]
ASSUME NoneAssumption == None \notin File \cup Nat

VARIABLES
  link,        \* link[r]: the channel to r is open
  toReceiver,  \* toReceiver[r]: messages on their way to r
  toSender     \* toSender[r]: messages on their way from r to the sender

channelVars == <<link, toReceiver, toSender>>

Payload == [file : File, index : Nat]

Offer(f)    == [type |-> "FILE_OFFER", file |-> f]
Paused(f)   == [type |-> "TRANSFER_PAUSED", file |-> f]
Resumed(f)  == [type |-> "TRANSFER_RESUMED", file |-> f]
Complete(f) == [type |-> "TRANSFER_COMPLETE", file |-> f]
Chunk(f, i) == [type |-> "CHUNK", data |-> [file |-> f, index |-> i]]

Accept(f, start) == [type |-> "FILE_ACCEPT", file |-> f, start |-> start]
Backpressure(f, on) ==
  [type |-> "WRITE_BACKPRESSURE", file |-> f, engaged |-> on]

DownMessage ==
  [type : {"FILE_OFFER", "TRANSFER_PAUSED", "TRANSFER_RESUMED", "TRANSFER_COMPLETE"},
   file : File]
  \cup [type : {"CHUNK"}, data : Payload]

UpMessage ==
  [type : {"FILE_ACCEPT"}, file : File, start : Nat]
  \cup [type : {"WRITE_BACKPRESSURE"}, file : File, engaged : BOOLEAN]

ChannelTypeOK ==
  /\ link \in [Receiver -> BOOLEAN]
  /\ toReceiver \in [Receiver -> Seq(DownMessage)]
  /\ toSender \in [Receiver -> Seq(UpMessage)]

\* Every page is in the room and no transfer has started.
ChannelInit ==
  /\ link = [r \in Receiver |-> TRUE]
  /\ toReceiver = [r \in Receiver |-> <<>>]
  /\ toSender = [r \in Receiver |-> <<>>]

Whole(f) == [i \in 1..Size[f] |-> [file |-> f, index |-> i - 1]]
=============================================================================
