# AirBond in TLA+

AirBond is a web application with a signaling server (NestJS, socket.io) and
browser pages (React hooks): file sharing between pages over WebRTC, private
two-person video calls, live streams with viewers, ephemeral chat rooms, and a
statistics dashboard. This directory models the parts whose correctness depends
on the order in which pages, workers, sockets and timers act. Paths are relative
to `src/`; `webrtc/`, `call/`, `stream/` and `chat/` are below `apps/web/src/`,
`rooms/`, `stats/` and `common/` below `apps/signaling-server/src/`.

## Inventory

| Component | State | Operations | What makes it correct | Modules |
|---|---|---|---|---|
| File sender, `webrtc/usePeerConnection.ts` | the queue, the channels captured at its start, the offset, user pause, the set of slow peers | broadcast a selection, offer, stream, complete a file; pause, resume; handle FILE_ACCEPT, WRITE_BACKPRESSURE, a departed peer | every send ends; no wakeup lost; a departed peer does not count | FileSender |
| Data channels, same file | messages in flight each way, open or closed | open, close, deliver in order | ordered and reliable until closed | TransferChannel |
| OPFS worker, `workers/opfsWorker.ts`, `webrtc/opfsClient.ts` | open access handles, file contents, requests and replies | INIT, WRITE, CLOSE, GET, (REMOVE) | writes are applied before the close; failures are reported | OpfsWorker |
| File receiver, `webrtc/usePeerConnection.ts` | active file, early chunks, counts of received and confirmed chunks, backpressure flag, handlers suspended at an await | FILE_OFFER, a chunk, TRANSFER_COMPLETE, the pause signals, the worker's replies, onclose | the download is the sender's file, or an error is shown | FileReceiver |
| Transfer records, `webrtc/transferDb.ts` | bytes received of each file, in IndexedDB | save, look up, delete, (sweep) | never ahead of the disk | FileReceiver |
| Signalling of file sharing, `usePeerConnection.ts` 639-845 | a peer connection and a candidate queue per peer | create, join; offer, answer, candidate handlers; a lost peer | no candidate lost, a channel for each pair | PeerSignalling |
| File rooms, `rooms/files/`, `common/redis/` | peers of a room, room of a socket, in Redis | create, join, disconnect, relay, expiry of a key | the set of peers is that of the sockets | FileRooms |
| Call rooms, `rooms/call/` | rooms, socket index, expiry timers | create, join, leave, disconnect, relay, expire | the maps agree; a room closes for both | CallRooms |
| Call page, `call/useCallSession.ts` | role, room, pending request, camera, peer connection | start, join, leave, toggle; one handler for each event | the two pages connect; the camera goes off | CallSession |
| Stream rooms, `rooms/stream/` | rooms with viewers, two indexes, timers, socket.io rooms | create, join, kick, post, track state, end, disconnect, expire | no ghost viewer, no room without broadcaster | StreamRooms |
| Stream pages, `stream/useStreamSession.ts` | role, captures, pickers, a peer connection per viewer | go live, watch, share, post, kick, leave, end | a connection for each viewer; nothing is captured afterwards | StreamSession |
| Captions, `stream/speechRecognition.ts` | recogniser, restart timer | start, result, end, restart, stop | restarts while wanted, stops when not | StreamSession |
| Chat rooms, `rooms/chat/` | documents in MongoDB, participants, timers | create, join, message, typing, leave, disconnect, expire, restart | names unique, rooms with people get closed | ChatRooms |
| Chat page, `chat/useChatSocket.ts` | session, roster, who types | join, rejoin, leave, send, type | page and server agree on who is there | ChatSocket |
| Statistics, `stats/` | counters, room entries, active transfers, removal timers | report, remove, count peers, snapshot | bytes counted once, no stale pause | TransferStats; the rooms' entries in StreamRooms, ChatRooms, FileRooms |
| Dashboard page and socket, UI components, styling, infrastructure | - | - | - | not modelled |

**How they interact.** The server introduces pages to each other and relays the
session descriptions; files then travel between the pages alone, over one data
channel per pair. Pages report their progress to the statistics. The receiver's `dc.onmessage` runs concurrently with itself: a
handler suspended in an await (the record lookup, the worker's reply) lets the
next message in. A receiving page posts writes to its OPFS worker without waiting
and is told of each one; the difference between chunks received and chunks confirmed
is the write lag that asks the sender to stop. In a call both pages only talk to the
server; it keeps rooms in memory and learns of a page that left from `disconnect`,
which socket.io delivers after everything the socket had sent. The server's handlers
await too: Redis for file rooms, bcrypt for streams and chats, MongoDB for chats. Other
handlers, of the same socket as well, run meanwhile.

**What is hard.** Handlers that read shared variables before an await and write
them after; two reasons to block one loop and several places that lift them;
two counters of chunks, on two pages, that must agree without ever being compared;
disks slower than the network; pages reloaded in any state; sockets replaced under
a page; three maps of the server changed in different methods; a password being hashed while its
owner leaves; Redis commands of two handlers in turn; timers. The
`hazards` of `PROJECT.json` list each at its line, with the property that would
catch it or the reason none does yet.

## Modules

    TransferChannel                   messages and channels
      |- FileSender                   the sending page
      |- OpfsWorker                   the workers of the receiving pages
      |    `- FileReceiver            the receiving pages
      `- FileTransfer                 sender + receivers + reloads; the properties
           |- MCFileTransfer          instances for TLC (Transfer*.cfg)
           `- FileTransferProofs      theorems: types, wakeups, departed peers, backpressure, chunks
                `- FileDiskProofs     ... what is written, recorded and handed over
    FileRooms                         the server's file gateway, Redis, and the sockets
      `- PeerSignalling               the pages up to the open data channel
           `- FileShare               composition, properties
                |- MCFileShare        instances for TLC (File*.cfg)
                `- FileShareProofs    theorems
    TransferStats                     both pages' reports and StatsService
      |- MCTransferStats              instance for TLC (TransferStats.cfg)
      `- StatsProofs                  theorems
    PrivateCall                       what a call promises (abstract)
    CallRooms                         the server's call gateway, and the sockets
      `- CallSession                  the call pages
           `- VideoCall               composition, properties, refinement of PrivateCall
                |- MCVideoCall        instances for TLC (VideoCall*.cfg)
                `- CallProofs         theorems, the refinement among them
    StreamRooms                       the server's stream gateway, and the sockets
      `- StreamSession                the stream pages with their captions
           `- LiveStream              composition, properties
                |- MCLiveStream       instances for TLC (LiveStream*.cfg)
                `- StreamProofs       theorems
    ChatRooms                         the server's chat gateway, MongoDB, and the sockets
      `- ChatSocket                   the chat pages
           `- Chat                    composition, restarts of the server, properties
                |- MCChat             instance for TLC (Chat.cfg)
                `- ChatProofs         theorems
    Queues                            lemmas on queues of messages, for all the proofs

### File transfer

A file is a sequence of `Size[f]` chunks; a chunk is `[file, index]`, its index
the byte offset divided by the chunk size, so that a chunk in the wrong place is
visible. `bufferedAmount` of a channel is the number of messages not yet delivered.

*FileSender.* `pc` is the await at which `broadcastFiles`/`sendOneFile` is
suspended: `hash` (computeFileId), `accept` (the 150 ms wait for FILE_ACCEPT),
`loop` (the top of the while loop, also during the 50 ms poll), `blocked`
(`waitForUnblock`), `read` (`slice.arrayBuffer()`). The code between two awaits
is one action: `offerFile`, `acceptWaitOver`, `waitForUnblock`, `readSlice`,
`sendChunk`, `completeFile`. `targets` are the channels captured at the start;
`lost` those that have closed since, on which `send` throws (`SendThrows`, which
ends the broadcast, after the message has gone to some of the open ones); `clogged` those that
closed with more in their buffer than the watermark. `closing` holds the peers whose channel
has closed and whose `closePeer` (connection state or LEAVE_ROOM) has yet to run.

*OpfsWorker.* `toWorker` and `fromWorker` are the two message queues. WRITE_CHUNK and
CLOSE_FILE are handled in one step; INIT_FILE and GET_FILE suspend on the
directory handle (`suspended`) and finish later, in any order. `handles` is
`activeHandles`; INIT_FILE fails while a handle is open, as access handles are
exclusive. Any write may fail, up to `MaxFaults`.

*FileReceiver.* The variables local to `bindDataChannel` and the refs of the
hook, one set per receiving page, and the handlers suspended at an await:
`offers` (stage `lookup`: the transfer record; `init`: the worker) and `finishing`
(`close`, `get`, `forget`: the three awaits of `finishReceive`). A handler keeps
the channel it was called on (`ChannelOf`): after onclose it runs on with variables nobody else
uses. Without OPFS nothing is awaited before FILE_ACCEPT and FILE_OFFER is one step.
The throttled report of the lag may or may not happen at any chunk but the last, which
always reports. IndexedDB runs the requests of a page in the order they are
issued, so a record is saved or deleted when the code issues the request.

*FileTransfer.* `SenderReload` and `ReceiverReload` close channels at any moment;
what survives on a receiving page is the disk, the records and the downloads.
`Rejoin` opens a new channel, after `closePeer`: LEAVE_ROOM is sent by the server
before the page can join again.

### Video calls

*CallRooms.* A socket id is a page and the number of its connection, so a
reconnected page is a stranger to the server, as with socket.io. `rooms`,
`socketIndex` and `timers` are the maps of `CallRoomService`. A handler is
one step: what it awaits (validation, `client.join` on the in-memory adapter)
resolves before the next message is handled. `disconnect` is the last message of a
socket's queue.

*CallSession.* `session[p]` is the hook's refs and state. Camera and microphone
are one boolean `media`, set and relayed together in every message; `cameras`
counts live streams and `local` says whether `localStreamRef` holds one, so a
stream nobody will stop is visible. `asking` are the calls that await
`getUserMedia`; `signalling` is where the offer/answer exchange of the page is.
`connectionLost` loses a suffix of what was sent and everything on its way to the page.
`severed` is a history variable: pages that lost the connection of their call.

*VideoCall.* `Expiry` may happen whenever the offer/answer exchange of its
participants is over: the timer takes two hours, the exchange seconds.

*Refinement.* `PrivateCall` says what a call is: a person in no call starts one, a
person in no call enters one that has a single person, and it ends for everybody in it
at once. `VideoCall` implements it with `people[r]` mapped to the participants the server has
in room `r`; every handler, page step, disconnect and expiry is one of the three
or a stutter (`KeepsPromise`).

### File rooms and signalling

*FileRooms.* `members[r]` is socket.io's room, `peers[r]` and `roomOf[s]` the keys in Redis. A
handler that awaits Redis is its next command in the queue `redis`; one connection runs
the commands in the order they are issued, and the reply (`redisReplies`) issues the
handler's next, so handlers interleave between commands and a socket's own messages are handled
while its join is under way. `lapse` is the expiry of a room's keys after two hours.

*PeerSignalling.* A peer connection is its number on the page with what it knows of the other
end: `local` (has offered or answered), `remote` and `heard` (whose
description and candidates it has), and the await its handler is in.
`described` is the end of an await, and what follows it. A connection gathers one candidate, sent after the
description. Two connections are `Ends` of one link when they have each other's
description and candidate; then the channel may open.

*FileShare.* The history variables name what the properties have to except: `contended` rooms (two handlers at
work at once) and among them `crossed` ones (two joins), `overtaken` sockets (the disconnect found no key yet),
`severed` pages (a lost connection, to the server or a peer), `lapsed` (a key expired).

### Transfer statistics

`TransferStats` keeps of a transfer only what its reports tell apart: the send loop with its two
reasons to block, the receiver's lag, the reports on their way (`reports[p]`), and the
server's entry, timers and additions at their await (`counting`). A throttle is a choice: any report may
or may not be due, except those the code always makes. `retold` notes that a transfer was reported
again after its removal.

### Streams

*StreamRooms.* `rooms` are the keys of the map and `room[r]` the object, which outlives its key in the
handlers that hold it. `suspended` are the handlers that await bcrypt; a socket may
disconnect, and a stream end, before they go on. `members[r]` is the socket.io room. Identifiers are
not used twice, so a dead room can be told from a new one.

*StreamSession.* `active` is what is in `localStreamRef`, `pickers` the screen pickers that are open, each with the
microphone's state of the render it was opened in (a stale closure in the code), `captions` the
recogniser. `peers[s]` is where the exchange with socket `s` is; `createPeerConnection` replaces a
connection, and the handler that awaits the old one does not go on.

*LiveStream.* `overtaken` are the sockets let in, or whose stream was created, after their disconnect or after the end of the
stream; `kicked` the viewers a broadcaster removed.

### Chat

*ChatRooms.* A join awaits MongoDB (`finding`) and bcrypt (`checking`), and only then looks at the names. `expired` is the
passing of a room's two hours; the timer fires (`fire`), awaits `deleteOne` (`firing`) and closes the room,
and MongoDB's TTL may remove the document at any time after.

*ChatSocket.* `room` and `name` are refs that survive a refused join; `onConnect` joins again with them. `interrupted` are pages that
joined anew or lost their room without a reload, or read a USER_TYPING while in no room: what they show of typing is not reset.

*Chat.* `restart` loses participants, timers and everything on its way, keeps MongoDB, and connects every page anew.

## Runs and bounds

| Run | Instance | Properties | Result |
|---|---|---|---|
| TransferFlow | 1 file of 3 chunks, 1 receiver with OPFS, a failed write, a pause, a reload of each page | BackpressureAgreed, CorruptionReported, SendEnds, EveryoneServed | 19,781 states |
| TransferResume | 2 broadcasts of the file, a reload of the receiver with its worker drained, a pause | DeliveredIntact, Aligned, DiskIsPrefix, RecordBacked | 26,282 states |
| TransferMesh | a receiver with OPFS and one without, a reload on each side, late FILE_ACCEPTs | TypeOK, DepartedPeersCleaned, NoLostWakeup | 907,123 states |
| TransferStuck | 2 files, fairness | SendEnds | violated |
| TransferStats | 2 files of 2 chunks, a pause, either page leaves; 2 reports of a page and 1 addition under way | TypeOK, PauseLifted, BytesCounted | 3,661,523 states |
| FileShare | 2 pages, one with two connections, 1 lost connection, peer or key, 1 press of Create or Join on each connection | TypeOK, PeersAgree, PeersLink | 509,162 states |
| FileCrossing | 3 pages, one connection each | OneOffers | violated |
| VideoCall | 3 pages, 2 identifiers, 3 presses of Start or Join, 1 toggle, 1 lost connection, 2 connections for two of the pages | TypeOK, RegistryAgrees, NoGhostRoom, EndsForBoth, TrackStateAgreed, CameraReleased | 2,390,826 states |
| VideoCallLive | 2 pages, no toggle, fairness | KeepsPromise, CallConnects, RequestAnswered | 121,556 states |
| LiveStream | broadcaster and viewer, an open stream, 2 acts (mute, share, post, caption, kick), the viewer joins up to twice | TypeOK, ViewersListed, PostsStayInside, CaptureReleased | 462,217 states |
| LiveStreamLost | the same with a password, 2 connections each, 1 of them lost, fairness | StreamRegistryAgrees, NoGhostStream, AudienceTold, ViewerConnects | 149,591 states |
| Chat | 2 pages, 2 names, a room with a password, 2 connections each, 1 act, 1 lost connection, 1 restart of the server; symmetric pages and names | TypeOK, NamesUnique, RosterAgrees, PresenceAgrees, RoomsKept, TypingShown | 840,609 states |

*Why the bounds are enough.* Three chunks cross both watermarks of the lag (both 1, the
lag going to 2 and back), fill the send buffer (watermark 1 or 2) and leave a resume in the
middle with a chunk on either side. A second broadcast is what a resume needs, and a
second file what a queue needs. Two receivers show whatever one does to another through the
shared sender loop. A reload can hit every state of the other parts, a second would
repeat the first. In a call, two connections per page let a page leave, return
and meet what is left of its old socket; the third page is there to find a call full;
two identifiers let one call follow or run beside another; a third press lets a page join a
call, leave it and start or join another. Two pages are a pair, which is all that peer connections,
typing and names relate; that two joins cross needs a third page to create the room. A viewer who comes twice
meets its own kicked or overtaken self. In TransferStats the two files have one length, so that the timer of
the first finds what looks like its own transfer in the second; reports and additions
queue up to their bound, and then the page or the server waits, which only delays a step. A fault (a lost
connection, peer or key) in FileShare strikes when nothing is on its way, but a connection to the server may be lost at any time.

*Deadlock* is not checked: a broadcast that is done and a call, stream or room that has ended
leave nothing to do once the bounds are used up.

**What the passing runs show.** In transfer: sender and receiver agree on backpressure once
signals in flight are counted, for one file; a download that is not the sender's file never
starts without an error shown, for one sending; a broadcast ends under the conditions below; chunk numbers
agree when FILE_ACCEPT is timely and there is one receiver; the disk never has a hole; a
record never promises more than disk and worker queue hold. In the statistics: whatever lifts a pause is
reported, and no timer makes bytes count twice. In file rooms: Redis and the
dashboard agree with the sockets once no handler is at work, and two pages that stay and did not join at
the same time get a channel, whatever Redis has forgotten. In calls: the maps agree in every state; a
room never outlives a participant whose disconnect has been handled; a page shows a call only while
it is in its room or about to be told otherwise; the indicators agree once nothing is
under way; no camera stays on outside a call; pages in a room connect; a room does what PrivateCall allows. In streams: indexes, timers and
dashboard agree in every state; nobody is left in a stream by a disconnect; who shows a stream is in it or about to hear of its end; nothing is
seen by those who left. In chats: names stay unique although they are looked at after two awaits; rosters and typing agree with the server; a room that people are in is
closed in the end, also when a restart lost its timer.

**What the violation runs show** (`findings` in `PROJECT.json`, each quoting the comment it disagrees with):

1. *TransferStuck* - FILE_OFFER resets `writeBackpressureEngaged` silently; the
   sender waits for ever for a release.
2. *FileCrossing* - pages are in the socket.io room before their handler has asked Redis who else is; two that
   join together are both told that the other is new, both offer, and may never connect.

**Known problems without a run of their own.** Each is in the model; the
properties above exclude it by name, or their runs by their bounds.

- `usePeerConnection.ts:551`: `activeFileId = null` after `await finishReceive` hits the next file of a queue,
  whose chunks then stay in memory.
- `usePeerConnection.ts:509`: FILE_OFFER takes the error of the file before back, also while the reception of that file still awaits the
  worker: the file with a hole is then handed over with no error shown. With `MaxFaults = 1` and `MaxBroadcasts = 2` TLC
  finds CorruptionReported violated (`SettledInTurn` in FileDiskProofs).
- `usePeerConnection.ts:488`: `deleteTransferRecord` is skipped when a reception ends in an error, so the record of a file with a hole stays;
  sent again, it resumes at the record, the hole stays, and the error is gone (`ResumesIntact` in FileDiskProofs).
- `usePeerConnection.ts:309`: `dc.onclose` leaves the OPFS handle open, so the file cannot be received again before a reload.
- `usePeerConnection.ts:488`: with two receivers the sender starts at 0, while a receiver with a record counts from its offset.
- `usePeerConnection.ts:921`: the buffer of a closed channel never drains, and the loop polls it for ever (`clogged`).
- `useChatSocket.ts:207`: ROOM_CLOSED names no room, so the late end of the room a page left ends the join of the next one
  (`ClosedInTurn` in ChatProofs).
- `useChatSocket.ts:161`: a USER_TYPING of the room a page has left, read after `resetRoomState`, is shown in the next room it
  joins: JOIN_SUCCESS (line 121) does not reset `typingStageNames` (`interrupted`).
- `useChatSocket.ts:108`: the automatic rejoin may meet the page's own name, and ends with NAME_TAKEN.
- `useStreamSession.ts:117`: a camera behind a shared screen is not stopped when the stream ends, and a screen picked
  after the end is captured (both named in `CaptureReleased`).
- `stream.gateway.ts:107-201`: bcrypt overtaken by a disconnect leaves a stream or viewer registered, and one overtaken by the end of the stream
  a page on a dead one (`overtaken`).
- `FileSharePage.tsx:111`: Create stays enabled until its answer; pressed twice, it leaves the socket in two rooms and later a ghost peer in
  the first (`OneRequest` in FileShareProofs).
- `redis.service.ts:52`: a disconnect that overtakes its own join leaves a ghost peer; two handlers at once leave a
  wrong peer count or lose a joiner's entry (`overtaken`, `contended`).
- `usePeerConnection.ts:172`: a release that arrives late reports a finished transfer again, which is counted twice once it has been removed (`retold`).

**Conditions of the passing runs**, each a named constant or disjunct:
`TimelyAccept` (a receiver answers in 150 ms; otherwise chunks are misaligned);
`DrainedReload` in TransferResume (no write waits in the worker when its page is left; otherwise the
record may be ahead of the disk, since it is saved before the write: `RecordBacked` counts the queue);
`SendEnds` excludes a broadcast left paused, a failed write (its lag is never confirmed) and `clogged`
channels. `OneAtATime` in calls: the user does not press Join while Start is unanswered or
the reverse. With `FALSE`, TLC finds RegistryAgrees, NoGhostRoom and CameraReleased violated (a socket
hosts a room it is no longer indexed under; a second camera stream is leaked); EndsForBoth holds.
Pages in `severed` keep showing a call or stream the server has closed, as a new socket gets no news of the old one.

## Fairness

Weak fairness of the event loops: the sender's loop and handlers, the handlers of each receiving
page, its worker, the handlers of each call or stream page and of each server socket, and the end of each bcrypt. Each is a run-to-completion
loop fed by queues the browser or Node serves in turn, and a handler once enabled stays so until it
runs. FileShare has one weak fairness for all its events: they are finitely many once users and faults are done, so this
already makes each of them happen, and it is the weaker assumption. Nothing the user decides is fair (sending, pausing, resuming, reloading, rejoining, starting, joining,
leaving), nor `getUserMedia` (the user may ignore the prompt), a fault, a lost connection, or an expiry timer.

## Proofs

Every theorem holds for all values of the constants that satisfy the named ASSUMEs of the modules, which TLC
evaluates in every run. A theorem with a further condition states it: `ASSUME` for one on constants, `[][A]_vars` for one on
steps. Conditions on steps name what the code does not rule out and what breaks the property when it happens; each is one
of the known problems above. TLC checked each inductive invariant on the small instances before it was proved.

### File transfer: `FileTransferProofs`, `FileDiskProofs`

| Theorem | States | Under |
|---|---|---|
| TypeCorrect, WakeupKept, DepartedCleaned | TypeOK, NoLostWakeup, DepartedPeersCleaned | - |
| BackpressureKept | BackpressureAgreed | `ResetsWhenReleased` |
| ChunksAligned | Aligned | `TimelyAccept`, `OneTarget`, `LookupsInTurn` |
| PrefixWritten, RecordsBacked | DiskIsPrefix, RecordBacked | `Undisturbed`, `OneTarget` |
| IntactDelivered | DeliveredIntact | `Undisturbed`, `OneTarget`, `FinishedInTurn` |
| FailuresReported | CorruptionReported | `TimelyAccept`, `MaxSenderReloads = 0`, `OneTarget`, `SettledInTurn`, `ResumesIntact` |

- *Types and blocking.* `TypeOK` alone is not inductive: `offerFile`, `sendChunk` and `completeFile` use `Head(todo)`, so the
  invariant adds `HasCurrent` (a broadcast under way has a current file). For DepartedPeersCleaned, `LinkInv` says that only
  an open channel carries signals to the sender; otherwise a late WRITE_BACKPRESSURE could put a departed peer back
  among the slow ones.
- *Backpressure.* `AgreesAt(r)`: with no signal under way the sender's and the receiver's view are the same, and otherwise the last
  signal is the receiver's view. It is broken by one line (`usePeerConnection.ts:491`): FILE_OFFER clears
  `writeBackpressureEngaged` and says nothing. `ResetsWhenReleased` excludes just that, so the theorem says that the
  defect of run TransferStuck is the only one of its kind, for any number of files.
- *Chunks.* Sender and receiver never compare their counters; the receiver says once where to start. `DataInv` follows this hand-over:
  the offer under way, the handler that looks up the record, FILE_ACCEPT under way, the sender's own offset. At most one
  of them exists at a time (`OfferIsLast`, `HandlerKnows`, `AcceptKnows`, `SenderKnows`), each knows the file and the place,
  and from then on the queue is a run of consecutive chunks from the receiver's count to the sender's offset (`LoopKnows`). With
  two targets the sender starts at 0 (`OneTarget`), with a late answer too (`TimelyAccept`).
- *Disk.* `DiskInv` has three parts for each page. `SentAt`: the end of a file comes after its chunks, and a page gets chunks
  only while it receives the file. `HandlesAt`: one access handle at a time, opened by an INIT and closed by the CLOSE behind the last
  WRITE, so no write meets a closed handle. `WritesAt`: the waiting writes for a file are consecutive from some `n` to
  some `m`, `n` is not beyond what is on disk, and the record, the start of a handler and the page's count
  are all covered by `m`. The last is what makes resuming at the record sound. `Undisturbed` are the constants of
  run TransferResume: an answer in time, no failed write, no reload of the sender, a receiver left with a drained worker; `LookupsInTurn` follows from it.
- *Delivery.* `IntactInv`: a CLOSE is posted when the writes before it reach the end of the file (`CloseIsWhole`), so a file that was
  closed is complete on disk and in the reply to GET_FILE; without OPFS the page's memory is the prefix it has counted.
  It needs `active[r] = meta[r]` while a file is received, and `finishReceive` of the file before breaks that when it ends
  during the next (`usePeerConnection.ts:551`), hence `FinishedInTurn`: a file is offered when no finishReceive is under way.
- *Failed writes.* `GuardInv` is about runs in which any number of writes fail and pages are left with writes waiting. It keeps `SentAt`,
  `HandlesAt` and `IntactInv`'s order of receptions; in place of `WritesAt` it says where each chunk of a file can be: on disk in
  its place (`OnDisk`), waiting to be written (`ToWrite`), or lost, and then an error is shown or on its way (`Told`). Every chunk the page has
  counted is one of these (`PageCovered`); when the file is closed its writes are over, so none waits (`WorkCovered`, `WritesOver`); and when
  FILE_READY is read no ERROR is left behind it, so `Told` means shown. `Heard`: the page listens for the errors of
  every file that has a write waiting. Two conditions are needed. `SettledInTurn`: a file is offered when the page and its worker are done with the one before, since
  FILE_OFFER takes the error back. `ResumesIntact`: the disk holds what the record claims when a
  transfer resumes, since a record outlives a reception that an error has ended.

### Calls: `CallProofs`

TypeCorrect; RegistryKept, NoGhosts, EndedForBoth, CameraOff for RegistryAgrees, NoGhostRoom, EndsForBoth and
CameraReleased; PromiseKept for the refinement `KeepsPromise`. All but the first assume `OneAtATime`, the hypothesis of the run
(`call.gateway.ts:56`: the second of two requests overwrites the first's index). `CallInv` joins the
maps, each socket (at most one request, a disconnect last and on each old socket in use) and each page (its
camera, its one open question, and what the queue will tell it). The registry is not inductive without the sockets: a
request that arrives for a socket already in a call would make a second entry.

IndicatorsAgree, for TrackStateAgreed, has an invariant of its own on top of CallInv, `TrackInv`. What a page shows of the other comes
through two queues, the other's to the server and its own. `Says(x, queue, out)` is the relation that must hold along both: the page's
indicators change in the end to what the other has on, by the last of the messages that tell it (`Tracks`, `Marks`: TRACK_STATE, and
CALL_JOINED with the room's stored state). `Follows` states it for two pages in a room; `Alone` for a host who waits, whose state the
room will hold once the host's queue has been read, so that CALL_JOINED tells a later guest the truth; `Local` when
a page sends TRACK_STATE at all: not before its answer to Start or Join, and with the state it had when it asked.

### Streams: `StreamProofs`

TypeCorrect, StreamRegistryKept, CaptureEnds, PostsInside, AudienceHears, NoGhosts and ViewersKept, without hypotheses, of the
specification without its fairness (`SafeSpec`). `StreamInv` has the registry with the socket.io rooms (`RegistryInv`), the handlers that await bcrypt
(`HeldInv`: one for a socket, and nobody else is given a stream under creation), the sockets, what a page waits for and captures (`LocalInv`),
its queue (`PageInv`: the end comes last) and who will hear of the end (`ToldInv`). NoGhostStream adds `ServedInv`: a registered socket
is in use, its disconnect is the last thing in its queue, or it was overtaken.

ViewersKept, for ViewersListed, adds `AudienceInv`. `Coming` is the list a page will show once it has read its whole queue; it lies
between the viewers of the stream its socket broadcasts and these with the `kicked` and `overtaken` ones (`ListedInv`), in every state,
so every step of the server is one fact about what it sends and whom it lists (`Sees`), and a page that reads changes nothing. The two
others are about what would break it over several streams and connections: a page that lost the connection of its stream, whose list is
stale, hears no more answers and no end on the new one (`LostInv`), and the news that a viewer left never outlives the stream
(`GoneInv`). `kicked` is needed as nobody tells the page of its own kick, `overtaken` as bcrypt may let a viewer into a stream that is
over, whose broadcaster has started another.

### Chats: `ChatProofs`

TypeCorrect, UniqueNames and KeptRooms without hypotheses: names are unique because `admit` checks
and adds in one step, after the awaits. Served is the half of PresenceAgrees that needs none either. Present, Rosters and TypingKept
(PresenceAgrees, RosterAgrees, TypingShown) hold under
`ClosedInTurn`. `PresenceInv` says of every socket and page which of request, suspended handler, participant and answer there is (one
of them at a time); `RosterInv`, for each name, that the last news about it in the queue is what the server has (`Told`).

TypingKept follows the news of typing through two queues, as IndicatorsAgree does.

- `QueueInv` is about a socket's queue to the server. Who says that it types says more later, or types on (`Followed`); and what it says is
  for the room that it is in (`Aimed`), or will be in once its join has been read (`Towards`), so the server passes on each TYPING and a
  LEAVE_ROOM ends the membership it means.
- `TypingInv` is about a page's queue. Whom it will show typing once it has read everything (`Shown`) is somebody else in its room who
  types or has yet to say otherwise (`TypesIn`).
- `Hears` are the pages of which this is true. A USER_TYPING that lies before a JOIN_SUCCESS is of another room; the page that reads it
  counts as `interrupted`. Without that exception TLC finds TypingShown violated when a page joins twice.

### Statistics: `StatsProofs`

TypeCorrect, PausesLifted and BytesAreCounted, for TypeOK, PauseLifted and BytesCounted, without hypotheses.
`TypeInv` follows the places of both pages: the messages in the channel lead, one file and one chunk at a
time, from where the receiver is to where the sender is (`Track`), so no page counts beyond a file's size. `PauseInv`: the
last report about a file in the queue, or the entry when none is left, says whether the sender is blocked (`Shows`).
`CountInv` is one statement for each page: the reports on their way never go back (`Forward`) from the place `(f, b)`
of the last one handled to where the page is; what has been counted or is being added is at most the bytes of the files
before `f` and `b` of `f`; and the entry, if listed, has `b`. The bytes before a file are a recursive function (`Before`); that it exists is
proved by induction over a set of numbers (`InductiveSet`). `retold`, which BytesCounted excepts, is the known problem of a transfer
reported again after its removal; the theorem says there is no other way to count a byte twice.

### File rooms: `FileShareProofs`

TypeCorrect, without hypotheses: its invariant adds that the handlers, the keys and the requests and answers on their
way name only rooms the server has issued. PeersKept, for PeersAgree, under `OneRequest`: a connection presses Create or Join
once. `RoomsInv` says:

- each socket has at most one join and one removal among the commands in flight (`OneEach`), one request, and its
  disconnect last (`Line`);
- where a socket stands (`Place`): listed in socket.io's room, in the set of peers, under its own key, which of these
  its join or its removal has reached, and nowhere once the removal has passed;
- a room under creation is known to its handler alone (`NewInv`);
- of a room that never had two handlers at work, Redis and the dashboard are what its members say, but for what
  the one handler at work has still to do (`Agree`, `Stage`).

It is about any number of pages, connections and rooms. Keys that expire take the statement away (`lapsed`), as in PeersAgree.
`OneRequest` is not a convenience. With two, a user who presses Create again before the first answer is in two rooms, of which the
server's key `socket:<id>:room` remembers the later, and the disconnect leaves a peer in the other: TLC
finds PeersAgree violated with `MaxStarts = 2`.

### Only model-checked

All liveness (SendEnds, EveryoneServed, CallConnects, RequestAnswered, ViewerConnects, PeersLink): fairness and ENABLED are beyond the prover.
Every invariant of a passing run is stated by a theorem. Folds, and SelectSeq, whose library
definition is recursive, cannot be reasoned about: the properties and the proofs count positions in a queue (`Places`,
`Numbered` in `Queues`) rather than filter it.

## Not modelled

Of file sharing: `sweepStaleTransfers`, REMOVE_FILE at unmount and object URLs; a network that dies without
closing the channel; two pages sending to each other at once; speed, hashing and wording; more than
one ICE candidate for a connection. Of calls and streams: ICE candidates and connection types, the choice of
devices, separate tracks for camera and microphone, hence the stale closures of the call page's two toggles; the list of streams
in the lobby. Of chats: replies, reactions, the text of messages. Of the server: messages that fail
validation, the rate limiters (they refuse a message and change nothing else), the wire log and traffic series of the
statistics, and `useDashboardSocket`, which shows each snapshot as it comes. Emits buffered by socket.io while disconnected
(reconnection is immediate). Components, styling and infrastructure have no protocol state beyond the guards under which the hooks are called.

## Plan

1. *Done:* all of the server's gateways with their pages, the file transfer and the transfer statistics; theorems about every composition;
   the refinement of PrivateCall.
2. Two tracks in the call page; an abstract specification of delivery (a receiver ends with the file or an error).
