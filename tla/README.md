# Specifications of the local recorder

An ESP32-S3 device records speech to an SD card, plays it back, keeps the last
seconds of the microphone ready, holds spoken conversations through a proxy, and on
request copies its recordings to the user's OneDrive and has the proxy transcribe
them. This directory specifies the parts of it whose correctness rests on the order
in which tasks, messages and power losses happen. Paths below are relative to
`src/project/`; `FW` is `firmware/components`, `PX` is `proxy/src/recorder_proxy`.

    tlc -config Outbox.cfg MCProcessingOutbox.tla     one run; PROJECT.json lists all
    tlapm VoicePlaybackProofs.tla                     one proof module

## 1. Inventory

| Component | Source | State | Operations | Hard because of | Correct when |
|---|---|---|---|---|---|
| Recording store | `FW/recorder/storage.c`, `FW/recorder_core/ogg_opus.c` | `.part`, `.meta`, `.ckp`, `.opus` files, the page writer, two checkpoint slots | begin, append, checkpoint, finish, abort, recover at boot | power loss between any two file operations, I/O errors, name collisions | a published file parses and never changes; what a checkpoint secured is recovered |
| Sync outbox | `FW/cloud_sync/processing_outbox.c` | two checksummed slots per `.job` | load, save | torn slot, generation wrap, failing fsync, second account | a save takes effect wholly or not at all; the drive never changes |
| Rolling audio | `FW/rolling_audio/rolling_audio.c` | ring of packets, encoder, worker task, handoff slot | set_enabled, take, release | two tasks, waits that time out, late worker | one owner per encoder; the snapshot is the unbroken recent past |
| Local recorder | `FW/recorder/recording.c`, `recording_codec.cpp` | mode, queue, capture task, worker task | record (with history), play, stop | three tasks and one audio port, errors on either side of the queue | a recording without error holds its history and every frame; a stop ends |
| Voice playback | `PX/sessions.py`, `FW/voice_client/voice_client.c`, `FW/audio_io/audio_io.c` | streams and credit in the proxy, epoch, ring and DMA in the device | start, frames, clear, end, progress, cleared | seven tasks and an interrupt, two channels, interruption at any moment | the account of what was heard is the truth; nothing is refused; answers end |
| Voice client | `FW/voice_client/voice_client.c`, `FW/audio_io/audio_io.c`, `PX/sessions.py`, `PX/app.py` | session, socket, context upload, microphone; the proxy's one slot | start, handshake, capture, stop, cleanup | socket callbacks racing cleanup, one-second waits, deadlines, four parties that may end it | every session ends, nothing of it is left, and its end is explained |
| Voice tools | `PX/voice_tools.py`, `PX/tools.py` | tool calls of a generation | run, cancel, continue | results of an interrupted generation | a result continues only its own generation |
| Cloud Sync | `FW/cloud_sync/cloud_sync.c`, `upload.c`, `processing_client.c`, `processing_stream.c` | worker task, receipts, upload session, stream | start, cancel, drain, upload, process, confirm deletion | lost answers, power loss, two accounts, partial failure | no second copy, no overwrite, receipts tell the truth |
| Recording processor | `PX/processing.py`, `processing_stream.py`, `sidecars.py` | the one running operation, spool file, two sidecars | status, process, cancel | awaits between check and use, cancellation, source that changes | JSON last and only for the same source; the slot is always freed |
| LAN server | `FW/lan_server/lan_server.c` | available, leased | list, download, pause | download against card users | no download while the card is in use by a recording |
| Main loops | `firmware/main/main.c`, `FW/gui/gui_app.c` | screen, last statuses, key | route keys, start and stop modes, pause the LAN | statuses read before they are acted on | one mode at a time; the card has one user; a Back is never lost |
| Identity | `FW/identity/identity.c`, `FW/network/secure_store.c` | state, access and refresh tokens, sign-in task | access, grant, cancel, unlink | refresh and sign-in racing unlink, flash that fails | no token of a severed link is used or kept; what is shown is true |
| Provisioning, network | `FW/provisioning`, `FW/network` | setup window, manager, radio, retry counter | start, stop, expire, answer the companion | two tasks stop, the radio closes late, each step of the start may fail | the radio is open only behind shown credentials; a setup leaves nothing |
| GUI drawing, board, companion, infra | `FW/gui`, `FW/board`, `companion`, `infra` | none of a protocol | | | out of scope: I/O, layout, deployment |

How they interact. The main task calls into everything and blocks in `take` and
`set_enabled(false)`; the rolling worker hands its encoder to it and it moves the
snapshot into a recording or a voice session. Recorder, rolling worker and voice client
share one audio port (`audio_io.c`) and may only use it in turn. The recorder's worker
calls the store; Sync reads what the store published and writes receipts through the
outbox; the proxy learns of a recording only from Sync. Voice playback is one protocol
with an end in each program, so it is one module; the life of a session, its opening and its
end, is another. The main task starts every mode and pauses the LAN server before it uses
the card; setup answers its companion in the Bluetooth task, which reaches into Identity;
Sync and voice ask Identity for tokens.

## 2. Modules

| Module | Models | Composes / implements |
|---|---|---|
| `RecordingArchive` | abstract: secured pages survive, published recordings are final | |
| `RecordingStore` | storage.c, the Ogg writer and repair, the calls of record_worker | implements `RecordingArchive` (`ArchiveSpec`) |
| `RecordingStoreInv`, `RecordingStoreProofs` | inductive invariant; theorems | extend `RecordingStore` |
| `JobReceipt` | abstract: a whole-or-nothing receipt | |
| `ProcessingOutbox`, `ProcessingOutboxProofs` | processing_outbox.c; theorems | implements `JobReceipt` (`ReceiptSpec`) |
| `PlaybackLedger` | abstract: each answer's account is closed once, in order | |
| `VoicePlayback` | playback half of sessions.py, voice_client.c, audio_io.c | implements `PlaybackLedger` (`LedgerSpec`) |
| `VoicePlaybackInv`, `VoicePlaybackProofs` | inductive invariant; theorems | extend `VoicePlayback` |
| `VoiceClient`, `VoiceClientProofs` | how a session is opened and how it comes apart: voice_client.c (conversation, capture, socket task), the port of audio_io.c, handshake and end of sessions.py, the slot of app.py; theorems | beside `VoicePlayback`, which has the audio in between |
| `RollingAudio` | rolling_audio.c; its theorems are in `LocalRecorderProofs` | |
| `LocalRecorder`, `LocalRecorderProofs` | recording.c and the main task's use of it; theorems about both | extends `RollingAudio`: same encoder, snapshot and audio port |
| `RecordingProcessor`, `RecordingProcessorProofs` | processing.py, sidecars.py, cleanup.py and the calls they make of graph.py and speech.py; theorems | |
| `CloudSync`, `CloudSyncProofs` | cloud_sync.c, upload.c, processing_client.c, processing_stream.c; theorems | a receipt follows `JobReceipt` |
| `Identity` | identity.c with the tokens in flash | |
| `DeviceSetup` | provisioning.c, control.c | extends `Identity` |
| `LanServer` | lan_server.c | |
| `DeviceModes`, `DeviceModesProofs` | both main loops (main.c, gui_app.c); theorems, those of `Identity` and `DeviceSetup` too | extends `DeviceSetup` and `LanServer`, implements `Identity` (`IdentitySpec`) |

`MC*` modules only give sets to the constants. Each module lists its mutants beside the
definition they spoil; PROJECT.json says which property notices which.

### Correspondence with the code

**RecordingStore.** A recording is a sequence of pages, a page the packets it holds. `pc`
names the file operation that comes next, so that a crash can fall between any two:
`CreateMeta`, `WriteHeaders`, `CreateJournal`, `Start` are `storage_begin`; `Buffer`,
`Flush`, `FlushFails`, `TooLarge` the page writer; `SyncFile`, `SyncSlot` a checkpoint
(audio first, then the slot `journal_slot % 2`); `WriteLast`, `FinishSync`, `Rename`, `Unlink`
are `storage_finish`; `Repair`, `RepairSync`, `PublishRepaired`, `DropJournal` are
`storage_recover`. `synced` is what the card is known to hold; `Crash` keeps any prefix of
what lies beyond and damages any of it. Directory operations (create, rename, unlink) are
atomic and durable: FAT itself is not modelled.

**ProcessingOutbox.** `SaveFirst`/`SaveNext` choose the slot, `Write` is fwrite and fflush,
`Sync` fsync; a failure or a crash leaves the slot old, new or undecodable. `Newer` is the
C comparison `(int32_t)(a - b) > 0` on a counter of `2 * Half` values.

**VoicePlayback.** `streams`, `retired`, `outbound` are the proxy's; `AudioWriter`,
`DeviceWriter`, `DeviceReader` its tasks, the provider's events `SpeechStarted`,
`ResponseAudio`, ... arrive in any order `sessions.py` accepts. `down` and `up` are the two
directions of the socket. The device's socket task runs `Ws...` in the steps between
which other tasks can run, because `current_epoch`, the ring and the played counter are
separate atomics (`voice_client.c`, `audio_io.c`); `Refill` and `Dma` are the audio task and
the interrupt; `ConvControl`, `ConvSample`, `ConvReport` the conversation task, which reads
the epoch, then the position, then sends.

**RollingAudio.** The worker's `CreateEncoder`, `StartAudio`, `Capture`, `LoopEnds`,
`StopAudio`, `Decide`, `HandOver`, `Finish`, `Leave` follow `worker()`; the main task's `Enable`,
`Disable`, `Take`, ... its callers, with `DisableTimeout` and `TakeTimeout` only when
`Stalls`. One loop of the worker (read, encode, append) is a step: all of it is
under the mutex or private to the worker.

**LocalRecorder.** `CaptureRead`..`CaptureDone` are the capture task; `Begin`, `AppendHistory`,
`Encode`, `LiveEnds`, `Drain`, `Pad`, `FinishRecording`, `PlayEnds`, `LeaveMode`, `Quiet`, `Idle`
the worker, in the order it gives things back; `RecordStart` and `PlayStart` what
the main task does after `rolling_audio_take` and `set_enabled(false)`. Storage calls succeed
or fail here.

**CloudSync.** `w` is the worker task with its locals. A loop head is a pc (`drain`, `scan`),
so is every request under way; a request with the retries of `graph_request` is one step
whose outcome is what the server did *and* whether the answer arrived (`PutMore`, `PutLast`).
The PUT is split (`BeginPut`, then its effect) since a cancellation can fall between. A
save takes effect as in `JobReceipt`, which is what links it to `ProcessingOutbox`. The drive, the
proxy and the user are external: the proxy may go on after the device's connection is
lost, answer 404 for an item that exists, or be busy with someone else. `retry_not_before`
becomes "may be put off in any Sync". Recordings do not appear while Sync runs, because
both main loops refuse to record then; accounts change only between Syncs.

**RecordingProcessor.** A request is a record whose pc stands before the await it comes to
next, with what it has read so far; requests interleave only there, as on one event
loop. `Resolve` to `Reconciled` are `handle` and `reconcile` (JSON looked up before text, text
read before JSON), `OpenSpool` to `Put` are `_process` with its four `_unchanged`, `RemoveSpool` and
`Close` the two `finally`. A text is named by the request that transcribed it, a document by its
text and the version of the source. `Stop` stands for a failed call, a lost client, an expired
token and every time-out; a write it interrupts may be stored later (`LandLate`), after a retry
or after `Restart`. `StopAgain` is a cancellation during the clean-up, which `finish_task` joins.

**VoiceClient.** `call` is where `conversation` stands, from `Allocate` and `Open` over the hello,
the context (`SendChunk`) and `SessionOver` to its clean-up, one step per thing it gives back
(`Quiesce`, `Mute`, `Farewell`, `StopSocket`, `StopAudio`, `FreeSession`, `Leave`); `capture` is
`capture_task`, `ws` the WebSocket client and where its callback is (`Connected`, `Received`,
`StartAudio`, `BecomeReady`, ...). `s` is `voice_session_t`, whose `live` says that it is not yet
freed. `StartSession` and `StopSession` are the calls of the main task. The proxy's `Reads`,
`Connecting`, `Ready`, `Cleanup`, `LastWords`, `Close` are `VoiceSession.run` from the accepted socket to the
freed slot; `Deadlines` and `ProxyTime` its and the device's timeouts, any of which may strike at any
moment. `Break` loses the connection with all that is on its way; a message is
otherwise neither lost nor reordered (TCP).

**Identity.** A token is the number of the link it belongs to, so that a late answer of a severed
link is recognised wherever it lands. `GrantBegin` to `GrantEnd` are `grant_worker` (flash read before
memory, the lock taken only around the poll), `StartGrant`, `SpawnGrant`, `BeginUnlink`, `Unlink` what the
Bluetooth task does, `AccessBegin`, `AccessRefresh`, `AccessAnswer` are `identity_access`, whose request is
made under the lock. A rotated token that flash does not take leaves the old one (`Unsaved`).

**DeviceSetup.** `task` says where the main and the Bluetooth task are; both may be in
`recorder_setup_stop` (`ClaimStop`, `HideSetup`, `CloseSetup`), one of them with the claim. The radio
closes (`RadioCloses`) after the manager was asked to, and posts END; `FailSetup` undoes a start at
whichever of its four steps failed.

**LanServer.** A request passes `Request` (available?), `Lease`, `Check` (still available? - the second
look), `Read`, `Send`, and gives the lease back on every path; a download keeps it from `Lease` to its
last chunk (`Continue`), which stops when the server was paused.

**DeviceModes.** One turn of the loop is `Tick`, `Look` (the statuses), `Key`, `Paused` or `PauseTimeout`
(the pause of the LAN server waits for the lease, and gives up), then `Dispatch`, whose arms are the keys
of the screen it is on. What the loop remembers of the last turn (`previous`, `seen`) is kept apart from
what is true now (`local`, `sync`, `voice`), because the code acts on the former. A mode is
"on", asked to "stop", or "off"; its inner life is in the modules above. `scene` chooses the build
and what the environment does; it never changes.

## 3. Runs

| Run | Question | Bounds |
|---|---|---|
| `StoreRecording` | one name reused through recording, sync and directory errors and three power losses: do secured pages survive, does boot publish them and end, is a padded recording never refused? | 6 frames, history up to 3, pages of 1-2 packets |
| `StoreFaults` | page-write and unlink errors too, and two names of one clock reading on the card at once: do published files parse and stay as they are, is `RecordingArchive` implemented? | 4 frames, one crash, no pre-roll evicted (section 6) |
| `StoreInterruptedRepair`* | documentation: every valid checkpoint is repaired at boot | |
| `Outbox` | is the two-slot file a `JobReceipt`? | generations of 3 bits, so that they wrap; 3 crashes; 2 drives |
| `VoicePlayback` | an answer longer than the credit, a second that overtakes it, an utterance at any moment, limits on streams reached: nothing refused, lost or reordered, the account true, and every answer ends | 2 epochs, the first of 2 frames with credit 1, ring of 1, 2 DMA blocks, 2 turns, 2 streams, 1 retired |
| `VoiceReport`* | protocol text: progress reports what was played | |
| `RollingRaces` | every interleaving of worker and caller, with time-outs that strike | ring of 3 frames and 5 bytes, packets of 1-2 bytes, 3 encoders |
| `RecorderModes` | rolling buffer, recording, playback and stops together | 5 frames, 2 encoders, queue and ring of 2 |
| `CloudSync` | two Syncs by two accounts that share a card | 2 recordings of 2 ranges, one of them too long to transcribe; 2 edits of the drives, 1 crash |
| `RecordingProcessor` | two requests, to process or for a status, of one or of two recordings, interleaved at every await | 2 edits by the user, 1 restart |
| `VoiceClient` | two sessions ended anywhere by the user, the proxy, the provider, a deadline or the connection: is all of it released and its end explained, does each end? | 2 sessions, contexts of 0 to 2 chunks, 1 microphone frame, 2 messages on their way |
| `DeviceModes` | both builds: stale statuses, leases that outlast a pause, two stops of one setup, sign-ins racing unlinks and restarts | three scenes: text and GUI with every mode and LAN clients; text with Sync, setup and a companion that signs in; 1 account of 2 links |

A run marked * is expected to find its property violated (section 6).

Why the bounds are enough. Each limit of the code is reached, not only
approached: the ring wraps and evicts, the page fills by size and by count, the look-ahead
is smaller than a frame as it is in the code (312 of 960), the queue overflows, the stream
and retirement limits are hit, the generation wraps, the retries are exhausted. Two of each
actor or file are present where actors interfere through a shared thing (two drives, two
recordings, two names, two sessions), three where something has to be overtaken twice (encoders).
In `DeviceModes` the main task must always be able to go on, so deadlock is checked there. In the
others it is not: a device or proxy that has used up its bounds, or is idle, may stop, and that
what was begun ends is a liveness property. Two accounts in `DeviceModes` would differ in nothing:
they share only the lock, and theorem `AccountsSafe` covers any number.

What the main properties say:

- *store*: `SecuredSurvives` - a page covered by a completed checkpoint is found by the
  next boot, wherever power fails (`SecuredRecoverable`), and a boot that is done has published
  it (`BootPublishes`); `FinalParses`, `FinalsNeverChange`; `FinishNotRefused` - the padding
  always covers the look-ahead; `ArchiveSpec`; `StoreEnds` - every boot and every recording
  comes to its end.
- *outbox*: `ReceiptSpec`, `DriveKept`.
- *voice playback*: `SessionSurvives` - the device never meets a frame or control it must refuse
  (`DeviceAccepts`), a clear still finds its stream, and the proxy refuses no report except the
  one of `VoiceReport` and a `Forgotten` one (section 6); `AudioAccounted` - what is played is in order,
  and the position the proxy
  closes an answer with is what the speaker played; `LedgerSpec`; `AnswersEnd` - every answer the
  proxy has begun is played to its end or cleared, and a clear is acknowledged.
- *voice client*: `SessionReleased` - when a session is shown as over no task, connection or open
  port is left of it, nothing runs on a freed one, and the context is wiped; `EndExplained` - what
  the device shows agrees with why it ended; `HandshakeAccepted` - the proxy finds the messages it
  awaits, in order, unless the recorder is being stopped; `SessionEnds`.
- *rolling*: `EncoderOnce`, `SnapshotWhole` (no gap or repeat in what is
  taken, and its encoder has seen exactly those frames), `CallsEnd`.
- *recorder*: `ResourcesOwned` - the encoder that travels between tasks has one owner, the port
  one user, and an idle recorder holds nothing; `RecordingWhole` - a recording published without
  error has no gap and lacks no captured frame, and its header fits the encoder (pre-skip);
  `SnapshotFresh` (a snapshot never holds frames from before another use of the microphone),
  `StopEnds`. "No gap" is about frames read: the audio port is closed for a moment between
  history and recording.
- *sync*: `ReceiptHonest` - a receipt names an item that holds the recording, a recording
  called deleted was missing from the drive, a completed one has both sidecars;
  `UploadedOnce` - a recording with a receipt is not uploaded again, and a settled receipt is
  final; `NeverOverwritten`; `SuccessIsComplete` - "OK" means every recording has a receipt of
  this drive; `RangeExpected`, `SyncEnds`.
- *processor*: `ResourcesHeld` - one request processes, and slot and spool are held exactly as long as
  it does; `AnswersTrue` - a JSON sidecar names the text that lies beside it, a text is of the
  bytes the device uploaded, and only the user or a stray write, never a half-done
  request, makes a conflict; `SidecarsKept`; `RequestsEnd`.
- *device*: `UnlinkForgets` - what an unlink severed is in no memory and no flash, and no late
  answer, refresh or restart brings it back; `StatesHonest` - "authorized" has a token, "pending" a
  task; `SetupConfined` - the radio is open only behind shown credentials or a stop under way, and
  a setup that ended or failed leaves nothing; `StopUnderWay` - no stop is lost between the two
  tasks; `ModesExclusive`; `CardExclusive` - no request of the LAN server reads while a mode or the
  main task uses the card; `BackHeard` - a Back that was dealt with reached every mode still on.

### Fairness

- store: WF of a step of recovery (the main task at boot) and of finishing (the record
  worker): a task that is ready is scheduled, and file operations return.
- voice playback: WF of the audio writers (together: one answer is written at a time), the
  device writer and the reader of the proxy, all on one event loop, and of the device's socket
  task, DMA interrupt and conversation task. None for the provider or the user.
- voice client: WF of the conversation, capture and socket tasks, of the proxy's session, and of
  both sides' deadlines together: time passes. None for the user, the provider or a broken connection.
- device: none; its properties are safety.
- processor: WF of each request: one event loop runs every task, and every wait of a
  request (HTTP call, disk thread) has a time-out or ends. None for the user, restarts and `Stop`.
- rolling: WF of the worker and of the main task's waits. `Stalls` covers the worker that
  takes longer than a wait, not one that never runs.
- recorder: WF of capture task, worker, rolling worker and waits; `audio_read` and
  `audio_write` return within 200 ms and a played file ends. None for pressing keys.
- sync: WF of the worker: every HTTPS call has a deadline and the stream ends after 30 s
  without a message. A stream that is kept alive by heartbeats lasts as long as the
  proxy's operation, whose own stall timeouts end it; that is assumed.

## 4. Proofs

The theorems hold for every value of the constants that satisfies the module's
assumption; there are no bounds on files, drives, frames or crashes in them.

- `RecordingStoreProofs`: `InvHolds`, that `IInv` of `RecordingStoreInv` is inductive, whatever I/O
  fails and wherever power is lost. Its parts build on one another. `Ownership` says which step owns
  which name, and that what is renamed is wholly synced; `Control`, that only what left a file behind
  carries a promise; `Journal`, that every slot points at synced pages and that the slot which is not
  being written carries the last checkpoint (the point of having two); `Writer` relates the counters of
  the page writer to the pages it wrote, since `finish` decides by the counters alone; `Publishable`, that
  what is about to be renamed parses to its end; `Recoverable`, that what a slot covers is clean audio until
  a repair begins on it, and that the boot passes by no file that secured any. From it: `FinalsSafe`
  (`FinalsNeverChange`), `FinishAccepted` (`FinishNotRefused`), `FinalsParse` (`FinalParses`),
  `SecuredSafe` (`SecuredSurvives`) and `ArchiveImplemented` (the refinement of `RecordingArchive`).
  Two need a condition, because the code does not have the property without it. `FinalsParse` and the
  refinement assume `Trusted`: page writes do not fail, or every header carries the look-ahead; otherwise
  the first observation of section 6 applies. `SecuredSafe` assumes that page writes do not
  fail: a page that is half written leaves the file off its page boundary, and what a later slot covers need
  not parse. Both kinds of runs exist: `StoreRecording` and `StoreFaults`.
- `ProcessingOutboxProofs`: `SlotsHold`. `SlotsOK` says the slots are one generation apart (so that
  the wrapping comparison orders them), belong to one drive, and that a save under
  way writes the one that is not the receipt. Without "one apart" the comparison could not be
  shown to select the newer slot, so it is the heart of the induction. `DriveSafe` and
  `ReceiptHolds` (the refinement of `JobReceipt`, step by step) follow from it.
- `LocalRecorderProofs`, first half, of the buffer alone: `HoldingHolds` - for every pair of program counters, who may hold an
  encoder, and every encoder is either held once or destroyed once; `EncodersSafe` (`EncoderOnce`)
  follows. `SnapshotsWhole` (`SnapshotWhole`) rests on `Course`: `Laid`, that the packets lie one behind the
  other from the head and that each byte of the ring still belongs to the frame whose packet covers
  it; `Turn`, what the worker and the main task have in hand at each of their steps; `Encoded`, that an
  encoder has seen exactly the frames that were read while it ran. What eviction frees is a sum over
  the packets it drops (`SumIs`). `SnapshotsFresh` (`SnapshotFresh`) adds `Recent`, and assumes `~Stalls`, since the
  code does not clear the ring of a worker that came more than a second late (section 5). The lemmas
  allow for an encoder owned beside the buffer (`Owned(x)`), so that the recorder reuses them.
- `LocalRecorderProofs`, second half: `RecorderInv` is `Beside`, what the theorems above say of the buffer when the
  recorder owns one encoder more, and `Recorder`: `Modes` and `Ports` (which task may run, and who has the
  port, in each mode), `Kit` (what the worker has not yet given back), `Story` (as long as nothing failed,
  the file, the queue and the capture task together hold every frame since the first one: `Numbered`,
  `Delivered`, and a header that fits, `Headed`) and `Done` (what was published is whole). From it `ResourcesSafe`
  (`ResourcesOwned`), `RecordingsWhole` (`RecordingWhole`), and, again with `~Stalls`, `RecorderFresh`: `SnapshotFresh`
  in the composed system, where playback and recording use the microphone in between.
- `VoicePlaybackProofs`: `AudioSafe` (`AudioAccounted`) and `LedgerSafe`, the refinement of `PlaybackLedger` step
  by step, for any number of answers, any ring, credit and DMA queue, from `VoiceInv` (`VoicePlaybackInv`). Its `DeviceOK` says what
  the WebSocket task believes of the ring, and where it stands between two of its steps; `ReportsOK`, that
  what a report on its way says was heard by then, and that the position in an acknowledgment is final:
  its epoch is `Dead`, flushed out of the ring and never to be taken again. `AccountsOK` is about both programs
  at once. It rests on `NoMore(e, k)`: nothing of the proxy's queue, of the socket, of the ring or of the
  DMA queue belongs to `e` and lies beyond its frame `k`. An open account has `NoMore` of what it produced;
  a closed one is right for ever because its epoch is `Dead`, or because there is `NoMore` than was heard. For
  the refinement, a DMA block can then be a frame of an open account only (`DmaPlays`), and every other
  step closes accounts at what was heard or leaves all of them alone (`Positions`, `StayCloses`).
  `SurvivesSafe` (`SessionSurvives`) is the third: no side refuses what the other sends, but for the two reports
  the property names. Its invariant `SurvInv` adds `Running`, which holds while the session goes on and says of
  every message on its way why the other side will take it:
  - *to the recorder.* `Wire` is what the socket holds followed by what the proxy has queued. `Order`: epochs never
    go back, and every message is for the answer the recorder will be at or follows the `start` of its own.
    `FramesOK`: frames follow each other without a gap, where the proxy has not cleared their answer. `Credits`:
    what was sent is at most `Credit` beyond what was reported, and nothing else is in the socket, the ring or
    the DMA queue. `Handed`: a `clear` is on its way, or answered, as long as its answer waits for it, and no `start`
    stands before the clears of earlier answers. So the recorder takes every message (`Delivered`) and the writer finds
    the stream of every clear;
  - *to the proxy.* `ToldOrder`: of two reports that say something was heard, the later says no less, across the
    two ways (WebSocket task and conversation) they leave the recorder by; an acknowledgment is the last word on its
    answer. `AskedOK`, `AckedOK`: acknowledgments come from a clear that was sent and are read once.
    `Began`, `Passed`, `BehindOK`: when an answer begins at the recorder every earlier one is settled or
    acknowledged, and nothing was heard of a later one. Hence `ReportsFit`: a report fits the open account it
    meets, or the position that account was closed at. `MemoryOK` says what the proxy still remembers of a closed
    answer which the recorder may repeat: its position, or it was pushed out by later answers of which nothing was
    heard. What is left to refuse is the overtaken zero and the `Forgotten` report (`RefusedStale`).
  The parts need each other (an order of reports needs the order of clears, which needs the order of starts), so they
  are one induction, `RunningNext`, with one lemma per part (`OrderNext`, `CreditsNext`, ..., `MemoryNext`).
  Most steps of either side send nothing new and at most take something out of the middle of the wire: `Thin` and
  `Kin` say that once, and each part is shown to survive any such step.
- `CloudSyncProofs`: `SyncInvariant`. Its `Ledger` is what is true of card and drive: `ReceiptHonest`, and
  `DriveTrue`, that what looks like a recording came from an upload and what was uploaded is there or
  was removed by the user; the deletion check relies on the second half. Its `Desk` is what the
  worker knows at each place: `Hand` (no receipt yet while it uploads, the pending receipt itself while it
  processes, a job that is already true when it saves) and `Scanned` (behind the scan every recording has a
  receipt of the drive). `Counted` bounds the numbers of items by the edits and Syncs that made them.
  The state properties are `ReceiptsTrue` (`ReceiptHonest`), `RangesSafe` (`RangeExpected`) and `SyncTypeCorrect`; the
  action properties `SuccessSafe` (`SuccessIsComplete`), `UploadsSafe` (`UploadedOnce`) and `DriveSafe`
  (`NeverOverwritten`) follow from the invariant and from who may change receipts, uploads and items
  (`ReceiptsChange`, `UploadsChange`, `RemoteChanges`).
- `RecordingProcessorProofs`: `TypeCorrect`, `ResourcesSafe` (`ResourcesHeld`) and `SidecarsSafe`
  (`SidecarsKept`). `Sound` says what a request knows at each of its awaits (which text, which
  version, whether it still has a spool file), `Unbegun` that numbers not yet given away
  are idle, `Edited` bounds versions. `MovedServes` carries the slot through every step that only moves one
  request, so that only `Begin`, `Close` and `Restart` need an argument about the slot.
  `AnswersSafe` (`AnswersTrue`) needs `Truth` on top of it: `Beheld`, that a text on the drive or on its way was made
  from the version it is named after and a JSON belongs to the text beside it unless somebody touched
  the recording, and `Knows`, what each request may conclude from what it read at its earlier awaits.
- `DeviceModesProofs`: of Identity alone, `IdentitySafe` (`UnlinkForgets`, `StatesHonest`). `IdentityInv` adds
  what each task knows: `GrantOwned` (a sign-in under way has the link it began with, or was
  cancelled), `ControlOwned` and `LockOwned` (an unlink cancels before it takes the lock, and clears
  under it). That cancellation comes before the lock is the heart of it: a poll that holds the lock
  answers before the unlink clears, one that does not finds itself cancelled. Of the device,
  `SetupSafe` (`SetupConfined`) and `StopSafe` (`StopUnderWay`) from `SetupInv`, which says for each place of the
  main and the Bluetooth task what of a setup exists (`StartingWhole`, `StoppingWhole`, `ActiveWhole`).
  `ModesSafe` (`ModesExclusive`) and `CardKept` (`CardExclusive`) from `ModesInv`: a status read as off is still off
  unless this task started the mode (`SeenTrue`), a lease belongs to the request that reads
  (`LeaseTrue`), and the server stays shut (`ShutOut`) while a mode is on, was seen on, the catalog is
  shown, or a key that uses the card is in hand. `BackSafe` is an action property from both.
  `AccountsAreIdentity` shows step by step that the composed device implements `IdentitySpec`;
  `AccountsSafe` then is `IdentitySafe`, proved once.
- `VoiceClientProofs`: `ReleasedSafe` (`SessionReleased`), `ExplainedSafe` (`EndExplained`) and
  `HandshakeSafe` (`HandshakeAccepted`), from three invariants, each on top of the last. `ReleaseInv`
  is about the recorder alone: for each place of the conversation task, what of the session there is,
  and that neither capture nor socket task runs past it. `EndInv` follows the proxy's words down:
  an error is sent before the stop on one connection in order, so whoever took a stop without an
  error was sent none. `HandInv` follows the recorder's words up: what is on the way together with what is
  left to send is what the handshake waits for, unless the recorder is leaving.

The invariants that are proved with these (`IInv`, `SlotsOK`, `Course`, `RecorderInv`, `SyncInv`, `IdentityInv`,
`VoiceInv`, `SetupInv`, `ModesInv`, `ReleaseInv`, ...) are not repeated in the runs, since the listed properties are their
consequences. Each was checked by TLC on its run's constants before it was proved;
`MCRecordingStore` extends `RecordingStoreInv` and `MCVoicePlayback` extends `VoicePlaybackInv`, so
`INVARIANT IInv` can still be added to `StoreRecording.cfg`, and `SurvInv` to `VoicePlayback.cfg`.

The library's induction theorems cannot be used with these provers. Where an argument is by
induction over numbers (what an eviction frees, the last packet before a point; the order of a finite
set of epochs, `OrderExists`), `LocalRecorderProofs` and `VoicePlaybackProofs` derive it from the least element of
a set of naturals (`LeastNatural`), which is first-order.

Every invariant and every action property of the runs is proved. Only model-checked: all liveness, which the prover
cannot do. `SnapshotFresh` is claimed, by the runs and by the theorems alike, only without `Stalls`.

## 5. What is not modelled

- FAT directory updates, a `readdir` that fails half-way, the catalogue and info readers.
- libopus, and a look-ahead of a frame or more.
- Voice: one frame per DMA block, no pacing, no tools; the outbound queue has no limit; timeouts
  and stops are in `VoiceClient` only, and frames of audio in `VoicePlayback` only. Fragments of a
  message (`ws_event`) and the JSON of a control. That the capture task ends within the second the
  clean-up waits is assumed: a read of the microphone returns within 200 ms.
- Rolling audio: `rolling_snapshot_ogg` and the status. With `Stalls`, a `set_enabled(false)` that
  gave up leaves a ring which the next enable does not clear (`rolling_audio.c:153`);
  it takes a worker more than a second late, so `SnapshotFresh` is checked without.
- Sync: the socket task's callbacks and fragments (planned), wall-clock times, progress
  numbers, a recording the user replaces on the card. Sync stops at the first recording it
  cannot handle, so one unreadable or foreign receipt keeps those behind it waiting
  (`cloud_sync.c:321`); this is documented, and no property demands otherwise.
- Recording processor: a recording that is renamed or moved (its sidecars then have other
  names), the validation of the Opus file, an unlink of the spool that fails, the frames of
  the stream, and that an Azure token or a Graph page may take several requests.
- Identity: the HTTP requests and their JSON, the lifetime of an access token in seconds.
- Setup: Wi-Fi and proxy credentials, proof of possession, the JSON of the requests. A request is
  answered in one step; the network's reconnect counter, TLS and the endpoint wrap ESP-IDF.
- LAN server: HTTP text, ranges and MIME types, which change no state.
- Main loops: the selection within a page, painting, the health of card and audio. In the GUI
  build the Bluetooth task clears the setup screen, and so paints, while the main task may be
  painting (`gui_screens.c`); that is a data race on a frame buffer, not on a state of this model.
  Rolling audio's part of the loop is in `LocalRecorder`. Liveness of the composition is not checked.
- Voice tools, Sync status texts, GUI drawing, board, companion, infrastructure: see PROJECT.json.

## 6. Findings

1. `StoreInterruptedRepair`: power lost between the in-place end-of-stream mark and the
   rename leaves a `.part` that later boots reject (`ogg_opus.c:309`), although
   `firmware/README.md:260` says valid checkpoints are repaired.
2. `VoiceReport`: a progress report of 0 can be sent for an epoch that was heard, between
   the flush and the withdrawal of the epoch (`voice_client.c:480`); the proxy ends the session.

Met while modelling, without a run:

- The proxy remembers the positions of four closed answers (`sessions.py:337`), and the recorder repeats the
  report of the one it played last until another starts. After four later answers that were each interrupted
  before they started, that report is refused and the session ends, although `protocols/voice-v1.md:75` asks
  for one every 100 ms. `SessionSurvives` names this exception (`Forgotten`). It was met while its
  invariant was being stated for the proof; with one remembered position it takes three utterances:
  `VoicePlayback` with `MaxTurns = 3` and `SPECIFICATION Spec` reaches it in 983195 states.
- After a failed page write the recording can still be published with a damaged page when
  the pre-roll was evicted (`recording.c:166`), although a comment at `storage.c:195` says a failed one
  stays a `.part`: nothing then refuses the finish. `StoreFaults` therefore keeps to recordings whose
  header carries the encoder's look-ahead (`FreshHeader`), in which `FinalParses` holds with
  failing writes; `StoreRecording` has both headers, without failing page writes.
- A user's stop during the context upload, or before the hello, ends on the proxy as
  `protocol_error` (`protocols/voice-v2.md:41`): `HandshakeAccepted` therefore exempts a stopping recorder.
- A stop whose farewell cannot be sent is shown to the user as an error.
- A `setup.finish` that arrives between `provisioning.c:125` and `:128` is acknowledged and ignored.
- A sign-in cancelled by the main task between `identity.c:219` and `:224` goes on; only unlink's cancel,
  which comes from the task that starts sign-ins, cannot be lost.
- The state of a refused poll is set after the lock was released (`identity.c:186`).
- `protocols/ble-v1.md:25` says that `auth.unlink` erases account-bound Sync state; the code erases the
  credentials in NVS only. Receipts name their drive, so another account does not use them
  (`CloudSync`, two accounts).
- When setup has ended by itself the GUI build stays on its setup page until a key.

## 7. Plan

Done, in this order: `RecordingStore`, `ProcessingOutbox`, `VoicePlayback`, `RollingAudio`,
`LocalRecorder`, `CloudSync`, `RecordingProcessor`, `Identity`, `DeviceSetup`, `LanServer`,
`DeviceModes`, `VoiceClient`. Next:

1. An abstract `Transcript` (absent, text saved, complete, for one version of the recording)
   that `RecordingProcessor` implements and the external proxy of `CloudSync` follows.
2. `ProcessingStream`: run loop against socket callbacks, the `uncertain` verdict.
3. Voice tools: generations and continuation.
4. Liveness of `DeviceModes`: a pause that gives up is tried again, a setup ends.

Runs stay one per question; where two asked the same of different bounds, they were made one.

Proofs: that `ProcessingOutbox` and `CloudSync` meet at `JobReceipt` (a save of the worker is one of its steps),
and the theorems of the modules above.
