----------------------------- MODULE LocalRecorder -----------------------------
(***************************************************************************)
(* Recording and playback on the device, components/recorder/recording.c,  *)
(* over the rolling buffer it takes its first seconds from: the resident   *)
(* capture task, the worker of a recording or a playback, and the main     *)
(* task that starts and stops them and switches the rolling buffer.  What  *)
(* all of them share is the audio port of audio_io.c.                      *)
(*                                                                         *)
(* The card behind the storage calls is RecordingStore; here each call     *)
(* succeeds or fails.                                                      *)
(***************************************************************************)
EXTENDS RollingAudio

CONSTANTS
  QueueFrames,  \* CAPTURE_FRAMES
  CardFails     \* storage calls may fail

ASSUME RecorderAssumption == QueueFrames \in Nat \ {0} /\ CardFails \in BOOLEAN

VARIABLES
  mode, stop_requested, capture_done, error_code,
  queue,
  pre_roll,  \* frames of the history still to be appended
  encoder,   \* the encoder of the recording, 0 for NULL
  capture,   \* the capture task
  task,      \* the worker of recording.c
  port,      \* who has the audio port: rx_on, tx_on
  file,      \* the recording's file
  captured   \* history: the frames read since the recording began

control == <<mode, stop_requested, capture_done, error_code>>
tasks == <<capture, task>>
recorder == <<control, queue, pre_roll, encoder, tasks, port, file, captured>>
allVars == <<vars, recorder>>

\* The frame of a recording in which nothing was captured.
Silence == 0
NoFile == [state |-> "none", clean |-> FALSE, pre_skip |-> 0, history |-> <<>>,
           live |-> <<>>, padded |-> FALSE]

RecorderTypeOK ==
  /\ TypeOK
  /\ mode \in {"idle", "record", "play", "stopping"}
  /\ stop_requested \in BOOLEAN /\ capture_done \in BOOLEAN /\ error_code \in BOOLEAN
  /\ queue \in Seq(Frame) /\ Len(queue) <= QueueFrames
  /\ pre_roll \in Seq(Frame) /\ encoder \in 0..MaxEncoders
  /\ capture \in {"parked", "loop", "stop", "done"}
  /\ task \in {"none", "begin", "history", "live", "drain", "pad", "finish", "play",
               "leave", "quiet", "idle"}
  /\ port \in {"off", "rolling", "record", "play"}
  /\ file \in [state : {"none", "open", "published", "part"}, clean : BOOLEAN, pre_skip : {0, Skip},
               history : Seq(Frame), live : Seq(Frame \cup {Silence}), padded : BOOLEAN]
  /\ captured \in Seq(Frame)

\* fail: the error is kept and everybody stops.
Fail == error_code' = TRUE /\ stop_requested' = TRUE
NoFail == UNCHANGED <<error_code, stop_requested>>

\* An encoder encodes frame n.
Encodes(e, n) == first' = [first EXCEPT ![e] = IF @ = 0 THEN n ELSE @]

-------------------------------------------------------------------------------
(***************************************************************************)
(* The main task: local_record_start_with_preroll, local_play_start and    *)
(* local_stop.                                                             *)
(***************************************************************************)

\* start, from its resets to the new worker: the microphone or the speaker may
\* refuse, or the worker may not be created.
Started(next) ==
  /\ stop_requested' = FALSE /\ capture_done' = FALSE /\ error_code' = FALSE
  /\ queue' = <<>>
  /\ port = "off" /\ port' = next
  /\ mode' = next /\ task' = "begin"
NotStarted ==
  /\ port # "off" \/ Faults # {}
  /\ stop_requested' = FALSE /\ capture_done' = FALSE /\ error_code' = FALSE
  /\ queue' = <<>>
  /\ UNCHANGED <<mode, task, port>>

HistoryFrames == [i \in DOMAIN snapshot.packets |-> snapshot.packets[i][1][1]]

PreSkip ==
  IF snapshot.packets # <<>> THEN snapshot.pre_skip
  ELSE IF snapshot.encoder # 0 THEN snapshot.encoder_pre_skip ELSE Skip

\* The snapshot is moved out of the caller's, who releases an empty one.
Moved == snapshot' = NoSnapshot

\* The encoder the recording will use: the rolling buffer's, or a new one.
RecordEncoder == IF snapshot.encoder # 0 THEN snapshot.encoder ELSE made + 1

RecordStart ==
  /\ main = "holding" /\ mode = "idle" /\ RecordEncoder \in Encoder
  /\ Moved
  /\ made' = IF snapshot.encoder # 0 THEN made ELSE made + 1
  /\ \/ /\ Started("record")
        /\ encoder' = RecordEncoder
        /\ pre_roll' = HistoryFrames
        /\ file' = [NoFile EXCEPT !.state = "open", !.pre_skip = PreSkip]
        /\ captured' = <<>>
        /\ UNCHANGED freed
     \/ /\ NotStarted \/ (CardFails /\ UNCHANGED <<control, queue, task, port>>)
        /\ freed' = Destroyed(RecordEncoder)
        /\ UNCHANGED <<encoder, pre_roll, file, captured>>
  /\ main' = "idle"
  /\ UNCHANGED <<ring, flags, slot, worker, mic, first, paused, capture>>

\* No encoder, neither handed over nor created.
RecordNoEncoder ==
  /\ main = "holding" /\ mode = "idle"
  /\ snapshot.encoder = 0 /\ "memory" \in Faults
  /\ Moved
  /\ main' = "idle"
  /\ UNCHANGED <<ring, flags, slot, worker, history, recorder>>

\* After rolling_audio_set_enabled(false), whatever it returned.
PlayStart ==
  /\ main = "idle" /\ mode = "idle" /\ ~enabled /\ (active => Stalls)
  /\ Started("play") \/ NotStarted
  /\ UNCHANGED <<vars, pre_roll, encoder, capture, file, captured>>

LocalStop ==
  /\ main = "idle" /\ mode # "idle" /\ ~stop_requested
  /\ stop_requested' = TRUE
  /\ UNCHANGED <<vars, mode, capture_done, error_code, queue, pre_roll, encoder, tasks,
                 port, file, captured>>

-------------------------------------------------------------------------------
(***************************************************************************)
(* The capture task.                                                       *)
(***************************************************************************)

CaptureRead ==
  /\ capture = "loop" /\ ~stop_requested /\ mic < MaxMic
  /\ mic' = mic + 1
  /\ captured' = Append(captured, mic + 1)
  /\ IF Len(queue) < QueueFrames
     THEN queue' = Append(queue, mic + 1) /\ NoFail /\ UNCHANGED capture
     ELSE Fail /\ capture' = "stop" /\ UNCHANGED queue
  /\ UNCHANGED <<ring, flags, slot, worker, main, snapshot, made, first, freed, paused,
                 mode, capture_done, pre_roll, encoder, task, port, file>>

\* A stop, or a read that fails or finds an overrun.
CaptureEnds ==
  /\ capture = "loop"
  /\ IF stop_requested THEN NoFail ELSE "audio" \in Faults /\ Fail
  /\ capture' = "stop"
  /\ UNCHANGED <<vars, mode, capture_done, queue, pre_roll, encoder, task, port, file,
                 captured>>

CaptureStop ==
  /\ capture = "stop"
  /\ port' = "off"
  /\ UNCHANGED error_code \/ ("audio" \in Faults /\ error_code' = TRUE)
  /\ capture' = "done"
  /\ UNCHANGED <<vars, mode, stop_requested, capture_done, queue, pre_roll, encoder, task,
                 file, captured>>

\* Mutant: a failed capture does not say that it is done.
CaptureDoneUnlessFailed ==
  /\ capture = "done"
  /\ capture_done' = ~error_code
  /\ capture' = "parked"
  /\ UNCHANGED <<vars, mode, stop_requested, error_code, queue, pre_roll, encoder, task,
                 port, file, captured>>

CaptureDone ==
  /\ capture = "done"
  /\ capture_done' = TRUE
  /\ capture' = "parked"
  /\ UNCHANGED <<vars, mode, stop_requested, error_code, queue, pre_roll, encoder, task,
                 port, file, captured>>

CaptureTask == CaptureRead \/ CaptureEnds \/ CaptureStop \/ CaptureDone

-------------------------------------------------------------------------------
(***************************************************************************)
(* The worker: record_worker, play_worker and what follows both.           *)
(***************************************************************************)

\* A recording wakes the capture task.
Begin ==
  /\ task = "begin"
  /\ IF mode = "record" THEN task' = "history" /\ capture' = "loop"
     ELSE task' = "play" /\ UNCHANGED capture
  /\ UNCHANGED <<vars, control, queue, pre_roll, encoder, port, file, captured>>

\* The history is appended, up to the packet that fails; it is freed either way.
AppendHistory ==
  /\ task = "history"
  /\ \E k \in 0..Len(pre_roll) :
       /\ file' = [file EXCEPT !.history = SubSeq(pre_roll, 1, k)]
       /\ \/ k = Len(pre_roll) /\ NoFail
          \/ CardFails /\ pre_roll # <<>> /\ Fail
  /\ pre_roll' = <<>>
  /\ task' = "live"
  /\ UNCHANGED <<vars, mode, capture_done, queue, encoder, capture, port, captured>>

\* One frame of the queue is encoded and appended, or that fails.
Encode ==
  /\ task = "live" /\ queue # <<>>
  /\ queue' = Tail(queue)
  /\ \/ /\ file' = [file EXCEPT !.live = Append(@, Head(queue))]
        /\ Encodes(encoder, Head(queue))
        /\ NoFail /\ UNCHANGED task
     \/ CardFails /\ Fail /\ task' = "drain" /\ UNCHANGED <<file, first>>
  /\ UNCHANGED <<ring, flags, slot, worker, main, snapshot, mic, made, freed, paused, mode,
                 capture_done, pre_roll, encoder, capture, port, captured>>

\* Mutant: the loop looks at the stop, not at the end of the capture.
LiveEndsAtStop ==
  /\ task = "live" /\ stop_requested /\ queue = <<>>
  /\ task' = "pad"
  /\ UNCHANGED <<vars, control, queue, pre_roll, encoder, capture, port, file, captured>>

LiveEnds ==
  /\ task = "live" /\ capture_done /\ queue = <<>>
  /\ task' = "pad"
  /\ UNCHANGED <<vars, control, queue, pre_roll, encoder, capture, port, file, captured>>

Drain ==
  /\ task = "drain" /\ capture_done
  /\ queue' = <<>>
  /\ task' = "pad"
  /\ UNCHANGED <<vars, control, pre_roll, encoder, capture, port, file, captured>>

\* Without an error a recording has at least one frame, and its look-ahead.
Pad ==
  /\ task = "pad"
  /\ IF error_code THEN NoFail /\ UNCHANGED <<file, first>>
     ELSE \/ /\ file' = [file EXCEPT !.padded = TRUE,
                                     !.live = IF @ = <<>> THEN <<Silence>> ELSE @]
             /\ NoFail /\ UNCHANGED first
          \/ CardFails /\ Fail /\ UNCHANGED <<file, first>>
  /\ task' = "finish"
  /\ UNCHANGED <<ring, flags, slot, worker, main, snapshot, mic, made, freed, paused, mode,
                 capture_done, queue, pre_roll, encoder, capture, port, captured>>

\* storage_finish publishes the recording or leaves its .part; a recording with
\* an error may end either way.
FinishRecording ==
  /\ task = "finish"
  /\ \/ /\ file' = [file EXCEPT !.state = "published", !.clean = ~error_code]
        /\ NoFail
     \/ CardFails /\ file' = [file EXCEPT !.state = "part"] /\ Fail
  /\ freed' = Destroyed(encoder)
  /\ encoder' = 0
  /\ task' = "leave"
  /\ UNCHANGED <<ring, flags, slot, worker, main, snapshot, mic, made, first, paused, mode,
                 capture_done, queue, pre_roll, capture, port, captured>>

\* The end of the file, a stop, or an error.
PlayEnds ==
  /\ task = "play"
  /\ NoFail \/ ((CardFails \/ Faults # {}) /\ Fail)
  /\ task' = "leave"
  /\ UNCHANGED <<vars, mode, capture_done, queue, pre_roll, encoder, capture, port, file,
                 captured>>

\* Mutant: the mode is given up before the port.
LeaveModeAtOnce ==
  /\ task = "leave"
  /\ mode' = "idle"
  /\ task' = "quiet"
  /\ UNCHANGED <<vars, stop_requested, capture_done, error_code, queue, pre_roll, encoder,
                 capture, port, file, captured>>

LeaveMode ==
  /\ task = "leave"
  /\ mode' = "stopping"
  /\ task' = "quiet"
  /\ UNCHANGED <<vars, stop_requested, capture_done, error_code, queue, pre_roll, encoder,
                 capture, port, file, captured>>

Quiet ==
  /\ task = "quiet"
  /\ port' = "off"
  /\ NoFail \/ ("audio" \in Faults /\ Fail)
  /\ task' = "idle"
  /\ UNCHANGED <<vars, mode, capture_done, queue, pre_roll, encoder, capture, file, captured>>

\* Under status_lock, as every reader of the mode is.
Idle ==
  /\ task = "idle"
  /\ mode' = "idle" /\ pre_roll' = <<>>
  /\ task' = "none"
  /\ UNCHANGED <<vars, stop_requested, capture_done, error_code, queue, encoder, capture,
                 port, file, captured>>

RecordWorker == Begin \/ AppendHistory \/ Encode \/ LiveEnds \/ Drain \/ Pad
                \/ FinishRecording \/ PlayEnds \/ LeaveMode \/ Quiet \/ Idle
-------------------------------------------------------------------------------
(***************************************************************************)
(* The rolling buffer beside it: the main task switches it on, or takes    *)
(* from it, only when it has read an idle mode; its worker shares the port.*)
(***************************************************************************)

RollingMain ==
  /\ \/ mode = "idle" /\ (Enable \/ Take)
     \/ Disable \/ Disabled \/ DisableTimeout \/ TakeStop \/ Taken \/ TakenNoMemory
     \/ TakeTimeout \/ Drained \/ Release
  /\ UNCHANGED recorder

RollingWorker ==
  \/ /\ CreateEncoder \/ Capture \/ LoopEnds \/ Decide \/ HandOver \/ Finish \/ Leave
     /\ UNCHANGED recorder
  \/ /\ StartAudio
     /\ IF worker'.pc = "loop" THEN port = "off" /\ port' = "rolling" ELSE UNCHANGED port
     /\ UNCHANGED <<control, queue, pre_roll, encoder, tasks, file, captured>>
  \/ /\ StopAudio
     /\ port' = "off"
     /\ UNCHANGED <<control, queue, pre_roll, encoder, tasks, file, captured>>

RecorderMain == RecordStart \/ RecordNoEncoder \/ PlayStart \/ LocalStop

RecorderInit ==
  /\ Init
  /\ mode = "idle"
  /\ stop_requested = FALSE /\ capture_done = FALSE /\ error_code = FALSE
  /\ queue = <<>> /\ pre_roll = <<>> /\ encoder = 0
  /\ capture = "parked" /\ task = "none" /\ port = "off"
  /\ file = NoFile /\ captured = <<>>

RecorderNext ==
  RollingMain \/ RollingWorker \/ RecorderMain \/ CaptureTask \/ RecordWorker

RecorderSpec == RecorderInit /\ [][RecorderNext]_allVars

\* Fairness.  The scheduler runs the three tasks; audio_read and audio_write
\* return within 200 ms and a file that is played has an end.
RecorderFairSpec ==
  /\ RecorderSpec
  /\ WF_allVars(CaptureTask) /\ WF_allVars(RecordWorker) /\ WF_allVars(RollingWorker)
  /\ WF_allVars(Waits /\ UNCHANGED recorder)

-------------------------------------------------------------------------------
(***************************************************************************)
(* Properties.                                                             *)
(***************************************************************************)

\* Over the whole device every encoder has one owner, or was destroyed once: the
\* rolling worker, the handoff slot, the snapshot or the recording, through
\* the handover of recording.c:290-301 and every failed start.
EncoderOwned ==
  /\ \A e \in 1..made :
       freed[e] = IF e \in {worker.encoder, slot, snapshot.encoder, encoder} THEN 0 ELSE 1
  /\ encoder # 0 => encoder \notin {worker.encoder, slot, snapshot.encoder}

\* While a task reads the microphone or feeds the speaker nobody else has started
\* or stopped the port: the rolling worker, the capture task, the playback.
PortHeld ==
  /\ worker.pc \in {"loop", "stop"} => port = "rolling"
  /\ capture \in {"loop", "stop"} => port = "record"
  /\ task = "play" => port = "play"

\* An idle recorder is ready for the next start, of it or of the rolling buffer.
IdleIsReady ==
  mode = "idle" => /\ capture = "parked" /\ encoder = 0 /\ pre_roll = <<>> /\ queue = <<>>
                   /\ port \in {"off", "rolling"}

\* Everything the modes pass around has its one owner, and an idle recorder keeps
\* nothing of it back (recording.c, rolling_audio.c, audio_io.c).
ResourcesOwned == EncoderOwned /\ PortHeld /\ IdleIsReady

\* A recording that is published without an error.
Clean == file.state = "published" /\ file.clean
Recorded == file.history \o file.live

\* No gap: its frames follow one another, from the history the rolling buffer
\* kept through the frames captured while that history was written.
Gapless ==
  Clean => \A i \in 2..Len(Recorded) :
             Recorded[i] \in {Recorded[i - 1] + 1, Silence}

\* No loss: every frame captured for it, and the encoder's look-ahead after them.
NothingLost ==
  Clean => /\ file.padded
           /\ file.live = IF captured = <<>> THEN <<Silence>> ELSE captured

\* Its header promises a pre-skip exactly when it begins with the first frame its
\* encoder encoded.
HeaderFits ==
  Clean /\ Recorded[1] # Silence =>
    (file.pre_skip = Skip <=> \E e \in 1..made : first[e] = Recorded[1])

\* What is published without an error is the whole recording, although the encoder,
\* the history and the frames reach the worker by three ways (recording.c).
RecordingWhole == Gapless /\ NothingLost /\ HeaderFits

\* A stop ends the mode, whatever fails on the way.
StopEnds == (stop_requested /\ mode # "idle") ~> mode = "idle"
===============================================================================
