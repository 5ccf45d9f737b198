----------------------------- MODULE VoicePlayback -----------------------------
(***************************************************************************)
(* Spoken answers on their way from the voice provider to the speaker: the *)
(* tasks of the proxy's VoiceSession (provider_reader, audio_writer,       *)
(* device_writer, device_reader), the two directions of the WebSocket, and *)
(* the device's WebSocket task, conversation task and DMA interrupt.       *)
(*                                                                         *)
(* Audio is counted in frames; a DMA block holds one.  The provider is     *)
(* what sessions.py assumes of it: it starts a response that was asked     *)
(* for, sends its audio and ends it, and reports the user's speech.        *)
(***************************************************************************)
EXTENDS Integers, Sequences, FiniteSets

CONSTANTS
  MaxEpoch,    \* bound on the answers of a session
  MaxFrames,   \* bound on the frames of an answer
  Length,      \* how many of them each answer may have
  MaxTurns,    \* bound on the user's utterances
  MaxUp,       \* bound on the messages under way to the proxy
  Credit,      \* max_unplayed_samples
  RingSize,    \* AUDIO_VOICE_MAX_PENDING_SAMPLES
  DmaBlocks,   \* DMA_BLOCKS
  MaxStreams,  \* streams a session keeps before playback_backlog
  MaxRetired   \* closed streams whose position it remembers

ASSUME VoiceAssumption ==
  /\ MaxEpoch \in Nat \ {0} /\ MaxFrames \in Nat \ {0} /\ MaxTurns \in Nat
  /\ Length \in [1..MaxEpoch -> 0..MaxFrames]
  /\ MaxUp \in Nat \ {0} /\ DmaBlocks \in Nat \ {0}
  /\ Credit \in Nat \ {0} /\ RingSize \in Nat /\ Credit <= RingSize
  /\ MaxStreams \in Nat \ {0} /\ MaxRetired \in Nat \ {0}

Epoch == 1..MaxEpoch
Frames == 0..MaxFrames
Open == -1

VARIABLES
  \* the proxy
  streams,   \* Playback of each epoch, or None
  retired,   \* the closed ones, oldest first
  epoch,     \* the last one given out
  response,  \* the provider's current response and its epoch
  pending,   \* response_pending
  speech,    \* speech_active
  outbound,  \* controls and frames for device_writer
  \* the connection
  down, up,
  \* the device
  dev,       \* what the WebSocket task keeps: current_epoch, last_epoch, ...
  ws,        \* the control it is in the middle of
  dac,       \* audio_io.c: the ring, the DMA blocks and the played counter
  controls,  \* acknowledgments for the conversation task
  sample,    \* the epoch the conversation task is about to report, or 0
  \* the session
  over,      \* "no", or why it ended
  refused,   \* the report that ended it
  turns,
  heard,     \* history: frames of each epoch that left the speaker
  settled    \* history: the position each answer's account was closed at

proxy == <<streams, retired, epoch, response, pending, speech, outbound>>
device == <<dev, ws, dac, controls, sample>>
session == <<over, refused, turns, heard, settled>>
vars == <<proxy, down, up, device, session>>

None == [live |-> FALSE]
Fresh == [live |-> TRUE, queued |-> 0, produced |-> 0, sent |-> 0, played |-> 0,
          generated |-> FALSE, started |-> FALSE, done |-> FALSE,
          end_sent |-> FALSE, cleared |-> FALSE, clear_sent |-> FALSE,
          acknowledged |-> FALSE]
Playback == [live : {TRUE}, queued : Frames, produced : Frames, sent : Frames,
             played : Frames, generated : BOOLEAN, started : BOOLEAN,
             done : BOOLEAN, end_sent : BOOLEAN, cleared : BOOLEAN,
             clear_sent : BOOLEAN, acknowledged : BOOLEAN]

Start(e) == [type |-> "start", epoch |-> e]
Clear(e) == [type |-> "clear", epoch |-> e]
End(e) == [type |-> "end", epoch |-> e]
Frame(e, n) == [type |-> "frame", epoch |-> e, n |-> n]
Progress(e, p) == [type |-> "progress", epoch |-> e, played |-> p]
Cleared(e, p) == [type |-> "cleared", epoch |-> e, played |-> p]

Message == [type : {"start", "clear", "end"}, epoch : Epoch]
           \cup [type : {"frame"}, epoch : Epoch, n : 1..MaxFrames]
Report == [type : {"progress", "cleared"}, epoch : Epoch, played : Frames]
NoReport == [type |-> "none"]

TypeOK ==
  /\ streams \in [Epoch -> Playback \cup {None}]
  /\ retired \in Seq([epoch : Epoch, played : Frames, cleared : BOOLEAN])
  /\ response \in [state : {"none", "requested", "current", "discarded"},
                   epoch : 0..MaxEpoch]
  /\ epoch \in 0..MaxEpoch
  /\ pending \in BOOLEAN /\ speech \in BOOLEAN
  /\ outbound \in Seq(Message) /\ down \in Seq(Message) /\ up \in Seq(Report)
  /\ dev \in [current : 0..MaxEpoch, last : 0..MaxEpoch, cleared : 0..MaxEpoch,
              ended : BOOLEAN, expected : Frames]
  /\ ws \in [pc : {"idle", "flushed", "opened", "clearing"},
             epoch : 0..MaxEpoch, played : Frames]
  /\ dac.epoch \in 0..MaxEpoch /\ dac.played \in Frames
  /\ dac.pending \in 0..RingSize
  /\ dac.ring \in Seq(1..MaxFrames)
  /\ dac.dma \in [1..DmaBlocks -> [epoch : 0..MaxEpoch, n : 0..MaxFrames]]
  /\ controls \in Seq(Report)
  /\ sample \in 0..MaxEpoch
  /\ over \in {"no", "device", "protocol", "crash", "interruption_race", "backlog"}
  /\ refused \in Report \cup {NoReport}
  /\ turns \in 0..MaxTurns
  /\ heard \in [Epoch -> Frames]
  /\ settled \in [Epoch -> Frames \cup {Open}]

Fail(why) == over = "no" /\ over' = why

-------------------------------------------------------------------------------
(***************************************************************************)
(* The proxy.                                                              *)
(***************************************************************************)

\* Played to the end; a late interruption leaves it alone.  (Mutant: a clear
\* under way does not matter.)
FinishedThoughCleared(s) == s.end_sent /\ s.played = s.produced
Finished(s) == s.end_sent /\ s.played = s.produced /\ ~s.cleared

\* _retire_streams: acknowledged and finished streams are forgotten but for
\* the last few positions.
Closed(e) == streams[e].live /\ (streams[e].acknowledged \/ Finished(streams[e]))
Ordered(E) ==
  CHOOSE s \in [1..Cardinality(E) -> E] :
    \A i, j \in 1..Cardinality(E) : i < j => s[i] < s[j]
Kept == [e \in Epoch |-> IF Closed(e) THEN None ELSE streams[e]]
Remembered ==
  LET closed == Ordered({e \in Epoch : Closed(e)})
      all == retired \o
               [i \in DOMAIN closed |->
                  [epoch |-> closed[i], played |-> streams[closed[i]].played,
                   cleared |-> streams[closed[i]].cleared]]
  IN SubSeq(all, IF Len(all) > MaxRetired THEN Len(all) - MaxRetired + 1 ELSE 1,
            Len(all))

\* Their accounts are closed.
Settle(e) ==
  IF settled[e] = Open /\ Closed(e) THEN streams[e].played ELSE settled[e]

\* _maybe_respond, for the streams ss and the other conditions after a step.
MaybeRespond(ss, wanted, speaking, r) ==
  IF /\ wanted /\ ~speaking /\ r.state = "none"
     /\ \A e \in Epoch : ss[e].live => (ss[e].cleared => ss[e].acknowledged)
  THEN response' = [state |-> "requested", epoch |-> 0] /\ pending' = FALSE
  ELSE response' = r /\ pending' = wanted

\* interrupt: every open stream is cleared; the one that was started is
\* cleared on the device too, the others were not heard at all.
SpeechStarted ==
  /\ over = "no" /\ ~speech /\ turns < MaxTurns
  /\ speech' = TRUE /\ turns' = turns + 1
  /\ retired' = Remembered
  /\ LET open == {e \in Epoch : /\ Kept[e].live
                                /\ ~Kept[e].cleared /\ ~Kept[e].acknowledged}
         clearing == Ordered({e \in open : Kept[e].started})
     IN /\ streams' = [e \in Epoch |->
             IF e \in open
             THEN [Kept[e] EXCEPT !.cleared = TRUE, !.queued = 0,
                                  !.acknowledged = ~Kept[e].started]
             ELSE Kept[e]]
        /\ settled' = [e \in Epoch |->
             IF e \in open /\ ~Kept[e].started THEN 0 ELSE Settle(e)]
        /\ outbound' = outbound \o [i \in DOMAIN clearing |-> Clear(clearing[i])]
  /\ response' = IF response.state = "current"
                 THEN [response EXCEPT !.state = "discarded"] ELSE response
  /\ UNCHANGED <<epoch, pending, down, up, device, over, refused, heard>>

SpeechStopped ==
  /\ over = "no" /\ speech
  /\ speech' = FALSE
  /\ UNCHANGED <<streams, retired, epoch, response, pending, outbound, down, up, device, session>>

InputCommitted ==
  /\ over = "no" /\ turns > 0
  /\ MaybeRespond(streams, TRUE, speech, response)
  /\ UNCHANGED <<streams, retired, epoch, speech, outbound, down, up, device, session>>

\* A response that begins while the user speaks ends the session.
ResponseStarted ==
  /\ over = "no" /\ response.state = "requested"
  /\ IF speech
     THEN Fail("interruption_race") /\ UNCHANGED response
     ELSE response' = [response EXCEPT !.state = "current"] /\ UNCHANGED over
  /\ UNCHANGED <<streams, retired, epoch, pending, speech, outbound, down, up, device,
                 refused, turns, heard, settled>>

\* The first audio of a response opens a stream of the next epoch.
OpenStream ==
  /\ retired' = Remembered
  /\ settled' = [e \in Epoch |-> Settle(e)]
  /\ IF Cardinality({e \in Epoch : Kept[e].live}) >= MaxStreams
     THEN Fail("backlog") /\ streams' = Kept /\ UNCHANGED <<epoch, response>>
     ELSE /\ epoch' = epoch + 1
          /\ streams' = [Kept EXCEPT ![epoch + 1] = [Fresh EXCEPT !.queued = 1]]
          /\ response' = [response EXCEPT !.epoch = epoch + 1]
          /\ UNCHANGED over

MoreAudio(e) ==
  /\ streams[e].produced + streams[e].queued < Length[e]
  /\ streams' = [streams EXCEPT ![e].queued = @ + 1]
  /\ UNCHANGED <<retired, epoch, response, over, settled>>

ResponseAudio ==
  /\ over = "no" /\ response.state = "current"
  /\ IF response.epoch # 0 /\ streams[response.epoch].live
     THEN MoreAudio(response.epoch)
     ELSE epoch < MaxEpoch /\ OpenStream
  /\ UNCHANGED <<pending, speech, outbound, down, up, device, refused, turns, heard>>

ResponseDone ==
  /\ over = "no" /\ response.state \in {"current", "discarded"}
  /\ streams' = [e \in Epoch |->
       IF e = response.epoch /\ streams[e].live /\ ~streams[e].cleared
       THEN [streams[e] EXCEPT !.generated = TRUE] ELSE streams[e]]
  /\ MaybeRespond(streams', pending, speech, [state |-> "none", epoch |-> 0])
  /\ UNCHANGED <<retired, epoch, speech, outbound, down, up, device, session>>

\* audio_writer: an epoch waits until every earlier one is cleared or played.
MayWrite(e) ==
  /\ streams[e].live /\ ~streams[e].cleared /\ ~streams[e].done
  /\ \A f \in 1..(e - 1) : streams[f].live => streams[f].cleared \/ Finished(streams[f])

AudioWriter(e) ==
  /\ over = "no" /\ MayWrite(e)
  /\ \/ /\ ~streams[e].started
        /\ streams' = [streams EXCEPT ![e].started = TRUE]
        /\ outbound' = Append(outbound, Start(e))
     \/ /\ streams[e].started /\ streams[e].queued > 0
        /\ streams' = [streams EXCEPT ![e].queued = @ - 1, ![e].produced = @ + 1]
        /\ outbound' = Append(outbound, Frame(e, streams[e].produced + 1))
     \/ /\ streams[e].started /\ streams[e].queued = 0 /\ streams[e].generated
        /\ streams' = [streams EXCEPT ![e].done = TRUE]
        /\ outbound' = Append(outbound, End(e))
  /\ UNCHANGED <<retired, epoch, response, pending, speech, down, up, device, session>>

\* What the device holds or has under way, of streams that are not cleared.
Unreported ==
  LET S[e \in 0..MaxEpoch] ==
        IF e = 0 THEN 0
        ELSE S[e - 1] + (IF streams[e].live /\ ~streams[e].cleared
                         THEN streams[e].sent - streams[e].played ELSE 0)
  IN S[MaxEpoch]

\* device_writer: frames of a cleared stream are dropped, the others wait for
\* credit.
Send(m) == down' = Append(down, m)
Dropped(e) == ~streams[e].live \/ streams[e].cleared

WriteFrame(m) ==
  /\ m.type = "frame"
  /\ IF Dropped(m.epoch)
     THEN UNCHANGED <<streams, down>>
     ELSE /\ Unreported + 1 <= Credit
          /\ streams' = [streams EXCEPT ![m.epoch].sent = @ + 1]
          /\ Send(m)
  /\ UNCHANGED over

\* (Mutant: every control of a cleared stream is dropped.)
WriteControlUncleared(m) ==
  /\ m.type \in {"start", "clear", "end"}
  /\ IF Dropped(m.epoch)
     THEN UNCHANGED <<streams, down>>
     ELSE /\ streams' = [streams EXCEPT ![m.epoch].end_sent = m.type = "end"]
          /\ Send(m)
  /\ UNCHANGED over
WriteControl(m) ==
  /\ m.type \in {"start", "clear", "end"}
  /\ IF m.type = "end" /\ Dropped(m.epoch)
     THEN UNCHANGED <<streams, down, over>>
     ELSE IF m.type = "clear" /\ ~streams[m.epoch].live
     THEN Fail("crash") /\ UNCHANGED <<streams, down>>
     ELSE /\ streams' =
               CASE m.type = "start" -> streams
                 [] m.type = "clear" -> [streams EXCEPT ![m.epoch].clear_sent = TRUE]
                 [] m.type = "end" -> [streams EXCEPT ![m.epoch].end_sent = TRUE]
          /\ Send(m) /\ UNCHANGED over

DeviceWriter ==
  /\ over = "no" /\ outbound # <<>>
  /\ outbound' = Tail(outbound)
  /\ WriteFrame(Head(outbound)) \/ WriteControl(Head(outbound))
  /\ UNCHANGED <<retired, epoch, response, pending, speech, up, device, refused,
                 turns, heard, settled>>

\* playback_report.
Known(m) ==
  \E i \in DOMAIN retired :
    /\ retired[i].epoch = m.epoch /\ retired[i].played = m.played
    /\ m.type = "progress" \/ retired[i].cleared

Acceptable(s, m) ==
  /\ s.played <= m.played /\ m.played <= s.sent /\ ~s.acknowledged
  /\ m.type = "cleared" => s.clear_sent

Refuse(m) ==
  Fail("protocol") /\ refused' = m /\ UNCHANGED <<streams, settled, response, pending>>

Accept(m) ==
  /\ streams' = [streams EXCEPT ![m.epoch].played = m.played,
                                ![m.epoch].acknowledged = m.type = "cleared"]
  /\ IF m.type = "cleared"
     THEN /\ settled' = [settled EXCEPT ![m.epoch] = m.played]
          /\ MaybeRespond(streams', pending, speech, response)
     ELSE UNCHANGED <<settled, response, pending>>
  /\ UNCHANGED <<over, refused>>

DeviceReader ==
  /\ over = "no" /\ up # <<>>
  /\ up' = Tail(up)
  /\ LET m == Head(up) IN
       IF streams[m.epoch].live
       THEN IF Acceptable(streams[m.epoch], m) THEN Accept(m) ELSE Refuse(m)
       ELSE IF Known(m)
       THEN UNCHANGED <<streams, settled, response, pending, over, refused>>
       ELSE Refuse(m)
  /\ UNCHANGED <<retired, epoch, speech, outbound, down, device, turns, heard>>

-------------------------------------------------------------------------------
(***************************************************************************)
(* The device.                                                             *)
(***************************************************************************)

Silence == [epoch |-> 0, n |-> 0]

\* audio_voice_played
Played(e) == IF dac.epoch = e THEN dac.played ELSE 0

\* audio_voice_clear, up to the end of its critical section.  (Mutant: the
\* DMA blocks are left alone.)
FlushedRingOnly == [dac EXCEPT !.epoch = 0, !.ring = <<>>, !.pending = 0]
Flushed == [dac EXCEPT !.epoch = 0, !.ring = <<>>, !.pending = 0,
                       !.dma = [i \in 1..DmaBlocks |-> [@[i] EXCEPT !.n = 0]]]

Take == down # <<>> /\ down' = Tail(down)
Got(type) == over = "no" /\ ws.pc = "idle" /\ Take /\ Head(down).type = type
Rejected == Fail("device") /\ UNCHANGED <<dev, ws, dac>>
Idle == [pc |-> "idle", epoch |-> 0, played |-> 0]

\* playback.start: the previous epoch must be played; audio_voice_epoch
\* clears it, opens the new one, and then control() publishes it.
WsStart ==
  /\ Got("start")
  /\ LET e == Head(down).epoch IN
       IF e <= dev.last \/ (dev.current # 0 /\ Played(dev.current) < dev.expected)
       THEN Rejected
       ELSE /\ dac' = Flushed
            /\ ws' = [pc |-> "flushed", epoch |-> e, played |-> 0]
            /\ UNCHANGED <<dev, over>>
  /\ UNCHANGED <<proxy, up, controls, sample, refused, turns, heard, settled>>

WsOpen ==
  /\ over = "no" /\ ws.pc = "flushed"
  /\ dac' = [dac EXCEPT !.epoch = ws.epoch, !.played = 0]
  /\ ws' = [ws EXCEPT !.pc = "opened"]
  /\ UNCHANGED <<proxy, down, up, dev, controls, sample, session>>

WsPublish ==
  /\ over = "no" /\ ws.pc = "opened"
  /\ dev' = [dev EXCEPT !.current = ws.epoch, !.last = ws.epoch,
                        !.ended = FALSE, !.expected = 0]
  /\ ws' = Idle
  /\ UNCHANGED <<proxy, down, up, dac, controls, sample, session>>

\* playback.clear: the queue is flushed first, current_epoch follows, and the
\* acknowledgment is queued for the conversation task.
WsClear ==
  /\ Got("clear")
  /\ LET e == Head(down).epoch IN
       IF e # dev.current
       THEN Rejected
       ELSE /\ ws' = [pc |-> "clearing", epoch |-> e, played |-> Played(e)]
            /\ dac' = Flushed
            /\ UNCHANGED <<dev, over>>
  /\ UNCHANGED <<proxy, up, controls, sample, refused, turns, heard, settled>>

WsCleared ==
  /\ over = "no" /\ ws.pc = "clearing"
  /\ dev' = [dev EXCEPT !.cleared = ws.epoch, !.current = 0]
  /\ controls' = Append(controls, Cleared(ws.epoch, ws.played))
  /\ ws' = Idle
  /\ UNCHANGED <<proxy, down, up, dac, sample, session>>

WsEnd ==
  /\ Got("end")
  /\ IF Head(down).epoch # dev.current
     THEN Rejected
     ELSE dev' = [dev EXCEPT !.ended = TRUE] /\ UNCHANGED <<ws, dac, over>>
  /\ UNCHANGED <<proxy, up, controls, sample, refused, turns, heard, settled>>

\* binary: late frames of a cleared or older epoch are dropped; the others
\* must be the next of the current epoch and fit the ring.
Late(m) == m.epoch <= dev.cleared \/ m.epoch < dev.last
Room == dac.pending < RingSize /\ Len(dac.ring) < RingSize

WsFrame ==
  /\ Got("frame")
  /\ LET m == Head(down) IN
       IF Late(m) THEN UNCHANGED <<dev, ws, dac, over>>
       ELSE IF \/ dev.ended \/ m.epoch # dev.current \/ m.n # dev.expected + 1
               \/ m.epoch # dac.epoch \/ ~Room
       THEN Rejected
       ELSE /\ dev' = [dev EXCEPT !.expected = m.n]
            /\ dac' = [dac EXCEPT !.ring = Append(@, m.n), !.pending = @ + 1]
            /\ UNCHANGED <<ws, over>>
  /\ UNCHANGED <<proxy, up, controls, sample, refused, turns, heard, settled>>

\* sent: the block at the head of the DMA queue has been played; it is counted
\* when it belongs to the current epoch, and refilled from the ring.
Counts(b) == b.n # 0 /\ b.epoch = dac.epoch
Refill ==
  IF dac.epoch # 0 /\ dac.ring # <<>>
  THEN [epoch |-> dac.epoch, n |-> Head(dac.ring)]
  ELSE [epoch |-> dac.epoch, n |-> 0]

Dma ==
  /\ over = "no"
  /\ dac.ring # <<>> \/ \E i \in 1..DmaBlocks : dac.dma[i].n # 0
  /\ LET b == dac.dma[1]
         k == IF Counts(b) THEN 1 ELSE 0
     IN /\ dac' = [dac EXCEPT
             !.played = @ + k,
             !.pending = @ - k,
             !.ring = IF Refill.n = 0 THEN @ ELSE Tail(@),
             !.dma = [i \in 1..DmaBlocks |->
                        IF i < DmaBlocks THEN dac.dma[i + 1] ELSE Refill]]
        /\ heard' = IF b.n # 0 THEN [heard EXCEPT ![b.epoch] = @ + 1] ELSE heard
  /\ UNCHANGED <<proxy, down, up, dev, ws, controls, sample, over, refused, turns, settled>>

\* conversation: acknowledgments first; then, with none queued, a report whose
\* position is read after that test.
ConvControl ==
  /\ over = "no" /\ sample = 0 /\ controls # <<>> /\ Len(up) < MaxUp
  /\ up' = Append(up, Head(controls))
  /\ controls' = Tail(controls)
  /\ UNCHANGED <<proxy, down, dev, ws, dac, sample, session>>

ConvSample ==
  /\ over = "no" /\ sample = 0 /\ controls = <<>> /\ dev.current # 0
  /\ sample' = dev.current
  /\ UNCHANGED <<proxy, down, up, dev, ws, dac, controls, session>>

ConvReport ==
  /\ over = "no" /\ sample # 0 /\ Len(up) < MaxUp
  /\ up' = Append(up, Progress(sample, Played(sample)))
  /\ sample' = 0
  /\ UNCHANGED <<proxy, down, dev, ws, dac, controls, session>>

Conversation == ConvControl \/ ConvSample \/ ConvReport

-------------------------------------------------------------------------------

Init ==
  /\ streams = [e \in Epoch |-> None] /\ retired = <<>> /\ epoch = 0
  /\ response = [state |-> "none", epoch |-> 0]
  /\ pending = FALSE /\ speech = FALSE
  /\ outbound = <<>> /\ down = <<>> /\ up = <<>>
  /\ dev = [current |-> 0, last |-> 0, cleared |-> 0, ended |-> FALSE, expected |-> 0]
  /\ ws = Idle
  /\ dac = [epoch |-> 0, played |-> 0, pending |-> 0, ring |-> <<>>,
            dma |-> [i \in 1..DmaBlocks |-> Silence]]
  /\ controls = <<>> /\ sample = 0
  /\ over = "no" /\ refused = NoReport /\ turns = 0
  /\ heard = [e \in Epoch |-> 0] /\ settled = [e \in Epoch |-> Open]

Provider == \/ SpeechStarted \/ SpeechStopped \/ InputCommitted
            \/ ResponseStarted \/ ResponseAudio \/ ResponseDone
WebSocket == WsStart \/ WsOpen \/ WsPublish \/ WsClear \/ WsCleared \/ WsEnd \/ WsFrame

Next == \/ Provider \/ (\E e \in Epoch : AudioWriter(e)) \/ DeviceWriter \/ DeviceReader
        \/ WebSocket \/ Dma \/ Conversation

Spec == Init /\ [][Next]_vars

\* Every task of the proxy and of the device keeps running, and so does the
\* DMA; the user and the provider may stop at any time.
FairSpec ==
  /\ Spec
  /\ WF_vars(\E e \in Epoch : AudioWriter(e))
  /\ WF_vars(DeviceWriter) /\ WF_vars(DeviceReader)
  /\ WF_vars(WebSocket) /\ WF_vars(Dma) /\ WF_vars(Conversation)

-------------------------------------------------------------------------------
(***************************************************************************)
(* Properties.                                                             *)
(***************************************************************************)

\* The device never refuses what the proxy sends: the credit of the proxy
\* covers its ring, frames arrive in sequence, an epoch begins only when the
\* previous one is played or cleared, and a clear names the current epoch.
DeviceAccepts == over # "device"

\* The writer never meets a clear of a stream that is already forgotten.
ClearFindsStream == over # "crash"

\* What is between the played counter and the last frame received is exactly
\* the frames in the DMA blocks followed by those in the ring, each once, in order
\* and of the current epoch; pending counts them.
AudioInOrder ==
  LET first == dac.played + dac.pending - Len(dac.ring)
      handed == {i \in 1..DmaBlocks : dac.dma[i].n # 0}
  IN /\ Len(dac.ring) <= dac.pending
     /\ \A k \in 1..Len(dac.ring) : dac.ring[k] = first + k
     /\ \A i \in handed : /\ dac.dma[i].epoch = dac.epoch
                           /\ dac.played < dac.dma[i].n /\ dac.dma[i].n <= first
     /\ \A i, j \in handed : i < j => dac.dma[i].n < dac.dma[j].n
     /\ \A n \in (dac.played + 1)..first : \E i \in handed : dac.dma[i].n = n

\* The proxy never believes that more was heard than left the speaker, and an
\* interrupted answer is truncated exactly where the speaker stopped.
HeardIsHeard ==
  /\ \A e \in Epoch : streams[e].live => streams[e].played <= heard[e]
  /\ \A e \in Epoch : settled[e] # Open => settled[e] = heard[e]

\* What is left in the recorder is what the proxy counts on, in both directions
\* (sent, audio_voice_played, playback_report).
AudioAccounted == AudioInOrder /\ HeardIsHeard

\* A report of an answer that was played to its end, which the recorder repeats
\* until the next answer starts, after the proxy has forgotten its position over
\* MaxRetired later answers of which nothing was heard.
Forgotten(m) ==
  /\ ~streams[m.epoch].live /\ m.played = settled[m.epoch]
  /\ Len(retired) = MaxRetired
  /\ \A i \in DOMAIN retired : retired[i].epoch > m.epoch /\ retired[i].played = 0

\* The only reports the proxy refuses are a position of zero, read while the
\* WebSocket task was between flushing an epoch and saying so, and a forgotten one.
RefusedOnlyStale ==
  over = "protocol" =>
    refused.type = "progress" /\ (refused.played = 0 \/ Forgotten(refused))

\* However answers and interruptions overtake each other, neither end breaks the
\* session by its own doing: the device takes what the proxy sends, the proxy finds
\* the stream of every clear, and refuses no report but those.
SessionSurvives == DeviceAccepts /\ ClearFindsStream /\ RefusedOnlyStale

\* protocols/voice-v1.md:61 of a report: samples actually consumed.
Reported == Len(up') > Len(up)
HonestReport ==
  Reported => LET m == up'[Len(up')] IN m.played = heard[m.epoch]
ReportsHonest == [][HonestReport]_vars

\* Unless the session ends, an answer that was generated is played to its end, and
\* one that was interrupted is acknowledged.
AnswersEnd ==
  \A e \in Epoch :
    LET s == streams[e] IN
    (s.live /\ (s.generated \/ s.cleared))
      ~> (over # "no" \/ ~s.live \/ IF s.cleared THEN s.acknowledged ELSE Finished(s))

\* The position an epoch was closed at, for PlaybackLedger.
Position(e) ==
  IF settled[e] = Open /\ streams[e].live /\ Finished(streams[e])
  THEN streams[e].played ELSE settled[e]
Ledger == INSTANCE PlaybackLedger WITH ledger <- [e \in Epoch |-> Position(e)]
LedgerSpec == Ledger!Spec
===============================================================================
