------------------------------ MODULE VoiceClient ------------------------------
(***************************************************************************)
(* The life of a voice session: on the recorder the conversation task, the *)
(* capture task and the WebSocket task (voice_client.c, over audio_io.c),  *)
(* on the proxy one VoiceSession (sessions.py) in its single slot          *)
(* (app.py).  It is about how a session is opened and how it comes apart:  *)
(* what is played in between is the subject of VoicePlayback.              *)
(*                                                                         *)
(* Time is not counted: a deadline may pass at any moment.  The capture    *)
(* task returns from a read of the microphone within its 200 ms, long      *)
(* before the second its end is waited for.  The WebSocket client is a     *)
(* library: its stop returns once its task is in none of our callbacks.    *)
(***************************************************************************)
EXTENDS Naturals, Sequences

CONSTANTS
  MaxSessions,  \* bound on the sessions
  MaxChunks,    \* bound on the chunks of a context
  MicFrames,    \* MIC_QUEUE_FRAMES
  MaxUp         \* bound on the messages under way to the proxy

ASSUME VoiceClientAssumption ==
  /\ MaxSessions \in Nat /\ MaxChunks \in Nat
  /\ MicFrames \in Nat \ {0} /\ MaxUp \in Nat \ {0}

VARIABLES
  \* the recorder
  active, stopping, ready, remote_stopping,
  error,    \* error_code is not ESP_OK
  pending,  \* voice_pending_context, in chunks
  call,     \* where the conversation task is
  s,        \* voice_session_t
  capture,  \* where the capture task is
  mic,      \* frames in the microphone queue
  ws,       \* the WebSocket client and where its task is
  port,     \* the audio port is open
  \* the connection: "none", "up", or left by the recorder ("gone") or the proxy ("shut")
  link, up, down,
  \* the proxy
  proxy,    \* where the session is, the chunks it waits for, its error
  \* history
  sessions,
  cause     \* what ended the session that is not an error

flags == <<active, stopping, ready, remote_stopping, error>>
recorder == <<flags, pending, call, s, capture, mic, ws, port>>
connection == <<link, up, down>>
vars == <<recorder, connection, proxy, sessions, cause>>

Chunks == 0..MaxChunks
NoSession == [live |-> FALSE, context |-> FALSE, left |-> 0, hello |-> FALSE, connected |-> FALSE,
              audio_started |-> FALSE, capture_done |-> TRUE]
Message(t) == [type |-> t, chunks |-> 0]
Hello(n) == [type |-> "hello", chunks |-> n]

TypeOK ==
  /\ \A b \in {active, stopping, ready, remote_stopping, error, port} : b \in BOOLEAN
  /\ pending \in Chunks /\ mic \in 0..MicFrames
  /\ call \in {"none", "alloc", "open", "hello", "context", "wait", "wipe", "arm",
               "talk", "quiesce", "mute", "farewell", "stop", "audio", "free", "leave"}
  /\ s \in [live : BOOLEAN, context : BOOLEAN, left : Chunks, hello : BOOLEAN,
            connected : BOOLEAN, audio_started : BOOLEAN, capture_done : BOOLEAN]
  /\ capture \in {"none", "loop", "read"}
  /\ ws \in {"none", "made", "dialing", "idle", "starting", "started", "over"}
  /\ link \in {"none", "up", "gone", "shut"}
  /\ proxy.pc \in {"free", "hello", "chunks", "connecting", "open", "ready", "run",
                   "cleanup", "stopping", "error", "stop", "close"}
  /\ proxy.left \in Chunks /\ proxy.error \in {"none", "protocol", "other"}
  /\ cause \in {"none", "user", "stop", "close", "drained", "deadline"}

-------------------------------------------------------------------------------
CallAt(pc) == call = pc
CallGoto(pc) == call' = pc

Stop(c) == stopping' = TRUE /\ cause' = IF cause = "none" THEN c ELSE cause
Fail == stopping' = TRUE /\ error' = TRUE /\ UNCHANGED cause
Goes == UNCHANGED <<stopping, error, cause>>

\* A message gets on its way, or its time to be sent is over.
Sends(m) == link = "up" /\ Len(up) < MaxUp /\ up' = Append(up, m) /\ Goes
SendFails == Fail /\ UNCHANGED up

-------------------------------------------------------------------------------
(***************************************************************************)
(* voice_client_start_with_context and voice_client_stop, in the main task.*)
(***************************************************************************)

StartSession(n) ==
  /\ ~active /\ sessions < MaxSessions
  /\ stopping' = FALSE /\ ready' = FALSE /\ remote_stopping' = FALSE /\ error' = FALSE
  /\ \/ active' = TRUE /\ pending' = n /\ CallGoto("alloc")
     \/ UNCHANGED <<active, pending, call>>  \* no memory for the task
  /\ sessions' = sessions + 1 /\ cause' = "none"
  /\ UNCHANGED <<s, capture, mic, ws, port, connection, proxy>>

StopSession ==
  /\ active /\ Stop("user")
  /\ UNCHANGED <<active, ready, remote_stopping, error, pending, call, s, capture, mic,
                 ws, port, connection, proxy, sessions>>

-------------------------------------------------------------------------------
(***************************************************************************)
(* conversation(), up to the first sample.                                 *)
(***************************************************************************)

\* The context changes hands; without a session it is wiped at once.
Allocate ==
  /\ CallAt("alloc")
  /\ \/ /\ s' = [NoSession EXCEPT !.live = TRUE, !.context = pending # 0, !.left = pending]
        /\ \/ Goes /\ CallGoto("open")
           \/ Fail /\ CallGoto("wait")  \* no queue or buffer
     \/ Fail /\ CallGoto("wait") /\ UNCHANGED s
  /\ pending' = 0 /\ mic' = 0
  /\ UNCHANGED <<active, ready, remote_stopping, capture, ws, port, connection, proxy, sessions>>

\* identity_access, esp_websocket_client_init, _register_events and _start.
Open ==
  /\ CallAt("open")
  /\ \/ Fail /\ ws' \in {"none", "made"}
     \/ Goes /\ ws' = "dialing"
     \/ Fail /\ ws' = "dialing" /\ s.context  \* no buffer for the chunks
  /\ CallGoto("wait")
  /\ UNCHANGED <<active, ready, remote_stopping, pending, s, capture, mic, port,
                 connection, proxy, sessions>>

Wait ==
  /\ CallAt("wait")
  /\ \/ (ready \/ stopping) /\ CallGoto("wipe")
     \/ /\ ~ready /\ ~stopping /\ ~remote_stopping /\ ~s.hello /\ s.connected
        /\ CallGoto("hello")
  /\ Goes
  /\ UNCHANGED <<active, ready, remote_stopping, pending, s, capture, mic, ws, port,
                 connection, proxy, sessions>>

\* Mutant: that hello was sent is not remembered.
SendHelloAgain ==
  /\ CallAt("hello")
  /\ \/ Sends(Hello(s.left)) /\ UNCHANGED s /\ CallGoto("context")
     \/ SendFails /\ CallGoto("wait") /\ UNCHANGED s
  /\ UNCHANGED <<active, ready, remote_stopping, pending, capture, mic, ws, port,
                 link, down, proxy, sessions>>

SendHello ==
  /\ CallAt("hello")
  /\ \/ Sends(Hello(s.left)) /\ s' = [s EXCEPT !.hello = TRUE] /\ CallGoto("context")
     \/ SendFails /\ CallGoto("wait") /\ UNCHANGED s
  /\ UNCHANGED <<active, ready, remote_stopping, pending, capture, mic, ws, port,
                 link, down, proxy, sessions>>

\* A stop is looked at between two chunks.
SendChunk ==
  /\ CallAt("context")
  /\ IF s.left = 0 \/ stopping
     THEN CallGoto("wait") /\ Goes /\ UNCHANGED <<s, up>>
     ELSE \/ /\ Sends(Message("chunk"))
             /\ s' = [s EXCEPT !.left = @ - 1] /\ UNCHANGED call
          \/ SendFails /\ CallGoto("wait") /\ UNCHANGED s
  /\ UNCHANGED <<active, ready, remote_stopping, pending, capture, mic, ws, port,
                 link, down, proxy, sessions>>

\* The 60 s for the proxy to be ready are over.
ReadyLate ==
  /\ CallAt("wait") /\ ~ready /\ ~stopping /\ ~remote_stopping
  /\ Fail /\ CallGoto("wipe")
  /\ UNCHANGED <<active, ready, remote_stopping, pending, s, capture, mic, ws, port,
                 connection, proxy, sessions>>

\* draining_remote_stop: the 250 ms for the proxy's last words are over.
Drained ==
  /\ call \in {"wait", "talk"} /\ remote_stopping /\ ~stopping
  /\ CallAt("talk") \/ ~ready
  /\ Stop("drained")
  /\ UNCHANGED <<active, ready, remote_stopping, error, pending, call, s, capture, mic,
                 ws, port, connection, proxy, sessions>>

WipeContext ==
  /\ CallAt("wipe")
  /\ s' = [s EXCEPT !.context = FALSE] /\ CallGoto("arm")
  /\ UNCHANGED <<flags, pending, capture, mic, ws, port, connection, proxy, sessions, cause>>

StartCapture ==
  /\ CallAt("arm")
  /\ \/ stopping /\ UNCHANGED <<s, capture>> /\ Goes
     \/ ~stopping /\ s' = [s EXCEPT !.capture_done = FALSE] /\ capture' = "loop" /\ Goes
     \/ ~stopping /\ Fail /\ UNCHANGED <<s, capture>>
  /\ CallGoto("talk")
  /\ UNCHANGED <<active, ready, remote_stopping, pending, mic, ws, port, connection,
                 proxy, sessions>>

-------------------------------------------------------------------------------
(***************************************************************************)
(* conversation(), the microphone and the cleanup.                         *)
(***************************************************************************)

\* Acknowledgments and progress go the same way, and fail the same way.
SendFrame ==
  /\ CallAt("talk") /\ ~stopping /\ ~remote_stopping /\ mic > 0
  /\ mic' = mic - 1
  /\ \/ Sends(Message("audio")) /\ UNCHANGED call
     \/ SendFails /\ CallGoto("quiesce")
  /\ UNCHANGED <<active, ready, remote_stopping, pending, s, capture, ws, port,
                 link, down, proxy, sessions>>

\* max_session_seconds, as the proxy gave them.
SessionOver ==
  /\ CallAt("talk") /\ ~stopping /\ ~remote_stopping
  /\ Stop("deadline") /\ CallGoto("quiesce")
  /\ UNCHANGED <<active, ready, remote_stopping, error, pending, s, capture, mic, ws,
                 port, connection, proxy, sessions>>

TalkEnds ==
  /\ CallAt("talk") /\ stopping
  /\ CallGoto("quiesce")
  /\ UNCHANGED <<flags, pending, s, capture, mic, ws, port, connection, proxy, sessions, cause>>

\* Mutant: the capture task is not waited for.
QuiesceAtOnce ==
  /\ CallAt("quiesce")
  /\ CallGoto("mute")
  /\ UNCHANGED <<flags, pending, s, capture, mic, ws, port, connection, proxy, sessions, cause>>

Quiesce ==
  /\ CallAt("quiesce") /\ s.capture_done
  /\ CallGoto("mute")
  /\ UNCHANGED <<flags, pending, s, capture, mic, ws, port, connection, proxy, sessions, cause>>

Mute ==
  /\ CallAt("mute")
  /\ Goes \/ (s.audio_started /\ Fail)
  /\ CallGoto("farewell")
  /\ UNCHANGED <<active, ready, remote_stopping, pending, s, capture, mic, ws, port,
                 connection, proxy, sessions>>

Farewell ==
  /\ CallAt("farewell")
  /\ \/ Sends(Message("stop"))
     \/ link = "up" /\ SendFails
     \/ link # "up" /\ Goes /\ UNCHANGED up
  /\ CallGoto("stop")
  /\ UNCHANGED <<active, ready, remote_stopping, pending, s, capture, mic, ws, port,
                 link, down, proxy, sessions>>

\* esp_websocket_client_stop and _destroy.
StopSocket ==
  /\ CallAt("stop") /\ ws \in {"none", "made", "idle", "over"}
  /\ ws' = "none" /\ down' = <<>>
  /\ link' = IF link = "up" THEN "gone" ELSE IF link = "shut" THEN "none" ELSE link
  /\ up' = IF link = "up" THEN Append(up, Message("close")) ELSE up
  /\ CallGoto("audio")
  /\ UNCHANGED <<flags, pending, s, capture, mic, port, proxy, sessions, cause>>

\* audio_stop, if it was started, perhaps since it was last looked at.
StopAudio ==
  /\ CallAt("audio")
  /\ \/ s.audio_started /\ port' = FALSE /\ (Goes \/ Fail)
     \/ ~s.audio_started /\ Goes /\ UNCHANGED port
  /\ CallGoto("free")
  /\ UNCHANGED <<active, ready, remote_stopping, pending, s, capture, mic, ws,
                 connection, proxy, sessions>>

FreeSession ==
  /\ CallAt("free")
  /\ s' = [NoSession EXCEPT !.context = s.context] /\ CallGoto("leave")
  /\ UNCHANGED <<flags, pending, capture, mic, ws, port, connection, proxy, sessions, cause>>

Leave ==
  /\ CallAt("leave")
  /\ active' = FALSE /\ CallGoto("none")
  /\ UNCHANGED <<stopping, ready, remote_stopping, error, pending, s, capture, mic, ws,
                 port, connection, proxy, sessions, cause>>

Conversation ==
  \/ Allocate \/ Open \/ Wait \/ SendHello \/ SendChunk \/ WipeContext \/ StartCapture
  \/ SendFrame \/ TalkEnds \/ Quiesce \/ Mute \/ Farewell \/ StopSocket \/ StopAudio
  \/ FreeSession \/ Leave
Deadlines == ReadyLate \/ Drained \/ SessionOver

-------------------------------------------------------------------------------
(***************************************************************************)
(* capture().                                                              *)
(***************************************************************************)

CaptureLoop ==
  /\ capture = "loop"
  /\ IF stopping \/ remote_stopping
     THEN capture' = "none" /\ s' = [s EXCEPT !.capture_done = TRUE]
     ELSE capture' = "read" /\ UNCHANGED s
  /\ UNCHANGED <<flags, pending, call, mic, ws, port, connection, proxy, sessions, cause>>

\* audio_read and the queue: a closed port, an overrun and a full queue end it.
CaptureOnce ==
  /\ capture = "read"
  /\ \/ /\ port /\ mic < MicFrames
        /\ mic' = mic + 1 /\ capture' = "loop" /\ Goes /\ UNCHANGED s
     \/ /\ Fail /\ capture' = "none" /\ s' = [s EXCEPT !.capture_done = TRUE]
        /\ UNCHANGED mic
  /\ UNCHANGED <<active, ready, remote_stopping, pending, call, ws, port, connection,
                 proxy, sessions>>

Capture == CaptureLoop \/ CaptureOnce

-------------------------------------------------------------------------------
(***************************************************************************)
(* ws_event(), in the task of the WebSocket client.                        *)
(***************************************************************************)

\* The proxy accepts a session when its slot is free (app.py, voice).
Connected ==
  /\ ws = "dialing" /\ proxy.pc = "free" /\ link = "none"
  /\ ws' = "idle" /\ s' = [s EXCEPT !.connected = TRUE]
  /\ link' = "up" /\ up' = <<>> /\ down' = <<>>
  /\ proxy' = [pc |-> "hello", left |-> 0, error |-> "none"]
  /\ UNCHANGED <<flags, pending, call, capture, mic, port, sessions, cause>>

Disconnected ==
  /\ IF stopping THEN Goes ELSE Fail
  /\ ws' = "over"
  /\ UNCHANGED <<active, ready, remote_stopping, pending, call, s, capture, mic, port, proxy, sessions>>

\* No answer, or one that denies the session: 401, 429, 503.
Denied == ws = "dialing" /\ Disconnected /\ UNCHANGED connection

Lost ==
  /\ ws = "idle" /\ down # <<>> /\ Head(down).type = "lost"
  /\ down' = Tail(down) /\ UNCHANGED <<link, up>>
  /\ Disconnected

\* Mutant: the proxy's error only stops the session.
ReceivedUnsaid(m) ==
  \/ m.type = "error" /\ Stop("stop") /\ UNCHANGED error
  \/ m.type \in {"stop", "close"} /\ Stop(m.type) /\ UNCHANGED error
  \/ m.type = "ready" /\ ready /\ Fail
  \/ m.type \in {"state", "stopping"} /\ Goes
  \/ m.type = "ready" /\ ~ready /\ Goes

\* control(), the messages that are not about playback.
Received(m) ==
  \/ m.type = "error" /\ Fail
  \/ m.type \in {"stop", "close"} /\ Stop(m.type) /\ UNCHANGED error
  \/ m.type = "ready" /\ ready /\ Fail
  \/ m.type \in {"state", "stopping"} /\ Goes
  \/ m.type = "ready" /\ ~ready /\ Goes

Event ==
  /\ ws = "idle" /\ down # <<>> /\ Head(down).type # "lost"
  /\ down' = Tail(down)
  /\ LET m == Head(down) IN
     IF stopping
     THEN Goes /\ UNCHANGED <<remote_stopping, ws>>
     ELSE /\ Received(m)
          /\ remote_stopping' = (remote_stopping \/ m.type = "stopping")
          /\ ws' = IF m.type = "ready" /\ ~ready THEN "starting" ELSE ws
  /\ UNCHANGED <<active, ready, pending, call, s, capture, mic, port, link, up, proxy, sessions>>

\* audio_voice_start.
StartAudio ==
  /\ ws = "starting"
  /\ \/ port' = TRUE /\ ws' = "started" /\ Goes
     \/ Fail /\ ws' = "idle" /\ UNCHANGED port
  /\ UNCHANGED <<active, ready, remote_stopping, pending, call, s, capture, mic,
                 connection, proxy, sessions>>

BecomeReady ==
  /\ ws = "started"
  /\ s' = [s EXCEPT !.audio_started = TRUE] /\ ready' = TRUE /\ ws' = "idle"
  /\ UNCHANGED <<active, stopping, remote_stopping, error, pending, call, capture, mic,
                 port, connection, proxy, sessions, cause>>

Socket == Connected \/ Denied \/ Lost \/ Event \/ StartAudio \/ BecomeReady

\* The connection is lost, with all that was on its way.
Break ==
  /\ link = "up"
  /\ link' = "gone" /\ up' = <<Message("close")>> /\ down' = <<Message("lost")>>
  /\ UNCHANGED <<recorder, proxy, sessions, cause>>

-------------------------------------------------------------------------------
(***************************************************************************)
(* VoiceSession.run, on the proxy.                                         *)
(***************************************************************************)

ProxyAt(pc) == proxy.pc = pc
ProxyGoto(pc) == proxy' = [proxy EXCEPT !.pc = pc]
Ends(e) == proxy' = [proxy EXCEPT !.pc = "cleanup", !.error = e]
Says(ms) == down' = IF link = "up" THEN down \o ms ELSE down

Reads == up # <<>> /\ up' = Tail(up) /\ UNCHANGED down

\* A stop ends the session quietly only where one is expected.
Handshake ==
  /\ proxy.pc \in {"hello", "chunks", "open"} /\ Reads
  /\ LET m == Head(up) IN
     CASE m.type = "close" -> Ends("none")
       [] ProxyAt("hello") /\ m.type = "hello" ->
            proxy' = [proxy EXCEPT !.pc = IF m.chunks = 0 THEN "connecting" ELSE "chunks",
                                   !.left = m.chunks]
       [] ProxyAt("chunks") /\ m.type = "chunk" ->
            proxy' = [proxy EXCEPT !.pc = IF proxy.left > 1 THEN "chunks" ELSE "connecting",
                                   !.left = @ - 1]
       [] ProxyAt("open") /\ m.type = "stop" -> Ends("none")
       [] OTHER -> Ends("protocol")

\* state "connecting"; then the provider opens while the recorder must be quiet.
Connecting ==
  /\ ProxyAt("connecting")
  /\ IF link = "up" THEN ProxyGoto("open") ELSE Ends("none")
  /\ Says(<<Message("state")>>) /\ UNCHANGED up

ProviderOpens ==
  /\ ProxyAt("open")
  /\ ProxyGoto("ready") \/ Ends("other")
  /\ UNCHANGED <<up, down>>

\* ready and state "listening", if the token has not expired.
Ready ==
  /\ ProxyAt("ready") /\ UNCHANGED up
  /\ \/ Ends("other") /\ UNCHANGED down
     \/ /\ Says(<<Message("ready"), Message("state")>>)
        /\ IF link = "up" THEN ProxyGoto("run") ELSE Ends("none")

\* device_reader
DeviceReader ==
  /\ ProxyAt("run") /\ Reads
  /\ LET m == Head(up) IN
     CASE m.type = "audio" -> UNCHANGED proxy
       [] m.type \in {"stop", "close"} -> Ends("none")
       [] OTHER -> Ends("protocol")

\* The handshake's timeout; the watchdog, the provider and the queues.
ProxyTimer ==
  /\ proxy.pc \in {"hello", "chunks", "connecting", "open", "ready", "run"}
  /\ Ends("other") /\ UNCHANGED <<up, down>>

\* Every task is cancelled and awaited, then the provider is closed.
Cleanup ==
  /\ ProxyAt("cleanup")
  /\ \/ ProxyGoto("stopping")
     \/ proxy' = [proxy EXCEPT !.pc = "stopping",
                               !.error = IF @ = "none" THEN "other" ELSE @]
  /\ UNCHANGED <<up, down>>

\* _finish: state "stopping", the error if there is one, stop.
LastWords ==
  \/ ProxyAt("stopping") /\ Says(<<Message("stopping")>>) /\ ProxyGoto("error")
  \/ /\ ProxyAt("error") /\ ProxyGoto("stop")
     /\ Says(IF proxy.error = "none" THEN <<>> ELSE <<Message("error")>>)
  \/ ProxyAt("stop") /\ Says(<<Message("stop")>>) /\ ProxyGoto("close")

\* The second for them is over, or the connection is.
Silenced == proxy.pc \in {"stopping", "error", "stop"} /\ ProxyGoto("close") /\ UNCHANGED down

\* Mutant: the transport is closed only if the last words were said.
CloseSaid ==
  /\ ProxyAt("close") /\ link = "up" /\ ProxyGoto("free")
  /\ Says(<<Message("close")>>)
  /\ link' = "shut" /\ up' = <<>>

\* The transport is closed and the slot free.
Close ==
  /\ ProxyAt("close") /\ ProxyGoto("free")
  /\ Says(<<Message("close")>>)
  /\ link' = IF link = "up" THEN "shut" ELSE "none"
  /\ up' = <<>>

ProxyStep ==
  /\ \/ /\ \/ Handshake \/ DeviceReader
           \/ Connecting \/ ProviderOpens \/ Ready
           \/ Cleanup
           \/ (LastWords \/ Silenced) /\ UNCHANGED up
        /\ UNCHANGED link
     \/ Close
  /\ UNCHANGED <<recorder, sessions, cause>>

ProxyTime == ProxyTimer /\ UNCHANGED <<recorder, link, sessions, cause>>

-------------------------------------------------------------------------------
Init ==
  /\ active = FALSE /\ stopping = FALSE /\ ready = FALSE /\ remote_stopping = FALSE
  /\ error = FALSE /\ pending = 0 /\ call = "none" /\ s = NoSession
  /\ capture = "none" /\ mic = 0 /\ ws = "none" /\ port = FALSE
  /\ link = "none" /\ up = <<>> /\ down = <<>>
  /\ proxy = [pc |-> "free", left |-> 0, error |-> "none"]
  /\ sessions = 0 /\ cause = "none"

Next ==
  \/ \E n \in Chunks : StartSession(n)
  \/ StopSession
  \/ Conversation \/ Deadlines \/ Capture \/ Socket
  \/ Break \/ ProxyStep \/ ProxyTime

Spec == Init /\ [][Next]_vars

\* The tasks run, and time passes.
FairSpec ==
  /\ Spec
  /\ WF_vars(Conversation) /\ WF_vars(Deadlines) /\ WF_vars(Capture) /\ WF_vars(Socket)
  /\ WF_vars(ProxyStep) /\ WF_vars(ProxyTime)

-------------------------------------------------------------------------------
\* When a session is shown as over nothing of it is left, neither a task nor the
\* connection nor the open port; no task runs on a session that was freed; and the
\* recorded context is wiped before the microphone is heard or the session freed.
\* It holds whichever of the tasks ends the session and wherever the others are
\* then: in a read of the microphone, or in the middle of opening the port for a
\* "ready" that came late (conversation, cleanup).
SessionReleased ==
  /\ ~active => /\ call = "none" /\ ~s.live /\ ws = "none" /\ ~port
                /\ pending = 0
  /\ s.context => s.live /\ capture = "none"
  /\ ~s.live => capture = "none" /\ ws = "none"

\* A session that is shown to have ended well was ended by its user, its time or
\* the proxy; and where the proxy took its leave, it had no error to report
\* (fail, control, _finish).
EndExplained ==
  call = "leave" /\ ~error => /\ cause # "none"
                              /\ cause = "stop" => proxy.error = "none"

\* The proxy finds a message out of place only in a session the recorder is
\* leaving: what it sends before it is ready is what the handshake expects, in
\* that order, and nothing more (voice-v2.md, conversation, handshake).
HandshakeAccepted ==
  [][proxy.error # "protocol" /\ proxy'.error = "protocol" => stopping \/ link = "gone"]_vars

\* A session comes to an end on both sides, whatever is lost and whoever stays
\* silent: the recorder can start another one and the proxy's slot is free again.
SessionEnds ==
  /\ active ~> ~active
  /\ ~ProxyAt("free") ~> ProxyAt("free")
===============================================================================
