--------------------------- MODULE VoiceClientProofs ---------------------------
(***************************************************************************)
(* For any number of sessions, any context, and any number of messages on  *)
(* their way: a session leaves nothing behind, its end is explained, and   *)
(* the handshake meets no message out of place.                            *)
(*                                                                         *)
(* Three invariants, each on top of the last.  ReleaseInv is about the     *)
(* recorder alone: for each place of the conversation task, what of the    *)
(* session there is.  EndInv follows the words of the proxy to the         *)
(* recorder: an error is said, and so heard, before the stop.  HandInv     *)
(* follows the words of the recorder to the proxy: what is on the way and  *)
(* what is left to send is together what the handshake waits for.          *)
(***************************************************************************)
EXTENDS VoiceClient, TLAPS

\* voice_session_t
Session == [live : BOOLEAN, context : BOOLEAN, left : Chunks, hello : BOOLEAN,
            connected : BOOLEAN, audio_started : BOOLEAN, capture_done : BOOLEAN]

RecorderTypes ==
  /\ active \in BOOLEAN /\ stopping \in BOOLEAN /\ ready \in BOOLEAN
  /\ error \in BOOLEAN /\ port \in BOOLEAN
  /\ pending \in Chunks /\ s \in Session

\* Where the conversation task is, and what of a session there is then.
Phases ==
  /\ call = "none" <=> ~active
  /\ pending # 0 => call = "alloc"
  /\ call \in {"none", "alloc", "leave"} => ~s.live
  /\ call \in {"open", "hello", "context"} => s.live
  /\ s.live \/ stopping \/ call \in {"none", "alloc", "leave"}

\* The context lives no longer than until it was sent or given up.
ContextKept ==
  s.context => s.live /\ call \in {"open", "wait", "hello", "context", "wipe"}

\* The capture task runs only while it is talked, or waited for.
CaptureKept ==
  /\ capture = "none" <=> s.capture_done
  /\ capture # "none" => s.live /\ call \in {"talk", "quiesce"}

\* A socket, and so a callback, is there only on a session that is there.
SocketKept ==
  ws # "none" => s.live /\ call \notin {"none", "alloc", "open", "audio", "free", "leave"}

\* The port is open only where the cleanup will find it open.
PortKept ==
  port => /\ ws = "started" \/ s.audio_started
          /\ call \notin {"none", "alloc", "open", "free", "leave"}

ReleaseInv ==
  /\ RecorderTypes /\ Phases
  /\ ContextKept /\ CaptureKept /\ SocketKept /\ PortKept

LEMMA FreshSession ==
  /\ NoSession \in Session /\ 0 \in Chunks
  /\ ~NoSession.live /\ ~NoSession.context /\ ~NoSession.audio_started /\ NoSession.capture_done
  /\ ~NoSession.hello /\ NoSession.left = 0
BY VoiceClientAssumption DEF NoSession, Session, Chunks

LEMMA ReleaseInvInit == Init => ReleaseInv
BY FreshSession
   DEF Init, ReleaseInv, RecorderTypes, Phases, ContextKept, CaptureKept, SocketKept, PortKept

LEMMA AllocateReleases == ASSUME ReleaseInv, Allocate PROVE ReleaseInv'
<1> DEFINE new == [NoSession EXCEPT !.live = TRUE, !.context = pending # 0, !.left = pending]
<1>1. /\ new \in Session /\ new.live /\ ~new.audio_started /\ new.capture_done
      /\ new.context \in BOOLEAN
  BY DEF NoSession, Session, ReleaseInv, RecorderTypes
<1>2. s' \in {s, new}
  BY DEF Allocate
<1> QED
  BY <1>1, <1>2, FreshSession DEF Allocate, CallAt, CallGoto, Goes, Fail, ReleaseInv,
          RecorderTypes, Phases,
     ContextKept, CaptureKept, SocketKept, PortKept, Chunks

LEMMA ConversationReleases == ASSUME ReleaseInv, Conversation PROVE ReleaseInv'
<1> USE DEF CallAt, CallGoto, Goes, Fail, Sends, SendFails, flags, connection,
            ReleaseInv, RecorderTypes, Phases, ContextKept, CaptureKept, SocketKept, PortKept
<1>1. CASE Allocate  BY <1>1, AllocateReleases
<1>2. CASE Open  BY <1>2 DEF Open
<1>3. CASE Wait  BY <1>3 DEF Wait
<1>4. CASE SendHello  BY <1>4 DEF SendHello, Session
<1>5. CASE SendChunk
  <2>1. s' = s \/ (s' = [s EXCEPT !.left = s.left - 1] /\ s.left # 0)
    <3>1. CASE s.left = 0 \/ stopping  BY <1>5, <3>1 DEF SendChunk
    <3>2. CASE s.left # 0 /\ ~stopping  BY <1>5, <3>2 DEF SendChunk
    <3> QED BY <3>1, <3>2
  <2>2. s' \in Session /\ s'.live = s.live /\ s'.context = s.context
        /\ s'.capture_done = s.capture_done /\ s'.audio_started = s.audio_started
    BY <2>1, VoiceClientAssumption DEF Session, Chunks
  <2> QED BY <1>5, <2>2 DEF SendChunk
<1>6. CASE WipeContext  BY <1>6 DEF WipeContext, Session
<1>7. CASE StartCapture  BY <1>7 DEF StartCapture, Session
<1>8. CASE SendFrame  BY <1>8 DEF SendFrame
<1>9. CASE TalkEnds  BY <1>9 DEF TalkEnds
<1>10. CASE Quiesce  BY <1>10 DEF Quiesce
<1>11. CASE Mute  BY <1>11 DEF Mute
<1>12. CASE Farewell  BY <1>12 DEF Farewell
<1>13. CASE StopSocket  BY <1>13 DEF StopSocket
<1>14. CASE StopAudio
  <2>1. ~port'
    BY <1>14 DEF StopAudio
  <2> QED BY <1>14, <2>1 DEF StopAudio
<1>15. CASE FreeSession
  <2>1. ~s.context
    BY <1>15 DEF FreeSession
  <2>2. s' \in Session /\ ~s'.live /\ ~s'.context /\ ~s'.audio_started /\ s'.capture_done
    BY <1>15, <2>1, FreshSession DEF FreeSession, Session
  <2>3. /\ call = "free" /\ call' = "leave"
        /\ UNCHANGED <<active, stopping, ready, error, pending, capture, ws, port>>
    BY <1>15 DEF FreeSession
  <2>4. ws = "none" /\ capture = "none" /\ ~port
    BY <2>3
  <2> QED BY <2>2, <2>3, <2>4
<1>16. CASE Leave  BY <1>16 DEF Leave
<1> QED BY <1>1, <1>2, <1>3, <1>4, <1>5, <1>6, <1>7, <1>8, <1>9, <1>10, <1>11, <1>12,
           <1>13, <1>14, <1>15, <1>16 DEF Conversation

LEMMA OthersRelease ==
  ASSUME ReleaseInv, Deadlines \/ Capture \/ Socket \/ StopSession \/ Break \/ ProxyStep
          \/ ProxyTime
  PROVE  ReleaseInv'
<1> DEFINE Stays == /\ stopping' \in {stopping, TRUE} /\ error' \in {error, TRUE}
                    /\ UNCHANGED <<active, ready, pending, call, s, capture>>
<1> USE DEF CallAt, CallGoto, Goes, Fail, Stop, flags, connection,
            ReleaseInv, RecorderTypes, Phases, ContextKept, CaptureKept, SocketKept, PortKept
<1>1. CASE ReadyLate  BY <1>1 DEF ReadyLate
<1>2. CASE Drained  BY <1>2 DEF Drained
<1>3. CASE SessionOver  BY <1>3 DEF SessionOver
<1>4. CASE CaptureLoop  BY <1>4 DEF CaptureLoop, Session
<1>5. CASE CaptureOnce  BY <1>5 DEF CaptureOnce, Session
<1>6. CASE Connected  BY <1>6 DEF Connected, Session
<1>7. CASE Denied \/ Lost
  <2>1. Disconnected /\ ws # "none" /\ ws # "started"
    BY <1>7 DEF Denied, Lost
  <2> QED BY <2>1 DEF Disconnected
<1>8. CASE Event
  <2>1. Stays /\ ws = "idle" /\ ws' \in {"idle", "starting"} /\ UNCHANGED port
    BY <1>8 DEF Event, Received
  <2> QED BY <2>1
<1>9. CASE StartAudio
  <2>1. Stays /\ ws = "starting"
    BY <1>9 DEF StartAudio
  <2>2. CASE port' = TRUE /\ ws' = "started"
    BY <2>1, <2>2
  <2>3. CASE port' = port /\ ws' = "idle"
    BY <2>1, <2>3
  <2> QED BY <1>9, <2>2, <2>3 DEF StartAudio
<1>10. CASE BecomeReady  BY <1>10 DEF BecomeReady, Session
<1>11. CASE StopSession  BY <1>11 DEF StopSession
<1>12. CASE Break \/ ProxyStep \/ ProxyTime
  BY <1>12 DEF Break, ProxyStep, ProxyTime, recorder
<1> QED BY <1>1, <1>2, <1>3, <1>4, <1>5, <1>6, <1>7, <1>8, <1>9, <1>10, <1>11, <1>12
        DEF Deadlines, Capture, Socket

LEMMA StartReleases ==
  ASSUME ReleaseInv, NEW n \in Chunks, StartSession(n) PROVE ReleaseInv'
<1>1. call = "none" /\ ~s.live
  BY DEF StartSession, ReleaseInv, Phases
<1>2. CASE active'
  BY <1>1, <1>2 DEF StartSession, CallGoto, ReleaseInv, RecorderTypes, Phases, ContextKept,
     CaptureKept, SocketKept, PortKept
<1>3. CASE ~active'
  BY <1>1, <1>3 DEF StartSession, CallGoto, ReleaseInv, RecorderTypes, Phases, ContextKept,
     CaptureKept, SocketKept, PortKept
<1> QED BY <1>2, <1>3 DEF StartSession

LEMMA NextReleases == ASSUME ReleaseInv, [Next]_vars PROVE ReleaseInv'
<1>1. CASE UNCHANGED vars
  BY <1>1 DEF vars, recorder, flags, ReleaseInv, RecorderTypes, Phases, ContextKept,
     CaptureKept, SocketKept, PortKept
<1>2. CASE Next
  BY <1>2, ConversationReleases, OthersRelease, StartReleases DEF Next
<1> QED BY <1>1, <1>2

LEMMA ReleaseHolds == Spec => []ReleaseInv
BY ReleaseInvInit, NextReleases, PTL DEF Spec

\* Whoever ends a session and wherever its tasks are then: no task runs on a
\* session that was freed, the socket and the port are closed before it is, and
\* the context is wiped before the microphone is heard (conversation, cleanup).
THEOREM ReleasedSafe == Spec => []SessionReleased
<1>1. ReleaseInv => SessionReleased
  BY DEF ReleaseInv, RecorderTypes, Phases, ContextKept, CaptureKept, SocketKept, PortKept,
     SessionReleased
<1> QED BY <1>1, ReleaseHolds, PTL

-------------------------------------------------------------------------------
Kinds == {"hello", "chunk", "audio", "stop", "close", "lost", "state", "ready",
          "stopping", "error"}
Messages == [type : Kinds, chunks : Chunks]
Proxy == [pc : {"free", "hello", "chunks", "connecting", "open", "ready", "run", "cleanup",
                "stopping", "error", "stop", "close"},
          left : Chunks, error : {"none", "protocol", "other"}]

ConnectionTypes ==
  /\ up \in Seq(Messages) /\ down \in Seq(Messages)
  /\ proxy \in Proxy
  /\ proxy.pc = "chunks" => proxy.left # 0
  /\ link \in {"none", "up", "gone", "shut"}

LEMMA MessageTypes ==
  /\ \A t \in Kinds : Message(t) \in Messages /\ Message(t).type = t
  /\ \A n \in Chunks : Hello(n) \in Messages /\ Hello(n).type = "hello" /\ Hello(n).chunks = n
BY FreshSession DEF Message, Hello, Messages, Kinds

LEMMA TailType ==
  ASSUME NEW q \in Seq(Messages), q # <<>>
  PROVE  /\ Head(q) = q[1] /\ Head(q) \in Messages /\ Tail(q) \in Seq(Messages)
         /\ Len(q) \in Nat \ {0} /\ Len(Tail(q)) = Len(q) - 1
         /\ \A i \in 1..Len(Tail(q)) : Tail(q)[i] = q[i + 1]
OBVIOUS

LEMMA AppendType ==
  ASSUME NEW q \in Seq(Messages), NEW m \in Messages
  PROVE  /\ Append(q, m) \in Seq(Messages) /\ Len(q) \in Nat
         /\ Len(Append(q, m)) = Len(q) + 1 /\ Append(q, m)[Len(q) + 1] = m
         /\ \A i \in 1..Len(q) : Append(q, m)[i] = q[i]
OBVIOUS

LEMMA SingleType ==
  ASSUME NEW m \in Messages
  PROVE  /\ <<m>> \in Seq(Messages) /\ Len(<<m>>) = 1 /\ <<m>>[1] = m
         /\ <<>> \in Seq(Messages)
OBVIOUS

LEMMA ConcatType ==
  ASSUME NEW q \in Seq(Messages), NEW ms \in Seq(Messages)
  PROVE  /\ q \o ms \in Seq(Messages) /\ Len(q) \in Nat /\ Len(ms) \in Nat
         /\ Len(q \o ms) = Len(q) + Len(ms)
         /\ \A i \in 1..Len(q) : (q \o ms)[i] = q[i]
         /\ \A i \in 1..Len(ms) : (q \o ms)[Len(q) + i] = ms[i]
OBVIOUS

\* The device's tasks put at most one message on its way.
LEMMA RecorderKeepsTypes ==
  ASSUME ReleaseInv, ConnectionTypes,
         Conversation \/ Deadlines \/ Capture \/ StopSession \/ \E n \in Chunks : StartSession(n)
  PROVE  ConnectionTypes'
<1> USE DEF ConnectionTypes
<1>1. CASE UNCHANGED <<up, down, proxy, link>>
  BY <1>1
<1>2. CASE SendHello \/ SendChunk \/ SendFrame \/ Farewell
  <2>1. /\ Hello(s.left) \in Messages /\ Message("chunk") \in Messages
        /\ Message("audio") \in Messages /\ Message("stop") \in Messages
    BY MessageTypes DEF Kinds, ReleaseInv, RecorderTypes, Session
  <2>2. UNCHANGED <<down, proxy, link>>
    BY <1>2 DEF SendHello, SendChunk, SendFrame, Farewell
  <2>3. up' = up \/ \E m \in Messages : up' = Append(up, m)
    BY <1>2, <2>1 DEF SendHello, SendChunk, SendFrame, Farewell, Sends, SendFails
  <2> QED BY <2>2, <2>3, AppendType
<1>3. CASE StopSocket
  <2>1. Message("close") \in Messages
    BY MessageTypes DEF Kinds
  <2> QED BY <1>3, <2>1, AppendType, SingleType DEF StopSocket
<1> QED
  BY <1>1, <1>2, <1>3
  DEF Conversation, Deadlines, Capture, StopSession, StartSession, Allocate, Open, Wait,
          WipeContext,
      StartCapture, TalkEnds, Quiesce, Mute, StopAudio, FreeSession, Leave, ReadyLate,
      Drained, SessionOver, CaptureLoop, CaptureOnce, connection

LEMMA SocketKeepsTypes ==
  ASSUME ConnectionTypes, Socket \/ Break PROVE ConnectionTypes'
<1> USE DEF ConnectionTypes
<1>1. CASE UNCHANGED <<up, down, proxy, link>>
  BY <1>1
<1>2. CASE Connected
  <2>1. proxy' \in Proxy /\ proxy'.pc = "hello"
    BY <1>2, FreshSession DEF Connected, Proxy
  <2> QED BY <1>2, <2>1, SingleType DEF Connected
<1>3. CASE Lost \/ Event
  BY <1>3, TailType DEF Lost, Event, Disconnected
<1>4. CASE Break
  <2>1. Message("close") \in Messages /\ Message("lost") \in Messages
    BY MessageTypes DEF Kinds
  <2> QED BY <1>4, <2>1, SingleType DEF Break
<1> QED
  BY <1>1, <1>2, <1>3, <1>4 DEF Socket, Denied, Disconnected, StartAudio, BecomeReady, connection

\* What the proxy says, if anything.
LEMMA SaysTypes ==
  ASSUME ConnectionTypes, NEW ms \in Seq(Messages), Says(ms)
  PROVE  down' \in Seq(Messages)
BY ConcatType DEF ConnectionTypes, Says

LEMMA ProxySays ==
  ASSUME ConnectionTypes
  PROVE  /\ Says(<<Message("state")>>) => down' \in Seq(Messages)
         /\ Says(<<Message("ready"), Message("state")>>) => down' \in Seq(Messages)
         /\ Says(<<Message("stopping")>>) => down' \in Seq(Messages)
         /\ Says(<<Message("error")>>) => down' \in Seq(Messages)
         /\ Says(<<Message("stop")>>) => down' \in Seq(Messages)
         /\ Says(<<Message("close")>>) => down' \in Seq(Messages)
         /\ Says(<< >>) => down' \in Seq(Messages)
<1>1. \A t \in Kinds : Message(t) \in Messages
  BY MessageTypes
<1>2. /\ <<Message("state")>> \in Seq(Messages)
      /\ <<Message("ready"), Message("state")>> \in Seq(Messages)
      /\ <<Message("stopping")>> \in Seq(Messages) /\ <<Message("error")>> \in Seq(Messages)
      /\ <<Message("stop")>> \in Seq(Messages) /\ <<Message("close")>> \in Seq(Messages)
      /\ << >> \in Seq(Messages)
  BY <1>1 DEF Kinds
<1> QED BY <1>2, SaysTypes

LEMMA ProxyPlaces ==
  ASSUME ConnectionTypes
  PROVE  /\ \A e \in {"none", "protocol", "other"} :
              Ends(e) => proxy' \in Proxy /\ proxy'.pc = "cleanup" /\ proxy'.error = e
                         /\ proxy'.left = proxy.left
         /\ \A p \in {"connecting", "open", "ready", "run", "stopping", "error", "stop",
                      "close", "free"} :
              ProxyGoto(p) => proxy' \in Proxy /\ proxy'.pc = p /\ proxy'.error = proxy.error
                              /\ proxy'.left = proxy.left
BY DEF ConnectionTypes, Proxy, Ends, ProxyGoto

\* Each message of the handshake, by what it is answered with.
LEMMA HandshakeSteps ==
  ASSUME ConnectionTypes, Handshake
  PROVE  LET m == up[1] IN
         /\ up # <<>> /\ up' = Tail(up) /\ UNCHANGED down
         /\ proxy.pc \in {"hello", "chunks", "open"}
         /\ \/ Ends("none")
            \/ /\ ProxyAt("hello") /\ m.type = "hello"
               /\ proxy'.pc = IF m.chunks = 0 THEN "connecting" ELSE "chunks"
               /\ proxy'.left = m.chunks /\ proxy'.error = proxy.error /\ proxy' \in Proxy
            \/ /\ ProxyAt("chunks") /\ m.type = "chunk"
               /\ proxy'.pc = IF proxy.left > 1 THEN "chunks" ELSE "connecting"
               /\ proxy'.left = proxy.left - 1 /\ proxy'.error = proxy.error /\ proxy' \in Proxy
            \/ /\ Ends("protocol")
               /\ ~(ProxyAt("hello") /\ m.type = "hello")
               /\ ~(ProxyAt("chunks") /\ m.type = "chunk")
               /\ m.type # "close"
               /\ ~(ProxyAt("open") /\ m.type = "stop")
<1>1. up # <<>> /\ up' = Tail(up) /\ UNCHANGED down /\ proxy.pc \in {"hello", "chunks", "open"}
  BY DEF Handshake, Reads
<1>2. Head(up) = up[1] /\ up[1] \in Messages
  BY <1>1, TailType DEF ConnectionTypes
<1> DEFINE m == up[1]
<1>3. m.chunks \in Chunks /\ proxy \in Proxy /\ (ProxyAt("chunks") => proxy.left # 0)
  BY <1>2 DEF Messages, ConnectionTypes, ProxyAt
<1>4. CASE m.type = "close"
  BY <1>1, <1>2, <1>4 DEF Handshake
<1>5. CASE ProxyAt("hello") /\ m.type = "hello"
  <2>1. proxy' = [proxy EXCEPT !.pc = IF m.chunks = 0 THEN "connecting" ELSE "chunks",
                               !.left = m.chunks]
    BY <1>2, <1>5 DEF Handshake, ProxyAt
  <2> QED BY <1>1, <1>3, <1>5, <2>1 DEF Proxy
<1>6. CASE ProxyAt("chunks") /\ m.type = "chunk"
  <2>1. proxy' = [proxy EXCEPT !.pc = IF proxy.left > 1 THEN "chunks" ELSE "connecting",
                               !.left = proxy.left - 1]
    BY <1>2, <1>6 DEF Handshake, ProxyAt
  <2>2. proxy.left - 1 \in Chunks
    BY <1>3, <1>6, VoiceClientAssumption DEF Proxy, Chunks
  <2> QED BY <1>1, <1>3, <1>6, <2>1, <2>2 DEF Proxy
<1>7. CASE ProxyAt("open") /\ m.type = "stop"
  BY <1>1, <1>2, <1>7 DEF Handshake, ProxyAt
<1>8. CASE /\ m.type # "close" /\ ~(ProxyAt("hello") /\ m.type = "hello")
           /\ ~(ProxyAt("chunks") /\ m.type = "chunk") /\ ~(ProxyAt("open") /\ m.type = "stop")
  BY <1>1, <1>2, <1>8 DEF Handshake
<1> QED BY <1>4, <1>5, <1>6, <1>7, <1>8

LEMMA ProxyKeepsTypes ==
  ASSUME ConnectionTypes, ProxyStep \/ ProxyTime PROVE ConnectionTypes'
<1>0. link' \in {"none", "up", "gone", "shut"}
  BY DEF ProxyStep, ProxyTime, Close, ConnectionTypes
<1>1. CASE Handshake
  <2>1. up' \in Seq(Messages) /\ UNCHANGED down
    BY <1>1, HandshakeSteps, TailType DEF ConnectionTypes
  <2>2. proxy' \in Proxy /\ (proxy'.pc = "chunks" => proxy'.left # 0)
    BY <1>1, HandshakeSteps, ProxyPlaces, VoiceClientAssumption
       DEF ConnectionTypes, ProxyAt, Proxy, Chunks
  <2> QED BY <1>0, <2>1, <2>2 DEF ConnectionTypes
<1>2. CASE DeviceReader
  <2>1. up' \in Seq(Messages) /\ UNCHANGED down
    BY <1>2, TailType DEF DeviceReader, Reads, ConnectionTypes
  <2>2. UNCHANGED proxy \/ Ends("none") \/ Ends("protocol")
    BY <1>2 DEF DeviceReader
  <2> QED BY <1>0, <2>1, <2>2, ProxyPlaces DEF ConnectionTypes
<1>3. CASE Connecting \/ ProviderOpens \/ Ready \/ ProxyTimer
  <2>1. UNCHANGED up /\ down' \in Seq(Messages)
    BY <1>3, ProxySays DEF Connecting, ProviderOpens, Ready, ProxyTimer, ConnectionTypes
  <2>2. ProxyGoto("open") \/ ProxyGoto("ready") \/ ProxyGoto("run") \/ Ends("none") \/ Ends("other")
    BY <1>3 DEF Connecting, ProviderOpens, Ready, ProxyTimer
  <2> QED BY <1>0, <2>1, <2>2, ProxyPlaces DEF ConnectionTypes
<1>4. CASE Cleanup
  <2>1. proxy' \in Proxy /\ proxy'.pc = "stopping"
    BY <1>4 DEF Cleanup, ProxyGoto, ConnectionTypes, Proxy
  <2> QED BY <1>0, <1>4, <2>1 DEF Cleanup, ConnectionTypes
<1>5. CASE (LastWords \/ Silenced) /\ UNCHANGED up
  <2>1. down' \in Seq(Messages)
    BY <1>5, ProxySays DEF LastWords, Silenced, ConnectionTypes
  <2>2. ProxyGoto("error") \/ ProxyGoto("stop") \/ ProxyGoto("close")
    BY <1>5 DEF LastWords, Silenced
  <2> QED BY <1>0, <1>5, <2>1, <2>2, ProxyPlaces DEF ConnectionTypes
<1>6. CASE Close
  <2>1. down' \in Seq(Messages) /\ up' \in Seq(Messages)
    BY <1>6, ProxySays, SingleType DEF Close
  <2>2. ProxyGoto("free")
    BY <1>6 DEF Close
  <2> QED BY <1>0, <2>1, <2>2, ProxyPlaces DEF ConnectionTypes
<1> QED BY <1>1, <1>2, <1>3, <1>4, <1>5, <1>6 DEF ProxyStep, ProxyTime

LEMMA NextKeepsTypes ==
  ASSUME ReleaseInv, ConnectionTypes, [Next]_vars PROVE ConnectionTypes'
<1>1. CASE UNCHANGED vars
  BY <1>1 DEF vars, connection, ConnectionTypes
<1> QED
  BY <1>1, RecorderKeepsTypes, SocketKeepsTypes, ProxyKeepsTypes DEF Next

LEMMA InitTypes == Init => ConnectionTypes
BY FreshSession, SingleType DEF Init, ConnectionTypes, Proxy

-------------------------------------------------------------------------------
Leaving == {"quiesce", "mute", "farewell", "stop", "audio", "free", "leave"}
Over == proxy.pc \in {"close", "free"}

\* A session is left only when it was stopped, and stopped only for a reason.
Explained ==
  active => /\ error \/ call \in Leaving => stopping
            /\ stopping /\ ~error => cause # "none"

\* Before the recorder is connected, and once it has left, nothing reaches it.
Silent == ws \in {"none", "made", "dialing"} => link # "up" /\ down = <<>>
Unheard == ws = "dialing" \/ call \in {"alloc", "open"} => ~ready /\ cause # "stop"

\* The error, if there is one, is said before the last word.
Told(n) == \E j \in 1..n : down[j].type = "error"
Fine(n) == proxy.error = "none" \/ stopping \/ Told(n)
WordsTrue ==
  /\ proxy.pc = "stop" /\ link = "up" => Fine(Len(down))
  /\ \A i \in 1..Len(down) : down[i].type = "stop" => Over /\ Fine(i - 1)

StopTrue == cause = "stop" => Over /\ proxy.error = "none"

EndInv == Explained /\ Silent /\ Unheard /\ WordsTrue /\ StopTrue

LEMMA EndInvInit == Init => EndInv
BY DEF Init, EndInv, Explained, Silent, Unheard, WordsTrue, StopTrue, Leaving

\* What the tasks of the recorder do that is not a message from the proxy.
Apart ==
  /\ UNCHANGED <<down, link, proxy>>
  /\ stopping => stopping'
  /\ cause' = "stop" => cause = "stop"

LEMMA ApartKeeps ==
  ASSUME EndInv, Apart PROVE WordsTrue' /\ StopTrue'
BY DEF EndInv, Apart, WordsTrue, StopTrue, Fine, Told, Over

LEMMA ConversationEnds ==
  ASSUME ReleaseInv, EndInv, Conversation PROVE EndInv'
<1> USE DEF CallAt, CallGoto, Goes, Fail, Sends, SendFails, flags, connection,
            Explained, Silent, Unheard, Leaving
<1>1. Explained /\ Silent /\ Unheard /\ active \in BOOLEAN /\ stopping \in BOOLEAN
        /\ error \in BOOLEAN
  BY DEF EndInv, ReleaseInv, RecorderTypes
<1>2. call \in {"none", "alloc", "open", "audio", "free", "leave"} => ws = "none"
  BY DEF ReleaseInv, SocketKept
<1> HIDE DEF ReleaseInv, EndInv
<1>3. CASE StopSocket
  <2>1. Explained' /\ Silent' /\ Unheard'  BY <1>1, <1>2, <1>3 DEF StopSocket
  <2>2. down' = <<>> /\ link' # "up" /\ UNCHANGED <<proxy, cause>>
    BY <1>3 DEF StopSocket
  <2> QED BY <2>1, <2>2 DEF EndInv, WordsTrue, StopTrue, Over
<1>4. CASE ~StopSocket
  <2> SUFFICES Explained' /\ Silent' /\ Unheard' /\ Apart
    BY ApartKeeps DEF EndInv
  <2>1. CASE Allocate  BY <1>1, <1>2, <2>1 DEF Allocate, Apart
  <2>2. CASE Open  BY <1>1, <1>2, <2>2 DEF Open, Apart
  <2>3. CASE Wait  BY <1>1, <1>2, <2>3 DEF Wait, Apart
  <2>4. CASE SendHello  BY <1>1, <1>2, <2>4 DEF SendHello, Apart
  <2>5. CASE SendChunk  BY <1>1, <1>2, <2>5 DEF SendChunk, Apart
  <2>6. CASE WipeContext  BY <1>1, <1>2, <2>6 DEF WipeContext, Apart
  <2>7. CASE StartCapture  BY <1>1, <1>2, <2>7 DEF StartCapture, Apart
  <2>8. CASE SendFrame  BY <1>1, <1>2, <2>8 DEF SendFrame, Apart
  <2>9. CASE TalkEnds  BY <1>1, <1>2, <2>9 DEF TalkEnds, Apart
  <2>10. CASE Quiesce  BY <1>1, <1>2, <2>10 DEF Quiesce, Apart
  <2>11. CASE Mute  BY <1>1, <1>2, <2>11 DEF Mute, Apart
  <2>12. CASE Farewell  BY <1>1, <1>2, <2>12 DEF Farewell, Apart
  <2>13. CASE StopAudio  BY <1>1, <1>2, <2>13 DEF StopAudio, Apart
  <2>14. CASE FreeSession  BY <1>1, <1>2, <2>14 DEF FreeSession, Apart
  <2>15. CASE Leave  BY <1>1, <1>2, <2>15 DEF Leave, Apart
  <2> QED
    BY <1>4, <2>1, <2>2, <2>3, <2>4, <2>5, <2>6, <2>7, <2>8, <2>9, <2>10,
       <2>11, <2>12, <2>13, <2>14, <2>15 DEF Conversation
<1> QED BY <1>3, <1>4

LEMMA DevicesEnd ==
  ASSUME ReleaseInv, EndInv,
         Deadlines \/ Capture \/ StopSession \/ \E n \in Chunks : StartSession(n)
  PROVE  EndInv'
<1> USE DEF CallAt, CallGoto, Goes, Fail, Stop, flags, connection,
            Explained, Silent, Unheard, Leaving
<1>1. Explained /\ Silent /\ Unheard /\ active \in BOOLEAN /\ stopping \in BOOLEAN
        /\ error \in BOOLEAN
  BY DEF EndInv, ReleaseInv, RecorderTypes
<1>2. /\ call \in {"none", "alloc", "open", "audio", "free", "leave"} => ws = "none"
      /\ call = "none" <=> ~active
  BY DEF ReleaseInv, SocketKept, Phases
<1> HIDE DEF ReleaseInv, EndInv
<1>3. CASE Deadlines \/ Capture \/ StopSession
  <2> SUFFICES Explained' /\ Silent' /\ Unheard' /\ Apart
    BY ApartKeeps DEF EndInv
  <2>1. CASE ReadyLate  BY <1>1, <1>2, <2>1 DEF ReadyLate, Apart
  <2>2. CASE Drained  BY <1>1, <1>2, <2>2 DEF Drained, Apart
  <2>3. CASE SessionOver  BY <1>1, <1>2, <2>3 DEF SessionOver, Apart
  <2>4. CASE CaptureLoop  BY <1>1, <1>2, <2>4 DEF CaptureLoop, Apart
  <2>5. CASE CaptureOnce  BY <1>1, <1>2, <2>5 DEF CaptureOnce, Apart
  <2>6. CASE StopSession  BY <1>1, <1>2, <2>6 DEF StopSession, Apart
  <2> QED BY <1>3, <2>1, <2>2, <2>3, <2>4, <2>5, <2>6 DEF Deadlines, Capture
<1>4. ASSUME NEW n \in Chunks, StartSession(n) PROVE EndInv'
  <2>1. link # "up" /\ down = <<>> /\ UNCHANGED connection /\ UNCHANGED proxy /\ cause' = "none"
    BY <1>1, <1>2, <1>4 DEF StartSession
  <2>2. Explained' /\ Silent' /\ Unheard'
    BY <1>1, <1>2, <1>4 DEF StartSession
  <2> QED BY <2>1, <2>2 DEF EndInv, WordsTrue, StopTrue
<1> QED BY <1>3, <1>4

\* Nothing the proxy has yet to say is lost from what is Told when the recorder
\* takes a message that is not an error.
LEMMA TakenWords ==
  ASSUME ConnectionTypes, WordsTrue, down # <<>>, down' = Tail(down),
         UNCHANGED <<link, proxy>>, stopping => stopping',
         stopping' \/ down[1].type # "error"
  PROVE  WordsTrue'
<1>1. /\ Len(down) \in Nat \ {0} /\ Len(down') = Len(down) - 1
      /\ \A i \in 1..Len(down') : down'[i] = down[i + 1]
  BY TailType DEF ConnectionTypes
<1>2. ASSUME NEW n \in 0..Len(down'), Fine(n + 1) PROVE Fine(n)'
  <2>1. CASE proxy.error = "none" \/ stopping  BY <2>1 DEF Fine
  <2>2. CASE Told(n + 1) /\ ~stopping'
    <3>1. PICK j \in 1..(n + 1) : down[j].type = "error"
      BY <2>2 DEF Told
    <3>2. j - 1 \in 1..n /\ down'[j - 1] = down[j]
      BY <1>1, <2>2, <3>1
    <3> QED BY <3>1, <3>2 DEF Fine, Told
  <2> QED BY <1>2, <2>1, <2>2 DEF Fine
<1>3. proxy'.pc = "stop" /\ link' = "up" => Fine(Len(down))'
  <2>1. Len(down') \in 0..Len(down') /\ Len(down') + 1 = Len(down)
    BY <1>1
  <2> QED BY <1>2, <2>1 DEF WordsTrue
<1>4. ASSUME NEW i \in 1..Len(down'), down'[i].type = "stop" PROVE Over' /\ Fine(i - 1)'
  <2>1. i + 1 \in 1..Len(down) /\ i - 1 \in 0..Len(down') /\ (i - 1) + 1 = (i + 1) - 1
    BY <1>1
  <2>2. Over /\ Fine((i + 1) - 1)
    BY <1>1, <1>4, <2>1 DEF WordsTrue
  <2> QED BY <1>2, <2>1, <2>2 DEF Over
<1> QED BY <1>3, <1>4 DEF WordsTrue

LEMMA SocketEnds ==
  ASSUME ReleaseInv, ConnectionTypes, EndInv, Socket \/ Break PROVE EndInv'
<1> USE DEF Goes, Fail, Stop, flags, connection, Explained, Silent, Unheard, Leaving
<1>1. Explained /\ Silent /\ Unheard /\ active \in BOOLEAN /\ stopping \in BOOLEAN
        /\ error \in BOOLEAN
  BY DEF EndInv, ReleaseInv, RecorderTypes
<1>2. call \in {"none", "alloc", "open", "audio", "free", "leave"} => ws = "none"
  BY DEF ReleaseInv, SocketKept
<1>3. WordsTrue /\ StopTrue
  BY DEF EndInv
<1> HIDE DEF ReleaseInv, EndInv
<1>4. CASE Connected
  <2>1. cause' # "stop" /\ down' = <<>> /\ proxy'.pc = "hello"
    BY <1>1, <1>4 DEF Connected
  <2>2. Explained' /\ Silent' /\ Unheard'
    BY <1>1, <1>2, <1>4 DEF Connected
  <2> QED BY <2>1, <2>2 DEF EndInv, WordsTrue, StopTrue
<1>5. CASE Denied \/ StartAudio \/ BecomeReady
  <2> SUFFICES Explained' /\ Silent' /\ Unheard' /\ Apart
    BY ApartKeeps DEF EndInv
  <2>1. CASE Denied  BY <1>1, <1>2, <2>1 DEF Denied, Disconnected, Apart
  <2>2. CASE StartAudio  BY <1>1, <1>2, <2>2 DEF StartAudio, Apart
  <2>3. CASE BecomeReady  BY <1>1, <1>2, <2>3 DEF BecomeReady, Apart
  <2> QED BY <1>5, <2>1, <2>2, <2>3
<1>6. CASE Lost
  <2>1. Explained' /\ Silent' /\ Unheard' /\ stopping' /\ cause' = cause
    BY <1>1, <1>2, <1>6 DEF Lost, Disconnected
  <2>2. down # <<>> /\ down' = Tail(down) /\ UNCHANGED <<link, proxy>>
    BY <1>6 DEF Lost, Disconnected
  <2> QED BY <1>3, <2>1, <2>2, TakenWords DEF EndInv, StopTrue, Over
<1>7. CASE Event
  <2>1. down # <<>> /\ down' = Tail(down) /\ UNCHANGED <<link, proxy>>
    BY <1>7 DEF Event
  <2>2. down[1] = Head(down) /\ down[1] \in Messages /\ 1 \in 1..Len(down)
    BY <2>1, TailType DEF ConnectionTypes
  <2>3. Explained' /\ Silent' /\ Unheard'
    BY <1>1, <1>2, <1>7 DEF Event, Received
  <2>4. WordsTrue'
    <3>1. (stopping => stopping') /\ (stopping' \/ down[1].type # "error")
      BY <1>1, <1>7, <2>2 DEF Event, Received
    <3> QED BY <1>3, <2>1, <3>1, TakenWords
  <2>5. StopTrue'
    <3>1. CASE cause' = "stop" /\ cause # "stop"
      <4>1. down[1].type = "stop" /\ ~stopping
        BY <1>7, <2>2, <3>1 DEF Event, Received
      <4>2. Over /\ Fine(0)
        BY <1>3, <2>2, <4>1 DEF WordsTrue
      <4>3. proxy.error = "none"
        BY <4>1, <4>2 DEF Fine, Told
      <4> QED BY <2>1, <4>2, <4>3 DEF StopTrue, Over
    <3>2. CASE ~(cause' = "stop" /\ cause # "stop")
      BY <1>3, <2>1, <3>2 DEF StopTrue, Over
    <3> QED BY <3>1, <3>2
  <2> QED BY <2>3, <2>4, <2>5 DEF EndInv
<1>8. CASE Break
  <2>1. link' = "gone" /\ Len(down') = 1 /\ down'[1].type = "lost" /\ UNCHANGED <<proxy, cause>>
    BY <1>8, MessageTypes DEF Break, Kinds
  <2>2. Explained' /\ Silent' /\ Unheard'
    BY <1>1, <1>2, <1>8 DEF Break, recorder
  <2> QED BY <1>3, <2>1, <2>2 DEF EndInv, WordsTrue, StopTrue, Over
<1> QED BY <1>4, <1>5, <1>6, <1>7, <1>8 DEF Socket

LEMMA ToldLater ==
  ASSUME ConnectionTypes, NEW ms \in Seq(Messages), Says(ms)
  PROVE  /\ \A n \in 0..Len(down) : Told(n) => Told(n)'
         /\ Len(down) \in Nat /\ Len(down') \in {Len(down), Len(down) + Len(ms)}
         /\ link # "up" => down' = down
         /\ link = "up" => Len(down') = Len(down) + Len(ms)
         /\ \A i \in 1..Len(down) : down'[i] = down[i]
         /\ link = "up" => \A i \in 1..Len(ms) : down'[Len(down) + i] = ms[i]
<1>1. CASE link # "up"
  BY <1>1 DEF Says, Told, ConnectionTypes
<1>2. CASE link = "up"
  <2>1. down' = down \o ms /\ down \in Seq(Messages)
    BY <1>2 DEF Says, ConnectionTypes
  <2>2. /\ Len(down) \in Nat /\ Len(ms) \in Nat /\ Len(down') = Len(down) + Len(ms)
        /\ \A i \in 1..Len(down) : down'[i] = down[i]
        /\ \A i \in 1..Len(ms) : down'[Len(down) + i] = ms[i]
    BY <2>1, ConcatType
  <2>3. ASSUME NEW n \in 0..Len(down), Told(n) PROVE Told(n)'
    BY <2>2, <2>3 DEF Told
  <2> QED BY <1>2, <2>2, <2>3
<1> QED BY <1>1, <1>2

\* Before the last words there is no last word on the way.
LEMMA ProxyWords ==
  ASSUME ConnectionTypes, WordsTrue, ~Over, proxy'.pc \notin {"stop", "close", "free"},
         NEW ms \in Seq(Messages), Says(ms), \A i \in 1..Len(ms) : ms[i].type # "stop"
  PROVE  WordsTrue'
<1>1. \A i \in 1..Len(down) : down[i].type # "stop"
  BY DEF WordsTrue
<1>2. Len(ms) \in Nat
  OBVIOUS
<1>3. ASSUME NEW i \in 1..Len(down') PROVE down'[i].type # "stop"
  <2>1. CASE i \in 1..Len(down)
    BY <1>1, <2>1, ToldLater
  <2>2. CASE i \notin 1..Len(down)
    <3>1. link = "up" /\ i - Len(down) \in 1..Len(ms) /\ i = Len(down) + (i - Len(down))
      BY <1>2, <2>2, ToldLater
    <3> QED BY <3>1, ToldLater, ZenonT(60)
  <2> QED BY <2>1, <2>2
<1> QED BY <1>3 DEF WordsTrue

LEMMA ProxyKeepsWords ==
  ASSUME ConnectionTypes, WordsTrue, ProxyStep \/ ProxyTime
  PROVE  WordsTrue'
<1> DEFINE Quiet == down' = down /\ ~Over /\ proxy'.pc \notin {"stop", "close", "free"}
<1>1. ASSUME Quiet PROVE WordsTrue'
  <2>1. \A i \in 1..Len(down) : down[i].type # "stop"
    BY <1>1 DEF WordsTrue
  <2> QED BY <1>1, <2>1 DEF WordsTrue
<1>2. CASE Handshake \/ DeviceReader \/ ProviderOpens \/ Cleanup \/ ProxyTimer
  <2>1. CASE Handshake
    BY <1>1, <2>1, HandshakeSteps, ProxyPlaces DEF Over
  <2>2. CASE DeviceReader
    <3>1. UNCHANGED proxy \/ Ends("none") \/ Ends("protocol")
      BY <2>2 DEF DeviceReader
    <3> QED BY <1>1, <2>2, <3>1, ProxyPlaces DEF DeviceReader, Reads, ProxyAt, Over
  <2>3. CASE ProviderOpens
    BY <1>1, <2>3, ProxyPlaces DEF ProviderOpens, ProxyAt, Over
  <2>4. CASE Cleanup
    BY <1>1, <2>4 DEF Cleanup, ProxyAt, ProxyGoto, Over, ConnectionTypes, Proxy
  <2>5. CASE ProxyTimer
    BY <1>1, <2>5, ProxyPlaces DEF ProxyTimer, Over
  <2> QED BY <1>2, <2>1, <2>2, <2>3, <2>4, <2>5
<1>3. \A t \in Kinds : Message(t) \in Messages /\ Message(t).type = t
  BY MessageTypes
<1>4. CASE Connecting
  <2>1. /\ <<Message("state")>> \in Seq(Messages) /\ Says(<<Message("state")>>)
        /\ \A i \in 1..Len(<<Message("state")>>) : <<Message("state")>>[i].type # "stop"
    BY <1>3, <1>4 DEF Connecting, Kinds
  <2> QED BY <1>4, <2>1, ProxyWords, ProxyPlaces DEF Connecting, ProxyAt, Over
<1>5. CASE Ready
  <2>1. CASE Ends("other") /\ UNCHANGED down
    BY <1>1, <1>5, <2>1, ProxyPlaces DEF Ready, ProxyAt, Over
  <2>2. CASE /\ Says(<<Message("ready"), Message("state")>>)
             /\ ProxyGoto("run") \/ Ends("none")
    <3>1. /\ <<Message("ready"), Message("state")>> \in Seq(Messages)
          /\ \A i \in 1..Len(<<Message("ready"), Message("state")>>) :
               <<Message("ready"), Message("state")>>[i].type # "stop"
      BY <1>3 DEF Kinds
    <3> QED BY <1>5, <2>2, <3>1, ProxyWords, ProxyPlaces DEF Ready, ProxyAt, Over
  <2> QED BY <1>5, <2>1, <2>2 DEF Ready
<1>6. CASE LastWords /\ UNCHANGED <<link, stopping>>
  <2>1. CASE ProxyAt("stopping") /\ Says(<<Message("stopping")>>) /\ ProxyGoto("error")
    <3>1. /\ <<Message("stopping")>> \in Seq(Messages)
          /\ \A i \in 1..Len(<<Message("stopping")>>) : <<Message("stopping")>>[i].type # "stop"
      BY <1>3 DEF Kinds
    <3> QED BY <2>1, <3>1, ProxyWords, ProxyPlaces DEF ProxyAt, Over
  <2>2. CASE /\ ProxyAt("error") /\ ProxyGoto("stop")
             /\ Says(IF proxy.error = "none" THEN <<>> ELSE <<Message("error")>>)
    <3>1. \A i \in 1..Len(down) : down[i].type # "stop"
      BY <2>2 DEF WordsTrue, Over, ProxyAt
    <3>2. CASE proxy.error = "none"
      <4>1. /\ Says(<<>>) /\ <<>> \in Seq(Messages) /\ Len(<<>>) = 0
            /\ proxy'.error = "none" /\ proxy'.pc = "stop"
        BY <2>2, <3>2, ProxyPlaces, SingleType
      <4>2. /\ Len(down) \in Nat /\ Len(down') \in {Len(down), Len(down) + Len(<<>>)}
            /\ \A i \in 1..Len(down) : down'[i] = down[i]
        BY <4>1, ToldLater
      <4>3. Len(down') = Len(down)
        BY <4>1, <4>2
      <4> QED BY <3>1, <4>1, <4>2, <4>3 DEF WordsTrue, Fine
    <3>3. CASE proxy.error # "none"
      <4> DEFINE ms == <<Message("error")>>
      <4>1. Says(ms) /\ ms \in Seq(Messages) /\ Len(ms) = 1 /\ ms[1].type = "error"
        BY <1>3, <2>2, <3>3, SingleType DEF Kinds
      <4>2. Len(down) \in Nat /\ \A i \in 1..Len(down) : down'[i] = down[i]
        BY <4>1, ToldLater
      <4>3. CASE link = "up"
        <5>1. /\ Len(down') = Len(down) + Len(ms)
              /\ \A i \in 1..Len(ms) : down'[Len(down) + i] = ms[i]
          <6> HIDE DEF ms
          <6> QED BY <4>1, <4>3, ToldLater
        <5>2. Len(down') = Len(down) + 1 /\ down'[Len(down) + 1].type = "error"
          BY <4>1, <5>1
        <5>3. \A i \in 1..Len(down') : down'[i].type # "stop"
          BY <3>1, <4>2, <5>2
        <5> QED BY <4>2, <5>2, <5>3 DEF WordsTrue, Fine, Told
      <4>4. CASE link # "up"
        <5>1. down' = down /\ link' # "up"
          BY <1>6, <4>1, <4>4, ToldLater
        <5> QED BY <3>1, <5>1 DEF WordsTrue
      <4> QED BY <4>3, <4>4
    <3> QED BY <3>2, <3>3
  <2>3. CASE ProxyAt("stop") /\ Says(<<Message("stop")>>) /\ ProxyGoto("close")
    <3> DEFINE ms == <<Message("stop")>>
    <3>1. Says(ms) /\ ms \in Seq(Messages) /\ Len(ms) = 1
      BY <1>3, <2>3, SingleType DEF Kinds
    <3>2. /\ proxy'.pc = "close" /\ proxy'.error = proxy.error /\ UNCHANGED stopping
          /\ \A i \in 1..Len(down) : down[i].type # "stop"
      BY <1>6, <2>3, ProxyPlaces DEF WordsTrue, Over, ProxyAt
    <3>3. Len(down) \in Nat /\ \A i \in 1..Len(down) : down'[i] = down[i]
      BY <3>1, ToldLater
    <3>4. CASE link = "up"
      <4>1. Len(down') = Len(down) + 1 /\ \A n \in 0..Len(down) : Told(n) => Told(n)'
        BY <3>1, <3>4, ToldLater
      <4>2. PICK last \in Nat : last = Len(down)
        BY <3>3
      <4>3. Fine(last)
        BY <2>3, <3>4, <4>2 DEF WordsTrue, ProxyAt
      <4>4. Fine(last)'
        BY <3>2, <4>1, <4>2, <4>3 DEF Fine
      <4>5. ASSUME NEW i \in 1..Len(down'), down'[i].type = "stop" PROVE i - 1 = last
        BY <3>2, <3>3, <4>1, <4>2, <4>5
      <4> QED BY <3>2, <4>4, <4>5 DEF WordsTrue, Over
    <3>5. CASE link # "up"
      <4>1. down' = down
        BY <3>1, <3>5, ToldLater
      <4> QED BY <3>2, <4>1 DEF WordsTrue
    <3> QED BY <3>4, <3>5
  <2> QED BY <1>6, <2>1, <2>2, <2>3 DEF LastWords
<1>7. CASE Silenced
  <2>1. proxy'.pc = "close" /\ down' = down /\ \A i \in 1..Len(down) : down[i].type # "stop"
    BY <1>7, ProxyPlaces DEF Silenced, WordsTrue, Over
  <2> QED BY <2>1 DEF WordsTrue
<1>8. CASE Close /\ UNCHANGED stopping
  <2> DEFINE ms == <<Message("close")>>
  <2>1. Says(ms) /\ ms \in Seq(Messages) /\ Len(ms) = 1 /\ ms[1].type = "close"
    BY <1>3, <1>8, SingleType DEF Kinds, Close
  <2>2. proxy'.pc = "free" /\ proxy'.error = proxy.error /\ UNCHANGED stopping
    BY <1>8, ProxyPlaces DEF Close
  <2>3. /\ Len(down) \in Nat /\ Len(down') \in {Len(down), Len(down) + 1}
        /\ \A i \in 1..Len(down) : down'[i] = down[i]
        /\ \A n \in 0..Len(down) : Told(n) => Told(n)'
    BY <2>1, ToldLater
  <2>4. Len(down') = Len(down) + 1 => down'[Len(down) + 1].type = "close"
    <3>1. link # "up" => down' = down
      BY <2>1, ToldLater
    <3>2. link = "up" => \A i \in 1..Len(ms) : down'[Len(down) + i] = ms[i]
      BY <2>1, ToldLater
    <3>3. 1 \in 1..Len(ms)
      BY <2>1
    <3> QED BY <2>1, <2>3, <3>1, <3>2, <3>3
  <2>5. ASSUME NEW i \in 1..Len(down'), down'[i].type = "stop" PROVE Fine(i - 1)'
    <3>1. i \in 1..Len(down)
      BY <2>3, <2>4, <2>5
    <3>2. Fine(i - 1) /\ i - 1 \in 0..Len(down)
      BY <2>3, <2>5, <3>1 DEF WordsTrue
    <3> QED BY <2>2, <2>3, <3>2 DEF Fine
  <2> QED BY <2>2, <2>5 DEF WordsTrue, Over
<1> QED BY <1>2, <1>4, <1>5, <1>6, <1>7, <1>8
        DEF ProxyStep, ProxyTime, recorder, flags

LEMMA ProxyEnds ==
  ASSUME ConnectionTypes, EndInv, ProxyStep \/ ProxyTime PROVE EndInv'
<1>1. WordsTrue'
  BY ProxyKeepsWords DEF EndInv
<1>2. UNCHANGED <<recorder, cause>>
  BY DEF ProxyStep, ProxyTime
<1>3. StopTrue'
  <2>1. CASE Close
    BY <1>2, <2>1, ProxyPlaces DEF Close, EndInv, StopTrue, Over
  <2>2. CASE ~Close
    <3>1. ~Over
      BY <2>2 DEF ProxyStep, ProxyTime, Handshake, DeviceReader, Connecting, ProviderOpens, Ready,
         Cleanup, LastWords, Silenced, ProxyTimer, ProxyAt, Over
    <3> QED BY <1>2, <3>1 DEF EndInv, StopTrue
  <2> QED BY <2>1, <2>2
<1>4. Silent'
  <2>1. link' = "up" => link = "up"
    BY DEF ProxyStep, ProxyTime, Close
  <2>2. link # "up" => down' = down
    BY DEF ProxyStep, ProxyTime, Handshake, DeviceReader, Reads, Connecting, ProviderOpens, Ready,
       Cleanup, LastWords, Silenced, ProxyTimer, Close, Says
  <2> QED BY <1>2, <2>1, <2>2 DEF EndInv, Silent, recorder
<1> QED BY <1>1, <1>2, <1>3, <1>4 DEF EndInv, Explained, Unheard, recorder, flags

LEMMA NextEnds ==
  ASSUME ReleaseInv, ConnectionTypes, EndInv, [Next]_vars PROVE EndInv'
<1>1. CASE UNCHANGED vars
  BY <1>1 DEF vars, recorder, flags, connection, EndInv, Explained, Silent, Unheard, WordsTrue,
     StopTrue, Fine, Told, Over
<1> QED BY <1>1, ConversationEnds, DevicesEnd, SocketEnds, ProxyEnds DEF Next

LEMMA EndHolds == Spec => [](ReleaseInv /\ ConnectionTypes /\ EndInv)
<1>1. Init => ReleaseInv /\ ConnectionTypes /\ EndInv
  BY ReleaseInvInit, InitTypes, EndInvInit
<1>2. /\ ReleaseInv /\ ConnectionTypes /\ EndInv
      /\ [Next]_vars
      => (ReleaseInv /\ ConnectionTypes /\ EndInv)'
  BY NextReleases, NextKeepsTypes, NextEnds
<1> QED BY <1>1, <1>2, PTL DEF Spec

\* A session that is shown to have ended well had a reason, and where the proxy
\* took its leave it had no error to report (fail, control, _finish).
THEOREM ExplainedSafe == Spec => []EndExplained
<1>1. ReleaseInv /\ EndInv => EndExplained
  BY DEF ReleaseInv, Phases, EndInv, Explained, StopTrue, Leaving, EndExplained
<1> QED BY <1>1, EndHolds, PTL

-------------------------------------------------------------------------------
Opening == {"hello", "chunks", "connecting", "open", "ready"}

\* Without a connection the slot is free.
Linked == link \in {"none", "shut"} => proxy.pc = "free"

\* The recorder is ready, and its microphone heard, only when the proxy said so.
ReadyTrue ==
  /\ call \in {"wipe", "arm", "talk"} => ready \/ stopping
  /\ (ready \/ ws \in {"starting", "started"}) /\ link = "up" => proxy.pc \notin Opening
  /\ link = "up" /\ proxy.pc \in Opening => \A i \in 1..Len(down) : down[i].type # "ready"

\* hello is said once, after the connection is there, and then the context.
HelloTrue ==
  /\ ws = "dialing" \/ call \in {"none", "alloc", "open", "leave"} => ~s.connected
  /\ s.hello \/ call \in {"hello", "context"} => s.connected
  /\ call = "hello" => ~s.hello
  /\ call = "context" => s.hello
  /\ call = "wait" /\ s.hello /\ ~stopping => s.left = 0

\* What is on the way to the proxy, and what is left to send, is what it waits for.
Upload ==
  link = "up" /\ ~stopping =>
    /\ proxy.pc = "hello" =>
         \/ up = <<>> /\ ~s.hello
         \/ /\ s.hello /\ up # <<>> /\ up[1] = Hello(Len(up) - 1 + s.left)
            /\ \A i \in 2..Len(up) : up[i].type = "chunk"
    /\ proxy.pc = "chunks" => /\ s.hello /\ proxy.left = Len(up) + s.left
                              /\ \A i \in 1..Len(up) : up[i].type = "chunk"
    /\ proxy.pc \in {"connecting", "open", "ready"} => s.hello /\ s.left = 0 /\ up = <<>>
    /\ proxy.pc = "run" => s.hello /\ s.left = 0 /\ \A i \in 1..Len(up) : up[i].type = "audio"

HandInv == Linked /\ ReadyTrue /\ HelloTrue /\ Upload

LEMMA HandInvInit == Init => HandInv
BY FreshSession
   DEF Init, HandInv, Linked, ReadyTrue, HelloTrue, Upload, Opening, NoSession

\* A step that sends nothing and leaves hello and the context as they are.
LEMMA UploadAside ==
  ASSUME Upload, stopping => stopping', UNCHANGED <<up, link, proxy>>,
         s'.left = s.left, s'.hello = s.hello
  PROVE  Upload'
BY DEF Upload

LEMMA HelloGoes ==
  ASSUME ReleaseInv, ConnectionTypes, HandInv, SendHello PROVE Upload'
<1>1. CASE UNCHANGED up /\ stopping'
  BY <1>1 DEF Upload
<1>2. CASE up' = Append(up, Hello(s.left)) /\ link = "up" /\ UNCHANGED stopping
        /\ s' = [s EXCEPT !.hello = TRUE]
  <2>1. /\ s \in Session /\ s.left \in Chunks /\ s'.hello /\ s'.left = s.left
        /\ up \in Seq(Messages) /\ UNCHANGED <<proxy, link>> /\ ~s.hello
    BY <1>2 DEF ReleaseInv, RecorderTypes, Session, ConnectionTypes, SendHello, HandInv,
            HelloTrue, CallAt
  <2>2. proxy.pc \notin {"chunks", "connecting", "open", "ready", "run"} \/ stopping
    BY <1>2, <2>1 DEF HandInv, Upload
  <2>3. CASE stopping
    BY <1>2, <2>3 DEF Upload
  <2>4. CASE proxy.pc = "hello" /\ ~stopping
    <3>1. up = <<>>
      BY <1>2, <2>1, <2>4 DEF HandInv, Upload
    <3>2. up' # <<>> /\ Len(up') = 1 /\ up'[1] = Hello(s.left)
      BY <1>2, <3>1
    <3>3. Len(up') - 1 + s.left = s.left
      BY <2>1, <3>2, VoiceClientAssumption DEF Chunks
    <3>4. \A i \in 2..Len(up') : up'[i].type = "chunk"
      BY <3>2
    <3> QED BY <2>1, <2>4, <3>2, <3>3, <3>4 DEF Upload
  <2>5. CASE proxy.pc # "hello" /\ ~stopping
    BY <2>1, <2>2, <2>5 DEF Upload
  <2> QED BY <2>3, <2>4, <2>5
<1> QED BY <1>1, <1>2 DEF SendHello, Sends, SendFails, Fail, Goes

LEMMA ChunkGoes ==
  ASSUME ReleaseInv, ConnectionTypes, HandInv, SendChunk PROVE Upload'
<1>1. CASE UNCHANGED <<up, s>>
  <2>1. (stopping => stopping') /\ UNCHANGED <<link, proxy>>
    BY DEF SendChunk, Goes, Sends, SendFails, Fail, ReleaseInv, RecorderTypes
  <2> QED BY <1>1, <2>1, UploadAside DEF HandInv
<1>2. CASE /\ s.left # 0 /\ ~stopping /\ link = "up" /\ up' = Append(up, Message("chunk"))
           /\ s' = [s EXCEPT !.left = s.left - 1] /\ UNCHANGED stopping
  <2>1. /\ s.left \in Nat /\ s.left # 0 /\ s'.left = s.left - 1 /\ s'.hello = s.hello
        /\ up \in Seq(Messages) /\ UNCHANGED <<proxy, link>> /\ s.hello
        /\ Message("chunk") \in Messages /\ Message("chunk").type = "chunk"
    BY <1>2, MessageTypes, VoiceClientAssumption
       DEF ReleaseInv, RecorderTypes, Session, Chunks, ConnectionTypes, SendChunk, HandInv,
               HelloTrue,
           CallAt, Kinds
  <2>2. proxy.pc \notin {"connecting", "open", "ready", "run"}
    BY <1>2, <2>1 DEF HandInv, Upload
  <2>3. /\ Len(up) \in Nat /\ Len(up') = Len(up) + 1 /\ up'[Len(up) + 1].type = "chunk"
        /\ \A i \in 1..Len(up) : up'[i] = up[i]
    BY <1>2, <2>1, AppendType
  <2>4. CASE proxy.pc = "hello"
    <3>1. /\ up # <<>> /\ up[1] = Hello(Len(up) - 1 + s.left)
          /\ \A i \in 2..Len(up) : up[i].type = "chunk"
      BY <1>2, <2>1, <2>4 DEF HandInv, Upload
    <3>2. 1 \in 1..Len(up) /\ Len(up') - 1 + s'.left = Len(up) - 1 + s.left
      BY <2>1, <2>3, <3>1
    <3>3. up'[1] = Hello(Len(up') - 1 + s'.left)
      BY <2>3, <3>1, <3>2
    <3>4. \A i \in 2..Len(up') : up'[i].type = "chunk"
      BY <2>3, <3>1, SMTT(30)
    <3>5. up' # <<>>
      BY <1>2, <2>1
    <3> QED BY <2>1, <2>3, <2>4, <3>3, <3>4, <3>5 DEF Upload
  <2>5. CASE proxy.pc = "chunks"
    <3>1. proxy.left = Len(up) + s.left /\ \A i \in 1..Len(up) : up[i].type = "chunk"
      BY <1>2, <2>5 DEF HandInv, Upload
    <3>2. proxy.left = Len(up') + s'.left
      <4>1. Len(up') + s'.left = Len(up) + s.left
        BY <2>1, <2>3
      <4> QED BY <3>1, <4>1
    <3>3. \A i \in 1..Len(up') : up'[i].type = "chunk"
      BY <2>3, <3>1
    <3> QED BY <2>1, <2>5, <3>2, <3>3 DEF Upload
  <2>6. CASE proxy.pc \notin {"hello", "chunks"}
    BY <2>1, <2>2, <2>6 DEF Upload
  <2> QED BY <2>4, <2>5, <2>6
<1>3. CASE s.left = 0 \/ stopping
  BY <1>1, <1>3 DEF SendChunk
<1>4. CASE s.left # 0 /\ ~stopping
  BY <1>1, <1>2, <1>4 DEF SendChunk, Goes, Sends, SendFails
<1> QED BY <1>3, <1>4

LEMMA FrameGoes ==
  ASSUME ConnectionTypes, HandInv, SendFrame PROVE Upload'
<1>1. CASE stopping'
  BY <1>1 DEF Upload
<1>2. CASE ~stopping'
  <2>1. /\ link = "up" /\ up' = Append(up, Message("audio")) /\ ~stopping /\ ready
        /\ UNCHANGED <<proxy, link, s>>
    BY <1>2 DEF SendFrame, Sends, SendFails, Fail, HandInv, ReadyTrue, CallAt
  <2>2. proxy.pc \notin Opening
    BY <2>1 DEF HandInv, ReadyTrue
  <2>3. /\ up \in Seq(Messages)
        /\ Message("audio") \in Messages /\ Message("audio").type = "audio"
    BY MessageTypes DEF Kinds, ConnectionTypes
  <2>4. /\ Len(up) \in Nat /\ Len(up') = Len(up) + 1 /\ up'[Len(up) + 1].type = "audio"
        /\ \A i \in 1..Len(up) : up'[i] = up[i]
    BY <2>1, <2>3, AppendType
  <2>5. CASE proxy.pc = "run"
    <3>1. s.hello /\ s.left = 0 /\ \A i \in 1..Len(up) : up[i].type = "audio"
      BY <2>1, <2>5 DEF HandInv, Upload
    <3>2. \A i \in 1..Len(up') : up'[i].type = "audio"
      BY <2>4, <3>1
    <3> QED BY <2>1, <2>5, <3>1, <3>2 DEF Upload
  <2>6. CASE proxy.pc # "run"
    BY <2>1, <2>2, <2>6 DEF Upload, Opening
  <2> QED BY <2>5, <2>6
<1> QED BY <1>1, <1>2

LEMMA ConversationUploads ==
  ASSUME ReleaseInv, ConnectionTypes, EndInv, HandInv, Conversation PROVE Upload'
<1>1. CASE SendHello  BY <1>1, HelloGoes
<1>2. CASE SendChunk  BY <1>2, ChunkGoes
<1>3. CASE SendFrame  BY <1>3, FrameGoes
<1>4. CASE Farewell
  <2>1. stopping'
    <3>1. call = "farewell" /\ active
      BY <1>4 DEF Farewell, CallAt, ReleaseInv, Phases
    <3>2. stopping
      BY <3>1 DEF EndInv, Explained, Leaving
    <3> QED BY <1>4, <3>2 DEF Farewell, Sends, SendFails, Fail, Goes
  <2> QED BY <2>1 DEF Upload
<1>5. CASE StopSocket
  BY <1>5 DEF StopSocket, Upload
<1>6. CASE Allocate \/ FreeSession
  <2>1. link' # "up"
    BY <1>6 DEF Allocate, FreeSession, CallAt, connection, ReleaseInv, SocketKept, EndInv, Silent
  <2> QED BY <2>1 DEF Upload
<1>7. CASE Open \/ Wait \/ WipeContext \/ StartCapture \/ TalkEnds \/ Quiesce \/ Mute \/ StopAudio
        \/ Leave
  <2>1. (stopping => stopping') /\ UNCHANGED <<up, link, proxy>>
    BY <1>7 DEF Open, Wait, WipeContext, StartCapture, TalkEnds, Quiesce, Mute, StopAudio, Leave,
       Goes, Fail, connection, flags
  <2>2. s'.left = s.left /\ s'.hello = s.hello
    <3>1. s' \in {s, [s EXCEPT !.context = FALSE], [s EXCEPT !.capture_done = FALSE]}
      BY <1>7 DEF Open, Wait, WipeContext, StartCapture, TalkEnds, Quiesce, Mute, StopAudio, Leave
    <3> QED BY <3>1 DEF ReleaseInv, RecorderTypes, Session
  <2> QED BY <2>1, <2>2, UploadAside DEF HandInv
<1> QED BY <1>1, <1>2, <1>3, <1>4, <1>5, <1>6, <1>7 DEF Conversation

LEMMA ConversationHands ==
  ASSUME ReleaseInv, ConnectionTypes, EndInv, HandInv, Conversation PROVE HandInv'
<1>1. Linked /\ ReadyTrue /\ HelloTrue /\ Explained /\ Silent /\ Unheard /\ s \in Session
      /\ active \in BOOLEAN /\ stopping \in BOOLEAN /\ (call = "none" <=> ~active)
  BY DEF HandInv, EndInv, ReleaseInv, RecorderTypes, Phases
<1>2. call \in {"none", "alloc", "open", "audio", "free", "leave"} => ws = "none"
  BY DEF ReleaseInv, SocketKept
<1>3. SUFFICES Linked' /\ ReadyTrue' /\ HelloTrue'
  BY ConversationUploads DEF HandInv
<1> USE DEF CallAt, CallGoto, Goes, Fail, Sends, SendFails, flags, connection,
            Linked, ReadyTrue, HelloTrue, Opening
<1> HIDE DEF ReleaseInv, ConnectionTypes, EndInv, HandInv
<1>4. CASE Allocate  BY <1>1, <1>2, <1>4, FreshSession DEF Allocate, Silent, NoSession, Session
<1>5. CASE Open  BY <1>1, <1>2, <1>5 DEF Open, Silent
<1>6. CASE Wait  BY <1>1, <1>2, <1>6 DEF Wait
<1>7. CASE SendHello  BY <1>1, <1>2, <1>7 DEF SendHello, Session
<1>8. CASE SendChunk  BY <1>1, <1>2, <1>8 DEF SendChunk, Session
<1>9. CASE WipeContext  BY <1>1, <1>2, <1>9 DEF WipeContext, Session
<1>10. CASE StartCapture  BY <1>1, <1>2, <1>10 DEF StartCapture, Session
<1>11. CASE SendFrame  BY <1>1, <1>2, <1>11 DEF SendFrame, Explained
<1>12. CASE TalkEnds  BY <1>1, <1>2, <1>12 DEF TalkEnds, Explained, Leaving
<1>13. CASE Quiesce  BY <1>1, <1>2, <1>13 DEF Quiesce
<1>14. CASE Mute  BY <1>1, <1>2, <1>14 DEF Mute
<1>15. CASE Farewell  BY <1>1, <1>2, <1>15 DEF Farewell
<1>16. CASE StopSocket  BY <1>1, <1>2, <1>16 DEF StopSocket, Silent
<1>17. CASE StopAudio  BY <1>1, <1>2, <1>17 DEF StopAudio
<1>18. CASE FreeSession  BY <1>1, <1>2, <1>18, FreshSession DEF FreeSession, Silent, NoSession
<1>19. CASE Leave  BY <1>1, <1>2, <1>19 DEF Leave
<1> QED
  BY <1>4, <1>5, <1>6, <1>7, <1>8, <1>9, <1>10, <1>11, <1>12, <1>13, <1>14,
     <1>15, <1>16, <1>17, <1>18, <1>19
  DEF Conversation

LEMMA DevicesHand ==
  ASSUME ReleaseInv, EndInv, HandInv,
         Deadlines \/ Capture \/ StopSession \/ \E n \in Chunks : StartSession(n)
  PROVE  HandInv'
<1>1. Linked /\ ReadyTrue /\ HelloTrue /\ Upload /\ Silent /\ s \in Session /\ stopping \in BOOLEAN
  BY DEF HandInv, EndInv, ReleaseInv, RecorderTypes
<1>2. /\ call \in {"none", "alloc", "open", "audio", "free", "leave"} => ws = "none"
      /\ call = "none" <=> ~active
  BY DEF ReleaseInv, SocketKept, Phases
<1> USE DEF CallAt, CallGoto, Goes, Fail, Stop, flags, connection,
            Linked, ReadyTrue, HelloTrue, Opening
<1> HIDE DEF ReleaseInv, EndInv, HandInv
<1>3. CASE Deadlines \/ Capture \/ StopSession
  <2>1. Upload'
    <3>1. (stopping => stopping') /\ UNCHANGED <<up, link, proxy>>
      BY <1>3 DEF Deadlines, Capture, StopSession, ReadyLate, Drained, SessionOver, CaptureLoop,
              CaptureOnce
    <3>2. s' \in {s, [s EXCEPT !.capture_done = TRUE]}
      BY <1>3 DEF Deadlines, Capture, StopSession, ReadyLate, Drained, SessionOver, CaptureLoop,
              CaptureOnce
    <3>3. s'.left = s.left /\ s'.hello = s.hello
      BY <1>1, <3>2 DEF Session
    <3> QED BY <1>1, <3>1, <3>3, UploadAside
  <2> SUFFICES Linked' /\ ReadyTrue' /\ HelloTrue'
    BY <2>1 DEF HandInv
  <2>2. CASE ReadyLate  BY <1>1, <1>2, <2>2 DEF ReadyLate
  <2>3. CASE Drained  BY <1>1, <1>2, <2>3 DEF Drained
  <2>4. CASE SessionOver  BY <1>1, <1>2, <2>4 DEF SessionOver
  <2>5. CASE CaptureLoop  BY <1>1, <1>2, <2>5 DEF CaptureLoop, Session
  <2>6. CASE CaptureOnce  BY <1>1, <1>2, <2>6 DEF CaptureOnce, Session
  <2>7. CASE StopSession  BY <1>1, <1>2, <2>7 DEF StopSession
  <2> QED BY <1>3, <2>2, <2>3, <2>4, <2>5, <2>6, <2>7 DEF Deadlines, Capture
<1>4. ASSUME NEW n \in Chunks, StartSession(n) PROVE HandInv'
  <2>1. link # "up" /\ UNCHANGED <<link, proxy, ws, s, down>> /\ call = "none"
          /\ call' \in {"none", "alloc"}
    BY <1>1, <1>2, <1>4 DEF StartSession, Silent
  <2> QED BY <1>1, <2>1 DEF HandInv, Upload
<1> QED BY <1>3, <1>4

LEMMA SocketHands ==
  ASSUME ReleaseInv, ConnectionTypes, EndInv, HandInv, Socket \/ Break PROVE HandInv'
<1>1. /\ Linked /\ ReadyTrue /\ HelloTrue /\ Upload /\ Silent /\ Unheard
      /\ s \in Session /\ stopping \in BOOLEAN /\ ready \in BOOLEAN
  BY DEF HandInv, EndInv, ReleaseInv, RecorderTypes
<1>2. call \in {"none", "alloc", "open", "audio", "free", "leave"} => ws = "none"
  BY DEF ReleaseInv, SocketKept
<1> USE DEF Goes, Fail, Stop, flags, connection, Linked, ReadyTrue, HelloTrue, Opening
<1> HIDE DEF ReleaseInv, ConnectionTypes, EndInv, HandInv
<1>3. CASE Connected
  <2>1. /\ link' = "up" /\ up' = <<>> /\ down' = <<>> /\ proxy'.pc = "hello" /\ ~ready'
          /\ ws' = "idle"
        /\ s' = [s EXCEPT !.connected = TRUE] /\ ~s.hello
        /\ call \notin {"none", "alloc", "open", "leave"}
        /\ UNCHANGED <<call, stopping>> /\ (call \in {"wipe", "arm", "talk"} => stopping)
    BY <1>1, <1>2, <1>3 DEF Connected, Unheard
  <2>2. s'.connected /\ s'.hello = s.hello /\ s'.left = s.left
    BY <1>1, <2>1 DEF Session
  <2>3. ReadyTrue' /\ Linked' /\ HelloTrue'
    BY <1>1, <2>1, <2>2
  <2>4. Upload'
    BY <2>1, <2>2 DEF Upload
  <2> QED BY <2>3, <2>4 DEF HandInv
<1>4. CASE Denied \/ StartAudio \/ BecomeReady
  <2>1. s' \in {s, [s EXCEPT !.audio_started = TRUE]}
    BY <1>4 DEF Denied, Disconnected, StartAudio, BecomeReady
  <2>2. s'.left = s.left /\ s'.hello = s.hello /\ s'.connected = s.connected
    BY <1>1, <2>1 DEF Session
  <2>3. /\ (stopping => stopping') /\ UNCHANGED <<up, link, proxy, down, call>>
        /\ ready' \/ ws' \in {"starting", "started"} => ready \/ ws \in {"starting", "started"}
        /\ ready => ready'
        /\ ws' # "dialing"
    BY <1>1, <1>4 DEF Denied, Disconnected, StartAudio, BecomeReady
  <2>4. Upload'
    BY <1>1, <2>2, <2>3, UploadAside
  <2>5. Linked' /\ ReadyTrue' /\ HelloTrue'
    BY <1>1, <2>2, <2>3
  <2> QED BY <2>4, <2>5 DEF HandInv
<1>5. CASE Lost \/ Event
  <2>1. /\ down # <<>> /\ down' = Tail(down) /\ (stopping => stopping') /\ ws' # "dialing"
        /\ UNCHANGED <<up, link, proxy, call, s, ready>>
    BY <1>5 DEF Lost, Event, Disconnected, Received
  <2>2. /\ Len(down) \in Nat \ {0} /\ Len(down') = Len(down) - 1 /\ Head(down) = down[1]
        /\ \A i \in 1..Len(down') : down'[i] = down[i + 1]
    BY <2>1, TailType DEF ConnectionTypes
  <2>3. ws' \in {"starting", "started"} => down[1].type = "ready"
    BY <1>5, <2>2 DEF Lost, Event, Disconnected, Received
  <2>4. link' = "up" /\ proxy'.pc \in Opening => \A i \in 1..Len(down') : down'[i].type # "ready"
    BY <1>1, <2>1, <2>2
  <2>5. (ready' \/ ws' \in {"starting", "started"}) /\ link' = "up" => proxy'.pc \notin Opening
    BY <1>1, <2>1, <2>2, <2>3
  <2>6. Upload'
    BY <1>1, <2>1, UploadAside
  <2> QED BY <1>1, <2>1, <2>4, <2>5, <2>6 DEF HandInv
<1>6. CASE Break
  <2>1. link' = "gone" /\ UNCHANGED <<recorder, proxy>>
    BY <1>6 DEF Break
  <2> QED BY <1>1, <2>1 DEF HandInv, Upload, recorder
<1> QED BY <1>3, <1>4, <1>5, <1>6 DEF Socket

\* The proxy reads what it waits for.
LEMMA HandshakeReads ==
  ASSUME ReleaseInv, ConnectionTypes, HandInv, Handshake, link = "up", ~stopping,
         UNCHANGED <<recorder, link>>
  PROVE  Upload' /\ ~Ends("protocol")
<1>1. /\ up # <<>> /\ up \in Seq(Messages) /\ up' = Tail(up) /\ s.left \in Nat /\ proxy.left \in Nat
      /\ proxy \in Proxy /\ UNCHANGED <<link, s, stopping>>
  BY HandshakeSteps, VoiceClientAssumption
     DEF ConnectionTypes, Proxy, ReleaseInv, RecorderTypes, Session, Chunks, recorder, flags
<1>2. /\ Len(up) \in Nat \ {0} /\ Len(up') = Len(up) - 1
      /\ \A i \in 1..Len(up') : up'[i] = up[i + 1]
  BY <1>1, TailType
<1>3. Upload
  BY DEF HandInv
<1>4. proxy.pc \in {"hello", "chunks"}
  BY <1>1, <1>3, HandshakeSteps DEF Upload
<1>5. CASE proxy.pc = "hello"
  <2>1. /\ s.hello /\ up[1] = Hello(Len(up) - 1 + s.left)
        /\ \A i \in 2..Len(up) : up[i].type = "chunk"
    BY <1>1, <1>3, <1>5 DEF Upload
  <2>2. up[1].type = "hello" /\ up[1].chunks = Len(up) - 1 + s.left
    BY <2>1 DEF Hello
  <2>3. /\ proxy'.pc = IF up[1].chunks = 0 THEN "connecting" ELSE "chunks"
        /\ proxy'.left = up[1].chunks
        /\ proxy'.error = proxy.error
    <3>1. proxy' = [proxy EXCEPT !.pc = IF up[1].chunks = 0 THEN "connecting" ELSE "chunks",
                                 !.left = up[1].chunks]
      BY <1>1, <1>5, <2>2, TailType DEF Handshake, ProxyAt
    <3> QED BY <1>1, <3>1 DEF Proxy
  <2>4. CASE up[1].chunks = 0
    <3>1. up' = <<>> /\ s.left = 0
      BY <1>1, <1>2, <2>2, <2>4
    <3> QED BY <1>1, <2>1, <2>3, <2>4, <3>1, ProxyPlaces DEF Upload, Opening
  <2>5. CASE up[1].chunks # 0
    <3>1. proxy'.left = Len(up') + s'.left /\ \A i \in 1..Len(up') : up'[i].type = "chunk"
      BY <1>1, <1>2, <2>1, <2>2, <2>3
    <3> QED BY <1>1, <2>1, <2>3, <2>5, <3>1, ProxyPlaces DEF Upload, Opening
  <2> QED BY <2>4, <2>5
<1>6. CASE proxy.pc = "chunks"
  <2>1. s.hello /\ proxy.left = Len(up) + s.left /\ \A i \in 1..Len(up) : up[i].type = "chunk"
    BY <1>3, <1>6 DEF Upload
  <2>2. up[1].type = "chunk"
    BY <1>2, <2>1
  <2>3. proxy' = [proxy EXCEPT !.pc = IF proxy.left > 1 THEN "chunks" ELSE "connecting",
                               !.left = proxy.left - 1]
    BY <1>1, <1>6, <2>2, TailType DEF Handshake, ProxyAt
  <2>4. /\ proxy'.pc = IF proxy.left > 1 THEN "chunks" ELSE "connecting"
        /\ proxy'.left = proxy.left - 1
    BY <1>1, <2>3 DEF Proxy
  <2>5. CASE proxy.left > 1
    <3>1. proxy'.left = Len(up') + s'.left
      BY <1>1, <1>2, <2>1, <2>4
    <3>2. \A i \in 1..Len(up') : up'[i].type = "chunk"
      BY <1>2, <2>1
    <3> QED BY <1>1, <2>1, <2>4, <2>5, <3>1, <3>2, ProxyPlaces DEF Upload, Opening
  <2>6. CASE ~(proxy.left > 1)
    <3>1. Len(up) = 1 /\ s.left = 0
      BY <1>1, <1>2, <2>1, <2>6
    <3>2. up' = <<>>
      BY <1>1, <3>1
    <3> QED BY <1>1, <2>1, <2>4, <2>6, <3>1, <3>2, ProxyPlaces DEF Upload, Opening
  <2> QED BY <2>5, <2>6
<1> QED BY <1>4, <1>5, <1>6

LEMMA ReaderReads ==
  ASSUME ConnectionTypes, HandInv, DeviceReader, link = "up", ~stopping,
         UNCHANGED <<recorder, link>>
  PROVE  Upload' /\ UNCHANGED proxy
<1>1. /\ proxy.pc = "run" /\ up # <<>> /\ up \in Seq(Messages) /\ up' = Tail(up)
      /\ UNCHANGED <<link, s, stopping>>
  BY DEF DeviceReader, Reads, ProxyAt, ConnectionTypes, recorder, flags
<1>2. /\ Len(up) \in Nat \ {0} /\ Len(up') = Len(up) - 1 /\ Head(up) = up[1]
      /\ \A i \in 1..Len(up') : up'[i] = up[i + 1]
  BY <1>1, TailType
<1>3. s.hello /\ s.left = 0 /\ \A i \in 1..Len(up) : up[i].type = "audio"
  BY <1>1 DEF HandInv, Upload
<1>4. Head(up).type = "audio" /\ \A i \in 1..Len(up') : up'[i].type = "audio"
  BY <1>2, <1>3
<1>5. UNCHANGED proxy
  BY <1>4 DEF DeviceReader
<1> QED BY <1>1, <1>3, <1>4, <1>5 DEF Upload

LEMMA ProxyUploads ==
  ASSUME ReleaseInv, ConnectionTypes, HandInv, ProxyStep \/ ProxyTime PROVE Upload'
<1>1. SUFFICES ASSUME link' = "up", ~stopping PROVE Upload'
  BY DEF ProxyStep, ProxyTime, recorder, flags, Upload
<1>2. link = "up" /\ ~Close /\ UNCHANGED <<recorder, link>> /\ UNCHANGED <<s, stopping>>
  BY <1>1 DEF ProxyStep, ProxyTime, Close, recorder, flags
<1>3. CASE Handshake  BY <1>1, <1>2, <1>3, HandshakeReads
<1>4. CASE DeviceReader  BY <1>1, <1>2, <1>4, ReaderReads
<1>5. CASE UNCHANGED up /\ proxy.pc \in {"connecting", "open", "ready"}
           /\ proxy'.pc \in {"open", "ready", "run", "cleanup"}
  <2>1. s.hello /\ s.left = 0 /\ up = <<>>
    BY <1>1, <1>2, <1>5 DEF HandInv, Upload
  <2> QED BY <1>2, <1>5, <2>1 DEF Upload
<1>6. CASE proxy'.pc \in {"cleanup", "stopping", "error", "stop", "close"}
  BY <1>6 DEF Upload
<1>7. CASE Connecting \/ ProviderOpens \/ Ready
  <2>1. UNCHANGED up /\ proxy.pc \in {"connecting", "open", "ready"}
    BY <1>7 DEF Connecting, ProviderOpens, Ready, ProxyAt
  <2>2. ProxyGoto("open") \/ ProxyGoto("ready") \/ ProxyGoto("run") \/ Ends("none") \/ Ends("other")
    BY <1>7 DEF Connecting, ProviderOpens, Ready
  <2> QED BY <1>5, <2>1, <2>2, ProxyPlaces
<1>8. CASE Cleanup \/ LastWords \/ Silenced \/ ProxyTimer
  <2>1. CASE Cleanup
    BY <1>6, <2>1 DEF Cleanup, ProxyGoto, ConnectionTypes, Proxy
  <2>2. CASE LastWords \/ Silenced \/ ProxyTimer
    BY <1>6, <2>2, ProxyPlaces DEF LastWords, Silenced, ProxyTimer
  <2> QED BY <1>8, <2>1, <2>2
<1> QED BY <1>2, <1>3, <1>4, <1>7, <1>8 DEF ProxyStep, ProxyTime

LEMMA ProxyHands ==
  ASSUME ReleaseInv, ConnectionTypes, HandInv, ProxyStep \/ ProxyTime PROVE HandInv'
<1>1. UNCHANGED recorder /\ Linked /\ ReadyTrue /\ HelloTrue
  BY DEF ProxyStep, ProxyTime, HandInv
<1>2. Linked'
  <2>1. CASE Close
    BY <2>1, ProxyPlaces DEF Close, Linked
  <2>2. CASE ~Close
    <3>1. UNCHANGED link /\ proxy.pc # "free"
      BY <2>2 DEF ProxyStep, ProxyTime, Handshake, DeviceReader, Connecting, ProviderOpens, Ready,
         Cleanup, LastWords, Silenced, ProxyTimer, ProxyAt
    <3> QED BY <1>1, <3>1 DEF Linked
  <2> QED BY <2>1, <2>2
<1>3. link' = "up" /\ proxy'.pc \in Opening =>
        link = "up" /\ proxy.pc \in Opening /\ (UNCHANGED down \/ Says(<<Message("state")>>))
  <2>1. CASE Handshake
    BY <2>1, HandshakeSteps DEF ProxyStep, ProxyTime, Close, Opening
  <2>2. CASE DeviceReader
    <3>1. proxy.pc = "run" /\ (UNCHANGED proxy \/ Ends("none") \/ Ends("protocol"))
      BY <2>2 DEF DeviceReader, ProxyAt
    <3> QED BY <3>1, ProxyPlaces DEF Opening
  <2>3. CASE Connecting \/ ProviderOpens
    BY <2>3 DEF Connecting, ProviderOpens, ProxyAt, ProxyStep, ProxyTime, Close, Opening
  <2>4. CASE Ready
    <3>1. ProxyGoto("run") \/ Ends("none") \/ Ends("other")
      BY <2>4 DEF Ready
    <3> QED BY <3>1, ProxyPlaces DEF Opening
  <2>5. CASE Cleanup
    BY <2>5 DEF Cleanup, ProxyGoto, ConnectionTypes, Proxy, Opening
  <2>6. CASE LastWords \/ Silenced \/ ProxyTimer \/ Close
    BY <2>6, ProxyPlaces DEF LastWords, Silenced, ProxyTimer, Close, Opening
  <2> QED BY <2>1, <2>2, <2>3, <2>4, <2>5, <2>6 DEF ProxyStep, ProxyTime
<1>4. ASSUME link' = "up", proxy'.pc \in Opening, NEW i \in 1..Len(down')
      PROVE  down'[i].type # "ready"
  <2>1. \A j \in 1..Len(down) : down[j].type # "ready"
    BY <1>1, <1>3, <1>4 DEF ReadyTrue
  <2>2. CASE UNCHANGED down
    BY <1>4, <2>1, <2>2
  <2>3. CASE Says(<<Message("state")>>)
    <3>1. PICK ms \in Seq(Messages) : ms = <<Message("state")>> /\ Len(ms) = 1
            /\ ms[1].type = "state"
      BY MessageTypes, SingleType DEF Kinds
    <3>2. /\ Len(down) \in Nat /\ Len(down') = Len(down) + Len(ms)
          /\ \A j \in 1..Len(down) : down'[j] = down[j]
          /\ \A j \in 1..Len(ms) : down'[Len(down) + j] = ms[j]
      BY <1>3, <1>4, <2>3, <3>1, ToldLater
    <3>3. down'[Len(down) + 1].type = "state"
      BY <3>1, <3>2
    <3> QED BY <1>4, <2>1, <3>1, <3>2, <3>3
  <2> QED BY <1>3, <1>4, <2>2, <2>3
<1>5. ReadyTrue' /\ HelloTrue'
  <2>1. UNCHANGED <<call, ready, stopping, ws, s>>
    BY <1>1 DEF recorder, flags
  <2> QED BY <1>1, <1>3, <1>4, <2>1 DEF ReadyTrue, HelloTrue
<1> QED BY <1>2, <1>5, ProxyUploads DEF HandInv

LEMMA NextHands ==
  ASSUME ReleaseInv, ConnectionTypes, EndInv, HandInv, [Next]_vars PROVE HandInv'
<1>1. CASE UNCHANGED vars
  BY <1>1 DEF vars, recorder, flags, connection, HandInv, Linked, ReadyTrue, HelloTrue, Upload
<1> QED BY <1>1, ConversationHands, DevicesHand, SocketHands, ProxyHands DEF Next

LEMMA HandHolds == Spec => [](ReleaseInv /\ ConnectionTypes /\ EndInv /\ HandInv)
<1>1. Init => HandInv
  BY HandInvInit
<1>2. ReleaseInv /\ ConnectionTypes /\ EndInv /\ HandInv /\ [Next]_vars => HandInv'
  BY NextHands
<1> QED BY <1>1, <1>2, EndHolds, PTL DEF Spec

LEMMA NextAccepts ==
  ASSUME ReleaseInv, ConnectionTypes, HandInv, [Next]_vars,
         proxy.error # "protocol", proxy'.error = "protocol"
  PROVE  stopping \/ link = "gone"
<1>1. SUFFICES ASSUME ~stopping, link # "gone" PROVE FALSE
  OBVIOUS
<1>2. ProxyStep \/ ProxyTime
  <2>1. UNCHANGED proxy \/ Connected \/ ProxyStep \/ ProxyTime
    BY DEF Next, vars, Conversation, Deadlines, Capture, StopSession, StartSession, Allocate,
            Open, Wait,
       SendHello, SendChunk, SendFrame, Farewell, StopSocket, WipeContext, StartCapture, TalkEnds,
       Quiesce, Mute, StopAudio, FreeSession, Leave, ReadyLate, Drained, SessionOver, CaptureLoop,
       CaptureOnce, Socket, Denied, Lost, Disconnected, Event, StartAudio, BecomeReady, Break
  <2>2. ~Connected
    BY DEF Connected
  <2> QED BY <2>1, <2>2
<1>3. CASE Handshake \/ DeviceReader
  <2>1. proxy.pc # "free"
    BY <1>3 DEF Handshake, DeviceReader, ProxyAt
  <2>2. link = "up" /\ UNCHANGED <<recorder, link>>
    <3>1. ~Close
      BY <1>3 DEF Handshake, DeviceReader, Close, ProxyAt
    <3>2. link \in {"none", "up", "gone", "shut"}
      BY DEF ConnectionTypes
    <3> QED BY <1>1, <1>2, <2>1, <3>1, <3>2 DEF ProxyStep, ProxyTime, HandInv, Linked
  <2>3. CASE DeviceReader
    BY <1>1, <2>2, <2>3, ReaderReads
  <2>4. CASE Handshake
    BY <1>1, <2>2, <2>4, HandshakeReads, HandshakeSteps, ProxyPlaces
  <2> QED BY <1>3, <2>3, <2>4
<1>4. CASE Connecting \/ ProviderOpens \/ Ready \/ LastWords \/ Silenced \/ Close \/ ProxyTimer
  BY <1>4, ProxyPlaces DEF Connecting, ProviderOpens, Ready, LastWords, Silenced, Close, ProxyTimer
<1>5. CASE Cleanup
  BY <1>5 DEF Cleanup, ProxyGoto, ConnectionTypes, Proxy
<1> QED BY <1>2, <1>3, <1>4, <1>5 DEF ProxyStep, ProxyTime

\* The proxy refuses a message only of a recorder that is leaving or has lost its
\* connection (conversation: hello, context; VoiceSession.handshake).
THEOREM HandshakeSafe == Spec => HandshakeAccepted
<1>1. /\ ReleaseInv /\ ConnectionTypes /\ EndInv /\ HandInv
      /\ [Next]_vars
      => [proxy.error # "protocol" /\ proxy'.error = "protocol" => stopping \/ link = "gone"]_vars
  BY NextAccepts
<1> QED BY <1>1, HandHolds, PTL DEF Spec, HandshakeAccepted
================================================================================
