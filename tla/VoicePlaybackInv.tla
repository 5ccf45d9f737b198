--------------------------- MODULE VoicePlaybackInv ---------------------------
(***************************************************************************)
(* The inductive invariant behind the safety of VoicePlayback: SurvInv,    *)
(* built from VoiceInv (what the audio and the accounts say of each other, *)
(* whatever ends the session) and Running (what holds while the session    *)
(* goes on: in which order messages and reports reach the other side, and  *)
(* what each side still remembers when they do).  After each part come the *)
(* predicates its proof describes a step with.                             *)
(***************************************************************************)
EXTENDS VoicePlayback

-------------------------------------------------------------------------------
(***************************************************************************)
(* Types.                                                                  *)
(***************************************************************************)

Account == [live : {TRUE}, queued : Nat, produced : Nat, sent : Nat,
            played : Nat, generated : BOOLEAN, started : BOOLEAN,
            done : BOOLEAN, end_sent : BOOLEAN, cleared : BOOLEAN,
            clear_sent : BOOLEAN, acknowledged : BOOLEAN]

Word == [type : {"start", "clear", "end"}, epoch : Epoch]
        \cup [type : {"frame"}, epoch : Epoch, n : Nat \ {0}]

Told == [type : {"progress", "cleared"}, epoch : Epoch, played : Nat]

Block == [epoch : 0..MaxEpoch, n : Nat]

Dac == [epoch : 0..MaxEpoch, played : Nat, pending : Nat, ring : Seq(Nat),
        dma : [1..DmaBlocks -> Block]]

Dev == [current : 0..MaxEpoch, last : 0..MaxEpoch, cleared : 0..MaxEpoch,
        ended : BOOLEAN, expected : Nat]

Ws == [pc : {"idle", "flushed", "opened", "clearing"}, epoch : 0..MaxEpoch, played : Nat]

ProxyTypes ==
  /\ streams \in [Epoch -> Account \cup {None}]
  /\ epoch \in 0..MaxEpoch
  /\ response \in [state : {"none", "requested", "current", "discarded"},
                   epoch : 0..MaxEpoch]
  /\ outbound \in Seq(Word) /\ down \in Seq(Word)
  /\ settled \in [Epoch -> Nat \cup {Open}]

DeviceTypes ==
  /\ up \in Seq(Told) /\ controls \in Seq(Told)
  /\ dev \in Dev /\ ws \in Ws
  /\ dac \in Dac
  /\ sample \in 0..MaxEpoch
  /\ heard \in [Epoch -> Nat]

VoiceTypes == ProxyTypes /\ DeviceTypes

-------------------------------------------------------------------------------
(***************************************************************************)
(* The audio and the accounts.                                             *)
(***************************************************************************)

\* The frames of e in q are none beyond the k-th.
Within(q, e, k) ==
  \A i \in 1..Len(q) : q[i].type = "frame" /\ q[i].epoch = e => q[i].n <= k

\* However the session goes on, no more than k frames of e will have been heard of
\* what is on its way or in the recorder.
NoMore(e, k) ==
  /\ Within(outbound, e, k) /\ Within(down, e, k)
  /\ heard[e] <= k
  /\ dac.epoch = e => dac.played + dac.pending <= k

\* The recorder has had e and will not take it again.
Dead(e) == e <= dev.last /\ dac.epoch # e

StreamOK(e) ==
  streams[e].live =>
    /\ e <= epoch
    /\ streams[e].played <= heard[e]
    /\ NoMore(e, streams[e].produced)
    /\ ~streams[e].started => streams[e].produced = 0
    /\ streams[e].end_sent => streams[e].done
    /\ streams[e].clear_sent => streams[e].cleared
    /\ streams[e].acknowledged => settled[e] # Open

\* An epoch that was not given out yet.
Ahead(e) == e > epoch => ~streams[e].live /\ settled[e] = Open /\ NoMore(e, 0)

\* An account that is closed stays right.
SettledOK(e) ==
  settled[e] # Open =>
    /\ settled[e] = heard[e]
    /\ Dead(e) \/ NoMore(e, heard[e])
    /\ streams[e].live => streams[e].cleared \/ streams[e].done

OutboundOK ==
  \A i \in 1..Len(outbound) :
    /\ outbound[i].epoch <= epoch
    /\ streams[outbound[i].epoch].live =>
         /\ outbound[i].type = "end" => streams[outbound[i].epoch].done
         /\ outbound[i].type = "clear" => streams[outbound[i].epoch].cleared

\* A position is reported late, but is never more than what was heard; that of
\* an acknowledgment is final.
Truthful(m) ==
  IF m.type = "progress" THEN m.played <= heard[m.epoch]
  ELSE m.played = heard[m.epoch] /\ Dead(m.epoch)

ReportsOK ==
  /\ \A i \in 1..Len(up) : Truthful(up[i])
  /\ \A i \in 1..Len(controls) : Truthful(controls[i])
  /\ ws.pc = "clearing" => Truthful(Cleared(ws.epoch, ws.played))

\* What the WebSocket task believes of the DAC, and where it is between the two.
DeviceOK ==
  /\ dev.current # 0 => dev.current = dev.last
  /\ ws.pc = "idle" => dac.epoch = dev.current
  /\ ws.pc # "idle" => ws.epoch \in Epoch /\ dac.pending = 0
  /\ ws.pc \in {"flushed", "clearing"} => dac.epoch = 0
  /\ ws.pc \in {"flushed", "opened"} => ws.epoch > dev.last
  /\ ws.pc = "opened" => dac.epoch = ws.epoch /\ dac.played = 0
  /\ ws.pc = "clearing" => ws.epoch = dev.current
  /\ dac.epoch = 0 => dac.pending = 0
  /\ ws.pc = "idle" /\ dac.epoch # 0 => dac.played + dac.pending = dev.expected
  /\ dac.epoch # 0 => heard[dac.epoch] = dac.played
  /\ \A e \in Epoch : e > dev.last => heard[e] = 0

AccountsOK == \A e \in Epoch : StreamOK(e) /\ Ahead(e) /\ SettledOK(e)

VoiceInv == VoiceTypes /\ AudioInOrder /\ DeviceOK /\ ReportsOK /\ OutboundOK /\ AccountsOK

\* What one step writes of an account.
Counted(s, o, produced, played) ==
  /\ s \in Account /\ s.produced = produced /\ s.played = played
  /\ s.started = o.started /\ s.done = o.done /\ s.end_sent = o.end_sent
  /\ s.cleared = o.cleared /\ s.clear_sent = o.clear_sent

\* A message that may stand in outbound.
Posted(m) ==
  /\ m.epoch <= epoch
  /\ streams[m.epoch].live => /\ m.type = "end" => streams[m.epoch].done
                              /\ m.type = "clear" => streams[m.epoch].cleared

Positions == \A e \in Epoch : Position(e) # Open => Position(e) = heard[e]

\* No step of the proxy opens an account again.
PositionsStay == \A e \in Epoch : Position(e) # Open => Position(e)' # Open

-------------------------------------------------------------------------------
(***************************************************************************)
(* Messages reach the recorder in order.                                   *)
(***************************************************************************)

\* What the recorder will make of the next message once the WebSocket task is
\* through with the one it is at.
Begins == ws.pc \in {"flushed", "opened"}

Current == IF Begins THEN ws.epoch ELSE IF ws.pc = "clearing" THEN 0 ELSE dev.current

Last == IF Begins THEN ws.epoch ELSE dev.last

Expected == IF Begins THEN 0 ELSE dev.expected

Ended == ~Begins /\ dev.ended

\* Everything on its way to the recorder, the next message first.
Wire == down \o outbound

Precedes(a, b) ==
  \/ a.epoch < b.epoch
  \/ /\ a.epoch = b.epoch
     /\ b.type # "start" /\ a.type # "clear"
     /\ a.type = "end" => b.type = "clear"
     /\ a.type = "frame" /\ b.type = "frame" => a.n < b.n

InOrder == \A i, j \in 1..Len(Wire) : i < j => Precedes(Wire[i], Wire[j])

\* A message is for the epoch the recorder is at, or comes after the start of its own.
AtCurrent(m) ==
  /\ m.epoch = Current /\ m.type # "start"
  /\ Ended => m.type = "clear"
  /\ m.type = "frame" => m.n > Expected

AfterStart(j) ==
  /\ Wire[j].epoch > Last
  /\ \E i \in 1..j : Wire[i] = Start(Wire[j].epoch)

Placed == \A j \in 1..Len(Wire) : AtCurrent(Wire[j]) \/ AfterStart(j)

WordsOK ==
  \A i \in 1..Len(Wire) :
    streams[Wire[i].epoch].live =>
      /\ Wire[i].type = "end" => streams[Wire[i].epoch].done
      /\ Wire[i].type = "clear" => streams[Wire[i].epoch].cleared

Unbegun(e) == e > Last /\ \A i \in 1..Len(Wire) : Wire[i].epoch # e

\* An account that is open and unfinished: the recorder is at it, or will be.
UnderWay(e) ==
  \/ e = Current /\ (Ended => streams[e].done)
  \/ e > Last /\ \E i \in 1..Len(Wire) : Wire[i] = Start(e)

BeginsOK(e) ==
  /\ e > epoch => Unbegun(e)
  /\ streams[e].live /\ ~streams[e].started => Unbegun(e)
  /\ streams[e].live /\ (~streams[e].started \/ (~streams[e].cleared /\ ~Finished(streams[e]))) =>
       \A f \in Epoch : f > e => Unbegun(f)
  /\ streams[e].live /\ streams[e].started /\ ~streams[e].cleared /\ ~Finished(streams[e]) =>
       UnderWay(e)

FlagsOK(e) ==
  /\ e <= epoch /\ ~streams[e].live => settled[e] # Open
  /\ streams[e].live =>
       /\ streams[e].done => streams[e].started /\ streams[e].produced >= 1
       /\ streams[e].acknowledged => streams[e].cleared
       /\ streams[e].cleared /\ ~streams[e].started =>
            /\ streams[e].acknowledged
            /\ \A f \in Epoch : f > e /\ streams[f].live => streams[f].cleared
       /\ ~streams[e].cleared => streams[e].produced + streams[e].queued >= 1

CallsOK == dev.cleared <= dev.last /\ (dev.current # 0 => dev.cleared < dev.current)

Order == InOrder /\ Placed /\ WordsOK /\ CallsOK /\ \A e \in Epoch : BeginsOK(e) /\ FlagsOK(e)

\* The k-th message of the wire is gone.
Removed(k) ==
  /\ k \in 1..Len(Wire) /\ Len(Wire') = Len(Wire) - 1
  /\ \A i \in 1..Len(Wire') : Wire'[i] = Wire[IF i < k THEN i ELSE i + 1]

Added(m) ==
  /\ Len(Wire') = Len(Wire) + 1
  /\ \A i \in 1..Len(Wire) : Wire'[i] = Wire[i]
  /\ Wire'[Len(Wire) + 1] = m

\* Two records of a stream that differ in nothing, or nothing but in one field.
SameCounts(s, o) ==
  s.queued = o.queued /\ s.produced = o.produced /\ s.sent = o.sent /\ s.played = o.played

SameClears(s, o) ==
  /\ s.cleared <=> o.cleared
  /\ s.acknowledged <=> o.acknowledged
  /\ s.clear_sent <=> o.clear_sent

SameStarts(s, o) ==
  /\ s.started <=> o.started
  /\ s.done <=> o.done

\* The other streams of a step that writes one.
Alone(e) == \A f \in Epoch \ {e} : streams'[f] = streams[f]

\* device_writer: what became of the message at the head of outbound.
SentMessage(m) == down' = Append(down, m) /\ over' = over

\* device_reader: a report is taken, recognised or refused.
Accepted(m) ==
  LET o == streams[m.epoch]
      s == streams'[m.epoch]
  IN /\ o.live /\ s.live /\ Alone(m.epoch) /\ Acceptable(o, m) /\ ~o.acknowledged /\ over' = over
     /\ s.played = m.played /\ o.played <= m.played /\ m.played <= s.sent
     /\ s.queued = o.queued /\ s.produced = o.produced /\ s.sent = o.sent
     /\ SameStarts(s, o)
     /\ s.end_sent <=> o.end_sent
     /\ s.cleared <=> o.cleared
     /\ s.clear_sent <=> o.clear_sent
     /\ s.acknowledged <=> m.type = "cleared"
     /\ s.acknowledged => s.cleared
     /\ m.type = "cleared" => settled'[m.epoch] = m.played
     /\ \A f \in Epoch : f # m.epoch \/ m.type # "cleared" => settled'[f] = settled[f]

\* interrupt.
Interrupted(e) == /\ streams[e].live /\ ~streams[e].cleared /\ ~streams[e].acknowledged
                  /\ ~Finished(streams[e])

Silenced(e) ==
  LET o == streams[e]
      s == streams'[e]
  IN /\ s.live /\ s.cleared /\ s.queued = 0
     /\ s.acknowledged <=> ~o.started
     /\ s.produced = o.produced /\ s.sent = o.sent /\ s.played = o.played
     /\ SameStarts(s, o)
     /\ s.end_sent <=> o.end_sent
     /\ s.clear_sent <=> o.clear_sent
     /\ settled'[e] = IF ~o.started THEN 0 ELSE settled[e]

\* Finished and acknowledged streams are forgotten.
Retires(e) ==
  /\ Closed(e) => ~streams'[e].live /\ settled'[e] = Settle(e)
  /\ ~Closed(e) => streams'[e] = streams[e] /\ settled'[e] = settled[e]

Opened(e) ==
  LET s == streams'[e] IN
  /\ s.live /\ s.queued = 1 /\ s.produced = 0 /\ s.sent = 0 /\ s.played = 0
  /\ ~s.started /\ ~s.done /\ ~s.end_sent /\ ~s.cleared /\ ~s.clear_sent /\ ~s.acknowledged

\* Nothing that concerns the playback.
Alike(e) ==
  LET o == streams[e]
      s == streams'[e]
  IN /\ s.live <=> o.live
     /\ o.live => /\ SameCounts(s, o) /\ SameClears(s, o) /\ SameStarts(s, o)
                  /\ s.end_sent <=> o.end_sent

\* Nothing new is on its way, and nothing is lost but for the k-th message.
Thin(h, k) ==
  /\ h \in [1..Len(Wire') -> 1..Len(Wire)]
  /\ \A i, j \in 1..Len(Wire') : i < j => h[i] < h[j]
  /\ \A i \in 1..Len(Wire') : Wire'[i] = Wire[h[i]] /\ h[i] # k
  /\ \A j \in 1..Len(Wire) : j # k => \E i \in 1..Len(Wire') : h[i] = j

\* What a step that sends nothing new may do to a stream.
Kin(e) ==
  LET o == streams[e]
      s == streams'[e]
  IN /\ s.live => /\ o.live
                  /\ s.started <=> o.started
                  /\ s.done <=> o.done
                  /\ s.cleared <=> o.cleared
                  /\ o.acknowledged => s.acknowledged
                  /\ s.acknowledged => s.cleared
                  /\ Finished(o) => Finished(s)
                  /\ s.produced >= o.produced
                  /\ s.produced + s.queued >= o.produced + o.queued
     /\ o.live /\ ~s.live => settled'[e] # Open
     /\ settled[e] # Open => settled'[e] # Open

TakenFrom(m) ==
  /\ over = "no" /\ ws.pc = "idle" /\ m = Head(down) /\ m \in Word
  /\ Removed(1) /\ Wire[1] = m /\ 1 \in 1..Len(Wire)
  /\ \A i \in 1..Len(Wire') : Wire'[i] = Wire[i + 1] /\ i + 1 \in 1..Len(Wire)
  /\ UNCHANGED <<streams, settled, epoch, retired, outbound, up, controls, sample, heard>>
  /\ Current = dev.current /\ Last = dev.last /\ Expected = dev.expected /\ (Ended <=> dev.ended)
  /\ down # <<>> /\ down' = Tail(down)

-------------------------------------------------------------------------------
(***************************************************************************)
(* Credit and frames.                                                      *)
(***************************************************************************)

\* The part of an answer in Unreported, and the sums of these parts.
Share(e) ==
  IF streams[e].live /\ ~streams[e].cleared THEN streams[e].sent - streams[e].played ELSE 0

Adds(S, n) == S = [e \in 0..n |-> IF e = 0 THEN 0 ELSE S[e - 1] + Share(e)]

\* Nothing beyond the k-th frame of e has reached the recorder or is on its way.
Reached(e, k) ==
  /\ Within(down, e, k)
  /\ heard[e] <= k
  /\ dac.epoch = e => dac.played + dac.pending <= k

\* What waits for credit is beyond it.
Waiting(e, k) ==
  \A i \in 1..Len(outbound) :
    outbound[i].type = "frame" /\ outbound[i].epoch = e => outbound[i].n > k

CreditOK(e) ==
  streams[e].live =>
    /\ streams[e].played <= streams[e].sent /\ streams[e].sent <= streams[e].produced
    /\ streams[e].sent <= streams[e].played + Credit
    /\ Reached(e, streams[e].sent)
    /\ streams[e].end_sent => streams[e].sent = streams[e].produced
    /\ Waiting(e, streams[e].sent)

\* The n-th frame of e is the next for the recorder, or follows what is before j.
Before(e, n, j) ==
  \/ e = Current /\ n = Expected + 1
  \/ n = 1 /\ \E i \in 1..(j - 1) : Wire[i] = Start(e)
  \/ n > 1 /\ \E i \in 1..(j - 1) : Wire[i] = Frame(e, n - 1)

Playing(e) == streams[e].live /\ ~streams[e].cleared

FramesOK ==
  /\ \A j \in 1..Len(Wire) :
       Wire[j].type = "frame" /\ (j <= Len(down) \/ Playing(Wire[j].epoch)) =>
         Before(Wire[j].epoch, Wire[j].n, j)
  /\ \A j \in 1..Len(Wire) :
       Wire[j].type = "end" /\ j > Len(down) /\ Playing(Wire[j].epoch) =>
         Before(Wire[j].epoch, streams[Wire[j].epoch].produced + 1, j)
  /\ \A e \in Epoch :
       Playing(e) /\ streams[e].started /\ ~streams[e].done =>
         Before(e, streams[e].produced + 1, Len(Wire) + 1)

Credits == \A e \in Epoch : CreditOK(e)

\* What the recorder is at after the message m.
Taken(m) ==
  /\ TakenFrom(m) /\ m.epoch \in Epoch
  /\ \/ /\ m.type = "start" /\ m = Start(m.epoch) /\ m.epoch > Last
        /\ Current' = m.epoch /\ Expected' = 0
     \/ /\ m.type = "clear" /\ m = Clear(m.epoch) /\ m.epoch = Current
        /\ Current' = 0 /\ Expected' = Expected
     \/ /\ m.type = "end" /\ m.epoch = Current /\ Current' = Current /\ Expected' = Expected
     \/ /\ m.type = "frame" /\ m = Frame(m.epoch, m.n) /\ m.epoch = Current /\ m.n = Expected + 1
        /\ Current' = Current /\ Expected' = m.n

-------------------------------------------------------------------------------
(***************************************************************************)
(* Clears and starts are handed over.                                      *)
(***************************************************************************)

\* The recorder has cleared e and the proxy has not read it yet.
Acks(e) ==
  \/ ws.pc = "clearing" /\ ws.epoch = e
  \/ \E i \in 1..Len(up) : up[i].type = "cleared" /\ up[i].epoch = e
  \/ \E i \in 1..Len(controls) : controls[i].type = "cleared" /\ controls[i].epoch = e

\* An answer that waits for its acknowledgment.
Clearing(e) ==
  streams[e].live /\ streams[e].cleared /\ streams[e].started /\ ~streams[e].acknowledged

ClearsOK ==
  /\ \A i \in 1..Len(Wire) : Wire[i].type = "clear" => Clearing(Wire[i].epoch)
  /\ \A e \in Epoch : Clearing(e) => Acks(e) \/ \E i \in 1..Len(Wire) : Wire[i] = Clear(e)

\* An answer begins when every earlier one is played or cleared.
Turns ==
  \A i \in 1..Len(Wire) : Wire[i].type = "start" =>
    \A e \in Epoch : e < Wire[i].epoch =>
      Position(e) # Open \/ Acks(e) \/ \E j \in 1..i : Wire[j] = Clear(e)

Handed == ClearsOK /\ Turns

-------------------------------------------------------------------------------
(***************************************************************************)
(* Reports are told in order, and answers are asked for.                   *)
(***************************************************************************)

\* A report that says more than that nothing was heard yet.
Telling(m) == m.type = "cleared" \/ m.played # 0

\* Of two telling reports the later one tells no less, and nothing follows an acknowledgment.
Tells(a, b) ==
  Telling(a) /\ Telling(b) =>
    a.epoch < b.epoch \/ (a.epoch = b.epoch /\ a.type = "progress" /\ a.played <= b.played)

Rising(q) == \A i, j \in 1..Len(q) : i < j => Tells(q[i], q[j])

Heeds(q, m) == \A i \in 1..Len(q) : Tells(q[i], m)

Answering == Cleared(ws.epoch, ws.played)

\* Reports reach the proxy in the order of what they tell: those under way, then the
\* acknowledgments that wait, then the one the WebSocket task is about to queue.
ToldOrder ==
  /\ Rising(up) /\ Rising(controls)
  /\ \A j \in 1..Len(controls) :
       /\ Heeds(up, controls[j])
       /\ controls[j].type = "cleared"
       /\ sample # 0 => controls[j].epoch >= sample
  /\ ws.pc = "clearing" => Heeds(up, Answering) /\ Heeds(controls, Answering)
  /\ sample <= dev.last

\* An interrupted answer whose clear has been sent.
Asked(e) == Clearing(e) /\ streams[e].clear_sent

AskedOK ==
  /\ \A i \in 1..Len(down) : down[i].type = "clear" => Asked(down[i].epoch)
  /\ \A e \in Epoch : Acks(e) => Asked(e)

Keeps(e) ==
  LET o == streams[e]
      s == streams'[e]
  IN /\ s.live <=> o.live
     /\ settled'[e] = settled[e]
     /\ o.live => /\ s.acknowledged <=> o.acknowledged
                  /\ s.cleared <=> o.cleared
                  /\ s.played = o.played
                  /\ o.started => s.started
                  /\ o.cleared => (s.started <=> o.started)

\* An account is settled while it is open only by an acknowledgment, and the recorder
\* is done with an answer whose clear it acknowledged.
AckedOK ==
  \A e \in Epoch : streams[e].live =>
    /\ settled[e] # Open => streams[e].acknowledged
    /\ streams[e].acknowledged /\ streams[e].started => Dead(e)

\* An answer that the recorder is about to begin.
Coming(e) == (\E i \in 1..Len(Wire) : Wire[i] = Start(e)) \/ (Begins /\ ws.epoch = e)

StartsLive == \A e \in Epoch : Coming(e) => streams[e].live

-------------------------------------------------------------------------------
(***************************************************************************)
(* What is settled when an answer begins, and what was heard of it.        *)
(***************************************************************************)

\* When an answer begins at the recorder, every earlier one is settled or acknowledged.
Began == \A f \in Epoch : f < Last => Position(f) # Open \/ Acks(f)

\* What the proxy has heard something of comes after answers that are settled.
Passed ==
  \A e, f \in Epoch : streams[e].live /\ streams[e].played # 0 /\ f < e => Position(f) # Open

\* Nothing was heard of the answers after e.
Behind(e) == \A f \in Epoch : f > e /\ streams[f].live => streams[f].played = 0

\* The recorder may still tell of e.
Echo(e) == dac.epoch = e \/ \E i \in 1..Len(up) : Telling(up[i]) /\ up[i].epoch = e

BehindOK == \A e \in Epoch : Echo(e) \/ Acks(e) => Behind(e)

\* A report on its way fits the account of its answer, or the position it was closed at.
Fits(m) ==
  Telling(m) =>
    /\ streams[m.epoch].live =>
         streams[m.epoch].played <= m.played /\ ~streams[m.epoch].acknowledged
    /\ ~streams[m.epoch].live => m.played = settled[m.epoch]

ReportsFit == \A i \in 1..Len(up) : Fits(up[i])

-------------------------------------------------------------------------------
(***************************************************************************)
(* The memory of closed accounts.                                          *)
(***************************************************************************)

Entry == [epoch : Epoch, played : Nat, cleared : BOOLEAN]

RetTypes == retired \in Seq(Entry)

\* From the k-th entry of q on, q remembers that e stands at p and that nothing was heard after it.
Recalls(q, k, e, p) ==
  /\ k > 0 => q[k].epoch = e /\ q[k].played = p
  /\ \A j \in (k + 1)..Len(q) : q[j].epoch > e /\ q[j].played = 0

RetOK(e) ==
  \E k \in 0..Len(retired) :
    /\ k = 0 => Len(retired) = MaxRetired
    /\ Recalls(retired, k, e, settled[e])

\* What the recorder may still tell of a closed account: the proxy remembers where it
\* stands, or has forgotten it over later answers of which nothing was heard.
MemoryOK ==
  \A e \in Epoch : e <= epoch /\ ~streams[e].live /\ Echo(e) =>
    RetOK(e) /\ \A f \in Epoch : f < e => ~streams[f].live

\* The last MaxRetired of all.
Trimmed(all, d) ==
  /\ d \in Nat /\ d <= Len(all) /\ Len(retired') = Len(all) - d
  /\ d = 0 => Len(all) <= MaxRetired
  /\ d > 0 => Len(retired') = MaxRetired
  /\ \A i \in 1..Len(retired') : retired'[i] = all[i + d]

\* The closed accounts after the others, in their order.
Extended(all, c, n) ==
  /\ n \in Nat /\ c \in [1..n -> Epoch] /\ \A i \in 1..n : Closed(c[i])
  /\ \A e \in Epoch : Closed(e) => \E i \in 1..n : c[i] = e
  /\ \A i, j \in 1..n : i < j => c[i] < c[j]
  /\ all \in Seq(Entry) /\ Len(all) = Len(retired) + n
  /\ \A i \in 1..Len(retired) : all[i] = retired[i]
  /\ \A i \in 1..n : /\ all[Len(retired) + i].epoch = c[i]
                     /\ all[Len(retired) + i].played = streams[c[i]].played

-------------------------------------------------------------------------------
(***************************************************************************)
(* Together.                                                               *)
(***************************************************************************)

\* While the session goes on.
Running ==
  /\ Order /\ Credits /\ FramesOK /\ Handed /\ ToldOrder /\ AskedOK /\ AckedOK /\ StartsLive
  /\ Began /\ Passed /\ BehindOK /\ ReportsFit /\ RetTypes /\ MemoryOK

SurvInv == VoiceInv /\ (over = "no" => Running) /\ SessionSurvives
===============================================================================
