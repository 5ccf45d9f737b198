----------------------------- MODULE RollingAudio -----------------------------
(***************************************************************************)
(* The rolling microphone buffer, components/rolling_audio/rolling_audio.c:*)
(* a worker task that encodes the microphone into a byte ring, and the     *)
(* main task that switches it on and off and takes what it holds.          *)
(*                                                                         *)
(* A frame of the microphone is its number, a byte of its packet the pair  *)
(* of that number and the byte's place.  Encoders are numbered in the      *)
(* order they are created.                                                 *)
(***************************************************************************)
EXTENDS Naturals, Sequences

CONSTANTS
  RingFrames,   \* ROLLING_MAX_FRAMES
  RingBytes,    \* ROLLING_DATA_BYTES
  MaxBytes,     \* OPUS_PACKET_MAX
  Skip,         \* pre-skip the encoder reports
  MaxMic,       \* bound on the frames captured
  MaxEncoders,  \* bound on the encoders created
  Faults,       \* "audio": the codec or the microphone; "memory"
  Stalls        \* the worker may take longer than a caller waits

ASSUME RollingAssumption ==
  /\ RingFrames \in Nat \ {0} /\ RingBytes \in Nat \ {0}
  /\ MaxBytes \in 1..RingBytes /\ Skip \in Nat \ {0}
  /\ MaxMic \in Nat /\ MaxEncoders \in Nat
  /\ Faults \subseteq {"audio", "memory"} /\ Stalls \in BOOLEAN

VARIABLES
  ring,      \* data, packets (oldest first), data_head, data_used, pre_skip, origin
  enabled, active, handoff_requested,
  slot,      \* handoff_encoder, 0 for NULL
  worker,    \* the worker task: pc, its encoder, whether err is set
  main,      \* what the main task is doing in this module
  snapshot,  \* what the main task has taken
  mic,       \* frames captured so far
  made,      \* encoders created so far
  first,     \* history: the first frame each encoder encoded, 0 before it
  freed,     \* history: how often each encoder was destroyed
  paused     \* history: frames captured before it was last stopped, or failed

flags == <<enabled, active, handoff_requested>>
history == <<mic, made, first, freed, paused>>
vars == <<ring, flags, slot, worker, main, snapshot, history>>

Encoder == 1..MaxEncoders
Frame == 1..MaxMic
Byte == Frame \X (1..MaxBytes)
Unwritten == <<0, 0>>
Packet == [offset : 0..(RingBytes - 1), bytes : 1..MaxBytes]
NoSnapshot == [encoder |-> 0, packets |-> <<>>, pre_skip |-> 0, encoder_pre_skip |-> 0]

TypeOK ==
  /\ ring.data \in [0..(RingBytes - 1) -> Byte \cup {Unwritten}]
  /\ ring.packets \in Seq(Packet) /\ Len(ring.packets) <= RingFrames
  /\ ring.head \in 0..(RingBytes - 1) /\ ring.used \in 0..RingBytes
  /\ ring.pre_skip \in {0, Skip} /\ ring.origin \in BOOLEAN
  /\ enabled \in BOOLEAN /\ active \in BOOLEAN /\ handoff_requested \in BOOLEAN
  /\ slot \in 0..MaxEncoders
  /\ worker \in [pc : {"none", "create", "start", "loop", "stop", "decide",
                       "give", "drop", "clear", "leave"},
                 encoder : 0..MaxEncoders, err : BOOLEAN]
  /\ main \in {"idle", "disabling", "requesting", "taking", "draining", "holding"}
  /\ snapshot \in [encoder : 0..MaxEncoders, packets : Seq(Seq(Byte \cup {Unwritten})),
                   pre_skip : {0, Skip}, encoder_pre_skip : {0, Skip}]
  /\ mic \in 0..MaxMic /\ made \in 0..MaxEncoders /\ paused \in 0..MaxMic
  /\ first \in [Encoder -> 0..MaxMic] /\ freed \in [Encoder -> Nat]

-------------------------------------------------------------------------------
(***************************************************************************)
(* The ring.                                                               *)
(***************************************************************************)

Cleared ==
  [data |-> [i \in 0..(RingBytes - 1) |-> Unwritten], packets |-> <<>>,
   head |-> 0, used |-> 0, pre_skip |-> 0, origin |-> TRUE]

\* Drop the k oldest packets.
Evicted(k) ==
  IF k = 0 THEN ring
  ELSE LET last == ring.packets[k]
           gone[i \in 0..k] == IF i = 0 THEN 0 ELSE gone[i - 1] + ring.packets[i].bytes
       IN [ring EXCEPT !.head = (last.offset + last.bytes) % RingBytes,
                       !.used = @ - gone[k],
                       !.packets = SubSeq(@, k + 1, Len(@)),
                       !.origin = FALSE]

Fits(r, bytes) == Len(r.packets) < RingFrames /\ bytes <= RingBytes - r.used

\* The ring after a packet of frame n: as few as possible are evicted.
Appended(n, bytes) ==
  LET k == CHOOSE k \in 0..Len(ring.packets) :
             /\ Fits(Evicted(k), bytes)
             /\ \A j \in 0..(k - 1) : ~Fits(Evicted(j), bytes)
      r == Evicted(k)
      offset == (r.head + r.used) % RingBytes
      place(i) == 1 + ((i + RingBytes - offset) % RingBytes)
  IN [r EXCEPT !.data = [i \in 0..(RingBytes - 1) |->
                           IF place(i) <= bytes THEN <<n, place(i)>> ELSE @[i]],
               !.packets = Append(@, [offset |-> offset, bytes |-> bytes]),
               !.used = @ + bytes]

\* The bytes of a packet, copied out around the end of the ring.
Copied(p) == [i \in 1..p.bytes |-> ring.data[(p.offset + i - 1) % RingBytes]]

Destroyed(e) == [freed EXCEPT ![e] = @ + 1]

-------------------------------------------------------------------------------
(***************************************************************************)
(* The worker task.                                                        *)
(***************************************************************************)

Goto(pc) == worker' = [worker EXCEPT !.pc = pc]
Failing(pc) == worker' = [worker EXCEPT !.pc = pc, !.err = TRUE]

CreateEncoder ==
  /\ worker.pc = "create"
  /\ \/ /\ made < MaxEncoders
        /\ made' = made + 1
        /\ worker' = [worker EXCEPT !.pc = "start", !.encoder = made + 1]
     \/ "memory" \in Faults /\ Failing("decide") /\ UNCHANGED made
  /\ UNCHANGED <<ring, flags, slot, main, snapshot, mic, first, freed, paused>>

StartAudio ==
  /\ worker.pc = "start"
  /\ \/ Goto("loop") /\ ring' = [ring EXCEPT !.pre_skip = Skip]
     \/ "audio" \in Faults /\ Failing("decide") /\ UNCHANGED ring
  /\ UNCHANGED <<flags, slot, main, snapshot, history>>

\* One turn of the loop: read, encode, append.
Capture ==
  /\ worker.pc = "loop" /\ enabled /\ mic < MaxMic
  /\ mic' = mic + 1
  /\ \E bytes \in 1..MaxBytes : ring' = Appended(mic + 1, bytes)
  /\ first' = [first EXCEPT ![worker.encoder] = IF @ = 0 THEN mic + 1 ELSE @]
  /\ UNCHANGED <<flags, slot, worker, main, snapshot, made, freed, paused>>

\* The read, the overrun check or the encoder fails; or enabled is clear.
LoopEnds ==
  /\ worker.pc = "loop"
  /\ IF enabled THEN "audio" \in Faults /\ Failing("stop") ELSE Goto("stop")
  /\ UNCHANGED <<ring, flags, slot, main, snapshot, history>>

StopAudio ==
  /\ worker.pc = "stop"
  /\ Goto("decide") \/ ("audio" \in Faults /\ Failing("decide"))
  /\ UNCHANGED <<ring, flags, slot, main, snapshot, history>>

Decide ==
  /\ worker.pc = "decide"
  /\ Goto(IF handoff_requested /\ ~worker.err THEN "give" ELSE "drop")
  /\ UNCHANGED <<ring, flags, slot, main, snapshot, history>>

\* The encoder goes into the slot or is destroyed.
HandOver ==
  /\ \/ /\ worker.pc = "give"
        /\ slot' = worker.encoder
        /\ freed' = IF slot # 0 THEN Destroyed(slot) ELSE freed
     \/ /\ worker.pc = "drop"
        /\ freed' = IF worker.encoder # 0 THEN Destroyed(worker.encoder) ELSE freed
        /\ UNCHANGED slot
  /\ worker' = [worker EXCEPT !.pc = "clear", !.encoder = 0]
  /\ UNCHANGED <<ring, flags, main, snapshot, mic, made, first, paused>>

\* Mutant: the ring of a failed worker is kept.
FinishKept ==
  /\ worker.pc = "clear"
  /\ paused' = IF worker.err THEN mic ELSE paused
  /\ enabled' = FALSE
  /\ Goto("leave")
  /\ UNCHANGED <<ring, active, handoff_requested, slot, main, snapshot, mic, made,
                 first, freed>>

Finish ==
  /\ worker.pc = "clear"
  /\ ring' = IF worker.err THEN Cleared ELSE ring
  /\ paused' = IF worker.err THEN mic ELSE paused
  /\ enabled' = FALSE
  /\ Goto("leave")
  /\ UNCHANGED <<active, handoff_requested, slot, main, snapshot, mic, made, first,
                 freed>>

\* Mutant: a worker that failed leaves without clearing active.
LeaveActive ==
  /\ worker.pc = "leave"
  /\ active' = worker.err
  /\ worker' = [pc |-> "none", encoder |-> 0, err |-> FALSE]
  /\ UNCHANGED <<ring, enabled, handoff_requested, slot, main, snapshot, history>>

Leave ==
  /\ worker.pc = "leave"
  /\ active' = FALSE
  /\ worker' = [pc |-> "none", encoder |-> 0, err |-> FALSE]
  /\ UNCHANGED <<ring, enabled, handoff_requested, slot, main, snapshot, history>>

Worker == CreateEncoder \/ StartAudio \/ Capture \/ LoopEnds \/ StopAudio
          \/ Decide \/ HandOver \/ Finish \/ Leave

-------------------------------------------------------------------------------
(***************************************************************************)
(* rolling_audio_set_enabled.                                              *)
(***************************************************************************)

\* Switched on while nothing runs; the task may not be created.
Enable ==
  /\ main = "idle" /\ ~active
  /\ ring' = Cleared
  /\ \/ /\ enabled' = TRUE /\ active' = TRUE
        /\ worker' = [pc |-> "create", encoder |-> 0, err |-> FALSE]
     \/ /\ "memory" \in Faults
        /\ enabled' = FALSE /\ UNCHANGED <<active, worker>>
  /\ UNCHANGED <<handoff_requested, slot, main, snapshot, history>>

Disable ==
  /\ main = "idle" /\ (active \/ enabled)
  /\ enabled' = FALSE
  /\ main' = "disabling"
  /\ UNCHANGED <<ring, active, handoff_requested, slot, worker, snapshot, history>>

Disabled ==
  /\ main = "disabling" /\ ~active
  /\ ring' = Cleared
  /\ paused' = mic
  /\ main' = "idle"
  /\ UNCHANGED <<flags, slot, worker, snapshot, mic, made, first, freed>>

DisableTimeout ==
  /\ main = "disabling" /\ active /\ Stalls
  /\ paused' = mic
  /\ main' = "idle"
  /\ UNCHANGED <<ring, flags, slot, worker, snapshot, mic, made, first, freed>>

-------------------------------------------------------------------------------
(***************************************************************************)
(* rolling_audio_take and the release of what it returned.                 *)
(***************************************************************************)

Take ==
  /\ main = "idle"
  /\ handoff_requested' = TRUE
  /\ main' = "requesting"
  /\ UNCHANGED <<ring, enabled, active, slot, worker, snapshot, history>>

TakeStop ==
  /\ main = "requesting"
  /\ enabled' = FALSE
  /\ main' = "taking"
  /\ UNCHANGED <<ring, active, handoff_requested, slot, worker, snapshot, history>>

Snapshot ==
  [encoder |-> slot,
   packets |-> [i \in DOMAIN ring.packets |-> Copied(ring.packets[i])],
   pre_skip |-> IF ring.origin /\ ring.packets # <<>> THEN ring.pre_skip ELSE 0,
   encoder_pre_skip |-> ring.pre_skip]

\* Mutant: the encoder stays in the slot.
TakenKept ==
  /\ main = "taking" /\ ~active
  /\ handoff_requested' = FALSE
  /\ ring' = Cleared
  /\ snapshot' = Snapshot /\ main' = "holding"
  /\ UNCHANGED <<enabled, active, slot, worker, history>>

\* The worker has left: the snapshot.
Taken ==
  /\ main = "taking" /\ ~active
  /\ handoff_requested' = FALSE
  /\ ring' = Cleared
  /\ slot' = 0
  /\ snapshot' = Snapshot
  /\ main' = "holding"
  /\ UNCHANGED <<enabled, active, worker, history>>

\* The same without the memory for it: the encoder goes with the history, and
\* the caller holds an empty snapshot.
TakenNoMemory ==
  /\ main = "taking" /\ ~active
  /\ "memory" \in Faults /\ ring.packets # <<>>
  /\ handoff_requested' = FALSE
  /\ ring' = Cleared
  /\ freed' = IF slot # 0 THEN Destroyed(slot) ELSE freed
  /\ slot' = 0
  /\ main' = "holding"
  /\ UNCHANGED <<enabled, active, worker, snapshot, mic, made, first, paused>>

TakeTimeout ==
  /\ main = "taking" /\ active /\ Stalls
  /\ handoff_requested' = FALSE
  /\ main' = "draining"
  /\ UNCHANGED <<ring, enabled, active, slot, worker, snapshot, history>>

\* Mutant: a handover that came too late is left in the slot.
DrainedLeft ==
  /\ main = "draining" /\ ~active
  /\ ring' = Cleared
  /\ paused' = mic
  /\ main' = "idle"
  /\ UNCHANGED <<flags, slot, worker, snapshot, mic, made, first, freed>>

Drained ==
  /\ main = "draining" /\ ~active
  /\ freed' = IF slot # 0 THEN Destroyed(slot) ELSE freed
  /\ slot' = 0
  /\ ring' = Cleared
  /\ paused' = mic
  /\ main' = "idle"
  /\ UNCHANGED <<flags, worker, snapshot, mic, made, first>>

\* The recording or the voice session is over: rolling_snapshot_release.
Release ==
  /\ main = "holding"
  /\ freed' = IF snapshot.encoder # 0 THEN Destroyed(snapshot.encoder) ELSE freed
  /\ snapshot' = NoSnapshot
  /\ main' = "idle"
  /\ UNCHANGED <<ring, flags, slot, worker, mic, made, first, paused>>

Main == Enable \/ Disable \/ Disabled \/ DisableTimeout \/ Take \/ TakeStop
        \/ Taken \/ TakenNoMemory \/ TakeTimeout \/ Drained \/ Release

-------------------------------------------------------------------------------
Init ==
  /\ ring = Cleared
  /\ enabled = FALSE /\ active = FALSE /\ handoff_requested = FALSE
  /\ slot = 0
  /\ worker = [pc |-> "none", encoder |-> 0, err |-> FALSE]
  /\ main = "idle"
  /\ snapshot = NoSnapshot
  /\ mic = 0 /\ made = 0 /\ paused = 0
  /\ first = [e \in Encoder |-> 0] /\ freed = [e \in Encoder |-> 0]

Next == Worker \/ Main

Spec == Init /\ [][Next]_vars

\* Fairness.  The scheduler runs the worker (priority 8) and the main task's
\* waits; audio_read returns within 200 ms.  Nobody has to call the API.
Waits == Disabled \/ TakeStop \/ Taken \/ TakenNoMemory \/ Drained
FairSpec == Spec /\ WF_vars(Worker) /\ WF_vars(Waits)

-------------------------------------------------------------------------------
(***************************************************************************)
(* Properties.                                                             *)
(***************************************************************************)

\* Every encoder ever created is owned in one place or was destroyed once, through
\* every race of the handover in worker against the waits of rolling_audio_take.
EncoderOnce ==
  /\ \A e \in 1..made :
       freed[e] = IF e \in {worker.encoder, slot, snapshot.encoder} THEN 0 ELSE 1
  /\ worker.encoder # 0 => worker.encoder \notin {slot, snapshot.encoder}
  /\ slot # 0 => slot # snapshot.encoder

\* The inductive strengthening of EncoderOnce: who may hold an encoder when.
Holding ==
  /\ \A e \in Encoder : e > made => freed[e] = 0
  /\ worker.encoder <= made /\ slot <= made /\ snapshot.encoder <= made
  /\ worker.pc \in {"none", "create", "clear", "leave"} => worker.encoder = 0
  /\ ~active => worker.pc = "none"
  /\ main # "holding" => snapshot.encoder = 0
  /\ EncoderOnce

\* The frame a packet holds.
Of(p) == p[1][1]

\* What take returns is an unbroken run of whole frames, oldest first, out of a
\* byte ring that wrapped and evicted while it was filled.
SnapshotIntact ==
  \A i \in DOMAIN snapshot.packets :
    /\ \A k \in DOMAIN snapshot.packets[i] :
         snapshot.packets[i][k] = <<Of(snapshot.packets[i]), k>>
    /\ i > 1 => Of(snapshot.packets[i]) = Of(snapshot.packets[i - 1]) + 1

\* The pre-skip is the encoder's exactly when the history starts with the first
\* frame of an encoder, and an encoder that is handed over has encoded that
\* history and nothing after it, so that a recording can go on with it.
SnapshotContinues ==
  main = "holding" =>
    IF snapshot.packets = <<>>
    THEN snapshot.encoder # 0 => first[snapshot.encoder] = 0
    ELSE LET from == Of(snapshot.packets[1])
             to == Of(snapshot.packets[Len(snapshot.packets)])
         IN /\ (snapshot.pre_skip = Skip) <=> (\E e \in 1..made : first[e] = from)
            /\ snapshot.encoder # 0 =>
                 first[snapshot.encoder] \in 1..from /\ to = mic

\* What a recording or a voice session is given as the past is what was said then.
SnapshotWhole == SnapshotIntact /\ SnapshotContinues

\* Everything a snapshot holds was captured after the buffer was last stopped by
\* its caller or by a fault.
SnapshotFresh ==
  \A i \in DOMAIN snapshot.packets : Of(snapshot.packets[i]) > paused

\* A caller that waits is answered, also when the worker was late.
CallsEnd == main \in {"disabling", "taking", "draining"} ~> main \in {"idle", "holding"}
===============================================================================
