---------------------------- MODULE RecordingStore ----------------------------
(***************************************************************************)
(* The recording files on the SD card: components/recorder/storage.c, the  *)
(* Ogg Opus writer, parser and repair of recorder_core/ogg_opus.c, and the *)
(* order in which record_worker (recorder/recording.c) calls them.         *)
(*                                                                         *)
(* A recording is a sequence of Ogg pages; a page stands for the packets   *)
(* it holds, a byte offset for the number of pages before it.  Creating,   *)
(* renaming and unlinking a file is durable at once (the README excludes   *)
(* FAT itself); the content of a file is durable only up to its last       *)
(* fsync, and what was written after it survives a power loss in part.     *)
(***************************************************************************)
EXTENDS Integers, Sequences

CONSTANTS
  Times,         \* distinct clock readings that name a recording
  MaxAttempt,    \* last collision suffix storage_begin tries (999)
  PagePackets,   \* packets that fill a page (50)
  MinPage,       \* fewest packets whose size can fill a page (6)
  FrameGranule,  \* granule of one 20 ms frame (960)
  EncoderSkip,   \* look-ahead the encoder reports, in granule (312)
  Headers,       \* pre-skips a header may carry: EncoderSkip, or 0 after eviction
  MaxHistory,    \* most pre-roll frames a snapshot brings
  MaxFrames,     \* frames that exhaust the 16 MiB file bound
  MaxCrashes,    \* bound on power losses
  Faults         \* the I/O errors that may happen: "write", "sync", "dir"

ASSUME StoreAssumption ==
  /\ MaxAttempt \in Nat
  /\ PagePackets \in Nat \ {0}
  /\ MinPage \in 1..PagePackets
  /\ FrameGranule \in Nat
  /\ EncoderSkip \in 1..(FrameGranule - 1)
  /\ Headers \subseteq {0, EncoderSkip}
  /\ MaxHistory \in Nat
  /\ MaxFrames \in Nat \ {0}
  /\ MaxCrashes \in Nat
  /\ Faults \subseteq {"write", "sync", "dir"}

Stem == Times \X (0..MaxAttempt)
NoStem == <<>>

VARIABLES
  parts, metas, ckps, finals,  \* names that exist with each extension
  pages,    \* content of the .part or .opus file after its two header pages
  synced,   \* how many of those pages are known to be on the card
  header,   \* the pre-skip in its OpusHead page
  slots,    \* the two .ckp slots: pages each covers, 0 when it does not decode
  pc, phase, cur, todo,               \* where the device is
  history, frames, output, buffered,  \* record_worker and the page writer
  turn,     \* journal_slot % 2
  failed,   \* error_code is set
  crashes,
  secured, interrupted  \* ghosts: pages a checkpoint covers; repairs cut short

disk == <<parts, metas, ckps, finals>>
content == <<pages, synced, header>>
writer == <<history, frames, output, buffered, turn>>
ghosts == <<crashes, secured, interrupted>>
vars == <<disk, content, slots, pc, phase, cur, todo, writer, failed, ghosts>>

\* A page either is whole, audio or the end-of-stream one, or fails its CRC.
Kinds == {"audio", "last", "broken"}
Page == [frames : Nat, granule : Nat, kind : Kinds]
Phases == {"history", "joint", "capture", "padding"}
Steps == {"idle", "meta", "head", "journal", "start", "abort_ckp", "abort_meta",
          "append", "ckpt_file", "ckpt_slot", "finish", "finish_sync", "rename",
          "unlink", "recover", "repair_sync", "publish", "drop_ckp"}
\* The steps at which the record worker owns cur.
Writing == {"meta", "head", "journal", "start", "append", "ckpt_file",
            "ckpt_slot", "finish", "finish_sync", "rename"}

TypeOK ==
  /\ parts \subseteq Stem /\ metas \subseteq Stem
  /\ ckps \subseteq Stem /\ finals \subseteq Stem
  /\ pages \in [Stem -> Seq(Page)]
  /\ synced \in [Stem -> Nat]
  /\ header \in [Stem -> {0, EncoderSkip}]
  /\ slots \in [Stem -> [0..1 -> Nat]]
  /\ pc \in Steps /\ phase \in Phases
  /\ cur \in (IF pc \in {"idle", "recover"} THEN {NoStem} ELSE Stem)
  /\ todo \subseteq Stem
  /\ history \in Nat /\ frames \in Nat /\ output \in Nat /\ buffered \in Nat
  /\ turn \in 0..1 /\ failed \in BOOLEAN /\ crashes \in Nat
  /\ secured \in [Stem -> Nat] /\ interrupted \subseteq Stem

(***************************************************************************)
(* The Ogg Opus container.                                                 *)
(***************************************************************************)

\* ogg_opus_parse of the first k pages q of a file whose header says skip; e says
\* an end-of-stream is required.
Parse(q, skip, k, e) ==
  /\ k \in 1..Len(q)
  /\ \A i \in 1..k :
       /\ q[i].kind # "broken"
       /\ q[i].kind = "last" => i = k /\ q[i].granule <= q[i].frames * FrameGranule
       /\ q[i].kind = "audio" => q[i].granule = q[i].frames * FrameGranule
       /\ q[i].granule >= skip
       /\ i > 1 => q[i].granule >= q[i - 1].granule
  /\ e => q[k].kind = "last"
  /\ q[k].granule > skip

Parses(s, k, e) == Parse(pages[s], header[s], k, e)

\* The larger of two slots.
Larger(slot) == IF slot[0] > slot[1] THEN slot[0] ELSE slot[1]

\* The pages that the slots which decode cover, 0 when there is none.
SafePages(s) == IF s \notin ckps THEN 0 ELSE Larger(slots[s])

Repairable(s) ==
  /\ Parses(s, SafePages(s), FALSE)
  /\ pages[s][SafePages(s)].kind = "audio"

\* The in-memory recording is dead; storage_begin clears it before its next use.
Cleared ==
  /\ cur' = NoStem /\ phase' = "history" /\ failed' = FALSE
  /\ history' = 0 /\ frames' = 0 /\ output' = 0 /\ buffered' = 0 /\ turn' = 0
Rest == pc' = "idle" /\ Cleared

AudioPage == [frames |-> frames, granule |-> frames * FrameGranule, kind |-> "audio"]
BrokenPage == [frames |-> frames, granule |-> frames * FrameGranule, kind |-> "broken"]

\* The granule of the last page the writer flushed, 0 before the first.
Committed == (frames - buffered) * FrameGranule
FinalGranule == header[cur] + output * FrameGranule
LastPage == [frames |-> frames, granule |-> FinalGranule, kind |-> "last"]

\* Mutant: the division rounds down.
PaddingDown == EncoderSkip \div FrameGranule

\* encoder_padding_frames: silent frames that flush the encoder's look-ahead.
Padding == (EncoderSkip + FrameGranule - 1) \div FrameGranule

\* The checks of ogg_opus_writer_finish.
FinishAccepts ==
  /\ buffered > 0
  /\ FinalGranule <= frames * FrameGranule
  /\ FinalGranule >= Committed

-------------------------------------------------------------------------------
(***************************************************************************)
(* storage_begin and storage_abort.                                        *)
(***************************************************************************)

\* Mutants: storage_begin looks for fewer than the four files.
TakenByFinal(s) == s \in finals
TakenByPart(s) == s \in parts \cup ckps

Taken(s) == s \in parts \cup metas \cup ckps \cup finals

\* The exclusive create of the first free name of this clock reading.
Begin ==
  /\ pc = "idle"
  /\ \E t \in Times, a \in 0..MaxAttempt, n \in 0..MaxHistory :
       /\ ~Taken(<<t, a>>)
       /\ \A b \in 0..(a - 1) : Taken(<<t, b>>)
       /\ \E h \in IF n = 0 THEN {EncoderSkip} ELSE Headers :
            header' = [header EXCEPT ![<<t, a>>] = h]
       /\ parts' = parts \cup {<<t, a>>}
       /\ cur' = <<t, a>>
       /\ history' = n
       /\ pages' = [pages EXCEPT ![<<t, a>>] = <<>>]
       /\ synced' = [synced EXCEPT ![<<t, a>>] = 0]
       /\ slots' = [slots EXCEPT ![<<t, a>>] = [i \in 0..1 |-> 0]]
  /\ frames' = 0 /\ output' = 0 /\ buffered' = 0 /\ turn' = 0
  /\ phase' = "history" /\ failed' = FALSE
  /\ pc' = "meta"
  /\ UNCHANGED <<metas, ckps, finals, todo, ghosts>>

CreateMeta ==
  /\ pc = "meta"
  /\ metas' = metas \cup {cur}
  /\ pc' = "head"
  /\ UNCHANGED <<parts, ckps, finals, content, slots, phase, cur, todo, writer,
                 failed, ghosts>>

WriteHeaders ==
  /\ pc = "head"
  /\ pc' = "journal"
  /\ UNCHANGED <<disk, content, slots, phase, cur, todo, writer, failed, ghosts>>

CreateJournal ==
  /\ pc = "journal"
  /\ ckps' = ckps \cup {cur}
  /\ pc' = "start"
  /\ UNCHANGED <<parts, metas, finals, content, slots, phase, cur, todo, writer,
                 failed, ghosts>>

\* start() brings up capture and the record worker.
Start ==
  /\ pc = "start"
  /\ pc' = "append"
  /\ phase' = IF history = 0 THEN "capture" ELSE "history"
  /\ UNCHANGED <<disk, content, slots, cur, todo, writer, failed, ghosts>>

\* A file cannot be created or written, or start() fails: unlink the .part ...
Abort ==
  /\ \/ pc \in {"meta", "head", "journal"} /\ Faults # {}
     \/ pc = "start"
  /\ \/ parts' = parts \ {cur}
     \/ "dir" \in Faults /\ UNCHANGED parts
  /\ pc' = "abort_ckp"
  /\ UNCHANGED <<metas, ckps, finals, content, slots, phase, cur, todo, writer,
                 failed, ghosts>>

\* ... then the .ckp ...
AbortJournal ==
  /\ pc = "abort_ckp"
  /\ \/ ckps' = ckps \ {cur}
     \/ "dir" \in Faults /\ UNCHANGED ckps
  /\ pc' = "abort_meta"
  /\ UNCHANGED <<parts, metas, finals, content, slots, phase, cur, todo, writer,
                 failed, ghosts>>

\* ... then the .meta.
AbortMeta ==
  /\ pc = "abort_meta"
  /\ \/ metas' = metas \ {cur}
     \/ "dir" \in Faults /\ UNCHANGED metas
  /\ Rest
  /\ UNCHANGED <<parts, ckps, finals, content, slots, todo, ghosts>>

-------------------------------------------------------------------------------
(***************************************************************************)
(* append_packet and checkpoint, as record_worker uses them: the pre-roll  *)
(* without checkpoints, one checkpoint where it joins the live capture,    *)
(* then the captured and the padding frames with one per page.             *)
(***************************************************************************)

\* An error leaves the loop of the captured frames and that of the padding;
\* after the pre-roll the worker still drains the capture queue.
Fail ==
  /\ failed' = TRUE
  /\ IF phase \in {"history", "joint"}
     THEN pc' = "append" /\ phase' = "capture"
     ELSE pc' = "finish" /\ UNCHANGED phase

Wanted ==
  \/ phase = "history" /\ frames < history
  \/ phase = "capture"
  \/ phase = "padding" /\ frames - output < Padding /\ ~failed

Full == buffered = PagePackets
MayFill == buffered >= MinPage

Count ==
  /\ frames' = frames + 1
  /\ output' = IF phase = "padding" THEN output ELSE output + 1

\* The packet joins the page in memory.
Buffer ==
  /\ pc = "append" /\ Wanted /\ frames < MaxFrames /\ ~Full
  /\ buffered' = buffered + 1
  /\ Count
  /\ UNCHANGED <<disk, content, slots, pc, phase, cur, todo, history, turn,
                 failed, ghosts>>

\* The page is full: it is written, and the packet starts the next one.
Flush ==
  /\ pc = "append" /\ Wanted /\ frames < MaxFrames /\ MayFill
  /\ pages' = [pages EXCEPT ![cur] = Append(@, AudioPage)]
  /\ buffered' = 1
  /\ Count
  /\ pc' = IF phase = "history" THEN "append" ELSE "ckpt_file"
  /\ UNCHANGED <<disk, synced, header, slots, phase, cur, todo, history, turn,
                 failed, ghosts>>

FlushFails ==
  /\ pc = "append" /\ Wanted /\ frames < MaxFrames /\ MayFill
  /\ "write" \in Faults
  /\ pages' = [pages EXCEPT ![cur] = Append(@, BrokenPage)]
  /\ Fail
  /\ UNCHANGED <<disk, synced, header, slots, cur, todo, writer, ghosts>>

\* append_packet refuses a packet that could pass the size bound.
TooLarge ==
  /\ pc = "append" /\ Wanted /\ frames >= MaxFrames
  /\ Fail
  /\ UNCHANGED <<disk, content, slots, cur, todo, writer, ghosts>>

\* Capture fails: an overrun, a full queue, a read error.
CaptureFails ==
  /\ pc = "append" /\ phase \in {"history", "capture"} /\ ~failed
  /\ failed' = TRUE
  /\ UNCHANGED <<disk, content, slots, pc, phase, cur, todo, writer, ghosts>>

\* storage_history_done after the last pre-roll frame.
HistoryDone ==
  /\ pc = "append" /\ phase = "history" /\ frames >= history
  /\ IF failed \/ Committed = 0
     THEN phase' = "capture" /\ UNCHANGED pc
     ELSE phase' = "joint" /\ pc' = "ckpt_file"
  /\ UNCHANGED <<disk, content, slots, cur, todo, writer, failed, ghosts>>

\* The queue is drained; a recording that captured nothing has had its silent
\* frame unless it failed.
StopCapture ==
  /\ pc = "append" /\ phase = "capture" /\ (failed \/ output > history)
  /\ phase' = "padding"
  /\ UNCHANGED <<disk, content, slots, pc, cur, todo, writer, failed, ghosts>>

Padded ==
  /\ pc = "append" /\ phase = "padding" /\ (failed \/ frames - output >= Padding)
  /\ pc' = "finish"
  /\ UNCHANGED <<disk, content, slots, phase, cur, todo, writer, failed, ghosts>>

\* Mutant: the audio is not synced before the slot that covers it.
SyncFileSkipped ==
  /\ pc = "ckpt_file"
  /\ pc' = "ckpt_slot"
  /\ UNCHANGED <<disk, content, slots, phase, cur, todo, writer, failed, ghosts>>

\* checkpoint: the audio first ...
SyncFile ==
  /\ pc = "ckpt_file"
  /\ synced' = [synced EXCEPT ![cur] = Len(pages[cur])]
  /\ pc' = "ckpt_slot"
  /\ UNCHANGED <<disk, pages, header, slots, phase, cur, todo, writer, failed, ghosts>>

SyncFileFails ==
  /\ pc = "ckpt_file" /\ "sync" \in Faults
  /\ Fail
  /\ UNCHANGED <<disk, content, slots, cur, todo, writer, ghosts>>

\* ... then the slot of this turn, leaving the other one alone.
SyncSlot ==
  /\ pc = "ckpt_slot"
  /\ slots' = [slots EXCEPT ![cur][turn] = Len(pages[cur])]
  /\ turn' = 1 - turn
  /\ secured' = [secured EXCEPT ![cur] = Len(pages[cur])]
  /\ pc' = "append"
  /\ phase' = IF phase = "joint" THEN "capture" ELSE phase
  /\ UNCHANGED <<disk, content, cur, todo, history, frames, output, buffered,
                 failed, crashes, interrupted>>

\* What a slot may hold when its write did not complete.
SlotAfter(v) == {slots[cur][turn], 0, v}

SyncSlotFails ==
  /\ pc = "ckpt_slot" /\ "sync" \in Faults
  /\ \E v \in SlotAfter(Len(pages[cur])) :
       slots' = [slots EXCEPT ![cur][turn] = v]
  /\ turn' = 1 - turn
  /\ Fail
  /\ UNCHANGED <<disk, content, cur, todo, history, frames, output, buffered, ghosts>>

-------------------------------------------------------------------------------
(***************************************************************************)
(* storage_finish.                                                         *)
(***************************************************************************)

WriteLast ==
  /\ pc = "finish" /\ FinishAccepts
  /\ pages' = [pages EXCEPT ![cur] = Append(@, LastPage)]
  /\ pc' = "finish_sync"
  /\ UNCHANGED <<disk, synced, header, slots, phase, cur, todo, writer, failed, ghosts>>

\* Mutant: the error of the last write is ignored.
WriteLastUnchecked ==
  /\ pc = "finish" /\ FinishAccepts /\ "write" \in Faults
  /\ pages' = [pages EXCEPT ![cur] = Append(@, BrokenPage)]
  /\ pc' = "finish_sync"
  /\ UNCHANGED <<disk, synced, header, slots, phase, cur, todo, writer, failed, ghosts>>

WriteLastFails ==
  /\ pc = "finish" /\ FinishAccepts /\ "write" \in Faults
  /\ pages' = [pages EXCEPT ![cur] = Append(@, BrokenPage)]
  /\ Rest
  /\ UNCHANGED <<disk, synced, header, slots, todo, ghosts>>

\* The writer refuses: the .part stays for the next boot.
FinishRefused ==
  /\ pc = "finish" /\ ~FinishAccepts
  /\ Rest
  /\ UNCHANGED <<disk, content, slots, todo, ghosts>>

FinishSync ==
  /\ pc = "finish_sync"
  /\ synced' = [synced EXCEPT ![cur] = Len(pages[cur])]
  /\ pc' = "rename"
  /\ UNCHANGED <<disk, pages, header, slots, phase, cur, todo, writer, failed, ghosts>>

\* fsync, fclose or rename reports an error.
FinishFails ==
  /\ \/ pc = "finish_sync" /\ "sync" \in Faults
     \/ pc = "rename" /\ ("dir" \in Faults \/ cur \in finals)
  /\ Rest
  /\ UNCHANGED <<disk, content, slots, todo, ghosts>>

Rename ==
  /\ pc = "rename" /\ cur \notin finals
  /\ parts' = parts \ {cur}
  /\ finals' = finals \cup {cur}
  /\ pc' = "unlink"
  /\ UNCHANGED <<metas, ckps, content, slots, phase, cur, todo, writer, failed, ghosts>>

Unlink ==
  /\ pc = "unlink"
  /\ \/ ckps' = ckps \ {cur}
     \/ "dir" \in Faults /\ UNCHANGED ckps
  /\ Rest
  /\ UNCHANGED <<parts, metas, finals, content, slots, todo, ghosts>>

-------------------------------------------------------------------------------
(***************************************************************************)
(* storage_recover, at boot.                                               *)
(***************************************************************************)

\* Mutant: the directory scan does not advance.
PassedAgain(s) == cur' = NoStem /\ pc' = "recover" /\ UNCHANGED todo

Passed(s) == todo' = todo \ {s} /\ cur' = NoStem /\ pc' = "recover"

\* No slot decodes, or what it covers does not parse: the .part stays.
RecoverFails(s) ==
  /\ pc = "recover" /\ s \in todo /\ ~Repairable(s)
  /\ Passed(s)
  /\ UNCHANGED <<disk, content, slots, phase, writer, failed, ghosts>>

\* ogg_opus_repair marks the last safe page end-of-stream, in place.
Repair(s) ==
  /\ pc = "recover" /\ s \in todo /\ Repairable(s)
  /\ pages' = [pages EXCEPT ![s][SafePages(s)].kind = "last"]
  /\ cur' = s /\ pc' = "repair_sync"
  /\ UNCHANGED <<disk, synced, header, slots, phase, todo, writer, failed, ghosts>>

\* It truncates what follows, parses the result and makes it durable.
RepairSync ==
  /\ pc = "repair_sync" /\ Parses(cur, SafePages(cur), TRUE)
  /\ pages' = [pages EXCEPT ![cur] = SubSeq(@, 1, SafePages(cur))]
  /\ synced' = [synced EXCEPT ![cur] = SafePages(cur)]
  /\ pc' = "publish"
  /\ UNCHANGED <<disk, header, slots, phase, cur, todo, writer, failed, ghosts>>

\* What the page being rewritten may be when the write did not complete.
Rewritten(p) == {[p EXCEPT !.kind = k] : k \in Kinds}

RepairFails ==
  /\ pc = "repair_sync"
  /\ \/ ~Parses(cur, SafePages(cur), TRUE)
     \/ Faults \cap {"write", "sync"} # {}
  /\ \E p \in Rewritten(pages[cur][SafePages(cur)]) :
       pages' = [pages EXCEPT ![cur][SafePages(cur)] = p]
  /\ interrupted' = interrupted \cup {cur}
  /\ Passed(cur)
  /\ UNCHANGED <<disk, synced, header, slots, phase, writer, failed, crashes, secured>>

PublishRepaired ==
  /\ pc = "publish" /\ cur \notin finals
  /\ parts' = parts \ {cur}
  /\ finals' = finals \cup {cur}
  /\ pc' = "drop_ckp"
  /\ UNCHANGED <<metas, ckps, content, slots, phase, cur, todo, writer, failed, ghosts>>

PublishFails ==
  /\ pc = "publish" /\ ("dir" \in Faults \/ cur \in finals)
  /\ interrupted' = interrupted \cup {cur}
  /\ Passed(cur)
  /\ UNCHANGED <<disk, content, slots, phase, writer, failed, crashes, secured>>

DropJournal ==
  /\ pc = "drop_ckp"
  /\ \/ ckps' = ckps \ {cur}
     \/ "dir" \in Faults /\ UNCHANGED ckps
  /\ Passed(cur)
  /\ UNCHANGED <<parts, metas, finals, content, slots, phase, writer, failed, ghosts>>

Booted ==
  /\ pc = "recover" /\ todo = {}
  /\ pc' = "idle"
  /\ UNCHANGED <<disk, content, slots, phase, cur, todo, writer, failed, ghosts>>

-------------------------------------------------------------------------------
(***************************************************************************)
(* Power loss at any instant, then a boot.  Of each file some prefix that  *)
(* holds the synced pages survives; a slot or a page that was being        *)
(* written is the old one, the new one, or damaged.                        *)
(***************************************************************************)

\* What a power loss may leave of the content of s.
Survivors(s) ==
  LET prefixes == {SubSeq(pages[s], 1, n) : n \in synced[s]..Len(pages[s])} IN
  IF pc = "repair_sync" /\ s = cur
  THEN UNION {{[q EXCEPT ![SafePages(s)] = p] : q \in prefixes} :
                p \in Rewritten(pages[s][SafePages(s)])}
  ELSE prefixes

Crash ==
  /\ crashes < MaxCrashes
  /\ crashes' = crashes + 1
  /\ \E left \in [Stem -> UNION {Survivors(s) : s \in Stem}] :
       /\ \A s \in Stem : left[s] \in Survivors(s)
       /\ pages' = left
       /\ synced' = [s \in Stem |-> Len(left[s])]
  /\ IF pc = "ckpt_slot"
     THEN \E v \in SlotAfter(Len(pages[cur])) :
            slots' = [slots EXCEPT ![cur][turn] = v]
     ELSE UNCHANGED slots
  /\ interrupted' = IF pc \in {"repair_sync", "publish"}
                    THEN interrupted \cup {cur} ELSE interrupted
  /\ todo' = parts
  /\ pc' = "recover" /\ Cleared
  /\ UNCHANGED <<disk, header, secured>>

-------------------------------------------------------------------------------

\* A new card, at boot.
Init ==
  /\ parts = {} /\ metas = {} /\ ckps = {} /\ finals = {}
  /\ pages = [s \in Stem |-> <<>>]
  /\ synced = [s \in Stem |-> 0]
  /\ header = [s \in Stem |-> EncoderSkip]
  /\ slots = [s \in Stem |-> [i \in 0..1 |-> 0]]
  /\ pc = "recover" /\ phase = "history" /\ cur = NoStem /\ todo = {}
  /\ history = 0 /\ frames = 0 /\ output = 0 /\ buffered = 0 /\ turn = 0
  /\ failed = FALSE /\ crashes = 0
  /\ secured = [s \in Stem |-> 0] /\ interrupted = {}

BeginStep == Begin \/ CreateMeta \/ WriteHeaders \/ CreateJournal \/ Start
AbortStep == Abort \/ AbortJournal \/ AbortMeta
AppendStep == Buffer \/ Flush \/ FlushFails \/ TooLarge
CheckpointStep == SyncFile \/ SyncFileFails \/ SyncSlot \/ SyncSlotFails
FinishStep ==
  \/ WriteLast \/ WriteLastFails \/ FinishRefused \/ FinishSync
  \/ FinishFails \/ Rename \/ Unlink
RecoverStep ==
  \/ \E s \in todo : RecoverFails(s) \/ Repair(s)
  \/ RepairSync \/ RepairFails \/ PublishRepaired \/ PublishFails \/ DropJournal
  \/ Booted

Next ==
  \/ BeginStep \/ AbortStep
  \/ AppendStep \/ CaptureFails \/ HistoryDone \/ StopCapture \/ Padded
  \/ CheckpointStep \/ FinishStep \/ RecoverStep
  \/ Crash

Spec == Init /\ [][Next]_vars

\* The main task runs storage_recover to its end, and the record worker runs
\* on to storage_finish once capture has stopped.  Nobody has to record or to
\* stop, and power need never fail.
FinishingStep ==
  phase = "padding" /\ (AppendStep \/ Padded \/ CheckpointStep \/ FinishStep)
FairSpec == Spec /\ WF_vars(RecoverStep) /\ WF_vars(FinishingStep)

-------------------------------------------------------------------------------
(***************************************************************************)
(* Properties.                                                             *)
(***************************************************************************)

\* Every published recording parses to its end-of-stream page and is wholly on
\* the card: neither finish nor recovery renames a file before that.
FinalParses ==
  \A s \in finals : Parses(s, Len(pages[s]), TRUE) /\ synced[s] = Len(pages[s])

\* Whatever was being written when power failed, the slots of a .part lead
\* recovery to all the audio a completed checkpoint covered, intact and on the
\* card, unless a repair of it was already cut short.
SecuredRecoverable ==
  \A s \in parts : secured[s] > 0 /\ s \notin interrupted =>
    /\ SafePages(s) >= secured[s]
    /\ SafePages(s) <= synced[s]
    /\ Parses(s, SafePages(s), FALSE)

\* The arithmetic of the padding frames: a recording that met no error is never
\* refused by the writer when it ends, wherever the page boundaries fell.
FinishNotRefused == pc = "finish" /\ ~failed => FinishAccepts

\* A boot publishes every .part that secured audio, unless an earlier repair of
\* it was cut short.
BootPublishes ==
  pc = "recover" /\ todo = {} =>
    \A s \in parts : secured[s] > 0 => s \in interrupted

\* A power loss costs no audio that a completed checkpoint covered: it is there to
\* be recovered, and the next boot recovers it (storage_checkpoint, storage_recover).
SecuredSurvives == SecuredRecoverable /\ BootPublishes

\* The same without the exception: what the README says of a boot.
BootRepairsCheckpointed ==
  pc = "recover" /\ todo = {} => \A s \in parts : SafePages(s) = 0

\* No step changes, replaces or removes a published recording.
FinalsKept == \A s \in finals : s \in finals' /\ pages'[s] = pages[s]
FinalsNeverChange == [][FinalsKept]_vars

\* Recovery comes to its end although power fails again and again, and so does
\* a recording once capture has stopped.
BootEnds == pc = "recover" ~> pc = "idle"
RecordingEnds == phase = "padding" ~> pc \in {"idle", "recover"}
StoreEnds == BootEnds /\ RecordingEnds

\* What a recording is to RecordingArchive.
Stage == [s \in Stem |-> IF s \in finals THEN "final"
                         ELSE IF s \notin parts THEN "free"
                         ELSE IF s = cur /\ pc \in Writing THEN "open"
                         ELSE "partial"]
Whole == [s \in Stem |-> IF s \in finals /\ Parses(s, Len(pages[s]), TRUE)
                         THEN Len(pages[s]) ELSE 0]

\* The store keeps what RecordingArchive promises.
Archive == INSTANCE RecordingArchive WITH
  Stem <- Stem, state <- Stage, secured <- secured, kept <- Whole
ArchiveSpec == Archive!Spec
===============================================================================
