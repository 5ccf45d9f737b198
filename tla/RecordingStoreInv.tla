--------------------------- MODULE RecordingStoreInv ---------------------------
(***************************************************************************)
(* The inductive invariant behind the safety of RecordingStore.  It says,  *)
(* step by step, what each file holds, which slot carries the promise of   *)
(* the last checkpoint, and how the counters of the page writer stand to   *)
(* the pages it has written.  It holds whatever fails; a part that needs a *)
(* condition on the faults or the headers names it.                        *)
(***************************************************************************)
EXTENDS RecordingStore

\* Ownership: a name is never both a .part and published, whoever writes owns a
\* .part, recovery only visits .part files, and what is published is synced.
Ownership ==
  /\ parts \cap finals = {}
  /\ pc \in Writing \cup {"repair_sync", "publish"} => cur \in parts
  /\ pc \in {"recover", "repair_sync", "publish"} => todo \subseteq parts
  /\ pc = "drop_ckp" => todo \ {cur} \subseteq parts
  /\ \A s \in finals : synced[s] = Len(pages[s])
  /\ pc \in {"rename", "publish"} => synced[cur] = Len(pages[cur])

\* Control: only recordings that left a file behind carry a promise.
Control ==
  /\ interrupted \subseteq parts \cup finals
  /\ \A s \in Stem : secured[s] > 0 => s \in parts \cup finals
  /\ pc \in {"abort_ckp", "abort_meta"} => cur \notin finals
  /\ pc \in {"unlink", "drop_ckp"} => cur \in finals
  /\ pc \in Writing \cup {"abort_ckp", "abort_meta"} => cur \notin interrupted

\* The steps from the open of a file to its first packet, and those at which the
\* page writer is at work.
Opening == {"meta", "head", "journal", "start"}
Appending == {"append", "ckpt_file", "ckpt_slot", "finish"}

\* Journal: slots point at synced pages, and the slot that is not being
\* written carries the last completed checkpoint.
Journal ==
  /\ \A s \in Stem : synced[s] <= Len(pages[s])
  /\ \A s \in Stem, i \in 0..1 : slots[s][i] <= synced[s]
  /\ \A s \in Stem : secured[s] <= Larger(slots[s])
  /\ \A s \in parts : secured[s] > 0 => s \in ckps
  /\ pc \in Appending \ {"finish"} =>
       /\ secured[cur] <= slots[cur][1 - turn]
       /\ phase \in {"history", "joint"} => secured[cur] = 0
  /\ pc \in Appending \cup {"start"} => cur \in ckps
  /\ pc \in {"ckpt_file", "ckpt_slot"} => phase # "history"
  /\ pc = "ckpt_slot" => synced[cur] = Len(pages[cur])
  /\ pc \in Opening \cup {"abort_ckp", "abort_meta"} =>
       secured[cur] = 0 /\ pages[cur] = <<>>

\* A page of captured audio: what Flush writes.
Audio(p) == /\ p.kind = "audio" /\ p.frames >= 1
            /\ p.granule = p.frames * FrameGranule

\* The first k of the pages q hold audio, in order.
Clean(q, k) ==
  /\ \A i \in 1..k : Audio(q[i])
  /\ \A i \in 1..k : i > 1 => q[i - 1].frames <= q[i].frames

\* A page write failed, which leaves the writer behind its file.
Damaged(q) == \E i \in 1..Len(q) : q[i].kind = "broken"

\* Writer: the counters of the page writer against the pages it has written.  A
\* failed page write sets the error, after which no padding frame is appended.
Writer ==
  /\ pc \in Opening => frames = 0 /\ output = 0 /\ buffered = 0 /\ ~failed
  /\ pc \in Appending =>
       /\ buffered <= frames
       /\ frames > 0 => buffered > 0 /\ output > 0
       /\ phase # "padding" => output = frames
       /\ output <= frames /\ frames - output <= 1
       /\ phase = "padding" /\ ~failed => output > 0
       /\ pc = "finish" => phase = "padding" \/ failed
       /\ pc = "finish" /\ ~failed => frames - output = 1
       /\ IF Damaged(pages[cur]) THEN failed /\ output = frames /\ "write" \in Faults
          ELSE /\ Clean(pages[cur], Len(pages[cur]))
               /\ IF pages[cur] = <<>> THEN frames = buffered
                  ELSE pages[cur][Len(pages[cur])].frames = frames - buffered

\* What the writer may publish: when page writes fail it publishes nothing
\* damaged as long as every header carries the look-ahead (README, section 6).
Trusted == "write" \notin Faults \/ Headers \subseteq {EncoderSkip}

\* Publishable: what finish and recovery are about to rename parses to its end.
Publishable ==
  /\ Headers \subseteq {EncoderSkip} => \A s \in Stem : header[s] = EncoderSkip
  /\ pc = "repair_sync" => Parses(cur, SafePages(cur), TRUE)
  /\ pc = "publish" => Parses(cur, Len(pages[cur]), TRUE) /\ SafePages(cur) = Len(pages[cur])
  /\ Trusted =>
       /\ pc \in {"finish_sync", "rename"} => Parses(cur, Len(pages[cur]), TRUE)
       /\ \A s \in finals : Parses(s, Len(pages[s]), TRUE)

\* Recoverable: without failing page writes, what a slot covers is audio unless
\* a repair has begun on it, and the boot passes no .part that secured audio.
Recoverable ==
  "write" \notin Faults =>
    /\ \A s \in parts \ interrupted :
         ~(pc \in {"repair_sync", "publish"} /\ s = cur) => Clean(pages[s], Larger(slots[s]))
    /\ pc \in {"recover", "repair_sync", "publish", "drop_ckp"} =>
         \A s \in parts : secured[s] > 0 => s \in todo \cup interrupted

IInv ==
  /\ TypeOK /\ Ownership /\ Control /\ Journal /\ Writer /\ Publishable /\ Recoverable
===============================================================================
