------------------------------- MODULE CloudSync -------------------------------
(***************************************************************************)
(* Sync: the worker of cloud_sync.c over the receipts of the outbox, the   *)
(* ranged upload of upload.c, the processing client and its stream, with   *)
(* the drive, the proxy and the user they work against.                    *)
(*                                                                         *)
(* A receipt follows JobReceipt, which ProcessingOutbox implements: saves  *)
(* are whole, and power lost in the first one may leave it unreadable.     *)
(* retry_not_before is not kept: a pending job may be put off by any Sync. *)
(***************************************************************************)
EXTENDS Integers, FiniteSets

CONSTANTS
  N,           \* recordings on the card, 1..N in catalogue order
  Drives,      \* the drives of the accounts that sign in
  TooLong,     \* the recordings of more than OPUS_MAX_SAMPLES
  Ranges,      \* upload ranges of a recording
  MaxFailures, \* consecutive failed ranges before the upload gives up
  MaxTries,    \* status calls after an uncertain stream
  MaxSyncs, MaxEdits, MaxCrashes, \* bounds: Syncs, edits of the drive, power losses
  None, Unreadable

Files == 1..N
MaxItem == MaxSyncs + MaxEdits + 1
Job == [drive : Drives, item : 1..MaxItem,
        state : {"pending", "completed", "too_long", "missing"}]
Item == [id : 1..MaxItem, same : BOOLEAN]
Task == [drive : Drives, file : Files]

ASSUME SyncAssumption ==
  /\ {N, Ranges, MaxFailures, MaxTries} \subseteq Nat \ {0}
  /\ {MaxSyncs, MaxEdits, MaxCrashes} \subseteq Nat
  /\ TooLong \subseteq Files
  /\ None \notin Drives \cup Job \cup Item \cup Task \cup Nat
  /\ Unreadable \notin Job \cup {None}

VARIABLES
  receipts,  \* the .job of each recording: a job, None or Unreadable
  remote,    \* the item at a recording's path in each drive
  sidecars,  \* what the proxy has saved beside it
  running,   \* the recording the proxy is processing, or None
  session,   \* ranges the open upload session holds, or None
  account,   \* the drive of the signed-in account
  w,         \* the worker task: where it is and its locals
  cancelled, result, \* of this Sync
  uploads, deleted,  \* history: items whole from an upload, items the user removed
  syncs, edits, crashes

world == <<remote, sidecars, running, account, uploads, deleted, edits>>
card == <<receipts, crashes>>
vars == <<receipts, remote, sidecars, running, session, account, w, cancelled,
          result, uploads, deleted, syncs, edits, crashes>>

Loops == {"drain", "scan"}
Asleep == [pc |-> "idle", loop |-> "drain", index |-> 1, drive |-> None,
           job |-> None, offset |-> 0, failures |-> 0, tries |-> 0]

TypeOK ==
  /\ receipts \in [Files -> Job \cup {None, Unreadable}]
  /\ remote \in [Drives -> [Files -> Item \cup {None}]]
  /\ sidecars \in [Drives -> [Files -> {"none", "text", "both"}]]
  /\ running \in Task \cup {None}
  /\ session \in 0..(Ranges - 1) \cup {None}
  /\ account \in Drives
  /\ w \in [pc : {"idle", "folder", "lookup", "session", "put", "putting", "failed",
                  "verify", "save", "status", "stream", "streaming", "confirm"} \cup Loops,
            loop : Loops, index : 1..(N + 1), drive : Drives \cup {None},
            job : Job \cup {None}, offset : 0..(Ranges - 1),
            failures : 0..MaxFailures, tries : 0..MaxTries]
  /\ cancelled \in BOOLEAN /\ result \in {"none", "ok", "error", "cancelled"}
  /\ uploads \cup deleted \subseteq Drives \X Files \X (1..MaxItem)

Init ==
  /\ receipts = [f \in Files |-> None]
  /\ remote = [d \in Drives |-> [f \in Files |-> None]]
  /\ sidecars = [d \in Drives |-> [f \in Files |-> "none"]]
  /\ running = None /\ session = None
  /\ account \in Drives
  /\ w = Asleep /\ cancelled = FALSE /\ result = "none"
  /\ uploads = {} /\ deleted = {}
  /\ syncs = 0 /\ edits = 0 /\ crashes = 0

-------------------------------------------------------------------------------
\* How a step of the worker ends.

File == w.index
Here == remote[w.drive][File]   \* the item at the path of the file in hand
OurItem == Here \in Item /\ w.job \in Job /\ Here.id = w.job.item

Goto(p) == w' = [w EXCEPT !.pc = p] /\ UNCHANGED result

\* The next file of the loop.
NextFile ==
  /\ w' = [w EXCEPT !.pc = w.loop, !.index = File + 1, !.job = None,
                    !.offset = 0, !.failures = 0, !.tries = 0]
  /\ UNCHANGED result

\* The task ends: a cancelled Sync is reported as such, whatever happened.
Finish(r) ==
  /\ w' = Asleep
  /\ result' = IF cancelled THEN "cancelled" ELSE r

\* save_result, or the receipt of a new upload.
Save(j) == w' = [w EXCEPT !.pc = "save", !.job = j] /\ UNCHANGED result
SaveState(s) == Save([w.job EXCEPT !.state = s])

\* uploaded()
Uploaded(i) ==
  Save([drive |-> w.drive, item |-> i,
        state |-> IF File \in TooLong THEN "too_long" ELSE "pending"])

-------------------------------------------------------------------------------
\* cloud_sync_start and the two loops of sync_worker.

Start ==
  /\ w.pc = "idle" /\ syncs < MaxSyncs
  /\ w' = [Asleep EXCEPT !.pc = "folder", !.drive = account]
  /\ cancelled' = FALSE /\ result' = "none"
  /\ syncs' = syncs + 1
  /\ UNCHANGED <<card, world, session>>

EnsureFolder ==
  /\ w.pc = "folder"
  /\ Goto("drain") \/ Finish("error")
  /\ UNCHANGED <<card, world, session, cancelled, syncs>>

\* A loop ends at a cancellation or at the end of its catalogue.
LoopEnds ==
  /\ w.pc \in Loops /\ (cancelled \/ File > N)
  /\ IF cancelled \/ w.loop = "scan" THEN Finish("ok")
     ELSE /\ w' = [w EXCEPT !.pc = "scan", !.loop = "scan", !.index = 1]
          /\ UNCHANGED result
  /\ UNCHANGED <<card, world, session, cancelled, syncs>>

AtFile(l) == w.pc = l /\ ~cancelled /\ File <= N
Pending(r) == r \in Job /\ r.state = "pending"

\* The catalogue, a load, fopen, the parse or the hash fails.
CardFails ==
  /\ AtFile("drain") \/ AtFile("scan")
  /\ Finish("error")
  /\ UNCHANGED <<card, world, session, cancelled, syncs>>

\* processing_run of a receipt: a pending one asks the proxy first.
ProcessJob(r) ==
  IF Pending(r)
  THEN w' = [w EXCEPT !.pc = "status", !.job = r] /\ UNCHANGED result
  ELSE NextFile

\* The durable jobs of this drive first.
DrainJob ==
  /\ AtFile("drain")
  /\ LET r == receipts[File] IN
     \/ r = None /\ NextFile
     \/ r = Unreadable /\ Finish("error")
     \/ r \in Job /\ IF r.drive # w.drive THEN NextFile ELSE ProcessJob(r)
  /\ UNCHANGED <<card, world, session, cancelled, syncs>>

\* Mutant: sync_one looks at the drive before the receipt.
ScanLooksFirst ==
  /\ AtFile("scan")
  /\ IF Here = None THEN Goto("lookup") ELSE NextFile
  /\ UNCHANGED <<card, world, session, cancelled, syncs>>

\* sync_one: a file with a receipt of this drive is done; without one, look it up.
ScanFile ==
  /\ AtFile("scan")
  /\ LET r == receipts[File] IN
     \/ r = None /\ Goto("lookup")
     \/ r = Unreadable /\ Finish("error")
     \/ r \in Job /\ IF r.drive = w.drive THEN NextFile ELSE Finish("error")
  /\ UNCHANGED <<card, world, session, cancelled, syncs>>

-------------------------------------------------------------------------------
\* The upload of one recording.

\* A file already there must be this one.
Lookup ==
  /\ w.pc = "lookup"
  /\ \/ Finish("error")
     \/ Here = None /\ Goto("session")
     \/ Here # None /\ Here.same /\ Uploaded(Here.id)
  /\ UNCHANGED <<card, world, session, cancelled, syncs>>

\* createUploadSession with conflictBehavior fail.
OpenSession ==
  /\ w.pc = "session"
  /\ \/ Finish("error") /\ UNCHANGED session
     \/ Here = None /\ session' = 0 /\ Goto("put")
  /\ UNCHANGED <<card, world, cancelled, syncs>>

BeginPut ==
  /\ w.pc = "put" /\ ~cancelled
  /\ Goto("putting")
  /\ UNCHANGED <<card, world, session, cancelled, syncs>>

\* A cancelled upload deletes its session and verifies nothing.
CancelUpload ==
  /\ w.pc \in {"put", "failed"} /\ cancelled
  /\ session' = None
  /\ Finish("error")
  /\ UNCHANGED <<card, world, cancelled, syncs>>

\* The server holds the range; the answer may be lost.
PutMore ==
  /\ w.pc = "putting" /\ session = w.offset /\ session + 1 < Ranges
  /\ session' = session + 1
  /\ \/ Goto("failed")
     \/ /\ w' = [w EXCEPT !.pc = "put", !.offset = @ + 1, !.failures = 0]
        /\ UNCHANGED result
  /\ UNCHANGED <<card, world, cancelled, syncs>>

Ids(d, f) == {t[3] : t \in {u \in uploads \cup deleted : u[1] = d /\ u[2] = f}}
             \cup (IF remote[d][f] = None THEN {} ELSE {remote[d][f].id})
NewId(d, f) == Cardinality(Ids(d, f)) + 1

\* Mutant: conflictBehavior replace.
PutReplaces ==
  /\ w.pc = "putting" /\ session = w.offset /\ session + 1 = Ranges
  /\ session' = None
  /\ LET i == NewId(w.drive, File) IN
        /\ remote' = [remote EXCEPT ![w.drive][File] = [id |-> i, same |-> TRUE]]
        /\ uploads' = uploads \cup {<<w.drive, File, i>>}
        /\ Goto("failed") \/ Uploaded(i)
  /\ UNCHANGED <<card, sidecars, running, account, deleted, edits, cancelled, syncs>>

\* The last range makes the item, unless the name was taken meanwhile.
PutLast ==
  /\ w.pc = "putting" /\ session = w.offset /\ session + 1 = Ranges
  /\ session' = None
  /\ IF Here = None
     THEN LET i == NewId(w.drive, File) IN
          /\ remote' = [remote EXCEPT ![w.drive][File] = [id |-> i, same |-> TRUE]]
          /\ uploads' = uploads \cup {<<w.drive, File, i>>}
          /\ Goto("failed") \/ Uploaded(i)
     ELSE Goto("failed") /\ UNCHANGED <<remote, uploads>>
  /\ UNCHANGED <<card, sidecars, running, account, deleted, edits, cancelled, syncs>>

\* The range never arrives or is refused, or the session is gone for good.
PutFails ==
  /\ w.pc = "putting"
  /\ \/ Goto("failed") /\ UNCHANGED session
     \/ Goto("verify") /\ session' = None
  /\ UNCHANGED <<card, world, cancelled, syncs>>

\* Mutants: the range is sent again without asking; the failures are not counted.
ResendBlindly ==
  /\ w.pc = "failed" /\ ~cancelled
  /\ IF w.failures = MaxFailures THEN Goto("verify")
     ELSE /\ w' = [w EXCEPT !.pc = "put", !.failures = @ + 1]
          /\ UNCHANGED result
  /\ UNCHANGED <<card, world, session, cancelled, syncs>>
QueryForever ==
  /\ w.pc = "failed" /\ ~cancelled
  /\ \/ Goto("verify")
     \/ /\ session # None
        /\ w' = [w EXCEPT !.pc = "put", !.offset = session]
        /\ UNCHANGED result
  /\ UNCHANGED <<card, world, session, cancelled, syncs>>

\* A PUT outcome may be ambiguous: ask the session where to go on.
QuerySession ==
  /\ w.pc = "failed" /\ ~cancelled
  /\ \/ Goto("verify")
     \/ /\ w.failures < MaxFailures /\ session # None
        /\ w' = [w EXCEPT !.pc = "put", !.offset = session, !.failures = @ + 1]
        /\ UNCHANGED result
  /\ UNCHANGED <<card, world, session, cancelled, syncs>>

\* Mutant: whatever is at the path counts.
VerifyName ==
  /\ w.pc = "verify"
  /\ \/ Finish("error")
     \/ ~cancelled /\ Here # None /\ Uploaded(Here.id)
  /\ UNCHANGED <<card, world, session, cancelled, syncs>>

\* A lost final answer: the item is there and is this recording.
Verify ==
  /\ w.pc = "verify"
  /\ \/ Finish("error")
     \/ ~cancelled /\ Here # None /\ Here.same /\ Uploaded(Here.id)
  /\ UNCHANGED <<card, world, session, cancelled, syncs>>

-------------------------------------------------------------------------------
\* The receipt.

First == receipts[File] = None  \* the save of uploaded()
Torn == {receipts[File], w.job} \cup (IF First THEN {Unreadable} ELSE {})

SaveDone ==
  /\ w.pc = "save"
  /\ receipts' = [receipts EXCEPT ![File] = w.job]
  /\ IF First THEN ProcessJob(w.job) ELSE NextFile
  /\ UNCHANGED <<world, session, cancelled, syncs, crashes>>

\* Mutant: a receipt that could not be saved does not stop Sync.
SaveFailsUnseen ==
  /\ w.pc = "save"
  /\ \E r \in Torn : receipts' = [receipts EXCEPT ![File] = r]
  /\ NextFile
  /\ UNCHANGED <<world, session, cancelled, syncs, crashes>>

\* A failed save stops Sync after an upload; a processing result stays pending.
SaveFails ==
  /\ w.pc = "save"
  /\ \E r \in Torn : receipts' = [receipts EXCEPT ![File] = r]
  /\ IF First THEN Finish("error") ELSE NextFile
  /\ UNCHANGED <<world, session, cancelled, syncs, crashes>>

-------------------------------------------------------------------------------
\* Processing: status_once, the stream, and the deletion check.

InHand == running = [drive |-> w.drive, file |-> File]
Saved == sidecars[w.drive][File]

\* Still working, or no answer: at most MaxTries more status calls.
Waiting ==
  IF w.tries = MaxTries THEN NextFile
  ELSE w' = [w EXCEPT !.pc = "status", !.tries = @ + 1] /\ UNCHANGED result

\* The proxy may start: only the first status call leads to a stream.
MayStart == IF w.tries = 0 THEN Goto("stream") ELSE NextFile

Status ==
  /\ w.pc = "status"
  /\ \/ NextFile                           \* cancelled, refused or unavailable
     \/ ~cancelled /\ Waiting              \* no answer in time, or processing
     \/ ~cancelled /\ SaveState("too_long")
     \/ ~cancelled /\ ~InHand /\ \/ Goto("confirm")    \* 404
                                 \/ OurItem /\ Saved = "both" /\ SaveState("completed")
                                 \/ OurItem /\ Saved # "both" /\ MayStart
  /\ UNCHANGED <<card, world, session, cancelled, syncs>>

\* processing_stream_run: one start, whatever becomes of it.
StartStream ==
  /\ w.pc = "stream"
  /\ \/ NextFile /\ UNCHANGED running  \* cancelled, or no connection
     \/ /\ ~cancelled /\ Goto("streaming")
        /\ \/ UNCHANGED running                     \* refused or lost
           \/ running = None /\ OurItem
              /\ running' = [drive |-> w.drive, file |-> File]
  /\ UNCHANGED <<card, remote, sidecars, account, uploads, deleted, edits, session,
                 cancelled, syncs>>

\* The proxy's result or final error, or an uncertain end (a lost connection,
\* 30 s of silence), after which the status is all that is asked.
StreamEnds ==
  /\ w.pc = "streaming"
  /\ \/ NextFile                                    \* cancelled, or a final error
     \/ ~InHand /\ Saved = "both" /\ SaveState("completed")
     \/ ~InHand /\ SaveState("too_long")
     \/ ~InHand /\ ~cancelled /\ Goto("confirm")     \* source_not_found
     \/ ~cancelled /\ Waiting
  /\ UNCHANGED <<card, world, session, cancelled, syncs>>

\* confirm_remote_missing: the drive itself says the item is gone.
ConfirmMissing ==
  /\ w.pc = "confirm"
  /\ NextFile \/ (~cancelled /\ ~OurItem /\ SaveState("missing"))
  /\ UNCHANGED <<card, world, session, cancelled, syncs>>

-------------------------------------------------------------------------------
\* The proxy, the user and the power.

device == <<card, session, w, cancelled, result, syncs>>

\* The text is saved before the JSON that completes it.
ProxySaves ==
  /\ running # None
  /\ sidecars' = [sidecars EXCEPT ![running.drive][running.file] =
                    IF @ = "none" THEN "text" ELSE "both"]
  /\ UNCHANGED <<device, remote, running, account, uploads, deleted, edits>>

\* It ends: done, failed, or cancelled with its socket.
ProxyEnds ==
  /\ running # None /\ running' = None
  /\ UNCHANGED <<device, remote, sidecars, account, uploads, deleted, edits>>

UserDeletes(d, f) ==
  /\ edits < MaxEdits /\ remote[d][f] # None
  /\ remote' = [remote EXCEPT ![d][f] = None]
  /\ deleted' = deleted \cup {<<d, f, remote[d][f].id>>}
  /\ edits' = edits + 1
  /\ UNCHANGED <<device, sidecars, running, account, uploads>>

\* Another file under the recording's name.
UserPuts(d, f) ==
  /\ edits < MaxEdits /\ remote[d][f] = None
  /\ remote' = [remote EXCEPT ![d][f] = [id |-> NewId(d, f), same |-> FALSE]]
  /\ edits' = edits + 1
  /\ UNCHANGED <<device, sidecars, running, account, uploads, deleted>>

SwitchAccount ==
  /\ w.pc = "idle" /\ account' \in Drives \ {account}
  /\ UNCHANGED <<device, remote, sidecars, running, uploads, deleted, edits>>

Cancel ==
  /\ w.pc # "idle" /\ ~cancelled /\ cancelled' = TRUE
  /\ UNCHANGED <<card, world, session, w, result, syncs>>

\* Power is lost: a save under way is the old receipt or the new one.
Crash ==
  /\ crashes < MaxCrashes /\ w.pc # "idle"
  /\ crashes' = crashes + 1
  /\ IF w.pc = "save" THEN \E r \in Torn : receipts' = [receipts EXCEPT ![File] = r]
     ELSE UNCHANGED receipts
  /\ w' = Asleep /\ session' = None /\ cancelled' = FALSE /\ result' = "none"
  /\ UNCHANGED <<world, syncs>>

Upload == \/ Lookup \/ OpenSession \/ BeginPut \/ CancelUpload \/ PutMore
          \/ PutLast \/ PutFails \/ QuerySession \/ Verify
Process == Status \/ StartStream \/ StreamEnds \/ ConfirmMissing
Worker == \/ EnsureFolder \/ LoopEnds \/ CardFails \/ DrainJob \/ ScanFile
          \/ Upload \/ SaveDone \/ SaveFails \/ Process
Edit == \E d \in Drives, f \in Files : UserDeletes(d, f) \/ UserPuts(d, f)

Next == \/ Start \/ Worker \/ ProxySaves \/ ProxyEnds \/ Edit \/ SwitchAccount
        \/ Cancel \/ Crash

Spec == Init /\ [][Next]_vars

\* Every request of the worker ends: it has a timeout of its own.
FairSpec == Spec /\ WF_vars(Worker)

-------------------------------------------------------------------------------
(***************************************************************************)
(* Properties.                                                             *)
(***************************************************************************)

Key(f) == <<receipts[f].drive, f, receipts[f].item>>

\* The item is one that an upload of the whole recording made in that drive.
ItemUploaded(f) == Key(f) \in uploads

\* Missing: the user removed that very item.
MissingIsDeleted(f) == receipts[f].state = "missing" => Key(f) \in deleted

\* Completed: both sidecars are in its drive.
CompletedHasSidecars(f) ==
  receipts[f].state = "completed" => sidecars[receipts[f].drive][f] = "both"

\* A receipt tells the truth about the drive, whichever answers were lost and
\* whatever else was put under the recording's name.
ReceiptHonest ==
  \A f \in Files : receipts[f] \in Job =>
    ItemUploaded(f) /\ MissingIsDeleted(f) /\ CompletedHasSidecars(f)

\* No range is sent that the session does not expect next.
RangeExpected == w.pc \in {"put", "putting"} /\ session # None => w.offset = session

\* A Sync that reports success has left every recording a receipt of its drive.
SuccessIsComplete ==
  [][result' = "ok" /\ result # "ok" =>
       \A f \in Files : receipts[f] \in Job /\ receipts[f].drive = w.drive]_vars

\* Once a recording has a receipt nothing uploads it again, to any drive, and once
\* that receipt is settled it is final: saves that failed or tore, other accounts
\* and late answers of the proxy included.
UploadedOnce ==
  [][\A f \in Files : receipts[f] \in Job =>
       /\ {u \in uploads' : u[2] = f} = {u \in uploads : u[2] = f}
       /\ ~Pending(receipts[f]) => receipts'[f] = receipts[f]]_vars

\* What is in the drive is never replaced: only the user removes it.
NeverOverwritten ==
  [][\A d \in Drives, f \in Files : remote[d][f] # None /\ remote'[d][f] # remote[d][f]
       => <<d, f, remote[d][f].id>> \in deleted']_vars

\* Every Sync ends, whatever the card, the drive and the proxy answer.
SyncEnds == w.pc # "idle" ~> w.pc = "idle"
===============================================================================
