---------------------------- MODULE CloudSyncProofs ----------------------------
(***************************************************************************)
(* Theorems of CloudSync for any number of recordings, drives, ranges,     *)
(* Syncs, edits and power losses.                                          *)
(***************************************************************************)
EXTENDS CloudSync, TLAPS, FiniteSetTheorems

\* Where the worker stands, and where it has a recording in hand.
Uploading == {"lookup", "session", "put", "putting", "failed", "verify"}
Processing == {"status", "stream", "streaming", "confirm"}
Handling == Uploading \cup Processing \cup {"save"}
Places == {"idle", "folder", "save"} \cup Uploading \cup Processing \cup Loops

WorkerType ==
  [pc : Places, loop : Loops, index : 1..(N + 1), drive : Drives \cup {None},
   job : Job \cup {None}, offset : 0..(Ranges - 1),
   failures : 0..MaxFailures, tries : 0..MaxTries]

WorkerTypes ==
  /\ w \in WorkerType
  /\ session \in 0..(Ranges - 1) \cup {None}
  /\ cancelled \in BOOLEAN /\ result \in {"none", "ok", "error", "cancelled"}

WorldTypes ==
  /\ receipts \in [Files -> Job \cup {None, Unreadable}]
  /\ remote \in [Drives -> [Files -> Item \cup {None}]]
  /\ sidecars \in [Drives -> [Files -> {"none", "text", "both"}]]
  /\ running \in Task \cup {None}
  /\ account \in Drives
  /\ uploads \in SUBSET (Drives \X Files \X (1..MaxItem))
  /\ deleted \in SUBSET (Drives \X Files \X (1..MaxItem))
  /\ syncs \in 0..MaxSyncs /\ edits \in 0..MaxEdits

\* A job of f says nothing of its drive that is not so.
Honest(f, j) ==
  /\ <<j.drive, f, j.item>> \in uploads
  /\ j.state = "missing" => <<j.drive, f, j.item>> \in deleted
  /\ j.state = "completed" => sidecars[j.drive][f] = "both"

\* The loop and the recording of each place; a range is sent only from the offset
\* the session is known to hold.
Place ==
  /\ w.pc \in Handling => File \in Files
  /\ w.pc # "idle" => w.drive \in Drives
  /\ w.pc \in Loops => w.pc = w.loop
  /\ w.pc \in {"folder", "idle"} => w.loop = "drain"
  /\ w.pc \in Uploading => w.loop = "scan"
  /\ w.pc \in {"idle", "folder", "lookup", "session"} \cup Loops => w.offset = 0

\* What the worker has in hand: nothing uploaded yet, a pending job that is the
\* receipt, or a job about to be saved, which is true already.
Hand ==
  /\ w.pc \in Uploading => receipts[File] = None
  /\ w.pc \in Processing =>
       /\ w.job \in Job /\ w.job = receipts[File]
       /\ Pending(w.job) /\ w.job.drive = w.drive
  /\ w.pc = "save" =>
       /\ w.job \in Job /\ w.job.drive = w.drive /\ Honest(File, w.job)
       /\ receipts[File] # None => Pending(receipts[File]) /\ receipts[File].drive = w.drive

\* The scan leaves no recording behind it without a receipt of its drive.
Scanned ==
  w.pc # "idle" /\ w.loop = "scan" =>
    \A f \in Files : f < w.index => receipts[f] \in Job /\ receipts[f].drive = w.drive

\* An item that looks like the recording came from an upload; what was uploaded is
\* there still, or the user removed it.
DriveTrue ==
  \A d \in Drives, f \in Files :
    /\ remote[d][f] \in Item /\ remote[d][f].same => <<d, f, remote[d][f].id>> \in uploads
    /\ \A i \in 1..MaxItem : <<d, f, i>> \in uploads =>
         (remote[d][f] \in Item /\ remote[d][f].id = i) \/ <<d, f, i>> \in deleted

\* This Sync may still upload f.
Unspent(f) ==
  /\ w.pc # "idle"
  /\ \/ w.loop = "drain"
     \/ w.index < f
     \/ w.index = f /\ \/ w.pc \in {"scan", "lookup", "session"}
                       \/ w.pc \in {"put", "putting", "failed"} /\ session # None

\* A path had no more items than there were edits and Syncs that could upload it.
Counted ==
  \A d \in Drives, f \in Files : \E k \in Nat :
    /\ Ids(d, f) = 1..k /\ k <= syncs + edits
    /\ Unspent(f) => k < syncs + edits

Ledger == WorldTypes /\ DriveTrue /\ ReceiptHonest
Desk == WorkerTypes /\ Place /\ Hand /\ Scanned /\ RangeExpected

SyncInv == Ledger /\ Counted /\ Desk

-------------------------------------------------------------------------------
\* Types.

LEMMA Sizes ==
  /\ N \in Nat \ {0} /\ Ranges \in Nat \ {0} /\ MaxFailures \in Nat \ {0}
  /\ MaxTries \in Nat \ {0} /\ MaxSyncs \in Nat /\ MaxEdits \in Nat /\ MaxItem \in Nat \ {0}
BY SyncAssumption DEF MaxItem

LEMMA NoneIsNone ==
  /\ None \notin Drives /\ None \notin Job /\ None \notin Item /\ None \notin Task
  /\ None \notin Nat /\ Unreadable \notin Job /\ Unreadable # None
BY SyncAssumption

LEMMA TypesAreTypes == WorldTypes /\ WorkerTypes => TypeOK
BY DEF WorldTypes, WorkerTypes, WorkerType, Places, Uploading, Processing, TypeOK

\* The fields of the worker after each way a step of it ends.
LEMMA Went ==
  ASSUME w \in WorkerType, NEW p \in Places, Goto(p)
  PROVE  /\ w' \in WorkerType /\ result' = result /\ w'.pc = p
         /\ w'.loop = w.loop /\ w'.index = w.index /\ w'.drive = w.drive
         /\ w'.job = w.job /\ w'.offset = w.offset
BY DEF Goto, WorkerType

LEMMA Saving ==
  ASSUME w \in WorkerType, NEW j \in Job, Save(j)
  PROVE  /\ w' \in WorkerType /\ result' = result /\ w'.pc = "save"
         /\ w'.loop = w.loop /\ w'.index = w.index /\ w'.drive = w.drive
         /\ w'.job = j
BY DEF Save, WorkerType, Places

LEMMA Nexted ==
  ASSUME w \in WorkerType, File \in Files, NextFile
  PROVE  /\ w' \in WorkerType /\ result' = result /\ w'.pc = w.loop
         /\ w'.loop = w.loop /\ w'.index = w.index + 1 /\ w'.drive = w.drive
         /\ w'.job = None /\ w'.offset = 0
<1>1. w.index + 1 \in 1..(N + 1) /\ w.loop \in Places
  BY Sizes DEF WorkerType, File, Files, Places
<1>2. 0 \in 0..(Ranges - 1) /\ 0 \in 0..MaxFailures /\ 0 \in 0..MaxTries
  BY Sizes
<1> QED BY <1>1, <1>2 DEF NextFile, WorkerType, File

LEMMA AsleepFields ==
  /\ Asleep \in WorkerType /\ Asleep.pc = "idle" /\ Asleep.loop = "drain"
  /\ Asleep.index = 1 /\ Asleep.offset = 0
<1>1. 1 \in 1..(N + 1) /\ 0 \in 0..(Ranges - 1) /\ 0 \in 0..MaxFailures /\ 0 \in 0..MaxTries
  BY Sizes
<1> QED BY <1>1 DEF Asleep, WorkerType, Places, Loops

LEMMA JobMade ==
  ASSUME NEW d \in Drives, NEW i \in 1..MaxItem,
         NEW s \in {"pending", "completed", "too_long", "missing"}
  PROVE  [drive |-> d, item |-> i, state |-> s] \in Job
BY DEF Job

LEMMA JobSettled ==
  ASSUME NEW j \in Job, NEW s \in {"pending", "completed", "too_long", "missing"}
  PROVE  /\ [j EXCEPT !.state = s] \in Job
         /\ [j EXCEPT !.state = s].drive = j.drive
         /\ [j EXCEPT !.state = s].item = j.item
         /\ [j EXCEPT !.state = s].state = s
BY DEF Job

-------------------------------------------------------------------------------
\* The ways a step of the worker ends, for the worker's own part.

\* Asleep it knows nothing.
LEMMA DeskAsleep ==
  ASSUME w' = Asleep, session' \in 0..(Ranges - 1) \cup {None},
         cancelled' \in BOOLEAN, result' \in {"none", "ok", "error", "cancelled"}
  PROVE  Desk' /\ \A f \in Files : ~Unspent(f)'
<1>1. w' \in WorkerType /\ w'.pc = "idle" /\ w'.loop = "drain" /\ w'.offset = 0
  BY AsleepFields
<1>2. WorkerTypes'
  BY <1>1 DEF WorkerTypes
<1>3. Place' /\ Hand' /\ Scanned' /\ RangeExpected'
  BY <1>1 DEF Place, Hand, Scanned, RangeExpected, Handling, Uploading, Processing, Loops
<1> QED BY <1>1, <1>2, <1>3 DEF Desk, Unspent

LEMMA DeskFinished ==
  ASSUME Desk, NEW r \in {"ok", "error"}, Finish(r), cancelled' = cancelled,
         session' \in {session, None}
  PROVE  Desk' /\ \A f \in Files : ~Unspent(f)'
<1>1. result' \in {"none", "ok", "error", "cancelled"} /\ w' = Asleep
  BY DEF Finish
<1>2. session' \in 0..(Ranges - 1) \cup {None} /\ cancelled' \in BOOLEAN
  BY DEF Desk, WorkerTypes
<1> QED BY <1>1, <1>2, DeskAsleep

\* On to the next recording, with this one done.
LEMMA DeskNext ==
  ASSUME Desk, File \in Files, w.pc # "idle", NextFile,
         UNCHANGED <<session, cancelled>>,
         w.loop = "scan" => \A f \in Files :
           f <= File => receipts'[f] \in Job /\ receipts'[f].drive = w.drive
  PROVE  Desk' /\ \A f \in Files : Unspent(f)' => Unspent(f)
<1>1. /\ w' \in WorkerType /\ result' = result /\ w'.pc = w.loop
      /\ w'.loop = w.loop /\ w'.index = w.index + 1 /\ w'.drive = w.drive
      /\ w'.job = None /\ w'.offset = 0
  BY Nexted DEF Desk, WorkerTypes
<1>2. WorkerTypes'
  BY <1>1 DEF Desk, WorkerTypes
<1>3. w.loop \in Loops /\ w.drive \in Drives /\ w.index \in Int
  BY DEF Desk, WorkerTypes, WorkerType, Place
<1>4. Place' /\ Hand' /\ RangeExpected'
  BY <1>1, <1>3 DEF Place, Hand, RangeExpected, Handling, Uploading, Processing, Loops
<1>5. Scanned'
  <2>1. SUFFICES ASSUME w.loop = "scan", NEW f \in Files, f < w.index + 1
                 PROVE  receipts'[f] \in Job /\ receipts'[f].drive = w.drive
    BY <1>1 DEF Scanned
  <2>2. f <= File
    BY <1>3, <2>1 DEF Files, File
  <2> QED BY <2>1, <2>2
<1>6. ASSUME NEW f \in Files, Unspent(f)' PROVE Unspent(f)
  <2>1. w.loop = "drain" \/ w.index + 1 <= f
    BY <1>1, <1>3, <1>6 DEF Unspent, Files
  <2> QED BY <1>3, <2>1 DEF Unspent, Files
<1> QED BY <1>2, <1>4, <1>5, <1>6 DEF Desk

\* A recording the scan has in hand and that has its receipt.
LEMMA DoneSoFar ==
  ASSUME Desk, w.pc # "idle", w.loop = "scan", File \in Files,
         receipts[File] \in Job, receipts[File].drive = w.drive,
         NEW f \in Files, f <= File
  PROVE  receipts[f] \in Job /\ receipts[f].drive = w.drive
<1>1. f = File \/ f < w.index
  BY DEF File, Files
<1> QED BY <1>1 DEF Desk, Scanned

\* Processing goes on to another of its places, or to the next recording.
LEMMA DeskProcessed ==
  ASSUME Desk, w.pc \in Processing, UNCHANGED <<receipts, session, cancelled>>,
         \/ NextFile
         \/ \E p \in Processing : Goto(p)
         \/ Waiting
  PROVE  Desk' /\ \A f \in Files : Unspent(f)' => Unspent(f)
<1>1. File \in Files /\ w.drive \in Drives /\ w.pc # "idle" /\ w \in WorkerType
  BY DEF Desk, Place, Handling, Processing, WorkerTypes
<1>2. w.job \in Job /\ w.job = receipts[File] /\ Pending(w.job) /\ w.job.drive = w.drive
  BY DEF Desk, Hand
<1>3. CASE NextFile
  <2>1. w.loop = "scan" => \A f \in Files :
           f <= File => receipts'[f] \in Job /\ receipts'[f].drive = w.drive
    BY <1>1, <1>2, DoneSoFar
  <2> QED BY <1>1, <1>3, <2>1, DeskNext
<1>4. ASSUME /\ w' \in WorkerType /\ result' = result /\ w'.pc \in Processing
             /\ w'.loop = w.loop /\ w'.index = w.index /\ w'.drive = w.drive
             /\ w'.job = w.job
      PROVE  Desk' /\ \A f \in Files : Unspent(f)' => Unspent(f)
  <2>1. WorkerTypes'
    BY <1>4 DEF Desk, WorkerTypes
  <2>2. Place' /\ RangeExpected'
    BY <1>1, <1>4 DEF Place, RangeExpected, Handling, Uploading, Processing, Loops, File
  <2>3. Hand'
    BY <1>2, <1>4 DEF Hand, Uploading, Processing, File, Pending
  <2>4. Scanned'
    BY <1>1, <1>4 DEF Desk, Scanned
  <2>5. \A f \in Files : Unspent(f)' => Unspent(f)
    BY <1>1, <1>4 DEF Unspent, Processing
  <2> QED BY <2>1, <2>2, <2>3, <2>4, <2>5 DEF Desk
<1>5. CASE \E p \in Processing : Goto(p)
  <2>1. PICK p \in Processing : Goto(p)
    BY <1>5
  <2>2. p \in Places
    BY DEF Places
  <2> QED BY <1>1, <1>4, <2>1, <2>2, Went
<1>6. CASE Waiting /\ ~NextFile
  <2>1. w' = [w EXCEPT !.pc = "status", !.tries = @ + 1] /\ result' = result /\ w.tries # MaxTries
    BY <1>6 DEF Waiting
  <2>2. w.tries + 1 \in 0..MaxTries
    BY <1>1, <2>1, Sizes DEF WorkerType
  <2>3. /\ w' \in WorkerType /\ w'.pc = "status"
        /\ w'.loop = w.loop /\ w'.index = w.index /\ w'.drive = w.drive
        /\ w'.job = w.job
    BY <1>1, <2>1, <2>2 DEF WorkerType, Places, Processing
  <2> QED BY <1>4, <2>1, <2>3 DEF Processing
<1> QED BY <1>3, <1>5, <1>6

\* A job that is true is taken in hand for saving.
LEMMA DeskSaving ==
  ASSUME Desk, w.pc \in Handling, NEW j \in Job, Save(j), j.drive = w.drive,
         <<w.drive, File, j.item>> \in uploads',
         j.state = "missing" => <<w.drive, File, j.item>> \in deleted,
         j.state = "completed" => sidecars[w.drive][File] = "both",
         UNCHANGED <<deleted, sidecars, receipts, cancelled>>,
         session' \in {session, None},
         receipts[File] # None => Pending(receipts[File]) /\ receipts[File].drive = w.drive
  PROVE  Desk' /\ \A f \in Files : Unspent(f)' => Unspent(f)
<1>1. /\ w' \in WorkerType /\ result' = result /\ w'.pc = "save"
      /\ w'.loop = w.loop /\ w'.index = w.index /\ w'.drive = w.drive
      /\ w'.job = j
  BY Saving DEF Desk, WorkerTypes
<1>2. WorkerTypes'
  BY <1>1 DEF Desk, WorkerTypes
<1>3. w.pc # "idle" /\ w.drive \in Drives /\ File \in Files
  BY DEF Desk, Place, Handling, Uploading, Processing
<1>4. Place' /\ RangeExpected'
  BY <1>1, <1>3 DEF Place, RangeExpected, Handling, Uploading, Processing, Loops, File
<1>5. Honest(File, j)'
  BY <1>1 DEF Honest, File
<1>6. Hand'
  BY <1>1, <1>5 DEF Hand, Uploading, Processing, File, Pending
<1>7. Scanned'
  BY <1>1, <1>3 DEF Desk, Scanned
<1>8. \A f \in Files : Unspent(f)' => Unspent(f)
  BY <1>1, <1>3 DEF Unspent
<1> QED BY <1>2, <1>4, <1>6, <1>7, <1>8 DEF Desk

-------------------------------------------------------------------------------
\* The worker's steps that leave the card and the world alone.

\* What becomes of the worker then.
Onward == Desk' /\ \A f \in Files : Unspent(f)' => Unspent(f)

LEMMA LedgerKept ==
  ASSUME Ledger, UNCHANGED <<card, world, syncs>>
  PROVE  Ledger'
<1>1. /\ receipts' = receipts /\ remote' = remote /\ sidecars' = sidecars
      /\ running' = running /\ account' = account /\ uploads' = uploads
      /\ deleted' = deleted /\ edits' = edits /\ syncs' = syncs
  BY DEF card, world
<1>2. WorldTypes' /\ DriveTrue'
  BY <1>1 DEF Ledger, WorldTypes, DriveTrue
<1>3. ReceiptHonest'
  BY <1>1 DEF Ledger, ReceiptHonest, ItemUploaded, MissingIsDeleted, CompletedHasSidecars, Key
<1> QED BY <1>2, <1>3 DEF Ledger

LEMMA CountedKept ==
  ASSUME Counted, UNCHANGED <<remote, uploads, deleted>>, syncs' + edits' = syncs + edits,
         \A f \in Files : Unspent(f)' => Unspent(f)
  PROVE  Counted'
<1>1. \A d \in Drives, f \in Files : Ids(d, f)' = Ids(d, f)
  BY DEF Ids
<1> QED BY <1>1 DEF Counted

LEMMA QuietStep ==
  ASSUME SyncInv, UNCHANGED <<card, world, syncs>>, Onward
  PROVE  SyncInv'
<1>1. /\ remote' = remote /\ uploads' = uploads /\ deleted' = deleted
      /\ syncs' + edits' = syncs + edits
  BY DEF world
<1>2. Counted'
  BY <1>1, CountedKept DEF Onward, SyncInv
<1> QED BY <1>2, LedgerKept DEF Onward, SyncInv

LEMMA StepEnsureFolder ==
  ASSUME Desk, EnsureFolder  PROVE Onward
<1>1. CASE Goto("drain")
  <2>1. w.pc = "folder" /\ w.loop = "drain" /\ w.drive \in Drives /\ w.offset = 0
    BY DEF Desk, Place, EnsureFolder
  <2>2. "drain" \in Places /\ session' = session /\ cancelled' = cancelled
    BY DEF Places, Loops, EnsureFolder
  <2>3. /\ w' \in WorkerType /\ result' = result /\ w'.pc = "drain"
        /\ w'.loop = "drain" /\ w'.index = w.index /\ w'.drive = w.drive
        /\ w'.offset = 0
    BY <1>1, <2>1, <2>2, Went DEF Desk, WorkerTypes
  <2>4. WorkerTypes'
    BY <2>2, <2>3 DEF Desk, WorkerTypes
  <2>5. Place' /\ Hand' /\ Scanned' /\ RangeExpected'
    BY <2>1, <2>3 DEF Place, Hand, Scanned, RangeExpected, Handling, Uploading, Processing
  <2> QED BY <2>1, <2>3, <2>4, <2>5 DEF Onward, Desk, Unspent
<1>2. CASE Finish("error")
  BY <1>2, DeskFinished DEF EnsureFolder, Onward
<1> QED BY <1>1, <1>2 DEF EnsureFolder

LEMMA StepLoopEnds ==
  ASSUME Desk, LoopEnds  PROVE Onward
<1>1. CASE cancelled \/ w.loop = "scan"
  BY <1>1, DeskFinished DEF LoopEnds, Onward
<1>2. CASE ~(cancelled \/ w.loop = "scan")
  <2>1. w' = [w EXCEPT !.pc = "scan", !.loop = "scan", !.index = 1] /\ result' = result
    BY <1>2 DEF LoopEnds
  <2>2. /\ w.pc \in Loops /\ w.loop = "drain" /\ w.drive \in Drives /\ w \in WorkerType
        /\ w.offset = 0
        /\ session' = session /\ cancelled' = cancelled
    BY <1>2 DEF LoopEnds, Desk, Place, Loops, WorkerTypes, WorkerType
  <2>3. 1 \in 1..(N + 1)
    BY Sizes
  <2>4. /\ w' \in WorkerType /\ w'.pc = "scan" /\ w'.loop = "scan" /\ w'.index = 1
        /\ w'.drive = w.drive /\ w'.offset = 0
    BY <2>1, <2>2, <2>3 DEF WorkerType, Places, Loops
  <2>5. WorkerTypes'
    BY <2>1, <2>2, <2>4 DEF Desk, WorkerTypes
  <2>6. Place' /\ Hand' /\ RangeExpected'
    BY <2>2, <2>4 DEF Place, Hand, RangeExpected, Handling, Uploading, Processing, Loops
  <2>7. Scanned'
    BY <2>4 DEF Scanned, Files
  <2>8. \A f \in Files : Unspent(f)
    BY <2>2 DEF Unspent, Loops
  <2> QED BY <2>5, <2>6, <2>7, <2>8 DEF Onward, Desk
<1> QED BY <1>1, <1>2

LEMMA StepCardFails ==
  ASSUME Desk, CardFails  PROVE Onward
BY DeskFinished DEF CardFails, Onward

\* The loops have a recording at hand when they look at one.
LEMMA AtFiles ==
  ASSUME Desk, NEW l \in Loops, AtFile(l)
  PROVE  /\ File \in Files /\ w.pc = l /\ w.loop = l /\ w.drive \in Drives
         /\ w.pc # "idle" /\ ~cancelled
BY Sizes DEF AtFile, Desk, Place, WorkerTypes, WorkerType, File, Files, Loops

\* The receipt of this drive is processed, or it is settled and done with.
LEMMA DeskProcessJob ==
  ASSUME Desk, File \in Files, w.pc # "idle", UNCHANGED <<session, cancelled>>,
         receipts'[File] \in Job, receipts'[File].drive = w.drive,
         ProcessJob(receipts'[File]),
         w.loop = "scan" => \A f \in Files :
           f < File => receipts'[f] \in Job /\ receipts'[f].drive = w.drive
  PROVE  Onward
<1>1. w \in WorkerType /\ w.drive \in Drives
  BY DEF Desk, WorkerTypes, Place
<1>2. CASE Pending(receipts'[File])
  <2>1. w' = [w EXCEPT !.pc = "status", !.job = receipts'[File]] /\ result' = result
    BY <1>2 DEF ProcessJob
  <2>2. /\ w' \in WorkerType /\ w'.pc = "status" /\ w'.loop = w.loop /\ w'.index = w.index
        /\ w'.drive = w.drive /\ w'.job = receipts'[File]
    BY <1>1, <2>1 DEF WorkerType, Places, Processing
  <2>3. WorkerTypes'
    BY <2>1, <2>2 DEF Desk, WorkerTypes
  <2>4. Place' /\ RangeExpected'
    BY <1>1, <2>2 DEF Place, RangeExpected, Handling, Uploading, Processing, Loops, File
  <2>5. Hand'
    BY <1>2, <2>2 DEF Hand, Uploading, Processing, File, Pending
  <2>6. Scanned'
    BY <2>2 DEF Scanned, File
  <2>7. \A f \in Files : Unspent(f)' => Unspent(f)
    BY <2>2 DEF Unspent
  <2> QED BY <2>3, <2>4, <2>5, <2>6, <2>7 DEF Onward, Desk
<1>3. CASE ~Pending(receipts'[File])
  <2>1. NextFile
    BY <1>3 DEF ProcessJob
  <2>2. w.index \in Int
    BY <1>1 DEF WorkerType
  <2>3. ASSUME w.loop = "scan", NEW f \in Files, f <= File
        PROVE  receipts'[f] \in Job /\ receipts'[f].drive = w.drive
    <3>1. f = File \/ f < File
      BY <2>2, <2>3 DEF File, Files
    <3> QED BY <2>3, <3>1
  <2> QED BY <2>1, <2>3, DeskNext DEF Onward
<1> QED BY <1>2, <1>3

LEMMA StepDrainJob ==
  ASSUME WorldTypes, Desk, DrainJob  PROVE Onward
<1>1. /\ File \in Files /\ w.pc = "drain" /\ w.loop = "drain" /\ w.drive \in Drives
      /\ w.pc # "idle" /\ ~cancelled
  BY AtFiles DEF DrainJob, Loops
<1>2. session' = session /\ cancelled' = cancelled /\ receipts' = receipts
  BY DEF DrainJob, card
<1>3. w.loop # "scan"
  BY <1>1
<1>4. CASE NextFile
  BY <1>1, <1>2, <1>3, <1>4, DeskNext DEF Onward
<1>5. CASE Finish("error")
  BY <1>2, <1>5, DeskFinished DEF Onward
<1>6. CASE /\ receipts[File] \in Job /\ receipts[File].drive = w.drive
           /\ ProcessJob(receipts[File])
  BY <1>1, <1>2, <1>3, <1>6, DeskProcessJob
<1> QED BY <1>4, <1>5, <1>6 DEF DrainJob

\* The recording of the scan moves to another place of the upload.
LEMMA DeskUploading ==
  ASSUME Desk, w.pc # "idle", w.loop = "scan", File \in Files, receipts[File] = None,
         NEW p \in Uploading, p = "lookup" => w.pc = "scan",
         p = "session" => w.pc \in {"scan", "lookup"},
         w' \in WorkerType, w'.pc = p, w'.loop = w.loop, w'.index = w.index,
         w'.drive = w.drive, p \in {"lookup", "session"} => w'.offset = 0,
         session' \in 0..(Ranges - 1) \cup {None},
         p \in {"put", "putting"} /\ session' # None => w'.offset = session',
         p \in {"put", "putting", "failed"} /\ session' # None
           => \/ w.pc = "session"
              \/ session # None /\ w.pc \in {"put", "putting", "failed"},
         UNCHANGED <<receipts, cancelled, result>>
  PROVE  Onward
<1>1. WorkerTypes'
  BY DEF Desk, WorkerTypes
<1>2. w.drive \in Drives
  BY DEF Desk, Place
<1>3. Place' /\ Hand' /\ RangeExpected'
  BY <1>2 DEF Place, Hand, RangeExpected, Handling, Uploading, Processing, Loops, File
<1>4. Scanned'
  BY DEF Desk, Scanned
<1>5. \A f \in Files : Unspent(f)' => Unspent(f)
  BY DEF Unspent, Uploading
<1> QED BY <1>1, <1>3, <1>4, <1>5 DEF Onward, Desk

LEMMA StepScanFile ==
  ASSUME WorldTypes, Desk, ScanFile  PROVE Onward
<1>1. /\ File \in Files /\ w.pc = "scan" /\ w.loop = "scan" /\ w.drive \in Drives
      /\ w.pc # "idle" /\ ~cancelled
  BY AtFiles DEF ScanFile, Loops
<1>2. session' = session /\ cancelled' = cancelled /\ receipts' = receipts
  BY DEF ScanFile, card
<1>3. CASE receipts[File] \in Job /\ receipts[File].drive = w.drive /\ NextFile
  BY <1>1, <1>2, <1>3, DoneSoFar, DeskNext DEF Onward
<1>4. CASE Finish("error")
  BY <1>2, <1>4, DeskFinished DEF Onward
<1>5. CASE receipts[File] = None /\ Goto("lookup")
  <2>1. "lookup" \in Uploading /\ "lookup" \in Places
    BY DEF Uploading, Places
  <2>2. w.offset = 0
    BY <1>1 DEF Desk, Place, Loops
  <2>3. /\ w' \in WorkerType /\ result' = result /\ w'.pc = "lookup"
        /\ w'.loop = w.loop /\ w'.index = w.index /\ w'.drive = w.drive
        /\ w'.offset = 0
    BY <1>5, <2>1, <2>2, Went DEF Desk, WorkerTypes
  <2> QED BY <1>1, <1>2, <1>5, <2>1, <2>3, DeskUploading DEF Desk, WorkerTypes
<1> QED BY <1>3, <1>4, <1>5 DEF ScanFile

\* What an upload knows of its recording.
LEMMA UploadHand ==
  ASSUME Desk, w.pc \in Uploading
  PROVE  /\ w \in WorkerType /\ w.pc # "idle" /\ w.loop = "scan" /\ File \in Files
         /\ w.drive \in Drives /\ receipts[File] = None /\ w.pc \in Handling
BY DEF Desk, Place, Hand, WorkerTypes, Uploading, Handling

LEMMA HereType ==
  ASSUME WorldTypes, w.drive \in Drives, File \in Files
  PROVE  Here \in Item \cup {None}
BY DEF WorldTypes, Here

\* An item of this recording becomes its job.
LEMMA DeskUploaded ==
  ASSUME Desk, w.pc \in Uploading, NEW i \in 1..MaxItem, Uploaded(i),
         <<w.drive, File, i>> \in uploads',
         UNCHANGED <<deleted, sidecars, receipts, cancelled>>,
         session' \in {session, None}
  PROVE  Onward
<1>1. /\ w \in WorkerType /\ w.pc # "idle" /\ w.loop = "scan" /\ File \in Files
      /\ w.drive \in Drives /\ receipts[File] = None /\ w.pc \in Handling
  BY UploadHand
<1> DEFINE s == IF File \in TooLong THEN "too_long" ELSE "pending"
           j == [drive |-> w.drive, item |-> i, state |-> s]
<1>2. s \in {"pending", "completed", "too_long", "missing"} /\ s # "missing" /\ s # "completed"
  OBVIOUS
<1>3. j \in Job /\ j.drive = w.drive /\ j.item = i /\ j.state = s
  BY <1>1, <1>2, JobMade
<1>4. Save(j)
  BY DEF Uploaded
<1> HIDE DEF j, s
<1> QED BY <1>1, <1>2, <1>3, <1>4, DeskSaving DEF Onward

\* The upload goes to another of its places and the session stays as it is or is gone.
LEMMA DeskGoes ==
  ASSUME Desk, w.pc \in Uploading \ {"lookup", "session"},
         NEW p \in {"putting", "failed", "verify"}, Goto(p),
         session' \in 0..(Ranges - 1) \cup {None},
         session' # None => session # None \/ p = "verify",
         p = "putting" => w.pc = "put" /\ session' = session,
         p = "failed" /\ session' # None => w.pc \in {"put", "putting", "failed"},
         UNCHANGED <<receipts, cancelled>>
  PROVE  Onward
<1>1. /\ w \in WorkerType /\ w.pc # "idle" /\ w.loop = "scan" /\ File \in Files
      /\ w.drive \in Drives /\ receipts[File] = None /\ w.pc \in Handling
  BY UploadHand
<1>2. p \in Places /\ p \in Uploading /\ p # "lookup" /\ p # "session" /\ p # "put"
  BY DEF Places, Uploading
<1>3. /\ w' \in WorkerType /\ result' = result /\ w'.pc = p
      /\ w'.loop = w.loop /\ w'.index = w.index /\ w'.drive = w.drive
      /\ w'.job = w.job /\ w'.offset = w.offset
  BY <1>1, <1>2, Went
<1>4. p = "putting" /\ session' # None => w'.offset = session'
  BY <1>3 DEF Desk, RangeExpected
<1>5. p \in {"put", "putting", "failed"} /\ session' # None
        => session # None /\ w.pc \in {"put", "putting", "failed"}
  BY <1>2
<1> QED BY <1>1, <1>2, <1>3, <1>4, <1>5, DeskUploading

LEMMA StepLookup ==
  ASSUME Ledger, Desk, Lookup  PROVE Onward
<1>1. w.pc = "lookup" /\ w.pc \in Uploading
  BY DEF Lookup, Uploading
<1>2. /\ w \in WorkerType /\ w.pc # "idle" /\ w.loop = "scan" /\ File \in Files
      /\ w.drive \in Drives /\ receipts[File] = None /\ w.pc \in Handling
  BY <1>1, UploadHand
<1>3. /\ session' = session /\ cancelled' = cancelled /\ receipts' = receipts
      /\ uploads' = uploads /\ deleted' = deleted /\ sidecars' = sidecars
  BY DEF Lookup, card, world
<1>4. CASE Finish("error")
  BY <1>3, <1>4, DeskFinished DEF Onward
<1>5. CASE Goto("session")
  <2>1. "session" \in Places /\ "session" \in Uploading /\ w.offset = 0
    BY <1>1 DEF Places, Uploading, Desk, Place
  <2>2. /\ w' \in WorkerType /\ result' = result /\ w'.pc = "session"
        /\ w'.loop = w.loop /\ w'.index = w.index /\ w'.drive = w.drive
        /\ w'.offset = 0
    BY <1>2, <1>5, <2>1, Went
  <2> QED BY <1>1, <1>2, <1>3, <2>1, <2>2, DeskUploading DEF Desk, WorkerTypes
<1>6. CASE Here # None /\ Here.same /\ Uploaded(Here.id)
  <2>1. Here \in Item
    BY <1>2, <1>6, HereType DEF Ledger
  <2>2. Here.id \in 1..MaxItem /\ <<w.drive, File, Here.id>> \in uploads
    BY <1>2, <1>6, <2>1 DEF Ledger, DriveTrue, Here, Item
  <2> QED BY <1>1, <1>3, <1>6, <2>2, DeskUploaded
<1> QED BY <1>4, <1>5, <1>6 DEF Lookup

LEMMA StepVerify ==
  ASSUME Ledger, Desk, Verify  PROVE Onward
<1>1. w.pc = "verify" /\ w.pc \in Uploading
  BY DEF Verify, Uploading
<1>2. /\ w \in WorkerType /\ w.pc # "idle" /\ w.loop = "scan" /\ File \in Files
      /\ w.drive \in Drives /\ receipts[File] = None /\ w.pc \in Handling
  BY <1>1, UploadHand
<1>3. /\ session' = session /\ cancelled' = cancelled /\ receipts' = receipts
      /\ uploads' = uploads /\ deleted' = deleted /\ sidecars' = sidecars
  BY DEF Verify, card, world
<1>4. CASE Finish("error")
  BY <1>3, <1>4, DeskFinished DEF Onward
<1>5. CASE Here # None /\ Here.same /\ Uploaded(Here.id)
  <2>1. Here \in Item
    BY <1>2, <1>5, HereType DEF Ledger
  <2>2. Here.id \in 1..MaxItem /\ <<w.drive, File, Here.id>> \in uploads
    BY <1>2, <1>5, <2>1 DEF Ledger, DriveTrue, Here, Item
  <2> QED BY <1>1, <1>3, <1>5, <2>2, DeskUploaded
<1> QED BY <1>4, <1>5 DEF Verify

LEMMA StepOpenSession ==
  ASSUME Desk, OpenSession  PROVE Onward
<1>1. w.pc = "session" /\ w.pc \in Uploading
  BY DEF OpenSession, Uploading
<1>2. /\ w \in WorkerType /\ w.pc # "idle" /\ w.loop = "scan" /\ File \in Files
      /\ w.drive \in Drives /\ receipts[File] = None /\ w.pc \in Handling
  BY <1>1, UploadHand
<1>3. cancelled' = cancelled /\ receipts' = receipts
  BY DEF OpenSession, card
<1>4. CASE Finish("error") /\ session' = session
  BY <1>3, <1>4, DeskFinished DEF Onward
<1>5. CASE session' = 0 /\ Goto("put")
  <2>1. "put" \in Places /\ "put" \in Uploading /\ w.offset = 0 /\ 0 \in 0..(Ranges - 1)
    BY <1>1, Sizes DEF Places, Uploading, Desk, Place
  <2>2. /\ w' \in WorkerType /\ result' = result /\ w'.pc = "put"
        /\ w'.loop = w.loop /\ w'.index = w.index /\ w'.drive = w.drive
        /\ w'.offset = 0
    BY <1>2, <1>5, <2>1, Went
  <2> QED BY <1>1, <1>2, <1>3, <1>5, <2>1, <2>2, DeskUploading
<1> QED BY <1>4, <1>5 DEF OpenSession

LEMMA StepBeginPut ==
  ASSUME Desk, BeginPut  PROVE Onward
<1>1. w.pc = "put" /\ w.pc \in Uploading \ {"lookup", "session"}
  BY DEF BeginPut, Uploading
<1>2. session' = session /\ cancelled' = cancelled /\ receipts' = receipts /\ Goto("putting")
  BY DEF BeginPut, card
<1> QED BY <1>1, <1>2, DeskGoes DEF Desk, WorkerTypes

LEMMA StepCancelUpload ==
  ASSUME Desk, CancelUpload  PROVE Onward
BY DeskFinished DEF CancelUpload, Onward

LEMMA StepPutMore ==
  ASSUME Desk, PutMore  PROVE Onward
<1>1. w.pc = "putting" /\ w.pc \in Uploading \ {"lookup", "session"}
  BY DEF PutMore, Uploading
<1>2. /\ w \in WorkerType /\ w.pc # "idle" /\ w.loop = "scan" /\ File \in Files
      /\ w.drive \in Drives /\ receipts[File] = None /\ w.pc \in Handling
  BY <1>1, UploadHand
<1>3. cancelled' = cancelled /\ receipts' = receipts
  BY DEF PutMore, card
<1>4. session # None /\ session' = session + 1 /\ w.offset = session /\ session' \in 0..(Ranges - 1)
  <2>1. w.offset \in 0..(Ranges - 1)
    BY <1>2 DEF WorkerType
  <2> QED BY <2>1, NoneIsNone, Sizes DEF PutMore
<1>5. CASE Goto("failed")
  BY <1>1, <1>3, <1>4, <1>5, DeskGoes
<1>6. CASE w' = [w EXCEPT !.pc = "put", !.offset = @ + 1, !.failures = 0] /\ result' = result
  <2>1. /\ "put" \in Places /\ "put" \in Uploading
        /\ w.offset + 1 \in 0..(Ranges - 1) /\ 0 \in 0..MaxFailures
    BY <1>4, Sizes DEF Places, Uploading
  <2>2. /\ w' \in WorkerType /\ w'.pc = "put"
        /\ w'.loop = w.loop /\ w'.index = w.index /\ w'.drive = w.drive
        /\ w'.offset = w.offset + 1
    BY <1>2, <1>6, <2>1 DEF WorkerType
  <2> QED BY <1>1, <1>2, <1>3, <1>4, <1>6, <2>1, <2>2, DeskUploading
<1> QED BY <1>5, <1>6 DEF PutMore

LEMMA StepPutFails ==
  ASSUME Desk, PutFails  PROVE Onward
<1>1. w.pc = "putting" /\ w.pc \in Uploading \ {"lookup", "session"}
  BY DEF PutFails, Uploading
<1>2. cancelled' = cancelled /\ receipts' = receipts
  BY DEF PutFails, card
<1> QED BY <1>1, <1>2, DeskGoes DEF PutFails, Desk, WorkerTypes

LEMMA StepQuerySession ==
  ASSUME Desk, QuerySession  PROVE Onward
<1>1. w.pc = "failed" /\ w.pc \in Uploading \ {"lookup", "session"}
  BY DEF QuerySession, Uploading
<1>2. /\ w \in WorkerType /\ w.pc # "idle" /\ w.loop = "scan" /\ File \in Files
      /\ w.drive \in Drives /\ receipts[File] = None /\ w.pc \in Handling
  BY <1>1, UploadHand
<1>3. session' = session /\ cancelled' = cancelled /\ receipts' = receipts
  BY DEF QuerySession, card
<1>4. session \in 0..(Ranges - 1) \cup {None}
  BY DEF Desk, WorkerTypes
<1>5. CASE Goto("verify")
  BY <1>1, <1>3, <1>4, <1>5, DeskGoes
<1>6. CASE /\ w.failures < MaxFailures /\ session # None
           /\ w' = [w EXCEPT !.pc = "put", !.offset = session, !.failures = @ + 1]
           /\ result' = result
  <2>1. "put" \in Places /\ "put" \in Uploading /\ session \in 0..(Ranges - 1)
    BY <1>4, <1>6 DEF Places, Uploading
  <2>2. w.failures + 1 \in 0..MaxFailures
    BY <1>2, <1>6, Sizes DEF WorkerType
  <2>3. /\ w' \in WorkerType /\ w'.pc = "put"
        /\ w'.loop = w.loop /\ w'.index = w.index /\ w'.drive = w.drive
        /\ w'.offset = session
    BY <1>2, <1>6, <2>1, <2>2 DEF WorkerType
  <2> QED BY <1>1, <1>2, <1>3, <1>4, <1>6, <2>1, <2>3, DeskUploading
<1> QED BY <1>5, <1>6 DEF QuerySession

-------------------------------------------------------------------------------
\* Processing.

LEMMA ProcessHand ==
  ASSUME Ledger, Desk, w.pc \in Processing
  PROVE  /\ w \in WorkerType /\ w.pc \in Handling /\ File \in Files /\ w.drive \in Drives
         /\ w.job \in Job /\ w.job = receipts[File] /\ Pending(w.job)
         /\ w.job.drive = w.drive /\ <<w.drive, File, w.job.item>> \in uploads
         /\ w.job.item \in 1..MaxItem
<1>1. /\ w \in WorkerType /\ w.pc \in Handling /\ File \in Files /\ w.drive \in Drives
      /\ w.job \in Job /\ w.job = receipts[File] /\ Pending(w.job) /\ w.job.drive = w.drive
  BY DEF Desk, Place, Hand, WorkerTypes, Processing, Handling
<1>2. ItemUploaded(File)
  BY <1>1 DEF Ledger, ReceiptHonest
<1>3. w.job.item \in 1..MaxItem
  BY <1>1 DEF Job
<1> QED BY <1>1, <1>2, <1>3 DEF ItemUploaded, Key

\* A result of the processing is saved only when it is so.
LEMMA DeskSettled ==
  ASSUME Ledger, Desk, w.pc \in Processing,
         NEW s \in {"completed", "too_long", "missing"}, SaveState(s),
         s = "missing" => <<w.drive, File, w.job.item>> \in deleted,
         s = "completed" => sidecars[w.drive][File] = "both",
         UNCHANGED <<receipts, uploads, deleted, sidecars, cancelled, session>>
  PROVE  Onward
<1>1. /\ w \in WorkerType /\ w.pc \in Handling /\ File \in Files /\ w.drive \in Drives
      /\ w.job \in Job /\ w.job = receipts[File] /\ Pending(w.job)
      /\ w.job.drive = w.drive /\ <<w.drive, File, w.job.item>> \in uploads
  BY ProcessHand
<1> DEFINE j == [w.job EXCEPT !.state = s]
<1>2. j \in Job /\ j.drive = w.drive /\ j.item = w.job.item /\ j.state = s
  <2>1. w.job \in Job /\ s \in {"pending", "completed", "too_long", "missing"}
    BY <1>1
  <2>2. j \in Job /\ j.drive = w.job.drive /\ j.item = w.job.item /\ j.state = s
    BY <2>1, JobSettled, Zenon
  <2> QED BY <1>1, <2>2
<1>3. Save(j)
  BY DEF SaveState
<1> HIDE DEF j
<1> QED BY <1>1, <1>2, <1>3, DeskSaving DEF Onward

LEMMA StepStatus ==
  ASSUME Ledger, Desk, Status  PROVE Onward
<1>1. w.pc \in Processing
  BY DEF Status, Processing
<1>2. /\ session' = session /\ cancelled' = cancelled /\ receipts' = receipts
      /\ uploads' = uploads /\ deleted' = deleted /\ sidecars' = sidecars
  BY DEF Status, card, world
<1>3. CASE NextFile \/ Waiting \/ Goto("confirm") \/ MayStart
  BY <1>1, <1>2, <1>3, DeskProcessed DEF MayStart, Processing, Onward
<1>4. CASE SaveState("too_long")
  BY <1>1, <1>2, <1>4, DeskSettled
<1>5. CASE Saved = "both" /\ SaveState("completed")
  BY <1>1, <1>2, <1>5, DeskSettled DEF Saved
<1> QED BY <1>3, <1>4, <1>5 DEF Status

LEMMA StepStreamEnds ==
  ASSUME Ledger, Desk, StreamEnds  PROVE Onward
<1>1. w.pc \in Processing
  BY DEF StreamEnds, Processing
<1>2. /\ session' = session /\ cancelled' = cancelled /\ receipts' = receipts
      /\ uploads' = uploads /\ deleted' = deleted /\ sidecars' = sidecars
  BY DEF StreamEnds, card, world
<1>3. CASE NextFile \/ Waiting \/ Goto("confirm")
  BY <1>1, <1>2, <1>3, DeskProcessed DEF Processing, Onward
<1>4. CASE SaveState("too_long")
  BY <1>1, <1>2, <1>4, DeskSettled
<1>5. CASE Saved = "both" /\ SaveState("completed")
  BY <1>1, <1>2, <1>5, DeskSettled DEF Saved
<1> QED BY <1>3, <1>4, <1>5 DEF StreamEnds

\* The item of the job was uploaded and is not there, so the user deleted it.
LEMMA StepConfirmMissing ==
  ASSUME Ledger, Desk, ConfirmMissing  PROVE Onward
<1>1. w.pc \in Processing
  BY DEF ConfirmMissing, Processing
<1>2. /\ session' = session /\ cancelled' = cancelled /\ receipts' = receipts
      /\ uploads' = uploads /\ deleted' = deleted /\ sidecars' = sidecars
  BY DEF ConfirmMissing, card, world
<1>3. CASE NextFile
  BY <1>1, <1>2, <1>3, DeskProcessed DEF Onward
<1>4. CASE ~OurItem /\ SaveState("missing")
  <2>1. /\ File \in Files /\ w.drive \in Drives /\ w.job \in Job
        /\ <<w.drive, File, w.job.item>> \in uploads /\ w.job.item \in 1..MaxItem
    BY <1>1, ProcessHand
  <2>2. \/ remote[w.drive][File] \in Item /\ remote[w.drive][File].id = w.job.item
        \/ <<w.drive, File, w.job.item>> \in deleted
    BY <2>1 DEF Ledger, DriveTrue
  <2>3. <<w.drive, File, w.job.item>> \in deleted
    BY <1>4, <2>1, <2>2 DEF OurItem, Here
  <2> QED BY <1>1, <1>2, <1>4, <2>3, DeskSettled
<1> QED BY <1>3, <1>4 DEF ConfirmMissing

\* The stream may begin the proxy's work, which changes nothing the receipt says.
LEMMA StepStartStream ==
  ASSUME SyncInv, StartStream  PROVE SyncInv'
<1>1. Ledger /\ Desk /\ Counted /\ w.pc \in Processing
  BY DEF SyncInv, StartStream, Processing
<1>2. /\ session' = session /\ cancelled' = cancelled /\ receipts' = receipts
      /\ remote' = remote /\ sidecars' = sidecars /\ account' = account
      /\ uploads' = uploads /\ deleted' = deleted /\ edits' = edits /\ syncs' = syncs
  BY DEF StartStream, card
<1>3. Onward
  BY <1>1, <1>2, DeskProcessed DEF StartStream, Processing, Onward
<1>4. running' \in Task \cup {None}
  <2>1. File \in Files /\ w.drive \in Drives
    BY <1>1, ProcessHand
  <2> QED BY <1>1, <2>1 DEF Ledger, WorldTypes, StartStream, Task
<1>5. WorldTypes'
  BY <1>1, <1>2, <1>4 DEF Ledger, WorldTypes
<1>6. DriveTrue'
  BY <1>1, <1>2 DEF Ledger, DriveTrue
<1>7. ReceiptHonest'
  BY <1>1, <1>2 DEF Ledger, ReceiptHonest, ItemUploaded, MissingIsDeleted, CompletedHasSidecars, Key
<1>8. Counted'
  BY <1>1, <1>2, <1>3, CountedKept DEF Onward
<1> QED BY <1>3, <1>5, <1>6, <1>7, <1>8 DEF SyncInv, Ledger, Onward

-------------------------------------------------------------------------------
\* The receipt.

\* What may be written over the receipt in hand: itself, the job, or nothing readable.
LEMMA ReceiptWritten ==
  ASSUME Ledger, File \in Files, w.drive \in Drives, NEW r \in {receipts[File], w.job, Unreadable},
         w.job \in Job, w.job.drive = w.drive, Honest(File, w.job),
         receipts' = [receipts EXCEPT ![File] = r],
         UNCHANGED <<world, syncs>>
  PROVE  Ledger' /\ receipts'[File] = r /\ \A f \in Files \ {File} : receipts'[f] = receipts[f]
<1>1. /\ remote' = remote /\ sidecars' = sidecars
      /\ running' = running /\ account' = account /\ uploads' = uploads
      /\ deleted' = deleted /\ edits' = edits /\ syncs' = syncs
  BY DEF world
<1>2. receipts \in [Files -> Job \cup {None, Unreadable}]
  BY DEF Ledger, WorldTypes
<1>3. receipts'[File] = r /\ \A f \in Files \ {File} : receipts'[f] = receipts[f]
  BY <1>2
<1>4. r \in Job \cup {None, Unreadable}
  BY <1>2
<1>5. WorldTypes'
  <2>1. receipts' \in [Files -> Job \cup {None, Unreadable}]
    BY <1>2, <1>4
  <2> QED BY <1>1, <2>1 DEF Ledger, WorldTypes
<1>6. DriveTrue'
  BY <1>1 DEF Ledger, DriveTrue
<1>7. ASSUME NEW f \in Files, receipts'[f] \in Job
      PROVE  ItemUploaded(f)' /\ MissingIsDeleted(f)' /\ CompletedHasSidecars(f)'
  <2>1. CASE receipts'[f] = receipts[f]
    BY <1>1, <1>7, <2>1
    DEF Ledger, ReceiptHonest, ItemUploaded, MissingIsDeleted, CompletedHasSidecars, Key
  <2>2. CASE f = File /\ r = w.job
    BY <1>1, <1>3, <2>2 DEF Honest, ItemUploaded, MissingIsDeleted, CompletedHasSidecars, Key
  <2>3. r # Unreadable \/ f # File
    BY <1>3, <1>7, NoneIsNone
  <2> QED BY <1>3, <2>1, <2>2, <2>3
<1>8. ReceiptHonest'
  BY <1>7 DEF ReceiptHonest
<1> QED BY <1>3, <1>5, <1>6, <1>8 DEF Ledger

LEMMA SaveHand ==
  ASSUME Desk, w.pc = "save"
  PROVE  /\ File \in Files /\ w.drive \in Drives /\ w.pc # "idle" /\ w.pc \in Handling
         /\ w.job \in Job /\ w.job.drive = w.drive /\ Honest(File, w.job)
         /\ receipts[File] # None => Pending(receipts[File]) /\ receipts[File].drive = w.drive
BY DEF Desk, Place, Hand, Handling

LEMMA TornIs ==
  \A r \in Torn : /\ r \in {receipts[File], w.job, Unreadable}
                  /\ ~First => r \in {receipts[File], w.job}
BY DEF Torn

\* Behind the scan the receipts stay; the one in hand is a job of the drive.
LEMMA ScannedOn ==
  ASSUME Desk, w.pc # "idle", w.loop = "scan", File \in Files,
         \A f \in Files \ {File} : receipts'[f] = receipts[f],
         NEW f \in Files, f < File
  PROVE  receipts'[f] \in Job /\ receipts'[f].drive = w.drive
<1>1. f # File /\ f < w.index
  BY DEF File, Files
<1> QED BY <1>1 DEF Desk, Scanned

LEMMA StepSaveDone ==
  ASSUME SyncInv, SaveDone  PROVE SyncInv'
<1>1. Ledger /\ Desk /\ Counted /\ w.pc = "save"
  BY DEF SyncInv, SaveDone
<1>2. /\ File \in Files /\ w.drive \in Drives /\ w.pc # "idle" /\ w.pc \in Handling
      /\ w.job \in Job /\ w.job.drive = w.drive /\ Honest(File, w.job)
  BY <1>1, SaveHand
<1>3. /\ session' = session /\ cancelled' = cancelled /\ UNCHANGED <<world, syncs>>
      /\ receipts' = [receipts EXCEPT ![File] = w.job]
  BY DEF SaveDone
<1>4. Ledger' /\ receipts'[File] = w.job /\ \A f \in Files \ {File} : receipts'[f] = receipts[f]
  BY <1>1, <1>2, <1>3, ReceiptWritten
<1>5. w.loop = "scan" =>
        \A f \in Files : f < File => receipts'[f] \in Job /\ receipts'[f].drive = w.drive
  BY <1>1, <1>2, <1>4, ScannedOn
<1>6. w.loop = "scan" =>
        \A f \in Files : f <= File => receipts'[f] \in Job /\ receipts'[f].drive = w.drive
  <2>1. \A f \in Files : f <= File => f = File \/ f < File
    BY <1>2 DEF Files
  <2> QED BY <1>2, <1>4, <1>5, <2>1
<1>7. Onward
  <2>1. CASE ProcessJob(w.job)
    BY <1>1, <1>2, <1>3, <1>4, <1>5, <2>1, DeskProcessJob
  <2>2. CASE NextFile
    BY <1>1, <1>2, <1>3, <1>6, <2>2, DeskNext DEF Onward
  <2> QED BY <2>1, <2>2 DEF SaveDone
<1>8. /\ remote' = remote /\ uploads' = uploads /\ deleted' = deleted
      /\ syncs' + edits' = syncs + edits
  BY <1>3 DEF world
<1>9. Counted'
  BY <1>1, <1>7, <1>8, CountedKept DEF Onward
<1> QED BY <1>4, <1>7, <1>9 DEF SyncInv, Onward

LEMMA StepSaveFails ==
  ASSUME SyncInv, SaveFails  PROVE SyncInv'
<1>1. Ledger /\ Desk /\ Counted /\ w.pc = "save"
  BY DEF SyncInv, SaveFails
<1>2. /\ File \in Files /\ w.drive \in Drives /\ w.pc # "idle" /\ w.pc \in Handling
      /\ w.job \in Job /\ w.job.drive = w.drive /\ Honest(File, w.job)
      /\ receipts[File] # None => Pending(receipts[File]) /\ receipts[File].drive = w.drive
  BY <1>1, SaveHand
<1>3. session' = session /\ cancelled' = cancelled /\ UNCHANGED <<world, syncs>>
  BY DEF SaveFails
<1>4. PICK r \in Torn : receipts' = [receipts EXCEPT ![File] = r]
  BY DEF SaveFails
<1>5. r \in {receipts[File], w.job, Unreadable} /\ (~First => r \in {receipts[File], w.job})
  BY TornIs
<1>6. Ledger' /\ receipts'[File] = r /\ \A f \in Files \ {File} : receipts'[f] = receipts[f]
  BY <1>1, <1>2, <1>3, <1>4, <1>5, ReceiptWritten
<1>7. Onward
  <2>1. CASE First
    BY <1>1, <1>3, <2>1, DeskFinished DEF SaveFails, Onward
  <2>2. CASE ~First
    <3>1. NextFile
      BY <2>2 DEF SaveFails
    <3>2. receipts'[File] \in Job /\ receipts'[File].drive = w.drive
      BY <1>2, <1>5, <1>6, <2>2 DEF First, Pending
    <3>3. w.loop = "scan" =>
            \A f \in Files : f < File => receipts'[f] \in Job /\ receipts'[f].drive = w.drive
      BY <1>1, <1>2, <1>6, ScannedOn
    <3>4. \A f \in Files : f <= File => f = File \/ f < File
      BY <1>2 DEF Files
    <3> QED BY <1>1, <1>2, <1>3, <3>1, <3>2, <3>3, <3>4, DeskNext DEF Onward
  <2> QED BY <2>1, <2>2
<1>8. /\ remote' = remote /\ uploads' = uploads /\ deleted' = deleted
      /\ syncs' + edits' = syncs + edits
  BY <1>3 DEF world
<1>9. Counted'
  BY <1>1, <1>7, <1>8, CountedKept DEF Onward
<1> QED BY <1>6, <1>7, <1>9 DEF SyncInv, Onward

-------------------------------------------------------------------------------
\* The last range, the proxy and the user.

\* What the receipts say stays so while the histories only grow and a completed
\* transcript stays complete.
LEMMA ReceiptsStay ==
  ASSUME Ledger, receipts' = receipts, uploads \subseteq uploads', deleted \subseteq deleted',
         \A d \in Drives, f \in Files : sidecars[d][f] = "both" => sidecars'[d][f] = "both"
  PROVE  ReceiptHonest'
<1> SUFFICES ASSUME NEW f \in Files, receipts'[f] \in Job
             PROVE  ItemUploaded(f)' /\ MissingIsDeleted(f)' /\ CompletedHasSidecars(f)'
  BY DEF ReceiptHonest
<1>1. ItemUploaded(f) /\ MissingIsDeleted(f) /\ CompletedHasSidecars(f)
  BY DEF Ledger, ReceiptHonest
<1>2. receipts'[f].drive \in Drives
  BY DEF Job
<1> QED BY <1>1, <1>2 DEF ItemUploaded, MissingIsDeleted, CompletedHasSidecars, Key

\* So does what the worker knows.
LEMMA DeskStays ==
  ASSUME Desk, UNCHANGED device, uploads \subseteq uploads', deleted \subseteq deleted',
         \A d \in Drives, f \in Files : sidecars[d][f] = "both" => sidecars'[d][f] = "both"
  PROVE  Onward
<1>1. /\ receipts' = receipts /\ session' = session /\ w' = w
      /\ cancelled' = cancelled /\ result' = result
  BY DEF device, card
<1>2. WorkerTypes' /\ Place' /\ Scanned' /\ RangeExpected'
  BY <1>1 DEF Desk, WorkerTypes, Place, Scanned, RangeExpected, File
<1>3. Hand'
  <2>1. Hand
    BY DEF Desk
  <2>2. ASSUME w.pc = "save" PROVE Honest(File, w.job)'
    <3>1. File \in Files /\ w.drive \in Drives /\ w.job.drive = w.drive /\ Honest(File, w.job)
      BY <2>2, SaveHand
    <3> QED BY <1>1, <3>1 DEF Honest, File
  <2> QED BY <1>1, <2>1, <2>2 DEF Hand, File
<1>4. \A f \in Files : Unspent(f)' => Unspent(f)
  BY <1>1 DEF Unspent
<1> QED BY <1>2, <1>3, <1>4 DEF Onward, Desk

\* A new item gets the next number.
LEMMA NextNumber ==
  ASSUME NEW d \in Drives, NEW f \in Files, NEW k \in Nat, Ids(d, f) = 1..k
  PROVE  NewId(d, f) = k + 1
<1>1. Cardinality(1..k) = k
  BY FS_Interval
<1> QED BY <1>1 DEF NewId

LEMMA NumberAdded ==
  ASSUME NEW k \in Nat
  PROVE  (1..k) \cup {k + 1} = 1..(k + 1)
OBVIOUS

\* The items of the drive and the histories after an upload.
LEMMA UploadRecorded ==
  ASSUME Ledger, NEW d \in Drives, NEW f \in Files, NEW i \in 1..MaxItem,
         remote[d][f] = None, remote' = [remote EXCEPT ![d][f] = [id |-> i, same |-> TRUE]],
         uploads' = uploads \cup {<<d, f, i>>},
         UNCHANGED <<receipts, sidecars, running, account, deleted, edits, syncs>>
  PROVE  Ledger'
<1> DEFINE e == [id |-> i, same |-> TRUE]
<1>1. e \in Item /\ e.id = i /\ e.same
  BY DEF Item
<1>2. remote' = [remote EXCEPT ![d][f] = e]
  OBVIOUS
<1> HIDE DEF e
<1>3. /\ remote' \in [Drives -> [Files -> Item \cup {None}]]
      /\ remote'[d][f] = e
      /\ \A c \in Drives, g \in Files : (c # d \/ g # f) => remote'[c][g] = remote[c][g]
  <2>1. remote \in [Drives -> [Files -> Item \cup {None}]]
    BY DEF Ledger, WorldTypes
  <2> DEFINE row == [remote[d] EXCEPT ![f] = e]
  <2>2. /\ row \in [Files -> Item \cup {None}] /\ row[f] = e
        /\ \A g \in Files : g # f => row[g] = remote[d][g]
    BY <1>1, <2>1
  <2>3. remote' = [remote EXCEPT ![d] = row]
    BY <1>2
  <2> HIDE DEF row
  <2>4. /\ remote' \in [Drives -> [Files -> Item \cup {None}]] /\ remote'[d] = row
        /\ \A c \in Drives : c # d => remote'[c] = remote[c]
    BY <2>1, <2>2, <2>3
  <2> QED BY <2>2, <2>4
<1>4. WorldTypes'
  BY <1>3 DEF Ledger, WorldTypes
<1>5. DriveTrue'
  <2> SUFFICES ASSUME NEW c \in Drives, NEW g \in Files
               PROVE  /\ remote'[c][g] \in Item /\ remote'[c][g].same
                           => <<c, g, remote'[c][g].id>> \in uploads'
                      /\ \A j \in 1..MaxItem : <<c, g, j>> \in uploads' =>
                           \/ remote'[c][g] \in Item /\ remote'[c][g].id = j
                           \/ <<c, g, j>> \in deleted'
    BY DEF DriveTrue
  <2>1. /\ remote[c][g] \in Item /\ remote[c][g].same => <<c, g, remote[c][g].id>> \in uploads
        /\ \A j \in 1..MaxItem : <<c, g, j>> \in uploads =>
             (remote[c][g] \in Item /\ remote[c][g].id = j) \/ <<c, g, j>> \in deleted
    BY DEF Ledger, DriveTrue
  <2>2. CASE c = d /\ g = f
    BY <1>1, <1>3, <2>1, <2>2, NoneIsNone
  <2>3. CASE c # d \/ g # f
    BY <1>3, <2>1, <2>3
  <2> QED BY <2>2, <2>3
<1>6. ReceiptHonest'
  BY ReceiptsStay
<1> QED BY <1>4, <1>5, <1>6 DEF Ledger

\* The number of an item is in the history of its path, or it is there now.
Past(U, d, f) == {t[3] : t \in {u \in U : u[1] = d /\ u[2] = f}}
There(item) == IF item = None THEN {} ELSE {item.id}

LEMMA PastIs ==
  ASSUME NEW U \in SUBSET (Drives \X Files \X (1..MaxItem)), NEW d, NEW f, NEW x
  PROVE  x \in Past(U, d, f) <=> <<d, f, x>> \in U
<1>1. ASSUME x \in Past(U, d, f) PROVE <<d, f, x>> \in U
  <2>1. PICK t \in U : t[1] = d /\ t[2] = f /\ t[3] = x
    BY <1>1 DEF Past
  <2>2. t = <<t[1], t[2], t[3]>>
    BY <2>1
  <2> QED BY <2>1, <2>2
<1>2. ASSUME <<d, f, x>> \in U PROVE x \in Past(U, d, f)
  BY <1>2 DEF Past
<1> QED BY <1>1, <1>2

LEMMA IdsAre ==
  /\ \A d \in Drives, f \in Files :
       Ids(d, f) = Past(uploads \cup deleted, d, f) \cup There(remote[d][f])
  /\ \A d \in Drives, f \in Files :
       Ids(d, f)' = Past(uploads' \cup deleted', d, f) \cup There(remote'[d][f])
BY DEF Ids, Past, There

LEMMA PastAdded ==
  ASSUME NEW U \in SUBSET (Drives \X Files \X (1..MaxItem)),
         NEW d \in Drives, NEW f \in Files, NEW i \in 1..MaxItem,
         NEW V, V = U \cup {<<d, f, i>>}
  PROVE  /\ Past(V, d, f) = Past(U, d, f) \cup {i}
         /\ \A c \in Drives, g \in Files :
              (c # d \/ g # f) => Past(V, c, g) = Past(U, c, g)
<1>1. V \in SUBSET (Drives \X Files \X (1..MaxItem))
  OBVIOUS
<1>2. \A c, g, x : <<c, g, x>> \in V <=> <<c, g, x>> \in U \/ (c = d /\ g = f /\ x = i)
  OBVIOUS
<1>3. \A x : x \in Past(V, d, f) <=> x \in Past(U, d, f) \cup {i}
  BY <1>1, <1>2, PastIs
<1>4. ASSUME NEW c \in Drives, NEW g \in Files, c # d \/ g # f
      PROVE  \A x : x \in Past(V, c, g) <=> x \in Past(U, c, g)
  <2> SUFFICES ASSUME NEW x PROVE x \in Past(V, c, g) <=> x \in Past(U, c, g)
    OBVIOUS
  <2>1. <<c, g, x>> \in V <=> <<c, g, x>> \in U
    BY <1>2, <1>4
  <2>2. x \in Past(V, c, g) <=> <<c, g, x>> \in V
    BY <1>1, PastIs
  <2>3. x \in Past(U, c, g) <=> <<c, g, x>> \in U
    BY PastIs
  <2> QED BY <2>1, <2>2, <2>3
<1>5. Past(V, d, f) = Past(U, d, f) \cup {i}
  BY <1>3
<1>6. ASSUME NEW c \in Drives, NEW g \in Files, c # d \/ g # f
      PROVE  Past(V, c, g) = Past(U, c, g)
  BY <1>4, <1>6
<1> QED BY <1>5, <1>6

\* What every change of the drive does to the numbers of its paths: an upload and a
\* file of the user's add one to their own path, a deletion none.
Numbers(d, f, i) ==
  /\ Ids(d, f)' = Ids(d, f) \cup {i}
  /\ \A c \in Drives, g \in Files : (c # d \/ g # f) => Ids(c, g)' = Ids(c, g)

LEMMA NumbersPut ==
  ASSUME WorldTypes, NEW d \in Drives, NEW f \in Files, NEW i \in 1..MaxItem,
         NEW same \in BOOLEAN, remote[d][f] = None,
         remote' = [remote EXCEPT ![d][f] = [id |-> i, same |-> same]],
         uploads' = uploads \cup {<<d, f, i>>} \/ uploads' = uploads, deleted' = deleted
  PROVE  Numbers(d, f, i)
<1> DEFINE e == [id |-> i, same |-> same]
           U == uploads \cup deleted
           V == uploads' \cup deleted'
<1>1. e \in Item /\ e.id = i
  BY DEF Item
<1>2. /\ remote'[d][f] = e
      /\ \A c \in Drives, g \in Files : (c # d \/ g # f) => remote'[c][g] = remote[c][g]
  BY DEF WorldTypes
<1> HIDE DEF e
<1>3. There(remote[d][f]) = {} /\ There(remote'[d][f]) = {i}
  BY <1>1, <1>2, NoneIsNone DEF There
<1>4. U \in SUBSET (Drives \X Files \X (1..MaxItem))
  BY DEF WorldTypes
<1>5. V = U \/ V = U \cup {<<d, f, i>>}
  OBVIOUS
<1>6. \A c \in Drives, g \in Files : /\ Ids(c, g) = Past(U, c, g) \cup There(remote[c][g])
                                     /\ Ids(c, g)' = Past(V, c, g) \cup There(remote'[c][g])
  BY IdsAre, Zenon DEF U, V
<1> HIDE DEF U, V
<1>7. /\ Past(V, d, f) \cup {i} = Past(U, d, f) \cup {i}
      /\ \A c \in Drives, g \in Files : (c # d \/ g # f) => Past(V, c, g) = Past(U, c, g)
  <2>1. CASE V = U
    BY <2>1
  <2>2. CASE V = U \cup {<<d, f, i>>}
    <3>1. /\ Past(V, d, f) = Past(U, d, f) \cup {i}
          /\ \A c \in Drives, g \in Files : (c # d \/ g # f) => Past(V, c, g) = Past(U, c, g)
      BY <1>4, <2>2, PastAdded
    <3> QED BY <3>1
  <2> QED BY <1>5, <2>1, <2>2
<1>8. Ids(d, f)' = Ids(d, f) \cup {i}
  <2>1. Ids(d, f) = Past(U, d, f) \cup {} /\ Ids(d, f)' = Past(V, d, f) \cup {i}
    BY <1>3, <1>6
  <2> QED BY <1>7, <2>1
<1>9. ASSUME NEW c \in Drives, NEW g \in Files, c # d \/ g # f
      PROVE  Ids(c, g)' = Ids(c, g)
  <2>1. remote'[c][g] = remote[c][g] /\ Past(V, c, g) = Past(U, c, g)
    BY <1>2, <1>7, <1>9
  <2>2. /\ Ids(c, g) = Past(U, c, g) \cup There(remote[c][g])
        /\ Ids(c, g)' = Past(V, c, g) \cup There(remote'[c][g])
    BY <1>6
  <2> QED BY <2>1, <2>2, Zenon
<1> QED BY <1>8, <1>9 DEF Numbers

LEMMA NumbersDeleted ==
  ASSUME WorldTypes, NEW d \in Drives, NEW f \in Files, remote[d][f] # None,
         remote' = [remote EXCEPT ![d][f] = None],
         deleted' = deleted \cup {<<d, f, remote[d][f].id>>}, uploads' = uploads
  PROVE  \A c \in Drives, g \in Files : Ids(c, g)' = Ids(c, g)
<1> DEFINE i == remote[d][f].id
           U == uploads \cup deleted
           V == uploads' \cup deleted'
<1>1. remote[d][f] \in Item /\ i \in 1..MaxItem
  BY DEF WorldTypes, Item
<1>2. /\ remote'[d][f] = None
      /\ \A c \in Drives, g \in Files : (c # d \/ g # f) => remote'[c][g] = remote[c][g]
  BY DEF WorldTypes
<1>3. There(remote[d][f]) = {i} /\ There(remote'[d][f]) = {}
  BY <1>2 DEF There
<1>4. U \in SUBSET (Drives \X Files \X (1..MaxItem))
  BY DEF WorldTypes
<1>5. V = U \cup {<<d, f, i>>}
  OBVIOUS
<1>6. \A c \in Drives, g \in Files : /\ Ids(c, g) = Past(U, c, g) \cup There(remote[c][g])
                                     /\ Ids(c, g)' = Past(V, c, g) \cup There(remote'[c][g])
  BY IdsAre, Zenon DEF U, V
<1> HIDE DEF U, V, i
<1>7. /\ Past(V, d, f) = Past(U, d, f) \cup {i}
      /\ \A c \in Drives, g \in Files : (c # d \/ g # f) => Past(V, c, g) = Past(U, c, g)
  <2>1. i \in 1..MaxItem
    BY <1>1
  <2> QED BY <1>4, <1>5, <2>1, PastAdded, SMTT(30)
<1>8. Ids(d, f)' = Ids(d, f)
  <2>1. /\ Ids(d, f) = Past(U, d, f) \cup {i}
        /\ Ids(d, f)' = Past(V, d, f) \cup {}
    BY <1>3, <1>6
  <2> QED BY <1>7, <2>1
<1>9. ASSUME NEW c \in Drives, NEW g \in Files, c # d \/ g # f
      PROVE  Ids(c, g)' = Ids(c, g)
  <2>1. remote'[c][g] = remote[c][g] /\ Past(V, c, g) = Past(U, c, g)
    BY <1>2, <1>7, <1>9
  <2>2. /\ Ids(c, g) = Past(U, c, g) \cup There(remote[c][g])
        /\ Ids(c, g)' = Past(V, c, g) \cup There(remote'[c][g])
    BY <1>6
  <2> QED BY <2>1, <2>2, Zenon
<1> QED BY <1>8, <1>9

\* The count of a path keeps up with an item more: an edit was spent on it, or the
\* one upload of this Sync.
LEMMA CountedMore ==
  ASSUME Counted, NEW d \in Drives, NEW f \in Files, NEW k \in Nat,
         Ids(d, f) = 1..k, Numbers(d, f, k + 1),
         syncs + edits \in Nat, syncs' + edits' \in Nat,
         k + 1 <= syncs' + edits', Unspent(f)' => k + 1 < syncs' + edits',
         syncs + edits <= syncs' + edits',
         \A g \in Files : Unspent(g)' => Unspent(g)
  PROVE  Counted'
<1> SUFFICES ASSUME NEW c \in Drives, NEW g \in Files
             PROVE  \E m \in Nat : /\ Ids(c, g)' = 1..m /\ m <= syncs' + edits'
                                   /\ Unspent(g)' => m < syncs' + edits'
  BY DEF Counted
<1>1. CASE c = d /\ g = f
  <2>1. Ids(d, f)' = 1..(k + 1)
    BY NumberAdded DEF Numbers
  <2>2. k + 1 \in Nat /\ k + 1 <= syncs' + edits'
    OBVIOUS
  <2>3. Unspent(f)' => k + 1 < syncs' + edits'
    OBVIOUS
  <2> QED BY <1>1, <2>1, <2>2, <2>3
<1>2. CASE c # d \/ g # f
  <2>1. PICK m \in Nat : /\ Ids(c, g) = 1..m /\ m <= syncs + edits
                         /\ Unspent(g) => m < syncs + edits
    BY DEF Counted
  <2>2. Ids(c, g)' = 1..m
    BY <1>2, <2>1 DEF Numbers
  <2>3. m <= syncs' + edits' /\ (Unspent(g)' => m < syncs' + edits')
    BY <2>1
  <2> QED BY <2>2, <2>3
<1> QED BY <1>1, <1>2

LEMMA Bounds ==
  ASSUME WorldTypes
  PROVE  /\ syncs \in Nat /\ edits \in Nat /\ syncs + edits \in Nat
         /\ syncs + edits < MaxItem
BY Sizes DEF WorldTypes, MaxItem

LEMMA StepPutLast ==
  ASSUME SyncInv, PutLast  PROVE SyncInv'
<1>1. Ledger /\ Desk /\ Counted /\ w.pc = "putting" /\ w.pc \in Uploading \ {"lookup", "session"}
  BY DEF SyncInv, PutLast, Uploading
<1>2. /\ w \in WorkerType /\ w.pc # "idle" /\ w.loop = "scan" /\ File \in Files
      /\ w.drive \in Drives /\ receipts[File] = None
  BY <1>1, UploadHand
<1>3. /\ receipts' = receipts /\ sidecars' = sidecars /\ running' = running
      /\ account' = account /\ deleted' = deleted /\ edits' = edits /\ syncs' = syncs
      /\ cancelled' = cancelled /\ session' = None
  BY DEF PutLast, card
<1>4. session # None
  <2>1. w.offset \in Nat
    BY <1>2 DEF WorkerType
  <2> QED BY <2>1, NoneIsNone DEF PutLast
<1>5. CASE Here = None
  <2>1. PICK d \in Drives, f \in Files : d = w.drive /\ f = File
    BY <1>2
  <2> DEFINE i == NewId(d, f)
  <2>2. /\ remote' = [remote EXCEPT ![d][f] = [id |-> i, same |-> TRUE]]
        /\ uploads' = uploads \cup {<<d, f, i>>}
        /\ Goto("failed") \/ Uploaded(i)
        /\ remote[d][f] = None
    BY <1>5, <2>1 DEF PutLast, Here
  <2>3. Unspent(f)
    BY <1>1, <1>2, <1>4, <2>1 DEF Unspent, File
  <2>4. PICK k \in Nat : Ids(d, f) = 1..k /\ k < syncs + edits
    BY <1>1, <2>3 DEF Counted
  <2>5. i = k + 1
    BY <2>4, NextNumber
  <2> HIDE DEF i
  <2>6. i \in 1..MaxItem /\ k + 1 <= syncs + edits /\ syncs + edits \in Nat
    BY <1>1, <2>4, <2>5, Bounds, Sizes DEF Ledger
  <2>7. Ledger'
    BY <1>1, <1>3, <2>2, <2>6, UploadRecorded
  <2>8. Onward /\ w'.pc \in {"failed", "save"} /\ w'.index = w.index /\ w'.loop = "scan"
    <3>1. CASE Goto("failed")
      <4>1. Onward
        BY <1>1, <1>3, <3>1, DeskGoes
      <4>2. "failed" \in Places
        BY DEF Places, Uploading
      <4> QED BY <1>2, <3>1, <4>1, <4>2, Went
    <3>2. CASE Uploaded(i)
      <4>1. Onward
        BY <1>1, <1>3, <2>1, <2>2, <2>6, <3>2, DeskUploaded
      <4>2. w' = [w EXCEPT !.pc = "save", !.job =
                    [drive |-> w.drive, item |-> i,
                     state |-> IF File \in TooLong THEN "too_long" ELSE "pending"]]
        BY <3>2 DEF Uploaded, Save
      <4>3. w'.pc = "save" /\ w'.index = w.index /\ w'.loop = w.loop
        BY <1>2, <4>2 DEF WorkerType
      <4> QED BY <1>2, <4>1, <4>3
    <3> QED BY <2>2, <3>1, <3>2
  <2>9. ~Unspent(f)'
    <3>1. w.index \in Int /\ f = w.index
      BY <1>2, <2>1 DEF WorkerType, File
    <3> QED BY <1>3, <2>8, <3>1 DEF Unspent
  <2>10. Numbers(d, f, k + 1)
    BY <1>1, <1>3, <2>2, <2>5, <2>6, NumbersPut DEF Ledger
  <2>11. Counted'
    <3>1. /\ syncs' + edits' = syncs + edits /\ syncs' + edits' \in Nat
          /\ k + 1 <= syncs' + edits' /\ syncs + edits <= syncs' + edits'
      BY <1>3, <2>6
    <3>2. \A g \in Files : Unspent(g)' => Unspent(g)
      BY <2>8 DEF Onward
    <3> QED BY <1>1, <2>4, <2>6, <2>9, <2>10, <3>1, <3>2, CountedMore
  <2> QED BY <2>7, <2>8, <2>11 DEF SyncInv, Onward
<1>6. CASE Here # None
  <2>1. Goto("failed") /\ UNCHANGED <<remote, uploads>>
    BY <1>6 DEF PutLast
  <2>2. Onward
    BY <1>1, <1>3, <2>1, DeskGoes
  <2>3. UNCHANGED <<card, world, syncs>>
    BY <1>3, <2>1 DEF PutLast, world
  <2> QED BY <2>2, <2>3, QuietStep
<1> QED BY <1>5, <1>6

LEMMA StepProxySaves ==
  ASSUME SyncInv, ProxySaves  PROVE SyncInv'
<1>1. Ledger /\ Desk /\ Counted /\ running \in Task
  BY DEF SyncInv, Ledger, WorldTypes, ProxySaves
<1>2. /\ receipts' = receipts /\ remote' = remote /\ running' = running /\ account' = account
      /\ uploads' = uploads /\ deleted' = deleted /\ edits' = edits /\ syncs' = syncs
      /\ UNCHANGED device
  BY DEF ProxySaves, device, card
<1>3. running.drive \in Drives /\ running.file \in Files
  BY <1>1 DEF Task
<1> DEFINE d == running.drive
           f == running.file
           s == IF sidecars[d][f] = "none" THEN "text" ELSE "both"
<1>4. sidecars' = [sidecars EXCEPT ![d][f] = s]
  BY DEF ProxySaves
<1>5. s \in {"none", "text", "both"} /\ (sidecars[d][f] = "both" => s = "both")
  OBVIOUS
<1> HIDE DEF d, f, s
<1>6. d \in Drives /\ f \in Files
  BY <1>3 DEF d, f
<1>7. sidecars \in [Drives -> [Files -> {"none", "text", "both"}]]
  BY <1>1 DEF Ledger, WorldTypes
<1>8. /\ sidecars' \in [Drives -> [Files -> {"none", "text", "both"}]]
      /\ \A c \in Drives, g \in Files : sidecars[c][g] = "both" => sidecars'[c][g] = "both"
  BY <1>4, <1>5, <1>6, <1>7
<1>9. WorldTypes' /\ DriveTrue'
  BY <1>1, <1>2, <1>8 DEF Ledger, WorldTypes, DriveTrue
<1>10. ReceiptHonest' /\ Onward
  BY <1>1, <1>2, <1>8, ReceiptsStay, DeskStays
<1>11. Counted'
  BY <1>1, <1>2, <1>10, CountedKept DEF Onward
<1> QED BY <1>9, <1>10, <1>11 DEF SyncInv, Ledger, Onward

\* Nothing the receipts are about changes.
LEMMA AroundStep ==
  ASSUME SyncInv, UNCHANGED <<device, remote, sidecars, uploads, deleted, edits>>,
         running' \in Task \cup {None}, account' \in Drives
  PROVE  SyncInv'
<1>1. /\ Ledger /\ Desk /\ Counted /\ receipts' = receipts /\ syncs' = syncs
      /\ remote' = remote /\ sidecars' = sidecars /\ uploads' = uploads
      /\ deleted' = deleted /\ edits' = edits
  BY DEF SyncInv, device, card
<1>2. WorldTypes' /\ DriveTrue'
  BY <1>1 DEF Ledger, WorldTypes, DriveTrue
<1>3. ReceiptHonest' /\ Onward
  BY <1>1, ReceiptsStay, DeskStays
<1>4. Counted'
  BY <1>1, <1>3, CountedKept DEF Onward
<1> QED BY <1>2, <1>3, <1>4 DEF SyncInv, Ledger, Onward

LEMMA StepUserDeletes ==
  ASSUME SyncInv, NEW d \in Drives, NEW f \in Files, UserDeletes(d, f)  PROVE SyncInv'
<1>1. Ledger /\ Desk /\ Counted /\ WorldTypes /\ remote[d][f] # None /\ edits < MaxEdits
  BY DEF SyncInv, UserDeletes, Ledger
<1>2. /\ receipts' = receipts /\ sidecars' = sidecars /\ running' = running /\ account' = account
      /\ uploads' = uploads /\ syncs' = syncs /\ edits' = edits + 1 /\ UNCHANGED device
      /\ remote' = [remote EXCEPT ![d][f] = None]
      /\ deleted' = deleted \cup {<<d, f, remote[d][f].id>>}
  BY DEF UserDeletes, device, card
<1>3. remote[d][f] \in Item /\ remote[d][f].id \in 1..MaxItem
  BY <1>1 DEF WorldTypes, Item
<1>4. /\ remote' \in [Drives -> [Files -> Item \cup {None}]]
      /\ remote'[d][f] = None
      /\ \A c \in Drives, g \in Files : (c # d \/ g # f) => remote'[c][g] = remote[c][g]
  BY <1>1, <1>2 DEF WorldTypes
<1>5. edits' \in 0..MaxEdits /\ syncs + edits \in Nat /\ syncs' + edits' = syncs + edits + 1
  BY <1>1, <1>2, Bounds, Sizes
<1>6. WorldTypes'
  BY <1>1, <1>2, <1>3, <1>4, <1>5 DEF WorldTypes
<1>7. DriveTrue'
  <2> SUFFICES ASSUME NEW c \in Drives, NEW g \in Files
               PROVE  /\ remote'[c][g] \in Item /\ remote'[c][g].same
                           => <<c, g, remote'[c][g].id>> \in uploads'
                      /\ \A j \in 1..MaxItem : <<c, g, j>> \in uploads' =>
                           \/ remote'[c][g] \in Item /\ remote'[c][g].id = j
                           \/ <<c, g, j>> \in deleted'
    BY DEF DriveTrue
  <2>1. /\ remote[c][g] \in Item /\ remote[c][g].same => <<c, g, remote[c][g].id>> \in uploads
        /\ \A j \in 1..MaxItem : <<c, g, j>> \in uploads =>
             (remote[c][g] \in Item /\ remote[c][g].id = j) \/ <<c, g, j>> \in deleted
    BY <1>1 DEF Ledger, DriveTrue
  <2>2. CASE c = d /\ g = f
    BY <1>2, <1>4, <2>1, <2>2, NoneIsNone
  <2>3. CASE c # d \/ g # f
    BY <1>2, <1>4, <2>1, <2>3
  <2> QED BY <2>2, <2>3
<1>8. ReceiptHonest' /\ Onward
  BY <1>1, <1>2, ReceiptsStay, DeskStays
<1>9. Counted'
  <2>1. \A c \in Drives, g \in Files : Ids(c, g)' = Ids(c, g)
    BY <1>1, <1>2, NumbersDeleted
  <2>2. ASSUME NEW c \in Drives, NEW g \in Files
        PROVE  \E m \in Nat : /\ Ids(c, g)' = 1..m /\ m <= syncs' + edits'
                              /\ Unspent(g)' => m < syncs' + edits'
    <3>1. PICK m \in Nat : Ids(c, g) = 1..m /\ m <= syncs + edits
      BY <1>1 DEF Counted
    <3>2. Ids(c, g)' = 1..m
      BY <2>1, <3>1
    <3>3. m < syncs' + edits' /\ m <= syncs' + edits'
      BY <1>5, <3>1
    <3> QED BY <3>2, <3>3
  <2> QED BY <2>2 DEF Counted
<1> QED BY <1>6, <1>7, <1>8, <1>9 DEF SyncInv, Ledger, Onward

LEMMA StepUserPuts ==
  ASSUME SyncInv, NEW d \in Drives, NEW f \in Files, UserPuts(d, f)  PROVE SyncInv'
<1>1. Ledger /\ Desk /\ Counted /\ WorldTypes /\ remote[d][f] = None /\ edits < MaxEdits
  BY DEF SyncInv, UserPuts, Ledger
<1> DEFINE i == NewId(d, f)
           e == [id |-> i, same |-> FALSE]
<1>2. /\ receipts' = receipts /\ sidecars' = sidecars /\ running' = running /\ account' = account
      /\ uploads' = uploads /\ deleted' = deleted /\ syncs' = syncs /\ edits' = edits + 1
      /\ UNCHANGED device /\ remote' = [remote EXCEPT ![d][f] = e]
  BY DEF UserPuts, device, card
<1>3. PICK k \in Nat : Ids(d, f) = 1..k /\ k <= syncs + edits
                       /\ (Unspent(f) => k < syncs + edits)
  BY <1>1 DEF Counted
<1>4. i = k + 1
  BY <1>3, NextNumber
<1> HIDE DEF i
<1>5. /\ i \in 1..MaxItem /\ edits' \in 0..MaxEdits /\ syncs + edits \in Nat
      /\ syncs' + edits' = syncs + edits + 1
  <2>1. /\ syncs \in Nat /\ edits \in Nat /\ syncs + edits \in Nat
        /\ syncs + edits < MaxItem /\ MaxItem \in Nat /\ MaxEdits \in Nat
    BY <1>1, Bounds, Sizes
  <2>2. k + 1 \in 1..MaxItem
    BY <1>3, <2>1
  <2>3. edits + 1 \in 0..MaxEdits /\ syncs + (edits + 1) = syncs + edits + 1
    BY <1>1, <2>1
  <2> QED BY <1>2, <1>4, <2>1, <2>2, <2>3
<1>6. e \in Item /\ ~e.same
  BY <1>5 DEF Item
<1>7. Numbers(d, f, k + 1)
  BY <1>1, <1>2, <1>4, <1>5, NumbersPut
<1> HIDE DEF e
<1>8. /\ remote' \in [Drives -> [Files -> Item \cup {None}]]
      /\ remote'[d][f] = e
      /\ \A c \in Drives, g \in Files : (c # d \/ g # f) => remote'[c][g] = remote[c][g]
  BY <1>1, <1>2, <1>6 DEF WorldTypes
<1>9. WorldTypes'
  BY <1>1, <1>2, <1>5, <1>8 DEF WorldTypes
<1>10. DriveTrue'
  <2> SUFFICES ASSUME NEW c \in Drives, NEW g \in Files
               PROVE  /\ remote'[c][g] \in Item /\ remote'[c][g].same
                           => <<c, g, remote'[c][g].id>> \in uploads'
                      /\ \A j \in 1..MaxItem : <<c, g, j>> \in uploads' =>
                           \/ remote'[c][g] \in Item /\ remote'[c][g].id = j
                           \/ <<c, g, j>> \in deleted'
    BY DEF DriveTrue
  <2>1. /\ remote[c][g] \in Item /\ remote[c][g].same => <<c, g, remote[c][g].id>> \in uploads
        /\ \A j \in 1..MaxItem : <<c, g, j>> \in uploads =>
             (remote[c][g] \in Item /\ remote[c][g].id = j) \/ <<c, g, j>> \in deleted
    BY <1>1 DEF Ledger, DriveTrue
  <2>2. CASE c = d /\ g = f
    BY <1>1, <1>2, <1>6, <1>8, <2>1, <2>2, NoneIsNone
  <2>3. CASE c # d \/ g # f
    BY <1>2, <1>8, <2>1, <2>3
  <2> QED BY <2>2, <2>3
<1>11. ReceiptHonest' /\ Onward
  BY <1>1, <1>2, ReceiptsStay, DeskStays
<1>12. Counted'
  <2>1. k + 1 <= syncs' + edits' /\ (Unspent(f)' => k + 1 < syncs' + edits')
        /\ syncs + edits <= syncs' + edits' /\ syncs' + edits' \in Nat
    BY <1>3, <1>5, <1>11 DEF Onward
  <2> QED BY <1>1, <1>3, <1>5, <1>7, <1>11, <2>1, CountedMore DEF Onward
<1> QED BY <1>9, <1>10, <1>11, <1>12 DEF SyncInv, Ledger, Onward

-------------------------------------------------------------------------------
\* A Sync begins or is cancelled, power is lost.

LEMMA StepStart ==
  ASSUME SyncInv, Start  PROVE SyncInv'
<1>1. Ledger /\ Desk /\ Counted /\ WorldTypes /\ w.pc = "idle" /\ syncs < MaxSyncs
  BY DEF SyncInv, Start, Ledger
<1>2. /\ receipts' = receipts /\ remote' = remote /\ sidecars' = sidecars
      /\ running' = running /\ account' = account /\ uploads' = uploads
      /\ deleted' = deleted /\ edits' = edits /\ session' = session
      /\ cancelled' = FALSE /\ result' = "none" /\ syncs' = syncs + 1
      /\ w' = [Asleep EXCEPT !.pc = "folder", !.drive = account]
  BY DEF Start, card, world
<1>3. account \in Drives
  BY <1>1 DEF WorldTypes
<1>4. /\ w' \in WorkerType /\ w'.pc = "folder" /\ w'.loop = "drain"
      /\ w'.offset = 0 /\ w'.drive \in Drives
  BY <1>2, <1>3, AsleepFields DEF WorkerType, Places
<1>5. Desk'
  <2>1. WorkerTypes'
    BY <1>1, <1>2, <1>4 DEF Desk, WorkerTypes
  <2>2. Place' /\ Hand' /\ Scanned' /\ RangeExpected'
    BY <1>4 DEF Place, Hand, Scanned, RangeExpected, Handling, Uploading, Processing, Loops
  <2> QED BY <2>1, <2>2 DEF Desk
<1>6. syncs' \in 0..MaxSyncs /\ syncs + edits \in Nat /\ syncs' + edits' = syncs + edits + 1
  BY <1>1, <1>2, Bounds, Sizes
<1>7. WorldTypes' /\ DriveTrue'
  BY <1>1, <1>2, <1>6 DEF Ledger, WorldTypes, DriveTrue
<1>8. ReceiptHonest'
  BY <1>1, <1>2, ReceiptsStay
<1>9. Counted'
  <2> SUFFICES ASSUME NEW d \in Drives, NEW f \in Files
               PROVE  \E k \in Nat : /\ Ids(d, f)' = 1..k /\ k <= syncs' + edits'
                                     /\ Unspent(f)' => k < syncs' + edits'
    BY DEF Counted
  <2>1. PICK k \in Nat : Ids(d, f) = 1..k /\ k <= syncs + edits
    BY <1>1 DEF Counted
  <2>2. Ids(d, f)' = 1..k
    BY <1>2, <2>1 DEF Ids
  <2>3. k < syncs' + edits' /\ k <= syncs' + edits'
    BY <1>6, <2>1
  <2> QED BY <2>2, <2>3
<1> QED BY <1>5, <1>7, <1>8, <1>9 DEF SyncInv, Ledger

LEMMA StepCancel ==
  ASSUME SyncInv, Cancel  PROVE SyncInv'
<1>1. /\ cancelled' = TRUE /\ UNCHANGED <<card, world, session, w, result, syncs>>
      /\ receipts' = receipts
  BY DEF Cancel, card
<1>2. Desk
  BY DEF SyncInv
<1>3. Desk'
  <2>1. WorkerTypes' /\ Place' /\ Scanned' /\ RangeExpected'
    BY <1>1, <1>2 DEF Desk, WorkerTypes, Place, Scanned, RangeExpected, File
  <2>2. Hand'
    BY <1>1, <1>2 DEF Desk, Hand, Honest, File, world
  <2> QED BY <2>1, <2>2 DEF Desk
<1>4. \A f \in Files : Unspent(f)' => Unspent(f)
  BY <1>1 DEF Unspent
<1> QED BY <1>1, <1>3, <1>4, QuietStep DEF Onward

LEMMA StepCrash ==
  ASSUME SyncInv, Crash  PROVE SyncInv'
<1>1. Ledger /\ Desk /\ Counted
  BY DEF SyncInv
<1>2. /\ w' = Asleep /\ session' = None /\ cancelled' = FALSE /\ result' = "none"
      /\ UNCHANGED <<world, syncs>>
  BY DEF Crash
<1>3. Onward
  BY <1>2, DeskAsleep DEF Onward
<1>4. /\ remote' = remote /\ uploads' = uploads /\ deleted' = deleted
      /\ syncs' + edits' = syncs + edits
  BY <1>2 DEF world
<1>5. Counted'
  BY <1>1, <1>3, <1>4, CountedKept DEF Onward
<1>6. Ledger'
  <2>1. CASE w.pc = "save"
    <3>1. PICK r \in Torn : receipts' = [receipts EXCEPT ![File] = r]
      BY <2>1 DEF Crash
    <3>2. r \in {receipts[File], w.job, Unreadable}
      BY TornIs
    <3> QED BY <1>1, <1>2, <2>1, <3>1, <3>2, SaveHand, ReceiptWritten
  <2>2. CASE w.pc # "save"
    <3>1. receipts' = receipts
      BY <2>2 DEF Crash
    <3>2. WorldTypes' /\ DriveTrue'
      BY <1>1, <1>2, <3>1 DEF Ledger, WorldTypes, DriveTrue, world
    <3>3. uploads' = uploads /\ deleted' = deleted /\ sidecars' = sidecars
      BY <1>2 DEF world
    <3> QED BY <1>1, <3>1, <3>2, <3>3, ReceiptsStay DEF Ledger
  <2> QED BY <2>1, <2>2
<1> QED BY <1>3, <1>5, <1>6 DEF SyncInv, Onward

-------------------------------------------------------------------------------
\* The invariant.

LEMMA SyncInit == Init => SyncInv
<1> SUFFICES ASSUME Init PROVE SyncInv
  OBVIOUS
<1>1. /\ w = Asleep /\ w \in WorkerType /\ w.pc = "idle" /\ w.loop = "drain" /\ w.offset = 0
  BY AsleepFields DEF Init
<1>2. WorkerTypes
  BY <1>1 DEF Init, WorkerTypes
<1>3. Place /\ Hand /\ Scanned /\ RangeExpected
  BY <1>1 DEF Place, Hand, Scanned, RangeExpected, Handling, Uploading, Processing, Loops
<1>4. WorldTypes
  BY Sizes DEF Init, WorldTypes
<1>5. DriveTrue /\ ReceiptHonest
  BY NoneIsNone DEF Init, DriveTrue, ReceiptHonest
<1>6. Counted
  <2> SUFFICES ASSUME NEW d \in Drives, NEW f \in Files
               PROVE  \E k \in Nat : /\ Ids(d, f) = 1..k /\ k <= syncs + edits
                                     /\ Unspent(f) => k < syncs + edits
    BY DEF Counted
  <2>1. Ids(d, f) = {}
    BY DEF Init, Ids
  <2>2. Ids(d, f) = 1..0 /\ ~Unspent(f) /\ 0 <= syncs + edits
    BY <1>1, <2>1 DEF Init, Unspent
  <2> QED BY <2>2
<1> QED BY <1>2, <1>3, <1>4, <1>5, <1>6 DEF SyncInv, Desk, Ledger

LEMMA SyncStutters ==
  ASSUME SyncInv, UNCHANGED vars  PROVE SyncInv'
<1>1. UNCHANGED <<device, remote, sidecars, uploads, deleted, edits>>
      /\ running' = running /\ account' = account
  BY DEF vars, device, card
<1> QED BY <1>1, AroundStep DEF SyncInv, Ledger, WorldTypes

LEMMA UploadSteps ==
  ASSUME SyncInv, Upload  PROVE SyncInv'
<1> USE DEF SyncInv
<1>1. CASE Lookup
  BY <1>1, StepLookup, QuietStep DEF Lookup
<1>2. CASE OpenSession
  BY <1>2, StepOpenSession, QuietStep DEF OpenSession, world
<1>3. CASE BeginPut
  BY <1>3, StepBeginPut, QuietStep DEF BeginPut
<1>4. CASE CancelUpload
  BY <1>4, StepCancelUpload, QuietStep DEF CancelUpload
<1>5. CASE PutMore
  BY <1>5, StepPutMore, QuietStep DEF PutMore
<1>6. CASE PutLast
  BY <1>6, StepPutLast
<1>7. CASE PutFails
  BY <1>7, StepPutFails, QuietStep DEF PutFails
<1>8. CASE QuerySession
  BY <1>8, StepQuerySession, QuietStep DEF QuerySession
<1>9. CASE Verify
  BY <1>9, StepVerify, QuietStep DEF Verify
<1> QED BY <1>1, <1>2, <1>3, <1>4, <1>5, <1>6, <1>7, <1>8, <1>9 DEF Upload

LEMMA WorkerSteps ==
  ASSUME SyncInv, Worker  PROVE SyncInv'
<1>0. Ledger /\ Desk /\ WorldTypes
  BY DEF SyncInv, Ledger
<1>1. CASE EnsureFolder
  BY <1>0, <1>1, StepEnsureFolder, QuietStep DEF EnsureFolder
<1>2. CASE LoopEnds
  BY <1>0, <1>2, StepLoopEnds, QuietStep DEF LoopEnds
<1>3. CASE CardFails
  BY <1>0, <1>3, StepCardFails, QuietStep DEF CardFails
<1>4. CASE DrainJob
  BY <1>0, <1>4, StepDrainJob, QuietStep DEF DrainJob
<1>5. CASE ScanFile
  BY <1>0, <1>5, StepScanFile, QuietStep DEF ScanFile
<1>6. CASE Upload
  BY <1>6, UploadSteps
<1>7. CASE SaveDone
  BY <1>7, StepSaveDone
<1>8. CASE SaveFails
  BY <1>8, StepSaveFails
<1>9. CASE Status
  BY <1>0, <1>9, StepStatus, QuietStep DEF Status
<1>10. CASE StartStream
  BY <1>10, StepStartStream
<1>11. CASE StreamEnds
  BY <1>0, <1>11, StepStreamEnds, QuietStep DEF StreamEnds
<1>12. CASE ConfirmMissing
  BY <1>0, <1>12, StepConfirmMissing, QuietStep DEF ConfirmMissing
<1> QED BY <1>1, <1>2, <1>3, <1>4, <1>5, <1>6, <1>7, <1>8, <1>9, <1>10, <1>11, <1>12
        DEF Worker, Process

LEMMA SyncNext ==
  ASSUME SyncInv, [Next]_vars  PROVE SyncInv'
<1>1. CASE Start
  BY <1>1, StepStart
<1>2. CASE Worker
  BY <1>2, WorkerSteps
<1>3. CASE ProxySaves
  BY <1>3, StepProxySaves
<1>4. CASE ProxyEnds
  BY <1>4, AroundStep DEF ProxyEnds, SyncInv, Ledger, WorldTypes
<1>5. CASE Edit
  BY <1>5, StepUserDeletes, StepUserPuts DEF Edit
<1>6. CASE SwitchAccount
  BY <1>6, AroundStep DEF SwitchAccount, SyncInv, Ledger, WorldTypes
<1>7. CASE Cancel
  BY <1>7, StepCancel
<1>8. CASE Crash
  BY <1>8, StepCrash
<1>9. CASE UNCHANGED vars
  BY <1>9, SyncStutters
<1> QED BY <1>1, <1>2, <1>3, <1>4, <1>5, <1>6, <1>7, <1>8, <1>9 DEF Next

THEOREM SyncInvariant == Spec => []SyncInv
<1>1. Init => SyncInv
  BY SyncInit
<1>2. SyncInv /\ [Next]_vars => SyncInv'
  BY SyncNext
<1> QED BY <1>1, <1>2, PTL DEF Spec

-------------------------------------------------------------------------------
\* The state properties.

\* Every state of a Sync has its type: no failure count, offset, try or item number
\* of cloud_sync.c, upload.c and the processing client runs past its bound.
THEOREM SyncTypeCorrect == Spec => []TypeOK
<1>1. SyncInv => TypeOK
  BY TypesAreTypes DEF SyncInv, Ledger, Desk
<1> QED BY <1>1, SyncInvariant, PTL

\* A receipt never says of its drive what is not so: its item came whole from an
\* upload, a missing one was removed by the user, a completed one has its sidecars.
THEOREM ReceiptsTrue == Spec => []ReceiptHonest
<1>1. SyncInv => ReceiptHonest
  BY DEF SyncInv, Ledger
<1> QED BY <1>1, SyncInvariant, PTL

\* upload.c sends a range only from the offset the session expects next.
THEOREM RangesSafe == Spec => []RangeExpected
<1>1. SyncInv => RangeExpected
  BY DEF SyncInv, Desk
<1> QED BY <1>1, SyncInvariant, PTL

-------------------------------------------------------------------------------
\* The action properties.

\* A worker that does not end without a cancellation at the end of its scan reports
\* no success.
Quiet == result' = result \/ result' # "ok"

LEMMA FinishQuiet == Finish("error") => Quiet
BY DEF Finish, Quiet

LEMMA GoQuiet ==
  /\ \A p : Goto(p) => Quiet
  /\ NextFile => Quiet
  /\ \A j : Save(j) => Quiet
  /\ Waiting => Quiet
BY DEF Goto, NextFile, Save, Waiting, Quiet

LEMMA UploadQuiet == Upload => Quiet
<1>1. \A i : Uploaded(i) => Quiet
  BY GoQuiet DEF Uploaded
<1>2. CASE Lookup \/ OpenSession \/ BeginPut \/ CancelUpload \/ Verify
  BY <1>1, <1>2, FinishQuiet, GoQuiet DEF Lookup, OpenSession, BeginPut, CancelUpload, Verify
<1>3. CASE PutMore \/ PutFails \/ QuerySession
  BY <1>3, GoQuiet DEF PutMore, PutFails, QuerySession, Quiet
<1>4. CASE PutLast
  <2>1. Goto("failed") \/ \E i : Uploaded(i)
    BY <1>4 DEF PutLast
  <2> QED BY <1>1, <2>1, GoQuiet
<1> QED BY <1>2, <1>3, <1>4 DEF Upload

LEMMA ProcessQuiet == Process => Quiet
<1>1. \A s : SaveState(s) => Quiet
  BY GoQuiet DEF SaveState
<1>2. MayStart => Quiet
  BY GoQuiet DEF MayStart
<1>3. CASE Status
  BY <1>1, <1>2, <1>3, GoQuiet DEF Status
<1>4. CASE StartStream \/ StreamEnds \/ ConfirmMissing
  BY <1>1, <1>4, GoQuiet DEF StartStream, StreamEnds, ConfirmMissing
<1> QED BY <1>3, <1>4 DEF Process

LEMMA OthersQuiet ==
  ASSUME [Next]_vars, ~LoopEnds
  PROVE  Quiet
<1>1. CASE Start \/ Crash \/ Cancel \/ UNCHANGED vars
  BY <1>1 DEF Start, Crash, Cancel, vars, Quiet
<1>2. CASE ProxySaves \/ ProxyEnds \/ Edit \/ SwitchAccount
  BY <1>2 DEF ProxySaves, ProxyEnds, Edit, UserDeletes, UserPuts, SwitchAccount, device, Quiet
<1>3. \A r : ProcessJob(r) => Quiet
  BY GoQuiet DEF ProcessJob, Quiet
<1>4. CASE EnsureFolder \/ CardFails
  BY <1>4, FinishQuiet, GoQuiet DEF EnsureFolder, CardFails
<1>5. CASE DrainJob \/ ScanFile
  BY <1>3, <1>5, FinishQuiet, GoQuiet DEF DrainJob, ScanFile
<1>6. CASE SaveDone \/ SaveFails
  BY <1>3, <1>6, FinishQuiet, GoQuiet DEF SaveDone, SaveFails
<1> QED BY <1>1, <1>2, <1>4, <1>5, <1>6, UploadQuiet, ProcessQuiet DEF Next, Worker

\* sync_worker reports success only when every recording has a receipt of its drive.
THEOREM SuccessSafe == Spec => SuccessIsComplete
<1> DEFINE A == result' = "ok" /\ result # "ok" =>
                  \A f \in Files : receipts[f] \in Job /\ receipts[f].drive = w.drive
<1>1. SyncInv /\ [Next]_vars => [A]_vars
  <2> SUFFICES ASSUME SyncInv, [Next]_vars, result' = "ok", result # "ok", NEW f \in Files
               PROVE  receipts[f] \in Job /\ receipts[f].drive = w.drive
    OBVIOUS
  <2>1. LoopEnds
    BY OthersQuiet DEF Quiet
  <2>2. ~cancelled /\ w.loop = "scan"
    BY <2>1 DEF LoopEnds, Finish
  <2>3. File > N /\ w.pc # "idle"
    BY <2>1, <2>2 DEF LoopEnds, Loops
  <2>4. f < w.index
    BY <2>3, Sizes DEF File, Files, SyncInv, Desk, WorkerTypes, WorkerType
  <2> QED BY <2>2, <2>3, <2>4 DEF SyncInv, Desk, Scanned
<1> HIDE DEF A
<1>2. Spec => [][A]_vars
  BY <1>1, SyncInvariant, PTL DEF Spec
<1> QED BY <1>2 DEF A, SuccessIsComplete

-------------------------------------------------------------------------------
\* Who may change a receipt, an upload or an item.

LEMMA ReceiptsChange ==
  ASSUME [Next]_vars, receipts' # receipts
  PROVE  w.pc = "save" /\ \E r : receipts' = [receipts EXCEPT ![File] = r]
<1>1. CASE Start \/ Cancel \/ UNCHANGED vars
  BY <1>1 DEF Start, Cancel, vars, card
<1>2. CASE ProxySaves \/ ProxyEnds \/ Edit \/ SwitchAccount
  BY <1>2 DEF ProxySaves, ProxyEnds, Edit, UserDeletes, UserPuts, SwitchAccount, device, card
<1>3. CASE EnsureFolder \/ CardFails \/ LoopEnds \/ DrainJob \/ ScanFile
  BY <1>3 DEF EnsureFolder, CardFails, LoopEnds, DrainJob, ScanFile, card
<1>4. CASE Upload
  BY <1>4 DEF Upload, Lookup, OpenSession, BeginPut, CancelUpload, PutMore, PutLast, PutFails,
              QuerySession, Verify, card
<1>5. CASE Process
  BY <1>5 DEF Process, Status, StartStream, StreamEnds, ConfirmMissing, card
<1>6. CASE SaveDone
  BY <1>6 DEF SaveDone
<1>7. CASE SaveFails
  BY <1>7 DEF SaveFails
<1>8. CASE Crash
  BY <1>8 DEF Crash
<1> QED BY <1>1, <1>2, <1>3, <1>4, <1>5, <1>6, <1>7, <1>8 DEF Next, Worker

LEMMA UploadsChange ==
  ASSUME [Next]_vars, uploads' # uploads
  PROVE  PutLast /\ Here = None
<1>1. CASE Start \/ Crash \/ Cancel \/ UNCHANGED vars
  BY <1>1 DEF Start, Crash, Cancel, vars, world
<1>2. CASE ProxySaves \/ ProxyEnds \/ Edit \/ SwitchAccount
  BY <1>2 DEF ProxySaves, ProxyEnds, Edit, UserDeletes, UserPuts, SwitchAccount
<1>3. CASE EnsureFolder \/ CardFails \/ LoopEnds \/ DrainJob \/ ScanFile \/ SaveDone \/ SaveFails
  BY <1>3 DEF EnsureFolder, CardFails, LoopEnds, DrainJob, ScanFile, SaveDone, SaveFails, world
<1>4. CASE Upload
  BY <1>4 DEF Upload, Lookup, OpenSession, BeginPut, CancelUpload, PutMore, PutLast, PutFails,
              QuerySession, Verify, world
<1>5. CASE Process
  BY <1>5 DEF Process, Status, StartStream, StreamEnds, ConfirmMissing, world
<1> QED BY <1>1, <1>2, <1>3, <1>4, <1>5 DEF Next, Worker

LEMMA RemoteChanges ==
  ASSUME [Next]_vars, remote' # remote
  PROVE  (PutLast /\ Here = None) \/ Edit
<1>1. CASE Start \/ Crash \/ Cancel \/ UNCHANGED vars
  BY <1>1 DEF Start, Crash, Cancel, vars, world
<1>2. CASE ProxySaves \/ ProxyEnds \/ SwitchAccount
  BY <1>2 DEF ProxySaves, ProxyEnds, SwitchAccount
<1>3. CASE EnsureFolder \/ CardFails \/ LoopEnds \/ DrainJob \/ ScanFile \/ SaveDone \/ SaveFails
  BY <1>3 DEF EnsureFolder, CardFails, LoopEnds, DrainJob, ScanFile, SaveDone, SaveFails, world
<1>4. CASE Upload
  BY <1>4 DEF Upload, Lookup, OpenSession, BeginPut, CancelUpload, PutMore, PutLast, PutFails,
              QuerySession, Verify, world
<1>5. CASE Process
  BY <1>5 DEF Process, Status, StartStream, StreamEnds, ConfirmMissing, world
<1> QED BY <1>1, <1>2, <1>3, <1>4, <1>5 DEF Next, Worker

\* A recording that has a receipt is never uploaded again, and a settled receipt is
\* final: sync_one and the drain ask the receipt before anything else.
THEOREM UploadsSafe == Spec => UploadedOnce
<1> DEFINE A == \A f \in Files : receipts[f] \in Job =>
                  /\ {u \in uploads' : u[2] = f} = {u \in uploads : u[2] = f}
                  /\ ~Pending(receipts[f]) => receipts'[f] = receipts[f]
<1>1. SyncInv /\ [Next]_vars => [A]_vars
  <2> SUFFICES ASSUME SyncInv, [Next]_vars, NEW f \in Files, receipts[f] \in Job
               PROVE  /\ {u \in uploads' : u[2] = f} = {u \in uploads : u[2] = f}
                      /\ ~Pending(receipts[f]) => receipts'[f] = receipts[f]
    OBVIOUS
  <2>1. Desk /\ receipts \in [Files -> Job \cup {None, Unreadable}] /\ None \notin Job
    BY NoneIsNone DEF SyncInv, Ledger, WorldTypes
  <2>2. {u \in uploads' : u[2] = f} = {u \in uploads : u[2] = f}
    <3>1. CASE uploads' = uploads
      BY <3>1
    <3>2. CASE uploads' # uploads
      <4>1. PutLast /\ Here = None
        BY <3>2, UploadsChange
      <4>2. w.pc \in Uploading
        BY <4>1 DEF PutLast, Uploading
      <4>3. receipts[File] = None
        BY <2>1, <4>2, UploadHand
      <4>4. f # File
        BY <2>1, <4>3
      <4>5. PICK i : uploads' = uploads \cup {<<w.drive, File, i>>}
        BY <4>1 DEF PutLast
      <4> QED BY <4>4, <4>5
    <3> QED BY <3>1, <3>2
  <2>3. ASSUME ~Pending(receipts[f]) PROVE receipts'[f] = receipts[f]
    <3>1. CASE receipts' = receipts
      BY <3>1
    <3>2. CASE receipts' # receipts
      <4>1. w.pc = "save" /\ \E r : receipts' = [receipts EXCEPT ![File] = r]
        BY <3>2, ReceiptsChange
      <4>2. receipts[File] # None => Pending(receipts[File])
        BY <2>1, <4>1, SaveHand
      <4>3. f # File
        BY <2>1, <2>3, <4>2
      <4> QED BY <2>1, <4>1, <4>3
    <3> QED BY <3>1, <3>2
  <2> QED BY <2>2, <2>3
<1> HIDE DEF A
<1>2. Spec => [][A]_vars
  BY <1>1, SyncInvariant, PTL DEF Spec
<1> QED BY <1>2, PTL DEF A, UploadedOnce

\* What is in the drive is never replaced by an upload: only the user removes it.
THEOREM DriveSafe == Spec => NeverOverwritten
<1> DEFINE A == \A d \in Drives, f \in Files :
                  remote[d][f] # None /\ remote'[d][f] # remote[d][f]
                    => <<d, f, remote[d][f].id>> \in deleted'
<1>1. SyncInv /\ [Next]_vars => [A]_vars
  <2> SUFFICES ASSUME SyncInv, [Next]_vars, NEW d \in Drives, NEW f \in Files,
                      remote[d][f] # None, remote'[d][f] # remote[d][f]
               PROVE  <<d, f, remote[d][f].id>> \in deleted'
    OBVIOUS
  <2>1. Desk /\ WorldTypes
    BY DEF SyncInv, Ledger
  <2>2. (PutLast /\ Here = None) \/ Edit
    BY RemoteChanges
  <2>3. ASSUME PutLast, Here = None PROVE FALSE
    <3>1. PICK e : remote' = [remote EXCEPT ![w.drive][File] = e]
      BY <2>3 DEF PutLast
    <3>2. remote[w.drive][File] = None
      BY <2>3 DEF Here
    <3> QED BY <2>1, <3>1, <3>2 DEF WorldTypes
  <2>4. PICK c \in Drives, g \in Files : UserDeletes(c, g) \/ UserPuts(c, g)
    BY <2>2, <2>3 DEF Edit
  <2>5. CASE UserDeletes(c, g)
    <3>1. c = d /\ g = f
      BY <2>1, <2>5 DEF UserDeletes, WorldTypes
    <3> QED BY <2>5, <3>1 DEF UserDeletes
  <2>6. CASE UserPuts(c, g)
    <3>1. c = d /\ g = f
      BY <2>1, <2>6 DEF UserPuts, WorldTypes
    <3> QED BY <2>6, <3>1 DEF UserPuts
  <2> QED BY <2>4, <2>5, <2>6
<1> HIDE DEF A
<1>2. Spec => [][A]_vars
  BY <1>1, SyncInvariant, PTL DEF Spec
<1> QED BY <1>2 DEF A, NeverOverwritten

===============================================================================
