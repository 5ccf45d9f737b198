--------------------------- MODULE ProcessingOutbox ---------------------------
(***************************************************************************)
(* One .job file of cloud_sync/processing_outbox.c: two slots that each    *)
(* carry a generation and a job, of which the newer one that decodes is    *)
(* the receipt.  save writes the other slot.                               *)
(***************************************************************************)
EXTENDS Integers

CONSTANTS
  Drives,      \* OneDrive drives that may own a job
  Contents,    \* what else a job holds: item, hash, state, sidecars
  Half,        \* half the range of a generation (2^31)
  MaxCrashes,  \* bound on power losses
  Faults       \* the I/O errors that may happen: "write", "sync"

ASSUME OutboxAssumption ==
  /\ Half \in Nat \ {0, 1}
  /\ MaxCrashes \in Nat
  /\ Faults \subseteq {"write", "sync"}

Job == Drives \X Contents
Drive(j) == j[1]
Generation == 0..(2 * Half - 1)

None == <<>>
Unreadable == <<"unreadable">>

\* A slot decodes, or its magic, checksum or job is wrong.
Good == [ok : {TRUE}, gen : Generation, job : Job]
Invalid == [ok |-> FALSE, gen |-> 0, job |-> None]
Slot == Good \cup {Invalid}

VARIABLES
  exists,  \* the .job file is there
  slots,   \* its two slots
  pc,      \* where save is
  target,  \* the slot save writes
  old,     \* what that slot held before
  job,     \* the job being saved
  outcome, \* of the last save
  crashes

vars == <<exists, slots, pc, target, old, job, outcome, crashes>>

TypeOK ==
  /\ exists \in BOOLEAN
  /\ slots \in [0..1 -> Slot]
  /\ pc \in {"idle", "write", "sync"}
  /\ target \in 0..1
  /\ old \in Slot
  /\ job \in Job \cup {None}
  /\ outcome \in {"none", "done", "undone"}
  /\ crashes \in 0..MaxCrashes

\* Mutant: the comparison is unsigned.
NewerUnsigned(a, b) == a > b

\* (int32_t)(a - b) > 0
Newer(a, b) == a - b \in 1..(Half - 1) \/ a - b + 2 * Half \in 1..(Half - 1)
Successor(g) == IF g = 2 * Half - 1 THEN 0 ELSE g + 1

\* read_latest: slot 1 only wins when it is newer.
Latest(s) ==
  IF s[1].ok /\ (s[0].ok => Newer(s[1].gen, s[0].gen)) THEN 1 ELSE 0
Readable(s) == s[0].ok \/ s[1].ok

Value(s) == IF Readable(s) THEN s[Latest(s)].job ELSE Unreadable

\* processing_outbox_load
Loaded(s) == IF exists THEN Value(s) ELSE None

-------------------------------------------------------------------------------

\* The first save of a recording creates its file ...
SaveFirst(j) ==
  /\ pc = "idle" /\ ~exists
  /\ exists' = TRUE
  /\ slots' = [i \in 0..1 |-> Invalid]
  /\ target' = 0 /\ old' = Invalid
  /\ job' = j /\ outcome' = "none" /\ pc' = "write"
  /\ UNCHANGED crashes

\* Mutant: the drive is not compared.
SaveNextAnyDrive(j) ==
  /\ pc = "idle" /\ exists
  /\ Readable(slots)
  /\ target' = 1 - Latest(slots)
  /\ old' = slots[1 - Latest(slots)]
  /\ job' = j /\ outcome' = "none" /\ pc' = "write"
  /\ UNCHANGED <<exists, slots, crashes>>

\* ... a later one finds the receipt readable and bound to the same drive.
SaveNext(j) ==
  /\ pc = "idle" /\ exists
  /\ Readable(slots)
  /\ Drive(slots[Latest(slots)].job) = Drive(j)
  /\ target' = 1 - Latest(slots)
  /\ old' = slots[1 - Latest(slots)]
  /\ job' = j /\ outcome' = "none" /\ pc' = "write"
  /\ UNCHANGED <<exists, slots, crashes>>

\* The generation save writes: one more than that of the receipt.
NextGen ==
  LET other == slots[1 - target] IN IF other.ok THEN Successor(other.gen) ELSE 1

New == [ok |-> TRUE, gen |-> NextGen, job |-> job]

\* fwrite and fflush reach the file; the card only has it after fsync.
Write ==
  /\ pc = "write"
  /\ slots' = [slots EXCEPT ![target] = New]
  /\ pc' = "sync"
  /\ UNCHANGED <<exists, target, old, job, outcome, crashes>>

Stopped == pc' = "idle" /\ target' = 0 /\ old' = Invalid /\ job' = None
Undone == Stopped /\ outcome' = "undone"

\* A slot whose write did not complete.
Torn == {old, Invalid, New}

WriteFails ==
  /\ pc = "write" /\ "write" \in Faults
  /\ \E v \in Torn : slots' = [slots EXCEPT ![target] = v]
  /\ Undone
  /\ UNCHANGED <<exists, crashes>>

Sync ==
  /\ pc = "sync"
  /\ Stopped /\ outcome' = "done"
  /\ UNCHANGED <<exists, slots, crashes>>

SyncFails ==
  /\ pc = "sync" /\ "sync" \in Faults
  /\ \E v \in Torn : slots' = [slots EXCEPT ![target] = v]
  /\ Undone
  /\ UNCHANGED <<exists, crashes>>

\* Power is lost: the file exists since its creation, the slot being written
\* is the old one, the new one or damaged.
Crash ==
  /\ crashes < MaxCrashes
  /\ crashes' = crashes + 1
  /\ IF pc = "sync"
     THEN \E v \in Torn : slots' = [slots EXCEPT ![target] = v]
     ELSE UNCHANGED slots
  /\ Stopped
  /\ outcome' = IF pc = "idle" THEN outcome ELSE "undone"
  /\ UNCHANGED exists

Init ==
  /\ exists = FALSE
  /\ slots = [i \in 0..1 |-> Invalid]
  /\ pc = "idle" /\ target = 0 /\ old = Invalid /\ job = None
  /\ outcome = "none" /\ crashes = 0

Save == \E j \in Job : SaveFirst(j) \/ SaveNext(j)
Next == Save \/ Write \/ WriteFails \/ Sync \/ SyncFails \/ Crash

Spec == Init /\ [][Next]_vars

-------------------------------------------------------------------------------
(***************************************************************************)
(* Properties.                                                             *)
(***************************************************************************)

\* The receipt as a load would find it, without the save that is under way.
Before == IF pc = "sync" THEN [slots EXCEPT ![target] = old] ELSE slots
Receipt ==
  IF pc # "idle" /\ ~Readable(Before) THEN None ELSE Loaded(Before)

\* A receipt never moves to another drive: a recording that one account has
\* uploaded is never submitted for another.
KeepDrive ==
  Receipt \in Job => /\ Receipt' \in Job
                     /\ Drive(Receipt') = Drive(Receipt)
DriveKept == [][KeepDrive]_vars

\* The inductive invariant: the slots are one generation apart, the one save
\* leaves alone is the newer, and it belongs to the drive of the job.
OneApart(s) ==
  s[0].ok /\ s[1].ok => \/ s[1].gen = Successor(s[0].gen)
                         \/ s[0].gen = Successor(s[1].gen)
OneDrive(s) == s[0].ok /\ s[1].ok => Drive(s[0].job) = Drive(s[1].job)
SlotsOK ==
  /\ OneApart(Before) /\ OneDrive(Before)
  /\ ~exists => pc = "idle" /\ ~Readable(slots)
  /\ pc = "idle" => job = None
  /\ pc \in {"write", "sync"} =>
       /\ job \in Job
       /\ old = Before[target]
       /\ Readable(Before) => /\ target = 1 - Latest(Before)
                              /\ Drive(Before[1 - target].job) = Drive(job)
  /\ pc = "sync" => slots[target] = New

\* The two-slot file implements JobReceipt.
Abstract == INSTANCE JobReceipt WITH
  receipt <- Receipt, saving <- job
ReceiptSpec == Abstract!Spec
===============================================================================
