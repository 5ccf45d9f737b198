------------------------ MODULE ProcessingOutboxProofs ------------------------
(***************************************************************************)
(* The two-slot receipt file implements JobReceipt, for every range of the *)
(* generation, any drives and contents, and all the I/O errors.            *)
(***************************************************************************)
EXTENDS ProcessingOutbox, TLAPS

\* The generation of a save wins over that of the receipt, also where it wraps.
LEMMA SuccessorNewer ==
  ASSUME NEW g \in Generation
  PROVE  /\ Successor(g) \in Generation
         /\ Newer(Successor(g), g)
         /\ ~Newer(g, Successor(g))
BY OutboxAssumption DEF Successor, Newer, Generation

LEMMA GoodSlot == ASSUME NEW x \in Slot, x.ok PROVE x \in Good
BY DEF Slot, Invalid

LEMMA LatestType == ASSUME NEW s PROVE Latest(s) \in 0..1
BY DEF Latest

\* The slot just written is the receipt.
LEMMA WrittenWins ==
  ASSUME NEW s \in [0..1 -> Slot], NEW t \in 0..1, s[t].ok,
         s[1 - t].ok => s[t].gen = Successor(s[1 - t].gen)
  PROVE  Readable(s) /\ Latest(s) = t
<1>1. ASSUME NEW i \in 0..1, s[i].ok PROVE s[i].gen \in Generation
  <2>1. s[i] \in Slot
    BY <1>1
  <2>2. s[i] \in Good
    BY <1>1, <2>1, GoodSlot, Zenon
  <2> QED BY <2>2 DEF Good
<1>2. CASE t = 0
  <2>1. s[0].ok /\ (s[1].ok => s[0].gen = Successor(s[1].gen))
    BY <1>2
  <2>2. s[1].ok => ~Newer(s[1].gen, s[0].gen)
    BY <1>1, <2>1, SuccessorNewer
  <2> QED BY <1>2, <2>1, <2>2 DEF Readable, Latest
<1>3. CASE t = 1
  BY <1>1, <1>3, SuccessorNewer DEF Readable, Latest
<1> QED BY <1>2, <1>3

\* What remains of the receipt when the other slot is lost.
LEMMA OtherRemains ==
  ASSUME NEW s \in [0..1 -> Slot], Readable(s)
  PROVE  /\ s[Latest(s)].ok
         /\ LET r == [s EXCEPT ![1 - Latest(s)] = Invalid]
            IN Readable(r) /\ Latest(r) = Latest(s) /\ r[Latest(r)] = s[Latest(s)]
<1>1. CASE Latest(s) = 0
  BY <1>1 DEF Readable, Latest, Invalid
<1>2. CASE Latest(s) = 1
  BY <1>2 DEF Readable, Latest, Invalid
<1> QED BY <1>1, <1>2, LatestType

Inv == TypeOK /\ SlotsOK

LEMMA BeforeType ==
  ASSUME Inv
  PROVE  /\ Before \in [0..1 -> Slot]
         /\ pc # "sync" => Before = slots
         /\ Before[1 - target] = slots[1 - target]
         /\ pc # "idle" => Before[target] = old
         /\ \A v : [slots EXCEPT ![target] = v] = [Before EXCEPT ![target] = v]
BY DEF Inv, TypeOK, SlotsOK, Before

LEMMA NewType ==
  ASSUME Inv, pc # "idle"
  PROVE  /\ New \in Good
         /\ Before[1 - target].ok => New.gen = Successor(Before[1 - target].gen)
<1>1. slots[1 - target] \in Slot /\ job \in Job
  BY DEF Inv, TypeOK, SlotsOK
<1>2. NextGen \in Generation
  <2>1. CASE slots[1 - target].ok
    <3>1. slots[1 - target].gen \in Generation
      BY <1>1, <2>1, GoodSlot DEF Good
    <3> QED BY <2>1, <3>1, SuccessorNewer DEF NextGen
  <2>2. CASE ~slots[1 - target].ok
    BY <2>2, OutboxAssumption DEF NextGen, Generation
  <2> QED BY <2>1, <2>2
<1>3. New \in Good
  BY <1>1, <1>2 DEF New, Good
<1>4. Before[1 - target].ok => New.gen = Successor(Before[1 - target].gen)
  BY BeforeType DEF New, NextGen
<1> QED BY <1>3, <1>4

\* The save settles: whatever its slot holds then, the receipt is the old one,
\* the new one or, when there was none, unreadable.
LEMMA Settle ==
  ASSUME Inv, pc # "idle", NEW v \in Torn,
         slots' = [Before EXCEPT ![target] = v], UNCHANGED exists, Stopped
  PROVE  /\ exists /\ slots' \in [0..1 -> Slot] /\ SlotsOK'
         /\ Receipt' \in {Receipt, job} \cup
                         (IF Receipt = None THEN {Unreadable} ELSE {})
         /\ v = New => Receipt' = job
         /\ KeepDrive
<1> DEFINE s == Before
           r == [Before EXCEPT ![target] = v]
<1>1. /\ s \in [0..1 -> Slot] /\ target \in 0..1 /\ old \in Slot
      /\ old = s[target] /\ exists /\ job \in Job
  BY BeforeType DEF Inv, TypeOK, SlotsOK
<1>2. v \in Slot
  BY <1>1, NewType DEF Torn, Slot
<1>3. r \in [0..1 -> Slot] /\ r[target] = v /\ r[1 - target] = s[1 - target]
  BY <1>1, <1>2
<1>4. slots' = r /\ pc' = "idle" /\ job' = None /\ exists' = exists
  BY DEF Stopped
<1>5. Before' = r
  BY <1>4 DEF Before
<1>6. Receipt' = Value(r)
  BY <1>1, <1>4, <1>5 DEF Receipt, Loaded
<1>7. Readable(s) => /\ target = 1 - Latest(s) /\ Latest(s) = 1 - target
                     /\ s[1 - target].ok
                     /\ Drive(s[1 - target].job) = Drive(job)
  <2> SUFFICES ASSUME Readable(s)
               PROVE  /\ target = 1 - Latest(s) /\ Latest(s) = 1 - target
                      /\ s[1 - target].ok
                      /\ Drive(s[1 - target].job) = Drive(job)
    OBVIOUS
  <2>1. target = 1 - Latest(s) /\ Drive(s[1 - target].job) = Drive(job)
    BY DEF Inv, TypeOK, SlotsOK
  <2>2. Latest(s) = 1 - target
    BY <2>1, LatestType
  <2>3. s[Latest(s)].ok
    BY <1>1, OtherRemains
  <2> QED BY <2>1, <2>2, <2>3
<1>8. Receipt = IF Readable(s) THEN s[1 - target].job ELSE None
  BY <1>1, <1>7 DEF Receipt, Loaded, Value
<1>9. OneApart(s) /\ OneDrive(s)
  BY DEF Inv, SlotsOK
<1>10. CASE v = old /\ v # New
  <2>1. r = s
    BY <1>1, <1>3, <1>10
  <2>2. OneApart(r) /\ OneDrive(r)
    BY <2>1, <1>9
  <2>3. SlotsOK'
    BY <1>1, <1>4, <1>5, <2>2 DEF SlotsOK
  <2>4. Receipt' = Value(s)
    BY <2>1, <1>6
  <2>5. CASE Readable(s)
    <3>1. Receipt' = Receipt
      BY <2>4, <2>5, <1>7, <1>8 DEF Value
    <3> QED BY <1>1, <1>3, <1>4, <1>10, <2>3, <3>1 DEF KeepDrive
  <2>6. CASE ~Readable(s)
    <3>1. Receipt' = Unreadable /\ Receipt = None
      BY <2>4, <2>6, <1>8 DEF Value
    <3>2. None \notin Job
      BY DEF None, Job
    <3> QED BY <1>1, <1>3, <1>4, <1>10, <2>3, <3>1, <3>2 DEF KeepDrive
  <2> QED BY <2>5, <2>6
<1>11. CASE v = New
  <2>1. New \in Good /\ New.ok /\ New.job = job
    BY NewType DEF New
  <2>2. Readable(r) /\ Latest(r) = target
    <3>1. r[1 - target].ok => r[target].gen = Successor(r[1 - target].gen)
      BY <1>3, <1>11, NewType
    <3>2. r[target].ok
      BY <1>3, <1>11, <2>1
    <3> QED BY <1>1, <1>3, <3>1, <3>2, WrittenWins
  <2>3. Receipt' = job
    BY <1>3, <1>6, <1>11, <2>1, <2>2 DEF Value
  <2>4. OneApart(r)
    <3>1. CASE target = 0
      BY <1>3, <1>11, <3>1, NewType DEF OneApart
    <3>2. CASE target = 1
      BY <1>3, <1>11, <3>2, NewType DEF OneApart
    <3> QED BY <1>1, <3>1, <3>2
  <2>5. r[1 - target].ok => Drive(r[1 - target].job) = Drive(r[target].job)
    BY <1>1, <1>3, <1>7, <1>11, <2>1 DEF Readable
  <2>6. OneDrive(r)
    <3>1. CASE target = 0
      BY <2>5, <3>1 DEF OneDrive
    <3>2. CASE target = 1
      BY <2>5, <3>2 DEF OneDrive
    <3> QED BY <1>1, <3>1, <3>2
  <2>7. SlotsOK'
    BY <1>1, <1>4, <1>5, <2>4, <2>6 DEF SlotsOK
  <2>8. KeepDrive
    <3>1. None \notin Job
      BY DEF None, Job
    <3> QED BY <1>1, <1>7, <1>8, <2>3, <3>1 DEF KeepDrive
  <2> QED BY <1>1, <1>3, <1>4, <2>3, <2>7, <2>8
<1>12. CASE v = Invalid /\ v # New
  <2>1. OneApart(r) /\ OneDrive(r)
    <3>1. ~r[target].ok
      BY <1>3, <1>12 DEF Invalid
    <3> QED BY <1>1, <3>1 DEF OneApart, OneDrive
  <2>2. SlotsOK'
    BY <1>1, <1>4, <1>5, <2>1 DEF SlotsOK
  <2>3. CASE Readable(s)
    <3>1. r = [s EXCEPT ![1 - Latest(s)] = Invalid]
      BY <1>7, <1>12, <2>3
    <3>2. Readable(r) /\ Latest(r) = Latest(s) /\ r[Latest(r)] = s[Latest(s)]
      BY <1>1, <2>3, <3>1, OtherRemains
    <3>3. Receipt' = Receipt
      BY <1>6, <1>7, <1>8, <2>3, <3>2 DEF Value
    <3> QED BY <1>1, <1>3, <1>4, <1>12, <2>2, <3>3 DEF KeepDrive
  <2>4. CASE ~Readable(s)
    <3>1. ~Readable(r)
      BY <1>1, <1>12, <2>4 DEF Readable, Invalid
    <3>2. Receipt' = Unreadable /\ Receipt = None
      BY <1>6, <1>8, <2>4, <3>1 DEF Value
    <3>3. None \notin Job
      BY DEF None, Job
    <3> QED BY <1>1, <1>3, <1>4, <1>12, <2>2, <3>2, <3>3 DEF KeepDrive
  <2> QED BY <2>3, <2>4
<1> QED BY <1>10, <1>11, <1>12 DEF Torn

Absvars == <<Receipt, job, outcome>>

\* Settling keeps the invariant, and reported as undone it is a step of
\* JobReceipt.
LEMMA SettleStep ==
  ASSUME Inv, pc # "idle", NEW v \in Torn,
         slots' = [Before EXCEPT ![target] = v], UNCHANGED exists, Stopped,
         crashes' \in 0..MaxCrashes, outcome' \in {"done", "undone"}
  PROVE  Inv' /\ KeepDrive /\ (outcome' = "undone" => Abstract!Undone)
<1>1. job \in Job /\ job' = None
  BY DEF Inv, SlotsOK, TypeOK, Stopped
<1>2. TypeOK'
  <2>1. exists' \in BOOLEAN /\ slots' \in [0..1 -> Slot]
    BY Settle DEF Inv, TypeOK
  <2>2. pc' = "idle" /\ target' \in 0..1 /\ old' \in Slot /\ job' = None
    BY DEF Stopped, Slot
  <2> QED BY <2>1, <2>2 DEF TypeOK
<1>3. Inv' /\ KeepDrive
  BY <1>2, Settle DEF Inv
<1>4. outcome' = "undone" => Abstract!Undone
  BY <1>1, Settle DEF Abstract!Undone
<1> QED BY <1>3, <1>4

LEMMA SaveFirstStep ==
  ASSUME Inv, NEW j \in Job, SaveFirst(j)
  PROVE  Inv' /\ KeepDrive /\ Abstract!Begin(j)
<1>1. TypeOK'
  BY DEF SaveFirst, Inv, TypeOK, Slot
<1>2. Before' = slots' /\ ~Readable(slots')
  BY DEF SaveFirst, Before, Readable, Invalid
<1>3. SlotsOK'
  BY <1>2 DEF SaveFirst, SlotsOK, OneApart, OneDrive, Readable, Invalid
<1>4. Receipt = None /\ Receipt' = None
  BY <1>2 DEF SaveFirst, Receipt, Loaded
<1>5. None \notin Job /\ job = None
  BY DEF SaveFirst, None, Job, Inv, SlotsOK
<1> QED BY <1>1, <1>3, <1>4, <1>5 DEF Inv, KeepDrive, SaveFirst, Abstract!Begin, Abstract!Readable

LEMMA SaveNextStep ==
  ASSUME Inv, NEW j \in Job, SaveNext(j)
  PROVE  Inv' /\ KeepDrive /\ Abstract!Begin(j)
<1>1. slots \in [0..1 -> Slot] /\ Before = slots /\ Latest(slots) \in 0..1
  BY LatestType DEF SaveNext, Inv, TypeOK, Before
<1>2. /\ pc' = "write" /\ slots' = slots /\ job' = j /\ exists' /\ exists
      /\ target' = 1 - Latest(slots) /\ target' \in 0..1
      /\ old' = slots[target'] /\ Readable(slots)
  BY <1>1 DEF SaveNext
<1>3. old' \in Slot
  BY <1>1, <1>2
<1>4. TypeOK'
  BY <1>2, <1>3 DEF SaveNext, Inv, TypeOK
<1>5. Before' = slots
  BY <1>2 DEF Before
<1>6. SlotsOK'
  BY <1>1, <1>2, <1>5 DEF SaveNext, Inv, SlotsOK
<1>7. Receipt = Value(slots) /\ Receipt' = Value(slots)
  BY <1>1, <1>2, <1>5 DEF SaveNext, Receipt, Loaded
<1>8. Value(slots) \in Job
  <2>1. slots[Latest(slots)] \in Good
    BY <1>1, <1>2, OtherRemains, GoodSlot
  <2> QED BY <1>2, <2>1 DEF Value, Good
<1>9. job = None /\ outcome' = "none"
  BY DEF SaveNext, Inv, SlotsOK
<1> QED BY <1>2, <1>4, <1>6, <1>7, <1>8, <1>9
  DEF Inv, KeepDrive, Abstract!Begin, Abstract!Readable

LEMMA WriteStep ==
  ASSUME Inv, Write
  PROVE  Inv' /\ KeepDrive /\ UNCHANGED Absvars
<1>1. /\ slots \in [0..1 -> Slot] /\ target \in 0..1 /\ Before = slots
      /\ old = slots[target] /\ pc' = "sync"
      /\ UNCHANGED <<exists, target, old, job, outcome, crashes>>
      /\ slots' = [slots EXCEPT ![target] = New] /\ New \in Slot
  BY NewType, BeforeType DEF Write, Inv, TypeOK, Slot
<1>2. Before' = slots
  BY <1>1 DEF Before
<1>3. TypeOK'
  BY <1>1 DEF Inv, TypeOK
<1>4. slots'[target] = New /\ slots'[1 - target] = slots[1 - target]
  BY <1>1
<1>5. New' = New
  <2>1. NextGen' = NextGen
    BY <1>1, <1>4 DEF NextGen
  <2> QED BY <1>1, <2>1 DEF New
<1>6. SlotsOK'
  BY <1>1, <1>2, <1>4, <1>5 DEF Write, Inv, SlotsOK
<1>7. Receipt' = Receipt
  BY <1>1, <1>2 DEF Write, Receipt, Loaded
<1> QED BY <1>1, <1>3, <1>6, <1>7 DEF Inv, KeepDrive, Absvars

LEMMA WriteFailsStep ==
  ASSUME Inv, WriteFails
  PROVE  Inv' /\ KeepDrive /\ Abstract!Undone
<1>1. PICK v \in Torn : slots' = [slots EXCEPT ![target] = v]
  BY DEF WriteFails
<1>2. slots' = [Before EXCEPT ![target] = v] /\ crashes' \in 0..MaxCrashes
  BY <1>1, BeforeType DEF WriteFails, Inv, TypeOK
<1> QED BY <1>2, SettleStep DEF WriteFails, Undone

LEMMA SyncFailsStep ==
  ASSUME Inv, SyncFails
  PROVE  Inv' /\ KeepDrive /\ Abstract!Undone
<1>1. PICK v \in Torn : slots' = [slots EXCEPT ![target] = v]
  BY DEF SyncFails
<1>2. slots' = [Before EXCEPT ![target] = v] /\ crashes' \in 0..MaxCrashes
  BY <1>1, BeforeType DEF SyncFails, Inv, TypeOK
<1> QED BY <1>2, SettleStep DEF SyncFails, Undone

\* A save that is reported done has taken effect.
LEMMA SyncStep ==
  ASSUME Inv, Sync
  PROVE  Inv' /\ KeepDrive /\ Abstract!Done
<1>1. /\ slots \in [0..1 -> Slot] /\ target \in 0..1 /\ slots[target] = New
      /\ slots' = slots /\ job \in Job /\ job' = None /\ pc = "sync"
      /\ crashes' \in 0..MaxCrashes
  BY DEF Sync, Stopped, Inv, TypeOK, SlotsOK
<1>2. slots' = [slots EXCEPT ![target] = New]
  BY <1>1
<1>3. slots' = [Before EXCEPT ![target] = New]
  BY <1>2, BeforeType
<1>4. New \in Torn /\ UNCHANGED exists /\ Stopped /\ outcome' = "done"
  BY DEF Torn, Sync
<1>5. Inv' /\ KeepDrive
  BY <1>1, <1>3, <1>4, SettleStep
<1>6. Receipt' = job
  BY <1>1, <1>3, <1>4, Settle
<1> QED BY <1>1, <1>4, <1>5, <1>6 DEF Abstract!Done

LEMMA CrashStep ==
  ASSUME Inv, Crash
  PROVE  Inv' /\ KeepDrive /\ (Abstract!Undone \/ UNCHANGED Absvars)
<1>1. /\ crashes' \in 0..MaxCrashes /\ UNCHANGED exists /\ Stopped
      /\ pc # "idle" => outcome' = "undone"
      /\ pc = "idle" => outcome' = outcome
  BY OutboxAssumption DEF Crash, Inv, TypeOK
<1>2. CASE pc = "sync"
  <2>1. PICK v \in Torn : slots' = [slots EXCEPT ![target] = v]
    BY <1>2 DEF Crash
  <2>2. slots' = [Before EXCEPT ![target] = v]
    BY <2>1, BeforeType
  <2> QED BY <1>1, <1>2, <2>2, SettleStep
<1>3. CASE pc = "write"
  <2>1. slots' = slots /\ slots \in [0..1 -> Slot] /\ target \in 0..1
    BY <1>3 DEF Crash, Inv, TypeOK
  <2>2. Before = slots /\ old = slots[target] /\ old \in Torn
    BY <1>3, BeforeType DEF Torn
  <2>3. slots' = [Before EXCEPT ![target] = old]
    BY <2>1, <2>2
  <2> QED BY <1>1, <1>3, <2>2, <2>3, SettleStep
<1>4. CASE pc = "idle"
  <2>1. slots' = slots /\ Before = slots /\ job = None
    BY <1>4 DEF Crash, Before, Inv, SlotsOK
  <2>2. pc' = "idle" /\ target' = 0 /\ old' = Invalid /\ job' = None /\ exists' = exists
    BY <1>1 DEF Stopped
  <2>3. Before' = slots
    BY <2>1, <2>2 DEF Before
  <2>4. TypeOK'
    BY <1>1, <1>4, <2>1, <2>2 DEF Inv, TypeOK, Slot
  <2>5. SlotsOK'
    BY <1>4, <2>1, <2>2, <2>3 DEF Inv, SlotsOK
  <2>6. Receipt' = Receipt
    BY <1>4, <2>1, <2>2, <2>3 DEF Receipt, Loaded
  <2> QED BY <1>1, <1>4, <2>1, <2>2, <2>4, <2>5, <2>6 DEF Inv, KeepDrive, Absvars
<1> QED BY <1>2, <1>3, <1>4 DEF Inv, TypeOK

LEMMA InitInv ==
  ASSUME Init
  PROVE  Inv /\ Abstract!Init
<1>1. TypeOK
  <2>1. Invalid \in Slot /\ slots \in [0..1 -> Slot]
    BY DEF Init, Slot
  <2>2. crashes \in 0..MaxCrashes
    BY OutboxAssumption DEF Init
  <2>3. exists \in BOOLEAN
    BY Zenon DEF Init
  <2>4. pc = "idle" /\ target = 0 /\ old = Invalid /\ job = None
        /\ outcome = "none"
    BY DEF Init
  <2> QED BY <2>1, <2>2, <2>3, <2>4 DEF TypeOK
<1>2. Before = slots /\ ~Readable(slots)
  BY DEF Init, Before, Readable, Invalid
<1>3. SlotsOK
  BY <1>2 DEF Init, SlotsOK, OneApart, OneDrive, Readable
<1>4. Abstract!Init
  BY DEF Init, Abstract!Init, Receipt, Loaded
<1> QED BY <1>1, <1>3, <1>4 DEF Inv

LEMMA StutterStep ==
  ASSUME Inv, UNCHANGED vars
  PROVE  Inv' /\ KeepDrive /\ UNCHANGED Absvars
<1>1. /\ exists' = exists /\ slots' = slots /\ pc' = pc /\ target' = target
      /\ old' = old /\ job' = job /\ outcome' = outcome /\ crashes' = crashes
  BY DEF vars
<1>2. Before' = Before
  BY <1>1 DEF Before
<1>3. Receipt' = Receipt
  BY <1>1, <1>2 DEF Receipt, Loaded
<1>4. TypeOK'
  BY <1>1 DEF Inv, TypeOK
<1>5. New' = New
  BY <1>1 DEF New, NextGen
<1>6. SlotsOK'
  BY <1>1, <1>2, <1>5 DEF Inv, SlotsOK
<1> QED BY <1>1, <1>3, <1>4, <1>6 DEF Inv, KeepDrive, Absvars

LEMMA NextStep ==
  ASSUME Inv, [Next]_vars
  PROVE  Inv' /\ KeepDrive /\ [Abstract!Next]_Absvars
<1>1. CASE Save
  <2>1. PICK j \in Job : SaveFirst(j) \/ SaveNext(j)
    BY <1>1 DEF Save
  <2> QED BY <2>1, SaveFirstStep, SaveNextStep DEF Abstract!Next
<1>2. CASE Write
  BY <1>2, WriteStep
<1>3. CASE WriteFails
  BY <1>3, WriteFailsStep DEF Abstract!Next
<1>4. CASE Sync
  BY <1>4, SyncStep DEF Abstract!Next
<1>5. CASE SyncFails
  BY <1>5, SyncFailsStep DEF Abstract!Next
<1>6. CASE Crash
  BY <1>6, CrashStep DEF Abstract!Next
<1>7. CASE UNCHANGED vars
  BY <1>7, StutterStep
<1> QED BY <1>1, <1>2, <1>3, <1>4, <1>5, <1>6, <1>7 DEF Next

\* At every reachable state the slots are one generation and one drive, and
\* the slot a save writes is the one that is not the receipt.
THEOREM SlotsHold == Spec => [](TypeOK /\ SlotsOK)
<1>1. Init => Inv
  BY InitInv
<1>2. Inv /\ [Next]_vars => Inv'
  BY NextStep
<1> QED BY <1>1, <1>2, PTL DEF Spec, Inv

\* No save, error or power loss moves a receipt to another drive or loses it.
THEOREM DriveSafe == Spec => DriveKept
<1>1. Init => Inv
  BY InitInv
<1>2. Inv /\ [Next]_vars => Inv' /\ [KeepDrive]_vars
  BY NextStep
<1> QED BY <1>1, <1>2, PTL DEF Spec, DriveKept

\* The file implements JobReceipt: a save takes effect wholly or not at all.
THEOREM ReceiptHolds == Spec => ReceiptSpec
<1>1. Init => Inv /\ Abstract!Init
  BY InitInv
<1>2. Inv /\ [Next]_vars => Inv' /\ [Abstract!Next]_Absvars
  BY NextStep
<1> QED BY <1>1, <1>2, PTL DEF Spec, ReceiptSpec, Abstract!Spec, Absvars
===============================================================================
