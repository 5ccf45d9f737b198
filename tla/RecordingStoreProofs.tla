-------------------------- MODULE RecordingStoreProofs --------------------------
(***************************************************************************)
(* Theorems of RecordingStore for every value of its constants.            *)
(***************************************************************************)
EXTENDS RecordingStoreInv, TLAPS

LEMMA NatTimes == ASSUME NEW a \in Nat, NEW b \in Nat PROVE a * b \in Nat
OBVIOUS

\* What the writer appends, and what a repair may leave of a page, is a page.
LEMMA AudioPageType == ASSUME TypeOK PROVE AudioPage \in Page
BY NatTimes, StoreAssumption DEF TypeOK, AudioPage, Page, Kinds

LEMMA BrokenPageType == ASSUME TypeOK PROVE BrokenPage \in Page
BY NatTimes, StoreAssumption DEF TypeOK, BrokenPage, Page, Kinds

LEMMA LastPageType == ASSUME TypeOK, cur \in Stem PROVE LastPage \in Page
<1>1. header[cur] \in Nat /\ output \in Nat /\ FrameGranule \in Nat
  <2>1. header[cur] \in {0, EncoderSkip}
    BY DEF TypeOK
  <2> QED BY <2>1, StoreAssumption DEF TypeOK
<1>2. FinalGranule \in Nat
  BY <1>1, NatTimes DEF FinalGranule
<1> QED BY <1>2 DEF TypeOK, LastPage, Page, Kinds

LEMMA RewrittenType == ASSUME NEW q \in Page PROVE Rewritten(q) \subseteq Page
BY DEF Rewritten, Page, Kinds

LEMMA SubSeqType ==
  ASSUME NEW S, NEW q \in Seq(S), NEW n \in 0..Len(q)
  PROVE  SubSeq(q, 1, n) \in Seq(S) /\ Len(SubSeq(q, 1, n)) = n
OBVIOUS

LEMMA SafePagesType == ASSUME TypeOK, NEW s \in Stem PROVE SafePages(s) \in Nat
BY DEF TypeOK, SafePages, Larger

\* Replacing one page of a file leaves a sequence of pages of the same length.
LEMMA ExceptType ==
  ASSUME NEW S, NEW q \in Seq(S), NEW i, NEW p, i \in DOMAIN q => p \in S
  PROVE  [q EXCEPT ![i] = p] \in Seq(S) /\ Len([q EXCEPT ![i] = p]) = Len(q)
<1> DEFINE r == [q EXCEPT ![i] = p]
<1>1. q \in [1..Len(q) -> S] /\ Len(q) \in Nat
  OBVIOUS
<1>2. r \in [1..Len(q) -> S]
  BY <1>1
<1>3. r \in Seq(S)
  BY <1>1, <1>2
<1>4. DOMAIN r = 1..Len(q)
  BY <1>1
<1>5. DOMAIN r = 1..Len(r)
  BY <1>3
<1>6. Len(r) = Len(q)
  BY <1>1, <1>3, <1>4, <1>5
<1> QED BY <1>3, <1>6

\* What a power loss leaves of a file is a sequence of pages.
LEMMA SurvivorsType ==
  ASSUME TypeOK, NEW s \in Stem, NEW q \in Survivors(s)
  PROVE  q \in Seq(Page)
<1>1. pages[s] \in Seq(Page) /\ synced[s] \in Nat
  BY DEF TypeOK
<1>2. CASE ~(pc = "repair_sync" /\ s = cur)
  <2>1. PICK n \in synced[s]..Len(pages[s]) : q = SubSeq(pages[s], 1, n)
    BY <1>2 DEF Survivors
  <2> QED BY <1>1, <2>1, SubSeqType
<1>3. CASE pc = "repair_sync" /\ s = cur
  <2>1. PICK n \in synced[s]..Len(pages[s]), p \in Rewritten(pages[s][SafePages(s)]) :
          q = [SubSeq(pages[s], 1, n) EXCEPT ![SafePages(s)] = p]
    <3> DEFINE prefixes == {SubSeq(pages[s], 1, n) : n \in synced[s]..Len(pages[s])}
    <3>1. PICK r \in prefixes, p \in Rewritten(pages[s][SafePages(s)]) :
            q = [r EXCEPT ![SafePages(s)] = p]
      BY <1>3 DEF Survivors
    <3>2. PICK n \in synced[s]..Len(pages[s]) : r = SubSeq(pages[s], 1, n)
      OBVIOUS
    <3> QED BY <3>1, <3>2
  <2>2. SubSeq(pages[s], 1, n) \in Seq(Page) /\ Len(SubSeq(pages[s], 1, n)) = n
    <3>1. n \in 0..Len(pages[s])
      BY <1>1
    <3> QED BY <1>1, <3>1, SubSeqType
  <2>3. ASSUME SafePages(s) \in DOMAIN SubSeq(pages[s], 1, n) PROVE p \in Page
    <3>1. SafePages(s) \in 1..Len(pages[s])
      BY <2>2, <2>3, <1>1
    <3> QED BY <1>1, <3>1, RewrittenType
  <2> QED BY <2>1, <2>2, <2>3, ExceptType
<1> QED BY <1>2, <1>3

LEMMA TypeInit == Init => TypeOK
<1> SUFFICES ASSUME Init PROVE TypeOK
  OBVIOUS
<1>1. pages \in [Stem -> Seq(Page)]
  BY DEF Init
<1>2. slots \in [Stem -> [0..1 -> Nat]]
  <2>1. [i \in 0..1 |-> 0] \in [0..1 -> Nat]
    OBVIOUS
  <2> QED BY <2>1 DEF Init
<1>3. synced \in [Stem -> Nat] /\ secured \in [Stem -> Nat]
  BY DEF Init
<1>4. header \in [Stem -> {0, EncoderSkip}]
  BY DEF Init
<1>5. /\ pc \in Steps /\ phase \in Phases
      /\ cur \in (IF pc \in {"idle", "recover"} THEN {NoStem} ELSE Stem)
  BY DEF Init, Steps, Phases
<1>6. failed \in BOOLEAN
  BY DEF Init
<1>7. turn \in 0..1
  BY DEF Init
<1>8. /\ history \in Nat /\ frames \in Nat /\ output \in Nat /\ buffered \in Nat
      /\ crashes \in Nat
  BY DEF Init
<1>9. /\ parts \subseteq Stem /\ metas \subseteq Stem /\ ckps \subseteq Stem
      /\ finals \subseteq Stem /\ todo \subseteq Stem /\ interrupted \subseteq Stem
  BY DEF Init
<1> QED BY <1>1, <1>2, <1>3, <1>4, <1>5, <1>6, <1>7, <1>8, <1>9, Zenon DEF TypeOK

LEMMA RestType ==
  ASSUME Rest
  PROVE  /\ pc' = "idle" /\ cur' = NoStem /\ phase' \in Phases
         /\ history' \in Nat /\ frames' \in Nat /\ output' \in Nat /\ buffered' \in Nat
         /\ turn' \in 0..1 /\ failed' \in BOOLEAN
<1>1. failed' \in BOOLEAN
  BY DEF Rest, Cleared
<1> QED BY <1>1 DEF Rest, Cleared, Phases

LEMMA TypeAbortMeta == TypeOK /\ AbortMeta => TypeOK'
  BY RestType DEF AbortMeta, TypeOK, disk, content, ghosts, Steps

LEMMA TypeFinishRefused == TypeOK /\ FinishRefused => TypeOK'
  BY RestType DEF FinishRefused, TypeOK, disk, content, ghosts, Steps

LEMMA TypeFinishFails == TypeOK /\ FinishFails => TypeOK'
  BY RestType DEF FinishFails, TypeOK, disk, content, ghosts, Steps

LEMMA TypeUnlink == TypeOK /\ Unlink => TypeOK'
  BY RestType DEF Unlink, TypeOK, disk, content, ghosts, Steps

\* Appending a page to a file.
LEMMA AppendType ==
  ASSUME TypeOK, cur \in Stem, NEW p \in Page,
         pages' = [pages EXCEPT ![cur] = Append(@, p)]
  PROVE  pages' \in [Stem -> Seq(Page)]
<1>1. pages \in [Stem -> Seq(Page)]
  BY DEF TypeOK
<1>2. Append(pages[cur], p) \in Seq(Page)
  BY <1>1
<1> QED BY <1>1, <1>2

LEMMA TypeWriteLastFails == TypeOK /\ WriteLastFails => TypeOK'
<1> SUFFICES ASSUME TypeOK, WriteLastFails PROVE TypeOK'
  OBVIOUS
<1>1. pages' \in [Stem -> Seq(Page)]
  BY BrokenPageType, AppendType DEF WriteLastFails, TypeOK
<1> QED BY <1>1, RestType DEF WriteLastFails, TypeOK, disk, ghosts, Steps

LEMMA TypeFlush == TypeOK /\ Flush => TypeOK'
<1> SUFFICES ASSUME TypeOK, Flush PROVE TypeOK'
  OBVIOUS
<1>1. pages' \in [Stem -> Seq(Page)]
  BY AudioPageType, AppendType DEF Flush, TypeOK
<1>2. pc' \in Steps /\ cur' \in (IF pc' \in {"idle", "recover"} THEN {NoStem} ELSE Stem)
  BY DEF Flush, TypeOK, Steps
<1>3. frames' \in Nat /\ output' \in Nat /\ buffered' \in Nat
  BY DEF Flush, TypeOK, Count
<1> QED BY <1>1, <1>2, <1>3 DEF Flush, TypeOK, disk, ghosts, Steps

LEMMA SlotType ==
  ASSUME TypeOK, cur \in Stem, NEW v \in Nat, slots' = [slots EXCEPT ![cur][turn] = v]
  PROVE  slots' \in [Stem -> [0..1 -> Nat]]
<1>1. slots[cur] \in [0..1 -> Nat] /\ turn \in 0..1
  BY DEF TypeOK
<1>2. [slots[cur] EXCEPT ![turn] = v] \in [0..1 -> Nat]
  BY <1>1
<1> QED BY <1>2 DEF TypeOK

LEMMA TypeSyncSlot == TypeOK /\ SyncSlot => TypeOK'
<1> SUFFICES ASSUME TypeOK, SyncSlot PROVE TypeOK'
  OBVIOUS
<1>1. cur \in Stem /\ pages[cur] \in Seq(Page)
  BY DEF TypeOK, SyncSlot
<1>2. Len(pages[cur]) \in Nat
  BY <1>1
<1>3. slots' \in [Stem -> [0..1 -> Nat]]
  BY <1>1, <1>2, SlotType DEF SyncSlot
<1>4. secured' \in [Stem -> Nat]
  BY <1>2 DEF SyncSlot, TypeOK
<1>5. turn' \in 0..1
  BY DEF SyncSlot, TypeOK
<1> QED BY <1>1, <1>3, <1>4, <1>5 DEF SyncSlot, TypeOK, disk, content, Steps, Phases

LEMMA TypeSyncSlotFails == TypeOK /\ SyncSlotFails => TypeOK'
<1> SUFFICES ASSUME TypeOK, SyncSlotFails PROVE TypeOK'
  OBVIOUS
<1>1. cur \in Stem /\ pages[cur] \in Seq(Page)
  BY DEF TypeOK, SyncSlotFails
<1>2. Len(pages[cur]) \in Nat /\ slots[cur][turn] \in Nat
  BY <1>1 DEF TypeOK
<1>3. slots' \in [Stem -> [0..1 -> Nat]]
  BY <1>1, <1>2, SlotType DEF SyncSlotFails, SlotAfter
<1>5. turn' \in 0..1
  BY DEF SyncSlotFails, TypeOK
<1>6. pc' \in {"append", "finish"} /\ phase' \in Phases /\ failed' \in BOOLEAN
  BY DEF SyncSlotFails, TypeOK, Fail, Phases
<1> QED BY <1>1, <1>3, <1>5, <1>6 DEF SyncSlotFails, TypeOK, disk, content, ghosts, Steps

LEMMA TypeRepairSync == TypeOK /\ RepairSync => TypeOK'
<1> SUFFICES ASSUME TypeOK, RepairSync PROVE TypeOK'
  OBVIOUS
<1> DEFINE n == SafePages(cur)
<1>1. cur \in Stem /\ pages[cur] \in Seq(Page)
  BY DEF TypeOK, RepairSync
<1>2. n \in 0..Len(pages[cur]) /\ n \in Nat
  BY <1>1 DEF RepairSync, Parses, Parse
<1>3. SubSeq(pages[cur], 1, n) \in Seq(Page)
  BY <1>1, <1>2, SubSeqType
<1>4. pages' \in [Stem -> Seq(Page)]
  BY <1>3 DEF RepairSync, TypeOK
<1>5. synced' \in [Stem -> Nat]
  BY <1>2 DEF RepairSync, TypeOK
<1> QED BY <1>1, <1>4, <1>5 DEF RepairSync, TypeOK, disk, writer, ghosts, Steps

LEMMA TypeRepairFails == TypeOK /\ RepairFails => TypeOK'
<1> SUFFICES ASSUME TypeOK, RepairFails PROVE TypeOK'
  OBVIOUS
<1> DEFINE n == SafePages(cur)
<1>1. cur \in Stem /\ pages[cur] \in Seq(Page)
  BY DEF TypeOK, RepairFails
<1>2. PICK p \in Rewritten(pages[cur][n]) :
        pages' = [pages EXCEPT ![cur] = [pages[cur] EXCEPT ![n] = p]]
  BY DEF RepairFails
<1>3. n \in DOMAIN pages[cur] => p \in Page
  BY <1>1, RewrittenType
<1>4. [pages[cur] EXCEPT ![n] = p] \in Seq(Page)
  BY <1>1, <1>3, ExceptType
<1>5. pages' \in [Stem -> Seq(Page)]
  BY <1>2, <1>4 DEF TypeOK
<1> QED BY <1>1, <1>5 DEF RepairFails, Passed, TypeOK, disk, writer, Steps

LEMMA TypeBegin == TypeOK /\ Begin => TypeOK'
<1> SUFFICES ASSUME TypeOK, Begin PROVE TypeOK'
  OBVIOUS
<1>1. PICK t \in Times, a \in 0..MaxAttempt, n \in 0..MaxHistory :
        /\ \E h \in IF n = 0 THEN {EncoderSkip} ELSE Headers :
             header' = [header EXCEPT ![<<t, a>>] = h]
        /\ parts' = parts \cup {<<t, a>>}
        /\ cur' = <<t, a>>
        /\ history' = n
        /\ pages' = [pages EXCEPT ![<<t, a>>] = <<>>]
        /\ synced' = [synced EXCEPT ![<<t, a>>] = 0]
        /\ slots' = [slots EXCEPT ![<<t, a>>] = [i \in 0..1 |-> 0]]
  BY Zenon DEF Begin
<1>2. <<t, a>> \in Stem
  BY DEF Stem
<1>3. header' \in [Stem -> {0, EncoderSkip}]
  BY <1>1, StoreAssumption DEF TypeOK
<1>4. pages' \in [Stem -> Seq(Page)] /\ synced' \in [Stem -> Nat]
  <2>1. <<>> \in Seq(Page)
    OBVIOUS
  <2>2. pages \in [Stem -> Seq(Page)] /\ synced \in [Stem -> Nat]
    BY DEF TypeOK
  <2>3. pages' \in [Stem -> Seq(Page)]
    BY <1>1, <2>1, <2>2
  <2>4. synced' \in [Stem -> Nat]
    BY <1>1, <2>2
  <2> QED BY <2>3, <2>4
<1>5. [i \in 0..1 |-> 0] \in [0..1 -> Nat]
  OBVIOUS
<1>6. slots' \in [Stem -> [0..1 -> Nat]]
  BY <1>1, <1>5 DEF TypeOK
<1>7. history' \in Nat
  BY <1>1, StoreAssumption
<1>8. failed' \in BOOLEAN /\ phase' \in Phases /\ pc' = "meta"
  BY DEF Begin, Phases
<1>9. cur' \in Stem /\ parts' \subseteq Stem
  BY <1>1, <1>2 DEF TypeOK
<1>10. /\ frames' \in Nat /\ output' \in Nat /\ buffered' \in Nat
       /\ turn' \in 0..1
       /\ UNCHANGED <<metas, ckps, finals, todo, ghosts>>
  BY DEF Begin
<1> QED BY <1>3, <1>4, <1>6, <1>7, <1>8, <1>9, <1>10 DEF TypeOK, ghosts, Steps

LEMMA TypeCrash == TypeOK /\ Crash => TypeOK'
<1> SUFFICES ASSUME TypeOK, Crash PROVE TypeOK'
  OBVIOUS
<1>1. PICK left \in [Stem -> UNION {Survivors(s) : s \in Stem}] :
        /\ \A s \in Stem : left[s] \in Survivors(s)
        /\ pages' = left
        /\ synced' = [s \in Stem |-> Len(left[s])]
  BY DEF Crash
<1>2. \A s \in Stem : left[s] \in Seq(Page)
  BY <1>1, SurvivorsType
<1>3. pages' \in [Stem -> Seq(Page)]
  BY <1>1, <1>2
<1>4. \A s \in Stem : Len(left[s]) \in Nat
  BY <1>2
<1>5. synced' \in [Stem -> Nat]
  BY <1>1, <1>4
<1>6. slots' \in [Stem -> [0..1 -> Nat]]
  <2>1. CASE pc = "ckpt_slot"
    <3>1. cur \in Stem /\ pages[cur] \in Seq(Page)
      BY <2>1 DEF TypeOK
    <3>2. Len(pages[cur]) \in Nat
      BY <3>1
    <3>3. slots[cur][turn] \in Nat
      BY <3>1, ZenonT(60) DEF TypeOK
    <3>4. PICK v \in SlotAfter(Len(pages[cur])) :
            slots' = [slots EXCEPT ![cur][turn] = v]
      BY <2>1 DEF Crash
    <3>5. v \in Nat
      BY <3>2, <3>3 DEF SlotAfter
    <3> QED BY <3>1, <3>4, <3>5, SlotType
  <2>2. CASE pc # "ckpt_slot"
    BY <2>2 DEF Crash, TypeOK
  <2> QED BY <2>1, <2>2
<1>7. interrupted' \subseteq Stem
  BY DEF Crash, TypeOK
<1>8. failed' \in BOOLEAN
  BY DEF Crash, Cleared
<1>9. /\ pc' = "recover" /\ cur' = NoStem /\ phase' \in Phases
      /\ history' \in Nat /\ frames' \in Nat /\ output' \in Nat /\ buffered' \in Nat
      /\ turn' \in 0..1
  BY DEF Crash, Cleared, Phases
<1>10. crashes' \in Nat /\ todo' \subseteq Stem
  <2>1. crashes' = crashes + 1 /\ todo' = parts
    BY DEF Crash
  <2> QED BY <2>1 DEF TypeOK
<1> QED BY <1>3, <1>5, <1>6, <1>7, <1>8, <1>9, <1>10
  DEF Crash, TypeOK, disk, Steps

LEMMA TypeRepair ==
  ASSUME TypeOK, NEW s \in todo, Repair(s)
  PROVE  TypeOK'
<1> DEFINE n == SafePages(s)
           p == [pages[s][n] EXCEPT !.kind = "last"]
<1>1. s \in Stem /\ pages[s] \in Seq(Page)
  BY DEF TypeOK
<1>2. pages' = [pages EXCEPT ![s] = [pages[s] EXCEPT ![n] = p]]
  BY DEF Repair
<1>3. n \in DOMAIN pages[s] => p \in Page
  BY <1>1, RewrittenType DEF Rewritten, Kinds
<1>4. [pages[s] EXCEPT ![n] = p] \in Seq(Page)
  BY <1>1, <1>3, ExceptType
<1>5. pages' \in [Stem -> Seq(Page)]
  BY <1>1, <1>2, <1>4 DEF TypeOK
<1> QED BY <1>1, <1>5 DEF Repair, TypeOK, disk, writer, ghosts, Steps

LEMMA TypeRecoverFails ==
  ASSUME TypeOK, NEW s \in todo, RecoverFails(s)
  PROVE  TypeOK'
BY DEF RecoverFails, Passed, TypeOK, disk, content, writer, ghosts, Steps

LEMMA TypeStutter == TypeOK /\ UNCHANGED vars => TypeOK'
BY DEF TypeOK, vars, disk, content, writer, ghosts

LEMMA TypeStep == TypeOK /\ [Next]_vars => TypeOK'
<1> SUFFICES ASSUME TypeOK, [Next]_vars PROVE TypeOK'
  OBVIOUS
<1>1. CASE CreateMeta
  BY <1>1
  DEF CreateMeta, TypeOK, disk, content, writer, ghosts, Steps
<1>2. CASE WriteHeaders
  BY <1>2
  DEF WriteHeaders, TypeOK, disk, content, writer, ghosts, Steps
<1>3. CASE CreateJournal
  BY <1>3
  DEF CreateJournal, TypeOK, disk, content, writer, ghosts, Steps
<1>4. CASE Start
  BY <1>4
  DEF Start, Phases, TypeOK, disk, content, writer, ghosts, Steps
<1>5. CASE Abort
  BY <1>5
  DEF Abort, TypeOK, disk, content, writer, ghosts, Steps
<1>6. CASE AbortJournal
  BY <1>6
  DEF AbortJournal, TypeOK, disk, content, writer, ghosts, Steps
<1>7. CASE Buffer
  BY <1>7
  DEF Buffer, Count, TypeOK, disk, content, writer, ghosts, Steps
<1>8. CASE FlushFails
  BY <1>8, BrokenPageType, AppendType
  DEF FlushFails, Fail, Phases, TypeOK, disk, content, writer, ghosts, Steps
<1>9. CASE TooLarge
  BY <1>9
  DEF TooLarge, Fail, Phases, TypeOK, disk, content, writer, ghosts, Steps
<1>10. CASE CaptureFails
  BY <1>10
  DEF CaptureFails, TypeOK, disk, content, writer, ghosts, Steps
<1>11. CASE HistoryDone
  BY <1>11
  DEF HistoryDone, Phases, TypeOK, disk, content, writer, ghosts, Steps
<1>12. CASE StopCapture
  BY <1>12
  DEF StopCapture, Phases, TypeOK, disk, content, writer, ghosts, Steps
<1>13. CASE Padded
  BY <1>13
  DEF Padded, TypeOK, disk, content, writer, ghosts, Steps
<1>14. CASE SyncFile
  BY <1>14
  DEF SyncFile, TypeOK, disk, content, writer, ghosts, Steps
<1>15. CASE SyncFileFails
  BY <1>15
  DEF SyncFileFails, Fail, Phases, TypeOK, disk, content, writer, ghosts, Steps
<1>16. CASE WriteLast
  BY <1>16, LastPageType, AppendType
  DEF WriteLast, TypeOK, disk, content, writer, ghosts, Steps
<1>17. CASE FinishSync
  BY <1>17
  DEF FinishSync, TypeOK, disk, content, writer, ghosts, Steps
<1>18. CASE Rename
  BY <1>18
  DEF Rename, TypeOK, disk, content, writer, ghosts, Steps
<1>19. CASE PublishRepaired
  BY <1>19
  DEF PublishRepaired, TypeOK, disk, content, writer, ghosts, Steps
<1>20. CASE PublishFails
  BY <1>20
  DEF PublishFails, Passed, TypeOK, disk, content, writer, ghosts, Steps
<1>21. CASE DropJournal
  BY <1>21
  DEF DropJournal, Passed, TypeOK, disk, content, writer, ghosts, Steps
<1>22. CASE Booted
  BY <1>22
  DEF Booted, TypeOK, disk, content, writer, ghosts, Steps
<1> QED
  BY <1>1, <1>2, <1>3, <1>4, <1>5, <1>6, <1>7, <1>8, <1>9, <1>10, <1>11,
     <1>12, <1>13, <1>14, <1>15, <1>16, <1>17, <1>18, <1>19, <1>20, <1>21,
     <1>22,
     TypeBegin, TypeAbortMeta, TypeFlush, TypeSyncSlot, TypeSyncSlotFails,
     TypeWriteLastFails, TypeFinishRefused, TypeFinishFails, TypeUnlink,
     TypeRecoverFails, TypeRepair, TypeRepairSync, TypeRepairFails, TypeCrash,
     TypeStutter
  DEF Next, BeginStep, AbortStep, AppendStep, CheckpointStep, FinishStep, RecoverStep

\* Type correctness of the store.
THEOREM TypeCorrect == Spec => []TypeOK
BY TypeInit, TypeStep, PTL DEF Spec

LEMMA OwnershipInit == Init => Ownership
BY DEF Init, Ownership, Writing

LEMMA OwnershipBegin == TypeOK /\ Ownership /\ Begin => Ownership' /\ FinalsKept
<1> SUFFICES ASSUME TypeOK, Ownership, Begin PROVE Ownership' /\ FinalsKept
  OBVIOUS
<1>1. PICK t \in Times, a \in 0..MaxAttempt :
        /\ ~Taken(<<t, a>>)
        /\ parts' = parts \cup {<<t, a>>}
        /\ cur' = <<t, a>>
        /\ pages' = [pages EXCEPT ![<<t, a>>] = <<>>]
        /\ synced' = [synced EXCEPT ![<<t, a>>] = 0]
  BY Zenon DEF Begin
<1>2. pc' = "meta" /\ finals' = finals
  BY DEF Begin
<1>3. <<t, a>> \notin finals /\ <<t, a>> \in Stem
  BY <1>1 DEF Taken, Stem
<1>4. parts' \cap finals' = {}
  BY <1>1, <1>2, <1>3 DEF Ownership
<1>5. \A s \in finals : synced'[s] = synced[s] /\ pages'[s] = pages[s]
  BY <1>1, <1>3 DEF TypeOK
<1>6. \A s \in finals' : synced'[s] = Len(pages'[s])
  BY <1>2, <1>5 DEF Ownership
<1> QED BY <1>1, <1>2, <1>4, <1>5, <1>6 DEF Ownership, FinalsKept

LEMMA OwnershipRepairSync ==
  TypeOK /\ Ownership /\ RepairSync => Ownership' /\ FinalsKept
<1> SUFFICES ASSUME TypeOK, Ownership, RepairSync PROVE Ownership' /\ FinalsKept
  OBVIOUS
<1> DEFINE n == SafePages(cur)
<1>1. cur \in parts /\ cur \in Stem /\ pages[cur] \in Seq(Page)
  BY DEF RepairSync, Ownership, TypeOK
<1>2. n \in 0..Len(pages[cur])
  BY <1>1 DEF RepairSync, Parses, Parse
<1>3. pages' = [pages EXCEPT ![cur] = SubSeq(@, 1, n)] /\ synced' = [synced EXCEPT ![cur] = n]
  BY DEF RepairSync
<1>4. pages'[cur] = SubSeq(pages[cur], 1, n) /\ synced'[cur] = n
  BY <1>1, <1>3 DEF TypeOK
<1>5. synced'[cur] = Len(pages'[cur])
  BY <1>1, <1>2, <1>4, SubSeqType
<1>6. \A s \in finals : synced'[s] = synced[s] /\ pages'[s] = pages[s]
  BY <1>1, <1>3 DEF TypeOK, Ownership
<1> QED BY <1>1, <1>5, <1>6 DEF RepairSync, Ownership, FinalsKept, disk

LEMMA WholeSubSeq == ASSUME NEW S, NEW q \in Seq(S) PROVE SubSeq(q, 1, Len(q)) = q
OBVIOUS

LEMMA OwnershipCrash == TypeOK /\ Ownership /\ Crash => Ownership' /\ FinalsKept
<1> SUFFICES ASSUME TypeOK, Ownership, Crash PROVE Ownership' /\ FinalsKept
  OBVIOUS
<1>1. PICK left \in [Stem -> UNION {Survivors(s) : s \in Stem}] :
        /\ \A s \in Stem : left[s] \in Survivors(s)
        /\ pages' = left
        /\ synced' = [s \in Stem |-> Len(left[s])]
  BY DEF Crash
<1>2. /\ pc' = "recover" /\ cur' = NoStem /\ todo' = parts
      /\ UNCHANGED <<parts, finals>>
  BY DEF Crash, Cleared, disk
<1>3. ASSUME NEW s \in finals PROVE pages'[s] = pages[s]
  <2>1. s \in Stem /\ pages[s] \in Seq(Page) /\ synced[s] = Len(pages[s])
    BY DEF TypeOK, Ownership
  <2>2. ~(pc = "repair_sync" /\ s = cur)
    BY DEF Ownership
  <2>3. PICK n \in synced[s]..Len(pages[s]) : left[s] = SubSeq(pages[s], 1, n)
    BY <1>1, <2>1, <2>2 DEF Survivors
  <2>4. n = Len(pages[s])
    BY <2>1, <2>3
  <2> QED BY <1>1, <2>1, <2>3, <2>4, WholeSubSeq
<1>4. \A s \in finals : synced'[s] = Len(pages'[s])
  BY <1>1 DEF TypeOK
<1> QED BY <1>2, <1>3, <1>4 DEF Ownership, FinalsKept, Writing

LEMMA OwnershipRecoverOne ==
  ASSUME TypeOK, Ownership, NEW s \in todo, RecoverFails(s) \/ Repair(s)
  PROVE  Ownership' /\ FinalsKept
<1>1. CASE RecoverFails(s)
  BY <1>1 DEF RecoverFails, Passed, TypeOK, Ownership, FinalsKept, Writing, disk, content
<1>2. CASE Repair(s)
  <2>1. s \in parts /\ s \in Stem
    BY <1>2 DEF Repair, Ownership, TypeOK
  <2>2. /\ cur' = s /\ pc' = "repair_sync"
        /\ UNCHANGED <<disk, synced, todo>>
        /\ \A r \in Stem \ {s} : pages'[r] = pages[r]
    BY <1>2 DEF Repair, TypeOK
  <2> QED BY <1>2, <2>1, <2>2 DEF Repair, TypeOK, Ownership, FinalsKept, disk
<1> QED BY <1>1, <1>2

\* Every step keeps Ownership and leaves published recordings alone.
LEMMA OwnershipStep ==
  ASSUME TypeOK, Ownership, [Next]_vars
  PROVE  Ownership' /\ FinalsKept
<1>1. CASE Begin
  BY <1>1, OwnershipBegin
<1>2. CASE RepairSync
  BY <1>2, OwnershipRepairSync
<1>3. CASE Crash
  BY <1>3, OwnershipCrash
<1>4. ASSUME NEW s \in todo, RecoverFails(s) \/ Repair(s) PROVE Ownership' /\ FinalsKept
  BY <1>4, OwnershipRecoverOne
<1>5. CASE \/ CreateMeta \/ WriteHeaders \/ CreateJournal \/ Start \/ Abort \/ AbortJournal
           \/ AbortMeta \/ Buffer \/ Flush \/ FlushFails \/ TooLarge \/ CaptureFails
           \/ HistoryDone \/ StopCapture \/ Padded \/ SyncFile \/ SyncFileFails \/ SyncSlot
           \/ SyncSlotFails \/ WriteLast \/ WriteLastFails \/ FinishRefused \/ FinishSync
           \/ FinishFails \/ Rename \/ Unlink \/ RepairFails \/ PublishRepaired
           \/ PublishFails \/ DropJournal \/ Booted \/ UNCHANGED vars
  <2> USE DEF Ownership, FinalsKept, TypeOK, Writing, Steps, disk, content, writer, ghosts
  <2>1. CASE CreateMeta
    BY <2>1 DEF CreateMeta
  <2>2. CASE WriteHeaders
    BY <2>2 DEF WriteHeaders
  <2>3. CASE CreateJournal
    BY <2>3 DEF CreateJournal
  <2>4. CASE Start
    BY <2>4 DEF Start
  <2>5. CASE Abort
    BY <2>5 DEF Abort
  <2>6. CASE AbortJournal
    BY <2>6 DEF AbortJournal
  <2>7. CASE AbortMeta
    BY <2>7 DEF AbortMeta, Rest, Cleared
  <2>8. CASE Buffer
    BY <2>8 DEF Buffer
  <2>9. CASE Flush
    BY <2>9 DEF Flush
  <2>10. CASE FlushFails
    BY <2>10 DEF FlushFails, Fail
  <2>11. CASE TooLarge
    BY <2>11 DEF TooLarge, Fail
  <2>12. CASE CaptureFails
    BY <2>12 DEF CaptureFails
  <2>13. CASE HistoryDone
    BY <2>13 DEF HistoryDone
  <2>14. CASE StopCapture
    BY <2>14 DEF StopCapture
  <2>15. CASE Padded
    BY <2>15 DEF Padded
  <2>16. CASE SyncFile
    BY <2>16 DEF SyncFile
  <2>17. CASE SyncFileFails
    BY <2>17 DEF SyncFileFails, Fail
  <2>18. CASE SyncSlot
    BY <2>18 DEF SyncSlot
  <2>19. CASE SyncSlotFails
    BY <2>19 DEF SyncSlotFails, Fail
  <2>20. CASE WriteLast
    BY <2>20 DEF WriteLast
  <2>21. CASE WriteLastFails
    BY <2>21 DEF WriteLastFails, Rest, Cleared
  <2>22. CASE FinishRefused
    BY <2>22 DEF FinishRefused, Rest, Cleared
  <2>23. CASE FinishSync
    BY <2>23 DEF FinishSync
  <2>24. CASE FinishFails
    BY <2>24 DEF FinishFails, Rest, Cleared
  <2>25. CASE Rename
    BY <2>25 DEF Rename
  <2>26. CASE Unlink
    BY <2>26 DEF Unlink, Rest, Cleared
  <2>27. CASE RepairFails
    BY <2>27 DEF RepairFails, Passed
  <2>28. CASE PublishRepaired
    BY <2>28 DEF PublishRepaired
  <2>29. CASE PublishFails
    BY <2>29 DEF PublishFails, Passed
  <2>30. CASE DropJournal
    BY <2>30 DEF DropJournal, Passed
  <2>31. CASE Booted
    BY <2>31 DEF Booted
  <2>32. CASE UNCHANGED vars
    BY <2>32 DEF vars
  <2> QED BY <1>5, <2>1, <2>2, <2>3, <2>4, <2>5, <2>6, <2>7, <2>8, <2>9, <2>10, <2>11, <2>12,
         <2>13, <2>14, <2>15, <2>16, <2>17, <2>18, <2>19, <2>20, <2>21, <2>22, <2>23, <2>24,
         <2>25, <2>26, <2>27, <2>28, <2>29, <2>30, <2>31, <2>32
<1> QED BY <1>1, <1>2, <1>3, <1>4, <1>5
  DEF Next, BeginStep, AbortStep, AppendStep, CheckpointStep, FinishStep, RecoverStep

-------------------------------------------------------------------------------
(***************************************************************************)
(* Control and Journal: who carries a promise, and which slot carries it.  *)
(***************************************************************************)

LEMMA ControlInit == Init => Control
BY DEF Init, Control, Writing

LEMMA JournalInit == Init => Journal
<1> SUFFICES ASSUME Init PROVE Journal
  OBVIOUS
<1>1. \A s \in Stem : /\ pages[s] = <<>> /\ synced[s] = 0 /\ secured[s] = 0
                      /\ slots[s] = [i \in 0..1 |-> 0]
  BY DEF Init
<1>2. Larger([i \in 0..1 |-> 0]) = 0
  BY DEF Larger
<1>3. pc = "recover" /\ parts = {}
  BY DEF Init
<1> QED BY <1>1, <1>2, <1>3 DEF Journal, Appending, Opening

\* Every step keeps Control.
LEMMA ControlStep ==
  ASSUME TypeOK, Ownership, Journal, Control, [Next]_vars
  PROVE  Control'
<1>1. ASSUME NEW s \in todo, RecoverFails(s) \/ Repair(s) PROVE Control'
  BY <1>1 DEF RecoverFails, Repair, Passed, Control, Ownership, TypeOK, Writing,
       disk, content, writer, ghosts
<1>2. CASE \/ Begin \/ CreateMeta \/ WriteHeaders \/ CreateJournal \/ Start \/ Abort
           \/ AbortJournal \/ AbortMeta \/ Buffer \/ Flush \/ FlushFails \/ TooLarge
           \/ CaptureFails \/ HistoryDone \/ StopCapture \/ Padded \/ SyncFile
           \/ SyncFileFails \/ SyncSlot \/ SyncSlotFails \/ WriteLast \/ WriteLastFails
           \/ FinishRefused \/ FinishSync \/ FinishFails \/ Rename \/ Unlink \/ RepairSync
           \/ RepairFails \/ PublishRepaired \/ PublishFails \/ DropJournal \/ Booted
           \/ Crash \/ UNCHANGED vars
  <2> USE DEF Control, Ownership, Journal, TypeOK, Writing, Opening, Appending, disk, content,
              writer, ghosts, Taken, Stem
  <2>1. CASE Begin
    BY <2>1 DEF Begin
  <2>2. CASE CreateMeta
    BY <2>2 DEF CreateMeta
  <2>3. CASE WriteHeaders
    BY <2>3 DEF WriteHeaders
  <2>4. CASE CreateJournal
    BY <2>4 DEF CreateJournal
  <2>5. CASE Start
    BY <2>5 DEF Start
  <2>6. CASE Abort
    BY <2>6 DEF Abort
  <2>7. CASE AbortJournal
    BY <2>7 DEF AbortJournal
  <2>8. CASE AbortMeta
    BY <2>8 DEF AbortMeta, Rest, Cleared
  <2>9. CASE Buffer
    BY <2>9 DEF Buffer
  <2>10. CASE Flush
    BY <2>10 DEF Flush
  <2>11. CASE FlushFails
    BY <2>11 DEF FlushFails, Fail
  <2>12. CASE TooLarge
    BY <2>12 DEF TooLarge, Fail
  <2>13. CASE CaptureFails
    BY <2>13 DEF CaptureFails
  <2>14. CASE HistoryDone
    BY <2>14 DEF HistoryDone
  <2>15. CASE StopCapture
    BY <2>15 DEF StopCapture
  <2>16. CASE Padded
    BY <2>16 DEF Padded
  <2>17. CASE SyncFile
    BY <2>17 DEF SyncFile
  <2>18. CASE SyncFileFails
    BY <2>18 DEF SyncFileFails, Fail
  <2>19. CASE SyncSlot
    BY <2>19 DEF SyncSlot
  <2>20. CASE SyncSlotFails
    BY <2>20 DEF SyncSlotFails, Fail
  <2>21. CASE WriteLast
    BY <2>21 DEF WriteLast
  <2>22. CASE WriteLastFails
    BY <2>22 DEF WriteLastFails, Rest, Cleared
  <2>23. CASE FinishRefused
    BY <2>23 DEF FinishRefused, Rest, Cleared
  <2>24. CASE FinishSync
    BY <2>24 DEF FinishSync
  <2>25. CASE FinishFails
    BY <2>25 DEF FinishFails, Rest, Cleared
  <2>26. CASE Rename
    BY <2>26 DEF Rename
  <2>27. CASE Unlink
    BY <2>27 DEF Unlink, Rest, Cleared
  <2>28. CASE RepairSync
    BY <2>28 DEF RepairSync
  <2>29. CASE RepairFails
    BY <2>29 DEF RepairFails, Passed
  <2>30. CASE PublishRepaired
    BY <2>30 DEF PublishRepaired
  <2>31. CASE PublishFails
    BY <2>31 DEF PublishFails, Passed
  <2>32. CASE DropJournal
    BY <2>32 DEF DropJournal, Passed
  <2>33. CASE Booted
    BY <2>33 DEF Booted
  <2>34. CASE Crash
    BY <2>34 DEF Crash, Cleared
  <2>35. CASE UNCHANGED vars
    BY <2>35 DEF vars
  <2> QED BY <1>2, <2>1, <2>2, <2>3, <2>4, <2>5, <2>6, <2>7, <2>8, <2>9, <2>10, <2>11, <2>12,
         <2>13, <2>14, <2>15, <2>16, <2>17, <2>18, <2>19, <2>20, <2>21, <2>22, <2>23, <2>24,
         <2>25, <2>26, <2>27, <2>28, <2>29, <2>30, <2>31, <2>32, <2>33, <2>34, <2>35
<1> QED BY <1>1, <1>2
  DEF Next, BeginStep, AbortStep, AppendStep, CheckpointStep, FinishStep, RecoverStep

\* The numbers of the store are numbers.
LEMMA Numbers ==
  ASSUME TypeOK, NEW s \in Stem
  PROVE  /\ pages[s] \in Seq(Page) /\ Len(pages[s]) \in Nat
         /\ synced[s] \in Nat /\ secured[s] \in Nat
         /\ slots[s] \in [0..1 -> Nat] /\ \A i \in 0..1 : slots[s][i] \in Nat
<1>1. /\ pages[s] \in Seq(Page) /\ synced[s] \in Nat /\ secured[s] \in Nat
      /\ slots[s] \in [0..1 -> Nat]
  BY DEF TypeOK
<1> QED BY <1>1

\* Two slots, one of which is written.
LEMMA LargerOf ==
  ASSUME NEW f \in [0..1 -> Nat]
  PROVE  /\ Larger(f) \in Nat
         /\ \A i \in 0..1 : f[i] <= Larger(f)
         /\ \A n \in Nat : f[0] <= n /\ f[1] <= n => Larger(f) <= n
<1>1. f[0] \in Nat /\ f[1] \in Nat
  OBVIOUS
<1> QED BY <1>1 DEF Larger

\* A slot is written with v; the other one still carries the promise.
LEMMA SlotWritten ==
  ASSUME TypeOK, cur \in Stem, NEW v \in Nat, slots' = [slots EXCEPT ![cur][turn] = v]
  PROVE  /\ slots' \in [Stem -> [0..1 -> Nat]]
         /\ slots'[cur][turn] = v /\ slots'[cur][1 - turn] = slots[cur][1 - turn]
         /\ \A s \in Stem \ {cur} : slots'[s] = slots[s]
         /\ \A i \in 0..1 : i # turn => slots'[cur][i] = slots[cur][i]
<1>1. slots[cur] \in [0..1 -> Nat] /\ turn \in 0..1 /\ (1 - turn) \in 0..1 /\ 1 - turn # turn
  BY DEF TypeOK
<1>2. slots'[cur] = [slots[cur] EXCEPT ![turn] = v]
  BY DEF TypeOK
<1>3. slots' \in [Stem -> [0..1 -> Nat]]
  BY SlotType
<1> QED BY <1>1, <1>2, <1>3 DEF TypeOK

\* What a power loss leaves of a file: at least what was synced.
LEMMA SurvivorsLen ==
  ASSUME TypeOK, NEW s \in Stem, NEW q \in Survivors(s)
  PROVE  Len(q) \in synced[s]..Len(pages[s])
<1>1. pages[s] \in Seq(Page) /\ synced[s] \in Nat
  BY DEF TypeOK
<1>2. CASE ~(pc = "repair_sync" /\ s = cur)
  <2>1. PICK n \in synced[s]..Len(pages[s]) : q = SubSeq(pages[s], 1, n)
    BY <1>2 DEF Survivors
  <2> QED BY <1>1, <2>1, SubSeqType
<1>3. CASE pc = "repair_sync" /\ s = cur
  <2> DEFINE prefixes == {SubSeq(pages[s], 1, n) : n \in synced[s]..Len(pages[s])}
  <2>1. PICK r \in prefixes, p \in Rewritten(pages[s][SafePages(s)]) :
          q = [r EXCEPT ![SafePages(s)] = p]
    BY <1>3 DEF Survivors
  <2>2. PICK n \in synced[s]..Len(pages[s]) : r = SubSeq(pages[s], 1, n)
    OBVIOUS
  <2>3. n \in 0..Len(pages[s])
    BY <1>1
  <2>4. r \in Seq(Page) /\ Len(r) = n
    BY <1>1, <2>2, <2>3, SubSeqType
  <2>5. SafePages(s) \in DOMAIN r => p \in Page
    <3>1. SafePages(s) \in DOMAIN r => pages[s][SafePages(s)] \in Page
      BY <1>1, <2>4
    <3> QED BY <3>1, RewrittenType
  <2> QED BY <2>1, <2>4, <2>5, ExceptType
<1> QED BY <1>2, <1>3

\* A new recording has empty slots and no promise.
LEMMA JournalBegin == TypeOK /\ Ownership /\ Control /\ Journal /\ Begin => Journal'
<1> SUFFICES ASSUME TypeOK, Ownership, Control, Journal, Begin PROVE Journal'
  OBVIOUS
<1>1. PICK t \in Times, a \in 0..MaxAttempt :
        /\ ~Taken(<<t, a>>)
        /\ parts' = parts \cup {<<t, a>>}
        /\ cur' = <<t, a>>
        /\ pages' = [pages EXCEPT ![<<t, a>>] = <<>>]
        /\ synced' = [synced EXCEPT ![<<t, a>>] = 0]
        /\ slots' = [slots EXCEPT ![<<t, a>>] = [i \in 0..1 |-> 0]]
  BY Zenon DEF Begin
<1> DEFINE s == <<t, a>>
<1>2. s \in Stem /\ s \notin parts \cup finals
  BY <1>1 DEF Taken, Stem
<1>3. secured[s] = 0
  BY <1>2 DEF Control, TypeOK
<1>4. pages'[s] = <<>> /\ synced'[s] = 0 /\ slots'[s] = [i \in 0..1 |-> 0]
  BY <1>1, <1>2 DEF TypeOK
<1>5. \A r \in Stem \ {s} :
        pages'[r] = pages[r] /\ synced'[r] = synced[r] /\ slots'[r] = slots[r]
  BY <1>1 DEF TypeOK
<1>6. pc' = "meta" /\ cur' = s /\ parts' = parts \cup {s} /\ UNCHANGED <<ckps, secured>>
  BY <1>1 DEF Begin, ghosts
<1>7. /\ \A r \in Stem : synced'[r] <= Len(pages'[r])
      /\ \A r \in Stem, i \in 0..1 : slots'[r][i] <= synced'[r]
      /\ \A r \in Stem : secured'[r] <= Larger(slots'[r])
  <2>1. Larger(slots'[s]) = 0 /\ \A i \in 0..1 : slots'[s][i] = 0
    BY <1>4 DEF Larger
  <2>2. Len(pages'[s]) = 0
    BY <1>4
  <2> HIDE DEF s
  <2> QED BY <1>2, <1>3, <1>4, <1>5, <1>6, <2>1, <2>2 DEF Journal
<1>8. \A r \in parts' : secured'[r] > 0 => r \in ckps'
  BY <1>3, <1>6 DEF Journal
<1> QED BY <1>3, <1>4, <1>6, <1>7, <1>8 DEF Journal, Appending, Opening

\* The slot that is written is not the one that carries the last checkpoint.
LEMMA JournalSlot ==
  TypeOK /\ Journal /\ Ownership /\ (SyncSlot \/ SyncSlotFails) => Journal'
<1> SUFFICES ASSUME TypeOK, Journal, Ownership, SyncSlot \/ SyncSlotFails PROVE Journal'
  OBVIOUS
<1> DEFINE n == Len(pages[cur])
<1>1. pc = "ckpt_slot" /\ cur \in Stem /\ cur \in parts /\ cur \in ckps
  BY DEF SyncSlot, SyncSlotFails, Journal, Ownership, Writing, TypeOK, Appending
<1>2. n \in Nat /\ synced[cur] = n
  BY <1>1 DEF TypeOK, Journal
<1>3. PICK v \in Nat : slots' = [slots EXCEPT ![cur][turn] = v]
                       /\ v <= n /\ (SyncSlot => v = n)
  <2>1. slots[cur][turn] \in Nat /\ slots[cur][turn] <= n
    BY <1>1, <1>2 DEF TypeOK, Journal
  <2> QED BY <1>2, <2>1 DEF SyncSlot, SyncSlotFails, SlotAfter
<1>4. /\ slots' \in [Stem -> [0..1 -> Nat]]
      /\ slots'[cur][turn] = v /\ slots'[cur][1 - turn] = slots[cur][1 - turn]
      /\ \A s \in Stem \ {cur} : slots'[s] = slots[s]
      /\ \A i \in 0..1 : i # turn => slots'[cur][i] = slots[cur][i]
  BY <1>1, <1>3, SlotWritten
<1>5. turn \in 0..1 /\ turn' = 1 - turn /\ 1 - turn' = turn /\ (1 - turn) \in 0..1
  BY DEF SyncSlot, SyncSlotFails, TypeOK
<1>6. cur' = cur /\ UNCHANGED <<pages, synced, parts, ckps>>
  BY DEF SyncSlot, SyncSlotFails, content, disk
<1>7. \A s \in Stem, i \in 0..1 : slots'[s][i] <= synced'[s]
  BY <1>1, <1>2, <1>3, <1>4, <1>6 DEF Journal
<1>8. \A s \in Stem : secured'[s] <= Larger(slots'[s])
  <2>1. ASSUME NEW s \in Stem \ {cur} PROVE secured'[s] <= Larger(slots'[s])
    <3>1. secured'[s] = secured[s]
      BY <1>1 DEF SyncSlot, SyncSlotFails, ghosts, TypeOK
    <3> QED BY <1>4, <3>1 DEF Journal
  <2>2. CASE SyncSlot
    <3>1. secured'[cur] = n /\ slots'[cur][turn] = n
      BY <1>1, <1>3, <1>4, <2>2 DEF SyncSlot, TypeOK
    <3>2. slots'[cur][turn] <= Larger(slots'[cur])
      BY <1>1, <1>4, <1>5, LargerOf
    <3> QED BY <2>1, <3>1, <3>2
  <2>3. CASE SyncSlotFails
    <3>1. secured'[cur] = secured[cur] /\ secured[cur] <= slots[cur][1 - turn]
      BY <1>1, <2>3 DEF SyncSlotFails, ghosts, Journal, Appending
    <3>2. slots'[cur][1 - turn] <= Larger(slots'[cur]) /\ Larger(slots'[cur]) \in Nat
      BY <1>1, <1>4, <1>5, LargerOf
    <3>3. secured[cur] \in Nat /\ slots[cur][1 - turn] \in Nat
      BY <1>1, <1>5 DEF TypeOK
    <3> QED BY <1>4, <2>1, <3>1, <3>2, <3>3
  <2> QED BY <2>2, <2>3
<1>9. pc' \in Appending \ {"finish"} =>
        /\ secured'[cur] <= slots'[cur][1 - turn']
        /\ phase' \in {"history", "joint"} => secured'[cur] = 0
  <2>1. CASE SyncSlot
    <3>1. secured'[cur] = n /\ phase' \notin {"history", "joint"}
      BY <1>1, <2>1 DEF SyncSlot, TypeOK, Journal
    <3>2. secured'[cur] = slots'[cur][1 - turn'] /\ n \in Nat
      BY <1>2, <1>3, <1>4, <1>5, <2>1, <3>1
    <3> QED BY <3>1, <3>2
  <2>2. CASE SyncSlotFails
    <3>1. pc' # "finish" => phase \in {"history", "joint"} /\ phase' = "capture"
      BY <2>2 DEF SyncSlotFails, Fail
    <3>2. phase \in {"history", "joint"} => secured'[cur] = 0
      BY <1>1, <2>2 DEF SyncSlotFails, ghosts, Journal, Appending
    <3>3. slots'[cur][1 - turn'] \in Nat
      BY <1>1, <1>4, <1>5
    <3> QED BY <3>1, <3>2, <3>3
  <2> QED BY <2>1, <2>2
<1>10. pc' \in {"append", "finish"}
  BY DEF SyncSlot, SyncSlotFails, Fail
<1>11. \A s \in parts : secured'[s] > 0 => s \in ckps
  BY <1>1, <1>2 DEF SyncSlot, SyncSlotFails, ghosts, Journal, TypeOK
<1> QED
  BY <1>1, <1>6, <1>7, <1>8, <1>9, <1>10, <1>11 DEF Journal, Appending, Opening

\* Nothing is written at the card while a .part is left as it is.
LEMMA JournalRepairSync ==
  TypeOK /\ Ownership /\ Control /\ Journal /\ RepairSync => Journal'
<1> SUFFICES ASSUME TypeOK, Ownership, Control, Journal, RepairSync PROVE Journal'
  OBVIOUS
<1> DEFINE n == SafePages(cur)
<1>1. cur \in parts /\ cur \in Stem /\ pages[cur] \in Seq(Page) /\ n \in 1..Len(pages[cur])
  BY DEF RepairSync, Ownership, TypeOK, Parses, Parse
<1>2. cur \in ckps /\ n = Larger(slots[cur])
  BY <1>1 DEF SafePages
<1>3. pages'[cur] = SubSeq(pages[cur], 1, n) /\ synced'[cur] = n
  BY <1>1 DEF RepairSync, TypeOK
<1>4. Len(pages'[cur]) = n
  BY <1>1, <1>3, SubSeqType
<1>5. \A i \in 0..1 : slots[cur][i] <= n
  BY <1>1, <1>2, LargerOf DEF TypeOK
<1>6. \A s \in Stem \ {cur} : pages'[s] = pages[s] /\ synced'[s] = synced[s]
  BY DEF RepairSync, TypeOK
<1>7. pc' = "publish" /\ UNCHANGED <<slots, secured, parts, ckps, cur>>
  BY DEF RepairSync, disk, ghosts
<1>8. n \in Nat
  BY <1>1, Numbers
<1> HIDE DEF n
<1>9. ASSUME NEW s \in Stem
      PROVE  synced'[s] <= Len(pages'[s]) /\ \A i \in 0..1 : slots'[s][i] <= synced'[s]
  <2>1. CASE s = cur
    BY <1>3, <1>4, <1>5, <1>7, <1>8, <2>1
  <2>2. CASE s # cur
    BY <1>6, <1>7, <2>2 DEF Journal
  <2> QED BY <2>1, <2>2
<1> QED BY <1>7, <1>9 DEF Journal, Appending, Opening

\* A power loss spares what the slots cover.
LEMMA JournalCrash == TypeOK /\ Ownership /\ Control /\ Journal /\ Crash => Journal'
<1> SUFFICES ASSUME TypeOK, Ownership, Control, Journal, Crash PROVE Journal'
  OBVIOUS
<1>1. PICK left \in [Stem -> UNION {Survivors(s) : s \in Stem}] :
        /\ \A s \in Stem : left[s] \in Survivors(s)
        /\ pages' = left
        /\ synced' = [s \in Stem |-> Len(left[s])]
  BY DEF Crash
<1>2. \A s \in Stem : synced'[s] = Len(pages'[s]) /\ synced'[s] >= synced[s] /\ synced'[s] \in Nat
  <2> SUFFICES ASSUME NEW s \in Stem
               PROVE  synced'[s] = Len(pages'[s]) /\ synced'[s] >= synced[s] /\ synced'[s] \in Nat
    OBVIOUS
  <2>1. Len(left[s]) \in synced[s]..Len(pages[s])
    BY <1>1, SurvivorsLen
  <2> QED BY <1>1, <2>1 DEF TypeOK
<1>3. pc' = "recover" /\ UNCHANGED <<parts, ckps, secured>>
  BY DEF Crash, disk
<1>4. ASSUME NEW s \in Stem
      PROVE  /\ \A i \in 0..1 : slots'[s][i] <= synced'[s]
             /\ secured[s] <= Larger(slots'[s])
  <2>1. CASE slots'[s] = slots[s]
    <3>1. \A i \in 0..1 : slots[s][i] <= synced[s] /\ slots[s][i] \in Nat
      BY Numbers DEF Journal
    <3>2. synced[s] \in Nat /\ secured[s] <= Larger(slots[s])
      BY Numbers DEF Journal
    <3> QED BY <1>2, <2>1, <3>1, <3>2
  <2>2. CASE slots'[s] # slots[s]
    <3>1. pc = "ckpt_slot" /\ cur \in Stem /\ synced[cur] = Len(pages[cur])
      BY <2>2 DEF Crash, Journal, TypeOK
    <3>2. PICK v \in SlotAfter(Len(pages[cur])) : slots' = [slots EXCEPT ![cur][turn] = v]
      BY <3>1 DEF Crash
    <3>3. v \in Nat /\ v <= synced[cur]
      <4>1. slots[cur][turn] \in Nat /\ slots[cur][turn] <= synced[cur] /\ synced[cur] \in Nat
        BY <3>1 DEF Journal, TypeOK
      <4> QED BY <3>1, <4>1 DEF SlotAfter
    <3>4. /\ slots' \in [Stem -> [0..1 -> Nat]]
          /\ slots'[cur][turn] = v /\ slots'[cur][1 - turn] = slots[cur][1 - turn]
          /\ \A r \in Stem \ {cur} : slots'[r] = slots[r]
          /\ \A i \in 0..1 : i # turn => slots'[cur][i] = slots[cur][i]
      BY <3>1, <3>2, <3>3, SlotWritten
    <3>5. s = cur
      BY <2>2, <3>4
    <3>6. turn \in 0..1 /\ (1 - turn) \in 0..1
      BY DEF TypeOK
    <3>7. \A i \in 0..1 : slots'[cur][i] <= synced'[cur]
      <4> SUFFICES ASSUME NEW i \in 0..1 PROVE slots'[cur][i] <= synced'[cur]
        OBVIOUS
      <4>1. slots'[cur][i] <= synced[cur] /\ slots'[cur][i] \in Nat
        BY <3>1, <3>3, <3>4 DEF Journal
      <4>2. synced[cur] \in Nat /\ synced'[cur] \in Nat /\ synced'[cur] >= synced[cur]
        BY <1>2, <3>1, Numbers
      <4> QED BY <4>1, <4>2
    <3>8. secured[cur] <= slots'[cur][1 - turn]
      BY <3>1, <3>4 DEF Journal, Appending
    <3>9. slots'[cur][1 - turn] <= Larger(slots'[cur]) /\ Larger(slots'[cur]) \in Nat
      BY <3>1, <3>4, <3>6, LargerOf
    <3>10. secured[cur] \in Nat /\ slots'[cur][1 - turn] \in Nat
      BY <3>1, <3>4, <3>6 DEF TypeOK
    <3> QED BY <3>5, <3>7, <3>8, <3>9, <3>10
  <2> QED BY <2>1, <2>2
<1>5. \A s \in Stem : synced'[s] <= Len(pages'[s])
  BY <1>2
<1> QED BY <1>3, <1>4, <1>5 DEF Journal, Appending, Opening

\* Looking at a file, or marking it, touches neither slot nor length.
LEMMA JournalRecoverOne ==
  ASSUME TypeOK, Ownership, Journal, NEW s \in todo, RecoverFails(s) \/ Repair(s)
  PROVE  Journal'
<1>1. CASE RecoverFails(s)
  BY <1>1 DEF RecoverFails, Passed, Journal, Appending, Opening, disk, content, ghosts
<1>2. CASE Repair(s)
  <2>1. s \in Stem /\ pages[s] \in Seq(Page)
    BY DEF TypeOK
  <2> DEFINE p == [pages[s][SafePages(s)] EXCEPT !.kind = "last"]
  <2>2. pages'[s] = [pages[s] EXCEPT ![SafePages(s)] = p]
    BY <1>2, <2>1 DEF Repair, TypeOK
  <2>3. Len(pages'[s]) = Len(pages[s])
    <3>1. SafePages(s) \in DOMAIN pages[s] => p \in Page
      BY <2>1, RewrittenType DEF Rewritten, Kinds
    <3> QED BY <2>1, <2>2, <3>1, ExceptType
  <2>4. \A r \in Stem : Len(pages'[r]) = Len(pages[r])
    BY <1>2, <2>3 DEF Repair, TypeOK
  <2>5. pc' = "repair_sync" /\ UNCHANGED <<slots, secured, parts, ckps, synced>>
    BY <1>2 DEF Repair, disk, ghosts
  <2> QED BY <2>4, <2>5 DEF Journal, Appending, Opening
<1> QED BY <1>1, <1>2

\* Every step keeps Journal.
LEMMA JournalStep ==
  ASSUME TypeOK, Ownership, Control, Journal, [Next]_vars
  PROVE  Journal'
<1>1. CASE Begin
  BY <1>1, JournalBegin
<1>2. CASE SyncSlot
  BY <1>2, JournalSlot
<1>3. CASE SyncSlotFails
  BY <1>3, JournalSlot
<1>4. CASE RepairSync
  BY <1>4, JournalRepairSync
<1>5. CASE Crash
  BY <1>5, JournalCrash
<1>6. ASSUME NEW s \in todo, RecoverFails(s) \/ Repair(s) PROVE Journal'
  BY <1>6, JournalRecoverOne
<1>7. CASE \/ CreateMeta \/ WriteHeaders \/ CreateJournal \/ Start \/ Abort \/ AbortJournal
           \/ AbortMeta \/ Buffer \/ Flush \/ FlushFails \/ TooLarge \/ CaptureFails
           \/ HistoryDone \/ StopCapture \/ Padded \/ SyncFile \/ SyncFileFails \/ WriteLast
           \/ WriteLastFails \/ FinishRefused \/ FinishSync \/ FinishFails \/ Rename
           \/ Unlink \/ RepairFails \/ PublishRepaired \/ PublishFails \/ DropJournal
           \/ Booted \/ UNCHANGED vars
  <2> USE DEF Journal, Control, Ownership, TypeOK, Writing, Opening, Appending, Larger, disk,
              content, writer, ghosts
  <2>1. CASE CreateMeta
    BY <2>1 DEF CreateMeta
  <2>2. CASE WriteHeaders
    BY <2>2 DEF WriteHeaders
  <2>3. CASE CreateJournal
    BY <2>3 DEF CreateJournal
  <2>4. CASE Start
    BY <2>4 DEF Start
  <2>5. CASE Abort
    BY <2>5 DEF Abort
  <2>6. CASE AbortJournal
    BY <2>6 DEF AbortJournal
  <2>7. CASE AbortMeta
    BY <2>7 DEF AbortMeta, Rest, Cleared
  <2>8. CASE Buffer
    BY <2>8 DEF Buffer
  <2>9. CASE Flush
    BY <2>9 DEF Flush
  <2>10. CASE FlushFails
    BY <2>10 DEF FlushFails, Fail
  <2>11. CASE TooLarge
    BY <2>11 DEF TooLarge, Fail
  <2>12. CASE CaptureFails
    BY <2>12 DEF CaptureFails
  <2>13. CASE HistoryDone
    BY <2>13 DEF HistoryDone
  <2>14. CASE StopCapture
    BY <2>14 DEF StopCapture
  <2>15. CASE Padded
    BY <2>15 DEF Padded
  <2>16. CASE SyncFile
    BY <2>16 DEF SyncFile
  <2>17. CASE SyncFileFails
    BY <2>17 DEF SyncFileFails, Fail
  <2>18. CASE WriteLast
    BY <2>18 DEF WriteLast
  <2>19. CASE WriteLastFails
    BY <2>19 DEF WriteLastFails, Rest, Cleared
  <2>20. CASE FinishRefused
    BY <2>20 DEF FinishRefused, Rest, Cleared
  <2>21. CASE FinishSync
    BY <2>21 DEF FinishSync
  <2>22. CASE FinishFails
    BY <2>22 DEF FinishFails, Rest, Cleared
  <2>23. CASE Rename
    BY <2>23 DEF Rename
  <2>24. CASE Unlink
    BY <2>24 DEF Unlink, Rest, Cleared
  <2>25. CASE RepairFails
    BY <2>25 DEF RepairFails, Passed
  <2>26. CASE PublishRepaired
    BY <2>26 DEF PublishRepaired
  <2>27. CASE PublishFails
    BY <2>27 DEF PublishFails, Passed
  <2>28. CASE DropJournal
    BY <2>28 DEF DropJournal, Passed
  <2>29. CASE Booted
    BY <2>29 DEF Booted
  <2>30. CASE UNCHANGED vars
    BY <2>30 DEF vars
  <2> QED BY <1>7, <2>1, <2>2, <2>3, <2>4, <2>5, <2>6, <2>7, <2>8, <2>9, <2>10, <2>11, <2>12,
         <2>13, <2>14, <2>15, <2>16, <2>17, <2>18, <2>19, <2>20, <2>21, <2>22, <2>23, <2>24,
         <2>25, <2>26, <2>27, <2>28, <2>29, <2>30
<1> QED BY <1>1, <1>2, <1>3, <1>4, <1>5, <1>6, <1>7
  DEF Next, BeginStep, AbortStep, AppendStep, CheckpointStep, FinishStep, RecoverStep

-------------------------------------------------------------------------------
(***************************************************************************)
(* Writer: the page writer against the pages it has written.               *)
(***************************************************************************)

LEMMA WriterInit == Init => Writer
BY DEF Init, Writer, Opening, Appending

\* The look-ahead is shorter than a frame: one silent frame flushes it.
LEMMA PaddingIsOne == Padding = 1
<1>1. /\ FrameGranule \in Nat /\ FrameGranule > 1
      /\ EncoderSkip \in Nat /\ EncoderSkip >= 1 /\ EncoderSkip < FrameGranule
  BY StoreAssumption
<1> DEFINE a == EncoderSkip + FrameGranule - 1
<1>2. a \in Nat /\ a >= FrameGranule /\ a < 2 * FrameGranule
  BY <1>1
<1>3. a \div FrameGranule = 1
  BY <1>1, <1>2
<1> QED BY <1>3 DEF Padding

\* A page appended to a file keeps what the writer knows of it.
LEMMA AppendClean ==
  ASSUME NEW q \in Seq(Page), NEW p \in Page
  PROVE  /\ Damaged(Append(q, p)) <=> Damaged(q) \/ p.kind = "broken"
         /\ /\ Clean(q, Len(q)) /\ Audio(p)
            /\ q # <<>> => q[Len(q)].frames <= p.frames
            => Clean(Append(q, p), Len(q) + 1)
         /\ Len(Append(q, p)) = Len(q) + 1 /\ Append(q, p)[Len(q) + 1] = p
         /\ Append(q, p) # <<>>
<1> DEFINE r == Append(q, p)
<1>1. /\ Len(r) = Len(q) + 1 /\ r[Len(q) + 1] = p
      /\ \A i \in 1..Len(q) : r[i] = q[i]
      /\ r # <<>>
  OBVIOUS
<1>2. Len(q) \in Nat /\ (q # <<>> <=> Len(q) > 0)
  OBVIOUS
<1> HIDE DEF r
<1>3. Damaged(r) <=> Damaged(q) \/ p.kind = "broken"
  BY <1>1, <1>2 DEF Damaged
<1>4. ASSUME Clean(q, Len(q)), Audio(p), q # <<>> => q[Len(q)].frames <= p.frames
      PROVE  Clean(r, Len(q) + 1)
  <2>1. ASSUME NEW i \in 1..(Len(q) + 1)
        PROVE  Audio(r[i]) /\ (i > 1 => r[i - 1].frames <= r[i].frames)
    <3>1. CASE i = Len(q) + 1
      BY <1>1, <1>2, <1>4, <3>1
    <3>2. CASE i # Len(q) + 1
      <4>1. i \in 1..Len(q) /\ (i > 1 => (i - 1) \in 1..Len(q))
        BY <1>2, <3>2
      <4> QED BY <1>1, <1>4, <4>1 DEF Clean
    <3> QED BY <3>1, <3>2
  <2> QED BY <2>1 DEF Clean
<1> QED BY <1>1, <1>3, <1>4 DEF r

\* A packet that joins the page in memory.
LEMMA WriterBuffer == TypeOK /\ Writer /\ Buffer => Writer'
<1> SUFFICES ASSUME TypeOK, Writer, Buffer PROVE Writer'
  OBVIOUS
<1>1. pc = "append" /\ pc' = "append" /\ UNCHANGED <<pages, cur, phase, failed>>
  BY DEF Buffer, content
<1>2. /\ frames' = frames + 1 /\ buffered' = buffered + 1
      /\ output' = IF phase = "padding" THEN output ELSE output + 1
      /\ frames \in Nat /\ output \in Nat /\ buffered \in Nat /\ history \in Nat
  BY DEF Buffer, Count, TypeOK
<1>3. phase = "padding" => ~failed /\ output = frames
  BY <1>1, <1>2, PaddingIsOne DEF Buffer, Wanted, Writer, Appending
<1>4. frames' - buffered' = frames - buffered
  BY <1>2
<1>5. pages[cur] # <<>> \/ frames = buffered \/ Damaged(pages[cur])
  BY <1>1 DEF Writer, Appending
<1>6. /\ buffered <= frames /\ output <= frames /\ frames - output <= 1
      /\ phase # "padding" => output = frames
      /\ phase = "padding" /\ ~failed => output > 0
  BY <1>1 DEF Writer, Appending
<1>7. /\ buffered' <= frames' /\ (frames' > 0 => buffered' > 0 /\ output' > 0)
      /\ phase' # "padding" => output' = frames'
      /\ output' <= frames' /\ frames' - output' <= 1
      /\ phase' = "padding" /\ ~failed' => output' > 0
  BY <1>1, <1>2, <1>3, <1>6
<1>8. Damaged(pages[cur]) => failed /\ output' = frames' /\ "write" \in Faults
  BY <1>1, <1>2, <1>3, <1>6 DEF Writer, Appending
<1>9. ~Damaged(pages[cur]) =>
        /\ Clean(pages[cur], Len(pages[cur]))
        /\ IF pages[cur] = <<>> THEN frames' = buffered'
           ELSE pages[cur][Len(pages[cur])].frames = frames' - buffered'
  BY <1>1, <1>2, <1>4 DEF Writer, Appending
<1> QED BY <1>1, <1>7, <1>8, <1>9 DEF Writer, Appending, Opening

\* The writer starts on an empty file.
LEMMA WriterStart == TypeOK /\ Journal /\ Writer /\ Start => Writer'
<1> SUFFICES ASSUME TypeOK, Journal, Writer, Start PROVE Writer'
  OBVIOUS
<1>1. pages[cur] = <<>> /\ frames = 0 /\ output = 0 /\ buffered = 0 /\ ~failed /\ history \in Nat
  BY DEF Start, Journal, Writer, Opening, TypeOK
<1>2. ~Damaged(<<>>) /\ Clean(<<>>, Len(<<>>))
  BY DEF Damaged, Clean
<1>3. /\ pc' = "append" /\ phase' # "padding"
      /\ UNCHANGED <<pages, cur, frames, output, buffered, failed>>
  BY DEF Start, content, writer
<1> QED BY <1>1, <1>2, <1>3 DEF Writer, Appending, Opening

\* A page is flushed because the packet after it is wanted.
LEMMA WriterFlush == TypeOK /\ Ownership /\ Writer /\ Flush => Writer'
<1> SUFFICES ASSUME TypeOK, Ownership, Writer, Flush PROVE Writer'
  OBVIOUS
<1> DEFINE q == pages[cur]
<1>1. /\ pc = "append" /\ pc' \in {"append", "ckpt_file"} /\ cur \in Stem
      /\ UNCHANGED <<cur, phase, failed>>
  BY DEF Flush, TypeOK
<1>2. /\ frames' = frames + 1 /\ buffered' = 1
      /\ output' = IF phase = "padding" THEN output ELSE output + 1
      /\ frames \in Nat /\ output \in Nat /\ buffered \in Nat /\ history \in Nat
      /\ buffered >= 1
  BY StoreAssumption DEF Flush, Count, TypeOK, MayFill
<1>3. phase = "padding" => ~failed /\ output = frames
  BY <1>1, <1>2, PaddingIsOne DEF Flush, Wanted, Writer, Appending
<1>4. q \in Seq(Page) /\ AudioPage \in Page /\ pages'[cur] = Append(q, AudioPage)
  BY <1>1, AudioPageType DEF Flush, TypeOK
<1>5. AudioPage.kind = "audio" /\ AudioPage.frames = frames
      /\ AudioPage.granule = frames * FrameGranule
  BY DEF AudioPage
<1>6. /\ buffered <= frames /\ output <= frames /\ frames - output <= 1
      /\ phase # "padding" => output = frames
      /\ phase = "padding" /\ ~failed => output > 0
  BY <1>1 DEF Writer, Appending
<1>7. /\ buffered' <= frames' /\ (frames' > 0 => buffered' > 0 /\ output' > 0)
      /\ phase' # "padding" => output' = frames'
      /\ output' <= frames' /\ frames' - output' <= 1
      /\ phase' = "padding" /\ ~failed' => output' > 0
      /\ frames' - buffered' = frames /\ frames >= 1
  BY <1>1, <1>2, <1>3, <1>6
<1>8. Damaged(pages'[cur]) <=> Damaged(q)
  BY <1>4, <1>5, AppendClean
<1>9. Damaged(q) => failed /\ output' = frames' /\ "write" \in Faults
  BY <1>1, <1>2, <1>3, <1>6 DEF Writer, Appending
<1>10. ~Damaged(q) =>
        /\ Clean(pages'[cur], Len(pages'[cur]))
        /\ pages'[cur] # <<>> /\ pages'[cur][Len(pages'[cur])].frames = frames' - buffered'
  <2> SUFFICES ASSUME ~Damaged(q)
               PROVE  /\ Clean(pages'[cur], Len(pages'[cur])) /\ pages'[cur] # <<>>
                      /\ pages'[cur][Len(pages'[cur])].frames = frames' - buffered'
    OBVIOUS
  <2>1. Clean(q, Len(q)) /\ (q # <<>> => q[Len(q)].frames = frames - buffered)
    BY <1>1 DEF Writer, Appending
  <2>2. Audio(AudioPage)
    BY <1>5, <1>7 DEF Audio
  <2>3. q # <<>> => q[Len(q)].frames <= AudioPage.frames
    BY <1>2, <1>5, <2>1
  <2>4. Clean(pages'[cur], Len(q) + 1)
    BY <1>4, <2>1, <2>2, <2>3, AppendClean
  <2>5. Len(pages'[cur]) = Len(q) + 1 /\ pages'[cur][Len(q) + 1] = AudioPage
    BY <1>4, AppendClean
  <2>6. pages'[cur] # <<>>
    BY <1>4, AppendClean
  <2> QED BY <1>5, <1>7, <2>4, <2>5, <2>6
<1> QED BY <1>1, <1>7, <1>8, <1>9, <1>10 DEF Writer, Appending, Opening

\* A page write that fails leaves a damaged page and sets the error.
LEMMA WriterFlushFails == TypeOK /\ Writer /\ FlushFails => Writer'
<1> SUFFICES ASSUME TypeOK, Writer, FlushFails PROVE Writer'
  OBVIOUS
<1>1. /\ pc = "append" /\ pc' \in {"append", "finish"} /\ cur \in Stem /\ failed'
      /\ phase' = (IF phase \in {"history", "joint"} THEN "capture" ELSE phase)
      /\ UNCHANGED <<cur, frames, output, buffered>> /\ "write" \in Faults
      /\ frames \in Nat /\ output \in Nat /\ buffered \in Nat /\ history \in Nat
  BY DEF FlushFails, Fail, TypeOK, writer
<1>2. /\ buffered <= frames /\ output <= frames /\ frames - output <= 1
      /\ phase # "padding" => output = frames
      /\ frames > 0 => buffered > 0 /\ output > 0
  BY <1>1 DEF Writer, Appending
<1>3. output = frames
  BY <1>1, <1>2, PaddingIsOne DEF FlushFails, Wanted
<1>4. Damaged(pages'[cur])
  <2>1. pages[cur] \in Seq(Page) /\ BrokenPage \in Page
        /\ pages'[cur] = Append(pages[cur], BrokenPage)
    BY <1>1, BrokenPageType DEF FlushFails, TypeOK
  <2>2. BrokenPage.kind = "broken"
    BY DEF BrokenPage
  <2> QED BY <2>1, <2>2, AppendClean
<1> QED BY <1>1, <1>2, <1>3, <1>4 DEF Writer, Appending, Opening

\* Every step keeps Writer.
LEMMA WriterStep ==
  ASSUME TypeOK, Ownership, Journal, Writer, [Next]_vars
  PROVE  Writer'
<1>1. CASE Start
  BY <1>1, WriterStart
<1>2. CASE Buffer
  BY <1>2, WriterBuffer
<1>3. CASE Flush
  BY <1>3, WriterFlush
<1>4. CASE FlushFails
  BY <1>4, WriterFlushFails
<1>5. CASE Padded
  BY <1>5, PaddingIsOne
  DEF Padded, Writer, TypeOK, Writing, Opening, Appending, Phases, disk, content, writer,
      ghosts
<1>6. ASSUME NEW s \in todo, RecoverFails(s) \/ Repair(s) PROVE Writer'
  BY <1>6 DEF RecoverFails, Repair, Passed, Journal, Writer, TypeOK, Writing, Opening,
       Appending, Phases, disk, content, writer, ghosts
<1>7. CASE \/ Begin \/ CreateMeta \/ WriteHeaders \/ CreateJournal \/ Abort \/ AbortJournal
           \/ AbortMeta \/ TooLarge \/ CaptureFails \/ HistoryDone \/ StopCapture
           \/ SyncFile \/ SyncFileFails \/ SyncSlot \/ SyncSlotFails \/ WriteLast
           \/ WriteLastFails \/ FinishRefused \/ FinishSync \/ FinishFails \/ Rename
           \/ Unlink \/ RepairSync \/ RepairFails \/ PublishRepaired \/ PublishFails
           \/ DropJournal \/ Booted \/ Crash \/ UNCHANGED vars
  <2> USE DEF Journal, Writer, TypeOK, Writing, Opening, Appending, Phases, disk, content,
              writer, ghosts
  <2>1. CASE Begin
    BY <2>1 DEF Begin
  <2>2. CASE CreateMeta
    BY <2>2 DEF CreateMeta
  <2>3. CASE WriteHeaders
    BY <2>3 DEF WriteHeaders
  <2>4. CASE CreateJournal
    BY <2>4 DEF CreateJournal
  <2>5. CASE Abort
    BY <2>5 DEF Abort
  <2>6. CASE AbortJournal
    BY <2>6 DEF AbortJournal
  <2>7. CASE AbortMeta
    BY <2>7 DEF AbortMeta, Rest, Cleared
  <2>8. CASE TooLarge
    BY <2>8 DEF TooLarge, Fail
  <2>9. CASE CaptureFails
    BY <2>9 DEF CaptureFails
  <2>10. CASE HistoryDone
    BY <2>10 DEF HistoryDone
  <2>11. CASE StopCapture
    BY <2>11 DEF StopCapture
  <2>12. CASE SyncFile
    BY <2>12 DEF SyncFile
  <2>13. CASE SyncFileFails
    BY <2>13 DEF SyncFileFails, Fail
  <2>14. CASE SyncSlot
    BY <2>14 DEF SyncSlot
  <2>15. CASE SyncSlotFails
    BY <2>15 DEF SyncSlotFails, Fail
  <2>16. CASE WriteLast
    BY <2>16 DEF WriteLast
  <2>17. CASE WriteLastFails
    BY <2>17 DEF WriteLastFails, Rest, Cleared
  <2>18. CASE FinishRefused
    BY <2>18 DEF FinishRefused, Rest, Cleared
  <2>19. CASE FinishSync
    BY <2>19 DEF FinishSync
  <2>20. CASE FinishFails
    BY <2>20 DEF FinishFails, Rest, Cleared
  <2>21. CASE Rename
    BY <2>21 DEF Rename
  <2>22. CASE Unlink
    BY <2>22 DEF Unlink, Rest, Cleared
  <2>23. CASE RepairSync
    BY <2>23 DEF RepairSync
  <2>24. CASE RepairFails
    BY <2>24 DEF RepairFails, Passed
  <2>25. CASE PublishRepaired
    BY <2>25 DEF PublishRepaired
  <2>26. CASE PublishFails
    BY <2>26 DEF PublishFails, Passed
  <2>27. CASE DropJournal
    BY <2>27 DEF DropJournal, Passed
  <2>28. CASE Booted
    BY <2>28 DEF Booted
  <2>29. CASE Crash
    BY <2>29 DEF Crash, Cleared
  <2>30. CASE UNCHANGED vars
    BY <2>30 DEF vars
  <2> QED BY <1>7, <2>1, <2>2, <2>3, <2>4, <2>5, <2>6, <2>7, <2>8, <2>9, <2>10, <2>11, <2>12,
         <2>13, <2>14, <2>15, <2>16, <2>17, <2>18, <2>19, <2>20, <2>21, <2>22, <2>23, <2>24,
         <2>25, <2>26, <2>27, <2>28, <2>29, <2>30
<1> QED BY <1>1, <1>2, <1>3, <1>4, <1>5, <1>6, <1>7
  DEF Next, BeginStep, AbortStep, AppendStep, CheckpointStep, FinishStep, RecoverStep

-------------------------------------------------------------------------------
(***************************************************************************)
(* Publishable: what is published, or about to be, parses to its end.      *)
(***************************************************************************)

LEMMA PublishableInit == Init => Publishable
BY DEF Init, Publishable

\* Granules grow with frames.
LEMMA TimesMono ==
  ASSUME NEW a \in Nat, NEW b \in Nat, NEW g \in Nat
  PROVE  /\ a <= b => a * g <= b * g
         /\ a >= 1 => a * g >= g
         /\ (a + 1) * g = a * g + g
OBVIOUS

\* The granules of clean pages: at least a frame each, and in order.
LEMMA CleanGranules ==
  ASSUME NEW q \in Seq(Page), NEW k \in 1..Len(q), Clean(q, k)
  PROVE  /\ \A i \in 1..k : /\ q[i].kind = "audio"
                            /\ q[i].granule = q[i].frames * FrameGranule
                            /\ q[i].granule \in Nat /\ q[i].granule >= FrameGranule
         /\ \A i \in 1..k : i > 1 => q[i].granule >= q[i - 1].granule
<1>1. FrameGranule \in Nat
  BY StoreAssumption
<1>2. ASSUME NEW i \in 1..k
      PROVE  /\ q[i].kind = "audio" /\ q[i].frames \in Nat /\ q[i].granule \in Nat
             /\ q[i].granule = q[i].frames * FrameGranule
             /\ q[i].granule >= FrameGranule
  <2>1. q[i] \in Page
    OBVIOUS
  <2>2. Audio(q[i])
    BY DEF Clean
  <2> QED BY <1>1, <2>1, <2>2, TimesMono DEF Audio, Page
<1>3. ASSUME NEW i \in 1..k, i > 1 PROVE q[i].granule >= q[i - 1].granule
  <2>1. (i - 1) \in 1..k /\ q[i - 1].frames <= q[i].frames
    BY <1>3 DEF Clean
  <2> QED BY <1>1, <1>2, <2>1, TimesMono
<1> QED BY <1>2, <1>3

\* Clean pages parse, though not to an end-of-stream page.
LEMMA CleanParses ==
  ASSUME NEW q \in Seq(Page), NEW k \in 1..Len(q), Clean(q, k),
         NEW skip \in {0, EncoderSkip}
  PROVE  Parse(q, skip, k, FALSE) /\ q[k].kind = "audio"
<1>1. skip \in Nat /\ skip < FrameGranule /\ FrameGranule \in Nat
  BY StoreAssumption
<1>2. /\ \A i \in 1..k : /\ q[i].kind = "audio"
                         /\ q[i].granule = q[i].frames * FrameGranule
                         /\ q[i].granule \in Nat /\ q[i].granule >= FrameGranule
      /\ \A i \in 1..k : i > 1 => q[i].granule >= q[i - 1].granule
  BY CleanGranules
<1>3. k \in 1..k
  OBVIOUS
<1> QED BY <1>1, <1>2, <1>3 DEF Parse

\* Only the pages that are read matter.
LEMMA ParsePrefix ==
  ASSUME NEW q \in Seq(Page), NEW r \in Seq(Page), NEW k, NEW skip, NEW e \in BOOLEAN,
         Parse(q, skip, k, e), k <= Len(r), \A i \in 1..k : r[i] = q[i]
  PROVE  Parse(r, skip, k, e)
<1>1. k \in 1..Len(q) /\ k \in 1..Len(r) /\ k \in 1..k
  BY DEF Parse
<1>2. \A i \in 1..k : i > 1 => (i - 1) \in 1..k
  BY <1>1
<1> QED BY <1>1, <1>2 DEF Parse

\* ogg_opus_repair marks the last page.
LEMMA ParseMarked ==
  ASSUME NEW q \in Seq(Page), NEW k, NEW skip, Parse(q, skip, k, FALSE),
         q[k].kind = "audio", NEW r \in Seq(Page), Len(r) = Len(q),
         r[k] = [q[k] EXCEPT !.kind = "last"], \A i \in 1..(k - 1) : r[i] = q[i]
  PROVE  Parse(r, skip, k, TRUE)
<1>1. k \in 1..Len(q) /\ k \in Nat /\ k \in 1..k
  BY DEF Parse
<1>2. q[k] \in Page /\ FrameGranule \in Nat
  BY <1>1, StoreAssumption
<1>3. r[k].kind = "last" /\ r[k].frames = q[k].frames /\ r[k].granule = q[k].granule
  BY <1>2 DEF Page
<1>4. q[k].granule = q[k].frames * FrameGranule /\ q[k].granule \in Nat
  BY <1>1, <1>2 DEF Parse, Page
<1>5. \A i \in 1..k : i # k => i \in 1..(k - 1) /\ r[i] = q[i]
  BY <1>1
<1>6. ASSUME NEW i \in 1..k
      PROVE  /\ r[i].kind # "broken"
             /\ r[i].kind = "last" => i = k /\ r[i].granule <= r[i].frames * FrameGranule
             /\ r[i].kind = "audio" => r[i].granule = r[i].frames * FrameGranule
             /\ r[i].granule >= skip
             /\ i > 1 => r[i].granule >= r[i - 1].granule
  <2>1. i > 1 => (i - 1) \in 1..k /\ i - 1 # k /\ r[i - 1] = q[i - 1]
                 /\ q[i].granule >= q[i - 1].granule
    <3>1. i > 1 => (i - 1) \in 1..(k - 1)
      BY <1>1
    <3> QED BY <1>1, <1>5, <3>1 DEF Parse
  <2>2. q[i].granule >= skip
    BY DEF Parse
  <2>3. CASE i = k
    <3>1. /\ r[i].kind = "last" /\ r[i].granule = q[i].granule
          /\ r[i].granule = r[i].frames * FrameGranule /\ r[i].granule \in Nat
      BY <1>3, <1>4, <2>3
    <3>2. r[i].granule <= r[i].frames * FrameGranule
      BY <3>1
    <3> QED BY <2>1, <2>2, <2>3, <3>1, <3>2
  <2>4. CASE i # k
    BY <1>5, <2>1, <2>4 DEF Parse
  <2> QED BY <2>3, <2>4
<1> QED BY <1>1, <1>3, <1>6 DEF Parse

\* The writer ends clean pages with a last one that covers what was output.
LEMMA ParseEnded ==
  ASSUME NEW q \in Seq(Page), Clean(q, Len(q)), NEW skip \in {0, EncoderSkip}, NEW p \in Page,
         p.kind = "last", p.granule <= p.frames * FrameGranule, p.granule > skip,
         q # <<>> => p.granule >= q[Len(q)].granule
  PROVE  Parse(Append(q, p), skip, Len(q) + 1, TRUE)
<1> DEFINE r == Append(q, p)
           n == Len(q)
<1>1. /\ r \in Seq(Page) /\ Len(r) = n + 1 /\ n \in Nat /\ r[n + 1] = p
      /\ \A i \in 1..n : r[i] = q[i]
      /\ (q # <<>> <=> n > 0)
  OBVIOUS
<1>2. skip \in Nat /\ skip < FrameGranule /\ FrameGranule \in Nat /\ p.granule \in Nat
  BY StoreAssumption DEF Page
<1>3. \A i \in 1..n : /\ q[i].kind = "audio"
                      /\ q[i].granule = q[i].frames * FrameGranule
                      /\ q[i].granule \in Nat /\ q[i].granule >= FrameGranule
                      /\ i > 1 => q[i].granule >= q[i - 1].granule
  <2>1. CASE n = 0
    BY <2>1
  <2>2. CASE n > 0
    BY <1>1, <2>2, CleanGranules
  <2> QED BY <1>1, <2>1, <2>2
<1> HIDE DEF r, n
<1>4. ASSUME NEW i \in 1..(n + 1)
      PROVE  /\ r[i].kind # "broken"
             /\ r[i].kind = "last" => i = n + 1 /\ r[i].granule <= r[i].frames * FrameGranule
             /\ r[i].kind = "audio" => r[i].granule = r[i].frames * FrameGranule
             /\ r[i].granule >= skip
             /\ i > 1 => r[i].granule >= r[i - 1].granule
  <2>1. CASE i = n + 1
    <3>1. i > 1 => q # <<>> /\ (i - 1) \in 1..n /\ r[i - 1] = q[n]
      BY <1>1, <2>1
    <3> QED BY <1>1, <1>2, <2>1, <3>1 DEF n
  <2>2. CASE i # n + 1
    <3>1. i \in 1..n /\ (i > 1 => (i - 1) \in 1..n)
      BY <1>1, <2>2
    <3>2. r[i] = q[i] /\ (i > 1 => r[i - 1] = q[i - 1])
      BY <1>1, <3>1
    <3>3. /\ q[i].kind = "audio" /\ q[i].granule = q[i].frames * FrameGranule
          /\ q[i].granule \in Nat /\ q[i].granule >= FrameGranule
          /\ i > 1 => q[i].granule >= q[i - 1].granule
      BY <1>3, <3>1
    <3> QED BY <1>2, <3>2, <3>3
  <2> QED BY <2>1, <2>2
<1>5. (n + 1) \in 1..Len(r)
  BY <1>1
<1>6. Parse(r, skip, n + 1, TRUE)
  BY <1>1, <1>4, <1>5 DEF Parse
<1> QED BY <1>6 DEF r, n

\* A new recording changes no published one.
LEMMA PublishableBegin ==
  TypeOK /\ Publishable /\ FinalsKept /\ Begin => Publishable'
<1> SUFFICES ASSUME TypeOK, Publishable, FinalsKept, Begin PROVE Publishable'
  OBVIOUS
<1>1. PICK t \in Times, a \in 0..MaxAttempt, n \in 0..MaxHistory :
        /\ ~Taken(<<t, a>>)
        /\ \E h \in IF n = 0 THEN {EncoderSkip} ELSE Headers :
             header' = [header EXCEPT ![<<t, a>>] = h]
  BY ZenonT(60) DEF Begin
<1>2. PICK h \in IF n = 0 THEN {EncoderSkip} ELSE Headers :
        header' = [header EXCEPT ![<<t, a>>] = h]
  BY <1>1
<1> DEFINE s == <<t, a>>
<1>3. s \in Stem /\ s \notin finals
  BY <1>1 DEF Taken, Stem
<1>4. header'[s] = h /\ \A r \in Stem \ {s} : header'[r] = header[r]
  BY <1>2, <1>3 DEF TypeOK
<1>5. Headers \subseteq {EncoderSkip} => h = EncoderSkip
  BY <1>2
<1>6. pc' = "meta" /\ finals' = finals /\ finals \subseteq Stem
  BY DEF Begin, TypeOK
<1> HIDE DEF s
<1>7. Headers \subseteq {EncoderSkip} => \A r \in Stem : header'[r] = EncoderSkip
  BY <1>4, <1>5 DEF Publishable
<1>8. Trusted => \A r \in finals' : Parse(pages'[r], header'[r], Len(pages'[r]), TRUE)
  <2> SUFFICES ASSUME Trusted, NEW r \in finals
               PROVE  Parse(pages'[r], header'[r], Len(pages'[r]), TRUE)
    BY <1>6
  <2>1. pages'[r] = pages[r] /\ header'[r] = header[r]
    BY <1>3, <1>4, <1>6 DEF FinalsKept
  <2> QED BY <2>1 DEF Publishable, Parses
<1> QED BY <1>6, <1>7, <1>8 DEF Publishable, Parses, Trusted

\* storage_finish, whether or not an error came before: where the writer does not
\* refuse, the pages are clean.
LEMMA EndedClean ==
  ASSUME TypeOK, Ownership, Writer, Publishable, Trusted, pc = "finish", FinishAccepts
  PROVE  /\ Clean(pages[cur], Len(pages[cur])) /\ output > 0
         /\ pages[cur] # <<>> => pages[cur][Len(pages[cur])].frames = frames - buffered
<1>1. /\ frames \in Nat /\ output \in Nat /\ buffered \in Nat
      /\ FrameGranule \in Nat /\ EncoderSkip \in Nat /\ EncoderSkip >= 1
  BY StoreAssumption DEF TypeOK
<1>2. cur \in Stem
  BY DEF TypeOK
<1>3. buffered <= frames /\ (frames > 0 => output > 0) /\ buffered > 0
  BY DEF Writer, Appending, FinishAccepts
<1>4. output > 0
  BY <1>1, <1>3
<1>5. ASSUME Damaged(pages[cur]) PROVE FALSE
  <2>1. output = frames /\ "write" \in Faults
    BY <1>5 DEF Writer, Appending
  <2>2. header[cur] = EncoderSkip
    BY <1>2, <2>1 DEF Publishable, Trusted
  <2>3. EncoderSkip + frames * FrameGranule <= frames * FrameGranule
    BY <2>1, <2>2 DEF FinishAccepts, FinalGranule
  <2>4. frames * FrameGranule \in Nat
    BY <1>1, NatTimes
  <2> QED BY <1>1, <2>3, <2>4
<1> QED BY <1>4, <1>5 DEF Writer, Appending

\* What the writer ends, it ends so that the parser accepts it.
LEMMA PublishableWriteLast ==
  TypeOK /\ Ownership /\ Writer /\ Publishable /\ FinalsKept /\ WriteLast => Publishable'
<1> SUFFICES ASSUME TypeOK, Ownership, Writer, Publishable, FinalsKept, WriteLast
             PROVE  Publishable'
  OBVIOUS
<1> DEFINE q == pages[cur]
           p == LastPage
<1>1. /\ pc = "finish" /\ pc' = "finish_sync" /\ cur \in Stem /\ FinishAccepts
      /\ UNCHANGED <<cur, header, finals>>
  BY DEF WriteLast, TypeOK, disk
<1>2. q \in Seq(Page) /\ p \in Page /\ pages'[cur] = Append(q, p)
  BY <1>1, LastPageType DEF WriteLast, TypeOK
<1>3. Trusted => Parse(pages'[cur], header[cur], Len(pages'[cur]), TRUE)
  <2> SUFFICES ASSUME Trusted PROVE Parse(Append(q, p), header[cur], Len(q) + 1, TRUE)
    BY <1>2, AppendClean
  <2>1. /\ Clean(q, Len(q)) /\ output > 0
        /\ q # <<>> => q[Len(q)].frames = frames - buffered
    BY <1>1, EndedClean
  <2>2. /\ frames \in Nat /\ output \in Nat /\ FrameGranule \in Nat /\ FrameGranule >= 1
        /\ header[cur] \in {0, EncoderSkip} /\ header[cur] \in Nat
    <3>1. header[cur] \in {0, EncoderSkip}
      BY <1>1 DEF TypeOK
    <3>2. frames \in Nat /\ output \in Nat
      BY DEF TypeOK
    <3> QED BY <3>1, <3>2, StoreAssumption
  <2>3. p.kind = "last" /\ p.frames = frames /\ p.granule = FinalGranule
    BY DEF LastPage
  <2>4. p.granule <= p.frames * FrameGranule
    BY <1>1, <2>3 DEF FinishAccepts
  <2>5. p.granule > header[cur]
    <3>1. output * FrameGranule \in Nat /\ output * FrameGranule >= FrameGranule
      BY <2>1, <2>2, NatTimes, TimesMono
    <3> QED BY <2>2, <2>3, <3>1 DEF FinalGranule
  <2>6. q # <<>> => p.granule >= q[Len(q)].granule
    <3> SUFFICES ASSUME q # <<>> PROVE p.granule >= q[Len(q)].granule
      OBVIOUS
    <3>1. Len(q) \in 1..Len(q)
      BY <1>2
    <3>2. q[Len(q)].granule = q[Len(q)].frames * FrameGranule
      BY <2>1, <3>1 DEF Clean, Audio
    <3> QED BY <1>1, <2>1, <2>3, <3>2 DEF FinishAccepts, Committed
  <2> HIDE DEF p, q
  <2> QED BY <1>2, <2>1, <2>2, <2>3, <2>4, <2>5, <2>6, ParseEnded
<1> QED BY <1>1, <1>3 DEF Publishable, Parses, Trusted, FinalsKept

\* A repair leaves the file that the parser accepted.
LEMMA PublishableRepairSync ==
  TypeOK /\ Ownership /\ Publishable /\ FinalsKept /\ RepairSync => Publishable'
<1> SUFFICES ASSUME TypeOK, Ownership, Publishable, FinalsKept, RepairSync PROVE Publishable'
  OBVIOUS
<1> DEFINE n == SafePages(cur)
           q == pages[cur]
<1>1. /\ cur \in Stem /\ q \in Seq(Page) /\ Parse(q, header[cur], n, TRUE)
      /\ pc' = "publish" /\ UNCHANGED <<cur, header, finals, ckps, slots>>
  BY DEF RepairSync, TypeOK, disk, Parses
<1>2. n \in 1..Len(q)
  BY <1>1 DEF Parse
<1>3. pages'[cur] = SubSeq(q, 1, n)
  BY <1>1 DEF RepairSync, TypeOK
<1>4. /\ pages'[cur] \in Seq(Page) /\ Len(pages'[cur]) = n
      /\ \A i \in 1..n : pages'[cur][i] = q[i]
  BY <1>1, <1>2, <1>3
<1>5. SafePages(cur)' = n
  BY <1>1 DEF SafePages
<1> HIDE DEF n, q
<1>6. Parse(pages'[cur], header[cur], n, TRUE)
  <2>1. n <= Len(pages'[cur]) /\ TRUE \in BOOLEAN
    BY <1>1, <1>2, <1>4
  <2> QED BY <1>1, <1>4, <2>1, ParsePrefix, Zenon
<1> QED BY <1>1, <1>4, <1>5, <1>6 DEF Publishable, Parses, Trusted, FinalsKept

\* A repair marks a file that the parser accepted.
LEMMA PublishableRecoverOne ==
  ASSUME TypeOK, Publishable, FinalsKept, NEW s \in todo, RecoverFails(s) \/ Repair(s)
  PROVE  Publishable'
<1>1. CASE RecoverFails(s)
  BY <1>1 DEF RecoverFails, Passed, Publishable, Parses, Trusted, disk, content, FinalsKept
<1>2. CASE Repair(s)
  <2> DEFINE n == SafePages(s)
             q == pages[s]
             p == [q[n] EXCEPT !.kind = "last"]
  <2>1. /\ s \in Stem /\ q \in Seq(Page) /\ Parse(q, header[s], n, FALSE)
        /\ q[n].kind = "audio"
        /\ pc' = "repair_sync" /\ cur' = s /\ UNCHANGED <<header, finals, ckps, slots>>
    BY <1>2 DEF Repair, Repairable, TypeOK, disk, Parses
  <2>2. n \in 1..Len(q)
    BY <2>1 DEF Parse
  <2>3. p \in Page
    BY <2>1, <2>2, RewrittenType DEF Rewritten, Kinds
  <2>4. pages'[s] = [q EXCEPT ![n] = p]
    BY <1>2, <2>1 DEF Repair, TypeOK
  <2>5. /\ pages'[s] \in Seq(Page) /\ Len(pages'[s]) = Len(q) /\ pages'[s][n] = p
        /\ \A i \in 1..(n - 1) : pages'[s][i] = q[i]
    <3>1. pages'[s] \in Seq(Page) /\ Len(pages'[s]) = Len(q)
      <4>1. n \in DOMAIN q => p \in Page
        BY <2>3
      <4> HIDE DEF n, q, p
      <4> QED BY <2>1, <2>4, <4>1, ExceptType
    <3>2. DOMAIN q = 1..Len(q) /\ Len(q) \in Nat
      BY <2>1
    <3> QED BY <2>2, <2>4, <3>1, <3>2
  <2>6. SafePages(s)' = n
    BY <2>1 DEF SafePages
  <2> HIDE DEF n, q
  <2>7. Parse(pages'[s], header[s], n, TRUE)
    BY <2>1, <2>5, ParseMarked
  <2>8. Parses(cur, SafePages(cur), TRUE)'
    BY <2>1, <2>6, <2>7 DEF Parses, SafePages
  <2> QED BY <2>1, <2>8 DEF Publishable, Parses, Trusted, FinalsKept
<1> QED BY <1>1, <1>2

\* Every step keeps Publishable.
LEMMA PublishableStep ==
  ASSUME TypeOK, Ownership, Journal, Writer, FinalsKept, Publishable, [Next]_vars
  PROVE  Publishable'
<1>1. CASE Begin
  BY <1>1, PublishableBegin
<1>2. CASE WriteLast
  BY <1>2, PublishableWriteLast
<1>3. CASE RepairSync
  BY <1>3, PublishableRepairSync
<1>4. ASSUME NEW s \in todo, RecoverFails(s) \/ Repair(s) PROVE Publishable'
  BY <1>4, PublishableRecoverOne
<1>5. CASE \/ CreateMeta \/ WriteHeaders \/ CreateJournal \/ Start \/ Abort \/ AbortJournal
           \/ AbortMeta \/ Buffer \/ Flush \/ FlushFails \/ TooLarge \/ CaptureFails
           \/ HistoryDone \/ StopCapture \/ Padded \/ SyncFile \/ SyncFileFails \/ SyncSlot
           \/ SyncSlotFails \/ WriteLastFails \/ FinishRefused \/ FinishSync \/ FinishFails
           \/ Rename \/ Unlink \/ RepairFails \/ PublishRepaired \/ PublishFails
           \/ DropJournal \/ Booted \/ Crash \/ UNCHANGED vars
  <2> USE DEF Publishable, Trusted, Parses, SafePages, Steps, FinalsKept, TypeOK, disk, content,
              writer, ghosts
  <2>1. CASE CreateMeta
    BY <2>1 DEF CreateMeta
  <2>2. CASE WriteHeaders
    BY <2>2 DEF WriteHeaders
  <2>3. CASE CreateJournal
    BY <2>3 DEF CreateJournal
  <2>4. CASE Start
    BY <2>4 DEF Start
  <2>5. CASE Abort
    BY <2>5 DEF Abort
  <2>6. CASE AbortJournal
    BY <2>6 DEF AbortJournal
  <2>7. CASE AbortMeta
    BY <2>7 DEF AbortMeta, Rest, Cleared
  <2>8. CASE Buffer
    BY <2>8 DEF Buffer
  <2>9. CASE Flush
    BY <2>9 DEF Flush
  <2>10. CASE FlushFails
    BY <2>10 DEF FlushFails, Fail
  <2>11. CASE TooLarge
    BY <2>11 DEF TooLarge, Fail
  <2>12. CASE CaptureFails
    BY <2>12 DEF CaptureFails
  <2>13. CASE HistoryDone
    BY <2>13 DEF HistoryDone
  <2>14. CASE StopCapture
    BY <2>14 DEF StopCapture
  <2>15. CASE Padded
    BY <2>15 DEF Padded
  <2>16. CASE SyncFile
    BY <2>16 DEF SyncFile
  <2>17. CASE SyncFileFails
    BY <2>17 DEF SyncFileFails, Fail
  <2>18. CASE SyncSlot
    BY <2>18 DEF SyncSlot
  <2>19. CASE SyncSlotFails
    BY <2>19 DEF SyncSlotFails, Fail
  <2>20. CASE WriteLastFails
    BY <2>20 DEF WriteLastFails, Rest, Cleared
  <2>21. CASE FinishRefused
    BY <2>21 DEF FinishRefused, Rest, Cleared
  <2>22. CASE FinishSync
    BY <2>22 DEF FinishSync
  <2>23. CASE FinishFails
    BY <2>23 DEF FinishFails, Rest, Cleared
  <2>24. CASE Rename
    BY <2>24 DEF Rename
  <2>25. CASE Unlink
    BY <2>25 DEF Unlink, Rest, Cleared
  <2>26. CASE RepairFails
    BY <2>26 DEF RepairFails, Passed
  <2>27. CASE PublishRepaired
    BY <2>27 DEF PublishRepaired
  <2>28. CASE PublishFails
    BY <2>28 DEF PublishFails, Passed
  <2>29. CASE DropJournal
    BY <2>29 DEF DropJournal, Passed
  <2>30. CASE Booted
    BY <2>30 DEF Booted
  <2>31. CASE Crash
    BY <2>31 DEF Crash, Cleared
  <2>32. CASE UNCHANGED vars
    BY <2>32 DEF vars
  <2> QED BY <1>5, <2>1, <2>2, <2>3, <2>4, <2>5, <2>6, <2>7, <2>8, <2>9, <2>10, <2>11, <2>12,
         <2>13, <2>14, <2>15, <2>16, <2>17, <2>18, <2>19, <2>20, <2>21, <2>22, <2>23, <2>24,
         <2>25, <2>26, <2>27, <2>28, <2>29, <2>30, <2>31, <2>32
<1> QED BY <1>1, <1>2, <1>3, <1>4, <1>5
  DEF Next, BeginStep, AbortStep, AppendStep, CheckpointStep, FinishStep, RecoverStep

-------------------------------------------------------------------------------
(***************************************************************************)
(* Recoverable: what a slot covers is there to be recovered.               *)
(***************************************************************************)

LEMMA RecoverableInit == Init => Recoverable
BY DEF Init, Recoverable

\* A prefix of a clean file is clean.
LEMMA CleanPrefix ==
  ASSUME NEW q \in Seq(Page), NEW r \in Seq(Page), NEW k \in Nat, NEW n \in Nat, k <= n,
         Clean(q, n), \A i \in 1..k : r[i] = q[i]
  PROVE  Clean(r, k)
<1>1. \A i \in 1..k : i \in 1..n /\ (i > 1 => (i - 1) \in 1..k)
  OBVIOUS
<1> QED BY <1>1 DEF Clean

\* The pages that the slots of s cover.
LEMMA Covered ==
  ASSUME TypeOK, Journal, NEW s \in Stem
  PROVE  /\ Larger(slots[s]) \in Nat /\ Larger(slots[s]) <= synced[s]
         /\ synced[s] <= Len(pages[s])
<1>1. slots[s] \in [0..1 -> Nat] /\ synced[s] \in Nat
  BY Numbers
<1>2. slots[s][0] <= synced[s] /\ slots[s][1] <= synced[s] /\ synced[s] <= Len(pages[s])
  BY DEF Journal
<1> QED BY <1>1, <1>2, LargerOf

\* Appending to a file leaves what its slots cover.
LEMMA CleanAppended ==
  ASSUME TypeOK, Journal, NEW s \in Stem, NEW p \in Page,
         Clean(pages[s], Larger(slots[s]))
  PROVE  Clean(Append(pages[s], p), Larger(slots[s]))
<1> DEFINE q == pages[s]
           r == Append(q, p)
           k == Larger(slots[s])
<1>1. q \in Seq(Page) /\ Len(q) \in Nat /\ k \in Nat /\ k <= Len(q)
  BY Covered, Numbers
<1>2. r \in Seq(Page) /\ \A i \in 1..k : r[i] = q[i]
  BY <1>1
<1> HIDE DEF q, r, k
<1>3. Clean(r, k)
  BY <1>1, <1>2, CleanPrefix DEF q, k
<1> QED BY <1>3 DEF q, r, k

\* While packets are appended and page writes do not fail, all pages are clean.
LEMMA AppendingClean ==
  ASSUME TypeOK, Writer, "write" \notin Faults, pc \in Appending, NEW k \in Nat,
         k <= Len(pages[cur])
  PROVE  Clean(pages[cur], k)
<1>1. cur \in Stem
  BY DEF TypeOK, Appending
<1>2. pages[cur] \in Seq(Page) /\ Len(pages[cur]) \in Nat
  BY <1>1, Numbers
<1>3. Clean(pages[cur], Len(pages[cur]))
  BY DEF Writer
<1> QED BY <1>2, <1>3, CleanPrefix

\* A new page in cur, outside a repair.
LEMMA RecoverableAppend ==
  ASSUME TypeOK, Journal, Recoverable, cur \in Stem, NEW p \in Page,
         pages' = [pages EXCEPT ![cur] = Append(@, p)],
         pc \in Appending, pc' \in Appending \cup {"finish_sync"},
         UNCHANGED <<slots, parts, interrupted, secured, cur>>
  PROVE  Recoverable'
<1> SUFFICES ASSUME "write" \notin Faults,
                    NEW s \in parts \ interrupted
             PROVE  Clean(pages'[s], Larger(slots[s]))
  BY DEF Recoverable, Appending
<1>1. s \in Stem
  BY DEF TypeOK
<1>2. Clean(pages[s], Larger(slots[s]))
  BY DEF Recoverable, Appending
<1>3. CASE s = cur
  <2>1. pages'[s] = Append(pages[s], p)
    BY <1>3 DEF TypeOK
  <2> QED BY <1>1, <1>2, <2>1, CleanAppended
<1>4. CASE s # cur
  <2>1. pages'[s] = pages[s]
    BY <1>1, <1>4 DEF TypeOK
  <2> QED BY <1>2, <2>1
<1> QED BY <1>3, <1>4

\* A new recording has nothing to recover.
LEMMA RecoverableBegin == TypeOK /\ Ownership /\ Recoverable /\ Begin => Recoverable'
<1> SUFFICES ASSUME TypeOK, Ownership, Recoverable, Begin PROVE Recoverable'
  OBVIOUS
<1>1. PICK t \in Times, a \in 0..MaxAttempt :
        /\ ~Taken(<<t, a>>)
        /\ parts' = parts \cup {<<t, a>>}
        /\ pages' = [pages EXCEPT ![<<t, a>>] = <<>>]
        /\ slots' = [slots EXCEPT ![<<t, a>>] = [i \in 0..1 |-> 0]]
  BY Zenon DEF Begin
<1> DEFINE s == <<t, a>>
<1>2. s \in Stem /\ s \notin parts
  BY <1>1 DEF Taken, Stem
<1>3. /\ slots'[s] = [i \in 0..1 |-> 0]
      /\ \A r \in parts : pages'[r] = pages[r] /\ slots'[r] = slots[r]
  BY <1>1, <1>2 DEF TypeOK
<1>4. Larger(slots'[s]) = 0 /\ Clean(pages'[s], 0)
  BY <1>3 DEF Larger, Clean
<1>5. pc = "idle" /\ pc' = "meta" /\ UNCHANGED interrupted
  BY DEF Begin, ghosts
<1> HIDE DEF s
<1> QED BY <1>1, <1>3, <1>4, <1>5 DEF Recoverable, s

\* A slot covers what the writer has written.
LEMMA RecoverableSlot ==
  TypeOK /\ Journal /\ Writer /\ Recoverable /\ (SyncSlot \/ SyncSlotFails) => Recoverable'
<1> SUFFICES ASSUME TypeOK, Journal, Writer, Recoverable, SyncSlot \/ SyncSlotFails
             PROVE  Recoverable'
  OBVIOUS
<1>1. /\ pc = "ckpt_slot" /\ pc' \in {"append", "finish"} /\ cur \in Stem
      /\ UNCHANGED <<cur, pages, parts, interrupted>>
  BY DEF SyncSlot, SyncSlotFails, TypeOK, Fail, content, disk, ghosts
<1>2. PICK v \in Nat : slots' = [slots EXCEPT ![cur][turn] = v] /\ v <= Len(pages[cur])
  <2>1. /\ slots[cur][turn] \in Nat /\ slots[cur][turn] <= Len(pages[cur])
        /\ Len(pages[cur]) \in Nat
    BY <1>1, Numbers DEF TypeOK, Journal
  <2> QED BY <2>1 DEF SyncSlot, SyncSlotFails, SlotAfter
<1>3. /\ slots' \in [Stem -> [0..1 -> Nat]]
      /\ slots'[cur][turn] = v /\ slots'[cur][1 - turn] = slots[cur][1 - turn]
      /\ \A s \in Stem \ {cur} : slots'[s] = slots[s]
      /\ \A i \in 0..1 : i # turn => slots'[cur][i] = slots[cur][i]
  BY <1>1, <1>2, SlotWritten
<1>4. Larger(slots'[cur]) \in Nat /\ Larger(slots'[cur]) <= Len(pages[cur])
  <2>1. \A i \in 0..1 : slots[cur][i] <= Len(pages[cur])
    <3>1. \A i \in 0..1 : slots[cur][i] <= synced[cur] /\ synced[cur] = Len(pages[cur])
      BY <1>1 DEF Journal
    <3> QED BY <3>1
  <2>2. slots'[cur][0] <= Len(pages[cur]) /\ slots'[cur][1] <= Len(pages[cur])
    BY <1>2, <1>3, <2>1
  <2> QED BY <1>1, <1>3, <2>2, Numbers, LargerOf
<1> SUFFICES ASSUME "write" \notin Faults, NEW s \in parts \ interrupted
             PROVE  Clean(pages[s], Larger(slots'[s]))
  BY <1>1 DEF Recoverable
<1>5. CASE s = cur
  BY <1>1, <1>4, <1>5, AppendingClean DEF Appending
<1>6. CASE s # cur
  BY <1>1, <1>3, <1>6 DEF Recoverable, TypeOK
<1> QED BY <1>5, <1>6

\* A power loss keeps what the slots cover, and remembers a repair it cuts short.
LEMMA RecoverableCrash ==
  TypeOK /\ Ownership /\ Journal /\ Writer /\ Recoverable /\ Crash => Recoverable'
<1> SUFFICES ASSUME TypeOK, Ownership, Journal, Writer, Recoverable, Crash PROVE Recoverable'
  OBVIOUS
<1>1. PICK left \in [Stem -> UNION {Survivors(s) : s \in Stem}] :
        /\ \A s \in Stem : left[s] \in Survivors(s)
        /\ pages' = left
        /\ synced' = [s \in Stem |-> Len(left[s])]
  BY DEF Crash
<1>2. /\ pc' = "recover" /\ todo' = parts /\ UNCHANGED <<parts, secured>>
      /\ interrupted' = IF pc \in {"repair_sync", "publish"}
                        THEN interrupted \cup {cur} ELSE interrupted
  BY DEF Crash, disk
<1> SUFFICES ASSUME "write" \notin Faults, NEW s \in parts \ interrupted'
             PROVE  Clean(pages'[s], Larger(slots'[s]))
  BY <1>2 DEF Recoverable
<1>3. s \in Stem /\ s \in parts \ interrupted /\ ~(pc \in {"repair_sync", "publish"} /\ s = cur)
  BY <1>2 DEF TypeOK
<1>4. PICK n \in synced[s]..Len(pages[s]) : left[s] = SubSeq(pages[s], 1, n)
  BY <1>1, <1>3 DEF Survivors
<1>5. /\ pages[s] \in Seq(Page) /\ Len(pages[s]) \in Nat /\ synced[s] \in Nat
  BY <1>3, Numbers
<1>6. /\ pages'[s] \in Seq(Page) /\ \A i \in 1..n : pages'[s][i] = pages[s][i]
      /\ n \in Nat /\ n <= Len(pages[s]) /\ synced[s] <= n
  BY <1>1, <1>4, <1>5, SMTT(30)
<1>7. CASE slots'[s] = slots[s]
  <2>1. Larger(slots[s]) \in Nat /\ Larger(slots[s]) <= n
    BY <1>3, <1>5, <1>6, Covered
  <2>2. Clean(pages[s], Larger(slots[s]))
    BY <1>3 DEF Recoverable
  <2>3. \A i \in 1..Larger(slots[s]) : pages'[s][i] = pages[s][i]
    BY <1>6, <2>1
  <2>4. Clean(pages'[s], Larger(slots[s]))
    BY <1>5, <1>6, <2>1, <2>2, <2>3, CleanPrefix
  <2> QED BY <1>7, <2>4
<1>8. CASE slots'[s] # slots[s]
  <2>1. pc = "ckpt_slot" /\ cur \in Stem /\ synced[cur] = Len(pages[cur])
    BY <1>8 DEF Crash, Journal, TypeOK
  <2>2. PICK v \in SlotAfter(Len(pages[cur])) : slots' = [slots EXCEPT ![cur][turn] = v]
    BY <2>1 DEF Crash
  <2>3. v \in Nat /\ v <= synced[cur]
    <3>1. slots[cur][turn] \in Nat /\ slots[cur][turn] <= synced[cur] /\ synced[cur] \in Nat
      BY <2>1, ZenonT(60) DEF Journal, TypeOK
    <3> QED BY <2>1, <3>1 DEF SlotAfter
  <2>4. /\ slots' \in [Stem -> [0..1 -> Nat]]
        /\ slots'[cur][turn] = v
        /\ \A r \in Stem \ {cur} : slots'[r] = slots[r]
        /\ \A i \in 0..1 : i # turn => slots'[cur][i] = slots[cur][i]
    BY <2>1, <2>2, <2>3, SlotWritten
  <2>5. s = cur
    BY <1>3, <1>8, <2>4
  <2>6. slots'[cur][0] <= synced[cur] /\ slots'[cur][1] <= synced[cur]
    BY <2>1, <2>3, <2>4, SMTT(30) DEF Journal
  <2> DEFINE k == Larger(slots'[cur])
  <2>7. k \in Nat /\ k <= synced[cur]
    BY <1>5, <2>1, <2>4, <2>5, <2>6, LargerOf
  <2> HIDE DEF k
  <2>8. Clean(pages[cur], Len(pages[cur]))
    BY <1>5, <2>1, <2>5, AppendingClean DEF Appending
  <2>9. k <= Len(pages[cur]) /\ \A i \in 1..k : pages'[s][i] = pages[s][i]
    BY <1>5, <1>6, <2>1, <2>5, <2>7
  <2>10. Clean(pages'[s], k)
    BY <1>5, <1>6, <2>5, <2>7, <2>8, <2>9, CleanPrefix, ZenonT(60)
  <2> QED BY <2>5, <2>10 DEF k
<1> QED BY <1>7, <1>8

\* storage_recover gives up on no .part whose slots cover clean pages.
LEMMA RecoverableRecoverOne ==
  ASSUME TypeOK, Ownership, Journal, Recoverable, NEW s \in todo, RecoverFails(s) \/ Repair(s)
  PROVE  Recoverable'
<1>1. s \in Stem /\ s \in parts /\ pc = "recover"
  BY DEF RecoverFails, Repair, TypeOK, Ownership
<1>2. CASE RecoverFails(s)
  <2>1. /\ pc' = "recover" /\ todo' = todo \ {s}
        /\ UNCHANGED <<parts, interrupted, secured, pages, slots>>
    BY <1>2 DEF RecoverFails, Passed, disk, content, ghosts
  <2>2. ASSUME "write" \notin Faults, secured[s] > 0, s \notin interrupted PROVE FALSE
    <3> DEFINE k == Larger(slots[s])
    <3>1. Clean(pages[s], k)
      BY <1>1, <2>2 DEF Recoverable
    <3>2. k \in 1..Len(pages[s]) /\ k = SafePages(s)
      <4>1. k \in Nat /\ k <= Len(pages[s])
        BY <1>1, Covered, Numbers
      <4>2. k >= secured[s] /\ secured[s] \in Nat /\ s \in ckps
        BY <1>1, <2>2, Numbers DEF Journal
      <4>3. Len(pages[s]) \in Nat
        BY <1>1, Numbers
      <4> QED BY <2>2, <4>1, <4>2, <4>3 DEF SafePages
    <3>3. pages[s] \in Seq(Page) /\ header[s] \in {0, EncoderSkip}
      BY <1>1 DEF TypeOK
    <3>4. Parse(pages[s], header[s], k, FALSE) /\ pages[s][k].kind = "audio"
      BY <3>1, <3>2, <3>3, CleanParses
    <3>5. Repairable(s)
      BY <3>2, <3>4 DEF Repairable, Parses
    <3> QED BY <1>2, <3>5 DEF RecoverFails
  <2> QED BY <1>1, <2>1, <2>2 DEF Recoverable
<1>3. CASE Repair(s)
  BY <1>1, <1>3 DEF Repair, Recoverable, TypeOK, disk, ghosts
<1> QED BY <1>2, <1>3

\* Every step keeps Recoverable.
LEMMA RecoverableStep ==
  ASSUME TypeOK, Ownership, Control, Journal, Writer, Recoverable, [Next]_vars
  PROVE  Recoverable'
<1>1. CASE Begin
  BY <1>1, RecoverableBegin
<1>2. CASE Flush
  BY <1>2, AudioPageType, RecoverableAppend
  DEF Flush, TypeOK, disk, ghosts, Appending
<1>3. CASE SyncSlot
  BY <1>3, RecoverableSlot
<1>4. CASE SyncSlotFails
  BY <1>4, RecoverableSlot
<1>5. CASE WriteLast
  BY <1>5, LastPageType, RecoverableAppend
  DEF WriteLast, TypeOK, disk, ghosts, Appending
<1>6. CASE Crash
  BY <1>6, RecoverableCrash
<1>7. ASSUME NEW s \in todo, RecoverFails(s) \/ Repair(s) PROVE Recoverable'
  BY <1>7, RecoverableRecoverOne
<1>8. CASE \/ CreateMeta \/ WriteHeaders \/ CreateJournal \/ Start \/ Abort \/ AbortJournal
           \/ AbortMeta \/ Buffer \/ FlushFails \/ TooLarge \/ CaptureFails \/ HistoryDone
           \/ StopCapture \/ Padded \/ SyncFile \/ SyncFileFails \/ WriteLastFails
           \/ FinishRefused \/ FinishSync \/ FinishFails \/ Rename \/ Unlink \/ RepairSync
           \/ RepairFails \/ PublishRepaired \/ PublishFails \/ DropJournal \/ Booted
           \/ UNCHANGED vars
  <2> USE DEF Recoverable, Writing, Appending, Opening, TypeOK, Ownership, Control, disk,
              content, writer, ghosts
  <2>1. CASE CreateMeta
    BY <2>1 DEF CreateMeta
  <2>2. CASE WriteHeaders
    BY <2>2 DEF WriteHeaders
  <2>3. CASE CreateJournal
    BY <2>3 DEF CreateJournal
  <2>4. CASE Start
    BY <2>4 DEF Start
  <2>5. CASE Abort
    BY <2>5 DEF Abort
  <2>6. CASE AbortJournal
    BY <2>6 DEF AbortJournal
  <2>7. CASE AbortMeta
    BY <2>7 DEF AbortMeta, Rest, Cleared
  <2>8. CASE Buffer
    BY <2>8 DEF Buffer
  <2>9. CASE FlushFails
    BY <2>9 DEF FlushFails, Fail
  <2>10. CASE TooLarge
    BY <2>10 DEF TooLarge, Fail
  <2>11. CASE CaptureFails
    BY <2>11 DEF CaptureFails
  <2>12. CASE HistoryDone
    BY <2>12 DEF HistoryDone
  <2>13. CASE StopCapture
    BY <2>13 DEF StopCapture
  <2>14. CASE Padded
    BY <2>14 DEF Padded
  <2>15. CASE SyncFile
    BY <2>15 DEF SyncFile
  <2>16. CASE SyncFileFails
    BY <2>16 DEF SyncFileFails, Fail
  <2>17. CASE WriteLastFails
    BY <2>17 DEF WriteLastFails, Rest, Cleared
  <2>18. CASE FinishRefused
    BY <2>18 DEF FinishRefused, Rest, Cleared
  <2>19. CASE FinishSync
    BY <2>19 DEF FinishSync
  <2>20. CASE FinishFails
    BY <2>20 DEF FinishFails, Rest, Cleared
  <2>21. CASE Rename
    BY <2>21 DEF Rename
  <2>22. CASE Unlink
    BY <2>22 DEF Unlink, Rest, Cleared
  <2>23. CASE RepairSync
    BY <2>23 DEF RepairSync
  <2>24. CASE RepairFails
    BY <2>24 DEF RepairFails, Passed
  <2>25. CASE PublishRepaired
    BY <2>25 DEF PublishRepaired
  <2>26. CASE PublishFails
    BY <2>26 DEF PublishFails, Passed
  <2>27. CASE DropJournal
    BY <2>27 DEF DropJournal, Passed
  <2>28. CASE Booted
    BY <2>28 DEF Booted
  <2>29. CASE UNCHANGED vars
    BY <2>29 DEF vars
  <2> QED BY <1>8, <2>1, <2>2, <2>3, <2>4, <2>5, <2>6, <2>7, <2>8, <2>9, <2>10, <2>11, <2>12,
         <2>13, <2>14, <2>15, <2>16, <2>17, <2>18, <2>19, <2>20, <2>21, <2>22, <2>23, <2>24,
         <2>25, <2>26, <2>27, <2>28, <2>29
<1> QED BY <1>1, <1>2, <1>3, <1>4, <1>5, <1>6, <1>7, <1>8
  DEF Next, BeginStep, AbortStep, AppendStep, CheckpointStep, FinishStep, RecoverStep

-------------------------------------------------------------------------------
(***************************************************************************)
(* The inductive invariant and what it says.                               *)
(***************************************************************************)

LEMMA IInvInit == Init => IInv
BY TypeInit, OwnershipInit, ControlInit, JournalInit, WriterInit, PublishableInit,
   RecoverableInit
DEF IInv

\* Every step keeps the invariant and every published recording.
LEMMA IInvStep == IInv /\ [Next]_vars => IInv' /\ FinalsKept
<1> SUFFICES ASSUME IInv, [Next]_vars PROVE IInv' /\ FinalsKept
  OBVIOUS
<1>1. TypeOK /\ Ownership /\ Control /\ Journal /\ Writer /\ Publishable /\ Recoverable
  BY DEF IInv
<1>2. TypeOK'
  BY <1>1, TypeStep
<1>3. Ownership' /\ FinalsKept
  BY <1>1, OwnershipStep
<1>4. Control' /\ Journal' /\ Writer'
  BY <1>1, ControlStep, JournalStep, WriterStep
<1>5. Publishable' /\ Recoverable'
  BY <1>1, <1>3, PublishableStep, RecoverableStep
<1> QED BY <1>2, <1>3, <1>4, <1>5 DEF IInv

\* The invariant holds throughout, whatever the I/O errors and power losses.
THEOREM InvHolds == Spec => []IInv
BY IInvInit, IInvStep, PTL DEF Spec

\* A recording is never both a .part and published, only a .part is ever written or
\* repaired, and what is published is wholly synced.
THEOREM OwnershipHolds == Spec => []Ownership
BY InvHolds, PTL DEF IInv

\* No step changes, replaces or removes a published recording.
THEOREM FinalsSafe == Spec => FinalsNeverChange
BY InvHolds, IInvStep, PTL DEF Spec, FinalsNeverChange

\* With the counters of Writer the last page passes the checks of finish.
LEMMA FinishAcceptable ==
  ASSUME TypeOK, Journal, Writer
  PROVE  FinishNotRefused
<1> SUFFICES ASSUME pc = "finish", ~failed PROVE FinishAccepts
  BY DEF FinishNotRefused
<1>1. /\ frames \in Nat /\ output \in Nat /\ buffered \in Nat /\ frames - output = 1
      /\ output > 0 /\ buffered > 0 /\ buffered <= frames
  BY DEF TypeOK, Writer, Appending
<1>2. header[cur] \in Nat /\ header[cur] < FrameGranule /\ FrameGranule \in Nat
  <2>1. cur \in Stem
    BY DEF TypeOK
  <2>2. header[cur] \in {0, EncoderSkip}
    BY <2>1 DEF TypeOK
  <2> QED BY <2>2, StoreAssumption
<1>3. frames * FrameGranule = output * FrameGranule + FrameGranule
  BY <1>1, <1>2
<1>4. (frames - buffered) * FrameGranule <= output * FrameGranule
  <2>1. frames - buffered \in Nat /\ frames - buffered <= output
    BY <1>1
  <2> QED BY <1>1, <1>2, <2>1, TimesMono
<1>5. output * FrameGranule \in Nat /\ (frames - buffered) * FrameGranule \in Nat
  <2>1. frames - buffered \in Nat
    BY <1>1
  <2> QED BY <1>1, <1>2, <2>1, NatTimes
<1> QED BY <1>1, <1>2, <1>3, <1>4, <1>5 DEF FinishAccepts, FinalGranule, Committed

\* A recording that met no error is never refused by the writer when it ends.
THEOREM FinishAccepted == Spec => []FinishNotRefused
<1>1. IInv => FinishNotRefused
  BY FinishAcceptable DEF IInv
<1> QED BY <1>1, InvHolds, PTL

\* Every published recording parses to its end-of-stream page and is on the card.
\* When page writes may fail this needs Trusted: a header that carries no look-ahead
\* lets the writer finish a recording that lacks its padding after such an error.
THEOREM FinalsParse == ASSUME Trusted PROVE Spec => []FinalParses
<1>1. IInv => FinalParses
  BY DEF IInv, Ownership, Publishable, FinalParses
<1> QED BY <1>1, InvHolds, PTL

\* The slots of a .part lead recovery to all the audio that was secured.
LEMMA SecuredFound ==
  ASSUME IInv, "write" \notin Faults, NEW s \in parts, secured[s] > 0, s \notin interrupted
  PROVE  /\ SafePages(s) >= secured[s]
         /\ SafePages(s) <= synced[s]
         /\ Parses(s, SafePages(s), FALSE)
<1>1. s \in Stem /\ TypeOK /\ Journal /\ Publishable /\ Recoverable
  BY DEF IInv, TypeOK
<1>2. s \in ckps /\ SafePages(s) = Larger(slots[s]) /\ secured[s] <= SafePages(s)
  BY <1>1 DEF Journal, SafePages
<1>3. SafePages(s) \in Nat /\ SafePages(s) <= synced[s] /\ synced[s] <= Len(pages[s])
  BY <1>1, <1>2, Covered
<1>4. secured[s] \in Nat /\ synced[s] \in Nat /\ pages[s] \in Seq(Page)
  BY <1>1, Numbers
<1>5. SafePages(s) \in 1..Len(pages[s])
  <2>1. Len(pages[s]) \in Nat
    BY <1>4
  <2> QED BY <1>2, <1>3, <1>4, <2>1
<1>6. Parses(s, SafePages(s), FALSE)
  <2>1. CASE pc \in {"repair_sync", "publish"} /\ s = cur
    BY <1>1, <2>1 DEF Publishable, Parses, Parse
  <2>2. CASE ~(pc \in {"repair_sync", "publish"} /\ s = cur)
    <3>1. Clean(pages[s], SafePages(s))
      BY <1>1, <1>2, <2>2 DEF Recoverable
    <3>2. header[s] \in {0, EncoderSkip}
      BY <1>1 DEF TypeOK
    <3> QED BY <1>4, <1>5, <3>1, <3>2, CleanParses DEF Parses
  <2> QED BY <2>1, <2>2
<1> QED BY <1>2, <1>3, <1>4, <1>6

\* A power loss costs no audio that a completed checkpoint covered, as long as no
\* page write fails: it is there to be recovered, and a boot recovers it.
THEOREM SecuredSafe == ASSUME "write" \notin Faults PROVE Spec => []SecuredSurvives
<1>1. IInv => SecuredRecoverable
  BY SecuredFound DEF SecuredRecoverable
<1>2. IInv => BootPublishes
  BY DEF IInv, Recoverable, BootPublishes
<1> QED BY <1>1, <1>2, InvHolds, PTL DEF SecuredSurvives

-------------------------------------------------------------------------------
(***************************************************************************)
(* The store implements RecordingArchive.                                  *)
(***************************************************************************)


\* A published recording is kept whole.
LEMMA WholeIs ==
  ASSUME Trusted, Publishable
  PROVE  Whole = [s \in Stem |-> IF s \in finals THEN Len(pages[s]) ELSE 0]
BY DEF Whole, Publishable

\* No recording changes its stage: a stutter of RecordingArchive.
LEMMA StageStays ==
  ASSUME Trusted, Publishable, Publishable', FinalsKept, finals \subseteq Stem,
         UNCHANGED <<parts, finals, secured>>,
         pc \in Writing \/ pc' \in Writing => pc \in Writing /\ pc' \in Writing /\ cur' = cur
  PROVE  UNCHANGED Archive!archive
<1>1. Stage' = Stage
  BY DEF Stage
<1>2. Whole' = Whole
  <2>1. Whole' = [s \in Stem |-> IF s \in finals' THEN Len(pages'[s]) ELSE 0]
    BY DEF Whole, Publishable, Trusted
  <2> QED BY <2>1, WholeIs DEF FinalsKept
<1> QED BY <1>1, <1>2 DEF Archive!archive

\* The record worker leaves its .part behind.
LEMMA StageLeft ==
  ASSUME Trusted, Publishable, Publishable', FinalsKept, finals \subseteq Stem,
         Ownership, TypeOK, UNCHANGED <<parts, finals, secured>>,
         pc \in Writing, pc' \notin Writing
  PROVE  Archive!Next
<1>1. cur \in parts /\ cur \in Stem /\ cur \notin finals
  BY DEF Ownership, TypeOK
<1>2. Stage[cur] = "open" /\ Stage' = [Stage EXCEPT ![cur] = "partial"]
  BY <1>1 DEF Stage
<1>3. Whole' = Whole
  <2>1. Whole' = [s \in Stem |-> IF s \in finals' THEN Len(pages'[s]) ELSE 0]
    BY DEF Whole, Publishable, Trusted
  <2> QED BY <2>1, WholeIs DEF FinalsKept
<1>4. Archive!Leave(cur)
  BY <1>2, <1>3 DEF Archive!Leave
<1> QED BY <1>1, <1>4 DEF Archive!Next

\* A .part is published with at least the pages that were secured.
LEMMA StagePublished ==
  ASSUME Trusted, Publishable, Publishable', FinalsKept, TypeOK, TypeOK',
         cur \in parts, parts \cap finals = {}, parts' = parts \ {cur},
         finals' = finals \cup {cur}, UNCHANGED <<pages, secured>>,
         pc \in Writing \/ pc = "publish", pc' \notin Writing,
         secured[cur] <= Len(pages[cur])
  PROVE  Archive!Next
<1>1. cur \in Stem /\ cur \notin finals /\ finals \subseteq Stem
  BY DEF TypeOK
<1>2. Stage[cur] \in {"open", "partial"} /\ Stage' = [Stage EXCEPT ![cur] = "final"]
  <2>1. Writing \cap {"publish"} = {}
    BY DEF Writing
  <2> QED BY <1>1, <2>1 DEF Stage
<1>3. Whole' = [s \in Stem |-> IF s \in finals' THEN Len(pages'[s]) ELSE 0]
  BY DEF Whole, Publishable, Trusted
<1>4. /\ Whole' \in [Stem -> Nat]
      /\ Whole'[cur] >= secured[cur]
      /\ \A r \in Stem \ {cur} : Whole'[r] = Whole[r]
  <2>1. \A r \in Stem : Len(pages[r]) \in Nat
    BY Numbers
  <2>2. secured[cur] \in Nat
    BY <1>1, Numbers
  <2> QED BY <1>1, <1>3, <2>1, <2>2, WholeIs
<1>5. Archive!Publish(cur)
  BY <1>2, <1>4 DEF Archive!Publish
<1> QED BY <1>1, <1>5 DEF Archive!Next

\* A new recording is opened.
LEMMA ArchiveBegin ==
  ASSUME IInv, Publishable', FinalsKept, Trusted, Begin
  PROVE  Archive!Next
<1>1. PICK t \in Times, a \in 0..MaxAttempt :
        ~Taken(<<t, a>>) /\ parts' = parts \cup {<<t, a>>} /\ cur' = <<t, a>>
  BY Zenon DEF Begin
<1> DEFINE s == <<t, a>>
<1>2. s \in Stem /\ s \notin parts /\ s \notin finals
  BY <1>1 DEF Taken, Stem
<1>3. /\ pc = "idle" /\ pc' = "meta" /\ cur' = s /\ parts' = parts \cup {s}
      /\ UNCHANGED <<finals, secured>>
  BY <1>1 DEF Begin, ghosts
<1> HIDE DEF s
<1>4. Stage[s] = "free" /\ Stage' = [Stage EXCEPT ![s] = "open"]
  BY <1>2, <1>3 DEF Stage, Writing
<1>5. Whole' = Whole
  <2>1. Whole' = [r \in Stem |-> IF r \in finals' THEN Len(pages'[r]) ELSE 0]
    BY DEF Whole, Publishable, Trusted
  <2> QED BY <1>3, <2>1, WholeIs DEF FinalsKept, IInv
<1>6. Archive!Open(s)
  BY <1>3, <1>4, <1>5 DEF Archive!Open
<1> QED BY <1>2, <1>6 DEF Archive!Next

\* What is aborted had secured nothing; its .part may stay behind.
LEMMA ArchiveAbort ==
  ASSUME IInv, Publishable', FinalsKept, Trusted, Abort
  PROVE  Archive!Next
<1>1. /\ pc \in Opening /\ pc' = "abort_ckp" /\ UNCHANGED <<finals, secured, cur>>
      /\ cur \in Stem /\ cur \in parts /\ cur \notin finals /\ secured[cur] = 0
      /\ finals \subseteq Stem
  BY DEF Abort, Opening, IInv, TypeOK, Ownership, Writing, Journal, ghosts
<1>2. CASE parts' = parts
  BY <1>1, <1>2, StageLeft DEF IInv, Writing, Opening
<1>3. CASE parts' = parts \ {cur}
  <2>1. Stage[cur] = "open" /\ Stage' = [Stage EXCEPT ![cur] = "free"]
    BY <1>1, <1>3 DEF Stage, Writing, Opening
  <2>2. Whole' = Whole
    <3>1. Whole' = [r \in Stem |-> IF r \in finals' THEN Len(pages'[r]) ELSE 0]
      BY DEF Whole, Publishable, Trusted
    <3> QED BY <1>1, <3>1, WholeIs DEF FinalsKept, IInv
  <2>3. Archive!Discard(cur)
    BY <1>1, <2>1, <2>2 DEF Archive!Discard
  <2> QED BY <1>1, <2>3 DEF Archive!Next
<1> QED BY <1>2, <1>3 DEF Abort

\* A completed checkpoint covers no less than the one before it.
LEMMA ArchiveSecure ==
  ASSUME IInv, Publishable', TypeOK', FinalsKept, Trusted, SyncSlot
  PROVE  Archive!Next
<1> DEFINE n == Len(pages[cur])
<1>1. /\ pc = "ckpt_slot" /\ pc' = "append" /\ UNCHANGED <<parts, finals, cur, pages>>
      /\ cur \in Stem /\ cur \in parts /\ cur \notin finals /\ finals \subseteq Stem
      /\ secured' = [secured EXCEPT ![cur] = n]
  BY DEF SyncSlot, IInv, TypeOK, Ownership, Writing, disk, content
<1>2. Stage[cur] = "open" /\ Stage' = Stage
  BY <1>1 DEF Stage, Writing
<1>3. Whole' = Whole
  <2>1. Whole' = [r \in Stem |-> IF r \in finals' THEN Len(pages'[r]) ELSE 0]
    BY DEF Whole, Publishable, Trusted
  <2> QED BY <1>1, <2>1, WholeIs DEF FinalsKept, IInv
<1>4. secured[cur] <= n
  <2>1. secured[cur] <= Larger(slots[cur])
    BY <1>1 DEF IInv, Journal
  <2> QED BY <1>1, <2>1, Covered, Numbers DEF IInv
<1>5. /\ secured' \in [Stem -> Nat] /\ secured'[cur] >= secured[cur]
      /\ \A r \in Stem \ {cur} : secured'[r] = secured[r]
  <2>1. secured \in [Stem -> Nat] /\ n \in Nat
    BY <1>1, Numbers DEF IInv, TypeOK
  <2> QED BY <1>1, <1>4, <2>1
<1>6. Archive!Secure(cur)
  BY <1>2, <1>3, <1>5 DEF Archive!Secure
<1> QED BY <1>1, <1>6 DEF Archive!Next

\* A rename publishes what was secured, whether after finish or after a repair.
LEMMA ArchivePublish ==
  ASSUME IInv, TypeOK', Publishable', FinalsKept, Trusted, Rename \/ PublishRepaired
  PROVE  Archive!Next
<1>1. /\ cur \in parts /\ cur \in Stem /\ parts \cap finals = {} /\ parts' = parts \ {cur}
      /\ finals' = finals \cup {cur} /\ UNCHANGED <<pages, secured>>
      /\ pc \in Writing \/ pc = "publish"
      /\ pc' \notin Writing
  BY DEF Rename, PublishRepaired, IInv, Ownership, Writing, TypeOK, content, ghosts
<1>2. secured[cur] <= Len(pages[cur])
  <2>1. secured[cur] <= Larger(slots[cur])
    BY <1>1 DEF IInv, Journal
  <2> QED BY <1>1, <2>1, Covered, Numbers DEF IInv
<1> QED BY <1>1, <1>2, StagePublished DEF IInv

\* Every step of the store is one of RecordingArchive, or leaves what it sees alone.
LEMMA ArchiveStep ==
  ASSUME IInv, TypeOK', Publishable', FinalsKept, Trusted, [Next]_vars
  PROVE  [Archive!Next]_(Archive!archive)
<1>1. TypeOK /\ Ownership /\ Publishable /\ finals \subseteq Stem
  BY DEF IInv, TypeOK
<1>2. CASE \/ CreateMeta \/ WriteHeaders \/ CreateJournal \/ Start
           \/ AppendStep \/ CaptureFails \/ HistoryDone \/ StopCapture \/ Padded
           \/ SyncFile \/ SyncFileFails \/ SyncSlotFails \/ WriteLast \/ FinishSync
  <2>1. /\ pc \in Writing /\ pc' \in Writing /\ cur' = cur
        /\ UNCHANGED <<parts, finals, secured>>
    BY <1>2 DEF CreateMeta, WriteHeaders, CreateJournal, Start, AppendStep, Buffer, Flush,
       FlushFails, TooLarge, CaptureFails, HistoryDone, StopCapture, Padded, SyncFile,
       SyncFileFails, SyncSlotFails, WriteLast, FinishSync, Fail, Writing, disk, ghosts
  <2> QED BY <1>1, <2>1, StageStays
<1>3. CASE WriteLastFails \/ FinishRefused \/ FinishFails \/ (Crash /\ pc \in Writing)
  <2>1. pc \in Writing /\ pc' \notin Writing /\ UNCHANGED <<parts, finals, secured>>
    BY <1>3 DEF WriteLastFails, FinishRefused, FinishFails, Crash, Rest, Cleared, Writing,
       disk, ghosts
  <2> QED BY <1>1, <2>1, StageLeft
<1>4. CASE \/ AbortJournal \/ AbortMeta \/ Unlink \/ (Crash /\ pc \notin Writing)
           \/ (\E s \in todo : RecoverFails(s) \/ Repair(s))
           \/ RepairSync \/ RepairFails \/ PublishFails \/ DropJournal \/ Booted
  <2>1. pc \notin Writing /\ pc' \notin Writing /\ UNCHANGED <<parts, finals, secured>>
    BY <1>4 DEF AbortJournal, AbortMeta, Unlink, Crash, RecoverFails, Repair, RepairSync,
       RepairFails, PublishFails, DropJournal, Booted, Rest, Cleared, Passed, Writing, disk, ghosts
  <2> QED BY <1>1, <2>1, StageStays
<1>5. CASE UNCHANGED vars
  <2>1. UNCHANGED <<parts, finals, secured, pc, cur>>
    BY <1>5 DEF vars, disk, ghosts
  <2> QED BY <1>1, <2>1, StageStays
<1> QED
  BY <1>2, <1>3, <1>4, <1>5, ArchiveBegin, ArchiveAbort, ArchiveSecure, ArchivePublish
  DEF Next, BeginStep, AbortStep, CheckpointStep, FinishStep, RecoverStep

\* An empty card is an empty archive.
LEMMA ArchiveInit == Init => Archive!Init
<1> SUFFICES ASSUME Init PROVE Archive!Init
  OBVIOUS
<1>1. finals = {} /\ parts = {} /\ secured = [s \in Stem |-> 0]
  BY DEF Init
<1> QED BY <1>1 DEF Archive!Init, Stage, Whole

\* The store keeps what RecordingArchive promises: secured audio is never lost and
\* what is published never changes, whatever fails.
THEOREM ArchiveImplemented == ASSUME Trusted PROVE Spec => ArchiveSpec
<1>1. IInv /\ [Next]_vars => [Archive!Next]_(Archive!archive)
  <2> SUFFICES ASSUME IInv, [Next]_vars PROVE [Archive!Next]_(Archive!archive)
    OBVIOUS
  <2>1. IInv' /\ FinalsKept
    BY IInvStep
  <2>2. TypeOK' /\ Publishable'
    BY <2>1 DEF IInv
  <2> QED BY <2>1, <2>2, ArchiveStep
<1> QED BY <1>1, ArchiveInit, InvHolds, PTL DEF Spec, ArchiveSpec, Archive!Spec
===============================================================================
