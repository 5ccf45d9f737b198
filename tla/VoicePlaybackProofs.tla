------------------------- MODULE VoicePlaybackProofs --------------------------
(***************************************************************************)
(* For any number of answers, of any length, any ring, credit and DMA      *)
(* queue, and any interruptions: what is left in the recorder is what the  *)
(* proxy counts on, the account of an answer is closed exactly where the   *)
(* speaker stopped, and neither side refuses what the other sends, but     *)
(* for the two reports that SessionSurvives names.                         *)
(***************************************************************************)
EXTENDS VoicePlaybackInv, TLAPS, FiniteSetTheorems, WellFoundedInduction

-------------------------------------------------------------------------------
(***************************************************************************)
(* Sequences of messages.                                                  *)
(***************************************************************************)

LEMMA EpochNat == Epoch \subseteq Nat /\ Epoch = 1..MaxEpoch /\ 0 \notin Epoch /\ MaxEpoch \in Nat /\ MaxEpoch >= 1
BY VoiceAssumption DEF Epoch

LEMMA TailKeeps ==
  ASSUME NEW T, NEW q \in Seq(T), q # <<>>
  PROVE  /\ Head(q) \in T /\ Head(q) = q[1] /\ 1 \in 1..Len(q)
         /\ Tail(q) \in Seq(T) /\ Len(Tail(q)) = Len(q) - 1
         /\ \A i \in 1..Len(Tail(q)) : i + 1 \in 1..Len(q) /\ Tail(q)[i] = q[i + 1]
OBVIOUS

LEMMA AppendKeeps ==
  ASSUME NEW T, NEW q \in Seq(T), NEW m \in T
  PROVE  /\ Append(q, m) \in Seq(T) /\ Len(Append(q, m)) = Len(q) + 1
         /\ \A i \in 1..Len(q) : Append(q, m)[i] = q[i]
         /\ Append(q, m)[Len(q) + 1] = m
OBVIOUS

LEMMA ConcatKeeps ==
  ASSUME NEW T, NEW q \in Seq(T), NEW n \in Nat, NEW r \in [1..n -> T]
  PROVE  /\ r \in Seq(T) /\ Len(r) = n
         /\ q \o r \in Seq(T) /\ Len(q \o r) = Len(q) + n
         /\ \A i \in 1..Len(q) : (q \o r)[i] = q[i]
         /\ \A i \in 1..n : (q \o r)[Len(q) + i] = r[i]
<1>1. r \in Seq(T) /\ Len(r) = n
  OBVIOUS
<1> QED BY <1>1

LEMMA WithinTail ==
  ASSUME NEW q \in Seq(Word), q # <<>>, NEW e \in Epoch, NEW k \in Nat, Within(q, e, k)
  PROVE  Within(Tail(q), e, k)
BY TailKeeps DEF Within

LEMMA WithinAppend ==
  ASSUME NEW q \in Seq(Word), NEW m \in Word, NEW e \in Epoch, NEW k \in Nat, Within(q, e, k),
         m.type = "frame" /\ m.epoch = e => m.n <= k
  PROVE  Within(Append(q, m), e, k)
<1>1. Append(q, m) \in Seq(Word) /\ Len(Append(q, m)) = Len(q) + 1
  BY AppendKeeps
<1>2. \A i \in 1..Len(q) : Append(q, m)[i] = q[i]
  BY AppendKeeps
<1>3. Append(q, m)[Len(q) + 1] = m
  BY AppendKeeps
<1>4. \A i \in 1..(Len(q) + 1) : i \in 1..Len(q) \/ i = Len(q) + 1
  OBVIOUS
<1> QED BY <1>1, <1>2, <1>3, <1>4 DEF Within

LEMMA WithinMore ==
  ASSUME NEW q \in Seq(Word), NEW e \in Epoch, NEW k \in Nat, NEW l \in Nat, k <= l,
         Within(q, e, k)
  PROVE  Within(q, e, l)
<1>1. \A i \in 1..Len(q) : q[i] \in Word
  OBVIOUS
<1>2. \A m \in Word : m.type = "frame" => m.n \in Nat
  BY DEF Word
<1> QED BY <1>1, <1>2 DEF Within

-------------------------------------------------------------------------------
(***************************************************************************)
(* A finite set of epochs has an order.                                    *)
(***************************************************************************)

LEMMA LeastNatural ==
  ASSUME NEW T \in SUBSET Nat, T # {}
  PROVE  \E m \in T : \A k \in T : m <= k
<1>1. PICK m \in T : \A k \in T : <<k, m>> \notin OpToRel(<, Nat)
  BY WFMin, NatLessThanWellFounded, Zenon
<1>2. \A k \in T : ~(k < m)
  BY <1>1, Zenon DEF OpToRel
<1> QED BY <1>2

\* The largest epoch of a set.
LEMMA LastEpoch ==
  ASSUME NEW E \in SUBSET Epoch, E # {}
  PROVE  \E e \in E : \A f \in E : f <= e
<1> DEFINE T == {MaxEpoch - e : e \in E}
<1>1. T \in SUBSET Nat /\ T # {}
 <2>1. ASSUME NEW e \in E PROVE MaxEpoch - e \in Nat
   BY EpochNat
 <2> QED BY <2>1
<1>2. PICK m \in T : \A k \in T : m <= k
 <2> HIDE DEF T
 <2> QED BY <1>1, LeastNatural
<1>3. PICK e \in E : m = MaxEpoch - e
  BY <1>2
<1>4. ASSUME NEW f \in E PROVE f <= e
 <2>1. m <= MaxEpoch - f
   BY <1>2
 <2>2. f \in Nat /\ e \in Nat
   BY EpochNat
 <2> QED BY <1>3, <2>1, <2>2, EpochNat
<1> QED BY <1>4

Increasing(E, s) ==
  \A i, j \in 1..Cardinality(E) : i < j => s[i] < s[j]

LEMMA OneMore ==
  ASSUME NEW E \in SUBSET Epoch, E # {}, NEW e \in E, \A f \in E : f <= e,
         NEW n \in Nat, Cardinality(E) = n + 1, Cardinality(E \ {e}) = n,
         NEW s \in [1..n -> E \ {e}], Increasing(E \ {e}, s)
  PROVE  \E r \in [1..(n + 1) -> E] : Increasing(E, r)
<1> DEFINE r == [i \in 1..(n + 1) |-> IF i <= n THEN s[i] ELSE e]
<1>1. r \in [1..(n + 1) -> E]
  OBVIOUS
<1>2. ASSUME NEW i \in 1..(n + 1), NEW j \in 1..(n + 1), i < j PROVE r[i] < r[j]
 <2>1. i \in 1..n /\ r[i] = s[i] /\ s[i] \in E \ {e}
   BY <1>2
 <2>2. CASE j <= n
  <3>1. j \in 1..n
    BY <2>2
  <3>2. r[j] = s[j]
    BY <2>2
  <3>3. s[i] < s[j]
    BY <1>2, <2>1, <3>1 DEF Increasing
  <3> QED BY <2>1, <3>2, <3>3
 <2>3. CASE ~(j <= n)
  <3>1. r[j] = e
    BY <2>3
  <3>2. s[i] <= e /\ s[i] # e /\ s[i] \in Nat /\ e \in Nat
    BY <2>1, EpochNat
  <3>3. s[i] < e
    BY <3>2
  <3> QED BY <2>1, <3>1, <3>3
 <2> QED BY <2>2, <2>3
<1>3. Increasing(E, r)
  BY <1>2 DEF Increasing
<1> QED BY <1>1, <1>3

LEMMA EpochsFinite ==
  ASSUME NEW E \in SUBSET Epoch
  PROVE  IsFiniteSet(E) /\ Cardinality(E) \in Nat
<1>1. IsFiniteSet(Epoch)
  BY EpochNat, FS_Interval, SMT
<1>2. IsFiniteSet(E)
  BY <1>1, FS_Subset
<1> QED BY <1>2, FS_CardinalityType

LEMMA OrderExists ==
  ASSUME NEW E \in SUBSET Epoch
  PROVE  \E s \in [1..Cardinality(E) -> E] : Increasing(E, s)
<1> DEFINE Good(n) == \A S \in SUBSET Epoch : Cardinality(S) = n => \E s \in [1..n -> S] : Increasing(S, s)
           T == {n \in Nat : ~Good(n)}
<1>1. SUFFICES T = {}
  BY EpochsFinite
<1>2. SUFFICES ASSUME T # {} PROVE FALSE
  OBVIOUS
<1>3. PICK m \in T : \A k \in T : m <= k
 <2>1. T \in SUBSET Nat
   OBVIOUS
 <2> HIDE DEF T
 <2> QED BY <1>2, <2>1, LeastNatural
<1>4. m \in Nat /\ ~Good(m)
  BY <1>3
<1>5. PICK S \in SUBSET Epoch : Cardinality(S) = m /\ ~\E s \in [1..m -> S] : Increasing(S, s)
  BY <1>4
<1>6. CASE m = 0
 <2>1. S = {}
   BY <1>5, <1>6, EpochsFinite, FS_EmptySet
 <2>2. [i \in 1..0 |-> i] \in [1..0 -> {}]
   OBVIOUS
 <2>3. \A i \in 1..0 : FALSE
   OBVIOUS
 <2>4. Increasing(S, [i \in 1..0 |-> i])
   BY <1>5, <1>6, <2>3 DEF Increasing
 <2> QED BY <1>5, <1>6, <2>1, <2>2, <2>4
<1>7. CASE m # 0
 <2>1. IsFiniteSet(S) /\ S # {}
   BY <1>5, <1>7, EpochsFinite, FS_EmptySet
 <2>2. PICK e \in S : \A f \in S : f <= e
   BY <2>1, LastEpoch
 <2>3. S \ {e} \in SUBSET Epoch /\ Cardinality(S \ {e}) = m - 1
   BY <2>1, <2>2, <1>5, FS_RemoveElement
 <2>4. m - 1 \in Nat /\ ~(m <= m - 1)
   BY <1>4, <1>7
 <2>5. Good(m - 1)
  <3>1. m - 1 \notin T
    BY <1>3, <2>4
  <3> QED BY <3>1, <2>4
 <2>6. PICK s \in [1..(m - 1) -> S \ {e}] : Increasing(S \ {e}, s)
   BY <2>3, <2>5
 <2>7. Cardinality(S) = (m - 1) + 1
   BY <1>5, <2>4
 <2>8. \E r \in [1..((m - 1) + 1) -> S] : Increasing(S, r)
   BY <2>1, <2>2, <2>3, <2>4, <2>6, <2>7, OneMore
 <2>9. (m - 1) + 1 = m
   BY <2>4
 <2> QED BY <1>5, <2>8, <2>9
<1> QED BY <1>6, <1>7

LEMMA OrderedTypes ==
  ASSUME NEW E \in SUBSET Epoch
  PROVE  /\ Cardinality(E) \in Nat
         /\ Ordered(E) \in [1..Cardinality(E) -> E]
         /\ Increasing(E, Ordered(E))
<1>1. Cardinality(E) \in Nat
  BY EpochsFinite
<1>2. \E s \in [1..Cardinality(E) -> E] : \A i, j \in 1..Cardinality(E) : i < j => s[i] < s[j]
  BY OrderExists, Zenon DEF Increasing
<1>3. /\ Ordered(E) \in [1..Cardinality(E) -> E]
      /\ \A i, j \in 1..Cardinality(E) : i < j => Ordered(E)[i] < Ordered(E)[j]
  BY <1>2, Zenon DEF Ordered
<1> QED BY <1>1, <1>3, Zenon DEF Increasing

-------------------------------------------------------------------------------
(***************************************************************************)
(* The steps of the device.                                                *)
(***************************************************************************)

LEMMA LiveAccount ==
  ASSUME VoiceTypes, NEW e \in Epoch, streams[e].live
  PROVE  streams[e] \in Account
<1>1. streams[e] \in Account \cup {None}
  BY DEF VoiceTypes, ProxyTypes
<1>2. None.live = FALSE
  BY DEF None
<1> QED BY <1>1, <1>2, Zenon

\* What a step of the device has to keep: no more is heard of an account that is
\* closed.
LEMMA HeardFollows ==
  ASSUME VoiceInv, VoiceTypes', AudioInOrder', DeviceOK', ReportsOK',
         UNCHANGED <<streams, epoch, settled, outbound>>,
         \A e \in Epoch : heard[e] <= heard'[e],
         \A e \in Epoch : settled[e] # Open => heard'[e] = heard[e],
         \A e \in Epoch : \A k \in Nat : NoMore(e, k) => NoMore(e, k)',
         \A e \in Epoch : Dead(e) => Dead(e)'
  PROVE  VoiceInv'
<1>1. OutboundOK'
  BY DEF VoiceInv, OutboundOK
<1>2. ASSUME NEW e \in Epoch PROVE (StreamOK(e) /\ Ahead(e) /\ SettledOK(e))'
 <2>1. StreamOK(e) /\ Ahead(e) /\ SettledOK(e)
   BY DEF VoiceInv, AccountsOK
 <2>2. heard[e] \in Nat /\ heard'[e] \in Nat
   BY DEF VoiceInv, VoiceTypes, DeviceTypes
 <2>3. streams[e].live => streams[e].produced \in Nat /\ streams[e].played \in Nat
   BY LiveAccount DEF VoiceInv, Account
 <2>4. StreamOK(e)'
   BY <2>1, <2>2, <2>3 DEF StreamOK
 <2>5. Ahead(e)'
   BY <2>1 DEF Ahead
 <2>6. SettledOK(e)'
   BY <2>1, <2>2 DEF SettledOK
 <2> QED BY <2>4, <2>5, <2>6
<1>3. AccountsOK'
  BY <1>2 DEF AccountsOK
<1> QED BY <1>1, <1>3 DEF VoiceInv

LEMMA DeviceFollows ==
  ASSUME VoiceInv, VoiceTypes', AudioInOrder', DeviceOK', ReportsOK',
         UNCHANGED <<streams, epoch, settled, outbound, heard>>,
         \A e \in Epoch : \A k \in Nat : NoMore(e, k) => NoMore(e, k)',
         \A e \in Epoch : Dead(e) => Dead(e)'
  PROVE  VoiceInv'
<1>1. \A e \in Epoch : heard[e] <= heard'[e] /\ heard'[e] = heard[e]
  BY DEF VoiceInv, VoiceTypes, DeviceTypes
<1> QED BY <1>1, HeardFollows

LEMMA NoMoreFollows ==
  ASSUME VoiceInv, NEW e \in Epoch, NEW k \in Nat, NoMore(e, k),
         UNCHANGED <<outbound, heard>>,
         down' = down \/ (down # <<>> /\ down' = Tail(down)),
         dac'.epoch = e => dac'.played + dac'.pending <= k
  PROVE  NoMore(e, k)'
<1>1. Within(down', e, k)
 <2>1. down \in Seq(Word)
   BY DEF VoiceInv, VoiceTypes, ProxyTypes
 <2> QED BY <2>1, WithinTail DEF NoMore
<1> QED BY <1>1 DEF NoMore, Within

LEMMA TruthStays ==
  ASSUME VoiceInv, UNCHANGED heard, \A e \in Epoch : Dead(e) => Dead(e)'
  PROVE  \A m \in Told : Truthful(m) => Truthful(m)'
<1>1. \A m \in Told : m.epoch \in Epoch
  BY DEF Told
<1> QED BY <1>1 DEF Truthful

\* So the reports that stay on their way stay true.
LEMMA ReportsFollow ==
  ASSUME VoiceInv, UNCHANGED heard, \A e \in Epoch : Dead(e) => Dead(e)',
         \A i \in 1..Len(up') : up'[i] \in Told /\ Truthful(up'[i]),
         \A i \in 1..Len(controls') : controls'[i] \in Told /\ Truthful(controls'[i]),
         (ws.pc = "clearing" => Truthful(Cleared(ws.epoch, ws.played)))'
  PROVE  ReportsOK'
<1>1. \A m \in Told : m.epoch \in Epoch
  BY DEF Told
<1>2. ASSUME NEW m \in Told, Truthful(m) PROVE Truthful(m)'
  BY <1>2, TruthStays
<1>3. (\A i \in 1..Len(up) : Truthful(up[i]))'
  BY <1>1 DEF Truthful
<1>4. (\A i \in 1..Len(controls) : Truthful(controls[i]))'
  BY <1>1 DEF Truthful
<1> QED BY <1>3, <1>4 DEF ReportsOK

LEMMA ReportsStay ==
  ASSUME VoiceInv, UNCHANGED <<heard, up, controls>>, \A e \in Epoch : Dead(e) => Dead(e)',
         ws'.pc # "clearing" \/ ws' = ws
  PROVE  ReportsOK'
<1>1. \A m \in Told : Truthful(m) => Truthful(m)'
  BY TruthStays
<1>2. /\ \A i \in 1..Len(up) : up[i] \in Told /\ Truthful(up[i])
      /\ \A i \in 1..Len(controls) : controls[i] \in Told /\ Truthful(controls[i])
  BY DEF VoiceInv, VoiceTypes, DeviceTypes, ReportsOK
<1>3. \A i \in 1..Len(up) : Truthful(up[i])'
  BY <1>1, <1>2 DEF Truthful, Dead
<1>4. \A i \in 1..Len(controls) : Truthful(controls[i])'
  BY <1>1, <1>2 DEF Truthful, Dead
<1>5. ws'.pc = "clearing" => Truthful(Cleared(ws.epoch, ws.played))'
 <2>1. CASE ws' = ws /\ ws.pc = "clearing"
  <3>1. Truthful(Cleared(ws.epoch, ws.played)) /\ ws.epoch \in Epoch /\ ws.played \in Nat
    BY <2>1 DEF VoiceInv, ReportsOK, DeviceOK, VoiceTypes, DeviceTypes, Ws
  <3>2. Cleared(ws.epoch, ws.played) \in Told
    BY <3>1 DEF Cleared, Told
  <3>3. Dead(ws.epoch) => Dead(ws.epoch)'
    BY <2>1, <3>1 DEF Dead
  <3> QED BY <2>1, <3>1, <3>2, <3>3 DEF Truthful, Cleared, Dead
 <2> QED BY <2>1
<1> QED BY <1>3, <1>4, <1>5 DEF ReportsOK

LEMMA NothingHeld ==
  ASSUME VoiceInv, dac.pending = 0
  PROVE  /\ dac.ring = <<>>
         /\ \A i \in 1..DmaBlocks : dac.dma[i].n = 0
<1>1. dac.ring \in Seq(Nat) /\ dac.played \in Nat
  BY DEF VoiceInv, VoiceTypes, DeviceTypes, Dac
<1>2. Len(dac.ring) = 0
  BY <1>1 DEF VoiceInv, AudioInOrder
<1>3. ASSUME NEW i \in 1..DmaBlocks, dac.dma[i].n # 0 PROVE FALSE
 <2>1. dac.dma[i].n \in Nat
   BY DEF VoiceInv, VoiceTypes, DeviceTypes, Dac, Block
 <2>2. dac.played < dac.dma[i].n /\ dac.dma[i].n <= dac.played + dac.pending - Len(dac.ring)
   BY <1>3 DEF VoiceInv, AudioInOrder
 <2> QED BY <1>1, <1>2, <2>1, <2>2
<1> QED BY <1>1, <1>2, <1>3

LEMMA NothingInOrder ==
  ASSUME dac'.ring = <<>>, dac'.pending = 0, dac'.played \in Nat,
         \A i \in 1..DmaBlocks : dac'.dma[i].n = 0
  PROVE  AudioInOrder'
BY DEF AudioInOrder

LEMMA FlushKeeps ==
  ASSUME VoiceInv, dac' = Flushed
  PROVE  /\ dac' \in Dac
         /\ dac'.epoch = 0 /\ dac'.pending = 0 /\ dac'.played = dac.played
         /\ AudioInOrder'
<1> DEFINE silent == [i \in 1..DmaBlocks |-> [dac.dma[i] EXCEPT !.n = 0]]
<1>1. dac \in Dac
  BY DEF VoiceInv, VoiceTypes, DeviceTypes
<1>2. silent \in [1..DmaBlocks -> Block] /\ \A i \in 1..DmaBlocks : silent[i].n = 0
  BY <1>1 DEF Block, Dac
<1>3. dac' = [dac EXCEPT !.epoch = 0, !.ring = <<>>, !.pending = 0, !.dma = silent]
  BY <1>1 DEF Flushed, Dac
<1>4. /\ dac'.epoch = 0 /\ dac'.pending = 0 /\ dac'.played = dac.played
      /\ dac'.ring = <<>> /\ dac'.dma = silent
 <2> HIDE DEF silent
 <2> QED BY <1>1, <1>3 DEF Dac
<1>5. dac' \in Dac
 <2>1. <<>> \in Seq(Nat) /\ 0 \in 0..MaxEpoch
   BY EpochNat
 <2>2. dac.played \in Nat
   BY <1>1 DEF Dac
 <2>3. dac' = [epoch |-> 0, played |-> dac.played, pending |-> 0, ring |-> <<>>, dma |-> silent]
  <3> HIDE DEF silent
  <3> QED BY <1>1, <1>3 DEF Dac
 <2> HIDE DEF silent
 <2> QED BY <1>2, <2>1, <2>2, <2>3 DEF Dac
<1>6. AudioInOrder'
 <2>1. dac'.played \in Nat /\ \A i \in 1..DmaBlocks : dac'.dma[i].n = 0
   BY <1>1, <1>2, <1>4 DEF Dac
 <2> QED BY <1>4, <2>1, NothingInOrder
<1> QED BY <1>4, <1>5, <1>6

\* The message the WebSocket task takes.
LEMMA TakenWord ==
  ASSUME VoiceInv, Take
  PROVE  Head(down) \in Word /\ down # <<>> /\ down' = Tail(down) /\ down' \in Seq(Word)
BY TailKeeps DEF VoiceInv, VoiceTypes, ProxyTypes, Take

\* A message that changes nothing: it is late, or the session ends.
LEMMA OnlyTaken ==
  ASSUME VoiceInv, down # <<>>, down' = Tail(down), down' \in Seq(Word),
         UNCHANGED <<proxy, up, dev, ws, dac, controls, sample, heard, settled>>
  PROVE  VoiceInv'
<1>1. VoiceTypes'
  BY DEF VoiceInv, VoiceTypes, ProxyTypes, DeviceTypes, proxy
<1>2. AudioInOrder' /\ DeviceOK' /\ \A e \in Epoch : Dead(e) => Dead(e)'
  BY DEF VoiceInv, AudioInOrder, DeviceOK, Dead
<1>3. ASSUME NEW e \in Epoch, NEW k \in Nat, NoMore(e, k) PROVE NoMore(e, k)'
  BY <1>3, NoMoreFollows DEF proxy, NoMore
<1>4. ReportsOK'
  BY <1>2, ReportsStay
<1> QED BY <1>1, <1>2, <1>3, <1>4, DeviceFollows DEF proxy

LEMMA WsStartKeeps == ASSUME VoiceInv, WsStart PROVE VoiceInv'
<1> DEFINE e0 == Head(down).epoch
<1>1. /\ Head(down) \in Word /\ down # <<>> /\ down' = Tail(down) /\ down' \in Seq(Word)
      /\ e0 \in Epoch /\ ws.pc = "idle"
      /\ UNCHANGED <<proxy, up, controls, sample, dev, heard, settled>>
  BY TakenWord, Zenon DEF WsStart, Got, Rejected, Word
<1>2. CASE UNCHANGED <<dac, ws>>
  BY <1>1, <1>2, OnlyTaken
<1>3. CASE e0 > dev.last /\ dac' = Flushed /\ ws' = [pc |-> "flushed", epoch |-> e0, played |-> 0]
 <2>1. VoiceTypes'
  <3>1. e0 \in 0..MaxEpoch
    BY <1>1, EpochNat
  <3>2. ws' \in Ws
    BY <1>3, <3>1 DEF Ws
  <3>3. dac' \in Dac
    BY <1>3, FlushKeeps
  <3> QED BY <1>1, <3>2, <3>3 DEF VoiceInv, VoiceTypes, ProxyTypes, DeviceTypes, proxy
 <2>2. AudioInOrder'
   BY <1>3, FlushKeeps
 <2>3. dac'.epoch = 0 /\ dac'.pending = 0
   BY <1>3, FlushKeeps
 <2>4. DeviceOK'
   BY <1>1, <1>3, <2>3 DEF VoiceInv, DeviceOK
 <2>5. \A e \in Epoch : Dead(e) => Dead(e)'
   BY <1>1, <2>3, EpochNat DEF Dead
 <2>6. ASSUME NEW e \in Epoch, NEW k \in Nat, NoMore(e, k) PROVE NoMore(e, k)'
   BY <1>1, <2>3, <2>6, NoMoreFollows, EpochNat DEF proxy
 <2>7. ReportsOK'
   BY <1>1, <1>3, <2>5, ReportsStay
 <2> QED BY <1>1, <2>1, <2>2, <2>4, <2>5, <2>6, <2>7, DeviceFollows DEF proxy
<1>4. dev.last \in Nat /\ e0 \in Nat
  BY <1>1, EpochNat DEF VoiceInv, VoiceTypes, DeviceTypes, Dev
<1>5. UNCHANGED <<dac, ws>> \/ (e0 > dev.last /\ dac' = Flushed /\ ws' = [pc |-> "flushed", epoch |-> e0, played |-> 0])
  BY <1>4 DEF WsStart, Rejected
<1> QED BY <1>2, <1>3, <1>5
LEMMA WsOpenKeeps == ASSUME VoiceInv, WsOpen PROVE VoiceInv'
<1>1. /\ ws.pc = "flushed" /\ dac' = [dac EXCEPT !.epoch = ws.epoch, !.played = 0]
      /\ ws' = [ws EXCEPT !.pc = "opened"]
      /\ UNCHANGED <<proxy, down, up, dev, controls, sample, heard, settled>>
  BY DEF WsOpen, session
<1>2. /\ ws.epoch \in Epoch /\ ws.epoch > dev.last /\ dac.epoch = 0 /\ dac.pending = 0
      /\ dac \in Dac /\ dev.last \in Nat
  BY <1>1 DEF VoiceInv, DeviceOK, VoiceTypes, DeviceTypes, Dev, Ws
<1>3. /\ dac'.epoch = ws.epoch /\ dac'.played = 0 /\ dac'.pending = 0 /\ dac'.ring = dac.ring
      /\ dac'.dma = dac.dma /\ dac' \in Dac
 <2>1. dac' = [epoch |-> ws.epoch, played |-> 0, pending |-> 0, ring |-> dac.ring, dma |-> dac.dma]
   BY <1>1, <1>2 DEF Dac
 <2>2. dac.ring \in Seq(Nat) /\ dac.dma \in [1..DmaBlocks -> Block] /\ ws.epoch \in 0..MaxEpoch
   BY <1>2, EpochNat DEF Dac
 <2> QED BY <2>1, <2>2 DEF Dac
<1>4. AudioInOrder'
 <2>1. dac.ring = <<>> /\ \A i \in 1..DmaBlocks : dac.dma[i].n = 0
   BY <1>2, NothingHeld
 <2> QED BY <1>3, <2>1, NothingInOrder
<1>5. ws'.pc = "opened" /\ ws'.epoch = ws.epoch
      /\ ws' \in Ws
  BY <1>1 DEF VoiceInv, VoiceTypes, DeviceTypes, Ws
<1>6. VoiceTypes'
  BY <1>1, <1>3, <1>5 DEF VoiceInv, VoiceTypes, ProxyTypes, DeviceTypes, proxy
<1>7. DeviceOK'
  BY <1>1, <1>2, <1>3, <1>5, EpochNat DEF VoiceInv, DeviceOK
<1>8. \A e \in Epoch : Dead(e) => Dead(e)'
  BY <1>1, <1>2, <1>3, EpochNat DEF Dead
<1>9. ASSUME NEW e \in Epoch, NEW k \in Nat, NoMore(e, k) PROVE NoMore(e, k)'
  BY <1>1, <1>3, <1>9, NoMoreFollows DEF proxy
<1>10. ReportsOK'
  BY <1>1, <1>5, <1>8, ReportsStay
<1> QED BY <1>1, <1>4, <1>6, <1>7, <1>8, <1>9, <1>10, DeviceFollows DEF proxy

LEMMA WsPublishKeeps == ASSUME VoiceInv, WsPublish PROVE VoiceInv'
<1>1. /\ ws.pc = "opened"
      /\ dev' = [dev EXCEPT !.current = ws.epoch, !.last = ws.epoch, !.ended = FALSE, !.expected = 0]
      /\ ws' = [pc |-> "idle", epoch |-> 0, played |-> 0]
      /\ UNCHANGED <<proxy, down, up, dac, controls, sample, heard, settled>>
  BY DEF WsPublish, session, Idle
<1>2. /\ ws.epoch \in Epoch /\ ws.epoch > dev.last /\ dac.epoch = ws.epoch /\ dac.pending = 0
      /\ dac.played = 0 /\ dev.last \in Nat
  BY <1>1 DEF VoiceInv, DeviceOK, VoiceTypes, DeviceTypes, Dev, Ws
<1>3. /\ dev'.current = ws.epoch /\ dev'.last = ws.epoch /\ dev'.expected = 0
      /\ dev' \in Dev
 <2>1. dev \in Dev /\ ws.epoch \in 0..MaxEpoch
   BY <1>2, EpochNat DEF VoiceInv, VoiceTypes, DeviceTypes
 <2>2. dev' = [current |-> ws.epoch, last |-> ws.epoch, cleared |-> dev.cleared,
               ended |-> FALSE, expected |-> 0]
   BY <1>1, <2>1 DEF Dev
 <2> QED BY <2>1, <2>2 DEF Dev
<1>4. AudioInOrder'
  BY <1>1 DEF VoiceInv, AudioInOrder
<1>5. VoiceTypes'
  BY <1>1, <1>3, EpochNat DEF VoiceInv, VoiceTypes, ProxyTypes, DeviceTypes, proxy, Ws
<1>6. DeviceOK'
  BY <1>1, <1>2, <1>3, EpochNat DEF VoiceInv, DeviceOK
<1>7. \A e \in Epoch : Dead(e) => Dead(e)'
  BY <1>1, <1>2, <1>3, EpochNat DEF Dead
<1>8. ASSUME NEW e \in Epoch, NEW k \in Nat, NoMore(e, k) PROVE NoMore(e, k)'
  BY <1>1, <1>8, NoMoreFollows DEF proxy, NoMore
<1>9. ReportsOK'
  BY <1>1, <1>7, ReportsStay
<1> QED BY <1>1, <1>4, <1>5, <1>6, <1>7, <1>8, <1>9, DeviceFollows DEF proxy

\* The position of an acknowledgment is read before the flush, and nothing is heard
\* of the epoch after it.
LEMMA WsClearKeeps == ASSUME VoiceInv, WsClear PROVE VoiceInv'
<1> DEFINE e0 == Head(down).epoch
<1>1. /\ Head(down) \in Word /\ down # <<>> /\ down' = Tail(down) /\ down' \in Seq(Word)
      /\ e0 \in Epoch /\ ws.pc = "idle"
      /\ UNCHANGED <<proxy, up, controls, sample, dev, heard, settled>>
  BY TakenWord, Zenon DEF WsClear, Got, Rejected, Word
<1>2. CASE UNCHANGED <<dac, ws>>
  BY <1>1, <1>2, OnlyTaken
<1>3. CASE /\ e0 = dev.current /\ dac' = Flushed
           /\ ws' = [pc |-> "clearing", epoch |-> e0, played |-> Played(e0)]
 <2>1. dac'.epoch = 0 /\ dac'.pending = 0 /\ dac' \in Dac /\ AudioInOrder'
   BY <1>3, FlushKeeps
 <2>2. /\ e0 # 0 /\ dac.epoch = e0 /\ dev.last = e0 /\ heard[e0] = dac.played
       /\ Played(e0) = dac.played /\ dac.played \in Nat
   BY <1>1, <1>3, EpochNat DEF VoiceInv, DeviceOK, Played, VoiceTypes, DeviceTypes, Dac, Dev
 <2>3. ws'.pc = "clearing" /\ ws'.epoch = e0 /\ ws'.played = heard[e0]
       /\ ws' \in Ws
   BY <1>1, <1>3, <2>2, EpochNat DEF Ws
 <2>4. VoiceTypes'
   BY <1>1, <2>1, <2>3 DEF VoiceInv, VoiceTypes, ProxyTypes, DeviceTypes, proxy
 <2>5. DeviceOK'
   BY <1>1, <1>3, <2>1, <2>3 DEF VoiceInv, DeviceOK
 <2>6. \A e \in Epoch : Dead(e) => Dead(e)'
   BY <1>1, <2>1, EpochNat DEF Dead
 <2>7. ASSUME NEW e \in Epoch, NEW k \in Nat, NoMore(e, k) PROVE NoMore(e, k)'
   BY <1>1, <2>1, <2>7, NoMoreFollows, EpochNat DEF proxy
 <2>8. ReportsOK'
  <3>1. /\ \A i \in 1..Len(up) : up[i] \in Told /\ Truthful(up[i])
        /\ \A i \in 1..Len(controls) : controls[i] \in Told /\ Truthful(controls[i])
    BY DEF VoiceInv, VoiceTypes, DeviceTypes, ReportsOK
  <3>2. e0 <= dev'.last /\ dac'.epoch # e0
    BY <1>1, <2>1, <2>2, EpochNat
  <3>3. (ws.pc = "clearing" => Truthful(Cleared(ws.epoch, ws.played)))'
   <4>1. Cleared(ws'.epoch, ws'.played) = [type |-> "cleared", epoch |-> e0, played |-> heard[e0]]
     BY <2>3 DEF Cleared
   <4> QED BY <1>1, <3>2, <4>1 DEF Truthful, Dead
  <3> QED BY <1>1, <2>6, <3>1, <3>3, ReportsFollow
 <2> QED BY <1>1, <2>1, <2>4, <2>5, <2>6, <2>7, <2>8, DeviceFollows DEF proxy
<1>4. UNCHANGED <<dac, ws>> \/ (e0 = dev.current /\ dac' = Flushed
                                 /\ ws' = [pc |-> "clearing", epoch |-> e0, played |-> Played(e0)])
  BY DEF WsClear, Rejected
<1> QED BY <1>2, <1>3, <1>4

LEMMA WsClearedKeeps == ASSUME VoiceInv, WsCleared PROVE VoiceInv'
<1>1. /\ ws.pc = "clearing"
      /\ dev' = [dev EXCEPT !.cleared = ws.epoch, !.current = 0]
      /\ controls' = Append(controls, Cleared(ws.epoch, ws.played))
      /\ ws' = [pc |-> "idle", epoch |-> 0, played |-> 0]
      /\ UNCHANGED <<proxy, down, up, dac, sample, heard, settled>>
  BY DEF WsCleared, session, Idle
<1>2. /\ ws.epoch \in Epoch /\ ws.played \in Nat /\ dac.epoch = 0 /\ dac.pending = 0
      /\ Truthful(Cleared(ws.epoch, ws.played))
  BY <1>1 DEF VoiceInv, DeviceOK, ReportsOK, VoiceTypes, DeviceTypes, Dev, Ws
<1>3. /\ dev'.current = 0 /\ dev'.last = dev.last /\ dev'.expected = dev.expected
      /\ dev' \in Dev
 <2>1. dev \in Dev /\ ws.epoch \in 0..MaxEpoch /\ 0 \in 0..MaxEpoch
   BY <1>2, EpochNat DEF VoiceInv, VoiceTypes, DeviceTypes
 <2>2. dev' = [current |-> 0, last |-> dev.last, cleared |-> ws.epoch,
               ended |-> dev.ended, expected |-> dev.expected]
   BY <1>1, <2>1 DEF Dev
 <2> QED BY <2>1, <2>2 DEF Dev
<1>4. Cleared(ws.epoch, ws.played) \in Told
  BY <1>2 DEF Cleared, Told
<1>5. controls \in Seq(Told)
  BY DEF VoiceInv, VoiceTypes, DeviceTypes
<1>6. AudioInOrder'
  BY <1>1 DEF VoiceInv, AudioInOrder
<1>7. VoiceTypes'
  BY <1>1, <1>3, <1>4, <1>5, AppendKeeps, EpochNat
  DEF VoiceInv, VoiceTypes, ProxyTypes, DeviceTypes, proxy, Ws
<1>8. DeviceOK'
  BY <1>1, <1>2, <1>3 DEF VoiceInv, DeviceOK
<1>9. \A e \in Epoch : Dead(e) => Dead(e)'
  BY <1>1, <1>3 DEF Dead
<1>10. ASSUME NEW e \in Epoch, NEW k \in Nat, NoMore(e, k) PROVE NoMore(e, k)'
  BY <1>1, <1>10, NoMoreFollows DEF proxy, NoMore
<1>11. ReportsOK'
 <2>1. /\ \A i \in 1..Len(up) : up[i] \in Told /\ Truthful(up[i])
       /\ \A i \in 1..Len(controls) : controls[i] \in Told /\ Truthful(controls[i])
   BY DEF VoiceInv, VoiceTypes, DeviceTypes, ReportsOK
 <2>2. \A i \in 1..Len(controls') : controls'[i] \in Told /\ Truthful(controls'[i])
  <3>1. /\ Len(controls') = Len(controls) + 1
        /\ \A i \in 1..Len(controls) : controls'[i] = controls[i]
        /\ controls'[Len(controls) + 1] = Cleared(ws.epoch, ws.played)
    BY <1>1, <1>4, <1>5, AppendKeeps
  <3>2. \A i \in 1..(Len(controls) + 1) : i \in 1..Len(controls) \/ i = Len(controls) + 1
    BY <1>5
  <3> QED BY <1>2, <1>4, <2>1, <3>1, <3>2
 <2> QED BY <1>1, <1>9, <2>1, <2>2, ReportsFollow
<1> QED BY <1>1, <1>6, <1>7, <1>8, <1>9, <1>10, <1>11, DeviceFollows DEF proxy
LEMMA WsEndKeeps == ASSUME VoiceInv, WsEnd PROVE VoiceInv'
<1>1. /\ Head(down) \in Word /\ down # <<>> /\ down' = Tail(down) /\ down' \in Seq(Word)
      /\ UNCHANGED <<proxy, up, controls, sample, dac, ws, heard, settled>>
      /\ dev' = dev \/ dev' = [dev EXCEPT !.ended = TRUE]
  BY TakenWord, Zenon DEF WsEnd, Got, Rejected
<1>2. CASE dev' = dev
  BY <1>1, <1>2, OnlyTaken
<1>3. CASE dev' = [dev EXCEPT !.ended = TRUE]
 <2>1. dev \in Dev
   BY DEF VoiceInv, VoiceTypes, DeviceTypes
 <2>2. /\ dev' \in Dev /\ dev'.current = dev.current /\ dev'.last = dev.last
       /\ dev'.expected = dev.expected
  <3>1. dev' = [current |-> dev.current, last |-> dev.last, cleared |-> dev.cleared,
                ended |-> TRUE, expected |-> dev.expected]
    BY <1>3, <2>1 DEF Dev
  <3> QED BY <2>1, <3>1 DEF Dev
 <2>3. AudioInOrder'
   BY <1>1 DEF VoiceInv, AudioInOrder
 <2>4. VoiceTypes'
   BY <1>1, <2>2 DEF VoiceInv, VoiceTypes, ProxyTypes, DeviceTypes, proxy
 <2>5. DeviceOK'
   BY <1>1, <2>2 DEF VoiceInv, DeviceOK
 <2>6. \A e \in Epoch : Dead(e) => Dead(e)'
   BY <1>1, <2>2 DEF Dead
 <2>7. ASSUME NEW e \in Epoch, NEW k \in Nat, NoMore(e, k) PROVE NoMore(e, k)'
   BY <1>1, <2>7, NoMoreFollows DEF proxy, NoMore
 <2>8. ReportsOK'
   BY <1>1, <2>6, ReportsStay
 <2> QED BY <1>1, <2>3, <2>4, <2>5, <2>6, <2>7, <2>8, DeviceFollows DEF proxy
<1> QED BY <1>1, <1>2, <1>3

\* A frame goes to the end of the ring.
LEMMA EnqueueKeepsOrder ==
  ASSUME VoiceInv, NEW n \in Nat, n = dac.played + dac.pending + 1,
         dac' = [dac EXCEPT !.ring = Append(@, n), !.pending = @ + 1]
  PROVE  /\ dac' \in Dac /\ dac'.epoch = dac.epoch /\ dac'.played = dac.played
         /\ dac'.pending = dac.pending + 1 /\ AudioInOrder'
<1>1. dac \in Dac
  BY DEF VoiceInv, VoiceTypes, DeviceTypes
<1>2. dac.ring \in Seq(Nat) /\ dac.played \in Nat /\ dac.pending \in Nat
  BY <1>1 DEF Dac
<1>3. dac' = [epoch |-> dac.epoch, played |-> dac.played, pending |-> dac.pending + 1,
              ring |-> Append(dac.ring, n), dma |-> dac.dma]
  BY <1>1 DEF Dac
<1>4. /\ Append(dac.ring, n) \in Seq(Nat) /\ Len(Append(dac.ring, n)) = Len(dac.ring) + 1
      /\ \A i \in 1..Len(dac.ring) : Append(dac.ring, n)[i] = dac.ring[i]
      /\ Append(dac.ring, n)[Len(dac.ring) + 1] = n
  BY <1>2, AppendKeeps
<1>5. dac' \in Dac
 <2>1. dac.epoch \in 0..MaxEpoch /\ dac.dma \in [1..DmaBlocks -> Block] /\ dac.pending + 1 \in Nat
   BY <1>1 DEF Dac
 <2> QED BY <1>2, <1>3, <1>4, <2>1 DEF Dac
<1>6. /\ dac'.epoch = dac.epoch /\ dac'.played = dac.played /\ dac'.pending = dac.pending + 1
      /\ dac'.ring = Append(dac.ring, n) /\ dac'.dma = dac.dma
  BY <1>3
<1> DEFINE first == dac.played + dac.pending - Len(dac.ring)
<1>7. Len(dac.ring) \in Nat /\ Len(dac.ring) <= dac.pending
      /\ dac'.played + dac'.pending - Len(dac'.ring) = first
      /\ Len(dac'.ring) = Len(dac.ring) + 1
 <2>1. Len(dac.ring) \in Nat
   BY <1>2
 <2>2. Len(dac.ring) <= dac.pending
   BY DEF VoiceInv, AudioInOrder
 <2>3. Len(dac'.ring) = Len(dac.ring) + 1
   BY <1>4, <1>6
 <2> QED BY <1>2, <1>6, <2>1, <2>2, <2>3, SMTT(30)
<1>8. \A k \in 1..Len(dac'.ring) : dac'.ring[k] = first + k
 <2>1. \A k \in 1..Len(dac.ring) : dac.ring[k] = first + k
   BY DEF VoiceInv, AudioInOrder
 <2>2. first + (Len(dac.ring) + 1) = n
  <3>1. Len(dac.ring) \in Nat
    BY <1>7
  <3>2. \A a, b, c \in Nat : a + b - c + (c + 1) = a + b + 1
    OBVIOUS
  <3>3. first + (Len(dac.ring) + 1) = dac.played + dac.pending + 1
    BY <1>2, <3>1, <3>2
  <3> QED BY <3>3
 <2> QED BY <1>4, <1>6, <1>7, <2>1, <2>2
<1>9. AudioInOrder'
 <2> HIDE DEF first
 <2>1. /\ Len(dac.ring) <= dac.pending
       /\ \A i \in {j \in 1..DmaBlocks : dac.dma[j].n # 0} :
            /\ dac.dma[i].epoch = dac.epoch
            /\ dac.played < dac.dma[i].n /\ dac.dma[i].n <= first
       /\ \A i, j \in {l \in 1..DmaBlocks : dac.dma[l].n # 0} : i < j => dac.dma[i].n < dac.dma[j].n
       /\ \A m \in (dac.played + 1)..first : \E i \in {j \in 1..DmaBlocks : dac.dma[j].n # 0} : dac.dma[i].n = m
   BY DEF VoiceInv, AudioInOrder, first
 <2>2. Len(dac'.ring) <= dac'.pending
   BY <1>2, <1>6, <1>7
 <2> QED BY <1>6, <1>7, <1>8, <2>1, <2>2 DEF AudioInOrder
<1> QED BY <1>5, <1>6, <1>9

LEMMA WsFrameKeeps == ASSUME VoiceInv, WsFrame PROVE VoiceInv'
<1> DEFINE m == Head(down)
<1>1. /\ m \in Word /\ m.type = "frame" /\ down # <<>> /\ down' = Tail(down) /\ down' \in Seq(Word)
      /\ ws.pc = "idle"
      /\ UNCHANGED <<proxy, up, controls, sample, heard, settled>>
  BY TakenWord, Zenon DEF WsFrame, Got
<1>2. m.epoch \in Epoch /\ m.n \in Nat
  BY <1>1 DEF Word
<1>3. CASE UNCHANGED <<dev, dac, ws>>
  BY <1>1, <1>3, OnlyTaken
<1>4. CASE /\ m.epoch = dac.epoch /\ m.n = dev.expected + 1
           /\ dev' = [dev EXCEPT !.expected = m.n]
           /\ dac' = [dac EXCEPT !.ring = Append(@, m.n), !.pending = @ + 1]
           /\ UNCHANGED ws
 <2>1. dac.epoch # 0 /\ dac.played + dac.pending = dev.expected
   BY <1>1, <1>2, <1>4, EpochNat DEF VoiceInv, DeviceOK
 <2>2. /\ dac' \in Dac /\ dac'.epoch = dac.epoch /\ dac'.played = dac.played
       /\ dac'.pending = dac.pending + 1 /\ AudioInOrder'
   BY <1>2, <1>4, <2>1, EnqueueKeepsOrder
 <2>3. /\ dev' \in Dev /\ dev'.current = dev.current /\ dev'.last = dev.last
       /\ dev'.expected = m.n
  <3>1. dev \in Dev
    BY DEF VoiceInv, VoiceTypes, DeviceTypes
  <3>2. dev' = [current |-> dev.current, last |-> dev.last, cleared |-> dev.cleared,
                ended |-> dev.ended, expected |-> m.n]
    BY <1>4, <3>1 DEF Dev
  <3> QED BY <1>2, <3>1, <3>2 DEF Dev
 <2>4. VoiceTypes'
   BY <1>1, <1>4, <2>2, <2>3 DEF VoiceInv, VoiceTypes, ProxyTypes, DeviceTypes, proxy
 <2>5. dac.played \in Nat /\ dac.pending \in Nat
   BY DEF VoiceInv, VoiceTypes, DeviceTypes, Dac
 <2>6. DeviceOK'
  <3>1. dac'.played + dac'.pending = dev'.expected
    BY <1>4, <2>1, <2>2, <2>3, <2>5
  <3>2. DeviceOK
    BY DEF VoiceInv
  <3> QED BY <1>1, <1>4, <2>1, <2>2, <2>3, <3>1, <3>2 DEF DeviceOK
 <2>7. \A e \in Epoch : Dead(e) => Dead(e)'
   BY <1>1, <2>2, <2>3 DEF Dead
 <2>8. ASSUME NEW e \in Epoch, NEW k \in Nat, NoMore(e, k) PROVE NoMore(e, k)'
  <3>1. dac'.epoch = e => dac'.played + dac'.pending <= k
   <4>1. down \in Seq(Word) /\ 1 \in 1..Len(down) /\ m = down[1]
     BY <1>1, TailKeeps DEF VoiceInv, VoiceTypes, ProxyTypes
   <4>2. m.epoch = e => m.n <= k
     BY <1>1, <2>8, <4>1 DEF NoMore, Within
   <4> QED BY <1>4, <2>1, <2>2, <2>5, <4>2
  <3> QED BY <1>1, <2>8, <3>1, NoMoreFollows DEF proxy
 <2>9. ReportsOK'
   BY <1>1, <1>4, <2>7, ReportsStay
 <2> QED BY <1>1, <2>2, <2>4, <2>6, <2>7, <2>8, <2>9, DeviceFollows DEF proxy
<1>5. \/ UNCHANGED <<dev, dac, ws>>
      \/ /\ m.epoch = dac.epoch /\ m.n = dev.expected + 1
         /\ dev' = [dev EXCEPT !.expected = m.n]
         /\ dac' = [dac EXCEPT !.ring = Append(@, m.n), !.pending = @ + 1]
         /\ UNCHANGED ws
  BY Zenon DEF WsFrame, Rejected
<1> QED BY <1>3, <1>4, <1>5

LEMMA WebSocketKeeps == ASSUME VoiceInv, WebSocket PROVE VoiceInv'
BY WsStartKeeps, WsOpenKeeps, WsPublishKeeps, WsClearKeeps, WsClearedKeeps, WsEndKeeps, WsFrameKeeps
DEF WebSocket

\* The conversation task reports what was heard, or nothing of an epoch that was
\* flushed since it looked.
LEMMA ConversationKeeps == ASSUME VoiceInv, Conversation PROVE VoiceInv'
<1>1. /\ UNCHANGED <<proxy, down, dev, ws, dac, heard, settled>>
      /\ \/ UNCHANGED <<up, controls>> /\ sample' = dev.current
         \/ /\ up' = Append(up, Head(controls)) /\ controls # <<>>
            /\ controls' = Tail(controls) /\ UNCHANGED sample
         \/ /\ sample # 0 /\ up' = Append(up, Progress(sample, Played(sample)))
            /\ sample' = 0 /\ UNCHANGED controls
  BY DEF Conversation, ConvControl, ConvSample, ConvReport, session
<1>2. /\ up \in Seq(Told) /\ controls \in Seq(Told) /\ sample \in 0..MaxEpoch
      /\ \A i \in 1..Len(up) : up[i] \in Told /\ Truthful(up[i])
      /\ \A i \in 1..Len(controls) : controls[i] \in Told /\ Truthful(controls[i])
  BY DEF VoiceInv, VoiceTypes, DeviceTypes, ReportsOK
<1>3. ASSUME NEW m \in Told, Truthful(m), up' = Append(up, m)
      PROVE  up' \in Seq(Told) /\ \A i \in 1..Len(up') : up'[i] \in Told /\ Truthful(up'[i])
 <2>1. /\ Len(up') = Len(up) + 1 /\ up' \in Seq(Told)
       /\ \A i \in 1..Len(up) : up'[i] = up[i]
       /\ up'[Len(up) + 1] = m
   BY <1>2, <1>3, AppendKeeps
 <2>2. \A i \in 1..(Len(up) + 1) : i \in 1..Len(up) \/ i = Len(up) + 1
   BY <1>2
 <2> QED BY <1>2, <1>3, <2>1, <2>2
<1>4. /\ up' \in Seq(Told) /\ controls' \in Seq(Told) /\ sample' \in 0..MaxEpoch
      /\ \A i \in 1..Len(up') : up'[i] \in Told /\ Truthful(up'[i])
      /\ \A i \in 1..Len(controls') : controls'[i] \in Told /\ Truthful(controls'[i])
 <2>1. CASE UNCHANGED <<up, controls>> /\ sample' = dev.current
   BY <1>2, <2>1 DEF VoiceInv, VoiceTypes, DeviceTypes, Dev
 <2>2. CASE /\ up' = Append(up, Head(controls)) /\ controls # <<>>
            /\ controls' = Tail(controls) /\ UNCHANGED sample
  <3>1. /\ Head(controls) \in Told /\ Head(controls) = controls[1] /\ 1 \in 1..Len(controls)
        /\ controls' \in Seq(Told)
        /\ \A i \in 1..Len(controls') : i + 1 \in 1..Len(controls) /\ controls'[i] = controls[i + 1]
    BY <1>2, <2>2, TailKeeps
  <3>2. Truthful(Head(controls))
    BY <1>2, <3>1
  <3>3. \A i \in 1..Len(controls') : controls'[i] \in Told /\ Truthful(controls'[i])
    BY <1>2, <3>1
  <3> QED BY <1>2, <1>3, <2>2, <3>1, <3>2, <3>3
 <2>3. CASE /\ sample # 0 /\ up' = Append(up, Progress(sample, Played(sample)))
            /\ sample' = 0 /\ UNCHANGED controls
  <3>1. sample \in Epoch /\ 0 \in 0..MaxEpoch
    BY <1>2, <2>3, EpochNat
  <3>2. Played(sample) \in Nat /\ Played(sample) <= heard[sample]
    BY <3>1, EpochNat DEF VoiceInv, VoiceTypes, DeviceTypes, DeviceOK, Played, Dac
  <3>3. Progress(sample, Played(sample)) \in Told /\ Truthful(Progress(sample, Played(sample)))
    BY <3>1, <3>2 DEF Progress, Told, Truthful
  <3> QED BY <1>2, <1>3, <2>3, <3>1, <3>3
 <2> QED BY <1>1, <2>1, <2>2, <2>3
<1>5. AudioInOrder' /\ DeviceOK' /\ \A e \in Epoch : Dead(e) => Dead(e)'
  BY <1>1 DEF VoiceInv, AudioInOrder, DeviceOK, Dead
<1>6. VoiceTypes'
  BY <1>1, <1>4 DEF VoiceInv, VoiceTypes, ProxyTypes, DeviceTypes, proxy
<1>7. ASSUME NEW e \in Epoch, NEW k \in Nat, NoMore(e, k) PROVE NoMore(e, k)'
  BY <1>1, <1>7, NoMoreFollows DEF proxy, NoMore
<1>8. ReportsOK'
 <2>1. (ws.pc = "clearing" => Truthful(Cleared(ws.epoch, ws.played)))'
   BY <1>1 DEF VoiceInv, ReportsOK, Truthful, Dead, Cleared
 <2> QED BY <1>1, <1>4, <1>5, <2>1, ReportsFollow
<1> QED BY <1>1, <1>5, <1>6, <1>7, <1>8, DeviceFollows DEF proxy
\* The block at the head of the DMA queue holds the next frame or nothing, and the
\* one that is refilled gets the next of the ring.
LEMMA DmaFacts ==
  ASSUME VoiceInv, Dma
  PROVE  LET b == dac.dma[1]
             k == IF b.n # 0 THEN 1 ELSE 0
             first == dac.played + dac.pending - Len(dac.ring)
         IN /\ dac.epoch \in Epoch /\ ws.pc = "idle" /\ dac.pending >= 1
            /\ b.n # 0 => b.n = dac.played + 1 /\ b.epoch = dac.epoch
            /\ dac.ring # <<>> => /\ Refill = [epoch |-> dac.epoch, n |-> first + 1]
                                  /\ Head(dac.ring) = first + 1
            /\ dac.ring = <<>> => Refill = [epoch |-> dac.epoch, n |-> 0]
            /\ dac' = [epoch |-> dac.epoch, played |-> dac.played + k, pending |-> dac.pending - k,
                       ring |-> IF dac.ring = <<>> THEN <<>> ELSE Tail(dac.ring),
                       dma |-> [i \in 1..DmaBlocks |->
                                  IF i < DmaBlocks THEN dac.dma[i + 1] ELSE Refill]]
            /\ heard' = IF b.n # 0 THEN [heard EXCEPT ![dac.epoch] = @ + 1] ELSE heard
            /\ UNCHANGED <<proxy, down, up, dev, ws, controls, sample, settled>>
<1> DEFINE b == dac.dma[1]
           k == IF b.n # 0 THEN 1 ELSE 0
           first == dac.played + dac.pending - Len(dac.ring)
<1>1. /\ dac \in Dac /\ dac.ring \in Seq(Nat) /\ dac.played \in Nat /\ dac.pending \in Nat
      /\ dac.epoch \in 0..MaxEpoch /\ dac.dma \in [1..DmaBlocks -> Block]
      /\ 1 \in 1..DmaBlocks /\ Len(dac.ring) \in Nat
  BY VoiceAssumption DEF VoiceInv, VoiceTypes, DeviceTypes, Dac
<1>2. \A i \in 1..DmaBlocks : dac.dma[i].n \in Nat
  BY <1>1 DEF Block
<1>3. dac.pending # 0
  BY NothingHeld DEF Dma
<1>4. dac.epoch \in Epoch /\ ws.pc = "idle" /\ dac.pending >= 1
  BY <1>1, <1>3, EpochNat DEF VoiceInv, DeviceOK
<1>5. /\ Len(dac.ring) <= dac.pending
      /\ \A i \in 1..Len(dac.ring) : dac.ring[i] = first + i
      /\ \A i \in 1..DmaBlocks : dac.dma[i].n # 0 =>
           dac.dma[i].epoch = dac.epoch /\ dac.played < dac.dma[i].n /\ dac.dma[i].n <= first
      /\ \A i, j \in 1..DmaBlocks :
           dac.dma[i].n # 0 /\ dac.dma[j].n # 0 /\ i < j => dac.dma[i].n < dac.dma[j].n
      /\ \A n \in (dac.played + 1)..first : \E i \in 1..DmaBlocks : dac.dma[i].n # 0 /\ dac.dma[i].n = n
  BY DEF VoiceInv, AudioInOrder
<1>6. ASSUME b.n # 0 PROVE b.n = dac.played + 1 /\ b.epoch = dac.epoch
 <2>1. b.epoch = dac.epoch /\ dac.played < b.n /\ b.n <= first
   BY <1>1, <1>5, <1>6
 <2>2. first \in Int /\ dac.played + 1 \in (dac.played + 1)..first
   BY <1>1, <1>2, <2>1, SMTT(30)
 <2>3. PICK i \in 1..DmaBlocks : dac.dma[i].n # 0 /\ dac.dma[i].n = dac.played + 1
  <3> HIDE DEF first
  <3> QED BY <1>5, <2>2
 <2>4. i = 1
  <3>1. SUFFICES ASSUME 1 < i PROVE FALSE
    BY VoiceAssumption
  <3>2. b.n < dac.dma[i].n
    BY <1>1, <1>5, <1>6, <2>3, <3>1
  <3> QED BY <1>1, <1>2, <2>1, <2>3, <3>2
 <2> QED BY <2>1, <2>3, <2>4
<1>7. ASSUME dac.ring # <<>>
      PROVE  Refill = [epoch |-> dac.epoch, n |-> first + 1] /\ Head(dac.ring) = first + 1
 <2>1. Head(dac.ring) = dac.ring[1] /\ 1 \in 1..Len(dac.ring)
   BY <1>1, <1>7
 <2>2. dac.ring[1] = first + 1
   BY <1>5, <2>1
 <2>3. dac.epoch # 0
   BY <1>4, EpochNat
 <2> QED BY <1>7, <2>1, <2>2, <2>3 DEF Refill
<1>8. dac.ring = <<>> => Refill = [epoch |-> dac.epoch, n |-> 0]
  BY DEF Refill
<1>9. Refill.n = 0 <=> dac.ring = <<>>
 <2>1. first >= 0 /\ first \in Int
   BY <1>1, <1>5
 <2>2. first + 1 # 0
   BY <2>1
 <2> HIDE DEF first
 <2> QED BY <1>7, <1>8, <2>2
<1>10. (IF Counts(b) THEN 1 ELSE 0) = k
  BY <1>6 DEF Counts
<1>11. dac' = [dac EXCEPT
             !.played = @ + k,
             !.pending = @ - k,
             !.ring = IF Refill.n = 0 THEN @ ELSE Tail(@),
             !.dma = [i \in 1..DmaBlocks |->
                        IF i < DmaBlocks THEN dac.dma[i + 1] ELSE Refill]]
  BY <1>10, Zenon DEF Dma
<1>12. dac' = [epoch |-> dac.epoch, played |-> dac.played + k, pending |-> dac.pending - k,
               ring |-> IF dac.ring = <<>> THEN <<>> ELSE Tail(dac.ring),
               dma |-> [i \in 1..DmaBlocks |->
                          IF i < DmaBlocks THEN dac.dma[i + 1] ELSE Refill]]
 <2> DEFINE d == [i \in 1..DmaBlocks |-> IF i < DmaBlocks THEN dac.dma[i + 1] ELSE Refill]
            r == IF dac.ring = <<>> THEN <<>> ELSE Tail(dac.ring)
 <2>1. dac' = [dac EXCEPT !.played = @ + k, !.pending = @ - k, !.ring = r, !.dma = d]
   BY <1>9, <1>11
 <2>2. dac = [epoch |-> dac.epoch, played |-> dac.played, pending |-> dac.pending,
              ring |-> dac.ring, dma |-> dac.dma]
   BY <1>1 DEF Dac
 <2> HIDE DEF d, r, k
 <2>3. dac' = [epoch |-> dac.epoch, played |-> dac.played + k, pending |-> dac.pending - k,
               ring |-> r, dma |-> d]
   BY <2>1, <2>2
 <2> QED BY <2>3 DEF d, r
<1>13. /\ heard' = IF b.n # 0 THEN [heard EXCEPT ![dac.epoch] = @ + 1] ELSE heard
       /\ UNCHANGED <<proxy, down, up, dev, ws, controls, sample, settled>>
  BY <1>6 DEF Dma
<1> QED BY <1>4, <1>6, <1>7, <1>8, <1>12, <1>13, Zenon
LEMMA DmaKeepsOrder == ASSUME VoiceInv, Dma PROVE dac' \in Dac /\ AudioInOrder'
<1> DEFINE b == dac.dma[1]
           k == IF b.n # 0 THEN 1 ELSE 0
           first == dac.played + dac.pending - Len(dac.ring)
           last == IF dac.ring = <<>> THEN first ELSE first + 1
<1>1. /\ dac \in Dac /\ dac.ring \in Seq(Nat) /\ dac.played \in Nat /\ dac.pending \in Nat
      /\ dac.epoch \in 0..MaxEpoch /\ dac.dma \in [1..DmaBlocks -> Block]
      /\ 1 \in 1..DmaBlocks /\ Len(dac.ring) \in Nat /\ DmaBlocks \in Nat
  BY VoiceAssumption DEF VoiceInv, VoiceTypes, DeviceTypes, Dac
<1>2. \A i \in 1..DmaBlocks : dac.dma[i].n \in Nat
  BY <1>1 DEF Block
<1>3. /\ Len(dac.ring) <= dac.pending
      /\ \A i \in 1..Len(dac.ring) : dac.ring[i] = first + i
      /\ \A i \in 1..DmaBlocks : dac.dma[i].n # 0 =>
           dac.dma[i].epoch = dac.epoch /\ dac.played < dac.dma[i].n /\ dac.dma[i].n <= first
      /\ \A i, j \in 1..DmaBlocks :
           dac.dma[i].n # 0 /\ dac.dma[j].n # 0 /\ i < j => dac.dma[i].n < dac.dma[j].n
      /\ \A n \in (dac.played + 1)..first : \E i \in 1..DmaBlocks : dac.dma[i].n # 0 /\ dac.dma[i].n = n
  BY DEF VoiceInv, AudioInOrder
<1>4. /\ dac.pending >= 1
      /\ b.n # 0 => b.n = dac.played + 1 /\ b.epoch = dac.epoch
      /\ dac.ring # <<>> => Refill = [epoch |-> dac.epoch, n |-> first + 1]
      /\ dac.ring = <<>> => Refill = [epoch |-> dac.epoch, n |-> 0]
  BY DmaFacts
<1>5. /\ dac'.epoch = dac.epoch /\ dac'.played = dac.played + k /\ dac'.pending = dac.pending - k
      /\ dac'.ring = (IF dac.ring = <<>> THEN <<>> ELSE Tail(dac.ring))
      /\ dac'.dma = [i \in 1..DmaBlocks |-> IF i < DmaBlocks THEN dac.dma[i + 1] ELSE Refill]
      /\ dac' = [epoch |-> dac'.epoch, played |-> dac'.played, pending |-> dac'.pending,
                 ring |-> dac'.ring, dma |-> dac'.dma]
  BY DmaFacts
<1>6. first \in Nat /\ dac.played <= first /\ last \in Nat /\ k \in {0, 1}
 <2>1. first \in Nat /\ dac.played <= first
   BY <1>1, <1>3
 <2> HIDE DEF first
 <2> QED BY <2>1
<1>7. /\ \A i \in 1..DmaBlocks : i < DmaBlocks => i + 1 \in 1..DmaBlocks /\ dac'.dma[i] = dac.dma[i + 1]
      /\ dac'.dma[DmaBlocks] = Refill
  BY <1>1, <1>5, SMTT(30)
<1>8. /\ dac'.ring \in Seq(Nat) /\ Len(dac'.ring) = (IF dac.ring = <<>> THEN 0 ELSE Len(dac.ring) - 1)
      /\ \A i \in 1..Len(dac'.ring) : i + 1 \in 1..Len(dac.ring) /\ dac'.ring[i] = dac.ring[i + 1]
  BY <1>1, <1>5, TailKeeps, SMTT(30)
<1>9. Refill \in Block
  BY <1>1, <1>4, <1>6 DEF Block
<1>10. b.n # 0 => dac.played + 1 <= first
  BY <1>1, <1>3, <1>4
<1>11. dac' \in Dac
 <2>1. dac'.played \in Nat /\ dac'.pending \in Nat /\ dac'.epoch \in 0..MaxEpoch
   BY <1>1, <1>4, <1>5, <1>6, SMTT(30)
 <2>2. dac'.dma \in [1..DmaBlocks -> Block]
  <3>1. \A i \in 1..DmaBlocks : i < DmaBlocks => dac.dma[i + 1] \in Block
    BY <1>1
  <3> QED BY <1>5, <1>9, <3>1
 <2> QED BY <1>5, <1>8, <2>1, <2>2 DEF Dac
<1>12. dac'.played + dac'.pending - Len(dac'.ring) = last
 <2> DEFINE l == Len(dac.ring)
 <2>1. dac'.played = dac.played + k /\ dac'.pending = dac.pending - k
   BY <1>5
 <2>2. \/ Len(dac'.ring) = l /\ last = first
       \/ Len(dac'.ring) = l - 1 /\ last = first + 1
   BY <1>1, <1>8
 <2>3. l \in Nat /\ first = dac.played + dac.pending - l
       /\ dac.played \in Nat /\ dac.pending \in Nat /\ k \in {0, 1}
   BY <1>1
 <2> HIDE DEF k, l, last, first
 <2> DEFINE p == dac.played
            n == dac.pending
            m == Len(dac'.ring)
 <2>4. /\ p \in Nat /\ n \in Nat /\ l \in Nat /\ k \in {0, 1} /\ first = p + n - l
       /\ (m = l /\ last = first) \/ (m = l - 1 /\ last = first + 1)
   BY <2>2, <2>3, Zenon
 <2>5. (p + k) + (n - k) - m = last
  <3> HIDE DEF p, n, m
  <3> QED BY <2>4
 <2> QED BY <2>1, <2>5, Zenon
<1>13. Len(dac'.ring) <= dac'.pending
 <2>1. dac.ring # <<>> => Len(dac.ring) >= 1
   BY <1>1
 <2> QED BY <1>1, <1>3, <1>4, <1>5, <1>6, <1>8, <2>1
<1>14. \A i \in 1..Len(dac'.ring) : dac'.ring[i] = last + i
 <2>1. ASSUME NEW i \in 1..Len(dac'.ring) PROVE dac'.ring[i] = last + i
  <3>1. dac.ring # <<>>
    BY <1>8, <2>1
  <3>2. dac'.ring[i] = first + (i + 1)
    BY <1>3, <1>8, <2>1
  <3> QED BY <1>6, <3>1, <3>2
 <2> QED BY <2>1
<1>15. ASSUME NEW i \in 1..DmaBlocks, dac'.dma[i].n # 0
       PROVE  /\ dac'.dma[i].epoch = dac'.epoch
              /\ dac'.played < dac'.dma[i].n /\ dac'.dma[i].n <= last
              /\ i < DmaBlocks => dac'.dma[i].n <= first
              /\ i = DmaBlocks => dac'.dma[i].n = first + 1 /\ last = first + 1
 <2>1. CASE i < DmaBlocks
  <3>1. i + 1 \in 1..DmaBlocks /\ dac'.dma[i] = dac.dma[i + 1] /\ 1 < i + 1
    BY <1>7, <2>1
  <3>2. dac.dma[i + 1].epoch = dac.epoch /\ dac.played < dac.dma[i + 1].n /\ dac.dma[i + 1].n <= first
    BY <1>3, <1>15, <3>1
  <3>3. b.n # 0 => b.n < dac.dma[i + 1].n
    BY <1>1, <1>3, <1>15, <3>1
  <3>4. dac.dma[i + 1].n \in Nat
    BY <1>2, <3>1
  <3>5. dac'.played < dac.dma[i + 1].n
    BY <1>1, <1>2, <1>4, <1>5, <3>2, <3>3, <3>4
  <3> QED BY <1>5, <1>6, <2>1, <3>1, <3>2, <3>4, <3>5
 <2>2. CASE ~(i < DmaBlocks)
  <3>1. i = DmaBlocks /\ dac'.dma[i] = Refill
    BY <1>1, <1>7, <2>2
  <3>2. dac.ring # <<>> /\ Refill.n = first + 1 /\ Refill.epoch = dac.epoch
    BY <1>4, <1>15, <3>1
  <3>3. dac'.played <= first
    BY <1>1, <1>5, <1>6, <1>10
  <3>4. dac'.played \in Nat
    BY <1>1, <1>5
  <3> QED BY <1>5, <1>6, <3>1, <3>2, <3>3, <3>4
 <2> QED BY <2>1, <2>2
<1>16. ASSUME NEW i \in 1..DmaBlocks, NEW j \in 1..DmaBlocks, dac'.dma[i].n # 0, dac'.dma[j].n # 0, i < j
       PROVE  dac'.dma[i].n < dac'.dma[j].n
 <2>1. i < DmaBlocks /\ dac'.dma[i].n <= first
   BY <1>1, <1>15, <1>16
 <2>2. CASE j < DmaBlocks
  <3>1. /\ i + 1 \in 1..DmaBlocks /\ j + 1 \in 1..DmaBlocks /\ i + 1 < j + 1
        /\ dac'.dma[i] = dac.dma[i + 1] /\ dac'.dma[j] = dac.dma[j + 1]
    BY <1>7, <1>16, <2>1, <2>2
  <3> QED BY <1>3, <1>16, <3>1
 <2>3. CASE ~(j < DmaBlocks)
  <3>1. j = DmaBlocks
    BY <1>1, <2>3
  <3>2. dac'.dma[j].n = first + 1
    BY <1>15, <1>16, <3>1
  <3>3. dac'.dma[i].n \in Nat
    BY <1>2, <1>7, <2>1
  <3> QED BY <1>6, <2>1, <3>2, <3>3
 <2> QED BY <2>2, <2>3
<1>17. ASSUME NEW n \in (dac'.played + 1)..last
       PROVE  \E i \in 1..DmaBlocks : dac'.dma[i].n # 0 /\ dac'.dma[i].n = n
 <2>1. CASE n <= first
  <3>1. n \in (dac.played + 1)..first
    BY <1>1, <1>5, <1>6, <1>17, <2>1
  <3>2. PICK i \in 1..DmaBlocks : dac.dma[i].n # 0 /\ dac.dma[i].n = n
    BY <1>3, <3>1
  <3>3. i # 1
    BY <1>1, <1>4, <1>5, <1>17, <3>2, SMTT(30)
  <3>4. i - 1 \in 1..DmaBlocks /\ i - 1 < DmaBlocks /\ (i - 1) + 1 = i
    BY <1>1, <3>3
  <3>5. dac'.dma[i - 1] = dac.dma[i]
    BY <1>7, <3>4
  <3> QED BY <3>2, <3>4, <3>5
 <2>2. CASE ~(n <= first)
  <3>1. dac.ring # <<>> /\ n = first + 1
    BY <1>1, <1>5, <1>6, <1>17, <2>2
  <3>2. dac'.dma[DmaBlocks].n = first + 1 /\ first + 1 # 0 /\ DmaBlocks \in 1..DmaBlocks
    BY <1>1, <1>4, <1>6, <1>7, <3>1
  <3> QED BY <3>1, <3>2
 <2> QED BY <2>1, <2>2
<1> HIDE DEF first, last
<1>18. AudioInOrder'
  BY <1>12, <1>13, <1>14, <1>15, <1>16, <1>17 DEF AudioInOrder
<1> QED BY <1>11, <1>18

LEMMA DmaKeeps == ASSUME VoiceInv, Dma PROVE VoiceInv'
<1> DEFINE b == dac.dma[1]
           k == IF b.n # 0 THEN 1 ELSE 0
<1>1. /\ dac.epoch \in Epoch /\ ws.pc = "idle" /\ dac.pending >= 1
      /\ b.n # 0 => b.n = dac.played + 1
      /\ dac'.epoch = dac.epoch /\ dac'.played = dac.played + k /\ dac'.pending = dac.pending - k
      /\ heard' = IF b.n # 0 THEN [heard EXCEPT ![dac.epoch] = @ + 1] ELSE heard
      /\ UNCHANGED <<proxy, down, up, dev, ws, controls, sample, settled>>
  BY DmaFacts
<1>2. /\ dac.played \in Nat /\ dac.pending \in Nat /\ heard \in [Epoch -> Nat]
      /\ dev.last \in 0..MaxEpoch /\ dev.current \in 0..MaxEpoch /\ dev.expected \in Nat
  BY DEF VoiceInv, VoiceTypes, DeviceTypes, Dac, Dev
<1>3. dac' \in Dac /\ AudioInOrder'
  BY DmaKeepsOrder
<1>4. /\ heard' \in [Epoch -> Nat] /\ heard'[dac.epoch] = heard[dac.epoch] + k
      /\ \A e \in Epoch : e # dac.epoch => heard'[e] = heard[e]
  BY <1>1, <1>2
<1>5. /\ heard[dac.epoch] = dac.played /\ dev.current = dac.epoch /\ dev.last = dac.epoch
      /\ dac.played + dac.pending = dev.expected
  BY <1>1, <1>2, EpochNat DEF VoiceInv, DeviceOK
<1>6. VoiceTypes'
  BY <1>1, <1>3, <1>4 DEF VoiceInv, VoiceTypes, ProxyTypes, DeviceTypes, proxy
<1>7. dac'.played + dac'.pending = dac.played + dac.pending
  BY <1>1, <1>2
<1>8. DeviceOK'
 <2>1. DeviceOK
   BY DEF VoiceInv
 <2>2. \A e \in Epoch : e > dev.last => heard'[e] = 0
   BY <1>4, <1>5, <2>1, EpochNat DEF DeviceOK
 <2>3. dac.epoch # 0 /\ dac'.played = heard'[dac.epoch]
   BY <1>1, <1>4, <1>5, EpochNat
 <2> QED BY <1>1, <1>5, <1>7, <2>2, <2>3 DEF DeviceOK
<1>9. \A e \in Epoch : Dead(e) => Dead(e)'
  BY <1>1 DEF Dead
<1>10. \A e \in Epoch : heard[e] <= heard'[e]
  BY <1>2, <1>4
<1>11. ASSUME NEW e \in Epoch, NEW n \in Nat, NoMore(e, n) PROVE NoMore(e, n)'
 <2>1. heard'[e] <= n
  <3>1. heard[e] <= n /\ (dac.epoch = e => dac.played + dac.pending <= n)
    BY <1>11 DEF NoMore
  <3>2. dac.epoch = e => heard'[e] = dac.played + k /\ dac.played + k <= dac.played + dac.pending
    BY <1>1, <1>2, <1>4, <1>5
  <3>3. dac.epoch # e => heard'[e] = heard[e]
    BY <1>4
  <3> QED BY <1>2, <3>1, <3>2, <3>3
 <2>2. dac'.epoch = e => dac'.played + dac'.pending <= n
   BY <1>1, <1>7, <1>11 DEF NoMore
 <2> QED BY <1>1, <1>11, <2>1, <2>2 DEF NoMore, proxy, Within
<1>12. \A e \in Epoch : settled[e] # Open => heard'[e] = heard[e]
 <2>1. ASSUME NEW e \in Epoch, settled[e] # Open PROVE e # dac.epoch
  <3>1. SUFFICES ASSUME e = dac.epoch PROVE FALSE
    OBVIOUS
  <3>2. ~Dead(e)
    BY <3>1 DEF Dead
  <3>3. NoMore(e, heard[e])
    BY <2>1, <3>2 DEF VoiceInv, AccountsOK, SettledOK
  <3>4. dac.played + dac.pending <= dac.played
    BY <1>5, <3>1, <3>3 DEF NoMore
  <3> QED BY <1>1, <1>2, <3>4
 <2> QED BY <1>4, <2>1
<1>13. ReportsOK'
 <2>1. ASSUME NEW m \in Told, Truthful(m) PROVE Truthful(m)'
  <3>1. m.epoch \in Epoch /\ m.played \in Nat
    BY <2>1 DEF Told
  <3>2. heard[m.epoch] \in Nat /\ heard'[m.epoch] \in Nat /\ heard[m.epoch] <= heard'[m.epoch]
    BY <1>2, <1>4, <1>10, <3>1
  <3>3. Dead(m.epoch) => Dead(m.epoch)' /\ heard'[m.epoch] = heard[m.epoch]
    BY <1>4, <1>9, <3>1 DEF Dead
  <3> QED BY <2>1, <3>1, <3>2, <3>3 DEF Truthful
 <2>2. /\ \A i \in 1..Len(up) : up[i] \in Told /\ Truthful(up[i])
       /\ \A i \in 1..Len(controls) : controls[i] \in Told /\ Truthful(controls[i])
   BY DEF VoiceInv, VoiceTypes, DeviceTypes, ReportsOK
 <2>3. /\ \A i \in 1..Len(up) : Truthful(up[i])'
       /\ \A i \in 1..Len(controls) : Truthful(controls[i])'
   BY <1>1, <2>1, <2>2 DEF Truthful, Dead
 <2> QED BY <1>1, <2>3 DEF ReportsOK, Truthful, Dead
<1> QED BY <1>1, <1>3, <1>6, <1>8, <1>9, <1>10, <1>11, <1>12, <1>13, HeardFollows DEF proxy
-------------------------------------------------------------------------------
(***************************************************************************)
(* The steps of the proxy.                                                 *)
(***************************************************************************)

LEMMA ProxyAside ==
  ASSUME VoiceInv, UNCHANGED <<dev, ws, dac, controls, sample, heard>>,
         up' = up \/ (up # <<>> /\ up' = Tail(up))
  PROVE  AudioInOrder' /\ DeviceOK' /\ ReportsOK' /\ DeviceTypes'
<1>1. AudioInOrder' /\ DeviceOK' /\ \A e \in Epoch : Dead(e) => Dead(e)'
  BY DEF VoiceInv, AudioInOrder, DeviceOK, Dead
<1>2. /\ up \in Seq(Told)
      /\ \A i \in 1..Len(up) : up[i] \in Told /\ Truthful(up[i])
      /\ \A i \in 1..Len(controls) : controls[i] \in Told /\ Truthful(controls[i])
  BY DEF VoiceInv, VoiceTypes, DeviceTypes, ReportsOK
<1>3. up' \in Seq(Told) /\ \A i \in 1..Len(up') : up'[i] \in Told /\ Truthful(up'[i])
 <2>1. CASE up' = up
   BY <1>2, <2>1
 <2>2. CASE up # <<>> /\ up' = Tail(up)
  <3>1. /\ up' \in Seq(Told)
        /\ \A i \in 1..Len(up') : i + 1 \in 1..Len(up) /\ up'[i] = up[i + 1]
    BY <1>2, <2>2, TailKeeps
  <3> QED BY <1>2, <3>1
 <2> QED BY <2>1, <2>2
<1>4. (ws.pc = "clearing" => Truthful(Cleared(ws.epoch, ws.played)))'
  BY DEF VoiceInv, ReportsOK, Truthful, Dead, Cleared
<1>5. ReportsOK'
  BY <1>1, <1>2, <1>3, <1>4, ReportsFollow
<1>6. DeviceTypes'
  BY <1>3 DEF VoiceInv, VoiceTypes, DeviceTypes
<1> QED BY <1>1, <1>5, <1>6

LEMMA NoMoreSame ==
  ASSUME UNCHANGED <<outbound, down, dac, heard>>, NEW e \in Epoch, NEW k
  PROVE  NoMore(e, k)' <=> NoMore(e, k)
BY DEF NoMore, Within

LEMMA HeardTypes ==
  ASSUME VoiceInv, NEW e \in Epoch
  PROVE  /\ heard[e] \in Nat /\ settled[e] \in Nat \cup {Open} /\ e \in Nat
         /\ epoch \in Nat /\ Open \notin Nat
         /\ streams[e].live =>
              /\ streams[e] \in Account
              /\ streams[e].produced \in Nat /\ streams[e].played \in Nat
<1>1. heard[e] \in Nat /\ settled[e] \in Nat \cup {Open} /\ e \in Nat /\ epoch \in Nat
  BY EpochNat DEF VoiceInv, VoiceTypes, DeviceTypes, ProxyTypes
<1>2. Open \notin Nat
  BY DEF Open
<1>3. streams[e].live => streams[e] \in Account
  BY LiveAccount DEF VoiceInv
<1>4. streams[e] \in Account => streams[e].produced \in Nat /\ streams[e].played \in Nat
  BY DEF Account
<1> QED BY <1>1, <1>2, <1>3, <1>4

\* An account that a step leaves alone.
LEMMA AccountStays ==
  ASSUME VoiceInv, NEW e \in Epoch, streams'[e] = streams[e], settled'[e] = settled[e],
         UNCHANGED <<epoch, dev, dac, heard>>,
         \A k \in Nat : NoMore(e, k) => NoMore(e, k)'
  PROVE  (StreamOK(e) /\ Ahead(e) /\ SettledOK(e))'
<1>1. StreamOK(e) /\ Ahead(e) /\ SettledOK(e)
  BY DEF VoiceInv, AccountsOK
<1>2. heard[e] \in Nat /\ (streams[e].live => streams[e].produced \in Nat)
  BY HeardTypes
<1>3. StreamOK(e)'
  BY <1>1, <1>2 DEF StreamOK
<1>4. Ahead(e)'
  BY <1>1 DEF Ahead
<1>5. SettledOK(e)'
  BY <1>1, <1>2 DEF SettledOK, Dead
<1> QED BY <1>3, <1>4, <1>5

\* A played answer: nothing more of it can be heard.
LEMMA FinishedHeard ==
  ASSUME VoiceInv, NEW e \in Epoch, streams[e].live, Finished(streams[e])
  PROVE  streams[e].played = heard[e] /\ NoMore(e, heard[e]) /\ streams[e].done
<1>1. StreamOK(e)
  BY DEF VoiceInv, AccountsOK
<1>2. heard[e] \in Nat /\ streams[e].produced \in Nat /\ streams[e].played \in Nat
  BY HeardTypes
<1>3. /\ streams[e].played <= heard[e] /\ heard[e] <= streams[e].produced
      /\ streams[e].played = streams[e].produced /\ NoMore(e, streams[e].produced)
      /\ streams[e].done
  BY <1>1 DEF StreamOK, Finished, NoMore
<1>4. heard[e] = streams[e].produced
  BY <1>2, <1>3
<1> QED BY <1>3, <1>4

\* _retire_streams closes accounts where the speaker stopped.
LEMMA RetiredRight ==
  ASSUME VoiceInv, NEW e \in Epoch
  PROVE  /\ Settle(e) # Open =>
              Settle(e) = heard[e] /\ (Dead(e) \/ NoMore(e, heard[e]))
         /\ Settle(e) \in Nat \cup {Open}
         /\ settled[e] # Open => Settle(e) = settled[e]
         /\ ~Closed(e) => Settle(e) = settled[e] /\ Kept[e] = streams[e]
         /\ Closed(e) => Kept[e] = None /\ Settle(e) # Open /\ e <= epoch
<1>1. StreamOK(e) /\ Ahead(e) /\ SettledOK(e)
  BY DEF VoiceInv, AccountsOK
<1>2. /\ heard[e] \in Nat /\ settled[e] \in Nat \cup {Open} /\ Open \notin Nat
      /\ streams[e].live => streams[e].played \in Nat
  BY HeardTypes
<1>3. CASE settled[e] = Open /\ Closed(e)
 <2>1. streams[e].live /\ Finished(streams[e]) /\ e <= epoch
   BY <1>1, <1>3 DEF Closed, StreamOK
 <2>2. Settle(e) = streams[e].played /\ streams[e].played = heard[e] /\ NoMore(e, heard[e])
   BY <1>3, <2>1, FinishedHeard DEF Settle
 <2> QED BY <1>2, <1>3, <2>1, <2>2 DEF Kept
<1>4. CASE ~(settled[e] = Open /\ Closed(e))
 <2>1. Settle(e) = settled[e]
   BY <1>4 DEF Settle
 <2>2. Closed(e) => e <= epoch
   BY <1>1 DEF Closed, StreamOK
 <2> QED BY <1>1, <1>2, <1>4, <2>1, <2>2 DEF Kept, SettledOK
<1> QED BY <1>3, <1>4

LEMMA MaybeTypes ==
  ASSUME NEW ss, NEW wanted, NEW speaking,
         NEW r \in [state : {"none", "requested", "current", "discarded"}, epoch : 0..MaxEpoch],
         MaybeRespond(ss, wanted, speaking, r)
  PROVE  response' \in [state : {"none", "requested", "current", "discarded"}, epoch : 0..MaxEpoch]
BY EpochNat DEF MaybeRespond

\* A step that touches no stream, no message and no account.
LEMMA AsideKeeps ==
  ASSUME VoiceInv,
         response' \in [state : {"none", "requested", "current", "discarded"}, epoch : 0..MaxEpoch],
         UNCHANGED <<streams, epoch, outbound, down, settled, heard, device>>,
         up' = up \/ (up # <<>> /\ up' = Tail(up))
  PROVE  VoiceInv'
<1>1. AudioInOrder' /\ DeviceOK' /\ ReportsOK' /\ DeviceTypes'
  BY ProxyAside DEF device
<1>2. VoiceTypes'
  BY <1>1 DEF VoiceInv, VoiceTypes, ProxyTypes
<1>3. OutboundOK'
  BY DEF VoiceInv, OutboundOK
<1>4. ASSUME NEW e \in Epoch PROVE (StreamOK(e) /\ Ahead(e) /\ SettledOK(e))'
 <2>1. \A k \in Nat : NoMore(e, k) => NoMore(e, k)'
   BY NoMoreSame DEF device
 <2> QED BY <2>1, AccountStays DEF device
<1>5. AccountsOK'
  BY <1>4 DEF AccountsOK
<1> QED BY <1>1, <1>2, <1>3, <1>5 DEF VoiceInv

LEMMA TalkKeeps ==
  ASSUME VoiceInv, SpeechStopped \/ InputCommitted \/ ResponseStarted
  PROVE  VoiceInv'
<1>1. response \in [state : {"none", "requested", "current", "discarded"}, epoch : 0..MaxEpoch]
  BY DEF VoiceInv, VoiceTypes, ProxyTypes
<1>2. response' \in [state : {"none", "requested", "current", "discarded"}, epoch : 0..MaxEpoch]
 <2>1. CASE SpeechStopped
   BY <1>1, <2>1 DEF SpeechStopped
 <2>2. CASE InputCommitted
  <3>1. MaybeRespond(streams, TRUE, speech, response)
    BY <2>2 DEF InputCommitted
  <3> QED BY <1>1, <3>1, MaybeTypes
 <2>3. CASE ResponseStarted
   BY <1>1, <2>3 DEF ResponseStarted
 <2> QED BY <2>1, <2>2, <2>3
<1>3. UNCHANGED <<streams, epoch, outbound, down, settled, heard, device, up>>
  BY DEF SpeechStopped, InputCommitted, ResponseStarted, session
<1> QED BY <1>2, <1>3, AsideKeeps
\* The fields of an account.
Flag == BOOLEAN

LEMMA AccountFields ==
  ASSUME NEW s \in Account
  PROVE  /\ s.live = TRUE /\ s.queued \in Nat /\ s.produced \in Nat /\ s.sent \in Nat
         /\ s.played \in Nat /\ s.generated \in Flag /\ s.started \in Flag
         /\ s.done \in Flag /\ s.end_sent \in Flag /\ s.cleared \in Flag
         /\ s.clear_sent \in Flag /\ s.acknowledged \in Flag
         /\ s = [live |-> TRUE, queued |-> s.queued, produced |-> s.produced, sent |-> s.sent,
                 played |-> s.played, generated |-> s.generated, started |-> s.started,
                 done |-> s.done, end_sent |-> s.end_sent, cleared |-> s.cleared,
                 clear_sent |-> s.clear_sent, acknowledged |-> s.acknowledged]
BY DEF Account, Flag

LEMMA AccountParts ==
  ASSUME NEW o \in Account
  PROVE  \E q1, q2, q3, q4 \in Nat, b1, b2, b3, b4, b5, b6, b7 \in Flag :
           o = [live |-> TRUE, queued |-> q1, produced |-> q2, sent |-> q3, played |-> q4,
                generated |-> b1, started |-> b2, done |-> b3, end_sent |-> b4, cleared |-> b5,
                clear_sent |-> b6, acknowledged |-> b7]
<1>1. o = [live |-> TRUE, queued |-> o.queued, produced |-> o.produced, sent |-> o.sent,
           played |-> o.played, generated |-> o.generated, started |-> o.started,
           done |-> o.done, end_sent |-> o.end_sent, cleared |-> o.cleared,
           clear_sent |-> o.clear_sent, acknowledged |-> o.acknowledged]
  BY AccountFields
<1>2. /\ o.queued \in Nat /\ o.produced \in Nat /\ o.sent \in Nat
      /\ o.played \in Nat /\ o.generated \in Flag /\ o.started \in Flag
      /\ o.done \in Flag /\ o.end_sent \in Flag /\ o.cleared \in Flag
      /\ o.clear_sent \in Flag /\ o.acknowledged \in Flag
  BY AccountFields
<1> QED BY <1>1, <1>2, Zenon

LEMMA QueuedMade ==
  ASSUME NEW o \in Account, NEW q \in Nat, NEW s, s = [o EXCEPT !.queued = q]
  PROVE  /\ s \in Account /\ s.queued = q
         /\ s.produced = o.produced /\ s.sent = o.sent /\ s.played = o.played
         /\ s.generated = o.generated /\ s.started = o.started /\ s.done = o.done
         /\ s.end_sent = o.end_sent /\ s.cleared = o.cleared /\ s.clear_sent = o.clear_sent
         /\ s.acknowledged = o.acknowledged
<1>1. PICK q1, q2, q3, q4 \in Nat, b1, b2, b3, b4, b5, b6, b7 \in Flag :
        o = [live |-> TRUE, queued |-> q1, produced |-> q2, sent |-> q3, played |-> q4,
             generated |-> b1, started |-> b2, done |-> b3, end_sent |-> b4, cleared |-> b5,
             clear_sent |-> b6, acknowledged |-> b7]
  BY AccountParts, Zenon
<1>2. s = [live |-> TRUE, queued |-> q, produced |-> q2, sent |-> q3, played |-> q4,
           generated |-> b1, started |-> b2, done |-> b3, end_sent |-> b4, cleared |-> b5,
           clear_sent |-> b6, acknowledged |-> b7]
  BY <1>1
<1>3. s \in Account
 <2> DEFINE r == [live |-> TRUE, queued |-> q, produced |-> q2, sent |-> q3, played |-> q4,
                 generated |-> b1, started |-> b2, done |-> b3, end_sent |-> b4, cleared |-> b5,
                 clear_sent |-> b6, acknowledged |-> b7]
 <2>1. r \in Account
   BY <1>1, Zenon DEF Account, Flag
 <2> QED BY <1>2, <2>1, Zenon
<1> QED BY <1>1, <1>2, <1>3

LEMMA ProducedMade ==
  ASSUME NEW o \in Account, NEW q \in Nat, NEW p \in Nat, NEW s, s = [o EXCEPT !.queued = q, !.produced = p]
  PROVE  Counted(s, o, p, o.played) /\ s.acknowledged = o.acknowledged
<1>1. PICK q1, q2, q3, q4 \in Nat, b1, b2, b3, b4, b5, b6, b7 \in Flag :
        o = [live |-> TRUE, queued |-> q1, produced |-> q2, sent |-> q3, played |-> q4,
             generated |-> b1, started |-> b2, done |-> b3, end_sent |-> b4, cleared |-> b5,
             clear_sent |-> b6, acknowledged |-> b7]
  BY AccountParts, Zenon
<1>2. s = [live |-> TRUE, queued |-> q, produced |-> p, sent |-> q3, played |-> q4,
           generated |-> b1, started |-> b2, done |-> b3, end_sent |-> b4, cleared |-> b5,
           clear_sent |-> b6, acknowledged |-> b7]
  BY <1>1
<1>3. s \in Account
 <2> DEFINE r == [live |-> TRUE, queued |-> q, produced |-> p, sent |-> q3, played |-> q4,
                 generated |-> b1, started |-> b2, done |-> b3, end_sent |-> b4, cleared |-> b5,
                 clear_sent |-> b6, acknowledged |-> b7]
 <2>1. r \in Account
   BY <1>1, Zenon DEF Account, Flag
 <2> QED BY <1>2, <2>1, Zenon
<1> QED BY <1>1, <1>2, <1>3 DEF Counted

LEMMA SentMade ==
  ASSUME NEW o \in Account, NEW n \in Nat, NEW s, s = [o EXCEPT !.sent = n]
  PROVE  /\ s \in Account /\ s.sent = n
         /\ s.queued = o.queued /\ s.produced = o.produced /\ s.played = o.played
         /\ s.generated = o.generated /\ s.started = o.started /\ s.done = o.done
         /\ s.end_sent = o.end_sent /\ s.cleared = o.cleared /\ s.clear_sent = o.clear_sent
         /\ s.acknowledged = o.acknowledged
<1>1. PICK q1, q2, q3, q4 \in Nat, b1, b2, b3, b4, b5, b6, b7 \in Flag :
        o = [live |-> TRUE, queued |-> q1, produced |-> q2, sent |-> q3, played |-> q4,
             generated |-> b1, started |-> b2, done |-> b3, end_sent |-> b4, cleared |-> b5,
             clear_sent |-> b6, acknowledged |-> b7]
  BY AccountParts, Zenon
<1>2. s = [live |-> TRUE, queued |-> q1, produced |-> q2, sent |-> n, played |-> q4,
           generated |-> b1, started |-> b2, done |-> b3, end_sent |-> b4, cleared |-> b5,
           clear_sent |-> b6, acknowledged |-> b7]
  BY <1>1
<1>3. s \in Account
 <2> DEFINE r == [live |-> TRUE, queued |-> q1, produced |-> q2, sent |-> n, played |-> q4,
                 generated |-> b1, started |-> b2, done |-> b3, end_sent |-> b4, cleared |-> b5,
                 clear_sent |-> b6, acknowledged |-> b7]
 <2>1. r \in Account
   BY <1>1, Zenon DEF Account, Flag
 <2> QED BY <1>2, <2>1, Zenon
<1> QED BY <1>1, <1>2, <1>3

LEMMA PlayedMade ==
  ASSUME NEW o \in Account, NEW l \in Nat, NEW s, s = [o EXCEPT !.played = l, !.acknowledged = FALSE]
  PROVE  Counted(s, o, o.produced, l) /\ s.acknowledged = FALSE
<1>1. PICK q1, q2, q3, q4 \in Nat, b1, b2, b3, b4, b5, b6, b7 \in Flag :
        o = [live |-> TRUE, queued |-> q1, produced |-> q2, sent |-> q3, played |-> q4,
             generated |-> b1, started |-> b2, done |-> b3, end_sent |-> b4, cleared |-> b5,
             clear_sent |-> b6, acknowledged |-> b7]
  BY AccountParts, Zenon
<1>2. s = [live |-> TRUE, queued |-> q1, produced |-> q2, sent |-> q3, played |-> l,
           generated |-> b1, started |-> b2, done |-> b3, end_sent |-> b4, cleared |-> b5,
           clear_sent |-> b6, acknowledged |-> FALSE]
  BY <1>1
<1>3. s \in Account
 <2> DEFINE r == [live |-> TRUE, queued |-> q1, produced |-> q2, sent |-> q3, played |-> l,
                 generated |-> b1, started |-> b2, done |-> b3, end_sent |-> b4, cleared |-> b5,
                 clear_sent |-> b6, acknowledged |-> FALSE]
 <2>1. r \in Account
   BY <1>1, Zenon DEF Account, Flag
 <2> QED BY <1>2, <2>1, Zenon
<1> QED BY <1>1, <1>2, <1>3 DEF Counted

LEMMA AcknowledgedMade ==
  ASSUME NEW o \in Account, NEW l \in Nat, NEW s, s = [o EXCEPT !.played = l, !.acknowledged = TRUE]
  PROVE  Counted(s, o, o.produced, l)
<1>1. PICK q1, q2, q3, q4 \in Nat, b1, b2, b3, b4, b5, b6, b7 \in Flag :
        o = [live |-> TRUE, queued |-> q1, produced |-> q2, sent |-> q3, played |-> q4,
             generated |-> b1, started |-> b2, done |-> b3, end_sent |-> b4, cleared |-> b5,
             clear_sent |-> b6, acknowledged |-> b7]
  BY AccountParts, Zenon
<1>2. s = [live |-> TRUE, queued |-> q1, produced |-> q2, sent |-> q3, played |-> l,
           generated |-> b1, started |-> b2, done |-> b3, end_sent |-> b4, cleared |-> b5,
           clear_sent |-> b6, acknowledged |-> TRUE]
  BY <1>1
<1>3. s \in Account
 <2> DEFINE r == [live |-> TRUE, queued |-> q1, produced |-> q2, sent |-> q3, played |-> l,
                 generated |-> b1, started |-> b2, done |-> b3, end_sent |-> b4, cleared |-> b5,
                 clear_sent |-> b6, acknowledged |-> TRUE]
 <2>1. r \in Account
   BY <1>1, Zenon DEF Account, Flag
 <2> QED BY <1>2, <2>1, Zenon
<1> QED BY <1>1, <1>2, <1>3 DEF Counted

LEMMA GeneratedMade ==
  ASSUME NEW o \in Account, NEW s, s = [o EXCEPT !.generated = TRUE]
  PROVE  /\ s \in Account /\ s.generated = TRUE
         /\ s.queued = o.queued /\ s.produced = o.produced /\ s.sent = o.sent
         /\ s.played = o.played /\ s.started = o.started /\ s.done = o.done
         /\ s.end_sent = o.end_sent /\ s.cleared = o.cleared /\ s.clear_sent = o.clear_sent
         /\ s.acknowledged = o.acknowledged
<1>1. PICK q1, q2, q3, q4 \in Nat, b1, b2, b3, b4, b5, b6, b7 \in Flag :
        o = [live |-> TRUE, queued |-> q1, produced |-> q2, sent |-> q3, played |-> q4,
             generated |-> b1, started |-> b2, done |-> b3, end_sent |-> b4, cleared |-> b5,
             clear_sent |-> b6, acknowledged |-> b7]
  BY AccountParts, Zenon
<1>2. s = [live |-> TRUE, queued |-> q1, produced |-> q2, sent |-> q3, played |-> q4,
           generated |-> TRUE, started |-> b2, done |-> b3, end_sent |-> b4, cleared |-> b5,
           clear_sent |-> b6, acknowledged |-> b7]
  BY <1>1
<1>3. s \in Account
 <2> DEFINE r == [live |-> TRUE, queued |-> q1, produced |-> q2, sent |-> q3, played |-> q4,
                 generated |-> TRUE, started |-> b2, done |-> b3, end_sent |-> b4, cleared |-> b5,
                 clear_sent |-> b6, acknowledged |-> b7]
 <2>1. r \in Account
   BY <1>1, Zenon DEF Account, Flag
 <2> QED BY <1>2, <2>1, Zenon
<1> QED BY <1>1, <1>2, <1>3

LEMMA StartedMade ==
  ASSUME NEW o \in Account, NEW s, s = [o EXCEPT !.started = TRUE]
  PROVE  /\ s \in Account /\ s.started = TRUE
         /\ s.queued = o.queued /\ s.produced = o.produced /\ s.sent = o.sent
         /\ s.played = o.played /\ s.generated = o.generated /\ s.done = o.done
         /\ s.end_sent = o.end_sent /\ s.cleared = o.cleared /\ s.clear_sent = o.clear_sent
         /\ s.acknowledged = o.acknowledged
<1>1. PICK q1, q2, q3, q4 \in Nat, b1, b2, b3, b4, b5, b6, b7 \in Flag :
        o = [live |-> TRUE, queued |-> q1, produced |-> q2, sent |-> q3, played |-> q4,
             generated |-> b1, started |-> b2, done |-> b3, end_sent |-> b4, cleared |-> b5,
             clear_sent |-> b6, acknowledged |-> b7]
  BY AccountParts, Zenon
<1>2. s = [live |-> TRUE, queued |-> q1, produced |-> q2, sent |-> q3, played |-> q4,
           generated |-> b1, started |-> TRUE, done |-> b3, end_sent |-> b4, cleared |-> b5,
           clear_sent |-> b6, acknowledged |-> b7]
  BY <1>1
<1>3. s \in Account
 <2> DEFINE r == [live |-> TRUE, queued |-> q1, produced |-> q2, sent |-> q3, played |-> q4,
                 generated |-> b1, started |-> TRUE, done |-> b3, end_sent |-> b4, cleared |-> b5,
                 clear_sent |-> b6, acknowledged |-> b7]
 <2>1. r \in Account
   BY <1>1, Zenon DEF Account, Flag
 <2> QED BY <1>2, <2>1, Zenon
<1> QED BY <1>1, <1>2, <1>3

LEMMA DoneMade ==
  ASSUME NEW o \in Account, NEW s, s = [o EXCEPT !.done = TRUE]
  PROVE  /\ s \in Account /\ s.done = TRUE
         /\ s.queued = o.queued /\ s.produced = o.produced /\ s.sent = o.sent
         /\ s.played = o.played /\ s.generated = o.generated /\ s.started = o.started
         /\ s.end_sent = o.end_sent /\ s.cleared = o.cleared /\ s.clear_sent = o.clear_sent
         /\ s.acknowledged = o.acknowledged
<1>1. PICK q1, q2, q3, q4 \in Nat, b1, b2, b3, b4, b5, b6, b7 \in Flag :
        o = [live |-> TRUE, queued |-> q1, produced |-> q2, sent |-> q3, played |-> q4,
             generated |-> b1, started |-> b2, done |-> b3, end_sent |-> b4, cleared |-> b5,
             clear_sent |-> b6, acknowledged |-> b7]
  BY AccountParts, Zenon
<1>2. s = [live |-> TRUE, queued |-> q1, produced |-> q2, sent |-> q3, played |-> q4,
           generated |-> b1, started |-> b2, done |-> TRUE, end_sent |-> b4, cleared |-> b5,
           clear_sent |-> b6, acknowledged |-> b7]
  BY <1>1
<1>3. s \in Account
 <2> DEFINE r == [live |-> TRUE, queued |-> q1, produced |-> q2, sent |-> q3, played |-> q4,
                 generated |-> b1, started |-> b2, done |-> TRUE, end_sent |-> b4, cleared |-> b5,
                 clear_sent |-> b6, acknowledged |-> b7]
 <2>1. r \in Account
   BY <1>1, Zenon DEF Account, Flag
 <2> QED BY <1>2, <2>1, Zenon
<1> QED BY <1>1, <1>2, <1>3

LEMMA EndMade ==
  ASSUME NEW o \in Account, NEW s, s = [o EXCEPT !.end_sent = TRUE]
  PROVE  /\ s \in Account /\ s.end_sent = TRUE
         /\ s.queued = o.queued /\ s.produced = o.produced /\ s.sent = o.sent
         /\ s.played = o.played /\ s.generated = o.generated /\ s.started = o.started
         /\ s.done = o.done /\ s.cleared = o.cleared /\ s.clear_sent = o.clear_sent
         /\ s.acknowledged = o.acknowledged
<1>1. PICK q1, q2, q3, q4 \in Nat, b1, b2, b3, b4, b5, b6, b7 \in Flag :
        o = [live |-> TRUE, queued |-> q1, produced |-> q2, sent |-> q3, played |-> q4,
             generated |-> b1, started |-> b2, done |-> b3, end_sent |-> b4, cleared |-> b5,
             clear_sent |-> b6, acknowledged |-> b7]
  BY AccountParts, Zenon
<1>2. s = [live |-> TRUE, queued |-> q1, produced |-> q2, sent |-> q3, played |-> q4,
           generated |-> b1, started |-> b2, done |-> b3, end_sent |-> TRUE, cleared |-> b5,
           clear_sent |-> b6, acknowledged |-> b7]
  BY <1>1
<1>3. s \in Account
 <2> DEFINE r == [live |-> TRUE, queued |-> q1, produced |-> q2, sent |-> q3, played |-> q4,
                 generated |-> b1, started |-> b2, done |-> b3, end_sent |-> TRUE, cleared |-> b5,
                 clear_sent |-> b6, acknowledged |-> b7]
 <2>1. r \in Account
   BY <1>1, Zenon DEF Account, Flag
 <2> QED BY <1>2, <2>1, Zenon
<1> QED BY <1>1, <1>2, <1>3

LEMMA ClearMade ==
  ASSUME NEW o \in Account, NEW s, s = [o EXCEPT !.clear_sent = TRUE]
  PROVE  /\ s \in Account /\ s.clear_sent = TRUE
         /\ s.queued = o.queued /\ s.produced = o.produced /\ s.sent = o.sent
         /\ s.played = o.played /\ s.generated = o.generated /\ s.started = o.started
         /\ s.done = o.done /\ s.end_sent = o.end_sent /\ s.cleared = o.cleared
         /\ s.acknowledged = o.acknowledged
<1>1. PICK q1, q2, q3, q4 \in Nat, b1, b2, b3, b4, b5, b6, b7 \in Flag :
        o = [live |-> TRUE, queued |-> q1, produced |-> q2, sent |-> q3, played |-> q4,
             generated |-> b1, started |-> b2, done |-> b3, end_sent |-> b4, cleared |-> b5,
             clear_sent |-> b6, acknowledged |-> b7]
  BY AccountParts, Zenon
<1>2. s = [live |-> TRUE, queued |-> q1, produced |-> q2, sent |-> q3, played |-> q4,
           generated |-> b1, started |-> b2, done |-> b3, end_sent |-> b4, cleared |-> b5,
           clear_sent |-> TRUE, acknowledged |-> b7]
  BY <1>1
<1>3. s \in Account
 <2> DEFINE r == [live |-> TRUE, queued |-> q1, produced |-> q2, sent |-> q3, played |-> q4,
                 generated |-> b1, started |-> b2, done |-> b3, end_sent |-> b4, cleared |-> b5,
                 clear_sent |-> TRUE, acknowledged |-> b7]
 <2>1. r \in Account
   BY <1>1, Zenon DEF Account, Flag
 <2> QED BY <1>2, <2>1, Zenon
<1> QED BY <1>1, <1>2, <1>3

LEMMA InterruptedMade ==
  ASSUME NEW o \in Account, NEW c \in BOOLEAN, NEW q \in Nat, NEW b \in BOOLEAN,
         NEW s, s = [o EXCEPT !.cleared = c, !.queued = q, !.acknowledged = b]
  PROVE  s \in Account
<1>1. PICK q1, q2, q3, q4 \in Nat, b1, b2, b3, b4, b5, b6, b7 \in Flag :
        o = [live |-> TRUE, queued |-> q1, produced |-> q2, sent |-> q3, played |-> q4,
             generated |-> b1, started |-> b2, done |-> b3, end_sent |-> b4, cleared |-> b5,
             clear_sent |-> b6, acknowledged |-> b7]
  BY AccountParts, Zenon
<1>2. s = [live |-> TRUE, queued |-> q, produced |-> q2, sent |-> q3, played |-> q4,
           generated |-> b1, started |-> b2, done |-> b3, end_sent |-> b4, cleared |-> c,
           clear_sent |-> b6, acknowledged |-> b]
  BY <1>1
<1>3. s \in Account
 <2> DEFINE r == [live |-> TRUE, queued |-> q, produced |-> q2, sent |-> q3, played |-> q4,
                 generated |-> b1, started |-> b2, done |-> b3, end_sent |-> b4, cleared |-> c,
                 clear_sent |-> b6, acknowledged |-> b]
 <2>1. r \in Account
   BY <1>1, Zenon DEF Account, Flag
 <2> QED BY <1>2, <2>1, Zenon
<1> QED BY <1>3

\* An interruption: an answer that was started is truncated when the recorder says
\* where; of one that was not, nothing can have been heard.
LEMMA SpeechStartedKeeps == ASSUME VoiceInv, SpeechStarted PROVE VoiceInv'
<1> DEFINE open == {e \in Epoch : /\ Kept[e].live
                                  /\ ~Kept[e].cleared /\ ~Kept[e].acknowledged}
           begun == {e \in open : Kept[e].started}
           clearing == Ordered(begun)
           clears == [i \in DOMAIN clearing |-> Clear(clearing[i])]
<1>1. /\ streams' = [e \in Epoch |->
             IF e \in open
             THEN [Kept[e] EXCEPT !.cleared = TRUE, !.queued = 0, !.acknowledged = ~Kept[e].started]
             ELSE Kept[e]]
      /\ settled' = [e \in Epoch |-> IF e \in open /\ ~Kept[e].started THEN 0 ELSE Settle(e)]
      /\ outbound' = outbound \o clears
      /\ response' = IF response.state = "current" THEN [response EXCEPT !.state = "discarded"] ELSE response
      /\ UNCHANGED <<epoch, down, up, device, heard>>
  BY DEF SpeechStarted
<1>2. open \in SUBSET Epoch /\ begun \in SUBSET Epoch /\ begun \subseteq open
  OBVIOUS
<1>3. AudioInOrder' /\ DeviceOK' /\ ReportsOK' /\ DeviceTypes'
  BY <1>1, ProxyAside DEF device
<1>4. ASSUME NEW e \in Epoch
      PROVE  /\ e \in open => /\ Kept[e] = streams[e] /\ ~Closed(e) /\ streams[e].live
                              /\ streams[e] \in Account /\ e <= epoch
             /\ Kept[e] \in Account \cup {None}
             /\ Kept[e].live => Kept[e] = streams[e]
 <2>1. streams[e] \in Account \cup {None} /\ StreamOK(e)
   BY DEF VoiceInv, AccountsOK, VoiceTypes, ProxyTypes
 <2>2. Kept[e] = IF Closed(e) THEN None ELSE streams[e]
   BY DEF Kept
 <2>3. None.live = FALSE
   BY DEF None
 <2>4. streams[e].live => streams[e] \in Account
   BY LiveAccount DEF VoiceInv
 <2> QED BY <2>1, <2>2, <2>3, <2>4 DEF StreamOK
<1>5. ASSUME NEW e \in open
      PROVE  streams'[e] = [streams[e] EXCEPT !.cleared = TRUE, !.queued = 0, !.acknowledged = ~streams[e].started]
  BY <1>1, <1>2, <1>4
<1>6. ASSUME NEW e \in Epoch, e \notin open PROVE streams'[e] = Kept[e]
  BY <1>1, <1>6
<1>7. ASSUME NEW e \in open
      PROVE  /\ streams'[e] \in Account /\ streams'[e].live
             /\ streams'[e].cleared /\ streams'[e].produced = streams[e].produced
             /\ streams'[e].played = streams[e].played /\ streams'[e].started = streams[e].started
             /\ streams'[e].done = streams[e].done /\ streams'[e].end_sent = streams[e].end_sent
             /\ streams'[e].acknowledged = ~streams[e].started
 <2> DEFINE s == streams[e]
 <2>1. s \in Account
   BY <1>2, <1>4
 <2>2. streams'[e] = [s EXCEPT !.cleared = TRUE, !.queued = 0, !.acknowledged = ~s.started]
   BY <1>5
 <2> HIDE DEF s
 <2>3. /\ streams'[e].cleared = TRUE /\ streams'[e].produced = s.produced
       /\ streams'[e].played = s.played /\ streams'[e].started = s.started
       /\ streams'[e].done = s.done /\ streams'[e].end_sent = s.end_sent
       /\ streams'[e].acknowledged = ~s.started
  <3>1. s = [live |-> s.live, queued |-> s.queued, produced |-> s.produced, sent |-> s.sent,
             played |-> s.played, generated |-> s.generated, started |-> s.started,
             done |-> s.done, end_sent |-> s.end_sent, cleared |-> s.cleared,
             clear_sent |-> s.clear_sent, acknowledged |-> s.acknowledged]
    BY <2>1 DEF Account
  <3> QED BY <2>2, <3>1
 <2>4. streams'[e] \in Account
  <3>1. TRUE \in BOOLEAN /\ FALSE \in BOOLEAN /\ 0 \in Nat
    OBVIOUS
  <3>2. CASE s.started = TRUE
   <4>1. streams'[e] = [s EXCEPT !.cleared = TRUE, !.queued = 0, !.acknowledged = FALSE]
     BY <2>2, <3>2
   <4> QED BY <2>1, <3>1, <4>1, InterruptedMade, Zenon
  <3>3. CASE s.started = FALSE
   <4>1. streams'[e] = [s EXCEPT !.cleared = TRUE, !.queued = 0, !.acknowledged = TRUE]
     BY <2>2, <3>3
   <4> QED BY <2>1, <3>1, <4>1, InterruptedMade, Zenon
  <3> QED BY <2>1, <3>2, <3>3, AccountFields DEF Flag
 <2>5. streams'[e].live
   BY <2>4, AccountFields
 <2> QED BY <2>3, <2>5, <2>4 DEF s
<1> HIDE DEF open
<1>8. Cardinality(begun) \in Nat /\ clearing \in [1..Cardinality(begun) -> begun]
 <2> HIDE DEF begun
 <2> QED BY <1>2, OrderedTypes
<1>9. /\ clears \in [1..Cardinality(begun) -> Word]
      /\ \A i \in 1..Cardinality(begun) :
           clears[i].type = "clear" /\ clears[i].epoch \in open /\ clears[i].epoch \in Epoch
 <2>1. \A e \in Epoch : Clear(e) \in Word /\ Clear(e).type = "clear" /\ Clear(e).epoch = e
   BY DEF Clear, Word
 <2>2. DOMAIN clearing = 1..Cardinality(begun) /\ \A i \in 1..Cardinality(begun) : clearing[i] \in begun
   BY <1>8
 <2> HIDE DEF begun, clearing
 <2> QED BY <1>2, <2>1, <2>2
<1> HIDE DEF clears, begun, clearing
<1>10. outbound \in Seq(Word)
  BY DEF VoiceInv, VoiceTypes, ProxyTypes
<1>11. /\ outbound' \in Seq(Word) /\ Len(outbound') = Len(outbound) + Cardinality(begun)
       /\ \A i \in 1..Len(outbound) : outbound'[i] = outbound[i]
       /\ \A i \in 1..Cardinality(begun) : outbound'[Len(outbound) + i] = clears[i]
 <2> DEFINE n == Cardinality(begun)
 <2> HIDE DEF n
 <2>1. /\ outbound \o clears \in Seq(Word) /\ Len(outbound \o clears) = Len(outbound) + n
       /\ \A i \in 1..Len(outbound) : (outbound \o clears)[i] = outbound[i]
       /\ \A i \in 1..n : (outbound \o clears)[Len(outbound) + i] = clears[i]
  <3>1. n \in Nat /\ clears \in [1..n -> Word]
    BY <1>8, <1>9 DEF n
  <3> QED BY <1>10, <3>1, ConcatKeeps
 <2> QED BY <1>1, <2>1 DEF n
<1>12. ASSUME NEW i \in 1..Len(outbound')
       PROVE  \/ i \in 1..Len(outbound) /\ outbound'[i] = outbound[i]
              \/ outbound'[i].type = "clear" /\ outbound'[i].epoch \in open
 <2>1. CASE i \in 1..Len(outbound)
   BY <1>11, <2>1
 <2>2. CASE i \notin 1..Len(outbound)
  <3>1. i - Len(outbound) \in 1..Cardinality(begun) /\ Len(outbound) + (i - Len(outbound)) = i
    BY <1>8, <1>10, <1>11, <2>2
  <3> QED BY <1>9, <1>11, <3>1
 <2> QED BY <2>1, <2>2
<1>13. ASSUME NEW e \in Epoch, NEW k \in Nat, NoMore(e, k) PROVE NoMore(e, k)'
 <2>1. Within(outbound', e, k)
  <3>1. Within(outbound, e, k)
    BY <1>13 DEF NoMore
  <3> QED BY <1>12, <3>1 DEF Within
 <2> QED BY <1>1, <1>13, <2>1 DEF NoMore, Within, device
<1>14. OutboundOK'
 <2>1. ASSUME NEW i \in 1..Len(outbound')
       PROVE  /\ outbound'[i].epoch <= epoch'
              /\ streams'[outbound'[i].epoch].live =>
                   /\ outbound'[i].type = "end" => streams'[outbound'[i].epoch].done
                   /\ outbound'[i].type = "clear" => streams'[outbound'[i].epoch].cleared
  <3>1. CASE i \in 1..Len(outbound) /\ outbound'[i] = outbound[i]
   <4> DEFINE e == outbound[i].epoch
   <4>1. e \in Epoch
    <5>1. outbound[i] \in Word
      BY <1>10, <3>1
    <5> QED BY <5>1 DEF Word
   <4>2. /\ e <= epoch
         /\ streams[e].live => /\ outbound[i].type = "end" => streams[e].done
                               /\ outbound[i].type = "clear" => streams[e].cleared
     BY <3>1 DEF VoiceInv, OutboundOK
   <4>3. e \in open => streams'[e].cleared /\ streams'[e].done = streams[e].done /\ streams[e].live
     BY <1>4, <1>7, <4>1
   <4>4. e \notin open => streams'[e] = Kept[e] /\ (Kept[e].live => Kept[e] = streams[e])
     BY <1>4, <1>6, <4>1
   <4> HIDE DEF e
   <4>5. /\ e <= epoch
         /\ streams'[e].live => /\ outbound[i].type = "end" => streams'[e].done
                                /\ outbound[i].type = "clear" => streams'[e].cleared
     BY <4>2, <4>3, <4>4
   <4> QED BY <1>1, <3>1, <4>5 DEF e
  <3>2. CASE outbound'[i].type = "clear" /\ outbound'[i].epoch \in open
    BY <1>1, <1>2, <1>4, <1>7, <3>2
  <3> QED BY <1>12, <3>1, <3>2
 <2> QED BY <2>1 DEF OutboundOK
<1>15. ASSUME NEW e \in Epoch PROVE (StreamOK(e) /\ Ahead(e) /\ SettledOK(e))'
 <2>1. StreamOK(e) /\ Ahead(e) /\ SettledOK(e)
   BY DEF VoiceInv, AccountsOK
 <2>2. /\ heard[e] \in Nat /\ settled[e] \in Nat \cup {Open} /\ e \in Nat /\ epoch \in Nat /\ Open \notin Nat
       /\ streams[e].live => streams[e].produced \in Nat /\ streams[e].played \in Nat
   BY HeardTypes
 <2>3. /\ Settle(e) # Open => Settle(e) = heard[e] /\ (Dead(e) \/ NoMore(e, heard[e]))
       /\ settled[e] # Open => Settle(e) = settled[e]
       /\ ~Closed(e) => Settle(e) = settled[e] /\ Kept[e] = streams[e]
       /\ Closed(e) => Kept[e] = None /\ Settle(e) # Open /\ e <= epoch
   BY RetiredRight
 <2>4. UNCHANGED <<epoch, dev, dac, heard>>
   BY <1>1 DEF device
 <2>5. Dead(e) \/ NoMore(e, heard[e]) => (Dead(e) \/ NoMore(e, heard[e]))'
  <3>1. PICK c \in Nat : c = heard[e]
    BY <2>2
  <3>2. NoMore(e, c) => NoMore(e, c)'
    BY <1>13
  <3> QED BY <2>4, <3>1, <3>2 DEF Dead, NoMore, Within
 <2>6. CASE e \in open /\ ~streams[e].started
  <3>1. settled'[e] = 0 /\ streams[e].produced = 0 /\ heard[e] = 0 /\ NoMore(e, 0)
   <4>1. Kept[e] = streams[e] /\ streams[e].live
     BY <1>4, <2>6
   <4>2. settled'[e] = 0
     BY <1>1, <2>6, <4>1
   <4>3. streams[e].produced = 0 /\ NoMore(e, 0)
     BY <2>1, <2>6, <4>1 DEF StreamOK
   <4> QED BY <2>2, <4>2, <4>3 DEF NoMore
  <3>2. NoMore(e, 0)'
    BY <1>13, <3>1
  <3>3. StreamOK(e)'
   <4>1. e <= epoch /\ streams[e].played <= heard[e] /\ (streams[e].end_sent => streams[e].done)
     BY <1>4, <2>1, <2>6 DEF StreamOK
   <4> QED BY <1>7, <2>2, <2>4, <2>6, <3>1, <3>2, <4>1 DEF StreamOK
  <3>4. Ahead(e)'
    BY <1>4, <2>2, <2>4, <2>6 DEF Ahead
  <3>5. SettledOK(e)'
    BY <1>7, <2>4, <2>6, <3>1, <3>2 DEF SettledOK
  <3> QED BY <3>3, <3>4, <3>5
 <2>7. CASE e \in open /\ streams[e].started
  <3>1. settled'[e] = settled[e] /\ Kept[e] = streams[e] /\ streams[e].live /\ e <= epoch
    BY <1>1, <1>4, <2>3, <2>7
  <3>2. PICK c \in Nat : c = streams[e].produced
    BY <2>2, <3>1
  <3>3. NoMore(e, c)'
    BY <1>13, <2>1, <3>1, <3>2 DEF StreamOK
  <3>4. StreamOK(e)'
   <4>1. streams[e].played <= heard[e] /\ (streams[e].end_sent => streams[e].done)
     BY <2>1, <3>1 DEF StreamOK
   <4>2. NoMore(e, streams[e].produced)'
     BY <1>7, <2>7, <3>2, <3>3 DEF NoMore, Within
   <4> QED BY <1>7, <2>4, <2>7, <3>1, <4>1, <4>2 DEF StreamOK
  <3>5. Ahead(e)'
    BY <2>2, <2>4, <3>1 DEF Ahead
  <3>6. SettledOK(e)'
   <4>1. settled[e] # Open => settled[e] = heard[e] /\ (Dead(e) \/ NoMore(e, heard[e]))
     BY <2>1 DEF SettledOK
   <4> QED BY <1>7, <2>4, <2>7, <2>5, <3>1, <4>1 DEF SettledOK
  <3> QED BY <3>4, <3>5, <3>6
 <2>8. CASE e \notin open /\ ~Closed(e)
  <3>1. streams'[e] = streams[e] /\ settled'[e] = settled[e]
    BY <1>1, <1>6, <2>3, <2>8
  <3> QED BY <1>13, <2>4, <3>1, AccountStays
 <2>9. CASE e \notin open /\ Closed(e)
  <3>1. streams'[e] = None /\ settled'[e] = Settle(e)
    BY <1>1, <1>6, <2>3, <2>9
  <3>2. ~streams'[e].live
    BY <3>1 DEF None
  <3>3. StreamOK(e)' /\ Ahead(e)'
    BY <2>2, <2>3, <2>4, <2>9, <3>2 DEF StreamOK, Ahead
  <3>4. SettledOK(e)'
   <4>1. Settle(e) = heard[e] /\ (Dead(e) \/ NoMore(e, heard[e]))
     BY <2>3, <2>9
   <4> QED BY <2>4, <2>5, <3>1, <3>2, <4>1 DEF SettledOK
  <3> QED BY <3>3, <3>4
 <2> QED BY <1>4, <2>6, <2>7, <2>8, <2>9
<1>16. VoiceTypes'
 <2>1. streams' \in [Epoch -> Account \cup {None}]
  <3>1. \A e \in Epoch : streams'[e] \in Account \cup {None}
    BY <1>4, <1>6, <1>7
  <3>2. DOMAIN streams' = Epoch /\ streams' = [e \in Epoch |-> streams'[e]]
    BY <1>1
  <3> QED BY <3>1, <3>2
 <2>2. settled' \in [Epoch -> Nat \cup {Open}]
  <3>1. \A e \in Epoch : Settle(e) \in Nat \cup {Open}
    BY RetiredRight
  <3> QED BY <1>1, <3>1
 <2>3. response' \in [state : {"none", "requested", "current", "discarded"}, epoch : 0..MaxEpoch]
   BY <1>1 DEF VoiceInv, VoiceTypes, ProxyTypes
 <2> QED BY <1>1, <1>3, <1>11, <2>1, <2>2, <2>3 DEF VoiceInv, VoiceTypes, ProxyTypes
<1>17. AccountsOK'
  BY <1>15 DEF AccountsOK
<1> QED BY <1>3, <1>14, <1>16, <1>17 DEF VoiceInv
\* A change of one stream, by a step that closes no account.
LEMMA StreamKeeps ==
  ASSUME VoiceInv, NEW e \in Epoch, NEW s \in Account, streams[e].live,
         streams' = [streams EXCEPT ![e] = s],
         UNCHANGED <<epoch, settled, dev, dac, heard>>,
         \A f \in Epoch \ {e} : \A k \in Nat : NoMore(f, k) => NoMore(f, k)',
         Dead(e) \/ NoMore(e, heard[e]) => (Dead(e) \/ NoMore(e, heard[e]))' \/ settled[e] = Open,
         NoMore(e, s.produced)', s.played <= heard[e],
         s.started \/ s.produced = 0,
         s.end_sent => s.done, s.clear_sent => s.cleared,
         s.acknowledged => settled[e] # Open,
         streams[e].cleared => s.cleared, streams[e].done => s.done
  PROVE  AccountsOK' /\ streams' \in [Epoch -> Account \cup {None}] /\ streams'[e] = s /\ s.live
         /\ \A f \in Epoch \ {e} : streams'[f] = streams[f]
<1>1. streams \in [Epoch -> Account \cup {None}]
  BY DEF VoiceInv, VoiceTypes, ProxyTypes
<1>2. /\ streams' \in [Epoch -> Account \cup {None}] /\ streams'[e] = s
      /\ \A f \in Epoch \ {e} : streams'[f] = streams[f]
  BY <1>1
<1>3. s.live
  BY AccountFields
<1>4. ASSUME NEW f \in Epoch, f # e PROVE (StreamOK(f) /\ Ahead(f) /\ SettledOK(f))'
  BY <1>2, <1>4, AccountStays
<1>5. (StreamOK(e) /\ Ahead(e) /\ SettledOK(e))'
 <2>1. StreamOK(e) /\ Ahead(e) /\ SettledOK(e)
   BY DEF VoiceInv, AccountsOK
 <2>2. e <= epoch /\ e \in Nat /\ epoch \in Nat
   BY <2>1, HeardTypes DEF StreamOK
 <2>3. NoMore(e, streams[e].produced)'
   BY <1>2 DEF NoMore, Within
 <2>4. StreamOK(e)'
   BY <1>2, <2>2, <2>3 DEF StreamOK
 <2>5. Ahead(e)'
   BY <2>2 DEF Ahead
 <2>6. SettledOK(e)'
   BY <1>2, <1>3, <2>1 DEF SettledOK
 <2> QED BY <2>4, <2>5, <2>6
<1>6. AccountsOK'
  BY <1>4, <1>5 DEF AccountsOK
<1> QED BY <1>2, <1>3, <1>6

\* The same where nothing gets on its way.
LEMMA StreamAside ==
  ASSUME VoiceInv, NEW e \in Epoch, NEW s \in Account, streams[e].live,
         streams' = [streams EXCEPT ![e] = s],
         response' \in [state : {"none", "requested", "current", "discarded"}, epoch : 0..MaxEpoch],
         UNCHANGED <<epoch, settled, outbound, down, up, device, heard>>,
         s.played = streams[e].played, s.produced = streams[e].produced,
         s.started = streams[e].started, s.end_sent = streams[e].end_sent,
         s.done = streams[e].done, s.cleared = streams[e].cleared,
         s.clear_sent = streams[e].clear_sent, s.acknowledged = streams[e].acknowledged
  PROVE  VoiceInv'
<1>1. AudioInOrder' /\ DeviceOK' /\ ReportsOK' /\ DeviceTypes'
  BY ProxyAside DEF device
<1>2. StreamOK(e)
  BY DEF VoiceInv, AccountsOK
<1>3. \A f \in Epoch : \A k : NoMore(f, k) <=> NoMore(f, k)'
  BY NoMoreSame DEF device
<1>4. UNCHANGED <<epoch, settled, dev, dac, heard>>
  BY DEF device
<1>5. /\ AccountsOK' /\ streams' \in [Epoch -> Account \cup {None}] /\ streams'[e] = s /\ s.live
      /\ \A f \in Epoch \ {e} : streams'[f] = streams[f]
 <2>1. Dead(e) \/ NoMore(e, heard[e]) => (Dead(e) \/ NoMore(e, heard[e]))'
   BY <1>4 DEF Dead, NoMore, Within
 <2>2. NoMore(e, s.produced)'
   BY <1>2, <1>3 DEF StreamOK
 <2> HIDE DEF NoMore
 <2> QED BY <1>2, <1>3, <1>4, <2>1, <2>2, StreamKeeps DEF StreamOK
<1>6. OutboundOK'
 <2>1. \A i \in 1..Len(outbound) : outbound[i].epoch \in Epoch
   BY DEF VoiceInv, VoiceTypes, ProxyTypes, Word
 <2>2. OutboundOK
   BY DEF VoiceInv
 <2> QED BY <1>4, <1>5, <2>1, <2>2 DEF OutboundOK
<1>7. VoiceTypes'
  BY <1>1, <1>5 DEF VoiceInv, VoiceTypes, ProxyTypes
<1> QED BY <1>1, <1>5, <1>6, <1>7 DEF VoiceInv
\* The accounts after _retire_streams.
LEMMA KeptStays ==
  ASSUME VoiceInv, NEW e \in Epoch, streams'[e] = Kept[e], settled'[e] = Settle(e),
         UNCHANGED <<outbound, down, dev, dac, heard>>, epoch' = epoch \/ epoch' = epoch + 1
  PROVE  (StreamOK(e) /\ Ahead(e) /\ SettledOK(e))'
<1>1. StreamOK(e) /\ Ahead(e) /\ SettledOK(e)
  BY DEF VoiceInv, AccountsOK
<1>2. heard[e] \in Nat /\ settled[e] \in Nat \cup {Open} /\ e \in Nat /\ epoch \in Nat /\ Open \notin Nat
  BY HeardTypes
<1>3. /\ Settle(e) # Open => Settle(e) = heard[e] /\ (Dead(e) \/ NoMore(e, heard[e]))
      /\ settled[e] # Open => Settle(e) = settled[e]
      /\ ~Closed(e) => Settle(e) = settled[e] /\ Kept[e] = streams[e]
      /\ Closed(e) => Kept[e] = None /\ Settle(e) # Open /\ e <= epoch
  BY RetiredRight
<1>4. \A k : NoMore(e, k) <=> NoMore(e, k)'
  BY NoMoreSame
<1>5. Dead(e) \/ NoMore(e, heard[e]) => (Dead(e) \/ NoMore(e, heard[e]))'
  BY DEF Dead, NoMore, Within
<1>6. CASE Closed(e)
 <2>1. ~streams'[e].live
   BY <1>3, <1>6 DEF None
 <2>2. StreamOK(e)' /\ Ahead(e)'
   BY <1>2, <1>3, <1>6, <2>1 DEF StreamOK, Ahead
 <2>3. SettledOK(e)'
   BY <1>3, <1>5, <1>6, <2>1 DEF SettledOK
 <2> QED BY <2>2, <2>3
<1>7. CASE ~Closed(e)
 <2>1. streams'[e] = streams[e] /\ settled'[e] = settled[e]
   BY <1>3, <1>7
 <2>2. StreamOK(e)'
  <3>1. NoMore(e, streams[e].produced) => NoMore(e, streams[e].produced)'
    BY <2>1 DEF NoMore, Within
  <3> QED BY <1>1, <1>2, <2>1, <3>1 DEF StreamOK
 <2>3. Ahead(e)'
   BY <1>1, <1>2, <1>4, <2>1 DEF Ahead
 <2>4. SettledOK(e)'
   BY <1>1, <1>5, <2>1 DEF SettledOK
 <2> QED BY <2>2, <2>3, <2>4
<1> QED BY <1>6, <1>7

LEMMA KeptTypes ==
  ASSUME VoiceInv
  PROVE  /\ Kept \in [Epoch -> Account \cup {None}]
         /\ [e \in Epoch |-> Settle(e)] \in [Epoch -> Nat \cup {Open}]
         /\ \A e \in Epoch : Kept[e].live => Kept[e] = streams[e]
<1>1. streams \in [Epoch -> Account \cup {None}]
  BY DEF VoiceInv, VoiceTypes, ProxyTypes
<1>2. \A e \in Epoch : Settle(e) \in Nat \cup {Open}
  BY RetiredRight
<1>3. None.live = FALSE
  BY DEF None
<1> QED BY <1>1, <1>2, <1>3 DEF Kept

LEMMA FreshAccount ==
  /\ [Fresh EXCEPT !.queued = 1] \in Account
  /\ LET s == [Fresh EXCEPT !.queued = 1] IN
       /\ s.live /\ s.played = 0 /\ s.produced = 0 /\ ~s.started /\ ~s.end_sent
       /\ ~s.clear_sent /\ ~s.acknowledged
<1> DEFINE s == [Fresh EXCEPT !.queued = 1]
<1> DEFINE o == Fresh
<1>1. /\ o = [live |-> TRUE, queued |-> 0, produced |-> 0, sent |-> 0, played |-> 0,
              generated |-> FALSE, started |-> FALSE, done |-> FALSE,
              end_sent |-> FALSE, cleared |-> FALSE, clear_sent |-> FALSE,
              acknowledged |-> FALSE]
      /\ s = [o EXCEPT !.queued = 1]
  BY DEF Fresh
<1> HIDE DEF s, o
<1>2. s = [live |-> TRUE, queued |-> 1, produced |-> 0, sent |-> 0, played |-> 0,
           generated |-> FALSE, started |-> FALSE, done |-> FALSE,
           end_sent |-> FALSE, cleared |-> FALSE, clear_sent |-> FALSE,
           acknowledged |-> FALSE]
  BY <1>1
<1>3. s \in Account
  BY <1>2 DEF Account
<1>4. /\ s.live /\ s.played = 0 /\ s.produced = 0 /\ ~s.started /\ ~s.end_sent
      /\ ~s.clear_sent /\ ~s.acknowledged
  BY <1>2
<1> QED BY <1>3, <1>4, Zenon DEF s

\* The messages are of epochs that were given out.
LEMMA OutboundStays ==
  ASSUME VoiceInv, UNCHANGED outbound, epoch' = epoch \/ epoch' = epoch + 1,
         \A e \in Epoch : e <= epoch /\ streams'[e].live => streams'[e] = streams[e]
  PROVE  OutboundOK'
<1>1. \A i \in 1..Len(outbound) : outbound[i].epoch \in Epoch
  BY DEF VoiceInv, VoiceTypes, ProxyTypes, Word
<1>2. OutboundOK
  BY DEF VoiceInv
<1>3. epoch \in Nat /\ Epoch \subseteq Nat
  BY EpochNat DEF VoiceInv, VoiceTypes, ProxyTypes
<1>4. ASSUME NEW i \in 1..Len(outbound)
      PROVE  /\ outbound[i].epoch <= epoch'
             /\ streams'[outbound[i].epoch].live =>
                  /\ outbound[i].type = "end" => streams'[outbound[i].epoch].done
                  /\ outbound[i].type = "clear" => streams'[outbound[i].epoch].cleared
 <2> DEFINE e == outbound[i].epoch
 <2>1. e \in Epoch /\ e \in Nat
   BY <1>1, <1>3
 <2>2. /\ e <= epoch
       /\ streams[e].live => /\ outbound[i].type = "end" => streams[e].done
                             /\ outbound[i].type = "clear" => streams[e].cleared
   BY <1>2 DEF OutboundOK
 <2> HIDE DEF e
 <2>3. e <= epoch'
   BY <1>3, <2>1, <2>2
 <2>4. streams'[e].live => streams'[e] = streams[e]
   BY <2>1, <2>2
 <2> QED BY <2>2, <2>3, <2>4 DEF e
<1> QED BY <1>4 DEF OutboundOK

LEMMA ResponseAudioKeeps == ASSUME VoiceInv, ResponseAudio PROVE VoiceInv'
<1>1. UNCHANGED <<outbound, down, up, device, heard>>
  BY DEF ResponseAudio
<1>2. response \in [state : {"none", "requested", "current", "discarded"}, epoch : 0..MaxEpoch]
      /\ streams \in [Epoch -> Account \cup {None}] /\ epoch \in 0..MaxEpoch
  BY DEF VoiceInv, VoiceTypes, ProxyTypes
<1>3. CASE response.epoch # 0 /\ streams[response.epoch].live
 <2> DEFINE e == response.epoch
 <2>1. e \in Epoch /\ streams[e].live
   BY <1>2, <1>3, EpochNat
 <2>2. MoreAudio(e)
   BY <1>3 DEF ResponseAudio
 <2>3. streams' = [streams EXCEPT ![e] = [streams[e] EXCEPT !.queued = streams[e].queued + 1]]
       /\ UNCHANGED <<retired, epoch, response, settled>>
   BY <2>2 DEF MoreAudio
 <2> DEFINE s == [streams[e] EXCEPT !.queued = streams[e].queued + 1]
            o == streams[e]
 <2> HIDE DEF e
 <2>4. o \in Account
   BY <2>1, HeardTypes
 <2>5. o.queued \in Nat /\ o.queued + 1 \in Nat /\ s = [o EXCEPT !.queued = o.queued + 1]
  <3>1. o.queued \in Nat
   <4> HIDE DEF o
   <4> QED BY <2>4, AccountFields
  <3> QED BY <3>1
 <2>6. /\ s \in Account
       /\ s.played = o.played /\ s.produced = o.produced /\ s.started = o.started
       /\ s.end_sent = o.end_sent /\ s.done = o.done /\ s.cleared = o.cleared
       /\ s.clear_sent = o.clear_sent /\ s.acknowledged = o.acknowledged
  <3> HIDE DEF s, o
  <3> QED BY <2>4, <2>5, QueuedMade
 <2> HIDE DEF s
 <2>7. streams' = [streams EXCEPT ![e] = s]
   BY <2>3 DEF s
 <2> QED BY <1>1, <1>2, <2>1, <2>3, <2>6, <2>7, StreamAside
<1>4. CASE ~(response.epoch # 0 /\ streams[response.epoch].live)
 <2>1. epoch < MaxEpoch /\ OpenStream
   BY <1>4 DEF ResponseAudio
 <2>2. settled' = [e \in Epoch |-> Settle(e)]
   BY <2>1 DEF OpenStream
 <2>3. Kept \in [Epoch -> Account \cup {None}] /\ settled' \in [Epoch -> Nat \cup {Open}]
       /\ \A e \in Epoch : Kept[e].live => Kept[e] = streams[e]
   BY <2>2, KeptTypes
 <2>4. UNCHANGED <<outbound, down, dev, dac, heard>>
   BY <1>1 DEF device
 <2>5. AudioInOrder' /\ DeviceOK' /\ ReportsOK' /\ DeviceTypes'
   BY <1>1, ProxyAside DEF device
 <2>6. CASE streams' = Kept /\ UNCHANGED <<epoch, response>>
  <3>1. \A e \in Epoch : (StreamOK(e) /\ Ahead(e) /\ SettledOK(e))'
    BY <2>2, <2>4, <2>6, KeptStays
  <3>2. OutboundOK'
    BY <1>1, <2>3, <2>6, OutboundStays
  <3>3. VoiceTypes'
    BY <1>1, <1>2, <2>3, <2>5, <2>6 DEF VoiceInv, VoiceTypes, ProxyTypes
  <3> QED BY <2>5, <3>1, <3>2, <3>3 DEF VoiceInv, AccountsOK
 <2>7. CASE /\ epoch' = epoch + 1
            /\ streams' = [Kept EXCEPT ![epoch + 1] = [Fresh EXCEPT !.queued = 1]]
            /\ response' = [response EXCEPT !.epoch = epoch + 1]
  <3>1. PICK n \in Nat : n = epoch + 1
    BY <1>2, EpochNat
  <3>2. n \in Epoch /\ n \in 0..MaxEpoch /\ epoch \in Nat /\ n > epoch /\ epoch' = n
    BY <1>2, <2>1, <2>7, <3>1, EpochNat
  <3> DEFINE s == [Fresh EXCEPT !.queued = 1]
  <3>3. s \in Account /\ s.live /\ s.played = 0 /\ s.produced = 0 /\ ~s.started /\ ~s.end_sent
        /\ ~s.clear_sent /\ ~s.acknowledged
    BY FreshAccount
  <3>4. streams' = [Kept EXCEPT ![n] = s]
    BY <2>7, <3>1
  <3> HIDE DEF s
  <3>5. streams' \in [Epoch -> Account \cup {None}] /\ streams'[n] = s
        /\ \A e \in Epoch : e # n => streams'[e] = Kept[e]
    BY <2>3, <3>2, <3>3, <3>4
  <3>6. ASSUME NEW e \in Epoch, e # n PROVE (StreamOK(e) /\ Ahead(e) /\ SettledOK(e))'
    BY <2>2, <2>4, <2>7, <3>5, <3>6, KeptStays
  <3>7. (StreamOK(n) /\ Ahead(n) /\ SettledOK(n))'
   <4>1. ~streams[n].live /\ settled[n] = Open /\ NoMore(n, 0)
     BY <3>2 DEF VoiceInv, AccountsOK, Ahead
   <4>2. ~Closed(n)
     BY <4>1 DEF Closed
   <4>3. settled'[n] = Open
     BY <2>2, <3>2, <4>1, <4>2, RetiredRight
   <4>4. heard[n] \in Nat
     BY <3>2, HeardTypes
   <4>5. NoMore(n, 0)'
     BY <2>4, <3>2, <4>1, NoMoreSame
   <4>6. NoMore(n, streams[n].produced)'
     BY <3>3, <3>5, <4>5 DEF NoMore, Within
   <4>7. streams'[n].played <= heard'[n]
     BY <2>4, <3>3, <3>5, <4>4
   <4>8. StreamOK(n)'
     BY <3>2, <3>3, <3>5, <4>6, <4>7 DEF StreamOK
   <4>9. Ahead(n)' /\ SettledOK(n)'
     BY <3>2, <4>3 DEF Ahead, SettledOK
   <4> QED BY <4>8, <4>9
  <3>8. OutboundOK'
   <4>1. \A e \in Epoch : e <= epoch /\ streams'[e].live => streams'[e] = streams[e]
     BY <2>3, <3>2, <3>5
   <4> QED BY <1>1, <2>7, <4>1, OutboundStays
  <3>9. response' \in [state : {"none", "requested", "current", "discarded"}, epoch : 0..MaxEpoch]
    BY <1>2, <2>7, <3>1, <3>2
  <3>10. VoiceTypes'
    BY <1>1, <2>3, <2>5, <3>2, <3>5, <3>9 DEF VoiceInv, VoiceTypes, ProxyTypes
  <3>11. AccountsOK'
    BY <3>6, <3>7 DEF AccountsOK
  <3> QED BY <2>5, <3>8, <3>10, <3>11 DEF VoiceInv
 <2> QED BY <2>1, <2>6, <2>7 DEF OpenStream
<1> QED BY <1>3, <1>4

LEMMA ResponseDoneKeeps == ASSUME VoiceInv, ResponseDone PROVE VoiceInv'
<1> DEFINE e == response.epoch
           Ending == e \in Epoch /\ streams[e].live /\ ~streams[e].cleared
<1>1. /\ UNCHANGED <<epoch, outbound, down, up, device, settled, heard>>
      /\ streams' = [f \in Epoch |->
           IF f = response.epoch /\ streams[f].live /\ ~streams[f].cleared
           THEN [streams[f] EXCEPT !.generated = TRUE] ELSE streams[f]]
      /\ MaybeRespond(streams', pending, speech, [state |-> "none", epoch |-> 0])
  BY DEF ResponseDone, session
<1>2. streams \in [Epoch -> Account \cup {None}]
  BY DEF VoiceInv, VoiceTypes, ProxyTypes
<1>3. response' \in [state : {"none", "requested", "current", "discarded"}, epoch : 0..MaxEpoch]
 <2>1. [state |-> "none", epoch |-> 0]
         \in [state : {"none", "requested", "current", "discarded"}, epoch : 0..MaxEpoch]
   BY EpochNat
 <2> QED BY <1>1, <2>1, MaybeTypes
<1>4. CASE ~Ending
 <2>1. streams' = streams
   BY <1>1, <1>2, <1>4
 <2> QED BY <1>1, <1>3, <2>1, AsideKeeps
<1>5. CASE Ending
 <2> DEFINE o == streams[e]
            s == [o EXCEPT !.generated = TRUE]
 <2>1. streams' = [streams EXCEPT ![e] = s]
   BY <1>1, <1>2, <1>5
 <2> HIDE DEF e
 <2>2. e \in Epoch /\ streams[e].live /\ o \in Account
   BY <1>5, HeardTypes
 <2>3. /\ s \in Account
       /\ s.played = o.played /\ s.produced = o.produced /\ s.started = o.started
       /\ s.end_sent = o.end_sent /\ s.done = o.done /\ s.cleared = o.cleared
       /\ s.clear_sent = o.clear_sent /\ s.acknowledged = o.acknowledged
  <3> HIDE DEF o
  <3> QED BY <2>2, GeneratedMade
 <2> HIDE DEF s
 <2> QED BY <1>1, <1>3, <2>1, <2>2, <2>3, StreamAside
<1> QED BY <1>4, <1>5

-------------------------------------------------------------------------------

LEMMA OutboundFollows ==
  ASSUME VoiceInv, UNCHANGED epoch, NEW e \in Epoch, NEW s \in Account, streams'[e] = s,
         \A f \in Epoch \ {e} : streams'[f] = streams[f],
         streams[e].live, streams[e].done => s.done, streams[e].cleared => s.cleared,
         \A i \in 1..Len(outbound') :
           outbound'[i] \in Word
           /\ (Posted(outbound'[i])
               \/ (outbound'[i].epoch = e /\ outbound'[i].type # "clear"
                   /\ (outbound'[i].type = "end" => s.done)))
  PROVE  OutboundOK'
<1>1. ASSUME NEW i \in 1..Len(outbound')
      PROVE  /\ outbound'[i].epoch <= epoch'
             /\ streams'[outbound'[i].epoch].live =>
                  /\ outbound'[i].type = "end" => streams'[outbound'[i].epoch].done
                  /\ outbound'[i].type = "clear" => streams'[outbound'[i].epoch].cleared
 <2> DEFINE m == outbound'[i]
 <2>1. m.epoch \in Epoch
  <3>1. m \in Word
    BY <1>1
  <3> QED BY <3>1 DEF Word
 <2>2. e <= epoch
   BY DEF VoiceInv, AccountsOK, StreamOK
 <2>3. CASE m.epoch = e /\ m.type # "clear" /\ (m.type = "end" => s.done)
  <3> HIDE DEF m
  <3>1. m.epoch <= epoch' /\ streams'[m.epoch] = s
    BY <2>2, <2>3
  <3> QED BY <2>3, <3>1 DEF m
 <2>4. CASE Posted(m)
  <3> HIDE DEF m
  <3>1. /\ m.epoch <= epoch
        /\ streams[m.epoch].live => /\ m.type = "end" => streams[m.epoch].done
                                    /\ m.type = "clear" => streams[m.epoch].cleared
    BY <2>4 DEF Posted
  <3>2. CASE m.epoch = e
    BY <3>1, <3>2 DEF m
  <3>3. CASE m.epoch # e
   <4>1. streams'[m.epoch] = streams[m.epoch]
     BY <2>1, <3>3
   <4> QED BY <3>1, <4>1 DEF m
  <3> QED BY <3>2, <3>3
 <2> QED BY <1>1, <2>3, <2>4
<1> QED BY <1>1 DEF OutboundOK

\* A message of e on its way, and what audio_writer makes of its stream.
LEMMA WriterKeeps ==
  ASSUME VoiceInv, NEW e \in Epoch, streams[e].live, settled[e] = Open,
         NEW s \in Account, NEW m \in Word, m.epoch = e,
         streams' = [streams EXCEPT ![e] = s], outbound' = Append(outbound, m),
         UNCHANGED <<epoch, response, settled, down, up, device, heard>>,
         streams[e].produced <= s.produced, m.type = "frame" => m.n <= s.produced,
         s.played = streams[e].played, s.started, s.end_sent = streams[e].end_sent,
         s.cleared = streams[e].cleared, s.clear_sent = streams[e].clear_sent,
         s.acknowledged = streams[e].acknowledged, streams[e].done => s.done,
         m.type # "clear", m.type = "end" => s.done
  PROVE  VoiceInv'
<1>1. AudioInOrder' /\ DeviceOK' /\ ReportsOK' /\ DeviceTypes'
  BY ProxyAside DEF device
<1>2. UNCHANGED <<epoch, settled, dev, dac, heard>>
  BY DEF device
<1>3. outbound \in Seq(Word) /\ down \in Seq(Word)
  BY DEF VoiceInv, VoiceTypes, ProxyTypes
<1>4. /\ outbound' \in Seq(Word) /\ Len(outbound') = Len(outbound) + 1
      /\ \A i \in 1..Len(outbound) : outbound'[i] = outbound[i]
      /\ outbound'[Len(outbound) + 1] = m
  BY <1>3, AppendKeeps
<1>5. ASSUME NEW f \in Epoch, NEW k \in Nat, NoMore(f, k), m.type = "frame" /\ m.epoch = f => m.n <= k
      PROVE  NoMore(f, k)'
 <2>1. Within(outbound', f, k)
   BY <1>3, <1>5, WithinAppend DEF NoMore
 <2> QED BY <1>2, <1>5, <2>1 DEF NoMore, Within
<1>6. StreamOK(e)
  BY DEF VoiceInv, AccountsOK
<1>7. NoMore(e, s.produced)'
 <2>1. s.produced \in Nat /\ streams[e].produced \in Nat
   BY AccountFields, HeardTypes
 <2>2. NoMore(e, s.produced)
  <3>1. NoMore(e, streams[e].produced)
    BY <1>6 DEF StreamOK
  <3>2. dac \in Dac /\ heard[e] \in Nat
    BY HeardTypes DEF VoiceInv, VoiceTypes, DeviceTypes
  <3>3. dac.played + dac.pending \in Nat
    BY <3>2 DEF Dac
  <3> QED BY <1>3, <2>1, <3>1, <3>2, <3>3, WithinMore DEF NoMore
 <2> QED BY <1>5, <2>1, <2>2
<1>8. /\ AccountsOK' /\ streams' \in [Epoch -> Account \cup {None}] /\ streams'[e] = s /\ s.live
      /\ \A f \in Epoch \ {e} : streams'[f] = streams[f]
 <2>1. \A f \in Epoch \ {e} : \A k \in Nat : NoMore(f, k) => NoMore(f, k)'
   BY <1>5
 <2> QED BY <1>2, <1>6, <1>7, <2>1, StreamKeeps DEF StreamOK
<1>9. OutboundOK'
 <2>1. ASSUME NEW i \in 1..Len(outbound')
       PROVE  outbound'[i] \in Word
              /\ (Posted(outbound'[i])
                  \/ (outbound'[i].epoch = e /\ outbound'[i].type # "clear"
                      /\ (outbound'[i].type = "end" => s.done)))
  <3>1. CASE i \in 1..Len(outbound)
   <4>1. outbound'[i] = outbound[i] /\ outbound[i] \in Word
     BY <1>3, <1>4, <3>1
   <4>2. Posted(outbound[i])
     BY <3>1 DEF VoiceInv, OutboundOK, Posted
   <4> QED BY <4>1, <4>2
  <3>2. CASE i \notin 1..Len(outbound)
   <4>1. i = Len(outbound) + 1
     BY <1>3, <1>4, <3>2
   <4> QED BY <1>4, <4>1
  <3> QED BY <3>1, <3>2
 <2> QED BY <1>2, <1>8, <2>1, OutboundFollows
<1>10. VoiceTypes'
  BY <1>1, <1>2, <1>3, <1>4, <1>8 DEF VoiceInv, VoiceTypes, ProxyTypes
<1> QED BY <1>1, <1>8, <1>9, <1>10 DEF VoiceInv

LEMMA AudioWriterKeeps == ASSUME VoiceInv, NEW e \in Epoch, AudioWriter(e) PROVE VoiceInv'
<1> DEFINE o == streams[e]
<1>1. /\ o.live /\ ~o.cleared /\ ~o.done
      /\ UNCHANGED <<epoch, response, settled, down, up, device, heard>>
  BY DEF AudioWriter, MayWrite, session
<1>2. o \in Account
  BY <1>1, HeardTypes
<1>3. settled[e] = Open
  BY <1>1 DEF VoiceInv, AccountsOK, SettledOK
<1>4. o.produced \in Nat /\ o.queued \in Nat
 <2> HIDE DEF o
 <2> QED BY <1>2, AccountFields
<1>5. CASE /\ ~o.started /\ streams' = [streams EXCEPT ![e].started = TRUE]
           /\ outbound' = Append(outbound, Start(e))
 <2> DEFINE s == [o EXCEPT !.started = TRUE]
            m == Start(e)
 <2>1. streams' = [streams EXCEPT ![e] = s] /\ outbound' = Append(outbound, m)
   BY <1>5
 <2>2. m \in Word /\ m.epoch = e /\ m.type = "start"
   BY DEF Start, Word
 <2>3. /\ s \in Account /\ s.produced = o.produced /\ s.played = o.played /\ s.started = TRUE
       /\ s.end_sent = o.end_sent /\ s.cleared = o.cleared /\ s.clear_sent = o.clear_sent
       /\ s.acknowledged = o.acknowledged /\ s.done = o.done
  <3> HIDE DEF o
  <3> QED BY <1>2, StartedMade
 <2> HIDE DEF s, m
 <2>4. o.produced <= s.produced /\ s.started
   BY <1>4, <2>3
 <2> QED BY <1>1, <1>3, <2>1, <2>2, <2>3, <2>4, WriterKeeps
<1>6. CASE /\ o.started /\ o.queued > 0
           /\ streams' = [streams EXCEPT ![e].queued = @ - 1, ![e].produced = @ + 1]
           /\ outbound' = Append(outbound, Frame(e, o.produced + 1))
 <2> DEFINE s == [o EXCEPT !.queued = o.queued - 1, !.produced = o.produced + 1]
            m == Frame(e, o.produced + 1)
 <2>1. streams' = [streams EXCEPT ![e] = s] /\ outbound' = Append(outbound, m)
  <3>1. streams \in [Epoch -> Account \cup {None}]
    BY DEF VoiceInv, VoiceTypes, ProxyTypes
  <3> QED BY <1>6, <3>1
 <2>2. m \in Word /\ m.epoch = e /\ m.type = "frame" /\ m.n = o.produced + 1
   BY <1>4 DEF Frame, Word
 <2>3. /\ s \in Account /\ s.produced = o.produced + 1 /\ s.played = o.played
       /\ s.started = o.started
       /\ s.end_sent = o.end_sent /\ s.cleared = o.cleared /\ s.clear_sent = o.clear_sent
       /\ s.acknowledged = o.acknowledged /\ s.done = o.done
  <3>1. PICK a \in Nat : a = o.queued - 1
    BY <1>4, <1>6
  <3>2. PICK b \in Nat : b = o.produced + 1
    BY <1>4
  <3>3. s = [o EXCEPT !.queued = a, !.produced = b]
    BY <3>1, <3>2
  <3> HIDE DEF o, s
  <3>4. Counted(s, o, b, o.played)
    BY <1>2, <3>1, <3>2, <3>3, ProducedMade, Zenon
  <3>5. s.acknowledged = o.acknowledged
    BY <1>2, <3>1, <3>2, <3>3, ProducedMade, Zenon
  <3> QED BY <3>2, <3>4, <3>5 DEF Counted
 <2> HIDE DEF s, m
 <2>4. o.produced <= s.produced /\ s.started /\ m.n <= s.produced
   BY <1>4, <1>6, <2>2, <2>3
 <2> QED BY <1>1, <1>3, <2>1, <2>2, <2>3, <2>4, WriterKeeps
<1>7. CASE /\ o.started /\ streams' = [streams EXCEPT ![e].done = TRUE]
           /\ outbound' = Append(outbound, End(e))
 <2> DEFINE s == [o EXCEPT !.done = TRUE]
            m == End(e)
 <2>1. streams' = [streams EXCEPT ![e] = s] /\ outbound' = Append(outbound, m)
   BY <1>7
 <2>2. m \in Word /\ m.epoch = e /\ m.type = "end"
   BY DEF End, Word
 <2>3. /\ s \in Account /\ s.produced = o.produced /\ s.played = o.played
       /\ s.started = o.started
       /\ s.end_sent = o.end_sent /\ s.cleared = o.cleared /\ s.clear_sent = o.clear_sent
       /\ s.acknowledged = o.acknowledged /\ s.done = TRUE
  <3> HIDE DEF o
  <3> QED BY <1>2, DoneMade
 <2> HIDE DEF s, m
 <2>4. o.produced <= s.produced /\ s.started /\ s.done
   BY <1>4, <1>7, <2>3
 <2> QED BY <1>1, <1>3, <2>1, <2>2, <2>3, <2>4, WriterKeeps
<1> QED BY <1>5, <1>6, <1>7 DEF AudioWriter

-------------------------------------------------------------------------------
\* device_writer takes a message from outbound, and may send it on.
LEMMA MessageMoves ==
  ASSUME VoiceInv, outbound # <<>>, outbound' = Tail(outbound),
         down' = down \/ down' = Append(down, Head(outbound)), UNCHANGED <<dac, heard>>
  PROVE  /\ outbound' \in Seq(Word) /\ down' \in Seq(Word)
         /\ \A f \in Epoch : \A k \in Nat : NoMore(f, k) => NoMore(f, k)'
         /\ \A i \in 1..Len(outbound') : outbound'[i] \in Word /\ Posted(outbound'[i])
         /\ Head(outbound) \in Word /\ Posted(Head(outbound))
<1>1. outbound \in Seq(Word) /\ down \in Seq(Word)
  BY DEF VoiceInv, VoiceTypes, ProxyTypes
<1>2. /\ Head(outbound) \in Word /\ Head(outbound) = outbound[1] /\ 1 \in 1..Len(outbound)
      /\ outbound' \in Seq(Word)
      /\ \A i \in 1..Len(outbound') : i + 1 \in 1..Len(outbound) /\ outbound'[i] = outbound[i + 1]
  BY <1>1, TailKeeps
<1>3. \A i \in 1..Len(outbound) : outbound[i] \in Word /\ Posted(outbound[i])
  BY <1>1 DEF VoiceInv, OutboundOK, Posted
<1>4. down' \in Seq(Word)
  BY <1>1, <1>2, AppendKeeps, SMTT(30)
<1>5. ASSUME NEW f \in Epoch, NEW k \in Nat, NoMore(f, k) PROVE NoMore(f, k)'
 <2>1. Within(outbound', f, k)
   BY <1>1, <1>5, WithinTail DEF NoMore
 <2>2. Within(down', f, k)
  <3>1. Within(down, f, k)
    BY <1>5 DEF NoMore
  <3>2. Head(outbound).type = "frame" /\ Head(outbound).epoch = f => Head(outbound).n <= k
    BY <1>2, <1>5 DEF NoMore, Within
  <3>3. Within(Append(down, Head(outbound)), f, k)
    BY <1>1, <1>2, <3>1, <3>2, WithinAppend
  <3> QED BY <3>1, <3>3
 <2> QED BY <1>5, <2>1, <2>2 DEF NoMore, Within
<1> QED BY <1>2, <1>3, <1>4, <1>5

\* Nothing of the proxy's accounts changes.
LEMMA MovedAside ==
  ASSUME VoiceInv, outbound # <<>>, outbound' = Tail(outbound),
         down' = down \/ down' = Append(down, Head(outbound)),
         UNCHANGED <<streams, epoch, response, settled, up, device, heard>>
  PROVE  VoiceInv'
<1>1. AudioInOrder' /\ DeviceOK' /\ ReportsOK' /\ DeviceTypes'
  BY ProxyAside DEF device
<1>2. UNCHANGED <<epoch, dev, dac, heard>>
  BY DEF device
<1>3. /\ outbound' \in Seq(Word) /\ down' \in Seq(Word)
      /\ \A f \in Epoch : \A k \in Nat : NoMore(f, k) => NoMore(f, k)'
      /\ \A i \in 1..Len(outbound') : outbound'[i] \in Word /\ Posted(outbound'[i])
  BY <1>2, MessageMoves
<1>4. ASSUME NEW f \in Epoch PROVE (StreamOK(f) /\ Ahead(f) /\ SettledOK(f))'
  BY <1>2, <1>3, AccountStays
<1>5. AccountsOK'
  BY <1>4 DEF AccountsOK
<1>6. OutboundOK'
  BY <1>3 DEF OutboundOK, Posted
<1>7. VoiceTypes'
  BY <1>1, <1>3 DEF VoiceInv, VoiceTypes, ProxyTypes
<1> QED BY <1>1, <1>5, <1>6, <1>7 DEF VoiceInv

\* What was sent of a stream is written into its account.
LEMMA MovedKeeps ==
  ASSUME VoiceInv, outbound # <<>>, outbound' = Tail(outbound),
         down' = Append(down, Head(outbound)),
         UNCHANGED <<epoch, response, settled, up, device, heard>>,
         NEW e \in Epoch, NEW s \in Account, streams[e].live,
         streams' = [streams EXCEPT ![e] = s],
         s.played = streams[e].played, s.produced = streams[e].produced,
         s.started = streams[e].started, s.done = streams[e].done,
         s.cleared = streams[e].cleared, s.acknowledged = streams[e].acknowledged,
         s.end_sent => s.done, s.clear_sent => s.cleared
  PROVE  VoiceInv'
<1>1. AudioInOrder' /\ DeviceOK' /\ ReportsOK' /\ DeviceTypes'
  BY ProxyAside DEF device
<1>2. UNCHANGED <<epoch, settled, dev, dac, heard>>
  BY DEF device
<1>3. /\ outbound' \in Seq(Word) /\ down' \in Seq(Word)
      /\ \A f \in Epoch : \A k \in Nat : NoMore(f, k) => NoMore(f, k)'
      /\ \A i \in 1..Len(outbound') : outbound'[i] \in Word /\ Posted(outbound'[i])
  BY <1>2, MessageMoves
<1>4. StreamOK(e)
  BY DEF VoiceInv, AccountsOK
<1>5. s.produced \in Nat /\ heard[e] \in Nat
  BY AccountFields, HeardTypes
<1>6. NoMore(e, s.produced)'
  BY <1>3, <1>4, <1>5 DEF StreamOK
<1>7. Dead(e) \/ NoMore(e, heard[e]) => (Dead(e) \/ NoMore(e, heard[e]))'
 <2>1. PICK c \in Nat : c = heard[e]
   BY <1>5
 <2>2. NoMore(e, c) => NoMore(e, c)'
   BY <1>3
 <2> QED BY <1>2, <2>1, <2>2 DEF Dead, NoMore, Within
<1>8. /\ AccountsOK' /\ streams' \in [Epoch -> Account \cup {None}] /\ streams'[e] = s /\ s.live
      /\ \A f \in Epoch \ {e} : streams'[f] = streams[f]
  BY <1>2, <1>3, <1>4, <1>6, <1>7, StreamKeeps DEF StreamOK
<1>9. OutboundOK'
  BY <1>2, <1>3, <1>8, OutboundFollows
<1>10. VoiceTypes'
  BY <1>1, <1>2, <1>3, <1>8 DEF VoiceInv, VoiceTypes, ProxyTypes
<1> QED BY <1>1, <1>8, <1>9, <1>10 DEF VoiceInv

LEMMA DeviceWriterKeeps == ASSUME VoiceInv, DeviceWriter PROVE VoiceInv'
<1> DEFINE m == Head(outbound)
           e == m.epoch
<1>1. /\ outbound # <<>> /\ outbound' = Tail(outbound)
      /\ WriteFrame(m) \/ WriteControl(m)
      /\ UNCHANGED <<epoch, response, settled, up, device, heard>>
  BY DEF DeviceWriter
<1>2. m \in Word /\ Posted(m)
 <2>1. outbound \in Seq(Word)
   BY DEF VoiceInv, VoiceTypes, ProxyTypes
 <2>2. m \in Word /\ m = outbound[1] /\ 1 \in 1..Len(outbound)
   BY <1>1, <2>1, TailKeeps
 <2> QED BY <2>2 DEF VoiceInv, OutboundOK, Posted
<1>3. e \in Epoch /\ m.type \in {"start", "clear", "end", "frame"}
  BY <1>2 DEF Word
<1> HIDE DEF m
<1>4. CASE UNCHANGED streams /\ (down' = down \/ down' = Append(down, m))
  BY <1>1, <1>4, MovedAside DEF m
<1>5. CASE WriteFrame(m) /\ ~Dropped(e)
 <2> DEFINE o == streams[e]
            s == [o EXCEPT !.sent = o.sent + 1]
 <2>1. streams' = [streams EXCEPT ![e] = s] /\ down' = Append(down, m)
  <3>1. streams \in [Epoch -> Account \cup {None}]
    BY DEF VoiceInv, VoiceTypes, ProxyTypes
  <3> QED BY <1>3, <1>5, <3>1 DEF WriteFrame, Send
 <2>2. o.live /\ o \in Account
   BY <1>3, <1>5, HeardTypes DEF Dropped
 <2>3. PICK n \in Nat : n = o.sent + 1
  <3>1. o.sent \in Nat
   <4> HIDE DEF o
   <4> QED BY <2>2, AccountFields
  <3> QED BY <3>1
 <2>4. s = [o EXCEPT !.sent = n]
   BY <2>3
 <2> HIDE DEF s
 <2>5. /\ s \in Account /\ s.played = o.played /\ s.produced = o.produced /\ s.started = o.started
       /\ s.done = o.done /\ s.cleared = o.cleared /\ s.acknowledged = o.acknowledged
       /\ s.end_sent = o.end_sent /\ s.clear_sent = o.clear_sent
  <3> HIDE DEF o
  <3> QED BY <2>2, <2>4, SentMade
 <2>6. (s.end_sent => s.done) /\ (s.clear_sent => s.cleared)
   BY <1>3, <2>2, <2>5 DEF VoiceInv, AccountsOK, StreamOK
 <2> QED BY <1>1, <1>3, <2>1, <2>2, <2>5, <2>6, MovedKeeps DEF m
<1>6. CASE WriteControl(m) /\ m.type = "clear" /\ streams[e].live
 <2> DEFINE o == streams[e]
            s == [o EXCEPT !.clear_sent = TRUE]
 <2>1. streams' = [streams EXCEPT ![e] = s] /\ down' = Append(down, m)
   BY <1>6 DEF WriteControl, Send
 <2>2. o.live /\ o \in Account /\ o.cleared
   BY <1>2, <1>3, <1>6, HeardTypes DEF Posted
 <2>3. /\ s \in Account /\ s.played = o.played /\ s.produced = o.produced /\ s.started = o.started
       /\ s.done = o.done /\ s.cleared = o.cleared /\ s.acknowledged = o.acknowledged
       /\ s.end_sent = o.end_sent
  <3> HIDE DEF o
  <3> QED BY <2>2, ClearMade
 <2> HIDE DEF s
 <2>4. (s.end_sent => s.done) /\ (s.clear_sent => s.cleared)
   BY <1>3, <2>2, <2>3 DEF VoiceInv, AccountsOK, StreamOK
 <2> QED BY <1>1, <1>3, <2>1, <2>2, <2>3, <2>4, MovedKeeps DEF m
<1>7. CASE WriteControl(m) /\ m.type = "end" /\ ~Dropped(e)
 <2> DEFINE o == streams[e]
            s == [o EXCEPT !.end_sent = TRUE]
 <2>1. streams' = [streams EXCEPT ![e] = s] /\ down' = Append(down, m)
   BY <1>7 DEF WriteControl, Send
 <2>2. o.live /\ o \in Account /\ o.done
   BY <1>2, <1>3, <1>7, HeardTypes DEF Posted, Dropped
 <2>3. /\ s \in Account /\ s.played = o.played /\ s.produced = o.produced /\ s.started = o.started
       /\ s.done = o.done /\ s.cleared = o.cleared /\ s.acknowledged = o.acknowledged
       /\ s.clear_sent = o.clear_sent
  <3> HIDE DEF o
  <3> QED BY <2>2, EndMade
 <2> HIDE DEF s
 <2>4. (s.end_sent => s.done) /\ (s.clear_sent => s.cleared)
   BY <1>3, <2>2, <2>3 DEF VoiceInv, AccountsOK, StreamOK
 <2> QED BY <1>1, <1>3, <2>1, <2>2, <2>3, <2>4, MovedKeeps DEF m
<1>8. CASE WriteControl(m) /\ m.type = "start"
  BY <1>4, <1>8 DEF WriteControl, Send
<1>9. CASE WriteControl(m) /\ ((m.type = "end" /\ Dropped(e)) \/ (m.type = "clear" /\ ~streams[e].live))
  BY <1>4, <1>9 DEF WriteControl
<1>10. CASE WriteFrame(m) /\ Dropped(e)
  BY <1>4, <1>10 DEF WriteFrame
<1>11. WriteControl(m) => m.type \in {"start", "clear", "end"}
  BY DEF WriteControl
<1> QED BY <1>1, <1>5, <1>6, <1>7, <1>8, <1>9, <1>10, <1>11

-------------------------------------------------------------------------------
\* What a report says of an answer is so, and an acknowledgment closes its account.
LEMMA DeviceReaderKeeps == ASSUME VoiceInv, DeviceReader PROVE VoiceInv'
<1>1. PICK m \in Told : m = Head(up) /\ Truthful(m)
 <2>1. up \in Seq(Told) /\ up # <<>>
   BY DEF VoiceInv, VoiceTypes, DeviceTypes, DeviceReader
 <2>2. Head(up) \in Told /\ Head(up) = up[1] /\ 1 \in 1..Len(up)
   BY <2>1, TailKeeps
 <2> QED BY <2>2 DEF VoiceInv, ReportsOK
<1>2. PICK e \in Epoch : e = m.epoch
  BY DEF Told
<1>3. m.played \in Nat /\ m.type \in {"progress", "cleared"}
  BY DEF Told
<1>4. /\ up # <<>> /\ up' = Tail(up)
      /\ UNCHANGED <<epoch, outbound, down, device, heard>>
      /\ \/ UNCHANGED <<streams, settled, response>>
         \/ streams[e].live /\ Acceptable(streams[e], m) /\ Accept(m)
  BY <1>1, <1>2 DEF DeviceReader, Refuse
<1>5. response \in [state : {"none", "requested", "current", "discarded"}, epoch : 0..MaxEpoch]
  BY DEF VoiceInv, VoiceTypes, ProxyTypes
<1>6. CASE UNCHANGED <<streams, settled, response>>
  BY <1>4, <1>5, <1>6, AsideKeeps
<1>7. CASE streams[e].live /\ Acceptable(streams[e], m) /\ Accept(m)
 <2>1. AudioInOrder' /\ DeviceOK' /\ ReportsOK' /\ DeviceTypes'
   BY <1>4, ProxyAside DEF device
 <2>2. UNCHANGED <<epoch, dev, dac, heard>>
   BY <1>4 DEF device
 <2>3. \A f \in Epoch : \A k : NoMore(f, k) <=> NoMore(f, k)'
   BY <1>4, <2>2, NoMoreSame
 <2> DEFINE o == streams[e]
 <2>4. o \in Account /\ heard[e] \in Nat /\ settled \in [Epoch -> Nat \cup {Open}]
   BY <1>7, HeardTypes DEF VoiceInv, VoiceTypes, ProxyTypes
 <2>5. response' \in [state : {"none", "requested", "current", "discarded"}, epoch : 0..MaxEpoch]
   BY <1>5, <1>7, MaybeTypes DEF Accept
 <2>6. StreamOK(e) /\ SettledOK(e)
   BY DEF VoiceInv, AccountsOK
 <2>7. CASE m.type = "progress"
  <3>1. PICK l \in Nat : l = m.played
    BY <1>3
  <3>2. PICK s : s = [o EXCEPT !.played = l, !.acknowledged = FALSE]
    OBVIOUS
  <3>3. streams' = [streams EXCEPT ![e] = s] /\ UNCHANGED settled
   <4>1. streams \in [Epoch -> Account \cup {None}]
     BY DEF VoiceInv, VoiceTypes, ProxyTypes
   <4>2. (m.type = "cleared") = FALSE
     BY <2>7
   <4> QED BY <1>2, <1>7, <2>7, <3>1, <3>2, <4>1, <4>2 DEF Accept
  <3>4. /\ s \in Account /\ s.played = m.played /\ ~s.acknowledged
        /\ s.produced = o.produced /\ s.started = o.started
        /\ s.end_sent = o.end_sent /\ s.done = o.done /\ s.cleared = o.cleared
        /\ s.clear_sent = o.clear_sent
   <4> HIDE DEF o
   <4>1. Counted(s, o, o.produced, l)
     BY <2>4, <3>2, PlayedMade, Zenon
   <4>2. s.acknowledged = FALSE
     BY <2>4, <3>2, PlayedMade, Zenon
   <4> QED BY <3>1, <4>1, <4>2 DEF Counted
  <3>5. s.played <= heard[e]
    BY <1>1, <1>2, <2>7, <3>4 DEF Truthful
  <3>6. NoMore(e, s.produced)'
   <4>1. PICK c \in Nat : c = s.produced
     BY <3>4, AccountFields
   <4>2. NoMore(e, c)'
     BY <1>7, <2>3, <2>6, <3>4, <4>1 DEF StreamOK
   <4>3. s.produced = c
     BY <4>1
   <4> QED BY <4>2, <4>3, Zenon
  <3>7. Dead(e) \/ NoMore(e, heard[e]) => (Dead(e) \/ NoMore(e, heard[e]))'
    BY <1>4, <2>2 DEF Dead, NoMore, Within
  <3>8. /\ AccountsOK' /\ streams' \in [Epoch -> Account \cup {None}] /\ streams'[e] = s /\ s.live
        /\ \A f \in Epoch \ {e} : streams'[f] = streams[f]
    BY <1>7, <2>2, <2>3, <2>6, <3>3, <3>4, <3>5, <3>6, <3>7, StreamKeeps DEF StreamOK
  <3>9. OutboundOK'
   <4>1. \A i \in 1..Len(outbound') : outbound'[i] \in Word /\ Posted(outbound'[i])
     BY <1>4 DEF VoiceInv, VoiceTypes, ProxyTypes, OutboundOK, Posted
   <4> QED BY <1>7, <2>2, <3>4, <3>8, <4>1, OutboundFollows
  <3>10. VoiceTypes'
    BY <1>4, <2>1, <2>2, <2>5, <3>3, <3>8 DEF VoiceInv, VoiceTypes, ProxyTypes
  <3> QED BY <2>1, <3>8, <3>9, <3>10 DEF VoiceInv
 <2>8. CASE m.type = "cleared"
  <3>1. PICK l \in Nat : l = m.played
    BY <1>3
  <3>2. PICK s : s = [o EXCEPT !.played = l, !.acknowledged = TRUE]
    OBVIOUS
  <3>3. streams' = [streams EXCEPT ![e] = s] /\ settled' = [settled EXCEPT ![e] = m.played]
   <4>1. streams \in [Epoch -> Account \cup {None}]
     BY DEF VoiceInv, VoiceTypes, ProxyTypes
   <4>2. (m.type = "cleared") = TRUE
     BY <2>8
   <4> QED BY <1>2, <1>7, <2>8, <3>1, <3>2, <4>1, <4>2 DEF Accept
  <3>4. /\ s \in Account /\ s.played = m.played
        /\ s.produced = o.produced /\ s.started = o.started
        /\ s.end_sent = o.end_sent /\ s.done = o.done /\ s.cleared = o.cleared
        /\ s.clear_sent = o.clear_sent
   <4> HIDE DEF o
   <4>1. Counted(s, o, o.produced, l)
     BY <2>4, <3>2, AcknowledgedMade, Zenon
   <4> QED BY <3>1, <4>1 DEF Counted
  <3>5. m.played = heard[e] /\ Dead(e) /\ o.clear_sent
    BY <1>1, <1>2, <1>7, <2>8 DEF Truthful, Acceptable
  <3>6. /\ streams' \in [Epoch -> Account \cup {None}] /\ streams'[e] = s
        /\ settled' \in [Epoch -> Nat \cup {Open}] /\ settled'[e] = heard[e]
        /\ \A f \in Epoch \ {e} : streams'[f] = streams[f] /\ settled'[f] = settled[f]
   <4>1. streams \in [Epoch -> Account \cup {None}]
     BY DEF VoiceInv, VoiceTypes, ProxyTypes
   <4> QED BY <1>3, <2>4, <3>3, <3>4, <3>5, <4>1
  <3>7. ASSUME NEW f \in Epoch, f # e PROVE (StreamOK(f) /\ Ahead(f) /\ SettledOK(f))'
    BY <2>2, <2>3, <3>6, <3>7, AccountStays
  <3>8. StreamOK(e)'
   <4>1. NoMore(e, streams[e].produced)'
    <5>1. PICK c \in Nat : c = o.produced
     <6> HIDE DEF o
     <6> QED BY <2>4, AccountFields
    <5>2. NoMore(e, c)'
      BY <1>7, <2>3, <2>6, <5>1 DEF StreamOK
    <5> QED BY <3>4, <3>6, <5>1, <5>2 DEF NoMore, Within
   <4>2. heard[e] <= heard[e] /\ heard[e] # Open
     BY <2>4 DEF Open
   <4> QED BY <1>7, <2>2, <2>6, <3>4, <3>5, <3>6, <4>1, <4>2 DEF StreamOK
  <3>9. Ahead(e)'
   <4>1. e <= epoch /\ e \in Nat /\ epoch \in Nat
     BY <1>7, <2>6, HeardTypes DEF StreamOK
   <4> QED BY <2>2, <4>1 DEF Ahead
  <3>10. SettledOK(e)'
   <4>1. s.cleared /\ Dead(e)'
     BY <1>7, <2>2, <2>6, <3>4, <3>5 DEF StreamOK, Dead
   <4> QED BY <2>2, <3>6, <4>1 DEF SettledOK
  <3>11. AccountsOK'
    BY <3>7, <3>8, <3>9, <3>10 DEF AccountsOK
  <3>12. OutboundOK'
   <4>1. \A i \in 1..Len(outbound') : outbound'[i] \in Word /\ Posted(outbound'[i])
     BY <1>4 DEF VoiceInv, VoiceTypes, ProxyTypes, OutboundOK, Posted
   <4> QED BY <1>7, <2>2, <3>4, <3>6, <4>1, OutboundFollows
  <3>13. VoiceTypes'
    BY <1>4, <2>1, <2>2, <2>5, <3>6 DEF VoiceInv, VoiceTypes, ProxyTypes
  <3> QED BY <2>1, <3>11, <3>12, <3>13 DEF VoiceInv
 <2> QED BY <1>3, <2>7, <2>8
<1> QED BY <1>4, <1>6, <1>7

-------------------------------------------------------------------------------
(***************************************************************************)
(* The invariant.                                                          *)
(***************************************************************************)

LEMMA InitVoice == Init => VoiceInv
<1> SUFFICES ASSUME Init PROVE VoiceInv
  OBVIOUS
<1>1. /\ streams = [e \in Epoch |-> None] /\ epoch = 0
      /\ response = [state |-> "none", epoch |-> 0]
      /\ outbound = <<>> /\ down = <<>> /\ up = <<>> /\ controls = <<>> /\ sample = 0
      /\ dev = [current |-> 0, last |-> 0, cleared |-> 0, ended |-> FALSE, expected |-> 0]
      /\ ws = [pc |-> "idle", epoch |-> 0, played |-> 0]
      /\ dac = [epoch |-> 0, played |-> 0, pending |-> 0, ring |-> <<>>,
                dma |-> [i \in 1..DmaBlocks |-> [epoch |-> 0, n |-> 0]]]
      /\ heard = [e \in Epoch |-> 0] /\ settled = [e \in Epoch |-> Open]
  BY DEF Init, Idle, Silence
<1>2. MaxEpoch \in Nat /\ 0 \in 0..MaxEpoch /\ Epoch \subseteq Nat /\ 0 \notin Epoch
  BY EpochNat
<1>3. ProxyTypes
  BY <1>1, <1>2 DEF ProxyTypes
<1>4. DeviceTypes
 <2>1. dev \in Dev /\ ws \in Ws
   BY <1>1, <1>2 DEF Dev, Ws
 <2>2. dac \in Dac
  <3>1. [i \in 1..DmaBlocks |-> [epoch |-> 0, n |-> 0]] \in [1..DmaBlocks -> Block]
    BY <1>2 DEF Block
  <3>2. <<>> \in Seq(Nat)
    OBVIOUS
  <3> QED BY <1>1, <1>2, <3>1, <3>2 DEF Dac
 <2>3. heard \in [Epoch -> Nat] /\ sample \in 0..MaxEpoch /\ up \in Seq(Told) /\ controls \in Seq(Told)
   BY <1>1, <1>2
 <2> QED BY <2>1, <2>2, <2>3 DEF DeviceTypes
<1>5. /\ dac.epoch = 0 /\ dac.played = 0 /\ dac.pending = 0 /\ dac.ring = <<>> /\ Len(dac.ring) = 0
      /\ \A i \in 1..DmaBlocks : dac.dma[i].n = 0
  BY <1>1
<1>6. AudioInOrder
  BY <1>5 DEF AudioInOrder
<1>7. DeviceOK
  BY <1>1, <1>5 DEF DeviceOK
<1>8. ReportsOK
  BY <1>1 DEF ReportsOK
<1>9. OutboundOK
  BY <1>1 DEF OutboundOK
<1>10. ASSUME NEW e \in Epoch PROVE StreamOK(e) /\ Ahead(e) /\ SettledOK(e)
 <2>1. ~streams[e].live /\ settled[e] = Open /\ heard[e] = 0
   BY <1>1 DEF None
 <2>2. NoMore(e, 0)
   BY <1>1, <1>2, <1>5, <2>1 DEF NoMore, Within
 <2> QED BY <2>1, <2>2 DEF StreamOK, Ahead, SettledOK
<1>11. AccountsOK
  BY <1>10 DEF AccountsOK
<1> QED BY <1>3, <1>4, <1>6, <1>7, <1>8, <1>9, <1>11 DEF VoiceInv, VoiceTypes

LEMMA NextKeeps == ASSUME VoiceInv, [Next]_vars PROVE VoiceInv'
<1>1. CASE Provider
  BY <1>1, SpeechStartedKeeps, TalkKeeps, ResponseAudioKeeps, ResponseDoneKeeps DEF Provider
<1>2. ASSUME NEW e \in Epoch, AudioWriter(e) PROVE VoiceInv'
  BY <1>2, AudioWriterKeeps
<1>3. CASE DeviceWriter
  BY <1>3, DeviceWriterKeeps
<1>4. CASE DeviceReader
  BY <1>4, DeviceReaderKeeps
<1>5. CASE WebSocket
  BY <1>5, WebSocketKeeps
<1>6. CASE Dma
  BY <1>6, DmaKeeps
<1>7. CASE Conversation
  BY <1>7, ConversationKeeps
<1>8. CASE UNCHANGED vars
 <2>1. /\ UNCHANGED <<streams, epoch, response, outbound, down, settled, heard, device, up>>
   BY <1>8 DEF vars, proxy, session
 <2>2. response' \in [state : {"none", "requested", "current", "discarded"}, epoch : 0..MaxEpoch]
   BY <2>1 DEF VoiceInv, VoiceTypes, ProxyTypes
 <2> QED BY <2>1, <2>2, AsideKeeps
<1> QED BY <1>1, <1>2, <1>3, <1>4, <1>5, <1>6, <1>7, <1>8 DEF Next

LEMMA VoiceHolds == Spec => []VoiceInv
<1>1. VoiceInv /\ [Next]_vars => VoiceInv'
  BY NextKeeps
<1> QED BY <1>1, InitVoice, PTL DEF Spec

\* What is left in the recorder is exactly what the proxy counts on, and the proxy
\* never believes that more of an answer was heard than left the speaker.
THEOREM AudioSafe == Spec => []AudioAccounted
<1>1. VoiceInv => AudioAccounted
 <2> SUFFICES ASSUME VoiceInv PROVE AudioAccounted
   OBVIOUS
 <2>1. ASSUME NEW e \in Epoch
       PROVE  /\ streams[e].live => streams[e].played <= heard[e]
              /\ settled[e] # Open => settled[e] = heard[e]
   BY DEF VoiceInv, AccountsOK, StreamOK, SettledOK
 <2>2. HeardIsHeard
   BY <2>1 DEF HeardIsHeard
 <2> QED BY <2>2 DEF VoiceInv, AudioAccounted
<1> QED BY <1>1, VoiceHolds, PTL

-------------------------------------------------------------------------------
(***************************************************************************)
(* PlaybackLedger.                                                         *)
(***************************************************************************)

\* An account that is closed, or that the next step of the proxy closes, stands where
\* the speaker stopped.
LEMMA PositionRight ==
  ASSUME VoiceInv, NEW e \in Epoch, Position(e) # Open
  PROVE  Position(e) = heard[e] /\ (Dead(e) \/ NoMore(e, heard[e]))
<1>1. CASE settled[e] = Open /\ streams[e].live /\ Finished(streams[e])
  BY <1>1, FinishedHeard DEF Position
<1>2. CASE ~(settled[e] = Open /\ streams[e].live /\ Finished(streams[e]))
 <2>1. Position(e) = settled[e] /\ settled[e] # Open
   BY <1>2 DEF Position
 <2> QED BY <2>1 DEF VoiceInv, AccountsOK, SettledOK
<1> QED BY <1>1, <1>2

LEMMA PositionsRight == VoiceInv => Positions
BY PositionRight DEF Positions

LEMMA FinishedStays ==
  ASSUME VoiceInv, VoiceInv', NEW e \in Epoch, Position(e) # Open, settled'[e] = settled[e],
         streams[e].live /\ Finished(streams[e]) =>
           streams'[e].live /\ Finished(streams'[e])
  PROVE  Position(e)' # Open
<1>1. CASE settled[e] # Open
  BY <1>1 DEF Position
<1>2. CASE settled[e] = Open
 <2>1. streams'[e].live /\ Finished(streams'[e])
   BY <1>2 DEF Position
 <2>2. streams'[e].played \in Nat
  <3>1. streams'[e] \in Account \cup {None}
    BY DEF VoiceInv, VoiceTypes, ProxyTypes
  <3>2. None.live = FALSE
    BY DEF None
  <3>3. streams'[e] \in Account
    BY <2>1, <3>1, <3>2, Zenon
  <3> QED BY <3>3, AccountFields
 <2>3. Position(e)' = streams'[e].played
   BY <1>2, <2>1 DEF Position
 <2> QED BY <2>2, <2>3 DEF Open
<1> QED BY <1>1, <1>2

LEMMA RetiredStays ==
  ASSUME VoiceInv, NEW e \in Epoch, Position(e) # Open, settled'[e] = Settle(e)
  PROVE  Position(e)' # Open
<1>1. settled[e] = Open => Closed(e)
  BY DEF Position, Closed
<1>2. Settle(e) # Open
  BY <1>1, RetiredRight
<1> QED BY <1>2 DEF Position

LEMMA SameAccounts == ASSUME UNCHANGED <<streams, settled>> PROVE PositionsStay
BY DEF PositionsStay, Position

LEMMA ProviderStays == ASSUME VoiceInv, VoiceInv', Provider PROVE PositionsStay
<1>1. CASE SpeechStopped \/ InputCommitted \/ ResponseStarted
  BY <1>1, SameAccounts DEF SpeechStopped, InputCommitted, ResponseStarted, session
<1>2. CASE SpeechStarted
 <2> DEFINE open == {e \in Epoch : /\ Kept[e].live
                                   /\ ~Kept[e].cleared /\ ~Kept[e].acknowledged}
 <2>1. settled' = [e \in Epoch |-> IF e \in open /\ ~Kept[e].started THEN 0 ELSE Settle(e)]
   BY <1>2 DEF SpeechStarted
 <2> HIDE DEF open
 <2>2. ASSUME NEW e \in Epoch, Position(e) # Open PROVE Position(e)' # Open
  <3>1. settled'[e] = 0 \/ settled'[e] = Settle(e)
    BY <2>1
  <3>2. CASE settled'[e] = 0
    BY <3>2 DEF Position, Open
  <3>3. CASE settled'[e] = Settle(e)
    BY <2>2, <3>3, RetiredStays
  <3> QED BY <3>1, <3>2, <3>3
 <2> QED BY <2>2 DEF PositionsStay
<1>3. CASE ResponseAudio
 <2>1. CASE MoreAudio(response.epoch) /\ response.epoch # 0 /\ streams[response.epoch].live
  <3> DEFINE r == response.epoch
  <3>1. /\ streams' = [streams EXCEPT ![r] = [streams[r] EXCEPT !.queued = streams[r].queued + 1]]
        /\ settled' = settled
    BY <2>1 DEF MoreAudio
  <3> HIDE DEF r
  <3>2. ASSUME NEW e \in Epoch, streams[e].live /\ Finished(streams[e])
        PROVE  streams'[e].live /\ Finished(streams'[e])
   <4>1. streams \in [Epoch -> Account \cup {None}] /\ streams[e] \in Account
     BY <3>2, HeardTypes DEF VoiceInv, VoiceTypes, ProxyTypes
   <4>2. CASE e # r
     BY <3>1, <3>2, <4>1, <4>2
   <4>3. CASE e = r
    <5>1. PICK o \in Account : o = streams[e]
      BY <4>1
    <5>2. o.queued \in Nat
      BY AccountFields
    <5>3. PICK q \in Nat : q = o.queued + 1
      BY <5>2
    <5>4. PICK s : s = [o EXCEPT !.queued = q]
      OBVIOUS
    <5>5. streams'[e] = s
      BY <3>1, <4>1, <4>3, <5>1, <5>3, <5>4
    <5>6. /\ s \in Account /\ s.end_sent = o.end_sent /\ s.played = o.played
          /\ s.produced = o.produced /\ s.cleared = o.cleared
      BY <5>4, QueuedMade
    <5>7. s.live
      BY <5>6, AccountFields
    <5> QED BY <3>2, <5>1, <5>5, <5>6, <5>7 DEF Finished
   <4> QED BY <4>2, <4>3
  <3> QED BY <3>1, <3>2, FinishedStays DEF PositionsStay
 <2>2. CASE OpenStream
  <3>1. settled' = [e \in Epoch |-> Settle(e)]
    BY <2>2 DEF OpenStream
  <3> QED BY <3>1, RetiredStays DEF PositionsStay
 <2> QED BY <1>3, <2>1, <2>2 DEF ResponseAudio
<1>4. CASE ResponseDone
 <2>1. /\ streams' = [f \in Epoch |->
            IF f = response.epoch /\ streams[f].live /\ ~streams[f].cleared
            THEN [streams[f] EXCEPT !.generated = TRUE] ELSE streams[f]]
       /\ settled' = settled
   BY <1>4 DEF ResponseDone, session
 <2>2. ASSUME NEW e \in Epoch, streams[e].live /\ Finished(streams[e])
       PROVE  streams'[e].live /\ Finished(streams'[e])
  <3>1. PICK o \in Account : o = streams[e]
    BY <2>2, HeardTypes
  <3>2. CASE streams'[e] = o
    BY <2>2, <3>1, <3>2
  <3>3. CASE streams'[e] = [o EXCEPT !.generated = TRUE]
   <4>1. PICK s : s = [o EXCEPT !.generated = TRUE]
     OBVIOUS
   <4>2. /\ s \in Account /\ s.end_sent = o.end_sent /\ s.played = o.played
         /\ s.produced = o.produced /\ s.cleared = o.cleared
     BY <4>1, GeneratedMade
   <4>3. s.live
     BY <4>2, AccountFields
   <4> QED BY <2>2, <3>1, <3>3, <4>1, <4>2, <4>3 DEF Finished
  <3> QED BY <2>1, <3>1, <3>2, <3>3
 <2> QED BY <2>1, <2>2, FinishedStays DEF PositionsStay
<1> QED BY <1>1, <1>2, <1>3, <1>4 DEF Provider

LEMMA WriterStays ==
  ASSUME VoiceInv, VoiceInv', NEW e \in Epoch, AudioWriter(e)
  PROVE  PositionsStay
<1>1. /\ streams[e].live /\ ~streams[e].done /\ settled' = settled
      /\ \E s : streams' = [streams EXCEPT ![e] = s]
  BY DEF AudioWriter, MayWrite, session
<1>2. streams \in [Epoch -> Account \cup {None}]
  BY DEF VoiceInv, VoiceTypes, ProxyTypes
<1>3. ASSUME NEW f \in Epoch, streams[f].live /\ Finished(streams[f])
      PROVE  streams'[f].live /\ Finished(streams'[f])
 <2>1. f # e
   BY <1>1, <1>3, FinishedHeard
 <2> QED BY <1>1, <1>2, <1>3, <2>1
<1> QED BY <1>1, <1>3, FinishedStays DEF PositionsStay

LEMMA DeviceWriterStays == ASSUME VoiceInv, VoiceInv', DeviceWriter PROVE PositionsStay
<1> DEFINE m == Head(outbound)
           e == m.epoch
<1>1. settled' = settled /\ (WriteFrame(m) \/ WriteControl(m))
  BY DEF DeviceWriter
<1>2. streams \in [Epoch -> Account \cup {None}]
  BY DEF VoiceInv, VoiceTypes, ProxyTypes
<1> HIDE DEF m
<1>3. \/ streams' = streams
      \/ streams' = [streams EXCEPT ![e] = [streams[e] EXCEPT !.sent = streams[e].sent + 1]]
      \/ streams' = [streams EXCEPT ![e] = [streams[e] EXCEPT !.clear_sent = TRUE]]
      \/ streams' = [streams EXCEPT ![e] = [streams[e] EXCEPT !.end_sent = TRUE]]
 <2>1. CASE WriteFrame(m)
   BY <2>1 DEF WriteFrame
 <2>2. CASE WriteControl(m)
   BY <2>2 DEF WriteControl
 <2> QED BY <1>1, <2>1, <2>2
<1> HIDE DEF e
<1>4. ASSUME NEW f \in Epoch, streams[f].live /\ Finished(streams[f])
      PROVE  streams'[f].live /\ Finished(streams'[f])
 <2>1. PICK o \in Account : o = streams[f]
   BY <1>4, HeardTypes
 <2>2. CASE streams'[f] = o
   BY <1>4, <2>1, <2>2
 <2>3. CASE streams'[f] = [o EXCEPT !.sent = o.sent + 1]
  <3>1. o.sent \in Nat
    BY AccountFields
  <3>2. PICK n \in Nat : n = o.sent + 1
    BY <3>1
  <3>3. PICK s : s = [o EXCEPT !.sent = n]
    OBVIOUS
  <3>4. /\ s \in Account /\ s.end_sent = o.end_sent /\ s.played = o.played
        /\ s.produced = o.produced /\ s.cleared = o.cleared
    BY <3>3, SentMade
  <3>5. s.live /\ streams'[f] = s
    BY <2>3, <3>2, <3>3, <3>4, AccountFields
  <3> QED BY <1>4, <2>1, <3>4, <3>5 DEF Finished
 <2>4. CASE streams'[f] = [o EXCEPT !.clear_sent = TRUE]
  <3>1. PICK s : s = [o EXCEPT !.clear_sent = TRUE]
    OBVIOUS
  <3>2. /\ s \in Account /\ s.end_sent = o.end_sent /\ s.played = o.played
        /\ s.produced = o.produced /\ s.cleared = o.cleared
    BY <3>1, ClearMade
  <3>3. s.live /\ streams'[f] = s
    BY <2>4, <3>1, <3>2, AccountFields
  <3> QED BY <1>4, <2>1, <3>2, <3>3 DEF Finished
 <2>5. CASE streams'[f] = [o EXCEPT !.end_sent = TRUE]
  <3>1. PICK s : s = [o EXCEPT !.end_sent = TRUE]
    OBVIOUS
  <3>2. /\ s \in Account /\ s.end_sent = TRUE /\ s.played = o.played
        /\ s.produced = o.produced /\ s.cleared = o.cleared
    BY <3>1, EndMade
  <3>3. s.live /\ streams'[f] = s
    BY <2>5, <3>1, <3>2, AccountFields
  <3> QED BY <1>4, <2>1, <3>2, <3>3 DEF Finished
 <2>6. CASE f # e
   BY <1>2, <1>3, <2>1, <2>2, <2>6
 <2>7. CASE f = e
   BY <1>2, <1>3, <2>1, <2>2, <2>3, <2>4, <2>5, <2>7
 <2> QED BY <2>6, <2>7
<1> QED BY <1>1, <1>4, FinishedStays DEF PositionsStay

LEMMA DeviceReaderStays == ASSUME VoiceInv, VoiceInv', DeviceReader PROVE PositionsStay
<1>1. PICK m \in Told : m = Head(up) /\ Truthful(m)
 <2>1. up \in Seq(Told) /\ up # <<>>
   BY DEF VoiceInv, VoiceTypes, DeviceTypes, DeviceReader
 <2>2. Head(up) \in Told /\ Head(up) = up[1] /\ 1 \in 1..Len(up)
   BY <2>1, TailKeeps
 <2> QED BY <2>2 DEF VoiceInv, ReportsOK
<1>2. PICK e \in Epoch : e = m.epoch
  BY DEF Told
<1>3. PICK l \in Nat : l = m.played
  BY DEF Told
<1>4. m.type \in {"progress", "cleared"}
  BY DEF Told
<1>5. \/ UNCHANGED <<streams, settled>>
      \/ streams[e].live /\ Acceptable(streams[e], m) /\ Accept(m)
  BY <1>1, <1>2 DEF DeviceReader, Refuse
<1>6. streams \in [Epoch -> Account \cup {None}] /\ settled \in [Epoch -> Nat \cup {Open}]
  BY DEF VoiceInv, VoiceTypes, ProxyTypes
<1>7. CASE UNCHANGED <<streams, settled>>
  BY <1>7, SameAccounts
<1>8. CASE streams[e].live /\ Acceptable(streams[e], m) /\ Accept(m) /\ m.type = "progress"
 <2>1. /\ streams' = [streams EXCEPT ![e] = [streams[e] EXCEPT !.played = l, !.acknowledged = FALSE]]
       /\ settled' = settled
  <3>1. (m.type = "cleared") = FALSE
    BY <1>8
  <3> QED BY <1>2, <1>3, <1>6, <1>8, <3>1 DEF Accept
 <2>2. ASSUME NEW f \in Epoch, streams[f].live /\ Finished(streams[f])
       PROVE  streams'[f].live /\ Finished(streams'[f])
  <3>1. CASE f # e
    BY <1>6, <2>1, <2>2, <3>1
  <3>2. CASE f = e
   <4>1. PICK o \in Account : o = streams[e]
     BY <1>8, HeardTypes
   <4>2. PICK s : s = [o EXCEPT !.played = l, !.acknowledged = FALSE]
     OBVIOUS
   <4>3. streams'[e] = s
     BY <1>6, <2>1, <4>1, <4>2
   <4>4. Counted(s, o, o.produced, l)
     BY <4>2, PlayedMade, Zenon
   <4>5. s.live
     BY <4>4, AccountFields DEF Counted
   <4>6. l = o.played
    <5>1. l <= heard[e] /\ o.played = heard[e]
      BY <1>1, <1>2, <1>3, <1>8, <2>2, <3>2, <4>1, FinishedHeard DEF Truthful
    <5>2. o.played <= l /\ o.played \in Nat /\ heard[e] \in Nat
      BY <1>3, <1>8, <4>1, AccountFields, HeardTypes DEF Acceptable
    <5> QED BY <5>1, <5>2
   <4> QED BY <2>2, <3>2, <4>1, <4>3, <4>4, <4>5, <4>6 DEF Counted, Finished
  <3> QED BY <3>1, <3>2
 <2> QED BY <2>1, <2>2, FinishedStays DEF PositionsStay
<1>9. CASE streams[e].live /\ Acceptable(streams[e], m) /\ Accept(m) /\ m.type = "cleared"
 <2>1. settled' = [settled EXCEPT ![e] = l]
   BY <1>2, <1>3, <1>9 DEF Accept
 <2>2. ASSUME NEW f \in Epoch, Position(f) # Open PROVE Position(f)' # Open
  <3>1. CASE f = e
   <4>1. settled'[e] # Open
     BY <1>6, <2>1 DEF Open
   <4> QED BY <3>1, <4>1 DEF Position
  <3>2. CASE f # e
   <4>1. settled'[f] = settled[f] /\ streams'[f] = streams[f]
     BY <1>2, <1>6, <1>9, <2>1, <3>2 DEF Accept
   <4> QED BY <2>2, <4>1 DEF Position
  <3> QED BY <3>1, <3>2
 <2> QED BY <2>2 DEF PositionsStay
<1> QED BY <1>4, <1>5, <1>7, <1>8, <1>9

\* Such a step closes accounts of the ledger, or none.
LEMMA StayCloses ==
  ASSUME Positions, Positions', UNCHANGED heard, PositionsStay
  PROVE  Ledger!Next
<1> DEFINE E == {e \in Epoch : Position(e) = Open /\ Position(e)' # Open}
           ledger == [e \in Epoch |-> Position(e)]
<1>1. E \in SUBSET Epoch /\ \A e \in E : ledger[e] = Open
  OBVIOUS
<1>2. ASSUME NEW e \in Epoch
      PROVE  Position(e)' = IF e \in E THEN heard[e] ELSE ledger[e]
 <2>1. Position(e)' # Open => Position(e)' = heard[e]
   BY DEF Positions
 <2>2. Position(e) # Open => Position(e) = heard[e] /\ Position(e)' # Open
   BY DEF Positions, PositionsStay
 <2>3. ledger[e] = Position(e) /\ (e \in E <=> Position(e) = Open /\ Position(e)' # Open)
   OBVIOUS
 <2> HIDE DEF E, ledger
 <2> QED BY <2>1, <2>2, <2>3
<1>3. Ledger!Close(E)
  BY <1>1, <1>2 DEF Ledger!Close
<1> QED BY <1>1, <1>3 DEF Ledger!Next

\* A frame that leaves the speaker is one of an account that is open.
LEMMA DmaPlays == ASSUME VoiceInv, VoiceInv', Dma PROVE [Ledger!Next]_<<heard, [e \in Epoch |-> Position(e)]>>
<1> DEFINE b == dac.dma[1]
<1>1. /\ dac.epoch \in Epoch /\ ws.pc = "idle" /\ dac.pending >= 1
      /\ heard' = IF b.n # 0 THEN [heard EXCEPT ![dac.epoch] = @ + 1] ELSE heard
      /\ UNCHANGED <<streams, settled, dev>>
  BY DmaFacts DEF proxy
<1>2. \A e \in Epoch : Position(e)' = Position(e)
  BY <1>1 DEF Position
<1>3. CASE b.n = 0
  BY <1>1, <1>2, <1>3
<1>4. CASE b.n # 0
 <2>1. PICK c \in Epoch : c = dac.epoch
   BY <1>1
 <2>2. Position(c) = Open
  <3> SUFFICES ASSUME Position(c) # Open PROVE FALSE
    OBVIOUS
  <3>1. NoMore(c, heard[c])
    BY <2>1, PositionRight DEF Dead
  <3>2. heard[c] = dac.played
    BY <2>1, EpochNat DEF VoiceInv, DeviceOK
  <3>3. dac.played \in Nat /\ dac.pending \in Nat
    BY DEF VoiceInv, VoiceTypes, DeviceTypes, Dac
  <3> QED BY <1>1, <2>1, <3>1, <3>2, <3>3 DEF NoMore
 <2>3. \A f \in Epoch : f > c => heard[f] = 0
   BY <1>1, <2>1, EpochNat DEF VoiceInv, DeviceOK
 <2>4. heard' = [heard EXCEPT ![c] = @ + 1]
   BY <1>1, <1>4, <2>1
 <2>5. Ledger!Play(c)
   BY <1>2, <2>2, <2>3, <2>4 DEF Ledger!Play
 <2> QED BY <2>5 DEF Ledger!Next
<1> QED BY <1>3, <1>4

\* The answers are heard one after the other, and the proxy closes the account of
\* each exactly where the speaker stopped.
THEOREM LedgerSafe == Spec => LedgerSpec
<1>1. Init => Ledger!Init
 <2> SUFFICES ASSUME Init PROVE Ledger!Init
   OBVIOUS
 <2>1. \A e \in Epoch : Position(e) = Open
   BY DEF Init, Position, None
 <2> QED BY <2>1 DEF Init, Ledger!Init
<1>2. VoiceInv /\ VoiceInv' /\ Positions /\ Positions' /\ [Next]_vars => [Ledger!Next]_<<heard, [e \in Epoch |-> Position(e)]>>
 <2> SUFFICES ASSUME VoiceInv, VoiceInv', Positions, Positions', [Next]_vars
              PROVE  [Ledger!Next]_<<heard, [e \in Epoch |-> Position(e)]>>
   OBVIOUS
 <2>1. CASE Provider
  <3>1. UNCHANGED heard
    BY <2>1 DEF Provider, SpeechStarted, SpeechStopped, InputCommitted, ResponseStarted,
                ResponseAudio, ResponseDone, session
  <3> QED BY <2>1, <3>1, ProviderStays, StayCloses
 <2>2. ASSUME NEW e \in Epoch, AudioWriter(e) PROVE Ledger!Next
  <3>1. UNCHANGED heard
    BY <2>2 DEF AudioWriter, session
  <3> QED BY <2>2, <3>1, WriterStays, StayCloses
 <2>3. CASE DeviceWriter
  <3>1. UNCHANGED heard
    BY <2>3 DEF DeviceWriter
  <3> QED BY <2>3, <3>1, DeviceWriterStays, StayCloses
 <2>4. CASE DeviceReader
  <3>1. UNCHANGED heard
    BY <2>4 DEF DeviceReader
  <3> QED BY <2>4, <3>1, DeviceReaderStays, StayCloses
 <2>5. CASE Dma
   BY <2>5, DmaPlays
 <2>6. CASE WebSocket \/ Conversation \/ UNCHANGED vars
  <3>1. UNCHANGED <<heard, streams, settled>>
    BY <2>6 DEF WebSocket, WsStart, WsOpen, WsPublish, WsClear, WsCleared, WsEnd, WsFrame,
                Conversation, ConvControl, ConvSample, ConvReport, vars, proxy, session
  <3> QED BY <3>1, SameAccounts, StayCloses
 <2> QED BY <2>1, <2>2, <2>3, <2>4, <2>5, <2>6 DEF Next
<1> QED BY <1>1, <1>2, VoiceHolds, PositionsRight, PTL DEF Spec, LedgerSpec, Ledger!Spec

-------------------------------------------------------------------------------
(***************************************************************************)
(* Why neither end breaks the session.                                     *)
(***************************************************************************)

LEMMA WireTypes ==
  ASSUME VoiceInv
  PROVE  /\ down \in Seq(Word) /\ outbound \in Seq(Word) /\ Wire \in Seq(Word)
         /\ Len(down) \in Nat /\ Len(outbound) \in Nat
         /\ Len(Wire) = Len(down) + Len(outbound)
         /\ \A i \in 1..Len(down) : Wire[i] = down[i]
         /\ \A i \in 1..Len(outbound) : Wire[Len(down) + i] = outbound[i]
<1>1. down \in Seq(Word) /\ outbound \in Seq(Word)
  BY DEF VoiceInv, VoiceTypes, ProxyTypes
<1> QED BY <1>1 DEF Wire

LEMMA WordTypes ==
  ASSUME NEW m \in Word
  PROVE  /\ m.epoch \in Epoch /\ m.epoch \in Nat /\ m.type \in {"start", "clear", "end", "frame"}
         /\ m.type = "frame" => m.n \in Nat /\ m.n >= 1 /\ m = Frame(m.epoch, m.n)
         /\ m.type = "start" => m = Start(m.epoch)
         /\ m.type = "clear" => m = Clear(m.epoch)
         /\ m.type = "end" => m = End(m.epoch)
BY EpochNat DEF Word, Frame, Start, Clear, End

LEMMA WordAt ==
  ASSUME VoiceInv, NEW i \in 1..Len(Wire)
  PROVE  /\ Wire[i] \in Word /\ Wire[i].epoch \in Epoch /\ Wire[i].epoch \in Nat
         /\ Wire[i].type \in {"start", "clear", "end", "frame"}
         /\ Wire[i].type = "frame" => Wire[i].n \in Nat /\ Wire[i].n >= 1
         /\ Wire[i].type = "start" => Wire[i] = Start(Wire[i].epoch)
         /\ Wire[i].type = "clear" => Wire[i] = Clear(Wire[i].epoch)
<1>1. Wire[i] \in Word
  BY WireTypes
<1> QED BY <1>1, WordTypes

LEMMA WireTypesNext ==
  ASSUME VoiceInv'
  PROVE  /\ Wire' \in Seq(Word) /\ Len(Wire') = Len(down') + Len(outbound')
         /\ \A i \in 1..Len(down') : Wire'[i] = down'[i]
         /\ \A i \in 1..Len(outbound') : Wire'[Len(down') + i] = outbound'[i]
<1>1. down' \in Seq(Word) /\ outbound' \in Seq(Word)
  BY DEF VoiceInv, VoiceTypes, ProxyTypes
<1> QED BY <1>1 DEF Wire

LEMMA WireTaken ==
  ASSUME VoiceInv, VoiceInv', down # <<>>, down' = Tail(down), outbound' = outbound
  PROVE  /\ Removed(1) /\ Head(down) = Wire[1] /\ 1 \in 1..Len(Wire)
         /\ \A i \in 1..Len(Wire') : Wire'[i] = Wire[i + 1] /\ i + 1 \in 1..Len(Wire)
<1>1. /\ Head(down) = down[1] /\ 1 \in 1..Len(down) /\ Len(down') = Len(down) - 1
      /\ \A i \in 1..Len(down') : i + 1 \in 1..Len(down) /\ down'[i] = down[i + 1]
  BY WireTypes, TailKeeps
<1> DEFINE d == Len(down)
           n == Len(outbound)
<1>2. /\ d \in Nat /\ n \in Nat /\ d >= 1 /\ Len(Wire) = d + n /\ Len(Wire') = d - 1 + n
      /\ \A i \in 1..d : Wire[i] = down[i]
      /\ \A i \in 1..n : Wire[d + i] = outbound[i]
      /\ \A i \in 1..(d - 1) : Wire'[i] = down'[i]
      /\ \A i \in 1..n : Wire'[d - 1 + i] = outbound[i]
 <2>1. Len(down') = d - 1 /\ Len(outbound') = n
   BY <1>1
 <2>2. /\ Len(Wire') = Len(down') + Len(outbound')
       /\ \A i \in 1..Len(down') : Wire'[i] = down'[i]
       /\ \A i \in 1..Len(outbound') : Wire'[Len(down') + i] = outbound'[i]
   BY WireTypesNext
 <2> QED BY <1>1, <2>1, <2>2, WireTypes
<1>3. ASSUME NEW i \in 1..Len(Wire')
      PROVE  Wire'[i] = Wire[i + 1] /\ i + 1 \in 1..Len(Wire)
 <2> HIDE DEF d, n
 <2>1. CASE i <= d - 1
  <3>1. i \in 1..(d - 1) /\ i + 1 \in 1..d /\ i + 1 \in 1..Len(Wire)
    BY <1>2, <2>1
  <3>2. down'[i] = down[i + 1]
    BY <1>1, <3>1 DEF d
  <3> QED BY <1>2, <3>1, <3>2
 <2>2. CASE i > d - 1
  <3> DEFINE j == i - (d - 1)
  <3>1. j \in 1..n /\ i = d - 1 + j /\ i + 1 = d + j /\ i + 1 \in 1..Len(Wire)
    BY <1>2, <2>2
  <3> HIDE DEF j
  <3> QED BY <1>2, <3>1
 <2> QED BY <1>2, <2>1, <2>2
<1>4. Head(down) = Wire[1] /\ 1 \in 1..Len(Wire) /\ Len(Wire') = Len(Wire) - 1
  BY <1>1, <1>2
<1> QED BY <1>3, <1>4 DEF Removed

LEMMA WireMoved ==
  ASSUME VoiceInv, VoiceInv', outbound # <<>>, down' = Append(down, Head(outbound)),
         outbound' = Tail(outbound)
  PROVE  /\ Len(Wire') = Len(Wire) /\ \A i \in 1..Len(Wire) : Wire'[i] = Wire[i]
         /\ Len(down) + 1 \in 1..Len(Wire) /\ Wire[Len(down) + 1] = Head(outbound)
<1> DEFINE d == Len(down)
           n == Len(outbound)
<1>1. /\ Head(outbound) \in Word /\ Head(outbound) = outbound[1] /\ 1 \in 1..n
      /\ Len(outbound') = n - 1
      /\ \A i \in 1..Len(outbound') : i + 1 \in 1..n /\ outbound'[i] = outbound[i + 1]
  BY WireTypes, TailKeeps
<1>2. /\ Len(down') = d + 1 /\ \A i \in 1..d : down'[i] = down[i]
      /\ down'[d + 1] = Head(outbound)
  BY <1>1, WireTypes, AppendKeeps
<1>3. /\ d \in Nat /\ n \in Nat /\ n >= 1 /\ Len(Wire) = d + n /\ Len(Wire') = d + 1 + (n - 1)
      /\ \A i \in 1..d : Wire[i] = down[i]
      /\ \A i \in 1..n : Wire[d + i] = outbound[i]
      /\ \A i \in 1..(d + 1) : Wire'[i] = down'[i]
      /\ \A i \in 1..(n - 1) : Wire'[d + 1 + i] = outbound'[i]
 <2>1. /\ Len(Wire') = Len(down') + Len(outbound')
       /\ \A i \in 1..Len(down') : Wire'[i] = down'[i]
       /\ \A i \in 1..Len(outbound') : Wire'[Len(down') + i] = outbound'[i]
   BY WireTypesNext
 <2> QED BY <1>1, <1>2, <2>1, WireTypes
<1>4. ASSUME NEW i \in 1..Len(Wire) PROVE Wire'[i] = Wire[i]
 <2> HIDE DEF d, n
 <2>1. CASE i <= d
  <3>1. i \in 1..d /\ i \in 1..(d + 1)
    BY <1>3, <2>1
  <3> QED BY <1>2, <1>3, <3>1 DEF d
 <2>2. CASE i = d + 1
  <3>1. d + 1 \in 1..(d + 1) /\ 1 \in 1..n
    BY <1>3
  <3>2. Wire'[i] = down'[d + 1] /\ Wire[i] = outbound[1]
    BY <1>3, <2>2, <3>1
  <3> QED BY <1>1, <1>2, <3>2 DEF d
 <2>3. CASE i > d + 1
  <3> DEFINE j == i - (d + 1)
  <3>1. j \in 1..(n - 1) /\ j + 1 \in 1..n /\ i = d + 1 + j /\ i = d + (j + 1)
    BY <1>3, <2>3
  <3> HIDE DEF j
  <3>2. Wire'[i] = outbound'[j] /\ Wire[i] = outbound[j + 1]
    BY <1>3, <3>1
  <3>3. outbound'[j] = outbound[j + 1]
    BY <1>1, <3>1 DEF n
  <3> QED BY <3>2, <3>3
 <2> QED BY <1>3, <2>1, <2>2, <2>3
<1>5. Len(Wire') = Len(Wire) /\ d + 1 \in 1..Len(Wire) /\ Wire[d + 1] = Head(outbound)
  BY <1>1, <1>3
<1> QED BY <1>4, <1>5

LEMMA WireDropped ==
  ASSUME VoiceInv, VoiceInv', outbound # <<>>, down' = down, outbound' = Tail(outbound)
  PROVE  Removed(Len(down) + 1) /\ Wire[Len(down) + 1] = Head(outbound)
<1> DEFINE d == Len(down)
           n == Len(outbound)
<1>1. /\ Head(outbound) = outbound[1] /\ 1 \in 1..n /\ Len(outbound') = n - 1
      /\ \A i \in 1..Len(outbound') : i + 1 \in 1..n /\ outbound'[i] = outbound[i + 1]
  BY WireTypes, TailKeeps
<1>3. /\ d \in Nat /\ n \in Nat /\ n >= 1 /\ Len(Wire) = d + n /\ Len(Wire') = d + (n - 1)
      /\ \A i \in 1..d : Wire[i] = down[i] /\ Wire'[i] = down[i]
      /\ \A i \in 1..n : Wire[d + i] = outbound[i]
      /\ \A i \in 1..(n - 1) : Wire'[d + i] = outbound'[i]
 <2>1. /\ Len(Wire') = Len(down') + Len(outbound')
       /\ \A i \in 1..Len(down') : Wire'[i] = down'[i]
       /\ \A i \in 1..Len(outbound') : Wire'[Len(down') + i] = outbound'[i]
   BY WireTypesNext
 <2> QED BY <1>1, <2>1, WireTypes
<1>4. ASSUME NEW i \in 1..Len(Wire') PROVE Wire'[i] = Wire[IF i < d + 1 THEN i ELSE i + 1]
 <2> HIDE DEF d, n
 <2>1. CASE i < d + 1
  <3>1. i \in 1..d
    BY <1>3, <2>1
  <3> QED BY <1>3, <2>1, <3>1
 <2>2. CASE i >= d + 1
  <3> DEFINE j == i - d
  <3>1. j \in 1..(n - 1) /\ j + 1 \in 1..n /\ i = d + j /\ i + 1 = d + (j + 1)
    BY <1>3, <2>2
  <3> HIDE DEF j
  <3>2. Wire'[i] = outbound'[j] /\ Wire[i + 1] = outbound[j + 1]
    BY <1>3, <3>1
  <3>3. outbound'[j] = outbound[j + 1]
    BY <1>1, <3>1 DEF n
  <3>4. ~(i < d + 1)
    BY <1>3, <2>2
  <3> QED BY <3>2, <3>3, <3>4
 <2> QED BY <1>3, <2>1, <2>2
<1>5. Len(Wire') = Len(Wire) - 1 /\ d + 1 \in 1..Len(Wire) /\ Wire[d + 1] = Head(outbound)
  BY <1>1, <1>3
<1> QED BY <1>4, <1>5 DEF Removed

LEMMA WireAdded ==
  ASSUME VoiceInv, VoiceInv', NEW m \in Word, down' = down, outbound' = Append(outbound, m)
  PROVE  Added(m)
<1> DEFINE d == Len(down)
           n == Len(outbound)
<1>1. /\ Len(outbound') = n + 1 /\ outbound'[n + 1] = m
      /\ \A i \in 1..n : outbound'[i] = outbound[i]
  BY WireTypes, AppendKeeps
<1>3. /\ d \in Nat /\ n \in Nat /\ Len(Wire) = d + n /\ Len(Wire') = d + (n + 1)
      /\ \A i \in 1..d : Wire[i] = down[i] /\ Wire'[i] = down[i]
      /\ \A i \in 1..n : Wire[d + i] = outbound[i]
      /\ \A i \in 1..(n + 1) : Wire'[d + i] = outbound'[i]
 <2>1. /\ Len(Wire') = Len(down') + Len(outbound')
       /\ \A i \in 1..Len(down') : Wire'[i] = down'[i]
       /\ \A i \in 1..Len(outbound') : Wire'[Len(down') + i] = outbound'[i]
   BY WireTypesNext
 <2> QED BY <1>1, <2>1, WireTypes
<1>4. ASSUME NEW i \in 1..Len(Wire) PROVE Wire'[i] = Wire[i]
 <2> HIDE DEF d, n
 <2>1. CASE i <= d
  <3>1. i \in 1..d
    BY <1>3, <2>1
  <3> QED BY <1>3, <3>1
 <2>2. CASE i > d
  <3> DEFINE j == i - d
  <3>1. j \in 1..n /\ j \in 1..(n + 1) /\ i = d + j
    BY <1>3, <2>2
  <3> HIDE DEF j
  <3>2. outbound'[j] = outbound[j]
    BY <1>1, <3>1 DEF n
  <3> QED BY <1>3, <3>1, <3>2
 <2> QED BY <1>3, <2>1, <2>2
<1>5. Len(Wire') = Len(Wire) + 1 /\ Wire'[Len(Wire) + 1] = m
 <2>1. n + 1 \in 1..(n + 1) /\ Len(Wire) + 1 = d + (n + 1)
   BY <1>3
 <2> QED BY <1>1, <1>3, <2>1
<1> QED BY <1>4, <1>5 DEF Added

-------------------------------------------------------------------------------
(***************************************************************************)
(* What each step of the proxy writes of a stream.                         *)
(***************************************************************************)

LEMMA StreamTypes ==
  ASSUME VoiceInv, NEW e \in Epoch, streams[e].live
  PROVE  /\ streams[e] \in Account
         /\ streams[e].queued \in Nat /\ streams[e].produced \in Nat
         /\ streams[e].sent \in Nat /\ streams[e].played \in Nat
         /\ e <= epoch /\ streams[e].played <= heard[e]
         /\ streams[e].end_sent => streams[e].done
         /\ streams[e].clear_sent => streams[e].cleared
         /\ streams[e].acknowledged => settled[e] # Open
         /\ ~streams[e].started => streams[e].produced = 0
<1>1. streams[e] \in Account
  BY HeardTypes
<1>2. StreamOK(e)
  BY DEF VoiceInv, AccountsOK
<1> QED BY <1>1, <1>2, AccountFields DEF StreamOK

LEMMA StreamTypesNext ==
  ASSUME VoiceInv', NEW e \in Epoch, streams'[e].live
  PROVE  /\ streams'[e] \in Account
         /\ streams'[e].queued \in Nat /\ streams'[e].produced \in Nat
         /\ streams'[e].sent \in Nat /\ streams'[e].played \in Nat
         /\ e <= epoch' /\ streams'[e].played <= heard'[e]
         /\ streams'[e].end_sent => streams'[e].done
         /\ streams'[e].clear_sent => streams'[e].cleared
         /\ streams'[e].acknowledged => settled'[e] # Open
         /\ ~streams'[e].started => streams'[e].produced = 0
<1>1. streams'[e] \in Account
 <2>1. streams'[e] \in Account \cup {None}
   BY DEF VoiceInv, VoiceTypes, ProxyTypes
 <2>2. None.live = FALSE
   BY DEF None
 <2> QED BY <2>1, <2>2, Zenon
<1>2. StreamOK(e)'
  BY DEF VoiceInv, AccountsOK
<1>3. /\ streams'[e].queued \in Nat /\ streams'[e].produced \in Nat
      /\ streams'[e].sent \in Nat /\ streams'[e].played \in Nat
  BY <1>1, AccountFields
<1> QED BY <1>1, <1>2, <1>3 DEF StreamOK

LEMMA WriterFacts ==
  ASSUME VoiceInv, VoiceInv', NEW e \in Epoch, AudioWriter(e)
  PROVE  LET o == streams[e]
             s == streams'[e]
         IN /\ o.live /\ s.live /\ ~o.cleared /\ ~o.done /\ Alone(e)
            /\ s.sent = o.sent /\ s.played = o.played
            /\ SameClears(s, o) /\ (s.end_sent <=> o.end_sent) /\ s.started
            /\ \E m \in Word :
                 /\ outbound' = Append(outbound, m) /\ m.epoch = e
                 /\ \/ /\ m = Start(e) /\ ~o.started /\ ~s.done
                       /\ s.produced = o.produced /\ s.queued = o.queued
                    \/ /\ m = Frame(e, o.produced + 1) /\ o.started /\ ~s.done
                       /\ s.produced = o.produced + 1 /\ s.queued = o.queued - 1 /\ o.queued > 0
                    \/ /\ m = End(e) /\ o.started /\ s.done
                       /\ s.produced = o.produced /\ s.queued = o.queued /\ o.queued = 0
            /\ UNCHANGED <<retired, epoch, settled, down, up, device, heard, over>>
            /\ \A f \in Epoch : f < e /\ streams[f].live =>
                 streams[f].cleared \/ Finished(streams[f])
<1> DEFINE o == streams[e]
           s == streams'[e]
<1>1. /\ o.live /\ ~o.cleared /\ ~o.done
      /\ UNCHANGED <<retired, epoch, settled, down, up, device, heard, over>>
      /\ \A f \in 1..(e - 1) : streams[f].live => streams[f].cleared \/ Finished(streams[f])
  BY DEF AudioWriter, MayWrite, session
<1>2. o \in Account /\ o.produced \in Nat /\ o.queued \in Nat
  BY <1>1, StreamTypes
<1>3. o = [live |-> o.live, queued |-> o.queued, produced |-> o.produced, sent |-> o.sent,
           played |-> o.played, generated |-> o.generated, started |-> o.started,
           done |-> o.done, end_sent |-> o.end_sent, cleared |-> o.cleared,
           clear_sent |-> o.clear_sent, acknowledged |-> o.acknowledged]
  BY <1>2 DEF Account
<1>4. streams \in [Epoch -> Account \cup {None}]
  BY DEF VoiceInv, VoiceTypes, ProxyTypes
<1>5. \A f \in Epoch : f < e => f \in 1..(e - 1)
  BY EpochNat
<1>6. Start(e) \in Word /\ End(e) \in Word /\ Start(e).epoch = e /\ End(e).epoch = e
  BY DEF Start, End, Word
<1>7. Frame(e, o.produced + 1) \in Word /\ Frame(e, o.produced + 1).epoch = e
  BY <1>2 DEF Frame, Word
<1>8. CASE /\ ~o.started /\ streams' = [streams EXCEPT ![e].started = TRUE]
           /\ outbound' = Append(outbound, Start(e))
 <2>1. s = [o EXCEPT !.started = TRUE] /\ Alone(e)
   BY <1>4, <1>8 DEF Alone
 <2> HIDE DEF o, s
 <2>2. /\ s.started = TRUE /\ s.live = o.live /\ s.sent = o.sent /\ s.played = o.played
       /\ s.produced = o.produced /\ s.queued = o.queued /\ s.done = o.done
       /\ s.end_sent = o.end_sent /\ s.cleared = o.cleared /\ s.acknowledged = o.acknowledged
       /\ s.clear_sent = o.clear_sent
   BY <1>3, <2>1
 <2> QED BY <1>1, <1>5, <1>6, <1>8, <2>1, <2>2 DEF SameClears, o, s
<1>9. CASE /\ o.started /\ o.queued > 0
           /\ streams' = [streams EXCEPT ![e].queued = @ - 1, ![e].produced = @ + 1]
           /\ outbound' = Append(outbound, Frame(e, o.produced + 1))
 <2>1. s = [o EXCEPT !.queued = o.queued - 1, !.produced = o.produced + 1] /\ Alone(e)
   BY <1>4, <1>9 DEF Alone
 <2> HIDE DEF o, s
 <2>2. /\ s.started = o.started /\ s.live = o.live /\ s.sent = o.sent /\ s.played = o.played
       /\ s.produced = o.produced + 1 /\ s.queued = o.queued - 1 /\ s.done = o.done
       /\ s.end_sent = o.end_sent /\ s.cleared = o.cleared /\ s.acknowledged = o.acknowledged
       /\ s.clear_sent = o.clear_sent
   BY <1>3, <2>1
 <2> QED BY <1>1, <1>5, <1>7, <1>9, <2>1, <2>2 DEF SameClears, o, s
<1>10. CASE /\ o.started /\ o.queued = 0 /\ streams' = [streams EXCEPT ![e].done = TRUE]
            /\ outbound' = Append(outbound, End(e))
 <2>1. s = [o EXCEPT !.done = TRUE] /\ Alone(e)
   BY <1>4, <1>10 DEF Alone
 <2> HIDE DEF o, s
 <2>2. /\ s.started = o.started /\ s.live = o.live /\ s.sent = o.sent /\ s.played = o.played
       /\ s.produced = o.produced /\ s.queued = o.queued /\ s.done = TRUE
       /\ s.end_sent = o.end_sent /\ s.cleared = o.cleared /\ s.acknowledged = o.acknowledged
       /\ s.clear_sent = o.clear_sent
   BY <1>3, <2>1
 <2> QED BY <1>1, <1>5, <1>6, <1>10, <2>1, <2>2 DEF SameClears, o, s
<1> QED BY <1>8, <1>9, <1>10 DEF AudioWriter

LEMMA SenderFacts ==
  ASSUME VoiceInv, VoiceInv', DeviceWriter
  PROVE  LET m == Head(outbound)
             o == streams[m.epoch]
             s == streams'[m.epoch]
         IN /\ over = "no" /\ outbound # <<>> /\ outbound' = Tail(outbound) /\ m \in Word
            /\ UNCHANGED <<retired, epoch, settled, up, device, heard>>
            /\ \/ /\ m.type \in {"frame", "end"} /\ (~o.live \/ o.cleared)
                  /\ UNCHANGED <<streams, down, over>>
               \/ m.type = "clear" /\ ~o.live /\ over' = "crash"
               \/ m.type = "start" /\ SentMessage(m) /\ UNCHANGED streams
               \/ /\ m.type \in {"frame", "clear", "end"} /\ o.live /\ s.live /\ Alone(m.epoch)
                  /\ SentMessage(m) /\ SameStarts(s, o)
                  /\ s.queued = o.queued /\ s.produced = o.produced /\ s.played = o.played
                  /\ s.cleared <=> o.cleared
                  /\ s.acknowledged <=> o.acknowledged
                  /\ o.end_sent => s.end_sent
                  /\ o.clear_sent => s.clear_sent
                  /\ \/ /\ m.type = "frame" /\ ~o.cleared /\ s.sent = o.sent + 1
                        /\ Unreported + 1 <= Credit
                        /\ s.end_sent <=> o.end_sent
                        /\ s.clear_sent <=> o.clear_sent
                     \/ /\ m.type = "clear" /\ s.sent = o.sent /\ s.clear_sent
                        /\ s.end_sent <=> o.end_sent
                     \/ /\ m.type = "end" /\ ~o.cleared /\ s.sent = o.sent /\ s.end_sent
                        /\ s.clear_sent <=> o.clear_sent
<1> DEFINE m == Head(outbound)
           o == streams[m.epoch]
           s == streams'[m.epoch]
<1>1. /\ over = "no" /\ outbound # <<>> /\ outbound' = Tail(outbound)
      /\ UNCHANGED <<retired, epoch, settled, up, device, heard>>
      /\ WriteFrame(m) \/ WriteControl(m)
  BY DEF DeviceWriter
<1>2. m \in Word /\ m.epoch \in Epoch
 <2>1. m \in Word
   BY <1>1, WireTypes, TailKeeps
 <2> QED BY <2>1, WordTypes
<1>3. streams \in [Epoch -> Account \cup {None}]
  BY DEF VoiceInv, VoiceTypes, ProxyTypes
<1>4. o.live => o \in Account
  BY <1>2, StreamTypes
<1>5. o \in Account =>
        o = [live |-> o.live, queued |-> o.queued, produced |-> o.produced, sent |-> o.sent,
             played |-> o.played, generated |-> o.generated, started |-> o.started,
             done |-> o.done, end_sent |-> o.end_sent, cleared |-> o.cleared,
             clear_sent |-> o.clear_sent, acknowledged |-> o.acknowledged]
  BY DEF Account
<1>6. CASE WriteFrame(m)
 <2>1. CASE Dropped(m.epoch)
   BY <1>1, <1>2, <1>6, <2>1 DEF WriteFrame, Dropped
 <2>2. CASE ~Dropped(m.epoch)
  <3>1. /\ m.type = "frame" /\ o.live /\ ~o.cleared /\ Unreported + 1 <= Credit /\ SentMessage(m)
        /\ s = [o EXCEPT !.sent = o.sent + 1] /\ Alone(m.epoch)
    BY <1>2, <1>3, <1>6, <2>2 DEF WriteFrame, Dropped, Send, SentMessage, Alone
  <3> HIDE DEF o, s
  <3>2. /\ s.started = o.started /\ s.live = o.live /\ s.sent = o.sent + 1 /\ s.played = o.played
        /\ s.produced = o.produced /\ s.queued = o.queued /\ s.done = o.done
        /\ s.end_sent = o.end_sent /\ s.cleared = o.cleared /\ s.acknowledged = o.acknowledged
        /\ s.clear_sent = o.clear_sent
    BY <1>4, <1>5, <3>1
  <3> QED BY <1>1, <1>2, <3>1, <3>2 DEF SameStarts, o, s
 <2> QED BY <2>1, <2>2
<1>7. CASE WriteControl(m) /\ m.type = "clear" /\ o.live
 <2>1. SentMessage(m) /\ s = [o EXCEPT !.clear_sent = TRUE] /\ Alone(m.epoch)
   BY <1>2, <1>3, <1>7 DEF WriteControl, Send, SentMessage, Alone
 <2> HIDE DEF o, s
 <2>2. /\ s.started = o.started /\ s.live = o.live /\ s.sent = o.sent /\ s.played = o.played
       /\ s.produced = o.produced /\ s.queued = o.queued /\ s.done = o.done
       /\ s.end_sent = o.end_sent /\ s.cleared = o.cleared /\ s.acknowledged = o.acknowledged
       /\ s.clear_sent = TRUE
   BY <1>4, <1>5, <1>7, <2>1
 <2> QED BY <1>1, <1>2, <1>7, <2>1, <2>2 DEF SameStarts, o, s
<1>8. CASE WriteControl(m) /\ m.type = "end" /\ ~Dropped(m.epoch)
 <2>1. /\ SentMessage(m) /\ s = [o EXCEPT !.end_sent = TRUE] /\ Alone(m.epoch)
       /\ o.live /\ ~o.cleared
   BY <1>2, <1>3, <1>8 DEF WriteControl, Send, SentMessage, Alone, Dropped
 <2> HIDE DEF o, s
 <2>2. /\ s.started = o.started /\ s.live = o.live /\ s.sent = o.sent /\ s.played = o.played
       /\ s.produced = o.produced /\ s.queued = o.queued /\ s.done = o.done
       /\ s.end_sent = TRUE /\ s.cleared = o.cleared /\ s.acknowledged = o.acknowledged
       /\ s.clear_sent = o.clear_sent
   BY <1>4, <1>5, <2>1
 <2> QED BY <1>1, <1>2, <1>8, <2>1, <2>2 DEF SameStarts, o, s
<1>9. CASE WriteControl(m) /\ ~(m.type = "clear" /\ o.live) /\ ~(m.type = "end" /\ ~Dropped(m.epoch))
  BY <1>1, <1>2, <1>9 DEF WriteControl, Send, SentMessage, Dropped, Fail
<1> QED BY <1>1, <1>6, <1>7, <1>8, <1>9

LEMMA ReaderFacts ==
  ASSUME VoiceInv, VoiceInv', DeviceReader
  PROVE  LET m == Head(up) IN
         /\ over = "no" /\ up # <<>> /\ up' = Tail(up) /\ m \in Told /\ Truthful(m) /\ m.epoch \in Epoch
         /\ m.played \in Nat /\ m.type \in {"progress", "cleared"}
         /\ UNCHANGED <<retired, epoch, outbound, down, device, heard>>
         /\ \/ Accepted(m)
            \/ ~streams[m.epoch].live /\ Known(m) /\ UNCHANGED <<streams, settled, over>>
            \/ /\ over' = "protocol" /\ refused' = m /\ UNCHANGED <<streams, settled>>
               /\ IF streams[m.epoch].live THEN ~Acceptable(streams[m.epoch], m) ELSE ~Known(m)
<1> DEFINE m == Head(up)
           o == streams[m.epoch]
           s == streams'[m.epoch]
<1>1. /\ over = "no" /\ up # <<>> /\ up' = Tail(up)
      /\ UNCHANGED <<retired, epoch, outbound, down, device, heard>>
      /\ IF o.live THEN IF Acceptable(o, m) THEN Accept(m) ELSE Refuse(m)
         ELSE IF Known(m) THEN UNCHANGED <<streams, settled, over>> ELSE Refuse(m)
  BY DEF DeviceReader
<1>2. m \in Told /\ Truthful(m)
 <2>1. up \in Seq(Told)
   BY DEF VoiceInv, VoiceTypes, DeviceTypes
 <2>2. m \in Told /\ m = up[1] /\ 1 \in 1..Len(up)
   BY <1>1, <2>1, TailKeeps
 <2> QED BY <2>2 DEF VoiceInv, ReportsOK
<1>3. m.epoch \in Epoch /\ m.played \in Nat /\ m.type \in {"progress", "cleared"}
  BY <1>2 DEF Told
<1>4. streams \in [Epoch -> Account \cup {None}] /\ settled \in [Epoch -> Nat \cup {Open}]
  BY DEF VoiceInv, VoiceTypes, ProxyTypes
<1>5. CASE o.live /\ Acceptable(o, m) /\ Accept(m)
 <2>1. o \in Account
   BY <1>3, <1>5, StreamTypes
 <2>2. o = [live |-> o.live, queued |-> o.queued, produced |-> o.produced, sent |-> o.sent,
            played |-> o.played, generated |-> o.generated, started |-> o.started,
            done |-> o.done, end_sent |-> o.end_sent, cleared |-> o.cleared,
            clear_sent |-> o.clear_sent, acknowledged |-> o.acknowledged]
   BY <2>1 DEF Account
 <2>3. /\ s = [o EXCEPT !.played = m.played, !.acknowledged = (m.type = "cleared")]
       /\ Alone(m.epoch) /\ over' = over
       /\ m.type = "cleared" => settled'[m.epoch] = m.played
       /\ \A f \in Epoch : f # m.epoch \/ m.type # "cleared" => settled'[f] = settled[f]
   BY <1>3, <1>4, <1>5 DEF Accept, Alone
 <2>4. /\ o.played <= m.played /\ m.played <= o.sent /\ ~o.acknowledged
       /\ m.type = "cleared" => o.clear_sent
   BY <1>5 DEF Acceptable
 <2>5. o.clear_sent => o.cleared
   BY <1>3, <1>5, StreamTypes
 <2> HIDE DEF o, s, m
 <2>6. /\ s.started = o.started /\ s.live = o.live /\ s.sent = o.sent /\ s.played = m.played
       /\ s.produced = o.produced /\ s.queued = o.queued /\ s.done = o.done
       /\ s.end_sent = o.end_sent /\ s.cleared = o.cleared
       /\ s.acknowledged = (m.type = "cleared")
       /\ s.clear_sent = o.clear_sent
   BY <2>2, <2>3
 <2>7. Accepted(m)
   BY <1>5, <2>3, <2>4, <2>5, <2>6 DEF Accepted, SameStarts, o, s
 <2> QED BY <1>1, <1>2, <1>3, <2>7 DEF m
<1>6. CASE Refuse(m) /\ IF o.live THEN ~Acceptable(o, m) ELSE ~Known(m)
  BY <1>1, <1>2, <1>3, <1>6 DEF Refuse, Fail
<1>7. CASE ~o.live /\ Known(m) /\ UNCHANGED <<streams, settled, over>>
  BY <1>1, <1>2, <1>3, <1>7
<1> QED BY <1>1, <1>5, <1>6, <1>7

LEMMA SpeechFacts ==
  ASSUME VoiceInv, VoiceInv', SpeechStarted
  PROVE  /\ over = "no" /\ retired' = Remembered
         /\ UNCHANGED <<epoch, down, up, device, over, refused, heard>>
         /\ \A e \in Epoch :
              /\ Interrupted(e) => Silenced(e)
              /\ Closed(e) => ~streams'[e].live /\ settled'[e] = Settle(e)
              /\ ~Interrupted(e) /\ ~Closed(e) => streams'[e] = streams[e] /\ settled'[e] = settled[e]
<1> DEFINE open == {e \in Epoch : /\ Kept[e].live
                                  /\ ~Kept[e].cleared /\ ~Kept[e].acknowledged}
<1>1. /\ streams' = [e \in Epoch |->
             IF e \in open
             THEN [Kept[e] EXCEPT !.cleared = TRUE, !.queued = 0, !.acknowledged = ~Kept[e].started]
             ELSE Kept[e]]
      /\ settled' = [e \in Epoch |-> IF e \in open /\ ~Kept[e].started THEN 0 ELSE Settle(e)]
      /\ UNCHANGED <<epoch, down, up, device, over, refused, heard>>
      /\ over = "no" /\ retired' = Remembered
  BY DEF SpeechStarted
<1>2. ASSUME NEW e \in Epoch
      PROVE  /\ e \in open <=> Interrupted(e)
             /\ Interrupted(e) => ~Closed(e)
             /\ Closed(e) => Kept[e] = None
             /\ ~Closed(e) => Kept[e] = streams[e] /\ Settle(e) = settled[e]
 <2>1. Kept[e] = IF Closed(e) THEN None ELSE streams[e]
   BY DEF Kept
 <2>2. None.live = FALSE
   BY DEF None
 <2>3. Closed(e) <=> streams[e].live /\ (streams[e].acknowledged \/ Finished(streams[e]))
   BY DEF Closed
 <2> QED BY <2>1, <2>2, <2>3 DEF Interrupted, Settle
<1>3. ASSUME NEW e \in Epoch, Interrupted(e) PROVE Silenced(e)
 <2> DEFINE o == streams[e]
            s == streams'[e]
 <2>1. o \in Account
   BY <1>3, StreamTypes DEF Interrupted
 <2>2. o = [live |-> o.live, queued |-> o.queued, produced |-> o.produced, sent |-> o.sent,
            played |-> o.played, generated |-> o.generated, started |-> o.started,
            done |-> o.done, end_sent |-> o.end_sent, cleared |-> o.cleared,
            clear_sent |-> o.clear_sent, acknowledged |-> o.acknowledged]
   BY <2>1 DEF Account
 <2>3. /\ s = [o EXCEPT !.cleared = TRUE, !.queued = 0, !.acknowledged = ~o.started]
       /\ settled'[e] = IF ~o.started THEN 0 ELSE settled[e]
   BY <1>1, <1>2, <1>3
 <2>4. o.live
   BY <1>3 DEF Interrupted
 <2> HIDE DEF o, s
 <2>5. /\ s.started = o.started /\ s.live = o.live /\ s.sent = o.sent /\ s.played = o.played
       /\ s.produced = o.produced /\ s.queued = 0 /\ s.done = o.done
       /\ s.end_sent = o.end_sent /\ s.cleared = TRUE
       /\ s.acknowledged = (~o.started)
       /\ s.clear_sent = o.clear_sent
   BY <2>2, <2>3
 <2> QED BY <2>3, <2>4, <2>5 DEF Silenced, SameStarts, o, s
<1>4. ASSUME NEW e \in Epoch, Closed(e) PROVE ~streams'[e].live /\ settled'[e] = Settle(e)
 <2>1. e \notin open /\ streams'[e] = None /\ settled'[e] = Settle(e)
   BY <1>1, <1>2, <1>4
 <2> QED BY <2>1 DEF None
<1>5. ASSUME NEW e \in Epoch, ~Interrupted(e), ~Closed(e)
      PROVE  streams'[e] = streams[e] /\ settled'[e] = settled[e]
  BY <1>1, <1>2, <1>5
<1> QED BY <1>1, <1>3, <1>4, <1>5

\* One stream is playing at most, so that there is at most one to clear.
LEMMA ClearFacts ==
  ASSUME VoiceInv, VoiceInv', SpeechStarted,
         \A e, f \in Epoch : Interrupted(e) /\ streams[e].started
                             /\ Interrupted(f) /\ streams[f].started => e = f
  PROVE  \/ /\ outbound' = outbound
            /\ \A e \in Epoch : ~(Interrupted(e) /\ streams[e].started)
         \/ \E e \in Epoch : /\ Interrupted(e) /\ streams[e].started
                             /\ outbound' = Append(outbound, Clear(e))
<1> DEFINE open == {e \in Epoch : /\ Kept[e].live
                                  /\ ~Kept[e].cleared /\ ~Kept[e].acknowledged}
           begun == {e \in open : Kept[e].started}
           clearing == Ordered(begun)
           clears == [i \in DOMAIN clearing |-> Clear(clearing[i])]
<1>1. outbound' = outbound \o clears
  BY DEF SpeechStarted
<1>2. ASSUME NEW e \in Epoch PROVE e \in begun <=> Interrupted(e) /\ streams[e].started
 <2>1. Kept[e] = IF Closed(e) THEN None ELSE streams[e]
   BY DEF Kept
 <2>2. None.live = FALSE
   BY DEF None
 <2>3. Closed(e) <=> streams[e].live /\ (streams[e].acknowledged \/ Finished(streams[e]))
   BY DEF Closed
 <2> QED BY <2>1, <2>2, <2>3 DEF Interrupted
<1>3. begun \in SUBSET Epoch
  OBVIOUS
<1> HIDE DEF begun
<1>4. Cardinality(begun) \in Nat /\ clearing \in [1..Cardinality(begun) -> begun] /\ IsFiniteSet(begun)
  BY <1>3, OrderedTypes, EpochsFinite
<1> HIDE DEF clearing
<1>5. outbound \in Seq(Word)
  BY WireTypes
<1>6. CASE begun = {}
 <2>1. Cardinality(begun) = 0
   BY <1>6, FS_EmptySet
 <2>2. clears = <<>>
   BY <1>4, <2>1
 <2> HIDE DEF clears
 <2>3. outbound' = outbound
   BY <1>1, <1>5, <2>2
 <2> QED BY <1>2, <1>6, <2>3
<1>7. ASSUME NEW e \in begun
      PROVE  \E f \in Epoch : /\ Interrupted(f) /\ streams[f].started
                              /\ outbound' = Append(outbound, Clear(f))
 <2>1. e \in Epoch /\ Interrupted(e) /\ streams[e].started
   BY <1>2, <1>3
 <2>2. begun = {e}
   BY <1>2, <1>3, <2>1
 <2>3. Cardinality(begun) = 1
   BY <2>2, FS_Singleton
 <2>4. clearing \in [1..1 -> {e}]
   BY <1>4, <2>2, <2>3
 <2>5. clears = <<Clear(e)>>
   BY <2>4
 <2> HIDE DEF clears
 <2>6. outbound' = Append(outbound, Clear(e))
   BY <1>1, <1>5, <2>5
 <2> QED BY <2>1, <2>6
<1> QED BY <1>6, <1>7

LEMMA AudioFacts ==
  ASSUME VoiceInv, VoiceInv', ResponseAudio
  PROVE  /\ over = "no" /\ UNCHANGED <<outbound, down, up, device, heard, refused>>
         /\ \/ over' = "backlog"
            \/ /\ UNCHANGED <<retired, epoch, settled, over>>
               /\ \E e \in Epoch :
                    LET o == streams[e]
                        s == streams'[e]
                    IN /\ o.live /\ s.live /\ Alone(e) /\ SameClears(s, o) /\ SameStarts(s, o)
                       /\ s.end_sent <=> o.end_sent
                       /\ s.queued = o.queued + 1
                       /\ s.produced = o.produced /\ s.sent = o.sent /\ s.played = o.played
            \/ /\ over' = over /\ epoch' = epoch + 1 /\ epoch + 1 \in Epoch /\ retired' = Remembered
               /\ ~streams[epoch + 1].live /\ Opened(epoch + 1)
               /\ \A e \in Epoch : e # epoch + 1 => Retires(e)
<1>1. /\ over = "no" /\ UNCHANGED <<outbound, down, up, device, heard, refused>>
      /\ response \in [state : {"none", "requested", "current", "discarded"}, epoch : 0..MaxEpoch]
      /\ streams \in [Epoch -> Account \cup {None}] /\ epoch \in 0..MaxEpoch
  BY DEF ResponseAudio, VoiceInv, VoiceTypes, ProxyTypes
<1>2. CASE response.epoch # 0 /\ streams[response.epoch].live
 <2> DEFINE e == response.epoch
            o == streams[e]
            s == streams'[e]
 <2>1. e \in Epoch /\ o.live
   BY <1>1, <1>2, EpochNat
 <2>2. MoreAudio(e)
   BY <1>2 DEF ResponseAudio
 <2> HIDE DEF e
 <2>3. /\ s = [o EXCEPT !.queued = o.queued + 1] /\ Alone(e)
       /\ UNCHANGED <<retired, epoch, settled, over>>
   BY <1>1, <2>1, <2>2 DEF MoreAudio, Alone
 <2>4. o \in Account
   BY <2>1, StreamTypes
 <2>5. o = [live |-> o.live, queued |-> o.queued, produced |-> o.produced, sent |-> o.sent,
            played |-> o.played, generated |-> o.generated, started |-> o.started,
            done |-> o.done, end_sent |-> o.end_sent, cleared |-> o.cleared,
            clear_sent |-> o.clear_sent, acknowledged |-> o.acknowledged]
   BY <2>4 DEF Account
 <2> HIDE DEF o, s
 <2>6. /\ s.started = o.started /\ s.live = o.live /\ s.sent = o.sent /\ s.played = o.played
       /\ s.produced = o.produced /\ s.queued = o.queued + 1 /\ s.done = o.done
       /\ s.end_sent = o.end_sent /\ s.cleared = o.cleared
       /\ s.acknowledged = o.acknowledged /\ s.clear_sent = o.clear_sent
   BY <2>3, <2>5
 <2> QED BY <1>1, <2>1, <2>3, <2>6 DEF SameStarts, SameClears, o, s
<1>3. CASE ~(response.epoch # 0 /\ streams[response.epoch].live)
 <2>1. epoch < MaxEpoch /\ OpenStream
   BY <1>3 DEF ResponseAudio
 <2>2. CASE over' = "backlog"
   BY <1>1, <2>2
 <2>3. CASE /\ epoch' = epoch + 1 /\ over' = over
            /\ streams' = [Kept EXCEPT ![epoch + 1] = [Fresh EXCEPT !.queued = 1]]
  <3>1. PICK n \in Nat : n = epoch + 1
    BY <1>1, EpochNat
  <3>2. n \in Epoch /\ n > epoch
    BY <1>1, <2>1, <3>1, EpochNat
  <3>3. /\ retired' = Remembered /\ settled' = [e \in Epoch |-> Settle(e)]
        /\ streams' = [Kept EXCEPT ![n] = [Fresh EXCEPT !.queued = 1]]
    BY <2>1, <2>3, <3>1 DEF OpenStream
  <3>4. Kept \in [Epoch -> Account \cup {None}]
    BY KeptTypes
  <3>5. Opened(n)
   <4>1. streams'[n] = [Fresh EXCEPT !.queued = 1]
     BY <3>2, <3>3, <3>4
   <4> QED BY <4>1 DEF Opened, Fresh
  <3>6. ASSUME NEW e \in Epoch, e # n PROVE Retires(e)
   <4>1. streams'[e] = Kept[e] /\ settled'[e] = Settle(e)
     BY <3>3, <3>4, <3>6
   <4>2. CASE Closed(e)
     BY <4>1, <4>2 DEF Retires, Kept, None
   <4>3. CASE ~Closed(e)
     BY <4>1, <4>3 DEF Retires, Kept, Settle
   <4> QED BY <4>2, <4>3
  <3>7. ~streams[n].live
    BY <3>2 DEF VoiceInv, AccountsOK, Ahead
  <3> QED BY <1>1, <2>3, <3>1, <3>2, <3>3, <3>5, <3>6, <3>7
 <2> QED BY <2>1, <2>2, <2>3 DEF OpenStream, Fail
<1> QED BY <1>2, <1>3

LEMMA DoneFacts ==
  ASSUME VoiceInv, VoiceInv', ResponseDone
  PROVE  /\ UNCHANGED <<retired, epoch, settled, outbound, down, up, device, over, heard, refused>>
         /\ \A e \in Epoch : Alike(e)
<1>1. /\ UNCHANGED <<retired, epoch, settled, outbound, down, up, device, over, heard, refused>>
      /\ streams' = [e \in Epoch |->
           IF e = response.epoch /\ streams[e].live /\ ~streams[e].cleared
           THEN [streams[e] EXCEPT !.generated = TRUE] ELSE streams[e]]
  BY DEF ResponseDone, session
<1>2. ASSUME NEW e \in Epoch PROVE Alike(e)
 <2> DEFINE o == streams[e]
            s == streams'[e]
 <2>1. CASE s = o
   BY <2>1 DEF Alike, SameCounts, SameClears, SameStarts
 <2>2. CASE o.live /\ s = [o EXCEPT !.generated = TRUE]
  <3>1. o \in Account
    BY <2>2, StreamTypes
  <3>2. o = [live |-> o.live, queued |-> o.queued, produced |-> o.produced, sent |-> o.sent,
             played |-> o.played, generated |-> o.generated, started |-> o.started,
             done |-> o.done, end_sent |-> o.end_sent, cleared |-> o.cleared,
             clear_sent |-> o.clear_sent, acknowledged |-> o.acknowledged]
    BY <3>1 DEF Account
  <3> HIDE DEF o, s
  <3>3. /\ s.started = o.started /\ s.live = o.live /\ s.sent = o.sent /\ s.played = o.played
        /\ s.produced = o.produced /\ s.queued = o.queued /\ s.done = o.done
        /\ s.end_sent = o.end_sent /\ s.cleared = o.cleared
        /\ s.acknowledged = o.acknowledged /\ s.clear_sent = o.clear_sent
    BY <2>2, <3>2
  <3> QED BY <2>2, <3>3 DEF Alike, SameCounts, SameClears, SameStarts, o, s
 <2> QED BY <1>1, <2>1, <2>2
<1> QED BY <1>1, <1>2

-------------------------------------------------------------------------------
(***************************************************************************)
(* What the recorder makes of the messages, and the order of these.        *)
(***************************************************************************)

LEMMA ViewTypes ==
  ASSUME VoiceInv
  PROVE  /\ Current \in Nat /\ Last \in Nat /\ Expected \in Nat
         /\ dev.last \in Nat /\ dev.current \in Nat /\ dev.cleared \in Nat /\ dev.last <= Last
         /\ Current # 0 => Current = Last
         /\ \A e \in Epoch : e > Last => heard[e] = 0 /\ dac.epoch # e
<1>1. /\ dev.last \in 0..MaxEpoch /\ dev.current \in 0..MaxEpoch /\ dev.cleared \in 0..MaxEpoch
      /\ dev.expected \in Nat /\ ws.epoch \in 0..MaxEpoch
      /\ ws.pc \in {"idle", "flushed", "opened", "clearing"}
      /\ dac.epoch \in 0..MaxEpoch
  BY DEF VoiceInv, VoiceTypes, DeviceTypes, Dev, Ws, Dac
<1>2. DeviceOK
  BY DEF VoiceInv
<1>3. /\ Current \in Nat /\ Last \in Nat /\ Expected \in Nat
      /\ dev.last \in Nat /\ dev.current \in Nat /\ dev.cleared \in Nat
  BY <1>1, EpochNat DEF Current, Last, Expected, Begins
<1>4. dev.last <= Last /\ (Current # 0 => Current = Last)
  BY <1>1, <1>2, EpochNat DEF Current, Last, Begins, DeviceOK
<1>5. dac.epoch <= Last
  BY <1>1, <1>2, EpochNat DEF Last, Begins, DeviceOK
<1>6. ASSUME NEW e \in Epoch, e > Last PROVE heard[e] = 0 /\ dac.epoch # e
 <2>1. e \in Nat /\ e > dev.last
   BY <1>3, <1>4, <1>6, EpochNat
 <2>2. dac.epoch \in Nat
   BY <1>1, EpochNat
 <2> QED BY <1>2, <1>3, <1>5, <1>6, <2>1, <2>2 DEF DeviceOK
<1> QED BY <1>3, <1>4, <1>6

LEMMA ViewStays ==
  ASSUME VoiceInv, UNCHANGED <<dev, ws>> \/ WsOpen \/ WsPublish \/ WsCleared
  PROVE  Current' = Current /\ Last' = Last /\ Expected' = Expected /\ (Ended' <=> Ended)
<1>1. /\ dev \in Dev /\ ws \in Ws
      /\ ws.pc = "clearing" => ws.epoch = dev.current
  BY DEF VoiceInv, VoiceTypes, DeviceTypes, DeviceOK
<1>2. CASE UNCHANGED <<dev, ws>>
  BY <1>2 DEF Current, Last, Expected, Ended, Begins
<1>3. CASE WsOpen
 <2>1. ws.pc = "flushed" /\ ws' = [ws EXCEPT !.pc = "opened"] /\ dev' = dev
   BY <1>3 DEF WsOpen
 <2>2. ws'.pc = "opened" /\ ws'.epoch = ws.epoch
   BY <1>1, <2>1 DEF Ws
 <2> QED BY <2>1, <2>2 DEF Current, Last, Expected, Ended, Begins
<1>4. CASE WsPublish
 <2>1. /\ ws.pc = "opened" /\ ws' = Idle
       /\ dev' = [dev EXCEPT !.current = ws.epoch, !.last = ws.epoch, !.ended = FALSE, !.expected = 0]
   BY <1>4 DEF WsPublish
 <2>2. ws'.pc = "idle" /\ dev'.current = ws.epoch /\ dev'.last = ws.epoch /\ dev'.ended = FALSE
       /\ dev'.expected = 0
   BY <1>1, <2>1 DEF Dev, Idle
 <2> QED BY <2>1, <2>2 DEF Current, Last, Expected, Ended, Begins
<1>5. CASE WsCleared
 <2>1. /\ ws.pc = "clearing" /\ ws' = Idle
       /\ dev' = [dev EXCEPT !.cleared = ws.epoch, !.current = 0]
   BY <1>5 DEF WsCleared
 <2>2. ws'.pc = "idle" /\ dev'.current = 0 /\ dev'.last = dev.last /\ dev'.ended = dev.ended
       /\ dev'.expected = dev.expected
   BY <1>1, <2>1 DEF Dev, Idle
 <2> QED BY <2>1, <2>2 DEF Current, Last, Expected, Ended, Begins
<1> QED BY <1>2, <1>3, <1>4, <1>5

LEMMA SameThin ==
  ASSUME VoiceInv, Len(Wire') = Len(Wire), \A i \in 1..Len(Wire) : Wire'[i] = Wire[i]
  PROVE  \E h : Thin(h, 0)
<1> DEFINE h == [i \in 1..Len(Wire') |-> i]
<1>1. Len(Wire) \in Nat
  BY WireTypes
<1>2. Thin(h, 0)
  BY <1>1 DEF Thin
<1> QED BY <1>2

LEMMA RemovedThin ==
  ASSUME VoiceInv, NEW k, Removed(k)
  PROVE  \E h : Thin(h, k)
<1> DEFINE h == [i \in 1..Len(Wire') |-> IF i < k THEN i ELSE i + 1]
<1>1. Len(Wire) \in Nat /\ k \in 1..Len(Wire) /\ Len(Wire') = Len(Wire) - 1
  BY WireTypes DEF Removed
<1>2. h \in [1..Len(Wire') -> 1..Len(Wire)]
  BY <1>1
<1>3. \A i, j \in 1..Len(Wire') : i < j => h[i] < h[j]
  BY <1>1
<1>4. \A i \in 1..Len(Wire') : Wire'[i] = Wire[h[i]] /\ h[i] # k
  BY <1>1 DEF Removed
<1>5. ASSUME NEW j \in 1..Len(Wire), j # k PROVE \E i \in 1..Len(Wire') : h[i] = j
 <2>1. CASE j < k
  <3>1. j \in 1..Len(Wire') /\ h[j] = j
    BY <1>1, <2>1
  <3> QED BY <3>1
 <2>2. CASE j > k
  <3>1. j - 1 \in 1..Len(Wire') /\ h[j - 1] = j
    BY <1>1, <2>2
  <3> QED BY <3>1
 <2> QED BY <1>1, <1>5, <2>1, <2>2
<1> QED BY <1>2, <1>3, <1>4, <1>5 DEF Thin

LEMMA ThinInOrder ==
  ASSUME VoiceInv, NEW h, NEW k, Thin(h, k), InOrder
  PROVE  InOrder'
<1>1. ASSUME NEW i \in 1..Len(Wire'), NEW j \in 1..Len(Wire'), i < j PROVE Precedes(Wire'[i], Wire'[j])
 <2>1. h[i] \in 1..Len(Wire) /\ h[j] \in 1..Len(Wire) /\ h[i] < h[j]
   BY <1>1 DEF Thin
 <2>2. Precedes(Wire[h[i]], Wire[h[j]])
   BY <2>1 DEF InOrder
 <2> QED BY <2>2 DEF Thin
<1> QED BY <1>1 DEF InOrder, Precedes

\* What is not the first message of its epoch comes after the start.
LEMMA ThinStart ==
  ASSUME VoiceInv, VoiceInv', NEW h, NEW k, Thin(h, k), NEW j \in 1..Len(Wire'),
         NEW i \in 1..h[j], k \in 1..Len(Wire) => Wire[k] # Wire[i]
  PROVE  \E l \in 1..j : Wire'[l] = Wire[i]
<1>1. h[j] \in 1..Len(Wire) /\ Len(Wire) \in Nat
 <2>1. h[j] \in 1..Len(Wire)
   BY DEF Thin
 <2> QED BY <2>1, WireTypes
<1>2. i \in 1..Len(Wire) /\ i # k /\ i <= h[j]
  BY <1>1
<1>3. PICK l \in 1..Len(Wire') : h[l] = i
  BY <1>2 DEF Thin
<1>4. l <= j
 <2>1. CASE j < l
  <3>1. h[j] < h[l]
    BY <2>1 DEF Thin
  <3> QED BY <1>1, <1>2, <1>3, <3>1
 <2>2. l \in Nat /\ j \in Nat
  <3>1. Len(Wire') \in Nat
    BY WireTypesNext
  <3> QED BY <3>1
 <2> QED BY <2>1, <2>2
<1>5. Wire'[l] = Wire[i]
  BY <1>3 DEF Thin
<1>6. l \in 1..j
 <2>1. Len(Wire') \in Nat
   BY WireTypesNext
 <2> QED BY <1>4, <2>1
<1> QED BY <1>5, <1>6

LEMMA FlagsFollow ==
  ASSUME VoiceInv, VoiceInv', NEW e \in Epoch, FlagsOK(e), \A f \in Epoch : Kin(f), epoch' = epoch
  PROVE  FlagsOK(e)'
<1> DEFINE o == streams[e]
           s == streams'[e]
<1>1. Kin(e)
  OBVIOUS
<1>2. e <= epoch' /\ ~s.live => settled'[e] # Open
  BY <1>1 DEF Kin, FlagsOK
<1>3. ASSUME s.live
      PROVE  /\ s.done => s.started /\ s.produced >= 1
             /\ s.acknowledged => s.cleared
             /\ s.cleared /\ ~s.started =>
                  /\ s.acknowledged
                  /\ \A f \in Epoch : f > e /\ streams'[f].live => streams'[f].cleared
             /\ ~s.cleared => s.produced + s.queued >= 1
 <2>1. /\ o.live
       /\ s.started <=> o.started
       /\ s.done <=> o.done
       /\ s.cleared <=> o.cleared
       /\ o.acknowledged => s.acknowledged
       /\ s.acknowledged => s.cleared
       /\ s.produced >= o.produced
       /\ s.produced + s.queued >= o.produced + o.queued
   BY <1>1, <1>3 DEF Kin
 <2>2. o.produced \in Nat /\ o.queued \in Nat /\ s.produced \in Nat /\ s.queued \in Nat
   BY <1>3, <2>1, StreamTypes, StreamTypesNext
 <2>3. /\ o.done => o.started /\ o.produced >= 1
       /\ o.cleared /\ ~o.started =>
            /\ o.acknowledged
            /\ \A f \in Epoch : f > e /\ streams[f].live => streams[f].cleared
       /\ ~o.cleared => o.produced + o.queued >= 1
   BY <2>1 DEF FlagsOK
 <2>4. \A f \in Epoch : streams'[f].live => streams[f].live /\ (streams[f].cleared => streams'[f].cleared)
   BY DEF Kin
 <2> HIDE DEF o, s
 <2> QED BY <2>1, <2>2, <2>3, <2>4
<1> QED BY <1>2, <1>3 DEF FlagsOK

LEMMA ThinUnbegun ==
  ASSUME VoiceInv, NEW h, NEW k, Thin(h, k), Last' = Last, NEW e \in Epoch, Unbegun(e)
  PROVE  Unbegun(e)'
<1>1. \A i \in 1..Len(Wire') : Wire'[i] = Wire[h[i]] /\ h[i] \in 1..Len(Wire)
  BY DEF Thin
<1> QED BY <1>1 DEF Unbegun

\* The recorder is where it was, and nothing new is on its way.
LEMMA OrderFollows ==
  ASSUME VoiceInv, VoiceInv', Order, \A e \in Epoch : Kin(e), epoch' = epoch, CallsOK',
         Current' = Current, Last' = Last, Expected' = Expected, Ended' <=> Ended,
         NEW h, NEW k, Thin(h, k), k \in 1..Len(Wire) => Wire[k].type # "start"
  PROVE  Order'
<1>1. InOrder'
  BY ThinInOrder DEF Order
<1>2. \A i \in 1..Len(Wire') :
        /\ Wire'[i] = Wire[h[i]] /\ h[i] \in 1..Len(Wire)
        /\ Wire'[i].epoch \in Epoch
  BY WordAt DEF Thin
<1>3. \A e : k \in 1..Len(Wire) => Wire[k] # Start(e)
  BY DEF Start
<1>4. Placed'
 <2>1. ASSUME NEW j \in 1..Len(Wire') PROVE AtCurrent(Wire[j])' \/ AfterStart(j)'
  <3>1. AtCurrent(Wire[h[j]]) \/ AfterStart(h[j])
    BY <1>2 DEF Order, Placed
  <3>2. CASE AtCurrent(Wire[h[j]])
    BY <1>2, <3>2 DEF AtCurrent
  <3>3. CASE AfterStart(h[j])
   <4>1. PICK s : s = Start(Wire'[j].epoch)
     OBVIOUS
   <4>2. PICK i \in 1..h[j] : Wire[i] = s
     BY <1>2, <3>3, <4>1 DEF AfterStart
   <4>3. k \in 1..Len(Wire) => Wire[k] # Wire[i]
     BY <1>3, <4>1, <4>2
   <4>4. \E l \in 1..j : Wire'[l] = Wire[i]
     BY <4>3, ThinStart
   <4> QED BY <1>2, <3>3, <4>1, <4>2, <4>4 DEF AfterStart
  <3> QED BY <3>1, <3>2, <3>3
 <2> QED BY <2>1 DEF Placed, AtCurrent, AfterStart
<1>5. WordsOK'
 <2>1. ASSUME NEW i \in 1..Len(Wire'), streams'[Wire'[i].epoch].live
       PROVE  /\ Wire'[i].type = "end" => streams'[Wire'[i].epoch].done
              /\ Wire'[i].type = "clear" => streams'[Wire'[i].epoch].cleared
  <3>1. PICK e \in Epoch : e = Wire'[i].epoch /\ e = Wire[h[i]].epoch
    BY <1>2
  <3>2. streams[e].live /\ (streams[e].done => streams'[e].done) /\ (streams[e].cleared => streams'[e].cleared)
    BY <2>1, <3>1 DEF Kin
  <3>3. /\ Wire[h[i]].type = "end" => streams[e].done
        /\ Wire[h[i]].type = "clear" => streams[e].cleared
    BY <1>2, <3>1, <3>2 DEF Order, WordsOK
  <3> QED BY <1>2, <3>1, <3>2, <3>3
 <2> QED BY <2>1 DEF WordsOK
<1>6. \A f \in Epoch : Unbegun(f) => Unbegun(f)'
  BY ThinUnbegun
<1>7. ASSUME NEW e \in Epoch PROVE BeginsOK(e)'
 <2>1. BeginsOK(e) /\ Kin(e)
   BY DEF Order
 <2>2. UnderWay(e) /\ streams'[e].live => UnderWay(e)'
  <3>1. ASSUME e > Last, NEW i \in 1..Len(Wire), Wire[i] = Start(e)
        PROVE  \E j \in 1..Len(Wire') : Wire'[j] = Start(e)
   <4>1. i # k
     BY <1>3, <3>1
   <4> QED BY <3>1, <4>1 DEF Thin
  <3> QED BY <2>1, <3>1 DEF UnderWay, Kin
 <2>3. streams'[e].live => /\ streams[e].live
                           /\ streams'[e].started <=> streams[e].started
                           /\ streams'[e].cleared <=> streams[e].cleared
                           /\ Finished(streams[e]) => Finished(streams'[e])
   BY <2>1 DEF Kin
 <2> QED BY <1>6, <2>1, <2>2, <2>3 DEF BeginsOK
<1>8. \A e \in Epoch : FlagsOK(e)'
  BY FlagsFollow DEF Order
<1> QED BY <1>1, <1>4, <1>5, <1>7, <1>8 DEF Order

LEMMA KinSame ==
  ASSUME VoiceInv, NEW e \in Epoch, FlagsOK(e), streams'[e] = streams[e], settled'[e] = settled[e]
  PROVE  Kin(e)
<1>1. streams[e].live => /\ streams[e].produced \in Nat /\ streams[e].queued \in Nat
                         /\ streams[e].acknowledged => streams[e].cleared
  BY StreamTypes DEF FlagsOK
<1> QED BY <1>1 DEF Kin

LEMMA KinAlike ==
  ASSUME VoiceInv, NEW e \in Epoch, FlagsOK(e), Alike(e), settled'[e] = settled[e]
  PROVE  Kin(e)
<1>1. streams[e].live => /\ streams[e].produced \in Nat /\ streams[e].queued \in Nat
                         /\ streams[e].acknowledged => streams[e].cleared
  BY StreamTypes DEF FlagsOK
<1> QED BY <1>1 DEF Kin, Alike, SameCounts, SameClears, SameStarts, Finished

\* A step that leaves the streams and their messages alone.
LEMMA AsideOrder ==
  ASSUME VoiceInv, VoiceInv', Order, UNCHANGED <<streams, settled, epoch, down, outbound>>,
         UNCHANGED <<dev, ws>> \/ WsOpen \/ WsPublish \/ WsCleared
  PROVE  Order'
<1>1. \A e \in Epoch : Kin(e)
  BY KinSame DEF Order
<1>2. Current' = Current /\ Last' = Last /\ Expected' = Expected /\ (Ended' <=> Ended)
  BY ViewStays
<1>3. Wire' = Wire
  BY DEF Wire
<1>4. PICK h : Thin(h, 0)
  BY <1>3, SameThin
<1>5. CallsOK'
 <2>1. /\ dev \in Dev /\ ws \in Ws /\ DeviceOK
       /\ dev.cleared <= dev.last /\ (dev.current # 0 => dev.cleared < dev.current)
   BY DEF VoiceInv, VoiceTypes, DeviceTypes, Order, CallsOK
 <2>2. /\ dev.cleared \in Nat /\ dev.last \in Nat /\ dev.current \in Nat /\ ws.epoch \in Nat
   BY <2>1, EpochNat DEF Dev, Ws
 <2>3. CASE dev' = dev
   BY <2>1, <2>3 DEF CallsOK
 <2>4. CASE WsPublish
  <3>1. /\ ws.pc = "opened"
        /\ dev' = [dev EXCEPT !.current = ws.epoch, !.last = ws.epoch, !.ended = FALSE, !.expected = 0]
    BY <2>4 DEF WsPublish
  <3>2. dev'.current = ws.epoch /\ dev'.last = ws.epoch /\ dev'.cleared = dev.cleared /\ ws.epoch > dev.last
    BY <2>1, <3>1 DEF Dev, DeviceOK
  <3> QED BY <2>1, <2>2, <3>2 DEF CallsOK
 <2>5. CASE WsCleared
  <3>1. ws.pc = "clearing" /\ dev' = [dev EXCEPT !.cleared = ws.epoch, !.current = 0]
    BY <2>5 DEF WsCleared
  <3>2. /\ dev'.current = 0 /\ dev'.last = dev.last /\ dev'.cleared = ws.epoch
        /\ ws.epoch = dev.current /\ ws.epoch \in Epoch
    BY <2>1, <3>1 DEF Dev, DeviceOK
  <3>3. dev.current = dev.last
    BY <2>1, <3>2, EpochNat DEF DeviceOK
  <3> QED BY <2>1, <2>2, <3>2, <3>3 DEF CallsOK
 <2> QED BY <2>3, <2>4, <2>5 DEF WsOpen
<1>6. 0 \notin 1..Len(Wire)
  BY WireTypes
<1> QED BY <1>1, <1>2, <1>4, <1>5, <1>6, OrderFollows

LEMMA ReaderOrder ==
  ASSUME VoiceInv, VoiceInv', Order, DeviceReader
  PROVE  Order'
<1> DEFINE m == Head(up)
<1>1. /\ UNCHANGED <<epoch, outbound, down, dev, ws>> /\ m.epoch \in Epoch
      /\ Accepted(m) \/ UNCHANGED <<streams, settled>>
  BY ReaderFacts DEF device
<1>2. CASE UNCHANGED <<streams, settled>>
  BY <1>1, <1>2, AsideOrder
<1>3. CASE Accepted(m)
 <2> HIDE DEF m
 <2>1. ASSUME NEW e \in Epoch PROVE Kin(e)
  <3>1. FlagsOK(e)
    BY DEF Order
  <3>2. CASE e # m.epoch
   <4>1. streams'[e] = streams[e] /\ settled'[e] = settled[e]
     BY <1>3, <3>2 DEF Accepted, Alone
   <4> QED BY <3>1, <4>1, KinSame
  <3>3. CASE e = m.epoch
   <4> DEFINE o == streams[e]
              s == streams'[e]
   <4>1. /\ o.live /\ s.live /\ ~o.acknowledged
         /\ s.played = m.played /\ o.played <= m.played /\ m.played <= s.sent
         /\ s.queued = o.queued /\ s.produced = o.produced /\ s.sent = o.sent
         /\ SameStarts(s, o)
         /\ s.end_sent <=> o.end_sent
         /\ s.cleared <=> o.cleared
         /\ s.acknowledged => s.cleared
         /\ m.type = "cleared" => settled'[e] = m.played
         /\ m.type # "cleared" => settled'[e] = settled[e]
     BY <1>1, <1>3, <3>3 DEF Accepted
   <4>2. m.played \in Nat
     BY ReaderFacts DEF m
   <4>3. o.produced \in Nat /\ o.queued \in Nat /\ o.played \in Nat /\ s.sent \in Nat /\ s.produced \in Nat
     BY <4>1, StreamTypes, StreamTypesNext
   <4>4. Finished(o) => Finished(s)
    <5>1. SUFFICES ASSUME Finished(o) PROVE Finished(s)
      OBVIOUS
    <5>2. heard[e] = o.played
      BY <4>1, <5>1, FinishedHeard
    <5>3. s.played <= heard'[e] /\ heard' = heard
      BY <4>1, StreamTypesNext, ReaderFacts
    <5> HIDE DEF o, s
    <5>4. s.played = o.played
      BY <4>1, <4>2, <4>3, <5>2, <5>3
    <5> QED BY <4>1, <5>1, <5>4 DEF Finished
   <4> QED BY <4>1, <4>2, <4>3, <4>4 DEF Kin, SameStarts, Open
  <3> QED BY <3>2, <3>3
 <2>2. Current' = Current /\ Last' = Last /\ Expected' = Expected /\ (Ended' <=> Ended)
   BY <1>1, ViewStays
 <2>3. Wire' = Wire
   BY <1>1 DEF Wire
 <2>4. PICK h : Thin(h, 0)
   BY <2>3, SameThin
 <2>5. CallsOK'
   BY <1>1 DEF CallsOK, Order
 <2>6. 0 \notin 1..Len(Wire)
   BY WireTypes
 <2> QED BY <1>1, <2>1, <2>2, <2>4, <2>5, <2>6, OrderFollows
<1> QED BY <1>1, <1>2, <1>3

LEMMA DoneOrder ==
  ASSUME VoiceInv, VoiceInv', Order, ResponseDone
  PROVE  Order'
<1>1. UNCHANGED <<settled, epoch, outbound, down, dev, ws>> /\ \A e \in Epoch : Alike(e)
  BY DoneFacts DEF device
<1>2. \A e \in Epoch : Kin(e)
  BY <1>1, KinAlike DEF Order
<1>3. Current' = Current /\ Last' = Last /\ Expected' = Expected /\ (Ended' <=> Ended)
  BY <1>1, ViewStays
<1>4. Wire' = Wire
  BY <1>1 DEF Wire
<1>5. PICK h : Thin(h, 0)
  BY <1>4, SameThin
<1>6. CallsOK'
  BY <1>1 DEF CallsOK, Order
<1>7. 0 \notin 1..Len(Wire)
  BY WireTypes
<1> QED BY <1>1, <1>2, <1>3, <1>5, <1>6, <1>7, OrderFollows

LEMMA SenderOrder ==
  ASSUME VoiceInv, VoiceInv', Order, DeviceWriter, over' = "no"
  PROVE  Order'
<1> DEFINE m == Head(outbound)
           o == streams[m.epoch]
           s == streams'[m.epoch]
<1>1. /\ outbound # <<>> /\ outbound' = Tail(outbound) /\ m \in Word
      /\ UNCHANGED <<epoch, settled, dev, ws>>
      /\ \/ m.type \in {"frame", "end"} /\ UNCHANGED <<streams, down>>
         \/ down' = Append(down, m) /\ UNCHANGED streams
         \/ /\ o.live /\ s.live /\ Alone(m.epoch)
            /\ down' = Append(down, m) /\ SameStarts(s, o)
            /\ s.queued = o.queued /\ s.produced = o.produced /\ s.played = o.played
            /\ s.cleared <=> o.cleared
            /\ s.acknowledged <=> o.acknowledged
            /\ o.end_sent => s.end_sent
  BY SenderFacts DEF SentMessage, device
<1>2. m.epoch \in Epoch
  BY <1>1, WordTypes
<1>3. ASSUME NEW e \in Epoch PROVE Kin(e)
 <2>1. FlagsOK(e)
   BY DEF Order
 <2>2. CASE streams'[e] = streams[e]
   BY <1>1, <2>1, <2>2, KinSame
 <2>3. CASE e = m.epoch /\ streams' # streams
  <3>1. /\ o.live /\ s.live /\ SameStarts(s, o)
        /\ s.queued = o.queued /\ s.produced = o.produced /\ s.played = o.played
        /\ s.cleared <=> o.cleared
        /\ s.acknowledged <=> o.acknowledged
        /\ o.end_sent => s.end_sent
    BY <1>1, <2>3
  <3>2. o.produced \in Nat /\ o.queued \in Nat /\ (o.acknowledged => o.cleared)
    BY <1>2, <2>1, <2>3, <3>1, StreamTypes DEF FlagsOK
  <3>3. settled'[e] = settled[e]
    BY <1>1
  <3> HIDE DEF o, s
  <3>4. Finished(o) => Finished(s)
    BY <3>1 DEF Finished
  <3> QED BY <2>3, <3>1, <3>2, <3>3, <3>4 DEF Kin, SameStarts, o, s
 <2> QED BY <1>1, <2>2, <2>3 DEF Alone
<1>4. Current' = Current /\ Last' = Last /\ Expected' = Expected /\ (Ended' <=> Ended)
  BY <1>1, ViewStays
<1>5. CallsOK'
  BY <1>1 DEF CallsOK, Order
<1>6. CASE down' = Append(down, m)
 <2>1. Len(Wire') = Len(Wire) /\ \A i \in 1..Len(Wire) : Wire'[i] = Wire[i]
   BY <1>1, <1>6, WireMoved
 <2>2. PICK h : Thin(h, 0)
   BY <2>1, SameThin
 <2>3. 0 \notin 1..Len(Wire)
   BY WireTypes
 <2> QED BY <1>1, <1>3, <1>4, <1>5, <2>2, <2>3, OrderFollows
<1>7. CASE m.type \in {"frame", "end"} /\ UNCHANGED down
 <2>1. Removed(Len(down) + 1) /\ Wire[Len(down) + 1] = m
   BY <1>1, <1>7, WireDropped
 <2>2. PICK h : Thin(h, Len(down) + 1)
   BY <2>1, RemovedThin
 <2>3. Wire[Len(down) + 1].type # "start"
   BY <1>7, <2>1
 <2> QED BY <1>1, <1>3, <1>4, <1>5, <2>2, <2>3, OrderFollows
<1> QED BY <1>1, <1>6, <1>7

(***************************************************************************)
(* What the WebSocket task makes of the message it takes.                  *)
(***************************************************************************)

LEMMA TakenFacts ==
  ASSUME VoiceInv, VoiceInv', WsStart \/ WsClear \/ WsEnd \/ WsFrame
  PROVE  TakenFrom(Head(down))
<1>1. /\ over = "no" /\ ws.pc = "idle" /\ down # <<>> /\ down' = Tail(down)
      /\ UNCHANGED <<streams, settled, epoch, retired, outbound, up, controls, sample, heard>>
  BY DEF WsStart, WsClear, WsEnd, WsFrame, Got, Take, proxy
<1>2. /\ Removed(1) /\ Head(down) = Wire[1] /\ 1 \in 1..Len(Wire)
      /\ \A i \in 1..Len(Wire') : Wire'[i] = Wire[i + 1] /\ i + 1 \in 1..Len(Wire)
  BY <1>1, WireTaken
<1>3. Head(down) \in Word
  BY <1>2, WordAt
<1>4. Current = dev.current /\ Last = dev.last /\ Expected = dev.expected /\ (Ended <=> dev.ended)
  BY <1>1 DEF Current, Last, Expected, Ended, Begins
<1> QED BY <1>1, <1>2, <1>3, <1>4 DEF TakenFrom

LEMMA StartFacts ==
  ASSUME VoiceInv, VoiceInv', WsStart, over' = "no"
  PROVE  LET m == Head(down) IN
         /\ TakenFrom(m) /\ m = Start(m.epoch) /\ m.type = "start" /\ m.epoch \in Epoch
         /\ dev' = dev /\ m.epoch > dev.last /\ dac' = Flushed
         /\ ws'.pc = "flushed" /\ ws'.epoch = m.epoch
         /\ Current' = m.epoch /\ Last' = m.epoch /\ Expected' = 0 /\ ~Ended'
<1> DEFINE m == Head(down)
<1>1. TakenFrom(m) /\ m.type = "start"
  BY TakenFacts DEF WsStart, Got
<1>2. m \in Word
  BY <1>1 DEF TakenFrom
<1>3. m = Start(m.epoch) /\ m.epoch \in Epoch
  BY <1>1, <1>2, WordTypes
<1>4. /\ ~(m.epoch <= dev.last) /\ dac' = Flushed /\ dev' = dev
      /\ ws' = [pc |-> "flushed", epoch |-> m.epoch, played |-> 0]
  BY DEF WsStart, Rejected, Fail
<1>5. m.epoch > dev.last
  BY <1>3, <1>4, ViewTypes, EpochNat
<1>6. ws'.pc = "flushed" /\ ws'.epoch = m.epoch
  BY <1>4
<1>7. Current' = m.epoch /\ Last' = m.epoch /\ Expected' = 0 /\ ~Ended'
  BY <1>6 DEF Current, Last, Expected, Ended, Begins
<1> QED BY <1>1, <1>3, <1>4, <1>5, <1>6, <1>7

LEMMA ClearedFacts ==
  ASSUME VoiceInv, VoiceInv', WsClear, over' = "no"
  PROVE  LET m == Head(down) IN
         /\ TakenFrom(m) /\ m = Clear(m.epoch) /\ m.type = "clear" /\ m.epoch \in Epoch
         /\ dev' = dev /\ m.epoch = Current /\ dac' = Flushed
         /\ ws'.pc = "clearing" /\ ws'.epoch = m.epoch /\ ws'.played = Played(m.epoch)
         /\ Current' = 0 /\ Last' = Last /\ Expected' = Expected /\ (Ended' <=> Ended)
<1> DEFINE m == Head(down)
<1>1. TakenFrom(m) /\ m.type = "clear"
  BY TakenFacts DEF WsClear, Got
<1>2. m \in Word
  BY <1>1 DEF TakenFrom
<1>3. m = Clear(m.epoch) /\ m.epoch \in Epoch
  BY <1>1, <1>2, WordTypes
<1>4. /\ m.epoch = dev.current /\ dac' = Flushed /\ dev' = dev
      /\ ws' = [pc |-> "clearing", epoch |-> m.epoch, played |-> Played(m.epoch)]
  BY DEF WsClear, Rejected, Fail
<1>5. ws'.pc = "clearing" /\ ws'.epoch = m.epoch /\ ws'.played = Played(m.epoch)
  BY <1>4
<1>6. Current' = 0 /\ Last' = dev.last /\ Expected' = dev.expected /\ (Ended' <=> dev.ended)
  BY <1>4, <1>5 DEF Current, Last, Expected, Ended, Begins
<1> QED BY <1>1, <1>3, <1>4, <1>5, <1>6 DEF TakenFrom

LEMMA EndedFacts ==
  ASSUME VoiceInv, VoiceInv', WsEnd, over' = "no"
  PROVE  LET m == Head(down) IN
         /\ TakenFrom(m) /\ m.type = "end" /\ m.epoch = Current /\ m.epoch \in Epoch
         /\ UNCHANGED <<ws, dac>>
         /\ dev'.current = dev.current /\ dev'.last = dev.last /\ dev'.cleared = dev.cleared
         /\ Current' = Current /\ Last' = Last /\ Expected' = Expected /\ Ended'
<1> DEFINE m == Head(down)
<1>1. TakenFrom(m) /\ m.type = "end"
  BY TakenFacts DEF WsEnd, Got
<1>2. m \in Word /\ m.epoch \in Epoch
  BY <1>1, WordTypes DEF TakenFrom
<1>4. m.epoch = dev.current /\ dev' = [dev EXCEPT !.ended = TRUE] /\ UNCHANGED <<ws, dac>>
  BY DEF WsEnd, Rejected, Fail
<1>5. /\ dev'.current = dev.current /\ dev'.last = dev.last /\ dev'.cleared = dev.cleared
      /\ dev'.ended = TRUE /\ dev'.expected = dev.expected
 <2>1. dev \in Dev
   BY DEF VoiceInv, VoiceTypes, DeviceTypes
 <2> QED BY <1>4, <2>1 DEF Dev
<1>6. Current' = Current /\ Last' = Last /\ Expected' = Expected /\ Ended'
  BY <1>1, <1>4, <1>5 DEF Current, Last, Expected, Ended, Begins, TakenFrom
<1> QED BY <1>1, <1>2, <1>4, <1>5, <1>6 DEF TakenFrom

\* No frame is late: what was on its way before a clear is before it.
LEMMA FrameFacts ==
  ASSUME VoiceInv, VoiceInv', Order, WsFrame, over' = "no"
  PROVE  LET m == Head(down) IN
         /\ TakenFrom(m) /\ m.type = "frame" /\ m.epoch \in Epoch /\ m.n \in Nat
         /\ m = Frame(m.epoch, m.n) /\ ws' = ws
         /\ m.epoch = Current /\ m.n = Expected + 1 /\ dac.epoch = m.epoch /\ dac'.epoch = m.epoch
         /\ dac'.played = dac.played /\ dac'.pending = dac.pending + 1
         /\ dev'.current = dev.current /\ dev'.last = dev.last /\ dev'.cleared = dev.cleared
         /\ Current' = Current /\ Last' = Last /\ Expected' = m.n /\ (Ended' <=> Ended)
<1> DEFINE m == Head(down)
<1>1. TakenFrom(m) /\ m.type = "frame"
  BY TakenFacts DEF WsFrame, Got
<1>2. m \in Word /\ m.epoch \in Epoch /\ m.n \in Nat /\ m = Frame(m.epoch, m.n)
  BY <1>1, WordTypes DEF TakenFrom
<1>3. AtCurrent(m)
 <2>1. AtCurrent(Wire[1]) \/ AfterStart(1)
   BY <1>1 DEF Order, Placed, TakenFrom
 <2>2. ASSUME AfterStart(1) PROVE FALSE
  <3>1. PICK i \in 1..1 : Wire[i] = Start(Wire[1].epoch)
    BY <2>2 DEF AfterStart
  <3>2. Wire[1] = Start(Wire[1].epoch)
    BY <3>1
  <3> QED BY <1>1, <3>2 DEF TakenFrom, Start
 <2> QED BY <1>1, <2>1, <2>2 DEF TakenFrom
<1>4. m.epoch = dev.current /\ dev.current # 0
  BY <1>1, <1>2, <1>3, EpochNat DEF AtCurrent, TakenFrom
<1>5. ~Late(m)
 <2>1. dev.cleared < dev.current /\ dev.current = dev.last
   BY <1>4 DEF Order, CallsOK, VoiceInv, DeviceOK
 <2> QED BY <1>4, <2>1, ViewTypes DEF Late
<1>6. /\ m.epoch = dac.epoch /\ m.n = dev.expected + 1 /\ ws' = ws
      /\ dev' = [dev EXCEPT !.expected = m.n]
      /\ dac' = [dac EXCEPT !.ring = Append(@, m.n), !.pending = @ + 1]
  BY <1>5 DEF WsFrame, Rejected, Fail
<1>7. /\ dac'.epoch = dac.epoch /\ dac'.played = dac.played /\ dac'.pending = dac.pending + 1
 <2>1. dac \in Dac
   BY DEF VoiceInv, VoiceTypes, DeviceTypes
 <2> QED BY <1>6, <2>1 DEF Dac
<1>8. /\ dev'.current = dev.current /\ dev'.last = dev.last /\ dev'.cleared = dev.cleared
      /\ dev'.ended = dev.ended /\ dev'.expected = m.n
 <2>1. dev \in Dev
   BY DEF VoiceInv, VoiceTypes, DeviceTypes
 <2> QED BY <1>6, <2>1 DEF Dev
<1>9. Current' = Current /\ Last' = Last /\ Expected' = m.n /\ (Ended' <=> Ended)
  BY <1>1, <1>6, <1>8 DEF Current, Last, Expected, Ended, Begins, TakenFrom
<1> QED BY <1>1, <1>2, <1>4, <1>6, <1>7, <1>8, <1>9 DEF TakenFrom

LEMMA TakenThin ==
  ASSUME VoiceInv, NEW m, TakenFrom(m)
  PROVE  \E h : Thin(h, 1)
BY RemovedThin DEF TakenFrom

\* The others are still after the start of their epoch.
LEMMA AfterStays ==
  ASSUME VoiceInv, VoiceInv', NEW m, TakenFrom(m), NEW j \in 1..Len(Wire'), AfterStart(j + 1),
         m # Start(Wire[j + 1].epoch), Last' = Last \/ Wire[j + 1].epoch > Last'
  PROVE  AfterStart(j)'
<1>1. /\ Wire'[j] = Wire[j + 1] /\ j + 1 \in 1..Len(Wire) /\ Wire[1] = m
      /\ \A i \in 1..Len(Wire') : Wire'[i] = Wire[i + 1]
      /\ Len(Wire') = Len(Wire) - 1
  BY DEF TakenFrom, Removed
<1>2. PICK i \in 1..(j + 1) : Wire[i] = Start(Wire[j + 1].epoch)
  BY DEF AfterStart
<1>3. i # 1
  BY <1>1, <1>2
<1>4. Len(Wire') \in Nat
  BY WireTypesNext
<1>5. i - 1 \in 1..j /\ i - 1 \in 1..Len(Wire') /\ (i - 1) + 1 = i
  BY <1>1, <1>3, <1>4
<1>6. Wire'[i - 1] = Wire[i]
 <2>1. Wire'[i - 1] = Wire[(i - 1) + 1]
   BY <1>1, <1>5
 <2> QED BY <1>5, <2>1
<1> QED BY <1>1, <1>2, <1>5, <1>6 DEF AfterStart

LEMMA Follows ==
  ASSUME VoiceInv, Order, NEW m, TakenFrom(m), NEW j \in 1..Len(Wire')
  PROVE  Precedes(m, Wire[j + 1]) /\ m.epoch \in Nat /\ Wire[j + 1].epoch \in Epoch /\ Wire[j + 1].epoch \in Nat
<1>1. Wire[1] = m /\ 1 \in 1..Len(Wire) /\ j + 1 \in 1..Len(Wire) /\ 1 < j + 1
  BY DEF TakenFrom
<1> QED BY <1>1, WordAt DEF Order, InOrder

LEMMA TakenOrder ==
  ASSUME VoiceInv, VoiceInv', Order, NEW m, TakenFrom(m), m.type # "start", Last' = Last,
         CallsOK', Placed',
         \A e \in Epoch : e = Current /\ streams[e].live /\ ~streams[e].cleared /\ (Ended => streams[e].done) =>
           e = Current' /\ (Ended' => streams[e].done)
  PROVE  Order'
<1>1. PICK h : Thin(h, 1)
  BY TakenThin
<1>2. InOrder'
  BY <1>1, ThinInOrder DEF Order
<1>3. UNCHANGED <<streams, settled, epoch>>
  BY DEF TakenFrom
<1>4. \A f \in Epoch : Unbegun(f) => Unbegun(f)'
  BY <1>1, ThinUnbegun
<1>5. WordsOK'
 <2>1. \A i \in 1..Len(Wire') : Wire'[i] = Wire[h[i]] /\ h[i] \in 1..Len(Wire)
   BY <1>1 DEF Thin
 <2>2. WordsOK
   BY DEF Order
 <2>3. ASSUME NEW i \in 1..Len(Wire'), streams[Wire'[i].epoch].live
       PROVE  /\ Wire'[i].type = "end" => streams[Wire'[i].epoch].done
              /\ Wire'[i].type = "clear" => streams[Wire'[i].epoch].cleared
  <3>1. PICK l \in 1..Len(Wire) : Wire'[i] = Wire[l]
    BY <2>1
  <3>2. /\ Wire[l].type = "end" => streams[Wire[l].epoch].done
        /\ Wire[l].type = "clear" => streams[Wire[l].epoch].cleared
    BY <2>2, <2>3, <3>1 DEF WordsOK
  <3> QED BY <3>1, <3>2
 <2> QED BY <1>3, <2>3 DEF WordsOK
<1>6. \A e \in Epoch : Kin(e)
  BY <1>3, KinSame DEF Order
<1>7. \A e \in Epoch : FlagsOK(e)'
  BY <1>3, <1>6, FlagsFollow DEF Order
<1>8. ASSUME NEW e \in Epoch PROVE BeginsOK(e)'
 <2>1. BeginsOK(e)
   BY DEF Order
 <2>2. UnderWay(e) /\ streams[e].live /\ ~streams[e].cleared => UnderWay(e)'
  <3>1. ASSUME e > Last, NEW i \in 1..Len(Wire), Wire[i] = Start(e)
        PROVE  \E j \in 1..Len(Wire') : Wire'[j] = Start(e)
   <4>1. Wire[1] = m
     BY DEF TakenFrom
   <4>2. Start(e).type = "start"
     BY DEF Start
   <4>3. i # 1
     BY <3>1, <4>1, <4>2
   <4> QED BY <1>1, <3>1, <4>3 DEF Thin
  <3> QED BY <1>3, <3>1 DEF UnderWay
 <2> QED BY <1>3, <1>4, <2>1, <2>2 DEF BeginsOK
<1> QED BY <1>2, <1>5, <1>7, <1>8 DEF Order

LEMMA ClearOrder == ASSUME VoiceInv, VoiceInv', Order, WsClear, over' = "no" PROVE Order'
<1>1. PICK m : m = Head(down)
  OBVIOUS
<1>2. /\ TakenFrom(m) /\ m = Clear(m.epoch) /\ m.type = "clear" /\ m.epoch \in Epoch
      /\ dev' = dev /\ m.epoch = Current
      /\ Current' = 0 /\ Last' = Last /\ Expected' = Expected /\ (Ended' <=> Ended)
  BY <1>1, ClearedFacts
<1>3. Placed'
 <2>1. ASSUME NEW j \in 1..Len(Wire') PROVE AfterStart(j)'
  <3>1. AtCurrent(Wire[j + 1]) \/ AfterStart(j + 1)
    BY <1>2 DEF Order, Placed, TakenFrom
  <3>2. Precedes(m, Wire[j + 1]) /\ m.epoch \in Nat /\ Wire[j + 1].epoch \in Nat
    BY <1>2, Follows
  <3>3. ~AtCurrent(Wire[j + 1])
    BY <1>2, <3>2 DEF AtCurrent, Precedes
  <3>4. m # Start(Wire[j + 1].epoch)
    BY <1>2 DEF Start
  <3> QED BY <1>2, <3>1, <3>3, <3>4, AfterStays
 <2> QED BY <2>1 DEF Placed
<1>4. CallsOK'
  BY <1>2 DEF Order, CallsOK
<1>5. streams[m.epoch].live => streams[m.epoch].cleared
  BY <1>2 DEF Order, WordsOK, TakenFrom
<1>6. m.type # "start"
  BY <1>2
<1> QED BY <1>2, <1>3, <1>4, <1>5, <1>6, TakenOrder

LEMMA EndOrder == ASSUME VoiceInv, VoiceInv', Order, WsEnd, over' = "no" PROVE Order'
<1>1. PICK m : m = Head(down)
  OBVIOUS
<1>2. /\ TakenFrom(m) /\ m.type = "end" /\ m.epoch = Current /\ m.epoch \in Epoch
      /\ dev'.current = dev.current /\ dev'.last = dev.last /\ dev'.cleared = dev.cleared
      /\ Current' = Current /\ Last' = Last /\ Expected' = Expected /\ Ended'
  BY <1>1, EndedFacts
<1>3. Placed'
 <2>1. ASSUME NEW j \in 1..Len(Wire') PROVE AtCurrent(Wire[j])' \/ AfterStart(j)'
  <3>1. AtCurrent(Wire[j + 1]) \/ AfterStart(j + 1)
    BY <1>2 DEF Order, Placed, TakenFrom
  <3>2. Precedes(m, Wire[j + 1]) /\ m.epoch \in Nat /\ Wire[j + 1].epoch \in Nat
    BY <1>2, Follows
  <3>3. m # Start(Wire[j + 1].epoch)
    BY <1>2 DEF Start
  <3>4. AfterStart(j + 1) => AfterStart(j)'
    BY <1>2, <3>3, AfterStays
  <3>5. Wire'[j] = Wire[j + 1]
    BY <1>2 DEF TakenFrom
  <3>6. AtCurrent(Wire[j + 1]) => AtCurrent(Wire[j])'
    BY <1>2, <3>2, <3>5 DEF AtCurrent, Precedes
  <3> QED BY <3>1, <3>4, <3>6
 <2> QED BY <2>1 DEF Placed
<1>4. CallsOK'
  BY <1>2 DEF Order, CallsOK
<1>5. streams[m.epoch].live => streams[m.epoch].done
  BY <1>2 DEF Order, WordsOK, TakenFrom
<1>6. m.type # "start"
  BY <1>2
<1> QED BY <1>2, <1>3, <1>4, <1>5, <1>6, TakenOrder

LEMMA FrameOrder == ASSUME VoiceInv, VoiceInv', Order, WsFrame, over' = "no" PROVE Order'
<1>1. PICK m : m = Head(down)
  OBVIOUS
<1>2. /\ TakenFrom(m) /\ m.type = "frame" /\ m.epoch = Current /\ m.epoch \in Epoch /\ m.n \in Nat
      /\ dev'.current = dev.current /\ dev'.last = dev.last /\ dev'.cleared = dev.cleared
      /\ Current' = Current /\ Last' = Last /\ Expected' = m.n /\ (Ended' <=> Ended)
  BY <1>1, FrameFacts
<1>3. Placed'
 <2>1. ASSUME NEW j \in 1..Len(Wire') PROVE AtCurrent(Wire[j])' \/ AfterStart(j)'
  <3>1. AtCurrent(Wire[j + 1]) \/ AfterStart(j + 1)
    BY <1>2 DEF Order, Placed, TakenFrom
  <3>2. Precedes(m, Wire[j + 1]) /\ m.epoch \in Nat /\ Wire[j + 1].epoch \in Nat
    BY <1>2, Follows
  <3>3. m # Start(Wire[j + 1].epoch)
    BY <1>2 DEF Start
  <3>4. AfterStart(j + 1) => AfterStart(j)'
    BY <1>2, <3>3, AfterStays
  <3>5. Wire'[j] = Wire[j + 1]
    BY <1>2 DEF TakenFrom
  <3>6. AtCurrent(Wire[j + 1]) => AtCurrent(Wire[j])'
   <4>1. AtCurrent(Wire[j + 1]) /\ Wire[j + 1].type = "frame" => Wire[j + 1].n > m.n
    <5>1. j + 1 \in 1..Len(Wire)
      BY <1>2 DEF TakenFrom
    <5>2. Wire[j + 1].type = "frame" => Wire[j + 1].n \in Nat
      BY <5>1, WordAt
    <5> QED BY <1>2, <3>2, <5>2 DEF AtCurrent, Precedes
   <4> QED BY <1>2, <3>5, <4>1 DEF AtCurrent
  <3> QED BY <3>1, <3>4, <3>6
 <2> QED BY <2>1 DEF Placed
<1>4. CallsOK'
  BY <1>2 DEF Order, CallsOK
<1>6. m.type # "start"
  BY <1>2
<1> QED BY <1>2, <1>3, <1>4, <1>6, TakenOrder

LEMMA StartOrder == ASSUME VoiceInv, VoiceInv', Order, WsStart, over' = "no" PROVE Order'
<1>1. PICK m : m = Head(down)
  OBVIOUS
<1> DEFINE g == m.epoch
<1>2. /\ TakenFrom(m) /\ m = Start(g) /\ m.type = "start" /\ g \in Epoch
      /\ dev' = dev /\ g > dev.last
      /\ Current' = g /\ Last' = g /\ Expected' = 0 /\ ~Ended'
  BY <1>1, StartFacts
<1>3. /\ UNCHANGED <<streams, settled, epoch>> /\ Last = dev.last /\ Current = dev.current
      /\ Wire[1] = m /\ 1 \in 1..Len(Wire)
  BY <1>2 DEF TakenFrom
<1>4. g \in Nat /\ Last \in Nat /\ Current \in Nat /\ g > Last /\ Current <= Last
  BY <1>2, <1>3, ViewTypes, EpochNat
<1> HIDE DEF g
<1>5. PICK h : Thin(h, 1)
  BY <1>2, TakenThin
<1>6. InOrder'
  BY <1>5, ThinInOrder DEF Order
<1>7. Placed'
 <2>1. ASSUME NEW j \in 1..Len(Wire') PROVE AtCurrent(Wire[j])' \/ AfterStart(j)'
  <3>1. AtCurrent(Wire[j + 1]) \/ AfterStart(j + 1)
    BY <1>2 DEF Order, Placed, TakenFrom
  <3>2. Precedes(m, Wire[j + 1]) /\ Wire[j + 1].epoch \in Nat
    BY <1>2, Follows
  <3>3. Wire'[j] = Wire[j + 1] /\ j + 1 \in 1..Len(Wire)
    BY <1>2 DEF TakenFrom
  <3>4. CASE Wire[j + 1].epoch = g
   <4>1. Wire[j + 1].type # "start"
     BY <1>4, <3>2, <3>4 DEF Precedes, g
   <4>2. Wire[j + 1].type = "frame" => Wire[j + 1].n > 0
     BY <3>3, WordAt
   <4> QED BY <1>2, <3>3, <3>4, <4>1, <4>2 DEF AtCurrent
  <3>5. CASE Wire[j + 1].epoch # g
   <4>1. Wire[j + 1].epoch > g
     BY <1>4, <3>2, <3>5 DEF Precedes, g
   <4>2. AfterStart(j + 1)
     BY <1>4, <3>1, <3>2, <4>1 DEF AtCurrent
   <4>3. m # Start(Wire[j + 1].epoch)
     BY <1>2, <3>5 DEF Start
   <4> QED BY <1>2, <4>1, <4>2, <4>3, AfterStays
  <3> QED BY <3>4, <3>5
 <2> QED BY <2>1 DEF Placed
<1>8. WordsOK'
 <2>1. \A i \in 1..Len(Wire') : Wire'[i] = Wire[h[i]] /\ h[i] \in 1..Len(Wire)
   BY <1>5 DEF Thin
 <2>2. WordsOK
   BY DEF Order
 <2>3. ASSUME NEW i \in 1..Len(Wire'), streams[Wire'[i].epoch].live
       PROVE  /\ Wire'[i].type = "end" => streams[Wire'[i].epoch].done
              /\ Wire'[i].type = "clear" => streams[Wire'[i].epoch].cleared
   BY <2>1, <2>2, <2>3 DEF WordsOK
 <2> QED BY <1>3, <2>3 DEF WordsOK
<1>9. CallsOK'
  BY <1>2 DEF Order, CallsOK
<1>10. \A e \in Epoch : FlagsOK(e)'
 <2>1. \A e \in Epoch : Kin(e)
   BY <1>3, KinSame DEF Order
 <2> QED BY <1>3, <2>1, FlagsFollow DEF Order
<1>11. g <= epoch
 <2>1. BeginsOK(g)
   BY <1>2 DEF Order
 <2>2. ~Unbegun(g)
   BY <1>3 DEF Unbegun, g
 <2>3. epoch \in Nat
   BY <1>2, HeardTypes
 <2> QED BY <1>4, <2>1, <2>2, <2>3 DEF BeginsOK
<1>12. ASSUME NEW e \in Epoch, Unbegun(e), e > g PROVE Unbegun(e)'
 <2>1. \A i \in 1..Len(Wire') : Wire'[i].epoch # e
   BY <1>2, <1>12 DEF TakenFrom, Unbegun
 <2> QED BY <1>2, <1>12, <2>1 DEF Unbegun
<1>13. ASSUME NEW e \in Epoch PROVE BeginsOK(e)'
 <2>1. BeginsOK(e) /\ e \in Nat /\ epoch \in Nat /\ BeginsOK(g)
   BY <1>2, HeardTypes DEF Order
 <2>2. ASSUME NEW f \in Epoch, Unbegun(f) PROVE f # g
   BY <1>3, <2>2 DEF Unbegun, g
 <2>3. e > epoch' => Unbegun(e)'
   BY <1>3, <1>4, <1>11, <1>12, <2>1 DEF BeginsOK
 \* Were it before g, g could not have been begun.
 <2>4. ASSUME streams[e].live, ~streams[e].started PROVE Unbegun(e)'
  <3>1. Unbegun(e) /\ \A f \in Epoch : f > e => Unbegun(f)
    BY <2>1, <2>4 DEF BeginsOK
  <3>2. e > g
    BY <1>2, <1>4, <2>1, <2>2, <3>1
  <3> QED BY <1>12, <3>1, <3>2
 <2>5. ASSUME streams[e].live, ~streams[e].started \/ (~streams[e].cleared /\ ~Finished(streams[e])),
              NEW f \in Epoch, f > e
       PROVE  Unbegun(f)'
  <3>1. \A k \in Epoch : k > e => Unbegun(k)
    BY <2>1, <2>5 DEF BeginsOK
  <3>2. f # g /\ ~(g > e)
    BY <1>2, <2>2, <2>5, <3>1
  <3>3. f \in Nat
    BY EpochNat
  <3>4. f > g
    BY <1>4, <2>1, <2>5, <3>2, <3>3
  <3> QED BY <1>12, <2>5, <3>1, <3>4
 <2>6. ASSUME streams[e].live, streams[e].started, ~streams[e].cleared, ~Finished(streams[e])
       PROVE  UnderWay(e)'
  <3>1. UnderWay(e) /\ \A k \in Epoch : k > e => Unbegun(k)
    BY <2>1, <2>6 DEF BeginsOK
  <3>2. ~(g > e)
    BY <1>2, <2>2, <3>1
  <3>3. e > Last /\ \E i \in 1..Len(Wire) : Wire[i] = Start(e)
    BY <1>4, <2>1, <3>1, <3>2 DEF UnderWay
  <3>4. CASE e = g
    BY <1>2, <3>4 DEF UnderWay
  <3>5. CASE e # g
   <4>1. PICK i \in 1..Len(Wire) : Wire[i] = Start(e)
     BY <3>3
   <4>2. i # 1
     BY <1>2, <1>3, <3>5, <4>1 DEF Start
   <4>3. \E j \in 1..Len(Wire') : Wire'[j] = Start(e)
     BY <1>5, <4>1, <4>2 DEF Thin
   <4>4. e > g
     BY <1>4, <2>1, <3>2, <3>5
   <4> QED BY <1>2, <4>3, <4>4 DEF UnderWay
  <3> QED BY <3>4, <3>5
 <2> QED BY <1>3, <2>3, <2>4, <2>5, <2>6 DEF BeginsOK
<1> QED BY <1>6, <1>7, <1>8, <1>9, <1>10, <1>13 DEF Order

LEMMA WireWithin ==
  ASSUME VoiceInv, NEW e \in Epoch, NEW k \in Nat, NoMore(e, k),
         NEW i \in 1..Len(Wire), Wire[i].type = "frame", Wire[i].epoch = e
  PROVE  Wire[i].n <= k
<1>1. Within(outbound, e, k) /\ Within(down, e, k)
  BY DEF NoMore
<1>2. /\ Len(down) \in Nat /\ Len(outbound) \in Nat /\ Len(Wire) = Len(down) + Len(outbound)
      /\ \A j \in 1..Len(down) : Wire[j] = down[j]
      /\ \A j \in 1..Len(outbound) : Wire[Len(down) + j] = outbound[j]
  BY WireTypes
<1>3. CASE i \in 1..Len(down)
  BY <1>1, <1>2, <1>3 DEF Within
<1>4. CASE i \notin 1..Len(down)
 <2>1. i - Len(down) \in 1..Len(outbound) /\ Len(down) + (i - Len(down)) = i
   BY <1>2, <1>4
 <2>2. Wire[i] = outbound[i - Len(down)]
   BY <1>2, <2>1
 <2> QED BY <1>1, <2>1, <2>2 DEF Within
<1> QED BY <1>3, <1>4

LEMMA ExpectedBound ==
  ASSUME VoiceInv, NEW e \in Epoch, NEW k \in Nat, Current = e, dac.epoch = e => dac.played + dac.pending <= k
  PROVE  Expected <= k
<1>1. e # 0 /\ DeviceOK /\ dev.expected \in Nat /\ ws.pc \in {"idle", "flushed", "opened", "clearing"}
  BY EpochNat DEF VoiceInv, VoiceTypes, DeviceTypes, Dev, Ws
<1>2. CASE Begins
  BY <1>2 DEF Expected
<1>3. CASE ~Begins
 <2>1. ws.pc = "idle" /\ dev.current = e
   BY <1>1, <1>3 DEF Current, Begins
 <2>2. dac.epoch = e /\ dac.played + dac.pending = dev.expected
   BY <1>1, <2>1 DEF DeviceOK
 <2> QED BY <1>3, <2>2 DEF Expected
<1> QED BY <1>2, <1>3

\* The answer that is being written is the last on the wire.
LEMMA WritersLast ==
  ASSUME VoiceInv, Order, NEW e \in Epoch, streams[e].live, ~streams[e].cleared, ~Finished(streams[e]),
         NEW i \in 1..Len(Wire)
  PROVE  Wire[i].epoch < e \/ (Wire[i].epoch = e /\ streams[e].started /\ Wire[i].type # "clear")
<1>1. BeginsOK(e) /\ WordsOK
  BY DEF Order
<1>2. \A f \in Epoch : f > e => Unbegun(f)
  BY <1>1 DEF BeginsOK
<1>3. Wire[i].epoch \in Epoch /\ Wire[i].epoch \in Nat /\ e \in Nat
  BY WordAt, EpochNat
<1>4. ~(Wire[i].epoch > e)
  BY <1>2, <1>3 DEF Unbegun
<1>5. CASE Wire[i].epoch = e
 <2>1. ~Unbegun(e)
   BY <1>5 DEF Unbegun
 <2> QED BY <1>1, <1>5, <2>1 DEF BeginsOK, WordsOK
<1> QED BY <1>3, <1>4, <1>5

LEMMA AddedAt ==
  ASSUME VoiceInv, VoiceInv', NEW m, Added(m), NEW j \in 1..Len(Wire')
  PROVE  \/ j \in 1..Len(Wire) /\ Wire'[j] = Wire[j]
         \/ j = Len(Wire) + 1 /\ Wire'[j] = m
<1>1. Len(Wire) \in Nat /\ Len(Wire') = Len(Wire) + 1
  BY WireTypes DEF Added
<1> QED BY <1>1 DEF Added

LEMMA AddedInOrder ==
  ASSUME VoiceInv, VoiceInv', NEW m, Added(m), InOrder,
         \A i \in 1..Len(Wire) : Precedes(Wire[i], m)
  PROVE  InOrder'
<1>1. Len(Wire) \in Nat /\ Len(Wire') = Len(Wire) + 1
  BY WireTypes DEF Added
<1>2. ASSUME NEW i \in 1..Len(Wire'), NEW j \in 1..Len(Wire'), i < j PROVE Precedes(Wire'[i], Wire'[j])
 <2>1. i \in 1..Len(Wire) /\ Wire'[i] = Wire[i]
   BY <1>1, <1>2 DEF Added
 <2>2. CASE j \in 1..Len(Wire) /\ Wire'[j] = Wire[j]
   BY <1>2, <2>1, <2>2 DEF InOrder
 <2>3. CASE Wire'[j] = m
   BY <2>1, <2>3
 <2> QED BY <2>2, <2>3, AddedAt
<1> QED BY <1>2 DEF InOrder, Precedes

LEMMA AddedPlaced ==
  ASSUME VoiceInv, VoiceInv', NEW m, Added(m), Placed,
         Current' = Current, Last' = Last, Expected' = Expected, Ended' <=> Ended,
         \/ AtCurrent(m)
         \/ m.epoch > Last /\ (m = Start(m.epoch) \/ \E i \in 1..Len(Wire) : Wire[i] = Start(m.epoch))
  PROVE  Placed'
<1>1. /\ Len(Wire) \in Nat /\ Len(Wire') = Len(Wire) + 1 /\ Wire'[Len(Wire) + 1] = m
      /\ \A i \in 1..Len(Wire) : Wire'[i] = Wire[i]
  BY WireTypes DEF Added
<1>2. ASSUME NEW j \in 1..Len(Wire') PROVE AtCurrent(Wire[j])' \/ AfterStart(j)'
 <2>1. CASE j \in 1..Len(Wire) /\ Wire'[j] = Wire[j]
  <3>1. AtCurrent(Wire[j]) \/ AfterStart(j)
    BY <2>1 DEF Placed
  <3>2. AtCurrent(Wire[j]) => AtCurrent(Wire[j])'
    BY <2>1 DEF AtCurrent
  <3>3. AfterStart(j) => AfterStart(j)'
   <4>1. \A i \in 1..j : i \in 1..Len(Wire)
     BY <1>1, <2>1
   <4> QED BY <1>1, <2>1, <4>1 DEF AfterStart
  <3> QED BY <3>1, <3>2, <3>3
 <2>2. CASE j = Len(Wire) + 1 /\ Wire'[j] = m
  <3>1. AtCurrent(m) => AtCurrent(Wire[j])'
    BY <2>2 DEF AtCurrent
  <3>2. ASSUME m.epoch > Last, m = Start(m.epoch) PROVE AfterStart(j)'
   <4>1. j \in 1..j
     BY <1>1, <2>2
   <4> QED BY <2>2, <3>2, <4>1 DEF AfterStart
  <3>3. ASSUME m.epoch > Last, NEW i \in 1..Len(Wire), Wire[i] = Start(m.epoch) PROVE AfterStart(j)'
   <4>1. i \in 1..j /\ Wire'[i] = Start(m.epoch)
     BY <1>1, <2>2, <3>3
   <4> QED BY <2>2, <3>3, <4>1 DEF AfterStart
  <3> QED BY <3>1, <3>2, <3>3
 <2> QED BY <2>1, <2>2, AddedAt
<1> QED BY <1>2 DEF Placed

LEMMA AddedUnbegun ==
  ASSUME VoiceInv, VoiceInv', NEW m, Added(m), Last' = Last, NEW e \in Epoch, Unbegun(e), m.epoch # e
  PROVE  Unbegun(e)'
<1>1. \A i \in 1..Len(Wire') : Wire'[i].epoch # e
  BY AddedAt DEF Unbegun
<1> QED BY <1>1 DEF Unbegun

LEMMA AddedUnderWay ==
  ASSUME VoiceInv, VoiceInv', NEW m, Added(m),
         Current' = Current, Last' = Last, Ended' <=> Ended, NEW e \in Epoch, UnderWay(e),
         streams[e].done => streams'[e].done
  PROVE  UnderWay(e)'
<1>1. \A i \in 1..Len(Wire) : i \in 1..Len(Wire') /\ Wire'[i] = Wire[i]
  BY WireTypes DEF Added
<1> QED BY <1>1 DEF UnderWay

LEMMA WriterOrder ==
  ASSUME VoiceInv, VoiceInv', Order, NEW e \in Epoch, AudioWriter(e)
  PROVE  Order'
<1> DEFINE o == streams[e]
           s == streams'[e]
<1>1. /\ o.live /\ s.live /\ ~o.cleared /\ ~o.done /\ Alone(e)
      /\ SameClears(s, o) /\ s.started
      /\ UNCHANGED <<retired, epoch, settled, down, up, device, heard, over>>
      /\ \A f \in Epoch : f < e /\ streams[f].live => streams[f].cleared \/ Finished(streams[f])
  BY WriterFacts
<1>2. PICK m \in Word :
        /\ outbound' = Append(outbound, m) /\ m.epoch = e
        /\ \/ /\ m = Start(e) /\ ~o.started /\ ~s.done
              /\ s.produced = o.produced /\ s.queued = o.queued
           \/ /\ m = Frame(e, o.produced + 1) /\ o.started /\ ~s.done
              /\ s.produced = o.produced + 1 /\ s.queued = o.queued - 1 /\ o.queued > 0
           \/ /\ m = End(e) /\ o.started /\ s.done
              /\ s.produced = o.produced /\ s.queued = o.queued /\ o.queued = 0
  BY WriterFacts
<1>3. /\ o.produced \in Nat /\ o.queued \in Nat /\ e \in Nat /\ epoch \in Nat /\ e <= epoch
      /\ (o.end_sent => o.done) /\ ~Finished(o)
  BY <1>1, StreamTypes, HeardTypes DEF Finished
<1>4. /\ BeginsOK(e) /\ FlagsOK(e) /\ InOrder /\ Placed /\ WordsOK /\ CallsOK
      /\ \A f \in Epoch : BeginsOK(f) /\ FlagsOK(f)
  BY DEF Order
<1>5. Added(m)
  BY <1>1, <1>2, WireAdded
<1>6. Current' = Current /\ Last' = Last /\ Expected' = Expected /\ (Ended' <=> Ended) /\ dev' = dev
  BY <1>1, ViewStays DEF device
<1>7. \A f \in Epoch \ {e} : streams'[f] = streams[f]
  BY <1>1 DEF Alone
<1>8. /\ ~o.started => Unbegun(e)
      /\ o.started => UnderWay(e)
      /\ \A f \in Epoch : f > e => Unbegun(f)
  BY <1>1, <1>3, <1>4 DEF BeginsOK
<1>9. NoMore(e, o.produced)
  BY <1>1 DEF VoiceInv, AccountsOK, StreamOK
<1>10. /\ m.type = "start" => m = Start(e) /\ ~o.started
       /\ m.type # "clear"
       /\ m.type = "end" => s.done
       /\ m.type = "frame" => m.n = o.produced + 1
       /\ m.type # "start" => o.started
  BY <1>2 DEF Start, Frame, End
<1>11. /\ s.cleared <=> o.cleared
       /\ s.acknowledged <=> o.acknowledged
       /\ o.started => s.started
  BY <1>1 DEF SameClears
<1> HIDE DEF o, s
<1>12. InOrder'
 <2>1. ASSUME NEW i \in 1..Len(Wire) PROVE Precedes(Wire[i], m)
  <3>1. Wire[i].epoch < e \/ (Wire[i].epoch = e /\ o.started /\ Wire[i].type # "clear")
    BY <1>1, <1>3, WritersLast DEF o
  <3>2. CASE Wire[i].epoch < e
    BY <1>2, <3>2 DEF Precedes
  <3>3. CASE Wire[i].epoch = e /\ o.started /\ Wire[i].type # "clear"
   <4>1. m.type # "start"
     BY <1>10, <3>3
   <4>2. Wire[i].type # "end"
     BY <1>1, <1>4, <3>3 DEF WordsOK, o
   <4>3. Wire[i].type = "frame" => Wire[i].n \in Nat /\ Wire[i].n <= o.produced
     BY <1>3, <1>9, <3>3, WireWithin, WordAt
   <4> QED BY <1>2, <1>3, <1>10, <3>3, <4>1, <4>2, <4>3 DEF Precedes
  <3> QED BY <3>1, <3>2, <3>3
 <2> QED BY <1>4, <1>5, <2>1, AddedInOrder
<1>13. Placed'
 <2>1. CASE ~o.started
  <3>1. m = Start(m.epoch) /\ m.epoch > Last
    BY <1>2, <1>8, <1>10, <2>1 DEF Unbegun
  <3> QED BY <1>4, <1>5, <1>6, <3>1, AddedPlaced
 <2>2. CASE o.started
  <3>1. UnderWay(e) /\ m.type # "start"
    BY <1>2, <1>8, <2>2 DEF Start, Frame, End
  <3>2. CASE e = Current /\ (Ended => streams[e].done)
   <4>1. Expected <= o.produced /\ Expected \in Nat
     BY <1>3, <1>9, <3>2, ExpectedBound, ViewTypes DEF NoMore
   <4>2. AtCurrent(m)
     BY <1>1, <1>2, <1>3, <1>10, <3>1, <3>2, <4>1 DEF AtCurrent, o
   <4> QED BY <1>4, <1>5, <1>6, <4>2, AddedPlaced
  <3>3. CASE e > Last /\ \E i \in 1..Len(Wire) : Wire[i] = Start(e)
    BY <1>2, <1>4, <1>5, <1>6, <3>3, AddedPlaced
  <3> QED BY <3>1, <3>2, <3>3 DEF UnderWay
 <2> QED BY <2>1, <2>2
<1>14. WordsOK'
 <2>1. ASSUME NEW i \in 1..Len(Wire'), streams'[Wire'[i].epoch].live
       PROVE  /\ Wire'[i].type = "end" => streams'[Wire'[i].epoch].done
              /\ Wire'[i].type = "clear" => streams'[Wire'[i].epoch].cleared
  <3>1. CASE Wire'[i] = m
    BY <1>2, <1>10, <3>1 DEF s
  <3>2. CASE i \in 1..Len(Wire) /\ Wire'[i] = Wire[i]
   <4>1. Wire[i].epoch \in Epoch
     BY <3>2, WordAt
   <4>2. CASE Wire[i].epoch # e
     BY <1>4, <1>7, <2>1, <3>2, <4>1, <4>2 DEF WordsOK
   <4>3. CASE Wire[i].epoch = e
     BY <1>1, <1>4, <3>2, <4>3 DEF WordsOK, o
   <4> QED BY <4>2, <4>3
  <3> QED BY <1>5, <3>1, <3>2, AddedAt
 <2> QED BY <2>1 DEF WordsOK
<1>15. CallsOK'
  BY <1>4, <1>6 DEF CallsOK
<1>16. ASSUME NEW f \in Epoch, f # e, Unbegun(f) PROVE Unbegun(f)'
  BY <1>2, <1>5, <1>6, <1>16, AddedUnbegun
<1>17. ASSUME NEW f \in Epoch PROVE FlagsOK(f)'
 <2>1. CASE f = e
  <3>1. s.done => s.started /\ s.produced >= 1
   <4>1. ~o.cleared => o.produced + o.queued >= 1
     BY <1>1, <1>4 DEF FlagsOK, o
   <4> QED BY <1>1, <1>2, <1>3, <4>1 DEF o, s
  <3>2. ~s.cleared /\ s.produced + s.queued >= 1 /\ ~s.acknowledged
   <4>1. o.produced + o.queued >= 1 /\ ~o.acknowledged
     BY <1>1, <1>4 DEF FlagsOK, o
   <4>2. s.produced + s.queued >= 1
     BY <1>2, <1>3, <4>1
   <4> QED BY <1>1, <1>11, <4>1, <4>2 DEF o
  <3> QED BY <1>1, <2>1, <3>1, <3>2 DEF FlagsOK, s
 <2>2. CASE f # e
  <3>1. streams'[f] = streams[f] /\ FlagsOK(f) /\ settled' = settled /\ epoch' = epoch
    BY <1>1, <1>4, <1>7, <2>2
  <3>2. ASSUME NEW g \in Epoch, streams[g].live => streams[g].cleared, streams'[g].live
        PROVE  streams'[g].cleared
   <4>1. g # e
     BY <1>1, <3>2 DEF o
   <4> QED BY <1>7, <3>2, <4>1
  <3> QED BY <3>1, <3>2 DEF FlagsOK
 <2> QED BY <2>1, <2>2
<1>18. ASSUME NEW f \in Epoch PROVE BeginsOK(f)'
 <2>1. BeginsOK(f) /\ FlagsOK(f) /\ f \in Nat
   BY <1>4, HeardTypes
 <2>2. f > epoch' => Unbegun(f)'
   BY <1>1, <1>3, <1>16, <2>1 DEF BeginsOK
 <2>3. ASSUME streams'[f].live, ~streams'[f].started PROVE Unbegun(f)'
  <3>1. f # e
    BY <1>1, <2>3 DEF s
  <3> QED BY <1>7, <1>16, <2>1, <2>3, <3>1 DEF BeginsOK
 <2>4. ASSUME streams'[f].live, ~streams'[f].started \/ (~streams'[f].cleared /\ ~Finished(streams'[f])),
              NEW g \in Epoch, g > f
       PROVE  Unbegun(g)'
  <3>1. CASE f = e
   <4>1. Unbegun(g) /\ g # e
     BY <1>3, <1>8, <2>4, <3>1
   <4> QED BY <1>16, <4>1
  <3>2. CASE f # e
   <4>1. streams'[f] = streams[f] /\ Unbegun(g)
     BY <1>7, <2>1, <2>4, <3>2 DEF BeginsOK
   \* The writer does not pass an answer that is still to be played.
   <4>2. g # e
    <5>1. SUFFICES ASSUME g = e PROVE FALSE
      OBVIOUS
    <5>2. streams[f].live /\ (streams[f].cleared \/ Finished(streams[f])) /\ f < e
      BY <1>1, <1>3, <2>1, <2>4, <4>1, <5>1
    <5>3. ~streams[f].started
      BY <2>4, <4>1, <5>2 DEF Finished
    <5>4. ~Finished(streams[f])
     <6>1. streams[f].end_sent => streams[f].done
       BY <5>2, StreamTypes
     <6> QED BY <2>1, <5>2, <5>3, <6>1 DEF FlagsOK, Finished
    <5>5. o.cleared
      BY <1>1, <1>3, <2>1, <5>2, <5>3, <5>4 DEF FlagsOK, o
    <5> QED BY <1>1, <5>5 DEF o
   <4> QED BY <1>16, <4>1, <4>2
  <3> QED BY <3>1, <3>2
 <2>5. ASSUME streams'[f].live, streams'[f].started, ~streams'[f].cleared, ~Finished(streams'[f])
       PROVE  UnderWay(f)'
  <3>1. CASE f # e
   <4>1. streams'[f] = streams[f] /\ UnderWay(f)
     BY <1>7, <2>1, <2>5, <3>1 DEF BeginsOK
   <4> QED BY <1>5, <1>6, <4>1, AddedUnderWay
  <3>2. CASE f = e /\ o.started
   <4>1. UnderWay(e)
     BY <1>8, <3>2
   <4> QED BY <1>1, <1>5, <1>6, <3>2, <4>1, AddedUnderWay DEF o
  <3>3. CASE f = e /\ ~o.started
   <4>1. m = Start(e) /\ e > Last
     BY <1>2, <1>8, <3>3 DEF Unbegun
   <4>2. Len(Wire) + 1 \in 1..Len(Wire') /\ Wire'[Len(Wire) + 1] = m
     BY <1>5, WireTypes DEF Added
   <4> QED BY <1>6, <3>3, <4>1, <4>2 DEF UnderWay
  <3> QED BY <3>1, <3>2, <3>3
 <2> QED BY <2>2, <2>3, <2>4, <2>5 DEF BeginsOK
<1> QED BY <1>12, <1>13, <1>14, <1>15, <1>17, <1>18 DEF Order

\* One answer is playing at most.
LEMMA OnePlays ==
  ASSUME VoiceInv, Order, NEW e \in Epoch, NEW f \in Epoch,
         Interrupted(e), streams[e].started, Interrupted(f), streams[f].started
  PROVE  e = f
<1>1. ASSUME NEW a \in Epoch, NEW b \in Epoch, a < b, Interrupted(a), streams[a].started,
             Interrupted(b), streams[b].started
      PROVE  FALSE
 <2>1. BeginsOK(a) /\ BeginsOK(b) /\ a \in Nat /\ b \in Nat
   BY EpochNat DEF Order
 <2>2. Unbegun(b)
   BY <1>1, <2>1 DEF BeginsOK, Interrupted
 <2>3. UnderWay(b)
   BY <1>1, <2>1 DEF BeginsOK, Interrupted
 <2>4. Current = b => b <= Last
   BY <2>1, ViewTypes, EpochNat
 <2>5. ~\E i \in 1..Len(Wire) : Wire[i] = Start(b)
   BY <2>2 DEF Unbegun, Start
 <2> QED BY <2>1, <2>2, <2>3, <2>4, <2>5, ViewTypes DEF UnderWay, Unbegun
<1>2. e \in Nat /\ f \in Nat
  BY EpochNat
<1> QED BY <1>1, <1>2

\* Nothing is heard of what is not under way.
LEMMA BegunUnder ==
  ASSUME VoiceInv, NEW e \in Epoch, UnderWay(e)
  PROVE  ~Unbegun(e)
<1>1. Current = e => e <= Last
  BY ViewTypes, EpochNat
<1>2. e \in Nat /\ Last \in Nat
  BY ViewTypes, EpochNat
<1> QED BY <1>1, <1>2 DEF UnderWay, Unbegun, Start

LEMMA SpeechOrder ==
  ASSUME VoiceInv, VoiceInv', Order, SpeechStarted
  PROVE  Order'
<1>1. /\ UNCHANGED <<epoch, down, up, device, over, refused, heard>>
      /\ \A e \in Epoch :
           /\ Interrupted(e) => Silenced(e)
           /\ Closed(e) => ~streams'[e].live /\ settled'[e] = Settle(e)
           /\ ~Interrupted(e) /\ ~Closed(e) => streams'[e] = streams[e] /\ settled'[e] = settled[e]
  BY SpeechFacts
<1>2. \/ outbound' = outbound
      \/ \E e \in Epoch : /\ Interrupted(e) /\ streams[e].started
                          /\ outbound' = Append(outbound, Clear(e))
 <2>1. \A e, f \in Epoch : Interrupted(e) /\ streams[e].started
                           /\ Interrupted(f) /\ streams[f].started => e = f
   BY OnePlays
 <2> QED BY <2>1, ClearFacts
<1>3. Current' = Current /\ Last' = Last /\ Expected' = Expected /\ (Ended' <=> Ended) /\ dev' = dev
  BY <1>1, ViewStays DEF device
<1>4. /\ InOrder /\ Placed /\ WordsOK /\ CallsOK
      /\ \A f \in Epoch : BeginsOK(f) /\ FlagsOK(f)
  BY DEF Order
<1>5. ASSUME NEW e \in Epoch, streams'[e].live
      PROVE  /\ streams[e].live /\ streams'[e].cleared
             /\ SameStarts(streams'[e], streams[e]) /\ streams'[e].produced = streams[e].produced
             /\ streams'[e].acknowledged \/ streams[e].started
 <2>1. ~Closed(e)
   BY <1>1, <1>5
 <2>2. CASE Interrupted(e)
   BY <1>1, <2>2 DEF Silenced, Interrupted
 <2>3. CASE ~Interrupted(e)
  <3>1. streams'[e] = streams[e]
    BY <1>1, <2>1, <2>3
  <3>2. streams[e].cleared
    BY <1>5, <2>1, <2>3, <3>1 DEF Interrupted, Closed
  <3>3. streams[e].acknowledged \/ streams[e].started
    BY <1>4, <1>5, <3>1, <3>2 DEF FlagsOK
  <3> QED BY <1>5, <3>1, <3>2, <3>3 DEF SameStarts
 <2> QED BY <2>2, <2>3
<1>6. ASSUME NEW e \in Epoch, Interrupted(e), streams[e].started, outbound' = Append(outbound, Clear(e))
      PROVE  /\ InOrder' /\ Placed' /\ Added(Clear(e)) /\ ~Unbegun(e) /\ streams'[e].cleared
 <2>1. Clear(e) \in Word /\ Clear(e).epoch = e /\ Clear(e).type = "clear"
   BY DEF Word, Clear
 <2>2. Added(Clear(e))
   BY <1>1, <1>6, <2>1, WireAdded
 <2>3. UnderWay(e)
   BY <1>4, <1>6 DEF BeginsOK, Interrupted
 <2>4. ASSUME NEW i \in 1..Len(Wire) PROVE Precedes(Wire[i], Clear(e))
  <3>1. Wire[i].epoch < e \/ (Wire[i].epoch = e /\ Wire[i].type # "clear")
    BY <1>6, WritersLast DEF Interrupted
  <3> QED BY <2>1, <3>1 DEF Precedes
 <2>5. InOrder'
   BY <1>4, <2>2, <2>4, AddedInOrder
 <2>6. AtCurrent(Clear(e)) \/ (e > Last /\ \E i \in 1..Len(Wire) : Wire[i] = Start(e))
   BY <2>1, <2>3 DEF UnderWay, AtCurrent
 <2>7. Placed'
   BY <1>3, <1>4, <2>1, <2>2, <2>6, AddedPlaced
 <2>8. streams'[e].cleared
   BY <1>1, <1>6 DEF Silenced
 <2> QED BY <2>2, <2>3, <2>5, <2>7, <2>8, BegunUnder
<1>7. outbound' = outbound => Wire' = Wire
  BY <1>1 DEF Wire
<1>8. InOrder' /\ Placed'
 <2>1. CASE outbound' = outbound
   BY <1>3, <1>4, <1>7, <2>1 DEF InOrder, Placed, AtCurrent, AfterStart
 <2> QED BY <1>2, <1>6, <2>1
<1>9. ASSUME NEW f \in Epoch, Unbegun(f) PROVE Unbegun(f)'
 <2>1. CASE outbound' = outbound
   BY <1>3, <1>7, <1>9, <2>1 DEF Unbegun
 <2>2. ASSUME NEW e \in Epoch, Interrupted(e), streams[e].started, outbound' = Append(outbound, Clear(e))
       PROVE  Unbegun(f)'
  <3>1. Added(Clear(e)) /\ f # e /\ Clear(e).epoch = e
    BY <1>6, <1>9, <2>2 DEF Clear
  <3> QED BY <1>3, <1>9, <3>1, AddedUnbegun
 <2> QED BY <1>2, <2>1, <2>2
<1>10. WordsOK'
 <2>1. ASSUME NEW i \in 1..Len(Wire'), streams'[Wire'[i].epoch].live
       PROVE  /\ Wire'[i].type = "end" => streams'[Wire'[i].epoch].done
              /\ Wire'[i].type = "clear" => streams'[Wire'[i].epoch].cleared
  <3>1. CASE i \in 1..Len(Wire) /\ Wire'[i] = Wire[i]
   <4>1. Wire[i].epoch \in Epoch
     BY <3>1, WordAt
   <4> QED BY <1>4, <1>5, <2>1, <3>1, <4>1 DEF WordsOK, SameStarts
  <3>2. CASE outbound' = outbound
    BY <1>7, <2>1, <3>1, <3>2
  <3>3. ASSUME NEW e \in Epoch, Interrupted(e), streams[e].started, outbound' = Append(outbound, Clear(e)),
               Wire'[i] = Clear(e)
        PROVE  /\ Wire'[i].type = "end" => streams'[Wire'[i].epoch].done
               /\ Wire'[i].type = "clear" => streams'[Wire'[i].epoch].cleared
    BY <1>6, <3>3 DEF Clear
  <3> QED BY <1>2, <1>6, <3>1, <3>2, <3>3, AddedAt
 <2> QED BY <2>1 DEF WordsOK
<1>11. CallsOK'
  BY <1>3, <1>4 DEF CallsOK
<1>12. ASSUME NEW f \in Epoch PROVE BeginsOK(f)' /\ FlagsOK(f)'
 <2>1. BeginsOK(f) /\ FlagsOK(f) /\ epoch' = epoch
   BY <1>1, <1>4
 <2>2. ASSUME streams'[f].live
       PROVE  /\ streams[f].live /\ streams'[f].cleared
              /\ (streams'[f].started <=> streams[f].started) /\ (streams'[f].done <=> streams[f].done)
              /\ streams'[f].produced = streams[f].produced
              /\ streams'[f].acknowledged \/ streams[f].started
   BY <1>5, <2>2 DEF SameStarts
 <2>3. BeginsOK(f)'
   BY <1>9, <2>1, <2>2 DEF BeginsOK
 <2>4. f <= epoch' /\ ~streams'[f].live => settled'[f] # Open
  <3>1. CASE Closed(f)
    BY <1>1, <3>1, RetiredRight
  <3>2. CASE ~Closed(f)
   <4>1. Interrupted(f) => streams'[f].live
     BY <1>1 DEF Silenced
   <4> QED BY <1>1, <2>1, <3>2, <4>1 DEF FlagsOK
  <3> QED BY <3>1, <3>2
 <2>5. ASSUME streams'[f].live
       PROVE  /\ streams'[f].done => streams'[f].started /\ streams'[f].produced >= 1
              /\ streams'[f].cleared
              /\ streams'[f].acknowledged \/ streams'[f].started
              /\ \A g \in Epoch : g > f /\ streams'[g].live => streams'[g].cleared
   BY <1>5, <2>1, <2>2, <2>5 DEF FlagsOK
 <2> QED BY <2>3, <2>4, <2>5 DEF FlagsOK
<1> QED BY <1>8, <1>10, <1>11, <1>12 DEF Order

LEMMA OpenOrder ==
  ASSUME VoiceInv, VoiceInv', Order, UNCHANGED <<outbound, down, up, device>>,
         epoch' = epoch + 1, epoch + 1 \in Epoch,
         Opened(epoch + 1), \A e \in Epoch : e # epoch + 1 => Retires(e)
  PROVE  Order'
<1> DEFINE n == epoch + 1
<1>1. Current' = Current /\ Last' = Last /\ Expected' = Expected /\ (Ended' <=> Ended) /\ dev' = dev
  BY ViewStays DEF device
<1>2. /\ InOrder /\ Placed /\ WordsOK /\ CallsOK
      /\ \A f \in Epoch : BeginsOK(f) /\ FlagsOK(f)
  BY DEF Order
<1>3. Wire' = Wire
  BY DEF Wire
<1>4. epoch \in Nat /\ n \in Epoch /\ epoch' = n /\ \A e \in Epoch : e \in Nat
  BY HeardTypes, EpochNat
<1>5. /\ streams'[n].live /\ streams'[n].queued = 1 /\ streams'[n].produced = 0
      /\ ~streams'[n].started /\ ~streams'[n].done /\ ~streams'[n].cleared /\ ~streams'[n].acknowledged
  BY DEF Opened
<1>6. ASSUME NEW e \in Epoch, e # n, streams'[e].live
      PROVE  streams'[e] = streams[e] /\ ~Closed(e)
  BY <1>6 DEF Retires
<1>7. ASSUME NEW e \in Epoch, e # n, ~streams'[e].live, e <= n PROVE settled'[e] # Open
 <2>1. e <= epoch /\ FlagsOK(e)
   BY <1>2, <1>4, <1>7
 <2>2. CASE Closed(e)
   BY <1>7, <2>2, RetiredRight DEF Retires
 <2>3. CASE ~Closed(e)
   BY <1>7, <2>1, <2>3 DEF Retires, FlagsOK
 <2> QED BY <2>2, <2>3
<1> HIDE DEF n
<1>8. \A f \in Epoch : f > epoch => Unbegun(f)
  BY <1>2 DEF BeginsOK
<1>9. Unbegun(n) /\ n > epoch
  BY <1>4, <1>8 DEF n
<1>10. InOrder' /\ Placed' /\ CallsOK'
  BY <1>1, <1>2, <1>3 DEF InOrder, Placed, AtCurrent, AfterStart, CallsOK
<1>11. WordsOK'
 <2>1. ASSUME NEW i \in 1..Len(Wire) PROVE Wire[i].epoch \in Epoch /\ Wire[i].epoch # n
   BY <1>9, WordAt DEF Unbegun
 <2> QED BY <1>2, <1>3, <1>6, <2>1 DEF WordsOK
<1>12. \A f \in Epoch : Unbegun(f) => Unbegun(f)'
  BY <1>1, <1>3 DEF Unbegun
<1>13. \A f \in Epoch : UnderWay(f) /\ streams'[f] = streams[f] => UnderWay(f)'
  BY <1>1, <1>3 DEF UnderWay
<1>14. ASSUME NEW f \in Epoch PROVE BeginsOK(f)' /\ FlagsOK(f)'
 <2>1. BeginsOK(f) /\ FlagsOK(f) /\ f \in Nat
   BY <1>2, <1>4
 <2>2. f > epoch' => Unbegun(f)'
   BY <1>4, <1>8, <1>9, <1>12, <2>1
 <2>3. CASE f = n
  <3>1. \A g \in Epoch : g > f => Unbegun(g)'
    BY <1>4, <1>8, <1>9, <1>12, <2>3
  <3> QED BY <1>5, <1>9, <1>12, <2>2, <2>3, <3>1 DEF BeginsOK, FlagsOK
 <2>4. CASE f # n
  <3>1. BeginsOK(f)'
    BY <1>6, <1>12, <1>13, <2>1, <2>2, <2>4 DEF BeginsOK
  <3>2. ASSUME streams'[f].live PROVE ~(streams'[f].cleared /\ ~streams'[f].started)
    BY <1>6, <2>1, <2>4, <3>2 DEF FlagsOK, Closed
  <3>3. FlagsOK(f)'
    BY <1>4, <1>6, <1>7, <2>1, <2>4, <3>2 DEF FlagsOK
  <3> QED BY <3>1, <3>3
 <2> QED BY <2>3, <2>4
<1> QED BY <1>10, <1>11, <1>14 DEF Order

LEMMA MoreOrder ==
  ASSUME VoiceInv, VoiceInv', Order, UNCHANGED <<outbound, down, up, device, epoch, settled>>,
         NEW e \in Epoch, streams[e].live, streams'[e].live, Alone(e),
         SameClears(streams'[e], streams[e]), SameStarts(streams'[e], streams[e]),
         streams'[e].end_sent <=> streams[e].end_sent,
         streams'[e].queued = streams[e].queued + 1, streams'[e].produced = streams[e].produced,
         streams'[e].played = streams[e].played
  PROVE  Order'
<1>1. Current' = Current /\ Last' = Last /\ Expected' = Expected /\ (Ended' <=> Ended) /\ dev' = dev
  BY ViewStays DEF device
<1>2. Wire' = Wire
  BY DEF Wire
<1>3. PICK h : Thin(h, 0)
  BY <1>2, SameThin
<1>4. ASSUME NEW f \in Epoch PROVE Kin(f)
 <2>1. FlagsOK(f)
   BY DEF Order
 <2>2. CASE f # e
   BY <2>1, <2>2, KinSame DEF Alone
 <2>3. CASE f = e
  <3>1. streams[e].queued \in Nat /\ streams[e].produced \in Nat
    BY StreamTypes
  <3>2. Finished(streams[e]) => Finished(streams'[e])
    BY DEF Finished, SameClears
  <3> QED BY <2>1, <2>3, <3>1, <3>2 DEF Kin, SameClears, SameStarts, FlagsOK
 <2> QED BY <2>2, <2>3
<1>5. CallsOK'
  BY <1>1 DEF Order, CallsOK
<1>6. 0 \notin 1..Len(Wire)
  BY WireTypes
<1> QED BY <1>1, <1>3, <1>4, <1>5, <1>6, OrderFollows

LEMMA AudioOrder ==
  ASSUME VoiceInv, VoiceInv', Order, ResponseAudio, over' = "no"
  PROVE  Order'
<1>1. UNCHANGED <<outbound, down, up, device, heard, refused>>
  BY AudioFacts
<1>2. ASSUME UNCHANGED <<retired, epoch, settled, over>>, NEW e \in Epoch,
             LET o == streams[e]
                 s == streams'[e]
             IN /\ o.live /\ s.live /\ Alone(e) /\ SameClears(s, o) /\ SameStarts(s, o)
                /\ s.end_sent <=> o.end_sent
                /\ s.queued = o.queued + 1
                /\ s.produced = o.produced /\ s.sent = o.sent /\ s.played = o.played
      PROVE  Order'
  BY <1>1, <1>2, MoreOrder
<1>3. ASSUME epoch' = epoch + 1, epoch + 1 \in Epoch, Opened(epoch + 1),
             \A e \in Epoch : e # epoch + 1 => Retires(e)
      PROVE  Order'
  BY <1>1, <1>3, OpenOrder
<1> QED BY <1>2, <1>3, AudioFacts

\* While the session goes on, the messages of both links stay in order.
LEMMA OrderNext ==
  ASSUME VoiceInv, VoiceInv', Order, over = "no", over' = "no", [Next]_vars
  PROVE  Order'
<1>1. CASE SpeechStarted
  BY <1>1, SpeechOrder
<1>2. CASE SpeechStopped \/ InputCommitted \/ ResponseStarted
  BY <1>2, AsideOrder DEF SpeechStopped, InputCommitted, ResponseStarted, device, session
<1>3. CASE ResponseAudio
  BY <1>3, AudioOrder
<1>4. CASE ResponseDone
  BY <1>4, DoneOrder
<1>5. CASE \E e \in Epoch : AudioWriter(e)
  BY <1>5, WriterOrder
<1>6. CASE DeviceWriter
  BY <1>6, SenderOrder
<1>7. CASE DeviceReader
  BY <1>7, ReaderOrder
<1>8. CASE WsStart
  BY <1>8, StartOrder
<1>9. CASE WsOpen \/ WsPublish \/ WsCleared
  BY <1>9, AsideOrder DEF WsOpen, WsPublish, WsCleared, proxy, session
<1>10. CASE WsClear
  BY <1>10, ClearOrder
<1>11. CASE WsEnd
  BY <1>11, EndOrder
<1>12. CASE WsFrame
  BY <1>12, FrameOrder
<1>13. CASE Dma \/ Conversation
  BY <1>13, AsideOrder DEF Dma, Conversation, ConvControl, ConvSample, ConvReport, proxy, session
<1>14. CASE UNCHANGED vars
  BY <1>14, AsideOrder DEF vars, proxy, device, session
<1> QED BY <1>1, <1>2, <1>3, <1>4, <1>5, <1>6, <1>7, <1>8, <1>9, <1>10, <1>11, <1>12, <1>13, <1>14
        DEF Next, Provider, WebSocket

LEMMA InitOrder == ASSUME Init PROVE Order
<1>1. Wire = <<>> /\ Len(Wire) = 0
  BY DEF Init, Wire
<1>2. ~Begins /\ Current = 0 /\ Last = 0 /\ Expected = 0 /\ ~Ended
  BY DEF Init, Begins, Current, Last, Expected, Ended, Idle
<1>3. InOrder /\ Placed /\ WordsOK
  BY <1>1 DEF InOrder, Placed, WordsOK
<1>4. CallsOK
  BY DEF Init, CallsOK
<1>5. ASSUME NEW e \in Epoch PROVE BeginsOK(e) /\ FlagsOK(e)
 <2>1. ~streams[e].live /\ epoch = 0
   BY DEF Init, None
 <2>2. ~(e <= epoch) /\ \A f \in Epoch : Unbegun(f)
   BY <1>1, <1>2, <2>1, EpochNat DEF Unbegun
 <2> QED BY <2>1, <2>2 DEF BeginsOK, FlagsOK
<1> QED BY <1>3, <1>4, <1>5 DEF Order

-------------------------------------------------------------------------------
(***************************************************************************)
(* Credit: nothing is on its way or in the recorder but what was sent, and *)
(* the frames of an answer follow one another.                             *)
(***************************************************************************)

LEMMA UnreportedSum == Unreported = (CHOOSE S : Adds(S, MaxEpoch))[MaxEpoch]
BY DEF Unreported, Adds, Share

LEMMA AddsExists ==
  ASSUME NEW n \in Nat
  PROVE  \E S : Adds(S, n)
<1> DEFINE T == {k \in Nat : ~\E S : Adds(S, k)}
<1>1. SUFFICES ASSUME T # {} PROVE FALSE
  OBVIOUS
<1>2. PICK m \in T : \A k \in T : m <= k
 <2>1. T \in SUBSET Nat
   OBVIOUS
 <2> HIDE DEF T
 <2> QED BY <1>1, <2>1, LeastNatural
<1>3. CASE m = 0
 <2> DEFINE S == [e \in 0..0 |-> 0]
 <2>1. S = [e \in 0..0 |-> IF e = 0 THEN 0 ELSE S[e - 1] + Share(e)]
   OBVIOUS
 <2>2. Adds(S, 0)
   BY <2>1 DEF Adds
 <2> QED BY <1>3, <2>2
<1>4. CASE m # 0
 <2>1. m \in Nat /\ m - 1 \in Nat
   BY <1>4
 <2>2. m - 1 \notin T
   BY <1>2, <2>1
 <2>3. PICK S : Adds(S, m - 1)
   BY <2>1, <2>2
 <2> DEFINE R == [e \in 0..m |-> IF e = m THEN S[m - 1] + Share(m) ELSE S[e]]
 <2>4. ASSUME NEW e \in 0..m PROVE R[e] = IF e = 0 THEN 0 ELSE R[e - 1] + Share(e)
  <3>1. CASE e = m
   <4>1. e - 1 \in 0..m /\ e - 1 # m /\ e # 0
     BY <1>4, <2>1, <3>1
   <4> QED BY <3>1, <4>1
  <3>2. CASE e # m
   <4>1. e \in 0..(m - 1)
     BY <2>1, <3>2
   <4>2. S[e] = IF e = 0 THEN 0 ELSE S[e - 1] + Share(e)
     BY <2>3, <4>1 DEF Adds
   <4>3. e # 0 => e - 1 \in 0..m /\ e - 1 # m
     BY <2>1, <4>1
   <4> QED BY <3>2, <4>2, <4>3
  <3> QED BY <3>1, <3>2
 <2>5. Adds(R, m)
  <3>1. R = [e \in 0..m |-> IF e = 0 THEN 0 ELSE R[e - 1] + Share(e)]
    BY <2>4
  <3> HIDE DEF R
  <3> QED BY <3>1 DEF Adds
 <2> HIDE DEF R
 <2> QED BY <1>2, <2>5
<1> QED BY <1>3, <1>4

LEMMA UnreportedCovers ==
  ASSUME VoiceInv, \A f \in Epoch : streams[f].live => streams[f].played <= streams[f].sent,
         NEW e \in Epoch
  PROVE  Share(e) \in Nat /\ Unreported \in Nat /\ Share(e) <= Unreported
<1>1. ASSUME NEW f \in Epoch PROVE Share(f) \in Nat
 <2>1. streams[f].live => streams[f].sent \in Nat /\ streams[f].played \in Nat
   BY StreamTypes
 <2> QED BY <2>1 DEF Share
<1> DEFINE S == CHOOSE R : Adds(R, MaxEpoch)
<1>2. MaxEpoch \in Nat /\ Epoch = 1..MaxEpoch
  BY EpochNat
<1>3. Adds(S, MaxEpoch)
  BY <1>2, AddsExists
<1>4. Unreported = S[MaxEpoch]
  BY UnreportedSum
<1> HIDE DEF S
<1>5. /\ S[0] = 0
      /\ \A f \in 1..MaxEpoch : S[f] = S[f - 1] + Share(f)
 <2>1. S = [f \in 0..MaxEpoch |-> IF f = 0 THEN 0 ELSE S[f - 1] + Share(f)]
   BY <1>3 DEF Adds
 <2>2. 0 \in 0..MaxEpoch /\ \A f \in 1..MaxEpoch : f \in 0..MaxEpoch /\ f # 0
   BY <1>2
 <2> QED BY <2>1, <2>2
<1> DEFINE Covered(n) == S[n] \in Nat /\ \A f \in 1..n : Share(f) <= S[n]
           T == {k \in 0..MaxEpoch : ~Covered(k)}
<1>6. T = {}
 <2>1. SUFFICES ASSUME T # {} PROVE FALSE
   OBVIOUS
 <2>2. PICK m \in T : \A k \in T : m <= k
  <3>1. T \in SUBSET Nat
    BY <1>2
  <3> HIDE DEF T
  <3> QED BY <2>1, <3>1, LeastNatural
 <2>3. Covered(0)
   BY <1>5
 <2>4. m # 0 /\ m \in 1..MaxEpoch /\ m - 1 \in 0..MaxEpoch
   BY <1>2, <2>2, <2>3
 <2>5. Covered(m - 1)
   BY <1>2, <2>2, <2>4
 <2>6. S[m] = S[m - 1] + Share(m) /\ Share(m) \in Nat
   BY <1>1, <1>2, <1>5, <2>4
 <2>7. \A f \in 1..m : f \in 1..(m - 1) \/ f = m
   BY <1>2, <2>4
 <2>8. \A f \in 1..m : Share(f) \in Nat
   BY <1>1, <1>2, <2>4
 <2>9. Covered(m)
   BY <2>5, <2>6, <2>7, <2>8
 <2> QED BY <2>2, <2>9
<1>7. Covered(MaxEpoch)
  BY <1>2, <1>6
<1> QED BY <1>1, <1>2, <1>4, <1>7

\* What the recorder does with them brings no more.
LEMMA ReachedStays ==
  ASSUME VoiceInv, VoiceInv', Order, WebSocket \/ Dma \/ Conversation, over' = "no",
         NEW e \in Epoch, NEW k \in Nat, Reached(e, k)
  PROVE  Reached(e, k)'
<1>1. /\ Within(down, e, k) /\ heard[e] <= k /\ heard[e] \in Nat /\ e # 0
      /\ dac.epoch = e => dac.played + dac.pending <= k
      /\ down \in Seq(Word) /\ dac \in Dac
  BY HeardTypes, EpochNat DEF Reached, VoiceInv, VoiceTypes, ProxyTypes, DeviceTypes
<1>2. ASSUME down # <<>>, down' = Tail(down) PROVE Within(down, e, k)'
  BY <1>1, <1>2, WithinTail DEF Within
<1>3. dac' = Flushed => dac'.epoch # e
  BY <1>1, FlushKeeps
<1>4. CASE WsStart
  BY <1>1, <1>2, <1>3, <1>4, StartFacts DEF Reached, TakenFrom
<1>5. CASE WsClear
  BY <1>1, <1>2, <1>3, <1>5, ClearedFacts DEF Reached, TakenFrom
<1>6. CASE WsEnd
  BY <1>1, <1>2, <1>6, EndedFacts DEF Reached, TakenFrom
<1>7. CASE WsOpen
 <2>1. dac'.epoch = ws.epoch /\ dac'.played = 0 /\ dac'.pending = dac.pending /\ UNCHANGED <<down, heard>>
   BY <1>1, <1>7 DEF WsOpen, Dac, session
 <2>2. dac.pending = 0
   BY <1>7 DEF WsOpen, VoiceInv, DeviceOK
 <2> QED BY <1>1, <2>1, <2>2 DEF Reached, Within
<1>8. CASE WsPublish \/ WsCleared \/ Conversation
 <2>1. UNCHANGED <<down, heard, dac>>
   BY <1>8 DEF WsPublish, WsCleared, Conversation, ConvControl, ConvSample, ConvReport, session
 <2> QED BY <1>1, <2>1 DEF Reached, Within
<1>9. CASE WsFrame
 <2> DEFINE m == Head(down)
 <2>1. /\ TakenFrom(m) /\ m.type = "frame" /\ dac.epoch = m.epoch /\ dac'.epoch = m.epoch
       /\ dac'.played = dac.played /\ dac'.pending = dac.pending + 1
       /\ m.epoch = Current /\ m.n = Expected + 1 /\ m.epoch \in Epoch
   BY <1>9, FrameFacts
 <2>2. UNCHANGED heard /\ down # <<>> /\ down' = Tail(down) /\ Head(down) = down[1] /\ 1 \in 1..Len(down)
   BY <1>1, <2>1, TailKeeps DEF TakenFrom
 <2>3. ~Begins /\ ws.pc = "idle"
   BY <2>1 DEF TakenFrom, Begins
 <2>4. dac.played + dac.pending = dev.expected /\ Expected = dev.expected
   BY <2>1, <2>3, EpochNat DEF Expected, VoiceInv, DeviceOK
 <2>5. m.epoch = e => m.n <= k
   BY <1>1, <2>1, <2>2 DEF Within
 <2>6. dac.played \in Nat /\ dac.pending \in Nat
   BY <1>1 DEF Dac
 <2> QED BY <1>1, <1>2, <2>1, <2>2, <2>4, <2>5, <2>6 DEF Reached
<1>10. CASE Dma
 <2>1. LET b == dac.dma[1]
           c == IF b.n # 0 THEN 1 ELSE 0
       IN /\ dac.epoch \in Epoch /\ dac.pending >= 1
          /\ dac'.epoch = dac.epoch /\ dac'.played = dac.played + c /\ dac'.pending = dac.pending - c
          /\ heard' = IF b.n # 0 THEN [heard EXCEPT ![dac.epoch] = @ + 1] ELSE heard
          /\ UNCHANGED down
   BY <1>10, DmaFacts
 <2>2. dac.played \in Nat /\ dac.pending \in Nat /\ heard \in [Epoch -> Nat]
   BY <1>1 DEF Dac, VoiceInv, VoiceTypes, DeviceTypes
 <2>3. heard[dac.epoch] = dac.played
   BY <2>1, EpochNat DEF VoiceInv, DeviceOK
 <2>4. heard'[e] <= k
  <3>1. CASE heard' = heard
    BY <1>1, <3>1
  <3>2. CASE heard' = [heard EXCEPT ![dac.epoch] = @ + 1]
   <4>1. heard'[e] = IF e = dac.epoch THEN heard[e] + 1 ELSE heard[e]
     BY <2>2, <3>2
   <4> QED BY <1>1, <2>1, <2>2, <2>3, <4>1
  <3> QED BY <2>1, <3>1, <3>2
 <2> QED BY <1>1, <2>1, <2>2, <2>4 DEF Reached, Within
<1> QED BY <1>4, <1>5, <1>6, <1>7, <1>8, <1>9, <1>10 DEF WebSocket

LEMMA WaitingStays ==
  ASSUME VoiceInv, NEW e \in Epoch, NEW k \in Nat, Waiting(e, k),
         \/ outbound' = outbound
         \/ outbound # <<>> /\ outbound' = Tail(outbound)
         \/ \E m \in Word : /\ outbound' = Append(outbound, m)
                            /\ m.type = "frame" /\ m.epoch = e => m.n > k
  PROVE  Waiting(e, k)'
<1>1. outbound \in Seq(Word)
  BY WireTypes
<1>2. CASE outbound' = outbound
  BY <1>2 DEF Waiting
<1>3. CASE outbound # <<>> /\ outbound' = Tail(outbound)
 <2>1. \A i \in 1..Len(outbound') : i + 1 \in 1..Len(outbound) /\ outbound'[i] = outbound[i + 1]
   BY <1>1, <1>3, TailKeeps
 <2> QED BY <2>1 DEF Waiting
<1>4. ASSUME NEW m \in Word, outbound' = Append(outbound, m),
             m.type = "frame" /\ m.epoch = e => m.n > k
      PROVE  Waiting(e, k)'
 <2>1. /\ Len(outbound') = Len(outbound) + 1 /\ Len(outbound) \in Nat
       /\ \A i \in 1..Len(outbound) : outbound'[i] = outbound[i]
       /\ outbound'[Len(outbound) + 1] = m
   BY <1>1, <1>4, AppendKeeps
 <2>2. \A i \in 1..Len(outbound') : i \in 1..Len(outbound) \/ i = Len(outbound) + 1
   BY <2>1
 <2> QED BY <1>4, <2>1, <2>2 DEF Waiting
<1> QED BY <1>2, <1>3, <1>4

LEMMA CreditTypes ==
  ASSUME VoiceInv, NEW e \in Epoch, streams[e].live
  PROVE  /\ streams[e].queued \in Nat /\ streams[e].produced \in Nat
         /\ streams[e].sent \in Nat /\ streams[e].played \in Nat /\ Credit \in Nat
BY StreamTypes, VoiceAssumption

\* A step of the proxy that sends nothing to the recorder.
LEMMA CreditStays ==
  ASSUME VoiceInv, NEW e \in Epoch, CreditOK(e), \A k \in Nat : Reached(e, k) => Reached(e, k)',
         streams'[e].live =>
           /\ streams[e].live /\ streams'[e].sent = streams[e].sent
           /\ streams'[e].played \in Nat /\ streams'[e].produced \in Nat
           /\ streams[e].played <= streams'[e].played /\ streams'[e].played <= streams[e].sent
           /\ streams[e].produced <= streams'[e].produced
           /\ streams'[e].end_sent => streams[e].end_sent /\ streams'[e].produced = streams[e].produced,
         \/ outbound' = outbound
         \/ outbound # <<>> /\ outbound' = Tail(outbound)
         \/ \E m \in Word : /\ outbound' = Append(outbound, m)
                            /\ (m.type = "frame" /\ m.epoch = e => m.n > streams[e].sent)
  PROVE  CreditOK(e)'
<1>1. SUFFICES ASSUME streams'[e].live PROVE CreditOK(e)'
  BY DEF CreditOK
<1>2. streams[e].live
  BY <1>1
<1>3. /\ streams[e].produced \in Nat /\ streams[e].sent \in Nat /\ streams[e].played \in Nat /\ Credit \in Nat
  BY <1>2, CreditTypes
<1>4. /\ streams[e].sent <= streams[e].produced /\ streams[e].sent <= streams[e].played + Credit
      /\ Reached(e, streams[e].sent) /\ Waiting(e, streams[e].sent)
      /\ (streams[e].end_sent => streams[e].sent = streams[e].produced)
  BY <1>2 DEF CreditOK
<1>5. Waiting(e, streams[e].sent)'
 <2>1. PICK k \in Nat : k = streams[e].sent
   BY <1>3
 <2>2. Waiting(e, k)'
   BY <1>4, <2>1, WaitingStays
 <2> QED BY <1>1, <2>1, <2>2 DEF Waiting
<1>6. Reached(e, streams[e].sent)'
 <2>1. PICK k \in Nat : k = streams[e].sent
   BY <1>3
 <2>2. Reached(e, k)'
   BY <1>4, <2>1
 <2>3. streams'[e].sent = k
   BY <1>1, <2>1
 <2> QED BY <2>2, <2>3 DEF Reached, Within
<1>7. /\ streams'[e].sent = streams[e].sent
      /\ streams'[e].played \in Nat /\ streams'[e].produced \in Nat
      /\ streams[e].played <= streams'[e].played /\ streams'[e].played <= streams[e].sent
      /\ streams[e].produced <= streams'[e].produced
      /\ streams'[e].end_sent => streams[e].end_sent /\ streams'[e].produced = streams[e].produced
  BY <1>1
<1>8. /\ streams'[e].played <= streams'[e].sent /\ streams'[e].sent <= streams'[e].produced
      /\ streams'[e].sent <= streams'[e].played + Credit
      /\ streams'[e].end_sent => streams'[e].sent = streams'[e].produced
  BY <1>3, <1>4, <1>7
<1> QED BY <1>5, <1>6, <1>8 DEF CreditOK

LEMMA ReachedSame ==
  ASSUME UNCHANGED <<down, heard, dac>>, NEW e \in Epoch, NEW k \in Nat, Reached(e, k)
  PROVE  Reached(e, k)'
BY DEF Reached, Within

LEMMA CreditDevice ==
  ASSUME VoiceInv, VoiceInv', Order, WebSocket \/ Dma \/ Conversation, over' = "no",
         NEW e \in Epoch, CreditOK(e)
  PROVE  CreditOK(e)'
<1>1. UNCHANGED <<streams, outbound>>
  BY DEF WebSocket, WsStart, WsOpen, WsPublish, WsClear, WsCleared, WsEnd, WsFrame, Dma,
         Conversation, ConvControl, ConvSample, ConvReport, proxy
<1>2. \A k \in Nat : Reached(e, k) => Reached(e, k)'
  BY ReachedStays
<1>3. streams[e].live =>
        /\ streams[e].sent \in Nat /\ streams[e].played \in Nat /\ streams[e].produced \in Nat
        /\ streams[e].played <= streams[e].sent
  BY CreditTypes DEF CreditOK
<1> QED BY <1>1, <1>2, <1>3, CreditStays

LEMMA CreditWriter ==
  ASSUME VoiceInv, VoiceInv', NEW e \in Epoch, AudioWriter(e), NEW f \in Epoch, CreditOK(f)
  PROVE  CreditOK(f)'
<1> DEFINE o == streams[e]
           s == streams'[e]
<1>1. /\ o.live /\ s.live /\ ~o.done /\ Alone(e) /\ s.sent = o.sent /\ s.played = o.played
      /\ s.end_sent <=> o.end_sent
      /\ UNCHANGED <<down, device, heard>>
  BY WriterFacts
<1>2. PICK m \in Word :
        /\ outbound' = Append(outbound, m) /\ m.epoch = e
        /\ m.type = "frame" => m.n = o.produced + 1
        /\ s.produced = o.produced \/ s.produced = o.produced + 1
  BY WriterFacts DEF Start, Frame, End
<1>3. /\ o.sent \in Nat /\ o.played \in Nat /\ o.produced \in Nat /\ ~o.end_sent
  BY <1>1, StreamTypes
<1>4. \A k \in Nat : Reached(f, k) => Reached(f, k)'
  BY <1>1, ReachedSame DEF device
<1>5. CASE f = e
 <2>1. o.played <= o.sent /\ o.sent <= o.produced
   BY <1>1, <1>5 DEF CreditOK
 <2>2. m.type = "frame" => m.n > o.sent
   BY <1>2, <1>3, <2>1
 <2>3. /\ s.produced \in Nat /\ o.produced <= s.produced /\ ~s.end_sent
   BY <1>1, <1>2, <1>3
 <2> QED BY <1>1, <1>2, <1>3, <1>4, <1>5, <2>1, <2>2, <2>3, CreditStays
<1>6. CASE f # e
 <2>1. streams'[f] = streams[f]
   BY <1>1, <1>6 DEF Alone
 <2>2. streams[f].live =>
         /\ streams[f].sent \in Nat /\ streams[f].played \in Nat /\ streams[f].produced \in Nat
         /\ streams[f].played <= streams[f].sent
   BY CreditTypes DEF CreditOK
 <2> QED BY <1>2, <1>4, <1>6, <2>1, <2>2, CreditStays
<1> QED BY <1>5, <1>6

\* A step of the proxy that sends nothing and produces nothing.
LEMMA CreditAside ==
  ASSUME VoiceInv, VoiceInv', NEW e \in Epoch, CreditOK(e), UNCHANGED <<down, heard, dac>>,
         outbound' = outbound \/ \E f \in Epoch : outbound' = Append(outbound, Clear(f)),
         streams'[e].live =>
           /\ streams[e].live /\ streams'[e].sent = streams[e].sent
           /\ streams'[e].played = streams[e].played /\ streams'[e].produced = streams[e].produced
           /\ streams'[e].end_sent => streams[e].end_sent
  PROVE  CreditOK(e)'
<1>1. \A f \in Epoch : Clear(f) \in Word /\ Clear(f).type # "frame"
  BY DEF Word, Clear
<1>2. \A k \in Nat : Reached(e, k) => Reached(e, k)'
  BY ReachedSame
<1>3. streams[e].live =>
        /\ streams[e].sent \in Nat /\ streams[e].played \in Nat /\ streams[e].produced \in Nat
        /\ streams[e].played <= streams[e].sent
  BY CreditTypes DEF CreditOK
<1> QED BY <1>1, <1>2, <1>3, CreditStays

LEMMA CreditSpeech ==
  ASSUME VoiceInv, VoiceInv', Order, SpeechStarted, NEW e \in Epoch, CreditOK(e)
  PROVE  CreditOK(e)'
<1>1. /\ UNCHANGED <<down, device, heard>>
      /\ Interrupted(e) => Silenced(e)
      /\ Closed(e) => ~streams'[e].live
      /\ ~Interrupted(e) /\ ~Closed(e) => streams'[e] = streams[e]
  BY SpeechFacts
<1>2. \A a, b \in Epoch : Interrupted(a) /\ streams[a].started
                            /\ Interrupted(b) /\ streams[b].started => a = b
  BY OnePlays
<1>3. outbound' = outbound \/ \E f \in Epoch : outbound' = Append(outbound, Clear(f))
  BY <1>2, ClearFacts
<1>4. streams'[e].live =>
        /\ streams[e].live /\ streams'[e].sent = streams[e].sent
        /\ streams'[e].played = streams[e].played /\ streams'[e].produced = streams[e].produced
        /\ streams'[e].end_sent => streams[e].end_sent
  BY <1>1 DEF Silenced, Interrupted
<1> QED BY <1>1, <1>3, <1>4, CreditAside DEF device

LEMMA CreditAudio ==
  ASSUME VoiceInv, VoiceInv', Order, ResponseAudio, over' = "no", NEW e \in Epoch, CreditOK(e)
  PROVE  CreditOK(e)'
<1>1. UNCHANGED <<outbound, down, device, heard>>
  BY AudioFacts
<1>2. ASSUME NEW f \in Epoch,
             LET o == streams[f]
                 s == streams'[f]
             IN /\ o.live /\ s.live /\ Alone(f)
                /\ s.end_sent <=> o.end_sent
                /\ s.produced = o.produced /\ s.sent = o.sent /\ s.played = o.played
      PROVE  CreditOK(e)'
 <2>1. streams'[e].live =>
         /\ streams[e].live /\ streams'[e].sent = streams[e].sent
         /\ streams'[e].played = streams[e].played /\ streams'[e].produced = streams[e].produced
         /\ streams'[e].end_sent => streams[e].end_sent
   BY <1>2 DEF Alone
 <2> QED BY <1>1, <2>1, CreditAside DEF device
<1>3. ASSUME epoch' = epoch + 1, epoch + 1 \in Epoch, Opened(epoch + 1),
             \A f \in Epoch : f # epoch + 1 => Retires(f)
      PROVE  CreditOK(e)'
 <2>1. CASE e # epoch + 1
  <3>1. streams'[e].live => streams'[e] = streams[e]
    BY <1>3, <2>1 DEF Retires
  <3> QED BY <1>1, <3>1, CreditAside DEF device
 <2>2. CASE e = epoch + 1
  <3>1. e > epoch
    BY <1>3, <2>2, HeardTypes
  <3>2. NoMore(e, 0) /\ Unbegun(e)
    BY <3>1 DEF VoiceInv, AccountsOK, Ahead, Order, BeginsOK
  <3>3. Reached(e, 0)'
    BY <1>1, <3>2 DEF NoMore, Reached, Within, device
  <3>4. Waiting(e, 0)'
   <4>1. ASSUME NEW i \in 1..Len(outbound) PROVE outbound[i].epoch # e
    <5>1. Wire[Len(down) + i] = outbound[i] /\ Len(down) + i \in 1..Len(Wire)
      BY WireTypes
    <5> QED BY <3>2, <5>1 DEF Unbegun
   <4> QED BY <1>1, <4>1 DEF Waiting
  <3>5. streams'[e].sent = 0 /\ streams'[e].produced = 0 /\ streams'[e].played = 0 /\ ~streams'[e].end_sent
    BY <1>3, <2>2 DEF Opened
  <3>6. 0 <= 0 + Credit
    BY VoiceAssumption
  <3> QED BY <3>3, <3>4, <3>5, <3>6 DEF CreditOK
 <2> QED BY <2>1, <2>2
<1> QED BY <1>2, <1>3, AudioFacts

LEMMA CreditDone ==
  ASSUME VoiceInv, VoiceInv', ResponseDone, NEW e \in Epoch, CreditOK(e)
  PROVE  CreditOK(e)'
<1>1. UNCHANGED <<outbound, down, device, heard>> /\ Alike(e)
  BY DoneFacts
<1> QED BY <1>1, CreditAside DEF Alike, SameCounts, device

LEMMA CreditReader ==
  ASSUME VoiceInv, VoiceInv', DeviceReader, NEW e \in Epoch, CreditOK(e)
  PROVE  CreditOK(e)'
<1> DEFINE m == Head(up)
<1>1. /\ UNCHANGED <<outbound, down, device, heard>> /\ m.epoch \in Epoch /\ m.played \in Nat
      /\ Accepted(m) \/ UNCHANGED streams
  BY ReaderFacts
<1>2. CASE streams'[e] = streams[e]
  BY <1>1, <1>2, CreditAside DEF device
<1>3. CASE Accepted(m) /\ e = m.epoch
 <2>1. /\ streams[e].live /\ streams'[e].played = m.played
       /\ streams[e].played <= m.played /\ m.played <= streams'[e].sent
       /\ streams'[e].sent = streams[e].sent /\ streams'[e].produced = streams[e].produced
       /\ streams'[e].end_sent <=> streams[e].end_sent
   BY <1>3 DEF Accepted
 <2>2. streams[e].produced \in Nat /\ \A k \in Nat : Reached(e, k) => Reached(e, k)'
   BY <1>1, <2>1, CreditTypes, ReachedSame DEF device
 <2> HIDE DEF m
 <2>3. /\ streams'[e].played \in Nat /\ streams'[e].produced \in Nat
       /\ streams[e].played <= streams'[e].played /\ streams'[e].played <= streams[e].sent
       /\ streams[e].produced <= streams'[e].produced
   BY <1>1, <2>1, <2>2
 <2> QED BY <1>1, <2>1, <2>2, <2>3, CreditStays
<1> QED BY <1>1, <1>2, <1>3 DEF Accepted, Alone

LEMMA HeadWaits ==
  ASSUME VoiceInv, outbound # <<>>
  PROVE  /\ Len(down) \in Nat /\ Len(down) + 1 \in 1..Len(Wire)
         /\ Wire[Len(down) + 1] = Head(outbound) /\ Head(outbound) = outbound[1] /\ 1 \in 1..Len(outbound)
<1>1. outbound \in Seq(Word) /\ Head(outbound) = outbound[1] /\ 1 \in 1..Len(outbound)
  BY WireTypes, TailKeeps
<1> QED BY <1>1, WireTypes

\* What is sent next was not left out.
LEMMA NextReached ==
  ASSUME VoiceInv, NEW e \in Epoch, CreditOK(e), streams[e].live, NEW n \in Nat, Before(e, n, Len(down) + 1)
  PROVE  n <= streams[e].sent + 1
<1>1. streams[e].sent \in Nat /\ Reached(e, streams[e].sent) /\ Len(down) \in Nat
  BY CreditTypes, WireTypes DEF CreditOK
<1>2. CASE e = Current /\ n = Expected + 1
 <2>1. Expected <= streams[e].sent
   BY <1>1, <1>2, ExpectedBound DEF Reached
 <2> QED BY <1>1, <1>2, <2>1, ViewTypes
<1>3. CASE n = 1
  BY <1>1, <1>3
<1>4. CASE n > 1 /\ \E i \in 1..((Len(down) + 1) - 1) : Wire[i] = Frame(e, n - 1)
 <2>1. PICK i \in 1..Len(down) : down[i] = Frame(e, n - 1)
   BY <1>1, <1>4, WireTypes
 <2>2. n - 1 <= streams[e].sent
   BY <1>1, <2>1 DEF Reached, Within, Frame
 <2> QED BY <1>1, <2>2
<1> QED BY <1>2, <1>3, <1>4 DEF Before

LEMMA ReachedMore ==
  ASSUME VoiceInv, UNCHANGED <<heard, dac>>, NEW m \in Word, down' = Append(down, m),
         NEW e \in Epoch, NEW k \in Nat, NEW l \in Nat, k <= l, Reached(e, k),
         m.type = "frame" /\ m.epoch = e => m.n <= l
  PROVE  Reached(e, l)'
<1>1. down \in Seq(Word) /\ heard[e] \in Nat /\ dac \in Dac
  BY WireTypes, HeardTypes DEF VoiceInv, VoiceTypes, DeviceTypes
<1>2. Within(down, e, l)
  BY <1>1, WithinMore DEF Reached
<1>3. Within(Append(down, m), e, l)
  BY <1>1, <1>2, WithinAppend
<1>4. Within(down, e, l)'
  BY <1>3 DEF Within
<1>5. heard[e] <= l /\ (dac.epoch = e => dac.played + dac.pending <= l)
  BY <1>1 DEF Reached, Dac
<1> QED BY <1>4, <1>5 DEF Reached

LEMMA CreditSender ==
  ASSUME VoiceInv, VoiceInv', Order, FramesOK, \A f \in Epoch : CreditOK(f), DeviceWriter, over' = "no",
         NEW e \in Epoch
  PROVE  CreditOK(e)'
<1> DEFINE m == Head(outbound)
           o == streams[m.epoch]
           s == streams'[m.epoch]
<1>1. /\ outbound # <<>> /\ outbound' = Tail(outbound) /\ m \in Word /\ UNCHANGED <<device, heard>>
      /\ \/ /\ m.type \in {"frame", "end"} /\ (~o.live \/ o.cleared)
            /\ UNCHANGED <<streams, down>>
         \/ m.type = "start" /\ down' = Append(down, m) /\ UNCHANGED streams
         \/ /\ m.type \in {"frame", "clear", "end"} /\ o.live /\ s.live /\ Alone(m.epoch)
            /\ down' = Append(down, m)
            /\ s.produced = o.produced /\ s.played = o.played
            /\ s.cleared <=> o.cleared
            /\ \/ /\ m.type = "frame" /\ ~o.cleared /\ s.sent = o.sent + 1
                  /\ Unreported + 1 <= Credit
                  /\ s.end_sent <=> o.end_sent
               \/ /\ m.type = "clear" /\ s.sent = o.sent
                  /\ s.end_sent <=> o.end_sent
               \/ /\ m.type = "end" /\ ~o.cleared /\ s.sent = o.sent /\ s.end_sent
  BY SenderFacts DEF SentMessage
<1>2. /\ m.epoch \in Epoch /\ CreditOK(e)
      /\ m.type = "frame" => m.n \in Nat
      /\ UNCHANGED dac
  BY <1>1, WordTypes DEF device
<1>3. streams[e].live =>
        /\ streams[e].sent \in Nat /\ streams[e].played \in Nat /\ streams[e].produced \in Nat
        /\ streams[e].played <= streams[e].sent
  BY <1>2, CreditTypes DEF CreditOK
<1>4. /\ Len(down) \in Nat /\ Len(down) + 1 \in 1..Len(Wire) /\ Len(down) + 1 > Len(down)
      /\ Wire[Len(down) + 1] = m /\ m = outbound[1] /\ 1 \in 1..Len(outbound)
  BY <1>1, HeadWaits
<1> HIDE DEF m
<1>5. CASE UNCHANGED down /\ streams'[e] = streams[e]
 <2>1. \A k \in Nat : Reached(e, k) => Reached(e, k)'
   BY <1>1, <1>5, ReachedSame DEF device
 <2> QED BY <1>1, <1>2, <1>3, <1>5, <2>1, CreditStays
<1>6. CASE /\ down' = Append(down, m) /\ (m.type = "frame" => m.epoch # e)
           /\ streams'[e].live => /\ streams[e].live /\ streams'[e].sent = streams[e].sent
                                  /\ streams'[e].played = streams[e].played
                                  /\ streams'[e].produced = streams[e].produced
                                  /\ streams'[e].end_sent => streams[e].end_sent
 <2>1. \A k \in Nat : Reached(e, k) => Reached(e, k)'
   BY <1>1, <1>2, <1>6, ReachedMore
 <2> QED BY <1>1, <1>2, <1>3, <1>6, <2>1, CreditStays
<1>7. CASE /\ m.type = "frame" /\ m.epoch = e /\ down' = Append(down, m) /\ o.live /\ s.live
           /\ s.produced = o.produced /\ s.played = o.played
           /\ ~o.cleared /\ s.sent = o.sent + 1 /\ Unreported + 1 <= Credit
           /\ s.end_sent <=> o.end_sent
 <2>1. /\ o.sent \in Nat /\ o.played \in Nat /\ o.produced \in Nat /\ Credit \in Nat
       /\ o.played <= o.sent /\ o.sent <= o.produced /\ Reached(e, o.sent) /\ Waiting(e, o.sent)
       /\ o.end_sent => o.sent = o.produced
   BY <1>2, <1>7, CreditTypes DEF CreditOK
 <2>2. m.n <= o.sent + 1
  <3>1. Before(e, m.n, Len(down) + 1)
    BY <1>4, <1>7 DEF FramesOK, Playing
  <3> QED BY <1>2, <1>7, <3>1, NextReached
 <2>3. m.n > o.sent
   BY <1>4, <1>7, <2>1 DEF Waiting
 <2>4. m.n = o.sent + 1
   BY <1>2, <1>7, <2>1, <2>2, <2>3
 <2>5. m.n <= o.produced
  <3>1. NoMore(e, o.produced)
    BY <1>2, <1>7 DEF VoiceInv, AccountsOK, StreamOK
  <3> QED BY <1>4, <1>7, <2>1, <3>1, WireWithin
 <2>6. o.sent + 1 <= o.played + Credit
  <3>1. \A f \in Epoch : streams[f].live => streams[f].played <= streams[f].sent
    BY DEF CreditOK
  <3>2. Share(e) \in Nat /\ Unreported \in Nat /\ Share(e) <= Unreported
    BY <3>1, UnreportedCovers
  <3>3. Share(e) = o.sent - o.played
    BY <1>7 DEF Share
  <3> QED BY <1>7, <2>1, <3>2, <3>3
 <2>7. PICK k \in Nat : k = o.sent + 1
   BY <2>1
 <2>8. Reached(e, k)'
   BY <1>1, <1>2, <1>7, <2>1, <2>4, <2>7, ReachedMore
 <2>9. Waiting(e, k)'
  <3>1. ASSUME NEW i \in 1..Len(outbound'), outbound'[i].type = "frame", outbound'[i].epoch = e
        PROVE  outbound'[i].n > k
   <4>1. i + 1 \in 1..Len(outbound) /\ outbound'[i] = outbound[i + 1]
     BY <1>1, WireTypes, TailKeeps
   <4>2. Len(down) + (i + 1) \in 1..Len(Wire) /\ Wire[Len(down) + (i + 1)] = outbound[i + 1]
     BY <4>1, WireTypes
   <4>3. Len(down) + 1 < Len(down) + (i + 1)
     BY <1>4
   <4>4. Precedes(Wire[Len(down) + 1], Wire[Len(down) + (i + 1)])
     BY <1>4, <4>2, <4>3 DEF Order, InOrder
   <4>5. Precedes(m, outbound'[i])
     BY <1>4, <4>1, <4>2, <4>4
   <4>6. m.n < outbound'[i].n
     BY <1>7, <3>1, <4>5, EpochNat DEF Precedes
   <4> QED BY <2>4, <2>7, <4>6, <1>2, <1>7, <4>2, WordAt, <3>1, <4>1
  <3> QED BY <3>1 DEF Waiting
 <2>10. s.sent = k /\ ~s.end_sent /\ s.played <= s.sent /\ s.sent <= s.produced /\ s.sent <= s.played + Credit
   BY <1>7, <2>1, <2>4, <2>5, <2>6, <2>7
 <2>11. Reached(e, streams[e].sent)' /\ Waiting(e, streams[e].sent)'
   BY <1>7, <2>8, <2>9, <2>10 DEF Reached, Waiting, Within
 <2> QED BY <1>7, <2>10, <2>11 DEF CreditOK
<1>8. CASE /\ m.type = "end" /\ m.epoch = e /\ down' = Append(down, m) /\ o.live /\ s.live
           /\ s.produced = o.produced /\ s.played = o.played
           /\ ~o.cleared /\ s.sent = o.sent /\ s.end_sent
 <2>1. /\ o.sent \in Nat /\ o.played \in Nat /\ o.produced \in Nat /\ Credit \in Nat
       /\ o.played <= o.sent /\ o.sent <= o.produced /\ Reached(e, o.sent) /\ Waiting(e, o.sent)
       /\ o.sent <= o.played + Credit
   BY <1>2, <1>8, CreditTypes DEF CreditOK
 <2>2. o.produced + 1 <= o.sent + 1
  <3>1. Before(e, o.produced + 1, Len(down) + 1)
    BY <1>4, <1>8 DEF FramesOK, Playing
  <3> QED BY <1>2, <1>8, <2>1, <3>1, NextReached
 <2>3. PICK k \in Nat : k = o.sent
   BY <2>1
 <2>4. Reached(e, k)'
   BY <1>1, <1>2, <1>8, <2>1, <2>3, ReachedMore
 <2>5. Waiting(e, k)'
   BY <1>1, <2>1, <2>3, WaitingStays
 <2>6. s.sent = k /\ s.sent = s.produced /\ s.played <= s.sent /\ s.sent <= s.played + Credit
   BY <1>8, <2>1, <2>2, <2>3
 <2>7. Reached(e, streams[e].sent)' /\ Waiting(e, streams[e].sent)'
   BY <1>8, <2>4, <2>5, <2>6 DEF Reached, Waiting, Within
 <2>8. s.sent <= s.produced
   BY <2>1, <2>6, <2>3
 <2> QED BY <1>8, <2>6, <2>7, <2>8 DEF CreditOK
<1>9. CASE m.epoch = e
  BY <1>1, <1>5, <1>6, <1>7, <1>8, <1>9
<1>10. CASE m.epoch # e
 <2>1. streams'[e] = streams[e]
   BY <1>1, <1>10 DEF Alone
 <2> QED BY <1>1, <1>5, <1>6, <1>10, <2>1
<1> QED BY <1>9, <1>10

LEMMA CreditsNext ==
  ASSUME VoiceInv, VoiceInv', Order, FramesOK, Credits, over = "no", over' = "no", [Next]_vars
  PROVE  Credits'
<1> SUFFICES ASSUME NEW e \in Epoch PROVE CreditOK(e)'
  BY DEF Credits
<1>0. CreditOK(e) /\ \A f \in Epoch : CreditOK(f)
  BY DEF Credits
<1>1. CASE SpeechStarted
  BY <1>0, <1>1, CreditSpeech
<1>2. CASE SpeechStopped \/ InputCommitted \/ ResponseStarted \/ UNCHANGED vars
 <2>1. UNCHANGED <<streams, outbound, down, device, heard>>
   BY <1>2 DEF SpeechStopped, InputCommitted, ResponseStarted, session, vars, proxy
 <2> QED BY <1>0, <2>1, CreditAside DEF device
<1>3. CASE ResponseAudio
  BY <1>0, <1>3, CreditAudio
<1>4. CASE ResponseDone
  BY <1>0, <1>4, CreditDone
<1>5. CASE \E f \in Epoch : AudioWriter(f)
  BY <1>0, <1>5, CreditWriter
<1>6. CASE DeviceWriter
  BY <1>0, <1>6, CreditSender
<1>7. CASE DeviceReader
  BY <1>0, <1>7, CreditReader
<1>8. CASE WebSocket \/ Dma \/ Conversation
  BY <1>0, <1>8, CreditDevice
<1> QED BY <1>1, <1>2, <1>3, <1>4, <1>5, <1>6, <1>7, <1>8 DEF Next, Provider

LEMMA BeforeKept ==
  ASSUME Current' = Current, Expected' = Expected, NEW e, NEW n, NEW j, NEW l, Before(e, n, j),
         \A i \in 1..(j - 1) : Wire[i] = Start(e) \/ Wire[i] = Frame(e, n - 1) =>
           \E k \in 1..(l - 1) : Wire'[k] = Wire[i]
  PROVE  Before(e, n, l)'
BY DEF Before

LEMMA FramesAside ==
  ASSUME VoiceInv, FramesOK, UNCHANGED <<down, outbound>>, Current' = Current, Expected' = Expected,
         \A e \in Epoch : Playing(e)' =>
           \/ /\ Playing(e) /\ streams'[e].produced = streams[e].produced
              /\ streams'[e].started => streams[e].started
              /\ streams[e].done => streams'[e].done
           \/ ~streams'[e].started /\ Unbegun(e)
  PROVE  FramesOK'
<1>1. Wire' = Wire
  BY DEF Wire
<1>2. \A e, n, j : Before(e, n, j) => Before(e, n, j)'
  BY <1>1, BeforeKept
<1>3. ASSUME NEW j \in 1..Len(Wire), Playing(Wire[j].epoch)'
      PROVE  Playing(Wire[j].epoch) /\ streams'[Wire[j].epoch].produced = streams[Wire[j].epoch].produced
 <2>1. Wire[j].epoch \in Epoch
   BY WordAt
 <2> QED BY <1>1, <1>3, <2>1 DEF Unbegun, Playing
<1>4. ASSUME NEW j \in 1..Len(Wire), Wire[j].type = "frame", j <= Len(down) \/ Playing(Wire[j].epoch)'
      PROVE  Before(Wire[j].epoch, Wire[j].n, j)'
 <2>1. Before(Wire[j].epoch, Wire[j].n, j)
   BY <1>3, <1>4 DEF FramesOK
 <2> QED BY <1>1, <2>1 DEF Before
<1>5. ASSUME NEW j \in 1..Len(Wire), Wire[j].type = "end", j > Len(down), Playing(Wire[j].epoch)'
      PROVE  Before(Wire[j].epoch, streams[Wire[j].epoch].produced + 1, j)'
 <2>1. Before(Wire[j].epoch, streams[Wire[j].epoch].produced + 1, j)
   BY <1>3, <1>5 DEF FramesOK
 <2> QED BY <1>1, <1>3, <1>5, <2>1 DEF Before
<1>6. ASSUME NEW e \in Epoch, Playing(e)', streams'[e].started, ~streams'[e].done
      PROVE  Before(e, streams[e].produced + 1, Len(Wire) + 1)'
 <2>1. Before(e, streams[e].produced + 1, Len(Wire) + 1) /\ streams'[e].produced = streams[e].produced
   BY <1>6 DEF FramesOK
 <2> QED BY <1>1, <2>1 DEF Before
<1> QED BY <1>1, <1>4, <1>5, <1>6 DEF FramesOK

LEMMA BeforeAdded ==
  ASSUME VoiceInv, NEW m, Added(m), Current' = Current, Expected' = Expected,
         NEW e, NEW n, NEW j \in 1..(Len(Wire) + 1), NEW l \in Nat, j <= l, Before(e, n, j)
  PROVE  Before(e, n, l)'
<1>1. Len(Wire) \in Nat
  BY WireTypes
<1>2. ASSUME NEW i \in 1..(j - 1) PROVE i \in 1..(l - 1) /\ Wire'[i] = Wire[i]
  BY <1>1 DEF Added
<1> QED BY <1>2, BeforeKept

LEMMA FramesSpeech ==
  ASSUME VoiceInv, VoiceInv', Order, FramesOK, SpeechStarted
  PROVE  FramesOK'
<1>1. /\ UNCHANGED <<down, device>>
      /\ \A e \in Epoch :
           /\ Interrupted(e) => Silenced(e)
           /\ Closed(e) => ~streams'[e].live
           /\ ~Interrupted(e) /\ ~Closed(e) => streams'[e] = streams[e]
  BY SpeechFacts
<1>2. ASSUME NEW e \in Epoch PROVE ~Playing(e)'
  BY <1>1 DEF Playing, Interrupted, Silenced, Closed
<1>3. Current' = Current /\ Expected' = Expected
  BY <1>1, ViewStays DEF device
<1>4. \A a, b \in Epoch : Interrupted(a) /\ streams[a].started
                            /\ Interrupted(b) /\ streams[b].started => a = b
  BY OnePlays
<1>5. CASE outbound' = outbound
  BY <1>1, <1>2, <1>3, <1>5, FramesAside
<1>6. ASSUME NEW f \in Epoch, outbound' = Append(outbound, Clear(f)) PROVE FramesOK'
 <2>1. Added(Clear(f))
  <3>1. Clear(f) \in Word
    BY DEF Word, Clear
  <3> QED BY <1>1, <1>6, <3>1, WireAdded
 <2>2. \A j \in 1..Len(Wire') : Wire'[j].epoch \in Epoch
  <3>1. Clear(f).epoch \in Epoch
    BY DEF Clear
  <3> QED BY <2>1, <3>1, AddedAt, WordAt
 <2>3. ASSUME NEW j \in 1..Len(Wire'), Wire'[j].type = "frame", j <= Len(down')
       PROVE  Before(Wire[j].epoch, Wire[j].n, j)'
  <3>1. j \in 1..Len(Wire) /\ Wire'[j] = Wire[j] /\ j <= Len(down) /\ j \in 1..(Len(Wire) + 1) /\ j \in Nat /\ j <= j
    BY <1>1, <2>1, <2>3, WireTypes DEF Added
  <3>2. Before(Wire[j].epoch, Wire[j].n, j)
    BY <2>3, <3>1 DEF FramesOK
  <3>3. PICK e, n : e = Wire[j].epoch /\ n = Wire[j].n
    OBVIOUS
  <3>4. Before(e, n, j)'
    BY <1>3, <2>1, <3>1, <3>2, <3>3, BeforeAdded
  <3> QED BY <3>1, <3>3, <3>4 DEF Before
 <2> QED BY <1>2, <2>2, <2>3 DEF FramesOK
<1> QED BY <1>4, <1>5, <1>6, ClearFacts

LEMMA FramesWriter ==
  ASSUME VoiceInv, VoiceInv', Order, FramesOK, NEW e \in Epoch, AudioWriter(e)
  PROVE  FramesOK'
<1> DEFINE o == streams[e]
           s == streams'[e]
           w == Len(Wire)
<1>1. /\ o.live /\ s.live /\ ~o.cleared /\ ~o.done /\ Alone(e) /\ SameClears(s, o)
      /\ UNCHANGED <<down, device>>
  BY WriterFacts
<1>2. PICK m \in Word :
        /\ outbound' = Append(outbound, m) /\ m.epoch = e
        /\ \/ /\ m = Start(e) /\ ~o.started /\ ~s.done
              /\ s.produced = o.produced /\ s.queued = o.queued
           \/ /\ m = Frame(e, o.produced + 1) /\ o.started /\ ~s.done
              /\ s.produced = o.produced + 1 /\ s.queued = o.queued - 1 /\ o.queued > 0
           \/ /\ m = End(e) /\ o.started /\ s.done
              /\ s.produced = o.produced /\ s.queued = o.queued /\ o.queued = 0
  BY WriterFacts
<1>3. o.produced \in Nat /\ (~o.started => o.produced = 0)
  BY <1>1, StreamTypes
<1>4. Added(m)
  BY <1>1, <1>2, WireAdded
<1>5. Current' = Current /\ Expected' = Expected
  BY <1>1, ViewStays DEF device
<1>6. w \in Nat /\ Len(Wire') = w + 1 /\ Wire'[w + 1] = m /\ Len(down) \in Nat /\ Len(down) <= w
  BY <1>4, WireTypes DEF Added
<1>7. \A f \in Epoch \ {e} : streams'[f] = streams[f]
  BY <1>1 DEF Alone
<1>8. Playing(e) /\ \A f \in Epoch : Playing(f)' => Playing(f)
  BY <1>1, <1>7 DEF Playing, SameClears
<1>9. ASSUME NEW f, NEW n, NEW j \in 1..(w + 1), NEW l \in Nat, j <= l, Before(f, n, j) PROVE Before(f, n, l)'
  BY <1>4, <1>5, <1>9, BeforeAdded
<1>10. o.started => Before(e, o.produced + 1, w + 1)
  BY <1>1, <1>8 DEF FramesOK
<1> HIDE DEF o, s, w
<1>11. ASSUME NEW j \in 1..Len(Wire') PROVE \/ j \in 1..w /\ Wire'[j] = Wire[j] /\ Wire[j].epoch \in Epoch
                                            \/ j = w + 1 /\ Wire'[j] = m
  BY <1>4, AddedAt, WordAt DEF w
<1>12. ASSUME NEW j \in 1..Len(Wire'), Wire'[j].type = "frame", j <= Len(down') \/ Playing(Wire[j].epoch)'
       PROVE  Before(Wire[j].epoch, Wire[j].n, j)'
 <2>1. PICK f, n : f = Wire'[j].epoch /\ n = Wire'[j].n
   OBVIOUS
 <2>2. Before(f, n, j)
  <3>1. CASE j \in 1..w /\ Wire'[j] = Wire[j] /\ Wire[j].epoch \in Epoch
    BY <1>1, <1>8, <1>12, <2>1, <3>1 DEF FramesOK, w
  <3>2. CASE j = w + 1 /\ Wire'[j] = m
    BY <1>2, <1>10, <1>12, <2>1, <3>2 DEF Start, Frame, End
  <3> QED BY <1>11, <3>1, <3>2
 <2>3. Before(f, n, j)'
   BY <1>6, <1>9, <2>2
 <2> QED BY <2>1, <2>3 DEF Before
<1>13. ASSUME NEW j \in 1..Len(Wire'), Wire'[j].type = "end", j > Len(down'), Playing(Wire[j].epoch)'
       PROVE  Before(Wire[j].epoch, streams[Wire[j].epoch].produced + 1, j)'
 <2>1. PICK f, n : f = Wire'[j].epoch /\ n = streams'[Wire'[j].epoch].produced + 1
   OBVIOUS
 <2>2. Before(f, n, j)
  <3>1. CASE j \in 1..w /\ Wire'[j] = Wire[j] /\ Wire[j].epoch \in Epoch
   <4>1. f # e
     BY <1>1, <1>13, <2>1, <3>1 DEF Order, WordsOK, o, w
   <4>2. streams'[f] = streams[f]
     BY <1>7, <2>1, <3>1, <4>1
   <4> QED BY <1>1, <1>8, <1>13, <2>1, <3>1, <4>2 DEF FramesOK, w
  <3>2. CASE j = w + 1 /\ Wire'[j] = m
    BY <1>2, <1>10, <1>13, <2>1, <3>2 DEF Start, Frame, End, s
  <3> QED BY <1>11, <3>1, <3>2
 <2>3. Before(f, n, j)'
   BY <1>6, <1>9, <2>2
 <2> QED BY <2>1, <2>3 DEF Before
<1>14. ASSUME NEW f \in Epoch, Playing(f)', streams'[f].started, ~streams'[f].done
       PROVE  Before(f, streams[f].produced + 1, Len(Wire) + 1)'
 <2>1. CASE f # e
  <3>1. streams'[f] = streams[f]
    BY <1>7, <2>1
  <3>2. Before(f, streams[f].produced + 1, w + 1)
    BY <1>8, <1>14, <3>1 DEF FramesOK, w
  <3>3. PICK n, l \in Nat : n = streams[f].produced + 1 /\ l = Len(Wire') + 1 /\ w + 1 <= l /\ w + 1 \in 1..(w + 1)
   <4>1. streams[f].produced \in Nat
     BY <1>14, <3>1, StreamTypes DEF Playing
   <4> QED BY <1>6, <4>1
  <3>4. Before(f, n, l)'
    BY <1>9, <3>2, <3>3
  <3> QED BY <3>1, <3>3, <3>4 DEF Before
 <2>2. CASE f = e /\ m = Start(e)
  <3>1. s.produced = 0
    BY <1>2, <1>3, <2>2 DEF Start, Frame, End
  <3>2. w + 1 \in 1..((Len(Wire') + 1) - 1) /\ Wire'[w + 1] = Start(e)
    BY <1>6, <2>2
  <3> QED BY <2>2, <3>1, <3>2 DEF Before, s
 <2>3. CASE f = e /\ m = Frame(e, o.produced + 1)
  <3>1. s.produced = o.produced + 1
    BY <1>2, <2>3 DEF Start, Frame, End
  <3>2. w + 1 \in 1..((Len(Wire') + 1) - 1) /\ Wire'[w + 1] = Frame(e, s.produced)
    BY <1>6, <2>3, <3>1
  <3>3. s.produced + 1 > 1 /\ (s.produced + 1) - 1 = s.produced
    BY <1>3, <3>1
  <3> QED BY <2>3, <3>2, <3>3 DEF Before, s
 <2>4. CASE f = e /\ m = End(e)
   BY <1>2, <1>14, <2>4 DEF Start, Frame, End, s
 <2> QED BY <1>2, <2>1, <2>2, <2>3, <2>4
<1> QED BY <1>12, <1>13, <1>14 DEF FramesOK

LEMMA BeforeRemoved ==
  ASSUME VoiceInv, NEW k, Removed(k), Current' = Current, Expected' = Expected,
         NEW e, NEW n, NEW j \in k..(Len(Wire') + 1), Wire[k].epoch # e, Before(e, n, j + 1)
  PROVE  Before(e, n, j)'
<1>1. /\ Len(Wire) \in Nat /\ k \in 1..Len(Wire) /\ Len(Wire') = Len(Wire) - 1
      /\ \A i \in 1..Len(Wire') : Wire'[i] = Wire[IF i < k THEN i ELSE i + 1]
 <2>1. Len(Wire) \in Nat
   BY WireTypes
 <2> QED BY <2>1 DEF Removed
<1>2. ASSUME NEW i \in 1..((j + 1) - 1), Wire[i] = Start(e) \/ Wire[i] = Frame(e, n - 1)
      PROVE  \E l \in 1..(j - 1) : Wire'[l] = Wire[i]
 <2>1. i # k
   BY <1>2 DEF Start, Frame
 <2>2. CASE i < k
  <3>1. i \in 1..(j - 1) /\ i \in 1..Len(Wire')
    BY <1>1, <2>2
  <3> QED BY <1>1, <2>2, <3>1
 <2>3. CASE i > k
  <3>1. i - 1 \in 1..(j - 1) /\ i - 1 \in 1..Len(Wire') /\ ~(i - 1 < k) /\ (i - 1) + 1 = i
    BY <1>1, <2>3
  <3> QED BY <1>1, <3>1
 <2> QED BY <1>1, <2>1, <2>2, <2>3
<1> QED BY <1>2, BeforeKept

LEMMA FramesSender ==
  ASSUME VoiceInv, VoiceInv', Order, FramesOK, DeviceWriter, over' = "no"
  PROVE  FramesOK'
<1> DEFINE m == Head(outbound)
           o == streams[m.epoch]
           s == streams'[m.epoch]
           d == Len(down)
<1>1. /\ outbound # <<>> /\ outbound' = Tail(outbound) /\ m \in Word /\ UNCHANGED <<device, heard>>
      /\ \/ /\ m.type \in {"frame", "end"} /\ (~o.live \/ o.cleared)
            /\ UNCHANGED <<streams, down>>
         \/ m.type = "start" /\ down' = Append(down, m) /\ UNCHANGED streams
         \/ /\ m.type \in {"frame", "clear", "end"} /\ o.live /\ s.live /\ Alone(m.epoch)
            /\ down' = Append(down, m)
            /\ s.produced = o.produced /\ SameStarts(s, o)
            /\ s.cleared <=> o.cleared
            /\ m.type = "frame" => ~o.cleared
  BY SenderFacts DEF SentMessage
<1>2. Current' = Current /\ Expected' = Expected /\ m.epoch \in Epoch
  BY <1>1, ViewStays, WordTypes DEF device
<1>3. d \in Nat /\ d + 1 \in 1..Len(Wire) /\ Wire[d + 1] = m /\ Len(Wire) \in Nat
  BY <1>1, HeadWaits, WireTypes
<1>4. ASSUME NEW e \in Epoch
      PROVE  /\ Playing(e)' <=> Playing(e)
             /\ Playing(e) => /\ streams'[e].produced = streams[e].produced
                              /\ streams'[e].started <=> streams[e].started
                              /\ streams'[e].done <=> streams[e].done
 <2>1. CASE streams'[e] = streams[e]
   BY <2>1 DEF Playing
 <2>2. CASE e = m.epoch /\ streams' # streams
   BY <1>1, <2>2 DEF Playing, SameStarts
 <2> QED BY <1>1, <2>1, <2>2 DEF Alone
<1> HIDE DEF m, d
<1>5. CASE down' = Append(down, m) /\ (m.type = "frame" => Playing(m.epoch))
 <2>1. Len(Wire') = Len(Wire) /\ \A i \in 1..Len(Wire) : Wire'[i] = Wire[i]
   BY <1>1, <1>5, WireMoved DEF m
 <2>2. Len(down') = d + 1
   BY <1>1, <1>5, WireTypes, AppendKeeps DEF d
 <2>3. ASSUME NEW e, NEW n, NEW j \in 1..(Len(Wire) + 1), Before(e, n, j) PROVE Before(e, n, j)'
  <3>1. \A i \in 1..(j - 1) : Wire'[i] = Wire[i]
    BY <1>3, <2>1
  <3> QED BY <1>2, <2>3, <3>1, BeforeKept
 <2>4. ASSUME NEW j \in 1..Len(Wire'), Wire'[j].type = "frame", j <= Len(down') \/ Playing(Wire[j].epoch)'
       PROVE  Before(Wire[j].epoch, Wire[j].n, j)'
  <3>1. PICK e, n : e = Wire[j].epoch /\ n = Wire[j].n
    OBVIOUS
  <3>2. Wire'[j] = Wire[j] /\ e \in Epoch /\ j \in 1..Len(Wire) /\ j \in 1..(Len(Wire) + 1)
    BY <1>3, <2>1, <3>1, WordAt
  <3>3. j <= d \/ Playing(e)
   <4>1. CASE j <= Len(down')
    <5>1. j <= d \/ j = d + 1
      BY <1>3, <2>2, <4>1
    <5> QED BY <1>3, <1>5, <2>4, <3>1, <3>2, <5>1
   <4>2. CASE Playing(Wire[j].epoch)'
     BY <1>4, <3>1, <3>2, <4>2 DEF Playing
   <4> QED BY <2>4, <4>1, <4>2
  <3>4. Before(e, n, j)
    BY <2>4, <3>1, <3>2, <3>3 DEF FramesOK, d
  <3>5. Before(e, n, j)'
    BY <2>3, <3>2, <3>4
  <3> QED BY <3>1, <3>2, <3>5 DEF Before
 <2>5. ASSUME NEW j \in 1..Len(Wire'), Wire'[j].type = "end", j > Len(down'), Playing(Wire[j].epoch)'
       PROVE  Before(Wire[j].epoch, streams[Wire[j].epoch].produced + 1, j)'
  <3>1. PICK e, n : e = Wire[j].epoch /\ n = streams[e].produced + 1
    OBVIOUS
  <3>2. Wire'[j] = Wire[j] /\ e \in Epoch /\ j \in 1..Len(Wire) /\ j \in 1..(Len(Wire) + 1) /\ j > d
    BY <1>3, <2>1, <2>2, <2>5, <3>1, WordAt
  <3>3. Playing(e) /\ streams'[e].produced = streams[e].produced
    BY <1>4, <2>5, <3>1, <3>2 DEF Playing
  <3>4. Before(e, n, j)
    BY <2>5, <3>1, <3>2, <3>3 DEF FramesOK, d
  <3>5. Before(e, n, j)'
    BY <2>3, <3>2, <3>4
  <3> QED BY <3>1, <3>2, <3>3, <3>5 DEF Before
 <2>6. ASSUME NEW e \in Epoch, Playing(e)', streams'[e].started, ~streams'[e].done
       PROVE  Before(e, streams[e].produced + 1, Len(Wire) + 1)'
  <3>1. PICK n, j : n = streams[e].produced + 1 /\ j = Len(Wire) + 1
    OBVIOUS
  <3>2. Playing(e) /\ streams'[e].produced = streams[e].produced /\ streams[e].started /\ ~streams[e].done
    BY <1>4, <2>6
  <3>3. Before(e, n, j)
    BY <3>1, <3>2 DEF FramesOK
  <3>4. Before(e, n, j)'
    BY <1>3, <2>3, <3>1, <3>3
  <3> QED BY <2>1, <3>1, <3>2, <3>4 DEF Before
 <2> QED BY <2>4, <2>5, <2>6 DEF FramesOK
<1>6. CASE UNCHANGED <<streams, down>> /\ m.type \in {"frame", "end"} /\ ~Playing(m.epoch)
 <2>1. Removed(d + 1)
   BY <1>1, <1>6, WireDropped DEF m, d
 <2>2. Len(Wire') = Len(Wire) - 1 /\ \A i \in 1..Len(Wire') : Wire'[i] = Wire[IF i < d + 1 THEN i ELSE i + 1]
   BY <2>1 DEF Removed
 <2>3. ASSUME NEW e, NEW n, NEW j \in (d + 1)..(Len(Wire') + 1), Playing(e), Before(e, n, j + 1)
       PROVE  Before(e, n, j)'
  <3>1. Wire[d + 1].epoch # e
    BY <1>3, <1>6, <2>3
  <3> QED BY <1>2, <2>1, <2>3, <3>1, BeforeRemoved
 <2>4. ASSUME NEW j \in 1..Len(Wire'), Wire'[j].type = "frame", j <= Len(down') \/ Playing(Wire[j].epoch)'
       PROVE  Before(Wire[j].epoch, Wire[j].n, j)'
  <3>1. PICK e, n : e = Wire'[j].epoch /\ n = Wire'[j].n
    OBVIOUS
  <3>2. CASE j <= d
   <4>0. ASSUME NEW i \in 1..j PROVE i \in 1..Len(Wire) /\ Wire'[i] = Wire[i]
    <5>1. i \in 1..Len(Wire') /\ i < d + 1 /\ i \in 1..Len(Wire)
      BY <1>3, <2>2, <3>2
    <5> QED BY <2>2, <5>1
   <4>1. j \in 1..Len(Wire) /\ Wire'[j] = Wire[j] /\ \A i \in 1..(j - 1) : Wire'[i] = Wire[i]
    <5>1. j \in 1..j /\ \A i \in 1..(j - 1) : i \in 1..j
      OBVIOUS
    <5> QED BY <4>0, <5>1
   <4>2. Before(e, n, j)
     BY <2>4, <3>1, <3>2, <4>1 DEF FramesOK, d
   <4>3. Before(e, n, j)'
     BY <1>2, <4>1, <4>2, BeforeKept
   <4> QED BY <3>1, <4>3 DEF Before
  <3>3. CASE ~(j <= d)
   <4>1. /\ j + 1 \in 1..Len(Wire) /\ Wire'[j] = Wire[j + 1] /\ j \in (d + 1)..(Len(Wire') + 1)
         /\ e \in Epoch
    <5>1. ~(j < d + 1) /\ j + 1 \in 1..Len(Wire) /\ j \in (d + 1)..(Len(Wire') + 1)
      BY <1>3, <2>2, <3>3
    <5>2. Wire'[j] = Wire[j + 1]
      BY <2>2, <5>1
    <5> QED BY <3>1, <5>1, <5>2, WordAt
   <4>2. Playing(e)
     BY <1>4, <1>6, <2>4, <3>1, <3>3, <4>1 DEF Playing, d
   <4>3. Before(e, n, j + 1)
     BY <2>4, <3>1, <4>1, <4>2 DEF FramesOK
   <4>4. Before(e, n, j)'
     BY <2>3, <4>1, <4>2, <4>3
   <4> QED BY <3>1, <4>4 DEF Before
  <3> QED BY <3>2, <3>3
 <2>5. ASSUME NEW j \in 1..Len(Wire'), Wire'[j].type = "end", j > Len(down'), Playing(Wire[j].epoch)'
       PROVE  Before(Wire[j].epoch, streams[Wire[j].epoch].produced + 1, j)'
  <3>1. PICK e, n : e = Wire'[j].epoch /\ n = streams[e].produced + 1
    OBVIOUS
  <3>2. /\ j + 1 \in 1..Len(Wire) /\ Wire'[j] = Wire[j + 1] /\ j \in (d + 1)..(Len(Wire') + 1)
        /\ e \in Epoch /\ j + 1 > Len(down)
   <4>1. /\ ~(j < d + 1) /\ j + 1 \in 1..Len(Wire) /\ j \in (d + 1)..(Len(Wire') + 1)
         /\ j + 1 > Len(down)
     BY <1>3, <1>6, <2>2, <2>5 DEF d
   <4>2. Wire'[j] = Wire[j + 1]
     BY <2>2, <4>1
   <4> QED BY <3>1, <4>1, <4>2, WordAt
  <3>3. Playing(e)
    BY <1>6, <2>5, <3>1, <3>2 DEF Playing
  <3>4. Before(e, n, j + 1)
    BY <2>5, <3>1, <3>2, <3>3 DEF FramesOK
  <3>5. Before(e, n, j)'
    BY <2>3, <3>2, <3>3, <3>4
  <3> QED BY <1>6, <3>1, <3>5 DEF Before
 <2>6. ASSUME NEW e \in Epoch, Playing(e)', streams'[e].started, ~streams'[e].done
       PROVE  Before(e, streams[e].produced + 1, Len(Wire) + 1)'
  <3>1. PICK n, j : n = streams[e].produced + 1 /\ j = Len(Wire') + 1
    OBVIOUS
  <3>2. Playing(e) /\ j + 1 = Len(Wire) + 1 /\ j \in (d + 1)..(Len(Wire') + 1)
    BY <1>3, <1>4, <2>2, <2>6, <3>1
  <3>3. Before(e, n, j + 1)
    BY <1>6, <2>6, <3>1, <3>2 DEF FramesOK
  <3>4. Before(e, n, j)'
    BY <2>3, <3>2, <3>3
  <3> QED BY <1>6, <3>1, <3>4 DEF Before
 <2> QED BY <2>4, <2>5, <2>6 DEF FramesOK
<1>7. \/ down' = Append(down, m) /\ (m.type = "frame" => Playing(m.epoch))
      \/ UNCHANGED <<streams, down>> /\ m.type \in {"frame", "end"} /\ ~Playing(m.epoch)
  BY <1>1 DEF m, Playing
<1> QED BY <1>5, <1>6, <1>7

LEMMA TakenViews ==
  ASSUME VoiceInv, VoiceInv', Order, WsStart \/ WsClear \/ WsEnd \/ WsFrame, over' = "no"
  PROVE  Taken(Head(down))
<1>1. CASE WsStart
  BY <1>1, StartFacts DEF Taken, TakenFrom
<1>2. CASE WsClear
  BY <1>2, ClearedFacts DEF Taken, TakenFrom
<1>3. CASE WsEnd
  BY <1>3, EndedFacts DEF Taken, TakenFrom
<1>4. CASE WsFrame
  BY <1>4, FrameFacts DEF Taken, TakenFrom
<1> QED BY <1>1, <1>2, <1>3, <1>4

LEMMA TakenBefore ==
  ASSUME VoiceInv, NEW m, Taken(m), NEW e \in Epoch, NEW n \in Nat, NEW j \in 1..Len(Wire),
         Before(e, n, j + 1), m.type = "end" \/ ~(e = Current /\ n = Expected + 1)
  PROVE  Before(e, n, j)'
<1>1. /\ Wire[1] = m /\ Len(Wire) \in Nat /\ Len(Wire') = Len(Wire) - 1
      /\ \A i \in 1..Len(Wire') : Wire'[i] = Wire[i + 1]
  BY WireTypes DEF Taken, TakenFrom, Removed
<1>2. ASSUME NEW s, NEW i \in 1..((j + 1) - 1), Wire[i] = s, m # s
      PROVE  \E k \in 1..(j - 1) : Wire'[k] = s
 <2>1. i # 1 /\ i - 1 \in 1..(j - 1) /\ i - 1 \in 1..Len(Wire') /\ (i - 1) + 1 = i
   BY <1>1, <1>2
 <2> QED BY <1>1, <1>2, <2>1
<1>3. CASE e = Current /\ n = Expected + 1
  BY <1>3 DEF Taken, Before
<1>4. CASE n = 1 /\ \E i \in 1..((j + 1) - 1) : Wire[i] = Start(e)
 <2>1. CASE m = Start(e)
   BY <1>4, <2>1 DEF Taken, Before, Start, Frame, Clear
 <2>2. CASE m # Start(e)
   BY <1>2, <1>4, <2>2 DEF Before
 <2> QED BY <2>1, <2>2
<1>5. CASE n > 1 /\ \E i \in 1..((j + 1) - 1) : Wire[i] = Frame(e, n - 1)
 <2>1. CASE m = Frame(e, n - 1)
  <3>1. m.type = "frame" /\ m.epoch = e /\ m.n = n - 1 /\ (n - 1) + 1 = n
    BY <2>1 DEF Frame
  <3> QED BY <3>1 DEF Taken, Before
 <2>2. CASE m # Frame(e, n - 1)
   BY <1>2, <1>5, <2>2 DEF Before
 <2> QED BY <2>1, <2>2
<1> QED BY <1>3, <1>4, <1>5 DEF Before

LEMMA FramesTaken ==
  ASSUME VoiceInv, VoiceInv', Order, FramesOK, WsStart \/ WsClear \/ WsEnd \/ WsFrame, over' = "no"
  PROVE  FramesOK'
<1> DEFINE m == Head(down)
<1>1. Taken(m) /\ TakenFrom(m) /\ UNCHANGED streams /\ m \in Word
  BY TakenViews DEF Taken, TakenFrom
<1>2. /\ Wire[1] = m /\ 1 \in 1..Len(Wire) /\ Len(Wire) \in Nat /\ Len(Wire') = Len(Wire) - 1
      /\ \A i \in 1..Len(Wire') : Wire'[i] = Wire[i + 1] /\ i + 1 \in 1..Len(Wire)
      /\ Len(down') = Len(down) - 1 /\ Len(down) \in Nat
  BY <1>1, WireTypes, TailKeeps DEF TakenFrom, Removed
<1>3. Current \in Nat /\ Last \in Nat /\ Expected \in Nat /\ (Current # 0 => Current = Last) /\ 0 \notin Epoch
  BY ViewTypes, EpochNat
<1>4. \A e : Playing(e)' <=> Playing(e)
  BY <1>1 DEF Playing
<1> HIDE DEF m
<1>5. ASSUME NEW j \in 1..Len(Wire'), Wire[j + 1].epoch = Current
      PROVE  /\ m.type # "start" /\ m.type # "clear"
             /\ m.type = "frame" /\ Wire[j + 1].type = "frame" => m.n < Wire[j + 1].n
 <2>1. Precedes(m, Wire[j + 1]) /\ m.epoch \in Nat /\ Wire[j + 1].epoch \in Epoch /\ Wire[j + 1].epoch \in Nat
   BY <1>1, Follows
 <2> QED BY <1>1, <1>3, <1>5, <2>1 DEF Precedes, Taken
<1>6. ASSUME NEW e \in Epoch, NEW n \in Nat, NEW j \in 1..Len(Wire), Before(e, n, j + 1),
             m.type = "end" \/ ~(e = Current /\ n = Expected + 1)
      PROVE  Before(e, n, j)'
  BY <1>1, <1>6, TakenBefore
<1>7. ASSUME NEW j \in 1..Len(Wire'), Wire'[j].type = "frame", j <= Len(down') \/ Playing(Wire[j].epoch)'
      PROVE  Before(Wire[j].epoch, Wire[j].n, j)'
 <2>1. PICK e, n : e = Wire'[j].epoch /\ n = Wire'[j].n
   OBVIOUS
 <2>2. /\ j + 1 \in 1..Len(Wire) /\ Wire'[j] = Wire[j + 1] /\ j \in 1..Len(Wire)
       /\ e \in Epoch /\ n \in Nat
   BY <1>2, <1>7, <2>1, WordAt
 <2>3. j + 1 <= Len(down) \/ Playing(e)
   BY <1>1, <1>2, <1>7, <2>1, <2>2 DEF Playing
 <2>4. Before(e, n, j + 1)
   BY <1>7, <2>1, <2>2, <2>3 DEF FramesOK
 <2>5. m.type = "end" \/ ~(e = Current /\ n = Expected + 1)
   BY <1>1, <1>3, <1>5, <1>7, <2>1, <2>2 DEF Taken
 <2>6. Before(e, n, j)'
   BY <1>6, <2>2, <2>4, <2>5
 <2> QED BY <2>1, <2>6 DEF Before
<1>8. ASSUME NEW j \in 1..Len(Wire'), Wire'[j].type = "end", j > Len(down'), Playing(Wire[j].epoch)'
      PROVE  Before(Wire[j].epoch, streams[Wire[j].epoch].produced + 1, j)'
 <2>1. PICK e, n : e = Wire'[j].epoch /\ n = streams[e].produced + 1
   OBVIOUS
 <2>2. /\ j + 1 \in 1..Len(Wire) /\ Wire'[j] = Wire[j + 1] /\ j \in 1..Len(Wire)
       /\ e \in Epoch /\ j + 1 > Len(down)
   BY <1>2, <1>8, <2>1, WordAt
 <2>3. Playing(e) /\ streams[e].produced \in Nat /\ n \in Nat
  <3>1. Playing(e)
    BY <1>1, <1>8, <2>1, <2>2 DEF Playing
  <3> QED BY <2>1, <2>2, <3>1, StreamTypes DEF Playing
 <2>4. Before(e, n, j + 1)
   BY <1>8, <2>1, <2>2, <2>3 DEF FramesOK
 <2>5. m.type = "end" \/ ~(e = Current /\ n = Expected + 1)
  <3>1. SUFFICES ASSUME m.type = "frame", e = Current, n = Expected + 1 PROVE FALSE
    BY <1>1, <1>5, <2>1, <2>2 DEF Taken
  <3>2. m.epoch = e /\ m.n = streams[e].produced + 1
    BY <1>1, <2>1, <3>1 DEF Taken
  <3>3. m.n <= streams[e].produced
   <4>1. NoMore(e, streams[e].produced)
     BY <2>2, <2>3 DEF VoiceInv, AccountsOK, StreamOK, Playing
   <4> QED BY <1>2, <2>2, <2>3, <3>1, <3>2, <4>1, WireWithin
  <3> QED BY <2>3, <3>2, <3>3
 <2>6. Before(e, n, j)'
   BY <1>6, <2>2, <2>3, <2>4, <2>5
 <2> QED BY <1>1, <2>1, <2>6 DEF Before
<1>9. ASSUME NEW e \in Epoch, Playing(e)', streams'[e].started, ~streams'[e].done
      PROVE  Before(e, streams[e].produced + 1, Len(Wire) + 1)'
 <2>1. PICK n, j : n = streams[e].produced + 1 /\ j = Len(Wire)
   OBVIOUS
 <2>2. Playing(e) /\ streams[e].started /\ ~streams[e].done /\ e \in Nat
   BY <1>1, <1>4, <1>9, EpochNat
 <2>3. streams[e].produced \in Nat /\ n \in Nat /\ j \in 1..Len(Wire) /\ ~Finished(streams[e])
   BY <1>2, <2>1, <2>2, StreamTypes DEF Playing, Finished
 <2>4. Before(e, n, j + 1)
   BY <2>1, <2>2 DEF FramesOK
 <2>5. m.type = "end" \/ ~(e = Current /\ n = Expected + 1)
  <3>1. SUFFICES ASSUME m.type # "end", e = Current, n = Expected + 1 PROVE FALSE
    OBVIOUS
  <3>2. CASE m.type = "frame"
   <4>1. m.epoch = e /\ m.n = streams[e].produced + 1
     BY <1>1, <2>1, <3>1, <3>2 DEF Taken
   <4>2. m.n <= streams[e].produced
    <5>1. NoMore(e, streams[e].produced)
      BY <2>2 DEF VoiceInv, AccountsOK, StreamOK, Playing
    <5> QED BY <1>2, <2>3, <3>2, <4>1, <5>1, WireWithin
   <4> QED BY <2>3, <4>1, <4>2
  <3>3. CASE m.type \in {"start", "clear"}
   <4>1. m.epoch < e \/ (m.epoch = e /\ m.type # "clear")
     BY <1>2, <2>2, <2>3, WritersLast DEF Playing
   <4>2. m.epoch \in Nat
     BY <1>1, EpochNat DEF Taken
   <4> QED BY <1>1, <1>3, <2>2, <3>1, <3>3, <4>1, <4>2 DEF Taken
  <3> QED BY <1>1, <3>1, <3>2, <3>3 DEF Taken
 <2>6. Before(e, n, j)'
   BY <1>6, <2>3, <2>4, <2>5
 <2>7. Len(Wire') + 1 = j
   BY <1>2, <2>1
 <2> QED BY <1>1, <2>1, <2>6, <2>7 DEF Before
<1> QED BY <1>7, <1>8, <1>9 DEF FramesOK

LEMMA FramesAudio ==
  ASSUME VoiceInv, VoiceInv', Order, FramesOK, ResponseAudio, over' = "no"
  PROVE  FramesOK'
<1>1. UNCHANGED <<outbound, down, device, heard>>
  BY AudioFacts
<1>2. Current' = Current /\ Expected' = Expected
  BY <1>1, ViewStays DEF device
<1>3. ASSUME NEW f \in Epoch,
             LET o == streams[f]
                 s == streams'[f]
             IN /\ o.live /\ s.live /\ Alone(f) /\ SameClears(s, o) /\ SameStarts(s, o)
                /\ s.produced = o.produced
      PROVE  FramesOK'
 <2>1. \A e \in Epoch : Playing(e)' =>
         /\ Playing(e) /\ streams'[e].produced = streams[e].produced
         /\ streams'[e].started => streams[e].started
         /\ streams[e].done => streams'[e].done
   BY <1>3 DEF Alone, Playing, SameClears, SameStarts
 <2> QED BY <1>1, <1>2, <2>1, FramesAside
<1>4. ASSUME epoch' = epoch + 1, epoch + 1 \in Epoch, Opened(epoch + 1),
             \A f \in Epoch : f # epoch + 1 => Retires(f)
      PROVE  FramesOK'
 <2>1. ASSUME NEW e \in Epoch, Playing(e)'
       PROVE  \/ /\ Playing(e) /\ streams'[e].produced = streams[e].produced
                 /\ streams'[e].started => streams[e].started
                 /\ streams[e].done => streams'[e].done
              \/ ~streams'[e].started /\ Unbegun(e)
  <3>1. CASE e # epoch + 1
    BY <1>4, <2>1, <3>1 DEF Retires, Playing
  <3>2. CASE e = epoch + 1
   <4>1. e > epoch
     BY <1>4, <3>2, HeardTypes
   <4> QED BY <1>4, <3>2, <4>1 DEF Opened, Order, BeginsOK
  <3> QED BY <3>1, <3>2
 <2> QED BY <1>1, <1>2, <2>1, FramesAside
<1> QED BY <1>3, <1>4, AudioFacts

LEMMA FramesNext ==
  ASSUME VoiceInv, VoiceInv', Order, FramesOK, over = "no", over' = "no", [Next]_vars
  PROVE  FramesOK'
<1>1. CASE SpeechStarted
  BY <1>1, FramesSpeech
<1>2. ASSUME UNCHANGED <<streams, down, outbound>>,
             UNCHANGED <<dev, ws>> \/ WsOpen \/ WsPublish \/ WsCleared
      PROVE  FramesOK'
  BY <1>2, ViewStays, FramesAside DEF Playing
<1>3. CASE SpeechStopped \/ InputCommitted \/ ResponseStarted \/ Dma \/ Conversation \/ UNCHANGED vars
  BY <1>2, <1>3 DEF SpeechStopped, InputCommitted, ResponseStarted, Dma, Conversation, ConvControl,
     ConvSample, ConvReport, vars, proxy, device, session
<1>4. CASE WsOpen \/ WsPublish \/ WsCleared
  BY <1>2, <1>4 DEF WsOpen, WsPublish, WsCleared, proxy
<1>5. CASE ResponseAudio
  BY <1>5, FramesAudio
<1>6. CASE ResponseDone
 <2>1. UNCHANGED <<down, outbound, dev, ws>> /\ \A e \in Epoch : Alike(e)
   BY <1>6, DoneFacts DEF device
 <2>2. \A e \in Epoch : Playing(e)' =>
         /\ Playing(e) /\ streams'[e].produced = streams[e].produced
         /\ streams'[e].started => streams[e].started
         /\ streams[e].done => streams'[e].done
   BY <2>1 DEF Alike, Playing, SameCounts, SameClears, SameStarts
 <2> QED BY <2>1, <2>2, ViewStays, FramesAside
<1>7. CASE \E e \in Epoch : AudioWriter(e)
  BY <1>7, FramesWriter
<1>8. CASE DeviceWriter
  BY <1>8, FramesSender
<1>9. CASE DeviceReader
 <2>1. UNCHANGED <<down, outbound, dev, ws>> /\ (Accepted(Head(up)) \/ UNCHANGED streams)
   BY <1>9, ReaderFacts DEF device
 <2>2. \A e \in Epoch : Playing(e)' =>
         /\ Playing(e) /\ streams'[e].produced = streams[e].produced
         /\ streams'[e].started => streams[e].started
         /\ streams[e].done => streams'[e].done
   BY <2>1 DEF Accepted, Alone, Playing, SameStarts
 <2> QED BY <2>1, <2>2, ViewStays, FramesAside
<1>10. CASE WsStart \/ WsClear \/ WsEnd \/ WsFrame
  BY <1>10, FramesTaken
<1> QED BY <1>1, <1>3, <1>4, <1>5, <1>6, <1>7, <1>8, <1>9, <1>10 DEF Next, Provider, WebSocket

-------------------------------------------------------------------------------
(***************************************************************************)
(* Clears and starts: a clear is on its way or answered while its answer   *)
(* waits for it, and no answer begins before the earlier ones are over.    *)
(***************************************************************************)

LEMMA PositionsNext ==
  ASSUME VoiceInv, VoiceInv', [Next]_vars
  PROVE  PositionsStay
<1>1. CASE Provider
  BY <1>1, ProviderStays
<1>2. CASE \E e \in Epoch : AudioWriter(e)
  BY <1>2, WriterStays
<1>3. CASE DeviceWriter
  BY <1>3, DeviceWriterStays
<1>4. CASE DeviceReader
  BY <1>4, DeviceReaderStays
<1>5. CASE WebSocket \/ Dma \/ Conversation \/ UNCHANGED vars
 <2>1. UNCHANGED <<streams, settled>>
   BY <1>5 DEF WebSocket, WsStart, WsOpen, WsPublish, WsClear, WsCleared, WsEnd, WsFrame, Dma,
      Conversation, ConvControl, ConvSample, ConvReport, proxy, session, vars
 <2> QED BY <2>1, SameAccounts
<1> QED BY <1>1, <1>2, <1>3, <1>4, <1>5 DEF Next

\* What is cleared at the recorder is not to be cleared any more.
LEMMA AcksLast ==
  ASSUME VoiceInv, Order, NEW e \in Epoch, Acks(e)
  PROVE  e <= epoch /\ e # Current /\ e <= Last /\ e <= dev.last
<1>1. /\ e <= dev.last /\ e # Current
 <2>1. DeviceOK /\ ReportsOK /\ dev.last \in Nat /\ dev.current \in Nat /\ e \in Nat /\ e # 0
       /\ ws.pc \in {"idle", "flushed", "opened", "clearing"}
   BY EpochNat, ViewTypes DEF VoiceInv, VoiceTypes, DeviceTypes, Ws
 <2>2. CASE ws.pc = "clearing" /\ ws.epoch = e
  <3>1. e = dev.current /\ dev.current = dev.last
    BY <2>1, <2>2 DEF DeviceOK
  <3> QED BY <2>1, <2>2, <3>1 DEF Current, Begins
 <2>3. ASSUME NEW m, Truthful(m), m.type = "cleared", m.epoch = e PROVE e <= dev.last /\ e # Current
  <3>1. e <= dev.last /\ dac.epoch # e
    BY <2>3 DEF Truthful, Dead
  <3>2. ws.pc = "idle" => Current # e
    BY <2>1, <3>1 DEF DeviceOK, Current, Begins
  <3>3. Begins => Current # e
    BY <2>1, <3>1, ViewTypes DEF DeviceOK, Current, Begins
  <3>4. ws.pc = "clearing" => Current # e
    BY <2>1 DEF Current, Begins
  <3> QED BY <2>1, <3>1, <3>2, <3>3, <3>4 DEF Begins
 <2> QED BY <2>1, <2>2, <2>3 DEF Acks, ReportsOK
<1>2. e <= Last /\ e \in Nat /\ Last \in Nat
  BY <1>1, ViewTypes, EpochNat
<1>3. e <= epoch
 <2>1. ~Unbegun(e)
   BY <1>2 DEF Unbegun
 <2> QED BY <1>2, <2>1, HeardTypes DEF Order, BeginsOK
<1> QED BY <1>1, <1>2, <1>3

LEMMA AcksOff ==
  ASSUME VoiceInv, Order, NEW e \in Epoch, Acks(e), NEW i \in 1..Len(Wire)
  PROVE  Wire[i].epoch # e
<1>1. AtCurrent(Wire[i]) \/ AfterStart(i)
  BY DEF Order, Placed
<1>2. e \in Nat /\ Last \in Nat
  BY ViewTypes, EpochNat
<1> QED BY <1>1, <1>2, AcksLast DEF AtCurrent, AfterStart

LEMMA AcksMove ==
  ASSUME VoiceInv, [Next]_vars, ~DeviceReader, NEW e \in Epoch, Acks(e)
  PROVE  Acks(e)'
<1>1. controls \in Seq(Told) /\ up \in Seq(Told) /\ ws \in Ws
  BY DEF VoiceInv, VoiceTypes, DeviceTypes
<1>2. CASE UNCHANGED <<ws, up, controls>>
  BY <1>2 DEF Acks
<1>3. ASSUME NEW m \in Told, up' = Append(up, m), UNCHANGED <<ws, controls>> PROVE Acks(e)'
 <2>1. \A i \in 1..Len(up) : i \in 1..Len(up') /\ up'[i] = up[i]
   BY <1>1, <1>3, AppendKeeps
 <2> QED BY <1>3, <2>1 DEF Acks
<1>4. CASE ConvControl
 <2>1. controls # <<>> /\ up' = Append(up, Head(controls)) /\ controls' = Tail(controls) /\ ws' = ws
   BY <1>4 DEF ConvControl
 <2>2. /\ \A i \in 1..Len(up) : i \in 1..Len(up') /\ up'[i] = up[i]
       /\ Len(up) + 1 \in 1..Len(up') /\ up'[Len(up) + 1] = controls[1]
       /\ Head(controls) \in Told
   BY <1>1, <2>1, AppendKeeps, TailKeeps
 <2>3. ASSUME NEW i \in 1..Len(controls), controls[i].type = "cleared", controls[i].epoch = e
       PROVE  Acks(e)'
  <3>1. CASE i = 1
    BY <2>2, <2>3, <3>1 DEF Acks
  <3>2. CASE i # 1
   <4>1. i - 1 \in 1..Len(controls') /\ controls'[i - 1] = controls[i]
     BY <1>1, <2>1, <2>3, <3>2, TailKeeps
   <4> QED BY <2>3, <4>1 DEF Acks
  <3> QED BY <3>1, <3>2
 <2> QED BY <2>1, <2>2, <2>3 DEF Acks
<1>5. CASE ConvReport
 <2>1. sample \in 0..MaxEpoch /\ sample # 0 /\ up' = Append(up, Progress(sample, Played(sample))) /\ UNCHANGED <<ws, controls>>
   BY <1>5 DEF ConvReport, VoiceInv, VoiceTypes, DeviceTypes
 <2>2. Played(sample) \in Nat /\ sample \in Epoch
   BY <2>1, EpochNat DEF Played, VoiceInv, VoiceTypes, DeviceTypes, Dac
 <2>3. Progress(sample, Played(sample)) \in Told
   BY <2>2 DEF Progress, Told
 <2> QED BY <1>3, <2>1, <2>3
<1>6. CASE WsStart \/ WsClear \/ WsEnd \/ WsFrame \/ WsOpen \/ WsPublish
 <2>1. UNCHANGED <<up, controls>> /\ (ws.pc # "clearing" \/ ws' = ws)
   BY <1>6 DEF WsStart, WsClear, WsEnd, WsFrame, WsOpen, WsPublish, Got, proxy, session, Rejected
 <2> QED BY <2>1 DEF Acks
<1>7. CASE WsCleared
 <2>1. /\ controls' = Append(controls, Cleared(ws.epoch, ws.played)) /\ UNCHANGED up
       /\ ws.pc = "clearing"
   BY <1>7 DEF WsCleared
 <2>2. Cleared(ws.epoch, ws.played) \in Told
  <3>1. ws.epoch \in Epoch
    BY <2>1 DEF VoiceInv, DeviceOK
  <3>2. ws.played \in Nat
    BY <1>1 DEF Ws
  <3> QED BY <3>1, <3>2 DEF Cleared, Told
 <2>3. /\ \A i \in 1..Len(controls) : i \in 1..Len(controls') /\ controls'[i] = controls[i]
       /\ Len(controls) + 1 \in 1..Len(controls')
       /\ controls'[Len(controls) + 1] = Cleared(ws.epoch, ws.played)
   BY <1>1, <2>1, <2>2, AppendKeeps
 <2> QED BY <2>1, <2>3 DEF Acks, Cleared
<1>8. CASE SpeechStarted \/ SpeechStopped \/ InputCommitted \/ ResponseStarted \/ ResponseAudio \/ ResponseDone
  BY <1>2, <1>8 DEF SpeechStarted, SpeechStopped, InputCommitted, ResponseStarted, ResponseAudio,
     ResponseDone, device
<1>9. CASE (\E f \in Epoch : AudioWriter(f)) \/ DeviceWriter \/ Dma \/ ConvSample \/ UNCHANGED vars
  BY <1>2, <1>9 DEF AudioWriter, DeviceWriter, Dma, ConvSample, vars, device
<1> QED BY <1>4, <1>5, <1>6, <1>7, <1>8, <1>9 DEF Next, Provider, WebSocket, Conversation

\* An acknowledgment that is read settles the answer.
LEMMA AcksStay ==
  ASSUME VoiceInv, VoiceInv', Order, [Next]_vars, over' = "no", NEW e \in Epoch, Acks(e)
  PROVE  Acks(e)' \/ (Position(e)' # Open /\ ~Clearing(e)')
<1>1. CASE ~DeviceReader
  BY <1>1, AcksMove
<1>2. CASE DeviceReader
 <2> DEFINE m == Head(up)
 <2>1. /\ up # <<>> /\ up' = Tail(up) /\ UNCHANGED <<device, outbound, down>> /\ m.played \in Nat
       /\ \/ Accepted(m)
          \/ ~streams[m.epoch].live /\ UNCHANGED <<streams, settled, over>>
   BY <1>2, ReaderFacts
 <2>2. up \in Seq(Told) /\ e <= epoch /\ settled'[e] \in Nat \cup {Open} /\ Open \notin Nat
   BY AcksLast, HeardTypes DEF VoiceInv, VoiceTypes, DeviceTypes, ProxyTypes
 <2>3. CASE m.type = "cleared" /\ m.epoch = e
  <3>1. CASE Accepted(m)
   <4>1. streams'[e].acknowledged /\ settled'[e] # Open
     BY <2>1, <2>2, <2>3, <3>1 DEF Accepted
   <4> QED BY <4>1 DEF Position, Clearing
  <3>2. CASE ~streams[e].live /\ UNCHANGED <<streams, settled>>
   <4>1. settled[e] # Open
     BY <2>2, <3>2 DEF Order, FlagsOK
   <4> QED BY <3>2, <4>1 DEF Position, Clearing
  <3> QED BY <2>1, <2>3, <3>1, <3>2
 <2>4. CASE ~(m.type = "cleared" /\ m.epoch = e)
  <3>1. ASSUME NEW i \in 1..Len(up), up[i].type = "cleared", up[i].epoch = e PROVE Acks(e)'
   <4>1. i # 1
     BY <2>1, <2>2, <2>4, <3>1, TailKeeps
   <4>2. i - 1 \in 1..Len(up') /\ up'[i - 1] = up[i]
     BY <2>1, <2>2, <4>1, TailKeeps
   <4> QED BY <3>1, <4>2 DEF Acks
  <3> QED BY <2>1, <3>1 DEF Acks, device
 <2> QED BY <2>3, <2>4
<1> QED BY <1>1, <1>2

\* An answer waits for its acknowledgment from the interruption until then.
LEMMA ClearingNext ==
  ASSUME VoiceInv, VoiceInv', [Next]_vars, over' = "no", NEW e \in Epoch
  PROVE  /\ Clearing(e) /\ ~Acks(e) => Clearing(e)'
         /\ Clearing(e)' => Clearing(e) \/ (SpeechStarted /\ Interrupted(e) /\ streams[e].started)
<1>1. CASE streams' = streams
  BY <1>1 DEF Clearing
<1>2. CASE SpeechStarted
 <2>1. /\ Interrupted(e) => Silenced(e)
       /\ Closed(e) => ~streams'[e].live
       /\ ~Interrupted(e) /\ ~Closed(e) => streams'[e] = streams[e]
   BY <1>2, SpeechFacts
 <2>2. Clearing(e) => ~Interrupted(e) /\ ~Closed(e)
   BY DEF Clearing, Interrupted, Closed, Finished
 <2> QED BY <1>2, <2>1, <2>2 DEF Clearing, Silenced, SameStarts
<1>3. CASE ResponseAudio
 <2>1. ASSUME NEW f \in Epoch, streams[f].live, streams'[f].live, Alone(f),
              SameClears(streams'[f], streams[f]), SameStarts(streams'[f], streams[f])
       PROVE  Clearing(e)' <=> Clearing(e)
   BY <2>1 DEF Clearing, Alone, SameClears, SameStarts
 <2>2. ASSUME ~streams[epoch + 1].live, Opened(epoch + 1),
              \A f \in Epoch : f # epoch + 1 => Retires(f)
       PROVE  Clearing(e)' <=> Clearing(e)
   BY <2>2 DEF Clearing, Opened, Retires, Closed, Finished
 <2> QED BY <1>3, <2>1, <2>2, AudioFacts
<1>4. CASE ResponseDone
  BY <1>4, DoneFacts DEF Alike, Clearing, SameClears, SameStarts
<1>5. ASSUME NEW f \in Epoch, AudioWriter(f)
      PROVE  Clearing(e)' <=> Clearing(e)
  BY <1>5, WriterFacts DEF Alone, Clearing, SameClears
<1>6. CASE DeviceWriter
 <2>1. Head(outbound) \in Word
   BY <1>6, SenderFacts
 <2>2. Head(outbound).epoch \in Epoch
   BY <2>1, WordTypes
 <2>3. \/ UNCHANGED streams
       \/ /\ Alone(Head(outbound).epoch) /\ streams[Head(outbound).epoch].live
          /\ streams'[Head(outbound).epoch].live
          /\ SameStarts(streams'[Head(outbound).epoch], streams[Head(outbound).epoch])
          /\ streams'[Head(outbound).epoch].cleared <=> streams[Head(outbound).epoch].cleared
          /\ streams'[Head(outbound).epoch].acknowledged <=> streams[Head(outbound).epoch].acknowledged
   BY <1>6, SenderFacts
 <2> QED BY <2>2, <2>3 DEF Alone, Clearing, SameStarts
<1>7. CASE DeviceReader
 <2>1. /\ up # <<>> /\ (Accepted(Head(up)) \/ UNCHANGED streams)
       /\ Head(up).epoch \in Epoch
   BY <1>7, ReaderFacts
 <2>2. CASE Accepted(Head(up)) /\ up # <<>>
  <3>1. Head(up).type = "cleared" /\ Head(up).epoch = e => Acks(e)
   <4>1. up \in Seq(Told)
     BY DEF VoiceInv, VoiceTypes, DeviceTypes
   <4> QED BY <2>2, <4>1, TailKeeps DEF Acks
  <3> QED BY <2>1, <2>2, <3>1 DEF Accepted, Alone, Clearing, SameStarts
 <2> QED BY <1>1, <2>1, <2>2
<1>8. CASE SpeechStopped \/ InputCommitted \/ ResponseStarted \/ WebSocket \/ Dma \/ Conversation \/ UNCHANGED vars
 <2>1. streams' = streams
   BY <1>8 DEF SpeechStopped, InputCommitted, ResponseStarted, WebSocket, WsStart, WsOpen, WsPublish,
      WsClear, WsCleared, WsEnd, WsFrame, Dma, Conversation, ConvControl, ConvSample, ConvReport,
      vars, proxy
 <2> QED BY <1>1, <2>1
<1> QED BY <1>2, <1>3, <1>4, <1>5, <1>6, <1>7, <1>8 DEF Next, Provider

LEMMA ThinClear ==
  ASSUME VoiceInv, VoiceInv', NEW h, NEW k, Thin(h, k), NEW j \in 1..Len(Wire'), NEW e,
         \E i \in 1..h[j] : Wire[i] = Clear(e), ~(k \in 1..Len(Wire) /\ Wire[k] = Clear(e))
  PROVE  \E i \in 1..j : Wire'[i] = Clear(e)
<1>1. PICK s : s = Clear(e)
  OBVIOUS
<1>2. PICK i \in 1..h[j] : Wire[i] = s
  BY <1>1
<1>3. k \in 1..Len(Wire) => Wire[k] # Wire[i]
  BY <1>1, <1>2
<1>4. \E l \in 1..j : Wire'[l] = Wire[i]
  BY <1>3, ThinStart
<1> QED BY <1>1, <1>2, <1>4

\* A step that sends nothing.
LEMMA HandedThin ==
  ASSUME VoiceInv, VoiceInv', Order, Handed, [Next]_vars, over' = "no",
         NEW h, NEW k, Thin(h, k), \A e \in Epoch : Clearing(e)' => Clearing(e),
         \A e \in Epoch : k \in 1..Len(Wire) /\ Wire[k] = Clear(e) => Acks(e)'
  PROVE  Handed'
<1>1. \A i \in 1..Len(Wire') : h[i] \in 1..Len(Wire) /\ Wire'[i] = Wire[h[i]]
  BY DEF Thin
<1>2. \A e \in Epoch : Position(e) # Open => Position(e)' # Open
  BY PositionsNext DEF PositionsStay
<1>4. ASSUME NEW i \in 1..Len(Wire'), Wire'[i].type = "clear" PROVE Clearing(Wire[i].epoch)'
 <2>1. PICK e : e = Wire'[i].epoch
   OBVIOUS
 <2>2. e \in Epoch /\ e = Wire[h[i]].epoch
   BY <1>1, <2>1, WordAt
 <2>3. Clearing(e) /\ ~Acks(e)
   BY <1>1, <1>4, <2>2, AcksOff DEF Handed, ClearsOK
 <2>4. Clearing(e)'
   BY <2>2, <2>3, ClearingNext
 <2> QED BY <2>1, <2>4 DEF Clearing
<1>5. ASSUME NEW e \in Epoch, Clearing(e)' PROVE Acks(e)' \/ \E i \in 1..Len(Wire') : Wire'[i] = Clear(e)
 <2>1. CASE Acks(e)
   BY <1>5, <2>1, AcksStay
 <2>2. ASSUME NEW i \in 1..Len(Wire), Wire[i] = Clear(e)
       PROVE  Acks(e)' \/ \E j \in 1..Len(Wire') : Wire'[j] = Clear(e)
  <3>1. CASE i = k
    BY <2>2, <3>1
  <3>2. CASE i # k
    BY <2>2, <3>2 DEF Thin
  <3> QED BY <3>1, <3>2
 <2> QED BY <1>5, <2>1, <2>2 DEF Handed, ClearsOK
<1>6. ASSUME NEW i \in 1..Len(Wire'), Wire'[i].type = "start", NEW e \in Epoch, e < Wire'[i].epoch
      PROVE  Position(e)' # Open \/ Acks(e)' \/ \E j \in 1..i : Wire'[j] = Clear(e)
 <2>1. Position(e) # Open \/ Acks(e) \/ \E j \in 1..h[i] : Wire[j] = Clear(e)
   BY <1>1, <1>6 DEF Handed, Turns
 <2>2. CASE \E j \in 1..h[i] : Wire[j] = Clear(e)
  <3>1. CASE k \in 1..Len(Wire) /\ Wire[k] = Clear(e)
    BY <3>1
  <3>2. CASE ~(k \in 1..Len(Wire) /\ Wire[k] = Clear(e))
    BY <1>6, <2>2, <3>2, ThinClear
  <3> QED BY <3>1, <3>2
 <2> QED BY <1>2, <2>1, <2>2, AcksStay
<1> QED BY <1>4, <1>5, <1>6 DEF Handed, ClearsOK, Turns

\* A step that sends m.
LEMMA HandedAdded ==
  ASSUME VoiceInv, VoiceInv', Order, Handed, [Next]_vars, over' = "no", NEW m \in Word, Added(m),
         m.type = "clear" => Clearing(m.epoch)',
         \A e \in Epoch : Clearing(e)' => Clearing(e) \/ m = Clear(e),
         m.type = "start" => \A e \in Epoch : e < m.epoch =>
           Position(e) # Open \/ Acks(e) \/ \E j \in 1..Len(Wire) : Wire[j] = Clear(e)
  PROVE  Handed'
<1>1. \A e \in Epoch : Position(e) # Open => Position(e)' # Open
  BY PositionsNext DEF PositionsStay
<1>2. /\ Len(Wire) \in Nat /\ Len(Wire') = Len(Wire) + 1 /\ Wire'[Len(Wire) + 1] = m
      /\ \A i \in 1..Len(Wire) : i \in 1..Len(Wire') /\ Wire'[i] = Wire[i]
  BY WireTypes DEF Added
<1>3. ASSUME NEW i \in 1..Len(Wire'), Wire'[i].type = "clear" PROVE Clearing(Wire[i].epoch)'
 <2>1. PICK e : e = Wire'[i].epoch
   OBVIOUS
 <2>2. CASE i \in 1..Len(Wire)
  <3>1. e \in Epoch /\ e = Wire[i].epoch
    BY <1>2, <2>1, <2>2, WordAt
  <3>2. Clearing(e) /\ ~Acks(e)
    BY <1>2, <1>3, <2>2, <3>1, AcksOff DEF Handed, ClearsOK
  <3>3. Clearing(e)'
    BY <3>1, <3>2, ClearingNext
  <3> QED BY <2>1, <3>3 DEF Clearing
 <2>3. CASE i = Len(Wire) + 1
   BY <1>2, <1>3, <2>3 DEF Clearing
 <2> QED BY <1>2, <2>2, <2>3
<1>4. ASSUME NEW e \in Epoch, Clearing(e)' PROVE Acks(e)' \/ \E i \in 1..Len(Wire') : Wire'[i] = Clear(e)
 <2>1. CASE Acks(e)
   BY <1>4, <2>1, AcksStay
 <2>2. CASE \E i \in 1..Len(Wire) : Wire[i] = Clear(e)
   BY <1>2, <2>2
 <2>3. CASE m = Clear(e)
  <3>1. Len(Wire) + 1 \in 1..Len(Wire')
    BY <1>2
  <3> QED BY <1>2, <2>3, <3>1
 <2> QED BY <1>4, <2>1, <2>2, <2>3 DEF Handed, ClearsOK
<1>5. ASSUME NEW i \in 1..Len(Wire'), Wire'[i].type = "start", NEW e \in Epoch, e < Wire'[i].epoch
      PROVE  Position(e)' # Open \/ Acks(e)' \/ \E j \in 1..i : Wire'[j] = Clear(e)
 <2>1. Position(e) # Open \/ Acks(e) \/ \E j \in 1..i : j \in 1..Len(Wire) /\ Wire[j] = Clear(e)
  <3>1. CASE i \in 1..Len(Wire)
   <4>1. \A j \in 1..i : j \in 1..Len(Wire)
     BY <1>2, <3>1
   <4> QED BY <1>2, <1>5, <3>1, <4>1 DEF Handed, Turns
  <3>2. CASE i = Len(Wire) + 1
   <4>1. \A j \in 1..Len(Wire) : j \in 1..i
     BY <1>2, <3>2
   <4> QED BY <1>2, <1>5, <3>2, <4>1
  <3> QED BY <1>2, <3>1, <3>2
 <2> QED BY <1>1, <1>2, <2>1, AcksStay
<1> QED BY <1>3, <1>4, <1>5 DEF Handed, ClearsOK, Turns

\* The writer begins an answer only when every earlier one is played or cleared.
LEMMA EarlierOver ==
  ASSUME VoiceInv, Order, Handed, NEW f \in Epoch, streams[f].live,
         \A e \in Epoch : e < f /\ streams[e].live => streams[e].cleared \/ Finished(streams[e]),
         NEW e \in Epoch, e < f
  PROVE  Position(e) # Open \/ Acks(e) \/ \E j \in 1..Len(Wire) : Wire[j] = Clear(e)
<1>1. e <= epoch /\ e \in Nat
 <2>1. f <= epoch /\ e \in Nat /\ f \in Nat /\ epoch \in Nat
   BY StreamTypes, HeardTypes
 <2> QED BY <2>1
<1>2. CASE ~streams[e].live
  BY <1>1, <1>2 DEF Order, FlagsOK, Position
<1>3. CASE streams[e].live /\ Finished(streams[e])
  BY <1>3, HeardTypes DEF Position
<1>4. CASE streams[e].live /\ streams[e].cleared /\ streams[e].acknowledged
  BY <1>4, StreamTypes DEF Position
<1>5. CASE streams[e].live /\ streams[e].cleared /\ ~streams[e].acknowledged
 <2>1. Clearing(e)
   BY <1>5 DEF Order, FlagsOK, Clearing
 <2> QED BY <2>1 DEF Handed, ClearsOK
<1> QED BY <1>2, <1>3, <1>4, <1>5

LEMMA HandedWriter ==
  ASSUME VoiceInv, VoiceInv', Order, Handed, [Next]_vars, over' = "no", NEW f \in Epoch, AudioWriter(f)
  PROVE  Handed'
<1>1. PICK m \in Word : outbound' = Append(outbound, m) /\ m.epoch = f /\ m.type # "clear"
  BY WriterFacts DEF Start, Frame, End
<1>2. down' = down /\ streams[f].live
      /\ \A e \in Epoch : e < f /\ streams[e].live => streams[e].cleared \/ Finished(streams[e])
  BY WriterFacts
<1>3. Added(m)
  BY <1>1, <1>2, WireAdded
<1>4. \A e \in Epoch : Clearing(e)' => Clearing(e)
  BY WriterFacts DEF Alone, Clearing, SameClears
<1>5. \A e \in Epoch : e < m.epoch => Position(e) # Open \/ Acks(e) \/ \E j \in 1..Len(Wire) : Wire[j] = Clear(e)
  BY <1>1, <1>2, EarlierOver
<1> QED BY <1>1, <1>3, <1>4, <1>5, HandedAdded

LEMMA HandedSpeech ==
  ASSUME VoiceInv, VoiceInv', Order, Handed, [Next]_vars, over' = "no", SpeechStarted
  PROVE  Handed'
<1>1. \A e, f \in Epoch : Interrupted(e) /\ streams[e].started /\ Interrupted(f) /\ streams[f].started => e = f
  BY OnePlays
<1>2. down' = down
  BY SpeechFacts
<1>3. ASSUME outbound' = outbound, \A e \in Epoch : ~(Interrupted(e) /\ streams[e].started)
      PROVE  Handed'
 <2>1. Wire' = Wire
   BY <1>2, <1>3 DEF Wire
 <2>2. PICK h : Thin(h, 0)
   BY <2>1, SameThin
 <2>3. \A e \in Epoch : Clearing(e)' => Clearing(e)
   BY <1>3, ClearingNext
 <2>4. 0 \notin 1..Len(Wire)
   BY WireTypes
 <2> QED BY <2>2, <2>3, <2>4, HandedThin
<1>4. ASSUME NEW f \in Epoch, Interrupted(f), streams[f].started, outbound' = Append(outbound, Clear(f))
      PROVE  Handed'
 <2>1. Clear(f) \in Word /\ Clear(f).epoch = f /\ Clear(f).type = "clear"
   BY DEF Clear, Word
 <2>2. Added(Clear(f))
   BY <1>2, <1>4, <2>1, WireAdded
 <2>3. Clearing(f)'
   BY <1>4, SpeechFacts DEF Silenced, Clearing, SameStarts
 <2>4. \A e \in Epoch : Clearing(e)' => Clearing(e) \/ e = f
   BY <1>1, <1>4, ClearingNext
 <2>5. \A e \in Epoch : Clearing(e)' => Clearing(e) \/ Clear(f) = Clear(e)
   BY <2>4
 <2>6. PICK m : m = Clear(f)
   OBVIOUS
 <2> QED BY <2>1, <2>2, <2>3, <2>5, <2>6, HandedAdded
<1> QED BY <1>1, <1>3, <1>4, ClearFacts

LEMMA HandedOther ==
  ASSUME VoiceInv, VoiceInv', Order, Handed, [Next]_vars, over' = "no",
         ~SpeechStarted, \A f \in Epoch : ~AudioWriter(f)
  PROVE  Handed'
<1>1. \A e \in Epoch : Clearing(e)' => Clearing(e)
  BY ClearingNext
<1>2. ASSUME Len(Wire') = Len(Wire), \A i \in 1..Len(Wire) : Wire'[i] = Wire[i] PROVE Handed'
 <2>1. PICK h : Thin(h, 0)
   BY <1>2, SameThin
 <2>2. 0 \notin 1..Len(Wire)
   BY WireTypes
 <2> QED BY <1>1, <2>1, <2>2, HandedThin
<1>3. ASSUME NEW k, Removed(k), \A e \in Epoch : Wire[k] = Clear(e) => Acks(e)' PROVE Handed'
 <2>1. PICK h : Thin(h, k)
   BY <1>3, RemovedThin
 <2> QED BY <1>1, <1>3, <2>1, HandedThin
<1>4. CASE UNCHANGED <<down, outbound>>
  BY <1>2, <1>4 DEF Wire
<1>5. CASE DeviceWriter
 <2> DEFINE m == Head(outbound)
 <2>1. over = "no" /\ outbound # <<>> /\ outbound' = Tail(outbound)
   BY <1>5, SenderFacts
 <2>2. \/ m.type \in {"frame", "end"} /\ down' = down
       \/ down' = Append(down, m)
   BY <1>5, SenderFacts DEF SentMessage
 <2>3. CASE down' = Append(down, m)
   BY <1>2, <2>1, <2>3, WireMoved
 <2>4. CASE m.type \in {"frame", "end"} /\ down' = down
  <3>1. Removed(Len(down) + 1) /\ Wire[Len(down) + 1] = m
    BY <2>1, <2>4, WireDropped
  <3>2. \A e \in Epoch : m # Clear(e)
    BY <2>4 DEF Clear
  <3>3. \A e \in Epoch : Wire[Len(down) + 1] = Clear(e) => Acks(e)'
    BY <3>1, <3>2
  <3> QED BY <1>3, <3>1, <3>3
 <2> QED BY <2>2, <2>3, <2>4
<1>6. CASE WsStart \/ WsClear \/ WsEnd \/ WsFrame
 <2> DEFINE m == Head(down)
 <2>1. Removed(1) /\ Wire[1] = m
   BY <1>6, TakenFacts DEF TakenFrom
 <2>2. ASSUME NEW e \in Epoch, m = Clear(e) PROVE Acks(e)'
  <3>1. m.type = "clear" /\ m.epoch = e
    BY <2>2 DEF Clear
  <3>2. WsClear
    BY <1>6, <3>1 DEF WsStart, WsEnd, WsFrame, Got
  <3> QED BY <3>1, <3>2, ClearedFacts DEF Acks
 <2> QED BY <1>3, <2>1, <2>2
<1>7. CASE SpeechStopped \/ InputCommitted \/ ResponseStarted \/ ResponseAudio \/ ResponseDone
           \/ DeviceReader \/ WsOpen \/ WsPublish \/ WsCleared \/ Dma \/ Conversation \/ UNCHANGED vars
 <2>1. UNCHANGED <<down, outbound>>
   BY <1>7 DEF SpeechStopped, InputCommitted, ResponseStarted, ResponseAudio, ResponseDone, DeviceReader,
      WsOpen, WsPublish, WsCleared, Dma, Conversation, ConvControl, ConvSample, ConvReport, vars, proxy
 <2> QED BY <1>4, <2>1
<1> QED BY <1>5, <1>6, <1>7 DEF Next, Provider, WebSocket

LEMMA HandedNext ==
  ASSUME VoiceInv, VoiceInv', Order, Handed, [Next]_vars, over' = "no"
  PROVE  Handed'
BY HandedWriter, HandedSpeech, HandedOther

LEMMA InitHanded == ASSUME Init PROVE Handed /\ Credits /\ FramesOK
<1>1. /\ \A e \in Epoch : ~streams[e].live
      /\ down = <<>> /\ outbound = <<>> /\ up = <<>> /\ controls = <<>>
  BY DEF Init, None
<1>2. Wire = <<>> /\ Len(Wire) = 0
  BY <1>1 DEF Wire
<1> QED BY <1>1, <1>2 DEF Handed, ClearsOK, Turns, Credits, CreditOK, FramesOK, Clearing, Playing

-------------------------------------------------------------------------------
(***************************************************************************)
(* So the recorder takes every message, and the writer finds the stream of *)
(* every clear.                                                            *)
(***************************************************************************)

\* The next message for the recorder, which is between two of them.
LEMMA NextTaken ==
  ASSUME VoiceInv, Order, down # <<>>, ws.pc = "idle"
  PROVE  LET m == Head(down) IN
         /\ m \in Word /\ m.epoch \in Epoch /\ m.epoch \in Nat
         /\ m = Wire[1] /\ 1 \in 1..Len(Wire) /\ 1 <= Len(down) /\ 1 \in 1..Len(down) /\ m = down[1]
         /\ Current = dev.current /\ Last = dev.last /\ Expected = dev.expected /\ (Ended <=> dev.ended)
         /\ m.type = "start" => m.epoch > dev.last
         /\ m.type # "start" => m.epoch = dev.current /\ (dev.ended => m.type = "clear")
<1> DEFINE m == Head(down)
<1>1. /\ Current = dev.current /\ Last = dev.last /\ Expected = dev.expected /\ (Ended <=> dev.ended)
  BY DEF Current, Last, Expected, Ended, Begins
<1>2. m = down[1] /\ 1 \in 1..Len(down) /\ m \in Word
  BY WireTypes, TailKeeps
<1>3. m = Wire[1] /\ 1 \in 1..Len(Wire) /\ 1 <= Len(down)
  BY <1>2, WireTypes
<1>4. m.epoch \in Epoch /\ m.epoch \in Nat
  BY <1>2, WordTypes
<1>5. AtCurrent(m) \/ (m.epoch > Last /\ m = Start(m.epoch))
 <2>1. AtCurrent(Wire[1]) \/ AfterStart(1)
   BY <1>3 DEF Order, Placed
 <2> QED BY <1>3, <2>1 DEF AfterStart
<1>6. /\ m.type = "start" => m.epoch > dev.last
      /\ m.type # "start" => m.epoch = dev.current /\ (dev.ended => m.type = "clear")
  BY <1>1, <1>5 DEF AtCurrent, Start
<1> QED BY <1>1, <1>2, <1>3, <1>4, <1>6

LEMMA StartTaken ==
  ASSUME VoiceInv, Order, Handed, WsStart
  PROVE  over' = "no"
<1> DEFINE m == Head(down)
           c == dev.current
<1>1. over = "no" /\ ws.pc = "idle" /\ down # <<>> /\ m.type = "start"
  BY DEF WsStart, Got, Take
<1>2. /\ m = Wire[1] /\ 1 \in 1..Len(Wire) /\ m.epoch > dev.last /\ m.epoch \in Nat
      /\ dev.last \in Nat /\ c \in 0..MaxEpoch /\ dev.expected \in Nat
      /\ dac.epoch = c /\ dac.played \in Nat /\ dac.pending \in Nat
  BY <1>1, NextTaken, ViewTypes DEF VoiceInv, VoiceTypes, DeviceTypes, Dev, Dac, DeviceOK
<1>3. ASSUME c # 0, Played(c) < dev.expected PROVE FALSE
 <2>1. /\ c \in Epoch /\ c = dev.last /\ dac.played + dac.pending = dev.expected /\ heard[c] = dac.played
       /\ Played(c) = dac.played /\ Current = c
   BY <1>1, <1>2, <1>3, NextTaken, EpochNat DEF VoiceInv, DeviceOK, Played
 <2>2. c < Wire[1].epoch /\ Wire[1].type = "start"
   BY <1>1, <1>2, <2>1
 <2>3. Position(c) # Open \/ Acks(c) \/ \E j \in 1..1 : Wire[j] = Clear(c)
   BY <1>2, <2>1, <2>2 DEF Handed, Turns
 <2>4. ~Acks(c)
   BY <2>1, AcksLast
 <2>5. \A j \in 1..1 : Wire[j] # Clear(c)
   BY <2>2 DEF Clear
 <2>6. Position(c) # Open
   BY <2>3, <2>4, <2>5
 <2>7. ~Dead(c)
   BY <1>2 DEF Dead
 <2>8. NoMore(c, heard[c])
   BY <2>1, <2>6, <2>7, PositionRight
 <2>9. dac.played + dac.pending <= dac.played
   BY <1>2, <2>1, <2>8 DEF NoMore
 <2> QED BY <1>2, <1>3, <2>1, <2>9
<1>4. ~(m.epoch <= dev.last)
  BY <1>2
<1> QED BY <1>1, <1>3, <1>4 DEF WsStart

LEMMA WordTaken ==
  ASSUME VoiceInv, Order, WsClear \/ WsEnd
  PROVE  over' = "no"
<1>1. /\ over = "no" /\ ws.pc = "idle" /\ down # <<>> /\ Head(down).type # "start"
      /\ Head(down).type \in {"clear", "end"}
  BY DEF WsClear, WsEnd, Got, Take
<1>2. Head(down).epoch = dev.current
  BY <1>1, NextTaken
<1> QED BY <1>1, <1>2 DEF WsClear, WsEnd

LEMMA FrameTaken ==
  ASSUME VoiceInv, Order, Credits, FramesOK, WsFrame
  PROVE  over' = "no"
<1> DEFINE m == Head(down)
           e == dev.current
<1>1. over = "no" /\ ws.pc = "idle" /\ down # <<>> /\ m.type = "frame"
  BY DEF WsFrame, Got, Take
<1>2. /\ m = Wire[1] /\ 1 \in 1..Len(Wire) /\ 1 <= Len(down) /\ 1 \in 1..Len(down) /\ m = down[1]
      /\ m.epoch = e /\ ~dev.ended /\ e \in Epoch /\ Expected = dev.expected
      /\ e \in Nat /\ e # 0 /\ m \in Word
  BY <1>1, NextTaken, EpochNat
<1>3. m.n = dev.expected + 1 /\ m.n \in Nat
 <2>1. Before(m.epoch, m.n, 1)
   BY <1>1, <1>2 DEF FramesOK
 <2>2. 1..(1 - 1) = {}
   OBVIOUS
 <2> QED BY <1>1, <1>2, <2>1, <2>2, WordTypes DEF Before
<1>4. /\ dac.epoch = e /\ dac.played + dac.pending = dev.expected /\ heard[e] = dac.played
      /\ dac.played \in Nat /\ dac.pending \in Nat /\ dac.ring \in Seq(Nat)
  BY <1>1, <1>2 DEF VoiceInv, VoiceTypes, DeviceTypes, DeviceOK, Dac
<1>5. RingSize \in Nat /\ Credit \in Nat /\ Credit <= RingSize
  BY VoiceAssumption
<1>6. dac.pending < RingSize
 <2>1. CASE streams[e].live
  <3>1. /\ streams[e].sent <= streams[e].played + Credit /\ Within(down, e, streams[e].sent)
        /\ streams[e].sent \in Nat /\ streams[e].played \in Nat /\ streams[e].played <= heard[e]
    BY <1>2, <2>1, StreamTypes DEF Credits, CreditOK, Reached
  <3>2. m.n <= streams[e].sent
    BY <1>1, <1>2, <3>1 DEF Within
  <3> QED BY <1>3, <1>4, <1>5, <3>1, <3>2
 <2>2. CASE ~streams[e].live
  <3>1. e <= epoch
   <4>1. ~Unbegun(e)
     BY <1>2 DEF Unbegun
   <4> QED BY <1>2, <4>1, HeardTypes DEF Order, BeginsOK
  <3>2. settled[e] # Open
    BY <1>2, <2>2, <3>1 DEF Order, FlagsOK
  <3>3. Dead(e) \/ NoMore(e, heard[e])
    BY <1>2, <3>2 DEF VoiceInv, AccountsOK, SettledOK
  <3>4. m.n <= heard[e]
    BY <1>1, <1>2, <1>4, <3>3 DEF Dead, NoMore, Within
  <3> QED BY <1>3, <1>4, <3>4
 <2> QED BY <2>1, <2>2
<1>7. Room
 <2>1. Len(dac.ring) <= dac.pending /\ Len(dac.ring) \in Nat
   BY <1>4 DEF VoiceInv, AudioInOrder
 <2> QED BY <1>4, <1>5, <1>6, <2>1 DEF Room
<1> QED BY <1>1, <1>2, <1>3, <1>4, <1>7 DEF WsFrame

LEMMA ClearFinds ==
  ASSUME VoiceInv, VoiceInv', Handed, DeviceWriter
  PROVE  over' = "no"
<1> DEFINE m == Head(outbound)
<1>1. over = "no" /\ outbound # <<>>
  BY SenderFacts
<1>2. Len(down) + 1 \in 1..Len(Wire) /\ Wire[Len(down) + 1] = m
  BY <1>1, HeadWaits
<1>3. m.type = "clear" => streams[m.epoch].live
  BY <1>2 DEF Handed, ClearsOK, Clearing
<1> QED BY <1>1, <1>3, SenderFacts DEF SentMessage

\* Neither the recorder nor the writer ends the session.
LEMMA Delivered ==
  ASSUME VoiceInv, VoiceInv', Order, Credits, FramesOK, Handed, over = "no", [Next]_vars
  PROVE  over' \in {"no", "protocol", "interruption_race", "backlog"}
<1>1. CASE WsStart \/ WsClear \/ WsEnd \/ WsFrame
  BY <1>1, StartTaken, WordTaken, FrameTaken
<1>2. CASE DeviceWriter
  BY <1>2, ClearFinds
<1>3. CASE DeviceReader
  BY <1>3, ReaderFacts DEF Accepted
<1>4. CASE ResponseAudio
  BY <1>4, AudioFacts
<1>5. CASE \E e \in Epoch : AudioWriter(e)
  BY <1>5, WriterFacts
<1>6. CASE SpeechStarted \/ SpeechStopped \/ InputCommitted \/ ResponseStarted \/ ResponseDone
           \/ WsOpen \/ WsPublish \/ WsCleared \/ Dma \/ Conversation \/ UNCHANGED vars
  BY <1>6 DEF SpeechStarted, SpeechStopped, InputCommitted, ResponseStarted, ResponseDone, Fail, WsOpen,
     WsPublish, WsCleared, Dma, Conversation, ConvControl, ConvSample, ConvReport, vars, session
<1> QED BY <1>1, <1>2, <1>3, <1>4, <1>5, <1>6 DEF Next, Provider, WebSocket

-------------------------------------------------------------------------------
(***************************************************************************)
(* Reports: what they tell never goes back.                                *)
(***************************************************************************)

LEMMA RisingTail ==
  ASSUME NEW q \in Seq(Told), q # <<>>, Rising(q)
  PROVE  /\ Rising(Tail(q))
         /\ \A m : Heeds(q, m) => Heeds(Tail(q), m) /\ Tells(Head(q), m)
         /\ \A i \in 1..Len(Tail(q)) : Tells(Head(q), Tail(q)[i])
<1>1. /\ Head(q) = q[1] /\ 1 \in 1..Len(q) /\ Len(Tail(q)) = Len(q) - 1
      /\ \A i \in 1..Len(Tail(q)) : i + 1 \in 1..Len(q) /\ Tail(q)[i] = q[i + 1]
  BY TailKeeps
<1>2. Rising(Tail(q))
 <2>1. \A i, j \in 1..Len(Tail(q)) : i < j => i + 1 < j + 1
   OBVIOUS
 <2> QED BY <1>1, <2>1 DEF Rising
<1>3. \A m : Heeds(q, m) => Heeds(Tail(q), m) /\ Tells(Head(q), m)
  BY <1>1 DEF Heeds
<1>4. \A i \in 1..Len(Tail(q)) : Tells(Head(q), Tail(q)[i])
 <2>1. \A i \in 1..Len(Tail(q)) : 1 < i + 1
   OBVIOUS
 <2> QED BY <1>1, <2>1 DEF Rising
<1> QED BY <1>2, <1>3, <1>4

LEMMA RisingAppend ==
  ASSUME NEW q \in Seq(Told), NEW m \in Told
  PROVE  /\ Rising(q) /\ Heeds(q, m) => Rising(Append(q, m))
         /\ \A n : Heeds(q, n) /\ Tells(m, n) => Heeds(Append(q, m), n)
<1>1. /\ Len(Append(q, m)) = Len(q) + 1 /\ Len(q) \in Nat
      /\ \A i \in 1..Len(q) : Append(q, m)[i] = q[i]
      /\ Append(q, m)[Len(q) + 1] = m
  BY AppendKeeps
<1>2. \A i \in 1..Len(Append(q, m)) : i \in 1..Len(q) \/ i = Len(q) + 1
  BY <1>1
<1>3. ASSUME Rising(q), Heeds(q, m), NEW i \in 1..Len(Append(q, m)), NEW j \in 1..Len(Append(q, m)), i < j
      PROVE  Tells(Append(q, m)[i], Append(q, m)[j])
 <2>1. i \in 1..Len(q)
   BY <1>1, <1>3
 <2> QED BY <1>1, <1>2, <1>3, <2>1 DEF Rising, Heeds
<1>4. \A n : Heeds(q, n) /\ Tells(m, n) => Heeds(Append(q, m), n)
  BY <1>1, <1>2 DEF Heeds
<1> QED BY <1>3, <1>4 DEF Rising

LEMMA InitTold == ASSUME Init PROVE ToldOrder
<1>1. up = <<>> /\ controls = <<>> /\ ws.pc = "idle" /\ sample = 0 /\ dev.last = 0
  BY DEF Init, Idle
<1> QED BY <1>1 DEF ToldOrder, Rising

\* What the recorder tells of its last answer is beyond what it told before.
LEMMA TellsLast ==
  ASSUME VoiceInv, NEW e \in Epoch, dac.epoch = e, e = dev.last,
         NEW a \in Told, Truthful(a), NEW b \in Told, b.epoch = e, b.played = dac.played
  PROVE  Tells(a, b)
<1>1. /\ dev.last \in Nat /\ heard[a.epoch] \in Nat /\ heard[e] = dac.played
      /\ a.epoch \in Epoch /\ a.epoch \in Nat /\ a.type \in {"progress", "cleared"} /\ a.played \in Nat
      /\ \A f \in Epoch : f > dev.last => heard[f] = 0
  BY EpochNat, ViewTypes DEF VoiceInv, VoiceTypes, DeviceTypes, DeviceOK, Told
<1>2. CASE a.type = "cleared"
 <2>1. a.epoch <= dev.last /\ a.epoch # e
   BY <1>2 DEF Truthful, Dead
 <2> QED BY <1>1, <2>1 DEF Tells
<1>3. CASE a.type = "progress" /\ a.played # 0
 <2>1. a.played <= heard[a.epoch]
   BY <1>3 DEF Truthful
 <2>2. a.epoch <= dev.last
   BY <1>1, <1>3, <2>1
 <2> QED BY <1>1, <1>3, <2>1, <2>2 DEF Tells
<1>4. CASE a.type = "progress" /\ a.played = 0
  BY <1>4 DEF Tells, Telling
<1> QED BY <1>1, <1>2, <1>3, <1>4

LEMMA ToldSame ==
  ASSUME VoiceInv, ToldOrder, UNCHANGED <<up, controls, sample>>,
         ws' = ws \/ ws'.pc # "clearing", dev.last <= dev'.last, dev'.last \in Nat
  PROVE  ToldOrder'
<1>1. sample \in Nat /\ dev.last \in Nat
  BY ViewTypes, EpochNat DEF VoiceInv, VoiceTypes, DeviceTypes
<1>2. Answering' = Answering \/ ws'.pc # "clearing"
  BY DEF Answering
<1> QED BY <1>1, <1>2 DEF ToldOrder, Rising, Heeds

LEMMA ToldConversation ==
  ASSUME VoiceInv, VoiceInv', ToldOrder, Conversation
  PROVE  ToldOrder'
<1>1. /\ up \in Seq(Told) /\ controls \in Seq(Told) /\ ws \in Ws /\ sample \in 0..MaxEpoch
      /\ ReportsOK /\ DeviceOK /\ dev.last \in Nat /\ dev.current \in 0..MaxEpoch
      /\ UNCHANGED <<dev, ws, dac>> /\ Answering' = Answering
  BY ViewTypes DEF VoiceInv, VoiceTypes, DeviceTypes, Dev, Conversation, ConvControl, ConvSample,
     ConvReport, Answering
<1>2. CASE ConvControl
 <2> DEFINE m == Head(controls)
 <2>1. controls # <<>> /\ up' = Append(up, m) /\ controls' = Tail(controls) /\ sample' = sample
   BY <1>2 DEF ConvControl
 <2>2. /\ m \in Told /\ m = controls[1] /\ 1 \in 1..Len(controls)
       /\ \A i \in 1..Len(controls') : i + 1 \in 1..Len(controls) /\ controls'[i] = controls[i + 1]
   BY <1>1, <2>1, TailKeeps
 <2>3. /\ Rising(controls')
       /\ \A n : Heeds(controls, n) => Heeds(controls', n) /\ Tells(m, n)
       /\ \A i \in 1..Len(controls') : Tells(m, controls'[i])
   BY <1>1, <2>1, RisingTail DEF ToldOrder
 <2>4. /\ Rising(up')
       /\ \A n : Heeds(up, n) /\ Tells(m, n) => Heeds(up', n)
   BY <1>1, <2>1, <2>2, RisingAppend DEF ToldOrder
 <2>5. \A j \in 1..Len(controls') : Heeds(up', controls'[j])
   BY <2>2, <2>3, <2>4 DEF ToldOrder
 <2>6. ws.pc = "clearing" => Heeds(up', Answering) /\ Heeds(controls', Answering)
   BY <2>3, <2>4 DEF ToldOrder
 <2> QED BY <1>1, <2>1, <2>2, <2>3, <2>4, <2>5, <2>6 DEF ToldOrder
<1>3. CASE ConvSample
 <2>1. /\ controls = <<>> /\ sample' = dev.current /\ UNCHANGED <<up, controls>> /\ dev.current # 0
       /\ dev.current <= dev.last
   BY <1>1, <1>3, EpochNat DEF ConvSample, DeviceOK
 <2> QED BY <1>1, <2>1 DEF ToldOrder
<1>4. CASE ConvReport
 <2> DEFINE m == Progress(sample, Played(sample))
 <2>1. sample # 0 /\ up' = Append(up, m) /\ sample' = 0 /\ controls' = controls
   BY <1>4 DEF ConvReport
 <2>2. /\ sample \in Epoch /\ dac.played \in Nat /\ dac.epoch \in 0..MaxEpoch
       /\ ws.pc \in {"idle", "flushed", "opened", "clearing"}
   BY <1>1, <2>1, EpochNat DEF VoiceInv, VoiceTypes, DeviceTypes, Dac, Ws
 <2>3. m \in Told /\ m.epoch = sample /\ m.type = "progress" /\ m.played = Played(sample)
   BY <2>2 DEF Progress, Told, Played
 <2>4. CASE Played(sample) = 0
  <3>1. \A n : Tells(m, n) /\ Tells(n, m)
    BY <2>3, <2>4 DEF Tells, Telling
  <3>2. Rising(up') /\ \A n : Heeds(up, n) => Heeds(up', n)
    BY <1>1, <2>1, <2>3, <3>1, RisingAppend DEF ToldOrder, Heeds
  <3> QED BY <1>1, <2>1, <3>2, EpochNat DEF ToldOrder
 <2>5. CASE Played(sample) # 0
  <3>1. dac.epoch = sample /\ Played(sample) = dac.played /\ ws.pc = "idle" /\ sample = dev.last
    BY <1>1, <2>2, <2>5, EpochNat DEF Played, DeviceOK
  <3>2. Heeds(up, m)
   <4>1. \A i \in 1..Len(up) : up[i] \in Told /\ Truthful(up[i])
     BY <1>1 DEF ReportsOK
   <4> QED BY <2>2, <2>3, <3>1, <4>1, TellsLast DEF Heeds
  <3>3. ASSUME NEW j \in 1..Len(controls) PROVE Tells(m, controls[j])
   <4>1. controls[j] \in Told /\ Truthful(controls[j]) /\ controls[j].type = "cleared"
         /\ controls[j].epoch >= sample
     BY <1>1, <2>1 DEF ReportsOK, ToldOrder
   <4>2. controls[j].epoch <= dev.last /\ dac.epoch # controls[j].epoch
     BY <4>1 DEF Truthful, Dead
   <4>3. controls[j].epoch \in Nat /\ sample \in Nat
     BY <2>2, <4>1, EpochNat DEF Told
   <4> QED BY <3>1, <4>1, <4>2, <4>3
  <3>4. Rising(up') /\ \A n : Heeds(up, n) /\ Tells(m, n) => Heeds(up', n)
    BY <1>1, <2>1, <2>3, <3>2, RisingAppend DEF ToldOrder
  <3>5. \A j \in 1..Len(controls) : Heeds(up', controls[j])
    BY <3>3, <3>4 DEF ToldOrder
  <3> QED BY <1>1, <2>1, <3>1, <3>4, <3>5, EpochNat DEF ToldOrder
 <2> QED BY <2>4, <2>5
<1> QED BY <1>2, <1>3, <1>4 DEF Conversation

LEMMA ToldCleared ==
  ASSUME VoiceInv, VoiceInv', ToldOrder, WsCleared
  PROVE  ToldOrder'
<1>1. /\ controls' = Append(controls, Answering) /\ UNCHANGED <<up, sample>>
      /\ ws.pc = "clearing" /\ ws'.pc = "idle" /\ dev'.last = dev.last
  BY DEF WsCleared, Answering, Idle, VoiceInv, VoiceTypes, DeviceTypes, Dev
<1>2. Answering \in Told /\ Answering.type = "cleared" /\ Answering.epoch = ws.epoch
 <2>1. ws.epoch \in Epoch /\ ws.played \in Nat
   BY <1>1 DEF VoiceInv, DeviceOK, VoiceTypes, DeviceTypes, Ws
 <2> QED BY <2>1 DEF Answering, Cleared, Told
<1>3. ws.epoch = dev.last
  BY <1>1, EpochNat DEF VoiceInv, DeviceOK
<1>4. controls \in Seq(Told)
  BY DEF VoiceInv, VoiceTypes, DeviceTypes
<1>5. Rising(controls')
  BY <1>1, <1>2, <1>4, RisingAppend DEF ToldOrder
<1>6. /\ Len(controls') = Len(controls) + 1 /\ Len(controls) \in Nat
      /\ \A i \in 1..Len(controls) : controls'[i] = controls[i]
      /\ controls'[Len(controls) + 1] = Answering
  BY <1>1, <1>2, <1>4, AppendKeeps
<1>7. \A j \in 1..Len(controls') : j \in 1..Len(controls) \/ j = Len(controls) + 1
  BY <1>6
<1>8. \A j \in 1..Len(controls') :
        /\ Heeds(up, controls'[j])
        /\ controls'[j].type = "cleared"
        /\ sample # 0 => controls'[j].epoch >= sample
 <2>1. Answering.epoch >= sample
   BY <1>2, <1>3, ViewTypes, EpochNat DEF ToldOrder, VoiceInv, VoiceTypes, DeviceTypes
 <2>2. Heeds(up, Answering)
   BY <1>1 DEF ToldOrder
 <2> QED BY <1>2, <1>6, <1>7, <2>1, <2>2 DEF ToldOrder
<1> QED BY <1>1, <1>5, <1>8 DEF ToldOrder

LEMMA ToldClear ==
  ASSUME VoiceInv, VoiceInv', ToldOrder, WsClear, over' = "no"
  PROVE  ToldOrder'
<1> DEFINE e == dev.current
<1>1. /\ UNCHANGED <<up, controls, sample, dev>> /\ ws.pc = "idle"
      /\ ws' = [pc |-> "clearing", epoch |-> e, played |-> Played(e)] /\ e \in Epoch
  BY TakenWord, WordTypes DEF WsClear, Got, Rejected, Fail
<1>2. dac.epoch = e /\ e = dev.last /\ Played(e) = dac.played /\ dac.played \in Nat
  BY <1>1, EpochNat DEF VoiceInv, VoiceTypes, DeviceTypes, DeviceOK, Dac, Played
<1>3. /\ Answering' \in Told /\ Answering'.epoch = e /\ Answering'.played = dac.played
  BY <1>1, <1>2 DEF Answering, Cleared, Told
<1>4. /\ \A i \in 1..Len(up) : up[i] \in Told /\ Truthful(up[i])
      /\ \A i \in 1..Len(controls) : controls[i] \in Told /\ Truthful(controls[i])
  BY DEF VoiceInv, VoiceTypes, DeviceTypes, ReportsOK
<1>5. \A a \in Told : Truthful(a) => Tells(a, Answering')
  BY <1>1, <1>2, <1>3, TellsLast
<1>6. Heeds(up, Answering') /\ Heeds(controls, Answering')
  BY <1>4, <1>5 DEF Heeds
<1> QED BY <1>1, <1>6 DEF ToldOrder

LEMMA ToldNext ==
  ASSUME VoiceInv, VoiceInv', ToldOrder, [Next]_vars, over' = "no"
  PROVE  ToldOrder'
<1>1. CASE Conversation
  BY <1>1, ToldConversation
<1>2. CASE WsCleared
  BY <1>2, ToldCleared
<1>3. CASE WsClear
  BY <1>3, ToldClear
<1>4. CASE WsPublish
 <2>1. dev'.last = ws.epoch /\ ws.epoch > dev.last /\ ws.epoch \in Nat /\ ws'.pc = "idle"
       /\ UNCHANGED <<up, controls, sample>>
   BY <1>4, EpochNat DEF WsPublish, Idle, VoiceInv, VoiceTypes, DeviceTypes, Dev, DeviceOK
 <2> QED BY <2>1, ViewTypes, ToldSame
<1>5. CASE WsStart \/ WsOpen \/ WsEnd \/ WsFrame
 <2>1. UNCHANGED <<up, controls, sample>> /\ (ws' = ws \/ ws'.pc # "clearing") /\ dev'.last = dev.last
  <3>1. dev \in Dev /\ ws \in Ws
    BY DEF VoiceInv, VoiceTypes, DeviceTypes
  <3>2. CASE WsStart \/ WsOpen
    BY <3>1, <3>2 DEF WsStart, WsOpen, Got, Rejected, Ws
  <3>3. CASE WsEnd \/ WsFrame
    BY <3>1, <3>3 DEF WsEnd, WsFrame, Got, Rejected, Dev
  <3> QED BY <1>5, <3>2, <3>3
 <2> QED BY <2>1, ViewTypes, ToldSame
<1>6. CASE DeviceReader
 <2>1. up # <<>> /\ up' = Tail(up) /\ UNCHANGED <<controls, sample, dev, ws>>
   BY <1>6, ReaderFacts DEF device
 <2>2. Rising(up') /\ \A n : Heeds(up, n) => Heeds(up', n)
   BY <2>1, RisingTail DEF ToldOrder, VoiceInv, VoiceTypes, DeviceTypes
 <2> QED BY <2>1, <2>2 DEF ToldOrder, Answering
<1>7. CASE Provider \/ (\E e \in Epoch : AudioWriter(e)) \/ DeviceWriter \/ Dma \/ UNCHANGED vars
 <2>1. UNCHANGED <<up, controls, sample, dev, ws>>
   BY <1>7 DEF Provider, SpeechStarted, SpeechStopped, InputCommitted, ResponseStarted, ResponseAudio,
      ResponseDone, AudioWriter, DeviceWriter, Dma, vars, device
 <2> QED BY <2>1, ViewTypes, ToldSame
<1> QED BY <1>1, <1>2, <1>3, <1>4, <1>5, <1>6, <1>7 DEF Next, WebSocket

-------------------------------------------------------------------------------
(***************************************************************************)
(* Acknowledgments: they come from a clear, and are read once.             *)
(***************************************************************************)

LEMMA AskedStays ==
  ASSUME VoiceInv, VoiceInv', [Next]_vars, over' = "no", NEW e \in Epoch, Asked(e),
         DeviceReader => ~(Head(up).type = "cleared" /\ Head(up).epoch = e)
  PROVE  Asked(e)'
<1>1. CASE streams' = streams
  BY <1>1 DEF Asked, Clearing
<1>2. CASE SpeechStarted
 <2>1. ~Interrupted(e) /\ ~Closed(e)
   BY DEF Asked, Clearing, Interrupted, Closed, Finished
 <2>2. streams'[e] = streams[e]
   BY <1>2, <2>1, SpeechFacts
 <2> QED BY <2>2 DEF Asked, Clearing
<1>3. CASE ResponseAudio
 <2>1. ASSUME NEW f \in Epoch, Alone(f), streams'[f].live,
              SameClears(streams'[f], streams[f]), SameStarts(streams'[f], streams[f])
       PROVE  Asked(e)'
   BY <2>1 DEF Asked, Clearing, Alone, SameClears, SameStarts
 <2>2. ASSUME ~streams[epoch + 1].live, \A f \in Epoch : f # epoch + 1 => Retires(f)
       PROVE  Asked(e)'
   BY <2>2 DEF Asked, Clearing, Retires, Closed, Finished
 <2> QED BY <1>3, <2>1, <2>2, AudioFacts
<1>4. CASE ResponseDone
  BY <1>4, DoneFacts DEF Alike, Asked, Clearing, SameClears, SameStarts
<1>5. ASSUME NEW f \in Epoch, AudioWriter(f)
      PROVE  Asked(e)'
 <2>1. f # e /\ Alone(f)
   BY <1>5, WriterFacts DEF Asked, Clearing
 <2> QED BY <2>1 DEF Alone, Asked, Clearing
<1>6. CASE DeviceWriter
 <2>1. Head(outbound) \in Word
   BY <1>6, SenderFacts
 <2>2. Head(outbound).epoch \in Epoch
   BY <2>1, WordTypes
 <2>3. \/ UNCHANGED streams
       \/ /\ Alone(Head(outbound).epoch)
          /\ streams'[Head(outbound).epoch].live
          /\ SameStarts(streams'[Head(outbound).epoch], streams[Head(outbound).epoch])
          /\ streams'[Head(outbound).epoch].cleared <=> streams[Head(outbound).epoch].cleared
          /\ streams'[Head(outbound).epoch].acknowledged <=> streams[Head(outbound).epoch].acknowledged
          /\ streams[Head(outbound).epoch].clear_sent => streams'[Head(outbound).epoch].clear_sent
   BY <1>6, SenderFacts
 <2> QED BY <2>2, <2>3 DEF Alone, Asked, Clearing, SameStarts
<1>7. CASE DeviceReader
 <2>1. (Accepted(Head(up)) \/ UNCHANGED streams) /\ Head(up).epoch \in Epoch
   BY <1>7, ReaderFacts
 <2>2. CASE Accepted(Head(up))
   BY <1>7, <2>1, <2>2 DEF Accepted, Alone, Asked, Clearing, SameStarts
 <2> QED BY <1>1, <2>1, <2>2
<1>8. CASE SpeechStopped \/ InputCommitted \/ ResponseStarted \/ WebSocket \/ Dma \/ Conversation \/ UNCHANGED vars
 <2>1. streams' = streams
   BY <1>8 DEF SpeechStopped, InputCommitted, ResponseStarted, WebSocket, WsStart, WsOpen, WsPublish,
      WsClear, WsCleared, WsEnd, WsFrame, Dma, Conversation, ConvControl, ConvSample, ConvReport,
      vars, proxy
 <2> QED BY <1>1, <2>1
<1> QED BY <1>2, <1>3, <1>4, <1>5, <1>6, <1>7, <1>8 DEF Next, Provider

\* An acknowledgment comes from a clear.
LEMMA AcksNew ==
  ASSUME VoiceInv, VoiceInv', [Next]_vars, over' = "no", NEW e \in Epoch, Acks(e)'
  PROVE  Acks(e) \/ (WsClear /\ down # <<>> /\ Head(down) = Clear(e))
<1>1. controls \in Seq(Told) /\ up \in Seq(Told) /\ ws \in Ws
  BY DEF VoiceInv, VoiceTypes, DeviceTypes
<1>2. CASE UNCHANGED <<ws, up, controls>>
  BY <1>2 DEF Acks
<1>3. CASE Conversation
 <2>1. CASE ConvControl
  <3>1. controls # <<>> /\ up' = Append(up, Head(controls)) /\ controls' = Tail(controls) /\ ws' = ws
    BY <2>1 DEF ConvControl
  <3>2. /\ Head(controls) \in Told /\ Head(controls) = controls[1] /\ 1 \in 1..Len(controls)
        /\ \A i \in 1..Len(controls') : i + 1 \in 1..Len(controls) /\ controls'[i] = controls[i + 1]
    BY <1>1, <3>1, TailKeeps
  <3>3. /\ Len(up') = Len(up) + 1 /\ Len(up) \in Nat
        /\ \A i \in 1..Len(up) : up'[i] = up[i]
        /\ up'[Len(up) + 1] = controls[1]
    BY <1>1, <3>1, <3>2, AppendKeeps
  <3>4. \A i \in 1..Len(up') : i \in 1..Len(up) \/ up'[i] = controls[1]
    BY <3>3
  <3> QED BY <3>1, <3>2, <3>3, <3>4 DEF Acks
 <2>2. CASE ConvReport
  <3>1. /\ sample \in 0..MaxEpoch /\ sample # 0 /\ up' = Append(up, Progress(sample, Played(sample)))
        /\ UNCHANGED <<ws, controls>>
    BY <2>2 DEF ConvReport, VoiceInv, VoiceTypes, DeviceTypes
  <3>2. Played(sample) \in Nat /\ sample \in Epoch
    BY <3>1, EpochNat DEF Played, VoiceInv, VoiceTypes, DeviceTypes, Dac
  <3>3. Progress(sample, Played(sample)) \in Told /\ Progress(sample, Played(sample)).type = "progress"
    BY <3>2 DEF Progress, Told
  <3>4. \A i \in 1..Len(up') : up'[i].type = "cleared" => i \in 1..Len(up) /\ up'[i] = up[i]
    BY <1>1, <3>1, <3>3, AppendKeeps
  <3> QED BY <3>1, <3>4 DEF Acks
 <2>3. CASE ConvSample
   BY <1>2, <2>3 DEF ConvSample
 <2> QED BY <1>3, <2>1, <2>2, <2>3 DEF Conversation
<1>4. CASE WsCleared
 <2>1. /\ controls' = Append(controls, Cleared(ws.epoch, ws.played)) /\ UNCHANGED up
       /\ ws.pc = "clearing" /\ ws'.pc = "idle"
   BY <1>4 DEF WsCleared, Idle
 <2>2. Cleared(ws.epoch, ws.played) \in Told /\ Cleared(ws.epoch, ws.played).epoch = ws.epoch
  <3>1. ws.epoch \in Epoch
    BY <2>1 DEF VoiceInv, DeviceOK
  <3>2. ws.played \in Nat
    BY <1>1 DEF Ws
  <3> QED BY <3>1, <3>2 DEF Cleared, Told
 <2>3. \A i \in 1..Len(controls') :
         (i \in 1..Len(controls) /\ controls'[i] = controls[i]) \/ controls'[i].epoch = ws.epoch
   BY <1>1, <2>1, <2>2, AppendKeeps
 <2> QED BY <2>1, <2>3 DEF Acks
<1>5. CASE WsClear
 <2>1. down # <<>> /\ UNCHANGED <<up, controls>>
   BY <1>5 DEF WsClear, Got, Take
 <2>2. Head(down) = Clear(Head(down).epoch) /\ ws'.pc = "clearing" /\ ws'.epoch = Head(down).epoch
   BY <1>5, ClearedFacts
 <2> QED BY <1>5, <2>1, <2>2 DEF Acks
<1>6. CASE DeviceReader
 <2>1. up # <<>> /\ up' = Tail(up) /\ UNCHANGED <<ws, controls>>
   BY <1>6, ReaderFacts DEF device
 <2>2. \A i \in 1..Len(up') : i + 1 \in 1..Len(up) /\ up'[i] = up[i + 1]
   BY <1>1, <2>1, TailKeeps
 <2> QED BY <2>1, <2>2 DEF Acks
<1>7. CASE WsStart \/ WsOpen \/ WsPublish \/ WsEnd \/ WsFrame
 <2>1. UNCHANGED <<up, controls>> /\ (ws' = ws \/ ws'.pc # "clearing")
   BY <1>1, <1>7 DEF WsStart, WsEnd, WsFrame, WsOpen, WsPublish, Got, Rejected, Idle, Ws
 <2>2. ws'.pc = "clearing" => ws' = ws
   BY <2>1
 <2> QED BY <2>1, <2>2 DEF Acks
<1>8. CASE Provider \/ (\E f \in Epoch : AudioWriter(f)) \/ DeviceWriter \/ Dma \/ UNCHANGED vars
  BY <1>2, <1>8 DEF Provider, SpeechStarted, SpeechStopped, InputCommitted, ResponseStarted,
     ResponseAudio, ResponseDone, AudioWriter, DeviceWriter, Dma, vars, device
<1> QED BY <1>3, <1>4, <1>5, <1>6, <1>7, <1>8 DEF Next, WebSocket

\* It is read once.
LEMMA AckRead ==
  ASSUME VoiceInv, VoiceInv', ToldOrder, DeviceReader, NEW e \in Epoch,
         Head(up).type = "cleared", Head(up).epoch = e
  PROVE  ~Acks(e)'
<1> DEFINE m == Head(up)
<1>1. up # <<>> /\ up' = Tail(up) /\ UNCHANGED <<ws, controls>>
  BY ReaderFacts DEF device
<1>2. up \in Seq(Told) /\ Rising(up) /\ e \in Nat
  BY EpochNat DEF VoiceInv, VoiceTypes, DeviceTypes, ToldOrder
<1>3. ASSUME NEW a, Tells(m, a), a.type = "cleared", a.epoch = e PROVE FALSE
  BY <1>2, <1>3 DEF Tells, Telling
<1>4. /\ \A i \in 1..Len(up') : Tells(m, up'[i])
      /\ \A n : Heeds(up, n) => Tells(m, n)
  BY <1>1, <1>2, RisingTail
<1>5. \A i \in 1..Len(controls) : Tells(m, controls[i])
  BY <1>4 DEF ToldOrder
<1>6. ws.pc = "clearing" => Tells(m, Answering)
  BY <1>4 DEF ToldOrder
<1>7. Answering.type = "cleared" /\ Answering.epoch = ws.epoch
  BY DEF Answering, Cleared
<1> QED BY <1>1, <1>3, <1>4, <1>5, <1>6, <1>7 DEF Acks

LEMMA AskedNext ==
  ASSUME VoiceInv, VoiceInv', Order, Handed, ToldOrder, AskedOK, over = "no", over' = "no", [Next]_vars
  PROVE  AskedOK'
<1>1. ASSUME NEW e \in Epoch, Acks(e)' PROVE Asked(e)'
 <2>1. Acks(e) \/ (WsClear /\ down # <<>> /\ Head(down) = Clear(e))
   BY <1>1, AcksNew
 <2>2. Asked(e)
  <3>1. CASE WsClear /\ down # <<>> /\ Head(down) = Clear(e)
   <4>1. down[1] = Clear(e) /\ 1 \in 1..Len(down)
     BY <3>1, WireTypes, TailKeeps
   <4> QED BY <4>1 DEF AskedOK, Clear
  <3> QED BY <2>1, <3>1 DEF AskedOK
 <2>3. DeviceReader => ~(Head(up).type = "cleared" /\ Head(up).epoch = e)
   BY <1>1, AckRead
 <2> QED BY <2>2, <2>3, AskedStays
<1>2. ASSUME NEW i \in 1..Len(down'), down'[i].type = "clear", NEW e, e = down'[i].epoch PROVE Asked(e)'
 <2>1. e = down'[i].epoch
   BY <1>2
 <2>2. ASSUME NEW j \in 1..Len(down), down'[i] = down[j] PROVE Asked(e)'
  <3>1. j \in 1..Len(Wire) /\ Wire[j] = down[j] /\ e = Wire[j].epoch /\ e \in Epoch
    BY <2>1, <2>2, WireTypes, WordAt
  <3>2. Asked(e) /\ ~Acks(e)
    BY <1>2, <2>1, <2>2, <3>1, AcksOff DEF AskedOK
  <3>3. DeviceReader => ~(Head(up).type = "cleared" /\ Head(up).epoch = e)
   <4>1. up # <<>> /\ up \in Seq(Told) => Head(up) = up[1] /\ 1 \in 1..Len(up)
     BY TailKeeps
   <4>2. DeviceReader => up # <<>>
     BY DEF DeviceReader
   <4> QED BY <3>2, <4>1, <4>2 DEF Acks, VoiceInv, VoiceTypes, DeviceTypes
  <3> QED BY <3>1, <3>2, <3>3, AskedStays
 <2>3. CASE down' = down \/ (down # <<>> /\ down' = Tail(down))
  <3>1. \E j \in 1..Len(down) : down'[i] = down[j]
   <4>1. CASE down' = down
     BY <1>2, <4>1
   <4>2. CASE down # <<>> /\ down' = Tail(down)
     BY <1>2, <4>2, WireTypes, TailKeeps
   <4> QED BY <2>3, <4>1, <4>2
  <3> QED BY <2>1, <2>2, <3>1
 <2>4. CASE DeviceWriter
  <3>1. outbound # <<>> /\ (down' = down \/ (down' = Append(down, Head(outbound)) /\ Head(outbound) \in Word))
    BY <2>4, SenderFacts DEF SentMessage
  <3>2. CASE \E j \in 1..Len(down) : down'[i] = down[j]
    BY <2>1, <2>2, <3>2
  <3>3. CASE down'[i] = Head(outbound)
   <4>1. Head(outbound).type = "clear"
     BY <1>2, <3>3
   <4>2. e = Head(outbound).epoch /\ e \in Epoch
     BY <2>1, <3>1, <3>3, HeadWaits, WordAt
   <4>3. streams'[e].clear_sent
     BY <2>4, <4>1, <4>2, SenderFacts
   <4>4. Clearing(e) /\ ~Acks(e)
    <5>1. Wire[Len(down) + 1] = Head(outbound) /\ Len(down) + 1 \in 1..Len(Wire)
      BY <3>1, HeadWaits
    <5> QED BY <4>1, <4>2, <5>1, AcksOff DEF Handed, ClearsOK
   <4>5. Clearing(e)'
     BY <4>2, <4>4, ClearingNext
   <4> QED BY <2>1, <4>3, <4>5 DEF Asked
  <3>4. (\E j \in 1..Len(down) : down'[i] = down[j]) \/ down'[i] = Head(outbound)
   <4>1. CASE down' = down
     BY <1>2, <4>1
   <4>2. CASE down' = Append(down, Head(outbound)) /\ Head(outbound) \in Word
     BY <1>2, <4>2, WireTypes, AppendKeeps
   <4> QED BY <3>1, <4>1, <4>2
  <3> QED BY <3>2, <3>3, <3>4
 <2>5. CASE ~DeviceWriter
  <3>1. down' = down \/ (down # <<>> /\ down' = Tail(down))
    BY <2>5 DEF Next, Provider, SpeechStarted, SpeechStopped, InputCommitted, ResponseStarted,
       ResponseAudio, ResponseDone, AudioWriter, DeviceReader, WebSocket, WsStart, WsOpen, WsPublish,
       WsClear, WsCleared, WsEnd, WsFrame, Got, Take, Dma, Conversation, ConvControl, ConvSample,
       ConvReport, vars
  <3> QED BY <2>3, <3>1
 <2> QED BY <2>4, <2>5
<1>3. \A i \in 1..Len(down') : down'[i].type = "clear" => Asked(down[i].epoch)'
  BY <1>2 DEF Asked, Clearing
<1> QED BY <1>1, <1>3 DEF AskedOK

-------------------------------------------------------------------------------
(***************************************************************************)
(* Accounts: a step keeps, interrupts, closes, opens or reports one.       *)
(***************************************************************************)

\* What the recorder is done with stays so.
LEMMA DeadNext ==
  ASSUME VoiceInv, [Next]_vars, NEW e \in Epoch, Dead(e)
  PROVE  Dead(e)'
<1>1. /\ e \in Nat /\ e # 0 /\ dev.last \in Nat /\ dev \in Dev /\ dac \in Dac /\ ws \in Ws /\ ws.epoch \in Nat
  BY EpochNat, ViewTypes DEF VoiceInv, VoiceTypes, DeviceTypes, Ws
<1>2. CASE UNCHANGED <<dev, dac>>
  BY <1>2 DEF Dead
<1>3. CASE WsStart \/ WsClear
 <2>1. dev' = dev /\ (dac' = dac \/ dac' = Flushed)
   BY <1>3 DEF WsStart, WsClear, Rejected
 <2>2. Flushed.epoch = 0
   BY <1>1 DEF Flushed, Dac
 <2> QED BY <1>1, <2>1, <2>2 DEF Dead
<1>4. CASE WsOpen
 <2>1. dev' = dev /\ dac'.epoch = ws.epoch /\ ws.epoch > dev.last
   BY <1>1, <1>4 DEF WsOpen, Dac, VoiceInv, DeviceOK
 <2> QED BY <1>1, <2>1 DEF Dead
<1>5. CASE WsPublish
 <2>1. dac' = dac /\ dev'.last = ws.epoch /\ ws.epoch > dev.last
   BY <1>1, <1>5 DEF WsPublish, Dev, VoiceInv, DeviceOK
 <2> QED BY <1>1, <2>1 DEF Dead
<1>6. CASE WsCleared \/ WsEnd \/ WsFrame
 <2>1. dev'.last = dev.last /\ dac'.epoch = dac.epoch
   BY <1>1, <1>6 DEF WsCleared, WsEnd, WsFrame, Rejected, Dev, Dac
 <2> QED BY <2>1 DEF Dead
<1>7. CASE Dma
  BY <1>1, <1>7 DEF Dma, Dac, Dead
<1>8. CASE Provider \/ (\E f \in Epoch : AudioWriter(f)) \/ DeviceWriter \/ DeviceReader \/ Conversation \/ UNCHANGED vars
  BY <1>2, <1>8 DEF Provider, SpeechStarted, SpeechStopped, InputCommitted, ResponseStarted, ResponseAudio,
     ResponseDone, AudioWriter, DeviceWriter, DeviceReader, Conversation, ConvControl, ConvSample,
     ConvReport, vars, device
<1> QED BY <1>3, <1>4, <1>5, <1>6, <1>7, <1>8 DEF Next, WebSocket

\* What a step may do to an account.
LEMMA StreamNext ==
  ASSUME VoiceInv, VoiceInv', [Next]_vars, over' = "no", NEW e \in Epoch
  PROVE  \/ Keeps(e)
         \/ SpeechStarted /\ Interrupted(e) /\ Silenced(e)
         \/ /\ SpeechStarted \/ ResponseAudio
            /\ Closed(e) /\ ~streams'[e].live /\ settled'[e] = Settle(e)
         \/ ResponseAudio /\ e = epoch + 1 /\ ~streams[e].live /\ Opened(e) /\ settled'[e] = Open
         \/ DeviceReader /\ e = Head(up).epoch /\ Accepted(Head(up))
<1>1. CASE UNCHANGED <<streams, settled>>
  BY <1>1 DEF Keeps
<1>2. CASE SpeechStarted
 <2>1. /\ Interrupted(e) => Silenced(e)
       /\ Closed(e) => ~streams'[e].live /\ settled'[e] = Settle(e)
       /\ ~Interrupted(e) /\ ~Closed(e) => streams'[e] = streams[e] /\ settled'[e] = settled[e]
   BY <1>2, SpeechFacts
 <2> QED BY <1>2, <2>1 DEF Keeps
<1>3. CASE ResponseAudio
 <2>1. ASSUME NEW f \in Epoch, Alone(f), streams'[f].live, streams[f].live, settled' = settled,
              streams'[f].played = streams[f].played,
              SameClears(streams'[f], streams[f]), SameStarts(streams'[f], streams[f])
       PROVE  Keeps(e)
   BY <2>1 DEF Keeps, Alone, SameClears, SameStarts
 <2>2. ASSUME ~streams[epoch + 1].live, Opened(epoch + 1), \A f \in Epoch : f # epoch + 1 => Retires(f)
       PROVE  \/ Keeps(e)
              \/ Closed(e) /\ ~streams'[e].live /\ settled'[e] = Settle(e)
              \/ e = epoch + 1 /\ ~streams[e].live /\ Opened(e) /\ settled'[e] = Open
  <3>1. CASE e # epoch + 1
    BY <2>2, <3>1 DEF Retires, Keeps
  <3>2. CASE e = epoch + 1
   <4>1. (SettledOK(e))'
     BY DEF VoiceInv, AccountsOK
   <4>2. settled'[e] = Open
     BY <2>2, <3>2, <4>1 DEF SettledOK, Opened
   <4> QED BY <2>2, <3>2, <4>2
  <3> QED BY <3>1, <3>2
 <2> QED BY <1>3, <2>1, <2>2, AudioFacts
<1>4. CASE ResponseDone
  BY <1>4, DoneFacts DEF Alike, Keeps, SameCounts, SameClears, SameStarts
<1>5. ASSUME NEW f \in Epoch, AudioWriter(f)
      PROVE  Keeps(e)
  BY <1>5, WriterFacts DEF Alone, Keeps, SameClears
<1>6. CASE DeviceWriter
 <2> DEFINE f == Head(outbound).epoch
 <2>1. f \in Epoch /\ settled' = settled
   BY <1>6, SenderFacts, WordTypes
 <2>2. \/ UNCHANGED streams
       \/ /\ Alone(f) /\ streams[f].live /\ streams'[f].live
          /\ SameStarts(streams'[f], streams[f])
          /\ streams'[f].played = streams[f].played
          /\ streams'[f].cleared <=> streams[f].cleared
          /\ streams'[f].acknowledged <=> streams[f].acknowledged
   BY <1>6, SenderFacts
 <2> QED BY <2>1, <2>2 DEF Alone, Keeps, SameStarts
<1>7. CASE DeviceReader
 <2>1. /\ \/ Accepted(Head(up))
          \/ UNCHANGED <<streams, settled>>
       /\ Head(up).epoch \in Epoch
   BY <1>7, ReaderFacts
 <2>2. CASE Accepted(Head(up)) /\ e # Head(up).epoch
   BY <2>2 DEF Accepted, Alone, Keeps
 <2> QED BY <1>1, <1>7, <2>1, <2>2
<1>8. CASE SpeechStopped \/ InputCommitted \/ ResponseStarted \/ WebSocket \/ Dma \/ Conversation \/ UNCHANGED vars
 <2>1. UNCHANGED <<streams, settled>>
   BY <1>8 DEF SpeechStopped, InputCommitted, ResponseStarted, WebSocket, WsStart, WsOpen, WsPublish,
      WsClear, WsCleared, WsEnd, WsFrame, Dma, Conversation, ConvControl, ConvSample, ConvReport,
      vars, proxy, session
 <2> QED BY <1>1, <2>1
<1> QED BY <1>2, <1>3, <1>4, <1>5, <1>6, <1>7, <1>8 DEF Next, Provider

LEMMA AckedNext ==
  ASSUME VoiceInv, VoiceInv', Order, AckedOK, [Next]_vars, over' = "no"
  PROVE  AckedOK'
<1>1. ASSUME NEW e \in Epoch, streams'[e].live
      PROVE  /\ settled'[e] # Open => streams'[e].acknowledged
             /\ streams'[e].acknowledged /\ streams'[e].started => Dead(e)'
 <2>1. CASE Keeps(e)
  <3>1. streams[e].live /\ (streams[e].acknowledged => streams[e].cleared)
    BY <1>1, <2>1 DEF Keeps, Order, FlagsOK
  <3> QED BY <1>1, <2>1, <3>1, DeadNext DEF Keeps, AckedOK
 <2>2. CASE Interrupted(e) /\ Silenced(e)
   BY <2>2 DEF AckedOK, Interrupted, Silenced, SameStarts
 <2>3. CASE Opened(e) /\ settled'[e] = Open
   BY <2>3 DEF Opened
 <2>4. CASE DeviceReader /\ e = Head(up).epoch /\ Accepted(Head(up))
  <3>1. Truthful(Head(up)) /\ Head(up).type \in {"progress", "cleared"}
    BY <2>4, ReaderFacts
  <3>2. streams'[e].acknowledged => Dead(e)
    BY <2>4, <3>1 DEF Accepted, Truthful
  <3>3. settled'[e] # Open => streams'[e].acknowledged
    BY <1>1, <2>4, <3>1 DEF Accepted, AckedOK
  <3> QED BY <3>2, <3>3, DeadNext
 <2> QED BY <1>1, <2>1, <2>2, <2>3, <2>4, StreamNext
<1> QED BY <1>1 DEF AckedOK

LEMMA ComingAhead ==
  ASSUME VoiceInv, Order, NEW e \in Epoch, Coming(e)
  PROVE  e > dev.last /\ heard[e] = 0 /\ ~Unbegun(e)
<1>1. e \in Nat /\ dev.last \in Nat /\ Last \in Nat /\ dev.last <= Last
  BY ViewTypes, EpochNat
<1>2. ASSUME NEW i \in 1..Len(Wire), Wire[i] = Start(e) PROVE e > dev.last /\ ~Unbegun(e)
 <2>1. Wire[i].epoch = e /\ Wire[i].type = "start"
   BY <1>2 DEF Start
 <2>2. AtCurrent(Wire[i]) \/ AfterStart(i)
   BY DEF Order, Placed
 <2>3. e > Last
   BY <2>1, <2>2 DEF AtCurrent, AfterStart
 <2> QED BY <1>1, <2>1, <2>3 DEF Unbegun
<1>3. ASSUME Begins, ws.epoch = e PROVE e > dev.last /\ ~Unbegun(e)
 <2>1. e > dev.last /\ Last = e
   BY <1>3 DEF VoiceInv, DeviceOK, Begins, Last
 <2> QED BY <1>1, <2>1 DEF Unbegun
<1> QED BY <1>2, <1>3 DEF Coming, VoiceInv, DeviceOK

LEMMA ComingOpen ==
  ASSUME VoiceInv, Order, AckedOK, NEW e \in Epoch, Coming(e), streams[e].live
  PROVE  ~Closed(e)
<1>1. SUFFICES ASSUME Closed(e) PROVE FALSE
  OBVIOUS
<1>2. e > dev.last /\ heard[e] = 0 /\ ~Unbegun(e) /\ e \in Nat /\ dev.last \in Nat
  BY ComingAhead, EpochNat, ViewTypes
<1>3. CASE streams[e].acknowledged
 <2>1. streams[e].started
   BY <1>2 DEF Order, BeginsOK
 <2>2. Dead(e)
   BY <1>3, <2>1 DEF AckedOK
 <2> QED BY <1>2, <2>2 DEF Dead
<1>4. CASE Finished(streams[e])
 <2>1. streams[e].played = 0 /\ streams[e].done
   BY <1>2, <1>4, FinishedHeard
 <2>2. streams[e].produced >= 1
   BY <2>1 DEF Order, FlagsOK
 <2> QED BY <1>4, <2>1, <2>2 DEF Finished
<1> QED BY <1>1, <1>3, <1>4 DEF Closed

LEMMA StartNew ==
  ASSUME VoiceInv, VoiceInv', Order, [Next]_vars, over' = "no", NEW e \in Epoch,
         NEW i \in 1..Len(Wire'), Wire'[i] = Start(e)
  PROVE  (\E j \in 1..Len(Wire) : Wire[j] = Start(e)) \/ AudioWriter(e)
<1>1. Wire'[i].epoch = e /\ Wire'[i].type = "start"
  BY DEF Start
<1>2. ASSUME NEW h, NEW k, Thin(h, k) PROVE \E j \in 1..Len(Wire) : Wire[j] = Start(e)
  BY <1>2 DEF Thin
<1>3. ASSUME NEW m, Added(m), m # Start(e) PROVE \E j \in 1..Len(Wire) : Wire[j] = Start(e)
  BY <1>3, AddedAt
<1>4. CASE UNCHANGED <<down, outbound>>
  BY <1>4 DEF Wire
<1>5. CASE DeviceWriter
 <2>1. over = "no" /\ outbound # <<>> /\ outbound' = Tail(outbound)
   BY <1>5, SenderFacts
 <2>2. \/ down' = down
       \/ down' = Append(down, Head(outbound))
   BY <1>5, SenderFacts DEF SentMessage
 <2>3. CASE down' = Append(down, Head(outbound))
   BY <1>2, <2>1, <2>3, WireMoved, SameThin
 <2>4. CASE down' = down
   BY <1>2, <2>1, <2>4, WireDropped, RemovedThin
 <2> QED BY <2>2, <2>3, <2>4
<1>6. CASE WsStart \/ WsClear \/ WsEnd \/ WsFrame
 <2>1. Removed(1)
   BY <1>6, TakenFacts DEF TakenFrom
 <2> QED BY <1>2, <2>1, RemovedThin
<1>7. ASSUME NEW f \in Epoch, AudioWriter(f)
      PROVE  (\E j \in 1..Len(Wire) : Wire[j] = Start(e)) \/ AudioWriter(e)
 <2>1. PICK m \in Word : outbound' = Append(outbound, m) /\ m.epoch = f
   BY <1>7, WriterFacts
 <2>2. down' = down
   BY <1>7, WriterFacts
 <2>3. Added(m)
   BY <2>1, <2>2, WireAdded
 <2>4. CASE f # e
  <3>1. m # Start(e)
    BY <2>1, <2>4 DEF Start
  <3> QED BY <1>3, <2>3, <3>1
 <2> QED BY <1>7, <2>4
<1>8. CASE SpeechStarted
 <2>1. down' = down
   BY <1>8, SpeechFacts
 <2>2. \/ outbound' = outbound
       \/ \E f \in Epoch : outbound' = Append(outbound, Clear(f))
  <3>1. \A a, f \in Epoch : Interrupted(a) /\ streams[a].started /\ Interrupted(f) /\ streams[f].started => a = f
    BY OnePlays
  <3> QED BY <1>8, <3>1, ClearFacts
 <2>3. ASSUME NEW f \in Epoch, outbound' = Append(outbound, Clear(f))
       PROVE  \E j \in 1..Len(Wire) : Wire[j] = Start(e)
  <3>1. Clear(f) \in Word /\ Clear(f) # Start(e)
    BY DEF Clear, Word, Start
  <3>2. Added(Clear(f))
    BY <2>1, <2>3, <3>1, WireAdded
  <3>3. PICK m : m = Clear(f)
    OBVIOUS
  <3> QED BY <1>3, <3>1, <3>2, <3>3
 <2> QED BY <1>4, <2>1, <2>2, <2>3
<1>9. CASE SpeechStopped \/ InputCommitted \/ ResponseStarted \/ ResponseAudio \/ ResponseDone
           \/ DeviceReader \/ WsOpen \/ WsPublish \/ WsCleared \/ Dma \/ Conversation \/ UNCHANGED vars
 <2>1. UNCHANGED <<down, outbound>>
   BY <1>9 DEF SpeechStopped, InputCommitted, ResponseStarted, ResponseAudio, ResponseDone, DeviceReader,
      WsOpen, WsPublish, WsCleared, Dma, Conversation, ConvControl, ConvSample, ConvReport, vars, proxy
 <2> QED BY <1>4, <2>1
<1> QED BY <1>5, <1>6, <1>7, <1>8, <1>9 DEF Next, Provider, WebSocket

LEMMA StartsNext ==
  ASSUME VoiceInv, VoiceInv', Order, AckedOK, StartsLive, [Next]_vars, over' = "no"
  PROVE  StartsLive'
<1>1. ASSUME NEW e \in Epoch, Coming(e)' PROVE streams'[e].live
 <2>1. Coming(e) \/ AudioWriter(e)
  <3>1. CASE \E i \in 1..Len(Wire') : Wire'[i] = Start(e)
    BY <3>1, StartNew DEF Coming
  <3>2. CASE Begins' /\ ws'.epoch = e
   <4>1. CASE WsStart
    <5>1. ws'.epoch = Head(down).epoch /\ Head(down) = Start(Head(down).epoch) /\ TakenFrom(Head(down))
      BY <4>1, StartFacts
    <5> QED BY <3>2, <5>1 DEF TakenFrom, Coming
   <4>2. CASE ws' = ws
     BY <3>2, <4>2 DEF Begins, Coming
   <4>3. CASE WsOpen
     BY <3>2, <4>3 DEF WsOpen, Begins, Coming, VoiceInv, VoiceTypes, DeviceTypes, Ws
   <4>4. CASE WsPublish \/ WsCleared
     BY <3>2, <4>4 DEF WsPublish, WsCleared, Idle, Begins
   <4>5. CASE WsClear
    <5>1. ws' = ws \/ ws'.pc = "clearing"
      BY <4>5 DEF WsClear, Rejected
    <5> QED BY <3>2, <4>2, <5>1 DEF Begins
   <4>6. CASE WsEnd \/ WsFrame
     BY <4>2, <4>6 DEF WsEnd, WsFrame, Rejected
   <4>7. CASE Provider
     BY <4>2, <4>7 DEF Provider, SpeechStarted, SpeechStopped, InputCommitted, ResponseStarted,
        ResponseAudio, ResponseDone, device
   <4>8. CASE (\E f \in Epoch : AudioWriter(f)) \/ DeviceWriter \/ DeviceReader \/ Dma
              \/ Conversation \/ UNCHANGED vars
     BY <4>2, <4>8 DEF AudioWriter, DeviceWriter, DeviceReader, Dma, Conversation, ConvControl,
        ConvSample, ConvReport, vars, device
   <4> QED BY <4>1, <4>3, <4>4, <4>5, <4>6, <4>7, <4>8 DEF Next, WebSocket
  <3> QED BY <1>1, <3>1, <3>2 DEF Coming
 <2>2. CASE AudioWriter(e)
   BY <2>2, WriterFacts
 <2>3. CASE Coming(e)
  <3>1. streams[e].live /\ ~Closed(e)
    BY <2>3, ComingOpen DEF StartsLive
  <3> QED BY <3>1, StreamNext DEF Keeps, Silenced, Opened, Accepted
 <2> QED BY <2>1, <2>2, <2>3
<1> QED BY <1>1 DEF StartsLive

-------------------------------------------------------------------------------
(***************************************************************************)
(* What the proxy has heard of one answer and of those before and after    *)
(* it.                                                                     *)
(***************************************************************************)

LEMMA InitAsked == ASSUME Init PROVE AskedOK /\ AckedOK /\ StartsLive
<1>1. /\ down = <<>> /\ outbound = <<>> /\ up = <<>> /\ controls = <<>> /\ ws.pc = "idle"
      /\ \A e \in Epoch : ~streams[e].live
  BY DEF Init, None, Idle
<1>2. Len(Wire) = 0 /\ Len(down) = 0
  BY <1>1 DEF Wire
<1> QED BY <1>1, <1>2 DEF AskedOK, AckedOK, StartsLive, Acks, Coming, Begins

LEMMA BeganNext ==
  ASSUME VoiceInv, VoiceInv', Order, Handed, Began, [Next]_vars, over' = "no"
  PROVE  Began'
<1>1. ASSUME NEW f \in Epoch, Position(f) # Open \/ Acks(f) PROVE Position(f)' # Open \/ Acks(f)'
  BY <1>1, AcksStay, PositionsNext DEF PositionsStay
<1>2. CASE Last' = Last
  BY <1>1, <1>2 DEF Began
<1>3. CASE WsStart
 <2>1. PICK m : m = Head(down) /\ TakenFrom(m) /\ m.type = "start" /\ Last' = m.epoch
   BY <1>3, StartFacts
 <2>2. Wire[1].type = "start" /\ 1 \in 1..Len(Wire) /\ Wire[1].epoch = Last'
   BY <2>1 DEF TakenFrom
 <2>3. ASSUME NEW f \in Epoch, f < Last' PROVE Position(f) # Open \/ Acks(f)
  <3>1. Position(f) # Open \/ Acks(f) \/ \E j \in 1..1 : Wire[j] = Clear(f)
    BY <2>2, <2>3 DEF Handed, Turns
  <3>2. \A j \in 1..1 : Wire[j] # Clear(f)
    BY <2>2 DEF Clear
  <3> QED BY <3>1, <3>2
 <2> QED BY <1>1, <2>3 DEF Began
<1>4. CASE WsClear
  BY <1>2, <1>4, ClearedFacts
<1>5. CASE WsEnd
  BY <1>2, <1>5, EndedFacts
<1>6. CASE WsFrame
  BY <1>2, <1>6, FrameFacts
<1>7. CASE WsOpen \/ WsPublish \/ WsCleared
  BY <1>2, <1>7, ViewStays
<1>8. CASE Provider \/ (\E e \in Epoch : AudioWriter(e)) \/ DeviceWriter \/ DeviceReader \/ Dma
           \/ Conversation \/ UNCHANGED vars
 <2>1. UNCHANGED <<dev, ws>>
   BY <1>8 DEF Provider, SpeechStarted, SpeechStopped, InputCommitted, ResponseStarted, ResponseAudio,
      ResponseDone, AudioWriter, DeviceWriter, DeviceReader, Dma, Conversation, ConvControl, ConvSample,
      ConvReport, vars, device
 <2> QED BY <1>2, <2>1, ViewStays
<1> QED BY <1>3, <1>4, <1>5, <1>6, <1>7, <1>8 DEF Next, WebSocket

\* What was heard of a live answer that the recorder tells of.
LEMMA EchoHeard ==
  ASSUME VoiceInv, Order, NEW e \in Epoch, Echo(e)
  PROVE  ~Unbegun(e) /\ e <= epoch /\ (streams[e].live => streams[e].started)
<1>1. e \in Nat /\ dev.last \in Nat /\ Last \in Nat /\ dev.last <= Last /\ epoch \in Nat
  BY ViewTypes, EpochNat, HeardTypes
<1>2. ~Unbegun(e)
 <2>1. SUFFICES ASSUME Unbegun(e) PROVE FALSE
   OBVIOUS
 <2>2. e > Last /\ heard[e] = 0 /\ dac.epoch # e
   BY <2>1, ViewTypes DEF Unbegun
 <2>3. PICK i \in 1..Len(up) : Telling(up[i]) /\ up[i].epoch = e
   BY <2>2 DEF Echo
 <2>4. up[i] \in Told /\ Truthful(up[i])
   BY <2>3 DEF VoiceInv, VoiceTypes, DeviceTypes, ReportsOK
 <2>5. up[i].played \in Nat /\ up[i].type \in {"progress", "cleared"}
   BY <2>4 DEF Told
 <2> QED BY <1>1, <2>2, <2>3, <2>4, <2>5 DEF Truthful, Dead, Telling
<1> QED BY <1>1, <1>2 DEF Order, BeginsOK

\* The report that is read is of no later answer than what is told after it.
LEMMA HeadFirst ==
  ASSUME VoiceInv, ToldOrder, DeviceReader, Telling(Head(up)), NEW e \in Epoch, (Echo(e) \/ Acks(e))'
  PROVE  Head(up).epoch <= e
<1> DEFINE m == Head(up)
<1>1. /\ up # <<>> /\ up' = Tail(up) /\ UNCHANGED <<dac, ws, controls>> /\ e \in Nat
      /\ up \in Seq(Told) /\ Rising(up)
  BY EpochNat DEF DeviceReader, device, VoiceInv, VoiceTypes, DeviceTypes, ToldOrder
<1>2. m \in Told /\ m = up[1] /\ 1 \in 1..Len(up)
  BY <1>1, TailKeeps
<1>3. m.epoch \in Epoch /\ m.epoch \in Nat /\ m.played \in Nat /\ m.type \in {"progress", "cleared"}
  BY <1>2, EpochNat DEF Told
<1>4. ASSUME NEW a, Tells(m, a), Telling(a), a.epoch = e PROVE m.epoch <= e
  BY <1>1, <1>3, <1>4 DEF Tells
<1>5. /\ \A i \in 1..Len(up') : Tells(m, up'[i])
      /\ \A n : Heeds(up, n) => Tells(m, n)
  BY <1>1, RisingTail
<1>6. CASE dac.epoch = e
 <2>1. Truthful(m)
   BY <1>2 DEF VoiceInv, ReportsOK
 <2>2. m.epoch <= dev.last
  <3>1. m.epoch > dev.last => heard[m.epoch] = 0
    BY <1>3 DEF VoiceInv, DeviceOK
  <3>2. m.type = "cleared" => m.epoch <= dev.last
    BY <2>1 DEF Truthful, Dead
  <3>3. dev.last \in Nat
    BY ViewTypes
  <3> QED BY <1>3, <2>1, <3>1, <3>2, <3>3 DEF Truthful, Telling
 <2>3. dev.last <= e
  <3>1. dac.epoch # 0 /\ e \in Nat /\ dev.last \in Nat /\ dev.current \in Nat
        /\ ws.pc \in {"idle", "flushed", "opened", "clearing"}
    BY <1>6, EpochNat, ViewTypes DEF VoiceInv, VoiceTypes, DeviceTypes, Ws
  <3> QED BY <1>6, <3>1 DEF VoiceInv, DeviceOK
 <2> QED BY <1>1, <1>3, <2>2, <2>3, ViewTypes
<1>7. CASE \E i \in 1..Len(up') : Telling(up'[i]) /\ up'[i].epoch = e
  BY <1>4, <1>5, <1>7
<1>8. CASE Acks(e)'
 <2>1. \A i \in 1..Len(controls) : Tells(m, controls[i])
   BY <1>5 DEF ToldOrder
 <2>2. ws.pc = "clearing" => Tells(m, Answering)
   BY <1>5 DEF ToldOrder
 <2>3. Answering.type = "cleared" /\ Answering.epoch = ws.epoch
   BY DEF Answering, Cleared
 <2> QED BY <1>1, <1>4, <1>5, <1>8, <2>1, <2>2, <2>3 DEF Acks, Telling
<1> QED BY <1>1, <1>6, <1>7, <1>8 DEF Echo

LEMMA PassedNext ==
  ASSUME VoiceInv, VoiceInv', Order, ToldOrder, Began, Passed, [Next]_vars, over' = "no"
  PROVE  Passed'
<1>1. ASSUME NEW e \in Epoch, NEW f \in Epoch, streams'[e].live, streams'[e].played # 0, f < e
      PROVE  Position(f)' # Open
 <2>1. ASSUME streams[e].live, streams'[e].played = streams[e].played PROVE Position(f)' # Open
  <3>1. Position(f) # Open
    BY <1>1, <2>1 DEF Passed
  <3> QED BY <3>1, PositionsNext DEF PositionsStay
 <2>2. CASE Keeps(e)
   BY <1>1, <2>1, <2>2 DEF Keeps
 <2>3. CASE Interrupted(e) /\ Silenced(e)
   BY <2>1, <2>3 DEF Interrupted, Silenced
 <2>4. CASE DeviceReader /\ e = Head(up).epoch /\ Accepted(Head(up))
  <3> DEFINE m == Head(up)
  <3>1. /\ Truthful(m) /\ m.played \in Nat /\ m.type \in {"progress", "cleared"}
        /\ streams'[e].played = m.played
    BY <2>4, ReaderFacts DEF Accepted
  <3>2. heard[e] # 0 /\ e \in Nat /\ f \in Nat /\ dev.last \in Nat /\ Last \in Nat /\ dev.last <= Last
    BY <1>1, <2>4, <3>1, HeardTypes, ViewTypes DEF Truthful
  <3>3. e <= dev.last
    BY <3>2 DEF VoiceInv, DeviceOK
  <3>4. Position(f) # Open \/ Acks(f)
    BY <1>1, <3>2, <3>3 DEF Began
  <3>5. Acks(f)' => FALSE
   <4>1. Telling(m)
     BY <1>1, <3>1 DEF Telling
   <4>2. Acks(f)' => e <= f
     BY <2>4, <4>1, HeadFirst
   <4> QED BY <1>1, <3>2, <4>2
  <3> QED BY <3>4, <3>5, AcksStay, PositionsNext DEF PositionsStay
 <2> QED BY <1>1, <2>2, <2>3, <2>4, StreamNext DEF Opened
<1> QED BY <1>1 DEF Passed

LEMMA InitTells == ASSUME Init PROVE Began /\ Passed /\ BehindOK /\ ReportsFit
<1>1. /\ up = <<>> /\ ws.pc = "idle" /\ dev.last = 0 /\ \A e \in Epoch : ~streams[e].live
  BY DEF Init, None, Idle
<1>2. Len(up) = 0
  BY <1>1
<1>3. Last = 0 /\ Epoch \subseteq Nat
  BY <1>1, EpochNat DEF Last, Begins
<1>4. Began
  BY <1>3 DEF Began
<1>5. Passed
  BY <1>1 DEF Passed
<1>6. BehindOK
  BY <1>1 DEF BehindOK, Behind
<1>7. ReportsFit
  BY <1>2 DEF ReportsFit
<1> QED BY <1>4, <1>5, <1>6, <1>7

\* The recorder begins to tell of an answer when it opens it.
LEMMA EchoNew ==
  ASSUME VoiceInv, VoiceInv', ToldOrder, [Next]_vars, over' = "no", NEW e \in Epoch, Echo(e)'
  PROVE  Echo(e) \/ Acks(e) \/ (WsOpen /\ ws.epoch = e)
<1>1. controls \in Seq(Told) /\ up \in Seq(Told) /\ ws \in Ws /\ dac \in Dac /\ dev \in Dev /\ e # 0
  BY EpochNat DEF VoiceInv, VoiceTypes, DeviceTypes
<1>2. CASE UNCHANGED <<dac, up>>
  BY <1>2 DEF Echo
<1>3. CASE ConvControl
 <2>1. controls # <<>> /\ up' = Append(up, Head(controls)) /\ UNCHANGED dac
   BY <1>3 DEF ConvControl
 <2>2. Head(controls) \in Told /\ Head(controls) = controls[1] /\ 1 \in 1..Len(controls)
   BY <1>1, <2>1, TailKeeps
 <2>3. controls[1].type = "cleared"
   BY <2>2 DEF ToldOrder
 <2>4. \A i \in 1..Len(up') : (i \in 1..Len(up) /\ up'[i] = up[i]) \/ up'[i] = controls[1]
   BY <1>1, <2>1, <2>2, AppendKeeps
 <2> QED BY <2>1, <2>2, <2>3, <2>4 DEF Echo, Acks
<1>4. CASE ConvReport
 <2>1. /\ sample \in 0..MaxEpoch /\ sample # 0 /\ up' = Append(up, Progress(sample, Played(sample)))
       /\ UNCHANGED dac
   BY <1>4 DEF ConvReport, VoiceInv, VoiceTypes, DeviceTypes
 <2>2. Played(sample) \in Nat /\ sample \in Epoch
   BY <1>1, <2>1, EpochNat DEF Played, Dac
 <2>3. PICK m : m = Progress(sample, Played(sample))
   OBVIOUS
 <2>4. m \in Told /\ m.type = "progress" /\ m.epoch = sample /\ m.played = Played(sample)
   BY <2>2, <2>3 DEF Progress, Told
 <2>5. \A i \in 1..Len(up') : (i \in 1..Len(up) /\ up'[i] = up[i]) \/ up'[i] = m
   BY <1>1, <2>1, <2>3, <2>4, AppendKeeps
 <2>6. Telling(m) => dac.epoch = sample
   BY <2>4 DEF Telling, Played
 <2> QED BY <2>1, <2>4, <2>5, <2>6 DEF Echo
<1>5. CASE ConvSample
  BY <1>2, <1>5 DEF ConvSample
<1>6. CASE DeviceReader
 <2>1. up # <<>> /\ up' = Tail(up) /\ UNCHANGED dac
   BY <1>6 DEF DeviceReader, device
 <2>2. \A i \in 1..Len(up') : i + 1 \in 1..Len(up) /\ up'[i] = up[i + 1]
   BY <1>1, <2>1, TailKeeps
 <2> QED BY <2>1, <2>2 DEF Echo
<1>7. CASE WsOpen
 <2>1. dac'.epoch = ws.epoch /\ up' = up
   BY <1>1, <1>7 DEF WsOpen, Dac
 <2> QED BY <1>7, <2>1 DEF Echo
<1>8. CASE WsStart \/ WsClear
 <2>1. (dac' = dac \/ dac' = Flushed) /\ up' = up
   BY <1>8 DEF WsStart, WsClear, Rejected
 <2>2. Flushed.epoch = 0
   BY <1>1 DEF Flushed, Dac
 <2> QED BY <1>1, <2>1, <2>2 DEF Echo
<1>9. CASE WsPublish \/ WsCleared \/ WsEnd \/ WsFrame \/ Dma
 <2>1. dac'.epoch = dac.epoch /\ up' = up
   BY <1>1, <1>9 DEF WsPublish, WsCleared, WsEnd, WsFrame, Rejected, Dma, Dac
 <2> QED BY <2>1 DEF Echo
<1>10. CASE Provider \/ (\E f \in Epoch : AudioWriter(f)) \/ DeviceWriter \/ UNCHANGED vars
  BY <1>2, <1>10 DEF Provider, SpeechStarted, SpeechStopped, InputCommitted, ResponseStarted,
     ResponseAudio, ResponseDone, AudioWriter, DeviceWriter, vars, device
<1> QED BY <1>3, <1>4, <1>5, <1>6, <1>7, <1>8, <1>9, <1>10 DEF Next, WebSocket, Conversation

\* Nothing is heard of what comes after the recorder's last answer.
LEMMA LastBehind ==
  ASSUME VoiceInv, NEW e \in Epoch, e >= dev.last
  PROVE  Behind(e)
<1>1. ASSUME NEW f \in Epoch, f > e, streams[f].live PROVE streams[f].played = 0
 <2>1. f > dev.last
   BY <1>1, ViewTypes, EpochNat
 <2>2. heard[f] = 0
   BY <2>1 DEF VoiceInv, DeviceOK
 <2> QED BY <1>1, <2>2, StreamTypes
<1> QED BY <1>1 DEF Behind

LEMMA BehindNext ==
  ASSUME VoiceInv, VoiceInv', Order, ToldOrder, BehindOK, [Next]_vars, over' = "no"
  PROVE  BehindOK'
<1>1. ASSUME NEW e \in Epoch, (Echo(e) \/ Acks(e))' PROVE Behind(e)
 <2>1. CASE Echo(e) \/ Acks(e)
   BY <2>1 DEF BehindOK
 <2>2. CASE WsOpen /\ ws.epoch = e
  <3>1. e > dev.last
    BY <2>2 DEF WsOpen, VoiceInv, DeviceOK
  <3> QED BY <3>1, ViewTypes, EpochNat, LastBehind
 <2>3. CASE WsClear /\ down # <<>> /\ Head(down) = Clear(e)
  <3>1. e = Current /\ e # 0
    BY <2>3, EpochNat, ClearedFacts DEF Clear
  <3>2. e = Last /\ dev.last <= Last
    BY <3>1, ViewTypes
  <3> QED BY <3>2, ViewTypes, EpochNat, LastBehind
 <2> QED BY <1>1, <2>1, <2>2, <2>3, EchoNew, AcksNew
<1>2. ASSUME NEW e \in Epoch, (Echo(e) \/ Acks(e))', NEW f \in Epoch, f > e, streams'[f].live
      PROVE  streams'[f].played = 0
 <2>1. streams[f].live => streams[f].played = 0
   BY <1>1, <1>2 DEF Behind
 <2>2. CASE DeviceReader /\ f = Head(up).epoch /\ Accepted(Head(up))
  <3>1. streams'[f].played = Head(up).played /\ e \in Nat /\ f \in Nat
    BY <2>2, EpochNat DEF Accepted
  <3>2. ~Telling(Head(up))
    BY <1>2, <2>2, <3>1, HeadFirst
  <3> QED BY <3>1, <3>2 DEF Telling
 <2> QED BY <1>2, <2>1, <2>2, StreamNext DEF Keeps, Interrupted, Silenced, Opened
<1> QED BY <1>2 DEF BehindOK, Behind

\* What the recorder tells of is not yet acknowledged.
LEMMA EchoLive ==
  ASSUME VoiceInv, Order, AckedOK, ReportsFit, NEW e \in Epoch, Echo(e), streams[e].live
  PROVE  ~streams[e].acknowledged /\ settled[e] = Open
<1>1. streams[e].started
  BY EchoHeard
<1>2. ~streams[e].acknowledged
 <2>1. CASE dac.epoch = e
   BY <1>1, <2>1 DEF AckedOK, Dead
 <2>2. CASE \E i \in 1..Len(up) : Telling(up[i]) /\ up[i].epoch = e
   BY <2>2 DEF ReportsFit, Fits
 <2> QED BY <2>1, <2>2 DEF Echo
<1> QED BY <1>2 DEF AckedOK

\* Its account is closed where the speaker stopped.
LEMMA EchoSettles ==
  ASSUME VoiceInv, Order, AckedOK, ReportsFit, NEW e \in Epoch, Echo(e), Closed(e)
  PROVE  /\ streams[e].live /\ Finished(streams[e]) /\ Settle(e) = heard[e]
         /\ streams[e].played = heard[e] /\ streams[e].played # 0
<1>1. streams[e].live /\ Finished(streams[e]) /\ settled[e] = Open
  BY EchoLive DEF Closed
<1>2. streams[e].played = heard[e] /\ streams[e].done
  BY <1>1, FinishedHeard
<1>3. streams[e].produced >= 1
  BY <1>1, <1>2 DEF Order, FlagsOK
<1> QED BY <1>1, <1>2, <1>3 DEF Settle, Finished

\* A report on its way still fits after the step.
LEMMA FitsStays ==
  ASSUME VoiceInv, VoiceInv', Order, ToldOrder, AckedOK, ReportsFit, [Next]_vars, over' = "no",
         NEW i \in 1..Len(up), DeviceReader => i # 1, NEW m, m = up[i]
  PROVE  Fits(m)'
<1>1. m \in Told /\ Truthful(m) /\ Fits(m)
  BY DEF VoiceInv, VoiceTypes, DeviceTypes, ReportsOK, ReportsFit
<1>2. PICK e \in Epoch : e = m.epoch /\ m.played \in Nat /\ m.type \in {"progress", "cleared"}
  BY <1>1 DEF Told
<1>3. SUFFICES ASSUME Telling(m)
      PROVE  /\ streams'[e].live => streams'[e].played <= m.played /\ ~streams'[e].acknowledged
             /\ ~streams'[e].live => m.played = settled'[e]
  BY <1>2 DEF Fits, Telling
<1>4. /\ streams[e].live => streams[e].played <= m.played /\ ~streams[e].acknowledged
      /\ ~streams[e].live => m.played = settled[e]
  BY <1>1, <1>2, <1>3 DEF Fits
<1>5. Echo(e)
  BY <1>2, <1>3 DEF Echo
<1>6. CASE Keeps(e)
  BY <1>4, <1>6 DEF Keeps
<1>7. CASE Interrupted(e) /\ Silenced(e)
 <2>1. streams[e].started
   BY <1>5, <1>7, EchoHeard DEF Interrupted
 <2> QED BY <1>4, <1>7, <2>1 DEF Interrupted, Silenced
<1>8. CASE Closed(e) /\ ~streams'[e].live /\ settled'[e] = Settle(e)
 <2>1. streams[e].live /\ Settle(e) = heard[e] /\ streams[e].played = heard[e]
   BY <1>5, <1>8, EchoSettles
 <2>2. m.played <= heard[e] /\ heard[e] \in Nat
   BY <1>1, <1>2, HeardTypes DEF Truthful
 <2> QED BY <1>2, <1>4, <1>8, <2>1, <2>2
<1>9. CASE Opened(e)
  BY <1>2, <1>9 DEF Opened
<1>10. CASE DeviceReader /\ e = Head(up).epoch /\ Accepted(Head(up))
 <2> DEFINE h == Head(up)
 <2>1. up # <<>> /\ up \in Seq(Told) /\ Rising(up)
   BY <1>10 DEF DeviceReader, ToldOrder, VoiceInv, VoiceTypes, DeviceTypes
 <2>2. h = up[1] /\ 1 \in 1..Len(up) /\ h \in Told
   BY <2>1, TailKeeps
 <2>3. Tells(h, m)
  <3>1. 1 < i
    BY <1>10
  <3> QED BY <2>1, <2>2, <3>1 DEF Rising
 <2>4. h.played \in Nat /\ h.epoch \in Nat /\ h.type \in {"progress", "cleared"}
   BY <2>2, EpochNat DEF Told
 <2>5. h.type = "progress" /\ h.played <= m.played
   BY <1>2, <1>3, <1>10, <2>3, <2>4 DEF Tells, Telling
 <2> QED BY <1>10, <2>5 DEF Accepted
<1> QED BY <1>6, <1>7, <1>8, <1>9, <1>10, StreamNext

LEMMA ReportsNext ==
  ASSUME VoiceInv, VoiceInv', Order, ToldOrder, AskedOK, AckedOK, ReportsFit, [Next]_vars, over' = "no"
  PROVE  ReportsFit'
<1>1. controls \in Seq(Told) /\ up \in Seq(Told) /\ dac \in Dac
  BY DEF VoiceInv, VoiceTypes, DeviceTypes
<1>2. CASE up' = up /\ ~DeviceReader
  BY <1>2, FitsStays DEF ReportsFit
<1>3. CASE DeviceReader
 <2>1. up # <<>> /\ up' = Tail(up)
   BY <1>3 DEF DeviceReader
 <2>2. \A i \in 1..Len(up') : i + 1 \in 1..Len(up) /\ up'[i] = up[i + 1] /\ i + 1 # 1
   BY <1>1, <2>1, TailKeeps
 <2>3. ASSUME NEW i \in 1..Len(up'), NEW m, m = up'[i] PROVE Fits(m)'
  <3>1. m = up[i + 1]
    BY <2>2, <2>3
  <3> QED BY <1>3, <2>2, <2>3, <3>1, FitsStays
 <2> QED BY <2>3 DEF ReportsFit
<1>4. ASSUME NEW m \in Told, up' = Append(up, m), UNCHANGED <<streams, settled>>, Fits(m)
      PROVE  ReportsFit'
 <2>1. \A i \in 1..Len(up') : (i \in 1..Len(up) /\ up'[i] = up[i]) \/ up'[i] = m
   BY <1>1, <1>4, AppendKeeps
 <2> QED BY <1>4, <2>1 DEF ReportsFit, Fits
<1>5. CASE ConvControl
 <2>1. controls # <<>> /\ up' = Append(up, Head(controls)) /\ UNCHANGED <<streams, settled>>
   BY <1>5 DEF ConvControl, proxy, session
 <2>2. Head(controls) \in Told /\ Head(controls) = controls[1] /\ 1 \in 1..Len(controls)
   BY <1>1, <2>1, TailKeeps
 <2>3. PICK m : m = Head(controls)
   OBVIOUS
 <2>4. m.type = "cleared" /\ Truthful(m) /\ m \in Told /\ m.epoch \in Epoch
   BY <2>2, <2>3 DEF ToldOrder, VoiceInv, ReportsOK, Told
 <2>5. Asked(m.epoch)
   BY <2>2, <2>3, <2>4 DEF AskedOK, Acks
 <2>6. streams[m.epoch].played <= m.played
   BY <2>4, <2>5, StreamTypes DEF Truthful, Asked, Clearing
 <2> QED BY <1>4, <2>1, <2>3, <2>4, <2>5, <2>6 DEF Fits, Asked, Clearing
<1>6. CASE ConvReport
 <2>1. /\ sample \in 0..MaxEpoch /\ sample # 0 /\ up' = Append(up, Progress(sample, Played(sample)))
       /\ UNCHANGED <<streams, settled>>
   BY <1>6 DEF ConvReport, VoiceInv, VoiceTypes, DeviceTypes, proxy, session
 <2>2. Played(sample) \in Nat /\ sample \in Epoch
   BY <1>1, <2>1, EpochNat DEF Played, Dac
 <2>3. PICK m : m = Progress(sample, Played(sample))
   OBVIOUS
 <2>4. m \in Told /\ m.type = "progress" /\ m.epoch = sample /\ m.played = Played(sample)
   BY <2>2, <2>3 DEF Progress, Told
 <2>5. ASSUME Telling(m) PROVE Fits(m)
  <3>1. dac.epoch = sample /\ m.played = dac.played /\ Echo(sample)
    BY <2>4, <2>5 DEF Telling, Played, Echo
  <3>2. m.played = heard[sample]
    BY <2>1, <3>1 DEF VoiceInv, DeviceOK
  <3>3. CASE streams[sample].live
    BY <2>2, <2>4, <3>1, <3>2, <3>3, EchoLive, StreamTypes DEF Fits
  <3>4. CASE ~streams[sample].live
   <4>1. sample <= epoch
     BY <2>2, <3>1, EchoHeard
   <4>2. settled[sample] # Open
     BY <2>2, <3>4, <4>1 DEF Order, FlagsOK
   <4>3. settled[sample] = heard[sample]
     BY <2>2, <4>2 DEF VoiceInv, AccountsOK, SettledOK
   <4> QED BY <2>4, <3>2, <3>4, <4>3 DEF Fits
  <3> QED BY <3>3, <3>4
 <2>6. Fits(m)
   BY <2>5 DEF Fits
 <2> QED BY <1>4, <2>1, <2>3, <2>4, <2>6
<1>7. CASE Provider \/ (\E f \in Epoch : AudioWriter(f)) \/ DeviceWriter \/ WebSocket \/ Dma \/ ConvSample
           \/ UNCHANGED vars
 <2>1. up' = up
   BY <1>7 DEF Provider, SpeechStarted, SpeechStopped, InputCommitted, ResponseStarted, ResponseAudio,
      ResponseDone, AudioWriter, DeviceWriter, WebSocket, WsStart, WsOpen, WsPublish, WsClear, WsCleared,
      WsEnd, WsFrame, Dma, ConvSample, vars
 <2> QED BY <1>2, <1>3, <2>1
<1> QED BY <1>3, <1>5, <1>6, <1>7 DEF Next, Conversation

-------------------------------------------------------------------------------
(***************************************************************************)
(* What the proxy remembers of the accounts it closed.                     *)
(***************************************************************************)

LEMMA InitMemory == ASSUME Init PROVE RetTypes /\ MemoryOK
<1>1. retired = <<>> /\ epoch = 0
  BY DEF Init
<1>2. \A e \in Epoch : ~(e <= 0)
  BY EpochNat
<1> QED BY <1>1, <1>2 DEF RetTypes, MemoryOK

LEMMA OrderedOnto ==
  ASSUME NEW E \in SUBSET Epoch, NEW n, n = Cardinality(E)
  PROVE  \A e \in E : \E i \in 1..n : Ordered(E)[i] = e
<1> DEFINE s == Ordered(E)
<1>1. n \in Nat /\ s \in [1..n -> E] /\ \A i, j \in 1..n : i < j => s[i] < s[j]
  BY OrderedTypes DEF Increasing
<1>2. IsFiniteSet(E) /\ Cardinality(E) = n
  BY EpochsFinite
<1>3. IsFiniteSet(1..n) /\ Cardinality(1..n) = n
  BY <1>1, FS_Interval
<1> HIDE DEF s
<1>4. \A i, j \in 1..n : s[i] = s[j] => i = j
 <2>1. SUFFICES ASSUME NEW i \in 1..n, NEW j \in 1..n, s[i] = s[j], i # j PROVE FALSE
   OBVIOUS
 <2>2. s[i] \in Nat /\ s[j] \in Nat
   BY <1>1, EpochNat
 <2>3. i < j \/ j < i
   BY <1>1, <2>1
 <2> QED BY <1>1, <2>1, <2>2, <2>3
<1>5. s \in Injection(1..n, E)
  BY <1>1, <1>4 DEF Injection, IsInjective
<1>6. s \in Surjection(1..n, E)
  BY <1>2, <1>3, <1>5, FS_Injection
<1> QED BY <1>6 DEF Surjection, s

LEMMA RememberedIs ==
  ASSUME VoiceInv, RetTypes, retired' = Remembered
  PROVE  RetTypes' /\ \E all, c, n, d : Extended(all, c, n) /\ Trimmed(all, d)
<1> DEFINE E == {e \in Epoch : Closed(e)}
           n == Cardinality(E)
           c == Ordered(E)
           r == [i \in DOMAIN c |-> [epoch |-> c[i], played |-> streams[c[i]].played,
                                     cleared |-> streams[c[i]].cleared]]
           all == retired \o r
           d == IF Len(all) > MaxRetired THEN Len(all) - MaxRetired ELSE 0
<1>1. n \in Nat /\ c \in [1..n -> E] /\ Increasing(E, c)
  BY OrderedTypes
<1>2. /\ c \in [1..n -> Epoch] /\ \A i \in 1..n : Closed(c[i])
      /\ \A e \in Epoch : Closed(e) => \E i \in 1..n : c[i] = e
      /\ \A i, j \in 1..n : i < j => c[i] < c[j]
 <2>1. \A e \in E : \E i \in 1..n : c[i] = e
   BY OrderedOnto
 <2> QED BY <1>1, <2>1 DEF Increasing
<1>3. r \in [1..n -> Entry]
 <2>1. ASSUME NEW i \in 1..n
       PROVE  [epoch |-> c[i], played |-> streams[c[i]].played, cleared |-> streams[c[i]].cleared] \in Entry
  <3>1. PICK e \in Epoch : e = c[i] /\ streams[e].live
    BY <1>2, <2>1 DEF Closed
  <3>2. streams[e].played \in Nat /\ streams[e].cleared \in BOOLEAN
    BY <3>1, StreamTypes, AccountFields DEF Flag
  <3> QED BY <3>1, <3>2 DEF Entry
 <2> QED BY <1>1, <2>1
<1>4. \A i \in 1..n : r[i].epoch = c[i] /\ r[i].played = streams[c[i]].played
  BY <1>1
<1> HIDE DEF r, c, n
<1>5. /\ all \in Seq(Entry) /\ Len(all) = Len(retired) + n
      /\ \A i \in 1..Len(retired) : all[i] = retired[i]
      /\ \A i \in 1..n : all[Len(retired) + i] = r[i]
  BY <1>1, <1>3, ConcatKeeps DEF RetTypes
<1>6. Extended(all, c, n)
  BY <1>1, <1>2, <1>4, <1>5 DEF Extended
<1>7. retired' = SubSeq(all, IF Len(all) > MaxRetired THEN Len(all) - MaxRetired + 1 ELSE 1, Len(all))
  BY DEF Remembered, r, c, n
<1>8. MaxRetired \in Nat \ {0}
  BY VoiceAssumption
<1> HIDE DEF all
<1>9. retired' \in Seq(Entry) /\ Trimmed(all, d)
 <2>1. PICK a \in Seq(Entry), l \in Nat : a = all /\ l = Len(a)
  <3>1. Len(all) \in Nat
    BY <1>5
  <3> QED BY <1>5, <3>1
 <2>2. PICK x \in Nat : x = d /\ x <= l
  <3>1. d \in Nat /\ d <= Len(all)
    BY <1>8, <2>1
  <3> QED BY <2>1, <3>1
 <2>3. PICK q : q = retired'
   OBVIOUS
 <2>4. (IF l > MaxRetired THEN l - MaxRetired + 1 ELSE 1) = x + 1
   BY <1>8, <2>1, <2>2
 <2>5. q = SubSeq(a, x + 1, l)
   BY <1>7, <2>1, <2>3, <2>4
 <2>6. (x = 0 => l <= MaxRetired) /\ (x > 0 => l - x = MaxRetired)
   BY <1>8, <2>1, <2>2
 <2> HIDE DEF d
 <2>7. q \in Seq(Entry) /\ Len(q) = l - x /\ \A i \in 1..(l - x) : q[i] = a[i + x]
  <3>0. l = Len(a) /\ x <= l
    BY <2>1, <2>2
  <3>1. Len(q) = l - x
    BY <2>5, <3>0
  <3>2. \A i \in 1..(l - x) : q[i] = a[i + x]
    BY <2>5, <3>0
  <3>3. q \in Seq(Entry)
   <4> HIDE DEF Entry
   <4> QED BY <2>5, <3>0
  <3> QED BY <3>1, <3>2, <3>3
 <2> QED BY <2>1, <2>2, <2>3, <2>6, <2>7 DEF Trimmed
<1> QED BY <1>6, <1>9 DEF RetTypes

\* What is remembered stays so until it is forgotten.
LEMMA TrimRecalls ==
  ASSUME NEW all \in Seq(Entry), NEW d, Trimmed(all, d), NEW k \in 0..Len(all), NEW e, NEW p,
         Recalls(all, k, e, p), k = 0 => Len(all) >= MaxRetired, MaxRetired \in Nat
  PROVE  \E l \in 0..Len(retired') :
           /\ l = 0 => Len(retired') = MaxRetired
           /\ Recalls(retired', l, e, p)
<1> DEFINE l == IF k > d THEN k - d ELSE 0
<1>1. Len(all) \in Nat /\ d \in Nat /\ d <= Len(all) /\ Len(retired') = Len(all) - d
  BY DEF Trimmed
<1>2. l \in 0..Len(retired') /\ (l > 0 => l + d = k /\ l \in 1..Len(retired')) /\ (l = 0 => k <= d)
  BY <1>1
<1>3. l = 0 => Len(retired') = MaxRetired
 <2>1. l = 0 /\ d = 0 => k = 0
   BY <1>1, <1>2
 <2> QED BY <1>1, <2>1 DEF Trimmed
<1>4. l > 0 => retired'[l].epoch = e /\ retired'[l].played = p
  BY <1>1, <1>2 DEF Trimmed, Recalls
<1>5. ASSUME NEW j \in (l + 1)..Len(retired') PROVE retired'[j].epoch > e /\ retired'[j].played = 0
 <2>1. j + d \in (k + 1)..Len(all) /\ j \in 1..Len(retired')
   BY <1>1, <1>2, <1>5
 <2> QED BY <2>1 DEF Trimmed, Recalls
<1>6. Recalls(retired', l, e, p)
  BY <1>4, <1>5 DEF Recalls
<1> QED BY <1>2, <1>3, <1>6

\* Accounts that are closed after e, and of which nothing was heard.
LEMMA RetMore ==
  ASSUME VoiceInv, RetTypes, NEW e \in Epoch, RetOK(e), settled'[e] = settled[e], retired' = Remembered,
         \A f \in Epoch : Closed(f) => f > e /\ streams[f].played = 0
  PROVE  RetOK(e)'
<1>1. PICK all, c, n, d : Extended(all, c, n) /\ Trimmed(all, d)
  BY RememberedIs
<1>2. PICK k \in 0..Len(retired) : /\ k = 0 => Len(retired) = MaxRetired
                                   /\ Recalls(retired, k, e, settled[e])
  BY DEF RetOK
<1>3. /\ all \in Seq(Entry) /\ n \in Nat /\ Len(all) = Len(retired) + n /\ Len(retired) \in Nat
      /\ MaxRetired \in Nat
  BY <1>1, VoiceAssumption DEF Extended, RetTypes
<1>4. Recalls(all, k, e, settled[e])
 <2>1. k > 0 => all[k].epoch = e /\ all[k].played = settled[e]
   BY <1>1, <1>2, <1>3 DEF Extended, Recalls
 <2>2. ASSUME NEW j \in (k + 1)..Len(all) PROVE all[j].epoch > e /\ all[j].played = 0
  <3>1. CASE j <= Len(retired)
   <4>1. j \in (k + 1)..Len(retired) /\ j \in 1..Len(retired)
     BY <1>3, <3>1
   <4> QED BY <1>1, <1>2, <4>1 DEF Extended, Recalls
  <3>2. CASE ~(j <= Len(retired))
   <4>1. PICK i \in 1..n : j = Len(retired) + i
    <5>1. j - Len(retired) \in 1..n /\ j = Len(retired) + (j - Len(retired))
      BY <1>3, <3>2
    <5> QED BY <5>1
   <4>2. c[i] \in Epoch /\ Closed(c[i]) /\ all[j].epoch = c[i] /\ all[j].played = streams[c[i]].played
     BY <1>1, <4>1 DEF Extended
   <4> QED BY <4>2
  <3> QED BY <3>1, <3>2
 <2> QED BY <2>1, <2>2 DEF Recalls
<1>5. k \in 0..Len(all) /\ (k = 0 => Len(all) >= MaxRetired)
  BY <1>2, <1>3
<1>6. \E l \in 0..Len(retired') : /\ l = 0 => Len(retired') = MaxRetired
                                  /\ Recalls(retired', l, e, settled[e])
  BY <1>1, <1>3, <1>4, <1>5, TrimRecalls
<1> QED BY <1>6 DEF RetOK, Recalls

\* The account of e is closed, and after it those of which nothing was heard.
LEMMA RetNew ==
  ASSUME VoiceInv, RetTypes, NEW e \in Epoch, Closed(e), settled'[e] = streams[e].played,
         retired' = Remembered,
         \A f \in Epoch : Closed(f) /\ f > e => streams[f].played = 0
  PROVE  RetOK(e)'
<1>1. PICK all, c, n, d : Extended(all, c, n) /\ Trimmed(all, d)
  BY RememberedIs
<1>2. PICK i \in 1..n : c[i] = e
  BY <1>1 DEF Extended
<1>3. /\ all \in Seq(Entry) /\ n \in Nat /\ Len(all) = Len(retired) + n /\ Len(retired) \in Nat
      /\ MaxRetired \in Nat
  BY <1>1, VoiceAssumption DEF Extended, RetTypes
<1>4. PICK k : k = Len(retired) + i
  OBVIOUS
<1>5. k \in 0..Len(all) /\ k # 0
  BY <1>3, <1>4
<1>6. Recalls(all, k, e, settled'[e])
 <2>1. all[k].epoch = e /\ all[k].played = settled'[e]
   BY <1>1, <1>2, <1>4 DEF Extended
 <2>2. ASSUME NEW j \in (k + 1)..Len(all) PROVE all[j].epoch > e /\ all[j].played = 0
  <3>1. PICK x \in 1..n : j = Len(retired) + x /\ i < x
   <4>1. j - Len(retired) \in 1..n /\ j = Len(retired) + (j - Len(retired)) /\ i < j - Len(retired)
     BY <1>3, <1>4
   <4> QED BY <4>1
  <3>2. c[x] \in Epoch /\ Closed(c[x]) /\ all[j].epoch = c[x] /\ all[j].played = streams[c[x]].played
    BY <1>1, <3>1 DEF Extended
  <3>3. c[i] < c[x]
    BY <1>1, <3>1 DEF Extended
  <3>4. c[x] > e
    BY <1>2, <3>2, <3>3, EpochNat
  <3> QED BY <3>2, <3>4
 <2> QED BY <2>1, <2>2 DEF Recalls
<1>7. \E l \in 0..Len(retired') : /\ l = 0 => Len(retired') = MaxRetired
                                  /\ Recalls(retired', l, e, settled'[e])
  BY <1>1, <1>3, <1>5, <1>6, TrimRecalls
<1> QED BY <1>7 DEF RetOK, Recalls

-------------------------------------------------------------------------------
(***************************************************************************)
(* The session survives.                                                   *)
(***************************************************************************)

\* What a step may do to the closed accounts as a whole.
LEMMA RetireNext ==
  ASSUME VoiceInv, VoiceInv', [Next]_vars, over' = "no"
  PROVE  \/ retired' = retired /\ \A f \in Epoch : ~(Closed(f) /\ ~streams'[f].live)
         \/ /\ retired' = Remembered /\ UNCHANGED <<dac, up>>
            /\ \A f \in Epoch : Closed(f) => ~streams'[f].live
<1>1. CASE SpeechStarted
  BY <1>1, SpeechFacts DEF device
<1>2. CASE ResponseAudio
 <2>1. ASSUME retired' = retired, NEW e \in Epoch, streams[e].live, streams'[e].live, Alone(e)
       PROVE  \A f \in Epoch : ~(Closed(f) /\ ~streams'[f].live)
   BY <2>1 DEF Alone, Closed
 <2>2. ASSUME ~streams[epoch + 1].live, \A f \in Epoch : f # epoch + 1 => Retires(f)
       PROVE  \A f \in Epoch : Closed(f) => ~streams'[f].live
   BY <2>2 DEF Retires, Closed
 <2>3. UNCHANGED <<dac, up>>
   BY <1>2 DEF ResponseAudio, device
 <2> QED BY <1>2, <2>1, <2>2, <2>3, AudioFacts
<1>3. CASE ~SpeechStarted /\ ~ResponseAudio
 <2>1. retired' = retired
   BY <1>3 DEF Next, Provider, SpeechStopped, InputCommitted, ResponseStarted, ResponseDone, AudioWriter,
      DeviceWriter, DeviceReader, WebSocket, WsStart, WsOpen, WsPublish, WsClear, WsCleared, WsEnd,
      WsFrame, Dma, Conversation, ConvControl, ConvSample, ConvReport, vars, proxy
 <2>2. \A f \in Epoch : streams[f].live => streams'[f].live
   BY <1>3, StreamNext DEF Keeps, Accepted
 <2> QED BY <2>1, <2>2 DEF Closed
<1> QED BY <1>1, <1>2, <1>3

LEMMA RetTypesNext ==
  ASSUME VoiceInv, VoiceInv', RetTypes, [Next]_vars, over' = "no"
  PROVE  RetTypes'
BY RetireNext, RememberedIs DEF RetTypes

LEMMA OverClosed ==
  ASSUME AckedOK, NEW f \in Epoch, streams[f].live, Position(f) # Open
  PROVE  Closed(f)
BY DEF Position, AckedOK, Closed

LEMMA MemoryNext ==
  ASSUME VoiceInv, VoiceInv', Order, ToldOrder, AskedOK, AckedOK, StartsLive, Passed, BehindOK, ReportsFit,
         RetTypes, MemoryOK, [Next]_vars, over' = "no"
  PROVE  MemoryOK'
<1>1. ASSUME NEW e \in Epoch, ~streams'[e].live, Echo(e)'
      PROVE  RetOK(e)' /\ \A f \in Epoch : f < e => ~streams'[f].live
 <2>1. CASE Keeps(e)
  <3>1. ~streams[e].live /\ settled'[e] = settled[e]
    BY <1>1, <2>1 DEF Keeps
  <3>2. ~Acks(e)
    BY <3>1 DEF AskedOK, Asked, Clearing
  <3>3. ~(WsOpen /\ ws.epoch = e)
   <4>1. WsOpen /\ ws.epoch = e => Coming(e)
     BY DEF WsOpen, Coming, Begins
   <4> QED BY <3>1, <4>1 DEF StartsLive
  <3>4. Echo(e)
    BY <1>1, <3>2, <3>3, EchoNew
  <3>5. e <= epoch /\ e \in Nat /\ epoch \in Nat
    BY <3>4, EchoHeard, HeardTypes
  <3>6. RetOK(e) /\ \A f \in Epoch : f < e => ~streams[f].live
    BY <3>1, <3>4, <3>5 DEF MemoryOK
  <3>7. ASSUME NEW f \in Epoch, f < e PROVE ~streams'[f].live
   <4>1. ~streams[f].live /\ f # epoch + 1
     BY <3>5, <3>6, <3>7, EpochNat
   <4> QED BY <4>1, StreamNext DEF Keeps, Interrupted, Accepted
  <3>8. RetOK(e)'
   <4>1. CASE retired' = retired
     BY <3>1, <3>6, <4>1 DEF RetOK, Recalls
   <4>2. CASE retired' = Remembered
    <5>1. ASSUME NEW f \in Epoch, Closed(f) PROVE f > e /\ streams[f].played = 0
     <6>1. streams[f].live /\ f \in Nat
       BY <5>1, EpochNat DEF Closed
     <6>2. f > e
       BY <3>1, <3>5, <3>6, <6>1
     <6> QED BY <3>4, <6>1, <6>2 DEF BehindOK, Behind
    <5> QED BY <3>1, <3>6, <4>2, <5>1, RetMore
   <4> QED BY <4>1, <4>2, RetireNext
  <3> QED BY <3>7, <3>8
 <2>2. CASE (SpeechStarted \/ ResponseAudio) /\ Closed(e) /\ settled'[e] = Settle(e)
  <3>1. /\ retired' = Remembered /\ UNCHANGED <<dac, up>>
        /\ \A f \in Epoch : Closed(f) => ~streams'[f].live
    BY <1>1, <2>2, RetireNext
  <3>2. Echo(e)
    BY <1>1, <3>1 DEF Echo
  <3>3. streams[e].live /\ settled'[e] = streams[e].played /\ streams[e].played # 0
    BY <2>2, <3>2, EchoSettles
  <3>4. e <= epoch /\ e \in Nat /\ epoch \in Nat
    BY <3>2, EchoHeard, HeardTypes
  <3>5. ASSUME NEW f \in Epoch, f < e PROVE ~streams'[f].live
   <4>1. CASE streams[f].live
    <5>1. Position(f) # Open
      BY <3>3, <3>5 DEF Passed
    <5> QED BY <3>1, <4>1, <5>1, OverClosed
   <4>2. CASE ~streams[f].live
    <5>1. f # epoch + 1
      BY <3>4, <3>5, EpochNat
    <5> QED BY <4>2, <5>1, StreamNext DEF Keeps, Interrupted, Accepted
   <4> QED BY <4>1, <4>2
  <3>6. ASSUME NEW f \in Epoch, Closed(f), f > e PROVE streams[f].played = 0
    BY <3>2, <3>6 DEF BehindOK, Behind, Closed
  <3>7. RetOK(e)'
    BY <2>2, <3>1, <3>3, <3>6, RetNew
  <3> QED BY <3>5, <3>7
 <2> QED BY <1>1, <2>1, <2>2, StreamNext DEF Silenced, Opened, Accepted
<1> QED BY <1>1 DEF MemoryOK

\* A report that tells something of a live answer is acceptable.
LEMMA LiveAccepted ==
  ASSUME VoiceInv, Credits, AskedOK, ReportsFit, up # <<>>, streams[Head(up).epoch].live, Telling(Head(up))
  PROVE  Acceptable(streams[Head(up).epoch], Head(up))
<1>1. up \in Seq(Told)
  BY DEF VoiceInv, VoiceTypes, DeviceTypes
<1>2. Head(up) = up[1] /\ 1 \in 1..Len(up) /\ Head(up) \in Told
  BY <1>1, TailKeeps
<1>3. PICK m : m = Head(up)
  OBVIOUS
<1>4. PICK e \in Epoch : e = m.epoch /\ m.played \in Nat /\ m.type \in {"progress", "cleared"}
  BY <1>2, <1>3 DEF Told
<1>5. Truthful(m) /\ Fits(m)
  BY <1>2, <1>3 DEF VoiceInv, ReportsOK, ReportsFit
<1>6. streams[e].played <= m.played /\ ~streams[e].acknowledged
  BY <1>3, <1>4, <1>5 DEF Fits
<1>7. m.played <= streams[e].sent
 <2>1. m.played <= heard[e] /\ heard[e] \in Nat
   BY <1>4, <1>5, HeardTypes DEF Truthful
 <2>2. heard[e] <= streams[e].sent /\ streams[e].sent \in Nat
   BY <1>3, <1>4, StreamTypes DEF Credits, CreditOK, Reached
 <2> QED BY <1>4, <2>1, <2>2
<1>8. m.type = "cleared" => streams[e].clear_sent
  BY <1>2, <1>3, <1>4 DEF AskedOK, Acks, Asked
<1> QED BY <1>3, <1>4, <1>6, <1>7, <1>8 DEF Acceptable

\* One of a closed account is known, unless it was forgotten.
LEMMA ClosedKnown ==
  ASSUME VoiceInv, Order, AskedOK, ReportsFit, RetTypes, MemoryOK, up # <<>>,
         ~streams[Head(up).epoch].live, Telling(Head(up)), ~Known(Head(up))
  PROVE  Head(up).type = "progress" /\ Forgotten(Head(up))
<1>1. up \in Seq(Told)
  BY DEF VoiceInv, VoiceTypes, DeviceTypes
<1>2. Head(up) = up[1] /\ 1 \in 1..Len(up) /\ Head(up) \in Told
  BY <1>1, TailKeeps
<1>3. PICK m : m = Head(up)
  OBVIOUS
<1>4. PICK e \in Epoch : e = m.epoch /\ m.played \in Nat /\ m.type \in {"progress", "cleared"}
  BY <1>2, <1>3 DEF Told
<1>5. m.type = "progress"
 <2>1. m.type = "cleared" => Acks(e)
   BY <1>2, <1>3, <1>4 DEF Acks
 <2> QED BY <1>3, <1>4, <2>1 DEF AskedOK, Asked, Clearing
<1>6. m.played = settled[e]
  BY <1>2, <1>3, <1>4 DEF ReportsFit, Fits
<1>7. Echo(e)
  BY <1>2, <1>3, <1>4 DEF Echo
<1>8. RetOK(e)
  BY <1>3, <1>4, <1>7, EchoHeard DEF MemoryOK
<1>9. PICK k \in 0..Len(retired) : /\ k = 0 => Len(retired) = MaxRetired
                                   /\ Recalls(retired, k, e, settled[e])
  BY <1>8 DEF RetOK
<1>10. retired \in Seq(Entry) /\ DOMAIN retired = 1..Len(retired) /\ Len(retired) \in Nat
  BY DEF RetTypes
<1>11. k = 0
 <2>1. k # 0 => k \in DOMAIN retired /\ retired[k].epoch = e /\ retired[k].played = settled[e]
   BY <1>9, <1>10 DEF Recalls
 <2> QED BY <1>3, <1>4, <1>5, <1>6, <2>1 DEF Known
<1>12. \A i \in DOMAIN retired : retired[i].epoch > e /\ retired[i].played = 0
 <2>1. \A i \in 1..Len(retired) : i \in (k + 1)..Len(retired)
   BY <1>10, <1>11
 <2> QED BY <1>9, <1>10, <2>1 DEF Recalls
<1> QED BY <1>3, <1>4, <1>5, <1>6, <1>9, <1>11, <1>12 DEF Forgotten

\* The only reports that are refused.
LEMMA RefusedStale ==
  ASSUME VoiceInv, VoiceInv', Order, Credits, AskedOK, ReportsFit, RetTypes, MemoryOK,
         over = "no", [Next]_vars
  PROVE  RefusedOnlyStale'
<1>1. SUFFICES ASSUME over' = "protocol", NEW r, r = refused'
      PROVE  r.type = "progress" /\ (r.played = 0 \/ Forgotten(r)')
  BY DEF RefusedOnlyStale, Forgotten
<1>2. CASE DeviceReader
 <2>1. PICK m : m = Head(up)
   OBVIOUS
 <2>2. /\ up # <<>> /\ refused' = m /\ UNCHANGED <<streams, settled, retired>>
       /\ m.type \in {"progress", "cleared"}
       /\ IF streams[m.epoch].live THEN ~Acceptable(streams[m.epoch], m) ELSE ~Known(m)
   BY <1>1, <1>2, <2>1, ReaderFacts DEF Accepted
 <2>3. CASE ~Telling(m)
   BY <1>1, <2>2, <2>3 DEF Telling
 <2>4. CASE Telling(m)
  <3>1. ~streams[m.epoch].live
    BY <2>1, <2>2, <2>4, LiveAccepted
  <3>2. m.type = "progress" /\ Forgotten(m)
    BY <2>1, <2>2, <2>4, <3>1, ClosedKnown
  <3> QED BY <1>1, <2>2, <3>2 DEF Forgotten
 <2> QED BY <2>3, <2>4
<1>3. CASE SpeechStarted \/ SpeechStopped \/ InputCommitted \/ ResponseDone
  BY <1>1, <1>3 DEF SpeechStarted, SpeechStopped, InputCommitted, ResponseDone, session
<1>4. CASE ResponseStarted \/ ResponseAudio
  BY <1>1, <1>4 DEF ResponseStarted, ResponseAudio, MoreAudio, OpenStream, Fail
<1>5. CASE (\E e \in Epoch : AudioWriter(e)) \/ DeviceWriter
  BY <1>1, <1>5 DEF AudioWriter, DeviceWriter, WriteFrame, WriteControl, Fail, session
<1>6. CASE WebSocket
  BY <1>1, <1>6 DEF WebSocket, WsStart, WsOpen, WsPublish, WsClear, WsCleared, WsEnd, WsFrame, Rejected,
     Fail, session
<1>7. CASE Dma \/ Conversation \/ UNCHANGED vars
  BY <1>1, <1>7 DEF Dma, Conversation, ConvControl, ConvSample, ConvReport, vars, session
<1> QED BY <1>2, <1>3, <1>4, <1>5, <1>6, <1>7 DEF Next, Provider

LEMMA InitSurv == ASSUME Init PROVE SurvInv
<1>1. VoiceInv
  BY InitVoice
<1>2. Running
  BY InitOrder, InitHanded, InitTold, InitAsked, InitTells, InitMemory DEF Running
<1>3. over = "no"
  BY DEF Init
<1> QED BY <1>1, <1>2, <1>3 DEF SurvInv, SessionSurvives, DeviceAccepts, ClearFindsStream, RefusedOnlyStale

LEMMA RunningNext ==
  ASSUME VoiceInv, VoiceInv', Running, over = "no", over' = "no", [Next]_vars
  PROVE  Running'
<1>1. /\ Order /\ Credits /\ FramesOK /\ Handed /\ ToldOrder /\ AskedOK /\ AckedOK /\ StartsLive
      /\ Began /\ Passed /\ BehindOK /\ ReportsFit /\ RetTypes /\ MemoryOK
  BY DEF Running
<1>2. Order' /\ Credits' /\ FramesOK'
  BY <1>1, OrderNext, CreditsNext, FramesNext
<1>3. Handed' /\ ToldOrder' /\ AskedOK'
  BY <1>1, HandedNext, ToldNext, AskedNext
<1>4. AckedOK' /\ StartsLive'
  BY <1>1, AckedNext, StartsNext
<1>5. Began' /\ Passed' /\ BehindOK'
  BY <1>1, BeganNext, PassedNext, BehindNext
<1>6. ReportsFit' /\ RetTypes' /\ MemoryOK'
  BY <1>1, ReportsNext, RetTypesNext, MemoryNext
<1> QED BY <1>2, <1>3, <1>4, <1>5, <1>6 DEF Running

\* Once the session is over, nothing happens any more.
LEMMA OverStays ==
  ASSUME over # "no", [Next]_vars
  PROVE  UNCHANGED vars
BY DEF Next, Provider, SpeechStarted, SpeechStopped, InputCommitted, ResponseStarted, ResponseAudio,
   ResponseDone, AudioWriter, DeviceWriter, DeviceReader, WebSocket, WsStart, WsOpen, WsPublish, WsClear,
   WsCleared, WsEnd, WsFrame, Got, Dma, Conversation, ConvControl, ConvSample, ConvReport

LEMMA SurvNext ==
  ASSUME SurvInv, [Next]_vars
  PROVE  SurvInv'
<1>1. VoiceInv /\ VoiceInv'
  BY NextKeeps DEF SurvInv
<1>2. CASE over = "no"
 <2>1. Running
   BY <1>2 DEF SurvInv
 <2>2. over' = "no" => Running'
   BY <1>1, <1>2, <2>1, RunningNext
 <2>3. over' # "device" /\ over' # "crash"
   BY <1>1, <1>2, <2>1, Delivered DEF Running
 <2>4. RefusedOnlyStale'
   BY <1>1, <1>2, <2>1, RefusedStale DEF Running
 <2> QED BY <1>1, <2>2, <2>3, <2>4 DEF SurvInv, SessionSurvives, DeviceAccepts, ClearFindsStream
<1>3. CASE over # "no"
 <2>1. UNCHANGED vars
   BY <1>3, OverStays
 <2>2. UNCHANGED <<over, refused, streams, settled, retired>>
   BY <2>1 DEF vars, proxy, session
 <2> QED BY <1>1, <1>3, <2>2 DEF SurvInv, SessionSurvives, DeviceAccepts, ClearFindsStream, RefusedOnlyStale,
         Forgotten
<1> QED BY <1>2, <1>3

\* However answers, interruptions, reports and acknowledgments overtake each other, the
\* device takes what the proxy sends, the writer finds the stream of every clear, and the
\* proxy refuses no report but a zero that was overtaken and one it has forgotten.
THEOREM SurvivesSafe == Spec => []SessionSurvives
<1>1. Init => SurvInv
  BY InitSurv
<1>2. SurvInv /\ [Next]_vars => SurvInv'
  BY SurvNext
<1>3. SurvInv => SessionSurvives
  BY DEF SurvInv
<1> QED BY <1>1, <1>2, <1>3, PTL DEF Spec
===============================================================================
