-------------------------- MODULE LocalRecorderProofs --------------------------
(***************************************************************************)
(* Theorems of RollingAudio and of LocalRecorder, which builds on it, for  *)
(* every size of the ring and the queue, every number of frames and        *)
(* encoders, and every combination of faults and late workers.             *)
(*                                                                         *)
(* The first half is about the rolling buffer alone; its lemmas leave room *)
(* for an owner beside the buffer.  The second half adds that owner: the   *)
(* recordings that begin with what the buffer kept, and playback.          *)
(***************************************************************************)
EXTENDS LocalRecorder, Integers, TLAPS, WellFoundedInduction, SequenceTheorems

-------------------------------------------------------------------------------
(***************************************************************************)
(* Counting: indices that wrap once, and induction over a set of naturals. *)
(***************************************************************************)

\* Arithmetic around the ring: an index is at most one turn ahead.
Wrap(x) == IF x < RingBytes THEN x ELSE x - RingBytes

LEMMA ModWrap ==
  ASSUME NEW x \in Nat, x < 2 * RingBytes
  PROVE  x % RingBytes = Wrap(x) /\ Wrap(x) \in 0..(RingBytes - 1)
BY RollingAssumption DEF Wrap

LEMMA LeastNatural ==
  ASSUME NEW T \in SUBSET Nat, T # {}
  PROVE  \E m \in T : \A k \in T : m <= k
<1>1. PICK m \in T : \A k \in T : <<k, m>> \notin OpToRel(<, Nat)
  BY WFMin, NatLessThanWellFounded, Zenon
<1>2. \A k \in T : ~(k < m)
  BY <1>1, Zenon DEF OpToRel
<1> QED BY <1>2

LEMMA NatSetInduction ==
  ASSUME NEW T \in SUBSET Nat, 0 \in T, \A n \in T : n + 1 \in T
  PROVE  T = Nat
<1>1. SUFFICES ASSUME Nat \ T # {} PROVE FALSE
  OBVIOUS
<1>2. PICK m \in Nat \ T : \A k \in Nat \ T : m <= k
  BY <1>1, LeastNatural
<1>3. m - 1 \in T
  BY <1>2
<1> QED BY <1>2, <1>3

\* The bytes of the k oldest packets, as Evicted sums them up.
Sum(k) == CHOOSE gone : gone = [i \in 0..k |-> IF i = 0 THEN 0 ELSE gone[i - 1] + ring.packets[i].bytes]

LEMMA SumIs ==
  ASSUME NEW n \in Nat, NEW k \in 0..n, NEW at \in [1..(n + 1) -> Nat],
         \A i \in 1..n : ring.packets[i].bytes \in Nat /\ at[i + 1] = at[i] + ring.packets[i].bytes
  PROVE  Sum(k)[k] = at[k + 1] - at[1]
<1> DEFINE g == [i \in 0..k |-> at[i + 1] - at[1]]
           b(i) == ring.packets[i].bytes
<1>1. g = [i \in 0..k |-> IF i = 0 THEN 0 ELSE g[i - 1] + b(i)]
  <2>1. ASSUME NEW i \in 1..k PROVE at[i + 1] - at[1] = (at[i] - at[1]) + b(i)
    <3>1. i \in 1..n /\ i \in 1..(n + 1) /\ i + 1 \in 1..(n + 1) /\ 1 \in 1..(n + 1)
      OBVIOUS
    <3>2. b(i) \in Nat /\ at[i + 1] = at[i] + b(i)
      BY <3>1
    <3>3. at[i] \in Nat /\ at[i + 1] \in Nat /\ at[1] \in Nat
      BY <3>1
    <3> HIDE DEF b
    <3> QED BY <3>2, <3>3
  <2>2. ASSUME NEW i \in 1..k PROVE g[i - 1] = at[i] - at[1]
    BY SMTT(30)
  <2> HIDE DEF b
  <2> QED BY <2>1, <2>2
<1>2. Sum(k) = [i \in 0..k |-> IF i = 0 THEN 0 ELSE Sum(k)[i - 1] + b(i)]
  <2> HIDE DEF g
  <2> QED BY <1>1, Zenon DEF Sum
<1> DEFINE T == {m \in Nat : m <= k => Sum(k)[m] = at[m + 1] - at[1]}
<1>3. 0 \in T
  BY <1>2
<1>4. ASSUME NEW m \in T PROVE m + 1 \in T
  <2> SUFFICES ASSUME m + 1 <= k PROVE Sum(k)[m + 1] = at[m + 2] - at[1]
    BY SMTT(30)
  <2>1. Sum(k)[m + 1] = Sum(k)[m] + b(m + 1)
    <3> HIDE DEF b
    <3> QED BY <1>2, SMTT(30)
  <2>2. at[m + 2] = at[m + 1] + b(m + 1) /\ at[m + 1] \in Nat /\ at[m + 2] \in Nat /\ at[1] \in Nat
        /\ b(m + 1) \in Nat
    <3>1. m + 1 \in 1..n /\ m + 2 \in 1..(n + 1)
      OBVIOUS
    <3>2. (m + 1) + 1 = m + 2
      OBVIOUS
    <3> QED BY <3>1, <3>2
  <2>3. Sum(k)[m] = at[m + 1] - at[1]
    OBVIOUS
  <2> HIDE DEF b
  <2> QED BY <2>1, <2>2, <2>3
<1>5. T = Nat
  <2>1. T \in SUBSET Nat
    OBVIOUS
  <2>2. \A m \in T : m + 1 \in T
    BY <1>4
  <2> HIDE DEF T
  <2> QED BY <2>2, <1>3, <1>4, <2>1, NatSetInduction
<1>6. k \in T
  <2> HIDE DEF T
  <2> QED BY <1>5
<1> QED BY <1>6

LEMMA EvictedIs ==
  ASSUME NEW k \in Nat \ {0}
  PROVE  Evicted(k) = LET last == ring.packets[k] IN
           [ring EXCEPT !.head = (last.offset + last.bytes) % RingBytes,
                       !.used = @ - Sum(k)[k],
                       !.packets = SubSeq(@, k + 1, Len(@)),
                       !.origin = FALSE]
BY Zenon DEF Evicted, Sum

\* The ring as the record it is.
Ring == [data : [0..(RingBytes - 1) -> Byte \cup {Unwritten}], packets : Seq(Packet),
         head : 0..(RingBytes - 1), used : 0..RingBytes, pre_skip : {0, Skip}, origin : BOOLEAN]

\* The packets of a ring r lie one after another, from its head on, at the places at,
\* and hold the bytes of the frames up to last.
Run(r, at, last) ==
  LET n == Len(r.packets) IN
  /\ n <= RingFrames /\ n <= last
  /\ at \in [1..(n + 1) -> Nat]
  /\ at[1] = r.head /\ at[n + 1] = r.head + r.used
  /\ \A i \in 1..(n + 1), j \in 1..(n + 1) : i <= j => at[i] <= at[j]
  /\ \A i \in 1..n :
       /\ at[i + 1] = at[i] + r.packets[i].bytes
       /\ r.packets[i].offset = at[i] % RingBytes
       /\ \A j \in 1..r.packets[i].bytes :
            r.data[(r.packets[i].offset + j - 1) % RingBytes] = <<last - n + i, j>>

LEMMA RingTypes ==
  ASSUME NEW r \in Ring
  PROVE  /\ r.data \in [0..(RingBytes - 1) -> Byte \cup {Unwritten}]
         /\ r.packets \in Seq(Packet) /\ Len(r.packets) \in Nat
         /\ r.head \in Nat /\ r.head < RingBytes
         /\ r.used \in Nat /\ r.used <= RingBytes /\ RingBytes \in Nat \ {0}
         /\ r.pre_skip \in {0, Skip} /\ r.origin \in BOOLEAN
BY RollingAssumption DEF Ring

LEMMA PacketTypes ==
  ASSUME NEW r \in Ring, NEW i \in 1..Len(r.packets)
  PROVE  /\ r.packets[i] \in Packet
         /\ r.packets[i].bytes \in Nat \ {0} /\ r.packets[i].bytes <= RingBytes
         /\ r.packets[i].bytes <= MaxBytes
         /\ r.packets[i].offset \in Nat /\ r.packets[i].offset < RingBytes
<1>1. r.packets[i] \in Packet
  <2>1. r.packets \in Seq(Packet)
    BY RingTypes
  <2> QED BY <2>1
<1> QED BY <1>1, RollingAssumption DEF Packet

\* The places of a run are ordered, within one turn of the ring.
LEMMA RunPlaces ==
  ASSUME NEW r \in Ring, NEW last \in Nat, NEW at, Run(r, at, last)
  PROVE  /\ at \in [1..(Len(r.packets) + 1) -> Nat]
         /\ at[1] = r.head /\ at[Len(r.packets) + 1] = r.head + r.used
         /\ \A i \in 1..(Len(r.packets) + 1) :
              /\ at[i] \in Nat /\ at[i] < 2 * RingBytes
              /\ r.head <= at[i] /\ at[i] <= r.head + r.used
         /\ \A i \in 1..Len(r.packets) :
              /\ at[i + 1] = at[i] + r.packets[i].bytes
              /\ r.packets[i].offset = Wrap(at[i])
<1> DEFINE n == Len(r.packets)
<1>1. /\ at \in [1..(n + 1) -> Nat]
      /\ at[1] = r.head /\ at[n + 1] = r.head + r.used
      /\ \A i \in 1..(n + 1), j \in 1..(n + 1) : i <= j => at[i] <= at[j]
      /\ \A i \in 1..n : /\ at[i + 1] = at[i] + r.packets[i].bytes
                          /\ r.packets[i].offset = at[i] % RingBytes
  BY DEF Run
<1>2. n \in Nat /\ r.head \in Nat /\ r.head < RingBytes /\ r.used \in Nat
      /\ r.used <= RingBytes /\ RingBytes \in Nat
  BY RingTypes
<1> HIDE DEF n
<1>3. ASSUME NEW i \in 1..(n + 1)
      PROVE  /\ at[i] \in Nat /\ at[i] < 2 * RingBytes
             /\ r.head <= at[i] /\ at[i] <= r.head + r.used
  <2>1. /\ 1 \in 1..(n + 1) /\ n + 1 \in 1..(n + 1) /\ 1 <= i /\ i <= n + 1
    BY <1>2
  <2>2. at[1] <= at[i] /\ at[i] <= at[n + 1] /\ at[i] \in Nat
    BY <1>1, <2>1
  <2> QED BY <1>1, <1>2, <2>2
<1>4. ASSUME NEW i \in 1..n PROVE r.packets[i].offset = Wrap(at[i])
  <2>1. i \in 1..(n + 1)
    BY <1>2
  <2> QED BY <1>1, <1>3, <2>1, ModWrap
<1> QED BY <1>1, <1>3, <1>4 DEF n

\* What eviction leaves of a ring, the sums of the code resolved.
LEMMA EvictedRing ==
  ASSUME ring \in Ring, NEW last \in Nat, NEW at, Run(ring, at, last),
         NEW k \in 1..Len(ring.packets)
  PROVE  /\ Evicted(k) \in Ring
         /\ Evicted(k).data = ring.data /\ Evicted(k).pre_skip = ring.pre_skip
         /\ Evicted(k).head = Wrap(at[k + 1])
         /\ Evicted(k).used = ring.head + ring.used - at[k + 1]
         /\ Evicted(k).packets = SubSeq(ring.packets, k + 1, Len(ring.packets))
         /\ Evicted(k).origin = FALSE
<1> DEFINE n == Len(ring.packets)
<1>0. /\ n \in Nat /\ k \in Nat \ {0} /\ k <= n /\ ring.head \in Nat /\ ring.head < RingBytes
      /\ ring.used \in Nat /\ ring.used <= RingBytes /\ RingBytes \in Nat \ {0}
  BY RingTypes
<1>1. /\ at \in [1..(n + 1) -> Nat]
      /\ at[1] = ring.head /\ at[n + 1] = ring.head + ring.used
      /\ \A i \in 1..n : at[i + 1] = at[i] + ring.packets[i].bytes
      /\ ring.packets[k].offset = Wrap(at[k])
      /\ at[k + 1] = at[k] + ring.packets[k].bytes
  BY RunPlaces
<1>2. ASSUME NEW i \in 1..(n + 1)
      PROVE  /\ at[i] \in Nat /\ at[i] < 2 * RingBytes
             /\ ring.head <= at[i] /\ at[i] <= ring.head + ring.used
  BY RunPlaces
<1>3. /\ k \in 1..(n + 1) /\ k + 1 \in 1..(n + 1)
      /\ at[k] \in Nat /\ at[k] < 2 * RingBytes
      /\ at[k + 1] \in Nat /\ at[k + 1] < 2 * RingBytes
      /\ ring.head <= at[k + 1] /\ at[k + 1] <= ring.head + ring.used
  <2>1. k \in 1..(n + 1) /\ k + 1 \in 1..(n + 1)
    BY <1>0
  <2> QED BY <1>2, <2>1
<1>4. (ring.packets[k].offset + ring.packets[k].bytes) % RingBytes = Wrap(at[k + 1])
  <2>2. ring.packets[k].bytes \in Nat /\ ring.packets[k].bytes <= RingBytes
    BY PacketTypes
  <2>3. Wrap(at[k]) \in 0..(RingBytes - 1)
    BY <1>3, ModWrap
  <2> DEFINE x == Wrap(at[k]) + ring.packets[k].bytes
  <2>4. x \in Nat /\ x < 2 * RingBytes
    BY <1>0, <2>2, <2>3, SMTT(30)
  <2>5. x % RingBytes = Wrap(x)
    BY <2>4, ModWrap
  <2>6. Wrap(x) = Wrap(at[k + 1])
    BY <1>0, <1>1, <1>3, <2>2, SMTT(30) DEF Wrap
  <2> QED BY <1>1, <2>5, <2>6
<1>5. Sum(k)[k] = at[k + 1] - at[1]
  <2>1. \A i \in 1..n : ring.packets[i].bytes \in Nat /\ at[i + 1] = at[i] + ring.packets[i].bytes
    BY <1>1, PacketTypes
  <2>2. k \in 0..n
    BY <1>0
  <2> QED BY <1>0, <1>1, <2>1, <2>2, SumIs
<1>6. Evicted(k) = [ring EXCEPT !.head = Wrap(at[k + 1]),
                                !.used = ring.used - (at[k + 1] - at[1]),
                                !.packets = SubSeq(ring.packets, k + 1, n),
                                !.origin = FALSE]
  <2>1. Evicted(k) = [ring EXCEPT
                        !.head = (ring.packets[k].offset + ring.packets[k].bytes) % RingBytes,
                        !.used = ring.used - Sum(k)[k],
                        !.packets = SubSeq(ring.packets, k + 1, n),
                        !.origin = FALSE]
    BY <1>0, EvictedIs, Zenon
  <2> HIDE DEF n
  <2> QED BY <1>4, <1>5, <2>1
<1>7. /\ Wrap(at[k + 1]) \in 0..(RingBytes - 1)
      /\ ring.used - (at[k + 1] - at[1]) \in 0..RingBytes
      /\ ring.used - (at[k + 1] - at[1]) = ring.head + ring.used - at[k + 1]
  <2>1. Wrap(at[k + 1]) \in 0..(RingBytes - 1)
    BY <1>3, ModWrap
  <2>2. at[1] = ring.head
    BY <1>1
  <2>3. /\ ring.head \in Nat /\ ring.used \in Nat /\ ring.used <= RingBytes /\ RingBytes \in Nat
        /\ at[k + 1] \in Nat /\ ring.head <= at[k + 1] /\ at[k + 1] <= ring.head + ring.used
    BY <1>0, <1>3
  <2> QED BY <2>1, <2>2, <2>3, SMTT(30)
<1>8. SubSeq(ring.packets, k + 1, n) \in Seq(Packet)
  <2>1. ring.packets \in Seq(Packet)
    BY RingTypes
  <2> QED BY <1>0, <2>1
<1>9. /\ Evicted(k) = [data |-> ring.data, packets |-> SubSeq(ring.packets, k + 1, n),
                       head |-> Wrap(at[k + 1]), used |-> ring.used - (at[k + 1] - at[1]),
                       pre_skip |-> ring.pre_skip, origin |-> FALSE]
  <2> HIDE DEF n
  <2> QED BY <1>6 DEF Ring
<1>10. Evicted(k) \in Ring
  <2> DEFINE p == SubSeq(ring.packets, k + 1, n)
             h == Wrap(at[k + 1])
             u == ring.used - (at[k + 1] - at[1])
  <2>1. p \in Seq(Packet) /\ h \in 0..(RingBytes - 1) /\ u \in 0..RingBytes
    BY <1>7, <1>8
  <2> HIDE DEF p, h, u
  <2>2. Evicted(k) = [data |-> ring.data, packets |-> p, head |-> h, used |-> u,
                      pre_skip |-> ring.pre_skip, origin |-> FALSE]
    BY <1>9 DEF p, h, u
  <2> QED BY <2>1, <2>2, RingTypes DEF Ring
<1> HIDE DEF n
<1>11. Evicted(k).used = ring.head + ring.used - at[k + 1]
  BY <1>7, <1>9
<1> QED BY <1>9, <1>10, <1>11, SMTT(30) DEF n

LEMMA EvictedRun ==
  ASSUME ring \in Ring, NEW last \in Nat, NEW at, Run(ring, at, last),
         NEW k \in 0..Len(ring.packets)
  PROVE  /\ Evicted(k) \in Ring
         /\ Evicted(k).pre_skip = ring.pre_skip
         /\ Evicted(k).used = ring.head + ring.used - at[k + 1]
         /\ Len(Evicted(k).packets) = Len(ring.packets) - k
         /\ Evicted(k).origin = (ring.origin /\ k = 0)
         /\ \E to : Run(Evicted(k), to, last)
<1> DEFINE n == Len(ring.packets)
<1>0. /\ n \in Nat /\ k \in Nat /\ k <= n /\ ring.head \in Nat /\ ring.head < RingBytes
      /\ ring.used \in Nat /\ ring.used <= RingBytes /\ RingBytes \in Nat \ {0}
      /\ RingFrames \in Nat /\ ring.origin \in BOOLEAN
  BY RingTypes, RollingAssumption
<1>1. CASE k = 0
  <2>1. Evicted(k) = ring
    BY <1>1, Zenon DEF Evicted
  <2>2. at[1] = ring.head
    BY RunPlaces
  <2> QED BY <1>0, <1>1, <2>1, <2>2
<1>2. CASE k # 0
  <2> DEFINE e == Evicted(k)
  <2>1. /\ e \in Ring /\ e.data = ring.data /\ e.pre_skip = ring.pre_skip
        /\ e.head = Wrap(at[k + 1])
        /\ e.used = ring.head + ring.used - at[k + 1]
        /\ e.packets = SubSeq(ring.packets, k + 1, n) /\ e.origin = FALSE
    <3>1. k \in 1..n
      BY <1>0, <1>2
    <3> QED BY <3>1, EvictedRing
  <2>2. /\ Len(e.packets) = n - k
        /\ \A i \in 1..(n - k) : e.packets[i] = ring.packets[k + i]
    <3>1. ring.packets \in Seq(Packet) /\ n = Len(ring.packets)
      BY RingTypes
    <3>2. n \in Nat /\ k \in Nat /\ k <= n
      BY <1>0
    <3> HIDE DEF n
    <3>3. Len(SubSeq(ring.packets, k + 1, n)) = n - k
      BY <3>1, <3>2
    <3>4. \A i \in 1..(n - k) : SubSeq(ring.packets, k + 1, n)[i] = ring.packets[k + i]
      BY <3>1, <3>2
    <3> HIDE DEF e
    <3> QED BY <2>1, <3>3, <3>4
  <2> HIDE DEF e
  <2> DEFINE shift == at[k + 1] - Wrap(at[k + 1])
             to == [i \in 1..(n - k + 1) |-> at[k + i] - shift]
  <2>3. /\ at \in [1..(n + 1) -> Nat] /\ at[n + 1] = ring.head + ring.used
        /\ n <= RingFrames /\ n <= last
        /\ \A i \in 1..(n + 1), j \in 1..(n + 1) : i <= j => at[i] <= at[j]
    BY DEF Run
  <2>4. \A i \in 1..(n + 1) : at[i] \in Nat /\ at[i] < 2 * RingBytes
    BY RunPlaces
  <2>5. /\ shift \in {0, RingBytes} /\ at[k + 1] >= shift /\ at[k + 1] \in Nat
        /\ at[k + 1] - shift = Wrap(at[k + 1])
    BY <1>0, <2>4, RollingAssumption DEF Wrap
  <2> HIDE DEF shift
  <2>6. \A i \in 1..(n - k + 1) : /\ at[k + i] \in Nat /\ at[k + i] >= at[k + 1]
                                   /\ to[i] = at[k + i] - shift
                                   /\ to[i] \in Nat
    <3>1. ASSUME NEW i \in 1..(n - k + 1) PROVE /\ k + i \in 1..(n + 1) /\ k + 1 \in 1..(n + 1)
                                                /\ k + 1 <= k + i
      BY <1>0
    <3>2. ASSUME NEW i \in 1..(n - k + 1) PROVE at[k + i] \in Nat /\ at[k + i] >= at[k + 1]
      BY <2>3, <2>4, <3>1
    <3>3. ASSUME NEW i \in 1..(n - k + 1) PROVE to[i] = at[k + i] - shift
      OBVIOUS
    <3> HIDE DEF to
    <3>4. ASSUME NEW i \in 1..(n - k + 1) PROVE to[i] \in Nat
      <4>1. at[k + i] \in Nat /\ at[k + i] >= at[k + 1] /\ to[i] = at[k + i] - shift
        BY <3>2, <3>3
      <4>2. shift \in Nat /\ at[k + 1] >= shift /\ at[k + 1] \in Nat
        BY <1>0, <2>5
      <4> QED BY <4>1, <4>2
    <3> QED BY <3>2, <3>3, <3>4
  <2>7. to \in [1..(n - k + 1) -> Nat]
    BY <2>6
  <2>8. to[1] = e.head /\ to[n - k + 1] = e.head + e.used
    <3>1. to[1] = at[k + 1] - shift
      BY <1>0, <2>6
    <3>2. to[n - k + 1] = at[n + 1] - shift
      BY <1>0, <2>6
    <3> HIDE DEF to
    <3> QED BY <1>0, <2>1, <2>3, <2>5, <3>1, <3>2, SMTT(30)
  <2>9. \A i \in 1..(n - k + 1), j \in 1..(n - k + 1) : i <= j => to[i] <= to[j]
    <3>1. ASSUME NEW i \in 1..(n - k + 1), NEW j \in 1..(n - k + 1), i <= j
          PROVE  at[k + i] <= at[k + j]
      BY <1>0, <2>3, <3>1
    <3>2. shift \in Nat
      BY <1>0, <2>5
    <3> HIDE DEF to
    <3>3. ASSUME NEW i \in 1..(n - k + 1), NEW j \in 1..(n - k + 1), i <= j
          PROVE  to[i] <= to[j]
      <4>1. to[i] = at[k + i] - shift /\ to[j] = at[k + j] - shift
            /\ at[k + i] \in Nat /\ at[k + j] \in Nat
        BY <2>6
      <4>2. at[k + i] <= at[k + j]
        BY <3>1, <3>3
      <4> QED BY <3>2, <4>1, <4>2
    <3> QED BY <3>3
  <2>10. ASSUME NEW i \in 1..(n - k)
         PROVE  /\ to[i + 1] = to[i] + e.packets[i].bytes
                /\ e.packets[i].offset = to[i] % RingBytes
                /\ \A j \in 1..e.packets[i].bytes :
                     e.data[(e.packets[i].offset + j - 1) % RingBytes] = <<last - (n - k) + i, j>>
    <3>1. /\ k + i \in 1..n /\ i \in 1..(n - k + 1) /\ i + 1 \in 1..(n - k + 1)
          /\ k + (i + 1) = (k + i) + 1 /\ last - n + (k + i) = last - (n - k) + i
      BY <1>0
    <3>2. /\ at[(k + i) + 1] = at[k + i] + ring.packets[k + i].bytes
          /\ ring.packets[k + i].offset = at[k + i] % RingBytes
          /\ \A j \in 1..ring.packets[k + i].bytes :
               ring.data[(ring.packets[k + i].offset + j - 1) % RingBytes] = <<last - n + (k + i), j>>
      BY <3>1 DEF Run
    <3>3. e.packets[i] = ring.packets[k + i] /\ ring.packets[k + i].bytes \in Nat
      BY <2>2, <3>1, PacketTypes
    <3>4. to[i + 1] = at[(k + i) + 1] - shift /\ to[i] = at[k + i] - shift
      BY <2>6, <3>1
    <3>5. to[i + 1] = to[i] + e.packets[i].bytes
      <4>1. at[k + i] \in Nat
        BY <2>6, <3>1
      <4>2. shift \in Nat /\ ring.packets[k + i].bytes \in Nat
        BY <1>0, <2>5, <3>3
      <4>3. at[(k + i) + 1] = at[k + i] + ring.packets[k + i].bytes
        BY <3>2
      <4>4. to[i + 1] = at[(k + i) + 1] - shift /\ to[i] = at[k + i] - shift
            /\ e.packets[i].bytes = ring.packets[k + i].bytes
        BY <3>3, <3>4
      <4> HIDE DEF to
      <4> QED BY <4>1, <4>2, <4>3, <4>4, SMTT(30)
    <3>6. to[i] % RingBytes = at[k + i] % RingBytes
      <4>1. k + i \in 1..(n + 1)
        BY <1>0, <3>1
      <4>2. at[k + i] \in Nat /\ at[k + i] < 2 * RingBytes /\ to[i] \in Nat
        BY <2>4, <2>6, <3>1, <4>1
      <4>3. to[i] < 2 * RingBytes /\ (shift = 0 \/ at[k + i] >= RingBytes)
        BY <2>5, <2>6, <3>1, <3>4, <4>2, RollingAssumption, SMTT(30)
      <4>4. Wrap(to[i]) = Wrap(at[k + i])
        BY <2>5, <3>4, <4>2, <4>3, RollingAssumption DEF Wrap
      <4> QED BY <4>2, <4>3, <4>4, ModWrap
    <3> HIDE DEF to
    <3> QED BY <2>1, <3>1, <3>2, <3>3, <3>5, <3>6
  <2>11. Run(e, to, last)
    <3>1. Len(e.packets) + 1 = n - k + 1 /\ n - k <= RingFrames /\ n - k <= last
      BY <1>0, <2>2, <2>3, RollingAssumption
    <3> HIDE DEF to
    <3> QED BY <2>2, <2>7, <2>8, <2>9, <2>10, <3>1, ZenonT(60) DEF Run
  <2> QED BY <1>2, <2>1, <2>2, <2>11 DEF e
<1> QED BY <1>1, <1>2

\* The ring that has evicted what a packet needs takes it without touching the rest.
Written(r, n, bytes) ==
  LET offset == (r.head + r.used) % RingBytes
      place(i) == 1 + ((i + RingBytes - offset) % RingBytes)
  IN [r EXCEPT !.data = [i \in 0..(RingBytes - 1) |->
                           IF place(i) <= bytes THEN <<n, place(i)>> ELSE @[i]],
               !.packets = Append(@, [offset |-> offset, bytes |-> bytes]),
               !.used = @ + bytes]

\* Eviction stops: an empty ring has room for any packet.
LEMMA AppendedIs ==
  ASSUME ring \in Ring, NEW last \in Nat, NEW at, Run(ring, at, last),
         NEW n, NEW bytes \in 1..MaxBytes
  PROVE  \E k \in 0..Len(ring.packets) :
           Fits(Evicted(k), bytes) /\ Appended(n, bytes) = Written(Evicted(k), n, bytes)
<1> DEFINE m == Len(ring.packets)
           T == {k \in 0..m : Fits(Evicted(k), bytes)}
           least(k) == Fits(Evicted(k), bytes) /\ \A j \in 0..(k - 1) : ~Fits(Evicted(j), bytes)
<1>1. m \in Nat
  BY RingTypes
<1>2. m \in T
  <2>1. Len(Evicted(m).packets) = 0 /\ Evicted(m).used = 0
    <3>1. m \in 0..m
      BY <1>1
    <3>2. /\ Evicted(m).used = ring.head + ring.used - at[m + 1]
          /\ Len(Evicted(m).packets) = m - m
      BY <3>1, EvictedRun
    <3>3. at[m + 1] = ring.head + ring.used /\ ring.head \in Nat /\ ring.used \in Nat
      BY RunPlaces, RingTypes
    <3> HIDE DEF m
    <3> QED BY <1>1, <3>2, <3>3
  <2>2. bytes \in Nat /\ bytes <= RingBytes /\ RingBytes \in Nat /\ 0 < RingFrames
    BY RollingAssumption
  <2>3. Fits(Evicted(m), bytes)
    BY <2>1, <2>2 DEF Fits
  <2> QED BY <1>1, <2>3
<1>3. PICK k \in T : \A j \in T : k <= j
  <2>1. T \in SUBSET Nat
    BY <1>1
  <2> HIDE DEF T
  <2> QED BY <1>2, <2>1, LeastNatural
<1>4. least(k)
  <2>1. ASSUME NEW j \in 0..(k - 1), Fits(Evicted(j), bytes) PROVE FALSE
    <3>1. j \in 0..m /\ j < k
      BY <1>1
    <3>2. j \in T
      BY <2>1, <3>1
    <3>3. k <= j
      BY <1>3, <3>2
    <3> QED BY <1>1, <3>1, <3>3
  <2> QED BY <2>1
<1>5. \A j \in 0..m : least(j) => j = k
  <2>1. ASSUME NEW j \in 0..m, least(j), j # k PROVE FALSE
    <3>1. j < k \/ k < j
      BY <1>1, <2>1
    <3>2. j < k => j \in 0..(k - 1)
      BY <1>1
    <3>3. k < j => k \in 0..(j - 1)
      BY <1>1
    <3> QED BY <1>4, <2>1, <3>1, <3>2, <3>3
  <2> QED BY <2>1
<1>6. (CHOOSE j \in 0..m : least(j)) = k
  <2>1. k \in 0..m
    OBVIOUS
  <2> HIDE DEF least
  <2> QED BY <1>4, <1>5, <2>1
<1>7. Appended(n, bytes) = Written(Evicted(k), n, bytes)
  <2> DEFINE c == CHOOSE j \in 0..m : least(j)
  <2>1. Appended(n, bytes) = Written(Evicted(c), n, bytes)
    BY Zenon DEF Appended, Written
  <2>2. c = k
    BY <1>6
  <2> HIDE DEF c
  <2> QED BY <2>1, <2>2
<1> QED BY <1>4, <1>7

LEMMA WrittenRun ==
  ASSUME NEW r \in Ring, NEW last \in Nat, NEW at, Run(r, at, last),
         NEW bytes \in 1..MaxBytes, Fits(r, bytes), last + 1 \in Frame
  PROVE  LET w == Written(r, last + 1, bytes) IN
         /\ w \in Ring
         /\ Len(w.packets) = Len(r.packets) + 1
         /\ w.pre_skip = r.pre_skip /\ w.origin = r.origin
         /\ \E to : Run(w, to, last + 1)
<1> DEFINE n == Len(r.packets)
           offset == (r.head + r.used) % RingBytes
           place(i) == 1 + ((i + RingBytes - offset) % RingBytes)
           w == Written(r, last + 1, bytes)
           data == [i \in 0..(RingBytes - 1) |->
                      IF place(i) <= bytes THEN <<last + 1, place(i)>> ELSE r.data[i]]
           to == [i \in 1..(n + 2) |-> IF i = n + 2 THEN r.head + r.used + bytes ELSE at[i]]
<1>1. /\ n \in Nat /\ r.head \in Nat /\ r.head < RingBytes /\ r.used \in Nat
      /\ bytes \in Nat \ {0} /\ bytes <= RingBytes - r.used /\ RingBytes \in Nat \ {0}
      /\ n < RingFrames /\ RingFrames \in Nat /\ r.used <= RingBytes /\ bytes <= MaxBytes
  BY RingTypes, RollingAssumption DEF Fits
<1> HIDE DEF n
<1>2. offset = Wrap(r.head + r.used) /\ offset \in 0..(RingBytes - 1)
  <2>1. r.head + r.used \in Nat /\ r.head + r.used < 2 * RingBytes
    BY <1>1
  <2> QED BY <2>1, ModWrap
<1>3. ASSUME NEW i \in 0..(RingBytes - 1)
      PROVE  /\ place(i) \in 1..RingBytes
             /\ place(i) = IF i < offset THEN 1 + i + RingBytes - offset ELSE 1 + i - offset
  <2> HIDE DEF offset
  <2> DEFINE x == i + RingBytes - offset
  <2>1. x \in Nat /\ x < 2 * RingBytes
    BY <1>1, <1>2
  <2>2. x % RingBytes = Wrap(x)
    BY <2>1, ModWrap
  <2>3. Wrap(x) = IF i < offset THEN i + RingBytes - offset ELSE i - offset
    BY <1>1, <1>2 DEF Wrap
  <2> HIDE DEF x
  <2>4. place(i) = 1 + Wrap(x)
    BY <2>2 DEF x
  <2> QED BY <1>1, <1>2, <2>3, <2>4
<1>4. w = [data |-> data, packets |-> Append(r.packets, [offset |-> offset, bytes |-> bytes]),
           head |-> r.head, used |-> r.used + bytes, pre_skip |-> r.pre_skip,
           origin |-> r.origin]
  <2> DEFINE p == [offset |-> offset, bytes |-> bytes]
  <2>1. w = [r EXCEPT !.data = data, !.packets = Append(r.packets, p), !.used = r.used + bytes]
    BY Zenon DEF Written
  <2> HIDE DEF data, p, w
  <2>2. w = [data |-> data, packets |-> Append(r.packets, p),
           head |-> r.head, used |-> r.used + bytes, pre_skip |-> r.pre_skip,
           origin |-> r.origin]
    BY <2>1 DEF Ring
  <2> QED BY <2>2 DEF p
<1> HIDE DEF w
<1>5. \A i \in 0..(RingBytes - 1) :
        data[i] = IF place(i) <= bytes THEN <<last + 1, place(i)>> ELSE r.data[i]
  BY DEF data
<1>6. data \in [0..(RingBytes - 1) -> Byte \cup {Unwritten}]
  <2>1. ASSUME NEW i \in 0..(RingBytes - 1)
        PROVE  (IF place(i) <= bytes THEN <<last + 1, place(i)>> ELSE r.data[i]) \in Byte \cup {Unwritten}
    <3>1. place(i) \in 1..RingBytes
      BY <1>3
    <3>2. r.data[i] \in Byte \cup {Unwritten}
      BY RingTypes
    <3> HIDE DEF place
    <3>3. CASE place(i) <= bytes
      <4>1. place(i) \in 1..MaxBytes
        BY <1>1, <3>1, <3>3, RollingAssumption
      <4> QED BY <3>3, <4>1 DEF Byte
    <3> QED BY <3>2, <3>3
  <2> HIDE DEF place
  <2> QED BY <2>1
<1> HIDE DEF data
<1> HIDE DEF place
<1> HIDE DEF offset
<1>7. w \in Ring
  <2> DEFINE p == [offset |-> offset, bytes |-> bytes]
  <2>1. p \in Packet
    BY <1>1, <1>2 DEF Packet
  <2>2. Append(r.packets, p) \in Seq(Packet)
    <3>1. r.packets \in Seq(Packet)
      BY RingTypes
    <3> HIDE DEF p
    <3> QED BY <2>1, <3>1
  <2>3. r.used + bytes \in 0..RingBytes
    BY <1>1
  <2>4. r.head \in 0..(RingBytes - 1)
    BY <1>1
  <2> DEFINE q == Append(r.packets, p)
             u == r.used + bytes
  <2>5. w = [data |-> data, packets |-> q, head |-> r.head, used |-> u,
             pre_skip |-> r.pre_skip, origin |-> r.origin]
    BY <1>4
  <2> HIDE DEF q, u
  <2>6. q \in Seq(Packet) /\ u \in 0..RingBytes
    BY <2>2, <2>3 DEF q, u
  <2> QED BY <1>6, <2>4, <2>5, <2>6, RingTypes DEF Ring
<1>8. /\ Len(w.packets) = n + 1
      /\ \A i \in 1..n : w.packets[i] = r.packets[i]
      /\ w.packets[n + 1] = [offset |-> offset, bytes |-> bytes]
      /\ w.head = r.head /\ w.used = r.used + bytes /\ w.data = data
      /\ w.pre_skip = r.pre_skip /\ w.origin = r.origin
  <2>1. r.packets \in Seq(Packet)
    BY RingTypes
  <2> QED BY <1>1, <1>4, <2>1 DEF n
<1>9. /\ at \in [1..(n + 1) -> Nat]
      /\ at[1] = r.head /\ at[n + 1] = r.head + r.used
      /\ \A i \in 1..(n + 1) : /\ at[i] \in Nat /\ at[i] < 2 * RingBytes
                                /\ r.head <= at[i] /\ at[i] <= r.head + r.used
      /\ \A i \in 1..n : /\ at[i + 1] = at[i] + r.packets[i].bytes
                          /\ r.packets[i].offset = Wrap(at[i])
  BY RunPlaces DEF n
<1>10. \A i \in 1..(n + 1) : to[i] = at[i]
  BY <1>1
<1>11. to[n + 2] = r.head + r.used + bytes /\ r.head + r.used + bytes \in Nat
  BY <1>1
<1>12. to \in [1..(n + 2) -> Nat]
  <2>1. ASSUME NEW i \in 1..(n + 2)
        PROVE  (IF i = n + 2 THEN r.head + r.used + bytes ELSE at[i]) \in Nat
    <3>1. i # n + 2 => i \in 1..(n + 1)
      BY <1>1
    <3>2. i # n + 2 => at[i] \in Nat
      BY <1>9, <3>1
    <3> QED BY <1>11, <3>2
  <2> QED BY <2>1
<1> HIDE DEF to
<1>13. ASSUME NEW i \in 1..(n + 2), NEW j \in 1..(n + 2), i <= j PROVE to[i] <= to[j]
  <2>1. CASE j = n + 2
    <3>1. CASE i = n + 2
      BY <1>11, <2>1, <3>1
    <3>2. CASE i \in 1..(n + 1)
      <4>1. to[i] = at[i] /\ at[i] \in Nat /\ at[i] <= r.head + r.used
        BY <1>9, <1>10, <3>2
      <4> QED BY <1>1, <1>11, <2>1, <4>1
    <3> QED BY <1>1, <3>1, <3>2
  <2>2. CASE j \in 1..(n + 1)
    <3>1. i \in 1..(n + 1)
      BY <1>1, <1>13, <2>2
    <3>2. at[i] <= at[j]
      BY <1>13, <2>2, <3>1 DEF Run, n
    <3> QED BY <1>10, <2>2, <3>1, <3>2
  <2> QED BY <1>1, <2>1, <2>2
\* An old byte: its place counted from the new packet is beyond it.
<1>14. ASSUME NEW i \in 1..n, NEW j \in 1..r.packets[i].bytes
       PROVE  data[(r.packets[i].offset + j - 1) % RingBytes] = <<last - n + i, j>>
  <2>1. /\ at[i] \in Nat /\ at[i] < 2 * RingBytes /\ r.head <= at[i]
        /\ at[i + 1] <= r.head + r.used /\ at[i + 1] = at[i] + r.packets[i].bytes
        /\ r.packets[i].offset = Wrap(at[i])
    <3>1. i \in 1..(n + 1) /\ i + 1 \in 1..(n + 1)
      BY <1>1
    <3> QED BY <1>9, <3>1
  <2>2. r.packets[i].bytes \in Nat /\ r.packets[i].bytes <= RingBytes /\ j \in Nat
        /\ 1 <= j /\ j <= r.packets[i].bytes
    BY PacketTypes DEF n
  <2> DEFINE y == at[i] + j - 1
             x == (r.packets[i].offset + j - 1) % RingBytes
             z == Wrap(at[i]) + j - 1
  <2>3. y \in Nat /\ r.head <= y /\ y < r.head + r.used
    BY <1>1, <2>1, <2>2
  <2>4. z \in Nat /\ z < 2 * RingBytes
    <3>1. Wrap(at[i]) \in 0..(RingBytes - 1)
      BY <2>1, ModWrap
    <3> QED BY <1>1, <2>2, <3>1
  <2>5. x = Wrap(z) /\ x \in 0..(RingBytes - 1)
    <3>1. x = z % RingBytes
      BY <2>1
    <3> HIDE DEF x, z
    <3> QED BY <2>4, <3>1, ModWrap
  <2>6. Wrap(z) = Wrap(y)
    BY <1>1, <2>1, <2>2, <2>3 DEF Wrap
  <2> HIDE DEF x, y, z
  <2>7. x = Wrap(y) /\ y < 2 * RingBytes
    BY <1>1, <2>3, <2>5, <2>6
  <2>8. ~(place(x) <= bytes)
    BY <1>1, <1>2, <1>3, <2>3, <2>5, <2>7 DEF Wrap
  <2>9. data[x] = r.data[x]
    BY <1>5, <2>5, <2>8
  <2>10. r.data[x] = <<last - n + i, j>>
    BY DEF Run, x, n
  <2> QED BY <2>9, <2>10 DEF x
\* A new byte: what the packet put there.
<1>15. ASSUME NEW j \in 1..bytes
       PROVE  data[(offset + j - 1) % RingBytes] = <<last + 1, j>>
  <2> DEFINE z == offset + j - 1
             x == z % RingBytes
  <2>1. z \in Nat /\ z < 2 * RingBytes /\ j \in Nat /\ 1 <= j /\ j <= bytes
    BY <1>1, <1>2
  <2>2. x = Wrap(z) /\ x \in 0..(RingBytes - 1)
    BY <2>1, ModWrap
  <2> HIDE DEF x
  <2>3. place(x) = j
    <3>1. x = IF z < RingBytes THEN z ELSE z - RingBytes
      BY <2>2 DEF Wrap
    <3>2. /\ offset \in Nat /\ offset < RingBytes /\ RingBytes \in Nat /\ j \in Nat
          /\ 1 <= j /\ j <= RingBytes
      BY <1>1, <1>2, <2>1
    <3>3. place(x) = IF x < offset THEN 1 + x + RingBytes - offset ELSE 1 + x - offset
      BY <1>3, <2>2
    <3> QED BY <3>1, <3>2, <3>3
  <2>4. data[x] = <<last + 1, j>>
    BY <1>5, <2>1, <2>2, <2>3
  <2> QED BY <2>4 DEF x
<1>16. ASSUME NEW i \in 1..(n + 1)
       PROVE  /\ to[i + 1] = to[i] + w.packets[i].bytes
              /\ w.packets[i].offset = to[i] % RingBytes
              /\ \A j \in 1..w.packets[i].bytes :
                   w.data[(w.packets[i].offset + j - 1) % RingBytes]
                     = <<(last + 1) - (n + 1) + i, j>>
  <2>1. CASE i = n + 1
    <3>1. to[i] = r.head + r.used /\ to[i + 1] = r.head + r.used + bytes
      <4>1. n + 1 \in 1..(n + 1) /\ i + 1 = n + 2
        BY <1>1, <2>1
      <4> QED BY <1>9, <1>10, <1>11, <2>1, <4>1
    <3>2. w.packets[i].offset = offset /\ w.packets[i].bytes = bytes
      BY <1>8, <2>1
    <3>3. (last + 1) - (n + 1) + i = last + 1
      BY <1>1, <2>1
    <3>4. offset = to[i] % RingBytes
      BY <3>1 DEF offset
    <3> QED BY <1>8, <1>15, <3>1, <3>2, <3>3, <3>4
  <2>2. CASE i \in 1..n
    <3>1. /\ i \in 1..(n + 1) /\ i + 1 \in 1..(n + 1)
          /\ (last + 1) - (n + 1) + i = last - n + i
      BY <1>1, <2>2
    <3>2. to[i] = at[i] /\ to[i + 1] = at[i + 1] /\ w.packets[i] = r.packets[i]
      BY <1>8, <1>10, <2>2, <3>1
    <3>3. r.packets[i].offset = at[i] % RingBytes
      BY <2>2 DEF Run, n
    <3> QED BY <1>8, <1>9, <1>14, <2>2, <3>1, <3>2, <3>3
  <2>3. i = n + 1 \/ i \in 1..n
    BY <1>1
  <2> QED BY <2>1, <2>2, <2>3, Zenon
<1>17. Run(w, to, last + 1)
  <2>1. /\ Len(w.packets) = n + 1 /\ n + 1 <= RingFrames /\ n + 1 <= last + 1
        /\ (n + 1) + 1 = n + 2
    <3>1. n <= last
      BY DEF Run, n
    <3> QED BY <1>1, <1>8, <3>1, SMTT(30)
  <2>2. to[1] = w.head /\ to[n + 2] = w.head + w.used
    <3>1. 1 \in 1..(n + 1)
      BY <1>1
    <3>2. to[1] = at[1] /\ at[1] = r.head /\ w.head = r.head /\ w.used = r.used + bytes
      BY <1>8, <1>9, <1>10, <3>1
    <3>3. r.head + r.used + bytes = r.head + (r.used + bytes)
      BY <1>1
    <3> QED BY <1>11, <3>2, <3>3
  <2> DEFINE m == Len(w.packets)
  <2>3. m = n + 1 /\ m + 1 = n + 2
    BY <2>1
  <2> HIDE DEF m
  <2>4. m <= RingFrames /\ m <= last + 1 /\ to \in [1..(m + 1) -> Nat]
    BY <1>12, <2>1, <2>3
  <2>5. to[1] = w.head /\ to[m + 1] = w.head + w.used
    BY <2>2, <2>3
  <2>6. \A i \in 1..(m + 1), j \in 1..(m + 1) : i <= j => to[i] <= to[j]
    BY <1>13, <2>3
  <2>7. \A i \in 1..m :
          /\ to[i + 1] = to[i] + w.packets[i].bytes
          /\ w.packets[i].offset = to[i] % RingBytes
          /\ \A j \in 1..w.packets[i].bytes :
               w.data[(w.packets[i].offset + j - 1) % RingBytes] = <<(last + 1) - m + i, j>>
    BY <1>16, <2>3
  <2> QED BY <2>4, <2>5, <2>6, <2>7, Zenon DEF Run, m
<1> QED BY <1>7, <1>8, <1>17 DEF w, n

LEMMA AppendedRun ==
  ASSUME ring \in Ring, NEW last \in Nat, NEW at, Run(ring, at, last),
         NEW bytes \in 1..MaxBytes, last + 1 \in Frame
  PROVE  LET r == Appended(last + 1, bytes) IN
         /\ r \in Ring /\ r.pre_skip = ring.pre_skip
         /\ \E to : Run(r, to, last + 1)
         /\ \E k \in 0..Len(ring.packets) :
              /\ Len(r.packets) = Len(ring.packets) - k + 1
              /\ r.origin = (ring.origin /\ k = 0)
<1>1. PICK k \in 0..Len(ring.packets) :
        /\ Fits(Evicted(k), bytes)
        /\ Appended(last + 1, bytes) = Written(Evicted(k), last + 1, bytes)
  BY AppendedIs
<1>2. /\ Evicted(k) \in Ring /\ Evicted(k).pre_skip = ring.pre_skip
      /\ Len(Evicted(k).packets) = Len(ring.packets) - k
      /\ Evicted(k).origin = (ring.origin /\ k = 0)
  BY EvictedRun
<1>3. PICK to : Run(Evicted(k), to, last)
  BY EvictedRun
<1> DEFINE e == Evicted(k)
<1> HIDE DEF e
<1>4. e \in Ring /\ Fits(e, bytes) /\ Run(e, to, last)
  BY <1>1, <1>2, <1>3 DEF e
<1> DEFINE w == Written(e, last + 1, bytes)
<1>5. /\ w \in Ring /\ Len(w.packets) = Len(e.packets) + 1
      /\ w.pre_skip = e.pre_skip /\ w.origin = e.origin
      /\ \E tu : Run(w, tu, last + 1)
  BY <1>4, WrittenRun
<1> HIDE DEF w
<1>6. w = Appended(last + 1, bytes)
  BY <1>1 DEF e, w
<1> QED BY <1>2, <1>5, <1>6 DEF e

-------------------------------------------------------------------------------
(***************************************************************************)
(* The course of the buffer: what the ring holds, and how far the worker   *)
(* and the main task are with handing it over.                             *)
(***************************************************************************)

Types == TypeOK /\ ring \in Ring

Kept == Len(ring.packets)

\* The ring holds the last frames of the microphone, packet after packet.
Laid == \E at : Run(ring, at, mic)

\* Where the worker and the main task are: an encoder is on its way in the slot only
\* while the main task waits for it, and from a worker that met no error.
Turn ==
  /\ handoff_requested => main \in {"requesting", "taking"}
  /\ slot # 0 \/ worker.pc = "give" => main \in {"requesting", "taking", "draining"}
  /\ slot # 0 => worker.pc \in {"clear", "leave", "none"} /\ ~worker.err /\ slot = made
  /\ worker.pc \in {"give", "none"} => ~worker.err
  /\ worker.encoder \in {0, made}
  /\ worker.pc \in {"none", "create", "clear", "leave"} => worker.encoder = 0
  /\ \/ worker.pc \in {"start", "loop", "stop", "give"}
     \/ worker.pc = "decide" /\ ~worker.err
     => worker.encoder = made /\ made > 0
  /\ ~active => worker.pc = "none"
  /\ main = "holding" => ~active /\ Kept = 0

\* What the encoders have encoded against what the ring holds: its packets are the
\* newest encoder's, from that encoder's first frame on as long as none is evicted.
Encoded ==
  /\ \A e \in Encoder : (e > made => first[e] = 0) /\ first[e] <= mic
  /\ worker.pc \in {"create", "start"} => Kept = 0 /\ ring.origin
  /\ worker.pc = "loop" => ring.pre_skip = Skip
  /\ Kept = 0 /\ worker.encoder # 0 => ring.origin /\ first[made] = 0
  /\ Kept = 0 /\ slot # 0 => first[made] = 0
  /\ Kept > 0 =>
       /\ ring.pre_skip = Skip
       /\ made > 0 /\ first[made] > 0 /\ first[made] + Kept <= mic + 1
       /\ ring.origin <=> first[made] + Kept = mic + 1
       /\ \A e \in 1..(made - 1) : first[e] < first[made]

\* Nothing in the ring is older than the last stop, unless the worker was late.
Recent ==
  /\ paused <= mic
  /\ ~Stalls => paused + Kept <= mic

Course == Types /\ Laid /\ Turn /\ Encoded /\ Recent

\* What steps that move neither frames nor encoders cannot touch.
contents == <<ring, mic, made, first, paused>>

LEMMA ClearedRing ==
  /\ Cleared \in Ring /\ Len(Cleared.packets) = 0 /\ Cleared.origin
  /\ \A last \in Nat : \E at : Run(Cleared, at, last)
<1>1. Cleared \in Ring
  <2>1. <<>> \in Seq(Packet)
    OBVIOUS
  <2>2. 0 \in 0..(RingBytes - 1) /\ 0 \in 0..RingBytes
    BY RollingAssumption
  <2> QED BY <2>1, <2>2 DEF Cleared, Ring
<1>2. Len(Cleared.packets) = 0 /\ Cleared.head = 0 /\ Cleared.used = 0 /\ Cleared.origin
  BY DEF Cleared
<1>3. ASSUME NEW last \in Nat PROVE Run(Cleared, [i \in 1..1 |-> 0], last)
  BY <1>2, RollingAssumption DEF Run
<1> QED BY <1>1, <1>2, <1>3

\* The types the arguments below need, spelled out.
LEMMA CourseTypes ==
  ASSUME Types
  PROVE  /\ mic \in Nat /\ mic <= MaxMic /\ made \in Nat /\ made <= MaxEncoders
         /\ paused \in Nat /\ slot \in Nat /\ slot <= MaxEncoders /\ Kept \in Nat
         /\ first \in [Encoder -> 0..MaxMic] /\ freed \in [Encoder -> Nat]
         /\ worker.encoder \in Nat /\ worker.encoder <= MaxEncoders
         /\ snapshot.encoder \in Nat /\ snapshot.encoder <= MaxEncoders
         /\ ring.origin \in BOOLEAN /\ ring.pre_skip \in {0, Skip}
         /\ MaxMic \in Nat /\ MaxEncoders \in Nat /\ Skip \in Nat \ {0}
<1>1. Kept \in Nat /\ ring.origin \in BOOLEAN /\ ring.pre_skip \in {0, Skip}
  BY RingTypes DEF Types, Kept
<1> QED BY <1>1, RollingAssumption DEF Types, TypeOK

LEMMA CourseInit == Init => Course
<1> SUFFICES ASSUME Init PROVE Course
  OBVIOUS
<1>1. ring \in Ring /\ Kept = 0 /\ ring.origin
  BY ClearedRing DEF Init, Kept
<1>2. TypeOK
  <2>1. /\ ring.data \in [0..(RingBytes - 1) -> Byte \cup {Unwritten}]
        /\ ring.packets \in Seq(Packet) /\ Len(ring.packets) <= RingFrames
        /\ ring.head \in 0..(RingBytes - 1) /\ ring.used \in 0..RingBytes
        /\ ring.pre_skip \in {0, Skip} /\ ring.origin \in BOOLEAN
    BY <1>1, RollingAssumption DEF Ring, Kept
  <2>2. snapshot \in [encoder : 0..MaxEncoders, packets : Seq(Seq(Byte \cup {Unwritten})),
                      pre_skip : {0, Skip}, encoder_pre_skip : {0, Skip}]
    BY RollingAssumption DEF Init, NoSnapshot
  <2>3. /\ mic = 0 /\ made = 0 /\ paused = 0 /\ slot = 0 /\ main = "idle"
        /\ worker = [pc |-> "none", encoder |-> 0, err |-> FALSE]
        /\ enabled = FALSE /\ active = FALSE /\ handoff_requested = FALSE
        /\ first = [e \in Encoder |-> 0] /\ freed = [e \in Encoder |-> 0]
    BY DEF Init
  <2>4. /\ mic \in 0..MaxMic /\ made \in 0..MaxEncoders /\ paused \in 0..MaxMic
        /\ slot \in 0..MaxEncoders
        /\ first \in [Encoder -> 0..MaxMic] /\ freed \in [Encoder -> Nat]
    BY <2>3, RollingAssumption
  <2>5. worker \in [pc : {"none", "create", "start", "loop", "stop", "decide",
                          "give", "drop", "clear", "leave"},
                    encoder : 0..MaxEncoders, err : BOOLEAN]
    BY <2>3, RollingAssumption
  <2> QED BY <2>1, <2>2, <2>3, <2>4, <2>5 DEF TypeOK
<1>3. Laid
  BY ClearedRing DEF Laid, Init
<1>4. Turn
  BY <1>1 DEF Turn, Init
<1>5. Encoded /\ Recent
  BY <1>1 DEF Encoded, Recent, Init
<1> QED BY <1>1, <1>2, <1>3, <1>4, <1>5 DEF Course, Types

\* Destroying an encoder only counts.
LEMMA DestroyedTypes ==
  ASSUME freed \in [Encoder -> Nat], NEW e \in 1..MaxEncoders
  PROVE  Destroyed(e) \in [Encoder -> Nat]
BY DEF Destroyed, Encoder

\* Steps that move only handles, flags and program counters.
LEMMA CourseMoves ==
  ASSUME Course, UNCHANGED contents, Types',
         LoopEnds \/ StopAudio \/ Decide \/ HandOver \/ Leave \/ Disable
         \/ Take \/ TakeStop \/ TakeTimeout \/ Release
  PROVE  Course'
<1>1. Laid' /\ Recent'
  BY DEF Course, Laid, Recent, Kept, contents
<1>2. Kept' = Kept /\ ring' = ring /\ mic' = mic /\ made' = made /\ first' = first
  BY DEF Kept, contents
<1>3. worker \in [pc : {"none", "create", "start", "loop", "stop", "decide",
                        "give", "drop", "clear", "leave"},
                  encoder : 0..MaxEncoders, err : BOOLEAN]
  BY DEF Course, Types, TypeOK
<1>4. Turn' /\ Encoded'
  <2> USE <1>2, <1>3 DEF Course, Turn, Encoded
  <2>1. CASE LoopEnds
    BY <2>1, ZenonT(60) DEF LoopEnds, Goto, Failing, flags
  <2>2. CASE StopAudio
    BY <2>2 DEF StopAudio, Goto, Failing, flags
  <2>3. CASE Decide
    <3>1. /\ worker.pc = "decide" /\ worker'.err = worker.err
          /\ worker'.encoder = worker.encoder
          /\ (worker'.pc = "give" /\ handoff_requested /\ ~worker.err) \/ worker'.pc = "drop"
          /\ UNCHANGED <<handoff_requested, active, slot, main>>
      BY <2>3 DEF Decide, Goto, flags
    <3>2. worker.encoder # 0 => worker.encoder = made /\ made # 0
      OBVIOUS
    <3> QED BY <3>1, <3>2
  <2>4. CASE HandOver
    BY <2>4 DEF HandOver, flags
  <2>5. CASE Leave
    BY <2>5 DEF Leave
  <2>6. CASE Disable
    BY <2>6 DEF Disable
  <2>7. CASE Take
    BY <2>7 DEF Take
  <2>8. CASE TakeStop
    BY <2>8 DEF TakeStop
  <2>9. CASE TakeTimeout
    BY <2>9 DEF TakeTimeout
  <2>10. CASE Release
    BY <2>10 DEF Release, flags
  <2> QED BY <2>1, <2>2, <2>3, <2>4, <2>5, <2>6, <2>7, <2>8, <2>9, <2>10
<1> QED BY <1>1, <1>4 DEF Course

\* The types survive each step; the ring is looked into only where it is written.
RingFields ==
  /\ ring.data \in [0..(RingBytes - 1) -> Byte \cup {Unwritten}]
  /\ ring.packets \in Seq(Packet) /\ Len(ring.packets) <= RingFrames
  /\ ring.head \in 0..(RingBytes - 1) /\ ring.used \in 0..RingBytes
  /\ ring.pre_skip \in {0, Skip} /\ ring.origin \in BOOLEAN

LEMMA RingFieldsOf ==
  ASSUME ring \in Ring, NEW last \in Nat, NEW at, Run(ring, at, last)
  PROVE  RingFields
BY DEF Ring, RingFields, Run

WorkerType == [pc : {"none", "create", "start", "loop", "stop", "decide",
                     "give", "drop", "clear", "leave"},
               encoder : 0..MaxEncoders, err : BOOLEAN]
SnapshotType == [encoder : 0..MaxEncoders, packets : Seq(Seq(Byte \cup {Unwritten})),
                 pre_skip : {0, Skip}, encoder_pre_skip : {0, Skip}]
MainType == {"idle", "disabling", "requesting", "taking", "draining", "holding"}

Rest ==
  /\ enabled \in BOOLEAN /\ active \in BOOLEAN /\ handoff_requested \in BOOLEAN
  /\ slot \in 0..MaxEncoders /\ worker \in WorkerType /\ main \in MainType
  /\ snapshot \in SnapshotType
  /\ mic \in 0..MaxMic /\ made \in 0..MaxEncoders /\ paused \in 0..MaxMic
  /\ first \in [Encoder -> 0..MaxMic] /\ freed \in [Encoder -> Nat]

LEMMA TypesSplit == Types <=> RingFields /\ Rest /\ ring \in Ring
BY DEF Types, TypeOK, RingFields, Rest, WorkerType, MainType, SnapshotType

LEMMA TypesSplitNext == Types' <=> RingFields' /\ Rest' /\ ring' \in Ring
BY DEF Types, TypeOK, RingFields, Rest, WorkerType, MainType, SnapshotType

\* Steps that leave the ring alone.
LEMMA TypesMoves ==
  ASSUME Types,
         CreateEncoder \/ LoopEnds \/ StopAudio \/ Decide \/ HandOver \/ Leave \/ Disable
         \/ DisableTimeout \/ Take \/ TakeStop \/ TakeTimeout \/ Release
  PROVE  Types'
<1>1. Rest /\ RingFields /\ ring \in Ring
  BY TypesSplit
<1>2. \A e \in 1..MaxEncoders : Destroyed(e) \in [Encoder -> Nat]
  BY <1>1, DestroyedTypes DEF Rest
<1>3. NoSnapshot \in SnapshotType
  BY RollingAssumption DEF NoSnapshot, SnapshotType
<1>4. \A e \in 0..MaxEncoders : e # 0 => e \in 1..MaxEncoders
  OBVIOUS
<1>5. ring' = ring
  BY DEF CreateEncoder, LoopEnds, StopAudio, Decide, HandOver, Leave, Disable,
         DisableTimeout, Take, TakeStop, TakeTimeout, Release
<1>6. RingFields' /\ ring' \in Ring
  BY <1>1, <1>5 DEF RingFields
<1>7. Rest'
  <2> USE <1>1 DEF Rest
  <2>1. CASE CreateEncoder
    <3>1. CASE Failing("decide") /\ UNCHANGED made
      BY <2>1, <3>1 DEF CreateEncoder, Failing, flags, WorkerType
    <3>2. CASE /\ made < MaxEncoders /\ made' = made + 1
               /\ worker' = [worker EXCEPT !.pc = "start", !.encoder = made + 1]
      <4>1. made + 1 \in 0..MaxEncoders
        BY <3>2, RollingAssumption
      <4>2. worker' \in WorkerType
        BY <3>2, <4>1 DEF WorkerType
      <4> QED BY <2>1, <3>2, <4>1, <4>2 DEF CreateEncoder, flags
    <3> QED BY <2>1, <3>1, <3>2 DEF CreateEncoder
  <2>2. CASE LoopEnds
    BY <2>2 DEF LoopEnds, Goto, Failing, flags, history, WorkerType
  <2>3. CASE StopAudio
    BY <2>3 DEF StopAudio, Goto, Failing, flags, history, WorkerType
  <2>4. CASE Decide
    BY <2>4 DEF Decide, Goto, flags, history, WorkerType
  <2>5. CASE HandOver
    <3>1. worker.encoder \in 0..MaxEncoders
      BY DEF WorkerType
    <3>2. freed' \in [Encoder -> Nat] /\ slot' \in 0..MaxEncoders
      BY <1>2, <1>4, <2>5, <3>1 DEF HandOver
    <3>3. worker' \in WorkerType
      <4>1. 0 \in 0..MaxEncoders
        BY RollingAssumption
      <4>2. worker' = [worker EXCEPT !.pc = "clear", !.encoder = 0]
        BY <2>5 DEF HandOver
      <4> QED BY <4>1, <4>2 DEF WorkerType
    <3> QED BY <2>5, <3>2, <3>3 DEF HandOver, flags
  <2>6. CASE Leave
    <3>1. worker' \in WorkerType
      BY <2>6, RollingAssumption DEF Leave, WorkerType
    <3> QED BY <2>6, <3>1 DEF Leave, history
  <2>7. CASE Disable
    BY <2>7 DEF Disable, history, MainType
  <2>8. CASE DisableTimeout
    BY <2>8 DEF DisableTimeout, flags, MainType
  <2>9. CASE Take
    BY <2>9 DEF Take, history, MainType
  <2>10. CASE TakeStop
    BY <2>10 DEF TakeStop, history, MainType
  <2>11. CASE TakeTimeout
    BY <2>11 DEF TakeTimeout, history, MainType
  <2>12. CASE Release
    BY <1>2, <1>3, <1>4, <2>12 DEF Release, flags, MainType, SnapshotType
  <2> QED BY <2>1, <2>2, <2>3, <2>4, <2>5, <2>6, <2>7, <2>8, <2>9, <2>10, <2>11, <2>12
<1> QED BY <1>6, <1>7, TypesSplitNext

\* A packet is copied out as it was put in, around the end of the ring.
LEMMA CopiedIs ==
  ASSUME Types, NEW at, Run(ring, at, mic), NEW i \in 1..Len(ring.packets)
  PROVE  /\ Copied(ring.packets[i]) =
              [j \in 1..ring.packets[i].bytes |-> <<mic - Kept + i, j>>]
         /\ mic - Kept + i \in Frame
         /\ Copied(ring.packets[i]) \in Seq(Byte \cup {Unwritten})
         /\ Of(Copied(ring.packets[i])) = mic - Kept + i
         /\ ring.packets[i].bytes \in Nat \ {0}
<1>1. /\ ring.packets[i].bytes \in Nat \ {0} /\ ring.packets[i].bytes <= MaxBytes
      /\ MaxBytes \in Nat
  BY PacketTypes, RollingAssumption DEF Types
<1>2. Copied(ring.packets[i]) = [j \in 1..ring.packets[i].bytes |-> <<mic - Kept + i, j>>]
  <2>1. \A j \in 1..ring.packets[i].bytes :
          ring.data[(ring.packets[i].offset + j - 1) % RingBytes] = <<mic - Kept + i, j>>
    BY DEF Run, Kept
  <2> QED BY <2>1 DEF Copied
<1>3. mic - Kept + i \in Frame
  <2>1. Kept <= mic /\ Kept \in Nat /\ mic \in Nat /\ mic <= MaxMic /\ MaxMic \in Nat
    BY CourseTypes DEF Run, Kept
  <2>2. i \in 1..Kept
    BY DEF Kept
  <2> QED BY <2>1, <2>2 DEF Frame
<1>4. Copied(ring.packets[i]) \in Seq(Byte \cup {Unwritten})
  <2> DEFINE n == ring.packets[i].bytes
             f == mic - Kept + i
  <2>1. \A j \in 1..n : <<f, j>> \in Byte \cup {Unwritten}
    <3> SUFFICES ASSUME NEW j \in 1..n PROVE <<f, j>> \in Byte
      OBVIOUS
    <3>1. j \in 1..MaxBytes
      BY <1>1
    <3> HIDE DEF f
    <3> QED BY <1>3, <3>1 DEF Byte, f
  <2> HIDE DEF f
  <2>2. Copied(ring.packets[i]) = [j \in 1..n |-> <<f, j>>]
    BY <1>2 DEF f
  <2>3. n \in Nat
    BY <1>1
  <2> HIDE DEF n
  <2> QED BY <2>1, <2>2, <2>3
<1>5. Of(Copied(ring.packets[i])) = mic - Kept + i
  BY <1>1, <1>2 DEF Of
<1> QED BY <1>1, <1>2, <1>3, <1>4, <1>5

LEMMA SnapshotTypes ==
  ASSUME Types, Laid
  PROVE  /\ Snapshot \in SnapshotType /\ Snapshot.encoder = slot
         /\ Len(Snapshot.packets) = Kept
         /\ \A i \in 1..Kept : Snapshot.packets[i] = Copied(ring.packets[i])
         /\ Snapshot.pre_skip = IF ring.origin /\ Kept # 0 THEN ring.pre_skip ELSE 0
<1>1. PICK at : Run(ring, at, mic)
  BY DEF Laid
<1> DEFINE p == [i \in DOMAIN ring.packets |-> Copied(ring.packets[i])]
           b == Byte \cup {Unwritten}
<1>2. DOMAIN ring.packets = 1..Kept /\ Kept \in Nat
  BY RingTypes DEF Types, Kept
<1>3. \A i \in 1..Kept : Copied(ring.packets[i]) \in Seq(b)
  BY <1>1, CopiedIs DEF Kept
<1>4. p \in Seq(Seq(b)) /\ Len(p) = Kept
  <2> HIDE DEF b
  <2> QED BY <1>2, <1>3
<1>5. slot \in 0..MaxEncoders /\ ring.pre_skip \in {0, Skip}
  BY DEF Types, TypeOK
<1>6. (ring.packets # <<>>) <=> Kept # 0
  <2>1. ring.packets \in Seq(Packet)
    BY RingTypes DEF Types
  <2> QED BY <2>1 DEF Kept
<1>7. Snapshot = [encoder |-> slot, packets |-> p,
                  pre_skip |-> IF ring.origin /\ Kept # 0 THEN ring.pre_skip ELSE 0,
                  encoder_pre_skip |-> ring.pre_skip]
  BY <1>6 DEF Snapshot
<1> HIDE DEF p
<1>8. Snapshot \in SnapshotType
  BY <1>4, <1>5, <1>7 DEF SnapshotType
<1>9. \A i \in 1..Kept : p[i] = Copied(ring.packets[i])
  BY <1>2 DEF p
<1> QED BY <1>4, <1>7, <1>8, <1>9

\* An encoder is created while the ring is empty.
LEMMA CourseCreate ==
  ASSUME Course, CreateEncoder
  PROVE  Course'
<1>1. Types' /\ Laid'
  BY TypesMoves DEF Course, CreateEncoder, Laid
<1>2. /\ Kept' = Kept /\ ring' = ring /\ mic' = mic /\ first' = first /\ paused' = paused
      /\ slot' = slot /\ handoff_requested' = handoff_requested /\ active' = active
      /\ main' = main /\ worker.pc = "create"
  BY DEF CreateEncoder, Kept, flags
<1>3. Kept = 0 /\ ring.origin /\ slot = 0 /\ worker.encoder = 0 /\ active
  BY <1>2 DEF Course, Turn, Encoded
<1>4. worker \in WorkerType
  BY TypesSplit DEF Course, Rest
<1>5. CASE Failing("decide") /\ made' = made
  BY <1>2, <1>3, <1>4, <1>5, <1>1 DEF Course, Turn, Encoded, Recent, Failing, WorkerType
<1>6. CASE /\ made < MaxEncoders /\ made' = made + 1
           /\ worker' = [worker EXCEPT !.pc = "start", !.encoder = made + 1]
  <2>1. worker'.pc = "start" /\ worker'.encoder = made + 1
    BY <1>4, <1>6 DEF WorkerType
  <2>2. made \in Nat /\ made + 1 \in Encoder /\ MaxEncoders \in Nat
    BY <1>6, CourseTypes DEF Course, Encoder
  <2>3. first[made + 1] = 0
    BY <2>2 DEF Course, Encoded
  <2>4. Turn'
    BY <1>2, <1>3, <1>6, <2>1, <2>2 DEF Course, Turn
  <2>5. Encoded' /\ Recent'
    BY <1>2, <1>3, <1>6, <2>1, <2>2, <2>3 DEF Course, Encoded, Recent, Encoder
  <2> QED BY <1>1, <2>4, <2>5 DEF Course
<1> QED BY <1>5, <1>6 DEF CreateEncoder

\* The pre-skip is noted; the packets stay where they are.
LEMMA CourseStart ==
  ASSUME Course, StartAudio
  PROVE  Course'
<1>1. worker \in WorkerType /\ Rest /\ ring \in Ring
  BY TypesSplit DEF Course, Rest
<1>2. PICK at : Run(ring, at, mic)
  BY DEF Course, Laid
<1>3. /\ UNCHANGED <<flags, slot, main, snapshot, history>>
      /\ worker.pc = "start" /\ Kept = 0 /\ ring.origin /\ slot = 0
      /\ worker.encoder = made /\ made > 0 /\ first[made] = 0
  BY CourseTypes DEF Course, Turn, Encoded, StartAudio
<1>4. CASE Failing("decide") /\ UNCHANGED ring
  <2>1. worker' = [worker EXCEPT !.pc = "decide", !.err = TRUE]
    BY <1>4 DEF Failing
  <2>2. worker'.pc = "decide" /\ worker'.encoder = worker.encoder /\ worker'.err = TRUE
        /\ worker' \in WorkerType
    BY <1>1, <2>1 DEF WorkerType
  <2>3. Types'
    BY <1>1, <1>3, <1>4, <2>2, TypesSplit, TypesSplitNext
       DEF Course, Rest, RingFields, flags, history
  <2>4. Laid' /\ Kept' = Kept
    BY <1>2, <1>3, <1>4 DEF Laid, Kept, history
  <2>5. Turn' /\ Encoded' /\ Recent'
    BY <1>3, <1>4, <2>2, <2>4 DEF Course, Turn, Encoded, Recent, flags, history
  <2> QED BY <2>3, <2>4, <2>5 DEF Course
<1>5. CASE Goto("loop") /\ ring' = [ring EXCEPT !.pre_skip = Skip]
  <2>1. /\ worker'.pc = "loop" /\ worker'.encoder = worker.encoder
        /\ worker'.err = worker.err /\ worker' \in WorkerType
    BY <1>1, <1>5 DEF Goto, WorkerType
  <2>2. /\ ring' \in Ring /\ ring'.pre_skip = Skip /\ ring'.origin = ring.origin
        /\ ring'.packets = ring.packets /\ ring'.head = ring.head
        /\ ring'.used = ring.used /\ ring'.data = ring.data
    BY <1>1, <1>5 DEF Ring
  <2>3. Run(ring', at, mic')
    <3>1. mic' = mic
      BY <1>3 DEF history
    <3> QED BY <1>2, <2>2, <3>1, ZenonT(60) DEF Run
  <2>4. Laid' /\ Kept' = Kept
    BY <2>2, <2>3 DEF Laid, Kept
  <2>5. RingFields'
    BY <2>2, TypesSplit DEF Course, RingFields
  <2>6. Types'
    BY <1>1, <1>3, <2>1, <2>2, <2>5, TypesSplitNext DEF Rest, flags, history
  <2>7. Turn' /\ Encoded' /\ Recent'
    BY <1>3, <2>1, <2>2, <2>4 DEF Course, Turn, Encoded, Recent, flags, history
  <2> QED BY <2>4, <2>6, <2>7 DEF Course
<1> QED BY <1>4, <1>5 DEF StartAudio

\* A frame is captured, encoded and put into the ring.
LEMMA CourseCapture ==
  ASSUME Course, Capture
  PROVE  Course'
<1>1. Rest /\ ring \in Ring /\ worker.pc = "loop"
  BY TypesSplit DEF Course, Capture
<1>2. PICK at : Run(ring, at, mic)
  BY DEF Course, Laid
<1>3. PICK bytes \in 1..MaxBytes : ring' = Appended(mic + 1, bytes)
  BY DEF Capture
<1>4. /\ mic \in Nat /\ mic < MaxMic /\ MaxMic \in Nat /\ mic + 1 \in Frame /\ mic' = mic + 1
      /\ made \in Nat /\ made <= MaxEncoders /\ Kept \in Nat /\ paused \in Nat
      /\ first \in [Encoder -> 0..MaxMic]
  BY CourseTypes DEF Course, Capture, Frame
<1>5. /\ worker.encoder = made /\ made > 0 /\ made \in Encoder
      /\ ring.pre_skip = Skip /\ slot = 0
  BY <1>1, <1>4 DEF Course, Turn, Encoded, Encoder
<1>6. /\ ring' \in Ring /\ ring'.pre_skip = ring.pre_skip
      /\ \E to : Run(ring', to, mic')
      /\ \E k \in 0..Kept : /\ Kept' = Kept - k + 1
                            /\ ring'.origin = (ring.origin /\ k = 0)
  BY <1>1, <1>2, <1>3, <1>4, AppendedRun DEF Kept
<1>7. PICK k \in 0..Kept : Kept' = Kept - k + 1 /\ ring'.origin = (ring.origin /\ k = 0)
  BY <1>6
<1>8. /\ UNCHANGED <<flags, slot, worker, main, snapshot, made, freed, paused>>
      /\ first' = [first EXCEPT ![made] = IF @ = 0 THEN mic + 1 ELSE @]
  BY <1>5 DEF Capture
<1>9. /\ first' \in [Encoder -> 0..MaxMic]
      /\ first'[made] = IF first[made] = 0 THEN mic + 1 ELSE first[made]
      /\ \A e \in Encoder : e # made => first'[e] = first[e]
  BY <1>4, <1>5, <1>8
<1>10. Types'
  <2>1. RingFields'
    BY <1>6 DEF Ring, RingFields, Run
  <2>2. mic' \in 0..MaxMic
    BY <1>4
  <2>3. Rest'
    BY <1>1, <1>8, <1>9, <2>2 DEF Rest, flags
  <2> QED BY <1>6, <2>1, <2>3, TypesSplitNext
<1>11. Turn'
  <2>1. main # "holding"
    BY <1>1 DEF Course, Turn
  <2> QED BY <1>8, <2>1 DEF Course, Turn, flags
<1>12. Encoded'
  <2>1. Kept' > 0 /\ Kept' \in Nat
    BY <1>4, <1>7
  <2>2. \A e \in Encoder : (e > made => first[e] = 0) /\ first[e] <= mic /\ first[e] \in Nat
    BY <1>4 DEF Course, Encoded
  <2>3. \A e \in Encoder : (e > made' => first'[e] = 0) /\ first'[e] <= mic'
    <3> SUFFICES ASSUME NEW e \in Encoder PROVE (e > made => first'[e] = 0) /\ first'[e] <= mic + 1
      BY <1>4, <1>8
    <3>1. CASE e = made
      BY <1>4, <1>5, <1>9, <2>2, <3>1
    <3>2. CASE e # made
      BY <1>4, <1>9, <2>2, <3>2
    <3> QED BY <3>1, <3>2
  <2>4. first[made] \in Nat /\ first[made] <= mic
    BY <1>5, <2>2
  <2>5. Kept > 0 => /\ first[made] > 0 /\ first[made] + Kept <= mic + 1
                    /\ ring.origin <=> first[made] + Kept = mic + 1
                    /\ \A e \in 1..(made - 1) : first[e] < first[made]
    BY DEF Course, Encoded
  <2>6. Kept = 0 => ring.origin /\ first[made] = 0
    BY <1>4, <1>5 DEF Course, Encoded
  <2>7. /\ first'[made] > 0 /\ first'[made] + Kept' <= mic' + 1
        /\ ring'.origin <=> first'[made] + Kept' = mic' + 1
    <3>0. /\ k \in Nat /\ k <= Kept /\ Kept' = Kept - k + 1
          /\ ring'.origin <=> ring.origin /\ k = 0
      <4>1. ring'.origin <=> ring.origin /\ k = 0
        BY <1>7, Zenon
      <4> QED BY <1>4, <1>7, <4>1
    <3>1. CASE Kept = 0
      <4>1. k = 0 /\ Kept' = 1 /\ ring'.origin /\ first'[made] = mic + 1
        BY <1>4, <1>9, <2>6, <3>0, <3>1
      <4> QED BY <1>4, <4>1
    <3>2. CASE Kept > 0
      <4>1. first'[made] = first[made]
        BY <1>9, <2>5, <3>2
      <4>2. first[made] + Kept' <= mic + 2
        BY <1>4, <2>4, <2>5, <3>0, <3>2
      <4>3. CASE k = 0
        BY <1>4, <2>4, <2>5, <3>0, <3>2, <4>1, <4>3
      <4>4. CASE k # 0
        <5>1. first[made] + Kept' # mic + 2
          BY <1>4, <2>4, <2>5, <3>0, <3>2, <4>4
        <5> QED BY <1>4, <2>4, <2>5, <3>0, <3>2, <4>1, <4>2, <4>4, <5>1
      <4> QED BY <4>3, <4>4
    <3> QED BY <1>4, <3>1, <3>2
  <2>8. ASSUME NEW e \in 1..(made - 1) PROVE first'[e] < first'[made]
    <3>1. e \in Encoder /\ e # made
      BY <1>4, RollingAssumption DEF Encoder
    <3>2. first'[e] = first[e] /\ first[e] <= mic /\ first[e] \in Nat
      BY <1>9, <2>2, <3>1
    <3>3. CASE Kept = 0
      BY <1>4, <1>9, <2>6, <3>2, <3>3
    <3>4. CASE Kept > 0
      BY <1>4, <1>9, <2>4, <2>5, <3>2, <3>4
    <3> QED BY <1>4, <3>3, <3>4
  <2> QED BY <1>1, <1>5, <1>6, <1>8, <2>1, <2>3, <2>7, <2>8 DEF Encoded
<1>13. Recent'
  BY <1>4, <1>7, <1>8 DEF Course, Recent
<1>14. Laid'
  BY <1>6 DEF Laid
<1> QED BY <1>10, <1>11, <1>12, <1>13, <1>14 DEF Course

\* The ring is emptied when no encoder is at work or on its way.
LEMMA CourseCleared ==
  ASSUME Course, ring' = Cleared, Rest', mic' = mic, made' = made, first' = first,
         paused' \in {mic, paused}, Turn',
         worker'.encoder = 0, slot' = 0, worker'.pc # "loop"
  PROVE  Course'
<1>1. ring' \in Ring /\ Kept' = 0 /\ ring'.origin
  BY ClearedRing DEF Kept
<1>2. mic \in Nat /\ paused \in Nat
  BY CourseTypes DEF Course
<1>3. Laid'
  BY <1>2, ClearedRing DEF Laid
<1>4. Types'
  <2>1. \E to : Run(ring', to, mic)
    BY <1>2, ClearedRing
  <2>2. RingFields'
    BY <1>1, <2>1 DEF Ring, RingFields, Run
  <2> QED BY <1>1, <2>2, TypesSplitNext
<1>5. Encoded'
  <2>1. \A e \in Encoder : (e > made => first[e] = 0) /\ first[e] <= mic
    BY DEF Course, Encoded
  <2> QED BY <1>1, <2>1 DEF Encoded
<1>6. Recent'
  <2>1. paused <= mic
    BY DEF Course, Recent
  <2>2. paused' <= mic /\ paused' \in Nat
    BY <1>2, <2>1
  <2>3. paused' + Kept' <= mic
    <3>1. Kept' = 0 /\ 0 \in Nat
      BY <1>1
    <3>2. \A p, k \in Nat : p <= mic /\ k = 0 => p + k <= mic
      BY <1>2
    <3> QED BY <2>2, <3>1, <3>2, Zenon
  <2> QED BY <2>2, <2>3 DEF Recent
<1> QED BY <1>6, <1>3, <1>4, <1>5 DEF Course

LEMMA CourseMain ==
  ASSUME Course, Enable \/ Disabled \/ DisableTimeout \/ Taken \/ TakenNoMemory \/ Drained
  PROVE  Course'
<1>1. Rest /\ RingFields /\ ring \in Ring /\ Types /\ Laid /\ Turn
  BY TypesSplit DEF Course
<1>2. /\ 0 \in 0..MaxEncoders
      /\ \A e \in 0..MaxEncoders : e # 0 => Destroyed(e) \in [Encoder -> Nat]
  <2>1. \A e \in 0..MaxEncoders : e # 0 => e \in 1..MaxEncoders
    OBVIOUS
  <2> QED BY <1>1, <2>1, DestroyedTypes, RollingAssumption DEF Rest
<1>3. Snapshot \in SnapshotType
  BY <1>1, SnapshotTypes
<1>4. ~active => worker.pc = "none" /\ worker.encoder = 0
  BY <1>1 DEF Turn
<1>5. CASE Enable
  <2>1. /\ ring' = Cleared /\ slot = 0 /\ slot' = 0 /\ main = "idle"
        /\ UNCHANGED <<handoff_requested, main, snapshot, history>>
        /\ worker.pc = "none" /\ worker.encoder = 0
    BY <1>1, <1>4, <1>5 DEF Enable, Turn
  <2>2. \/ worker' = worker
        \/ worker' = [pc |-> "create", encoder |-> 0, err |-> FALSE]
    BY <1>5 DEF Enable
  <2>3. worker' \in WorkerType /\ worker'.encoder = 0 /\ worker'.pc \in {"none", "create"}
    <3>1. worker \in WorkerType /\ worker.pc = "none" /\ worker.encoder = 0
      BY <1>1, <2>1 DEF Rest
    <3>2. [pc |-> "create", encoder |-> 0, err |-> FALSE] \in WorkerType
      BY <1>2 DEF WorkerType
    <3>3. CASE worker' = worker
      BY <3>1, <3>3
    <3>4. CASE worker' = [pc |-> "create", encoder |-> 0, err |-> FALSE]
      BY <3>2, <3>4
    <3> QED BY <2>2, <3>3, <3>4
  <2>4. Rest'
    BY <1>1, <1>5, <2>1, <2>3 DEF Enable, Rest, history
  <2>5. active' \/ worker' = worker
    BY <1>5 DEF Enable
  <2>6. Turn'
    BY <1>1, <2>1, <2>2, <2>3, <2>5 DEF Turn, history
  <2> QED BY <2>1, <2>3, <2>4, <2>6, CourseCleared DEF history
<1>6. CASE Disabled
  <2>1. Rest'
    BY <1>1, <1>6 DEF Disabled, Rest, flags, MainType
  <2>2. Turn' /\ slot' = 0 /\ worker'.encoder = 0 /\ worker'.pc # "loop"
    BY <1>1, <1>4, <1>6 DEF Disabled, Turn, flags
  <2> QED BY <1>6, <2>1, <2>2, CourseCleared DEF Disabled
<1>7. CASE DisableTimeout
  <2>1. Types'
    BY <1>1, <1>7, TypesMoves
  <2>2. Laid' /\ Kept' = Kept
    BY <1>1, <1>7 DEF DisableTimeout, Laid, Kept
  <2>3. Turn'
    BY <1>1, <1>7, <2>2 DEF DisableTimeout, Turn, flags
  <2>4. Encoded'
    BY <1>7, <2>2 DEF Course, DisableTimeout, Encoded, flags
  <2>5. Recent'
    BY <1>1, <1>7, CourseTypes DEF DisableTimeout, Recent
  <2> QED BY <2>1, <2>2, <2>3, <2>4, <2>5 DEF Course
<1>8. CASE Taken
  <2>1. Rest'
    BY <1>1, <1>2, <1>3, <1>8 DEF Taken, Rest, history, MainType
  <2>2. Kept' = 0
    BY <1>8, ClearedRing DEF Taken, Kept
  <2>3. Turn' /\ slot' = 0 /\ worker'.encoder = 0 /\ worker'.pc # "loop"
    BY <1>1, <1>4, <1>8, <2>2 DEF Taken, Turn, history
  <2> QED BY <1>8, <2>1, <2>3, CourseCleared DEF Taken, history
<1>9. CASE TakenNoMemory
  <2>1. Rest'
    BY <1>1, <1>2, <1>9 DEF TakenNoMemory, Rest, MainType
  <2>2. Kept' = 0
    BY <1>9, ClearedRing DEF TakenNoMemory, Kept
  <2>3. Turn' /\ slot' = 0 /\ worker'.encoder = 0 /\ worker'.pc # "loop"
    BY <1>1, <1>4, <1>9, <2>2 DEF TakenNoMemory, Turn
  <2> QED BY <1>9, <2>1, <2>3, CourseCleared DEF TakenNoMemory
<1>10. CASE Drained
  <2>1. Rest'
    BY <1>1, <1>2, <1>10 DEF Drained, Rest, flags, MainType
  <2>2. Turn' /\ slot' = 0 /\ worker'.encoder = 0 /\ worker'.pc # "loop"
    BY <1>1, <1>4, <1>10 DEF Drained, Turn, flags
  <2> QED BY <1>10, <2>1, <2>2, CourseCleared DEF Drained
<1> QED BY <1>5, <1>6, <1>7, <1>8, <1>9, <1>10

LEMMA CourseFinish ==
  ASSUME Course, Finish
  PROVE  Course'
<1>1. Rest /\ RingFields /\ ring \in Ring /\ Types /\ Laid /\ Turn
  BY TypesSplit DEF Course
<1>2. /\ worker.pc = "clear" /\ worker' = [worker EXCEPT !.pc = "leave"]
      /\ enabled' = FALSE
      /\ UNCHANGED <<active, handoff_requested, slot, main, snapshot, mic, made, first, freed>>
  BY DEF Finish, Goto
<1>3. /\ worker' \in WorkerType /\ worker'.pc = "leave" /\ worker'.encoder = 0
      /\ worker'.err = worker.err /\ worker.encoder = 0
  BY <1>1, <1>2 DEF Rest, WorkerType, Turn
<1>4. paused' \in 0..MaxMic
  BY <1>1 DEF Finish, Rest
<1>5. Rest'
  BY <1>1, <1>2, <1>3, <1>4 DEF Rest
<1>6. active /\ main # "holding"
  BY <1>1, <1>2 DEF Turn
<1>7. Turn'
  BY <1>1, <1>2, <1>3, <1>6 DEF Turn
<1>8. CASE worker.err
  <2>1. ring' = Cleared /\ paused' = mic /\ slot = 0
    BY <1>1, <1>8 DEF Finish, Turn
  <2> QED BY <1>2, <1>3, <1>5, <1>7, <2>1, CourseCleared
<1>9. CASE ~worker.err
  <2>1. ring' = ring /\ paused' = paused /\ Kept' = Kept
    BY <1>9 DEF Finish, Kept
  <2>2. Types'
    BY <1>1, <1>5, <2>1, TypesSplitNext DEF RingFields
  <2>3. Laid' /\ Recent'
    BY <1>1, <1>2, <2>1 DEF Course, Laid, Recent
  <2>4. Encoded'
    BY <1>2, <1>3, <2>1 DEF Course, Encoded
  <2> QED BY <1>7, <2>2, <2>3, <2>4 DEF Course
<1> QED BY <1>8, <1>9

\* Every step of the rolling buffer keeps its course.
LEMMA CourseStep ==
  ASSUME Course, Next
  PROVE  Course'
<1>1. CASE LoopEnds \/ StopAudio \/ Decide \/ HandOver \/ Leave \/ Disable
           \/ Take \/ TakeStop \/ TakeTimeout \/ Release
  <2>1. UNCHANGED contents
    BY <1>1 DEF LoopEnds, StopAudio, Decide, HandOver, Leave, Disable, Take, TakeStop,
                TakeTimeout, Release, contents, history
  <2>2. Types'
    BY <1>1, TypesMoves DEF Course
  <2> QED BY <1>1, <2>1, <2>2, CourseMoves
<1>2. CASE CreateEncoder \/ StartAudio \/ Capture \/ Finish
  BY <1>2, CourseCreate, CourseStart, CourseCapture, CourseFinish
<1>3. CASE Enable \/ Disabled \/ DisableTimeout \/ Taken \/ TakenNoMemory \/ Drained
  BY <1>3, CourseMain
<1> QED BY <1>1, <1>2, <1>3 DEF Next, Worker, Main

LEMMA CourseStutter ==
  ASSUME Course, UNCHANGED vars
  PROVE  Course'
BY DEF Course, Types, TypeOK, Laid, Kept, Turn, Encoded, Recent, vars, flags, history

-------------------------------------------------------------------------------
(***************************************************************************)
(* What take returns.                                                      *)
(***************************************************************************)

\* The snapshot of a ring that holds the newest frames, with the encoder that
\* encoded them, is whole.
LEMMA TakenWhole ==
  ASSUME Course, Taken
  PROVE  /\ SnapshotWhole'
         /\ \A i \in DOMAIN snapshot'.packets : Of(snapshot'.packets[i]) = mic' - Kept + i
         /\ Len(snapshot'.packets) = Kept
<1>1. Types /\ Laid /\ Turn /\ Encoded
  BY DEF Course
<1>2. PICK at : Run(ring, at, mic)
  BY <1>1 DEF Laid
<1>3. /\ snapshot' = Snapshot /\ main' = "holding" /\ mic' = mic /\ made' = made
      /\ first' = first /\ worker.pc = "none" /\ worker.encoder = 0
  BY <1>1 DEF Taken, history, Turn
<1>4. /\ mic \in Nat /\ made \in Nat /\ Kept \in Nat /\ first \in [Encoder -> 0..MaxMic]
      /\ slot \in Nat /\ made <= MaxEncoders /\ MaxEncoders \in Nat /\ Skip \in Nat \ {0}
      /\ ring.origin \in BOOLEAN /\ Kept <= mic
  BY <1>1, <1>2, CourseTypes DEF Run, Kept
<1>5. /\ Snapshot \in SnapshotType /\ Snapshot.encoder = slot
      /\ Len(Snapshot.packets) = Kept
      /\ \A i \in 1..Kept : Snapshot.packets[i] = Copied(ring.packets[i])
      /\ Snapshot.pre_skip = IF ring.origin /\ Kept # 0 THEN ring.pre_skip ELSE 0
  BY <1>1, SnapshotTypes
<1>6. DOMAIN Snapshot.packets = 1..Kept
  <2>1. Snapshot.packets \in Seq(Seq(Byte \cup {Unwritten}))
    BY <1>5 DEF SnapshotType
  <2> QED BY <1>5, <2>1
<1>7. ASSUME NEW i \in 1..Kept
      PROVE  /\ Of(Snapshot.packets[i]) = mic - Kept + i
             /\ \A k \in DOMAIN Snapshot.packets[i] :
                  Snapshot.packets[i][k] = <<mic - Kept + i, k>>
  <2>1. Snapshot.packets[i] = Copied(ring.packets[i])
    BY <1>5
  <2>2. /\ Copied(ring.packets[i]) = [j \in 1..ring.packets[i].bytes |-> <<mic - Kept + i, j>>]
        /\ Of(Copied(ring.packets[i])) = mic - Kept + i
    BY <1>1, <1>2, CopiedIs DEF Kept
  <2> QED BY <2>1, <2>2
<1>8. SnapshotIntact'
  <2> SUFFICES ASSUME NEW i \in 1..Kept
               PROVE  /\ \A k \in DOMAIN Snapshot.packets[i] :
                           Snapshot.packets[i][k] = <<Of(Snapshot.packets[i]), k>>
                      /\ i > 1 => Of(Snapshot.packets[i]) = Of(Snapshot.packets[i - 1]) + 1
    BY <1>3, <1>6 DEF SnapshotIntact
  <2>1. ASSUME i > 1 PROVE Of(Snapshot.packets[i]) = Of(Snapshot.packets[i - 1]) + 1
    <3>1. i - 1 \in 1..Kept
      BY <1>4, <2>1
    <3>2. Of(Snapshot.packets[i - 1]) = mic - Kept + (i - 1)
      BY <1>7, <3>1
    <3>3. Of(Snapshot.packets[i]) = mic - Kept + i
      BY <1>7
    <3> QED BY <1>4, <3>1, <3>2, <3>3
  <2> QED BY <1>7, <2>1
<1>9. SnapshotContinues'
  <2>1. (Snapshot.packets = <<>>) <=> Kept = 0
    <3>1. Snapshot.packets \in Seq(Seq(Byte \cup {Unwritten}))
      BY <1>5 DEF SnapshotType
    <3> QED BY <1>5, <3>1
  <2>2. slot # 0 => slot = made /\ made \in Encoder
    BY <1>1, <1>4 DEF Turn, Encoder
  <2>3. CASE Kept = 0
    <3>1. Snapshot.encoder # 0 => first[Snapshot.encoder] = 0
      BY <1>1, <1>5, <2>2, <2>3 DEF Encoded
    <3> QED BY <1>3, <2>1, <2>3, <3>1 DEF SnapshotContinues
  <2>4. CASE Kept # 0
    <3> DEFINE from == Of(Snapshot.packets[1])
               to == Of(Snapshot.packets[Len(Snapshot.packets)])
    <3>1. from = mic - Kept + 1 /\ to = mic
      <4>1. 1 \in 1..Kept /\ Kept \in 1..Kept
        BY <1>4, <2>4
      <4>2. Of(Snapshot.packets[1]) = mic - Kept + 1 /\ Of(Snapshot.packets[Kept]) = mic - Kept + Kept
        BY <1>7, <4>1
      <4> QED BY <1>4, <1>5, <4>2
    <3> HIDE DEF from, to
    <3>2. /\ ring.pre_skip = Skip /\ made > 0 /\ first[made] > 0
          /\ first[made] + Kept <= mic + 1
          /\ ring.origin <=> first[made] + Kept = mic + 1
          /\ \A e \in 1..(made - 1) : first[e] < first[made]
      BY <1>1, <1>4, <2>4 DEF Encoded
    <3>3. made \in 1..made /\ made \in Encoder /\ first[made] \in Nat /\ from \in Nat
          /\ first[made] <= from
      BY <1>4, <3>1, <3>2 DEF Encoder
    <3>4. (Snapshot.pre_skip = Skip) <=> ring.origin
      BY <1>4, <1>5, <2>4, <3>2
    <3>5. ring.origin <=> first[made] = from
      BY <1>4, <3>1, <3>2, <3>3
    <3>6. (\E e \in 1..made : first[e] = from) => first[made] = from
      <4> SUFFICES ASSUME NEW e \in 1..made, first[e] = from, e # made PROVE FALSE
        OBVIOUS
      <4>1. e \in 1..(made - 1)
        BY <1>4
      <4>2. first[e] < first[made]
        BY <3>2, <4>1
      <4> QED BY <3>3, <4>2
    <3>7. Snapshot.encoder # 0 => first[Snapshot.encoder] \in 1..from /\ to = mic
      BY <1>4, <1>5, <2>2, <3>1, <3>2, <3>3
    <3>8. (Snapshot.pre_skip = Skip) <=> (\E e \in 1..made : first[e] = from)
      BY <3>3, <3>4, <3>5, <3>6
    <3> QED BY <1>3, <2>1, <2>4, <3>7, <3>8 DEF SnapshotContinues, from, to
  <2> QED BY <2>3, <2>4
<1> QED BY <1>3, <1>5, <1>6, <1>7, <1>8, <1>9 DEF SnapshotWhole

\* While the main task holds a snapshot the buffer stands still.
LEMMA HoldingStands ==
  ASSUME Course, Next, main = "holding"
  PROVE  Release
<1>1. ~active /\ worker.pc = "none"
  BY DEF Course, Turn
<1> QED BY <1>1 DEF Next, Worker, Main, CreateEncoder, StartAudio, Capture, LoopEnds,
         StopAudio, Decide, HandOver, Finish, Leave, Enable, Disable, Disabled,
         DisableTimeout, Take, TakeStop, Taken, TakenNoMemory, TakeTimeout, Drained

\* Only take fills a snapshot, and only its owner drops it.
Dropped == main # "holding" => snapshot = NoSnapshot

\* No packets, nothing to be whole or fresh.
LEMMA EmptySnapshot ==
  /\ snapshot = NoSnapshot => SnapshotIntact /\ SnapshotFresh /\ SnapshotContinues
  /\ snapshot' = NoSnapshot => SnapshotIntact' /\ SnapshotFresh' /\ SnapshotContinues'
BY DEF NoSnapshot, SnapshotIntact, SnapshotFresh, SnapshotContinues

\* The snapshot through a step of the rolling buffer.
LEMMA SnapshotMoves ==
  ASSUME Course, Next, Dropped
  PROVE  \/ Taken
         \/ snapshot' = NoSnapshot /\ Dropped'
<1>1. CASE main = "holding"
  <2>1. Release
    BY <1>1, HoldingStands
  <2> QED BY <2>1 DEF Release, Dropped
<1>2. CASE main # "holding"
  <2>1. snapshot = NoSnapshot
    BY <1>2 DEF Dropped
  <2>2. Taken \/ snapshot' = snapshot
    BY <1>2 DEF Next, Worker, Main, CreateEncoder, StartAudio, Capture, LoopEnds,
         StopAudio, Decide, HandOver, Finish, Leave, Enable, Disable, Disabled,
         DisableTimeout, Take, TakeStop, TakenNoMemory, TakeTimeout, Drained, Release
  <2> QED BY <2>1, <2>2 DEF Dropped
<1> QED BY <1>1, <1>2

LEMMA SnapshotStep ==
  ASSUME Course, Next, Dropped
  PROVE  Dropped' /\ SnapshotWhole'
<1>1. CASE Taken
  BY <1>1, TakenWhole DEF Taken, Dropped
<1>2. CASE snapshot' = NoSnapshot /\ Dropped'
  BY <1>2, EmptySnapshot DEF SnapshotWhole
<1> QED BY <1>1, <1>2, SnapshotMoves

\* Without late workers what is taken is younger than the last stop.
LEMMA FreshStep ==
  ASSUME Course, Next, Dropped, ~Stalls
  PROVE  SnapshotFresh'
<1>1. CASE Taken
  <2>1. /\ \A i \in DOMAIN snapshot'.packets : Of(snapshot'.packets[i]) = mic' - Kept + i
        /\ Len(snapshot'.packets) = Kept
    BY <1>1, TakenWhole
  <2>2. /\ mic' = mic /\ paused' = paused /\ paused + Kept <= mic
        /\ mic \in Nat /\ paused \in Nat /\ Kept \in Nat
    BY <1>1, CourseTypes DEF Course, Recent, Taken, history
  <2>3. DOMAIN snapshot'.packets = 1..Kept
    <3>1. snapshot' \in SnapshotType
      BY <1>1, SnapshotTypes DEF Course, Taken
    <3>2. snapshot'.packets \in Seq(Seq(Byte \cup {Unwritten}))
      BY <3>1 DEF SnapshotType
    <3> QED BY <2>1, <3>2
  <2>4. ASSUME NEW i \in 1..Kept PROVE mic - Kept + i > paused
    BY <2>2
  <2> QED BY <2>1, <2>2, <2>3, <2>4 DEF SnapshotFresh
<1>2. CASE snapshot' = NoSnapshot /\ Dropped'
  BY <1>2, EmptySnapshot
<1> QED BY <1>1, <1>2, SnapshotMoves

-------------------------------------------------------------------------------
(***************************************************************************)
(* Custody of the encoders.  x is an encoder that somebody beside the      *)
(* buffer has, 0 if nobody: the recorder's, in LocalRecorder.              *)
(***************************************************************************)

\* The encoders made so far are accounted for: those in H live, the others ended.
Account(H, f) ==
  /\ f \in [Encoder -> Nat]
  /\ \A e \in 1..made : f[e] = IF e \in H THEN 0 ELSE 1
  /\ \A e \in Encoder : e > made => f[e] = 0

Handed(x) == {worker.encoder, slot, snapshot.encoder, x}

\* No encoder has two owners.
Apart(w, s, n, x) ==
  /\ w # 0 => w \notin {s, n, x}
  /\ s # 0 => s \notin {n, x}
  /\ x # 0 => x # n

Owned(x) ==
  /\ x <= made /\ worker.encoder <= made /\ slot <= made /\ snapshot.encoder <= made
  /\ Account(Handed(x), freed)
  /\ Apart(worker.encoder, slot, snapshot.encoder, x)

LEMMA OwnedInit == Init => Owned(0)
BY RollingAssumption DEF Init, Owned, Account, Apart, Handed, NoSnapshot, Encoder

\* Destroying a live encoder once keeps the account.
LEMMA DestroyedAccount ==
  ASSUME Types, NEW x \in Nat, Owned(x), NEW y \in Handed(x) \ {0}
  PROVE  y \in 1..made /\ Account(Handed(x) \ {y}, Destroyed(y))
<1>1. /\ freed \in [Encoder -> Nat] /\ made \in Nat /\ made <= MaxEncoders /\ MaxEncoders \in Nat
      /\ worker.encoder \in Nat /\ slot \in Nat /\ snapshot.encoder \in Nat
  BY CourseTypes
<1>2. y \in 1..made /\ 1..made \subseteq Encoder
  BY <1>1 DEF Owned, Handed, Encoder
<1>3. Destroyed(y) \in [Encoder -> Nat]
  BY <1>1, <1>2 DEF Destroyed
<1>4. \A e \in Encoder : Destroyed(y)[e] = IF e = y THEN freed[y] + 1 ELSE freed[e]
  BY <1>1, <1>2 DEF Destroyed
<1>5. \A e \in 1..made : freed[e] = IF e \in Handed(x) THEN 0 ELSE 1
  BY DEF Owned, Account
<1>6. ASSUME NEW e \in 1..made
      PROVE  Destroyed(y)[e] = IF e \in Handed(x) \ {y} THEN 0 ELSE 1
  <2>1. e \in Encoder
    BY <1>2
  <2>2. CASE e = y
    <3>1. freed[y] = 0
      BY <1>2, <1>5
    <3> QED BY <1>4, <2>1, <2>2, <3>1
  <2>3. CASE e # y
    BY <1>4, <1>5, <2>1, <2>3
  <2> QED BY <2>2, <2>3
<1>7. ASSUME NEW e \in Encoder, e > made PROVE Destroyed(y)[e] = 0
  <2>1. freed[e] = 0 /\ e # y
    BY <1>1, <1>2, <1>7 DEF Owned, Account, Encoder
  <2> QED BY <1>4, <2>1
<1> QED BY <1>2, <1>3, <1>6, <1>7 DEF Account

\* Custody after a step that keeps the account while handles are moved or cleared.
LEMMA OwnedNext ==
  ASSUME NEW x, x <= made, made' = made,
         NEW H, Account(H, freed'),
         \A e \in 1..made : e \in H <=> e \in {worker'.encoder, slot', snapshot'.encoder, x},
         worker'.encoder <= made, slot' <= made, snapshot'.encoder <= made,
         Apart(worker'.encoder, slot', snapshot'.encoder, x)
  PROVE  Owned(x)'
<1>1. \A e \in 1..made : freed'[e] = IF e \in Handed(x)' THEN 0 ELSE 1
  BY DEF Account, Handed
<1>2. Account(Handed(x), freed)'
  BY <1>1 DEF Account
<1> QED BY <1>2 DEF Owned, Apart

LEMMA OwnedKept ==
  ASSUME NEW x, Owned(x), worker'.encoder = worker.encoder,
         UNCHANGED <<made, freed, slot, snapshot>>
  PROVE  Owned(x)'
BY DEF Owned, Account, Handed, Apart

\* A new encoder is the worker's alone.
LEMMA OwnedCreate ==
  ASSUME Course, NEW x \in Nat, Owned(x), CreateEncoder
  PROVE  Owned(x)'
<1>1. /\ worker \in WorkerType /\ worker.encoder = 0
      /\ UNCHANGED <<slot, snapshot, freed>>
  BY TypesSplit DEF Course, Rest, Turn, CreateEncoder
<1>2. CASE made' = made /\ Failing("decide")
  <2>1. worker'.encoder = worker.encoder
    BY <1>1, <1>2 DEF Failing, WorkerType
  <2> QED BY <1>1, <1>2, <2>1, OwnedKept
<1>3. CASE /\ made < MaxEncoders /\ made' = made + 1
           /\ worker' = [worker EXCEPT !.pc = "start", !.encoder = made + 1]
  <2>1. worker'.encoder = made + 1
    BY <1>1, <1>3 DEF WorkerType
  <2>2. /\ made \in Nat /\ MaxEncoders \in Nat /\ slot \in Nat /\ snapshot.encoder \in Nat
        /\ freed \in [Encoder -> Nat]
    BY CourseTypes DEF Course
  <2>3. x <= made /\ slot <= made /\ snapshot.encoder <= made
    BY DEF Owned
  <2>4. freed[made + 1] = 0
    BY <1>3, <2>2 DEF Owned, Account, Encoder
  <2>5. Apart(made + 1, slot, snapshot.encoder, x)
    BY <2>2, <2>3 DEF Owned, Apart
  <2>6. ASSUME NEW e \in 1..(made + 1)
        PROVE  freed[e] = IF e \in {made + 1, slot, snapshot.encoder, x} THEN 0 ELSE 1
    <3>1. CASE e = made + 1
      BY <2>4, <3>1
    <3>2. CASE e \in 1..made
      <4>1. freed[e] = IF e \in {0, slot, snapshot.encoder, x} THEN 0 ELSE 1
        BY <1>1, <3>2 DEF Owned, Account, Handed
      <4>2. e # made + 1 /\ e # 0
        BY <2>2, <3>2
      <4> QED BY <4>1, <4>2
    <3> QED BY <2>2, <3>1, <3>2
  <2>7. \A e \in Encoder : e > made + 1 => freed[e] = 0
    BY <2>2 DEF Owned, Account, Encoder
  <2>8. Account(Handed(x), freed)'
    BY <1>1, <1>3, <2>1, <2>2, <2>6, <2>7 DEF Account, Handed
  <2>9. x <= made' /\ worker'.encoder <= made' /\ slot' <= made' /\ snapshot'.encoder <= made'
    BY <1>1, <1>3, <2>1, <2>2, <2>3
  <2> QED BY <1>1, <2>1, <2>5, <2>8, <2>9 DEF Owned
<1> QED BY <1>2, <1>3 DEF CreateEncoder

\* Steps that leave every encoder where it is.
LEMMA OwnedMoves ==
  ASSUME Course, NEW x \in Nat, Owned(x),
         StartAudio \/ Capture \/ LoopEnds \/ StopAudio \/ Decide \/ Finish \/ Leave
         \/ Enable \/ Disable \/ Disabled \/ DisableTimeout \/ Take \/ TakeStop \/ TakeTimeout
  PROVE  Owned(x)'
<1>1. worker \in WorkerType
  BY TypesSplit DEF Course, Rest
<1>2. UNCHANGED <<made, freed, slot, snapshot>>
  BY DEF StartAudio, Capture, LoopEnds, StopAudio, Decide, Finish, Leave, Enable, Disable,
         Disabled, DisableTimeout, Take, TakeStop, TakeTimeout, history, flags
<1>3. worker'.encoder = worker.encoder
  <2> USE <1>1 DEF WorkerType, Goto, Failing, history
  <2>1. CASE StartAudio
    BY <2>1 DEF StartAudio
  <2>2. CASE LoopEnds
    <3>1. Goto("stop") \/ Failing("stop")
      BY <2>2 DEF LoopEnds
    <3> QED BY <3>1
  <2>7. CASE StopAudio
    <3>1. Goto("decide") \/ Failing("decide")
      BY <2>7 DEF StopAudio
    <3> QED BY <3>1
  <2>6. CASE Decide \/ Finish
    BY <2>6 DEF Decide, Finish
  <2>3. CASE Leave
    BY <2>3 DEF Leave, Course, Turn
  <2>4. CASE Enable
    BY <2>4 DEF Enable, Course, Turn
  <2>5. CASE Capture \/ Disable \/ Disabled \/ DisableTimeout \/ Take \/ TakeStop \/ TakeTimeout
    BY <2>5 DEF Capture, Disable, Disabled, DisableTimeout, Take, TakeStop, TakeTimeout
  <2> QED BY <2>1, <2>2, <2>3, <2>4, <2>5, <2>6, <2>7
<1> QED BY <1>2, <1>3, OwnedKept

\* The worker gives its encoder away: into the slot, which is empty, or to its end.
LEMMA OwnedHandOver ==
  ASSUME Course, NEW x \in Nat, Owned(x), HandOver
  PROVE  Owned(x)'
<1>1. /\ worker \in WorkerType
      /\ worker' = [worker EXCEPT !.pc = "clear", !.encoder = 0]
      /\ UNCHANGED <<snapshot, made>>
  BY TypesSplit DEF Course, Rest, HandOver
<1>2. worker'.encoder = 0
  BY <1>1 DEF WorkerType
<1>3. /\ worker.encoder \in Nat /\ slot \in Nat /\ snapshot.encoder \in Nat /\ made \in Nat
      /\ x <= made /\ worker.encoder <= made /\ slot <= made /\ snapshot.encoder <= made
      /\ Account(Handed(x), freed) /\ Apart(worker.encoder, slot, snapshot.encoder, x)
  BY CourseTypes DEF Course, Owned
<1>4. CASE /\ worker.pc = "give" /\ slot' = worker.encoder
           /\ freed' = IF slot # 0 THEN Destroyed(slot) ELSE freed
  <2>1. slot = 0
    BY <1>4 DEF Course, Turn
  <2>2. freed' = freed
    BY <1>4, <2>1
  <2>3. \A e \in 1..made : e \in Handed(x) <=> e \in {0, worker.encoder, snapshot.encoder, x}
    BY <1>3, <2>1 DEF Handed
  <2>4. Apart(0, worker.encoder, snapshot.encoder, x)
    BY <1>3 DEF Apart
  <2> QED BY <1>1, <1>2, <1>3, <1>4, <2>2, <2>3, <2>4, OwnedNext
<1>5. CASE /\ worker.pc = "drop" /\ slot' = slot
           /\ freed' = IF worker.encoder # 0 THEN Destroyed(worker.encoder) ELSE freed
  <2> DEFINE H == Handed(x) \ {worker.encoder}
  <2>1. CASE worker.encoder # 0
    <3>1. Account(H, freed')
      BY <1>5, <2>1, DestroyedAccount DEF Course, Handed
    <3>2. \A e \in 1..made : e \in H <=> e \in {0, slot, snapshot.encoder, x}
      BY <1>3, <2>1 DEF Handed, Apart
    <3>3. Apart(0, slot, snapshot.encoder, x)
      BY <1>3 DEF Apart
    <3> QED BY <1>1, <1>2, <1>3, <1>5, <3>1, <3>2, <3>3, OwnedNext
  <2>2. CASE worker.encoder = 0
    BY <1>1, <1>2, <1>5, <2>2, OwnedKept
  <2> QED BY <2>1, <2>2
<1> QED BY <1>4, <1>5 DEF HandOver

\* The main task empties the slot, into the snapshot or to the encoder's end, or
\* releases the snapshot.
LEMMA OwnedMain ==
  ASSUME Course, Dropped, NEW x \in Nat, Owned(x),
         Taken \/ TakenNoMemory \/ Drained \/ Release
  PROVE  Owned(x)'
<1>1. /\ worker.encoder \in Nat /\ slot \in Nat /\ snapshot.encoder \in Nat /\ made \in Nat
      /\ x <= made /\ worker.encoder <= made /\ slot <= made /\ snapshot.encoder <= made
      /\ Account(Handed(x), freed) /\ Apart(worker.encoder, slot, snapshot.encoder, x)
      /\ Types
  BY CourseTypes DEF Course, Owned
<1>2. main # "holding" => snapshot.encoder = 0
  BY DEF Dropped, NoSnapshot
<1>3. ASSUME NEW y \in {slot, snapshot.encoder}, y # 0, worker' = worker, made' = made,
             freed' = Destroyed(y),
             slot' = (IF y = slot THEN 0 ELSE slot),
             snapshot'.encoder = (IF y = slot THEN snapshot.encoder ELSE 0)
      PROVE  Owned(x)'
  <2> DEFINE H == Handed(x) \ {y}
  <2>1. Account(H, freed')
    BY <1>1, <1>3, DestroyedAccount DEF Handed
  <2>2. \A e \in 1..made : e \in H <=> e \in {worker'.encoder, slot', snapshot'.encoder, x}
    BY <1>1, <1>3 DEF Handed, Apart
  <2>3. Apart(worker'.encoder, slot', snapshot'.encoder, x)
    BY <1>1, <1>3 DEF Apart
  <2>4. worker'.encoder <= made /\ slot' <= made /\ snapshot'.encoder <= made
    BY <1>1, <1>3
  <2> HIDE DEF H
  <2> QED BY <1>1, <1>3, <2>1, <2>2, <2>3, <2>4, OwnedNext
<1>4. CASE Taken
  <2>1. /\ worker' = worker /\ slot' = 0 /\ made' = made /\ freed' = freed
        /\ snapshot'.encoder = slot /\ snapshot.encoder = 0
    BY <1>2, <1>4 DEF Taken, history, Snapshot
  <2>2. \A e \in 1..made : e \in Handed(x) <=> e \in {worker'.encoder, slot', snapshot'.encoder, x}
    BY <1>1, <2>1 DEF Handed
  <2>3. Apart(worker'.encoder, slot', snapshot'.encoder, x)
    BY <1>1, <2>1 DEF Apart
  <2> QED BY <1>1, <2>1, <2>2, <2>3, OwnedNext
<1>5. CASE TakenNoMemory
  <2>1. /\ worker' = worker /\ slot' = 0 /\ made' = made /\ snapshot' = snapshot
        /\ freed' = IF slot # 0 THEN Destroyed(slot) ELSE freed
    BY <1>5 DEF TakenNoMemory
  <2> QED BY <1>3, <2>1, OwnedKept
<1>6. CASE Drained
  <2>1. /\ worker' = worker /\ slot' = 0 /\ made' = made /\ snapshot' = snapshot
        /\ freed' = IF slot # 0 THEN Destroyed(slot) ELSE freed
    BY <1>6 DEF Drained
  <2> QED BY <1>3, <2>1, OwnedKept
<1>7. CASE Release
  <2>1. /\ worker' = worker /\ slot' = slot /\ made' = made /\ snapshot'.encoder = 0
        /\ freed' = IF snapshot.encoder # 0 THEN Destroyed(snapshot.encoder) ELSE freed
    BY <1>7 DEF Release, NoSnapshot
  <2>2. CASE snapshot.encoder # 0
    <3>1. snapshot.encoder # slot
      BY <1>1, <2>2 DEF Apart
    <3> QED BY <1>3, <2>1, <2>2, <3>1
  <2>3. CASE snapshot.encoder = 0
    BY <1>1, <2>1, <2>3, OwnedNext DEF Handed
  <2> QED BY <2>2, <2>3
<1> QED BY <1>4, <1>5, <1>6, <1>7

\* Every step of the rolling buffer keeps custody.
LEMMA OwnedStep ==
  ASSUME Course, Dropped, NEW x \in Nat, Owned(x), Next
  PROVE  Owned(x)'
BY OwnedCreate, OwnedMoves, OwnedHandOver, OwnedMain DEF Next, Worker, Main

\* What EncoderOnce and Holding say is custody without a third owner.
LEMMA OwnedOnce ==
  ASSUME Course, Dropped, Owned(0)
  PROVE  EncoderOnce /\ Holding
<1>1. EncoderOnce
  <2>1. \A e \in 1..made : e # 0 /\ (e \in Handed(0) <=> e \in {worker.encoder, slot, snapshot.encoder})
    BY CourseTypes DEF Course, Handed
  <2>2. \A e \in 1..made : freed[e] = IF e \in Handed(0) THEN 0 ELSE 1
    BY DEF Owned, Account
  <2>3. Apart(worker.encoder, slot, snapshot.encoder, 0)
    BY DEF Owned
  <2> QED BY <2>1, <2>2, <2>3 DEF EncoderOnce, Apart
<1>2. \A e \in Encoder : e > made => freed[e] = 0
  BY DEF Owned, Account
<1> QED BY <1>1, <1>2 DEF Holding, Owned, Course, Turn, Dropped, NoSnapshot

-------------------------------------------------------------------------------
\* With this the buffer's own specification keeps all of it.
Whole == Course /\ Dropped /\ SnapshotWhole /\ Owned(0)

LEMMA WholeInit == Init => Whole
BY CourseInit, OwnedInit, EmptySnapshot DEF Init, Whole, Dropped, SnapshotWhole

LEMMA WholeStep == Whole /\ [Next]_vars => Whole'
<1> SUFFICES ASSUME Whole, [Next]_vars PROVE Whole'
  OBVIOUS
<1>1. CASE Next
  <2>1. Course' /\ Dropped' /\ SnapshotWhole'
    BY <1>1, CourseStep, SnapshotStep DEF Whole
  <2>2. Owned(0)'
    BY <1>1, OwnedStep DEF Whole
  <2> QED BY <2>1, <2>2 DEF Whole
<1>2. CASE UNCHANGED vars
  <2>1. Course'
    BY <1>2, CourseStutter DEF Whole
  <2>2. Dropped' /\ SnapshotWhole'
    BY <1>2 DEF Whole, Dropped, SnapshotWhole, SnapshotIntact, SnapshotContinues,
                vars, history
  <2>3. Owned(0)'
    BY <1>2, OwnedKept DEF Whole, vars, history
  <2> QED BY <2>1, <2>2, <2>3 DEF Whole
<1> QED BY <1>1, <1>2

\* The ring, the handles and the snapshot are of their types.
THEOREM TypeCorrect == Spec => []TypeOK
<1>1. Whole => TypeOK
  BY DEF Whole, Course, Types
<1> QED BY WholeInit, WholeStep, <1>1, PTL DEF Spec

\* Who may hold an encoder when: the invariant behind EncoderOnce.
THEOREM HoldingHolds == Spec => []Holding
<1>1. Whole => Holding
  BY OwnedOnce DEF Whole
<1> QED BY WholeInit, WholeStep, <1>1, PTL DEF Spec

\* No race between the worker's handover in rolling_audio.c and the waits of
\* rolling_audio_take leaks an encoder or destroys one twice.
THEOREM EncodersSafe == Spec => []EncoderOnce
<1>1. Holding => EncoderOnce
  BY DEF Holding
<1> QED BY HoldingHolds, <1>1, PTL

\* What rolling_audio_take returns is an unbroken run of whole frames which the
\* encoder that comes with it can continue, whatever was evicted on the way.
THEOREM SnapshotsWhole == Spec => []SnapshotWhole
<1>1. Whole => SnapshotWhole
  BY DEF Whole
<1> QED BY WholeInit, WholeStep, <1>1, PTL DEF Spec

\* Nothing a snapshot holds is older than the last stop of the buffer, as long as
\* the worker is never more than a second late.
THEOREM SnapshotsFresh == ASSUME ~Stalls PROVE Spec => []SnapshotFresh
<1>1. Init => Whole /\ SnapshotFresh
  BY WholeInit, EmptySnapshot DEF Init
<1>2. Whole /\ SnapshotFresh /\ [Next]_vars => Whole' /\ SnapshotFresh'
  <2> SUFFICES ASSUME Whole, SnapshotFresh, [Next]_vars PROVE Whole' /\ SnapshotFresh'
    OBVIOUS
  <2>1. CASE Next
    BY <2>1, WholeStep, FreshStep DEF Whole
  <2>2. CASE UNCHANGED vars
    BY <2>2, WholeStep DEF SnapshotFresh, vars, history
  <2> QED BY <2>1, <2>2
<1> QED BY <1>1, <1>2, PTL DEF Spec

-------------------------------------------------------------------------------
(***************************************************************************)
(* The invariant.                                                          *)
(***************************************************************************)

File == [state : {"none", "open", "published", "part"}, clean : BOOLEAN, pre_skip : {0, Skip},
         history : Seq(Frame), live : Seq(Frame \cup {Silence}), padded : BOOLEAN]

\* The types of what the recorder adds to the rolling buffer.
RecorderTypes ==
  /\ mode \in {"idle", "record", "play", "stopping"}
  /\ stop_requested \in BOOLEAN /\ capture_done \in BOOLEAN /\ error_code \in BOOLEAN
  /\ queue \in Seq(Frame) /\ Len(queue) <= QueueFrames
  /\ pre_roll \in Seq(Frame) /\ encoder \in 0..MaxEncoders
  /\ capture \in {"parked", "loop", "stop", "done"}
  /\ task \in {"none", "begin", "history", "live", "drain", "pad", "finish", "play",
               "leave", "quiet", "idle"}
  /\ port \in {"off", "rolling", "record", "play"}
  /\ file \in File /\ captured \in Seq(Frame)

\* The steps in which a recording has its encoder; in the middle three of them the
\* capture task runs, or has said that it is done.
Recording == {"begin", "history", "live", "drain", "pad", "finish"}
Listening == {"history", "live", "drain"}

\* Mode, worker and capture task fit together, and whoever records has the rolling
\* buffer switched off and empty.
Modes ==
  /\ mode = "idle" <=> task = "none"
  /\ mode = "stopping" <=> task \in {"quiet", "idle"}
  /\ task \in Recording \ {"begin"} => mode = "record"
  /\ task = "play" => mode = "play"
  /\ mode # "idle" => main \in {"idle", "disabling"}
  /\ mode = "record" => ~active /\ Kept = 0
  /\ task = "begin" => ~capture_done
  /\ capture # "parked" => ~capture_done /\ task \in Listening
  /\ task \in Listening => capture # "parked" \/ capture_done

\* Who has the port, from what the tasks are doing.
Ports ==
  /\ worker.pc \in {"loop", "stop"} <=> port = "rolling"
  /\ capture \in {"loop", "stop"} => port = "record"
  /\ task = "begin" => port = mode
  /\ task = "play" \/ mode = "play" => port = "play"
  /\ task \in {"none", "idle"} => port \in {"off", "rolling"}
  /\ task \notin {"none", "idle"} => port = "play" \/ (~active /\ port \in {"record", "off"})

\* What a recording is made with is there from its start to its end.
Kit ==
  /\ mode = "record" /\ task \in Recording <=> encoder # 0
  /\ pre_roll # <<>> => mode = "record" /\ task \in {"begin", "history"}
  /\ queue # <<>> => task \in Listening
  /\ \A i \in DOMAIN queue : queue[i] <= mic
  /\ task = "drain" => error_code

\* The history of the recording, before and after it is written.
Past == IF task \in {"begin", "history"} THEN pre_roll ELSE file.history

Opened ==
  /\ file.state = "open"
  /\ task \in {"begin", "history"} => file.history = <<>> /\ file.live = <<>>
  /\ task = "begin" => captured = <<>>

\* The history, and after it what was captured, end with the newest frame.
Numbered ==
  /\ Len(Past) + Len(captured) <= mic
  /\ \A i \in 1..Len(captured) : captured[i] = mic - Len(captured) + i
  /\ \A i \in 1..Len(Past) : Past[i] = mic - Len(captured) - Len(Past) + i

\* What was captured is in the file or in the queue.
Delivered ==
  IF task # "finish" THEN captured = file.live \o queue
  ELSE /\ file.padded
       /\ file.live = IF captured = <<>> THEN <<Silence>> ELSE captured

\* The pre-skip of the header fits the first frame, which without a history is the
\* first one of the recording's encoder.
Headed ==
  /\ Past # <<>> => (file.pre_skip = Skip <=> \E e \in 1..made : first[e] = Past[1])
  /\ Past = <<>> =>
       /\ file.pre_skip = Skip
       /\ first[encoder] = IF file.live = <<>> \/ captured = <<>> THEN 0 ELSE captured[1]

\* A recording under way, and one that has met no error.
Story == encoder # 0 => Opened /\ (~error_code => Numbered /\ Delivered /\ Headed)

\* What a snapshot promises the recording that will begin with it.
Ready ==
  /\ snapshot.encoder # 0 => snapshot.encoder_pre_skip = Skip
  /\ worker.pc \in {"loop", "stop", "give"} \/ (worker.pc = "decide" /\ ~worker.err) \/ slot # 0
     => ring.pre_skip = Skip
  /\ Len(snapshot.packets) <= mic
  /\ main = "holding" => \A i \in DOMAIN snapshot.packets :
                           Of(snapshot.packets[i]) = mic - Len(snapshot.packets) + i

\* A published recording stays as whole as it was published.
Done == Clean => RecordingWhole /\ Recorded # <<>> /\ Recorded[1] <= mic

\* The buffer beside the recorder, with the recording's encoder as its third owner.
Beside == Course /\ Dropped /\ SnapshotWhole /\ Owned(encoder) /\ Ready
Recorder == RecorderTypes /\ Modes /\ Ports /\ Kit /\ Story /\ Done
RecorderInv == Beside /\ Recorder

LEMMA RecorderInitially == RecorderInit => RecorderInv
<1> SUFFICES ASSUME RecorderInit PROVE RecorderInv
  OBVIOUS
<1>1. /\ Init /\ Kept = 0 /\ snapshot = NoSnapshot /\ mic = 0 /\ main = "idle" /\ slot = 0
      /\ worker = [pc |-> "none", encoder |-> 0, err |-> FALSE] /\ ~active
      /\ encoder = 0
  BY ClearedRing DEF RecorderInit, Init, Kept
<1>2. Beside
  <2>1. Course /\ Dropped /\ SnapshotWhole /\ Owned(encoder)
    BY <1>1, CourseInit, OwnedInit, EmptySnapshot DEF Dropped, SnapshotWhole
  <2>2. Ready
    BY <1>1 DEF Ready, NoSnapshot
  <2> QED BY <2>1, <2>2 DEF Beside
<1>3. RecorderTypes
  <2>1. 0 \in 0..MaxEncoders /\ 0 \in {0, Skip} /\ Len(queue) <= QueueFrames
    BY RollingAssumption, RecorderAssumption DEF RecorderInit
  <2>2. file \in File
    BY <2>1 DEF RecorderInit, NoFile, File
  <2>3. queue \in Seq(Frame) /\ pre_roll \in Seq(Frame) /\ captured \in Seq(Frame)
    BY DEF RecorderInit
  <2> QED BY <2>1, <2>2, <2>3, Zenon DEF RecorderInit, RecorderTypes
<1>4. Modes /\ Ports /\ Kit /\ Story /\ Done
  BY <1>1 DEF RecorderInit, Modes, Ports, Kit, Story, Done, Clean, NoFile, Recording, Listening
<1> QED BY <1>2, <1>3, <1>4 DEF RecorderInv, Recorder

-------------------------------------------------------------------------------
(***************************************************************************)
(* The steps, by what they touch.                                          *)
(***************************************************************************)

\* A step of the rolling buffer, as the recorder lets it happen.
Rolls == RollingMain \/ RollingWorker

\* Steps of the recorder that leave the rolling buffer and the encoder alone.
Alone == \/ PlayStart \/ LocalStop \/ CaptureEnds \/ CaptureStop \/ CaptureDone
         \/ Begin \/ AppendHistory \/ LiveEnds \/ Drain \/ Pad \/ PlayEnds
         \/ LeaveMode \/ Quiet \/ Idle

LEMMA RecorderSteps ==
  RecorderNext <=> \/ Rolls \/ Alone
                   \/ RecordStart \/ RecordNoEncoder \/ CaptureRead \/ Encode \/ FinishRecording
BY DEF RecorderNext, Rolls, Alone, RecorderMain, CaptureTask, RecordWorker

LEMMA AloneKeeps == Alone => UNCHANGED <<vars, encoder>>
BY DEF Alone, PlayStart, LocalStop, CaptureEnds, CaptureStop, CaptureDone, Begin,
       AppendHistory, LiveEnds, Drain, Pad, PlayEnds, LeaveMode, Quiet, Idle,
       vars, history, NoFail, Fail

LEMMA RollsKeeps ==
  Rolls => Next /\ UNCHANGED <<control, queue, pre_roll, encoder, tasks, file, captured>>
BY DEF Rolls, RollingMain, RollingWorker, Next, Main, Worker, recorder

LEMMA BesideTypes ==
  ASSUME Beside
  PROVE  /\ worker \in WorkerType /\ snapshot \in SnapshotType /\ main \in MainType
         /\ active \in BOOLEAN /\ Kept \in Nat
BY TypesSplit, CourseTypes DEF Beside, Course, Rest

\* While the recorder is busy the main task switches nothing on, so that a buffer
\* that is off stays as it is.
LEMMA RollsBusy ==
  ASSUME Beside, Modes, Rolls, mode # "idle"
  PROVE  /\ main' \in {"idle", "disabling"}
         /\ ~active => (Disable \/ Disabled) /\ UNCHANGED recorder
<1>1. main \in {"idle", "disabling"} /\ (~active => worker.pc = "none")
  BY DEF Modes, Beside, Course, Turn
<1>2. CASE RollingMain
  BY <1>1, <1>2 DEF RollingMain, Disable, Disabled, DisableTimeout, TakeStop, Taken,
                    TakenNoMemory, TakeTimeout, Drained, Release
<1>3. CASE RollingWorker
  BY <1>1, <1>3 DEF RollingWorker, CreateEncoder, Capture, LoopEnds, Decide, HandOver, Finish,
                    Leave, StartAudio, StopAudio
<1> QED BY <1>2, <1>3 DEF Rolls

\* A recording has the buffer to itself: it is off, empty, and nothing moves in it.
LEMMA RollsRecording ==
  ASSUME Beside, Modes, Rolls, mode = "record"
  PROVE  /\ UNCHANGED <<mic, made, first, freed, slot, worker, snapshot, recorder>>
         /\ ~active' /\ Kept' = 0
<1>1. ~active /\ Kept = 0 /\ (Disable \/ Disabled) /\ UNCHANGED recorder
  BY RollsBusy DEF Modes
<1>2. CASE Disable
  BY <1>1, <1>2 DEF Disable, Kept, history
<1>3. CASE Disabled
  <2>1. Kept' = 0
    BY <1>3, ClearedRing DEF Disabled, Kept
  <2> QED BY <1>1, <1>3, <2>1 DEF Disabled, flags
<1> QED BY <1>1, <1>2, <1>3

\* How the rolling worker moves the port.
LEMMA RollsPort ==
  ASSUME Beside, Rolls
  PROVE  \/ port' = port /\ (worker.pc \in {"loop", "stop"} <=> worker'.pc \in {"loop", "stop"})
         \/ port = "off" /\ port' = "rolling" /\ worker'.pc = "loop"
         \/ worker.pc = "stop" /\ port' = "off" /\ worker'.pc \notin {"loop", "stop"}
<1>1. worker \in WorkerType
  BY BesideTypes
<1>2. CASE RollingMain
  <2>1. port' = port
    BY <1>2 DEF RollingMain, recorder
  <2>2. worker' = worker \/ (~active /\ worker'.pc = "create")
    BY <1>2 DEF RollingMain, Enable, Take, Disable, Disabled, DisableTimeout, TakeStop, Taken,
                TakenNoMemory, TakeTimeout, Drained, Release
  <2>3. ~active => worker.pc = "none"
    BY DEF Beside, Course, Turn
  <2> QED BY <2>1, <2>2, <2>3
<1>3. CASE RollingWorker
  <2>1. CASE StartAudio /\ IF worker'.pc = "loop" THEN port = "off" /\ port' = "rolling"
                                                  ELSE UNCHANGED port
    BY <1>1, <2>1 DEF StartAudio, Goto, Failing, WorkerType
  <2>2. CASE StopAudio /\ port' = "off"
    BY <1>1, <2>2 DEF StopAudio, Goto, Failing, WorkerType
  <2>3. CASE /\ CreateEncoder \/ Capture \/ LoopEnds \/ Decide \/ HandOver \/ Finish \/ Leave
             /\ UNCHANGED recorder
    <3>1. port' = port
      BY <2>3 DEF recorder
    <3>2. worker.pc \in {"loop", "stop"} <=> worker'.pc \in {"loop", "stop"}
      <4> USE <1>1 DEF Goto, Failing, WorkerType
      <4>1. CASE CreateEncoder
        BY <4>1 DEF CreateEncoder
      <4>2. CASE Capture \/ LoopEnds
        BY <4>2 DEF Capture, LoopEnds
      <4>3. CASE Decide \/ HandOver
        BY <4>3 DEF Decide, HandOver
      <4>4. CASE Finish \/ Leave
        BY <4>4 DEF Finish, Leave
      <4> QED BY <2>3, <4>1, <4>2, <4>3, <4>4
    <3> QED BY <3>1, <3>2
  <2> QED BY <1>3, <2>1, <2>2, <2>3 DEF RollingWorker
<1> QED BY <1>2, <1>3 DEF Rolls

-------------------------------------------------------------------------------
(***************************************************************************)
(* The modes, the port and what a recording is made with.                  *)
(***************************************************************************)

LEMMA ModesStep ==
  ASSUME RecorderInv, RecorderNext
  PROVE  Modes'
<1>1. Modes /\ RecorderTypes /\ Beside
  BY DEF RecorderInv, Recorder
<1>2. main = "holding" => ~active /\ Kept = 0
  BY <1>1 DEF Beside, Course, Turn
<1>3. CASE Rolls
  <2>1. UNCHANGED <<mode, task, capture, capture_done>>
    BY <1>3, RollsKeeps DEF control, tasks
  <2>2. mode # "idle" => main' \in {"idle", "disabling"}
    BY <1>1, <1>3, RollsBusy
  <2>3. mode = "record" => ~active' /\ Kept' = 0
    BY <1>1, <1>3, RollsRecording
  <2> QED BY <1>1, <2>1, <2>2, <2>3 DEF Modes
<1>4. CASE Alone
  <2>1. UNCHANGED <<main, active>> /\ Kept' = Kept
    BY <1>4, AloneKeeps DEF vars, flags, Kept
  <2> USE <1>1, <2>1 DEF Modes, Recording, Listening, RecorderTypes, tasks, control
  <2>2. CASE PlayStart
    BY <2>2 DEF PlayStart, Started, NotStarted
  <2>3. CASE LocalStop \/ CaptureEnds
    BY <2>3 DEF LocalStop, CaptureEnds, NoFail, Fail
  <2>4. CASE CaptureStop \/ CaptureDone
    BY <2>4 DEF CaptureStop, CaptureDone
  <2>5. CASE Begin
    BY <2>5 DEF Begin
  <2>6. CASE AppendHistory
    BY <2>6 DEF AppendHistory
  <2>7. CASE LiveEnds \/ Drain \/ Pad
    BY <2>7 DEF LiveEnds, Drain, Pad, NoFail, Fail
  <2>8. CASE PlayEnds \/ LeaveMode
    BY <2>8 DEF PlayEnds, LeaveMode
  <2>9. CASE Quiet \/ Idle
    BY <2>9 DEF Quiet, Idle
  <2> QED BY <1>4, <2>2, <2>3, <2>4, <2>5, <2>6, <2>7, <2>8, <2>9 DEF Alone
<1>5. CASE RecordStart
  <2>1. UNCHANGED <<ring, active, capture>> /\ Kept' = Kept /\ main' = "idle" /\ mode = "idle"
        /\ ~active /\ Kept = 0
    BY <1>2, <1>5 DEF RecordStart, flags, Kept
  <2>2. \/ mode' = "record" /\ task' = "begin" /\ capture_done' = FALSE
        \/ UNCHANGED <<mode, task>> /\ capture_done' = FALSE
        \/ UNCHANGED <<mode, task, capture_done>>
    BY <1>5 DEF RecordStart, Started, NotStarted, control
  <2> QED BY <1>1, <2>1, <2>2 DEF Modes, Recording, Listening, RecorderTypes
<1>6. CASE RecordNoEncoder
  BY <1>1, <1>6 DEF RecordNoEncoder, Modes, recorder, control, tasks, flags, Kept
<1>7. CASE CaptureRead \/ Encode
  BY <1>1, <1>7 DEF CaptureRead, Encode, NoFail, Fail, Modes, Recording, Listening, control,
                    tasks, flags, Kept
<1>8. CASE FinishRecording
  BY <1>1, <1>8 DEF FinishRecording, Modes, Recording, Listening, control, tasks, flags, Kept
<1> QED BY <1>3, <1>4, <1>5, <1>6, <1>7, <1>8, RecorderSteps

LEMMA PortsStep ==
  ASSUME RecorderInv, RecorderNext
  PROVE  Ports'
<1>1. Ports /\ Modes /\ RecorderTypes /\ Beside
  BY DEF RecorderInv, Recorder
<1>2. main = "holding" => ~active
  BY <1>1 DEF Beside, Course, Turn
<1>3. CASE Rolls
  <2>1. UNCHANGED <<mode, task, capture>>
    BY <1>3, RollsKeeps DEF control, tasks
  <2>2. ~active /\ mode # "idle" => ~active' /\ port' = port
    <3>1. ~active /\ mode # "idle" => (Disable \/ Disabled) /\ UNCHANGED recorder
      BY <1>1, <1>3, RollsBusy
    <3> QED BY <3>1 DEF Disable, Disabled, flags, recorder
  <2> QED BY <1>1, <1>3, <2>1, <2>2, RollsPort DEF Ports, Modes
<1>4. CASE Alone
  <2>1. UNCHANGED <<worker, active>>
    BY <1>4, AloneKeeps DEF vars, flags
  <2> USE <1>1, <2>1 DEF Ports, Modes, Recording, Listening, RecorderTypes, tasks, control
  <2>2. CASE PlayStart
    BY <2>2 DEF PlayStart, Started, NotStarted
  <2>3. CASE LocalStop \/ CaptureEnds
    BY <2>3 DEF LocalStop, CaptureEnds, NoFail, Fail
  <2>4. CASE CaptureStop \/ CaptureDone
    BY <2>4 DEF CaptureStop, CaptureDone
  <2>5. CASE Begin
    BY <2>5 DEF Begin
  <2>6. CASE AppendHistory
    BY <2>6 DEF AppendHistory
  <2>7. CASE LiveEnds \/ Drain \/ Pad
    BY <2>7 DEF LiveEnds, Drain, Pad, NoFail, Fail
  <2>8. CASE PlayEnds \/ LeaveMode
    BY <2>8 DEF PlayEnds, LeaveMode
  <2>9. CASE Quiet \/ Idle
    BY <2>9 DEF Quiet, Idle
  <2> QED BY <1>4, <2>2, <2>3, <2>4, <2>5, <2>6, <2>7, <2>8, <2>9 DEF Alone
<1>5. CASE RecordStart
  <2>1. UNCHANGED <<worker, active, capture>> /\ mode = "idle" /\ ~active
    BY <1>2, <1>5 DEF RecordStart, flags
  <2>2. \/ mode' = "record" /\ task' = "begin" /\ port = "off" /\ port' = "record"
        \/ UNCHANGED <<mode, task, port>>
    BY <1>5 DEF RecordStart, Started, NotStarted, control
  <2> QED BY <1>1, <2>1, <2>2 DEF Ports, Modes, Recording, Listening, RecorderTypes
<1>6. CASE RecordNoEncoder
  BY <1>1, <1>6 DEF RecordNoEncoder, Ports, recorder, control, tasks, flags
<1>7. CASE CaptureRead \/ Encode
  BY <1>1, <1>7 DEF CaptureRead, Encode, NoFail, Fail, Ports, Modes, Recording, Listening,
                    control, tasks, flags
<1>8. CASE FinishRecording
  BY <1>1, <1>8 DEF FinishRecording, Ports, Modes, Recording, Listening, control, tasks, flags
<1> QED BY <1>3, <1>4, <1>5, <1>6, <1>7, <1>8, RecorderSteps

LEMMA KitStep ==
  ASSUME RecorderInv, RecorderNext
  PROVE  Kit'
<1>1. Kit /\ Ports /\ Modes /\ RecorderTypes /\ Beside
  BY DEF RecorderInv, Recorder
<1>2. mic \in Nat
  BY <1>1, CourseTypes DEF Beside, Course
<1>3. CASE Rolls
  <2>1. UNCHANGED <<mode, task, encoder, pre_roll, queue, error_code>>
    BY <1>3, RollsKeeps DEF control, tasks
  <2>2. queue # <<>> => mic' = mic
    <3>1. queue # <<>> => mode = "record"
      BY <1>1 DEF Kit, Modes, Listening, Recording
    <3> QED BY <1>1, <1>3, <3>1, RollsRecording
  <2>3. \A i \in DOMAIN queue' : queue'[i] <= mic'
    BY <1>1, <2>1, <2>2 DEF Kit
  <2> QED BY <1>1, <2>1, <2>3 DEF Kit
<1>4. CASE Alone
  <2>1. UNCHANGED <<mic, encoder>>
    BY <1>4, AloneKeeps DEF vars, history
  <2> USE <1>1, <2>1 DEF Kit, Ports, Modes, Recording, Listening, RecorderTypes, tasks, control
  <2>2. CASE PlayStart
    BY <2>2 DEF PlayStart, Started, NotStarted
  <2>3. CASE LocalStop \/ CaptureEnds
    BY <2>3 DEF LocalStop, CaptureEnds, NoFail, Fail
  <2>4. CASE CaptureStop \/ CaptureDone
    BY <2>4 DEF CaptureStop, CaptureDone
  <2>5. CASE Begin
    BY <2>5 DEF Begin
  <2>6. CASE AppendHistory
    BY <2>6 DEF AppendHistory, NoFail, Fail
  <2>7. CASE LiveEnds \/ Drain \/ Pad
    BY <2>7 DEF LiveEnds, Drain, Pad, NoFail, Fail
  <2>8. CASE PlayEnds \/ LeaveMode
    BY <2>8 DEF PlayEnds, LeaveMode, NoFail, Fail
  <2>9. CASE Quiet \/ Idle
    BY <2>9 DEF Quiet, Idle, NoFail, Fail
  <2> QED BY <1>4, <2>2, <2>3, <2>4, <2>5, <2>6, <2>7, <2>8, <2>9 DEF Alone
<1>5. CASE RecordStart
  <2>1. mode = "idle" /\ task = "none" /\ encoder = 0 /\ queue = <<>> /\ pre_roll = <<>>
    BY <1>1, <1>5 DEF RecordStart, Kit, Modes, Recording, Listening
  <2>2. mic' = mic /\ RecordEncoder # 0
    BY <1>5 DEF RecordStart, Encoder
  <2>3. \/ mode' = "record" /\ task' = "begin" /\ encoder' # 0 /\ queue' = <<>>
        \/ UNCHANGED <<mode, task, encoder, queue, pre_roll>>
    BY <1>5, <2>1, <2>2 DEF RecordStart, Started, NotStarted, control
  <2> QED BY <1>1, <2>1, <2>2, <2>3 DEF Kit, Recording, Listening
<1>6. CASE RecordNoEncoder
  BY <1>1, <1>6 DEF RecordNoEncoder, Kit, recorder, control, tasks, history
<1>7. CASE CaptureRead
  <2>1. /\ UNCHANGED <<mode, task, encoder, pre_roll>> /\ mic' = mic + 1 /\ task \in Listening
        /\ error_code' = error_code \/ error_code'
        /\ queue' = queue \/ queue' = Append(queue, mic + 1)
    BY <1>1, <1>7 DEF CaptureRead, Modes, NoFail, Fail
  <2>2. /\ queue \in Seq(Frame) /\ \A i \in DOMAIN queue : queue[i] \in Nat /\ queue[i] <= mic
        /\ DOMAIN queue = 1..Len(queue) /\ Len(queue) \in Nat
    BY <1>1, RollingAssumption DEF Kit, RecorderTypes, Frame
  <2>3. CASE queue' = queue
    <3>1. \A i \in DOMAIN queue' : queue'[i] <= mic'
      BY <1>2, <2>1, <2>2, <2>3
    <3> QED BY <1>1, <2>1, <3>1 DEF Kit, Recording, Listening
  <2>4. CASE queue' = Append(queue, mic + 1)
    <3>1. /\ DOMAIN queue' = 1..(Len(queue) + 1) /\ queue'[Len(queue) + 1] = mic + 1
          /\ \A i \in 1..Len(queue) : queue'[i] = queue[i]
      BY <2>2, <2>4
    <3>2. \A i \in DOMAIN queue' : queue'[i] <= mic'
      BY <1>2, <2>1, <2>2, <3>1
    <3> QED BY <1>1, <2>1, <3>2 DEF Kit, Recording, Listening
  <2> QED BY <2>1, <2>3, <2>4
<1>8. CASE Encode
  <2>1. /\ UNCHANGED <<mode, mic, encoder, pre_roll>> /\ queue' = Tail(queue) /\ queue # <<>>
        /\ task = "live" /\ (task' = "live" \/ (task' = "drain" /\ error_code'))
    BY <1>8 DEF Encode, Fail, NoFail
  <2>2. \A i \in DOMAIN queue' : queue'[i] <= mic'
    BY <1>1, <1>2, <2>1 DEF Kit, RecorderTypes, Frame
  <2>3. mode = "record"
    BY <1>1, <2>1 DEF Modes, Recording
  <2> QED BY <1>1, <2>1, <2>2, <2>3 DEF Kit, Recording, Listening
<1>9. CASE FinishRecording
  BY <1>1, <1>9 DEF FinishRecording, Kit, Modes, Recording, Listening, NoFail, Fail
<1> QED BY <1>3, <1>4, <1>5, <1>6, <1>7, <1>8, <1>9, RecorderSteps

-------------------------------------------------------------------------------
(***************************************************************************)
(* Types.                                                                  *)
(***************************************************************************)

\* The frames of a history are frames the microphone gave.
LEMMA HistoryIs ==
  ASSUME Beside, main = "holding"
  PROVE  /\ HistoryFrames \in Seq(Frame) /\ Len(HistoryFrames) <= mic
         /\ \A i \in 1..Len(HistoryFrames) : HistoryFrames[i] = mic - Len(HistoryFrames) + i
         /\ Len(HistoryFrames) = Len(snapshot.packets)
<1> DEFINE n == Len(snapshot.packets)
<1>1. mic \in Nat /\ mic <= MaxMic /\ MaxMic \in Nat
  BY CourseTypes DEF Beside, Course
<1>2. n \in Nat /\ DOMAIN snapshot.packets = 1..n /\ n <= mic
  BY BesideTypes DEF SnapshotType, Beside, Ready
<1>3. ASSUME NEW i \in 1..n
      PROVE  /\ snapshot.packets[i][1][1] = mic - n + i
             /\ snapshot.packets[i][1][1] \in Frame
  <2>1. snapshot.packets[i][1][1] = mic - n + i
    BY <1>2 DEF Beside, Ready, Of
  <2> HIDE DEF n
  <2> QED BY <1>1, <1>2, <2>1 DEF Frame
<1>4. HistoryFrames = [i \in 1..n |-> snapshot.packets[i][1][1]]
  BY <1>2 DEF HistoryFrames
<1> HIDE DEF n
<1>5. HistoryFrames \in Seq(Frame) /\ Len(HistoryFrames) = n
  BY <1>2, <1>3, <1>4
<1>6. \A i \in 1..n : HistoryFrames[i] = mic - n + i
  BY <1>3, <1>4
<1> QED BY <1>2, <1>5, <1>6 DEF n

LEMMA QueueGrows ==
  ASSUME NEW q \in Seq(Frame), NEW n \in Frame, Len(q) < QueueFrames
  PROVE  Append(q, n) \in Seq(Frame) /\ Len(Append(q, n)) <= QueueFrames
BY RecorderAssumption

LEMMA RecorderTypesStep ==
  ASSUME RecorderInv, RecorderNext
  PROVE  RecorderTypes'
<1>1. RecorderTypes /\ Kit /\ Modes /\ Beside
  BY DEF RecorderInv, Recorder
<1>2. /\ mic \in Nat /\ mic <= MaxMic /\ made \in Nat /\ made <= MaxEncoders
      /\ MaxEncoders \in Nat /\ MaxMic \in Nat
      /\ snapshot.pre_skip \in {0, Skip} /\ snapshot.encoder_pre_skip \in {0, Skip}
      /\ snapshot.encoder \in 0..MaxEncoders
  BY <1>1, CourseTypes, BesideTypes DEF Beside, Course, SnapshotType
<1>3. 0 \in 0..MaxEncoders /\ <<>> \in Seq(Frame) /\ Len(<<>>) <= QueueFrames
  BY <1>2, RecorderAssumption
<1> USE <1>1 DEF RecorderTypes, control, tasks
<1>4. CASE Rolls
  <2>1. UNCHANGED <<control, queue, pre_roll, encoder, tasks, file, captured>>
    BY <1>4, RollsKeeps
  <2>2. port' \in {"off", "rolling", "record", "play"}
    BY <1>4, RollsPort
  <2> QED BY <2>1, <2>2
<1>5. CASE Alone
  <2> USE <1>3 DEF NoFail, Fail
  <2>1. encoder' = encoder
    BY <1>5, AloneKeeps
  <2>2. CASE PlayStart
    BY <2>2 DEF PlayStart, Started, NotStarted
  <2>3. CASE LocalStop \/ CaptureEnds
    BY <2>3, ZenonT(60) DEF LocalStop, CaptureEnds
  <2>4. CASE CaptureStop \/ CaptureDone
    BY <2>4 DEF CaptureStop, CaptureDone
  <2>5. CASE Begin
    BY <2>5 DEF Begin
  <2>6. CASE AppendHistory
    <3>1. PICK k \in 0..Len(pre_roll) : file' = [file EXCEPT !.history = SubSeq(pre_roll, 1, k)]
      BY <2>6 DEF AppendHistory
    <3>2. SubSeq(pre_roll, 1, k) \in Seq(Frame)
      OBVIOUS
    <3>3. file' \in File
      BY <3>1, <3>2 DEF File
    <3> QED BY <2>6, <3>3 DEF AppendHistory
  <2>7. CASE LiveEnds \/ Drain
    BY <2>7 DEF LiveEnds, Drain
  <2>8. CASE Pad
    <3>1. file' \in File
      <4>1. <<Silence>> \in Seq(Frame \cup {Silence})
        OBVIOUS
      <4> QED BY <2>8, <4>1 DEF Pad, File
    <3> QED BY <2>8, <3>1 DEF Pad
  <2>9. CASE PlayEnds \/ LeaveMode
    BY <2>9, ZenonT(60) DEF PlayEnds, LeaveMode
  <2>10. CASE Quiet \/ Idle
    BY <2>10 DEF Quiet, Idle
  <2> QED BY <1>5, <2>2, <2>3, <2>4, <2>5, <2>6, <2>7, <2>8, <2>9, <2>10 DEF Alone
<1>6. CASE RecordStart
  <2>1. RecordEncoder \in 0..MaxEncoders /\ HistoryFrames \in Seq(Frame) /\ PreSkip \in {0, Skip}
    <3>1. RecordEncoder \in 0..MaxEncoders
      BY <1>2, <1>6 DEF RecordStart, Encoder
    <3>2. HistoryFrames \in Seq(Frame)
      BY <1>6, HistoryIs DEF RecordStart
    <3>3. PreSkip \in {0, Skip}
      BY <1>2 DEF PreSkip
    <3> QED BY <3>1, <3>2, <3>3
  <2>2. [NoFile EXCEPT !.state = "open", !.pre_skip = PreSkip] \in File
    <3>1. <<>> \in Seq(Frame \cup {Silence})
      OBVIOUS
    <3> HIDE DEF RecorderTypes
    <3> QED BY <1>3, <2>1, <3>1 DEF NoFile, File
  <2>3. \/ /\ Started("record") /\ encoder' = RecordEncoder /\ pre_roll' = HistoryFrames
           /\ file' = [NoFile EXCEPT !.state = "open", !.pre_skip = PreSkip]
           /\ captured' = <<>>
        \/ /\ NotStarted \/ UNCHANGED <<control, queue, task, port>>
           /\ UNCHANGED <<encoder, pre_roll, file, captured>>
    BY <1>6 DEF RecordStart
  <2>4. capture' = capture
    BY <1>6 DEF RecordStart
  <2>5. CASE /\ Started("record") /\ encoder' = RecordEncoder /\ pre_roll' = HistoryFrames
             /\ file' = [NoFile EXCEPT !.state = "open", !.pre_skip = PreSkip]
             /\ captured' = <<>>
    BY <1>3, <2>1, <2>2, <2>4, <2>5 DEF Started
  <2>6. CASE /\ NotStarted \/ UNCHANGED <<control, queue, task, port>>
             /\ UNCHANGED <<encoder, pre_roll, file, captured>>
    <3>1. /\ queue' \in Seq(Frame) /\ Len(queue') <= QueueFrames
          /\ UNCHANGED <<mode, task, port>>
          /\ stop_requested' \in BOOLEAN /\ capture_done' \in BOOLEAN /\ error_code' \in BOOLEAN
      <4>1. CASE NotStarted
        BY <1>3, <4>1, Zenon DEF NotStarted
      <4>2. CASE UNCHANGED <<control, queue, task, port>>
        BY <4>2
      <4> QED BY <2>6, <4>1, <4>2
    <3> QED BY <2>4, <2>6, <3>1
  <2> QED BY <2>3, <2>5, <2>6
<1>7. CASE RecordNoEncoder
  BY <1>7 DEF RecordNoEncoder, recorder
<1>8. CASE CaptureRead
  <2>1. mic + 1 \in Frame
    BY <1>2, <1>8 DEF CaptureRead, Frame
  <2>2. Append(captured, mic + 1) \in Seq(Frame)
    BY <2>1
  <2>3. queue' \in Seq(Frame) /\ Len(queue') <= QueueFrames
    BY <1>8, <2>1, QueueGrows DEF CaptureRead
  <2> QED BY <1>8, <2>2, <2>3 DEF CaptureRead, NoFail, Fail
<1>9. CASE Encode
  <2>1. queue' \in Seq(Frame) /\ Len(queue') <= QueueFrames /\ Head(queue) \in Frame \cup {Silence}
    BY <1>9, RecorderAssumption DEF Encode
  <2>2. file' \in File
    <3>1. Append(file.live, Head(queue)) \in Seq(Frame \cup {Silence})
      BY <2>1 DEF File
    <3>2. \/ file' = [file EXCEPT !.live = Append(file.live, Head(queue))]
          \/ file' = file
      BY <1>9 DEF Encode
    <3> QED BY <3>1, <3>2 DEF File
  <2> QED BY <1>9, <2>1, <2>2 DEF Encode, NoFail, Fail
<1>10. CASE FinishRecording
  <2>1. file' \in File
    BY <1>10 DEF FinishRecording, File
  <2> QED BY <1>3, <1>10, <2>1 DEF FinishRecording, NoFail, Fail
<1> QED BY <1>4, <1>5, <1>6, <1>7, <1>8, <1>9, <1>10, RecorderSteps

-------------------------------------------------------------------------------
(***************************************************************************)
(* The rolling buffer under a recorder that takes an encoder from it.      *)
(***************************************************************************)

\* The account of the encoders in a step that leaves the buffer's handles alone.
LEMMA OwnedStays ==
  ASSUME Owned(encoder), UNCHANGED <<made, freed, slot, snapshot, worker, encoder>>
  PROVE  Owned(encoder)'
BY DEF Owned, Account, Handed, Apart

LEMMA ReadyStep ==
  ASSUME Beside, Next
  PROVE  Ready'
<1>1. Course /\ Dropped /\ Ready /\ worker \in WorkerType /\ snapshot \in SnapshotType
      /\ mic \in Nat /\ Kept \in Nat
  BY BesideTypes, CourseTypes DEF Beside, Course
<1>2. Ready!1' /\ Ready!3' /\ Ready!4'
  <2>1. CASE Taken
    <3>1. /\ \A i \in DOMAIN snapshot'.packets : Of(snapshot'.packets[i]) = mic' - Kept + i
          /\ Len(snapshot'.packets) = Kept
      BY <1>1, <2>1, TakenWhole
    <3>2. mic' = mic /\ snapshot' = Snapshot
      BY <2>1 DEF Taken, history
    <3>3. Kept <= mic
      BY <1>1 DEF Course, Laid, Run, Kept
    <3>4. snapshot'.encoder = slot /\ snapshot'.encoder_pre_skip = ring.pre_skip
      BY <3>2 DEF Snapshot
    <3> QED BY <1>1, <3>1, <3>2, <3>3, <3>4 DEF Ready
  <2>2. CASE snapshot' = NoSnapshot
    <3>1. mic' \in Nat
      BY <1>1, CourseStep, TypesSplitNext, RollingAssumption DEF Course, Rest
    <3> QED BY <2>2, <3>1 DEF Ready, NoSnapshot
  <2> QED BY <1>1, <2>1, <2>2, SnapshotMoves
<1>3. Ready!2'
  <2> USE <1>1 DEF Ready, Goto, Failing, WorkerType, Course, Turn
  <2>1. CASE CreateEncoder \/ LoopEnds
    BY <2>1 DEF CreateEncoder, LoopEnds
  <2>2. CASE Capture
    <3>1. ring'.pre_skip = ring.pre_skip
      <4>1. mic + 1 \in Frame
        BY <2>2, RollingAssumption DEF Capture, Frame
      <4> HIDE DEF Turn
      <4> QED BY <2>2, <4>1, AppendedRun DEF Capture, Laid, Types
    <3> QED BY <2>2, <3>1 DEF Capture
  <2>3. CASE StopAudio \/ Decide
    BY <2>3 DEF StopAudio, Decide
  <2>4. CASE HandOver
    BY <2>4 DEF HandOver
  <2>5. CASE Finish \/ Leave
    BY <2>5 DEF Finish, Leave
  <2>6. CASE Enable
    BY <2>6 DEF Enable
  <2>7. CASE Disable \/ DisableTimeout \/ Take \/ TakeStop \/ TakeTimeout \/ Release
    BY <2>7 DEF Disable, DisableTimeout, Take, TakeStop, TakeTimeout, Release
  <2>8. CASE Disabled \/ Taken \/ TakenNoMemory \/ Drained
    BY <2>8 DEF Disabled, Taken, TakenNoMemory, Drained
  <2>9. CASE StartAudio
    <3>1. CASE Goto("loop") /\ ring' = [ring EXCEPT !.pre_skip = Skip]
      <4>1. ring \in Ring
        BY DEF Types
      <4>2. ring'.pre_skip = Skip
        BY <3>1, <4>1 DEF Ring
      <4> QED BY <4>2
    <3>2. CASE Failing("decide") /\ UNCHANGED <<ring, slot>>
      BY <2>9, <3>2 DEF StartAudio
    <3> QED BY <2>9, <3>1, <3>2 DEF StartAudio
  <2> QED BY <2>1, <2>2, <2>3, <2>4, <2>5, <2>6, <2>7, <2>8, <2>9 DEF Next, Worker, Main
<1> QED BY <1>2, <1>3 DEF Ready

LEMMA BesideRolls ==
  ASSUME Beside, encoder \in Nat, Rolls
  PROVE  Beside'
<1>1. Next /\ encoder' = encoder
  BY RollsKeeps
<1>2. PICK x \in Nat : x = encoder
  OBVIOUS
<1>3. Owned(x)'
  BY <1>1, <1>2, OwnedStep DEF Beside
<1>4. Owned(encoder)'
  BY <1>1, <1>2, <1>3 DEF Owned, Account, Handed, Apart
<1> QED BY <1>1, <1>4, CourseStep, SnapshotStep, ReadyStep DEF Beside

LEMMA BesideStutter ==
  ASSUME Beside, UNCHANGED <<vars, encoder>>
  PROVE  Beside'
<1>1. Course'
  BY CourseStutter DEF Beside
<1>2. Dropped' /\ SnapshotWhole' /\ Ready'
  BY DEF Beside, Dropped, SnapshotWhole, SnapshotIntact, SnapshotContinues, Ready, vars, history
<1>3. Owned(encoder)'
  BY OwnedStays DEF Beside, vars, history
<1> QED BY <1>1, <1>2, <1>3 DEF Beside

\* While nobody holds a snapshot there is none, and nothing is said of it.
LEMMA BesideIdle ==
  ASSUME mic' \in Nat, snapshot' = NoSnapshot, UNCHANGED <<ring, slot, worker>>, Ready
  PROVE  Dropped' /\ SnapshotWhole' /\ Ready'
<1>1. Ready'
  BY DEF Ready, NoSnapshot
<1> QED BY <1>1, EmptySnapshot DEF Dropped, SnapshotWhole

LEMMA BesideCapture ==
  ASSUME RecorderInv, CaptureRead
  PROVE  Beside'
<1>1. Beside /\ Course /\ Rest /\ RingFields /\ ring \in Ring
  BY TypesSplit DEF RecorderInv, Beside, Course
<1>2. /\ mic' = mic + 1 /\ mic < MaxMic
      /\ UNCHANGED <<ring, flags, slot, worker, main, snapshot, made, first, freed, paused,
                     encoder>>
  BY DEF CaptureRead
<1>3. mic \in Nat /\ paused \in Nat /\ MaxMic \in Nat /\ mic' \in Nat /\ mic' \in 0..MaxMic
      /\ first \in [Encoder -> 0..MaxMic]
  BY <1>1, <1>2, CourseTypes DEF Course
<1>4. Kept = 0 /\ main # "holding" /\ worker.encoder = 0 /\ slot = 0
  BY <1>1 DEF CaptureRead, RecorderInv, Recorder, Modes, Course, Turn, Recording, Listening
<1>5. Types'
  <2>1. Rest'
    BY <1>1, <1>2, <1>3 DEF Rest, flags
  <2> QED BY <1>1, <1>2, <2>1, TypesSplitNext DEF RingFields
<1>6. Laid'
  <2>1. PICK at : Run(ring, at, mic)
    BY <1>1 DEF Course, Laid
  <2>2. Run(ring, at, mic + 1)
    BY <1>3, <1>4, <2>1 DEF Run, Kept
  <2> QED BY <1>2, <2>2 DEF Laid
<1>7. Turn'
  BY <1>1, <1>2 DEF Course, Turn, Kept, flags
<1>8. Encoded' /\ Recent'
  <2>1. Kept' = 0
    BY <1>2, <1>4 DEF Kept
  <2>2. \A e \in Encoder : first[e] <= mic /\ first[e] \in Nat
    BY <1>1, <1>3 DEF Course, Encoded
  <2>3. \A e \in Encoder : first[e] <= mic + 1
    BY <1>3, <2>2
  <2>4. Encoded'
    BY <1>1, <1>2, <1>3, <1>4, <2>1, <2>3 DEF Course, Encoded, Kept
  <2>5. Recent'
    BY <1>1, <1>2, <1>3, <1>4, <2>1 DEF Course, Recent
  <2> QED BY <2>4, <2>5
<1>9. Owned(encoder)'
  BY <1>1, <1>2, OwnedStays DEF Beside
<1>10. Dropped' /\ SnapshotWhole' /\ Ready'
  <2>1. snapshot' = NoSnapshot
    BY <1>1, <1>2, <1>4 DEF Beside, Dropped
  <2> QED BY <1>1, <1>2, <1>3, <2>1, BesideIdle DEF Beside
<1> QED BY <1>5, <1>6, <1>7, <1>8, <1>9, <1>10 DEF Course, Beside

LEMMA BesideEncode ==
  ASSUME RecorderInv, Encode
  PROVE  Beside'
<1>1. Beside /\ Course /\ Rest /\ RingFields /\ ring \in Ring /\ RecorderTypes
  BY TypesSplit DEF RecorderInv, Recorder, Beside, Course
<1>2. /\ UNCHANGED <<ring, flags, slot, worker, main, snapshot, mic, made, freed, paused, encoder>>
      /\ Encodes(encoder, Head(queue)) \/ first' = first
      /\ task = "live" /\ queue # <<>>
  BY DEF Encode
<1>3. mic \in Nat /\ paused \in Nat /\ MaxMic \in Nat /\ made \in Nat /\ made <= MaxEncoders
      /\ MaxEncoders \in Nat /\ first \in [Encoder -> 0..MaxMic]
  BY <1>1, CourseTypes DEF Course
<1>4. Kept = 0 /\ main # "holding" /\ worker.encoder = 0 /\ slot = 0 /\ worker.pc = "none"
      /\ encoder # 0
  BY <1>1, <1>2 DEF RecorderInv, Recorder, Modes, Kit, Course, Turn, Recording, Listening
<1>5. encoder \in 1..made /\ encoder \in Encoder
  BY <1>1, <1>3, <1>4 DEF Beside, Owned, RecorderTypes, Encoder
<1>6. Head(queue) \in Frame /\ Head(queue) <= mic
  <2>1. queue \in Seq(Frame) /\ 1 \in DOMAIN queue
    BY <1>1, <1>2 DEF RecorderTypes
  <2> QED BY <1>2, <2>1 DEF RecorderInv, Recorder, Kit
<1>7. /\ first' \in [Encoder -> 0..MaxMic]
      /\ \A e \in Encoder : first'[e] = first[e] \/ (e = encoder /\ first'[e] = Head(queue))
  BY <1>2, <1>3, <1>5, <1>6 DEF Encodes, Frame
<1>8. Types'
  <2>1. Rest'
    BY <1>1, <1>2, <1>7 DEF Rest, flags
  <2> QED BY <1>1, <1>2, <2>1, TypesSplitNext DEF RingFields
<1>9. Laid' /\ Turn' /\ Recent'
  BY <1>1, <1>2 DEF Course, Laid, Turn, Recent, Kept, flags
<1>10. Encoded'
  <2>1. \A e \in Encoder : (e > made => first'[e] = 0) /\ first'[e] <= mic
    BY <1>1, <1>3, <1>5, <1>6, <1>7 DEF Course, Encoded
  <2>2. Kept' = 0
    BY <1>2, <1>4 DEF Kept
  <2> QED BY <1>1, <1>2, <1>4, <2>1, <2>2 DEF Course, Encoded
<1>11. Owned(encoder)'
  BY <1>1, <1>2, OwnedStays DEF Beside
<1>12. Dropped' /\ SnapshotWhole' /\ Ready'
  <2>1. snapshot' = NoSnapshot
    BY <1>1, <1>2, <1>4 DEF Beside, Dropped
  <2> QED BY <1>1, <1>2, <1>3, <2>1, BesideIdle DEF Beside
<1> QED BY <1>8, <1>9, <1>10, <1>11, <1>12 DEF Course, Beside

\* With the handles of the buffer empty only the recording may own an encoder.
LEMMA SoleOwner ==
  ASSUME worker'.encoder = 0, slot' = 0, snapshot' = NoSnapshot,
         made' \in Nat, encoder' \in Nat, encoder' <= made', freed' \in [Encoder -> Nat],
         \A e \in 1..made' : freed'[e] = IF e = encoder' THEN 0 ELSE 1,
         \A e \in Encoder : e > made' => freed'[e] = 0
  PROVE  Owned(encoder)'
<1>1. snapshot'.encoder = 0
  BY DEF NoSnapshot
<1>2. \A e \in 1..made' : e \in Handed(encoder)' <=> e = encoder'
  BY <1>1 DEF Handed
<1>3. Account(Handed(encoder), freed)'
  BY <1>2, Zenon DEF Account
<1> QED BY <1>1, <1>3 DEF Owned, Apart

\* Before a start and during a recording the buffer's own handles are empty.
LEMMA BufferOff ==
  ASSUME RecorderInv, main = "holding" \/ mode = "record"
  PROVE  /\ worker.pc = "none" /\ worker.encoder = 0 /\ slot = 0 /\ Kept = 0 /\ ~active
         /\ ~handoff_requested
BY DEF RecorderInv, Recorder, Beside, Modes, Course, Turn

LEMMA BesideRecord ==
  ASSUME RecorderInv, RecordStart
  PROVE  Beside'
<1>1. Beside /\ Course /\ Rest /\ RingFields /\ ring \in Ring /\ RecorderTypes
  BY TypesSplit DEF RecorderInv, Recorder, Beside, Course
<1>2. /\ UNCHANGED <<ring, flags, slot, worker, mic, first, paused>> /\ main' = "idle"
      /\ snapshot' = NoSnapshot /\ RecordEncoder \in Encoder
      /\ made' = IF snapshot.encoder # 0 THEN made ELSE made + 1
      /\ \/ encoder' = RecordEncoder /\ freed' = freed
         \/ encoder' = encoder /\ freed' = Destroyed(RecordEncoder)
  BY DEF RecordStart, Moved
<1>3. /\ mic \in Nat /\ made \in Nat /\ made <= MaxEncoders /\ MaxEncoders \in Nat
      /\ first \in [Encoder -> 0..MaxMic] /\ freed \in [Encoder -> Nat]
      /\ snapshot.encoder \in Nat
  BY <1>1, CourseTypes DEF Course
<1>4. /\ worker.pc = "none" /\ worker.encoder = 0 /\ slot = 0 /\ Kept = 0 /\ ~active
      /\ ~handoff_requested
  BY BufferOff DEF RecordStart
<1>5. encoder = 0
  BY DEF RecordStart, RecorderInv, Recorder, Kit
<1>6. made' \in Nat /\ made' <= MaxEncoders /\ RecordEncoder \in 1..made' /\ made <= made'
  BY <1>1, <1>2, <1>3 DEF RecordEncoder, Encoder, Beside, Owned
<1>7. Destroyed(RecordEncoder) \in [Encoder -> Nat]
  BY <1>2, <1>3 DEF Destroyed
<1>8. Types'
  <2>1. NoSnapshot \in SnapshotType
    BY RollingAssumption DEF NoSnapshot, SnapshotType
  <2>2. Rest'
    BY <1>1, <1>2, <1>3, <1>6, <1>7, <2>1 DEF Rest, flags, MainType
  <2> QED BY <1>1, <1>2, <2>2, TypesSplitNext DEF RingFields
<1>9. Laid' /\ Recent'
  BY <1>1, <1>2 DEF Course, Laid, Recent, Kept
<1>10. Turn'
  BY <1>1, <1>2, <1>4 DEF Course, Turn, flags
<1>11. Encoded'
  <2>1. \A e \in Encoder : (e > made' => first[e] = 0) /\ first[e] <= mic
    BY <1>1, <1>3, <1>6 DEF Course, Encoded, Encoder
  <2>2. Kept' = 0
    BY <1>2, <1>4 DEF Kept
  <2> QED BY <1>1, <1>2, <1>4, <2>1, <2>2 DEF Course, Encoded
<1>12. Owned(encoder)'
  <2>1. /\ \A e \in 1..made : freed[e] = IF e = snapshot.encoder THEN 0 ELSE 1
        /\ \A e \in Encoder : e > made => freed[e] = 0
    <3>1. Account(Handed(0), freed)
      BY <1>1, <1>5 DEF Beside, Owned
    <3>2. \A e \in 1..made : e \in Handed(0) <=> e = snapshot.encoder
      BY <1>3, <1>4 DEF Handed
    <3> QED BY <3>1, <3>2 DEF Account
  <2>2. \A e \in 1..made' : e \in Encoder /\ (e \in 1..made \/ (e = RecordEncoder /\ e > made))
    BY <1>2, <1>3, <1>6 DEF RecordEncoder, Encoder
  <2>3. \A e \in 1..made' : freed[e] = IF e = RecordEncoder THEN 0 ELSE 1
    <3> SUFFICES ASSUME NEW e \in 1..made' PROVE freed[e] = IF e = RecordEncoder THEN 0 ELSE 1
      OBVIOUS
    <3>1. CASE snapshot.encoder # 0
      BY <1>2, <2>1, <3>1 DEF RecordEncoder
    <3>2. CASE snapshot.encoder = 0
      BY <1>3, <2>1, <2>2, <3>2 DEF RecordEncoder
    <3> QED BY <3>1, <3>2
  <2>4. \A e \in Encoder : e > made' => freed[e] = 0
    BY <1>3, <1>6, <2>1 DEF Encoder
  <2>5. CASE encoder' = RecordEncoder /\ freed' = freed
    BY <1>2, <1>3, <1>4, <1>6, <2>3, <2>4, <2>5, SoleOwner
  <2>6. CASE encoder' = encoder /\ freed' = Destroyed(RecordEncoder)
    <3>1. \A e \in Encoder : freed'[e] = IF e = RecordEncoder THEN freed[e] + 1 ELSE freed[e]
      BY <1>2, <1>3, <2>6 DEF Destroyed
    <3>2. \A e \in 1..made' : freed'[e] = IF e = encoder' THEN 0 ELSE 1
      BY <1>5, <2>2, <2>3, <2>6, <3>1
    <3>3. \A e \in Encoder : e > made' => freed'[e] = 0
      BY <1>3, <1>6, <2>4, <3>1 DEF Encoder
    <3> QED BY <1>2, <1>4, <1>5, <1>6, <1>7, <2>6, <3>2, <3>3, SoleOwner
  <2> QED BY <1>2, <2>5, <2>6
<1>13. Dropped' /\ SnapshotWhole' /\ Ready'
  BY <1>1, <1>2, <1>3, BesideIdle DEF Beside
<1> QED BY <1>8, <1>9, <1>10, <1>11, <1>12, <1>13 DEF Course, Beside

LEMMA BesideNoEncoder ==
  ASSUME RecorderInv, RecordNoEncoder
  PROVE  Beside'
<1>1. Beside /\ Course /\ Rest /\ RingFields /\ ring \in Ring
  BY TypesSplit DEF RecorderInv, Beside, Course
<1>2. /\ UNCHANGED <<ring, flags, slot, worker, history, encoder>> /\ main' = "idle"
      /\ snapshot' = NoSnapshot /\ snapshot.encoder = 0
  BY DEF RecordNoEncoder, Moved, recorder
<1>3. slot = 0 /\ worker.pc = "none" /\ ~handoff_requested /\ mic \in Nat
  BY <1>1, BufferOff, CourseTypes DEF RecordNoEncoder, Course
<1>4. Types'
  <2>1. NoSnapshot \in SnapshotType
    BY RollingAssumption DEF NoSnapshot, SnapshotType
  <2>2. Rest'
    BY <1>1, <1>2, <2>1 DEF Rest, flags, history, MainType
  <2> QED BY <1>1, <1>2, <2>2, TypesSplitNext DEF RingFields
<1>5. Laid' /\ Recent' /\ Encoded'
  BY <1>1, <1>2 DEF Course, Laid, Recent, Encoded, Kept, history
<1>6. Turn'
  BY <1>1, <1>2, <1>3 DEF Course, Turn, flags, history
<1>7. Owned(encoder)'
  <2>1. snapshot'.encoder = snapshot.encoder
    BY <1>2 DEF NoSnapshot
  <2> QED BY <1>1, <1>2, <2>1 DEF Beside, Owned, Account, Handed, Apart, history
<1>8. Dropped' /\ SnapshotWhole' /\ Ready'
  BY <1>1, <1>2, <1>3, BesideIdle DEF Beside, history
<1> QED BY <1>4, <1>5, <1>6, <1>7, <1>8 DEF Course, Beside

LEMMA BesideFinish ==
  ASSUME RecorderInv, FinishRecording
  PROVE  Beside'
<1>1. Beside /\ Course /\ Rest /\ RingFields /\ ring \in Ring /\ RecorderTypes
  BY TypesSplit DEF RecorderInv, Recorder, Beside, Course
<1>2. /\ UNCHANGED <<ring, flags, slot, worker, main, snapshot, mic, made, first, paused>>
      /\ freed' = Destroyed(encoder) /\ encoder' = 0 /\ task = "finish"
  BY DEF FinishRecording
<1>3. mode = "record" /\ encoder # 0 /\ main # "holding"
  BY <1>2 DEF RecorderInv, Recorder, Modes, Kit, Recording, Listening
<1>4. worker.encoder = 0 /\ slot = 0 /\ snapshot = NoSnapshot /\ snapshot.encoder = 0
  BY <1>1, <1>3, BufferOff DEF Beside, Dropped, NoSnapshot
<1>5. /\ mic \in Nat /\ made \in Nat /\ MaxEncoders \in Nat /\ freed \in [Encoder -> Nat]
      /\ encoder \in 1..made /\ encoder \in Encoder /\ made <= MaxEncoders
  BY <1>1, <1>3, CourseTypes DEF Course, Beside, Owned, RecorderTypes, Encoder
<1>6. freed' \in [Encoder -> Nat]
  BY <1>2, <1>5 DEF Destroyed
<1>7. Types'
  <2>1. Rest'
    BY <1>1, <1>2, <1>6 DEF Rest, flags
  <2> QED BY <1>1, <1>2, <2>1, TypesSplitNext DEF RingFields
<1>8. Laid' /\ Recent' /\ Encoded' /\ Turn'
  BY <1>1, <1>2 DEF Course, Laid, Recent, Encoded, Turn, Kept, flags
<1>9. Owned(encoder)'
  <2>1. \A e \in Encoder : freed'[e] = IF e = encoder THEN freed[e] + 1 ELSE freed[e]
    BY <1>2, <1>5 DEF Destroyed
  <2>2. Account(Handed(encoder), freed)
    BY <1>1 DEF Beside, Owned
  <2>3. \A e \in 1..made : e \in Encoder /\ freed[e] = IF e = encoder THEN 0 ELSE 1
    BY <1>4, <1>5, <2>2 DEF Account, Handed, Encoder
  <2>4. \A e \in 1..made' : freed'[e] = IF e = encoder' THEN 0 ELSE 1
    BY <1>2, <1>5, <2>1, <2>3
  <2>5. \A e \in Encoder : e > made' => freed'[e] = 0
    BY <1>2, <1>5, <2>1, <2>2 DEF Account, Encoder
  <2> QED BY <1>2, <1>4, <1>5, <1>6, <2>4, <2>5, SoleOwner
<1>10. Dropped' /\ SnapshotWhole' /\ Ready'
  BY <1>1, <1>2, <1>4, <1>5, BesideIdle DEF Beside
<1> QED BY <1>7, <1>8, <1>9, <1>10 DEF Course, Beside

LEMMA BesideStep ==
  ASSUME RecorderInv, RecorderNext
  PROVE  Beside'
<1>1. Beside /\ encoder \in Nat
  BY RollingAssumption DEF RecorderInv, Recorder, RecorderTypes
<1> QED BY <1>1, RecorderSteps, AloneKeeps, BesideRolls, BesideStutter, BesideRecord,
           BesideNoEncoder, BesideCapture, BesideEncode, BesideFinish

-------------------------------------------------------------------------------
(***************************************************************************)
(* The story of a recording.                                               *)
(***************************************************************************)

\* Steps that leave the frames of a recording where they are.
LEMMA StoryMoves ==
  ASSUME Story, UNCHANGED <<mic, made, first, encoder, captured, file, queue>>, Past' = Past,
         error_code => error_code', task' \in {"begin", "history"} => task \in {"begin", "history"},
         task' = "begin" => task = "begin", task' = "finish" <=> task = "finish"
  PROVE  Story'
<1> SUFFICES ASSUME encoder # 0
             PROVE  Opened' /\ (~error_code' => Numbered' /\ Delivered' /\ Headed')
  BY DEF Story
<1>1. Opened'
  BY DEF Story, Opened
<1>2. ASSUME ~error_code' PROVE Numbered' /\ Delivered' /\ Headed'
  <2>1. Numbered /\ Delivered /\ Headed
    BY <1>2 DEF Story
  <2>2. Numbered'
    BY <2>1 DEF Numbered
  <2>3. Delivered'
    BY <2>1 DEF Delivered
  <2>4. Headed'
    BY <2>1 DEF Headed
  <2> QED BY <2>2, <2>3, <2>4
<1> QED BY <1>1, <1>2

LEMMA Associative == \A u, v, w \in Seq(Nat) : (u \o v) \o w = u \o (v \o w)
BY ConcatAssociative, SMTT(30)

LEMMA Appends == \A s \in Seq(Nat), n \in Nat : Append(s, n) # <<>>
<1> SUFFICES ASSUME NEW s \in Seq(Nat), NEW n \in Nat PROVE Append(s, n) # <<>>
  OBVIOUS
<1>1. Len(Append(s, n)) = Len(s) + 1 /\ Len(s) \in Nat /\ Len(<<>>) = 0
  BY AppendProperties
<1> QED BY <1>1

\* A frame that joins the queue, or leaves it for the file, keeps its place.
LEMMA QueueJoined ==
  ASSUME NEW s \in Seq(Nat), NEW q \in Seq(Nat), NEW n \in Nat
  PROVE  s \o Append(q, n) = Append(s \o q, n)
<1>1. <<n>> \in Seq(Nat) /\ s \o q \in Seq(Nat)
  OBVIOUS
<1>2. Append(q, n) = q \o <<n>> /\ Append(s \o q, n) = (s \o q) \o <<n>>
  BY <1>1, AppendIsConcat, Zenon
<1>3. (s \o q) \o <<n>> = s \o (q \o <<n>>)
  BY <1>1, Associative, Zenon
<1> QED BY <1>2, <1>3, Zenon

LEMMA QueueLeft ==
  ASSUME NEW s \in Seq(Nat), NEW q \in Seq(Nat), q # <<>>
  PROVE  s \o q = Append(s, Head(q)) \o Tail(q)
<1> DEFINE h == Head(q)
           r == Tail(q)
<1>1. h \in Nat /\ r \in Seq(Nat) /\ <<h>> \in Seq(Nat)
  BY HeadTailProperties
<1>2. q = <<h>> \o r
  <2>1. Len(q) = 1 + Len(r) /\ Len(q) \in Nat /\ Len(r) \in Nat /\ q[1] = h
        /\ \A i \in 1..Len(r) : r[i] = q[i + 1]
    BY HeadTailProperties
  <2> HIDE DEF h, r
  <2>2. <<h>> \o r \in Seq(Nat) /\ Len(<<h>> \o r) = 1 + Len(r)
        /\ \A i \in 1..(1 + Len(r)) : (<<h>> \o r)[i] = IF i <= 1 THEN h ELSE r[i - 1]
    BY <1>1
  <2>3. ASSUME NEW i \in 1..Len(q) PROVE q[i] = (<<h>> \o r)[i]
    <3>1. CASE i = 1
      BY <2>1, <2>2, <3>1
    <3>2. CASE i # 1
      <4>1. i - 1 \in 1..Len(r) /\ (i - 1) + 1 = i /\ ~(i <= 1)
        BY <2>1, <3>2
      <4> QED BY <2>1, <2>2, <4>1
    <3> QED BY <3>1, <3>2
  <2> QED BY <2>1, <2>2, <2>3, SeqEqual
<1>3. Append(s, h) = s \o <<h>>
  BY <1>1, AppendIsConcat, Zenon
<1> HIDE DEF h, r
<1>4. (s \o <<h>>) \o r = s \o (<<h>> \o r)
  BY <1>1, Associative, Zenon
<1>5. s \o q = Append(s, h) \o r
  BY <1>2, <1>3, <1>4, Zenon
<1> QED BY <1>5 DEF h, r

\* What is known of a recording under way, spelled out.
LEMMA StoryIs ==
  ASSUME RecorderInv, encoder # 0
  PROVE  /\ mode = "record" /\ task \in Recording /\ Opened /\ main # "holding"
         /\ encoder \in 1..made /\ 1..made \subseteq Encoder /\ made \in Nat
         /\ mic \in Nat /\ first \in [Encoder -> Nat]
         /\ file \in File /\ captured \in Seq(Nat) /\ queue \in Seq(Nat) /\ pre_roll \in Seq(Nat)
         /\ file.history \in Seq(Nat) /\ file.live \in Seq(Nat) /\ Past \in Seq(Nat)
         /\ ~error_code => Numbered /\ Delivered /\ Headed
<1>1. /\ made \in Nat /\ made <= MaxEncoders /\ MaxEncoders \in Nat /\ mic \in Nat
      /\ first \in [Encoder -> 0..MaxMic] /\ MaxMic \in Nat
  BY CourseTypes DEF RecorderInv, Beside, Course
<1>2. mode = "record" /\ task \in Recording /\ Opened /\ main # "holding"
      /\ (~error_code => Numbered /\ Delivered /\ Headed)
  BY DEF RecorderInv, Recorder, Kit, Story, Modes
<1>3. encoder \in 1..made /\ 1..made \subseteq Encoder
  BY <1>1 DEF RecorderInv, Recorder, RecorderTypes, Beside, Owned, Encoder
<1>4. Frame \subseteq Nat /\ Frame \cup {Silence} \subseteq Nat
  BY DEF Frame, Silence
<1>5. RecorderTypes
  BY DEF RecorderInv, Recorder
<1>6. file.history \in Seq(Frame) /\ file.live \in Seq(Frame \cup {Silence})
  BY <1>5 DEF RecorderTypes, File
<1>7. \A s : s \in Seq(Frame) => s \in Seq(Nat)
  BY <1>4
<1>8. \A s : s \in Seq(Frame \cup {Silence}) => s \in Seq(Nat)
  BY <1>4
<1>9. captured \in Seq(Nat) /\ queue \in Seq(Nat) /\ pre_roll \in Seq(Nat)
      /\ file.history \in Seq(Nat) /\ file.live \in Seq(Nat)
  BY <1>5, <1>6, <1>7, <1>8 DEF RecorderTypes
<1>10. Past \in Seq(Nat)
  BY <1>9 DEF Past
<1>11. first \in [Encoder -> Nat] /\ file \in File
  BY <1>1, <1>5 DEF RecorderTypes
<1> QED BY <1>1, <1>2, <1>3, <1>9, <1>10, <1>11

LEMMA StoryRecord ==
  ASSUME RecorderInv, RecordStart
  PROVE  Story'
<1>1. encoder = 0 /\ Beside
  BY DEF RecordStart, RecorderInv, Recorder, Kit
<1> SUFFICES ASSUME /\ Started("record") /\ encoder' = RecordEncoder /\ pre_roll' = HistoryFrames
                    /\ file' = [NoFile EXCEPT !.state = "open", !.pre_skip = PreSkip]
                    /\ captured' = <<>>
             PROVE  Story'
  BY <1>1 DEF RecordStart, Story
<1> DEFINE h == HistoryFrames
           packets == snapshot.packets
<1>2. /\ h \in Seq(Frame) /\ Len(h) <= mic /\ Len(h) = Len(packets)
      /\ \A i \in 1..Len(h) : h[i] = mic - Len(h) + i
  BY <1>1, HistoryIs DEF RecordStart
<1>3. /\ task' = "begin" /\ queue' = <<>> /\ mic' = mic /\ first' = first
      /\ made' = IF snapshot.encoder # 0 THEN made ELSE made + 1
      /\ RecordEncoder \in Encoder
  BY DEF RecordStart, Started
<1>4. /\ file'.state = "open" /\ file'.history = <<>> /\ file'.live = <<>>
      /\ file'.pre_skip = PreSkip
  BY DEF NoFile
<1>5. /\ mic \in Nat /\ made \in Nat /\ Skip \in Nat \ {0} /\ snapshot.encoder \in Nat
      /\ snapshot.encoder <= made
      /\ \A e \in Encoder : e > made => first[e] = 0
  BY <1>1, CourseTypes DEF Beside, Course, Encoded, Owned
<1>6. Past' = h
  BY <1>3 DEF Past
<1>7. Opened' /\ Delivered'
  BY <1>3, <1>4 DEF Opened, Delivered
<1>8. Numbered'
  <2>1. Len(captured') = 0
    OBVIOUS
  <2> HIDE DEF h
  <2>2. Len(h) \in Nat
    BY <1>2
  <2> QED BY <1>2, <1>3, <1>5, <1>6, <2>1, <2>2 DEF Numbered
<1>9. snapshot \in SnapshotType /\ packets \in Seq(Seq(Byte \cup {Unwritten}))
  BY <1>1, BesideTypes DEF SnapshotType
<1>10. h = <<>> <=> packets = <<>>
  <2> HIDE DEF h, packets
  <2> QED BY <1>2, <1>9
<1>11. SnapshotContinues!1 /\ Ready
  BY <1>1 DEF Beside, SnapshotWhole, RecordStart
<1>12. CASE h = <<>>
  <2>1. file'.pre_skip = Skip
    BY <1>4, <1>10, <1>11, <1>12 DEF PreSkip, Ready
  <2>2. first[RecordEncoder] = 0
    <3>1. CASE snapshot.encoder # 0
      BY <1>10, <1>12, <3>1 DEF Beside, SnapshotWhole, SnapshotContinues, RecordStart,
                                RecordEncoder, RecorderInv
    <3>2. CASE snapshot.encoder = 0
      BY <1>3, <1>5, <3>2 DEF RecordEncoder
    <3> QED BY <3>1, <3>2
  <2>3. Headed'
    <3> HIDE DEF h
    <3> QED BY <1>3, <1>4, <1>6, <1>12, <2>1, <2>2 DEF Headed
  <2> QED BY <1>7, <1>8, <2>3 DEF Story
<1>13. CASE h # <<>>
  <2> DEFINE from == Of(packets[1])
  <2>1. packets # <<>> /\ file'.pre_skip = snapshot.pre_skip
    BY <1>4, <1>10, <1>13 DEF PreSkip
  <2>2. h[1] = from /\ from \in Frame
    <3>1. 1 \in 1..Len(h) /\ 1 \in DOMAIN packets
      <4> HIDE DEF h, packets
      <4> QED BY <1>2, <1>9, <1>13
    <3>2. h[1] = from
      BY <3>1 DEF HistoryFrames, Of
    <3>3. h[1] \in Frame
      <4> HIDE DEF h
      <4> QED BY <1>2, <3>1
    <3> QED BY <3>2, <3>3
  <2>3. snapshot.pre_skip = Skip <=> \E e \in 1..made : first[e] = from
    BY <2>1 DEF Beside, SnapshotWhole, SnapshotContinues, RecordStart, RecorderInv
  <2> HIDE DEF from, h
  <2>4. (\E e \in 1..made : first[e] = from) <=> (\E e \in 1..made' : first[e] = from)
    <3>1. from # 0
      BY <2>2 DEF Frame
    <3>2. made' = made \/ (made' = made + 1 /\ first[made + 1] = 0)
      BY <1>3, <1>5 DEF RecordEncoder
    <3> QED BY <1>5, <3>1, <3>2
  <2>5. Headed'
    BY <1>3, <1>4, <1>6, <1>13, <2>1, <2>2, <2>3, <2>4 DEF Headed
  <2> QED BY <1>7, <1>8, <2>5 DEF Story
<1> QED BY <1>12, <1>13

LEMMA StoryCapture ==
  ASSUME RecorderInv, CaptureRead
  PROVE  Story'
<1>1. /\ UNCHANGED <<made, first, encoder, task, file, pre_roll>>
      /\ mic' = mic + 1 /\ captured' = Append(captured, mic + 1)
      /\ (queue' = Append(queue, mic + 1) /\ error_code' = error_code) \/ error_code'
      /\ task \in Listening
  BY DEF CaptureRead, NoFail, Fail, RecorderInv, Recorder, Modes
<1>2. encoder # 0
  BY <1>1 DEF RecorderInv, Recorder, Modes, Kit, Recording, Listening
<1>3. Opened' /\ Past' = Past
  BY <1>1, <1>2, StoryIs DEF Opened, Past, Listening
<1> SUFFICES ASSUME ~error_code' PROVE Numbered' /\ Delivered' /\ Headed'
  BY <1>3 DEF Story
<1>4. /\ Numbered /\ Delivered /\ Headed /\ mic \in Nat /\ captured \in Seq(Nat)
      /\ queue \in Seq(Nat) /\ file.live \in Seq(Nat) /\ Past \in Seq(Nat)
      /\ queue' = Append(queue, mic + 1)
  BY <1>1, <1>2, StoryIs
<1> DEFINE n == Len(captured)
           p == Len(Past)
<1>5. /\ n \in Nat /\ p \in Nat /\ Len(captured') = n + 1 /\ captured'[n + 1] = mic + 1
      /\ \A i \in 1..n : captured'[i] = captured[i]
  BY <1>1, <1>4
<1>6. Numbered'
  <2>1. /\ p + n <= mic /\ \A i \in 1..n : captured[i] = mic - n + i
        /\ \A i \in 1..p : Past[i] = mic - n - p + i
    BY <1>4 DEF Numbered
  <2> HIDE DEF n, p
  <2>2. p + (n + 1) <= mic + 1
    BY <1>4, <1>5, <2>1
  <2>3. ASSUME NEW i \in 1..(n + 1) PROVE captured'[i] = (mic + 1) - (n + 1) + i
    <3>1. CASE i = n + 1
      BY <1>4, <1>5, <3>1
    <3>2. CASE i \in 1..n
      <4>1. captured'[i] = mic - n + i
        BY <1>5, <2>1, <3>2
      <4> QED BY <1>4, <1>5, <3>2, <4>1
    <3> QED BY <1>5, <3>1, <3>2
  <2>4. \A i \in 1..p : Past[i] = (mic + 1) - (n + 1) - p + i
    BY <1>4, <1>5, <2>1
  <2> QED BY <1>1, <1>3, <1>5, <2>2, <2>3, <2>4 DEF Numbered, p
<1>7. Delivered'
  <2>1. captured = file.live \o queue
    BY <1>1, <1>4 DEF Delivered, Listening
  <2>2. Append(file.live \o queue, mic + 1) = file.live \o Append(queue, mic + 1)
    <3>1. mic + 1 \in Nat
      BY <1>4
    <3> QED BY <1>4, <3>1, QueueJoined, Zenon
  <2> QED BY <1>1, <1>4, <2>1, <2>2 DEF Delivered, Listening
<1>8. Headed'
  <2>1. captured = file.live \o queue
    BY <1>1, <1>4 DEF Delivered, Listening
  <2>2. captured' # <<>> /\ (captured = <<>> => file.live = <<>>)
        /\ (captured # <<>> => captured'[1] = captured[1])
    BY <1>1, <1>4, <1>5, <2>1, SMTT(30)
  <2> QED BY <1>1, <1>3, <1>4, <2>2 DEF Headed
<1> QED BY <1>6, <1>7, <1>8

LEMMA StoryEncode ==
  ASSUME RecorderInv, Encode
  PROVE  Story'
<1>1. /\ UNCHANGED <<mic, made, encoder, captured, pre_roll>>
      /\ task = "live" /\ queue # <<>> /\ queue' = Tail(queue)
      /\ \/ /\ file' = [file EXCEPT !.live = Append(@, Head(queue))]
            /\ Encodes(encoder, Head(queue)) /\ UNCHANGED <<error_code, task>>
         \/ error_code' /\ file' = file /\ task' = "drain"
  BY DEF Encode, NoFail, Fail
<1>2. encoder # 0
  BY <1>1 DEF RecorderInv, Recorder, Modes, Kit, Recording, Listening
<1>3. /\ Opened /\ mic \in Nat /\ captured \in Seq(Nat) /\ queue \in Seq(Nat)
      /\ file.live \in Seq(Nat) /\ file.history \in Seq(Nat) /\ file \in File
      /\ encoder \in 1..made /\ 1..made \subseteq Encoder /\ first \in [Encoder -> Nat]
      /\ ~error_code => Numbered /\ Delivered /\ Headed
  BY <1>2, StoryIs
<1>4. file'.state = file.state
  BY <1>1, <1>3 DEF File
<1>5. Opened'
  BY <1>1, <1>3, <1>4 DEF Opened
<1> DEFINE h == Head(queue)
<1> SUFFICES ASSUME ~error_code' PROVE Numbered' /\ Delivered' /\ Headed'
  BY <1>5 DEF Story
<1>6. /\ file' = [file EXCEPT !.live = Append(@, h)] /\ Encodes(encoder, h)
      /\ task' = "live" /\ ~error_code
  BY <1>1
<1>7. /\ file'.live = Append(file.live, h) /\ file'.history = file.history
      /\ file'.pre_skip = file.pre_skip
  BY <1>3, <1>6 DEF File
<1>8. Past' = Past /\ Past = file.history
  BY <1>1, <1>6, <1>7 DEF Past
<1>9. captured = file.live \o queue
  BY <1>1, <1>3, <1>6 DEF Delivered
<1>10. Numbered'
  BY <1>1, <1>3, <1>6, <1>8 DEF Numbered
<1>11. Delivered'
  <2>1. file.live \o queue = Append(file.live, h) \o Tail(queue)
    BY <1>1, <1>3, QueueLeft
  <2> QED BY <1>1, <1>6, <1>7, <1>9, <2>1 DEF Delivered
<1>12. /\ captured # <<>> /\ file'.live # <<>> /\ Len(captured) \in Nat
       /\ Len(file.live) + 1 \in 1..Len(captured) /\ captured[Len(file.live) + 1] = h
  <2>1. Len(queue) \in Nat \ {0} /\ Len(file.live) \in Nat /\ h = queue[1]
    BY <1>1, <1>3
  <2>2. Len(captured) = Len(file.live) + Len(queue)
    BY <1>3, <1>9
  <2>3. captured[Len(file.live) + 1] = h
    BY <1>3, <1>9, <2>1, <2>2
  <2>4. file'.live # <<>>
    <3>1. h \in Nat
      BY <1>1, <1>3
    <3> HIDE DEF h
    <3> QED BY <1>3, <1>7, <3>1, Appends, Zenon
  <2>5. captured # <<>>
    BY <2>1, <2>2
  <2> HIDE DEF h
  <2> QED BY <2>1, <2>2, <2>3, <2>4, <2>5
<1> HIDE DEF h
<1>13. Headed'
  <2>1. \A e \in Encoder :
          first'[e] = IF e = encoder THEN (IF first[e] = 0 THEN h ELSE first[e]) ELSE first[e]
    BY <1>3, <1>6 DEF Encodes
  <2>2. Numbered /\ Headed
    BY <1>3, <1>6
  <2>3. CASE Past # <<>>
    <3>1. Past \in Seq(Nat) /\ Len(Past) \in Nat \ {0} /\ Len(file.live) \in Nat
      BY <1>3, <1>8, <2>3
    <3>2. Len(Past) + Len(captured) <= mic /\ Past[1] = mic - Len(captured) - Len(Past) + 1
      BY <2>2, <3>1 DEF Numbered
    <3>3. h = mic - Len(captured) + (Len(file.live) + 1)
      BY <1>12, <2>2 DEF Numbered
    <3>4. \A m, c, l \in Nat, p \in Nat \ {0} :
            p + c <= m => /\ m - c - p + 1 # 0
                          /\ m - c + (l + 1) # m - c - p + 1
      OBVIOUS
    <3>5. Past[1] # 0 /\ h # Past[1]
      BY <1>3, <1>12, <3>1, <3>2, <3>3, <3>4, Zenon
    <3>6. (\E e \in 1..made : first'[e] = Past[1]) <=> (\E e \in 1..made : first[e] = Past[1])
      BY <1>3, <2>1, <3>5
    <3> QED BY <1>1, <1>7, <1>8, <2>2, <2>3, <3>6 DEF Headed
  <2>4. CASE Past = <<>>
    <3>1. captured[1] # 0
      <4>1. Len(Past) = 0 /\ 1 \in 1..Len(captured) /\ Len(captured) <= mic
            /\ captured[1] = mic - Len(captured) + 1
        BY <1>3, <1>12, <2>2, <2>4 DEF Numbered
      <4> QED BY <1>3, <1>12, <4>1
    <3>2. first'[encoder] = captured[1]
      <4>1. CASE file.live = <<>>
        <5>1. first[encoder] = 0
          BY <2>2, <2>4, <4>1 DEF Headed
        <5>2. h = captured[1]
          BY <1>12, <4>1
        <5> QED BY <1>3, <2>1, <5>1, <5>2
      <4>2. CASE file.live # <<>>
        BY <1>3, <1>12, <2>1, <2>2, <2>4, <3>1, <4>2 DEF Headed
      <4> QED BY <4>1, <4>2
    <3> QED BY <1>1, <1>7, <1>8, <1>12, <2>2, <2>4, <3>2 DEF Headed
  <2> QED BY <2>3, <2>4
<1> QED BY <1>10, <1>11, <1>13

LEMMA StoryHistory ==
  ASSUME RecorderInv, AppendHistory
  PROVE  Story'
<1>1. /\ task = "history" /\ task' = "live"
      /\ UNCHANGED <<mic, made, first, encoder, captured, queue>>
  BY DEF AppendHistory, vars, history
<1>2. encoder # 0
  BY <1>1 DEF RecorderInv, Recorder, Modes, Kit, Recording, Listening
<1>3. PICK k \in 0..Len(pre_roll) :
        /\ file' = [file EXCEPT !.history = SubSeq(pre_roll, 1, k)]
        /\ (k = Len(pre_roll) /\ NoFail) \/ Fail
  BY DEF AppendHistory
<1>4. /\ Opened /\ file \in File /\ pre_roll \in Seq(Nat)
      /\ ~error_code => Numbered /\ Delivered /\ Headed
  BY <1>2, StoryIs
<1>5. /\ file'.state = file.state /\ file'.live = file.live /\ file'.pre_skip = file.pre_skip
      /\ file'.history = SubSeq(pre_roll, 1, k)
  BY <1>3, <1>4 DEF File
<1>6. Opened'
  BY <1>1, <1>4, <1>5 DEF Opened
<1> SUFFICES ASSUME ~error_code' PROVE Numbered' /\ Delivered' /\ Headed'
  BY <1>6 DEF Story
<1>7. file'.history = pre_roll /\ ~error_code
  BY <1>3, <1>4, <1>5 DEF NoFail, Fail
<1>8. Past' = Past
  BY <1>1, <1>7 DEF Past
<1> QED BY <1>1, <1>4, <1>5, <1>7, <1>8 DEF Numbered, Delivered, Headed

LEMMA StoryPad ==
  ASSUME RecorderInv, Pad
  PROVE  Story'
<1>1. /\ task = "pad" /\ task' = "finish"
      /\ UNCHANGED <<mic, made, first, encoder, captured, queue, pre_roll>>
  BY DEF Pad
<1>2. encoder # 0 /\ queue = <<>>
  BY <1>1 DEF RecorderInv, Recorder, Modes, Kit, Recording, Listening
<1>3. /\ Opened /\ file \in File /\ file.live \in Seq(Nat)
      /\ ~error_code => Numbered /\ Delivered /\ Headed
  BY <1>2, StoryIs
<1>4. /\ file'.state = file.state /\ file'.history = file.history
      /\ ~error_code' => /\ ~error_code /\ file'.pre_skip = file.pre_skip /\ file'.padded
                         /\ file'.live = IF file.live = <<>> THEN <<Silence>> ELSE file.live
  BY <1>3 DEF Pad, NoFail, Fail, File
<1>5. Opened'
  BY <1>1, <1>3, <1>4 DEF Opened
<1> SUFFICES ASSUME ~error_code' PROVE Numbered' /\ Delivered' /\ Headed'
  BY <1>5 DEF Story
<1>6. Past' = Past
  BY <1>1, <1>4 DEF Past
<1>7. captured = file.live
  <2>1. captured = file.live \o <<>>
    BY <1>1, <1>2, <1>3, <1>4 DEF Delivered
  <2> QED BY <1>3, <2>1, ConcatEmptySeq
<1>8. file'.live # <<>>
  <2>1. <<Silence>> # <<>>
    OBVIOUS
  <2> QED BY <1>4, <2>1
<1> QED BY <1>1, <1>3, <1>4, <1>6, <1>7, <1>8 DEF Numbered, Delivered, Headed

LEMMA StoryStep ==
  ASSUME RecorderInv, RecorderNext
  PROVE  Story'
<1>1. /\ Story /\ Kit /\ Modes /\ Beside /\ (encoder # 0 => mode = "record")
      /\ (encoder # 0 => task \in Recording)
  BY DEF RecorderInv, Recorder, Kit
<1>2. CASE Rolls
  <2>1. encoder' = encoder
    BY <1>2, RollsKeeps
  <2>2. CASE encoder = 0
    BY <2>1, <2>2 DEF Story
  <2>3. CASE encoder # 0
    <3>1. UNCHANGED <<mic, made, first, recorder>>
      BY <1>1, <1>2, <2>3, RollsRecording
    <3>2. Past' = Past
      BY <3>1 DEF Past, recorder, tasks
    <3> QED BY <1>1, <3>1, <3>2, StoryMoves DEF recorder, tasks, control
  <2> QED BY <2>2, <2>3
<1>3. CASE Alone
  <2>1. UNCHANGED <<mic, made, first, encoder>>
    BY <1>3, AloneKeeps DEF vars, history
  <2>2. CASE encoder = 0
    BY <2>1, <2>2 DEF Story
  <2>3. CASE AppendHistory \/ Pad
    BY <2>3, StoryHistory, StoryPad
  <2>4. CASE LocalStop \/ CaptureEnds \/ CaptureStop \/ CaptureDone
    <3>1. UNCHANGED <<captured, file, queue, pre_roll, task>> /\ (error_code => error_code')
      BY <2>4 DEF LocalStop, CaptureEnds, CaptureStop, CaptureDone, NoFail, Fail, tasks
    <3>2. Past' = Past
      BY <3>1 DEF Past
    <3> QED BY <1>1, <2>1, <3>1, <3>2, StoryMoves
  <2>5. CASE Begin
    <3>1. CASE mode = "record"
      <4>1. /\ UNCHANGED <<captured, file, queue, pre_roll, error_code>>
            /\ task = "begin" /\ task' = "history"
        BY <2>5, <3>1 DEF Begin, control
      <4>2. Past' = Past
        BY <4>1 DEF Past
      <4> QED BY <1>1, <2>1, <4>1, <4>2, StoryMoves
    <3>2. CASE mode # "record"
      BY <1>1, <2>2, <3>2
    <3> QED BY <3>1, <3>2
  <2>6. CASE LiveEnds
    <3>1. /\ UNCHANGED <<captured, file, queue, pre_roll, error_code>>
          /\ task = "live" /\ task' = "pad"
      BY <2>6 DEF LiveEnds, control
    <3>2. Past' = Past
      BY <3>1 DEF Past
    <3> QED BY <1>1, <2>1, <3>1, <3>2, StoryMoves
  <2>7. CASE Drain /\ encoder # 0
    <3>1. error_code' /\ UNCHANGED file /\ task = "drain" /\ task' = "pad"
      BY <1>1, <2>7 DEF Drain, Kit, control
    <3>2. Opened'
      BY <2>7, <3>1, StoryIs DEF RecorderInv, Opened
    <3> QED BY <3>1, <3>2 DEF Story
  <2>8. CASE PlayStart \/ PlayEnds \/ LeaveMode \/ Quiet \/ Idle
    <3>1. mode = "idle" \/ task \in {"play", "leave", "quiet", "idle"}
      BY <2>8 DEF PlayStart, PlayEnds, LeaveMode, Quiet, Idle
    <3>2. encoder = 0
      BY <1>1, <3>1 DEF Recording
    <3> QED BY <2>2, <3>2
  <2> QED BY <1>3, <2>2, <2>3, <2>4, <2>5, <2>6, <2>7, <2>8 DEF Alone
<1>4. CASE RecordNoEncoder
  BY <1>1, <1>4 DEF RecordNoEncoder, recorder, Story
<1>5. CASE FinishRecording
  BY <1>5 DEF FinishRecording, Story
<1> QED BY <1>2, <1>3, <1>4, <1>5, RecorderSteps, StoryRecord, StoryCapture, StoryEncode

-------------------------------------------------------------------------------
(***************************************************************************)
(* What is published.                                                      *)
(***************************************************************************)

\* At its end a recording without an error is whole.
LEMMA Ended ==
  ASSUME RecorderInv, task = "finish", ~error_code, mode = "record", encoder # 0
  PROVE  /\ Recorded \in Seq(Nat) /\ Recorded # <<>> /\ Recorded[1] <= mic
         /\ \A i \in 2..Len(Recorded) : Recorded[i] \in {Recorded[i - 1] + 1, Silence}
         /\ file.padded /\ file.live = IF captured = <<>> THEN <<Silence>> ELSE captured
         /\ Recorded[1] # Silence =>
              (file.pre_skip = Skip <=> \E e \in 1..made : first[e] = Recorded[1])
<1> DEFINE h == file.history
           l == file.live
           n == Len(captured)
           p == Len(h)
<1>1. /\ Numbered /\ Delivered /\ Headed /\ mic \in Nat /\ captured \in Seq(Nat)
      /\ h \in Seq(Nat) /\ l \in Seq(Nat) /\ Past = h /\ encoder \in 1..made
  BY StoryIs DEF Past
<1>2. file.padded /\ l = IF captured = <<>> THEN <<Silence>> ELSE captured
  BY <1>1 DEF Delivered
<1>3. n \in Nat /\ p \in Nat /\ (captured = <<>> => n = 0) /\ (h = <<>> <=> p = 0)
      /\ Len(l) \in Nat
  BY <1>1
<1>4. Len(l) = (IF captured = <<>> THEN 1 ELSE n) /\ Len(l) # 0
  BY <1>1, <1>2, <1>3
<1>5. /\ Recorded \in Seq(Nat) /\ Len(Recorded) = p + Len(l)
      /\ \A i \in 1..(p + Len(l)) : Recorded[i] = IF i <= p THEN h[i] ELSE l[i - p]
  BY <1>1, ConcatProperties DEF Recorded
<1>6. /\ p + n <= mic /\ \A i \in 1..n : captured[i] = mic - n + i
      /\ \A i \in 1..p : h[i] = mic - n - p + i
  BY <1>1 DEF Numbered
<1>7. captured = <<>> => l[1] = Silence /\ l[1] = 0
  BY <1>2 DEF Silence
<1>8. Headed
  BY <1>1
<1>9. Recorded # <<>>
  <2>1. Len(Recorded) # 0
    <3> HIDE DEF l, p
    <3> QED BY <1>3, <1>4, <1>5
  <2> QED BY <2>1
<1> HIDE DEF h, l, n, p
<1>10. CASE captured = <<>>
  <2>1. Len(l) = 1 /\ n = 0
    BY <1>3, <1>4, <1>10
  <2>2. \A i \in 1..(p + 1) : Recorded[i] = IF i <= p THEN mic - p + i ELSE Silence
    <3> SUFFICES ASSUME NEW i \in 1..(p + 1)
                 PROVE Recorded[i] = IF i <= p THEN mic - p + i ELSE Silence
      OBVIOUS
    <3>1. CASE i <= p
      <4>1. i \in 1..p /\ i \in 1..(p + Len(l))
        BY <1>3, <2>1, <3>1
      <4>2. Recorded[i] = mic - n - p + i
        BY <1>5, <1>6, <3>1, <4>1
      <4> QED BY <1>1, <1>3, <2>1, <3>1, <4>2
    <3>2. CASE i = p + 1
      BY <1>3, <1>5, <1>7, <1>10, <2>1, <3>2
    <3> QED BY <1>3, <3>1, <3>2
  <2>3. \A i \in 2..(p + 1) : Recorded[i] \in {Recorded[i - 1] + 1, Silence}
    BY <1>1, <1>3, <2>2, SMTT(30)
  <2>4. Recorded[1] <= mic
    BY <1>1, <1>3, <1>6, <1>7, <1>10, <2>1, <2>2 DEF Silence
  <2>5. ASSUME Recorded[1] # Silence
        PROVE  file.pre_skip = Skip <=> \E e \in 1..made : first[e] = Recorded[1]
    <3>1. p # 0
      BY <2>2, <2>5
    <3>2. h # <<>> /\ Recorded[1] = h[1]
      BY <1>3, <1>5, <2>1, <3>1
    <3> QED BY <1>1, <1>8, <3>2 DEF Headed
  <2> QED BY <1>2, <1>5, <1>9, <2>1, <2>3, <2>4, <2>5 DEF l
<1>11. CASE captured # <<>>
  <2>1. Len(l) = n /\ l = captured /\ n # 0
    BY <1>1, <1>2, <1>4, <1>11
  <2>2. \A i \in 1..(p + n) : Recorded[i] = mic - n - p + i
    <3> SUFFICES ASSUME NEW i \in 1..(p + n) PROVE Recorded[i] = mic - n - p + i
      OBVIOUS
    <3>1. CASE i <= p
      BY <1>3, <1>5, <1>6, <2>1, <3>1, SMTT(30)
    <3>2. CASE i > p
      <4>1. i - p \in 1..n /\ captured[i - p] = mic - n + (i - p)
        BY <1>3, <1>6, <3>2
      <4>2. Recorded[i] = captured[i - p]
        BY <1>3, <1>5, <2>1, <3>2
      <4> QED BY <1>1, <1>3, <4>1, <4>2
    <3> QED BY <1>3, <3>1, <3>2
  <2>3. \A i \in 2..(p + n) : Recorded[i] \in {Recorded[i - 1] + 1, Silence}
    <3> SUFFICES ASSUME NEW i \in 2..(p + n) PROVE Recorded[i] = Recorded[i - 1] + 1
      OBVIOUS
    <3>1. Recorded[i] = mic - n - p + i /\ Recorded[i - 1] = mic - n - p + (i - 1)
      BY <1>3, <2>2
    <3> QED BY <1>1, <1>3, <3>1
  <2>4. Recorded[1] <= mic /\ 1 \in 1..(p + n)
    BY <1>1, <1>3, <1>6, <2>1, <2>2
  <2>5. file.pre_skip = Skip <=> \E e \in 1..made : first[e] = Recorded[1]
    <3>1. CASE p # 0
      <4>1. h # <<>> /\ Recorded[1] = h[1]
        BY <1>3, <1>5, <2>1, <3>1
      <4> QED BY <1>1, <1>8, <4>1 DEF Headed
    <3>2. CASE p = 0
      <4>1. Past = <<>> /\ Recorded[1] = captured[1] /\ file.live # <<>>
        BY <1>1, <1>3, <1>5, <1>11, <2>1, <3>2 DEF l
      <4>2. file.pre_skip = Skip /\ first[encoder] = Recorded[1]
        BY <1>8, <1>11, <4>1 DEF Headed
      <4> QED BY <1>1, <4>2
    <3> QED BY <3>1, <3>2
  <2> QED BY <1>2, <1>5, <1>9, <2>1, <2>3, <2>4, <2>5 DEF l
<1> QED BY <1>10, <1>11

\* What is first for an encoder stays so, and no other frame becomes it later.
LEMMA FirstsStay ==
  ASSUME RecorderInv, RecorderNext, ~Encode, NEW n \in Nat \ {0}, n <= mic
  PROVE  /\ (\E e \in 1..made : first[e] = n) <=> (\E e \in 1..made' : first'[e] = n)
         /\ n <= mic'
<1>1. Beside /\ Course /\ worker \in WorkerType
  BY BesideTypes DEF RecorderInv, Beside
<1>2. /\ made \in Nat /\ mic \in Nat /\ first \in [Encoder -> 0..MaxMic] /\ MaxMic \in Nat
      /\ made <= MaxEncoders /\ MaxEncoders \in Nat
      /\ \A e \in Encoder : e > made => first[e] = 0
  BY <1>1, CourseTypes DEF Course, Encoded
<1>3. \/ UNCHANGED <<mic, made, first>>
      \/ UNCHANGED <<mic, first>> /\ made' = made + 1 /\ made + 1 \in Encoder
      \/ /\ made' = made /\ mic' = mic + 1
         /\ \/ first' = first
            \/ first' = [first EXCEPT ![worker.encoder] = IF @ = 0 THEN mic + 1 ELSE @]
  <2>1. CASE Rolls
    <3>1. CASE Capture
      BY <3>1 DEF Capture
    <3>2. CASE CreateEncoder
      BY <1>2, <3>2 DEF CreateEncoder, Encoder
    <3>3. CASE ~Capture /\ ~CreateEncoder
      <4>1. Next
        BY <2>1, RollsKeeps
      <4> QED BY <3>3, <4>1 DEF Next, Worker, Main, StartAudio, LoopEnds, StopAudio, Decide,
                HandOver, Finish, Leave, Enable, Disable, Disabled, DisableTimeout, Take,
                TakeStop, Taken, TakenNoMemory, TakeTimeout, Drained, Release, history
    <3> QED BY <3>1, <3>2, <3>3
  <2>2. CASE Alone
    BY <2>2, AloneKeeps DEF vars, history
  <2>3. CASE RecordStart
    BY <1>2, <2>3 DEF RecordStart, RecordEncoder, Encoder
  <2>4. CASE RecordNoEncoder \/ FinishRecording \/ CaptureRead
    BY <2>4 DEF RecordNoEncoder, FinishRecording, CaptureRead, history
  <2> QED BY <2>1, <2>2, <2>3, <2>4, RecorderSteps
<1>4. CASE UNCHANGED <<mic, made, first>>
  BY <1>4
<1>5. CASE UNCHANGED <<mic, first>> /\ made' = made + 1 /\ made + 1 \in Encoder
  <2>1. first[made + 1] = 0
    BY <1>2, <1>5
  <2>2. \A e \in 1..(made + 1) : e \in 1..made \/ e = made + 1
    BY <1>2
  <2>3. 1..made \subseteq 1..(made + 1)
    BY <1>2
  <2> QED BY <1>5, <2>1, <2>2, <2>3
<1>6. CASE /\ made' = made /\ mic' = mic + 1
           /\ \/ first' = first
              \/ first' = [first EXCEPT ![worker.encoder] = IF @ = 0 THEN mic + 1 ELSE @]
  <2>1. \A e \in 1..made : e \in Encoder
    BY <1>2 DEF Encoder
  <2>2. \A e \in Encoder : first'[e] = first[e] \/ (first[e] = 0 /\ first'[e] = mic + 1)
    BY <1>2, <1>6
  <2>3. n # 0 /\ n # mic + 1 /\ n <= mic + 1
    BY <1>2
  <2> QED BY <1>6, <2>1, <2>2, <2>3
<1> QED BY <1>3, <1>4, <1>5, <1>6

LEMMA DoneStep ==
  ASSUME RecorderInv, RecorderNext
  PROVE  Done'
<1> SUFFICES ASSUME Clean'
             PROVE  RecordingWhole' /\ Recorded' # <<>> /\ Recorded'[1] <= mic'
  BY DEF Done
<1>1. file \in File /\ Done
  BY DEF RecorderInv, Recorder, RecorderTypes
<1>2. file'.state = "published" /\ file'.clean
  BY DEF Clean
<1>3. CASE FinishRecording
  <2>1. /\ file' = [file EXCEPT !.state = "published", !.clean = ~error_code]
        /\ UNCHANGED <<mic, made, first, captured>> /\ task = "finish"
    <3>1. ~(file' = [file EXCEPT !.state = "part"])
      BY <1>1, <1>2 DEF File
    <3> QED BY <1>3, <3>1 DEF FinishRecording
  <2>2. /\ ~error_code /\ file'.history = file.history /\ file'.live = file.live
        /\ file'.padded = file.padded /\ file'.pre_skip = file.pre_skip
    BY <1>1, <1>2, <2>1 DEF File
  <2>3. mode = "record" /\ encoder # 0
    BY <2>1 DEF RecorderInv, Recorder, Modes, Kit, Recording
  <2>4. Recorded' = Recorded
    BY <2>2 DEF Recorded
  <2> QED BY <2>1, <2>2, <2>3, <2>4, Ended DEF RecordingWhole, Gapless, NothingLost, HeaderFits
<1>4. CASE ~FinishRecording
  <2>1. file' = file /\ encoder = 0
    <3>1. encoder # 0 => file.state = "open"
      BY StoryIs DEF Opened
    <3>2. file' = file
      <4>1. CASE Rolls
        BY <4>1, RollsKeeps
      <4>2. CASE AppendHistory \/ Encode \/ Pad
        <5>1. encoder # 0
          BY <4>2 DEF AppendHistory, Encode, Pad, RecorderInv, Recorder, Modes, Kit, Recording
        <5>2. file'.state = file.state
          BY <1>1, <4>2 DEF AppendHistory, Encode, Pad, File
        <5> QED BY <1>2, <3>1, <5>1, <5>2
      <4>3. CASE RecordStart
        <5>1. [NoFile EXCEPT !.state = "open", !.pre_skip = PreSkip].state = "open"
          BY DEF NoFile
        <5> QED BY <1>2, <4>3, <5>1 DEF RecordStart
      <4>4. CASE Alone /\ ~AppendHistory /\ ~Pad
        BY <4>4 DEF Alone, PlayStart, LocalStop, CaptureEnds, CaptureStop, CaptureDone, Begin,
                    LiveEnds, Drain, PlayEnds, LeaveMode, Quiet, Idle
      <4>5. CASE RecordNoEncoder \/ CaptureRead
        BY <4>5 DEF RecordNoEncoder, CaptureRead, recorder
      <4> QED BY <1>4, <4>1, <4>2, <4>3, <4>4, <4>5, RecorderSteps
    <3> QED BY <1>2, <3>1, <3>2
  <2>2. ~CaptureRead /\ ~Encode
    BY <2>1 DEF CaptureRead, Encode, RecorderInv, Recorder, Modes, Kit, Recording, Listening
  <2>3. captured' = captured
    <3>1. CASE Rolls
      BY <3>1, RollsKeeps
    <3>2. CASE Alone
      BY <3>2 DEF Alone, PlayStart, LocalStop, CaptureEnds, CaptureStop, CaptureDone, Begin,
                  AppendHistory, Pad, LiveEnds, Drain, PlayEnds, LeaveMode, Quiet, Idle
    <3>3. CASE RecordStart
      <4>1. [NoFile EXCEPT !.state = "open", !.pre_skip = PreSkip].state = "open"
        BY DEF NoFile
      <4> QED BY <1>2, <3>3, <4>1 DEF RecordStart
    <3>4. CASE RecordNoEncoder
      BY <3>4 DEF RecordNoEncoder, recorder
    <3> QED BY <1>4, <2>2, <3>1, <3>2, <3>3, <3>4, RecorderSteps
  <2>4. Clean /\ Recorded' = Recorded
    BY <1>2, <2>1 DEF Clean, Recorded
  <2>5. RecordingWhole /\ Recorded # <<>> /\ Recorded[1] <= mic
    BY <1>1, <2>4 DEF Done
  <2>6. Recorded[1] \in Nat /\ mic \in Nat
    <3>1. Recorded \in Seq(Nat)
      <4>1. file.history \in Seq(Frame) /\ file.live \in Seq(Frame \cup {Silence})
        BY <1>1 DEF File
      <4>2. Frame \subseteq Nat /\ Frame \cup {Silence} \subseteq Nat
        BY DEF Frame, Silence
      <4>3. file.history \in Seq(Nat) /\ file.live \in Seq(Nat)
        BY <4>1, <4>2, SMTT(30)
      <4> QED BY <4>3 DEF Recorded
    <3>2. mic \in Nat
      BY CourseTypes DEF RecorderInv, Beside, Course
    <3> QED BY <2>5, <3>1, <3>2
  <2>7. mic <= mic' /\ mic' \in Nat
    <3>1. CASE mic = 0
      BY <2>6, BesideStep, TypesSplitNext, RollingAssumption, <3>1 DEF Beside, Course, Rest
    <3>2. CASE mic # 0
      BY <2>2, <2>6, <3>2, FirstsStay, BesideStep, TypesSplitNext, RollingAssumption
         DEF Beside, Course, Rest
    <3> QED BY <3>1, <3>2
  <2>8. Gapless' /\ NothingLost'
    BY <2>1, <2>3, <2>4, <2>5 DEF RecordingWhole, Gapless, NothingLost
  <2>9. HeaderFits'
    <3> SUFFICES ASSUME Recorded[1] # Silence
                 PROVE  file.pre_skip = Skip <=> \E e \in 1..made' : first'[e] = Recorded[1]
      BY <2>1, <2>4 DEF HeaderFits
    <3>1. Recorded[1] \in Nat \ {0}
      BY <2>6 DEF Silence
    <3> QED BY <2>2, <2>4, <2>5, <3>1, FirstsStay DEF RecordingWhole, HeaderFits
  <2> QED BY <2>4, <2>5, <2>6, <2>7, <2>8, <2>9 DEF RecordingWhole
<1> QED BY <1>3, <1>4

-------------------------------------------------------------------------------
(***************************************************************************)
(* Theorems.                                                               *)
(***************************************************************************)

LEMMA RecorderStep == RecorderInv /\ [RecorderNext]_allVars => RecorderInv'
<1> SUFFICES ASSUME RecorderInv, [RecorderNext]_allVars PROVE RecorderInv'
  OBVIOUS
<1>1. CASE RecorderNext
  BY <1>1, BesideStep, RecorderTypesStep, ModesStep, PortsStep, KitStep, StoryStep, DoneStep
     DEF RecorderInv, Recorder
<1>2. CASE UNCHANGED allVars
  <2>1. Beside'
    BY <1>2, BesideStutter DEF RecorderInv, allVars, recorder
  <2>2. UNCHANGED <<vars, control, queue, pre_roll, encoder, tasks, port, file, captured>>
    BY <1>2 DEF allVars, recorder
  <2>3. RecorderTypes' /\ Modes' /\ Ports' /\ Kit'
    BY <2>2 DEF RecorderInv, Recorder, RecorderTypes, Modes, Ports, Kit, Kept,
                vars, flags, history, control, tasks
  <2>4. Story'
    <3>1. Past' = Past
      BY <2>2 DEF Past, tasks
    <3> QED BY <2>2, <3>1, StoryMoves DEF RecorderInv, Recorder, vars, history, control, tasks
  <2>5. Done'
    BY <2>2 DEF RecorderInv, Recorder, Done, Clean, Recorded, RecordingWhole, Gapless,
                NothingLost, HeaderFits, vars, history
  <2> QED BY <2>1, <2>3, <2>4, <2>5 DEF RecorderInv, Recorder
<1> QED BY <1>1, <1>2

\* The recorder's state, the rolling buffer's with it, is of its types.
THEOREM RecorderTypeCorrect == RecorderSpec => []RecorderTypeOK
<1>1. RecorderInv => RecorderTypeOK
  BY DEF RecorderInv, Beside, Course, Types, Recorder, RecorderTypes, File, RecorderTypeOK
<1> QED BY RecorderInitially, RecorderStep, <1>1, PTL DEF RecorderSpec

\* Through every start, handover, failure and stop of recording.c every encoder has
\* one owner or was destroyed once, nobody takes the port from a task that uses it,
\* and an idle recorder keeps nothing back.
THEOREM ResourcesSafe == RecorderSpec => []ResourcesOwned
<1>1. RecorderInv => ResourcesOwned
  <2> SUFFICES ASSUME RecorderInv PROVE ResourcesOwned
    OBVIOUS
  <2>1. EncoderOwned
    <3>1. Owned(encoder)
      BY DEF RecorderInv, Beside
    <3>2. \A e \in 1..made :
            e \in Handed(encoder) <=> e \in {worker.encoder, slot, snapshot.encoder, encoder}
      BY DEF Handed
    <3>3. \A e \in 1..made : freed[e] = IF e \in Handed(encoder) THEN 0 ELSE 1
      BY <3>1 DEF Owned, Account
    <3>4. encoder # 0 => encoder \notin {worker.encoder, slot, snapshot.encoder}
      BY <3>1 DEF Owned, Apart
    <3> QED BY <3>2, <3>3, <3>4 DEF EncoderOwned
  <2>2. PortHeld
    BY DEF RecorderInv, Recorder, Ports, PortHeld
  <2>3. IdleIsReady
    BY DEF RecorderInv, Recorder, Modes, Kit, Ports, IdleIsReady, Recording, Listening
  <2> QED BY <2>1, <2>2, <2>3 DEF ResourcesOwned
<1> QED BY RecorderInitially, RecorderStep, <1>1, PTL DEF RecorderSpec

\* A recording that recording.c publishes without an error has no gap, lacks no frame
\* that was captured for it, and its header fits its first frame.
THEOREM RecordingsWhole == RecorderSpec => []RecordingWhole
<1>1. RecorderInv => RecordingWhole
  BY DEF RecorderInv, Recorder, Done, RecordingWhole, Gapless, NothingLost, HeaderFits
<1> QED BY RecorderInitially, RecorderStep, <1>1, PTL DEF RecorderSpec

\* Beside the recorder, too, a snapshot holds nothing older than the last stop, as
\* long as the rolling worker is never more than a second late.
THEOREM RecorderFresh == ASSUME ~Stalls PROVE RecorderSpec => []SnapshotFresh
<1>1. RecorderInit => RecorderInv /\ SnapshotFresh
  BY RecorderInitially, EmptySnapshot DEF RecorderInit, Init
<1>2. RecorderInv /\ SnapshotFresh /\ [RecorderNext]_allVars => RecorderInv' /\ SnapshotFresh'
  <2> SUFFICES ASSUME RecorderInv, SnapshotFresh, [RecorderNext]_allVars
               PROVE  RecorderInv' /\ SnapshotFresh'
    OBVIOUS
  <2>1. RecorderInv'
    BY RecorderStep
  <2>2. CASE Rolls
    BY <2>1, <2>2, RollsKeeps, FreshStep DEF RecorderInv, Beside
  <2>3. CASE UNCHANGED allVars \/ Alone
    BY <2>1, <2>3, AloneKeeps DEF allVars, vars, history, SnapshotFresh
  <2>4. CASE RecordStart \/ RecordNoEncoder
    BY <2>1, <2>4, EmptySnapshot DEF RecordStart, RecordNoEncoder, Moved
  <2>5. CASE CaptureRead \/ Encode \/ FinishRecording
    BY <2>1, <2>5 DEF CaptureRead, Encode, FinishRecording, SnapshotFresh
  <2> QED BY <2>1, <2>2, <2>3, <2>4, <2>5, RecorderSteps
<1> QED BY <1>1, <1>2, PTL DEF RecorderSpec
===============================================================================
