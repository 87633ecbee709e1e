--------------------------- MODULE IqFanoutProofs ---------------------------
(***************************************************************************)
(* The receive side: the circular buffer of src/src/iq.c behaves as a      *)
(* bounded queue, and what the publisher takes from it reaches every       *)
(* client that stays connected in order and frame by frame, for every      *)
(* capacity, frame length and number of clients.                           *)
(***************************************************************************)
EXTENDS IqFanout, SequenceTheorems, TLAPS

-----------------------------------------------------------------------------
(* The circular buffer. *)

(* The rings whose slots hold elements of S. *)
Ring(S) ==
  [samples : [Slots -> S], read_index : Slots, size : 0..Capacity]

(* An index less than one turn past the end wraps by one subtraction: the  *)
(* arithmetic behind every % capacity of iq.c.                             *)
LEMMA Wraps ==
  ASSUME NEW x \in Nat, x < 2 * Capacity
  PROVE  /\ x % Capacity = IF x < Capacity THEN x ELSE x - Capacity
         /\ x % Capacity \in Slots
  BY CapacityAssumption, SMT DEF Slots

(* The slot of a queued sample, and of one that is appended, is a slot of  *)
(* the buffer.                                                             *)
LEMMA SlotInRange ==
  ASSUME NEW S, NEW r \in Ring(S), NEW i \in 0..Capacity
  PROVE  /\ Slot(r, i) = IF r.read_index + i < Capacity THEN r.read_index + i
                         ELSE r.read_index + i - Capacity
         /\ Slot(r, i) \in Slots
<1>1. r.read_index \in 0..Capacity - 1
  BY DEF Ring, Slots
<1>2. r.read_index + i \in Nat /\ r.read_index + i < 2 * Capacity
  BY <1>1, CapacityAssumption
<1> DEFINE x == r.read_index + i
<1>3. Slot(r, i) = x % Capacity
  BY DEF Slot
<1>4. x \in Nat /\ x < 2 * Capacity
  BY <1>2
<1> HIDE DEF x
<1>5. /\ x % Capacity = IF x < Capacity THEN x ELSE x - Capacity
      /\ x % Capacity \in Slots
  BY <1>4, Wraps
<1> QED
  BY <1>1, <1>3, <1>5, CapacityAssumption DEF x

(* Samples less than a turn apart lie in different slots.                  *)
LEMMA SlotsDiffer ==
  ASSUME NEW S, NEW r \in Ring(S),
         NEW i \in 0..Capacity - 1, NEW j \in 0..Capacity - 1,
         Slot(r, i) = Slot(r, j)
  PROVE  i = j
<1>1. r.read_index \in 0..Capacity - 1
  BY DEF Ring, Slots
<1>2. i \in 0..Capacity /\ j \in 0..Capacity
  BY CapacityAssumption
<1> QED
  BY <1>1, <1>2, SlotInRange, CapacityAssumption

(* The loops of iq.c fill sequences element by element.                    *)
LEMMA FunctionIsSeq ==
  ASSUME NEW S, NEW m \in Nat, NEW f \in [1..m -> S]
  PROVE  f \in Seq(S) /\ Len(f) = m
<1>1. f \in Seq(S)
  BY SeqDef
<1>2. DOMAIN f = 1..m /\ DOMAIN f = 1..Len(f) /\ Len(f) \in Nat
  BY <1>1, LenProperties
<1> QED
  BY <1>2

(* The concatenation of two sequences, element by element.                 *)
LEMMA Concatenated ==
  ASSUME NEW S, NEW a \in Seq(S), NEW b \in Seq(S)
  PROVE  a \o b = [i \in 1..Len(a) + Len(b) |->
                     IF i <= Len(a) THEN a[i] ELSE b[i - Len(a)]]
<1> DEFINE c == a \o b
<1>1. /\ c \in Seq(S) /\ Len(c) = Len(a) + Len(b)
      /\ \A i \in 1..Len(a) + Len(b) :
           c[i] = IF i <= Len(a) THEN a[i] ELSE b[i - Len(a)]
  BY ConcatProperties, Zenon
<1> HIDE DEF c
<1>2. c \in [1..Len(a) + Len(b) -> S]
  BY <1>1, LenProperties, Zenon
<1>3. c = [i \in 1..Len(a) + Len(b) |-> c[i]]
  BY <1>2, Zenon
<1>4. c = [i \in 1..Len(a) + Len(b) |->
             IF i <= Len(a) THEN a[i] ELSE b[i - Len(a)]]
  BY <1>1, <1>3, Zenon
<1> QED
  BY <1>4 DEF c

(* flex1500_iq_ring_push appends the samples that fit and leaves the       *)
(* queued ones as they are, also when it wraps.                            *)
THEOREM PushAppends ==
  ASSUME NEW S, NEW r \in Ring(S), NEW s \in Seq(S)
  PROVE  /\ Push(r, s) \in Ring(S)
         /\ Contents(Push(r, s)) =
              Contents(r) \o SubSeq(s, 1, Accepted(r, Len(s)))
<1> DEFINE n == Accepted(r, Len(s))
           q == Push(r, s)
<1>0. r.size \in 0..Capacity /\ Len(s) \in Nat
  BY DEF Ring
<1>1. n \in Nat /\ n <= Len(s) /\ r.size + n <= Capacity
  BY <1>0, CapacityAssumption DEF Accepted
<1>2. /\ q.size = r.size + n
      /\ q.read_index = r.read_index
      /\ q.samples = [k \in Slots |->
                        IF \E i \in 0..n - 1 : WrittenTo(r, i, k)
                        THEN s[1 + CHOOSE i \in 0..n - 1 : WrittenTo(r, i, k)]
                        ELSE r.samples[k]]
  BY DEF Push
<1>3. q.samples \in [Slots -> S]
  <2> SUFFICES ASSUME NEW k \in Slots PROVE q.samples[k] \in S
    BY <1>2
  <2>1. CASE \E i \in 0..n - 1 : WrittenTo(r, i, k)
    <3> DEFINE w == CHOOSE i \in 0..n - 1 : WrittenTo(r, i, k)
    <3>1. w \in 0..n - 1
      BY <2>1
    <3>2. q.samples[k] = s[1 + w]
      BY <1>2, <2>1
    <3> HIDE DEF w
    <3>3. 1 + w \in 1..Len(s)
      BY <3>1, <1>1, <1>0
    <3> QED
      BY <3>2, <3>3
  <2>2. CASE ~\E i \in 0..n - 1 : WrittenTo(r, i, k)
    BY <1>2, <2>2 DEF Ring
  <2> QED
    BY <2>1, <2>2
<1>4. q \in Ring(S)
  <2>1. q = [samples |-> q.samples, read_index |-> q.read_index,
             size |-> q.size]
    BY <1>2 DEF Push
  <2>2. q.read_index \in Slots /\ q.size \in 0..Capacity
    BY <1>0, <1>1, <1>2, CapacityAssumption DEF Ring
  <2> HIDE DEF q
  <2> QED
    BY <1>3, <2>1, <2>2 DEF Ring
<1>5. \A i \in 0..Capacity : Slot(q, i) = Slot(r, i)
  BY <1>2 DEF Slot
<1>6. \A i \in 0..r.size - 1 : q.samples[Slot(r, i)] = r.samples[Slot(r, i)]
  <2> SUFFICES ASSUME NEW i \in 0..r.size - 1
               PROVE  q.samples[Slot(r, i)] = r.samples[Slot(r, i)]
    OBVIOUS
  <2>1. i \in 0..Capacity - 1 /\ i \in 0..Capacity
    BY <1>0, CapacityAssumption
  <2>2. Slot(r, i) \in Slots
    BY <2>1, SlotInRange
  <2>3. ~\E j \in 0..n - 1 : WrittenTo(r, j, Slot(r, i))
    <3> SUFFICES ASSUME NEW j \in 0..n - 1, WrittenTo(r, j, Slot(r, i))
                 PROVE  FALSE
      OBVIOUS
    <3>1. r.size + j \in 0..Capacity - 1
      BY <1>0, <1>1, CapacityAssumption
    <3>2. r.size + j = i
      BY <2>1, <3>1, SlotsDiffer DEF WrittenTo
    <3> QED
      BY <3>2, <1>0, <1>1
  <2> HIDE DEF n
  <2> QED
    BY <1>2, <2>2, <2>3
<1>7. \A i \in 0..n - 1 : q.samples[Slot(r, r.size + i)] = s[i + 1]
  <2> SUFFICES ASSUME NEW i \in 0..n - 1
               PROVE  q.samples[Slot(r, r.size + i)] = s[i + 1]
    OBVIOUS
  <2> DEFINE k == Slot(r, r.size + i)
             w == CHOOSE j \in 0..n - 1 : WrittenTo(r, j, k)
  <2>1. r.size + i \in 0..Capacity - 1 /\ r.size + i \in 0..Capacity
    BY <1>0, <1>1, CapacityAssumption
  <2>2. k \in Slots
    BY <2>1, SlotInRange
  <2>3. WrittenTo(r, i, k)
    BY DEF WrittenTo
  <2>4. w \in 0..n - 1 /\ WrittenTo(r, w, k)
    BY <2>3
  <2>5. q.samples[k] = s[1 + w]
    BY <1>2, <2>2, <2>3
  <2> HIDE DEF w, n
  <2>6. r.size + w \in 0..Capacity - 1
    BY <2>4, <1>0, <1>1, CapacityAssumption
  <2>7. r.size + w = r.size + i
    BY <2>1, <2>4, <2>6, SlotsDiffer DEF WrittenTo
  <2>8. w = i
    BY <2>7, <2>4, <1>0, <1>1
  <2> QED
    BY <2>5, <2>8
<1> DEFINE new == SubSeq(s, 1, n)
<1>8. /\ new \in Seq(S) /\ Len(new) = n
      /\ \A i \in 1..n : new[i] = s[i]
  BY <1>1
<1>9. /\ Contents(r) = [i \in 1..r.size |-> r.samples[Slot(r, i - 1)]]
      /\ Contents(q) = [i \in 1..r.size + n |-> q.samples[Slot(r, i - 1)]]
  <2>1. \A i \in 1..r.size + n : i - 1 \in 0..Capacity
    BY <1>0, <1>1, CapacityAssumption
  <2> HIDE DEF q, n
  <2> QED
    BY <1>2, <1>5, <2>1 DEF Contents, Front
<1> HIDE DEF q, n, new
<1>10. Contents(r) \in Seq(S) /\ Len(Contents(r)) = r.size
  <2>1. \A i \in 1..r.size : r.samples[Slot(r, i - 1)] \in S
    <3> SUFFICES ASSUME NEW i \in 1..r.size
                 PROVE  r.samples[Slot(r, i - 1)] \in S
      OBVIOUS
    <3>1. i - 1 \in 0..Capacity
      BY <1>0, CapacityAssumption
    <3> QED
      BY <3>1, SlotInRange DEF Ring
  <2> QED
    BY <1>0, <1>9, <2>1
<1>11. Contents(q) = Contents(r) \o new
  <2>1. Contents(r) \o new =
          [i \in 1..r.size + n |->
             IF i <= r.size THEN Contents(r)[i] ELSE new[i - r.size]]
    <3>1. Contents(r) \o new =
            [i \in 1..Len(Contents(r)) + Len(new) |->
               IF i <= Len(Contents(r)) THEN Contents(r)[i]
                                        ELSE new[i - Len(Contents(r))]]
      BY <1>8, <1>10, Concatenated, Zenon
    <3> QED
      BY <1>8, <1>10, <3>1, Zenon
  <2>2. \A i \in 1..r.size + n :
          q.samples[Slot(r, i - 1)] =
            IF i <= r.size THEN Contents(r)[i] ELSE new[i - r.size]
    <3> SUFFICES ASSUME NEW i \in 1..r.size + n
                 PROVE  q.samples[Slot(r, i - 1)] =
                          IF i <= r.size THEN Contents(r)[i]
                                         ELSE new[i - r.size]
      OBVIOUS
    <3>1. CASE i <= r.size
      <4>1. i - 1 \in 0..r.size - 1 /\ i \in 1..r.size
        BY <3>1, <1>0, <1>1
      <4> QED
        BY <3>1, <4>1, <1>6, <1>9
    <3>2. CASE ~(i <= r.size)
      <4> DEFINE j == i - 1 - r.size
      <4>1. j \in 0..n - 1 /\ r.size + j = i - 1 /\ i - r.size = j + 1
        BY <3>2, <1>0, <1>1
      <4>2. j + 1 \in 1..n
        BY <4>1, <1>1
      <4> HIDE DEF j
      <4> QED
        BY <3>2, <4>1, <4>2, <1>7, <1>8
    <3> QED
      BY <3>1, <3>2
  <2> QED
    BY <1>9, <2>1, <2>2, Zenon
<1> QED
  BY <1>4, <1>11 DEF q, n, new

(* flex1500_iq_ring_pop returns the oldest samples and leaves the rest in  *)
(* order.                                                                  *)
THEOREM PopTakes ==
  ASSUME NEW S, NEW r \in Ring(S), NEW n \in 0..r.size
  PROVE  /\ Pop(r, n) \in Ring(S)
         /\ Front(r, n) \in Seq(S) /\ Len(Front(r, n)) = n
         /\ Contents(r) = Front(r, n) \o Contents(Pop(r, n))
<1> DEFINE q == Pop(r, n)
<1>0. /\ r.size \in 0..Capacity /\ r.read_index \in 0..Capacity - 1
      /\ n \in 0..Capacity
  BY CapacityAssumption DEF Ring, Slots
<1>1. q.read_index = Slot(r, n) /\ q.size = r.size - n
      /\ q.samples = r.samples
  BY DEF Ring, Pop, Slot
<1>2. q \in Ring(S)
  <2>1. Slot(r, n) \in Slots
    BY <1>0, SlotInRange
  <2>2. r.size - n \in 0..Capacity
    BY <1>0, CapacityAssumption
  <2> QED
    BY <2>1, <2>2 DEF Ring, Pop, Slot
<1>3. \A i \in 0..r.size - n - 1 : Slot(q, i) = Slot(r, n + i)
  <2> SUFFICES ASSUME NEW i \in 0..r.size - n - 1
               PROVE  Slot(q, i) = Slot(r, n + i)
    OBVIOUS
  <2>1. i \in 0..Capacity /\ n + i \in 0..Capacity
    BY <1>0, CapacityAssumption
  <2>2. q.read_index \in 0..Capacity - 1
    BY <1>2 DEF Ring, Slots
  <2>3. /\ Slot(q, i) = IF q.read_index + i < Capacity THEN q.read_index + i
                        ELSE q.read_index + i - Capacity
        /\ Slot(r, n + i) =
             IF r.read_index + (n + i) < Capacity THEN r.read_index + (n + i)
             ELSE r.read_index + (n + i) - Capacity
        /\ Slot(r, n) = IF r.read_index + n < Capacity THEN r.read_index + n
                        ELSE r.read_index + n - Capacity
    BY <1>0, <1>2, <2>1, SlotInRange
  <2> HIDE DEF q
  <2> QED
    BY <1>0, <1>1, <2>1, <2>2, <2>3, CapacityAssumption
<1>4. \A i \in 1..r.size : r.samples[Slot(r, i - 1)] \in S
  <2> SUFFICES ASSUME NEW i \in 1..r.size
               PROVE  r.samples[Slot(r, i - 1)] \in S
    OBVIOUS
  <2>1. i - 1 \in 0..Capacity
    BY <1>0, CapacityAssumption
  <2> QED
    BY <2>1, SlotInRange DEF Ring
<1>5. Front(r, n) = [i \in 1..n |-> r.samples[Slot(r, i - 1)]]
  BY DEF Front
<1>6. Front(r, n) \in Seq(S) /\ Len(Front(r, n)) = n
  <2>1. n \in Nat /\ \A i \in 1..n : i \in 1..r.size
    BY <1>0, CapacityAssumption
  <2>2. Front(r, n) \in [1..n -> S]
    BY <1>4, <1>5, <2>1
  <2> QED
    BY <2>1, <2>2, FunctionIsSeq
<1>7. Contents(q) = [i \in 1..r.size - n |-> r.samples[Slot(r, n + i - 1)]]
  <2>1. \A i \in 1..r.size - n :
          i - 1 \in 0..r.size - n - 1 /\ n + (i - 1) = n + i - 1
    BY <1>0
  <2> HIDE DEF q
  <2> QED
    BY <1>1, <1>3, <2>1 DEF Contents, Front
<1>8. Contents(q) \in Seq(S) /\ Len(Contents(q)) = r.size - n
  <2>1. /\ r.size - n \in Nat
        /\ \A i \in 1..r.size - n : n + i \in 1..r.size
    BY <1>0, CapacityAssumption
  <2> HIDE DEF q
  <2>2. Contents(q) \in [1..r.size - n -> S]
    BY <1>4, <1>7, <2>1
  <2> QED
    BY <2>1, <2>2, FunctionIsSeq
<1>9. Contents(r) = [i \in 1..r.size |-> r.samples[Slot(r, i - 1)]]
  BY DEF Contents, Front
<1> HIDE DEF q
<1>10. Front(r, n) \o Contents(q) =
         [i \in 1..r.size |-> IF i <= n THEN Front(r, n)[i]
                                        ELSE Contents(q)[i - n]]
  <2>1. n + (r.size - n) = r.size
    BY <1>0, CapacityAssumption
  <2>2. Front(r, n) \o Contents(q) =
          [i \in 1..Len(Front(r, n)) + Len(Contents(q)) |->
             IF i <= Len(Front(r, n)) THEN Front(r, n)[i]
                                      ELSE Contents(q)[i - Len(Front(r, n))]]
    BY <1>6, <1>8, Concatenated, Zenon
  <2> QED
    BY <1>6, <1>8, <2>1, <2>2, Zenon
<1>11. \A i \in 1..r.size :
         r.samples[Slot(r, i - 1)] =
           IF i <= n THEN Front(r, n)[i] ELSE Contents(q)[i - n]
  <2> SUFFICES ASSUME NEW i \in 1..r.size
               PROVE  r.samples[Slot(r, i - 1)] =
                        IF i <= n THEN Front(r, n)[i] ELSE Contents(q)[i - n]
    OBVIOUS
  <2>1. CASE i <= n
    <3>1. i \in 1..n
      BY <2>1, <1>0
    <3> QED
      BY <2>1, <3>1, <1>5
  <2>2. CASE ~(i <= n)
    <3>1. i - n \in 1..r.size - n /\ n + (i - n) - 1 = i - 1
      BY <2>2, <1>0
    <3> QED
      BY <2>2, <3>1, <1>7
  <2> QED
    BY <2>1, <2>2
<1>12. Contents(r) = Front(r, n) \o Contents(q)
  BY <1>9, <1>10, <1>11, Zenon
<1> QED
  BY <1>2, <1>6, <1>12 DEF q

(* A cleared ring, and a fresh one, is an empty queue.                     *)
LEMMA ClearedIsEmpty ==
  ASSUME NEW S, 0 \in S, NEW r \in Ring(S)
  PROVE  /\ Clear(r) \in Ring(S) /\ Contents(Clear(r)) = <<>>
         /\ EmptyRing \in Ring(S) /\ Contents(EmptyRing) = <<>>
<1>1. 0 \in Slots /\ 0 \in 0..Capacity
  BY CapacityAssumption DEF Slots
<1>2. Clear(r) \in Ring(S) /\ Clear(r).size = 0
  BY <1>1 DEF Ring, Clear
<1>3. EmptyRing \in Ring(S) /\ EmptyRing.size = 0
  BY <1>1 DEF Ring, EmptyRing
<1> QED
  BY <1>2, <1>3 DEF Contents, Front
-----------------------------------------------------------------------------
(* The fan-out. *)

(* Each element is less than those after it. *)
Rising(s) == \A i, j \in DOMAIN s : i < j => s[i] < s[j]

(* Samples on their way: in order, and all delivered by the radio. *)
StreamSound ==
  LET s == frame \o Contents(ring)
  IN  Rising(s) /\ \A i \in DOMAIN s : s[i] \in 1..made

(* Every frame took at least one sample from the queue, so the number of   *)
(* frames stays below the number of samples.                               *)
FramesCounted == sequence + ring.size <= made

(* A block for the rtl_tcp client is never sent beyond its end.            *)
RtlSound == rtl.offset < rtl.length \/ rtl.offset = 0

(* What a connected client has of the frame in progress: it has received   *)
(* nothing yet; or it is in the middle of this frame; or it has the whole  *)
(* of the last one and nothing of this one.                                *)
Unserved(c) == got[c].frame = 0 /\ offset[c] = 0

Within(c) ==
  frame # <<>> /\ got[c].frame = sequence /\ got[c].part = offset[c]

Between(c) ==
  /\ got[c].part = Bytes /\ offset[c] = 0
  /\ got[c].frame = IF frame = <<>> THEN sequence ELSE sequence - 1

ClientSound(c) == fd[c] => Unserved(c) \/ Within(c) \/ Between(c)

(* The inductive invariant. *)
FanoutInv ==
  /\ TypeOK
  /\ StreamSound
  /\ FramesCounted
  /\ RtlSound
  /\ \A c \in Clients : ClientSound(c)

(* Two runs of samples are in order together when each is and the second   *)
(* follows the first.                                                      *)
LEMMA RisingJoin ==
  ASSUME NEW a \in Seq(Int), NEW b \in Seq(Int)
  PROVE  Rising(a \o b) <=>
           /\ Rising(a) /\ Rising(b)
           /\ \A i \in DOMAIN a, j \in DOMAIN b : a[i] < b[j]
<1> DEFINE c == a \o b
<1>1. c = [i \in 1..Len(a) + Len(b) |->
             IF i <= Len(a) THEN a[i] ELSE b[i - Len(a)]]
  BY Concatenated
<1>2. /\ Len(a) \in Nat /\ Len(b) \in Nat
      /\ DOMAIN a = 1..Len(a) /\ DOMAIN b = 1..Len(b)
      /\ DOMAIN c = 1..Len(a) + Len(b)
  BY <1>1
<1>3. /\ \A i \in DOMAIN a : i \in DOMAIN c /\ c[i] = a[i]
      /\ \A j \in DOMAIN b : j + Len(a) \in DOMAIN c /\ c[j + Len(a)] = b[j]
  BY <1>1, <1>2
<1>4. \A i \in DOMAIN c : \/ i \in DOMAIN a
                          \/ i - Len(a) \in DOMAIN b /\ i > Len(a)
  BY <1>2
<1> HIDE DEF c
<1>5. ASSUME Rising(c)
      PROVE  /\ Rising(a) /\ Rising(b)
             /\ \A i \in DOMAIN a, j \in DOMAIN b : a[i] < b[j]
  <2>1. Rising(a)
    BY <1>2, <1>3, <1>5 DEF Rising
  <2>2. ASSUME NEW i \in DOMAIN b, NEW j \in DOMAIN b, i < j
        PROVE  b[i] < b[j]
    <3>1. i + Len(a) \in DOMAIN c /\ j + Len(a) \in DOMAIN c
          /\ i + Len(a) < j + Len(a)
      BY <1>2, <1>3, <2>2
    <3>2. c[i + Len(a)] < c[j + Len(a)]
      BY <1>5, <3>1 DEF Rising
    <3> QED
      BY <1>3, <3>2
  <2>3. ASSUME NEW i \in DOMAIN a, NEW j \in DOMAIN b
        PROVE  a[i] < b[j]
    <3>1. i \in DOMAIN c /\ j + Len(a) \in DOMAIN c /\ i < j + Len(a)
      BY <1>2, <1>3
    <3>2. c[i] < c[j + Len(a)]
      BY <1>5, <3>1 DEF Rising
    <3> QED
      BY <1>3, <3>2
  <2> QED
    BY <2>1, <2>2, <2>3 DEF Rising
<1>6. ASSUME Rising(a), Rising(b),
             \A i \in DOMAIN a, j \in DOMAIN b : a[i] < b[j],
             NEW i \in DOMAIN c, NEW j \in DOMAIN c, i < j
      PROVE  c[i] < c[j]
  <2>1. CASE i \in DOMAIN a /\ j \in DOMAIN a
    BY <1>3, <1>6, <2>1 DEF Rising
  <2>2. CASE i \in DOMAIN a /\ j - Len(a) \in DOMAIN b
    <3>1. c[j] = b[j - Len(a)]
      BY <1>2, <1>3, <2>2
    <3> QED
      BY <1>3, <1>6, <2>2, <3>1
  <2>3. CASE i - Len(a) \in DOMAIN b /\ j - Len(a) \in DOMAIN b
    <3>1. c[j] = b[j - Len(a)] /\ c[i] = b[i - Len(a)]
      BY <1>2, <1>3, <2>3
    <3>2. i - Len(a) < j - Len(a)
      BY <1>2, <1>6
    <3> QED
      BY <1>6, <2>3, <3>1, <3>2 DEF Rising
  <2> QED
    BY <1>2, <1>4, <1>6, <2>1, <2>2, <2>3
<1> QED
  BY <1>5, <1>6 DEF Rising, c

(* The elements of two runs together are those of each.                    *)
LEMMA ElementsJoin ==
  ASSUME NEW S, NEW a \in Seq(Int), NEW b \in Seq(Int)
  PROVE  (\A i \in DOMAIN (a \o b) : (a \o b)[i] \in S) <=>
           /\ \A i \in DOMAIN a : a[i] \in S
           /\ \A i \in DOMAIN b : b[i] \in S
<1> DEFINE c == a \o b
<1>1. c = [i \in 1..Len(a) + Len(b) |->
             IF i <= Len(a) THEN a[i] ELSE b[i - Len(a)]]
  BY Concatenated
<1>2. /\ Len(a) \in Nat /\ Len(b) \in Nat
      /\ DOMAIN a = 1..Len(a) /\ DOMAIN b = 1..Len(b)
      /\ DOMAIN c = 1..Len(a) + Len(b)
  BY <1>1
<1>3. /\ \A i \in DOMAIN a : i \in DOMAIN c /\ c[i] = a[i]
      /\ \A j \in DOMAIN b : j + Len(a) \in DOMAIN c /\ c[j + Len(a)] = b[j]
  BY <1>1, <1>2
<1>4. \A i \in DOMAIN c : \/ i \in DOMAIN a
                          \/ /\ i - Len(a) \in DOMAIN b
                             /\ c[i] = b[i - Len(a)]
  BY <1>1, <1>2
<1> HIDE DEF c
<1>5. (\A i \in DOMAIN c : c[i] \in S) <=>
        /\ \A i \in DOMAIN a : a[i] \in S
        /\ \A i \in DOMAIN b : b[i] \in S
  BY <1>3, <1>4
<1> QED
  BY <1>5 DEF c

(* The sequences of the invariant are sequences of numbers.                *)
LEMMA Sequences ==
  ASSUME TypeOK
  PROVE  /\ ring \in Ring(0..MaxSample)
         /\ Contents(ring) \in Seq(Int) /\ Len(Contents(ring)) = ring.size
         /\ frame \in Seq(Int)
         /\ \A r \in Ring(0..MaxSample) : Contents(r) \in Seq(Int)
<1>1. ring \in Ring(0..MaxSample)
  BY DEF TypeOK, Ring
<1>2. ASSUME NEW r \in Ring(0..MaxSample)
      PROVE  Contents(r) \in Seq(0..MaxSample) /\ Len(Contents(r)) = r.size
  <2>1. r.size \in 0..r.size
    BY CapacityAssumption DEF Ring
  <2> QED
    BY <2>1, PopTakes DEF Contents
<1>3. \A s \in Seq(0..MaxSample) : s \in Seq(Int)
  BY FanoutAssumption
<1>4. frame \in Seq(Int)
  BY FanoutAssumption DEF TypeOK
<1> QED
  BY <1>1, <1>2, <1>3, <1>4

(* What stays of the samples on their way when some are dropped from the   *)
(* front or from the back.                                                 *)
LEMMA StreamParts ==
  ASSUME TypeOK, StreamSound
  PROVE  /\ Rising(frame) /\ Rising(Contents(ring))
         /\ \A i \in DOMAIN frame : frame[i] \in 1..made
         /\ \A i \in DOMAIN Contents(ring) : Contents(ring)[i] \in 1..made
<1> DEFINE a == frame
           b == Contents(ring)
<1>1. a \in Seq(Int) /\ b \in Seq(Int)
  BY Sequences
<1>2. Rising(a \o b) /\ \A i \in DOMAIN (a \o b) : (a \o b)[i] \in 1..made
  BY DEF StreamSound
<1> HIDE DEF a, b
<1>3. Rising(a) /\ Rising(b)
  BY <1>1, <1>2, RisingJoin
<1>4. /\ \A i \in DOMAIN a : a[i] \in 1..made
      /\ \A i \in DOMAIN b : b[i] \in 1..made
  BY <1>1, <1>2, ElementsJoin
<1> QED
  BY <1>3, <1>4 DEF a, b

(* A frame alone, a queue alone, or neither, is a sound stream.            *)
LEMMA PartSound ==
  ASSUME NEW a, NEW b,
         \/ a \in Seq(Int) /\ b = <<>>
         \/ a = <<>> /\ b \in Seq(Int),
         Rising(a), Rising(b), NEW S,
         \A i \in DOMAIN a : a[i] \in S, \A i \in DOMAIN b : b[i] \in S
  PROVE  Rising(a \o b) /\ \A i \in DOMAIN (a \o b) : (a \o b)[i] \in S
<1>1. a \in Seq(Int) /\ b \in Seq(Int)
  BY EmptySeq
<1>2. \A i \in DOMAIN a, j \in DOMAIN b : a[i] < b[j]
  OBVIOUS
<1>3. Rising(a \o b)
  BY <1>1, <1>2, RisingJoin
<1>4. \A i \in DOMAIN (a \o b) : (a \o b)[i] \in S
  BY <1>1, ElementsJoin
<1> QED
  BY <1>3, <1>4

(* prepare_frame takes the frame from the front of the queue and takes     *)
(* nothing else; a frame that is pending stays as it is.                   *)
LEMMA Prepared ==
  ASSUME FanoutInv, Ready
  PROVE  /\ Queue \in Ring(0..MaxSample)
         /\ Pending \in Seq(1..MaxSample) /\ Len(Pending) <= FrameSamples
         /\ Pending # <<>>
         /\ Pending \o Contents(Queue) = frame \o Contents(ring)
         /\ Number \in 0..MaxSample /\ Number + Queue.size <= made
<1>1. CASE frame # <<>>
  <2>1. Queue = ring /\ Pending = frame /\ Number = sequence
    BY <1>1 DEF Queue, Pending, Number
  <2>2. TypeOK /\ FramesCounted /\ ring \in Ring(0..MaxSample)
    BY Sequences DEF FanoutInv
  <2> QED
    BY <1>1, <2>1, <2>2 DEF TypeOK, FramesCounted
<1>2. CASE frame = <<>>
  <2>1. /\ TypeOK /\ StreamSound /\ FramesCounted
        /\ ring \in Ring(0..MaxSample) /\ ring.size \in Nat \ {0}
    BY <1>2, Sequences, CapacityAssumption DEF FanoutInv, TypeOK, Ready
  <2>2. /\ Queue = Pop(ring, Count) /\ Pending = Front(ring, Count)
        /\ Number = sequence + 1
    BY <1>2 DEF Queue, Pending, Number
  <2>3. Count \in 1..ring.size /\ Count <= FrameSamples
    BY <2>1, FanoutAssumption DEF Count
  <2>4. Count \in 0..ring.size
    BY <2>3
  <2>5. /\ Queue \in Ring(0..MaxSample)
        /\ Pending \in Seq(0..MaxSample) /\ Len(Pending) = Count
        /\ Contents(ring) = Pending \o Contents(Queue)
    BY <2>1, <2>2, <2>4, PopTakes
  <2>6. Pending # <<>> /\ Len(Pending) <= FrameSamples
    BY <2>3, <2>5
  <2>7. Queue.size = ring.size - Count
    BY <2>1, <2>2 DEF Pop, Ring
  <2>8. sequence \in 0..MaxSample /\ made \in 0..MaxSample
        /\ sequence + ring.size <= made
    BY <2>1 DEF TypeOK, FramesCounted
  <2>9. Number \in 0..MaxSample /\ Number + Queue.size <= made
    BY <2>1, <2>2, <2>3, <2>7, <2>8, FanoutAssumption
  <2>10. frame \o Contents(ring) = Contents(ring)
    BY <1>2, Sequences, <2>1
  <2>11. Pending \in Seq(1..MaxSample)
    <3> DEFINE a == Pending
               b == Contents(Queue)
    <3>1. a \in Seq(Int) /\ b \in Seq(Int)
      BY <2>5, <2>1, Sequences, FanoutAssumption
    <3>2. \A i \in DOMAIN (a \o b) : (a \o b)[i] \in 1..made
      BY <2>1, <2>5, StreamParts
    <3> HIDE DEF a, b
    <3>3. \A i \in DOMAIN a : a[i] \in 1..made
      BY <3>1, <3>2, ElementsJoin
    <3>4. Len(a) \in Nat /\ DOMAIN a = 1..Len(a) /\ a \in [1..Len(a) -> Int]
      BY <3>1, LenProperties
    <3>5. 1..made \subseteq 1..MaxSample
      BY <2>8, FanoutAssumption
    <3>6. a \in [1..Len(a) -> 1..MaxSample]
      BY <3>3, <3>4, <3>5
    <3> QED
      BY <3>4, <3>6, FunctionIsSeq DEF a
  <2> QED
    BY <2>5, <2>6, <2>9, <2>10, <2>11
<1> QED
  BY <1>1, <1>2

(* The initial state. *)
LEMMA FanoutInit ==
  ASSUME Init PROVE FanoutInv
<1>1. /\ EmptyRing \in Ring(0..MaxSample) /\ EmptyRing.size = 0
      /\ Contents(EmptyRing) = <<>>
  <2>1. 0 \in 0..MaxSample /\ 0 \in Slots
    BY FanoutAssumption, CapacityAssumption DEF Slots
  <2>2. EmptyRing \in Ring(0..MaxSample) /\ EmptyRing.size = 0
    BY <2>1, CapacityAssumption DEF EmptyRing, Ring
  <2> QED
    BY <2>1, <2>2, ClearedIsEmpty
<1>2. TypeOK
  BY <1>1, FanoutAssumption
  DEF Init, TypeOK, Ring, NoRtl, Nothing, AllPeers, RtlClient
<1>3. StreamSound
  BY <1>1 DEF Init, StreamSound, Rising
<1>4. FramesCounted /\ RtlSound /\ \A c \in Clients : ClientSound(c)
  BY <1>1 DEF Init, FramesCounted, RtlSound, ClientSound, NoRtl
<1> QED
  BY <1>2, <1>3, <1>4 DEF FanoutInv

(* The queue gets the samples behind those it has.                         *)
LEMMA ReceiveKeeps ==
  ASSUME FanoutInv, NEW n \in 1..2, Receive(n)
  PROVE  FanoutInv'
<1> DEFINE new == [i \in 1..n |-> made + i]
           acc == Accepted(ring, Len(new))
           add == SubSeq(new, 1, acc)
<1>1. TypeOK /\ StreamSound /\ FramesCounted
  BY DEF FanoutInv
<1>2. /\ made \in Nat /\ n \in Nat /\ made + n <= MaxSample /\ made' = made + n
      /\ ring' = Push(ring, new)
      /\ UNCHANGED <<frame, sequence, conn, peer, got>>
  BY <1>1 DEF TypeOK, Receive
<1>3. new \in Seq(0..MaxSample) /\ Len(new) = n
  <2>1. new \in [1..n -> 0..MaxSample]
    BY <1>2, FanoutAssumption
  <2> HIDE DEF new
  <2> QED
    BY <1>2, <2>1, FunctionIsSeq
<1>4. ring \in Ring(0..MaxSample) /\ ring.size \in 0..Capacity
  BY <1>1, Sequences DEF Ring
<1>5. acc \in 0..n
  BY <1>2, <1>3, <1>4, CapacityAssumption DEF Accepted
<1>6. /\ ring' \in Ring(0..MaxSample)
      /\ Contents(ring') = Contents(ring) \o add
  <2> HIDE DEF new
  <2> QED
    BY <1>2, <1>3, <1>4, PushAppends
<1>7. ring'.size = ring.size + acc
  BY <1>2 DEF Push
<1>8. /\ add \in Seq(Int) /\ DOMAIN add = 1..acc
      /\ \A i \in 1..acc : add[i] = made + i
  <2>1. add = [i \in 1..acc |-> new[i]]
    BY <1>3, <1>5, SubSeqProperties
  <2>2. \A i \in 1..acc : i \in 1..n
    BY <1>2, <1>5
  <2>3. add = [i \in 1..acc |-> made + i]
    BY <2>1, <2>2
  <2> HIDE DEF add, acc, new
  <2>4. add \in [1..acc -> Int] /\ acc \in Nat
    BY <1>2, <1>5, <2>3
  <2>5. add \in Seq(Int)
    BY <2>4, FunctionIsSeq
  <2> QED
    BY <2>3, <2>5
<1>9. TypeOK'
  BY <1>1, <1>2, <1>6 DEF TypeOK, conn, Ring
<1>10. StreamSound'
  <2> DEFINE s == frame \o Contents(ring)
  <2>1. /\ frame \in Seq(Int) /\ Contents(ring) \in Seq(Int)
        /\ s \in Seq(Int)
    BY <1>1, Sequences
  <2>2. Rising(s) /\ \A i \in DOMAIN s : s[i] \in 1..made
    BY <1>1 DEF StreamSound
  <2>3. frame' \o Contents(ring') = s \o add
    <3>1. frame' = frame
      BY <1>2
    <3>2. /\ frame \in Seq(Int) /\ Contents(ring) \in Seq(Int)
          /\ add \in Seq(Int)
      BY <1>8, <2>1
    <3> HIDE DEF add
    <3>3. (frame \o Contents(ring)) \o add = frame \o (Contents(ring) \o add)
      BY <3>2, ConcatAssociative
    <3> QED
      BY <1>6, <3>1, <3>3
  <2> HIDE DEF s, add, acc
  <2>4. Rising(add)
    BY <1>2, <1>5, <1>8 DEF Rising
  <2>5. \A i \in DOMAIN s, j \in DOMAIN add : s[i] < add[j]
    BY <1>2, <1>5, <1>8, <2>2
  <2>6. Rising(s \o add)
    BY <1>8, <2>1, <2>2, <2>4, <2>5, RisingJoin
  <2>7. /\ \A i \in DOMAIN s : s[i] \in 1..made + n
        /\ \A i \in DOMAIN add : add[i] \in 1..made + n
    BY <1>2, <1>5, <1>8, <2>2
  <2>8. \A i \in DOMAIN (s \o add) : (s \o add)[i] \in 1..made + n
    BY <1>8, <2>1, <2>7, ElementsJoin
  <2> QED
    BY <1>2, <2>3, <2>6, <2>8 DEF StreamSound
<1>11. FramesCounted'
  <2>1. sequence \in Nat /\ sequence + ring.size <= made
    BY <1>1 DEF TypeOK, FramesCounted
  <2> HIDE DEF acc
  <2> QED
    BY <1>2, <1>4, <1>5, <1>7, <2>1 DEF FramesCounted
<1>12. RtlSound' /\ \A c \in Clients : ClientSound(c)'
  BY <1>2
  DEF FanoutInv, RtlSound, ClientSound, Unserved, Within, Between, conn
<1> QED
  BY <1>9, <1>10, <1>11, <1>12 DEF FanoutInv

(* Clearing the queue, also together with the frame, keeps what is left of *)
(* the stream in order.                                                    *)
LEMMA ClearKeeps ==
  ASSUME FanoutInv, ring' = Clear(ring) \/ ring' = ring,
         frame' = frame \/ (frame' = <<>> /\ ring' = Clear(ring)),
         UNCHANGED <<made, sequence>>
  PROVE  /\ ring' \in Ring(0..MaxSample)
         /\ frame' \in Seq(1..MaxSample) /\ Len(frame') <= FrameSamples
         /\ StreamSound' /\ FramesCounted'
<1>1. TypeOK /\ StreamSound /\ FramesCounted
  BY DEF FanoutInv
<1>2. ring \in Ring(0..MaxSample) /\ ring.size \in Nat
  BY <1>1, Sequences, CapacityAssumption DEF Ring
<1>3. /\ Clear(ring) \in Ring(0..MaxSample) /\ Contents(Clear(ring)) = <<>>
      /\ Clear(ring).size = 0
  <2>1. 0 \in 0..MaxSample
    BY FanoutAssumption
  <2>2. Clear(ring).size = 0
    BY <1>2 DEF Clear, Ring
  <2> QED
    BY <1>2, <2>1, <2>2, ClearedIsEmpty
<1>4. frame' \in Seq(1..MaxSample) /\ Len(frame') <= FrameSamples
  <2>1. <<>> \in Seq(1..MaxSample) /\ Len(<<>>) = 0 /\ FrameSamples \in Nat
    BY FanoutAssumption, EmptySeq
  <2>2. frame \in Seq(1..MaxSample) /\ Len(frame) <= FrameSamples
    BY <1>1 DEF TypeOK
  <2>3. CASE frame' = frame
    BY <2>2, <2>3
  <2>4. CASE frame' = <<>>
    BY <2>1, <2>4
  <2> QED
    BY <2>3, <2>4
<1>5. FramesCounted'
  BY <1>1, <1>2, <1>3 DEF TypeOK, FramesCounted
<1>6. StreamSound'
  <2>1. CASE frame' = frame /\ ring' = ring
    BY <1>1, <2>1 DEF StreamSound
  <2>2. CASE ring' = Clear(ring)
    <3> DEFINE a == frame'
               b == Contents(ring')
    <3>1. a \in Seq(Int) /\ b = <<>>
      BY <1>1, <1>3, <2>2, Sequences, EmptySeq
    <3>2. Rising(a) /\ \A i \in DOMAIN a : a[i] \in 1..made
      BY <1>1, <2>2, StreamParts DEF Rising
    <3>3. Rising(b) /\ \A i \in DOMAIN b : b[i] \in 1..made
      BY <3>1 DEF Rising
    <3> HIDE DEF a, b
    <3>4. Rising(a \o b) /\ \A i \in DOMAIN (a \o b) : (a \o b)[i] \in 1..made
      BY <3>1, <3>2, <3>3, PartSound
    <3> QED
      BY <3>4 DEF StreamSound, a, b
  <2> QED
    BY <2>1, <2>2
<1> QED
  BY <1>2, <1>3, <1>4, <1>5, <1>6

(* The fields of the rtl_tcp connection. *)
RtlBlock ==
  [open : BOOLEAN, length : {0, Bytes}, offset : 0..Bytes - 1,
   complete : BOOLEAN]

(* A step that leaves the clients alone, but for their peers, and clears   *)
(* the queue, or clears the frame too when nobody is connected.            *)
Quiet ==
  /\ UNCHANGED <<made, sequence, fd, offset, got>>
  /\ \/ UNCHANGED ring
     \/ ring' = Clear(ring)
  /\ \/ UNCHANGED frame
     \/ frame' = <<>> /\ ring' = Clear(ring) /\ \A c \in Clients : ~fd[c]

(* After such a step everybody still has his place in the frame.           *)
LEMMA QuietKeeps ==
  ASSUME FanoutInv, Quiet, rtl' \in RtlBlock, RtlSound',
         peer' \in [AllPeers -> {"reads", "stalls", "gone"}]
  PROVE  FanoutInv' /\ \A c \in Clients : NextFrame(c)
<1>1. TypeOK /\ \A c \in Clients : ClientSound(c)
  BY DEF FanoutInv
<1>2. ring' = Clear(ring) \/ ring' = ring
  BY DEF Quiet
<1>3. frame' = frame \/ (frame' = <<>> /\ ring' = Clear(ring))
  BY DEF Quiet
<1>4. UNCHANGED <<made, sequence>> /\ UNCHANGED <<fd, offset, got>>
  BY DEF Quiet
<1>5. /\ ring' \in Ring(0..MaxSample)
      /\ frame' \in Seq(1..MaxSample) /\ Len(frame') <= FrameSamples
      /\ StreamSound' /\ FramesCounted'
  BY <1>2, <1>3, <1>4, ClearKeeps
<1>6. TypeOK'
  BY <1>1, <1>4, <1>5 DEF TypeOK, Ring, RtlBlock
<1>7. ASSUME NEW c \in Clients
      PROVE  ClientSound(c)' /\ NextFrame(c)
  <2>1. fd[c] => frame' = frame
    BY DEF Quiet
  <2> QED
    BY <1>1, <1>4, <2>1
    DEF ClientSound, Unserved, Within, Between, NextFrame
<1> QED
  BY <1>5, <1>6, <1>7 DEF FanoutInv

(* A retune or the end of a transmission clears the queue. *)
LEMMA ClearRingKeeps ==
  ASSUME FanoutInv, ClearRing
  PROVE  FanoutInv' /\ \A c \in Clients : NextFrame(c)
<1>1. Quiet
  BY DEF ClearRing, Quiet, conn
<1> QED
  BY <1>1, QuietKeeps DEF ClearRing, FanoutInv, TypeOK, RtlSound, RtlBlock, conn

(* The rtl_tcp client connects, changes its rate or hangs up. *)
LEMMA RtlKeeps ==
  ASSUME FanoutInv, AcceptRtl \/ SetSampleRate \/ RtlHangup
  PROVE  FanoutInv' /\ \A c \in Clients : NextFrame(c)
<1>1. TypeOK
  BY DEF FanoutInv
<1>2. rtl' \in RtlBlock /\ rtl'.offset = 0
  <2>1. rtl \in RtlBlock /\ 0 \in 0..Bytes - 1
    BY <1>1, FanoutAssumption DEF TypeOK, RtlBlock
  <2>2. CASE AcceptRtl
    BY <2>1, <2>2 DEF RtlBlock, AcceptRtl
  <2>3. CASE SetSampleRate
    BY <2>1, <2>3 DEF RtlBlock, SetSampleRate
  <2>4. CASE RtlHangup
    BY <2>1, <2>4 DEF RtlBlock, RtlHangup
  <2> QED
    BY <2>2, <2>3, <2>4
<1>3. peer' \in [AllPeers -> {"reads", "stalls", "gone"}]
  BY <1>1 DEF TypeOK, AcceptRtl, SetSampleRate, RtlHangup
<1>4. Quiet
  <2>1. CASE AcceptRtl
    <3>1. UNCHANGED <<made, sequence, fd, offset, got>>
      BY <2>1 DEF AcceptRtl
    <3>2. CASE Connected
      BY <2>1, <3>1, <3>2 DEF AcceptRtl, FreshStream, Quiet
    <3>3. CASE ~Connected
      BY <2>1, <3>1, <3>3 DEF AcceptRtl, FreshStream, Connected, Quiet
    <3> QED
      BY <3>2, <3>3
  <2>2. CASE SetSampleRate \/ RtlHangup
    BY <2>2 DEF SetSampleRate, RtlHangup, Quiet
  <2> QED
    BY <2>1, <2>2
<1> QED
  BY <1>2, <1>3, <1>4, QuietKeeps DEF RtlSound

(* The other ends do as they please. *)
LEMMA PeerKeeps ==
  ASSUME FanoutInv, NEW c \in AllPeers, NEW p \in {"reads", "stalls", "gone"},
         PeerChanges(c, p)
  PROVE  FanoutInv' /\ \A b \in Clients : NextFrame(b)
<1>1. TypeOK /\ RtlSound
  BY DEF FanoutInv
<1>2. Quiet
  BY DEF PeerChanges, Quiet, conn
<1>3. rtl' \in RtlBlock /\ RtlSound'
  BY <1>1 DEF TypeOK, RtlBlock, RtlSound, PeerChanges, conn
<1>4. peer' \in [AllPeers -> {"reads", "stalls", "gone"}]
  BY <1>1 DEF TypeOK, PeerChanges
<1> QED
  BY <1>2, <1>3, <1>4, QuietKeeps

(* A lost device closes every IQ connection. *)
LEMMA RecoverKeeps ==
  ASSUME FanoutInv, Recover
  PROVE  FanoutInv' /\ \A c \in Clients : NextFrame(c)
<1>1. TypeOK /\ RtlSound
  BY DEF FanoutInv
<1>2. /\ ring' = Clear(ring) /\ frame' = <<>>
      /\ UNCHANGED <<made, sequence>> /\ UNCHANGED <<offset, rtl, peer, got>>
      /\ fd' = [c \in Clients |-> FALSE]
  BY DEF Recover
<1>3. /\ ring' \in Ring(0..MaxSample)
      /\ frame' \in Seq(1..MaxSample) /\ Len(frame') <= FrameSamples
      /\ StreamSound' /\ FramesCounted'
  BY <1>2, ClearKeeps
<1>4. TypeOK' /\ RtlSound'
  BY <1>1, <1>2, <1>3 DEF TypeOK, Ring, RtlSound
<1> QED
  BY <1>2, <1>3, <1>4 DEF FanoutInv, ClientSound, NextFrame

(* An IQ client connects: it begins with the frame in progress.            *)
LEMMA OpenKeeps ==
  ASSUME FanoutInv, NEW c \in Clients, OpenIqStream(c)
  PROVE  FanoutInv' /\ \A b \in Clients : NextFrame(b)
<1>1. TypeOK /\ RtlSound /\ \A b \in Clients : ClientSound(b)
  BY DEF FanoutInv
<1>2. /\ fd' = [fd EXCEPT ![c] = TRUE]
      /\ offset' = [offset EXCEPT ![c] = 0]
      /\ peer' = [peer EXCEPT ![c] = "reads"]
      /\ got' = [got EXCEPT ![c] = Nothing]
      /\ UNCHANGED <<made, sequence>> /\ UNCHANGED rtl
  BY DEF OpenIqStream
<1>3. /\ ring' = Clear(ring) \/ ring' = ring
      /\ frame' = frame \/ (frame' = <<>> /\ ring' = Clear(ring))
      /\ (\E b \in Clients : fd[b]) => frame' = frame
  <2>1. CASE Connected
    BY <2>1 DEF OpenIqStream, FreshStream
  <2>2. CASE ~Connected
    BY <2>2 DEF OpenIqStream, FreshStream, Connected
  <2> QED
    BY <2>1, <2>2
<1>4. /\ ring' \in Ring(0..MaxSample)
      /\ frame' \in Seq(1..MaxSample) /\ Len(frame') <= FrameSamples
      /\ StreamSound' /\ FramesCounted'
  BY <1>2, <1>3, ClearKeeps
<1>5. Nothing \in [frame : 0..MaxSample, part : 0..Bytes] /\ 0 \in 0..Bytes
  BY FanoutAssumption DEF Nothing
<1>6. TypeOK' /\ RtlSound'
  BY <1>1, <1>2, <1>4, <1>5 DEF TypeOK, Ring, RtlSound
<1>7. ASSUME NEW b \in Clients
      PROVE  ClientSound(b)' /\ NextFrame(b)
  <2>1. CASE b = c
    BY <1>1, <1>2, <2>1
    DEF TypeOK, ClientSound, Unserved, NextFrame, Nothing
  <2>2. CASE b # c
    <3>1. fd'[b] = fd[b] /\ offset'[b] = offset[b] /\ got'[b] = got[b]
      BY <1>1, <1>2, <2>2 DEF TypeOK
    <3>2. fd[b] => frame' = frame
      BY <1>3
    <3> QED
      BY <1>1, <1>2, <3>1, <3>2
      DEF ClientSound, Unserved, Within, Between, NextFrame
  <2> QED
    BY <2>1, <2>2
<1> QED
  BY <1>4, <1>6, <1>7 DEF FanoutInv

(* What send returns: nothing exactly when nothing was owed, otherwise a   *)
(* part of it or one of the two errors.                                    *)
LEMMA SendsSound ==
  ASSUME NEW c, NEW n \in Nat, NEW k \in Nat \ {0}
  PROVE  \/ n = 0 /\ Sends(c, n, k) = 0
         \/ n > 0 /\ Sends(c, n, k) \in 1..n
         \/ n > 0 /\ Sends(c, n, k) \in {Blocked, Broken}
  BY DEF Sends, Blocked, Broken

(* A block for the rtl_tcp client, resampled or in part sent.              *)
LEMMA ResampledSound ==
  ASSUME TypeOK, RtlSound
  PROVE  /\ Resampled \in RtlBlock
         /\ Resampled.offset < Resampled.length \/ Resampled.offset = 0
<1>1. rtl \in RtlBlock /\ 0 \in 0..Bytes - 1
  BY FanoutAssumption DEF TypeOK, RtlBlock
<1>2. CASE rtl.open /\ ~rtl.complete /\ rtl.length = 0
  <2>1. Resampled = [rtl EXCEPT !.length = Bytes, !.offset = 0]
    BY <1>2 DEF Resampled
  <2> QED
    BY <1>1, <2>1 DEF RtlBlock
<1>3. CASE ~(rtl.open /\ ~rtl.complete /\ rtl.length = 0)
  <2>1. Resampled = rtl
    BY <1>3 DEF Resampled
  <2> QED
    BY <1>1, <2>1 DEF RtlSound
<1> QED
  BY <1>2, <1>3

(* The rtl_tcp connection after its part of write_iq_clients.              *)
LEMMA RtlSentSound ==
  ASSUME NEW r \in RtlBlock, r.offset < r.length \/ r.offset = 0,
         NEW k \in 1..Bytes, NEW c,
         NEW n, n = Sends(c, r.length - r.offset, k)
  PROVE  /\ RtlSent(r, n) \in RtlBlock
         /\ RtlSent(r, n).offset < RtlSent(r, n).length
              \/ RtlSent(r, n).offset = 0
<1>1. Bytes \in Nat \ {0} /\ 0 \in 0..Bytes - 1
  BY FanoutAssumption
<1>2. r.length \in {0, Bytes} /\ r.offset \in 0..Bytes - 1
  BY DEF RtlBlock
<1> DEFINE m == r.length - r.offset
<1>3. m \in Nat
  BY <1>1, <1>2
<1>4. \/ m = 0 /\ n = 0
      \/ m > 0 /\ n \in 1..m
      \/ n \in {Blocked, Broken}
  <2>1. k \in Nat \ {0} /\ n = Sends(c, m, k)
    OBVIOUS
  <2> HIDE DEF m
  <2> QED
    BY <1>3, <2>1, SendsSound
<1>5. CASE n \in {Blocked, Broken, 0}
  <2>1. NoRtl \in RtlBlock /\ NoRtl.offset = 0
    BY <1>1 DEF NoRtl, RtlBlock
  <2>2. RtlSent(r, n) \in {r, NoRtl}
    BY <1>5 DEF RtlSent, Blocked, Broken
  <2> QED
    BY <2>1, <2>2
<1>6. CASE m > 0 /\ n \in 1..m
  <2>1. n \in Nat \ {0} /\ n # Blocked
    BY <1>3, <1>6 DEF Blocked
  <2>2. CASE ~r.open
    BY <2>2 DEF RtlSent
  <2>3. CASE r.open /\ r.offset + n < r.length
    <3>1. RtlSent(r, n) = [r EXCEPT !.offset = r.offset + n]
      BY <2>1, <2>3 DEF RtlSent
    <3>2. r.offset + n \in 0..Bytes - 1
      BY <1>1, <1>2, <2>1, <2>3
    <3> QED
      BY <2>3, <3>1, <3>2 DEF RtlBlock
  <2>4. CASE r.open /\ ~(r.offset + n < r.length)
    <3>1. RtlSent(r, n) =
            [r EXCEPT !.length = 0, !.offset = 0, !.complete = TRUE]
      BY <2>1, <2>4 DEF RtlSent
    <3> QED
      BY <1>1, <3>1 DEF RtlBlock
  <2> QED
    BY <2>2, <2>3, <2>4
<1> QED
  BY <1>4, <1>5, <1>6

(* write_iq_clients: what it does to one IQ client, seen from the client.  *)
(* A client that was behind and stays is brought forward by what it took,  *)
(* and the frame is over only when it has all of it.                       *)
Brought(c, n, over) ==
  /\ fd'[c] = (fd[c] /\ n # Broken)
  /\ got'[c] = IF n > 0 THEN [frame |-> Number, part |-> offset[c] + n]
               ELSE got[c]
  /\ offset'[c] \in 0..Bytes
  /\ fd'[c] => offset'[c] = IF over THEN 0 ELSE offset[c] + Taken(n)
  /\ frame' = IF over THEN <<>> ELSE Pending
  /\ over /\ fd'[c] => offset[c] + Taken(n) = Bytes

(* Such a client receives the frames whole and one after the other.        *)
LEMMA ClientServed ==
  ASSUME TypeOK, NEW c \in Clients, ClientSound(c),
         Pending # <<>>, Number \in Nat, sequence' = Number,
         NEW over \in BOOLEAN, NEW n \in Int,
         \/ ~fd[c] /\ n = 0
         \/ /\ fd[c]
            /\ \/ offset[c] = Bytes /\ n = 0
               \/ offset[c] < Bytes /\ n \in 1..Bytes - offset[c]
               \/ offset[c] < Bytes /\ n \in {Blocked, Broken},
         Brought(c, n, over)
  PROVE  /\ ClientSound(c)' /\ NextFrame(c)
         /\ fd'[c] \in BOOLEAN /\ offset'[c] \in 0..Bytes
         /\ got'[c].frame \in {got[c].frame, Number}
         /\ got'[c].part \in 0..Bytes
         /\ got'[c] \in [frame : Nat, part : 0..Bytes]
<1>1. /\ offset[c] \in 0..Bytes /\ fd[c] \in BOOLEAN /\ Bytes \in Nat \ {0}
      /\ got[c] \in [frame : Nat, part : 0..Bytes] /\ sequence \in Nat
  BY FanoutAssumption DEF TypeOK
<1>2. Number = IF frame # <<>> THEN sequence ELSE sequence + 1
  BY DEF Number
<1>3. CASE ~fd[c]
  BY <1>1, <1>3 DEF Brought, Taken, ClientSound, NextFrame, Broken
<1>4. CASE fd[c] /\ n = Broken
  BY <1>1, <1>4 DEF Brought, Taken, ClientSound, NextFrame, Broken
<1>5. CASE fd[c] /\ offset[c] = Bytes /\ n = 0
  BY <1>1, <1>2, <1>5
  DEF Brought, Taken, ClientSound, NextFrame, Broken, Unserved, Within, Between
<1>6. CASE fd[c] /\ offset[c] < Bytes /\ n = Blocked
  BY <1>1, <1>2, <1>6
  DEF Brought, Taken, ClientSound, NextFrame, Broken, Blocked, Unserved, Within,
      Between
<1>7. CASE fd[c] /\ offset[c] < Bytes /\ n \in 1..Bytes - offset[c]
  <2>1. n > 0 /\ n # Broken /\ Taken(n) = n /\ offset[c] + n \in 0..Bytes
    BY <1>1, <1>7 DEF Taken, Broken
  <2>2. /\ fd'[c] = TRUE
        /\ got'[c] = [frame |-> Number, part |-> offset[c] + n]
        /\ offset'[c] = IF over THEN 0 ELSE offset[c] + n
        /\ frame' = IF over THEN <<>> ELSE Pending
        /\ over => offset[c] + n = Bytes
    BY <1>7, <2>1 DEF Brought
  <2>3. ClientSound(c)'
    BY <1>1, <2>2 DEF ClientSound, Within, Between
  <2>4. NextFrame(c)
    BY <1>1, <1>2, <1>7, <2>2
    DEF ClientSound, NextFrame, Unserved, Within, Between
  <2>5. got'[c] \in [frame : Nat, part : 0..Bytes]
    BY <2>1, <2>2
  <2>6. got'[c].frame = Number /\ got'[c].part \in 0..Bytes
    BY <2>1, <2>2
  <2>7. offset'[c] \in 0..Bytes
    BY DEF Brought
  <2>8. fd'[c] \in BOOLEAN
    BY <2>2, Zenon
  <2> QED
    BY <2>3, <2>4, <2>5, <2>6, <2>7, <2>8
<1> QED
  BY <1>3, <1>4, <1>5, <1>6, <1>7

(* One call of flex1500_iq_publisher_pump. *)
LEMMA PublishKeeps ==
  ASSUME FanoutInv, Publish
  PROVE  FanoutInv' /\ \A c \in Clients : NextFrame(c)
<1>1. /\ TypeOK /\ StreamSound /\ RtlSound
      /\ \A c \in Clients : ClientSound(c)
  BY DEF FanoutInv
<1>2. /\ Queue \in Ring(0..MaxSample)
      /\ Pending \in Seq(1..MaxSample) /\ Len(Pending) <= FrameSamples
      /\ Pending # <<>>
      /\ Pending \o Contents(Queue) = frame \o Contents(ring)
      /\ Number \in 0..MaxSample /\ Number + Queue.size <= made
  BY Prepared DEF Publish
<1>3. /\ ring' = Queue /\ sequence' = Number /\ UNCHANGED <<made, peer>>
  BY DEF Publish
<1>4. PICK fits \in [AllPeers -> 1..Bytes] :
        WriteIqClients([c \in AllPeers |-> Sends(c, Owed(c), fits[c])])
  BY DEF Publish
<1> DEFINE sent == [c \in AllPeers |-> Sends(c, Owed(c), fits[c])]
           r    == RtlSent(Resampled, sent[RtlClient])
           left == {c \in Clients : fd[c] /\ ~Removed(c, sent)}
           done == [c \in Clients |-> IF Removed(c, sent) THEN 0
                                      ELSE offset[c] + Taken(sent[c])]
           any  == r.open \/ left # {}
           ok   == any /\ ~Incomplete(r, left, done)
           over == ok \/ ~any
<1>5. /\ fd' = [c \in Clients |-> c \in left]
      /\ offset' = [c \in Clients |-> IF ok THEN 0 ELSE done[c]]
      /\ rtl' = IF ok THEN [r EXCEPT !.complete = FALSE] ELSE r
      /\ frame' = IF ok \/ ~any THEN <<>> ELSE Pending
      /\ got' = [c \in Clients |-> IF sent[c] > 0
                                   THEN [frame |-> Number, part |-> done[c]]
                                   ELSE got[c]]
  BY <1>4 DEF WriteIqClients
<1>6. RtlClient \in AllPeers /\ \A c \in Clients : c \in AllPeers /\ c # RtlClient
  BY FanoutAssumption DEF AllPeers, RtlClient
<1>7. rtl' \in RtlBlock /\ RtlSound'
  <2>1. /\ Resampled \in RtlBlock
        /\ Resampled.offset < Resampled.length \/ Resampled.offset = 0
    BY <1>1, ResampledSound
  <2>2. /\ fits[RtlClient] \in 1..Bytes
        /\ sent[RtlClient] = Sends(RtlClient,
                               Resampled.length - Resampled.offset,
                               fits[RtlClient])
    BY <1>6 DEF Owed
  <2>3. r \in RtlBlock /\ (r.offset < r.length \/ r.offset = 0)
    <3> HIDE DEF sent
    <3> QED
      BY <2>1, <2>2, RtlSentSound
  <2>4. \/ rtl' = r
        \/ rtl' = [r EXCEPT !.complete = FALSE]
    BY <1>5
  <2> HIDE DEF r
  <2> QED
    BY <2>3, <2>4 DEF RtlBlock, RtlSound
<1>8. ASSUME NEW c \in Clients
      PROVE  /\ sent[c] \in Int
             /\ \/ ~fd[c] /\ sent[c] = 0
                \/ /\ fd[c]
                   /\ \/ offset[c] = Bytes /\ sent[c] = 0
                      \/ offset[c] < Bytes /\ sent[c] \in 1..Bytes - offset[c]
                      \/ offset[c] < Bytes /\ sent[c] \in {Blocked, Broken}
  <2>1. /\ offset[c] \in 0..Bytes /\ fd[c] \in BOOLEAN /\ Bytes \in Nat
        /\ fits[c] \in Nat \ {0}
    BY <1>1, <1>6, FanoutAssumption DEF TypeOK
  <2>2. Owed(c) = IF fd[c] THEN Bytes - offset[c] ELSE 0
    BY <1>6 DEF Owed
  <2>3. sent[c] = Sends(c, Owed(c), fits[c])
    BY <1>6
  <2> DEFINE m == Owed(c)
  <2>4. m \in Nat
    BY <2>1, <2>2
  <2> HIDE DEF sent
  <2>5. \/ m = 0 /\ sent[c] = 0
        \/ m > 0 /\ sent[c] \in 1..m
        \/ m > 0 /\ sent[c] \in {Blocked, Broken}
    <3> HIDE DEF m
    <3>1. sent[c] = Sends(c, m, fits[c])
      BY <2>3 DEF m
    <3> QED
      BY <2>1, <2>4, <3>1, SendsSound
  <2>6. sent[c] \in Int
    BY <2>4, <2>5 DEF Blocked, Broken
  <2>7. CASE fd[c]
    BY <2>1, <2>2, <2>5, <2>6, <2>7
  <2>8. CASE ~fd[c]
    BY <2>1, <2>2, <2>5, <2>6, <2>8
  <2> QED
    BY <2>7, <2>8
<1>9. over \in BOOLEAN
  OBVIOUS
<1>10. ASSUME NEW c \in Clients
       PROVE  Brought(c, sent[c], over)
  <2>1. Removed(c, sent) <=> fd[c] /\ sent[c] = Broken
    BY DEF Removed
  <2>2. fd'[c] = (c \in left)
    BY <1>5
  <2>3. c \in left <=> fd[c] /\ sent[c] # Broken
    BY <2>1
  <2>4. done[c] = IF Removed(c, sent) THEN 0 ELSE offset[c] + Taken(sent[c])
    OBVIOUS
  <2>5. offset[c] \in Nat /\ Bytes \in Nat /\ offset[c] <= Bytes
        /\ fd[c] \in BOOLEAN
    BY <1>1, FanoutAssumption DEF TypeOK
  <2>6. got'[c] = IF sent[c] > 0 THEN [frame |-> Number, part |-> done[c]]
                  ELSE got[c]
    BY <1>5
  <2>7. offset'[c] = IF ok THEN 0 ELSE done[c]
    BY <1>5
  <2>8. over /\ c \in left => ok
    OBVIOUS
  <2>9. ok /\ c \in left => ~(done[c] < Bytes)
    BY DEF Incomplete
  <2>10. frame' = IF over THEN <<>> ELSE Pending
    BY <1>5
  <2> HIDE DEF left, done, ok, over, sent
  <2>11. sent[c] > 0 => done[c] = offset[c] + sent[c]
    BY <1>8, <2>1, <2>4 DEF Taken, Broken
  <2>12. fd'[c] = (fd[c] /\ sent[c] # Broken)
    BY <2>2, <2>3
  <2>13. got'[c] = IF sent[c] > 0
                   THEN [frame |-> Number, part |-> offset[c] + sent[c]]
                   ELSE got[c]
    BY <2>6, <2>11
  <2>14. done[c] = IF sent[c] = Broken THEN 0 ELSE offset[c] + Taken(sent[c])
    BY <1>8, <2>1, <2>4 DEF Broken
  <2>15. /\ offset'[c] \in 0..Bytes
         /\ fd'[c] => offset'[c] = IF over THEN 0
                                   ELSE offset[c] + Taken(sent[c])
    <3>1. offset[c] + Taken(sent[c]) \in 0..Bytes /\ 0 \in 0..Bytes
      BY <1>8, <2>5 DEF Taken, Blocked, Broken
    <3>2. fd'[c] => c \in left /\ sent[c] # Broken
      BY <2>2, <2>3
    <3>3. ok => over
      BY DEF over
    <3> QED
      BY <2>7, <2>8, <2>14, <3>1, <3>2, <3>3
  <2>16. over /\ fd'[c] => offset[c] + Taken(sent[c]) = Bytes
    <3>1. SUFFICES ASSUME over, c \in left
                   PROVE  offset[c] + Taken(sent[c]) = Bytes
      BY <2>2
    <3>2. ~(done[c] < Bytes) /\ sent[c] # Broken
      BY <2>3, <2>8, <2>9, <3>1
    <3>3. done[c] = offset[c] + Taken(sent[c])
      BY <2>14, <3>2
    <3>4. offset[c] + Taken(sent[c]) \in 0..Bytes
      BY <1>8, <2>5 DEF Taken, Blocked, Broken
    <3> QED
      BY <2>5, <3>2, <3>3, <3>4
  <2> QED
    BY <2>10, <2>12, <2>13, <2>15, <2>16 DEF Brought
<1>11. ASSUME NEW c \in Clients
       PROVE  /\ ClientSound(c)' /\ NextFrame(c)
              /\ fd'[c] \in BOOLEAN /\ offset'[c] \in 0..Bytes
              /\ got'[c] \in [frame : 0..MaxSample, part : 0..Bytes]
  <2>1. /\ ClientSound(c)' /\ NextFrame(c)
        /\ fd'[c] \in BOOLEAN /\ offset'[c] \in 0..Bytes
        /\ got'[c].frame \in {got[c].frame, Number}
        /\ got'[c].part \in 0..Bytes
        /\ got'[c] \in [frame : Nat, part : 0..Bytes]
    <3> HIDE DEF over, sent
    <3>1. Number \in Nat
      BY <1>2, FanoutAssumption
    <3> QED
      BY <1>1, <1>2, <1>3, <1>8, <1>9, <1>10, <1>11, <3>1, ClientServed
  <2>2. got[c].frame \in 0..MaxSample
    BY <1>1 DEF TypeOK
  <2>3. got'[c].frame \in 0..MaxSample
    BY <1>2, <2>1, <2>2
  <2> QED
    BY <2>1, <2>3
<1>12. /\ fd' \in [Clients -> BOOLEAN] /\ offset' \in [Clients -> 0..Bytes]
       /\ got' \in [Clients -> [frame : 0..MaxSample, part : 0..Bytes]]
  <2> HIDE DEF left, done, ok, any, sent
  <2>1. /\ fd' = [c \in Clients |-> fd'[c]]
        /\ offset' = [c \in Clients |-> offset'[c]]
        /\ got' = [c \in Clients |-> got'[c]]
    BY <1>5, Zenon
  <2> QED
    BY <1>11, <2>1, Zenon
<1>13. /\ frame' \in Seq(1..MaxSample) /\ Len(frame') <= FrameSamples
       /\ frame' = <<>> \/ frame' = Pending
  <2>1. frame' = <<>> \/ frame' = Pending
    BY <1>5
  <2>2. <<>> \in Seq(1..MaxSample) /\ Len(<<>>) = 0 /\ FrameSamples \in Nat
    BY FanoutAssumption, EmptySeq
  <2>3. CASE frame' = <<>>
    BY <2>2, <2>3
  <2>4. CASE frame' = Pending
    BY <1>2, <2>4
  <2> QED
    BY <2>1, <2>3, <2>4
<1>14. TypeOK'
  BY <1>1, <1>2, <1>3, <1>7, <1>12, <1>13 DEF TypeOK, RtlBlock, Ring
<1>15. FramesCounted'
  BY <1>2, <1>3 DEF FramesCounted
<1>16. StreamSound'
  <2> DEFINE a == Pending
             b == Contents(Queue)
  <2>1. a \in Seq(Int) /\ b \in Seq(Int)
    BY <1>1, <1>2, Sequences, FanoutAssumption
  <2>2. Rising(a \o b) /\ \A i \in DOMAIN (a \o b) : (a \o b)[i] \in 1..made
    BY <1>1, <1>2 DEF StreamSound
  <2>3. CASE frame' = Pending
    BY <1>3, <2>2, <2>3 DEF StreamSound
  <2>4. CASE frame' = <<>>
    <3>1. Contents(ring') = b /\ made' = made
      BY <1>3
    <3> HIDE DEF a, b
    <3>2. Rising(b) /\ \A i \in DOMAIN b : b[i] \in 1..made
      BY <2>1, <2>2, RisingJoin, ElementsJoin
    <3>3. frame' \o b = b
      BY <2>1, <2>4
    <3> QED
      BY <3>1, <3>2, <3>3 DEF StreamSound
  <2> QED
    BY <1>13, <2>3, <2>4
<1> QED
  BY <1>7, <1>11, <1>14, <1>15, <1>16 DEF FanoutInv

(* Every step keeps the invariant and lets every client receive whole      *)
(* frames one after the other.                                             *)
LEMMA FanoutNext ==
  ASSUME FanoutInv, [Next]_vars
  PROVE  FanoutInv' /\ ([\A c \in Clients : NextFrame(c)]_vars)
<1>1. CASE UNCHANGED vars
  <2>1. TypeOK' /\ StreamSound'
    BY <1>1 DEF FanoutInv, TypeOK, StreamSound, vars, conn
  <2>2. FramesCounted' /\ RtlSound'
    BY <1>1 DEF FanoutInv, FramesCounted, RtlSound, vars, conn
  <2>3. \A c \in Clients : ClientSound(c)'
    BY <1>1
    DEF FanoutInv, ClientSound, Unserved, Within, Between, vars, conn
  <2> QED
    BY <1>1, <2>1, <2>2, <2>3 DEF FanoutInv
<1>2. ASSUME NEW n \in 1..2, Receive(n)
      PROVE  FanoutInv' /\ \A c \in Clients : NextFrame(c)
  <2>1. \A c \in Clients : NextFrame(c)
    BY <1>2 DEF Receive, NextFrame
  <2> QED
    BY <1>2, <2>1, ReceiveKeeps
<1> QED
  BY <1>1, <1>2, ClearRingKeeps, OpenKeeps, RtlKeeps, RecoverKeeps, PublishKeeps,
     PeerKeeps DEF Next

(* The invariant of the receive side holds in every reachable state.       *)
THEOREM FanoutInvariance == Spec => []FanoutInv
<1>1. Init => FanoutInv
  BY FanoutInit
<1>2. FanoutInv /\ [Next]_vars => FanoutInv'
  BY FanoutNext
<1> QED
  BY <1>1, <1>2, PTL DEF Spec

(* The queue, the frame and the connections keep their types: no index     *)
(* leaves its buffer, no client is sent bytes beyond the end of a frame.   *)
THEOREM FanoutTyped == Spec => []TypeOK
<1>1. FanoutInv => TypeOK
  BY DEF FanoutInv
<1> QED
  BY <1>1, FanoutInvariance, PTL

(* No sample is sent twice or out of order, for every capacity of the      *)
(* queue, length of the frames and number of clients.                      *)
THEOREM SamplesInOrder == Spec => []InOrder
<1>1. FanoutInv => InOrder
  BY DEF FanoutInv, StreamSound, InOrder, Rising
<1> QED
  BY <1>1, FanoutInvariance, PTL

(* A client that stays connected receives whole frames with consecutive    *)
(* numbers, whatever the others do.                                        *)
THEOREM FramesAreWhole == Spec => WholeFrames
<1>1. FanoutInv /\ [Next]_vars => [\A c \in Clients : NextFrame(c)]_vars
  BY FanoutNext
<1> QED
  BY <1>1, FanoutInvariance, PTL DEF Spec, WholeFrames
=============================================================================
