--------------------------- MODULE TxAudioProofs ---------------------------
(***************************************************************************)
(* Proofs about the path of transmitted audio, for every size of the       *)
(* queue, the prebuffer, the transfers and the frames.                     *)
(*                                                                         *)
(* What is on its way to the radio is FlattenSeq(slots) \o queue, and      *)
(* FlattenSeq is recursive.  The induction is done once, over a set of     *)
(* numbers: a recursive function that collects the first n transfers       *)
(* exists and is unique, and from it come the facts the steps need - an    *)
(* appended transfer comes last, the head comes first, silence adds        *)
(* nothing.  The steps then speak of windows: rising sequences of frames   *)
(* later than what was heard and cut off, which are split at the front by  *)
(* a completed transfer and joined at the end by a delivered frame.        *)
(***************************************************************************)
EXTENDS TxAudio, SequenceTheorems, WellFoundedInduction, TLAPS

-----------------------------------------------------------------------------
(* Each element is less than those after it. *)
Rising(s) == \A i, j \in DOMAIN s : i < j => s[i] < s[j]

(* Rising, and all between two numbers. *)
Window(s, low, high) ==
  Rising(s) /\ \A i \in DOMAIN s : low < s[i] /\ s[i] <= high

(* Network frames that may still go on the air: in order, completed, later *)
(* than what has been heard and than what the last stop cut off.           *)
Fresh(s) == Window(s, aired, made) /\ Window(s, cut, made)

(* Nothing but the microphone's frames. *)
Spoken(s) == \A i \in DOMAIN s : s[i] = Mic

(* The fields of network_tx that are modelled. *)
Sessions == [reserved : BOOLEAN, connected : BOOLEAN, buffered : 0..Prebuffer,
             keyed : BOOLEAN]

(* The thread is in a transmission or not, and the flags say so.           *)
PhaseSound ==
  /\ tx.phase = "idle" <=> tx.source = "none"
  /\ tx.phase = "idle" => slots = <<>>
  /\ tx.phase = "drain" => ~tx.accepting

(* Only the session keyed for it transmits from the network, and once it   *)
(* does, nothing is kept back in the prebuffer.                            *)
KeySound ==
  /\ tx.phase = "on" /\ tx.source = "network" => net.keyed
  /\ net.keyed \/ (tx.phase \in {"on", "drain"} /\ tx.source = "network")
       => prebuf = <<>>

(* A frame of the open connection is counted as long as the count decides  *)
(* how much is read.                                                       *)
PrebufferCounted ==
  client /\ net.reserved =>
    /\ net.connected
    /\ ~net.keyed /\ net.buffered < Prebuffer => Len(prebuf) <= net.buffered

(* What is on its way to the radio comes from one source, and from the     *)
(* network it is fresh.                                                    *)
WaySound ==
  /\ tx.source = "mic" => Spoken(OnTheWay)
  /\ tx.source = "network" => Fresh(OnTheWay)

(* What was heard or cut off had been complete. *)
Heard == aired <= made /\ cut <= made

(* The inductive invariant. *)
AudioInv ==
  /\ TypeOK
  /\ PhaseSound /\ KeySound /\ PrebufferCounted
  /\ WaySound /\ Fresh(prebuf) /\ Heard
  /\ DrainBounded /\ NoFrameLost

-----------------------------------------------------------------------------
(* Induction, in the form that speaks of a set of numbers. *)

(* Every set of natural numbers that is not empty has a smallest element.  *)
LEMMA Smallest ==
  ASSUME NEW T \in SUBSET Nat, T # {}
  PROVE  \E n \in T : \A m \in T : n <= m
<1> DEFINE R == OpToRel(<, Nat)
<1>1. IsWellFoundedOn(R, Nat)
  BY NatLessThanWellFounded
<1>2. \A m, n \in Nat : <<m, n>> \in R <=> m < n
  BY DEF OpToRel
<1> HIDE DEF R
<1>3. PICK n \in T : \A m \in T : ~(<<m, n>> \in R)
  BY <1>1, WFMin
<1>4. \A m \in T : ~(m < n)
  BY <1>2, <1>3
<1>5. \A m, k \in Nat : ~(m < k) => k <= m
  OBVIOUS
<1> QED
  BY <1>3, <1>4, <1>5

(* A set that has 1 and with each number the next one has them all.        *)
LEMMA Induction ==
  ASSUME NEW T, 1 \in T, \A n \in Nat \ {0} : n \in T => n + 1 \in T
  PROVE  \A n \in Nat \ {0} : n \in T
<1>1. SUFFICES ASSUME (Nat \ {0}) \ T # {} PROVE FALSE
  OBVIOUS
<1>2. PICK n \in (Nat \ {0}) \ T : \A m \in (Nat \ {0}) \ T : n <= m
  BY <1>1, Smallest
<1>3. n - 1 \in Nat \ {0} /\ n - 1 \in T
  BY <1>2
<1> QED
  BY <1>2, <1>3

-----------------------------------------------------------------------------
(* FlattenSeq. *)

(* The step of the recursion in FlattenSeq(s): what it has collected up to *)
(* the i-th sequence.                                                      *)
Collects(f, s, n) ==
  \A i \in 1..n : f[i] = IF i = 1 THEN s[i] ELSE f[i - 1] \o s[i]

(* The recursion has a solution, made of sequences.                        *)
LEMMA CollectsExists ==
  ASSUME NEW S, NEW s \in Seq(Seq(S)), Len(s) # 0
  PROVE  \E f \in [1..Len(s) -> Seq(S)] : Collects(f, s, Len(s))
<1> DEFINE Ok(n) == \E f \in [1..n -> Seq(S)] : Collects(f, s, n)
           T == {n \in Nat : n <= Len(s) => Ok(n)}
<1>1. Len(s) \in Nat /\ \A i \in 1..Len(s) : s[i] \in Seq(S)
  BY LenProperties, ElementOfSeq
<1>2. 1 \in T
  <2>1. [i \in 1..1 |-> s[1]] \in [1..1 -> Seq(S)]
    BY <1>1
  <2>2. Collects([i \in 1..1 |-> s[1]], s, 1)
    BY DEF Collects
  <2> QED
    BY <2>1, <2>2
<1>3. ASSUME NEW n \in Nat \ {0}, n \in T, n + 1 <= Len(s)
      PROVE  Ok(n + 1)
  <2>1. PICK f \in [1..n -> Seq(S)] : Collects(f, s, n)
    BY <1>1, <1>3
  <2> DEFINE g == [i \in 1..n + 1 |-> IF i = n + 1 THEN f[n] \o s[i] ELSE f[i]]
  <2>2. n \in 1..n /\ n + 1 \in 1..Len(s)
    BY <1>1, <1>3
  <2>3. f[n] \o s[n + 1] \in Seq(S)
    BY <1>1, <2>2, ConcatProperties
  <2>4. g \in [1..n + 1 -> Seq(S)]
    BY <2>3
  <2>5. Collects(g, s, n + 1)
    <3>1. SUFFICES ASSUME NEW i \in 1..n + 1
                   PROVE  g[i] = IF i = 1 THEN s[i] ELSE g[i - 1] \o s[i]
      BY DEF Collects
    <3>2. CASE i = n + 1
      <4>1. /\ n \in 1..n + 1 /\ n + 1 \in 1..n + 1 /\ n # n + 1
            /\ i # 1 /\ i - 1 = n
        BY <1>3, <3>2
      <4>2. g[n + 1] = f[n] \o s[n + 1] /\ g[n] = f[n]
        BY <4>1
      <4> HIDE DEF g
      <4> QED
        BY <3>2, <4>1, <4>2, Zenon
    <3>3. CASE i # n + 1
      <4>1. i \in 1..n /\ (i = 1 \/ i - 1 \in 1..n) /\ i - 1 # n + 1
        BY <3>3
      <4>2. g[i] = f[i] /\ (i = 1 \/ g[i - 1] = f[i - 1])
        BY <3>3, <4>1
      <4> HIDE DEF g
      <4> QED
        BY <2>1, <4>1, <4>2 DEF Collects
    <3> QED
      BY <3>2, <3>3
  <2> HIDE DEF g
  <2> QED
    BY <2>4, <2>5
<1> HIDE DEF Ok
<1>4. \A n \in Nat \ {0} : n \in T => n + 1 \in T
  BY <1>1, <1>3
<1> HIDE DEF T
<1>5. \A n \in Nat \ {0} : n \in T
  BY <1>2, <1>4, Induction
<1> QED
  BY <1>1, <1>5 DEF T, Ok

(* Every solution is made of sequences.                                    *)
LEMMA CollectsSequences ==
  ASSUME NEW S, NEW s \in Seq(Seq(S)), NEW f, Collects(f, s, Len(s))
  PROVE  \A i \in 1..Len(s) : f[i] \in Seq(S)
<1> DEFINE T == {n \in Nat : n \in 1..Len(s) => f[n] \in Seq(S)}
<1>1. Len(s) \in Nat /\ \A i \in 1..Len(s) : s[i] \in Seq(S)
  BY LenProperties, ElementOfSeq
<1>2. 1 \in T
  BY <1>1 DEF Collects
<1>3. ASSUME NEW n \in Nat \ {0}, n \in T, n + 1 \in 1..Len(s)
      PROVE  f[n + 1] \in Seq(S)
  <2>1. n \in 1..Len(s) /\ f[n] \in Seq(S) /\ s[n + 1] \in Seq(S)
    BY <1>1, <1>3
  <2>2. n + 1 # 1 /\ (n + 1) - 1 = n
    OBVIOUS
  <2>3. f[n + 1] = IF n + 1 = 1 THEN s[n + 1] ELSE f[(n + 1) - 1] \o s[n + 1]
    BY <1>3, Zenon DEF Collects
  <2>4. f[n + 1] = f[n] \o s[n + 1]
    BY <2>2, <2>3, Zenon
  <2> QED
    BY <2>1, <2>4, ConcatProperties
<1>4. \A n \in Nat \ {0} : n \in T => n + 1 \in T
  BY <1>3
<1> HIDE DEF T
<1>5. \A n \in Nat \ {0} : n \in T
  BY <1>2, <1>4, Induction
<1> QED
  BY <1>1, <1>5 DEF T

(* So FlattenSeq returns the last of what it collects.                     *)
LEMMA Flattened ==
  ASSUME NEW S, NEW s \in Seq(Seq(S)), Len(s) # 0
  PROVE  \E f \in [1..Len(s) -> Seq(S)] :
           Collects(f, s, Len(s)) /\ FlattenSeq(s) = f[Len(s)]
<1> DEFINE Solves(f) == f = [i \in 1..Len(s) |->
                               IF i = 1 THEN s[i] ELSE f[i - 1] \o s[i]]
           g == CHOOSE f : Solves(f)
<1>1. PICK f \in [1..Len(s) -> Seq(S)] : Collects(f, s, Len(s))
  BY CollectsExists
<1>2. Solves(f)
  BY <1>1 DEF Collects
<1>3. Solves(g)
  BY <1>2
<1>4. FlattenSeq(s) = g[Len(s)]
  BY DEF FlattenSeq
<1>5. /\ g = [i \in 1..Len(s) |-> IF i = 1 THEN s[i] ELSE g[i - 1] \o s[i]]
      /\ FlattenSeq(s) = g[Len(s)]
  BY <1>3, <1>4
<1> HIDE DEF g
<1>6. Collects(g, s, Len(s))
  BY <1>5 DEF Collects
<1>7. \A i \in 1..Len(s) : g[i] \in Seq(S)
  BY <1>6, CollectsSequences
<1>8. g = [i \in 1..Len(s) |-> g[i]]
  BY <1>5, Zenon
<1>9. g \in [1..Len(s) -> Seq(S)]
  BY <1>7, <1>8, Zenon
<1> QED
  BY <1>5, <1>6, <1>9

(* One step of the recursion.                                              *)
LEMMA CollectsNext ==
  ASSUME NEW f, NEW s, NEW m \in Nat, Collects(f, s, m)
  PROVE  \A n \in Nat \ {0} : n + 1 <= m => f[n + 1] = f[n] \o s[n + 1]
<1> SUFFICES ASSUME NEW n \in Nat \ {0}, n + 1 <= m
             PROVE  f[n + 1] = f[n] \o s[n + 1]
  OBVIOUS
<1>1. n + 1 \in 1..m /\ n + 1 # 1 /\ (n + 1) - 1 = n
  OBVIOUS
<1>2. f[n + 1] = IF n + 1 = 1 THEN s[n + 1] ELSE f[(n + 1) - 1] \o s[n + 1]
  BY <1>1, Zenon DEF Collects
<1> QED
  BY <1>1, <1>2, Zenon

(* Flattening nothing, and what the result is made of.                     *)
LEMMA FlattenType ==
  ASSUME NEW S, NEW s \in Seq(Seq(S))
  PROVE  FlattenSeq(s) \in Seq(S) /\ (s = <<>> => FlattenSeq(s) = <<>>)
<1>1. CASE Len(s) = 0
  <2>1. FlattenSeq(s) = s /\ s = <<>>
    BY <1>1, EmptySeq, LenProperties DEF FlattenSeq
  <2> QED
    BY <2>1, EmptySeq
<1>2. CASE Len(s) # 0
  <2>1. Len(s) \in 1..Len(s)
    BY <1>2, LenProperties
  <2>2. s # <<>>
    BY <1>2, EmptySeq
  <2>3. PICK f \in [1..Len(s) -> Seq(S)] : FlattenSeq(s) = f[Len(s)]
    BY <1>2, Flattened
  <2> QED
    BY <2>1, <2>2, <2>3
<1> QED
  BY <1>1, <1>2

(* A sequence added at the end ends up at the end.                         *)
LEMMA FlattenAppend ==
  ASSUME NEW S, NEW t \in Seq(Seq(S)), NEW x \in Seq(S)
  PROVE  FlattenSeq(Append(t, x)) = FlattenSeq(t) \o x
<1> DEFINE s == Append(t, x)
<1>0. PICK k, m \in Nat : k = Len(t) /\ m = k + 1
  BY LenProperties
<1>1. /\ m \in Nat \ {0} /\ s \in Seq(Seq(S)) /\ Len(s) = m /\ s[m] = x
      /\ \A i \in 1..k : s[i] = t[i]
  BY <1>0, AppendProperties, LenProperties
<1> HIDE DEF s
<1>2. PICK f \in [1..m -> Seq(S)] :
        Collects(f, s, m) /\ FlattenSeq(s) = f[m]
  BY <1>1, Flattened
<1>3. 1 \in 1..m /\ f[1] = s[1]
  BY <1>1, <1>2 DEF Collects
<1>next. \A n \in Nat \ {0} : n + 1 <= m => f[n + 1] = f[n] \o s[n + 1]
  BY <1>2, CollectsNext, Zenon
<1>4. CASE k = 0
  <2>1. FlattenSeq(s) = x
    BY <1>0, <1>1, <1>2, <1>3, <1>4
  <2>2. t = <<>> /\ FlattenSeq(t) = <<>>
    BY <1>0, <1>4, EmptySeq, FlattenType
  <2> QED
    BY <2>1, <2>2, ConcatEmptySeq DEF s
<1>5. CASE k # 0
  <2>0. k \in Nat \ {0} /\ k \in 1..k /\ k + 1 <= m /\ 1 \in 1..k
    BY <1>0, <1>5
  <2>1. PICK g \in [1..k -> Seq(S)] : Collects(g, t, k) /\ FlattenSeq(t) = g[k]
    BY <1>0, <1>5, Flattened
  <2>next. \A n \in Nat \ {0} : n + 1 <= k => g[n + 1] = g[n] \o t[n + 1]
    BY <2>1, CollectsNext, Zenon
  <2> DEFINE T == {n \in Nat : n \in 1..k => f[n] = g[n]}
  <2>2. 1 \in T
    BY <1>1, <1>3, <1>5, <2>1 DEF Collects
  <2>3. ASSUME NEW n \in Nat \ {0}, n \in T, n + 1 \in 1..k
        PROVE  f[n + 1] = g[n + 1]
    <3>1. n \in 1..k /\ n + 1 <= k /\ n + 1 <= m
      BY <1>0, <2>3
    <3>2. f[n + 1] = f[n] \o s[n + 1]
      BY <1>next, <3>1, Zenon
    <3>3. g[n + 1] = g[n] \o t[n + 1]
      BY <2>next, <3>1, Zenon
    <3>4. f[n] = g[n] /\ s[n + 1] = t[n + 1]
      BY <1>1, <2>3, <3>1
    <3> QED
      BY <3>2, <3>3, <3>4
  <2>4. \A n \in Nat \ {0} : n \in T => n + 1 \in T
    BY <2>3
  <2> HIDE DEF T
  <2>5. \A n \in Nat \ {0} : n \in T
    BY <2>2, <2>4, Induction
  <2>6. f[k] = g[k]
    BY <2>0, <2>5 DEF T
  <2>7. f[k + 1] = f[k] \o s[k + 1]
    BY <1>next, <2>0, Zenon
  <2> QED
    BY <1>0, <1>1, <1>2, <2>1, <2>6, <2>7, Zenon DEF s
<1> QED
  BY <1>4, <1>5

(* The first sequence comes first.                                         *)
LEMMA FlattenHead ==
  ASSUME NEW S, NEW s \in Seq(Seq(S)), s # <<>>
  PROVE  /\ Head(s) \in Seq(S) /\ Tail(s) \in Seq(Seq(S))
         /\ FlattenSeq(s) = Head(s) \o FlattenSeq(Tail(s))
<1> DEFINE t == Tail(s)
<1>0. PICK k, m \in Nat : k = Len(t) /\ m = k + 1
  <2>1. Len(t) \in Nat
    BY HeadTailProperties, LenProperties
  <2> QED
    BY <2>1
<1>1. /\ m \in Nat \ {0} /\ t \in Seq(Seq(S)) /\ Len(s) = m
      /\ Head(s) = s[1] /\ s[1] \in Seq(S)
      /\ \A i \in 1..k : t[i] = s[i + 1] /\ t[i] \in Seq(S)
  <2>1. /\ t \in Seq(Seq(S)) /\ Len(t) = Len(s) - 1
        /\ \A i \in 1..Len(t) : t[i] = s[i + 1]
        /\ Head(s) \in Seq(S) /\ Len(s) \in Nat \ {0} /\ Head(s) = s[1]
    BY HeadTailProperties, LenProperties, EmptySeq
  <2> QED
    BY <1>0, <2>1, LenProperties, ElementOfSeq
<1> HIDE DEF t
<1>2. PICK f \in [1..m -> Seq(S)] :
        Collects(f, s, m) /\ FlattenSeq(s) = f[m]
  BY <1>1, Flattened
<1>3. 1 \in 1..m /\ f[1] = s[1]
  BY <1>1, <1>2 DEF Collects
<1>next. \A n \in Nat \ {0} : n + 1 <= m => f[n + 1] = f[n] \o s[n + 1]
  BY <1>2, CollectsNext, Zenon
<1>4. CASE k = 0
  <2>1. FlattenSeq(s) = s[1]
    BY <1>0, <1>2, <1>3, <1>4
  <2>2. t = <<>> /\ FlattenSeq(t) = <<>>
    BY <1>0, <1>1, <1>4, EmptySeq, FlattenType
  <2> QED
    BY <1>1, <2>1, <2>2, ConcatEmptySeq DEF t
<1>5. CASE k # 0
  <2>0. k \in Nat \ {0} /\ k \in 1..k /\ 1 + 1 <= m /\ 1 \in 1..k
    BY <1>0, <1>5
  <2>1. PICK g \in [1..k -> Seq(S)] : Collects(g, t, k) /\ FlattenSeq(t) = g[k]
    BY <1>0, <1>1, <1>5, Flattened
  <2>next. \A n \in Nat \ {0} : n + 1 <= k => g[n + 1] = g[n] \o t[n + 1]
    BY <2>1, CollectsNext, Zenon
  <2> DEFINE T == {n \in Nat : n \in 1..k => f[n + 1] = s[1] \o g[n]}
  <2>2. 1 \in T
    <3>1. 1 \in Nat \ {0}
      OBVIOUS
    <3>2. f[1 + 1] = f[1] \o s[1 + 1]
      BY <1>next, <2>0, <3>1, Zenon
    <3>3. t[1] = s[1 + 1]
      BY <1>1, <2>0
    <3>4. g[1] = t[1]
      BY <2>0, <2>1 DEF Collects
    <3>5. f[1 + 1] = s[1] \o g[1]
      BY <1>3, <3>2, <3>3, <3>4, Zenon
    <3> QED
      BY <3>5
  <2>3. ASSUME NEW n \in Nat \ {0}, n \in T, n + 1 \in 1..k
        PROVE  f[(n + 1) + 1] = s[1] \o g[n + 1]
    <3>1. /\ n \in 1..k /\ n + 1 <= k /\ n + 1 \in Nat \ {0}
          /\ (n + 1) + 1 <= m
      BY <1>0, <2>3
    <3>2. f[(n + 1) + 1] = f[n + 1] \o s[(n + 1) + 1]
      BY <1>next, <3>1, Zenon
    <3>3. g[n + 1] = g[n] \o t[n + 1]
      BY <2>next, <3>1, Zenon
    <3>4. /\ f[n + 1] = s[1] \o g[n] /\ t[n + 1] = s[(n + 1) + 1]
          /\ t[n + 1] \in Seq(S) /\ g[n] \in Seq(S)
      BY <1>1, <2>1, <2>3, <3>1
    <3>5. (s[1] \o g[n]) \o t[n + 1] = s[1] \o (g[n] \o t[n + 1])
      <4>1. \A a, b, c \in Seq(S) : (a \o b) \o c = a \o (b \o c)
        BY ConcatAssociative, SMTT(60)
      <4> QED
        BY <1>1, <3>4, <4>1, Zenon
    <3> QED
      BY <3>2, <3>3, <3>4, <3>5, Zenon
  <2>4. \A n \in Nat \ {0} : n \in T => n + 1 \in T
    <3>1. \A n \in Nat \ {0} : n + 1 \in Nat
      OBVIOUS
    <3> QED
      BY <2>3, <3>1, Zenon
  <2> HIDE DEF T
  <2>5. \A n \in Nat \ {0} : n \in T
    BY <2>2, <2>4, Induction
  <2>6. f[k + 1] = s[1] \o g[k]
    BY <2>0, <2>5 DEF T
  <2> QED
    BY <1>0, <1>1, <1>2, <2>1, <2>6, Zenon DEF t
<1> QED
  BY <1>4, <1>5

(* Silent transfers add nothing.                                           *)
LEMMA FlattenSilence ==
  ASSUME NEW S, NEW m \in Nat \ {0}
  PROVE  /\ [i \in 1..m |-> <<>>] \in Seq(Seq(S))
         /\ Len([i \in 1..m |-> <<>>]) = m
         /\ FlattenSeq([i \in 1..m |-> <<>>]) = <<>>
<1> DEFINE s == [i \in 1..m |-> <<>>]
<1>1. /\ s \in Seq(Seq(S)) /\ Len(s) = m
      /\ \A i \in 1..m : s[i] = <<>>
  <2>1. <<>> \in Seq(S)
    BY EmptySeq
  <2>2. s \in [1..m -> Seq(S)]
    BY <2>1
  <2>3. s \in Seq(Seq(S))
    BY <2>2, SeqDef
  <2>4. DOMAIN s = 1..m /\ DOMAIN s = 1..Len(s) /\ Len(s) \in Nat
    BY <2>3, LenProperties
  <2> QED
    BY <2>3, <2>4
<1> HIDE DEF s
<1>2. PICK f \in [1..m -> Seq(S)] : Collects(f, s, m) /\ FlattenSeq(s) = f[m]
  BY <1>1, Flattened
<1> DEFINE T == {n \in Nat : n \in 1..m => f[n] = <<>>}
<1>3. 1 \in T
  BY <1>1, <1>2 DEF Collects
<1>4. ASSUME NEW n \in Nat \ {0}, n \in T, n + 1 \in 1..m
      PROVE  f[n + 1] = <<>>
  <2>1. n \in 1..m /\ n + 1 <= m
    BY <1>4
  <2>2. f[n + 1] = f[n] \o s[n + 1]
    <3>1. \A i \in Nat \ {0} : i + 1 <= m => f[i + 1] = f[i] \o s[i + 1]
      BY <1>2, CollectsNext, Zenon
    <3> QED
      BY <2>1, <3>1, Zenon
  <2>3. f[n] = <<>> /\ s[n + 1] = <<>>
    BY <1>1, <1>4, <2>1
  <2> QED
    BY <2>2, <2>3, EmptySeq, ConcatEmptySeq
<1>5. \A n \in Nat \ {0} : n \in T => n + 1 \in T
  BY <1>4
<1> HIDE DEF T
<1>6. \A n \in Nat \ {0} : n \in T
  BY <1>3, <1>5, Induction
<1>7. f[m] = <<>>
  BY <1>6 DEF T
<1> QED
  BY <1>1, <1>2, <1>7 DEF s

-----------------------------------------------------------------------------
(* What a read of at most so many frames' bytes holds: receive_limit       *)
(* bounds the frames that come of it.                                      *)
LEMMA WholeFrames ==
  ASSUME NEW a \in Nat, NEW b \in Nat \ {0}, NEW k \in Int, a <= b * k
  PROVE  /\ a \div b \in Nat /\ a \div b <= k
         /\ a % b \in 0..b - 1
<1> DEFINE q == a \div b
           r == a % b
<1>1. q \in Nat /\ r \in 0..b - 1 /\ a = b * q + r
  BY SMT
<1> HIDE DEF q, r
<1>2. ~(q >= k + 1)
  BY <1>1, SMT
<1> QED
  BY <1>1, <1>2 DEF q, r

(* The first n elements.                                                   *)
LEMMA AtMostTakes ==
  ASSUME NEW S, NEW s \in Seq(S), NEW n \in Nat
  PROVE  /\ AtMost(s, n) \in Seq(S)
         /\ Len(AtMost(s, n)) = IF n < Len(s) THEN n ELSE Len(s)
         /\ Len(AtMost(s, n)) <= n /\ Len(AtMost(s, n)) <= Len(s)
         /\ Len(AtMost(s, n)) \in Nat
         /\ \A i \in 1..Len(AtMost(s, n)) : AtMost(s, n)[i] = s[i]
<1>1. PICK m \in Nat : m = (IF n < Len(s) THEN n ELSE Len(s))
  BY LenProperties
<1>2. AtMost(s, n) = SubSeq(s, 1, m)
  BY <1>1 DEF AtMost
<1>3. m <= Len(s) /\ m <= n /\ Len(s) \in Nat
  BY <1>1, LenProperties
<1>4. /\ SubSeq(s, 1, m) \in Seq(S) /\ Len(SubSeq(s, 1, m)) = m
      /\ \A i \in 1..m : SubSeq(s, 1, m)[i] = s[i]
  BY <1>3
<1> QED
  BY <1>1, <1>2, <1>3, <1>4

(* A sequence is its first n elements and the rest.                        *)
LEMMA AtMostRest ==
  ASSUME NEW S, NEW s \in Seq(S), NEW n \in Nat
  PROVE  /\ SubSeq(s, n + 1, Len(s)) \in Seq(S)
         /\ AtMost(s, n) \o SubSeq(s, n + 1, Len(s)) = s
         /\ Len(SubSeq(s, n + 1, Len(s))) <= Len(s)
<1> DEFINE a == AtMost(s, n)
           z == SubSeq(s, n + 1, Len(s))
<1>1. /\ a \in Seq(S) /\ Len(s) \in Nat /\ Len(a) \in Nat
      /\ Len(a) = IF n < Len(s) THEN n ELSE Len(s)
      /\ \A i \in 1..Len(a) : a[i] = s[i]
  BY AtMostTakes, LenProperties
<1>2. /\ z \in Seq(S) /\ Len(z) \in Nat
      /\ Len(z) = IF n < Len(s) THEN Len(s) - n ELSE 0
      /\ \A i \in 1..Len(z) : z[i] = s[n + i]
  BY <1>1
<1> HIDE DEF a, z
<1>3. /\ a \o z \in Seq(S) /\ Len(a \o z) = Len(s)
      /\ \A i \in 1..Len(s) : (a \o z)[i] = s[i]
  <2>1. /\ a \o z \in Seq(S) /\ Len(a \o z) = Len(a) + Len(z)
        /\ \A i \in 1..Len(a) + Len(z) :
             (a \o z)[i] = IF i <= Len(a) THEN a[i] ELSE z[i - Len(a)]
    BY <1>1, <1>2, ConcatProperties
  <2>2. Len(a) + Len(z) = Len(s)
    BY <1>1, <1>2
  <2>3. ASSUME NEW i \in 1..Len(s), ~(i <= Len(a))
        PROVE  i - Len(a) \in 1..Len(z) /\ n + (i - Len(a)) = i
    BY <1>1, <1>2, <2>3
  <2>4. \A i \in 1..Len(s) : i <= Len(a) => i \in 1..Len(a)
    BY <1>1
  <2> QED
    BY <1>1, <1>2, <2>1, <2>2, <2>3, <2>4, Zenon
<1>4. a \o z = s
  BY <1>3, SeqEqual
<1>5. Len(z) <= Len(s)
  BY <1>1, <1>2
<1> QED
  BY <1>2, <1>4, <1>5 DEF a, z

(* Nothing lies in every window.                                           *)
LEMMA WindowEmpty ==
  ASSUME NEW low, NEW high
  PROVE  Window(<<>>, low, high)
BY DEF Window, Rising

(* A window may be wider than it needs to be.                              *)
LEMMA WindowWiden ==
  ASSUME NEW s \in Seq(Int), NEW low, NEW high \in Int, NEW more \in Int,
         Window(s, low, high), high <= more
  PROVE  Window(s, low, more)
BY LenProperties, ElementOfSeq DEF Window

(* What comes after the window follows it.                                 *)
LEMMA WindowJoin ==
  ASSUME NEW s \in Seq(Int), NEW t \in Seq(Int),
         NEW low \in Int, NEW high \in Int, NEW more \in Int,
         low <= high, high <= more,
         Window(s, low, high), Window(t, high, more)
  PROVE  Window(s \o t, low, more)
<1> DEFINE u == s \o t
<1>1. /\ u \in Seq(Int) /\ Len(s) \in Nat /\ Len(t) \in Nat
      /\ DOMAIN s = 1..Len(s) /\ DOMAIN t = 1..Len(t)
      /\ DOMAIN u = 1..Len(s) + Len(t)
      /\ \A i \in 1..Len(s) + Len(t) :
           u[i] = IF i <= Len(s) THEN s[i] ELSE t[i - Len(s)]
  BY ConcatProperties, LenProperties
<1>2. /\ \A i \in 1..Len(s) : s[i] \in Int
      /\ \A i \in 1..Len(t) : t[i] \in Int
  BY ElementOfSeq
<1> HIDE DEF u
<1>3. \A i \in 1..Len(s) + Len(t) :
        /\ i <= Len(s) => i \in DOMAIN s /\ u[i] = s[i]
        /\ ~(i <= Len(s)) => i - Len(s) \in DOMAIN t /\ u[i] = t[i - Len(s)]
  <2>1. \A i \in 1..Len(s) + Len(t) :
          /\ i <= Len(s) => i \in 1..Len(s)
          /\ ~(i <= Len(s)) => i - Len(s) \in 1..Len(t)
    BY <1>1
  <2> QED
    BY <1>1, <2>1, Zenon
<1>4. \A i \in DOMAIN u : low < u[i] /\ u[i] <= more
  <2> SUFFICES ASSUME NEW i \in 1..Len(s) + Len(t)
               PROVE  low < u[i] /\ u[i] <= more
    BY <1>1
  <2>1. CASE i <= Len(s)
    <3>1. i \in DOMAIN s /\ u[i] = s[i]
      BY <1>3, <2>1
    <3>2. s[i] \in Int /\ low < s[i] /\ s[i] <= high
      BY <1>1, <1>2, <3>1 DEF Window
    <3> QED
      BY <3>1, <3>2
  <2>2. CASE ~(i <= Len(s))
    <3>1. i - Len(s) \in DOMAIN t /\ u[i] = t[i - Len(s)]
      BY <1>3, <2>2
    <3>2. u[i] \in Int /\ high < u[i] /\ u[i] <= more
      BY <1>1, <1>2, <3>1 DEF Window
    <3> QED
      BY <3>2
  <2> QED
    BY <2>1, <2>2
<1>5. Rising(u)
  <2> SUFFICES ASSUME NEW i \in 1..Len(s) + Len(t),
                      NEW j \in 1..Len(s) + Len(t), i < j
               PROVE  u[i] < u[j]
    BY <1>1 DEF Rising
  <2>1. CASE j <= Len(s)
    <3>1. i \in DOMAIN s /\ j \in DOMAIN s /\ u[i] = s[i] /\ u[j] = s[j]
      BY <1>1, <2>1
    <3> QED
      BY <3>1 DEF Window, Rising
  <2>2. CASE ~(i <= Len(s))
    <3>1. /\ i - Len(s) \in DOMAIN t /\ j - Len(s) \in DOMAIN t
          /\ i - Len(s) < j - Len(s)
          /\ u[i] = t[i - Len(s)] /\ u[j] = t[j - Len(s)]
      <4>1. ~(j <= Len(s)) /\ i - Len(s) < j - Len(s)
        BY <1>1, <2>2
      <4> QED
        BY <1>3, <2>2, <4>1
    <3> QED
      BY <3>1 DEF Window, Rising
  <2>3. CASE i <= Len(s) /\ ~(j <= Len(s))
    <3>1. /\ i \in DOMAIN s /\ j - Len(s) \in DOMAIN t
          /\ u[i] = s[i] /\ u[j] = t[j - Len(s)]
      BY <1>3, <2>3
    <3>2. u[i] \in Int /\ u[j] \in Int
      BY <1>1, <1>2, <3>1
    <3>3. u[i] <= high /\ high < u[j]
      BY <3>1 DEF Window
    <3> QED
      BY <3>2, <3>3
  <2> QED
    BY <1>1, <2>1, <2>2, <2>3
<1> QED
  BY <1>4, <1>5 DEF Window, u

(* What is left of a window once its first part has gone is later than     *)
(* that.                                                                   *)
LEMMA WindowSplit ==
  ASSUME NEW s \in Seq(Int), NEW t \in Seq(Int), NEW low \in Int, NEW high \in Int,
         Window(s \o t, low, high)
  PROVE  /\ Window(t, low, high)
         /\ s # <<>> => /\ low < Last(s) /\ Last(s) <= high
                        /\ Window(t, Last(s), high)
<1>1. /\ s \o t \in Seq(Int) /\ Len(s) \in Nat /\ Len(t) \in Nat
      /\ DOMAIN s = 1..Len(s) /\ DOMAIN t = 1..Len(t)
      /\ DOMAIN (s \o t) = 1..Len(s) + Len(t)
      /\ \A i \in 1..Len(s) : (s \o t)[i] = s[i] /\ i \in 1..Len(s) + Len(t)
      /\ \A i \in 1..Len(t) : /\ (s \o t)[Len(s) + i] = t[i]
                              /\ Len(s) + i \in 1..Len(s) + Len(t)
  BY ConcatProperties, LenProperties
<1>2. Rising(t)
  <2> SUFFICES ASSUME NEW i \in 1..Len(t), NEW j \in 1..Len(t), i < j
               PROVE  t[i] < t[j]
    BY <1>1 DEF Rising
  <2>1. Len(s) + i < Len(s) + j
    BY <1>1
  <2> QED
    BY <1>1, <2>1 DEF Window, Rising
<1>3. \A i \in 1..Len(t) : low < t[i] /\ t[i] <= high
  BY <1>1 DEF Window
<1>4. ASSUME s # <<>>
      PROVE  /\ low < Last(s) /\ Last(s) <= high
             /\ \A i \in 1..Len(t) : Last(s) < t[i]
  <2>1. Len(s) \in 1..Len(s) /\ Last(s) = s[Len(s)]
    BY <1>1, <1>4, EmptySeq DEF Last
  <2>2. low < Last(s) /\ Last(s) <= high
    BY <1>1, <2>1 DEF Window
  <2>3. ASSUME NEW i \in 1..Len(t)
        PROVE  Last(s) < t[i]
    <3>1. Len(s) < Len(s) + i
      BY <1>1
    <3> QED
      BY <1>1, <2>1, <3>1 DEF Window, Rising
  <2> QED
    BY <2>2, <2>3
<1> QED
  BY <1>1, <1>2, <1>3, <1>4 DEF Window

(* The first elements of a window.                                         *)
LEMMA WindowFirst ==
  ASSUME NEW S, NEW s \in Seq(S), NEW n \in Nat, NEW low, NEW high,
         Window(s, low, high)
  PROVE  Window(AtMost(s, n), low, high)
<1>1. /\ AtMost(s, n) \in Seq(S) /\ Len(AtMost(s, n)) \in Nat
      /\ Len(AtMost(s, n)) <= Len(s) /\ Len(s) \in Nat
      /\ DOMAIN AtMost(s, n) = 1..Len(AtMost(s, n)) /\ DOMAIN s = 1..Len(s)
      /\ \A i \in 1..Len(AtMost(s, n)) : AtMost(s, n)[i] = s[i]
  BY AtMostTakes, LenProperties
<1>2. \A i \in 1..Len(AtMost(s, n)) : i \in 1..Len(s)
  BY <1>1
<1>3. \A i \in DOMAIN AtMost(s, n) : i \in DOMAIN s /\ AtMost(s, n)[i] = s[i]
  BY <1>1, <1>2
<1>4. Rising(AtMost(s, n))
  BY <1>3, Zenon DEF Window, Rising
<1>5. \A i \in DOMAIN AtMost(s, n) : low < AtMost(s, n)[i] /\ AtMost(s, n)[i] <= high
  BY <1>3, Zenon DEF Window
<1> QED
  BY <1>4, <1>5, Zenon DEF Window

(* The microphone's frames, joined and taken apart.                        *)
LEMMA SpokenJoin ==
  ASSUME NEW S, NEW s \in Seq(S), NEW t \in Seq(S)
  PROVE  Spoken(s \o t) <=> Spoken(s) /\ Spoken(t)
<1>1. /\ s \o t \in Seq(S) /\ Len(s) \in Nat /\ Len(t) \in Nat
      /\ DOMAIN s = 1..Len(s) /\ DOMAIN t = 1..Len(t)
      /\ DOMAIN (s \o t) = 1..Len(s) + Len(t)
      /\ \A i \in 1..Len(s) + Len(t) :
           (s \o t)[i] = IF i <= Len(s) THEN s[i] ELSE t[i - Len(s)]
      /\ \A i \in 1..Len(s) : (s \o t)[i] = s[i] /\ i \in 1..Len(s) + Len(t)
      /\ \A i \in 1..Len(t) : /\ (s \o t)[Len(s) + i] = t[i]
                              /\ Len(s) + i \in 1..Len(s) + Len(t)
  BY ConcatProperties, LenProperties
<1> QED
  BY <1>1 DEF Spoken

(* A function on the first numbers is a sequence.                          *)
LEMMA FunctionIsSeq ==
  ASSUME NEW S, NEW m \in Nat, NEW f \in [1..m -> S]
  PROVE  f \in Seq(S) /\ Len(f) = m
<1>1. f \in Seq(S)
  BY SeqDef
<1>2. DOMAIN f = 1..m /\ DOMAIN f = 1..Len(f) /\ Len(f) \in Nat
  BY <1>1, LenProperties
<1> QED
  BY <1>2

(* A sequence of members of a set is one of members of a larger set.       *)
LEMMA InLarger ==
  ASSUME NEW T, NEW S \in SUBSET T, NEW s \in Seq(S)
  PROVE  s \in Seq(T)
<1>1. s \in [1..Len(s) -> S] /\ Len(s) \in Nat
  BY LenProperties
<1>2. s \in [1..Len(s) -> T]
  BY <1>1
<1> QED
  BY <1>1, <1>2, SeqDef

-----------------------------------------------------------------------------
(* The sizes are numbers.                                                  *)
LEMMA Sizes ==
  /\ FrameBytes \in Nat \ {0} /\ Capacity \in Nat \ {0}
  /\ Prebuffer \in Nat \ {0} /\ Transfers \in Nat \ {0}
  /\ SlotFrames \in Nat \ {0} /\ MaxFrames \in Nat /\ PrebufferRoom \in Nat
  /\ Prebuffer <= Capacity /\ Prebuffer <= PrebufferRoom
  /\ 0..MaxFrames \subseteq Int /\ 1..MaxFrames \subseteq Int
BY TxAudioAssumption

(* What is on its way is counted by flex1500_usb_rx_tx_pending_frames.     *)
LEMMA Ways ==
  ASSUME TypeOK
  PROVE  /\ FlattenSeq(slots) \in Seq(0..MaxFrames)
         /\ OnTheWay \in Seq(0..MaxFrames) /\ OnTheWay \in Seq(Int)
         /\ Len(OnTheWay) = Pending /\ Pending \in Nat
<1> DEFINE flat == FlattenSeq(slots)
<1>1. slots \in Seq(Seq(0..MaxFrames)) /\ queue \in Seq(0..MaxFrames)
  BY DEF TypeOK
<1>2. flat \in Seq(0..MaxFrames)
  BY <1>1, FlattenType
<1> HIDE DEF flat
<1>3. /\ flat \o queue \in Seq(0..MaxFrames)
      /\ Len(flat \o queue) = Len(queue) + Len(flat)
      /\ Len(queue) + Len(flat) \in Nat
  BY <1>1, <1>2, ConcatProperties, LenProperties
<1>4. flat \o queue \in Seq(Int)
  BY <1>3, Sizes, InLarger
<1> QED
  BY <1>2, <1>3, <1>4 DEF OnTheWay, Pending, flat

(* What is added to the queue comes last.                                  *)
LEMMA WayGrows ==
  ASSUME TypeOK, NEW kept \in Seq(0..MaxFrames),
         queue' = queue \o kept, slots' = slots
  PROVE  OnTheWay' = OnTheWay \o kept
<1>1. \A a, b, c \in Seq(0..MaxFrames) : (a \o b) \o c = a \o (b \o c)
  BY ConcatAssociative, SMTT(60)
<1>2. queue \in Seq(0..MaxFrames) /\ FlattenSeq(slots) \in Seq(0..MaxFrames)
  BY Ways DEF TypeOK
<1> QED
  BY <1>1, <1>2, Zenon DEF OnTheWay

(* A transfer that is done takes its frames with it, and is filled from    *)
(* the front of the queue.                                                 *)
LEMMA WayMoves ==
  ASSUME TypeOK, slots # <<>>, slots' = Append(Tail(slots), Rendered),
         queue' = Unrendered
  PROVE  /\ Head(slots) \in Seq(0..MaxFrames)
         /\ slots' \in Seq(Seq(0..MaxFrames)) /\ Len(slots') = Len(slots)
         /\ queue' \in Seq(0..MaxFrames) /\ Len(queue') <= Len(queue)
         /\ OnTheWay = Head(slots) \o OnTheWay'
<1> DEFINE S == 0..MaxFrames
           head == Head(slots)
           rest == Tail(slots)
           flat == FlattenSeq(Tail(slots))
           first == AtMost(queue, SlotFrames)
           left == SubSeq(queue, SlotFrames + 1, Len(queue))
<1>1. slots \in Seq(Seq(S)) /\ queue \in Seq(S) /\ SlotFrames \in Nat
  BY Sizes DEF TypeOK
<1> HIDE DEF S
<1>2. /\ head \in Seq(S) /\ rest \in Seq(Seq(S))
      /\ FlattenSeq(slots) = head \o flat
  BY <1>1, FlattenHead
<1>3. /\ first \in Seq(S) /\ left \in Seq(S) /\ first \o left = queue
      /\ Len(left) <= Len(queue)
  BY <1>1, AtMostTakes, AtMostRest
<1>4. slots' = Append(rest, first) /\ queue' = left
  BY DEF Rendered, Unrendered
<1>5. flat \in Seq(S)
  BY <1>2, FlattenType
<1>6. Len(rest) = Len(slots) - 1 /\ Len(slots) \in Nat
  BY <1>1, HeadTailProperties, LenProperties
<1> HIDE DEF head, rest, first, left
<1>7. FlattenSeq(Append(rest, first)) = flat \o first
  BY <1>2, <1>3, FlattenAppend DEF rest
<1> HIDE DEF flat
<1>8. slots' \in Seq(Seq(S)) /\ Len(slots') = Len(slots)
  <2>1. /\ Append(rest, first) \in Seq(Seq(S))
        /\ Len(Append(rest, first)) = Len(rest) + 1
    BY <1>2, <1>3, AppendProperties
  <2>2. slots' \in Seq(Seq(S)) /\ Len(slots') = Len(rest) + 1
    BY <1>4, <2>1, Zenon
  <2> QED
    BY <1>6, <2>2
<1>9. \A a, b, c \in Seq(S) : (a \o b) \o c = a \o (b \o c)
  BY ConcatAssociative, SMTT(60)
<1>10. OnTheWay' = (flat \o first) \o left
  BY <1>4, <1>7 DEF OnTheWay
<1>11. OnTheWay' = flat \o queue
  BY <1>3, <1>5, <1>9, <1>10, Zenon
<1>12. OnTheWay = (head \o flat) \o queue
  BY <1>2 DEF OnTheWay
<1>13. OnTheWay = head \o OnTheWay'
  BY <1>1, <1>2, <1>5, <1>9, <1>11, <1>12, Zenon
<1> QED
  BY <1>2, <1>3, <1>4, <1>8, <1>13 DEF head, S

(* A transfer that failed takes its frames with it.                        *)
LEMMA WayShrinks ==
  ASSUME TypeOK, slots # <<>>, slots' = Tail(slots), queue' = queue
  PROVE  /\ Head(slots) \in Seq(0..MaxFrames)
         /\ slots' \in Seq(Seq(0..MaxFrames)) /\ Len(slots') <= Len(slots)
         /\ OnTheWay = Head(slots) \o OnTheWay'
<1> DEFINE S == 0..MaxFrames
           head == Head(slots)
           flat == FlattenSeq(Tail(slots))
<1>1. slots \in Seq(Seq(S)) /\ queue \in Seq(S)
  BY DEF TypeOK
<1> HIDE DEF S
<1>2. /\ head \in Seq(S) /\ Tail(slots) \in Seq(Seq(S))
      /\ FlattenSeq(slots) = head \o flat
  BY <1>1, FlattenHead
<1>3. flat \in Seq(S)
  BY <1>2, FlattenType
<1>4. Len(slots') <= Len(slots)
  BY <1>1, HeadTailProperties, LenProperties
<1>5. OnTheWay' = flat \o queue /\ OnTheWay = (head \o flat) \o queue
  BY <1>2 DEF OnTheWay
<1> HIDE DEF head, flat
<1>6. \A a, b, c \in Seq(S) : (a \o b) \o c = a \o (b \o c)
  BY ConcatAssociative, SMTT(60)
<1>7. OnTheWay = head \o OnTheWay'
  BY <1>1, <1>2, <1>3, <1>5, <1>6, Zenon
<1> QED
  BY <1>2, <1>4, <1>7 DEF head, S

(* The frames that are complete now are numbered on.                       *)
LEMMA NewFrames ==
  ASSUME NEW m \in Nat, NEW n \in Nat, m + n <= MaxFrames
  PROVE  /\ [i \in 1..n |-> m + i] \in Seq(1..MaxFrames)
         /\ Len([i \in 1..n |-> m + i]) = n
         /\ Window([i \in 1..n |-> m + i], m, m + n)
<1> DEFINE f == [i \in 1..n |-> m + i]
<1>1. f \in [1..n -> 1..MaxFrames]
  BY Sizes
<1>2. f \in Seq(1..MaxFrames) /\ Len(f) = n
  BY <1>1, FunctionIsSeq
<1>3. DOMAIN f = 1..n /\ \A i \in 1..n : f[i] = m + i
  OBVIOUS
<1> HIDE DEF f
<1>4. Window(f, m, m + n)
  BY <1>3 DEF Window, Rising
<1> QED
  BY <1>2, <1>4 DEF f

-----------------------------------------------------------------------------
(* The initial state.                                                      *)
LEMMA AudioInitially == Init => AudioInv
<1> SUFFICES ASSUME Init PROVE AudioInv
  OBVIOUS
<1>1. \A S : <<>> \in Seq(S)
  BY EmptySeq
<1>2. Len(<<>>) = 0
  OBVIOUS
<1>3. TypeOK
  <2>1. /\ prebuf \in Seq(1..MaxFrames) /\ queue \in Seq(0..MaxFrames)
        /\ slots \in Seq(Seq(0..MaxFrames))
    BY <1>1, Zenon DEF Init
  <2>2. Len(prebuf) = 0 /\ Len(queue) = 0 /\ Len(slots) = 0
    BY <1>2 DEF Init
  <2>3. /\ net \in Sessions
        /\ tail \in 0..FrameBytes - 1 /\ read \in 0..FrameBytes - 1
        /\ {made, aired, cut} \subseteq 0..MaxFrames
    BY Sizes DEF Init, NoSession, Sessions
  <2>4. /\ tx \in [phase : {"idle", "prepare", "on", "drain"},
                   source : {"none", "network", "mic"},
                   accepting : BOOLEAN, alive : BOOLEAN]
        /\ report \in [{"requested", "drained", "discarded"} -> Nat]
    BY DEF Init, Idle, NoReport
  <2>5. client \in BOOLEAN /\ lost \in BOOLEAN
    BY Zenon DEF Init
  <2> QED
    BY <2>1, <2>2, <2>3, <2>4, <2>5, Sizes DEF TypeOK, Sessions
<1>4. PhaseSound /\ KeySound /\ PrebufferCounted /\ Heard
  BY <1>2 DEF Init, PhaseSound, KeySound, PrebufferCounted, Heard, Idle, NoSession
<1>5. WaySound /\ Fresh(prebuf)
  BY WindowEmpty DEF Init, WaySound, Fresh, Idle
<1>6. DrainBounded /\ NoFrameLost
  BY DEF Init, DrainBounded, NoFrameLost, Idle
<1> QED
  BY <1>3, <1>4, <1>5, <1>6 DEF AudioInv

(* Where new frames go: those of a keyed session to the end of the queue   *)
(* while the driver accepts them, others to the end of the prebuffer.      *)
LEMMA DeliverKeeps ==
  ASSUME AudioInv, Free, NEW n \in Nat, Deliver(n),
         UNCHANGED <<tx, slots, aired, cut>>
  PROVE  /\ made' \in 0..MaxFrames
         /\ prebuf' \in Seq(1..MaxFrames) /\ Len(prebuf') <= PrebufferRoom
         /\ queue' \in Seq(0..MaxFrames) /\ Len(queue') <= Capacity
         /\ Fresh(prebuf)' /\ WaySound' /\ Heard'
         /\ IF net.keyed
            THEN /\ prebuf' = prebuf
                 /\ n <= Available => Len(queue') = Len(queue) + n
            ELSE /\ queue' = queue /\ Len(prebuf') <= Len(prebuf) + n
                 /\ n <= PrebufferRoom - Len(prebuf) =>
                      Len(prebuf') = Len(prebuf) + n
<1> DEFINE S == 0..MaxFrames
           frames == [i \in 1..n |-> made + i]
           room == IF net.keyed THEN Available ELSE PrebufferRoom - Len(prebuf)
           kept == AtMost(frames, room)
<1>1. /\ prebuf \in Seq(1..MaxFrames) /\ Len(prebuf) <= PrebufferRoom
      /\ queue \in Seq(S) /\ Len(queue) <= Capacity
      /\ made \in Nat /\ aired \in Nat /\ cut \in Nat
      /\ Len(prebuf) \in Nat /\ Len(queue) \in Nat
      /\ tx.phase \in {"idle", "on"}
  BY Sizes, LenProperties DEF AudioInv, TypeOK, Free
<1>2. made + n <= MaxFrames /\ made' = made + n
  BY DEF Deliver
<1>3. IF net.keyed THEN queue' = queue \o kept /\ prebuf' = prebuf
                   ELSE prebuf' = prebuf \o kept /\ queue' = queue
  BY DEF Deliver
<1>4. /\ frames \in Seq(1..MaxFrames) /\ Len(frames) = n
      /\ Window(frames, made, made')
  BY <1>1, <1>2, NewFrames
<1>5. /\ room \in Nat
      /\ net.keyed => room <= Capacity - Len(queue)
      /\ ~(tx.source = "network" /\ tx.accepting) /\ net.keyed => room = 0
  BY <1>1, Sizes DEF Available
<1> HIDE DEF S, frames, room
<1>6. /\ kept \in Seq(1..MaxFrames) /\ Len(kept) <= room /\ Len(kept) <= n
      /\ Len(kept) \in Nat
      /\ n <= room => Len(kept) = n
  BY <1>4, <1>5, AtMostTakes
<1>7. Window(kept, made, made')
  BY <1>4, <1>5, WindowFirst
<1> HIDE DEF kept
<1>8. kept \in Seq(Int) /\ kept \in Seq(S) /\ prebuf \in Seq(Int)
  BY <1>1, <1>6, Sizes, InLarger DEF S
<1>9. made <= made' /\ made' \in Nat /\ made' \in 0..MaxFrames
  BY <1>1, <1>2
<1>10. Heard'
  BY <1>1, <1>9 DEF AudioInv, Heard
<1>11. ASSUME NEW s \in Seq(Int), Fresh(s)
       PROVE  /\ Window(s \o kept, aired, made')
              /\ Window(s \o kept, cut, made')
              /\ Window(s, aired, made') /\ Window(s, cut, made')
  <2>1. aired <= made /\ cut <= made
    BY DEF AudioInv, Heard
  <2> QED
    BY <1>1, <1>7, <1>8, <1>9, <1>11, <2>1, WindowJoin, WindowWiden DEF Fresh
<1>12. CASE net.keyed
  <2>1. queue' = queue \o kept /\ prebuf' = prebuf
    BY <1>3, <1>12
  <2>2. /\ queue \o kept \in Seq(S)
        /\ Len(queue \o kept) = Len(queue) + Len(kept)
    BY <1>1, <1>8, ConcatProperties
  <2>3. n <= room => Len(queue') = Len(queue) + n
    BY <1>1, <1>5, <1>6, <1>12, <2>1, <2>2
  <2>4. Len(queue') <= Capacity
    BY <1>1, <1>5, <1>6, <1>12, <2>1, <2>2, Sizes
  <2>5. Fresh(prebuf)'
    BY <1>8, <1>11, <2>1 DEF AudioInv, Fresh
  <2>6. OnTheWay' = OnTheWay \o kept /\ OnTheWay \in Seq(Int)
        /\ OnTheWay \in Seq(S)
    BY <1>8, <2>1, WayGrows, Ways DEF AudioInv, S
  <2>7. WaySound'
    <3>1. CASE tx.source = "network"
      <4>1. Fresh(OnTheWay)
        BY <3>1 DEF AudioInv, WaySound
      <4>2. Fresh(OnTheWay)'
        BY <1>11, <2>6, <4>1 DEF Fresh
      <4> QED
        BY <3>1, <4>2 DEF WaySound
    <3>2. CASE tx.source # "network"
      <4>1. Len(kept) = 0
        BY <1>5, <1>6, <1>12, <3>2
      <4>2. kept = <<>>
        BY <1>6, <4>1, EmptySeq
      <4>3. OnTheWay' = OnTheWay
        BY <2>6, <4>2, ConcatEmptySeq
      <4> QED
        BY <3>2, <4>3 DEF AudioInv, WaySound
    <3> QED
      BY <3>1, <3>2
  <2> QED
    BY <1>1, <1>9, <1>10, <1>12, <2>1, <2>2, <2>3, <2>4, <2>5, <2>7 DEF S, room
<1>13. CASE ~net.keyed
  <2>1. queue' = queue /\ prebuf' = prebuf \o kept
    BY <1>3, <1>13
  <2>2. /\ prebuf \o kept \in Seq(1..MaxFrames)
        /\ Len(prebuf \o kept) = Len(prebuf) + Len(kept)
    BY <1>1, <1>6, ConcatProperties
  <2>3. room = PrebufferRoom - Len(prebuf)
    BY <1>13 DEF room
  <2>4. /\ Len(prebuf') <= PrebufferRoom /\ Len(prebuf') <= Len(prebuf) + n
        /\ n <= PrebufferRoom - Len(prebuf) => Len(prebuf') = Len(prebuf) + n
    <3>1. Len(prebuf') = Len(prebuf) + Len(kept)
      BY <2>1, <2>2, Zenon
    <3>2. /\ Len(prebuf) \in Nat /\ Len(kept) \in Nat /\ Len(kept) <= n
          /\ Len(kept) <= PrebufferRoom - Len(prebuf)
          /\ n <= PrebufferRoom - Len(prebuf) => Len(kept) = n
      BY <1>1, <1>6, <2>3, Zenon
    <3>3. PrebufferRoom \in Nat
      BY Sizes
    <3> QED
      BY <3>1, <3>2, <3>3
  <2>5. Fresh(prebuf)'
    BY <1>8, <1>11, <2>1 DEF AudioInv, Fresh
  <2>6. tx.source # "network"
    BY <1>1, <1>13 DEF AudioInv, PhaseSound, KeySound
  <2>7. WaySound'
    BY <2>1, <2>6 DEF AudioInv, WaySound, OnTheWay
  <2> QED
    BY <1>1, <1>9, <1>10, <1>13, <2>1, <2>2, <2>4, <2>5, <2>7 DEF S
<1> QED
  BY <1>12, <1>13

(* A remainder is less than the divisor.                                   *)
LEMMA Remainder ==
  ASSUME NEW a \in Nat, NEW b \in Nat \ {0}
  PROVE  a % b \in 0..b - 1
BY SMT

(* The session's count of buffered frames: flex1500_network_tx_record_data *)
(* adds them up to the prebuffer's size.                                   *)
LEMMA RecordedCounts ==
  ASSUME NEW s \in Sessions,
         NEW n \in Nat
  PROVE  /\ Recorded(s, n) \in Sessions
         /\ Recorded(s, n).keyed = s.keyed
         /\ Recorded(s, n).connected = s.connected
         /\ Recorded(s, n).reserved = s.reserved
         /\ s.connected /\ Recorded(s, n).buffered < Prebuffer =>
              Recorded(s, n).buffered = s.buffered + n
<1>1. s.buffered \in 0..Prebuffer /\ s.buffered + n \in Nat
  BY Sizes DEF Sessions
<1>2. CASE ~s.connected
  BY <1>2 DEF Recorded
<1>3. CASE s.connected
  <2> DEFINE b == IF s.buffered + n < Prebuffer THEN s.buffered + n ELSE Prebuffer
  <2>1. Recorded(s, n) = [s EXCEPT !.buffered = b]
    BY <1>3 DEF Recorded
  <2>2. b \in 0..Prebuffer /\ (b < Prebuffer => b = s.buffered + n)
    BY <1>1, Sizes
  <2> HIDE DEF b
  <2> QED
    BY <2>1, <2>2 DEF Sessions
<1> QED
  BY <1>2, <1>3

(* A read of the connection.  receive_limit leaves room for every frame it *)
(* completes: in the queue when keyed, in the prebuffer before.            *)
LEMMA ReadStreamKeeps ==
  ASSUME AudioInv, NEW bytes \in 1..FrameBytes * (Capacity + Prebuffer),
         ReadStream(bytes)
  PROVE  AudioInv'
<1> DEFINE total == tail + bytes
           room == IF net.keyed THEN Available ELSE Prebuffer - net.buffered
           n == total \div FrameBytes
<1>1. /\ Free /\ client /\ bytes <= ReadLimit /\ Deliver(n)
      /\ tail' = total % FrameBytes
      /\ read' = (read + bytes) % FrameBytes
      /\ net' = IF net.reserved THEN Recorded(net, n) ELSE net
      /\ lost' = \/ lost
                 \/ /\ net.reserved
                    /\ Len(queue' \o prebuf') < Len(queue \o prebuf) + n
      /\ UNCHANGED <<client, tx, slots, report, aired, cut>>
  BY DEF ReadStream
<1>2. /\ net \in Sessions
      /\ tail \in Nat /\ read \in Nat
      /\ queue \in Seq(0..MaxFrames) /\ prebuf \in Seq(1..MaxFrames)
      /\ Len(queue) \in Nat /\ Len(queue) <= Capacity /\ Len(prebuf) \in Nat
  BY Sizes, LenProperties DEF AudioInv, TypeOK, Sessions
<1>3. bytes \in Nat /\ bytes > 0 /\ total \in Nat /\ total > 0 /\ read + bytes \in Nat
  BY <1>2
<1>4. room \in Nat
  BY <1>2, Sizes DEF Available, Sessions
<1>5. total <= FrameBytes * room
  <2>1. ReadLimit = FrameBytes * room - tail
    BY DEF ReadLimit
  <2> HIDE DEF room
  <2>2. FrameBytes * room \in Nat
    BY <1>4, Sizes
  <2> QED
    BY <1>1, <1>2, <1>3, <2>1, <2>2
<1> HIDE DEF total, room
<1>6. n \in Nat /\ n <= room
  <2>1. room \in Int /\ FrameBytes \in Nat \ {0}
    BY <1>4, Sizes
  <2> QED
    BY <1>3, <1>5, <2>1, WholeFrames, Zenon
<1>7. tail' \in 0..FrameBytes - 1 /\ read' \in 0..FrameBytes - 1
  BY <1>1, <1>3, Sizes, Remainder
<1>8. room > 0
  <2>1. room = 0 => FrameBytes * room = 0
    BY <1>4, Sizes
  <2> QED
    BY <1>3, <1>4, <1>5, <2>1
<1> HIDE DEF n
<1>9. /\ made' \in 0..MaxFrames
      /\ prebuf' \in Seq(1..MaxFrames) /\ Len(prebuf') <= PrebufferRoom
      /\ queue' \in Seq(0..MaxFrames) /\ Len(queue') <= Capacity
      /\ Fresh(prebuf)' /\ WaySound' /\ Heard'
      /\ IF net.keyed
         THEN /\ prebuf' = prebuf
              /\ n <= Available => Len(queue') = Len(queue) + n
         ELSE /\ queue' = queue /\ Len(prebuf') <= Len(prebuf) + n
              /\ n <= PrebufferRoom - Len(prebuf) =>
                   Len(prebuf') = Len(prebuf) + n
  BY <1>1, <1>6, DeliverKeeps
<1>10. /\ net' \in Sessions
       /\ net'.keyed = net.keyed /\ net'.connected = net.connected
       /\ net'.reserved = net.reserved
       /\ (/\ net.reserved /\ net.connected
           /\ net'.buffered < Prebuffer) => net'.buffered = net.buffered + n
  BY <1>1, <1>2, <1>6, RecordedCounts
<1>11. PrebufferCounted'
  <2> SUFFICES ASSUME client, net.reserved
               PROVE  /\ net.connected
                      /\ (~net.keyed /\ net'.buffered < Prebuffer)
                           => Len(prebuf') <= net'.buffered
    BY <1>1, <1>10 DEF PrebufferCounted
  <2>1. net.connected
    BY DEF AudioInv, PrebufferCounted
  <2>2. ASSUME ~net.keyed, net'.buffered < Prebuffer
        PROVE  Len(prebuf') <= net'.buffered
    <3>1. net'.buffered = net.buffered + n /\ net.buffered \in Nat
      BY <1>2, <1>10, <2>1, <2>2 DEF Sessions
    <3>2. net.buffered < Prebuffer
      BY <1>6, <2>2, <3>1, Sizes
    <3>3. Len(prebuf) <= net.buffered
      BY <2>2, <3>2 DEF AudioInv, PrebufferCounted
    <3>4. Len(prebuf') <= Len(prebuf) + n /\ Len(prebuf') \in Nat
      BY <1>9, <2>2, LenProperties
    <3> QED
      BY <1>2, <1>6, <3>1, <3>3, <3>4
  <2> QED
    BY <2>1, <2>2
<1>12. net.reserved => Len(queue') + Len(prebuf') = Len(queue) + Len(prebuf) + n
  <2> SUFFICES ASSUME net.reserved
               PROVE  Len(queue') + Len(prebuf') = Len(queue) + Len(prebuf) + n
    OBVIOUS
  <2>1. CASE net.keyed
    <3>1. prebuf' = prebuf /\ Len(queue') = Len(queue) + n
      BY <1>6, <1>9, <2>1 DEF room
    <3> QED
      BY <1>2, <1>6, <3>1
  <2>2. CASE ~net.keyed
    <3>1. room = Prebuffer - net.buffered /\ net.buffered \in Nat
      BY <1>2, <2>2 DEF room, Sessions
    <3>2. net.buffered < Prebuffer
      BY <1>8, <3>1, Sizes
    <3>3. Len(prebuf) <= net.buffered
      BY <1>1, <2>2, <3>2 DEF AudioInv, PrebufferCounted
    <3>4. n <= PrebufferRoom - Len(prebuf)
      BY <1>2, <1>6, <3>1, <3>3, Sizes
    <3>5. queue' = queue /\ Len(prebuf') = Len(prebuf) + n
      BY <1>9, <2>2, <3>4
    <3> QED
      BY <1>2, <1>6, <3>5
  <2> QED
    BY <2>1, <2>2
<1>13. NoFrameLost'
  <2>1. /\ prebuf \in Seq(0..MaxFrames) /\ prebuf' \in Seq(0..MaxFrames)
    <3>1. 1..MaxFrames \subseteq 0..MaxFrames
      BY Sizes
    <3> QED
      BY <1>2, <1>9, <3>1, InLarger, Zenon
  <2>2. /\ Len(queue \o prebuf) = Len(queue) + Len(prebuf)
        /\ Len(queue' \o prebuf') = Len(queue') + Len(prebuf')
        /\ Len(queue') \in Nat /\ Len(prebuf') \in Nat
    BY <1>2, <1>9, <2>1, ConcatProperties, LenProperties
  <2>3. net.reserved => ~(Len(queue' \o prebuf') < Len(queue \o prebuf) + n)
    <3>1. net.reserved =>
            Len(queue' \o prebuf') = (Len(queue) + Len(prebuf)) + n
      BY <1>12, <2>2
    <3>2. (Len(queue) + Len(prebuf)) + n \in Nat
      BY <1>2, <1>6
    <3> QED
      BY <2>2, <3>1, <3>2
  <2>4. ~lost
    BY DEF AudioInv, NoFrameLost
  <2> QED
    BY <1>1, <2>3, <2>4, Zenon DEF NoFrameLost
<1>14. TypeOK'
  <2>1. lost' \in BOOLEAN
    <3> DEFINE short == Len(queue' \o prebuf') < Len(queue \o prebuf) + n
    <3>1. lost' = (lost \/ (net.reserved /\ short))
      BY <1>1, Zenon
    <3> HIDE DEF short
    <3> QED
      BY <3>1, Zenon
  <2> QED
    BY <1>1, <1>7, <1>9, <1>10, <2>1 DEF AudioInv, TypeOK, Sessions
<1>15. PhaseSound' /\ DrainBounded'
  BY <1>1 DEF AudioInv, PhaseSound, DrainBounded, Free
<1>16. KeySound'
  <2>1. net.keyed => prebuf' = <<>>
    BY <1>9 DEF AudioInv, KeySound
  <2>2. /\ tx.phase # "drain"
        /\ tx.phase = "on" /\ tx.source = "network" => net.keyed
    BY <1>1 DEF AudioInv, KeySound, Free
  <2> QED
    BY <1>1, <1>10, <2>1, <2>2 DEF KeySound
<1> QED
  BY <1>9, <1>11, <1>13, <1>14, <1>15, <1>16 DEF AudioInv

(* POST /v1/tx/audio.                                                      *)
LEMMA PostAudioKeeps ==
  ASSUME AudioInv, PostAudio
  PROVE  AudioInv'
<1> DEFINE count == IF net.connected THEN net.buffered ELSE 0
           attached == [net EXCEPT !.connected = TRUE, !.buffered = count]
<1>1. /\ Free /\ net.reserved /\ Deliver(1) /\ net' = Recorded(attached, 1)
      /\ UNCHANGED <<client, tail, read, lost, tx, slots, report, aired, cut>>
  BY DEF PostAudio
<1>2. /\ net \in Sessions
      /\ Len(prebuf) \in Nat
  BY LenProperties DEF AudioInv, TypeOK, Sessions
<1>3. /\ attached \in Sessions
      /\ attached.connected /\ attached.keyed = net.keyed
      /\ attached.reserved = net.reserved
      /\ net.connected => attached.buffered = net.buffered
  <2>1. count \in 0..Prebuffer /\ (net.connected => count = net.buffered)
    BY <1>2, Sizes DEF Sessions
  <2> HIDE DEF count
  <2> QED
    BY <1>2, <2>1 DEF Sessions
<1> HIDE DEF attached
<1>4. /\ net' \in Sessions
      /\ net'.keyed = net.keyed /\ net'.connected
      /\ net'.buffered < Prebuffer => net'.buffered = attached.buffered + 1
  <2>1. 1 \in Nat
    OBVIOUS
  <2> QED
    BY <1>1, <1>3, <2>1, RecordedCounts
<1>5. /\ made' \in 0..MaxFrames
      /\ prebuf' \in Seq(1..MaxFrames) /\ Len(prebuf') <= PrebufferRoom
      /\ queue' \in Seq(0..MaxFrames) /\ Len(queue') <= Capacity
      /\ Fresh(prebuf)' /\ WaySound' /\ Heard'
      /\ net.keyed => prebuf' = prebuf
      /\ ~net.keyed => Len(prebuf') <= Len(prebuf) + 1
  <2>1. 1 \in Nat
    OBVIOUS
  <2> QED
    BY <1>1, <2>1, DeliverKeeps
<1>6. PrebufferCounted'
  <2> SUFFICES ASSUME client, ~net.keyed, net'.buffered < Prebuffer
               PROVE  Len(prebuf') <= net'.buffered
    BY <1>1, <1>4 DEF PrebufferCounted
  <2>1. net.connected
    BY <1>1 DEF AudioInv, PrebufferCounted
  <2>2. net'.buffered = net.buffered + 1 /\ net.buffered \in Nat
    BY <1>2, <1>3, <1>4, <2>1 DEF Sessions
  <2>3. net.buffered < Prebuffer
    BY <2>2, Sizes
  <2>4. Len(prebuf) <= net.buffered
    BY <1>1, <2>3 DEF AudioInv, PrebufferCounted
  <2>5. Len(prebuf') <= Len(prebuf) + 1 /\ Len(prebuf') \in Nat
    BY <1>5, LenProperties
  <2> QED
    BY <1>2, <2>2, <2>4, <2>5
<1>7. TypeOK'
  BY <1>1, <1>4, <1>5 DEF AudioInv, TypeOK, Sessions
<1>8. PhaseSound' /\ DrainBounded' /\ NoFrameLost'
  BY <1>1 DEF AudioInv, PhaseSound, DrainBounded, NoFrameLost, Free
<1>9. KeySound'
  <2>1. net.keyed => prebuf' = <<>>
    BY <1>5 DEF AudioInv, KeySound
  <2>2. /\ tx.phase # "drain"
        /\ tx.phase = "on" /\ tx.source = "network" => net.keyed
    BY <1>1 DEF AudioInv, KeySound, Free
  <2> QED
    BY <1>1, <1>4, <2>1, <2>2 DEF KeySound
<1> QED
  BY <1>5, <1>6, <1>7, <1>8, <1>9 DEF AudioInv

-----------------------------------------------------------------------------
(* What the loop may do to the session and the connection while the        *)
(* transmitter goes on as it is.                                           *)
LEMMA InputKeeps ==
  ASSUME AudioInv, UNCHANGED <<made, lost, output>>,
         prebuf' = prebuf \/ prebuf' = <<>>,
         net' \in Sessions,
         client' \in BOOLEAN,
         tail' \in 0..FrameBytes - 1, read' \in 0..FrameBytes - 1,
         KeySound', PrebufferCounted'
  PROVE  AudioInv'
<1>1. UNCHANGED <<tx, queue, slots, report, aired, cut>>
  BY DEF output
<1>2. prebuf' \in Seq(1..MaxFrames) /\ Len(prebuf') <= PrebufferRoom
  <2>1. CASE prebuf' = prebuf
    BY <2>1 DEF AudioInv, TypeOK
  <2>2. CASE prebuf' = <<>>
    BY <2>2, EmptySeq, Sizes
  <2> QED
    BY <2>1, <2>2
<1>3. Fresh(prebuf)'
  BY <1>1, WindowEmpty DEF AudioInv, Fresh
<1>4. TypeOK'
  BY <1>1, <1>2 DEF AudioInv, TypeOK, Sessions
<1>5. PhaseSound' /\ Heard' /\ NoFrameLost' /\ DrainBounded'
  BY <1>1 DEF AudioInv, PhaseSound, Heard, NoFrameLost, DrainBounded, Pending
<1>6. WaySound'
  BY <1>1 DEF AudioInv, WaySound, OnTheWay, Fresh
<1> QED
  BY <1>3, <1>4, <1>5, <1>6 DEF AudioInv

(* A transmission that ends leaves the transmitter idle and nothing in the *)
(* transfers; what is kept in the prebuffer was not cut off by it.         *)
LEMMA StopKeeps ==
  ASSUME AudioInv, UNCHANGED <<made, lost, queue, aired>>,
         tx' = Idle, slots' = <<>>,
         report' \in [{"requested", "drained", "discarded"} -> Nat],
         \/ prebuf' = <<>> /\ cut' \in {cut, made}
         \/ prebuf' = prebuf /\ cut' = cut,
         net' \in Sessions,
         net'.keyed => prebuf' = <<>>,
         client' \in BOOLEAN,
         tail' \in 0..FrameBytes - 1, read' \in 0..FrameBytes - 1,
         PrebufferCounted'
  PROVE  AudioInv'
<1>1. /\ tx'.phase = "idle" /\ tx'.source = "none"
      /\ tx' \in [phase : {"idle", "prepare", "on", "drain"},
                  source : {"none", "network", "mic"},
                  accepting : BOOLEAN, alive : BOOLEAN]
  BY DEF Idle
<1>2. prebuf' \in Seq(1..MaxFrames) /\ Len(prebuf') <= PrebufferRoom
  <2>1. CASE prebuf' = prebuf
    BY <2>1 DEF AudioInv, TypeOK
  <2>2. CASE prebuf' = <<>>
    BY <2>2, EmptySeq, Sizes
  <2> QED
    BY <2>1, <2>2
<1>3. Fresh(prebuf)'
  BY WindowEmpty DEF AudioInv, Fresh
<1>4. slots' \in Seq(Seq(0..MaxFrames)) /\ Len(slots') <= Transfers
  BY EmptySeq, Sizes
<1>5. {made', aired', cut'} \subseteq 0..MaxFrames /\ Heard'
  BY DEF AudioInv, TypeOK, Heard
<1>6. TypeOK'
  BY <1>1, <1>2, <1>4, <1>5 DEF AudioInv, TypeOK, Sessions
<1>7. PhaseSound' /\ NoFrameLost' /\ DrainBounded' /\ WaySound' /\ KeySound'
  BY <1>1 DEF AudioInv, PhaseSound, NoFrameLost, DrainBounded, WaySound, KeySound
<1> QED
  BY <1>3, <1>5, <1>6, <1>7 DEF AudioInv

(* What the loop makes of a session.                                       *)
LEMMA SessionValues ==
  /\ NoSession \in Sessions
  /\ \A s \in Sessions, b \in BOOLEAN :
       /\ [s EXCEPT !.keyed = b] \in Sessions
       /\ [s EXCEPT !.keyed = b, !.buffered = 0] \in Sessions
       /\ [s EXCEPT !.connected = b, !.buffered = 0] \in Sessions
       /\ [s EXCEPT !.connected = b, !.buffered = 0, !.keyed = FALSE] \in Sessions
  /\ [NoSession EXCEPT !.reserved = TRUE] \in Sessions
<1>1. 0 \in 0..Prebuffer
  BY Sizes
<1> QED
  BY <1>1 DEF NoSession, Sessions

(* The session and its connection come and go.                             *)
LEMMA SessionKeeps ==
  ASSUME AudioInv, Acquire \/ Connect \/ CloseOrphan \/ Reconcile
  PROVE  AudioInv'
<1>1. /\ Free /\ UNCHANGED <<made, lost, output>>
      /\ prebuf' = prebuf \/ prebuf' = <<>>
  BY DEF Acquire, Connect, CloseOrphan, Reconcile, Free
<1>2. UNCHANGED <<tx, slots>>
  BY <1>1 DEF output
<1>3. net \in Sessions
  BY DEF AudioInv, TypeOK, Sessions
<1>4. net' \in Sessions
  BY <1>3, SessionValues DEF Acquire, Connect, CloseOrphan, Reconcile
<1>5. client' \in BOOLEAN
  BY Zenon DEF AudioInv, TypeOK, Acquire, Connect, CloseOrphan, Reconcile
<1>6. tail' \in 0..FrameBytes - 1 /\ read' \in 0..FrameBytes - 1
  <2>1. 0 \in 0..FrameBytes - 1
    BY Sizes
  <2> QED
    BY <2>1, Zenon DEF AudioInv, TypeOK, Acquire, Connect, CloseOrphan, Reconcile
<1>7. /\ tx.phase \in {"idle", "on"}
      /\ tx.phase = "on" /\ tx.source = "network" => net.keyed
      /\ tx.phase = "idle" => tx.source # "network"
      /\ net.keyed => prebuf = <<>>
  BY <1>1 DEF Free, AudioInv, KeySound, PhaseSound
<1>8. KeySound'
  <2>1. CASE Acquire
    BY <1>2, <1>7, <2>1 DEF Acquire, KeySound, NoSession
  <2>2. CASE Connect
    BY <1>2, <1>3, <1>7, <2>2 DEF Connect, KeySound, Sessions
  <2>3. CASE CloseOrphan
    BY <1>2, <1>7, <2>3 DEF CloseOrphan, KeySound
  <2>4. CASE Reconcile
    BY <1>2, <1>7, <2>4 DEF Reconcile, KeySound, NoSession
  <2> QED
    BY <2>1, <2>2, <2>3, <2>4
<1>9. PrebufferCounted'
  <2>1. CASE Connect
    <3>1. /\ net'.connected /\ net'.buffered = 0 /\ Len(prebuf') = 0
      BY <1>3, <2>1 DEF Connect, Sessions
    <3> QED
      BY <3>1 DEF PrebufferCounted
  <2>2. CASE Acquire \/ CloseOrphan \/ Reconcile
    BY <2>2 DEF Acquire, CloseOrphan, Reconcile, PrebufferCounted
  <2> QED
    BY <2>1, <2>2
<1> QED
  BY <1>1, <1>4, <1>5, <1>6, <1>8, <1>9, InputKeeps

(* The ways a session ends: its transmission is stopped first, if it has   *)
(* one.                                                                    *)
LEMMA SessionEndKeeps ==
  ASSUME AudioInv, Hangup \/ Release \/ Expire \/ StationExpires
  PROVE  AudioInv'
<1>1. /\ Free /\ StopIfKeyed
      /\ UNCHANGED <<made, read, lost, queue, report, aired, played>>
      /\ prebuf' = prebuf \/ prebuf' = <<>>
  BY DEF Hangup, Release, Expire, StationExpires
<1>2. net \in Sessions
  BY DEF AudioInv, TypeOK, Sessions
<1>3. net' \in Sessions
  BY <1>2, SessionValues DEF Hangup, Release, Expire, StationExpires
<1>4. client' \in BOOLEAN
  BY Zenon DEF AudioInv, TypeOK, Hangup, Release, Expire, StationExpires
<1>5. tail' \in 0..FrameBytes - 1 /\ read' \in 0..FrameBytes - 1
  <2>1. 0 \in 0..FrameBytes - 1
    BY Sizes
  <2> QED
    BY <1>1, <2>1, Zenon DEF AudioInv, TypeOK, Hangup, Release, Expire, StationExpires
<1>6. PrebufferCounted'
  BY DEF Hangup, Release, Expire, StationExpires, NoSession, PrebufferCounted
<1>7. net'.keyed => prebuf' = <<>>
  BY <1>2 DEF Hangup, Release, Expire, StationExpires, NoSession, Sessions
<1>8. CASE net.keyed /\ tx.source = "network"
  <2>1. Stopped
    BY <1>1, <1>8 DEF StopIfKeyed
  <2>2. tx' = Idle /\ slots' = <<>> /\ cut' = made
    BY <1>8, <2>1 DEF Stopped
  <2>3. prebuf' = <<>>
    BY <1>1, <1>8 DEF AudioInv, KeySound
  <2>4. report' \in [{"requested", "drained", "discarded"} -> Nat]
    BY <1>1 DEF AudioInv, TypeOK
  <2> QED
    BY <1>1, <1>3, <1>4, <1>5, <1>6, <2>2, <2>3, <2>4, StopKeeps
<1>9. CASE ~(net.keyed /\ tx.source = "network")
  <2>1. UNCHANGED <<tx, slots, cut>>
    BY <1>1, <1>9 DEF StopIfKeyed
  <2>2. tx.source # "network"
    BY <1>1, <1>9 DEF AudioInv, Free, KeySound, PhaseSound
  <2>3. KeySound'
    BY <1>7, <2>1, <2>2 DEF KeySound
  <2>4. UNCHANGED output
    BY <1>1, <2>1 DEF output
  <2> QED
    BY <1>1, <1>3, <1>4, <1>5, <1>6, <2>3, <2>4, InputKeeps
<1> QED
  BY <1>8, <1>9

(* The other ends of a transmission: a failed start, the end of a drain,   *)
(* the watchdog and a lost device.                                         *)
LEMMA OtherStopKeeps ==
  ASSUME AudioInv,
         \/ StartFails \/ StopNow \/ Recover
         \/ \E deadline \in BOOLEAN : DrainEnds(deadline)
  PROVE  AudioInv'
<1>1. /\ tx' = Idle /\ slots' = <<>>
      /\ UNCHANGED <<made, lost, queue, aired, tail, read>>
      /\ cut' = cut \/ (cut' = made /\ tx.source = "network")
  BY DEF StartFails, StopNow, Recover, DrainEnds, Stopped, input
<1>2. /\ net \in Sessions /\ client \in BOOLEAN
      /\ tail' \in 0..FrameBytes - 1 /\ read' \in 0..FrameBytes - 1
      /\ report \in [{"requested", "drained", "discarded"} -> Nat]
  BY <1>1 DEF AudioInv, TypeOK, Sessions
<1>3. PrebufferCounted /\ (net.keyed => prebuf = <<>>)
  BY DEF AudioInv, KeySound
<1>4. CASE StartFails
  <2>1. UNCHANGED <<net, client, prebuf, report, cut>>
    BY <1>4 DEF StartFails, input
  <2>2. PrebufferCounted'
    BY <1>3, <2>1 DEF PrebufferCounted
  <2> QED
    BY <1>1, <1>2, <1>3, <2>1, <2>2, StopKeeps
<1>5. CASE Recover
  <2>1. net' = NoSession /\ client' = FALSE /\ prebuf' = <<>> /\ report' = report
    BY <1>5 DEF Recover
  <2>2. PrebufferCounted' /\ client' \in BOOLEAN
    BY <2>1 DEF PrebufferCounted
  <2>3. net' \in Sessions
    BY <2>1, SessionValues
  <2> QED
    BY <1>1, <1>2, <2>1, <2>2, <2>3, StopKeeps
<1>6. CASE StopNow
  <2>1. UNCHANGED <<net, client, prebuf, report>> /\ tx.phase = "on"
    BY <1>6 DEF StopNow, input
  <2>2. PrebufferCounted'
    BY <1>3, <2>1 DEF PrebufferCounted
  <2>3. tx.source = "network" => prebuf = <<>>
    BY <2>1 DEF AudioInv, KeySound
  <2> QED
    BY <1>1, <1>2, <1>3, <2>1, <2>2, <2>3, StopKeeps
<1>7. CASE \E deadline \in BOOLEAN : DrainEnds(deadline)
  <2>1. /\ UNCHANGED <<net, client, prebuf>> /\ tx.phase = "drain"
        /\ report' = [report EXCEPT !.drained = report.requested - Pending,
                                    !.discarded = Pending]
    BY <1>7 DEF DrainEnds, input
  <2>2. PrebufferCounted'
    BY <1>3, <2>1 DEF PrebufferCounted
  <2>3. tx.source = "network" => prebuf = <<>>
    BY <2>1 DEF AudioInv, KeySound
  <2>4. Pending \in Nat /\ Pending <= report.requested
    BY <2>1, Ways DEF AudioInv, DrainBounded
  <2>5. report.requested - Pending \in Nat
    BY <1>2, <2>4
  <2>6. report' \in [{"requested", "drained", "discarded"} -> Nat]
    BY <1>2, <2>1, <2>4, <2>5
  <2> QED
    BY <1>1, <1>2, <1>3, <2>1, <2>2, <2>3, <2>6, StopKeeps
<1> QED
  BY <1>4, <1>5, <1>6, <1>7

-----------------------------------------------------------------------------
(* A start: silent transfers, and a queue that holds nothing but the       *)
(* prebuffer of the network.                                               *)
LEMMA StartKeeps ==
  ASSUME AudioInv, PttStart \/ Press
  PROVE  AudioInv'
<1> DEFINE silent == [i \in 1..Transfers |-> <<>>]
<1>1. PICK source \in {"network", "mic"} : Start(source) /\
        \/ source = "network" /\ cut' = cut
        \/ /\ source = "mic" /\ Free
           /\ cut' = IF tx.source = "network" THEN made ELSE cut
  BY DEF PttStart, Press
<1> DEFINE first == IF source = "network" THEN prebuf ELSE <<>>
<1>2. /\ tx' = [phase |-> "prepare", source |-> source,
                accepting |-> source = "network", alive |-> TRUE]
      /\ queue' = AtMost(first, Capacity) /\ slots' = silent
      /\ UNCHANGED <<net, client, tail, prebuf, made, read, lost, report, aired>>
  BY <1>1 DEF Start, StartQueue, input
<1>3. source = "mic" /\ tx.source = "network" => prebuf = <<>>
  BY <1>1 DEF AudioInv, Free, PhaseSound, KeySound
<1>4. Fresh(prebuf)'
  BY <1>1, <1>2, <1>3, WindowEmpty DEF AudioInv, Fresh
<1>5. prebuf \in Seq(1..MaxFrames)
  BY DEF AudioInv, TypeOK
<1>6. first \in Seq(1..MaxFrames) /\ Capacity \in Nat
  BY <1>5, EmptySeq, Sizes
<1>7. /\ queue' \in Seq(1..MaxFrames) /\ Len(queue') <= Capacity
      /\ Len(queue') <= Len(first)
  BY <1>2, <1>6, AtMostTakes
<1>8. queue' \in Seq(0..MaxFrames)
  <2>1. 1..MaxFrames \subseteq 0..MaxFrames
    BY Sizes
  <2> QED
    BY <1>7, <2>1, InLarger, Zenon
<1>9. /\ silent \in Seq(Seq(0..MaxFrames)) /\ Len(silent) = Transfers
      /\ FlattenSeq(silent) = <<>>
  BY Sizes, FlattenSilence
<1> HIDE DEF silent
<1>10. OnTheWay' = queue'
  <2>1. OnTheWay' = <<>> \o queue'
    BY <1>2, <1>9 DEF OnTheWay
  <2> QED
    BY <1>8, <2>1, ConcatEmptySeq
<1>11. WaySound'
  <2>1. CASE source = "network"
    <3>1. cut' = cut /\ aired' = aired /\ made' = made /\ tx'.source = "network"
      BY <1>1, <1>2, <2>1
    <3>2. queue' = AtMost(prebuf, Capacity)
      BY <1>2, <2>1
    <3>3. Window(prebuf, aired, made) /\ Window(prebuf, cut, made)
      BY DEF AudioInv, Fresh
    <3>4. Window(queue', aired, made) /\ Window(queue', cut, made)
      BY <1>5, <1>6, <3>2, <3>3, WindowFirst
    <3> QED
      BY <1>10, <3>1, <3>4 DEF WaySound, Fresh
  <2>2. CASE source = "mic"
    <3>1. first = <<>> /\ tx'.source = "mic"
      BY <1>2, <2>2
    <3>2. Len(queue') = 0
      BY <1>7, <3>1, LenProperties
    <3>3. queue' = <<>>
      BY <1>7, <3>2, EmptySeq
    <3>4. Spoken(<<>>)
      BY DEF Spoken
    <3> QED
      BY <1>10, <3>1, <3>3, <3>4 DEF WaySound
  <2> QED
    BY <2>1, <2>2
<1>12. {made', aired', cut'} \subseteq 0..MaxFrames /\ Heard'
  BY <1>1, <1>2 DEF AudioInv, TypeOK, Heard
<1>13. TypeOK'
  <2>1. tx' \in [phase : {"idle", "prepare", "on", "drain"},
                 source : {"none", "network", "mic"},
                 accepting : BOOLEAN, alive : BOOLEAN]
    BY <1>2
  <2>2. slots' \in Seq(Seq(0..MaxFrames)) /\ Len(slots') <= Transfers
    BY <1>2, <1>9, Sizes
  <2> QED
    BY <1>2, <1>7, <1>8, <1>12, <2>1, <2>2 DEF AudioInv, TypeOK
<1>14. PhaseSound' /\ DrainBounded'
  BY <1>2 DEF PhaseSound, DrainBounded
<1>15. KeySound' /\ PrebufferCounted' /\ NoFrameLost'
  BY <1>2 DEF AudioInv, KeySound, PrebufferCounted, NoFrameLost
<1> QED
  BY <1>4, <1>11, <1>12, <1>13, <1>14, <1>15 DEF AudioInv

(* The end of a successful start.                                          *)
LEMMA StartSucceedsKeeps ==
  ASSUME AudioInv, StartSucceeds
  PROVE  AudioInv'
<1>1. /\ tx.phase = "prepare" /\ tx' = [tx EXCEPT !.phase = "on"]
      /\ net' = IF tx.source = "network" THEN [net EXCEPT !.keyed = TRUE] ELSE net
      /\ prebuf' = IF tx.source = "network" THEN <<>> ELSE prebuf
      /\ UNCHANGED <<client, tail, made, read, lost, queue, slots, report,
                     aired, cut>>
  BY DEF StartSucceeds
<1>2. /\ net \in Sessions
      /\ tx \in [phase : {"idle", "prepare", "on", "drain"},
                 source : {"none", "network", "mic"},
                 accepting : BOOLEAN, alive : BOOLEAN]
  BY DEF AudioInv, TypeOK, Sessions
<1>3. /\ tx'.phase = "on" /\ tx'.source = tx.source /\ tx.source # "none"
      /\ tx' \in [phase : {"idle", "prepare", "on", "drain"},
                  source : {"none", "network", "mic"},
                  accepting : BOOLEAN, alive : BOOLEAN]
  BY <1>1, <1>2 DEF AudioInv, PhaseSound
<1>4. /\ net' \in Sessions /\ net'.reserved = net.reserved
      /\ net'.connected = net.connected /\ net'.buffered = net.buffered
      /\ net'.keyed = (net.keyed \/ tx.source = "network")
  <2>1. CASE tx.source = "network"
    BY <1>1, <1>2, <2>1 DEF Sessions
  <2>2. CASE tx.source # "network"
    BY <1>1, <1>2, <2>2 DEF Sessions
  <2> QED
    BY <2>1, <2>2
<1>5. prebuf' \in Seq(1..MaxFrames) /\ Len(prebuf') <= PrebufferRoom
  <2>1. CASE tx.source = "network"
    BY <1>1, <2>1, EmptySeq, Sizes
  <2>2. CASE tx.source # "network"
    BY <1>1, <2>2 DEF AudioInv, TypeOK
  <2> QED
    BY <2>1, <2>2
<1>6. TypeOK'
  BY <1>1, <1>3, <1>4, <1>5 DEF AudioInv, TypeOK, Sessions
<1>7. KeySound'
  BY <1>1, <1>3, <1>4 DEF AudioInv, KeySound
<1>8. PrebufferCounted'
  BY <1>1, <1>4 DEF AudioInv, PrebufferCounted
<1>9. Fresh(prebuf)' /\ Heard' /\ NoFrameLost'
  BY <1>1, WindowEmpty DEF AudioInv, Fresh, Heard, NoFrameLost
<1>10. WaySound' /\ PhaseSound' /\ DrainBounded'
  BY <1>1, <1>3 DEF AudioInv, WaySound, OnTheWay, Fresh, PhaseSound, DrainBounded
<1> QED
  BY <1>6, <1>7, <1>8, <1>9, <1>10 DEF AudioInv

(* The microphone is captured once the key has been sent.                  *)
LEMMA CaptureKeeps ==
  ASSUME AudioInv, CaptureBegins
  PROVE  AudioInv'
<1>1. /\ tx' = [tx EXCEPT !.accepting = TRUE] /\ tx.phase = "prepare"
      /\ UNCHANGED <<net, client, tail, prebuf, made, read, lost, queue, slots,
                     report, aired, cut>>
  BY DEF CaptureBegins, input
<1>2. /\ tx' \in [phase : {"idle", "prepare", "on", "drain"},
                  source : {"none", "network", "mic"},
                  accepting : BOOLEAN, alive : BOOLEAN]
      /\ tx'.phase = tx.phase /\ tx'.source = tx.source
  BY <1>1 DEF AudioInv, TypeOK
<1>3. TypeOK'
  BY <1>1, <1>2 DEF AudioInv, TypeOK
<1>4. PhaseSound' /\ KeySound' /\ PrebufferCounted' /\ NoFrameLost' /\ Heard'
  BY <1>1, <1>2
  DEF AudioInv, PhaseSound, KeySound, PrebufferCounted, NoFrameLost, Heard
<1>5. WaySound' /\ DrainBounded' /\ Fresh(prebuf)'
  BY <1>1, <1>2 DEF AudioInv, WaySound, OnTheWay, Fresh, DrainBounded
<1> QED
  BY <1>3, <1>4, <1>5 DEF AudioInv

-----------------------------------------------------------------------------
(* What the radio and the microphone do changes only what is on its way    *)
(* and what has been heard.                                                *)
LEMMA RadioKeeps ==
  ASSUME AudioInv, UNCHANGED <<input, report, cut>>,
         tx' = tx \/ tx' = [tx EXCEPT !.alive = FALSE],
         queue' \in Seq(0..MaxFrames), Len(queue') <= Capacity,
         slots' \in Seq(Seq(0..MaxFrames)), Len(slots') <= Transfers,
         tx.phase # "idle", aired' \in 0..made, aired' = aired \/ prebuf = <<>>,
         WaySound', DrainBounded'
  PROVE  AudioInv'
<1>1. UNCHANGED <<net, client, tail, prebuf, made, read, lost>>
  BY DEF input
<1>2. /\ tx' \in [phase : {"idle", "prepare", "on", "drain"},
                  source : {"none", "network", "mic"},
                  accepting : BOOLEAN, alive : BOOLEAN]
      /\ tx'.phase = tx.phase /\ tx'.source = tx.source
      /\ tx'.accepting = tx.accepting
  BY DEF AudioInv, TypeOK
<1>3. {made', aired', cut'} \subseteq 0..MaxFrames
  <2>1. made \in 0..MaxFrames /\ cut \in 0..MaxFrames
    BY DEF AudioInv, TypeOK
  <2>2. aired' \in 0..MaxFrames
    BY <2>1, Sizes
  <2> QED
    BY <1>1, <2>1, <2>2
<1>4. TypeOK'
  BY <1>1, <1>2, <1>3 DEF AudioInv, TypeOK
<1>5. PhaseSound' /\ KeySound' /\ PrebufferCounted' /\ NoFrameLost'
  BY <1>1, <1>2
     DEF AudioInv, PhaseSound, KeySound, PrebufferCounted, NoFrameLost
<1>6. Heard'
  BY <1>1 DEF AudioInv, Heard
<1>7. Fresh(prebuf)'
  BY <1>1, WindowEmpty DEF AudioInv, Fresh
<1> QED
  BY <1>4, <1>5, <1>6, <1>7 DEF AudioInv

(* A packet of the microphone.                                             *)
LEMMA MicPacketKeeps ==
  ASSUME AudioInv, MicPacket
  PROVE  AudioInv'
<1> DEFINE kept == AtMost(<<Mic>>, Capacity - Len(queue))
<1>1. /\ tx.phase # "idle" /\ tx.source = "mic"
      /\ queue' = IF tx.accepting THEN queue \o kept ELSE queue
      /\ UNCHANGED <<input, tx, slots, report, aired, cut>>
  BY DEF MicPacket, Pushed, AudioInv, PhaseSound
<1>2. /\ queue \in Seq(0..MaxFrames) /\ Len(queue) \in Nat
      /\ Len(queue) <= Capacity
      /\ slots \in Seq(Seq(0..MaxFrames)) /\ Len(slots) <= Transfers
      /\ aired \in 0..made
  BY LenProperties DEF AudioInv, TypeOK, Heard
<1>3. CASE ~tx.accepting
  <2>1. queue' = queue /\ WaySound' /\ DrainBounded'
    BY <1>1, <1>3 DEF AudioInv, WaySound, OnTheWay, DrainBounded, Pending
  <2>2. slots' = slots /\ aired' = aired
    BY <1>1
  <2> QED
    BY <1>1, <1>2, <2>1, <2>2, RadioKeeps
<1>4. CASE tx.accepting
  <2>1. <<Mic>> \in Seq(0..MaxFrames) /\ <<Mic>> = [i \in 1..1 |-> Mic]
    BY Sizes DEF Mic
  <2>2. Capacity - Len(queue) \in Nat
    BY <1>2, Sizes
  <2>3. Len(<<Mic>>) = 1 /\ <<Mic>>[1] = Mic
    OBVIOUS
  <2>4. /\ kept \in Seq(0..MaxFrames) /\ Len(kept) <= Capacity - Len(queue)
        /\ Len(kept) \in Nat /\ Len(kept) <= 1
        /\ \A i \in 1..Len(kept) : kept[i] = Mic
    <3>1. /\ kept \in Seq(0..MaxFrames) /\ Len(kept) <= Capacity - Len(queue)
          /\ Len(kept) \in Nat /\ Len(kept) <= Len(<<Mic>>)
          /\ \A i \in 1..Len(kept) : kept[i] = <<Mic>>[i]
      BY <2>1, <2>2, AtMostTakes
    <3> HIDE DEF kept
    <3>2. \A i \in 1..Len(kept) : i = 1
      BY <2>3, <3>1
    <3> QED
      BY <2>3, <3>1, <3>2
  <2> HIDE DEF kept
  <2>5. queue' = queue \o kept /\ slots' = slots /\ aired' = aired
    BY <1>1, <1>4
  <2>6. /\ queue \o kept \in Seq(0..MaxFrames)
        /\ Len(queue \o kept) = Len(queue) + Len(kept)
    BY <1>2, <2>4, ConcatProperties
  <2>7. queue' \in Seq(0..MaxFrames) /\ Len(queue') <= Capacity
    BY <1>2, <2>4, <2>5, <2>6, Sizes
  <2>8. WaySound'
    <3>1. OnTheWay' = OnTheWay \o kept /\ OnTheWay \in Seq(0..MaxFrames)
      BY <2>4, <2>5, Ways, WayGrows DEF AudioInv
    <3>2. Spoken(OnTheWay)
      BY <1>1 DEF AudioInv, WaySound
    <3>3. Spoken(kept)
      BY <2>4, LenProperties DEF Spoken
    <3>4. Spoken(OnTheWay \o kept)
      BY <2>4, <3>1, <3>2, <3>3, SpokenJoin
    <3>5. tx'.source = "mic"
      BY <1>1
    <3> QED
      BY <3>1, <3>4, <3>5 DEF WaySound
  <2>9. tx.phase # "drain" /\ DrainBounded'
    BY <1>1, <1>4 DEF AudioInv, PhaseSound, DrainBounded
  <2> QED
    BY <1>1, <1>2, <2>5, <2>7, <2>8, <2>9, RadioKeeps
<1> QED
  BY <1>3, <1>4

(* What is left of the way once its first frames have gone: the frames     *)
(* heard are earlier than it.                                              *)
LEMMA WayGoes ==
  ASSUME AudioInv, tx.phase # "idle", NEW head \in Seq(0..MaxFrames),
         OnTheWay' \in Seq(0..MaxFrames), OnTheWay = head \o OnTheWay',
         UNCHANGED <<made, cut>>, tx'.source = tx.source,
         \/ aired' = aired
         \/ head # <<>> /\ aired' = Last(head)
  PROVE  /\ WaySound' /\ Len(OnTheWay') <= Len(OnTheWay)
         /\ tx.source = "mic" /\ head # <<>> => Last(head) = Mic
         /\ tx.source = "network" /\ head # <<>> =>
              Last(head) \in 1..made
<1>1. head \in Seq(Int) /\ OnTheWay' \in Seq(Int)
  BY Sizes, InLarger
<1>2. aired \in Nat /\ cut \in Nat /\ made \in Nat
  BY DEF AudioInv, TypeOK
<1>3. Len(OnTheWay') <= Len(OnTheWay)
  <2>1. /\ Len(head) \in Nat /\ Len(OnTheWay') \in Nat
        /\ Len(head \o OnTheWay') = Len(head) + Len(OnTheWay')
    BY <1>1, LenProperties, ConcatProperties
  <2> QED
    BY <2>1
<1>4. CASE tx.source = "mic"
  <2>1. Spoken(OnTheWay)
    BY <1>4 DEF AudioInv, WaySound
  <2>2. Spoken(head) /\ Spoken(OnTheWay')
    BY <2>1, SpokenJoin
  <2>3. head # <<>> => Len(head) \in DOMAIN head
    BY LenProperties, EmptySeq
  <2>4. head # <<>> => Last(head) = Mic
    BY <2>2, <2>3 DEF Spoken, Last
  <2>5. WaySound'
    BY <1>4, <2>2 DEF WaySound
  <2> QED
    BY <1>3, <1>4, <2>4, <2>5
<1>5. CASE tx.source = "network"
  <2> DEFINE way == OnTheWay'
  <2>1. Window(head \o way, aired, made) /\ Window(head \o way, cut, made)
    BY <1>5 DEF AudioInv, WaySound, Fresh
  <2>2. way \in Seq(Int)
    BY <1>1
  <2> HIDE DEF way
  <2>3. /\ Window(way, aired, made) /\ Window(way, cut, made)
        /\ head # <<>> => /\ aired < Last(head) /\ Last(head) <= made
                          /\ Window(way, Last(head), made)
    <3>1. aired \in Int /\ cut \in Int /\ made \in Int
      BY <1>2
    <3> QED
      BY <1>1, <2>1, <2>2, <3>1, WindowSplit, Zenon
  <2>4. Window(way, aired', made) /\ Window(way, cut, made)
    BY <2>3
  <2>5. WaySound'
    BY <1>5, <2>4 DEF WaySound, Fresh, way
  <2>6. head # <<>> => Last(head) \in Int
    <3>1. head # <<>> => Len(head) \in 1..Len(head)
      BY LenProperties, EmptySeq
    <3> QED
      BY <1>1, <3>1, ElementOfSeq DEF Last
  <2>7. head # <<>> => Last(head) \in 1..made
    BY <1>2, <2>3, <2>6
  <2> QED
    BY <1>3, <1>5, <2>5, <2>7
<1>6. CASE tx.source = "none"
  BY <1>6 DEF AudioInv, PhaseSound
<1> QED
  BY <1>4, <1>5, <1>6 DEF AudioInv, TypeOK

(* A completed transfer.                                                   *)
LEMMA CompleteKeeps ==
  ASSUME AudioInv, Complete
  PROVE  AudioInv'
<1> DEFINE head == Head(slots)
           heard == IF tx.phase = "prepare" THEN <<>> ELSE head
<1>1. /\ slots # <<>> /\ slots' = Append(Tail(slots), Rendered)
      /\ queue' = Unrendered
      /\ aired' = IF heard # <<>> /\ Last(heard) # Mic THEN Last(heard) ELSE aired
      /\ UNCHANGED <<input, tx, report, cut>>
  BY DEF Complete
<1>2. /\ TypeOK /\ made' = made /\ prebuf' = prebuf
      /\ tx.phase # "idle" /\ tx' = tx
  BY <1>1 DEF AudioInv, PhaseSound, input
<1>3. /\ head \in Seq(0..MaxFrames)
      /\ slots' \in Seq(Seq(0..MaxFrames)) /\ Len(slots') = Len(slots)
      /\ queue' \in Seq(0..MaxFrames) /\ Len(queue') <= Len(queue)
      /\ OnTheWay = head \o OnTheWay'
  BY <1>1, <1>2, WayMoves
<1>4. /\ Len(queue) <= Capacity /\ Len(slots) <= Transfers
      /\ Len(queue) \in Nat /\ Len(queue') \in Nat
  BY <1>2, <1>3, LenProperties DEF TypeOK
<1>5. FlattenSeq(slots') \in Seq(0..MaxFrames)
  BY <1>3, FlattenType
<1>6. /\ OnTheWay' \in Seq(0..MaxFrames)
      /\ Len(OnTheWay') = Pending' /\ Len(OnTheWay) = Pending
      /\ Pending' \in Nat /\ Pending \in Nat
  <2>1. /\ FlattenSeq(slots') \o queue' \in Seq(0..MaxFrames)
        /\ Len(FlattenSeq(slots') \o queue')
             = Len(FlattenSeq(slots')) + Len(queue')
        /\ Len(FlattenSeq(slots')) \in Nat
    BY <1>3, <1>5, ConcatProperties, LenProperties
  <2>2. Len(FlattenSeq(slots') \o queue') = Len(queue') + Len(FlattenSeq(slots'))
    BY <1>4, <2>1
  <2> QED
    BY <1>2, <1>4, <2>1, <2>2, Ways DEF OnTheWay, Pending
<1> HIDE DEF head
<1>7. aired' = aired \/ (head # <<>> /\ aired' = Last(head) /\ Last(head) # Mic
                         /\ tx.phase # "prepare")
  BY <1>1
<1>8. /\ WaySound' /\ Len(OnTheWay') <= Len(OnTheWay)
      /\ tx.source = "mic" /\ head # <<>> => Last(head) = Mic
      /\ tx.source = "network" /\ head # <<>> => Last(head) \in 1..made
  BY <1>1, <1>2, <1>3, <1>6, <1>7, WayGoes
<1>9. tx.source \in {"mic", "network"}
  BY <1>2 DEF AudioInv, PhaseSound, TypeOK
<1>10. aired' = aired \/ (prebuf = <<>> /\ aired' \in 1..made)
  <2>1. CASE aired' = aired
    BY <2>1
  <2>2. CASE aired' # aired
    <3>1. /\ head # <<>> /\ aired' = Last(head) /\ Last(head) # Mic
          /\ tx.phase # "prepare"
      BY <1>7, <2>2
    <3>2. tx.source = "network" /\ aired' \in 1..made
      BY <1>8, <1>9, <3>1
    <3>3. tx.phase \in {"on", "drain"}
      BY <1>2, <3>1 DEF TypeOK
    <3>4. prebuf = <<>>
      BY <3>2, <3>3 DEF AudioInv, KeySound
    <3> QED
      BY <3>2, <3>4
  <2> QED
    BY <2>1, <2>2
<1>11. aired' \in 0..made
  BY <1>10 DEF AudioInv, TypeOK, Heard
<1>12. DrainBounded'
  <2>1. tx.phase = "drain" => Pending <= report.requested
    BY DEF AudioInv, DrainBounded
  <2>2. report.requested \in Nat /\ report' = report
    BY <1>1, <1>2 DEF TypeOK
  <2>3. Pending' <= Pending
    BY <1>6, <1>8
  <2>4. tx.phase = "drain" => Pending' <= report.requested
    BY <1>6, <2>1, <2>2, <2>3
  <2> QED
    BY <1>2, <2>2, <2>4 DEF DrainBounded
<1>13. Len(queue') <= Capacity /\ Len(slots') <= Transfers
  BY <1>3, <1>4, Sizes
<1> QED
  BY <1>1, <1>2, <1>3, <1>8, <1>10, <1>11, <1>12, <1>13, RadioKeeps

(* A failed transfer.                                                      *)
LEMMA TransferFailsKeeps ==
  ASSUME AudioInv, TransferFails
  PROVE  AudioInv'
<1> DEFINE head == Head(slots)
<1>1. /\ slots # <<>> /\ slots' = Tail(slots) /\ queue' = queue
      /\ tx' = [tx EXCEPT !.alive = FALSE]
      /\ UNCHANGED <<input, report, aired, cut>>
  BY DEF TransferFails
<1>2. /\ TypeOK /\ made' = made /\ tx.phase # "idle"
      /\ tx'.phase = tx.phase /\ tx'.source = tx.source
  BY <1>1 DEF AudioInv, PhaseSound, TypeOK, input
<1>3. /\ head \in Seq(0..MaxFrames)
      /\ slots' \in Seq(Seq(0..MaxFrames)) /\ Len(slots') <= Len(slots)
      /\ OnTheWay = head \o OnTheWay'
  BY <1>1, <1>2, WayShrinks
<1>4. /\ queue \in Seq(0..MaxFrames) /\ Len(queue) <= Capacity
      /\ Len(slots) <= Transfers /\ Len(queue) \in Nat
      /\ Len(slots) \in Nat /\ Len(slots') \in Nat
  BY <1>2, <1>3, LenProperties DEF TypeOK
<1>5. FlattenSeq(slots') \in Seq(0..MaxFrames)
  BY <1>3, FlattenType
<1>6. /\ OnTheWay' \in Seq(0..MaxFrames)
      /\ Len(OnTheWay') = Pending' /\ Len(OnTheWay) = Pending
      /\ Pending' \in Nat /\ Pending \in Nat
  <2>1. /\ FlattenSeq(slots') \o queue \in Seq(0..MaxFrames)
        /\ Len(FlattenSeq(slots') \o queue)
             = Len(FlattenSeq(slots')) + Len(queue)
        /\ Len(FlattenSeq(slots')) \in Nat
    BY <1>4, <1>5, ConcatProperties, LenProperties
  <2>2. Len(FlattenSeq(slots') \o queue) = Len(queue) + Len(FlattenSeq(slots'))
    BY <1>4, <2>1
  <2> QED
    BY <1>1, <1>2, <1>4, <2>1, <2>2, Ways DEF OnTheWay, Pending
<1> HIDE DEF head
<1>7. WaySound' /\ Len(OnTheWay') <= Len(OnTheWay)
  BY <1>1, <1>2, <1>3, <1>6, WayGoes
<1>8. aired' \in 0..made
  BY <1>1 DEF AudioInv, TypeOK, Heard
<1>9. DrainBounded'
  <2>1. tx.phase = "drain" => Pending <= report.requested
    BY DEF AudioInv, DrainBounded
  <2>2. report.requested \in Nat /\ report' = report
    BY <1>1, <1>2 DEF TypeOK
  <2>3. Pending' <= Pending
    BY <1>6, <1>7
  <2>4. tx.phase = "drain" => Pending' <= report.requested
    BY <1>6, <2>1, <2>2, <2>3
  <2> QED
    BY <1>2, <2>2, <2>4 DEF DrainBounded
<1>10. Len(slots') <= Transfers
  BY <1>3, <1>4, Sizes
<1> QED
  BY <1>1, <1>2, <1>3, <1>4, <1>7, <1>8, <1>9, <1>10, RadioKeeps

(* The start of a drain counts what is pending and takes nothing more.     *)
LEMMA DrainKeeps ==
  ASSUME AudioInv, PttStop \/ MicRelease
  PROVE  AudioInv'
<1>1. /\ UNCHANGED <<client, tail, prebuf, made, read, lost, queue, slots,
                     aired, cut>>
      /\ \/ BeginDrain /\ tx.phase = "on"
         \/ UNCHANGED <<tx, report>> /\ tx.source # "network"
      /\ Free
  <2>1. CASE PttStop
    BY <2>1 DEF PttStop, AudioInv, PhaseSound, Free
  <2>2. CASE MicRelease
    BY <2>2 DEF MicRelease, Free, input
  <2> QED
    BY <2>1, <2>2
<1>2. /\ net \in Sessions
      /\ tx \in [phase : {"idle", "prepare", "on", "drain"},
                 source : {"none", "network", "mic"},
                 accepting : BOOLEAN, alive : BOOLEAN]
      /\ report \in [{"requested", "drained", "discarded"} -> Nat]
  BY DEF AudioInv, TypeOK, Sessions
<1>3. \/ net' = net /\ tx.source # "network"
      \/ net.keyed /\ net' = [net EXCEPT !.keyed = FALSE, !.buffered = 0]
  BY DEF PttStop, MicRelease, input
<1>4. /\ net' \in Sessions /\ net'.connected = net.connected
      /\ net'.reserved = net.reserved
      /\ net' = net \/ (~net'.keyed /\ net'.buffered = 0 /\ net.keyed)
  <2>1. CASE net' = net
    BY <1>2, <2>1
  <2>2. CASE net.keyed /\ net' = [net EXCEPT !.keyed = FALSE, !.buffered = 0]
    <3>1. net' \in Sessions
      BY <1>2, <2>2, SessionValues
    <3> QED
      BY <1>2, <2>2, <3>1 DEF Sessions
  <2> QED
    BY <1>3, <2>1, <2>2
<1>5. /\ tx' \in [phase : {"idle", "prepare", "on", "drain"},
                  source : {"none", "network", "mic"},
                  accepting : BOOLEAN, alive : BOOLEAN]
      /\ tx'.source = tx.source
      /\ tx' = tx \/ (tx'.phase = "drain" /\ ~tx'.accepting /\ tx.phase # "idle")
      /\ tx' = tx => report' = report
      /\ tx' # tx => report' = [requested |-> Pending, drained |-> 0,
                                discarded |-> 0]
  <2>1. CASE BeginDrain /\ tx.phase = "on"
    <3>1. /\ tx' = [tx EXCEPT !.phase = "drain", !.accepting = FALSE]
          /\ report' = [requested |-> Pending, drained |-> 0, discarded |-> 0]
          /\ tx.phase # "idle" /\ tx.phase # "drain"
      BY <2>1 DEF BeginDrain
    <3>2. tx'.phase = "drain" /\ ~tx'.accepting /\ tx'.source = tx.source
      BY <1>2, <3>1
    <3> QED
      BY <1>2, <3>1, <3>2
  <2>2. CASE UNCHANGED <<tx, report>>
    BY <1>2, <2>2
  <2> QED
    BY <1>1, <2>1, <2>2
<1>6. Pending \in Nat /\ Pending' = Pending
  BY <1>1, Ways DEF AudioInv, Pending
<1>7. report' \in [{"requested", "drained", "discarded"} -> Nat]
  BY <1>2, <1>5, <1>6
<1>8. DrainBounded'
  <2>1. CASE tx' = tx
    BY <1>5, <1>6, <2>1 DEF AudioInv, DrainBounded
  <2>2. CASE tx' # tx
    BY <1>5, <1>6, <2>2 DEF DrainBounded
  <2> QED
    BY <2>1, <2>2
<1>9. TypeOK'
  BY <1>1, <1>4, <1>5, <1>7 DEF AudioInv, TypeOK, Sessions
<1>10. PhaseSound'
  BY <1>1, <1>5 DEF AudioInv, PhaseSound
<1>11. KeySound'
  <2>1. /\ net.keyed => prebuf = <<>>
        /\ tx.phase = "on" /\ tx.source = "network" => net.keyed
        /\ tx.phase = "idle" => tx.source = "none"
        /\ tx.phase \in {"idle", "on"}
    BY <1>1 DEF AudioInv, KeySound, PhaseSound, Free
  <2>2. tx.source = "network" => prebuf = <<>> /\ net.keyed
    BY <2>1
  <2>3. tx'.source = "network" => tx'.phase # "on"
    <3>1. CASE BeginDrain
      <4>1. tx' = [tx EXCEPT !.phase = "drain", !.accepting = FALSE]
        BY <3>1 DEF BeginDrain
      <4>2. tx'.phase = "drain"
        BY <1>2, <4>1
      <4> QED
        BY <4>2
    <3>2. CASE UNCHANGED <<tx, report>> /\ tx.source # "network"
      BY <3>2
    <3> QED
      BY <1>1, <3>1, <3>2
  <2>4. net'.keyed => net' = net
    BY <1>4
  <2> QED
    BY <1>1, <1>5, <2>1, <2>2, <2>3, <2>4 DEF KeySound
<1>12. PrebufferCounted'
  <2>1. CASE net' = net
    BY <1>1, <2>1 DEF AudioInv, PrebufferCounted
  <2>2. CASE ~net'.keyed /\ net'.buffered = 0 /\ net.keyed
    <3>1. Len(prebuf) = 0
      BY <2>2 DEF AudioInv, KeySound
    <3> QED
      BY <1>1, <1>4, <2>2, <3>1 DEF AudioInv, PrebufferCounted
  <2> QED
    BY <1>4, <2>1, <2>2
<1>13. WaySound'
  BY <1>1, <1>5 DEF AudioInv, WaySound, OnTheWay, Fresh
<1>14. Fresh(prebuf)' /\ Heard' /\ NoFrameLost'
  BY <1>1 DEF AudioInv, Fresh, Heard, NoFrameLost
<1> QED
  BY <1>8, <1>9, <1>10, <1>11, <1>12, <1>13, <1>14 DEF AudioInv

-----------------------------------------------------------------------------
(* Every step keeps the invariant.                                         *)
LEMMA AudioStep == AudioInv /\ [Next]_vars => AudioInv'
<1> SUFFICES ASSUME AudioInv, [Next]_vars PROVE AudioInv'
  OBVIOUS
<1>1. CASE \E bytes \in 1..FrameBytes * (Capacity + Prebuffer) : ReadStream(bytes)
  BY <1>1, ReadStreamKeeps
<1>2. CASE PostAudio
  BY <1>2, PostAudioKeeps
<1>3. CASE Acquire \/ Connect \/ CloseOrphan \/ Reconcile
  BY <1>3, SessionKeeps
<1>4. CASE Hangup \/ Release \/ Expire \/ StationExpires
  BY <1>4, SessionEndKeeps
<1>5. CASE PttStart \/ Press
  BY <1>5, StartKeeps
<1>6. CASE StartSucceeds
  BY <1>6, StartSucceedsKeeps
<1>7. CASE \/ StartFails \/ StopNow \/ Recover
           \/ \E deadline \in BOOLEAN : DrainEnds(deadline)
  BY <1>7, OtherStopKeeps
<1>8. CASE MicPacket
  BY <1>8, MicPacketKeeps
<1>9. CASE Complete
  BY <1>9, CompleteKeeps
<1>10. CASE TransferFails
  BY <1>10, TransferFailsKeeps
<1>11. CASE PttStop \/ MicRelease
  BY <1>11, DrainKeeps
<1>12. CASE CaptureBegins
  BY <1>12, CaptureKeeps
<1>13. CASE UNCHANGED vars
  <2>1. UNCHANGED <<net, client, tail, prebuf, made, read, lost, output>>
    BY <1>13 DEF vars, input
  <2>2. /\ net \in Sessions /\ client \in BOOLEAN
        /\ tail \in 0..FrameBytes - 1 /\ read \in 0..FrameBytes - 1
    BY DEF AudioInv, TypeOK, Sessions
  <2>3. KeySound' /\ PrebufferCounted'
    BY <2>1 DEF AudioInv, KeySound, PrebufferCounted, output
  <2> QED
    BY <2>1, <2>2, <2>3, InputKeeps
<1> QED
  BY <1>1, <1>2, <1>3, <1>4, <1>5, <1>6, <1>7, <1>8, <1>9, <1>10, <1>11,
     <1>12, <1>13
     DEF Next

(* The whole path of the audio keeps its invariant, for every size of the  *)
(* queue, the prebuffer, the transfers and the frames.                     *)
THEOREM AudioInvariance == Spec => []AudioInv
<1> QED
  BY AudioInitially, AudioStep, PTL DEF Spec

(* The types of the audio path: the queue never holds more than its        *)
(* capacity, the prebuffer never more than its room.                       *)
THEOREM AudioTyped == Spec => []TypeOK
<1>1. AudioInv => TypeOK
  BY DEF AudioInv
<1> QED
  BY <1>1, AudioInvariance, PTL

(* A frame read for a session always has room: receive_limit asks the      *)
(* connection for no more than the prebuffer or the queue can take.        *)
THEOREM EveryFrameHasRoom == Spec => []NoFrameLost
<1>1. AudioInv => NoFrameLost
  BY DEF AudioInv
<1> QED
  BY <1>1, AudioInvariance, PTL

(* The drained count of a normal stop does not wrap: what is pending never *)
(* exceeds what was counted at its start.                                  *)
THEOREM DrainNeverGrows == Spec => []DrainBounded
<1>1. AudioInv => DrainBounded
  BY DEF AudioInv
<1> QED
  BY <1>1, AudioInvariance, PTL

(* Frames cut off by the end of a transmission are not in the queue or the *)
(* transfers of a later one.                                               *)
THEOREM NothingStaleIsSent == Spec => []NothingStale
<1>1. AudioInv => NothingStale
  <2> SUFFICES ASSUME AudioInv, tx.source = "network", NEW i \in DOMAIN OnTheWay
               PROVE  OnTheWay[i] > cut
    BY DEF NothingStale
  <2>1. Window(OnTheWay, cut, made)
    BY DEF AudioInv, WaySound, Fresh
  <2>2. cut < OnTheWay[i]
    BY <2>1 DEF Window
  <2> QED
    BY <2>2
<1> QED
  BY <1>1, AudioInvariance, PTL

(* What is on its way to the radio is the microphone's alone, or the       *)
(* network's in the order it came and not heard before.                    *)
THEOREM SourcesNeverMix == Spec => []OneSourceInOrder
<1>1. AudioInv => OneSourceInOrder
  <2> SUFFICES ASSUME AudioInv, tx.phase # "idle" PROVE OneSourceInOrder
    BY DEF OneSourceInOrder
  <2>1. CASE tx.source = "mic"
    BY <2>1 DEF AudioInv, WaySound, Spoken, OneSourceInOrder
  <2>2. CASE tx.source # "mic"
    <3>1. tx.source = "network"
      BY <2>2 DEF AudioInv, PhaseSound, TypeOK
    <3>2. Window(OnTheWay, aired, made)
      BY <3>1 DEF AudioInv, WaySound, Fresh
    <3> QED
      BY <2>2, <3>2 DEF OneSourceInOrder, Window, Rising
  <2> QED
    BY <2>1, <2>2
<1> QED
  BY <1>1, AudioInvariance, PTL

-----------------------------------------------------------------------------
(* The account of a drain: what was counted at its start has been played   *)
(* or is pending, except for the frames of a transfer that failed.         *)
Accounted ==
  /\ played \in Nat
  /\ tx.phase = "drain" =>
       /\ played + Pending <= report.requested
       /\ tx.alive => played + Pending = report.requested

(* In a drain the loop of the daemon is not running: only the radio, the   *)
(* microphone and the end of the drain can change anything.                *)
LEMMA InDrain ==
  ASSUME AudioInv, [Next]_vars, tx.phase = "drain"
  PROVE  \/ Complete \/ TransferFails
         \/ UNCHANGED <<tx, queue, slots, report, played>>
         \/ \E deadline \in BOOLEAN : DrainEnds(deadline)
<1>1. ~Free /\ ~tx.accepting
  BY DEF Free, AudioInv, PhaseSound
<1>2. CASE MicPacket
  BY <1>1, <1>2 DEF MicPacket
<1>3. CASE UNCHANGED vars
  BY <1>3 DEF vars, output
<1> QED
  BY <1>1, <1>2, <1>3 DEF Next, ReadStream, PostAudio, Acquire, Connect,
     Hangup, Release, Expire, StationExpires, CloseOrphan, Reconcile,
     PttStart, Press, CaptureBegins, StartSucceeds, StartFails, PttStop,
     MicRelease, StopNow, Recover

(* A transfer that ends takes the frames it held from those pending.       *)
LEMMA TransferAccount ==
  ASSUME AudioInv, Complete \/ TransferFails
  PROVE  /\ Len(Head(slots)) \in Nat /\ Pending \in Nat /\ Pending' \in Nat
         /\ Pending = Len(Head(slots)) + Pending'
<1>1. TypeOK /\ TypeOK'
  BY CompleteKeeps, TransferFailsKeeps DEF AudioInv
<1>2. Head(slots) \in Seq(0..MaxFrames) /\ OnTheWay = Head(slots) \o OnTheWay'
  BY <1>1, WayMoves, WayShrinks DEF Complete, TransferFails
<1>3. Len(OnTheWay) = Pending /\ Pending \in Nat
  BY <1>1, Ways
<1>4. /\ OnTheWay' \in Seq(0..MaxFrames) /\ Len(OnTheWay') = Pending'
      /\ Pending' \in Nat
  <2> DEFINE flat == FlattenSeq(slots')
  <2>1. queue' \in Seq(0..MaxFrames) /\ slots' \in Seq(Seq(0..MaxFrames))
    BY <1>1 DEF TypeOK
  <2>2. flat \in Seq(0..MaxFrames)
    BY <2>1, FlattenType
  <2> HIDE DEF flat
  <2>3. /\ flat \o queue' \in Seq(0..MaxFrames)
        /\ Len(flat \o queue') = Len(queue') + Len(flat)
        /\ Len(queue') + Len(flat) \in Nat
    BY <2>1, <2>2, ConcatProperties, LenProperties
  <2> QED
    BY <2>3 DEF OnTheWay, Pending, flat
<1>5. Len(Head(slots) \o OnTheWay') = Len(Head(slots)) + Len(OnTheWay')
  BY <1>2, <1>4, ConcatProperties
<1>6. Len(Head(slots)) \in Nat
  BY <1>2, LenProperties
<1> QED
  BY <1>2, <1>3, <1>4, <1>5, <1>6

(* Every step keeps the account.                                           *)
LEMMA AccountStep ==
  ASSUME AudioInv, Accounted, [Next]_vars
  PROVE  Accounted'
<1>1. CASE tx.phase = "drain"
  <2>1. report.requested \in Nat /\ played \in Nat
    BY DEF AudioInv, TypeOK, Accounted
  <2>2. /\ played + Pending <= report.requested
        /\ tx.alive => played + Pending = report.requested
    BY <1>1 DEF Accounted
  <2>3. CASE Complete
    <3>1. /\ tx' = tx /\ report' = report /\ tx.alive
          /\ played' = played + Len(Head(slots))
      BY <1>1, <2>3 DEF Complete
    <3>2. /\ Len(Head(slots)) \in Nat /\ Pending \in Nat /\ Pending' \in Nat
          /\ Pending = Len(Head(slots)) + Pending'
      BY <2>3, TransferAccount
    <3>3. played' \in Nat /\ played' + Pending' = report'.requested
      BY <2>1, <2>2, <3>1, <3>2
    <3>4. played' + Pending' <= report'.requested
      BY <2>1, <3>1, <3>3
    <3> QED
      BY <3>3, <3>4 DEF Accounted
  <2>4. CASE TransferFails
    <3>1. /\ tx' = [tx EXCEPT !.alive = FALSE] /\ report' = report
          /\ played' = played
      BY <2>4 DEF TransferFails
    <3>2. ~tx'.alive
      BY <3>1 DEF AudioInv, TypeOK
    <3>3. /\ Len(Head(slots)) \in Nat /\ Pending \in Nat /\ Pending' \in Nat
          /\ Pending = Len(Head(slots)) + Pending'
      BY <2>4, TransferAccount
    <3>4. played' + Pending' <= report'.requested
      BY <2>1, <2>2, <3>1, <3>3
    <3> QED
      BY <2>1, <3>1, <3>2, <3>4 DEF Accounted
  <2>5. CASE UNCHANGED <<tx, queue, slots, report, played>>
    BY <2>5 DEF Accounted, Pending
  <2>6. CASE \E deadline \in BOOLEAN : DrainEnds(deadline)
    BY <2>6 DEF DrainEnds, Stopped, Idle, Accounted
  <2> QED
    BY <1>1, <2>3, <2>4, <2>5, <2>6, InDrain
<1>2. CASE tx.phase # "drain"
  <2>1. played' = played \/ played' = 0
    BY <1>2 DEF Next, vars, output, ReadStream, PostAudio, Acquire, Connect,
       Hangup, Release, Expire, StationExpires, CloseOrphan, Reconcile,
       PttStart, Press, Start, CaptureBegins, StartSucceeds, StartFails,
       MicPacket, Complete, TransferFails, PttStop, MicRelease, BeginDrain,
       StopNow, Recover, DrainEnds
  <2>2. played' \in Nat
    BY <2>1 DEF Accounted
  <2>3. CASE tx'.phase # "drain"
    BY <2>2, <2>3 DEF Accounted
  <2>4. CASE tx'.phase = "drain"
    <3>1. PttStop \/ MicRelease
      <4>1. ~TransferFails /\ ~StartSucceeds /\ ~CaptureBegins
        BY <1>2, <2>4 DEF TransferFails, StartSucceeds, CaptureBegins,
           AudioInv, TypeOK
      <4>2. tx' # tx
        BY <1>2, <2>4
      <4>3. tx' # Idle /\ tx'.phase # "prepare"
        BY <2>4 DEF Idle
      <4>4. ~(PttStart \/ Press)
        <5>1. ASSUME NEW source, Start(source) PROVE FALSE
          BY <4>3, <5>1 DEF Start
        <5> QED
          BY <5>1 DEF PttStart, Press
      <4>5. ~(Hangup \/ Release \/ Expire \/ StationExpires)
        <5>1. ~StopIfKeyed
          BY <4>2, <4>3 DEF StopIfKeyed, Stopped
        <5> QED
          BY <5>1 DEF Hangup, Release, Expire, StationExpires
      <4>6. /\ ~(StartFails \/ StopNow \/ Recover)
            /\ ~\E deadline \in BOOLEAN : DrainEnds(deadline)
        BY <4>3 DEF StartFails, StopNow, Recover, DrainEnds, Stopped
      <4>7. ~(Acquire \/ Connect \/ CloseOrphan \/ Reconcile \/ UNCHANGED vars)
        BY <4>2 DEF Acquire, Connect, CloseOrphan, Reconcile, vars, output
      <4>8. /\ ~(PostAudio \/ MicPacket \/ Complete)
            /\ ~\E bytes \in 1..FrameBytes * (Capacity + Prebuffer) :
                  ReadStream(bytes)
        BY <4>2 DEF PostAudio, MicPacket, Complete, ReadStream
      <4> QED
        BY <4>1, <4>4, <4>5, <4>6, <4>7, <4>8 DEF Next
    <3>2. BeginDrain /\ UNCHANGED <<queue, slots>>
      BY <1>2, <2>4, <3>1 DEF PttStop, MicRelease
    <3>3. report'.requested = Pending /\ played' = 0
      BY <3>2 DEF BeginDrain
    <3>4. Pending' = Pending /\ Pending \in Nat
      BY <3>2, Ways DEF AudioInv, Pending
    <3>5. played' + Pending' = report'.requested
      BY <3>3, <3>4
    <3>6. played' + Pending' <= report'.requested
      BY <3>3, <3>4
    <3> QED
      BY <2>2, <3>5, <3>6 DEF Accounted
  <2> QED
    BY <2>3, <2>4
<1> QED
  BY <1>1, <1>2

(* What a normal stop reports as drained is what was played since it was   *)
(* asked for, and no less even if a transfer failed.                       *)
THEOREM DrainIsReported == Spec => DrainReportTrue
<1>1. Init => Accounted
  BY DEF Init, Idle, Accounted
<1>2. AudioInv /\ Accounted /\ [Next]_vars => DrainReport
  <2> SUFFICES ASSUME AudioInv, Accounted, [Next]_vars,
                      tx.phase = "drain", tx'.phase = "idle"
               PROVE  /\ played <= report'.drained
                      /\ tx.alive => report'.drained = played
    BY DEF DrainReport
  <2>1. tx' # tx /\ ~Complete
    BY DEF Complete
  <2>2. ~TransferFails
    BY DEF TransferFails, AudioInv, TypeOK
  <2>3. \E deadline \in BOOLEAN : DrainEnds(deadline)
    BY <2>1, <2>2, InDrain
  <2>4. report' = [report EXCEPT !.drained = report.requested - Pending,
                                 !.discarded = Pending]
    BY <2>3 DEF DrainEnds
  <2>5. report'.drained = report.requested - Pending
    BY <2>4 DEF AudioInv, TypeOK
  <2>6. Pending \in Nat /\ report.requested \in Nat
    BY Ways DEF AudioInv, TypeOK
  <2> QED
    BY <2>5, <2>6 DEF Accounted
<1>3. AudioInv /\ Accounted /\ [Next]_vars => Accounted'
  BY AccountStep
<1> QED
  BY <1>1, <1>2, <1>3, AudioInvariance, PTL DEF Spec, DrainReportTrue
=============================================================================
