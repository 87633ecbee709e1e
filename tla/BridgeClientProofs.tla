------------------------- MODULE BridgeClientProofs -------------------------
(***************************************************************************)
(* Proofs about the companion client: the bridge session with its upload   *)
(* thread (BridgeClient), against a daemon in any state, and the sample    *)
(* ring (AudioRing), which hands on what it accepted, in order, for every  *)
(* size and every interleaving of push, pop and clear.                     *)
(***************************************************************************)
EXTENDS BridgeClient, AudioRing, TLAPS

(* The upload thread can still send. *)
Sending == thread \in {"head", "body", "caught"}

(* Types of what the argument is about; the daemon at the other end may be *)
(* in any state.                                                           *)
ClientTypes ==
  /\ tx \in [lease : Leases \cup {0}, keyed : BOOLEAN, stop : BOOLEAN,
             fault : BOOLEAN]
  /\ thread \in Threads /\ call \in Calls

(* set_ptt is not in the middle of a start or a stop while an upload runs: *)
(* a start finds PTT on and returns, a stop joins first.                   *)
UploadOwns ==
  Sending => /\ tx.lease # 0 /\ stream = tx.lease /\ tx.keyed
             /\ call \in {"none", "join"}

(* A start has a session lease from the daemon's answer on, and the stream *)
(* of that session once it asks for PTT.                                   *)
StartOwns ==
  /\ call \in {"connect", "start"} => tx.lease # 0
  /\ call = "start" => stream = tx.lease

(* No connection of an earlier session is kept, except until TxStream      *)
(* replaces it.                                                            *)
StreamOwned == call # "connect" => stream \in {0, tx.lease}

(* The destructor's PTT off finds no other call in progress.               *)
RigStopped == main \in {"releasing", "destroy"} => call = "none"

(* The inductive invariant, as long as the client runs. *)
BridgeInv ==
  Alive => /\ ClientTypes
           /\ UploadOwns /\ StartOwns /\ StreamOwned /\ RigStopped

(* A lease is always left for a new session.                               *)
LEMMA SessionLeaseLeft ==
  ASSUME StreamOwned, call = "create"
  PROVE  NewSession \in Leases /\ NewSession # 0
<1> DEFINE Fresh(n) == n \notin {daemon.tx.lease, tx.lease, stream}
<1>1. stream \in {0, tx.lease}
  BY DEF StreamOwned
<1>2. 1 \in Leases /\ 2 \in Leases /\ 3 \in Leases /\ 0 \notin Leases
  BY BridgeAssumption, RemoteAssumption DEF Leases
<1>3. \E n \in Leases : Fresh(n)
  BY <1>1, <1>2
<1>4. NewSession \in Leases
  BY <1>3 DEF NewSession
<1> QED
  BY <1>2, <1>4

(* set_ptt, from the rig-control thread or the destructor: every request   *)
(* it makes, and every way it ends.                                        *)
LEMMA PttKeeps ==
  ASSUME BridgeInv, PttOn \/ PttOff \/ PttCall
  PROVE  BridgeInv'
<1>1. Alive
  BY DEF PttOn, PttOff, PttCall, RigReady, CreateSession, OpenStream, StartPtt,
         ReleaseTx, JoinUpload, StopPtt, EndSession, Calling
<1>2. ClientTypes /\ UploadOwns /\ StartOwns /\ StreamOwned /\ RigStopped
  BY <1>1 DEF BridgeInv
<1>2a. ASSUME Alive' PROVE RigStopped'
  BY <1>2, <1>2a
  DEF PttOn, PttOff, PttCall, RigReady, CreateSession, OpenStream, StartPtt,
      ReleaseTx, JoinUpload, StopPtt, EndSession, Calling, Keyed, Throws,
      Undefined, Dies, Others, Alive, RigStopped
<1>3. SUFFICES ASSUME Alive'
               PROVE  ClientTypes' /\ UploadOwns' /\ StartOwns' /\ StreamOwned'
  BY <1>2a DEF BridgeInv
<1>4. CASE PttOn
  BY <1>2, <1>4
  DEF PttOn, RigReady, ClientTypes, UploadOwns, StartOwns, StreamOwned, Sending,
      Calls
<1>5. CASE CreateSession
  <2>1. NewSession \in Leases /\ NewSession # 0
    BY <1>2, <1>5, SessionLeaseLeft DEF CreateSession, Calling
  <2>2. /\ \/ tx' = [tx EXCEPT !.lease = NewSession] /\ call' = "connect"
           \/ call' = "none" /\ tx' = tx
        /\ stream' = stream /\ thread' = thread /\ call = "create"
    BY <1>5 DEF CreateSession, Calling, Others
  <2>3. ~Sending
    BY <1>2, <2>2 DEF UploadOwns
  <2> QED
    BY <1>2, <2>1, <2>2, <2>3
    DEF ClientTypes, UploadOwns, StartOwns, StreamOwned, Sending, Calls
<1>6. CASE OpenStream
  <2>1. /\ \/ stream' = tx.lease /\ call' \in {"start", "undo"}
           \/ stream' = 0 /\ call' = "undo"
        /\ tx' = tx /\ thread' = thread /\ call = "connect"
    BY <1>6 DEF OpenStream, Calling, Others
  <2> QED
    BY <1>2, <2>1
    DEF ClientTypes, UploadOwns, StartOwns, StreamOwned, Sending, Calls
<1>7. CASE StartPtt
  <2>1. /\ call = "start"
        /\ \/ /\ tx' = [tx EXCEPT !.keyed = TRUE, !.stop = FALSE]
              /\ thread' = "head" /\ call' = "none" /\ stream' = stream
           \/ /\ call' \in {"none", "start", "undo"}
              /\ tx' = tx /\ stream' = stream /\ thread' = thread
    <3>1. PICK o \in Replies :
            IF o.status = "OK" THEN Keyed
            ELSE /\ call' \in CASE o.status = "THROWN" -> {"none"}
                                [] o.status = "NOT_READY" -> {"start", "undo"}
                                [] OTHER -> {"undo"}
                 /\ UNCHANGED <<tx, stream>> /\ Others
      BY <1>7 DEF StartPtt
    <3>2. CASE o.status = "OK"
      BY <1>3, <1>7, <3>1, <3>2 DEF StartPtt, Calling, Keyed, Dies, Alive
    <3>3. CASE o.status # "OK"
      BY <1>7, <3>1, <3>3 DEF StartPtt, Calling, Others
    <3> QED
      BY <3>2, <3>3
  <2> QED
    BY <1>2, <2>1
    DEF ClientTypes, UploadOwns, StartOwns, StreamOwned, Sending, Calls, Threads
<1>8. CASE ReleaseTx
  BY <1>2, <1>8
  DEF ReleaseTx, Calling, Cleared, Others, ClientTypes, UploadOwns, StartOwns,
      StreamOwned, Sending, Calls
<1>9. CASE PttOff
  BY <1>2, <1>9
  DEF PttOff, RigReady, RequestStop, ClientTypes, UploadOwns, StartOwns,
      StreamOwned, Sending, Calls
<1>10. CASE JoinUpload
  BY <1>2, <1>10
  DEF JoinUpload, Calling, ClientTypes, UploadOwns, StartOwns, StreamOwned,
      Sending, Calls, Threads
<1>11. CASE StopPtt \/ EndSession
  <2>1. /\ call \in {"stop", "delete"} /\ thread' = thread
        /\ \/ call' \in {"none", "delete"} /\ tx' = tx /\ stream' = stream
           \/ call' = "none" /\ tx' = Cleared /\ stream' = 0
    BY <1>3, <1>11
    DEF StopPtt, EndSession, Calling, Throws, Undefined, Dies, Others, Alive
  <2> QED
    BY <1>2, <2>1
    DEF Cleared, ClientTypes, UploadOwns, StartOwns, StreamOwned, Sending, Calls
<1> QED
  BY <1>4, <1>5, <1>6, <1>7, <1>8, <1>9, <1>10, <1>11 DEF PttCall

(* The upload thread: it gives the session up only together with itself.   *)
LEMMA UploadKeeps ==
  ASSUME BridgeInv, UploadStep
  PROVE  BridgeInv'
<1>1. Alive /\ Sending
  BY DEF UploadStep, UploadHead, UploadGoesOn, UploadBreaks, UploadKeepalive,
         UploadFails, Uploading, Sending
<1>2. ClientTypes /\ UploadOwns /\ StartOwns /\ StreamOwned /\ RigStopped
  BY <1>1 DEF BridgeInv
<1>2a. ASSUME Alive' PROVE RigStopped'
  BY <1>1, <1>2, <1>2a
  DEF UploadStep, UploadHead, UploadGoesOn, UploadBreaks, UploadKeepalive,
      UploadFails, FailTx, Upload, Undefined, Dies, Alive, RigStopped
<1>3. SUFFICES ASSUME Alive'
               PROVE  ClientTypes' /\ UploadOwns' /\ StartOwns' /\ StreamOwned'
  BY <1>2a DEF BridgeInv
<1>4. /\ call' = call
      /\ \/ /\ thread' \in {"head", "body", "caught", "returned"}
            /\ tx' = tx /\ stream' = stream
         \/ /\ tx' = [Cleared EXCEPT !.stop = TRUE, !.fault = TRUE]
            /\ stream' = IF tx.lease = 0 THEN stream ELSE 0
            /\ thread' = "returned"
  <2>1. CASE UploadHead \/ UploadGoesOn \/ UploadBreaks
    BY <2>1 DEF UploadHead, UploadGoesOn, UploadBreaks, Upload
  <2>2. CASE UploadFails
    BY <2>2 DEF UploadFails, FailTx, Upload
  <2>3. CASE UploadKeepalive
    <3>1. CASE tx.lease = 0
      BY <1>1, <1>2, <3>1 DEF UploadOwns
    <3>2. CASE tx.lease # 0 /\ Undefined
      BY <1>3, <3>2 DEF Undefined, Dies, Alive
    <3>3. CASE tx.lease # 0 /\ ~Undefined
      <4>1. PICK o \in Exchanges(daemon,
                         SessionKeepalive(daemon, lease.value, tx.lease)) :
              IF o.status \in {"OK", "THROWN"}
              THEN /\ daemon' = o.d
                   /\ thread' = IF o.status = "OK" THEN "head" ELSE "caught"
                   /\ UNCHANGED <<tx, stream>> /\ Upload
              ELSE FailTx(o.d)
        BY <2>3, <3>3 DEF UploadKeepalive
      <4>2. CASE o.status \in {"OK", "THROWN"}
        BY <4>1, <4>2 DEF Upload
      <4>3. CASE o.status \notin {"OK", "THROWN"}
        BY <4>1, <4>3 DEF FailTx, Upload
      <4> QED
        BY <4>2, <4>3
    <3> QED
      BY <3>1, <3>2, <3>3
  <2> QED
    BY <2>1, <2>2, <2>3 DEF UploadStep
<1>5. call \in {"none", "join"} /\ tx.lease # 0
  BY <1>1, <1>2 DEF UploadOwns
<1>6. CASE thread' = "returned"
  BY <1>2, <1>4, <1>5, <1>6
  DEF ClientTypes, UploadOwns, StartOwns, StreamOwned, Sending, Cleared, Threads
<1>7. CASE thread' # "returned"
  BY <1>1, <1>2, <1>4, <1>5, <1>7
  DEF ClientTypes, UploadOwns, StartOwns, StreamOwned, Sending, Threads
<1> QED
  BY <1>6, <1>7

(* The rig-control server, the receive thread, a thread that hangs, the    *)
(* daemon and the other stations touch neither the session nor the stream. *)
LEMMA OthersKeep ==
  ASSUME BridgeInv,
         \/ ConsumeFault \/ HamlibConnects \/ HamlibLeaves
         \/ RxStep \/ RxFrame \/ RxEnds \/ HangStep
         \/ Clock \/ Preempted \/ StreamLost \/ PrebufferArrives
         \/ OtherStation
  PROVE  BridgeInv'
<1>1. /\ main' = main /\ UNCHANGED <<stream, thread, call>>
      /\ tx' = tx \/ tx' = [tx EXCEPT !.fault = FALSE]
  <2>1. CASE HangStep
    BY <2>1
    DEF HangStep, CallHangs, SendHangs, RequestHangs, MainHangs, RxHangs, Hangs,
        client
  <2>2. CASE ~HangStep
    BY <2>2
    DEF ConsumeFault, HamlibConnects, HamlibLeaves, Rig, RxStep, RxTop, RxDial,
        RxAnswered, RxMode, RxFrame, RxEnds, Receive, client, Clock,
        Preempted, StreamLost, PrebufferArrives, OtherStation, Elsewhere
  <2> QED
    BY <2>1, <2>2
<1>2. CASE ~Alive
  BY <1>1, <1>2 DEF Alive, BridgeInv
<1>3. CASE Alive
  BY <1>1, <1>3
  DEF Alive, BridgeInv, ClientTypes, UploadOwns, StartOwns, StreamOwned,
      RigStopped, Sending
<1> QED
  BY <1>2, <1>3

(* The main thread takes the station lease and gives it back; it touches   *)
(* the session only through set_ptt.                                       *)
LEMMA MainKeeps ==
  ASSUME BridgeInv, Maintain \/ StopRequested \/ MainStep
  PROVE  BridgeInv'
<1>1. CASE Destroy
  BY <1>1
  DEF Destroy, MainGoes, RequestStop, Alive, BridgeInv, ClientTypes, UploadOwns,
      StartOwns, StreamOwned, RigStopped, Sending, Calls
<1>2. CASE ~Destroy
  <2>1. /\ Alive /\ (Alive' => UNCHANGED <<tx, stream, thread, call>>)
        /\ Alive' /\ main' \in {"releasing", "destroy"} =>
             call = "none" \/ main \in {"releasing", "destroy"}
    <3>1. CASE Maintain
      BY <3>1 DEF Maintain, Dies, Alive
    <3>2. CASE StopRequested \/ MainStep
      BY <1>2, <3>2
      DEF StopRequested, MainStep, JoinReceive, StopRig, Release, Destroyed,
          MainGoes, client, Alive
    <3> QED
      BY <3>1, <3>2
  <2> QED
    BY <2>1
    DEF BridgeInv, ClientTypes, UploadOwns, StartOwns, StreamOwned, RigStopped,
        Sending
<1> QED
  BY <1>1, <1>2

(* The invariant of the companion client holds in every reachable state,   *)
(* whatever the daemon and the network do.                                 *)
THEOREM BridgeInvariance == Spec => []BridgeInv
<1>1. Init => BridgeInv
  BY DEF Init, BridgeInv, ClientTypes, UploadOwns, StartOwns, StreamOwned,
         RigStopped, Sending, Threads, Calls, NoTx
<1>2. BridgeInv /\ [Next]_vars => BridgeInv'
  <2>1. ASSUME BridgeInv, UNCHANGED vars PROVE BridgeInv'
    BY <2>1
    DEF vars, client, BridgeInv, Alive, ClientTypes, UploadOwns, StartOwns,
        StreamOwned, RigStopped, Sending
  <2> QED
    BY <2>1, PttKeeps, UploadKeeps, OthersKeep, MainKeeps DEF Next
<1> QED
  BY <1>1, <1>2, PTL DEF Spec

(* While the upload thread can still send, nobody closes or replaces its   *)
(* stream, takes its session lease or reports PTT off.                     *)
THEOREM UploaderIsUndisturbed == Spec => []UploaderUndisturbed
<1>1. BridgeInv => UploaderUndisturbed
  BY DEF BridgeInv, UploadOwns, Sending, UploaderUndisturbed
<1> QED
  BY <1>1, BridgeInvariance, PTL

-----------------------------------------------------------------------------
(* Types of the ring and of the local variables of push, pop and clear. *)
RingType ==
  /\ samples \in [Places -> Nat]
  /\ read \in Places /\ write \in Places
  /\ producer \in [busy : BOOLEAN, read : Places, write : Places, left : Nat]
  /\ consumer \in [does : {"idle", "pop", "clear"}, read : Places,
                   write : Places, left : Nat]
  /\ made \in Nat /\ fifo \in Seq(Nat)

(* Places ahead of the read index the producer knows. *)
Turn(i) == Ahead(producer.read, i)

(* The indices, known and stored, lie in this order within one turn.       *)
IndexOrder ==
  /\ Turn(read) <= Turn(consumer.read)
  /\ Turn(consumer.read) <= Turn(consumer.write)
  /\ Turn(consumer.write) <= Turn(write)
  /\ Turn(write) <= Turn(producer.write)

(* Between two calls a thread's copy of its own index is what it stored.   *)
OwnIndex ==
  /\ consumer.does # "pop" => consumer.read = read
  /\ ~producer.busy => producer.write = write

(* From the pop's position to the push's, the places hold the samples      *)
(* accepted and not yet taken.                                             *)
Held ==
  /\ Len(fifo) = Ahead(consumer.read, producer.write)
  /\ \A i \in Places : Ahead(consumer.read, i) < Len(fifo) =>
       fifo[Ahead(consumer.read, i) + 1] = samples[i]

(* The inductive invariant. *)
RingInv == RingType /\ IndexOrder /\ OwnIndex /\ Held

-----------------------------------------------------------------------------
(* The place after the last is the first: (i + 1) % samples_.size(). *)
LEMMA AfterWraps ==
  ASSUME NEW i \in Places
  PROVE  /\ After(i) = IF i = Size - 1 THEN 0 ELSE i + 1
         /\ After(i) \in Places
<1>1. i + 1 \in Nat /\ i + 1 <= Size
  BY SizeAssumption DEF Places
<1> DEFINE x == i + 1
<1>2. x \in Nat /\ x <= Size
  BY <1>1
<1>3. After(i) = x % Size
  BY DEF After
<1> HIDE DEF x
<1>4. x % Size = IF x = Size THEN 0 ELSE x
  BY <1>2, SizeAssumption
<1> QED
  BY <1>2, <1>3, <1>4, SizeAssumption DEF x, Places

(* Distances on the ring are less than one turn, and tell places apart.    *)
LEMMA AheadRange ==
  ASSUME NEW a \in Places, NEW i \in Places, NEW j \in Places
  PROVE  /\ Ahead(a, i) \in Nat /\ Ahead(a, i) < Size
         /\ Ahead(a, a) = 0
         /\ Ahead(a, i) = Ahead(a, j) => i = j
BY SizeAssumption DEF Places, Ahead

(* Seen from a place further on, a distance shrinks by what lies between.  *)
LEMMA AheadShift ==
  ASSUME NEW a \in Places, NEW i \in Places, NEW x \in Places,
         Ahead(a, i) <= Ahead(a, x)
  PROVE  Ahead(i, x) = Ahead(a, x) - Ahead(a, i)
BY SizeAssumption DEF Places, Ahead

(* What a load may return lies between the place seen and the one stored.  *)
LEMMA LoadedBetween ==
  ASSUME NEW a \in Places, NEW c \in Places, NEW w \in Places,
         Ahead(a, c) <= Ahead(a, w), NEW i \in Loaded(c, w)
  PROVE  /\ i \in Places
         /\ Ahead(a, c) <= Ahead(a, i) /\ Ahead(a, i) <= Ahead(a, w)
BY SizeAssumption DEF Places, Ahead, Loaded

(* The next place is one further away, unless the turn is complete.        *)
LEMMA AheadAfter ==
  ASSUME NEW a \in Places, NEW i \in Places
  PROVE  /\ Ahead(a, i) < Size - 1 => Ahead(a, After(i)) = Ahead(a, i) + 1
         /\ After(i) # a => Ahead(a, i) < Size - 1
<1>1. After(i) = IF i = Size - 1 THEN 0 ELSE i + 1
  BY AfterWraps
<1> QED
  BY <1>1, SizeAssumption DEF Places, Ahead

-----------------------------------------------------------------------------
(* The initial state: an empty ring, every index at its first place.       *)
LEMMA RingInitially == RingInit => RingInv
<1> SUFFICES ASSUME RingInit PROVE RingInv
  OBVIOUS
<1>1. 0 \in Places
  BY SizeAssumption DEF Places
<1>2. Ahead(0, 0) = 0
  BY <1>1, AheadRange
<1>3. RingType
  BY <1>1 DEF RingInit, RingType
<1>4. IndexOrder
  BY <1>2 DEF RingInit, IndexOrder, Turn
<1>5. OwnIndex
  BY DEF RingInit, OwnIndex
<1>6. Len(fifo) = 0
  BY DEF RingInit
<1>7. Held
  BY <1>1, <1>2, <1>6, AheadRange DEF RingInit, Held
<1> QED
  BY <1>3, <1>4, <1>5, <1>7 DEF RingInv

(* What the indices are, once their type is known.                         *)
LEMMA Indices ==
  ASSUME RingType
  PROVE  /\ producer.read \in Places /\ producer.write \in Places
         /\ consumer.read \in Places /\ consumer.write \in Places
         /\ read \in Places /\ write \in Places
BY DEF RingType

(* A sequence without its first k elements.                                *)
LEMMA Rest ==
  ASSUME NEW s \in Seq(Nat), NEW k \in Nat, k <= Len(s)
  PROVE  /\ SubSeq(s, k + 1, Len(s)) \in Seq(Nat)
         /\ Len(SubSeq(s, k + 1, Len(s))) = Len(s) - k
         /\ \A j \in 1..Len(s) - k : SubSeq(s, k + 1, Len(s))[j] = s[k + j]
<1>1. Len(s) \in Nat /\ k + 1 \in 1..Len(s) + 1
  OBVIOUS
<1>2. SubSeq(s, k + 1, Len(s)) \in Seq(Nat)
  BY <1>1
<1>3. /\ Len(SubSeq(s, k + 1, Len(s))) = Len(s) - k
      /\ \A j \in 1..Len(s) - k : SubSeq(s, k + 1, Len(s))[j] = s[k + j]
  BY <1>1
<1> QED
  BY <1>2, <1>3

(* The distances from the producer's read index are numbers.               *)
LEMMA Turns ==
  ASSUME RingType
  PROVE  /\ \A i \in Places : Turn(i) \in Nat /\ Turn(i) < Size
         /\ Turn(read) \in Nat /\ Turn(write) \in Nat
         /\ Turn(producer.write) \in Nat /\ Turn(consumer.read) \in Nat
         /\ Turn(consumer.write) \in Nat /\ Turn(consumer.write) < Size
         /\ Turn(producer.write) < Size
BY Indices, AheadRange DEF Turn

(* The loads of push: what it may learn of the read index lies behind      *)
(* everything the two threads still use.                                   *)
LEMMA PushLoadsKeeps ==
  ASSUME RingInv, NEW count \in 1..MaxBatch, PushLoads(count)
  PROVE  RingInv'
<1> USE DEF RingInv
<1>1. PICK i \in Loaded(producer.read, read) :
        producer' = [busy |-> TRUE, read |-> i, write |-> write, left |-> count]
  BY DEF PushLoads
<1>2. /\ ~producer.busy
      /\ UNCHANGED <<samples, read, write, consumer, made, fifo>>
  BY DEF PushLoads
<1>3. i \in Places /\ Turn(i) <= Turn(read)
  BY DEF Loaded, Turn
<1>4. producer.write = write
  BY <1>2 DEF OwnIndex
<1>5. RingType'
  BY <1>1, <1>2, <1>3, SizeAssumption DEF RingType
<1>6. ASSUME NEW x \in Places, Turn(read) <= Turn(x)
      PROVE  Ahead(i, x) = Turn(x) - Turn(i)
  <2>1. Turn(i) <= Turn(x)
    BY <1>3, <1>6, Indices, AheadRange DEF Turn
  <2> QED
    BY <2>1, <1>3, Indices, AheadShift DEF Turn
<1>7. IndexOrder'
  <2> DEFINE T(x) == Ahead(producer.read, x)
  <2>1. /\ T(i) \in Nat /\ T(read) \in Nat /\ T(consumer.read) \in Nat
        /\ T(consumer.write) \in Nat /\ T(write) \in Nat
    BY <1>3, Indices, AheadRange
  <2>2. /\ T(read) <= T(consumer.read) /\ T(consumer.read) <= T(consumer.write)
        /\ T(consumer.write) <= T(write)
    BY DEF IndexOrder, Turn
  <2>3. /\ Ahead(i, read) = T(read) - T(i)
        /\ Ahead(i, consumer.read) = T(consumer.read) - T(i)
        /\ Ahead(i, consumer.write) = T(consumer.write) - T(i)
        /\ Ahead(i, write) = T(write) - T(i)
    <3> HIDE DEF T
    <3>1. /\ T(read) <= T(read) /\ T(read) <= T(consumer.write)
          /\ T(read) <= T(write)
      BY <2>1, <2>2
    <3> QED
      BY <1>6, <2>2, <3>1, Indices DEF T, Turn
  <2>4. /\ producer'.read = i /\ producer'.write = write
        /\ read' = read /\ write' = write /\ consumer' = consumer
    BY <1>1, <1>2
  <2> HIDE DEF T
  <2>5. /\ Ahead(i, read) <= Ahead(i, consumer.read)
        /\ Ahead(i, consumer.read) <= Ahead(i, consumer.write)
        /\ Ahead(i, consumer.write) <= Ahead(i, write)
        /\ Ahead(i, write) <= Ahead(i, write)
    BY <2>1, <2>2, <2>3
  <2> QED
    BY <2>4, <2>5 DEF IndexOrder, Turn
<1>8. OwnIndex'
  BY <1>1, <1>2 DEF OwnIndex
<1>9. Held'
  BY <1>1, <1>2, <1>4 DEF Held
<1> QED
  BY <1>5, <1>7, <1>8, <1>9

(* The copy of push: the place after the last is free until the producer   *)
(* catches up with the read index it knows.                                *)
LEMMA PushCopiesKeeps ==
  ASSUME RingInv, PushCopies
  PROVE  RingInv'
<1> USE DEF RingInv
<1> DEFINE pw == producer.write
           cr == consumer.read
           nx == After(producer.write)
<1>1. /\ producer.busy /\ producer.left > 0 /\ ~Full
      /\ samples' = [samples EXCEPT ![producer.write] = made + 1]
      /\ made' = made + 1
      /\ fifo' = Append(fifo, made + 1)
      /\ producer' = [producer EXCEPT !.write = After(@), !.left = @ - 1]
      /\ UNCHANGED <<read, write, consumer>>
  BY DEF PushCopies
<1>2. nx \in Places
  BY Indices, AfterWraps
<1>3. RingType'
  <2>1. producer.left \in Nat /\ made \in Nat
    BY DEF RingType
  <2>2. producer.left - 1 \in Nat /\ made + 1 \in Nat
    BY <1>1, <2>1
  <2>3. producer' \in [busy : BOOLEAN, read : Places, write : Places, left : Nat]
    BY <1>1, <1>2, <2>2 DEF RingType
  <2>4. samples' \in [Places -> Nat] /\ fifo' \in Seq(Nat)
    BY <1>1, <2>2 DEF RingType
  <2> QED
    BY <1>1, <2>2, <2>3, <2>4 DEF RingType
<1>4. /\ producer'.read = producer.read /\ producer'.write = nx
      /\ producer'.busy = producer.busy
  BY <1>1 DEF RingType
<1>5. Turn(nx) = Turn(pw) + 1
  BY <1>1, Indices, AheadAfter DEF Full, Turn
<1>6. IndexOrder'
  <2>1. Turn(write) <= Turn(nx)
    BY <1>5, Turns DEF IndexOrder
  <2> QED
    BY <1>1, <1>4, <2>1 DEF IndexOrder, Turn
<1>7. OwnIndex'
  BY <1>1, <1>4 DEF OwnIndex
<1>8. Turn(cr) <= Turn(pw) /\ Turn(cr) <= Turn(nx)
  BY <1>5, Turns DEF IndexOrder
<1>9. Ahead(cr, pw) = Turn(pw) - Turn(cr) /\ Ahead(cr, nx) = Turn(nx) - Turn(cr)
  BY <1>2, <1>8, Indices, AheadShift DEF Turn
<1>10. Ahead(cr, nx) = Ahead(cr, pw) + 1
  BY <1>5, <1>9, Turns
<1>11. Held'
  <2>1. /\ Len(fifo) \in Nat /\ Len(fifo') = Len(fifo) + 1
        /\ fifo'[Len(fifo) + 1] = made + 1
        /\ \A k \in 1..Len(fifo) : fifo'[k] = fifo[k]
    BY <1>1 DEF RingType
  <2>2. Len(fifo) = Ahead(cr, pw)
    BY DEF Held
  <2>3. Len(fifo') = Ahead(cr, nx)
    BY <1>10, <2>1, <2>2
  <2>4. ASSUME NEW i \in Places, Ahead(cr, i) < Len(fifo')
        PROVE  fifo'[Ahead(cr, i) + 1] = samples'[i]
    <3>1. CASE i = pw
      <4>1. samples'[i] = made + 1
        BY <1>1, <3>1 DEF RingType
      <4> QED
        BY <2>1, <2>2, <3>1, <4>1
    <3>2. CASE i # pw
      <4>1. samples'[i] = samples[i]
        BY <1>1, <3>2 DEF RingType
      <4>2. Ahead(cr, i) \in Nat /\ Ahead(cr, i) # Ahead(cr, pw)
        BY <3>2, Indices, AheadRange
      <4>3. Ahead(cr, i) < Len(fifo)
        BY <2>1, <2>2, <2>4, <4>2
      <4>4. fifo[Ahead(cr, i) + 1] = samples[i]
        BY <4>3 DEF Held
      <4> HIDE DEF cr
      <4>5. Ahead(cr, i) + 1 \in 1..Len(fifo)
        BY <2>1, <4>2, <4>3
      <4> QED
        BY <2>1, <4>1, <4>4, <4>5
    <3> QED
      BY <3>1, <3>2
  <2> QED
    BY <1>1, <1>4, <2>3, <2>4 DEF Held
<1> QED
  BY <1>3, <1>6, <1>7, <1>11

(* The store of push, and the samples it dropped.                          *)
LEMMA PushStoresKeeps ==
  ASSUME RingInv, PushStores
  PROVE  RingInv'
<1> USE DEF RingInv
<1>1. /\ write' = producer.write /\ made' = made + producer.left
      /\ producer' = [producer EXCEPT !.busy = FALSE, !.left = 0]
      /\ UNCHANGED <<samples, read, consumer, fifo>>
  BY DEF PushStores
<1>2. RingType'
  <2>1. producer.left \in Nat /\ made \in Nat
    BY DEF RingType
  <2>2. made' \in Nat
    BY <1>1, <2>1
  <2>3. producer' \in [busy : BOOLEAN, read : Places, write : Places, left : Nat]
    BY <1>1 DEF RingType
  <2> QED
    BY <1>1, <2>2, <2>3, Indices DEF RingType
<1>3. /\ producer'.read = producer.read /\ producer'.write = producer.write
  BY <1>1 DEF RingType
<1>4. IndexOrder'
  BY <1>1, <1>3, Indices, AheadRange DEF IndexOrder, Turn
<1>5. OwnIndex'
  BY <1>1, <1>3 DEF OwnIndex
<1>6. Held'
  BY <1>1, <1>3 DEF Held
<1> QED
  BY <1>2, <1>4, <1>5, <1>6

-----------------------------------------------------------------------------
(* The loads of pop and clear.                                             *)
LEMMA ConsumerLoadsKeeps ==
  ASSUME RingInv,
         \/ \E count \in 1..MaxBatch : PopLoads(count)
         \/ ClearLoads
  PROVE  RingInv'
<1> USE DEF RingInv
<1>1. PICK i \in Loaded(consumer.write, write),
           does \in {"pop", "clear"}, left \in Nat :
        consumer' = [does |-> does, read |-> read, write |-> i, left |-> left]
  BY SizeAssumption DEF PopLoads, ClearLoads
<1>2. /\ consumer.does = "idle"
      /\ UNCHANGED <<samples, read, write, producer, made, fifo>>
  BY DEF PopLoads, ClearLoads
<1>3. consumer.read = read
  BY <1>2 DEF OwnIndex
<1>4. /\ i \in Places /\ Turn(consumer.write) <= Turn(i)
      /\ Turn(i) <= Turn(write)
  BY Indices, LoadedBetween DEF IndexOrder, Turn
<1>5. RingType'
  BY <1>1, <1>2, <1>4 DEF RingType
<1>6. IndexOrder'
  BY <1>1, <1>2, <1>3, <1>4, Indices, AheadRange DEF IndexOrder, Turn
<1>7. OwnIndex'
  BY <1>1, <1>2 DEF OwnIndex
<1>8. Held'
  BY <1>1, <1>2, <1>3 DEF Held
<1> QED
  BY <1>5, <1>6, <1>7, <1>8

(* What a pop finds when it has not reached the write index it knows: a    *)
(* sample, the oldest, and the push elsewhere.                             *)
LEMMA PopFinds ==
  ASSUME RingInv, consumer.read # consumer.write
  PROVE  /\ Turn(consumer.read) < Turn(consumer.write)
         /\ Len(fifo) > 0 /\ samples[consumer.read] = fifo[1]
         /\ producer.write # consumer.read
<1> USE DEF RingInv
<1>1. Turn(consumer.read) # Turn(consumer.write)
  BY Indices, AheadRange DEF Turn
<1>2. /\ Turn(consumer.read) < Turn(consumer.write)
      /\ Turn(consumer.read) < Turn(producer.write)
  BY <1>1, Indices, AheadRange DEF IndexOrder, Turn
<1>3. Ahead(consumer.read, producer.write)
        = Turn(producer.write) - Turn(consumer.read)
  BY <1>2, Indices, AheadRange, AheadShift DEF Turn
<1>4. Len(fifo) > 0
  <2>1. Len(fifo) = Turn(producer.write) - Turn(consumer.read)
    BY <1>3 DEF Held
  <2> QED
    BY <1>2, <2>1, Turns
<1>5. Ahead(consumer.read, consumer.read) = 0
  BY Indices, AheadRange
<1>6. samples[consumer.read] = fifo[1]
  BY <1>4, <1>5, Indices DEF Held
<1>7. producer.write # consumer.read
  BY <1>2, Indices, AheadRange DEF Turn
<1> QED
  BY <1>2, <1>4, <1>6, <1>7

(* The copy of pop.                                                        *)
LEMMA PopCopiesKeeps ==
  ASSUME RingInv, PopCopies
  PROVE  RingInv'
<1> USE DEF RingInv
<1> DEFINE cr == consumer.read
           nx == After(consumer.read)
<1>1. /\ consumer.does = "pop" /\ consumer.left > 0
      /\ consumer.read # consumer.write
      /\ fifo' = SubSeq(fifo, 2, Len(fifo))
      /\ consumer' = [consumer EXCEPT !.read = After(@), !.left = @ - 1]
      /\ UNCHANGED <<samples, read, write, producer, made>>
  BY DEF PopCopies
<1>2. nx \in Places
  BY Indices, AfterWraps
<1>3. Turn(cr) < Turn(consumer.write) /\ Len(fifo) > 0
  BY <1>1, PopFinds
<1>4. fifo \in Seq(Nat) /\ Len(fifo) \in Nat
  BY DEF RingType
<1>5. /\ fifo' \in Seq(Nat) /\ Len(fifo) \in Nat
      /\ Len(fifo') = Len(fifo) - 1
      /\ \A k \in 1..Len(fifo) - 1 : fifo'[k] = fifo[k + 1]
  <2> DEFINE one == 1
  <2>1. one \in Nat /\ one <= Len(fifo)
    BY <1>3, <1>4
  <2>2. fifo' = SubSeq(fifo, one + 1, Len(fifo))
    BY <1>1
  <2> HIDE DEF one
  <2>3. /\ fifo' \in Seq(Nat) /\ Len(fifo') = Len(fifo) - one
        /\ \A k \in 1..Len(fifo) - one : fifo'[k] = fifo[one + k]
    BY <1>4, <2>1, <2>2, Rest
  <2> QED
    BY <1>4, <2>3 DEF one
<1>6. RingType'
  <2>1. consumer.left \in Nat
    BY DEF RingType
  <2>2. consumer.left - 1 \in Nat
    BY <1>1, <2>1
  <2>3. consumer' \in [does : {"idle", "pop", "clear"}, read : Places,
                      write : Places, left : Nat]
    BY <1>1, <1>2, <2>2 DEF RingType
  <2> QED
    BY <1>1, <1>5, <2>3 DEF RingType
<1>7. /\ consumer'.read = nx /\ consumer'.write = consumer.write
      /\ consumer'.does = "pop"
  BY <1>1 DEF RingType
<1>8. Turn(cr) < Size - 1
  BY <1>3, Turns, SizeAssumption
<1>9. Turn(nx) = Turn(cr) + 1
  BY <1>8, Indices, AheadAfter DEF Turn
<1>10. IndexOrder'
  <2>1. Turn(read) <= Turn(nx) /\ Turn(nx) <= Turn(consumer.write)
    BY <1>3, <1>9, Turns DEF IndexOrder
  <2> QED
    BY <1>1, <1>7, <2>1 DEF IndexOrder, Turn
<1>11. OwnIndex'
  BY <1>1, <1>7 DEF OwnIndex
<1>12. Turn(nx) <= Turn(producer.write) /\ Turn(cr) <= Turn(producer.write)
  BY <1>3, <1>9, Turns DEF IndexOrder
<1>13. /\ Ahead(nx, producer.write) = Turn(producer.write) - Turn(nx)
       /\ Ahead(cr, producer.write) = Turn(producer.write) - Turn(cr)
  BY <1>2, <1>12, Indices, AheadShift DEF Turn
<1>14. Len(fifo') = Ahead(nx, producer.write)
  <2>1. Len(fifo) = Turn(producer.write) - Turn(cr)
    BY <1>13 DEF Held
  <2> QED
    BY <1>5, <1>9, <1>13, <2>1, Turns
<1>15. ASSUME NEW i \in Places, Ahead(nx, i) < Len(fifo')
       PROVE  fifo'[Ahead(nx, i) + 1] = samples'[i]
  <2>1. Ahead(nx, i) \in Nat
    BY <1>2, AheadRange
  <2>2. Ahead(cr, producer.write) < Size
    BY Indices, AheadRange
  <2>3. Ahead(nx, i) < Size - 1
    BY <1>5, <1>15, <2>1, <2>2, SizeAssumption DEF Held
  <2>4. Ahead(cr, i) = Ahead(nx, i) + 1
    <3>1. nx = IF cr = Size - 1 THEN 0 ELSE cr + 1
      BY Indices, AfterWraps
    <3> QED
      BY <2>3, <3>1, Indices, SizeAssumption DEF Places, Ahead
  <2>5. Ahead(cr, i) < Len(fifo)
    BY <1>5, <1>15, <2>1, <2>4
  <2>6. fifo[Ahead(cr, i) + 1] = samples[i]
    BY <2>5 DEF Held
  <2>7. Ahead(nx, i) + 1 \in 1..Len(fifo) - 1
    BY <1>5, <1>15, <2>1
  <2>8. fifo'[Ahead(nx, i) + 1] = fifo[(Ahead(nx, i) + 1) + 1]
    BY <1>5, <2>7
  <2> QED
    BY <1>1, <2>4, <2>6, <2>8
<1>16. Held'
  BY <1>1, <1>7, <1>14, <1>15 DEF Held
<1> QED
  BY <1>6, <1>10, <1>11, <1>16

(* The store of pop.                                                       *)
LEMMA PopStoresKeeps ==
  ASSUME RingInv, PopStores
  PROVE  RingInv'
<1> USE DEF RingInv
<1>1. /\ read' = consumer.read
      /\ consumer' = [consumer EXCEPT !.does = "idle", !.left = 0]
      /\ UNCHANGED <<samples, write, producer, made, fifo>>
  BY DEF PopStores
<1>2. RingType'
  BY <1>1 DEF RingType
<1>3. /\ consumer'.read = consumer.read /\ consumer'.write = consumer.write
  BY <1>1 DEF RingType
<1>4. IndexOrder'
  BY <1>1, <1>3, Indices, AheadRange DEF IndexOrder, Turn
<1>5. OwnIndex'
  BY <1>1, <1>3 DEF OwnIndex
<1>6. Held'
  BY <1>1, <1>3 DEF Held
<1> QED
  BY <1>2, <1>4, <1>5, <1>6

(* The store of clear: it skips to the write index it knows, and the       *)
(* samples beyond stay.                                                    *)
LEMMA ClearStoresKeeps ==
  ASSUME RingInv, ClearStores
  PROVE  RingInv'
<1> USE DEF RingInv
<1> DEFINE cw == consumer.write
           k == Ahead(read, consumer.write)
<1>1. /\ consumer.does = "clear" /\ read' = cw
      /\ fifo' = SubSeq(fifo, k + 1, Len(fifo))
      /\ consumer' = [consumer EXCEPT !.does = "idle", !.read = consumer.write]
      /\ UNCHANGED <<samples, write, producer, made>>
  BY DEF ClearStores
<1>2. consumer.read = read
  BY <1>1 DEF OwnIndex
<1>3. /\ Turn(read) \in Nat /\ Turn(cw) \in Nat /\ Turn(write) \in Nat
      /\ Turn(producer.write) \in Nat
      /\ Turn(read) <= Turn(cw) /\ Turn(cw) <= Turn(write)
      /\ Turn(write) <= Turn(producer.write)
  BY <1>2, Indices, AheadRange DEF IndexOrder, Turn
<1>4. Turn(cw) <= Turn(producer.write) /\ Turn(read) <= Turn(producer.write)
  BY <1>3
<1>5. /\ k = Turn(cw) - Turn(read)
      /\ Ahead(read, producer.write) = Turn(producer.write) - Turn(read)
      /\ Ahead(cw, producer.write) = Turn(producer.write) - Turn(cw)
  BY <1>3, <1>4, Indices, AheadShift DEF Turn
<1>6. Len(fifo) = Ahead(read, producer.write)
  BY <1>2 DEF Held
<1>7. k \in Nat /\ k <= Len(fifo) /\ Len(fifo) \in Nat
  BY <1>3, <1>4, <1>5, <1>6
<1>8. /\ fifo' \in Seq(Nat) /\ Len(fifo') = Len(fifo) - k
      /\ \A j \in 1..Len(fifo) - k : fifo'[j] = fifo[k + j]
  <2>1. fifo \in Seq(Nat)
    BY DEF RingType
  <2> HIDE DEF k
  <2> QED
    BY <1>1, <1>7, <2>1, Rest
<1>9. RingType'
  BY <1>1, <1>8 DEF RingType
<1>10. consumer'.read = cw /\ consumer'.write = cw
  BY <1>1 DEF RingType
<1>11. IndexOrder'
  BY <1>1, <1>3, <1>10 DEF IndexOrder, Turn
<1>12. OwnIndex'
  BY <1>1, <1>10 DEF OwnIndex
<1>13. Len(fifo') = Ahead(cw, producer.write)
  BY <1>3, <1>5, <1>6, <1>8
<1>14. ASSUME NEW i \in Places, Ahead(cw, i) < Len(fifo')
       PROVE  fifo'[Ahead(cw, i) + 1] = samples'[i]
  <2>1. /\ Ahead(cw, i) \in Nat
        /\ Ahead(read, producer.write) < Size
    BY Indices, AheadRange
  <2>2. Ahead(cw, i) + k < Len(fifo) /\ Len(fifo) < Size
    BY <1>6, <1>7, <1>8, <1>14, <2>1
  <2>3. Ahead(read, i) = Ahead(cw, i) + k
    BY <2>2, Indices, SizeAssumption, SMTT(30) DEF Places, Ahead
  <2>4. fifo[Ahead(read, i) + 1] = samples[i]
    BY <1>2, <2>2, <2>3 DEF Held
  <2> HIDE DEF k, cw
  <2>5. Ahead(cw, i) + 1 \in 1..Len(fifo) - k
    BY <1>7, <2>1, <2>2
  <2>6. fifo'[Ahead(cw, i) + 1] = fifo[k + (Ahead(cw, i) + 1)]
    BY <1>8, <2>5
  <2>7. k + (Ahead(cw, i) + 1) = (Ahead(cw, i) + k) + 1
    BY <1>7, <2>1
  <2> QED
    BY <1>1, <2>3, <2>4, <2>6, <2>7
<1>15. Held'
  BY <1>1, <1>10, <1>13, <1>14 DEF Held
<1> QED
  BY <1>9, <1>11, <1>12, <1>15

-----------------------------------------------------------------------------
(* Every step of push, pop and clear keeps the invariant.                  *)
LEMMA RingStep == RingInv /\ [RingNext]_ringVars => RingInv'
<1> SUFFICES ASSUME RingInv, [RingNext]_ringVars PROVE RingInv'
  OBVIOUS
<1>1. CASE \E count \in 1..MaxBatch : PushLoads(count)
  BY <1>1, PushLoadsKeeps
<1>2. CASE (\E count \in 1..MaxBatch : PopLoads(count)) \/ ClearLoads
  BY <1>2, ConsumerLoadsKeeps
<1>3. CASE PushCopies
  BY <1>3, PushCopiesKeeps
<1>4. CASE PushStores
  BY <1>4, PushStoresKeeps
<1>5. CASE PopCopies
  BY <1>5, PopCopiesKeeps
<1>6. CASE PopStores
  BY <1>6, PopStoresKeeps
<1>7. CASE ClearStores
  BY <1>7, ClearStoresKeeps
<1>8. CASE UNCHANGED ringVars
  BY <1>8 DEF ringVars, RingInv, RingType, IndexOrder, OwnIndex, Held, Turn
<1> QED
  BY <1>1, <1>2, <1>3, <1>4, <1>5, <1>6, <1>7, <1>8 DEF RingNext

(* The indices of the two threads stay in order within one turn, and the   *)
(* places between them hold what was accepted and not yet taken: for every *)
(* size of the ring and of the calls, with no lock and with indices that   *)
(* are seen late.                                                          *)
THEOREM RingConsistent == RingSpec => []RingInv
<1> QED
  BY RingInitially, RingStep, PTL DEF RingSpec

(* A pop takes the oldest sample accepted, from a place no push is writing *)
(* to.                                                                     *)
THEOREM PopTakesOldest == RingSpec => TakesOldest
<1> DEFINE Oldest ==
      PopCopies =>
        /\ fifo # <<>> /\ samples[consumer.read] = Head(fifo)
        /\ producer.busy => producer.write # consumer.read
<1>1. RingInv => Oldest
  <2> SUFFICES ASSUME RingInv, PopCopies PROVE Oldest
    OBVIOUS
  <2>1. consumer.read # consumer.write
    BY DEF PopCopies
  <2>2. /\ Len(fifo) > 0 /\ samples[consumer.read] = fifo[1]
        /\ producer.write # consumer.read
    BY <2>1, PopFinds
  <2>3. fifo # <<>> /\ Head(fifo) = fifo[1]
    BY <2>2 DEF RingInv, RingType
  <2> QED
    BY <2>2, <2>3
<1>2. RingInv /\ [RingNext]_ringVars => [Oldest]_ringVars
  BY <1>1
<1> QED
  BY <1>2, RingConsistent, PTL DEF RingSpec, TakesOldest
=============================================================================
