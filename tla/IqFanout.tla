------------------------------ MODULE IqFanout ------------------------------
(***************************************************************************)
(* The receive side of the daemon: the sample queue (src/src/iq.c), the    *)
(* publisher that cuts it into numbered frames (src/src/publisher.c), and  *)
(* write_iq_clients of src/src/flex1500d.c, which sends one frame to all   *)
(* IQ clients and, resampled, to the rtl_tcp client, and only then lets    *)
(* the publisher go on.                                                    *)
(*                                                                         *)
(* The loop's steps are taken in any order.  A frame is Bytes units long   *)
(* on every connection.                                                    *)
(* A peer that reads takes any part of what it is sent, one that stalls    *)
(* nothing (EAGAIN), one that is gone makes the send fail.                 *)
(***************************************************************************)
EXTENDS IqRing, FiniteSets

CONSTANTS
  Clients,        \* the IQ client slots, MAX_IQ_CLIENTS of them
  Bytes,          \* length of a frame
  FrameSamples,   \* samples_per_frame
  MaxSample       \* bound: samples the radio delivers

ASSUME FanoutAssumption ==
  /\ Clients \subseteq Nat \ {0} /\ IsFiniteSet(Clients)
  /\ {Bytes, FrameSamples} \subseteq Nat \ {0}
  /\ MaxSample \in Nat

VARIABLES
  made,     \* samples the radio has delivered
  ring,     \* flex1500_iq_ring
  frame,    \* publisher.pending: the samples of the frame, <<>> when none
  sequence, \* publisher.next_sequence
  fd,       \* iq.fd[i] >= 0
  offset,   \* iq.pending_offset
  rtl,      \* the rtl_ fields of struct iq_clients
  peer,     \* what the other end of each connection does
  got       \* for checking: frame and part of it each client received last

conn == <<fd, offset, rtl>>

vars == <<made, ring, frame, sequence, conn, peer, got>>

RtlClient == 0

AllPeers == Clients \cup {RtlClient}

NoRtl == [open |-> FALSE, length |-> 0, offset |-> 0, complete |-> FALSE]

Nothing == [frame |-> 0, part |-> 0]

Init ==
  /\ made = 0 /\ ring = EmptyRing /\ frame = <<>> /\ sequence = 0
  /\ fd = [c \in Clients |-> FALSE] /\ offset = [c \in Clients |-> 0]
  /\ rtl = NoRtl
  /\ peer = [c \in AllPeers |-> "gone"]
  /\ got = [c \in Clients |-> Nothing]

Connected == rtl.open \/ \E c \in Clients : fd[c]

-----------------------------------------------------------------------------
(* process_packet: n samples, of which the queue drops what does not fit. *)
Receive(n) ==
  /\ made + n <= MaxSample
  /\ made' = made + n
  /\ ring' = Push(ring, [i \in 1..n |-> made + i])
  /\ UNCHANGED <<frame, sequence, conn, peer, got>>

(* A retune, and the stop of a transmission, clear the queue only. *)
ClearRing ==
  /\ ring.size # 0 /\ ring' = Clear(ring)
  /\ UNCHANGED <<made, frame, sequence, conn, peer, got>>

(* begin_fresh_receive_stream, for the first client to connect. *)
FreshStream ==
  IF Connected THEN UNCHANGED <<ring, frame>>
               ELSE ring' = Clear(ring) /\ frame' = <<>>

OpenIqStream(c) ==
  /\ ~fd[c] /\ \A b \in Clients : b < c => fd[b]
  /\ FreshStream
  /\ fd' = [fd EXCEPT ![c] = TRUE]
  /\ offset' = [offset EXCEPT ![c] = 0]
  /\ peer' = [peer EXCEPT ![c] = "reads"]
  /\ got' = [got EXCEPT ![c] = Nothing]
  /\ UNCHANGED <<made, sequence, rtl>>

(* rtl_source_complete is not touched. *)
AcceptRtl ==
  /\ ~rtl.open
  /\ FreshStream
  /\ rtl' = [rtl EXCEPT !.open = TRUE, !.length = 0, !.offset = 0]
  /\ peer' = [peer EXCEPT ![RtlClient] = "reads"]
  /\ UNCHANGED <<made, sequence, fd, offset, got>>

(* SET_SAMPLE_RATE: a new resampler, and what it had produced is lost. *)
SetSampleRate ==
  /\ rtl.open
  /\ rtl' = [rtl EXCEPT !.length = 0, !.offset = 0, !.complete = FALSE]
  /\ UNCHANGED <<made, ring, frame, sequence, fd, offset, peer, got>>

(* The end of the rtl_tcp command stream. *)
RtlHangup ==
  /\ rtl.open /\ peer[RtlClient] = "gone"
  /\ rtl' = [rtl EXCEPT !.open = FALSE, !.length = 0, !.offset = 0]
  /\ UNCHANGED <<made, ring, frame, sequence, fd, offset, peer, got>>

(* A lost device: the IQ clients are closed, the rtl_tcp client is not. *)
Recover ==
  /\ fd' = [c \in Clients |-> FALSE]
  /\ frame' = <<>> /\ ring' = Clear(ring)
  /\ UNCHANGED <<made, sequence, offset, rtl, peer, got>>

-----------------------------------------------------------------------------
(* prepare_frame *)
Ready == frame # <<>> \/ ring.size # 0

Count == IF FrameSamples < ring.size THEN FrameSamples ELSE ring.size

Pending == IF frame # <<>> THEN frame ELSE Front(ring, Count)

Queue == IF frame # <<>> THEN ring ELSE Pop(ring, Count)

Number == IF frame # <<>> THEN sequence ELSE sequence + 1

(***************************************************************************)
(* What send() returns for n bytes when k fit into the socket: how many    *)
(* were taken, EAGAIN, or an error.  A send of nothing returns 0.          *)
(***************************************************************************)
Blocked == -1

Broken == -2

Sends(c, n, k) ==
  IF n = 0 THEN 0
  ELSE IF peer[c] = "reads" THEN IF k < n THEN k ELSE n
  ELSE IF peer[c] = "stalls" THEN Blocked
  ELSE Broken

Taken(n) == IF n > 0 THEN n ELSE 0

(* The rtl_tcp connection: the frame is resampled once, what is left of it *)
(* is sent, and anything but progress or EAGAIN closes the connection.     *)
(* The resampler returns 0, which would close it too, for no frame of the  *)
(* publisher: that has a sample at least, every rate accepted yields one   *)
(* or more for it, and rtl_pending holds 64 for each, the highest rate.    *)
Resampled ==
  IF rtl.open /\ ~rtl.complete /\ rtl.length = 0
  THEN [rtl EXCEPT !.length = Bytes, !.offset = 0] ELSE rtl

RtlSent(r, n) ==
  IF ~r.open \/ n = Blocked THEN r
  ELSE IF n <= 0 THEN NoRtl
  ELSE IF r.offset + n < r.length THEN [r EXCEPT !.offset = @ + n]
  ELSE [r EXCEPT !.length = 0, !.offset = 0, !.complete = TRUE]

(* The IQ connections: one that has the whole frame is passed over.        *)
Owed(c) ==
  IF c = RtlClient THEN Resampled.length - Resampled.offset
  ELSE IF fd[c] THEN Bytes - offset[c] ELSE 0

(* Mutant: a failed send is taken for EAGAIN. *)
Removed_Never(c, sent) == FALSE

Removed(c, sent) == fd[c] /\ sent[c] = Broken

(* Mutant: the frame is finished as soon as one client has it. *)
Incomplete_Any(r, left, done) ==
  (r.open /\ r.length > 0) \/ \A c \in left : done[c] < Bytes

(* WOULD_BLOCK: somebody still lacks a part of the frame. *)
Incomplete(r, left, done) ==
  (r.open /\ r.length > 0) \/ \E c \in left : done[c] < Bytes

(* write_iq_clients.  The frame is over when everybody has it (OK) or      *)
(* nobody is left (DISCONNECTED).                                          *)
WriteIqClients(sent) ==
  LET r    == RtlSent(Resampled, sent[RtlClient])
      left == {c \in Clients : fd[c] /\ ~Removed(c, sent)}
      done == [c \in Clients |-> IF Removed(c, sent) THEN 0
                               ELSE offset[c] + Taken(sent[c])]
      any  == r.open \/ left # {}
      ok   == any /\ ~Incomplete(r, left, done)
  IN  /\ fd' = [c \in Clients |-> c \in left]
      /\ offset' = [c \in Clients |-> IF ok THEN 0 ELSE done[c]]
      /\ rtl' = IF ok THEN [r EXCEPT !.complete = FALSE] ELSE r
      /\ frame' = IF ok \/ ~any THEN <<>> ELSE Pending
      /\ got' = [c \in Clients |-> IF sent[c] > 0
                                 THEN [frame |-> Number, part |-> done[c]]
                                 ELSE got[c]]

(* One call of flex1500_iq_publisher_pump. *)
Publish ==
  /\ Connected /\ Ready
  /\ ring' = Queue
  /\ sequence' = Number
  /\ \E sent \in {[c \in AllPeers |-> Sends(c, Owed(c), fits[c])] :
                    fits \in [AllPeers -> 1..Bytes]} : WriteIqClients(sent)
  /\ UNCHANGED <<made, peer>>

-----------------------------------------------------------------------------
(* The other ends.  A peer that is gone does not come back on the same     *)
(* connection.                                                             *)
PeerChanges(c, p) ==
  /\ IF c = RtlClient THEN rtl.open ELSE fd[c]
  /\ peer[c] \notin {p, "gone"}
  /\ peer' = [peer EXCEPT ![c] = p]
  /\ UNCHANGED <<made, ring, frame, sequence, conn, got>>

Next ==
  \/ \E n \in 1..2 : Receive(n)
  \/ ClearRing
  \/ \E c \in Clients : OpenIqStream(c)
  \/ AcceptRtl \/ SetSampleRate \/ RtlHangup
  \/ Recover
  \/ Publish
  \/ \E c \in AllPeers, p \in {"reads", "stalls", "gone"} : PeerChanges(c, p)

Spec == Init /\ [][Next]_vars

(* The loop publishes in every turn. *)
FairSpec == Spec /\ WF_vars(Publish)

-----------------------------------------------------------------------------
TypeOK ==
  /\ made \in 0..MaxSample /\ sequence \in 0..MaxSample
  /\ ring \in [samples : [Slots -> 0..MaxSample], read_index : Slots,
               size : 0..Capacity]
  /\ frame \in Seq(1..MaxSample) /\ Len(frame) <= FrameSamples
  /\ fd \in [Clients -> BOOLEAN] /\ offset \in [Clients -> 0..Bytes]
  /\ rtl \in [open : BOOLEAN, length : {0, Bytes}, offset : 0..Bytes - 1,
              complete : BOOLEAN]
  /\ peer \in [AllPeers -> {"reads", "stalls", "gone"}]
  /\ got \in [Clients -> [frame : 0..MaxSample, part : 0..Bytes]]

(* No sample is sent twice or out of order: those of the pending frame and *)
(* then those in the queue are in the order in which the radio sent them,  *)
(* each once, whatever was dropped, cleared or held back in between and    *)
(* wherever in the circular buffer they lie.                               *)
InOrder ==
  LET s == frame \o Contents(ring)
  IN  \A i, j \in DOMAIN s : i < j => s[i] < s[j]

(* An IQ client that stays connected receives whole frames with            *)
(* consecutive numbers, whatever the other clients do.                     *)
NextFrame(c) ==
  got[c].frame # 0 /\ got'[c].frame \notin {0, got[c].frame} =>
    got[c].part = Bytes /\ got'[c].frame = got[c].frame + 1

WholeFrames == [][\A c \in Clients : NextFrame(c)]_vars

(* Once clients neither stall nor join nor change the rate, the publisher  *)
(* does not stay on a frame: clients that are gone, have the frame already *)
(* or joined half-way through it do not block it.                          *)
Disturb == AcceptRtl \/ SetSampleRate \/ \E c \in Clients : OpenIqStream(c)

FramesFinish ==
  <>[](\A c \in AllPeers : peer[c] # "stalls") /\ <>[][~Disturb]_vars =>
    (frame # <<>> /\ Connected ~> frame = <<>> \/ ~Connected)

-----------------------------------------------------------------------------
(* docs/NETWORK_API.md: "A stalled or disconnected consumer is removed     *)
(* without interrupting the others."  The rtl_tcp client is disconnected   *)
(* only when its own end is gone.                                          *)
RtlUninterrupted == [][rtl.open /\ ~rtl'.open => peer[RtlClient] = "gone"]_vars
=============================================================================
