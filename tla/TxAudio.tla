------------------------------ MODULE TxAudio -------------------------------
(***************************************************************************)
(* The path of transmitted audio: bytes of the transmit connection are cut *)
(* into frames and collected in the prebuffer or, once keyed, in the queue *)
(* of src/src/tx_audio_stream.c (src/src/flex1500d.c, end of the loop);    *)
(* tune_complete of src/src/usb_rx.c renders the queue into the transfers  *)
(* of the isochronous output; a normal stop lets both run empty first.     *)
(*                                                                         *)
(* The session and the controller are reduced to what decides where a      *)
(* frame goes; Daemon has them in full.  A network frame is the number it  *)
(* got when it was complete, a microphone frame is Mic.  DSP, fades and    *)
(* the counters of levels are left out.                                    *)
(***************************************************************************)
EXTENDS Integers, Sequences, SequencesExt

CONSTANTS
  FrameBytes,    \* frame_bytes of the session's profile
  Capacity,      \* FLEX1500_TX_AUDIO_CAPACITY
  Prebuffer,     \* FLEX1500_NETWORK_TX_MIN_PREBUFFER_FRAMES
  PrebufferRoom, \* frames network_prebuffer can hold
  Transfers,     \* TUNE_TRANSFER_COUNT
  SlotFrames,    \* frames in a transfer
  MaxFrames      \* bound: frames the network delivers

ASSUME TxAudioAssumption ==
  /\ {FrameBytes, Capacity, Prebuffer, Transfers, SlotFrames} \subseteq Nat \ {0}
  /\ MaxFrames \in Nat /\ PrebufferRoom \in Nat
  /\ Prebuffer <= Capacity /\ Prebuffer <= PrebufferRoom

VARIABLES
  net,      \* the fields of network_tx that matter here
  client,   \* tx_client >= 0
  tail,     \* network_tail_bytes
  prebuf,   \* network_prebuffer
  tx,       \* the transmit flags of the driver
  queue,    \* microphone_stream
  slots,    \* the submitted transfers, oldest first
  report,   \* stop_requested_, graceful_drained_, graceful_discarded_frames
  made,     \* for checking: network frames completed so far
  read,     \* for checking: bytes read from this connection, modulo a frame
  aired,    \* for checking: the last network frame on the air
  cut,      \* for checking: made when the network last stopped transmitting
  played,   \* for checking: frames on the air since the drain began
  lost      \* for checking: a frame of the connection found no room

input == <<net, client, tail, prebuf, made, read, lost>>

output == <<tx, queue, slots, report, aired, cut, played>>

vars == <<input, output>>

Mic == 0

NoSession == [reserved |-> FALSE, connected |-> FALSE, buffered |-> 0,
              keyed |-> FALSE]

(* source: the owner the controller started; alive: tune_streaming and     *)
(* running; accepting: tx_accepting_audio, not graceful_stop_requested     *)
(* and, for the microphone, microphone_capture_enabled.                    *)
Idle == [phase |-> "idle", source |-> "none", accepting |-> FALSE,
         alive |-> FALSE]

NoReport == [requested |-> 0, drained |-> 0, discarded |-> 0]

Init ==
  /\ net = NoSession /\ client = FALSE /\ tail = 0 /\ prebuf = <<>>
  /\ tx = Idle /\ queue = <<>> /\ slots = <<>> /\ report = NoReport
  /\ made = 0 /\ read = 0 /\ aired = 0 /\ cut = 0 /\ lost = FALSE
  /\ played = 0

(* The thread is in a start or a drain until these return. *)
Free == tx.phase \in {"idle", "on"}

AtMost(s, n) == SubSeq(s, 1, IF n < Len(s) THEN n ELSE Len(s))

-----------------------------------------------------------------------------
(* flex1500_tx_audio_stream_push_: what does not fit is dropped.           *)
Pushed(frames) == queue \o AtMost(frames, Capacity - Len(queue))

(* flex1500_usb_rx_network_tx_available *)
Available ==
  IF tx.source = "network" /\ tx.accepting THEN Capacity - Len(queue) ELSE 0

(* Mutant: the room is that of an empty queue. *)
ReadLimit_IgnoresQueue ==
  FrameBytes * (IF net.keyed THEN Capacity ELSE Prebuffer - net.buffered) - tail

(* receive_limit *)
ReadLimit ==
  FrameBytes * (IF net.keyed THEN Available ELSE Prebuffer - net.buffered) - tail

(* flex1500_network_tx_record_data *)
Recorded(n, frames) ==
  IF ~n.connected THEN n
  ELSE [n EXCEPT !.buffered =
          IF @ + frames < Prebuffer THEN @ + frames ELSE Prebuffer]

(* Where n new frames go, from the connection or from POST /v1/tx/audio.   *)
Deliver(n) ==
  LET frames == [i \in 1..n |-> made + i]
      kept   == IF net.keyed THEN AtMost(frames, Available)
                ELSE AtMost(frames, PrebufferRoom - Len(prebuf))
  IN  /\ made + n <= MaxFrames
      /\ made' = made + n
      /\ IF net.keyed THEN queue' = queue \o kept /\ UNCHANGED prebuf
                      ELSE prebuf' = prebuf \o kept /\ UNCHANGED queue

(* One read of the connection.  The bytes of an incomplete frame are kept. *)
ReadStream(bytes) ==
  LET total == tail + bytes
      n     == total \div FrameBytes
  IN  /\ Free /\ client /\ bytes <= ReadLimit
      /\ Deliver(n)
      /\ tail' = total % FrameBytes
      /\ read' = (read + bytes) % FrameBytes
      /\ net' = IF net.reserved THEN Recorded(net, n) ELSE net
      /\ lost' = \/ lost
                 \/ /\ net.reserved
                    /\ Len(queue' \o prebuf') < Len(queue \o prebuf) + n
      /\ UNCHANGED <<client, tx, slots, report, aired, cut, played>>

(* POST /v1/tx/audio, a frame at a time; it attaches the session itself. *)
PostAudio ==
  /\ Free /\ net.reserved
  /\ Deliver(1)
  /\ net' = Recorded([net EXCEPT !.connected = TRUE,
                                 !.buffered = IF net.connected THEN @ ELSE 0], 1)
  /\ UNCHANGED <<client, tail, read, lost, tx, slots, report, aired, cut,
                 played>>

-----------------------------------------------------------------------------
(* POST /v1/tx/session; Daemon shows that no connection is left over. *)
Acquire ==
  /\ tx.phase = "idle" /\ ~net.reserved /\ ~client
  /\ net' = [NoSession EXCEPT !.reserved = TRUE]
  /\ UNCHANGED <<client, tail, prebuf, made, read, lost, output>>

(* CONNECT /v1/tx/stream.  The tail of an earlier connection is not reset. *)
Connect ==
  /\ Free /\ net.reserved /\ ~net.connected
  /\ net' = [net EXCEPT !.connected = TRUE, !.buffered = 0]
  /\ client' = TRUE /\ prebuf' = <<>> /\ read' = 0
  /\ UNCHANGED <<tail, made, lost, output>>

(* release_tune_stream; the queue stays as it is until the next start.     *)
Stopped ==
  /\ tx' = Idle
  /\ slots' = <<>>
  /\ cut' = IF tx.source = "network" THEN made ELSE cut

StopIfKeyed ==
  IF net.keyed /\ tx.source = "network" THEN Stopped
  ELSE UNCHANGED <<tx, slots, cut>>

(* The client closes the transmit connection, and the loop reads it. *)
Hangup ==
  /\ Free /\ client /\ ReadLimit > 0
  /\ StopIfKeyed
  /\ net' = IF net.reserved
            THEN [net EXCEPT !.connected = FALSE, !.buffered = 0, !.keyed = FALSE]
            ELSE net
  /\ client' = FALSE /\ prebuf' = <<>> /\ tail' = 0
  /\ UNCHANGED <<made, read, lost, queue, report, aired, played>>

(* DELETE /v1/tx/session, and the orphaned connection closed after it. *)
Release ==
  /\ Free /\ net.reserved
  /\ StopIfKeyed
  /\ net' = NoSession
  /\ client' = FALSE
  /\ prebuf' = IF client THEN <<>> ELSE prebuf
  /\ tail' = IF client THEN 0 ELSE tail
  /\ UNCHANGED <<made, read, lost, queue, report, aired, played>>

(* The session's lease runs out. *)
Expire ==
  /\ Free /\ net.reserved
  /\ StopIfKeyed
  /\ net' = NoSession
  /\ client' = FALSE /\ prebuf' = <<>>
  /\ UNCHANGED <<tail, made, read, lost, queue, report, aired, played>>

(* The station's lease runs out: the connection is left open until the     *)
(* next request has been served.                                           *)
StationExpires ==
  /\ Free /\ net.reserved
  /\ StopIfKeyed
  /\ net' = NoSession
  /\ UNCHANGED <<client, prebuf, tail, made, read, lost, queue, report, aired,
                 played>>

CloseOrphan ==
  /\ Free /\ client /\ ~net.reserved
  /\ client' = FALSE /\ prebuf' = <<>> /\ tail' = 0
  /\ UNCHANGED <<net, made, read, lost, output>>

(* The session's transmission was ended by others: reconcile drops it. *)
Reconcile ==
  /\ Free /\ net.keyed /\ tx.source # "network"
  /\ net' = NoSession
  /\ client' = FALSE
  /\ prebuf' = IF client THEN <<>> ELSE prebuf
  /\ UNCHANGED <<tail, made, read, lost, output>>

-----------------------------------------------------------------------------
(* Mutant: the prebuffer is added to what the last transmission left. *)
StartQueue_NotCleared(frames) == IF frames = <<>> THEN <<>> ELSE Pushed(frames)

(* flex1500_tx_audio_stream_init, and the prebuffer pushed into it.        *)
StartQueue(frames) == AtMost(frames, Capacity)

(* audio_tx_start: the transfers run, silent at first, while the commands  *)
(* up to the transition unmute are sent.                                   *)
Start(source) ==
  /\ tx' = [phase |-> "prepare", source |-> source,
            accepting |-> source = "network", alive |-> TRUE]
  /\ queue' = StartQueue(IF source = "network" THEN prebuf ELSE <<>>)
  /\ slots' = [i \in 1..Transfers |-> <<>>]
  /\ UNCHANGED <<input, report, aired, played>>

(* PUT /v1/tx/ptt/start *)
PttStart ==
  /\ tx.phase = "idle"
  /\ net.reserved /\ net.connected /\ net.buffered = Prebuffer /\ ~net.keyed
  /\ Start("network") /\ UNCHANGED cut

(* A press, of an idle transmitter or preempting the network. *)
Press ==
  /\ Free /\ tx.source # "mic"
  /\ Start("mic")
  /\ cut' = IF tx.source = "network" THEN made ELSE cut

(* SET_TR(1) has been sent: the microphone is captured from here on, while *)
(* the transition is still muted.                                          *)
CaptureBegins ==
  /\ tx.phase = "prepare" /\ tx.source = "mic" /\ ~tx.accepting
  /\ tx' = [tx EXCEPT !.accepting = TRUE]
  /\ UNCHANGED <<input, queue, slots, report, aired, cut, played>>

StartSucceeds ==
  /\ tx.phase = "prepare" /\ tx.alive /\ tx.accepting
  /\ tx' = [tx EXCEPT !.phase = "on"]
  /\ net' = IF tx.source = "network" THEN [net EXCEPT !.keyed = TRUE] ELSE net
  /\ prebuf' = IF tx.source = "network" THEN <<>> ELSE prebuf
  /\ UNCHANGED <<client, tail, made, read, lost, queue, slots, report, aired,
                 cut, played>>

StartFails ==
  /\ tx.phase = "prepare"
  /\ tx' = Idle /\ slots' = <<>>
  /\ UNCHANGED <<input, queue, report, aired, cut, played>>

-----------------------------------------------------------------------------
(* process_packet: a packet of the microphone *)
MicPacket ==
  /\ tx.source = "mic"
  /\ queue' = IF tx.accepting THEN Pushed(<<Mic>>) ELSE queue
  /\ UNCHANGED <<input, tx, slots, report, aired, cut, played>>

(* flex1500_tx_audio_stream_render_iq16le: what it takes from the queue    *)
(* and what it leaves (mutant: read_index one behind).                     *)
Rendered == AtMost(queue, SlotFrames)

Unrendered_OffByOne == SubSeq(queue, SlotFrames, Len(queue))

Unrendered == SubSeq(queue, SlotFrames + 1, Len(queue))

(* tune_complete: the oldest transfer is done and is filled again. *)
Complete ==
  /\ tx.alive /\ slots # <<>>
  /\ LET heard == IF tx.phase = "prepare" THEN <<>> ELSE Head(slots)
     IN  aired' = IF heard # <<>> /\ Last(heard) # Mic THEN Last(heard) ELSE aired
  /\ played' = IF tx.phase = "drain" THEN played + Len(Head(slots)) ELSE played
  /\ slots' = Append(Tail(slots), Rendered)
  /\ queue' = Unrendered
  /\ UNCHANGED <<input, tx, report, cut>>

TransferFails ==
  /\ tx.alive /\ slots # <<>>
  /\ slots' = Tail(slots)
  /\ tx' = [tx EXCEPT !.alive = FALSE]
  /\ UNCHANGED <<input, queue, report, aired, cut, played>>

(* Mutant: only what is still queued counts. *)
Pending_QueueOnly == Len(queue)

(* Mutant: a submitted transfer counts although it is silent. *)
Pending_Transfers == Len(queue) + Len(slots)

(* flex1500_usb_rx_tx_pending_frames *)
Pending == Len(queue) + Len(FlattenSeq(slots))

(* Mutant: samples are still accepted. *)
BeginDrain_Accepting ==
  /\ tx' = [tx EXCEPT !.phase = "drain"]
  /\ report' = [requested |-> Pending, drained |-> 0, discarded |-> 0]
  /\ played' = 0

(* flex1500_usb_rx_microphone_tx_stop_graceful, up to its loop. *)
BeginDrain ==
  /\ tx' = [tx EXCEPT !.phase = "drain", !.accepting = FALSE]
  /\ report' = [requested |-> Pending, drained |-> 0, discarded |-> 0]
  /\ played' = 0

(* PUT /v1/tx/ptt/stop.  A session that has been preempted only forgets. *)
PttStop ==
  /\ Free /\ net.keyed
  /\ net' = [net EXCEPT !.keyed = FALSE, !.buffered = 0]
  /\ IF tx.source = "network" THEN BeginDrain
     ELSE UNCHANGED <<tx, report, played>>
  /\ UNCHANGED <<client, tail, prebuf, made, read, lost, queue, slots, aired, cut>>

(* The button is let go. *)
MicRelease ==
  /\ tx.phase = "on" /\ tx.source = "mic"
  /\ BeginDrain
  /\ UNCHANGED <<input, queue, slots, aired, cut>>

(* The end of the loop: empty, a dead stream, or the deadline. *)
DrainEnds(deadline) ==
  /\ tx.phase = "drain"
  /\ Pending = 0 \/ ~tx.alive \/ deadline
  /\ report' = [report EXCEPT !.drained = report.requested - Pending,
                              !.discarded = Pending]
  /\ Stopped
  /\ played' = 0
  /\ UNCHANGED <<input, queue, aired>>

(* The maximum-key watchdog. *)
StopNow ==
  /\ tx.phase = "on"
  /\ Stopped
  /\ UNCHANGED <<input, queue, report, aired, played>>

(* A lost device. *)
Recover ==
  /\ Free
  /\ Stopped
  /\ net' = NoSession
  /\ client' = FALSE /\ prebuf' = <<>>
  /\ UNCHANGED <<tail, made, read, lost, queue, report, aired, played>>

Next ==
  \/ \E bytes \in 1..FrameBytes * (Capacity + Prebuffer) : ReadStream(bytes)
  \/ PostAudio
  \/ Acquire \/ Connect \/ Hangup \/ Release \/ Expire
  \/ StationExpires \/ CloseOrphan \/ Reconcile
  \/ PttStart \/ Press \/ CaptureBegins \/ StartSucceeds \/ StartFails
  \/ MicPacket \/ Complete \/ TransferFails
  \/ PttStop \/ MicRelease \/ StopNow \/ Recover
  \/ \E deadline \in BOOLEAN : DrainEnds(deadline)

(* The transfers run at the radio's pace, and the loop of the drain looks  *)
(* at them; nothing is asked of the deadline.                              *)
Spec == Init /\ [][Next]_vars

FairSpec == Spec /\ WF_vars(Complete) /\ WF_vars(DrainEnds(FALSE))

-----------------------------------------------------------------------------
TypeOK ==
  /\ net \in [reserved : BOOLEAN, connected : BOOLEAN, buffered : 0..Prebuffer,
              keyed : BOOLEAN]
  /\ client \in BOOLEAN /\ lost \in BOOLEAN
  /\ tail \in 0..FrameBytes - 1 /\ read \in 0..FrameBytes - 1
  /\ prebuf \in Seq(1..MaxFrames) /\ Len(prebuf) <= PrebufferRoom
  /\ queue \in Seq(0..MaxFrames) /\ Len(queue) <= Capacity
  /\ slots \in Seq(Seq(0..MaxFrames)) /\ Len(slots) <= Transfers
  /\ tx \in [phase : {"idle", "prepare", "on", "drain"},
             source : {"none", "network", "mic"},
             accepting : BOOLEAN, alive : BOOLEAN]
  /\ report \in [{"requested", "drained", "discarded"} -> Nat]
  /\ {made, aired, cut} \subseteq 0..MaxFrames

(* What is on its way to the radio, in order. *)
OnTheWay == FlattenSeq(slots) \o queue

(* The network's frames go on the air in the order they came, each once,   *)
(* and the microphone's frames never mix with them.                        *)
OneSourceInOrder ==
  tx.phase # "idle" =>
    IF tx.source = "mic" THEN \A i \in DOMAIN OnTheWay : OnTheWay[i] = Mic
    ELSE \A i, j \in DOMAIN OnTheWay :
           i < j => aired < OnTheWay[i] /\ OnTheWay[i] < OnTheWay[j]

(* Nothing that was queued for an earlier transmission and cut off by its  *)
(* end is heard in a later one.                                            *)
NothingStale ==
  tx.phase # "idle" /\ tx.source = "network" =>
    \A i \in DOMAIN OnTheWay : OnTheWay[i] > cut

(* The flow control of the connection: a frame read for a session always   *)
(* has room in the prebuffer or the queue.                                 *)
NoFrameLost == ~lost

(* The frames pending in a drain never exceed those counted at its start,  *)
(* so the unsigned difference reported as drained does not wrap.           *)
DrainBounded == tx.phase = "drain" => Pending <= report.requested

(* The account a normal stop gives is true.  Every frame that was played   *)
(* since the stop was asked for is reported as drained, and as long as no  *)
(* transfer fails nothing else is: what the deadline cut off, in the queue *)
(* or in a submitted transfer, is reported as discarded.  (The frames of a *)
(* transfer that fails are reported as drained, usb_rx.c:374; those        *)
(* rendered before the transition's end are not part of the account.)      *)
DrainReport ==
  tx.phase = "drain" /\ tx'.phase = "idle" =>
    /\ played <= report'.drained
    /\ tx.alive => report'.drained = played

DrainReportTrue == [][DrainReport]_vars

(* A drain ends by itself, before any deadline: nothing refills the queue. *)
DrainFinishes == tx.phase = "drain" ~> tx.phase # "drain"

-----------------------------------------------------------------------------
(* docs/GENERAL_TX_API_DESIGN.md: "TCP fragments are reassembled at sample *)
(* boundaries."  The bytes kept are those of this connection's last frame. *)
Reassembled == client => tail = read
=============================================================================
