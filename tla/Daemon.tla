------------------------------- MODULE Daemon -------------------------------
(***************************************************************************)
(* The transmit side of serve_live_rx_at (src/src/flex1500d.c): one thread *)
(* that in each turn of its loop ticks the leases and watchdogs, pumps     *)
(* USB (and recovers a lost device), reads the microphone button, serves   *)
(* at most one HTTP request (src/src/api.c) and one read of the transmit   *)
(* stream.  pc is the place in the loop; everything the loop shares with   *)
(* the outside - the button, the clients, the hardware - changes only      *)
(* where the code looks at it.                                             *)
(*                                                                         *)
(* The daemon is started for transmit.  Samples are kept as the lease of   *)
(* the session that sent them.  Diagnostics and receive are left out.      *)
(***************************************************************************)
EXTENDS LeaseOps, Integers

CONSTANTS
  LeaseMs,      \* FLEX1500_TUNE_LEASE_MS, _STATION_OWNER_, _NETWORK_TX_
  HardMs,       \* FLEX1500_TUNE_HARD_LIMIT_MS
  Timeouts,     \* the maximum-key times a client may configure
  MaxKeyMs,     \* the one the daemon starts with
  LoopMs,       \* the longest turn of the loop
  Prebuffer,    \* FLEX1500_NETWORK_TX_MIN_PREBUFFER_FRAMES, in reads
  MaxLeases,    \* bound: leases of each kind the daemon hands out
  MaxAge        \* bound: elapsed times are not told apart beyond it

ASSUME DaemonAssumption ==
  /\ {LeaseMs, HardMs, Prebuffer} \cup Timeouts \subseteq Nat \ {0}
  /\ {LoopMs, MaxLeases, MaxAge} \subseteq Nat
  /\ MaxKeyMs \in Timeouts
  /\ \A limit \in {LeaseMs, HardMs} \cup Timeouts : limit + LoopMs <= MaxAge

VARIABLES
  pc,
  ctl, radio,     \* tx_control and the hardware behind its callbacks
  station, tune, net,
  next,           \* next_station_lease, next_tune_lease, next_tx_lease
  tx_client,      \* the transmit stream: lease it was opened for, 0 = none
  prebuf,         \* network_prebuffer: whose samples it holds
  ptt,            \* the button as the driver and the loop remember it
  gone            \* the clients have vanished: no request comes any more

hwvars == <<ctl, radio>>

leases == <<station, tune, net, next>>

vars == <<pc, ctl, radio, station, tune, net, next, tx_client, prebuf, ptt,
          gone>>

Issued == 1..MaxLeases

(* inputs: physical_inputs.mic_ptt; logged: logged_inputs; observed:       *)
(* observed_microphone_ptt.                                                *)
NoButton ==
  [inputs |-> FALSE, inputs_known |-> FALSE,
   logged |-> FALSE, logged_known |-> FALSE,
   observed |-> FALSE, observed_known |-> FALSE]

Init ==
  /\ pc = "STATION"
  /\ ctl = ArmPhysicalPtt(Fresh(TRUE, MaxKeyMs))
  /\ radio = [key |-> FALSE, overlap |-> FALSE]
  /\ station = NoStation /\ tune = NoTune /\ net = NoSession
  /\ next = [station |-> 1, tune |-> 1, tx |-> 1]
  /\ tx_client = 0 /\ prebuf = {}
  /\ ptt = NoButton
  /\ gone = FALSE

Hardware(o) == ctl' = o.c /\ radio' = o.radio

-----------------------------------------------------------------------------
(* The ticks at the head of the loop, in their order. *)

(* An expired station takes Tune and the session with it; the stream       *)
(* connection and the prebuffer stay.                                      *)
StationTick ==
  /\ pc = "STATION" /\ pc' = "TUNE"
  /\ IF StationExpired(station, LeaseMs)
     THEN /\ station' = NoStation
          /\ \E t \in TuneStopActive(tune, ctl, radio) :
             \E o \in NetRelease(net, t.c, t.radio, net.lease) :
                tune' = t.t /\ net' = o.n /\ Hardware(o)
     ELSE UNCHANGED <<station, tune, net, ctl, radio>>
  /\ UNCHANGED <<next, tx_client, prebuf, ptt, gone>>

TuneLeaseTick ==
  /\ pc = "TUNE" /\ pc' = "TX"
  /\ \E o \in TuneTick(tune, ctl, radio, LeaseMs, HardMs) :
        tune' = o.t /\ Hardware(o)
  /\ UNCHANGED <<station, net, next, tx_client, prebuf, ptt, gone>>

(* Mutant: the Tune lease is not reconciled with the watchdog's stop. *)
MaximumKeyTick_Unreconciled ==
  /\ pc = "TX" /\ pc' = "NET"
  /\ \E o \in Tick(ctl, radio) : Hardware(o)
  /\ UNCHANGED <<station, tune, net, next, tx_client, prebuf, ptt, gone>>

MaximumKeyTick ==
  /\ pc = "TX" /\ pc' = "NET"
  /\ \E o \in Tick(ctl, radio) : Hardware(o)
  /\ tune' = TuneReconcile(tune, ctl')
  /\ UNCHANGED <<station, net, next, tx_client, prebuf, ptt, gone>>

(* flex1500_network_tx_reconcile, and the closing of the stream of a       *)
(* session it dropped.                                                     *)
SessionReconcile ==
  /\ pc = "NET" /\ pc' = "NETTICK"
  /\ net' = NetReconcile(net, ctl)
  /\ IF net.reserved /\ ~net'.reserved /\ tx_client # 0
     THEN tx_client' = 0 /\ prebuf' = {}
     ELSE UNCHANGED <<tx_client, prebuf>>
  /\ UNCHANGED <<hwvars, station, tune, next, ptt, gone>>

(* Mutant: an expired session leaves its stream open. *)
SessionTick_LeavesStream ==
  /\ pc = "NETTICK" /\ pc' = "PUMP"
  /\ \E o \in NetTick(net, ctl, radio, LeaseMs) : net' = o.n /\ Hardware(o)
  /\ UNCHANGED <<station, tune, next, tx_client, prebuf, ptt, gone>>

(* Only an expiry whose unkey succeeded closes the stream. *)
SessionTick ==
  /\ pc = "NETTICK" /\ pc' = "PUMP"
  /\ \E o \in NetTick(net, ctl, radio, LeaseMs) :
        /\ net' = o.n /\ Hardware(o)
        /\ IF o.r = "EXPIRED"
           THEN tx_client' = 0 /\ prebuf' = {}
           ELSE UNCHANGED <<tx_client, prebuf>>
  /\ UNCHANGED <<station, tune, next, ptt, gone>>

-----------------------------------------------------------------------------
(* Time passes while the loop waits for USB events. *)
Later(t, d) == IF t + d < MaxAge THEN t + d ELSE MaxAge

StationLater(d) ==
  station' = IF station.held
             THEN [station EXCEPT !.renewed = Later(@, d)] ELSE station

Older(d) ==
  /\ ctl' = [Aged(ctl, d) EXCEPT !.key_ms = Later(@, 0)]
  /\ StationLater(d)
  /\ tune' = IF tune.active
             THEN [tune EXCEPT !.started = Later(@, d),
                               !.renewed = Later(@, d)]
             ELSE tune
  /\ net' = IF net.reserved THEN [net EXCEPT !.renewed = Later(@, d)] ELSE net

(* flex1500_usb_rx_pump: a status packet may report the button. *)
Pump(d) ==
  /\ pc = "PUMP" /\ pc' = "INPUTS"
  /\ Older(d)
  /\ \/ UNCHANGED ptt
     \/ \E pressed \in BOOLEAN :
           ptt' = [ptt EXCEPT !.inputs = pressed, !.inputs_known = TRUE]
  /\ UNCHANGED <<radio, next, tx_client, prebuf, gone>>

(* The device is lost: session and stream are dropped, the owner stopped. *)
LossOutcomes ==
  UNION {UNION {StopOwner(b.c, b.radio) :
                  b \in NetRelease(a.n, a.c, a.radio, a.n.lease)} :
           a \in NetDisconnectStream(net, ctl, radio)}

(* It comes back, after a second or more: the radio is reopened,           *)
(* controller and leases start afresh - except the station lease, which    *)
(* only grew older, and the logged inputs.                                 *)
Recover(d) ==
  /\ pc = "PUMP" /\ pc' = "STATION"
  /\ \E o \in LossOutcomes : radio' = [o.radio EXCEPT !.key = FALSE]
  /\ ctl' = ArmPhysicalPtt(Fresh(TRUE, ctl.maximum_key_ms))
  /\ tune' = NoTune /\ net' = NoSession
  /\ StationLater(d)
  /\ tx_client' = 0 /\ prebuf' = {}
  /\ ptt' = [ptt EXCEPT !.inputs_known = FALSE, !.observed_known = FALSE]
  /\ UNCHANGED <<next, gone>>

(* It does not come back: the daemon stops. *)
Abandon ==
  /\ pc = "PUMP" /\ pc' = "END"
  /\ \E o \in LossOutcomes : Hardware(o)
  /\ tune' = NoTune /\ net' = NoSession
  /\ tx_client' = 0 /\ prebuf' = {}
  /\ UNCHANGED <<station, next, ptt, gone>>

(* daemon_tx_shutdown *)
Shutdown ==
  /\ \E o \in StopOwner(ctl, radio) : Hardware(o)
  /\ tune' = TuneReconcile(tune, ctl')

(* A signal asked the daemon to stop. *)
Terminate ==
  /\ pc = "STATION" /\ pc' = "END"
  /\ Shutdown
  /\ tx_client' = 0
  /\ UNCHANGED <<station, net, next, prebuf, ptt, gone>>

-----------------------------------------------------------------------------
(* The button.  Inputs equal to the logged ones are not looked at (other:  *)
(* another line of the inputs changed); a press is passed on only where    *)
(* the band and mode permit.                                               *)
InputsChanged(other) ==
  /\ ptt.inputs_known
  /\ ~ptt.logged_known \/ ptt.inputs # ptt.logged \/ other

ButtonEdge == ~ptt.observed_known \/ ptt.inputs # ptt.observed

Noticed ==
  [ptt EXCEPT !.logged = ptt.inputs, !.logged_known = TRUE,
              !.observed = ptt.inputs, !.observed_known = TRUE]

PassOnEdge ==
  /\ \E o \in PhysicalPtt(ctl, radio, ptt.inputs) : Hardware(o)
  /\ tune' = TuneReconcile(tune, ctl')

ReadButton(other) ==
  /\ pc = "INPUTS" /\ pc' = "HTTP"
  /\ IF InputsChanged(other)
     THEN /\ ptt' = Noticed
          /\ \/ ButtonEdge /\ PassOnEdge
             \/ /\ ~ButtonEdge \/ (ptt.inputs /\ ctl.physical_ptt_armed)
                /\ UNCHANGED <<hwvars, tune>>
     ELSE UNCHANGED <<ptt, hwvars, tune>>
  /\ UNCHANGED <<station, net, next, tx_client, prebuf, gone>>

-----------------------------------------------------------------------------
(* HTTP requests.  After a dispatch that left no session, a stream that is *)
(* still open is closed.                                                   *)
CloseOrphan ==
  IF ~net'.reserved /\ tx_client # 0
  THEN tx_client' = 0 /\ prebuf' = {}
  ELSE UNCHANGED <<tx_client, prebuf>>

Request_ == pc = "HTTP" /\ pc' = "STREAM" /\ ~gone

NoRequest ==
  /\ pc = "HTTP" /\ pc' = "STREAM"
  /\ UNCHANGED <<hwvars, leases, tx_client, prebuf, ptt, gone>>

(* Any other request, refused ones included. *)
OtherRequest ==
  /\ Request_
  /\ UNCHANGED <<hwvars, leases, ptt, gone>>
  /\ CloseOrphan

PostOwner ==
  /\ Request_
  /\ next.station <= MaxLeases
  /\ station' = StationAcquire(station, next.station)
  /\ next' = [next EXCEPT !.station = @ + 1]
  /\ UNCHANGED <<net, tune, hwvars, ptt, gone>>
  /\ CloseOrphan

PutOwnerKeepalive(lease) ==
  /\ Request_
  /\ station' = StationKeepalive(station, lease)
  /\ UNCHANGED <<net, tune, next, hwvars, ptt, gone>>
  /\ CloseOrphan

(* Mutant: the station may be released while it transmits. *)
DeleteOwner_WhileKeyed(lease) ==
  /\ Request_
  /\ station' = StationRelease(station, lease)
  /\ UNCHANGED <<net, tune, next, hwvars, ptt, gone>>
  /\ CloseOrphan

(* Refused while the transmitter is owned. *)
DeleteOwner(lease) ==
  /\ Request_
  /\ station' = IF ctl.owner # "NONE" THEN station
                                      ELSE StationRelease(station, lease)
  /\ UNCHANGED <<net, tune, next, hwvars, ptt, gone>>
  /\ CloseOrphan

(* The station gate in front of every other control request. *)
Authorized(lease) == Request_ /\ StationMatches(station, lease)

PostSession(s) ==
  /\ Authorized(s)
  /\ next.tx <= MaxLeases
  /\ net' = NetAcquire(net, ctl, next.tx)
  /\ next' = [next EXCEPT !.tx = @ + 1]
  /\ UNCHANGED <<station, tune, hwvars, ptt, gone>>
  /\ CloseOrphan

PutSessionKeepalive(s, lease) ==
  /\ Authorized(s)
  /\ net' = NetKeepalive(net, lease)
  /\ UNCHANGED <<station, tune, next, hwvars, ptt, gone>>
  /\ CloseOrphan

(* CONNECT: the new stream replaces the old one and empties the prebuffer. *)
(* When the response does not reach the client, tx_client stays what it    *)
(* was: a closed descriptor if there was a stream, whose number another    *)
(* connection may get, so that it may still be read.                       *)
ConnectStream(s, lease) ==
  /\ Authorized(s)
  /\ Owns(net, lease) /\ ~net.stream_connected
  /\ net' = NetAttachStream(net, lease)
  /\ tx_client' \in {lease, tx_client}
  /\ prebuf' = {}
  /\ UNCHANGED <<station, tune, next, hwvars, ptt, gone>>

(* POST /v1/tx/audio attaches the session by itself, without a stream.     *)
PostAudio(s, lease) ==
  /\ Authorized(s)
  /\ Owns(net, lease)
  /\ net' = NetRecordData(NetAttachStream(net, lease), lease, 1, Prebuffer)
  /\ prebuf' = IF net.keyed THEN prebuf ELSE prebuf \cup {lease}
  /\ UNCHANGED <<station, tune, next, hwvars, tx_client, ptt, gone>>

(* A start that succeeds sends the prebuffer on the air and empties it. *)
PutPttStart(s, lease) ==
  /\ Authorized(s)
  /\ \E o \in NetPttStart(net, ctl, radio, lease, Prebuffer) :
        /\ net' = o.n /\ Hardware(o)
        /\ IF o.n.keyed /\ ~net.keyed
           THEN prebuf' = {} /\ UNCHANGED tx_client
           ELSE CloseOrphan
  /\ UNCHANGED <<station, tune, next, ptt, gone>>

PutPttStop(s, lease) ==
  /\ Authorized(s)
  /\ \E o \in NetPttStop(net, ctl, radio, lease) : net' = o.n /\ Hardware(o)
  /\ UNCHANGED <<station, tune, next, ptt, gone>>
  /\ CloseOrphan

DeleteSession(s, lease) ==
  /\ Authorized(s)
  /\ \E o \in NetRelease(net, ctl, radio, lease) : net' = o.n /\ Hardware(o)
  /\ UNCHANGED <<station, tune, next, ptt, gone>>
  /\ CloseOrphan

(* Refused while the transmitter is owned. *)
PutTimeout(s, ms) ==
  /\ Authorized(s)
  /\ ctl' = SetTimeout(ctl, ms, Timeouts)
  /\ UNCHANGED <<radio, leases, ptt, gone>>
  /\ CloseOrphan

PutTuneStart(s) ==
  /\ Authorized(s)
  /\ next.tune <= MaxLeases
  /\ \E o \in TuneStart(tune, ctl, radio, next.tune) :
        tune' = o.t /\ Hardware(o)
  /\ next' = [next EXCEPT !.tune = @ + 1]
  /\ UNCHANGED <<station, net, ptt, gone>>
  /\ CloseOrphan

PutTuneKeepalive(s, lease) ==
  /\ Authorized(s)
  /\ \E o \in TuneKeepalive(tune, ctl, radio, lease, LeaseMs, HardMs) :
        tune' = o.t /\ Hardware(o)
  /\ UNCHANGED <<station, net, next, ptt, gone>>
  /\ CloseOrphan

PutTuneStop(s, lease) ==
  /\ Authorized(s)
  /\ \E o \in TuneStop(tune, ctl, radio, lease) : tune' = o.t /\ Hardware(o)
  /\ UNCHANGED <<station, net, next, ptt, gone>>
  /\ CloseOrphan

(* The clients disappear for good; their connections stay half open. *)
Vanish ==
  /\ pc = "HTTP" /\ ~gone
  /\ gone' = TRUE
  /\ UNCHANGED <<pc, hwvars, leases, tx_client, prebuf, ptt>>

Serve ==
  \/ OtherRequest \/ PostOwner
  \/ \E s \in Issued :
       \/ PutOwnerKeepalive(s) \/ DeleteOwner(s)
       \/ PostSession(s) \/ PutTuneStart(s)
       \/ \E ms \in Timeouts : PutTimeout(s, ms)
       \/ \E lease \in Issued :
            \/ PutSessionKeepalive(s, lease) \/ ConnectStream(s, lease)
            \/ PostAudio(s, lease)
            \/ PutPttStart(s, lease) \/ PutPttStop(s, lease)
            \/ DeleteSession(s, lease)
            \/ PutTuneKeepalive(s, lease) \/ PutTuneStop(s, lease)

-----------------------------------------------------------------------------
(* One read of the transmit stream.  An unkeyed session with a full        *)
(* prebuffer is not read at all.                                           *)
Readable ==
  tx_client # 0 /\ (net.keyed \/ net.buffered_frames < Prebuffer)

StreamIdle ==
  /\ pc = "STREAM" /\ pc' = "STATION"
  /\ UNCHANGED <<hwvars, leases, tx_client, prebuf, ptt, gone>>

StreamData ==
  /\ pc = "STREAM" /\ pc' = "STATION"
  /\ Readable /\ ~gone
  /\ prebuf' = IF net.keyed THEN prebuf ELSE prebuf \cup {tx_client}
  /\ net' = NetRecordData(net, net.lease, 1, Prebuffer)
  /\ UNCHANGED <<hwvars, station, tune, next, tx_client, ptt, gone>>

StreamCloses ==
  /\ pc = "STREAM" /\ pc' = "STATION"
  /\ Readable /\ ~gone
  /\ \E o \in NetDisconnectStream(net, ctl, radio) : net' = o.n /\ Hardware(o)
  /\ tx_client' = 0 /\ prebuf' = {}
  /\ UNCHANGED <<station, tune, next, ptt, gone>>

Loop ==
  \/ StationTick \/ TuneLeaseTick \/ MaximumKeyTick \/ SessionReconcile
  \/ SessionTick
  \/ \E d \in 0..LoopMs : Pump(d)
  \/ \E other \in BOOLEAN : ReadButton(other)
  \/ NoRequest \/ StreamIdle

Next ==
  \/ Loop
  \/ Serve
  \/ StreamData \/ StreamCloses
  \/ \E d \in {1, LeaseMs} : Recover(d)
  \/ Abandon
  \/ Terminate

Spec == Init /\ [][Next]_vars

(***************************************************************************)
(* Fairness: the loop is one thread that never blocks for good (WF), and   *)
(* the monotonic clock advances: turns that take no time at all do not     *)
(* follow each other for ever (SF).  Nothing is asked of the clients, the  *)
(* operator or the radio, which may be lost again and again.               *)
(***************************************************************************)
TimePasses ==
  (\E d \in 1..LoopMs : Pump(d)) \/ (\E d \in {1, LeaseMs} : Recover(d))

FairSpec ==
  /\ Init /\ [][Next \/ Vanish]_vars
  /\ WF_vars(Next)
  /\ SF_vars(TimePasses)

-----------------------------------------------------------------------------
StationLease == [held : BOOLEAN, lease : Issued \cup {0}, renewed : Nat]

TuneLease ==
  [active : BOOLEAN, lease : Issued \cup {0}, started : Nat, renewed : Nat]

Session ==
  [reserved : BOOLEAN, lease : Issued \cup {0}, renewed : Nat,
   stream_connected : BOOLEAN, buffered_frames : 0..Prebuffer,
   keyed : BOOLEAN]

Counters ==
  [station : 1..MaxLeases + 1, tune : 1..MaxLeases + 1,
   tx : 1..MaxLeases + 1]

Button ==
  [inputs : BOOLEAN, inputs_known : BOOLEAN, logged : BOOLEAN,
   logged_known : BOOLEAN, observed : BOOLEAN, observed_known : BOOLEAN]

TypeOK ==
  /\ pc \in {"STATION", "TUNE", "TX", "NET", "NETTICK", "PUMP", "INPUTS",
             "HTTP", "STREAM", "END"}
  /\ ctl \in Control /\ ctl.maximum_key_ms \in Timeouts
  /\ radio \in Radio
  /\ station \in StationLease /\ tune \in TuneLease /\ net \in Session
  /\ next \in Counters
  /\ tx_client \in Issued \cup {0} /\ prebuf \subseteq Issued
  /\ ptt \in Button
  /\ gone \in BOOLEAN

(* A network transmission runs only under a station lease: no release or   *)
(* expiry of the station, and no recovery, leaves it behind on the air,    *)
(* where the next station would find it.                                   *)
UnderStationLease == ctl.owner \in {"TUNE", "HTTP"} => station.held

(* The Tune lease and the controller agree at every point of the loop,     *)
(* also after a preemption, a maximum-key stop or a failed start.          *)
TuneAgrees == tune.active <=> ctl.owner = "TUNE"

(* An HTTP transmission always has its keyed session with an attached      *)
(* stream.  The converse fails only until the loop next reconciles.        *)
SessionAgrees ==
  /\ ctl.owner = "HTTP" =>
       net.reserved /\ net.keyed /\ net.stream_connected
  /\ net.keyed /\ ctl.owner # "HTTP" =>
       pc \in {"HTTP", "STREAM", "STATION", "TUNE", "TX", "NET", "END"}

(* No lease outlives its time by more than one turn of the loop, whatever  *)
(* the loop was doing: a dead client's transmission ends.                  *)
LeasesBounded ==
  pc # "STATION" /\ pc # "END" =>
    /\ station.held => station.renewed < LeaseMs + LoopMs
    /\ tune.active => /\ tune.renewed < LeaseMs + LoopMs
                      /\ tune.started < HardMs + LoopMs
    /\ net.keyed => net.renewed < LeaseMs + LoopMs

(* The stream that feeds a session was opened for it: while the controller *)
(* is not faulted no connection outlives its session into the next one.    *)
StreamOfSession ==
  tx_client # 0 /\ net.reserved /\ ctl.state # "FAULTED" =>
    tx_client = net.lease

(* The daemon composes its callers so that no start finds the radio keyed. *)
NeverKeyedTwice == ~radio.overlap

-----------------------------------------------------------------------------
(* Every transmission ends, whoever keeps it alive: keepalives renew the   *)
(* lease and not the maximum-key time, and a button held down for ever is  *)
(* timed out too.                                                          *)
TransmissionEnds == ctl.owner # "NONE" ~> ctl.owner = "NONE"

(* When the clients vanish the daemon takes back everything they held, the *)
(* reservation of a session that was never keyed included.                 *)
ClientsForgotten ==
  gone ~> \/ pc = "END"
          \/ /\ ~station.held /\ ~tune.active /\ ~net.reserved
             /\ ctl.owner \notin {"TUNE", "HTTP"}

-----------------------------------------------------------------------------
(* docs/GENERAL_TX_API_DESIGN.md: "A stale or foreign lease can never      *)
(* renew, feed, start, stop, or release the active owner."  The samples an *)
(* HTTP transmission begins with were fed under its own lease.             *)
KeysOwnSamples ==
  ctl.owner # "HTTP" /\ ctl'.owner = "HTTP" => prebuf \subseteq {net.lease}

OnlyOwnSamples == [][KeysOwnSamples]_vars
=============================================================================
