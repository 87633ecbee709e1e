---------------------------- MODULE DaemonProofs ----------------------------
(***************************************************************************)
(* Proofs about the daemon loop, for every number of leases and every      *)
(* choice of the lease, hard-limit and loop times: the leases of the       *)
(* network clients and the ownership controller agree wherever the loop    *)
(* is.  LoopInv is the inductive invariant; it says more than the          *)
(* properties of Daemon in four places, each marked below.                 *)
(***************************************************************************)
EXTENDS Daemon, TxControlOpsProofs

(* The controller of a daemon started for transmit. *)
Live(c, rd) ==
  /\ Sound(c, rd)
  /\ MicSound(c)
  /\ c.enabled
  /\ c.maximum_key_ms \in Timeouts

(* The session's flags, and the controller's owner against them.           *)
(* Stronger: only a reserved, connected session is keyed, and a reserved   *)
(* one has a lease (so that the loop's own release, which presents         *)
(* net.lease, is never taken for a stale one).                             *)
SessionSound(n, c) ==
  /\ n.reserved => n.lease # 0
  /\ n.keyed => n.reserved /\ n.stream_connected
  /\ c.owner = "HTTP" => n.keyed

(* From the reconciliation to the reading of the button a keyed session is *)
(* on the air.                                                             *)
OnAir ==
  pc \in {"NETTICK", "PUMP", "INPUTS"} /\ net.keyed => ctl.owner = "HTTP"

(* Stronger: an open stream without its session belongs to a station that  *)
(* is gone too, or to a faulted controller: this is why no new session can *)
(* be reserved under it.                                                   *)
StreamSound ==
  /\ StreamOfSession
  /\ tx_client # 0 /\ ~net.reserved /\ ctl.state # "FAULTED" => ~station.held

(* Stronger: the ages of the leases at each place of the loop.  Between    *)
(* its tick and the wait for USB a lease is younger than its limit, after  *)
(* it the wait is added.  A recovery adds more to the station lease, which *)
(* the tick that follows it at once takes back.                            *)
StationTimed ==
  station.held =>
    /\ pc \in {"TUNE", "TX", "NET", "NETTICK", "PUMP"} =>
         station.renewed < LeaseMs
    /\ pc \in {"INPUTS", "HTTP", "STREAM"} =>
         station.renewed < LeaseMs + LoopMs

TuneTimed ==
  tune.active =>
    /\ tune.renewed < LeaseMs + LoopMs /\ tune.started < HardMs + LoopMs
    /\ pc \in {"TX", "NET", "NETTICK", "PUMP"} =>
         tune.renewed < LeaseMs /\ tune.started < HardMs

(* Also of a session that is reserved and not keyed. *)
SessionTimed ==
  net.reserved =>
    /\ net.renewed < LeaseMs + LoopMs
    /\ pc = "PUMP" => net.renewed < LeaseMs

(* The inductive invariant. *)
LoopInv ==
  /\ TypeOK
  /\ Live(ctl, radio)
  /\ TuneAgrees
  /\ SessionSound(net, ctl) /\ OnAir
  /\ UnderStationLease
  /\ StreamSound
  /\ StationTimed /\ TuneTimed /\ SessionTimed

-----------------------------------------------------------------------------
(* Tune operations. *)

(* What an operation on the Tune lease t may do to it and to the           *)
(* controller c: they still agree, only Tune's own ownership changes, a    *)
(* fault stays, and an active lease is a new one, renewed or untouched.    *)
TuneEffect(t, c, o) ==
  /\ o.t \in TuneLease
  /\ Live(o.c, o.radio)
  /\ o.t.active <=> o.c.owner = "TUNE"
  /\ o.c.owner # c.owner =>
       c.owner \in {"NONE", "TUNE"} /\ o.c.owner \in {"NONE", "TUNE"}
  /\ c.state = "FAULTED" => o.c.state = "FAULTED"
  /\ o.t.active =>
       \/ o.t.started = 0 /\ o.t.renewed = 0
       \/ /\ t.active /\ o.t.started = t.started
          /\ o.t.renewed \in {0, t.renewed}

(* The owners the leases stand for are owners of the controller. *)
LEMMA LeaseOwners == {"TUNE", "HTTP", "PHYSICAL_MIC"} \subseteq Owners
  BY DEF Owners

(* Leases that are not held have the type of their structs. *)
LEMMA NoLeases ==
  /\ NoStation \in StationLease /\ ~NoStation.held
  /\ NoTune \in TuneLease /\ ~NoTune.active
  /\ NoSession \in Session /\ ~NoSession.reserved /\ ~NoSession.keyed
<1>1. 0 \in 0..Prebuffer
  BY DaemonAssumption
<1>2. QED
  BY <1>1 DEF NoStation, NoTune, NoSession, StationLease, TuneLease, Session

(* stop_active of tune_control.c ends the lease, whatever its release of   *)
(* the transmitter reports.                                                *)
LEMMA TuneStopActiveKeeps ==
  ASSUME NEW t \in TuneLease, NEW c, NEW rd, Live(c, rd),
         t.active <=> c.owner = "TUNE",
         NEW o \in TuneStopActive(t, c, rd)
  PROVE  TuneEffect(t, c, o) /\ ~o.t.active
<1>1. CASE ~t.active
  <2>1. o.t = t /\ o.c = c /\ o.radio = rd
    BY <1>1 DEF TuneStopActive, TuneOutcome
  <2>2. QED
    BY <1>1, <2>1 DEF TuneEffect
<1>2. CASE t.active
  <2>1. PICK s \in Release(c, rd, "TUNE") :
          o = TuneOutcome(NoTune, s.c, s.radio)
    BY <1>2 DEF TuneStopActive
  <2>2. o.t = NoTune /\ o.c = s.c /\ o.radio = s.radio
    BY <2>1 DEF TuneOutcome
  <2>3. /\ Sound(s.c, s.radio) /\ MicSound(s.c)
        /\ c.enabled => s.c.enabled
        /\ s.c.maximum_key_ms = c.maximum_key_ms
        /\ s.c.owner = IF c.owner = "TUNE" THEN "NONE" ELSE c.owner
        /\ c.state = "FAULTED" => s.c.state = "FAULTED"
    BY LeaseOwners, ReleaseSound DEF Live
  <2>4. QED
    BY <1>2, <2>2, <2>3, NoLeases DEF TuneEffect, Live
<1>3. QED
  BY <1>1, <1>2

(* A start that fails, or finds the transmitter owned, leaves no lease. *)
LEMMA TuneStartKeeps ==
  ASSUME NEW t \in TuneLease, NEW c, NEW rd, Live(c, rd),
         t.active <=> c.owner = "TUNE", NEW lease \in Issued,
         NEW o \in TuneStart(t, c, rd, lease)
  PROVE  TuneEffect(t, c, o)
<1>1. CASE t.active
  <2>1. o.t = t /\ o.c = c /\ o.radio = rd
    BY <1>1 DEF TuneStart, TuneOutcome
  <2>2. QED
    BY <1>1, <2>1 DEF TuneEffect
<1>2. CASE ~t.active
  <2>1. PICK s \in Request(c, rd, "TUNE") :
          o = TuneOutcome(IF s.r = "OK"
                          THEN [active |-> TRUE, lease |-> lease,
                                started |-> 0, renewed |-> 0]
                          ELSE t,
                          s.c, s.radio)
    BY <1>2 DEF TuneStart
  <2>2. /\ o.c = s.c /\ o.radio = s.radio
        /\ o.t = IF s.r = "OK"
                 THEN [active |-> TRUE, lease |-> lease,
                       started |-> 0, renewed |-> 0]
                 ELSE t
    BY <2>1 DEF TuneOutcome
  <2>3. /\ Sound(s.c, s.radio)
        /\ c.enabled => s.c.enabled
        /\ s.c.maximum_key_ms = c.maximum_key_ms
        /\ s.c.physical_ptt_armed = c.physical_ptt_armed
        /\ s.c.physical_ptt_pressed = c.physical_ptt_pressed
        /\ s.c.owner = IF s.r = "OK" THEN "TUNE" ELSE c.owner
        /\ s.c.owner # c.owner => c.owner = "NONE"
        /\ c.state = "FAULTED" => s.c = c
    BY LeaseOwners, RequestSound DEF Live
  <2>4. o.t \in TuneLease /\ (o.t.active <=> o.c.owner = "TUNE")
    BY <1>2, <2>2, <2>3 DEF TuneLease
  <2>5. Live(o.c, o.radio)
    BY <2>2, <2>3 DEF Live, MicSound
  <2>6. QED
    BY <1>2, <2>2, <2>3, <2>4, <2>5 DEF TuneEffect
<1>3. QED
  BY <1>1, <1>2

(* A keepalive renews the lease it names or finds it overdue and stops it. *)
LEMMA TuneKeepaliveKeeps ==
  ASSUME NEW t \in TuneLease, NEW c, NEW rd, Live(c, rd),
         t.active <=> c.owner = "TUNE", NEW lease,
         NEW o \in TuneKeepalive(t, c, rd, lease, LeaseMs, HardMs)
  PROVE  TuneEffect(t, c, o)
<1> DEFINE u == [t EXCEPT !.renewed = 0]
<1>1. /\ u \in TuneLease /\ u.active = t.active
      /\ u.started = t.started /\ u.renewed = 0
  BY DEF TuneLease
<1>2. CASE o \in TuneStopActive(t, c, rd)
  BY <1>2, TuneStopActiveKeeps
<1>3. CASE o \in {TuneOutcome(t, c, rd), TuneOutcome(u, c, rd)}
  <2>1. o.c = c /\ o.radio = rd /\ (o.t = t \/ o.t = u)
    BY <1>3 DEF TuneOutcome
  <2>2. o.t \in TuneLease /\ o.t.active = t.active
    BY <1>1, <2>1
  <2>3. o.t.started = t.started /\ o.t.renewed \in {0, t.renewed}
    BY <1>1, <2>1
  <2>4. QED
    BY <2>1, <2>2, <2>3 DEF TuneEffect
<1>4. QED
  BY <1>2, <1>3 DEF TuneKeepalive

(* A stop ends the lease it names. *)
LEMMA TuneStopKeeps ==
  ASSUME NEW t \in TuneLease, NEW c, NEW rd, Live(c, rd),
         t.active <=> c.owner = "TUNE", NEW lease,
         NEW o \in TuneStop(t, c, rd, lease)
  PROVE  TuneEffect(t, c, o)
<1>1. CASE o \in TuneStopActive(t, c, rd)
  BY <1>1, TuneStopActiveKeeps
<1>2. CASE o = TuneOutcome(t, c, rd)
  <2>1. o.t = t /\ o.c = c /\ o.radio = rd
    BY <1>2 DEF TuneOutcome
  <2>2. QED
    BY <2>1 DEF TuneEffect
<1>3. QED
  BY <1>1, <1>2 DEF TuneStop

(* After the tick an active Tune is below both of its limits. *)
LEMMA TuneTickKeeps ==
  ASSUME NEW t \in TuneLease, NEW c, NEW rd, Live(c, rd),
         t.active <=> c.owner = "TUNE",
         NEW o \in TuneTick(t, c, rd, LeaseMs, HardMs)
  PROVE  /\ TuneEffect(t, c, o)
         /\ o.t.active =>
              o.t = t /\ o.t.renewed < LeaseMs /\ o.t.started < HardMs
<1>1. CASE t.active /\ TuneOverdue(t, LeaseMs, HardMs)
  <2>1. o \in TuneStopActive(t, c, rd)
    BY <1>1 DEF TuneTick
  <2>2. QED
    BY <2>1, TuneStopActiveKeeps
<1>2. CASE ~(t.active /\ TuneOverdue(t, LeaseMs, HardMs))
  <2>1. o.t = t /\ o.c = c /\ o.radio = rd
    BY <1>2 DEF TuneTick, TuneOutcome
  <2>2. TuneEffect(t, c, o)
    BY <2>1 DEF TuneEffect
  <2>3. t.active => t.renewed < LeaseMs /\ t.started < HardMs
    BY <1>2, DaemonAssumption DEF TuneOverdue, TuneLease
  <2>4. QED
    BY <2>1, <2>2, <2>3
<1>3. QED
  BY <1>1, <1>2

(* Reconciled with a controller that may have lost Tune but not gained it, *)
(* the lease agrees with it again.                                         *)
LEMMA TuneReconcileKeeps ==
  ASSUME NEW t \in TuneLease, NEW c, c.owner = "TUNE" => t.active,
         NEW u, u = TuneReconcile(t, c)
  PROVE  /\ u \in TuneLease
         /\ u.active <=> c.owner = "TUNE"
         /\ u.active => u = t
  BY NoLeases DEF TuneReconcile, TuneLease

-----------------------------------------------------------------------------
(* Session operations. *)

(* The same for an operation on the transmit session n. *)
SessionEffect(n, c, o) ==
  /\ o.n \in Session
  /\ Live(o.c, o.radio)
  /\ SessionSound(o.n, o.c)
  /\ o.c.owner # c.owner =>
       c.owner \in {"NONE", "HTTP"} /\ o.c.owner \in {"NONE", "HTTP"}
  /\ c.state = "FAULTED" => o.c.state = "FAULTED"
  /\ o.n.reserved =>
       /\ n.reserved /\ o.n.lease = n.lease
       /\ o.n.renewed \in {0, n.renewed}

(* An operation that refuses has no effect. *)
LEMMA NoEffect ==
  ASSUME NEW n \in Session, NEW c, NEW rd, Live(c, rd), SessionSound(n, c),
         NEW o, o.n = n, o.c = c, o.radio = rd
  PROVE  SessionEffect(n, c, o)
  BY DEF SessionEffect

(* stop_if_keyed takes the session off the air and keeps the rest of it.   *)
(* A stop that is not confirmed leaves the controller faulted, unless the  *)
(* transmitter had been taken away before.                                 *)
LEMMA StopIfKeyedKeeps ==
  ASSUME NEW n \in Session, NEW c, NEW rd, Live(c, rd), SessionSound(n, c),
         NEW o \in StopIfKeyed(n, c, rd)
  PROVE  /\ SessionEffect(n, c, o)
         /\ o = NetOutcome(o.n, o.c, o.radio, o.r)
         /\ o.n = [n EXCEPT !.keyed = FALSE]
         /\ o.c.owner # "HTTP"
         /\ c.owner = "HTTP" /\ o.r # "OK" => o.c.state = "FAULTED"
         /\ ~n.keyed => o.r = "OK"
         /\ o.r \in {"OK", "HARDWARE_ERROR"}
<1> DEFINE off == [n EXCEPT !.keyed = FALSE]
<1>1. /\ off \in Session /\ ~off.keyed
      /\ off.reserved = n.reserved /\ off.lease = n.lease
      /\ off.renewed = n.renewed
  BY DEF Session
<1>2. CASE ~n.keyed
  <2>1. o = NetOutcome(n, c, rd, "OK")
    BY <1>2 DEF StopIfKeyed
  <2>2. n = off
    BY <1>2 DEF Session
  <2>3. /\ o.n = n /\ o.c = c /\ o.radio = rd /\ o.r = "OK"
        /\ o = NetOutcome(o.n, o.c, o.radio, o.r)
    BY <2>1 DEF NetOutcome
  <2>4. c.owner # "HTTP"
    BY <1>2 DEF SessionSound
  <2>5. QED
    BY <2>2, <2>3, <2>4, NoEffect
<1>3. CASE n.keyed
  <2>1. PICK s \in Release(c, rd, "HTTP") :
          o = NetOutcome(off, s.c, s.radio,
                         IF s.r = "OK" THEN "OK" ELSE "HARDWARE_ERROR")
    BY <1>3 DEF StopIfKeyed
  <2>2. /\ o.n = off /\ o.c = s.c /\ o.radio = s.radio
        /\ o.r = IF s.r = "OK" THEN "OK" ELSE "HARDWARE_ERROR"
        /\ o = NetOutcome(o.n, o.c, o.radio, o.r)
    BY <2>1 DEF NetOutcome
  <2>3. /\ Sound(s.c, s.radio) /\ MicSound(s.c)
        /\ c.enabled => s.c.enabled
        /\ s.c.maximum_key_ms = c.maximum_key_ms
        /\ s.c.owner = IF c.owner = "HTTP" THEN "NONE" ELSE c.owner
        /\ c.owner = "HTTP" /\ s.r # "OK" => s.c.state = "FAULTED"
        /\ c.state = "FAULTED" => s.c.state = "FAULTED"
    BY LeaseOwners, ReleaseSound DEF Live
  <2>4. s.c.owner # "HTTP"
    BY <2>3
  <2>5. SessionSound(off, s.c)
    BY <1>1, <2>4 DEF SessionSound
  <2>6. SessionEffect(n, c, o)
    <3>1. Live(o.c, o.radio)
      BY <2>2, <2>3 DEF Live
    <3>2. QED
      BY <1>1, <2>2, <2>3, <2>5, <3>1 DEF SessionEffect
  <2>7. QED
    BY <1>3, <2>2, <2>3, <2>4, <2>6
<1>4. QED
  BY <1>2, <1>3

(* A release under the session's own lease ends it, off the air; under any *)
(* other lease it does nothing.                                            *)
LEMMA NetReleaseKeeps ==
  ASSUME NEW n \in Session, NEW c, NEW rd, Live(c, rd), SessionSound(n, c),
         NEW lease, NEW o \in NetRelease(n, c, rd, lease)
  PROVE  /\ SessionEffect(n, c, o)
         /\ lease = n.lease => ~o.n.reserved /\ o.c.owner # "HTTP"
<1>1. CASE ~Owns(n, lease)
  <2>1. o.n = n /\ o.c = c /\ o.radio = rd
    BY <1>1 DEF NetRelease, NetOutcome
  <2>2. lease = n.lease => ~n.reserved
    BY <1>1 DEF Owns, SessionSound
  <2>3. ~n.reserved => c.owner # "HTTP"
    BY DEF SessionSound
  <2>4. QED
    BY <2>1, <2>2, <2>3, NoEffect
<1>2. CASE Owns(n, lease)
  <2>1. PICK s \in StopIfKeyed(n, c, rd) : o = [s EXCEPT !.n = NoSession]
    BY <1>2 DEF NetRelease
  <2>2. /\ SessionEffect(n, c, s)
        /\ s = NetOutcome(s.n, s.c, s.radio, s.r)
        /\ s.n = [n EXCEPT !.keyed = FALSE]
        /\ s.c.owner # "HTTP"
    BY StopIfKeyedKeeps
  <2>3. o.n = NoSession /\ o.c = s.c /\ o.radio = s.radio
    BY <2>1, <2>2 DEF NetOutcome
  <2>4. SessionSound(o.n, o.c)
    BY <2>2, <2>3, NoLeases DEF SessionSound
  <2>5. QED
    BY <2>2, <2>3, <2>4, NoLeases DEF SessionEffect
<1>3. QED
  BY <1>1, <1>2

(* A session that loses its stream is unkeyed and stays reserved. *)
LEMMA NetDisconnectStreamKeeps ==
  ASSUME NEW n \in Session, NEW c, NEW rd, Live(c, rd), SessionSound(n, c),
         NEW o \in NetDisconnectStream(n, c, rd)
  PROVE  SessionEffect(n, c, o) /\ o.c.owner # "HTTP"
<1>1. CASE ~n.reserved
  <2>1. o.n = n /\ o.c = c /\ o.radio = rd
    BY <1>1 DEF NetDisconnectStream, NetOutcome
  <2>2. c.owner # "HTTP"
    BY <1>1 DEF SessionSound
  <2>3. QED
    BY <2>1, <2>2, NoEffect
<1>2. CASE n.reserved
  <2>1. PICK s \in StopIfKeyed(n, c, rd) :
          o = [s EXCEPT !.n.stream_connected = FALSE,
                        !.n.buffered_frames = 0]
    BY <1>2 DEF NetDisconnectStream
  <2>2. /\ SessionEffect(n, c, s)
        /\ s = NetOutcome(s.n, s.c, s.radio, s.r)
        /\ s.n = [n EXCEPT !.keyed = FALSE]
        /\ s.c.owner # "HTTP"
    BY StopIfKeyedKeeps
  <2>3. /\ o.c = s.c /\ o.radio = s.radio
        /\ o.n = [s.n EXCEPT !.stream_connected = FALSE,
                             !.buffered_frames = 0]
    BY <2>1, <2>2 DEF NetOutcome
  <2>4. 0 \in 0..Prebuffer
    BY DaemonAssumption
  <2>5. /\ o.n \in Session /\ ~o.n.keyed
        /\ o.n.reserved = n.reserved /\ o.n.lease = n.lease
        /\ o.n.renewed = n.renewed
    BY <2>2, <2>3, <2>4 DEF Session
  <2>6. SessionSound(o.n, o.c)
    BY <2>2, <2>3, <2>5 DEF SessionSound
  <2>7. QED
    BY <2>2, <2>3, <2>5, <2>6 DEF SessionEffect
<1>3. QED
  BY <1>1, <1>2

(* A client's own unkey. *)
LEMMA NetPttStopKeeps ==
  ASSUME NEW n \in Session, NEW c, NEW rd, Live(c, rd), SessionSound(n, c),
         NEW lease, NEW o \in NetPttStop(n, c, rd, lease)
  PROVE  SessionEffect(n, c, o)
<1>1. CASE ~Owns(n, lease)
  <2>1. o.n = n /\ o.c = c /\ o.radio = rd
    BY <1>1 DEF NetPttStop, NetOutcome
  <2>2. QED
    BY <2>1, NoEffect
<1>2. CASE Owns(n, lease)
  <2>1. PICK s \in StopIfKeyed(n, c, rd) :
          o = [s EXCEPT !.n.buffered_frames = IF n.keyed THEN 0 ELSE @]
    BY <1>2 DEF NetPttStop
  <2>2. /\ SessionEffect(n, c, s)
        /\ s = NetOutcome(s.n, s.c, s.radio, s.r)
        /\ s.n = [n EXCEPT !.keyed = FALSE]
        /\ s.c.owner # "HTTP"
    BY StopIfKeyedKeeps
  <2>3. /\ o.c = s.c /\ o.radio = s.radio
        /\ o.n = [s.n EXCEPT !.buffered_frames =
                               IF n.keyed THEN 0 ELSE s.n.buffered_frames]
    BY <2>1, <2>2 DEF NetOutcome
  <2>4. 0 \in 0..Prebuffer
    BY DaemonAssumption
  <2>5. /\ o.n \in Session /\ ~o.n.keyed
        /\ o.n.reserved = n.reserved /\ o.n.lease = n.lease
        /\ o.n.renewed = n.renewed
    BY <2>2, <2>3, <2>4 DEF Session
  <2>6. SessionSound(o.n, o.c)
    BY <2>2, <2>3, <2>5 DEF SessionSound
  <2>7. QED
    BY <2>2, <2>3, <2>5, <2>6 DEF SessionEffect
<1>3. QED
  BY <1>1, <1>2

(* An overdue session is ended and unkeyed.  When it was on the air as its *)
(* flag says, only a fault keeps the tick from reporting EXPIRED.          *)
LEMMA NetTickKeeps ==
  ASSUME NEW n \in Session, NEW c, NEW rd, Live(c, rd), SessionSound(n, c),
         n.keyed => c.owner = "HTTP",
         NEW o \in NetTick(n, c, rd, LeaseMs)
  PROVE  /\ SessionEffect(n, c, o)
         /\ o.n.keyed => o.c.owner = "HTTP"
         /\ o.c.owner = "HTTP" => c.owner = "HTTP"
         /\ o.n.reserved => o.n.renewed < LeaseMs
         /\ o.r = "EXPIRED" => ~o.n.reserved
         /\ o.r # "EXPIRED" /\ n.reserved /\ ~o.n.reserved =>
              o.c.state = "FAULTED"
<1>1. CASE ~n.reserved \/ n.renewed < LeaseMs
  <2>1. o.n = n /\ o.c = c /\ o.radio = rd /\ o.r = "OK"
    BY <1>1 DEF NetTick, NetOutcome
  <2>2. QED
    BY <1>1, <2>1, NoEffect
<1>2. CASE ~(~n.reserved \/ n.renewed < LeaseMs)
  <2>1. PICK s \in StopIfKeyed(n, c, rd) :
          o = NetOutcome(NoSession, s.c, s.radio,
                         IF s.r = "OK" THEN "EXPIRED" ELSE s.r)
    BY <1>2 DEF NetTick
  <2>2. /\ SessionEffect(n, c, s)
        /\ s.n = [n EXCEPT !.keyed = FALSE]
        /\ s.c.owner # "HTTP"
        /\ c.owner = "HTTP" /\ s.r # "OK" => s.c.state = "FAULTED"
        /\ ~n.keyed => s.r = "OK"
    BY StopIfKeyedKeeps
  <2>3. /\ o.n = NoSession /\ o.c = s.c /\ o.radio = s.radio
        /\ o.r = IF s.r = "OK" THEN "EXPIRED" ELSE s.r
    BY <2>1 DEF NetOutcome
  <2>4. SessionSound(o.n, o.c)
    BY <2>2, <2>3, NoLeases DEF SessionSound
  <2>5. SessionEffect(n, c, o)
    BY <2>2, <2>3, <2>4, NoLeases DEF SessionEffect
  <2>6. QED
    BY <2>2, <2>3, <2>5, NoLeases
<1>3. QED
  BY <1>1, <1>2

(* A start keys only the session whose lease it names, with its stream     *)
(* attached, and only when the controller granted the transmitter.         *)
LEMMA NetPttStartKeeps ==
  ASSUME NEW n \in Session, NEW c, NEW rd, Live(c, rd), SessionSound(n, c),
         NEW lease, NEW o \in NetPttStart(n, c, rd, lease, Prebuffer)
  PROVE  SessionEffect(n, c, o)
<1>1. CASE \/ ~Owns(n, lease) \/ ~n.stream_connected
           \/ n.buffered_frames < Prebuffer \/ n.keyed
  <2>1. o.n = n /\ o.c = c /\ o.radio = rd
    BY <1>1 DEF NetPttStart, NetOutcome
  <2>2. QED
    BY <2>1, NoEffect
<1>2. CASE /\ Owns(n, lease) /\ n.stream_connected /\ ~n.keyed
           /\ ~(n.buffered_frames < Prebuffer)
  <2> DEFINE on == [n EXCEPT !.keyed = TRUE, !.renewed = 0]
  <2>1. PICK s \in Request(c, rd, "HTTP") :
          o = IF s.r = "OK"
              THEN NetOutcome(on, s.c, s.radio, "OK")
              ELSE NetOutcome(n, s.c, s.radio,
                              IF s.r = "BUSY" THEN "BUSY"
                                              ELSE "HARDWARE_ERROR")
    BY <1>2 DEF NetPttStart
  <2>2. /\ o.c = s.c /\ o.radio = s.radio
        /\ o.n = IF s.r = "OK" THEN on ELSE n
    BY <2>1 DEF NetOutcome
  <2>3. /\ Sound(s.c, s.radio)
        /\ c.enabled => s.c.enabled
        /\ s.c.maximum_key_ms = c.maximum_key_ms
        /\ s.c.physical_ptt_armed = c.physical_ptt_armed
        /\ s.c.physical_ptt_pressed = c.physical_ptt_pressed
        /\ s.c.owner = IF s.r = "OK" THEN "HTTP" ELSE c.owner
        /\ s.c.owner # c.owner => c.owner = "NONE"
        /\ c.state = "FAULTED" => s.c = c
    BY LeaseOwners, RequestSound DEF Live
  <2>4. Live(o.c, o.radio)
    BY <2>2, <2>3 DEF Live, MicSound
  <2>5. /\ on \in Session /\ on.keyed /\ on.renewed = 0
        /\ on.reserved = n.reserved /\ on.lease = n.lease
        /\ on.stream_connected = n.stream_connected
    BY DEF Session
  <2>6. n.reserved
    BY <1>2 DEF Owns
  <2>7. /\ o.n \in Session /\ o.n.reserved = n.reserved
        /\ o.n.lease = n.lease /\ o.n.renewed \in {0, n.renewed}
    BY <2>2, <2>5
  <2>8. SessionSound(o.n, o.c)
    BY <1>2, <2>2, <2>3, <2>5, <2>6 DEF SessionSound
  <2>9. QED
    BY <2>2, <2>3, <2>4, <2>6, <2>7, <2>8 DEF SessionEffect
<1>3. QED
  BY <1>1, <1>2

(* What a request or a read that does not touch the controller c does to   *)
(* the session n: nothing to its reservation except renewing it.           *)
SessionKept(n, c, m) ==
  /\ m \in Session
  /\ SessionSound(m, c)
  /\ m.reserved = n.reserved /\ m.lease = n.lease
  /\ m.renewed \in {0, n.renewed}

(* flex1500_network_tx_keepalive renews the session and no more.           *)
LEMMA NetKeepaliveKeeps ==
  ASSUME NEW n \in Session, NEW c, SessionSound(n, c), NEW lease
  PROVE  SessionKept(n, c, NetKeepalive(n, lease))
  BY DEF NetKeepalive, SessionKept, SessionSound, Session

(* Attaching a stream empties the count of buffered frames.                *)
LEMMA NetAttachStreamKeeps ==
  ASSUME NEW n \in Session, NEW c, SessionSound(n, c), NEW lease
  PROVE  SessionKept(n, c, NetAttachStream(n, lease))
<1>1. 0 \in 0..Prebuffer
  BY DaemonAssumption
<1>2. QED
  BY <1>1 DEF NetAttachStream, SessionKept, SessionSound, Session

(* Counting a read of samples stops at the prebuffer.                      *)
LEMMA NetRecordDataKeeps ==
  ASSUME NEW n \in Session, NEW c, SessionSound(n, c), NEW lease
  PROVE  SessionKept(n, c, NetRecordData(n, lease, 1, Prebuffer))
<1> DEFINE f == IF n.buffered_frames + 1 < Prebuffer
                THEN n.buffered_frames + 1 ELSE Prebuffer
<1>1. f \in 0..Prebuffer
  BY DaemonAssumption DEF Session
<1>2. CASE NetRecordData(n, lease, 1, Prebuffer) = n
  BY <1>2 DEF SessionKept
<1>3. CASE NetRecordData(n, lease, 1, Prebuffer)
             = [n EXCEPT !.buffered_frames = f]
  <2> HIDE DEF f
  <2>1. QED
    BY <1>1, <1>3 DEF SessionKept, SessionSound, Session
<1>4. QED
  BY <1>2, <1>3 DEF NetRecordData

(* A new session is reserved only with the transmitter unowned, under a    *)
(* lease that is not 0.                                                    *)
LEMMA NetAcquireKeeps ==
  ASSUME NEW n \in Session, NEW c, SessionSound(n, c), NEW lease \in Issued,
         NEW m, m = NetAcquire(n, c, lease)
  PROVE  /\ m \in Session
         /\ SessionSound(m, c)
         /\ m = n \/ (~n.reserved /\ m.renewed = 0)
<1>1. lease # 0 /\ lease \in Issued \cup {0}
  BY DaemonAssumption DEF Issued
<1>2. QED
  BY <1>1 DEF NetAcquire, SessionSound, Session

(* Reconciled with the controller, a keyed session is on the air. *)
LEMMA NetReconcileKeeps ==
  ASSUME NEW n \in Session, NEW c, SessionSound(n, c),
         NEW m, m = NetReconcile(n, c)
  PROVE  /\ m \in Session
         /\ SessionSound(m, c)
         /\ m.keyed => c.owner = "HTTP"
         /\ m.reserved => m = n
  BY NoLeases DEF NetReconcile, SessionSound

-----------------------------------------------------------------------------
(* Steps of the loop. *)

(* The daemon starts with nothing held and the button armed. *)
LEMMA LoopInit == Init => LoopInv
<1> SUFFICES ASSUME Init PROVE LoopInv
  OBVIOUS
<1> DEFINE fresh == Fresh(TRUE, MaxKeyMs)
<1>1. radio \in Radio /\ ~radio.key /\ ~radio.overlap
  BY DEF Init, Radio
<1>2. /\ Sound(fresh, radio) /\ MicSound(fresh) /\ fresh.owner = "NONE"
      /\ fresh.enabled /\ fresh.maximum_key_ms \in Timeouts
  BY <1>1, DaemonAssumption
  DEF Fresh, Sound, MicSound, Control, States, Owners
<1>3. ctl = ArmPhysicalPtt(fresh)
  BY DEF Init
<1>4. Live(ctl, radio) /\ ctl.owner = "NONE"
  <2> HIDE DEF fresh
  <2>1. QED
    BY <1>2, <1>3, ArmSound DEF Live
<1>5. /\ pc = "STATION"
      /\ station = NoStation /\ tune = NoTune /\ net = NoSession
      /\ tx_client = 0 /\ prebuf = {} /\ gone = FALSE
  BY DEF Init
<1>6. next \in Counters /\ ptt \in Button
  BY DaemonAssumption DEF Init, Counters, Button, NoButton
<1>7. TypeOK
  BY <1>4, <1>5, <1>6, NoLeases DEF TypeOK, Live, Sound
<1>8. TuneAgrees /\ SessionSound(net, ctl) /\ UnderStationLease
  BY <1>4, <1>5, NoLeases DEF TuneAgrees, SessionSound, UnderStationLease
<1>9. OnAir /\ StreamSound /\ StationTimed /\ TuneTimed /\ SessionTimed
  BY <1>5, NoLeases
  DEF OnAir, StreamSound, StreamOfSession, StationTimed, TuneTimed,
      SessionTimed
<1>10. QED
  BY <1>4, <1>7, <1>8, <1>9 DEF LoopInv

(* A step renews a lease or leaves its time alone. *)
StationAge ==
  station'.held =>
    station'.renewed = 0 \/ (station.held /\ station'.renewed = station.renewed)

TuneAge ==
  tune'.active =>
    \/ tune'.started = 0 /\ tune'.renewed = 0
    \/ /\ tune.active /\ tune'.started = tune.started
       /\ tune'.renewed \in {0, tune.renewed}

SessionAge ==
  net'.reserved =>
    net'.renewed = 0 \/ (net.reserved /\ net'.renewed = net.renewed)

(* Such a step keeps the lease within its time, at a place of the loop     *)
(* that asks no more of it.                                                *)
LEMMA StationInTime ==
  ASSUME StationTimed, StationAge,
         pc' \in {"TUNE", "TX", "NET", "NETTICK", "PUMP"} =>
           pc \in {"TUNE", "TX", "NET", "NETTICK", "PUMP"},
         pc' \in {"INPUTS", "HTTP", "STREAM"} =>
           pc \in {"INPUTS", "HTTP", "STREAM"}
  PROVE  StationTimed'
  BY DaemonAssumption DEF StationTimed, StationAge

(* The same of the Tune lease and its two limits.                          *)
LEMMA TuneInTime ==
  ASSUME TuneTimed, TuneAge,
         pc' \in {"TX", "NET", "NETTICK", "PUMP"} =>
           pc \in {"TX", "NET", "NETTICK", "PUMP"}
  PROVE  TuneTimed'
  BY DaemonAssumption DEF TuneTimed, TuneAge

(* The same of the session, whose time is checked in its own tick only.    *)
LEMMA SessionInTime ==
  ASSUME SessionTimed, SessionAge, pc' # "PUMP"
  PROVE  SessionTimed'
  BY DaemonAssumption DEF SessionTimed, SessionAge

(* A step that closes the stream of a session it ends, and reserves a new  *)
(* one only for a station, keeps the streams with their sessions.          *)
LEMMA StreamKept ==
  ASSUME StreamSound,
         tx_client' \in {tx_client, 0},
         ~net'.reserved => tx_client' = 0,
         net'.reserved =>
           \/ net.reserved /\ net'.lease = net.lease
           \/ ~net.reserved /\ station.held,
         ctl.state = "FAULTED" => ctl'.state = "FAULTED"
  PROVE  StreamSound'
  BY DEF StreamSound, StreamOfSession

(* The closing of an orphaned stream after a request does so. *)
LEMMA OrphanClosed ==
  ASSUME TypeOK, CloseOrphan
  PROVE  /\ tx_client' \in {tx_client, 0}
         /\ ~net'.reserved => tx_client' = 0
         /\ tx_client' \in Issued \cup {0} /\ prebuf' \subseteq Issued
  BY DEF TypeOK, CloseOrphan

(* What LoopInv says of a state, in the parts the steps use. *)
LEMMA LoopFacts ==
  ASSUME LoopInv
  PROVE  /\ TypeOK
         /\ station \in StationLease /\ tune \in TuneLease /\ net \in Session
         /\ Live(ctl, radio)
         /\ tune.active <=> ctl.owner = "TUNE"
         /\ SessionSound(net, ctl)
         /\ StreamSound
         /\ StationTimed /\ TuneTimed /\ SessionTimed
  BY DEF LoopInv, TypeOK, TuneAgrees

(* An expired station takes both transmissions with it. *)
LEMMA StationTickKeeps ==
  ASSUME LoopInv, StationTick
  PROVE  LoopInv'
<1>1. /\ pc = "STATION" /\ pc' = "TUNE"
      /\ UNCHANGED <<next, tx_client, prebuf, ptt, gone>>
  BY DEF StationTick
<1>2. CASE StationExpired(station, LeaseMs)
  <2>a. PICK t \in TuneStopActive(tune, ctl, radio) :
          \E o \in NetRelease(net, t.c, t.radio, net.lease) :
             /\ station' = NoStation /\ tune' = t.t /\ net' = o.n
             /\ ctl' = o.c /\ radio' = o.radio
    BY <1>2 DEF StationTick, Hardware
  <2>1. PICK o \in NetRelease(net, t.c, t.radio, net.lease) :
             /\ station' = NoStation /\ tune' = t.t /\ net' = o.n
             /\ ctl' = o.c /\ radio' = o.radio
    BY <2>a
  <2>2. TuneEffect(tune, ctl, t) /\ ~t.t.active
    BY LoopFacts, TuneStopActiveKeeps
  <2>3. Live(t.c, t.radio) /\ t.c.owner # "TUNE" /\ t.t \in TuneLease
    BY <2>2 DEF TuneEffect
  <2>4. SessionSound(net, t.c)
    BY <2>2, LoopFacts DEF TuneEffect, SessionSound
  <2>5. /\ SessionEffect(net, t.c, o)
        /\ ~o.n.reserved /\ o.c.owner # "HTTP"
    BY <2>3, <2>4, LoopFacts, NetReleaseKeeps
  <2>6. /\ Live(ctl', radio') /\ SessionSound(net', ctl') /\ net' \in Session
        /\ ctl'.owner \notin {"TUNE", "HTTP"} /\ ~net'.keyed
    BY <2>1, <2>3, <2>5 DEF SessionEffect, SessionSound
  <2>7. TypeOK'
    BY <1>1, <2>1, <2>3, <2>6, LoopFacts, NoLeases DEF TypeOK, Live, Sound
  <2>8. TuneAgrees' /\ UnderStationLease' /\ OnAir'
    BY <2>1, <2>2, <2>6 DEF TuneAgrees, UnderStationLease, OnAir
  <2>9. StreamSound' /\ StationTimed' /\ TuneTimed' /\ SessionTimed'
    BY <2>1, <2>2, <2>5, NoLeases
    DEF StreamSound, StreamOfSession, StationTimed, TuneTimed, SessionTimed
  <2>10. QED
    BY <2>6, <2>7, <2>8, <2>9 DEF LoopInv
<1>3. CASE ~StationExpired(station, LeaseMs)
  <2>1. UNCHANGED <<station, tune, net, ctl, radio>>
    BY <1>3 DEF StationTick
  <2>2. station.held => station.renewed < LeaseMs
    BY <1>3, LoopFacts, DaemonAssumption DEF StationExpired, StationLease
  <2>3. StationTimed' /\ TuneTimed' /\ SessionTimed'
    BY <1>1, <2>1, <2>2, LoopFacts DEF StationTimed, TuneTimed, SessionTimed
  <2>4. QED
    BY <1>1, <2>1, <2>3
    DEF LoopInv, TypeOK, TuneAgrees, OnAir, UnderStationLease, StreamSound,
        StreamOfSession
<1>4. QED
  BY <1>2, <1>3

(* An overdue Tune is stopped. *)
LEMMA TuneLeaseTickKeeps ==
  ASSUME LoopInv, TuneLeaseTick
  PROVE  LoopInv'
<1>1. /\ pc = "TUNE" /\ pc' = "TX"
      /\ UNCHANGED <<station, net, next, tx_client, prebuf, ptt, gone>>
  BY DEF TuneLeaseTick
<1>2. PICK o \in TuneTick(tune, ctl, radio, LeaseMs, HardMs) :
        tune' = o.t /\ ctl' = o.c /\ radio' = o.radio
  BY DEF TuneLeaseTick, Hardware
<1>3. /\ TuneEffect(tune, ctl, o)
      /\ o.t.active =>
           o.t = tune /\ o.t.renewed < LeaseMs /\ o.t.started < HardMs
  BY LoopFacts, TuneTickKeeps
<1>4. /\ Live(ctl', radio') /\ tune' \in TuneLease
      /\ tune'.active <=> ctl'.owner = "TUNE"
      /\ ctl'.owner # ctl.owner => ctl.owner \in {"NONE", "TUNE"}
      /\ ctl'.owner # ctl.owner => ctl'.owner \in {"NONE", "TUNE"}
      /\ ctl.state = "FAULTED" => ctl'.state = "FAULTED"
      /\ tune'.active => tune' = tune
  BY <1>2, <1>3 DEF TuneEffect
<1>5. TypeOK'
  BY <1>1, <1>4, LoopFacts DEF TypeOK, Live, Sound
<1>6. TuneAgrees' /\ SessionSound(net', ctl') /\ OnAir'
  BY <1>1, <1>4, LoopFacts DEF TuneAgrees, SessionSound, OnAir
<1>7. UnderStationLease'
  BY <1>1, <1>4, LoopFacts DEF LoopInv, UnderStationLease
<1>8. StreamSound'
  BY <1>1, <1>4, LoopFacts DEF StreamSound, StreamOfSession
<1>9. TuneTimed'
  BY <1>2, <1>3, LoopFacts DEF TuneTimed, TuneEffect
<1>10. StationTimed' /\ SessionTimed'
  BY <1>1, LoopFacts DEF StationTimed, SessionTimed
<1>11. QED
  BY <1>4, <1>5, <1>6, <1>7, <1>8, <1>9, <1>10 DEF LoopInv

(* A step that may take the transmitter away from the network and then     *)
(* reconciles Tune: the maximum-key tick, a PTT edge, the shutdown.        *)
LEMMA TakenAway ==
  ASSUME LoopInv, Live(ctl', radio'),
         ctl'.owner \in {ctl.owner, "NONE", "PHYSICAL_MIC"},
         ctl.state = "FAULTED" => ctl'.state = "FAULTED",
         tune' = TuneReconcile(tune, ctl'),
         UNCHANGED <<station, net>>, tx_client' \in {tx_client, 0}
  PROVE  /\ tune' \in TuneLease /\ TuneAge
         /\ TuneAgrees' /\ SessionSound(net', ctl') /\ UnderStationLease'
         /\ StreamSound'
<1>1. ctl'.owner = "TUNE" => tune.active
  BY LoopFacts
<1>2. /\ tune' \in TuneLease
      /\ tune'.active <=> ctl'.owner = "TUNE"
      /\ tune'.active => tune' = tune
  BY <1>1, LoopFacts, TuneReconcileKeeps
<1>3. SessionSound(net', ctl')
  BY LoopFacts DEF SessionSound
<1>4. UnderStationLease'
  BY DEF LoopInv, UnderStationLease
<1>5. StreamSound'
  BY LoopFacts DEF StreamSound, StreamOfSession
<1>6. QED
  BY <1>2, <1>3, <1>4, <1>5 DEF TuneAge, TuneAgrees

(* The maximum-key watchdog. *)
LEMMA MaximumKeyTickKeeps ==
  ASSUME LoopInv, MaximumKeyTick
  PROVE  LoopInv'
<1>1. /\ pc = "TX" /\ pc' = "NET"
      /\ tune' = TuneReconcile(tune, ctl')
      /\ UNCHANGED <<station, net, next, tx_client, prebuf, ptt, gone>>
  BY DEF MaximumKeyTick
<1>2. PICK o \in Tick(ctl, radio) : ctl' = o.c /\ radio' = o.radio
  BY DEF MaximumKeyTick, Hardware
<1>3. Live(ctl, radio) /\ ctl.maximum_key_ms # 0
  BY LoopFacts, DaemonAssumption DEF Live
<1>4. /\ Sound(o.c, o.radio) /\ MicSound(o.c)
      /\ ctl.enabled => o.c.enabled
      /\ o.c.maximum_key_ms = ctl.maximum_key_ms
      /\ o.c.owner \in {"NONE", ctl.owner}
      /\ ctl.state = "FAULTED" => o.c = ctl
  BY <1>3, TickSound DEF Live
<1>5. /\ Live(ctl', radio')
      /\ ctl'.owner \in {ctl.owner, "NONE", "PHYSICAL_MIC"}
      /\ ctl.state = "FAULTED" => ctl'.state = "FAULTED"
  BY <1>2, <1>3, <1>4 DEF Live
<1>6. /\ tune' \in TuneLease /\ TuneAge
      /\ TuneAgrees' /\ SessionSound(net', ctl') /\ UnderStationLease'
      /\ StreamSound'
  BY <1>1, <1>5, TakenAway
<1>7. TypeOK' /\ OnAir'
  BY <1>1, <1>5, <1>6, LoopFacts DEF TypeOK, OnAir, Live, Sound
<1>8. StationTimed' /\ TuneTimed' /\ SessionTimed'
  BY <1>1, <1>6, LoopFacts, TuneInTime DEF StationTimed, SessionTimed
<1>9. QED
  BY <1>5, <1>6, <1>7, <1>8 DEF LoopInv

(* flex1500_network_tx_reconcile drops a session that lost its transmitter *)
(* and closes its stream.                                                  *)
LEMMA SessionReconcileKeeps ==
  ASSUME LoopInv, SessionReconcile
  PROVE  LoopInv'
<1>1. /\ pc = "NET" /\ pc' = "NETTICK"
      /\ net' = NetReconcile(net, ctl)
      /\ UNCHANGED <<ctl, radio, station, tune, next, ptt, gone>>
  BY DEF SessionReconcile, hwvars
<1>2. /\ net' \in Session
      /\ SessionSound(net', ctl)
      /\ net'.keyed => ctl.owner = "HTTP"
      /\ net'.reserved => net' = net
  BY <1>1, LoopFacts, NetReconcileKeeps
<1>3. /\ tx_client' \in {tx_client, 0} /\ prebuf' \in {prebuf, {}}
      /\ net.reserved /\ ~net'.reserved => tx_client' = 0
      /\ ~net.reserved => tx_client' = tx_client
  BY DEF SessionReconcile
<1>4. TypeOK'
  BY <1>1, <1>2, <1>3, LoopFacts DEF TypeOK
<1>5. OnAir' /\ SessionSound(net', ctl') /\ Live(ctl', radio')
  BY <1>1, <1>2, LoopFacts DEF OnAir
<1>6. TuneAgrees' /\ UnderStationLease'
  BY <1>1 DEF LoopInv, TuneAgrees, UnderStationLease
<1>7. StreamSound'
  BY <1>1, <1>2, <1>3, LoopFacts DEF StreamSound, StreamOfSession
<1>8. StationTimed' /\ TuneTimed' /\ SessionTimed'
  BY <1>1, <1>2, LoopFacts DEF StationTimed, TuneTimed, SessionTimed
<1>9. QED
  BY <1>4, <1>5, <1>6, <1>7, <1>8 DEF LoopInv

(* An expired session is unkeyed and its stream closed; when the unkey     *)
(* fails the stream stays, under a faulted controller.                     *)
LEMMA SessionTickKeeps ==
  ASSUME LoopInv, SessionTick
  PROVE  LoopInv'
<1>1. /\ pc = "NETTICK" /\ pc' = "PUMP"
      /\ UNCHANGED <<station, tune, next, ptt, gone>>
  BY DEF SessionTick
<1>2. PICK o \in NetTick(net, ctl, radio, LeaseMs) :
        /\ net' = o.n /\ ctl' = o.c /\ radio' = o.radio
        /\ IF o.r = "EXPIRED"
           THEN tx_client' = 0 /\ prebuf' = {}
           ELSE UNCHANGED <<tx_client, prebuf>>
  BY DEF SessionTick, Hardware
<1>3. net.keyed => ctl.owner = "HTTP"
  BY <1>1 DEF LoopInv, OnAir
<1>4. /\ SessionEffect(net, ctl, o)
      /\ o.n.keyed => o.c.owner = "HTTP"
      /\ o.c.owner = "HTTP" => ctl.owner = "HTTP"
      /\ o.n.reserved => o.n.renewed < LeaseMs
      /\ o.r = "EXPIRED" => ~o.n.reserved
      /\ o.r # "EXPIRED" /\ net.reserved /\ ~o.n.reserved =>
           o.c.state = "FAULTED"
  BY <1>3, LoopFacts, NetTickKeeps
<1>5. /\ Live(ctl', radio') /\ net' \in Session /\ SessionSound(net', ctl')
      /\ ctl'.owner # ctl.owner => ctl.owner \in {"NONE", "HTTP"}
      /\ ctl'.owner # ctl.owner => ctl'.owner \in {"NONE", "HTTP"}
      /\ ctl.state = "FAULTED" => ctl'.state = "FAULTED"
      /\ net'.reserved => net.reserved /\ net'.lease = net.lease
      /\ ctl'.owner = "HTTP" => ctl.owner = "HTTP"
  BY <1>2, <1>4 DEF SessionEffect
<1>6. TypeOK'
  BY <1>1, <1>2, <1>5, LoopFacts DEF TypeOK, Live, Sound
<1>7. TuneAgrees' /\ OnAir' /\ UnderStationLease'
  BY <1>1, <1>2, <1>4, <1>5, LoopFacts
  DEF LoopInv, TuneAgrees, OnAir, UnderStationLease
<1>8. StreamSound'
  BY <1>1, <1>2, <1>4, <1>5, LoopFacts DEF StreamSound, StreamOfSession
<1>9. StationTimed' /\ TuneTimed'
  BY <1>1, LoopFacts DEF StationTimed, TuneTimed
<1>10. SessionTimed'
  <2>1. net'.reserved => net'.renewed < LeaseMs
    BY <1>2, <1>4
  <2>2. net'.renewed \in Nat
    BY <1>5 DEF Session
  <2>3. QED
    BY <2>1, <2>2, DaemonAssumption DEF SessionTimed
<1>11. QED
  BY <1>5, <1>6, <1>7, <1>8, <1>9, <1>10 DEF LoopInv

-----------------------------------------------------------------------------
(* The wait for USB, the loss of the device, the button. *)

(* The clock of the model adds at most the time that passed. *)
LEMMA LaterBound ==
  ASSUME NEW t \in Nat, NEW d \in Nat
  PROVE  Later(t, d) \in Nat /\ Later(t, d) <= t + d
<1>1. MaxAge \in Nat
  BY DaemonAssumption
<1>2. QED
  BY <1>1 DEF Later

(* The station lease only grows older. *)
LEMMA StationOlder ==
  ASSUME LoopInv, NEW d \in Nat, StationLater(d)
  PROVE  /\ station' \in StationLease /\ station'.held = station.held
         /\ station.held => station'.renewed <= station.renewed + d
<1>1. station.renewed \in Nat
  BY LoopFacts DEF StationLease
<1>2. /\ Later(station.renewed, d) \in Nat
      /\ Later(station.renewed, d) <= station.renewed + d
  BY <1>1, LaterBound
<1>3. QED
  BY <1>2, LoopFacts DEF StationLater, StationLease

(* One wait adds at most LoopMs to every lease. *)
LEMMA PumpKeeps ==
  ASSUME LoopInv, NEW d \in 0..LoopMs, Pump(d)
  PROVE  LoopInv'
<1>1. /\ pc = "PUMP" /\ pc' = "INPUTS" /\ Older(d)
      /\ UNCHANGED <<radio, next, tx_client, prebuf, gone>>
  BY DEF Pump
<1>2. d \in Nat /\ d <= LoopMs /\ LoopMs \in Nat
  BY DaemonAssumption
<1>3. {LeaseMs, HardMs} \subseteq Nat
  BY DaemonAssumption
<1>4. ptt' \in Button
  BY LoopFacts DEF Pump, TypeOK, Button
<1>5. /\ station' \in StationLease /\ station'.held = station.held
      /\ station.held => station'.renewed <= station.renewed + d
  BY <1>1, <1>2, StationOlder DEF Older
<1>6. /\ tune' \in TuneLease /\ tune'.active = tune.active
      /\ tune.active => /\ tune'.renewed <= tune.renewed + d
                        /\ tune'.started <= tune.started + d
  <2>1. tune.renewed \in Nat /\ tune.started \in Nat
    BY LoopFacts DEF TuneLease
  <2>2. /\ Later(tune.renewed, d) \in Nat /\ Later(tune.started, d) \in Nat
        /\ Later(tune.renewed, d) <= tune.renewed + d
        /\ Later(tune.started, d) <= tune.started + d
    BY <1>2, <2>1, LaterBound
  <2>3. QED
    BY <1>1, <2>2, LoopFacts DEF Older, TuneLease
<1>7. /\ net' \in Session /\ net'.reserved = net.reserved
      /\ net'.lease = net.lease /\ net'.keyed = net.keyed
      /\ net'.stream_connected = net.stream_connected
      /\ net.reserved => net'.renewed <= net.renewed + d
  <2>1. net.renewed \in Nat
    BY LoopFacts DEF Session
  <2>2. /\ Later(net.renewed, d) \in Nat
        /\ Later(net.renewed, d) <= net.renewed + d
    BY <1>2, <2>1, LaterBound
  <2>3. QED
    BY <1>1, <2>2, LoopFacts DEF Older, Session
<1>8. /\ Live(ctl', radio')
      /\ ctl'.owner = ctl.owner /\ ctl'.state = ctl.state
  <2> DEFINE k == Later(Aged(ctl, d).key_ms, 0)
  <2>1. Aged(ctl, d).key_ms \in Nat
    BY <1>2, LoopFacts DEF Aged, Live, Sound, Control
  <2>2. k \in Nat
    BY <2>1, LaterBound
  <2>3. ctl' = [Aged(ctl, d) EXCEPT !.key_ms = k]
    BY <1>1 DEF Older
  <2> HIDE DEF k
  <2>4. ctl' = [ctl EXCEPT !.key_ms = k]
    BY <2>3, LoopFacts DEF Aged, Live, Sound, Control
  <2>5. QED
    BY <1>1, <2>2, <2>4, LoopFacts DEF Live, Sound, MicSound, Control
<1>9. TypeOK'
  BY <1>1, <1>4, <1>5, <1>6, <1>7, <1>8, LoopFacts DEF TypeOK, Live, Sound
<1>10. TuneAgrees' /\ SessionSound(net', ctl') /\ UnderStationLease'
  BY <1>5, <1>6, <1>7, <1>8, LoopFacts
  DEF LoopInv, TuneAgrees, SessionSound, UnderStationLease
<1>11. OnAir'
  BY <1>1, <1>7, <1>8 DEF LoopInv, OnAir
<1>12. StreamSound'
  BY <1>1, <1>5, <1>7, <1>8, LoopFacts DEF StreamSound, StreamOfSession
<1>13. StationTimed'
  <2>1. station.held => station.renewed < LeaseMs
    BY <1>1, LoopFacts DEF StationTimed
  <2>2. station.renewed \in Nat /\ station'.renewed \in Nat
    BY <1>5, LoopFacts DEF StationLease
  <2>3. station'.held => station'.renewed < LeaseMs + LoopMs
    BY <1>2, <1>3, <1>5, <2>1, <2>2
  <2>4. QED
    BY <1>1, <2>3 DEF StationTimed
<1>14. TuneTimed'
  <2>1. tune.active => tune.renewed < LeaseMs /\ tune.started < HardMs
    BY <1>1, LoopFacts DEF TuneTimed
  <2>2. {tune.renewed, tune'.renewed, tune.started, tune'.started}
          \subseteq Nat
    BY <1>6, LoopFacts DEF TuneLease
  <2>3. tune'.active => /\ tune'.renewed < LeaseMs + LoopMs
                        /\ tune'.started < HardMs + LoopMs
    BY <1>2, <1>3, <1>6, <2>1, <2>2
  <2>4. QED
    BY <1>1, <2>3 DEF TuneTimed
<1>15. SessionTimed'
  <2>1. net.reserved => net.renewed < LeaseMs
    BY <1>1, LoopFacts DEF SessionTimed
  <2>2. net.renewed \in Nat /\ net'.renewed \in Nat
    BY <1>7, LoopFacts DEF Session
  <2>3. net'.reserved => net'.renewed < LeaseMs + LoopMs
    BY <1>2, <1>3, <1>7, <2>1, <2>2
  <2>4. QED
    BY <1>1, <2>3 DEF SessionTimed
<1>16. QED
  BY <1>8, <1>9, <1>10, <1>11, <1>12, <1>13, <1>14, <1>15 DEF LoopInv

(* What is left of the controller when the device is lost: nobody owns it. *)
LEMMA LossSound ==
  ASSUME LoopInv, NEW o \in LossOutcomes
  PROVE  Live(o.c, o.radio) /\ o.c.owner = "NONE"
<1>1. PICK a \in NetDisconnectStream(net, ctl, radio) :
        o \in UNION {StopOwner(b.c, b.radio) :
                       b \in NetRelease(a.n, a.c, a.radio, a.n.lease)}
  BY DEF LossOutcomes
<1>2. PICK b \in NetRelease(a.n, a.c, a.radio, a.n.lease) :
        o \in StopOwner(b.c, b.radio)
  BY <1>1
<1>3. SessionEffect(net, ctl, a)
  BY LoopFacts, NetDisconnectStreamKeeps
<1>4. a.n \in Session /\ Live(a.c, a.radio) /\ SessionSound(a.n, a.c)
  BY <1>3 DEF SessionEffect
<1>5. SessionEffect(a.n, a.c, b)
  BY <1>4, NetReleaseKeeps
<1>6. Live(b.c, b.radio)
  BY <1>5 DEF SessionEffect
<1>7. /\ Sound(o.c, o.radio) /\ o.c.owner = "NONE"
      /\ b.c.enabled => o.c.enabled
      /\ o.c.maximum_key_ms = b.c.maximum_key_ms
  BY <1>2, <1>6, StopOwnerSound DEF Live
<1>8. QED
  BY <1>6, <1>7 DEF Live, MicSound

(* A recovered device: everything but the station lease starts afresh.     *)
LEMMA RecoverKeeps ==
  ASSUME LoopInv, NEW d \in {1, LeaseMs}, Recover(d)
  PROVE  LoopInv'
<1>1. /\ pc = "PUMP" /\ pc' = "STATION"
      /\ ctl' = ArmPhysicalPtt(Fresh(TRUE, ctl.maximum_key_ms))
      /\ tune' = NoTune /\ net' = NoSession
      /\ StationLater(d)
      /\ tx_client' = 0 /\ prebuf' = {}
      /\ UNCHANGED <<next, gone>>
  BY DEF Recover
<1>2. PICK o \in LossOutcomes : radio' = [o.radio EXCEPT !.key = FALSE]
  BY DEF Recover
<1>3. Live(o.c, o.radio)
  BY LossSound
<1>4. radio' \in Radio /\ ~radio'.key /\ ~radio'.overlap
  BY <1>2, <1>3 DEF Live, Sound, Radio
<1> DEFINE fresh == Fresh(TRUE, ctl.maximum_key_ms)
<1>5. /\ Sound(fresh, radio') /\ MicSound(fresh) /\ fresh.owner = "NONE"
      /\ fresh.enabled /\ fresh.maximum_key_ms \in Timeouts
  BY <1>4, LoopFacts, DaemonAssumption
  DEF Fresh, Live, Sound, MicSound, Control, States, Owners
<1>6. Live(ctl', radio') /\ ctl'.owner = "NONE"
  <2>1. ctl' = ArmPhysicalPtt(fresh)
    BY <1>1
  <2> HIDE DEF fresh
  <2>2. QED
    BY <1>5, <2>1, ArmSound DEF Live
<1>7. station' \in StationLease
  BY <1>1, StationOlder, DaemonAssumption
<1>8. ptt' \in Button
  BY LoopFacts DEF Recover, TypeOK, Button
<1>9. TypeOK'
  BY <1>1, <1>6, <1>7, <1>8, LoopFacts, NoLeases DEF TypeOK, Live, Sound
<1>10. TuneAgrees' /\ SessionSound(net', ctl') /\ UnderStationLease' /\ OnAir'
  BY <1>1, <1>6, NoLeases
  DEF TuneAgrees, SessionSound, UnderStationLease, OnAir
<1>11. StreamSound' /\ StationTimed' /\ TuneTimed' /\ SessionTimed'
  BY <1>1, NoLeases
  DEF StreamSound, StreamOfSession, StationTimed, TuneTimed, SessionTimed
<1>12. QED
  BY <1>6, <1>9, <1>10, <1>11 DEF LoopInv

(* A device that does not come back. *)
LEMMA AbandonKeeps ==
  ASSUME LoopInv, Abandon
  PROVE  LoopInv'
<1>1. /\ pc = "PUMP" /\ pc' = "END"
      /\ tune' = NoTune /\ net' = NoSession
      /\ tx_client' = 0 /\ prebuf' = {}
      /\ UNCHANGED <<station, next, ptt, gone>>
  BY DEF Abandon
<1>2. PICK o \in LossOutcomes : ctl' = o.c /\ radio' = o.radio
  BY DEF Abandon, Hardware
<1>3. Live(ctl', radio') /\ ctl'.owner = "NONE"
  BY <1>2, LossSound
<1>4. TypeOK'
  BY <1>1, <1>3, LoopFacts, NoLeases DEF TypeOK, Live, Sound
<1>5. TuneAgrees' /\ SessionSound(net', ctl') /\ UnderStationLease' /\ OnAir'
  BY <1>1, <1>3, NoLeases
  DEF TuneAgrees, SessionSound, UnderStationLease, OnAir
<1>6. StreamSound' /\ StationTimed' /\ TuneTimed' /\ SessionTimed'
  BY <1>1, NoLeases
  DEF StreamSound, StreamOfSession, StationTimed, TuneTimed, SessionTimed
<1>7. QED
  BY <1>3, <1>4, <1>5, <1>6 DEF LoopInv

(* daemon_tx_shutdown leaves the transmitter unowned. *)
LEMMA TerminateKeeps ==
  ASSUME LoopInv, Terminate
  PROVE  LoopInv'
<1>1. /\ pc = "STATION" /\ pc' = "END" /\ tx_client' = 0
      /\ tune' = TuneReconcile(tune, ctl')
      /\ UNCHANGED <<station, net, next, prebuf, ptt, gone>>
  BY DEF Terminate, Shutdown
<1>2. PICK o \in StopOwner(ctl, radio) : ctl' = o.c /\ radio' = o.radio
  BY DEF Terminate, Shutdown, Hardware
<1>3. Live(ctl, radio)
  BY LoopFacts
<1>4. /\ Sound(o.c, o.radio) /\ o.c.owner = "NONE"
      /\ ctl.enabled => o.c.enabled
      /\ o.c.maximum_key_ms = ctl.maximum_key_ms
      /\ ctl.owner = "NONE" => o.c = ctl
  BY <1>3, StopOwnerSound DEF Live
<1>5. ctl.state = "FAULTED" => ctl.owner = "NONE"
  BY <1>3 DEF Live, Sound
<1>6. /\ Live(ctl', radio') /\ ctl'.owner = "NONE"
      /\ ctl.state = "FAULTED" => ctl'.state = "FAULTED"
  BY <1>2, <1>3, <1>4, <1>5 DEF Live, MicSound
<1>7. /\ tune' \in TuneLease /\ TuneAge
      /\ TuneAgrees' /\ SessionSound(net', ctl') /\ UnderStationLease'
      /\ StreamSound'
  BY <1>1, <1>6, TakenAway
<1>8. TypeOK' /\ OnAir'
  <2>1. tx_client' \in Issued \cup {0}
    BY <1>1
  <2>2. QED
    BY <1>1, <1>6, <1>7, <2>1, LoopFacts DEF TypeOK, OnAir, Live, Sound
<1>9. StationTimed' /\ TuneTimed' /\ SessionTimed'
  BY <1>1, <1>7, LoopFacts, TuneInTime DEF StationTimed, SessionTimed
<1>10. QED
  BY <1>6, <1>7, <1>8, <1>9 DEF LoopInv

(* A PTT edge may preempt Tune, which is reconciled at once, or the        *)
(* session, which waits for the next turn of the loop.                     *)
LEMMA ReadButtonKeeps ==
  ASSUME LoopInv, NEW other \in BOOLEAN, ReadButton(other)
  PROVE  LoopInv'
<1>1. /\ pc = "INPUTS" /\ pc' = "HTTP"
      /\ UNCHANGED <<station, net, next, tx_client, prebuf, gone>>
  BY DEF ReadButton
<1>2. ptt \in Button /\ ptt' \in Button
  BY LoopFacts DEF ReadButton, Noticed, TypeOK, Button
<1>3. CASE UNCHANGED <<ctl, radio, tune>>
  <2>1. TypeOK' /\ OnAir'
    BY <1>1, <1>2, <1>3, LoopFacts DEF TypeOK, OnAir
  <2>2. StationTimed' /\ TuneTimed' /\ SessionTimed'
    BY <1>1, <1>3, LoopFacts DEF StationTimed, TuneTimed, SessionTimed
  <2>3. QED
    BY <1>1, <1>3, <2>1, <2>2
    DEF LoopInv, TuneAgrees, UnderStationLease, StreamSound, StreamOfSession
<1>4. CASE PassOnEdge
  <2>1. PICK o \in PhysicalPtt(ctl, radio, ptt.inputs) :
          ctl' = o.c /\ radio' = o.radio
    BY <1>4 DEF PassOnEdge, Hardware
  <2>2. Live(ctl, radio) /\ ptt.inputs \in BOOLEAN
    BY <1>2, LoopFacts DEF Button
  <2>3. /\ Sound(o.c, o.radio) /\ MicSound(o.c)
        /\ ctl.enabled => o.c.enabled
        /\ o.c.maximum_key_ms = ctl.maximum_key_ms
        /\ o.c.owner \in {ctl.owner, "NONE", "PHYSICAL_MIC"}
        /\ ctl.state = "FAULTED" => o.c.state = "FAULTED"
    BY <2>2, PhysicalPttSound DEF Live
  <2>4. /\ Live(ctl', radio')
        /\ ctl'.owner \in {ctl.owner, "NONE", "PHYSICAL_MIC"}
        /\ ctl.state = "FAULTED" => ctl'.state = "FAULTED"
    BY <2>1, <2>2, <2>3 DEF Live
  <2>5. tune' = TuneReconcile(tune, ctl')
    BY <1>4 DEF PassOnEdge
  <2>6. /\ tune' \in TuneLease /\ TuneAge
        /\ TuneAgrees' /\ SessionSound(net', ctl') /\ UnderStationLease'
        /\ StreamSound'
    BY <1>1, <2>4, <2>5, TakenAway
  <2>7. TypeOK' /\ OnAir'
    BY <1>1, <1>2, <2>4, <2>6, LoopFacts DEF TypeOK, OnAir, Live, Sound
  <2>8. StationTimed' /\ TuneTimed' /\ SessionTimed'
    BY <1>1, <2>6, LoopFacts, TuneInTime DEF StationTimed, SessionTimed
  <2>9. QED
    BY <2>4, <2>6, <2>7, <2>8 DEF LoopInv
<1>5. QED
  BY <1>3, <1>4 DEF ReadButton, hwvars

(* A turn without a request, or without anything on the stream. *)
LEMMA IdleKeeps ==
  ASSUME LoopInv, NoRequest \/ StreamIdle
  PROVE  LoopInv'
<1>1. /\ UNCHANGED <<ctl, radio, station, tune, net, next, tx_client, prebuf,
                     ptt, gone>>
      /\ \/ pc = "HTTP" /\ pc' = "STREAM"
         \/ pc = "STREAM" /\ pc' = "STATION"
  BY DEF NoRequest, StreamIdle, hwvars, leases
<1>2. TypeOK' /\ OnAir'
  BY <1>1, LoopFacts DEF TypeOK, OnAir
<1>3. StationTimed' /\ TuneTimed' /\ SessionTimed'
  BY <1>1, LoopFacts DEF StationTimed, TuneTimed, SessionTimed
<1>4. QED
  BY <1>1, <1>2, <1>3
  DEF LoopInv, TuneAgrees, UnderStationLease, StreamSound, StreamOfSession

-----------------------------------------------------------------------------
(* Requests and the transmit stream. *)

(* Where the loop serves clients.                                          *)
Serving ==
  \/ pc = "HTTP" /\ pc' = "STREAM"
  \/ pc = "STREAM" /\ pc' = "STATION"

(* The parts of the invariant that a step of serving clients has to show;  *)
(* the places in the loop and the rest follow.                             *)
LEMMA Served ==
  ASSUME LoopInv, Serving, UNCHANGED <<ptt, gone>>,
         Live(ctl', radio'),
         station' \in StationLease, tune' \in TuneLease, net' \in Session,
         next' \in Counters,
         tx_client' \in Issued \cup {0}, prebuf' \subseteq Issued,
         TuneAgrees', SessionSound(net', ctl'), UnderStationLease',
         StreamSound', StationAge, TuneAge, SessionAge
  PROVE  LoopInv'
<1>1. TypeOK' /\ OnAir'
  BY LoopFacts DEF Serving, TypeOK, OnAir, Live, Sound
<1>2. StationTimed' /\ TuneTimed' /\ SessionTimed'
  BY LoopFacts, StationInTime, TuneInTime, SessionInTime DEF Serving
<1>3. QED
  BY <1>1, <1>2 DEF LoopInv

(* A request on the Tune lease, of an authorized client. *)
LEMMA TuneServed ==
  ASSUME LoopInv, Serving, station.held,
         NEW o, TuneEffect(tune, ctl, o),
         tune' = o.t, ctl' = o.c, radio' = o.radio, next' \in Counters,
         UNCHANGED <<station, net, ptt, gone>>, CloseOrphan
  PROVE  LoopInv'
<1>1. /\ tx_client' \in {tx_client, 0}
      /\ ~net'.reserved => tx_client' = 0
      /\ tx_client' \in Issued \cup {0} /\ prebuf' \subseteq Issued
  BY LoopFacts, OrphanClosed
<1>2. /\ Live(ctl', radio') /\ tune' \in TuneLease /\ TuneAgrees' /\ TuneAge
      /\ ctl'.owner = "HTTP" => ctl.owner = "HTTP"
      /\ ctl.state = "FAULTED" => ctl'.state = "FAULTED"
  BY DEF TuneEffect, TuneAgrees, TuneAge
<1>3. SessionSound(net', ctl') /\ UnderStationLease'
  BY <1>2, LoopFacts DEF SessionSound, UnderStationLease
<1>4. StreamSound'
  BY <1>1, <1>2, LoopFacts, StreamKept
<1>5. station' \in StationLease /\ net' \in Session
  BY LoopFacts
<1>6. StationAge /\ SessionAge
  BY DEF StationAge, SessionAge
<1>7. QED
  BY <1>1, <1>2, <1>3, <1>4, <1>5, <1>6, Served

(* A request on the session, or the end of its stream, that may unkey it   *)
(* or, for an authorized client, key it.                                   *)
LEMMA SessionServed ==
  ASSUME LoopInv, Serving,
         NEW o, SessionEffect(net, ctl, o),
         o.c.owner = "HTTP" => station.held,
         net' = o.n, ctl' = o.c, radio' = o.radio,
         UNCHANGED <<station, tune, next, ptt, gone>>,
         tx_client' \in {tx_client, 0}, prebuf' \subseteq Issued,
         ~net'.reserved => tx_client' = 0
  PROVE  LoopInv'
<1>1. /\ Live(ctl', radio') /\ net' \in Session /\ SessionSound(net', ctl')
      /\ ctl'.owner # ctl.owner => ctl.owner # "TUNE" /\ ctl'.owner # "TUNE"
      /\ ctl.state = "FAULTED" => ctl'.state = "FAULTED"
      /\ net'.reserved => /\ net.reserved /\ net'.lease = net.lease
                          /\ net'.renewed \in {0, net.renewed}
  BY DEF SessionEffect
<1>2. TuneAgrees'
  BY <1>1, LoopFacts DEF TuneAgrees
<1>3. UnderStationLease'
  BY <1>1, LoopFacts DEF LoopInv, UnderStationLease
<1>4. StreamSound'
  BY <1>1, LoopFacts, StreamKept
<1>5. /\ station' \in StationLease /\ tune' \in TuneLease
      /\ next' \in Counters /\ tx_client' \in Issued \cup {0}
  BY LoopFacts DEF TypeOK
<1>6. StationAge /\ TuneAge /\ SessionAge
  BY <1>1 DEF StationAge, TuneAge, SessionAge
<1>7. QED
  BY <1>1, <1>2, <1>3, <1>4, <1>5, <1>6, Served

(* A request on the station lease. *)
LEMMA StationServed ==
  ASSUME LoopInv, Serving,
         station' \in StationLease, StationAge,
         ctl.owner # "NONE" => (station.held => station'.held),
         next' \in Counters,
         UNCHANGED <<ctl, radio, tune, net, ptt, gone>>, CloseOrphan
  PROVE  LoopInv'
<1>1. /\ tx_client' \in {tx_client, 0}
      /\ ~net'.reserved => tx_client' = 0
      /\ tx_client' \in Issued \cup {0} /\ prebuf' \subseteq Issued
  BY LoopFacts, OrphanClosed
<1>2. /\ Live(ctl', radio') /\ tune' \in TuneLease /\ net' \in Session
      /\ TuneAgrees' /\ SessionSound(net', ctl') /\ TuneAge /\ SessionAge
  BY LoopFacts DEF TuneAgrees, TuneAge, SessionAge
<1>3. UnderStationLease'
  BY DEF LoopInv, UnderStationLease
<1>4. StreamSound'
  BY <1>1, LoopFacts, StreamKept
<1>5. QED
  BY <1>1, <1>2, <1>3, <1>4, Served

(* A request, or a read, that changes the session and not the controller.  *)
LEMMA KeptServed ==
  ASSUME LoopInv, Serving, SessionKept(net, ctl, net'),
         UNCHANGED <<ctl, radio, station, tune, next, ptt, gone>>,
         tx_client' \in {tx_client, 0} \/ tx_client' = net.lease,
         tx_client' \in Issued \cup {0}, prebuf' \subseteq Issued,
         net.reserved \/ tx_client' \in {tx_client, 0}
  PROVE  LoopInv'
<1>1. /\ net' \in Session /\ SessionSound(net', ctl')
      /\ net'.reserved = net.reserved /\ net'.lease = net.lease
      /\ net'.renewed \in {0, net.renewed}
  BY DEF SessionKept
<1>2. /\ Live(ctl', radio') /\ station' \in StationLease
      /\ tune' \in TuneLease /\ next' \in Counters
      /\ TuneAgrees' /\ UnderStationLease'
  BY LoopFacts DEF LoopInv, TypeOK, TuneAgrees, UnderStationLease
<1>3. StreamSound'
  BY <1>1, LoopFacts DEF StreamSound, StreamOfSession
<1>4. StationAge /\ TuneAge /\ SessionAge
  BY <1>1 DEF StationAge, TuneAge, SessionAge
<1>5. QED
  BY <1>1, <1>2, <1>3, <1>4, Served

(* Every lease number the daemon still has to give is a lease. *)
LEMMA NextLease ==
  ASSUME LoopInv
  PROVE  /\ next \in Counters
         /\ next.station <= MaxLeases =>
              /\ next.station \in Issued
              /\ [next EXCEPT !.station = next.station + 1] \in Counters
         /\ next.tune <= MaxLeases =>
              /\ next.tune \in Issued
              /\ [next EXCEPT !.tune = next.tune + 1] \in Counters
         /\ next.tx <= MaxLeases =>
              /\ next.tx \in Issued
              /\ [next EXCEPT !.tx = next.tx + 1] \in Counters
<1>1. MaxLeases \in Nat
  BY DaemonAssumption
<1>2. next \in Counters
  BY LoopFacts DEF TypeOK
<1>3. QED
  BY <1>1, <1>2 DEF Counters, Issued

(* The requests that only read, and those on the station lease. *)
LEMMA StationRequestKeeps ==
  ASSUME LoopInv,
         \/ OtherRequest \/ PostOwner
         \/ \E s \in Issued : PutOwnerKeepalive(s) \/ DeleteOwner(s)
  PROVE  LoopInv'
<1>1. station \in StationLease /\ next \in Counters
  BY LoopFacts DEF TypeOK
<1>2. CASE OtherRequest
  <2>1. /\ Serving /\ CloseOrphan
        /\ UNCHANGED <<ctl, radio, station, tune, net, next, ptt, gone>>
    BY <1>2 DEF OtherRequest, Request_, Serving, hwvars, leases
  <2>2. StationAge
    BY <2>1 DEF StationAge
  <2>3. QED
    BY <1>1, <2>1, <2>2, StationServed
<1>3. CASE PostOwner
  <2>1. /\ Serving /\ CloseOrphan
        /\ next.station <= MaxLeases
        /\ station' = StationAcquire(station, next.station)
        /\ next' = [next EXCEPT !.station = next.station + 1]
        /\ UNCHANGED <<ctl, radio, tune, net, ptt, gone>>
    BY <1>3 DEF PostOwner, Request_, Serving, hwvars
  <2>2. next.station \in Issued /\ next' \in Counters
    BY <2>1, NextLease
  <2>3. station' \in StationLease /\ StationAge
    BY <1>1, <2>1, <2>2 DEF StationAcquire, StationLease, StationAge
  <2>4. station.held => station'.held
    BY <2>1 DEF StationAcquire
  <2>5. QED
    BY <2>1, <2>2, <2>3, <2>4, StationServed
<1>4. ASSUME NEW s \in Issued, PutOwnerKeepalive(s)
      PROVE  LoopInv'
  <2>1. /\ Serving /\ CloseOrphan
        /\ station' = StationKeepalive(station, s)
        /\ UNCHANGED <<ctl, radio, tune, net, next, ptt, gone>>
    BY <1>4 DEF PutOwnerKeepalive, Request_, Serving, hwvars
  <2>2. /\ station' \in StationLease /\ StationAge
        /\ station.held => station'.held
    BY <1>1, <2>1 DEF StationKeepalive, StationLease, StationAge
  <2>3. QED
    BY <1>1, <2>1, <2>2, StationServed
<1>5. ASSUME NEW s \in Issued, DeleteOwner(s)
      PROVE  LoopInv'
  <2>1. /\ Serving /\ CloseOrphan
        /\ station' = IF ctl.owner # "NONE" THEN station
                                            ELSE StationRelease(station, s)
        /\ UNCHANGED <<ctl, radio, tune, net, next, ptt, gone>>
    BY <1>5 DEF DeleteOwner, Request_, Serving, hwvars
  <2>2. station' = station \/ (station' = NoStation /\ ctl.owner = "NONE")
    BY <2>1 DEF StationRelease
  <2>3. /\ station' \in StationLease /\ StationAge
        /\ ctl.owner # "NONE" => (station.held => station'.held)
    BY <1>1, <2>2, NoLeases DEF StationAge
  <2>4. QED
    BY <1>1, <2>1, <2>3, StationServed
<1>6. QED
  BY <1>2, <1>3, <1>4, <1>5

(* The requests on the Tune lease. *)
LEMMA TuneRequestKeeps ==
  ASSUME LoopInv, NEW s \in Issued,
         \/ PutTuneStart(s)
         \/ \E lease \in Issued :
              PutTuneKeepalive(s, lease) \/ PutTuneStop(s, lease)
  PROVE  LoopInv'
<1>1. next \in Counters
  BY LoopFacts DEF TypeOK
<1>2. CASE PutTuneStart(s)
  <2>1. /\ Serving /\ station.held /\ CloseOrphan
        /\ next.tune <= MaxLeases
        /\ next' = [next EXCEPT !.tune = next.tune + 1]
        /\ UNCHANGED <<station, net, ptt, gone>>
    BY <1>2
    DEF PutTuneStart, Authorized, StationMatches, Request_, Serving
  <2>2. PICK o \in TuneStart(tune, ctl, radio, next.tune) :
          tune' = o.t /\ ctl' = o.c /\ radio' = o.radio
    BY <1>2 DEF PutTuneStart, Hardware
  <2>3. next.tune \in Issued /\ next' \in Counters
    BY <2>1, NextLease
  <2>4. TuneEffect(tune, ctl, o)
    BY <2>3, LoopFacts, TuneStartKeeps
  <2>5. QED
    BY <2>1, <2>2, <2>3, <2>4, TuneServed
<1>3. ASSUME NEW lease \in Issued, PutTuneKeepalive(s, lease)
      PROVE  LoopInv'
  <2>1. /\ Serving /\ station.held /\ CloseOrphan
        /\ UNCHANGED <<station, net, next, ptt, gone>>
    BY <1>3
    DEF PutTuneKeepalive, Authorized, StationMatches, Request_, Serving
  <2>2. PICK o \in TuneKeepalive(tune, ctl, radio, lease, LeaseMs, HardMs) :
          tune' = o.t /\ ctl' = o.c /\ radio' = o.radio
    BY <1>3 DEF PutTuneKeepalive, Hardware
  <2>3. TuneEffect(tune, ctl, o)
    BY LoopFacts, TuneKeepaliveKeeps
  <2>4. QED
    BY <1>1, <2>1, <2>2, <2>3, TuneServed
<1>4. ASSUME NEW lease \in Issued, PutTuneStop(s, lease)
      PROVE  LoopInv'
  <2>1. /\ Serving /\ station.held /\ CloseOrphan
        /\ UNCHANGED <<station, net, next, ptt, gone>>
    BY <1>4 DEF PutTuneStop, Authorized, StationMatches, Request_, Serving
  <2>2. PICK o \in TuneStop(tune, ctl, radio, lease) :
          tune' = o.t /\ ctl' = o.c /\ radio' = o.radio
    BY <1>4 DEF PutTuneStop, Hardware
  <2>3. TuneEffect(tune, ctl, o)
    BY LoopFacts, TuneStopKeeps
  <2>4. QED
    BY <1>1, <2>1, <2>2, <2>3, TuneServed
<1>5. QED
  BY <1>2, <1>3, <1>4

(* The requests on the session that do not touch the transmitter. *)
LEMMA SessionRequestKeeps ==
  ASSUME LoopInv, NEW s \in Issued,
         \/ PostSession(s)
         \/ \E lease \in Issued :
              \/ PutSessionKeepalive(s, lease) \/ ConnectStream(s, lease)
              \/ PostAudio(s, lease)
  PROVE  LoopInv'
<1>1. /\ net \in Session /\ SessionSound(net, ctl) /\ station \in StationLease
      /\ tune \in TuneLease /\ Live(ctl, radio)
      /\ tx_client \in Issued \cup {0} /\ prebuf \subseteq Issued
  BY LoopFacts DEF TypeOK
<1>2. CASE PostSession(s)
  <2>1. /\ Serving /\ station.held /\ CloseOrphan
        /\ next.tx <= MaxLeases
        /\ net' = NetAcquire(net, ctl, next.tx)
        /\ next' = [next EXCEPT !.tx = next.tx + 1]
        /\ UNCHANGED <<ctl, radio, station, tune, ptt, gone>>
    BY <1>2
    DEF PostSession, Authorized, StationMatches, Request_, Serving, hwvars
  <2>2. next.tx \in Issued /\ next' \in Counters
    BY <2>1, NextLease
  <2>3. /\ net' \in Session
        /\ SessionSound(net', ctl)
        /\ net' = net \/ (~net.reserved /\ net'.renewed = 0)
    BY <1>1, <2>1, <2>2, NetAcquireKeeps
  <2>4. /\ tx_client' \in {tx_client, 0}
        /\ ~net'.reserved => tx_client' = 0
        /\ tx_client' \in Issued \cup {0} /\ prebuf' \subseteq Issued
    BY <2>1, LoopFacts, OrphanClosed
  <2>5. StreamSound'
    BY <2>1, <2>3, <2>4, LoopFacts, StreamKept
  <2>6. /\ Live(ctl', radio') /\ SessionSound(net', ctl')
        /\ station' \in StationLease /\ tune' \in TuneLease
        /\ TuneAgrees' /\ UnderStationLease'
    BY <1>1, <2>1, <2>3 DEF LoopInv, TuneAgrees, UnderStationLease
  <2>7. StationAge /\ TuneAge /\ SessionAge
    BY <2>1, <2>3 DEF StationAge, TuneAge, SessionAge
  <2>8. QED
    BY <2>1, <2>2, <2>3, <2>4, <2>5, <2>6, <2>7, Served
<1>3. ASSUME NEW lease \in Issued, PutSessionKeepalive(s, lease)
      PROVE  LoopInv'
  <2>1. /\ Serving /\ CloseOrphan /\ net' = NetKeepalive(net, lease)
        /\ UNCHANGED <<ctl, radio, station, tune, next, ptt, gone>>
    BY <1>3
    DEF PutSessionKeepalive, Authorized, Request_, Serving, hwvars
  <2>2. SessionKept(net, ctl, net')
    BY <1>1, <2>1, NetKeepaliveKeeps
  <2>3. /\ tx_client' \in {tx_client, 0}
        /\ tx_client' \in Issued \cup {0} /\ prebuf' \subseteq Issued
    BY <2>1, LoopFacts, OrphanClosed
  <2>4. QED
    BY <2>1, <2>2, <2>3, KeptServed
<1>4. ASSUME NEW lease \in Issued, ConnectStream(s, lease)
      PROVE  LoopInv'
  <2>1. /\ Serving /\ net.reserved /\ net.lease = lease
        /\ net' = NetAttachStream(net, lease)
        /\ tx_client' \in {lease, tx_client} /\ prebuf' = {}
        /\ UNCHANGED <<ctl, radio, station, tune, next, ptt, gone>>
    BY <1>4 DEF ConnectStream, Owns, Authorized, Request_, Serving, hwvars
  <2>2. SessionKept(net, ctl, net')
    BY <1>1, <2>1, NetAttachStreamKeeps
  <2>3. /\ tx_client' \in {tx_client, 0} \/ tx_client' = net.lease
        /\ tx_client' \in Issued \cup {0} /\ prebuf' \subseteq Issued
    BY <1>1, <1>4, <2>1
  <2>4. QED
    BY <2>1, <2>2, <2>3, KeptServed
<1>5. ASSUME NEW lease \in Issued, PostAudio(s, lease)
      PROVE  LoopInv'
  <2> DEFINE m == NetAttachStream(net, lease)
  <2>1. /\ Serving /\ tx_client' = tx_client
        /\ net' = NetRecordData(m, lease, 1, Prebuffer)
        /\ prebuf' \in {prebuf, prebuf \cup {lease}}
        /\ UNCHANGED <<ctl, radio, station, tune, next, ptt, gone>>
    BY <1>5 DEF PostAudio, Authorized, Request_, Serving, hwvars
  <2>2. SessionKept(net, ctl, m)
    BY <1>1, NetAttachStreamKeeps
  <2> HIDE DEF m
  <2>3. SessionKept(m, ctl, net')
    BY <2>1, <2>2, NetRecordDataKeeps DEF SessionKept
  <2>4. SessionKept(net, ctl, net')
    BY <2>2, <2>3 DEF SessionKept
  <2>5. /\ tx_client' \in {tx_client, 0}
        /\ tx_client' \in Issued \cup {0} /\ prebuf' \subseteq Issued
    BY <1>1, <1>5, <2>1
  <2>6. QED
    BY <2>1, <2>4, <2>5, KeptServed
<1>6. QED
  BY <1>2, <1>3, <1>4, <1>5

(* The requests that key and unkey the session. *)
LEMMA PttRequestKeeps ==
  ASSUME LoopInv, NEW s \in Issued, NEW lease \in Issued,
         \/ PutPttStart(s, lease) \/ PutPttStop(s, lease)
         \/ DeleteSession(s, lease)
  PROVE  LoopInv'
<1>1. /\ Serving /\ station.held
      /\ UNCHANGED <<station, tune, next, ptt, gone>>
  BY DEF PutPttStart, PutPttStop, DeleteSession, Authorized, StationMatches,
         Request_, Serving
<1>2. prebuf \subseteq Issued
  BY LoopFacts DEF TypeOK
<1>3. CASE PutPttStart(s, lease)
  <2>1. PICK o \in NetPttStart(net, ctl, radio, lease, Prebuffer) :
          /\ net' = o.n /\ ctl' = o.c /\ radio' = o.radio
          /\ IF o.n.keyed /\ ~net.keyed
             THEN prebuf' = {} /\ UNCHANGED tx_client
             ELSE CloseOrphan
    BY <1>3 DEF PutPttStart, Hardware
  <2>2. SessionEffect(net, ctl, o)
    BY LoopFacts, NetPttStartKeeps
  <2>3. o.n.keyed => o.n.reserved
    BY <2>2 DEF SessionEffect, SessionSound
  <2>4. /\ tx_client' \in {tx_client, 0} /\ prebuf' \subseteq Issued
        /\ ~net'.reserved => tx_client' = 0
    BY <2>1, <2>3, LoopFacts, OrphanClosed
  <2>5. QED
    BY <1>1, <2>1, <2>2, <2>4, SessionServed
<1>4. CASE PutPttStop(s, lease)
  <2>1. PICK o \in NetPttStop(net, ctl, radio, lease) :
          net' = o.n /\ ctl' = o.c /\ radio' = o.radio
    BY <1>4 DEF PutPttStop, Hardware
  <2>2. SessionEffect(net, ctl, o)
    BY LoopFacts, NetPttStopKeeps
  <2>3. /\ tx_client' \in {tx_client, 0} /\ prebuf' \subseteq Issued
        /\ ~net'.reserved => tx_client' = 0
    BY <1>4, LoopFacts, OrphanClosed DEF PutPttStop
  <2>4. QED
    BY <1>1, <2>1, <2>2, <2>3, SessionServed
<1>5. CASE DeleteSession(s, lease)
  <2>1. PICK o \in NetRelease(net, ctl, radio, lease) :
          net' = o.n /\ ctl' = o.c /\ radio' = o.radio
    BY <1>5 DEF DeleteSession, Hardware
  <2>2. SessionEffect(net, ctl, o)
    BY LoopFacts, NetReleaseKeeps
  <2>3. /\ tx_client' \in {tx_client, 0} /\ prebuf' \subseteq Issued
        /\ ~net'.reserved => tx_client' = 0
    BY <1>5, LoopFacts, OrphanClosed DEF DeleteSession
  <2>4. QED
    BY <1>1, <2>1, <2>2, <2>3, SessionServed
<1>6. QED
  BY <1>3, <1>4, <1>5

(* A new maximum-key time, refused while the transmitter is owned. *)
LEMMA PutTimeoutKeeps ==
  ASSUME LoopInv, NEW s \in Issued, NEW ms \in Timeouts, PutTimeout(s, ms)
  PROVE  LoopInv'
<1>1. /\ Serving /\ CloseOrphan
      /\ ctl' = SetTimeout(ctl, ms, Timeouts)
      /\ UNCHANGED <<radio, station, tune, net, next, ptt, gone>>
  BY DEF PutTimeout, Authorized, Request_, Serving, leases
<1>2. Timeouts \in SUBSET Nat
  BY DaemonAssumption
<1>3. Live(ctl, radio)
  BY LoopFacts
<1>4. /\ Sound(ctl', radio) /\ MicSound(ctl')
      /\ ctl'.owner = ctl.owner /\ ctl'.state = ctl.state
      /\ ctl.enabled => ctl'.enabled
      /\ ctl'.maximum_key_ms \in {ctl.maximum_key_ms, ms}
  BY <1>1, <1>2, <1>3, SetTimeoutSound DEF Live
<1>5. Live(ctl', radio')
  BY <1>1, <1>3, <1>4 DEF Live
<1>6. /\ tx_client' \in {tx_client, 0}
      /\ ~net'.reserved => tx_client' = 0
      /\ tx_client' \in Issued \cup {0} /\ prebuf' \subseteq Issued
  BY <1>1, LoopFacts, OrphanClosed
<1>7. StreamSound'
  BY <1>1, <1>4, <1>6, LoopFacts, StreamKept
<1>8. TuneAgrees' /\ SessionSound(net', ctl') /\ UnderStationLease'
  BY <1>1, <1>4, LoopFacts
  DEF LoopInv, TuneAgrees, SessionSound, UnderStationLease
<1>9. /\ station' \in StationLease /\ tune' \in TuneLease
      /\ net' \in Session /\ next' \in Counters
      /\ StationAge /\ TuneAge /\ SessionAge
  BY <1>1, LoopFacts DEF TypeOK, StationAge, TuneAge, SessionAge
<1>10. QED
  BY <1>1, <1>5, <1>6, <1>7, <1>8, <1>9, Served

(* A read of the transmit stream, and its end. *)
LEMMA StreamKeeps ==
  ASSUME LoopInv, StreamData \/ StreamCloses
  PROVE  LoopInv'
<1>1. /\ net \in Session /\ SessionSound(net, ctl)
      /\ tx_client \in Issued \cup {0} /\ prebuf \subseteq Issued
  BY LoopFacts DEF TypeOK
<1>2. CASE StreamData
  <2>1. /\ Serving /\ tx_client' = tx_client /\ tx_client # 0
        /\ net' = NetRecordData(net, net.lease, 1, Prebuffer)
        /\ prebuf' \in {prebuf, prebuf \cup {tx_client}}
        /\ UNCHANGED <<ctl, radio, station, tune, next, ptt, gone>>
    BY <1>2 DEF StreamData, Readable, Serving, hwvars
  <2>2. SessionKept(net, ctl, net')
    BY <1>1, <2>1, NetRecordDataKeeps
  <2>3. tx_client' \in Issued \cup {0} /\ prebuf' \subseteq Issued
    BY <1>1, <2>1
  <2>4. QED
    BY <2>1, <2>2, <2>3, KeptServed
<1>3. CASE StreamCloses
  <2>1. /\ Serving /\ tx_client' = 0 /\ prebuf' = {}
        /\ UNCHANGED <<station, tune, next, ptt, gone>>
    BY <1>3 DEF StreamCloses, Serving
  <2>2. PICK o \in NetDisconnectStream(net, ctl, radio) :
          net' = o.n /\ ctl' = o.c /\ radio' = o.radio
    BY <1>3 DEF StreamCloses, Hardware
  <2>3. SessionEffect(net, ctl, o) /\ o.c.owner # "HTTP"
    BY LoopFacts, NetDisconnectStreamKeeps
  <2>4. QED
    BY <2>1, <2>2, <2>3, SessionServed
<1>4. QED
  BY <1>2, <1>3

(* LoopInv is inductive. *)
LEMMA LoopNext == LoopInv /\ [Next]_vars => LoopInv'
<1> SUFFICES ASSUME LoopInv, [Next]_vars PROVE LoopInv'
  OBVIOUS
<1>1. CASE Loop
  BY <1>1, StationTickKeeps, TuneLeaseTickKeeps, MaximumKeyTickKeeps,
     SessionReconcileKeeps, SessionTickKeeps, PumpKeeps, ReadButtonKeeps,
     IdleKeeps DEF Loop
<1>2. CASE Serve
  BY <1>2, StationRequestKeeps, TuneRequestKeeps, SessionRequestKeeps,
     PttRequestKeeps, PutTimeoutKeeps DEF Serve
<1>3. CASE \/ StreamData \/ StreamCloses \/ Abandon \/ Terminate
           \/ \E d \in {1, LeaseMs} : Recover(d)
  BY <1>3, StreamKeeps, RecoverKeeps, AbandonKeeps, TerminateKeeps
<1>4. CASE UNCHANGED vars
  BY <1>4
  DEF vars, LoopInv, TypeOK, TuneAgrees, OnAir, UnderStationLease,
      StreamSound, StreamOfSession, StationTimed, TuneTimed, SessionTimed
<1>5. QED
  BY <1>1, <1>2, <1>3, <1>4 DEF Next

-----------------------------------------------------------------------------
(* LoopInv holds at every place of the daemon's loop, for every number of  *)
(* leases, all lease and loop times, and all orders of requests, button    *)
(* edges, stream reads, failed stops and lost devices.                     *)
THEOREM LoopInvariance == Spec => []LoopInv
  BY LoopInit, LoopNext, PTL DEF Spec

(* Every reachable state has the types of the code's structs. *)
THEOREM DaemonTyped == Spec => []TypeOK
<1>1. LoopInv => TypeOK
  BY DEF LoopInv
<1>2. QED
  BY <1>1, LoopInvariance, PTL

(* No release or expiry of the station lease and no recovery leaves a      *)
(* network transmission behind: DELETE /v1/owner is refused while keyed,   *)
(* the expiry stops Tune and the session first.                            *)
THEOREM TransmitsUnderStationLease == Spec => []UnderStationLease
<1>1. LoopInv => UnderStationLease
  BY DEF LoopInv
<1>2. QED
  BY <1>1, LoopInvariance, PTL

(* flex1500_tune_control and the controller agree at every place of the    *)
(* loop, after preemption, maximum-key stop, failed start and recovery.    *)
THEOREM TuneLeaseAgrees == Spec => []TuneAgrees
<1>1. LoopInv => TuneAgrees
  BY DEF LoopInv
<1>2. QED
  BY <1>1, LoopInvariance, PTL

(* An HTTP transmission has its reserved, connected, keyed session; the    *)
(* flag of a preempted session is stale only until the loop reconciles.    *)
THEOREM SessionFlagAgrees == Spec => []SessionAgrees
<1>1. LoopInv => SessionAgrees
  BY DEF LoopInv, SessionSound, OnAir, TypeOK, SessionAgrees
<1>2. QED
  BY <1>1, LoopInvariance, PTL

(* No lease outlives its limit by more than one turn of the loop. *)
THEOREM LeasesInTime == Spec => []LeasesBounded
<1>1. LoopInv => LeasesBounded
  <2> SUFFICES ASSUME LoopInv, pc # "STATION", pc # "END"
               PROVE  LeasesBounded
    BY DEF LeasesBounded
  <2>1. station.held => station.renewed < LeaseMs + LoopMs
    <3>1. station.renewed \in Nat /\ LeaseMs \in Nat /\ LoopMs \in Nat
      BY LoopFacts, DaemonAssumption DEF StationLease
    <3>2. pc \in {"TUNE", "TX", "NET", "NETTICK", "PUMP"}
            \cup {"INPUTS", "HTTP", "STREAM"}
      BY LoopFacts DEF TypeOK
    <3>3. QED
      BY <3>1, <3>2, LoopFacts DEF StationTimed
  <2>2. tune.active => /\ tune.renewed < LeaseMs + LoopMs
                       /\ tune.started < HardMs + LoopMs
    BY LoopFacts DEF TuneTimed
  <2>3. net.keyed => net.renewed < LeaseMs + LoopMs
    BY LoopFacts DEF SessionSound, SessionTimed
  <2>4. QED
    BY <2>1, <2>2, <2>3 DEF LeasesBounded
<1>2. QED
  BY <1>1, LoopInvariance, PTL

(* While the controller is not faulted no stream connection outlives its   *)
(* session into the next one.                                              *)
THEOREM StreamFeedsOwnSession == Spec => []StreamOfSession
<1>1. LoopInv => StreamOfSession
  BY DEF LoopInv, StreamSound
<1>2. QED
  BY <1>1, LoopInvariance, PTL

(* The loop never enters a start callback with the radio keyed, also not   *)
(* across a recovery.                                                      *)
THEOREM LoopNeverKeysTwice == Spec => []NeverKeyedTwice
<1>1. LoopInv => NeverKeyedTwice
  BY DEF LoopInv, Live, Sound, NeverKeyedTwice
<1>2. QED
  BY <1>1, LoopInvariance, PTL
=============================================================================
