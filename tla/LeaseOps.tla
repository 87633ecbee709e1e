------------------------------ MODULE LeaseOps ------------------------------
(***************************************************************************)
(* The three leases of a network client, as operators on their structs:    *)
(* the station lease (src/src/station_owner.c), the Tune lease             *)
(* (src/src/tune_control.c) and the general transmit session               *)
(* (src/src/network_tx.c).  Tune and the session drive the ownership       *)
(* controller, so their operations return sets of outcomes like those of   *)
(* TxControlOps.  Lease 0 is no lease.  A record keeps the time since a    *)
(* renewal in place of its clock reading.                                  *)
(***************************************************************************)
EXTENDS TxControlOps

-----------------------------------------------------------------------------
(* station_owner.c *)
NoStation == [held |-> FALSE, lease |-> 0, renewed |-> 0]

StationMatches(s, lease) == s.held /\ lease # 0 /\ s.lease = lease

StationAcquire(s, lease) ==
  IF s.held THEN s ELSE [held |-> TRUE, lease |-> lease, renewed |-> 0]

StationKeepalive(s, lease) ==
  IF StationMatches(s, lease) THEN [s EXCEPT !.renewed = 0] ELSE s

StationRelease(s, lease) ==
  IF StationMatches(s, lease) THEN NoStation ELSE s

(* Mutant: the expiry is off by one. *)
StationExpired_Late(s, LeaseMs) == s.held /\ s.renewed > LeaseMs

StationExpired(s, LeaseMs) == s.held /\ s.renewed >= LeaseMs

-----------------------------------------------------------------------------
(* tune_control.c.  An outcome is [t, c, radio]: the callers only log the  *)
(* result.                                                                 *)
NoTune == [active |-> FALSE, lease |-> 0, started |-> 0, renewed |-> 0]

TuneOutcome(t, c, radio) == [t |-> t, c |-> c, radio |-> radio]

(* stop_active: the lease goes whatever the release reports. *)
TuneStopActive(t, c, radio) ==
  IF ~t.active
  THEN {TuneOutcome(t, c, radio)}
  ELSE {TuneOutcome(NoTune, o.c, o.radio) : o \in Release(c, radio, "TUNE")}

TuneStart(t, c, radio, lease) ==
  IF t.active
  THEN {TuneOutcome(t, c, radio)}
  ELSE {TuneOutcome(IF o.r = "OK"
                    THEN [active |-> TRUE, lease |-> lease,
                          started |-> 0, renewed |-> 0]
                    ELSE t,
                    o.c, o.radio) :
          o \in Request(c, radio, "TUNE")}

TuneMatches(t, lease) == t.active /\ lease # 0 /\ t.lease = lease

TuneOverdue(t, LeaseMs, HardMs) ==
  t.started >= HardMs \/ t.renewed >= LeaseMs

TuneKeepalive(t, c, radio, lease, LeaseMs, HardMs) ==
  IF ~TuneMatches(t, lease)
  THEN {TuneOutcome(t, c, radio)}
  ELSE IF TuneOverdue(t, LeaseMs, HardMs)
  THEN TuneStopActive(t, c, radio)
  ELSE {TuneOutcome([t EXCEPT !.renewed = 0], c, radio)}

TuneStop(t, c, radio, lease) ==
  IF TuneMatches(t, lease)
  THEN TuneStopActive(t, c, radio)
  ELSE {TuneOutcome(t, c, radio)}

TuneTick(t, c, radio, LeaseMs, HardMs) ==
  IF t.active /\ TuneOverdue(t, LeaseMs, HardMs)
  THEN TuneStopActive(t, c, radio)
  ELSE {TuneOutcome(t, c, radio)}

(* A Tune whose transmitter was taken away (preempted, timed out). *)
TuneReconcile(t, c) ==
  IF t.active /\ c.owner # "TUNE" THEN NoTune ELSE t

-----------------------------------------------------------------------------
(* network_tx.c.  An outcome is [n, c, radio, r]. *)
NoSession ==
  [reserved |-> FALSE, lease |-> 0, renewed |-> 0, stream_connected |-> FALSE,
   buffered_frames |-> 0, keyed |-> FALSE]

NetOutcome(n, c, radio, r) == [n |-> n, c |-> c, radio |-> radio, r |-> r]

Owns(n, lease) == n.reserved /\ lease # 0 /\ n.lease = lease

NetAcquire(n, c, lease) ==
  IF ~c.enabled \/ n.reserved \/ c.owner # "NONE"
  THEN n
  ELSE [n EXCEPT !.reserved = TRUE, !.lease = lease, !.renewed = 0]

NetKeepalive(n, lease) ==
  IF Owns(n, lease) THEN [n EXCEPT !.renewed = 0] ELSE n

NetAttachStream(n, lease) ==
  IF ~Owns(n, lease) \/ n.stream_connected
  THEN n
  ELSE [n EXCEPT !.stream_connected = TRUE, !.buffered_frames = 0]

NetRecordData(n, lease, frames, Prebuffer) ==
  IF ~Owns(n, lease) \/ ~n.stream_connected \/ frames = 0
  THEN n
  ELSE [n EXCEPT !.buffered_frames =
          IF @ + frames < Prebuffer THEN @ + frames ELSE Prebuffer]

NetPttStart(n, c, radio, lease, Prebuffer) ==
  IF ~Owns(n, lease) THEN {NetOutcome(n, c, radio, "STALE")}
  ELSE IF ~n.stream_connected \/ n.buffered_frames < Prebuffer
  THEN {NetOutcome(n, c, radio, "NOT_READY")}
  ELSE IF n.keyed THEN {NetOutcome(n, c, radio, "OK")}
  ELSE {IF o.r = "OK"
        THEN NetOutcome([n EXCEPT !.keyed = TRUE, !.renewed = 0],
                        o.c, o.radio, "OK")
        ELSE NetOutcome(n, o.c, o.radio,
                        IF o.r = "BUSY" THEN "BUSY" ELSE "HARDWARE_ERROR") :
          o \in Request(c, radio, "HTTP")}

(* stop_if_keyed: a release the controller refuses (the transmitter was    *)
(* taken away meanwhile) is reported as a hardware error.                  *)
StopIfKeyed(n, c, radio) ==
  IF ~n.keyed
  THEN {NetOutcome(n, c, radio, "OK")}
  ELSE {NetOutcome([n EXCEPT !.keyed = FALSE], o.c, o.radio,
                   IF o.r = "OK" THEN "OK" ELSE "HARDWARE_ERROR") :
          o \in Release(c, radio, "HTTP")}

NetPttStop(n, c, radio, lease) ==
  IF ~Owns(n, lease) THEN {NetOutcome(n, c, radio, "STALE")}
  ELSE {[o EXCEPT !.n.buffered_frames = IF n.keyed THEN 0 ELSE @] :
          o \in StopIfKeyed(n, c, radio)}

NetRelease(n, c, radio, lease) ==
  IF ~Owns(n, lease) THEN {NetOutcome(n, c, radio, "STALE")}
  ELSE {[o EXCEPT !.n = NoSession] : o \in StopIfKeyed(n, c, radio)}

(* Mutant: losing the stream does not unkey. *)
NetDisconnectStream_Keyed(n, c, radio) ==
  {NetOutcome(IF n.reserved
              THEN [n EXCEPT !.stream_connected = FALSE,
                             !.buffered_frames = 0]
              ELSE n,
              c, radio, "OK")}

NetDisconnectStream(n, c, radio) ==
  IF ~n.reserved THEN {NetOutcome(n, c, radio, "OK")}
  ELSE {[o EXCEPT !.n.stream_connected = FALSE, !.n.buffered_frames = 0] :
          o \in StopIfKeyed(n, c, radio)}

(* Mutant: only a keyed session expires. *)
NetTick_KeyedOnly(n, c, radio, LeaseMs) ==
  IF ~n.keyed \/ n.renewed < LeaseMs
  THEN {NetOutcome(n, c, radio, "OK")}
  ELSE {NetOutcome(NoSession, o.c, o.radio,
                   IF o.r = "OK" THEN "EXPIRED" ELSE o.r) :
          o \in StopIfKeyed(n, c, radio)}

NetTick(n, c, radio, LeaseMs) ==
  IF ~n.reserved \/ n.renewed < LeaseMs
  THEN {NetOutcome(n, c, radio, "OK")}
  ELSE {NetOutcome(NoSession, o.c, o.radio,
                   IF o.r = "OK" THEN "EXPIRED" ELSE o.r) :
          o \in StopIfKeyed(n, c, radio)}

(* A keyed session whose transmitter was taken away is dropped. *)
NetReconcile(n, c) ==
  IF n.reserved /\ n.keyed /\ c.owner # "HTTP" THEN NoSession ELSE n
=============================================================================
