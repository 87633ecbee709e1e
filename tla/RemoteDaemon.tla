---------------------------- MODULE RemoteDaemon ----------------------------
(***************************************************************************)
(* The daemon as a network client meets it: the station lease, the general *)
(* transmit session under it, and the answers to the requests on them.     *)
(* This is what module Daemon does, without the loop, the controller and   *)
(* Tune: a session loses its transmitter at any time, and a start may be   *)
(* refused.  Every request is [d |-> the daemon after it, status |-> ...]; *)
(* where the daemon may answer in several ways, a set of these.            *)
(*                                                                         *)
(* Lease 0 is no lease.  Leases are only compared, so that the daemon may  *)
(* hand out again one that nobody remembers.                               *)
(***************************************************************************)
EXTENDS Integers

CONSTANTS
  LeaseTicks,   \* both leases run out after so many ticks without renewal
  MaxLease,     \* bound: lease numbers
  Failures      \* whether requests and answers may be lost

ASSUME RemoteAssumption ==
  {LeaseTicks, MaxLease} \subseteq Nat \ {0} /\ Failures \in BOOLEAN

Leases == 1..MaxLease

NoTransmission ==
  [lease |-> 0, stream |-> FALSE, ready |-> FALSE, keyed |-> FALSE, age |-> 0]

Started == [station |-> 0, age |-> 0, tx |-> NoTransmission]

Remote ==
  [station : Leases \cup {0}, age : 0..(LeaseTicks - 1),
   tx : [lease : Leases \cup {0}, stream : BOOLEAN, ready : BOOLEAN,
         keyed : BOOLEAN, age : 0..(LeaseTicks - 1)]]

Answer(d, status) == [d |-> d, status |-> status]

-----------------------------------------------------------------------------
(* Station control: POST, PUT keepalive and DELETE /v1/control/owner. *)
PostOwner(d, new) ==
  IF d.station # 0
  THEN Answer(d, "BUSY")
  ELSE Answer([d EXCEPT !.station = new, !.age = 0], "OK")

Authorized(d, control) == d.station # 0 /\ d.station = control

OwnerKeepalive(d, control) ==
  IF Authorized(d, control)
  THEN Answer([d EXCEPT !.age = 0], "OK")
  ELSE Answer(d, "STALE")

DeleteOwner(d, control) ==
  IF d.tx.keyed THEN Answer(d, "BUSY")
  ELSE IF Authorized(d, control)
  THEN Answer([d EXCEPT !.station = 0, !.age = 0], "OK")
  ELSE Answer(d, "STALE")

-----------------------------------------------------------------------------
(* The session.  A request without the station lease is refused before     *)
(* its own lease is looked at.                                             *)
Owns(d, control, lease) ==
  Authorized(d, control) /\ lease # 0 /\ d.tx.lease = lease

Refusal(d, control) ==
  Answer(d, IF Authorized(d, control) THEN "STALE" ELSE "BUSY")

(* Also refused while the microphone or Tune transmits. *)
PostSession(d, control, new) ==
  {Answer(d, "BUSY")} \cup
  IF Authorized(d, control) /\ d.tx.lease = 0
  THEN {Answer([d EXCEPT !.tx = [NoTransmission EXCEPT !.lease = new]], "OK")}
  ELSE {}

SessionKeepalive(d, control, lease) ==
  IF Owns(d, control, lease)
  THEN Answer([d EXCEPT !.tx.age = 0], "OK")
  ELSE Refusal(d, control)

ConnectStream(d, control, lease) ==
  IF ~Owns(d, control, lease) THEN Refusal(d, control)
  ELSE IF d.tx.stream THEN Answer(d, "BUSY")
  ELSE Answer([d EXCEPT !.tx.stream = TRUE, !.tx.ready = FALSE], "OK")

(* The frequency may not be permitted, the transmitter be taken, or its    *)
(* start fail.                                                             *)
PttStart(d, control, lease) ==
  IF ~Owns(d, control, lease) THEN {Refusal(d, control)}
  ELSE IF ~d.tx.stream \/ ~d.tx.ready THEN {Answer(d, "NOT_READY")}
  ELSE {Answer([d EXCEPT !.tx.keyed = TRUE, !.tx.age = 0], "OK"),
        Answer(d, "BUSY")}

PttStop(d, control, lease) ==
  IF Owns(d, control, lease)
  THEN Answer([d EXCEPT !.tx.keyed = FALSE,
                        !.tx.ready = @ /\ ~d.tx.keyed], "OK")
  ELSE Refusal(d, control)

DeleteSession(d, control, lease) ==
  IF Owns(d, control, lease)
  THEN Answer([d EXCEPT !.tx = NoTransmission], "OK")
  ELSE Refusal(d, control)

-----------------------------------------------------------------------------
(* What the daemon does by itself. *)

(* A tick of the clock; a station that runs out takes its session along.   *)
(* Mutant: a session is not subject to the clock. *)
Aged_SessionKept(d) ==
  IF d.station # 0 /\ d.age + 1 = LeaseTicks THEN Started
  ELSE [d EXCEPT !.age = IF d.station # 0 THEN @ + 1 ELSE 0]

Aged(d) ==
  LET s == d.station # 0 /\ d.age + 1 = LeaseTicks
      t == d.tx.lease # 0 /\ d.tx.age + 1 = LeaseTicks
  IN  [station |-> IF s THEN 0 ELSE d.station,
       age |-> IF s \/ d.station = 0 THEN 0 ELSE d.age + 1,
       tx |-> IF s \/ t \/ d.tx.lease = 0 THEN NoTransmission
              ELSE [d.tx EXCEPT !.age = @ + 1]]

(* The microphone preempts, the maximum-key time runs out, USB recovers. *)
Dropped(d) == [d EXCEPT !.tx = NoTransmission]

(* The sample stream ends. *)
Disconnected(d) ==
  [d EXCEPT !.tx.stream = FALSE, !.tx.ready = FALSE, !.tx.keyed = FALSE]

(* The prebuffer has arrived. *)
Filled(d) == [d EXCEPT !.tx.ready = TRUE]

(***************************************************************************)
(* A request may not reach the daemon, or its answer not the client; the   *)
(* client's HTTP code throws where its socket reports it.  There are no    *)
(* timeouts: where it does not, the call blocks for ever, and a module     *)
(* that allows for it has a step of its own for that.                      *)
(***************************************************************************)
Exchanges(old, o) ==
  {o} \cup IF Failures
           THEN {Answer(old, "THROWN"), Answer(o.d, "THROWN")} ELSE {}

AllExchanges(old, os) == UNION {Exchanges(old, o) : o \in os}
=============================================================================
