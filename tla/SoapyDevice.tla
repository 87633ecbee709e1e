---------------------------- MODULE SoapyDevice -----------------------------
(***************************************************************************)
(* The SoapySDR adapter (src/soapy/Flex1500Device.cpp) in one process: the *)
(* devices an application makes of the same daemon share one station       *)
(* lease, counted in sharedStationLeases under a mutex, and each renews it *)
(* in a thread of its own, the keeper.  One of the devices, TxUser, also   *)
(* has a transmit stream, used by one thread.                              *)
(*                                                                         *)
(* A request is one step, together with the reading of the lease it        *)
(* carries; what the code does under the mutex is one step.  The receive   *)
(* stream, the settings and the pacing of writes are left out.             *)
(***************************************************************************)
EXTENDS RemoteDaemon, FiniteSets

CONSTANTS
  Devices,
  TxUser,          \* the device that transmits, if any does
  Applications,    \* which devices one makes, of a daemon that transmits?
  Prebuffer,       \* TX_PREBUFFER_FRAMES, in units of a write
  MaxReferences    \* bound: references, which may leak

ASSUME SoapyAssumption ==
  /\ IsFiniteSet(Devices) /\ TxUser \in Devices
  /\ Applications \subseteq [devices : SUBSET Devices, transmits : BOOLEAN]
  /\ {Prebuffer, MaxReferences} \subseteq Nat \ {0}

VARIABLES
  app,      \* the application, and daemonTransmitEnabled_
  daemon,   \* the other end
  shared,   \* the entry of sharedStationLeases; no entry: no references
  life,     \* where each device is between constructor and destructor
  owner,    \* stationOwner_
  lease,    \* stationLease_
  keeper,   \* ownerThread_: where it is
  tx,       \* TxUser's TxStream, and whether there is one
  call,     \* where the thread that uses it is
  goal,     \* what it stops the stream for
  sent      \* frames given to the socket since it was opened

station == <<app, shared, life, owner, lease, keeper>>

stream == <<tx, call, goal, sent>>

vars == <<daemon, station, stream>>

Idle == [open |-> FALSE, lease |-> 0, frames |-> 0, keyed |-> FALSE,
         active |-> FALSE]

Init ==
  /\ app \in Applications
  /\ daemon = Started
  /\ shared = [lease |-> 0, references |-> 0]
  /\ life = [d \in Devices |-> "none"]
  /\ owner = [d \in Devices |-> FALSE]
  /\ lease = [d \in Devices |-> 0]
  /\ keeper = [d \in Devices |-> "none"]
  /\ tx = Idle /\ call = "none" /\ goal = "stay" /\ sent = 0

(* The other stations' lease, and a fresh one for this process. *)
Foreign == MaxLease

NewStation ==
  CHOOSE n \in Leases \ {Foreign, daemon.station, shared.lease} :
     \A d \in Devices : lease[d] # n

NewSession == CHOOSE n \in Leases : n \notin {daemon.tx.lease, tx.lease}

(* The shared lease if there is an entry, the device's own otherwise. *)
CurrentStationLease(d) ==
  IF shared.references > 0 THEN shared.lease ELSE lease[d]

Lease == CurrentStationLease(TxUser)

-----------------------------------------------------------------------------
(* The constructor holds the mutex over its request. *)
NewDevice(d, l, own) ==
  /\ life' = [life EXCEPT ![d] = "open"]
  /\ owner' = [owner EXCEPT ![d] = own]
  /\ lease' = [lease EXCEPT ![d] = l]
  /\ keeper' = [keeper EXCEPT ![d] = IF own THEN "sleep" ELSE "none"]

Makes(d) == d \in app.devices /\ life[d] = "none"

(* Mutant: joining the others is not counted. *)
Join_Uncounted(d) ==
  /\ Makes(d) /\ shared.references \in 1..(MaxReferences - 1)
  /\ NewDevice(d, shared.lease, TRUE)
  /\ UNCHANGED <<app, daemon, shared, stream>>

Join(d) ==
  /\ Makes(d) /\ shared.references \in 1..(MaxReferences - 1)
  /\ shared' = [shared EXCEPT !.references = @ + 1]
  /\ NewDevice(d, shared.lease, TRUE)
  /\ UNCHANGED <<app, daemon, stream>>

Acquire(d) ==
  /\ Makes(d) /\ shared.references = 0
  /\ \E o \in Exchanges(daemon, PostOwner(daemon, NewStation)) :
        /\ daemon' = o.d
        /\ \/ /\ o.status = "OK"
              /\ NewDevice(d, NewStation, TRUE)
              /\ shared' = [lease |-> NewStation, references |-> 1]
           \/ o.status = "BUSY" /\ NewDevice(d, 0, FALSE) /\ UNCHANGED shared
           \/ /\ o.status = "THROWN"
              /\ UNCHANGED <<shared, life, owner, lease, keeper>>
  /\ UNCHANGED <<app, stream>>

-----------------------------------------------------------------------------
(* ownerKeepalive: the keeper asks, and if the lease is gone it posts, and *)
(* then updates the entry or looks what the other devices have done.       *)
Keeper(d, from, to) ==
  keeper[d] = from /\ keeper' = [keeper EXCEPT ![d] = to]

OwnerStop(d) == life[d] # "open"

Asks(d) ==
  /\ ~OwnerStop(d)
  /\ LET o == OwnerKeepalive(daemon, CurrentStationLease(d))
     IN  /\ daemon' = o.d
         /\ Keeper(d, "sleep", IF o.status = "OK" THEN "sleep" ELSE "post")
  /\ UNCHANGED <<app, shared, life, owner, lease, stream>>

Posts(d) ==
  /\ LET o == PostOwner(daemon, NewStation)
     IN  /\ daemon' = o.d
         /\ Keeper(d, "post", IF o.status = "OK" THEN "update" ELSE "look")
         /\ lease' = [lease EXCEPT ![d] = IF o.status = "OK" THEN NewStation
                                                             ELSE @]
  /\ UNCHANGED <<app, shared, life, owner, stream>>

(* A request that throws is forgotten. *)
AskingFails(d) ==
  /\ Failures /\ keeper[d] \in {"sleep", "post"}
  /\ keeper[d] = "sleep" => ~OwnerStop(d)
  /\ daemon' \in {daemon,
                  IF keeper[d] = "sleep"
                  THEN OwnerKeepalive(daemon, CurrentStationLease(d)).d
                  ELSE PostOwner(daemon, NewStation).d}
  /\ keeper' = [keeper EXCEPT ![d] = "sleep"]
  /\ UNCHANGED <<app, shared, life, owner, lease, stream>>

(* Mutant: the new lease is kept to itself. *)
Updates_Private(d) ==
  /\ Keeper(d, "update", "sleep")
  /\ UNCHANGED <<app, daemon, shared, life, owner, lease, stream>>

Updates(d) ==
  /\ Keeper(d, "update", "sleep")
  /\ shared' = [shared EXCEPT !.lease = IF shared.references > 0
                                        THEN lease[d] ELSE @]
  /\ UNCHANGED <<app, daemon, life, owner, lease, stream>>

Superseded(d) == shared.references > 0 /\ shared.lease # lease[d]

Looks(d) ==
  /\ \/ /\ Superseded(d) /\ Keeper(d, "look", "sleep")
        /\ lease' = [lease EXCEPT ![d] = shared.lease] /\ UNCHANGED owner
     \/ /\ ~Superseded(d) /\ Keeper(d, "look", "done")
        /\ owner' = [owner EXCEPT ![d] = FALSE] /\ UNCHANGED lease
  /\ UNCHANGED <<app, daemon, shared, life, stream>>

Stops(d) ==
  /\ OwnerStop(d) /\ Keeper(d, "sleep", "done")
  /\ UNCHANGED <<app, daemon, shared, life, owner, lease, stream>>

-----------------------------------------------------------------------------
(* The destructor, after stopTx: join the keeper, drop the reference, and  *)
(* with the last one release the station.                                  *)
Destroy(d) ==
  /\ life[d] = "open" /\ d # TxUser
  /\ life' = [life EXCEPT ![d] = "joining"]
  /\ UNCHANGED <<app, daemon, shared, owner, lease, keeper, stream>>

Last == shared.references = 1

DropReference(d) ==
  /\ life[d] = "joining" /\ keeper[d] \in {"none", "done"}
  /\ life' = [life EXCEPT ![d] = IF owner[d] /\ Last THEN "release"
                                                     ELSE "none"]
  /\ shared' = IF ~owner[d] \/ shared.references = 0 THEN shared
               ELSE IF Last THEN [lease |-> 0, references |-> 0]
               ELSE [shared EXCEPT !.references = @ - 1]
  /\ keeper' = [keeper EXCEPT ![d] = "none"]
  /\ owner' = [owner EXCEPT ![d] = FALSE]
  /\ lease' = [lease EXCEPT ![d] = IF life'[d] = "none" THEN 0 ELSE @]
  /\ UNCHANGED <<app, daemon, stream>>

ReleaseStation(d) ==
  /\ life[d] = "release"
  /\ \E o \in Exchanges(daemon, DeleteOwner(daemon, CurrentStationLease(d))) :
        daemon' = o.d
  /\ life' = [life EXCEPT ![d] = "none"]
  /\ lease' = [lease EXCEPT ![d] = 0]
  /\ UNCHANGED <<app, shared, owner, keeper, stream>>

-----------------------------------------------------------------------------
(* The transmit stream. *)
Ready == life[TxUser] = "open" /\ call = "none"

(* checkChannel *)
SetupStream ==
  /\ Ready /\ app.transmits /\ owner[TxUser] /\ ~tx.open
  /\ tx' = [Idle EXCEPT !.open = TRUE]
  /\ UNCHANGED <<daemon, station, call, goal, sent>>

ActivateTx ==
  /\ Ready /\ tx.open /\ ~tx.active
  /\ \E o \in AllExchanges(daemon, PostSession(daemon, Lease, NewSession)) :
        /\ daemon' = o.d
        /\ IF o.status = "OK"
           THEN tx' = [tx EXCEPT !.lease = NewSession] /\ call' = "connect"
           ELSE UNCHANGED <<tx, call>>
  /\ UNCHANGED <<station, goal, sent>>

Connect ==
  /\ call = "connect"
  /\ \E o \in Exchanges(daemon, ConnectStream(daemon, Lease, tx.lease)) :
        /\ daemon' = o.d
        /\ IF o.status = "OK"
           THEN /\ tx' = [tx EXCEPT !.frames = 0, !.keyed = FALSE,
                                    !.active = TRUE]
                /\ sent' = 0
           ELSE UNCHANGED <<tx, sent>>
        /\ call' = IF o.status \in {"OK", "THROWN"} THEN "none" ELSE "undo"
  /\ UNCHANGED <<station, goal>>

Undo ==
  /\ call = "undo"
  /\ \E o \in Exchanges(daemon, DeleteSession(daemon, Lease, tx.lease)) :
        daemon' = o.d
  /\ tx' = [tx EXCEPT !.lease = 0] /\ call' = "none"
  /\ UNCHANGED <<station, goal, sent>>

(* Not due, or a request. *)
KeepTxAlive ==
  {Answer(daemon, "OK")} \cup
  Exchanges(daemon, SessionKeepalive(daemon, Lease, tx.lease))

(* writeStream: keepTxAlive, then the key if the prebuffer is complete and *)
(* not keyed, then the samples, and again the key.                         *)
WriteStream ==
  /\ Ready /\ tx.active
  /\ \E o \in KeepTxAlive :
        /\ daemon' = o.d
        /\ call' = IF o.status # "OK" THEN "none"
                   ELSE IF tx.frames = Prebuffer /\ ~tx.keyed THEN "key"
                   ELSE "send"
  /\ UNCHANGED <<station, tx, goal, sent>>

Connected == daemon.tx.lease = tx.lease /\ daemon.tx.stream

AtMost(n) == IF n < Prebuffer THEN n ELSE Prebuffer

Counted(n, part) == IF part = n THEN AtMost(tx.frames + n) ELSE tx.frames

(* What one call may send: up to the prebuffer before the key, as the pace *)
(* allows (paceTx) after it.                                               *)
Batch == 1..(IF tx.keyed THEN 1 ELSE Prebuffer - tx.frames)

(* sendTxBytes sends all, or some and times out, or fails; a pace that     *)
(* times out sends nothing.                                                *)
Send ==
  /\ call = "send"
  /\ \/ \E n \in Batch :
        \E part \in 0..n :
           /\ sent' = AtMost(sent + part)
           /\ tx' = [tx EXCEPT !.frames = Counted(n, part)]
           /\ call' = IF part = n /\ ~tx.keyed /\ tx'.frames = Prebuffer
                      THEN "finish" ELSE "none"
     \/ ~Connected /\ call' = "none" /\ UNCHANGED <<tx, sent>>
  /\ UNCHANGED <<daemon, station, goal>>

(* keyTx; without a timeout it tries for ever.  Mutant: it renews the      *)
(* session meanwhile.                                                      *)
KeyTx_Renewing ==
  /\ call \in {"key", "finish"}
  /\ \E o \in AllExchanges(daemon, PttStart(daemon, Lease, tx.lease)) :
        /\ daemon' = SessionKeepalive(o.d, Lease, tx.lease).d
        /\ tx' = [tx EXCEPT !.keyed = @ \/ o.status = "OK"]
        /\ call' \in CASE o.status = "OK" /\ call = "key" -> {"send"}
                       [] o.status = "NOT_READY" -> {call, "none"}
                       [] OTHER -> {"none"}
  /\ UNCHANGED <<station, goal, sent>>

KeyTx ==
  /\ call \in {"key", "finish"}
  /\ \E o \in AllExchanges(daemon, PttStart(daemon, Lease, tx.lease)) :
        /\ daemon' = o.d
        /\ tx' = [tx EXCEPT !.keyed = @ \/ o.status = "OK"]
        /\ call' \in CASE o.status = "OK" /\ call = "key" -> {"send"}
                       [] o.status = "NOT_READY" -> {call, "none"}
                       [] OTHER -> {"none"}
  /\ UNCHANGED <<station, goal, sent>>

-----------------------------------------------------------------------------
(* stopTx, for deactivateStream, closeStream and the destructor. *)
StopTx(g) ==
  /\ Ready
  /\ call' = CASE tx.lease = 0 -> "clear" [] tx.keyed -> "off"
               [] OTHER -> "delete"
  /\ goal' = g
  /\ UNCHANGED <<daemon, station, tx, sent>>

StopPtt ==
  /\ call = "off"
  /\ \E o \in Exchanges(daemon, PttStop(daemon, Lease, tx.lease)) :
        /\ daemon' = o.d
        /\ call' = IF o.status = "THROWN" THEN "clear" ELSE "delete"
  /\ UNCHANGED <<station, tx, goal, sent>>

EndSession ==
  /\ call = "delete"
  /\ \E o \in Exchanges(daemon, DeleteSession(daemon, Lease, tx.lease)) :
        daemon' = o.d
  /\ call' = "clear"
  /\ UNCHANGED <<station, tx, goal, sent>>

(* The destructor then sets ownerStop_. *)
Clear ==
  /\ call = "clear" /\ call' = "none" /\ goal' = "stay" /\ sent' = 0
  /\ tx' = [Idle EXCEPT !.open = tx.open /\ goal = "stay"]
  /\ life' = [life EXCEPT ![TxUser] = IF goal = "destroy" THEN "joining"
                                                          ELSE @]
  /\ UNCHANGED <<app, daemon, shared, owner, lease, keeper>>

-----------------------------------------------------------------------------
(* The daemon and the other stations.  A tick is seconds long: it does not *)
(* come between an answer and the mutex.                                   *)
Clock ==
  /\ \A d \in Devices : keeper[d] \notin {"update", "look"}
  /\ daemon' = Aged(daemon) /\ UNCHANGED <<station, stream>>

Preempted ==
  /\ daemon.tx.keyed /\ daemon' = Dropped(daemon)
  /\ UNCHANGED <<station, stream>>

StreamLost ==
  /\ daemon.tx.stream /\ daemon' = Disconnected(daemon)
  /\ UNCHANGED <<station, stream>>

PrebufferArrives ==
  /\ Connected /\ sent = Prebuffer /\ ~daemon.tx.ready
  /\ daemon' = Filled(daemon) /\ UNCHANGED <<station, stream>>

OtherStation ==
  /\ daemon' = IF daemon.station = Foreign
               THEN DeleteOwner(daemon, Foreign).d
               ELSE PostOwner(daemon, Foreign).d
  /\ UNCHANGED <<station, stream>>

-----------------------------------------------------------------------------
Keeping(d) == Updates(d) \/ Looks(d) \/ Stops(d)

Ending(d) == DropReference(d) \/ ReleaseStation(d)

TxStep == Connect \/ Undo \/ Send \/ KeyTx \/ StopPtt \/ EndSession \/ Clear

Next ==
  \/ \E d \in Devices :
        \/ Join(d) \/ Acquire(d) \/ Asks(d) \/ Posts(d) \/ AskingFails(d)
        \/ Keeping(d) \/ Destroy(d) \/ Ending(d)
  \/ SetupStream \/ ActivateTx \/ WriteStream \/ TxStep
  \/ \E g \in {"stay", "close"} : tx.open /\ StopTx(g)
  \/ StopTx("destroy")
  \/ Clock \/ Preempted \/ StreamLost \/ PrebufferArrives \/ OtherStation

Spec == Init /\ [][Next]_vars

(***************************************************************************)
(* Fairness: the threads run and the clock ticks.  Of the network it is    *)
(* assumed that no control request blocks for ever - they have no timeout, *)
(* and the adapter waits for the answer - and that it is not down for      *)
(* ever: a keeper that keeps asking is answered.  Nothing is asked of the  *)
(* application, nor that a prebuffer arrives.                              *)
(***************************************************************************)
FairSpec ==
  /\ Spec /\ WF_vars(TxStep) /\ WF_vars(Clock)
  /\ \A d \in Devices : /\ SF_vars(Asks(d)) /\ SF_vars(Posts(d))
                        /\ SF_vars(Keeping(d)) /\ WF_vars(Ending(d))

-----------------------------------------------------------------------------
(* Properties. *)

(* Types of the adapter's fields, and of the daemon's leases, which never  *)
(* outlive their time.                                                     *)
TypeOK ==
  /\ daemon \in Remote
  /\ shared \in [lease : Leases \cup {0}, references : Nat]
  /\ life \in [Devices -> {"none", "open", "joining", "release"}]
  /\ owner \in [Devices -> BOOLEAN]
  /\ lease \in [Devices -> Leases \cup {0}]
  /\ keeper \in [Devices ->
                 {"none", "sleep", "post", "update", "look", "done"}]
  /\ tx \in [open : BOOLEAN, lease : Leases \cup {0}, frames : 0..Prebuffer,
             keyed : BOOLEAN, active : BOOLEAN]
  /\ call \in {"none", "connect", "undo", "send", "key", "finish", "off",
               "delete", "clear"}
  /\ goal \in {"stay", "close", "destroy"} /\ sent \in 0..Prebuffer

(* Every device that believes to own the station has a reference: the      *)
(* shared entry is never erased while one relies on it, whichever devices  *)
(* of the process end meanwhile and however their requests are answered.   *)
(* It does not say that the DELETE of the last destructor frees the right  *)
(* lease: the entry is read again after it was erased, and may by then be  *)
(* that of a device made since.                                            *)
OwnersCounted ==
  Cardinality({d \in Devices : owner[d]}) <= shared.references

Stale(d) ==
  life[d] = "open" /\ owner[d] /\ daemon.station # CurrentStationLease(d)

(* A device that believes to own a station it has lost - expired, taken by *)
(* another program, its own answer lost - gets it again or gives up.       *)
BeliefResolved == \A d \in Devices : Stale(d) ~> ~Stale(d)

(* keyTx comes to an end even when called without a timeout on a stream    *)
(* that the daemon has lost: nothing renews the session meanwhile.         *)
KeyingEnds == call \in {"key", "finish"} ~> call \notin {"key", "finish"}
=============================================================================
