---------------------------- MODULE BridgeClient ----------------------------
(***************************************************************************)
(* flex1500-client, the companion bridge (src/client/src): BridgeSession   *)
(* with its mutex, and the threads around it.                              *)
(*   - the rig-control thread serves one Hamlib client and calls set_ptt,  *)
(*     whose place is call;                                                *)
(*   - the upload thread, started by set_ptt, feeds the sample stream and  *)
(*     renews the session;                                                 *)
(*   - the receive thread reads IQ frames;                                 *)
(*   - the main thread renews the station lease, and at the end stops the  *)
(*     others, releases the station and destroys the session.              *)
(* Every HTTP request is a step of its own; the steps of a call that holds *)
(* the mutex exclude the others that need it.  No socket has a timeout: a  *)
(* thread may block in a request for ever, with the mutex if it holds it.  *)
(*                                                                         *)
(* The audio samples, the tuning and the mode are left out.                *)
(***************************************************************************)
EXTENDS RemoteDaemon

(* A lease to hand out beside those that may still be remembered. *)
ASSUME BridgeAssumption == MaxLease >= 3

VARIABLES
  daemon,   \* the other end
  lease,    \* lease_: the optional, and the value its storage holds
  tx,       \* tx_lease_, tx_keyed_, tx_stop_, tx_fault_pending_
  stream,   \* tx_stream_: the session it was connected for, 0 = closed
  thread,   \* tx_thread_ and where it is
  call,     \* set_ptt: where the caller is
  hamlib,   \* a Hamlib client is connected
  main,     \* where the main thread is
  rx, iq,   \* the receive thread, and whether it has an IqStream to read
  hung      \* the socket calls that never return, by who is in them

client == <<lease, tx, stream, thread, call>>

vars == <<daemon, client, hamlib, main, rx, iq, hung>>

Calls == {"none", "create", "connect", "start", "undo", "join", "stop",
          "delete"}

Threads == {"none", "head", "body", "caught", "returned"}

Mains == {"run", "joining", "stopping", "releasing", "destroy",
          "destroying", "freeing", "exited", "dead"}

(* The calls of set_ptt; the upload thread's send, which needs no mutex,   *)
(* and its requests, which do; those of the main and the receive thread.   *)
Sockets == {"call", "send", "upload", "main", "rx"}

NoTx == [lease |-> 0, keyed |-> FALSE, stop |-> FALSE, fault |-> FALSE]

Init ==
  /\ daemon \in {Started, [Started EXCEPT !.station = 1]}
  /\ lease = [has |-> daemon.station = 1, value |-> daemon.station]
  /\ tx = NoTx
  /\ stream = 0 /\ thread = "none" /\ call = "none"
  /\ hamlib = FALSE /\ main = "run"
  /\ rx = "top" /\ iq = FALSE /\ hung = {}

NewStation == CHOOSE n \in Leases : n \notin {daemon.station, lease.value}

NewSession ==
  CHOOSE n \in Leases : n \notin {daemon.tx.lease, tx.lease, stream}

(* std::terminate: an exception nobody catches, or a joinable thread       *)
(* overwritten or destroyed.  The threads end and their memory is gone;    *)
(* the lease stays one that was handed out.                                *)
Alive == main # "dead"

Dies ==
  /\ main' = "dead" /\ tx' = NoTx /\ stream' = 0
  /\ thread' = "none" /\ call' = "none" /\ hamlib' = FALSE
  /\ rx' = "done" /\ iq' = FALSE /\ hung' = {}
  /\ UNCHANGED lease

(* A request that never returns keeps the mutex it was made under. *)
Kept == hung \cap {"upload", "main"} # {}

(* Only set_ptt holds the mutex over several steps, but not while it joins *)
(* (mutant: it does).                                                      *)
MutexFree_Joining == call = "none" /\ ~Kept

MutexFree == call \in {"none", "join"} /\ ~Kept

(***************************************************************************)
(* lease_headers dereferences lease_ also when it is empty: undefined, in  *)
(* this build the old value or, with assertions, the end.                  *)
(***************************************************************************)
Undefined == ~lease.has /\ Dies /\ UNCHANGED daemon

-----------------------------------------------------------------------------
(* set_ptt(true), from the rig-control thread. *)
RigReady ==
  Alive /\ ~Kept /\ call = "none" /\ hamlib /\ main \in {"run", "joining"}

PttOn ==
  /\ RigReady /\ ~tx.keyed /\ lease.has
  /\ call' = "create"
  /\ UNCHANGED <<daemon, lease, tx, stream, thread, hamlib, main, rx, iq, hung>>

Others == UNCHANGED <<lease, thread, hamlib, main, rx, iq, hung>>

(* What set_ptt asks of the daemon where it is. *)
Asked ==
  CASE call = "create" -> PostSession(daemon, lease.value, NewSession)
    [] call = "connect" -> {ConnectStream(daemon, lease.value, tx.lease)}
    [] call = "start" -> PttStart(daemon, lease.value, tx.lease)
    [] call = "stop" -> {PttStop(daemon, lease.value, tx.lease)}
    [] OTHER -> {DeleteSession(daemon, lease.value, tx.lease)}

Replies == AllExchanges(daemon, Asked)

Calling(place) == Alive /\ call = place /\ "call" \notin hung

CreateSession ==
  /\ Calling("create")
  /\ \E o \in Replies :
        /\ daemon' = o.d
        /\ IF o.status = "OK"
           THEN tx' = [tx EXCEPT !.lease = NewSession] /\ call' = "connect"
           ELSE call' = "none" /\ UNCHANGED tx
  /\ UNCHANGED stream /\ Others

(* The stream, after an old connection is closed, and the silence that     *)
(* fills the prebuffer; what is thrown here is caught.                     *)
OpenStream ==
  /\ Calling("connect")
  /\ \E o \in Replies :
        /\ daemon' = o.d
        /\ IF o.status = "OK"
           THEN stream' = tx.lease /\ call' \in {"start", "undo"}
           ELSE stream' = 0 /\ call' = "undo"
  /\ UNCHANGED tx /\ Others

(* A joinable thread must not be assigned to. *)
Keyed ==
  IF thread # "none" THEN Dies
  ELSE /\ tx' = [tx EXCEPT !.keyed = TRUE, !.stop = FALSE]
       /\ thread' = "head" /\ call' = "none"
       /\ UNCHANGED <<lease, stream, hamlib, main, rx, iq, hung>>

(* Not ready is retried until the deadline. *)
StartPtt ==
  /\ Calling("start")
  /\ \E o \in Replies :
        /\ daemon' = o.d
        /\ IF o.status = "OK" THEN Keyed
           ELSE /\ call' \in CASE o.status = "THROWN" -> {"none"}
                               [] o.status = "NOT_READY" -> {"start", "undo"}
                               [] OTHER -> {"undo"}
                /\ UNCHANGED <<tx, stream>> /\ Others

(* release_tx_locked, whatever the daemon answers. *)
Cleared == [tx EXCEPT !.lease = 0, !.keyed = FALSE]

ReleaseTx ==
  /\ Calling("undo")
  /\ daemon' \in {o.d : o \in Replies}
  /\ tx' = Cleared /\ stream' = 0 /\ call' = "none"
  /\ Others

-----------------------------------------------------------------------------
(* set_ptt(false), from the rig-control thread or, at the end, from the    *)
(* destructor; an exception is answered by the first and fatal in the      *)
(* second.                                                                 *)
RequestStop == ~Kept /\ tx' = [tx EXCEPT !.stop = TRUE] /\ call' = "join"

PttOff ==
  /\ RigReady /\ RequestStop
  /\ UNCHANGED <<daemon, lease, stream, thread, hamlib, main, rx, iq, hung>>

(* Mutant: the upload thread is detached, not joined. *)
JoinUpload_Detached ==
  /\ Calling("join") /\ ~Kept
  /\ call' = IF tx.lease = 0 THEN "none" ELSE "stop"
  /\ UNCHANGED <<daemon, lease, tx, stream, thread, hamlib, main, rx, iq, hung>>

(* The mutex is not held here, the upload thread may need it to end, and   *)
(* taken again afterwards.                                                 *)
JoinUpload ==
  /\ Calling("join") /\ ~Kept /\ thread \in {"none", "returned"}
  /\ thread' = "none"
  /\ call' = IF tx.lease = 0 THEN "none" ELSE "stop"
  /\ UNCHANGED <<daemon, lease, tx, stream, hamlib, main, rx, iq, hung>>

Throws ==
  IF main = "destroying"
  THEN Dies
  ELSE call' = "none" /\ UNCHANGED <<tx, stream>> /\ Others

StopPtt ==
  /\ Calling("stop")
  /\ \/ \E o \in Replies :
           /\ daemon' = o.d
           /\ \/ o.status = "THROWN" /\ Throws
              \/ /\ o.status # "THROWN" /\ call' = "delete"
                 /\ UNCHANGED <<tx, stream>> /\ Others
     \/ Undefined

EndSession ==
  /\ Calling("delete")
  /\ \E o \in Replies :
        /\ daemon' = o.d
        /\ \/ o.status = "THROWN" /\ Throws
           \/ /\ o.status # "THROWN" /\ call' = "none"
              /\ tx' = Cleared /\ stream' = 0 /\ Others

-----------------------------------------------------------------------------
(* upload_tx_audio *)
Uploading(place) ==
  Alive /\ thread = place /\ hung \cap {"send", "upload"} = {}

Upload == UNCHANGED <<lease, call, hamlib, main, rx, iq, hung>>

UploadHead ==
  /\ Uploading("head")
  /\ thread' = IF tx.stop THEN "returned" ELSE "body"
  /\ UNCHANGED <<daemon, tx, stream>> /\ Upload

(* Nothing to send, or nothing permitted yet, or sent. *)
UploadGoesOn ==
  /\ Uploading("body") /\ thread' = "head"
  /\ UNCHANGED <<daemon, tx, stream>> /\ Upload

(* A send fails when the daemon has closed the stream. *)
UploadBreaks ==
  /\ Uploading("body") /\ ~(daemon.tx.lease = stream /\ daemon.tx.stream)
  /\ thread' = "caught"
  /\ UNCHANGED <<daemon, tx, stream>> /\ Upload

(* fail_tx_locked *)
FailTx(d) ==
  /\ \E o \in IF tx.lease = 0 THEN {Answer(d, "OK")}
              ELSE Exchanges(d, DeleteSession(d, lease.value, tx.lease)) :
        daemon' = o.d
  /\ tx' = [Cleared EXCEPT !.stop = TRUE, !.fault = TRUE]
  /\ stream' = IF tx.lease = 0 THEN stream ELSE 0
  /\ thread' = "returned"
  /\ Upload

UploadFails == Uploading("caught") /\ MutexFree /\ FailTx(daemon)


UploadKeepalive ==
  /\ Uploading("body") /\ MutexFree
  /\ \/ /\ tx.lease = 0 /\ thread' = "returned"
        /\ UNCHANGED <<daemon, tx, stream>> /\ Upload
     \/ /\ tx.lease # 0
        /\ \E o \in Exchanges(daemon,
                     SessionKeepalive(daemon, lease.value, tx.lease)) :
             IF o.status \in {"OK", "THROWN"}
             THEN /\ daemon' = o.d
                  /\ thread' = IF o.status = "OK" THEN "head" ELSE "caught"
                  /\ UNCHANGED <<tx, stream>> /\ Upload
             ELSE FailTx(o.d)
     \/ tx.lease # 0 /\ Undefined

-----------------------------------------------------------------------------
(* The rig-control server: one client at a time; an upload that failed     *)
(* costs the client its connection.  A client that goes is just forgotten. *)
RigTurn == Alive /\ call = "none" /\ main \in {"run", "joining"}

Rig == UNCHANGED <<daemon, lease, stream, thread, call, main, rx, iq, hung>>

ConsumeFault ==
  /\ RigTurn /\ hamlib /\ tx.fault
  /\ tx' = [tx EXCEPT !.fault = FALSE] /\ hamlib' = FALSE
  /\ Rig

HamlibConnects == RigTurn /\ ~hamlib /\ hamlib' = TRUE /\ UNCHANGED tx /\ Rig

HamlibLeaves == RigTurn /\ hamlib /\ hamlib' = FALSE /\ UNCHANGED tx /\ Rig

-----------------------------------------------------------------------------
(* The main thread. *)

(* acquire: anything but a lease leaves the client receive-only. *)
Renewal ==
  IF lease.has THEN OwnerKeepalive(daemon, lease.value)
               ELSE PostOwner(daemon, NewStation)

(* Every five seconds.  What is thrown destroys the receive thread's       *)
(* object on its way out, while the thread runs.                           *)
Maintain ==
  /\ main = "run" /\ "main" \notin hung /\ MutexFree
  /\ \E o \in Exchanges(daemon, Renewal) :
        /\ daemon' = o.d
        /\ IF o.status = "THROWN" THEN Dies
           ELSE /\ lease' = CASE o.status # "OK" -> [lease EXCEPT !.has = FALSE]
                              [] lease.has -> lease
                              [] OTHER -> [has |-> TRUE, value |-> NewStation]
                /\ UNCHANGED <<tx, stream, thread, call, hamlib, main>>
                /\ UNCHANGED <<rx, iq, hung>>

MainGoes(from, to) == main = from /\ main' = to /\ "main" \notin hung

(* A signal; iq.close(), which ends a read of that socket. *)
StopRequested ==
  /\ MainGoes("run", "joining") /\ iq' = FALSE /\ hung' = hung \ {"rx"}
  /\ UNCHANGED <<daemon, client, hamlib, rx>>

JoinReceive ==
  /\ MainGoes("joining", "stopping") /\ rx = "done"
  /\ UNCHANGED <<daemon, client, hamlib, rx, iq, hung>>

(* rig.stop(): the thread finishes the command it is in. *)
StopRig ==
  /\ MainGoes("stopping", "releasing") /\ call = "none"
  /\ hamlib' = FALSE
  /\ UNCHANGED <<daemon, client, rx, iq, hung>>

(* release(), called by main and again by the destructor. *)
Release(from, to) ==
  /\ MainGoes(from, to) /\ MutexFree
  /\ daemon' \in IF lease.has
                 THEN {o.d : o \in Exchanges(daemon,
                                     DeleteOwner(daemon, lease.value))}
                 ELSE {daemon}
  /\ lease' = [lease EXCEPT !.has = FALSE]
  /\ UNCHANGED <<tx, stream, thread, call, hamlib, rx, iq, hung>>

Destroy ==
  /\ MainGoes("destroy", "destroying") /\ RequestStop
  /\ UNCHANGED <<daemon, lease, stream, thread, hamlib, rx, iq, hung>>

Destroyed ==
  /\ MainGoes("destroying", "freeing") /\ call = "none"
  /\ UNCHANGED <<daemon, client, hamlib, rx, iq, hung>>

-----------------------------------------------------------------------------
(* The receive thread: connect, then frame after frame. *)
Stopping == main # "run"

Receive ==
  Alive /\ "rx" \notin hung /\ UNCHANGED <<daemon, client, hamlib, main, hung>>

(* What is thrown ends the thread if it is to stop, otherwise it retries   *)
(* after two seconds.  The socket it leaves behind is not read again.      *)
RxThrow == rx' = (IF Stopping THEN "done" ELSE "top") /\ iq' = FALSE

RxTop ==
  /\ Receive /\ rx = "top" /\ UNCHANGED iq
  /\ rx' = IF Stopping THEN "done" ELSE "dial"

(* connect() closes the old socket and stores the new one. *)
RxDial ==
  /\ Receive /\ rx = "dial"
  /\ \/ rx' = "wait" /\ iq' = TRUE
     \/ RxThrow

(* Mutant: the inner loop does not look at stop_requested. *)
RxLoop_Never == "recv"

(* The inner loop, before each frame. *)
RxLoop == IF Stopping THEN "top" ELSE "recv"

RxAnswered ==
  /\ Receive /\ rx = "wait"
  /\ \/ rx' = RxLoop /\ UNCHANGED iq
     \/ RxThrow

RxFrame == Receive /\ rx = "recv" /\ iq /\ rx' = "frame" /\ UNCHANGED iq

(* session.mode() takes the mutex before the frame is demodulated. *)
RxMode ==
  Receive /\ rx = "frame" /\ MutexFree /\ rx' = RxLoop /\ UNCHANGED iq

(* The daemon ended the connection, or close() did. *)
RxEnds == Receive /\ rx = "recv" /\ RxThrow

-----------------------------------------------------------------------------
(***************************************************************************)
(* A socket call that never returns: nobody answers a request, reads the   *)
(* samples or ends the connection.  The request may have reached the       *)
(* daemon before.                                                          *)
(***************************************************************************)
Hangs(socket, ds) ==
  /\ Alive /\ Failures
  /\ hung' = hung \cup {socket}
  /\ daemon' \in {daemon} \cup ds
  /\ UNCHANGED <<client, hamlib, main, rx, iq>>

CallHangs ==
  /\ call \notin {"none", "join"} /\ "call" \notin hung
  /\ Hangs("call", {o.d : o \in Asked})

SendHangs == Uploading("body") /\ Hangs("send", {})

RequestHangs ==
  /\ MutexFree /\ tx.lease # 0
  /\ \/ /\ Uploading("body")
        /\ Hangs("upload",
                 {SessionKeepalive(daemon, lease.value, tx.lease).d})
     \/ /\ Uploading("caught")
        /\ Hangs("upload", {DeleteSession(daemon, lease.value, tx.lease).d})

MainHangs ==
  /\ MutexFree /\ "main" \notin hung
  /\ \/ main = "run" /\ Hangs("main", {Renewal.d})
     \/ /\ main \in {"releasing", "freeing"} /\ lease.has
        /\ Hangs("main", {DeleteOwner(daemon, lease.value).d})

(* The answer to the IQ connection; a frame that never comes is RxFrame    *)
(* not happening.                                                          *)
RxHangs == rx = "wait" /\ iq /\ "rx" \notin hung /\ Hangs("rx", {})

-----------------------------------------------------------------------------
(* The daemon and the other stations. *)
Elsewhere == UNCHANGED <<client, hamlib, main, rx, iq, hung>>

Clock == daemon' = Aged(daemon) /\ Elsewhere

Preempted ==
  daemon.tx.keyed /\ daemon' = Dropped(daemon) /\ Elsewhere

StreamLost ==
  /\ daemon.tx.stream
  /\ daemon' = Disconnected(daemon) /\ Elsewhere

PrebufferArrives ==
  /\ daemon.tx.stream /\ daemon.tx.lease = stream /\ ~daemon.tx.ready
  /\ daemon' = Filled(daemon) /\ Elsewhere

OtherStation ==
  /\ \/ daemon.station = 0 /\ daemon' = PostOwner(daemon, NewStation).d
     \/ /\ daemon.station \notin {0, lease.value} /\ daemon.tx.lease = 0
        /\ daemon' = DeleteOwner(daemon, daemon.station).d
  /\ Elsewhere

-----------------------------------------------------------------------------
PttCall == CreateSession \/ OpenStream \/ StartPtt \/ ReleaseTx \/ JoinUpload
           \/ StopPtt \/ EndSession

UploadStep == UploadHead \/ UploadGoesOn \/ UploadBreaks \/ UploadKeepalive
              \/ UploadFails

MainStep == JoinReceive \/ StopRig \/ Release("releasing", "destroy")
            \/ Destroy \/ Destroyed \/ Release("freeing", "exited")

RxStep == RxTop \/ RxDial \/ RxAnswered \/ RxMode

HangStep == CallHangs \/ SendHangs \/ RequestHangs \/ MainHangs \/ RxHangs

Next ==
  \/ PttOn \/ PttOff \/ PttCall \/ UploadStep
  \/ ConsumeFault \/ HamlibConnects \/ HamlibLeaves
  \/ Maintain \/ StopRequested \/ MainStep
  \/ RxStep \/ RxFrame \/ RxEnds \/ HangStep
  \/ Clock \/ Preempted \/ StreamLost \/ PrebufferArrives \/ OtherStation

Spec == Init /\ [][Next]_vars

(***************************************************************************)
(* Fairness: the threads run, the clock ticks, the five-second keepalive   *)
(* of a running upload and the receive thread get the mutex in the end if  *)
(* it is free again and again, and a closed socket ends a read.  A socket  *)
(* call that is not hung returns or throws; whether it hangs is up to the  *)
(* network, of which nothing is asked, nor of Hamlib and the operator.     *)
(***************************************************************************)
Fairness ==
  /\ WF_vars(PttCall) /\ WF_vars(UploadStep) /\ SF_vars(UploadKeepalive)
  /\ WF_vars(MainStep) /\ WF_vars(Clock) /\ WF_vars(RxStep)
  /\ WF_vars(~iq /\ RxEnds) /\ SF_vars(RxMode)

FairSpec == Spec /\ Fairness

-----------------------------------------------------------------------------
(* Properties. *)

(* Types of the client's fields and of the places of its threads. *)
TypeOK ==
  /\ daemon \in Remote
  /\ lease \in [has : BOOLEAN, value : Leases \cup {0}]
  /\ tx \in [lease : Leases \cup {0}, keyed : BOOLEAN, stop : BOOLEAN,
            fault : BOOLEAN]
  /\ stream \in Leases \cup {0}
  /\ thread \in Threads /\ call \in Calls /\ main \in Mains
  /\ hamlib \in BOOLEAN /\ iq \in BOOLEAN
  /\ rx \in {"top", "dial", "wait", "recv", "frame", "done"}
  /\ hung \subseteq Sockets

(* While the upload thread can still send, nobody closes or replaces its   *)
(* stream, takes its session lease or reports PTT off, whatever the rig    *)
(* client and the main thread do meanwhile.                                *)
UploaderUndisturbed ==
  Alive /\ thread \in {"head", "body", "caught"} =>
    tx.lease # 0 /\ stream = tx.lease /\ tx.keyed

(* Every PTT off, the one of the destructor too, comes to an end: the      *)
(* thread it joins never waits for the mutex it holds.  Only a request of  *)
(* its own, of the upload or under the mutex that never returns stops it.  *)
PttOffEnds ==
  call = "join" ~> (call = "none" \/ ~Alive \/ hung \ {"rx"} # {})


(* An upload thread stands for the carrier while it can renew the session. *)
Standing ==
  /\ Alive /\ thread \in {"head", "body", "caught"}
  /\ hung \cap {"send", "upload", "main"} = {}

(* A carrier no upload thread stands for goes off: after a failed or       *)
(* half-answered start or stop, a failed release of the session, the death *)
(* of the client, and also when any of its threads blocks for ever in the  *)
(* network.                                                                *)
CarrierEnds ==
  (daemon.tx.keyed /\ ~Standing) ~> (~daemon.tx.keyed \/ Standing)

(* A signal ends the program, unless a socket call never returns: no       *)
(* thread is joined that never ends, in particular not a receive thread    *)
(* that connects while its socket is being closed.                         *)
ShutdownEnds == Stopping ~> (main \in {"exited", "dead"} \/ hung # {})
=============================================================================
