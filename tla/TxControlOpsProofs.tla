------------------------ MODULE TxControlOpsProofs ------------------------
(***************************************************************************)
(* What the operations of tx_control.c keep and establish, as lemmas about *)
(* the operators of TxControlOps.  The proofs about the controller on its  *)
(* own and with its policies (TxPolicyProofs) and inside the daemon        *)
(* (DaemonProofs) rest on them.                                            *)
(***************************************************************************)
EXTENDS TxControlOps, TLAPS

(* What every operation keeps of a controller c and a radio rd, apart from *)
(* time: the controller is owned exactly while it transmits, a disabled    *)
(* one is never owned, a carrier nobody owns is a fault.                   *)
Sound(c, rd) ==
  /\ c \in Control
  /\ rd \in Radio
  /\ c.owner # "NONE" <=> c.state = "TRANSMITTING"
  /\ c.owner # "NONE" => c.enabled
  /\ rd.key /\ c.owner = "NONE" => c.state = "FAULTED"
  /\ ~rd.overlap

(* The microphone owns the transmitter only while pressed and armed. *)
MicSound(c) ==
  c.owner = "PHYSICAL_MIC" => c.physical_ptt_pressed /\ c.physical_ptt_armed

-----------------------------------------------------------------------------
(* stop_owner releases the controller, keeps its timeout, and reports OK   *)
(* only with the radio unkeyed and the controller out of FAULTED.          *)
LEMMA StopOwnerSound ==
  ASSUME NEW c, NEW rd, Sound(c, rd), NEW o \in StopOwner(c, rd)
  PROVE  /\ Sound(o.c, o.radio)
         /\ o.c.owner = "NONE"
         /\ c.enabled => o.c.enabled
         /\ o.c.maximum_key_ms = c.maximum_key_ms
         /\ o.c.physical_ptt_armed = c.physical_ptt_armed
         /\ o.c.physical_ptt_pressed = c.physical_ptt_pressed
         /\ c.owner # "NONE" /\ o.r = "OK" => ~o.radio.key
         /\ o.r # "OK" => o.c.state = "FAULTED"
         /\ c.owner = "NONE" => o.c = c /\ o.radio = rd
<1>1. CASE c.owner = "NONE"
  BY <1>1 DEF StopOwner, Unchanged, Outcome
<1>2. CASE c.owner # "NONE"
  <2>1. PICK s \in StopOutcomes(rd) :
          o = Outcome([c EXCEPT !.cleanup_failed = ~s.ok,
                                !.owner = "NONE",
                                !.key_ms = 0,
                                !.state = IF s.ok THEN "RX" ELSE "FAULTED"],
                      s.radio,
                      IF s.ok THEN "OK" ELSE "HARDWARE_ERROR")
    BY <1>2 DEF StopOwner
  <2>2. /\ s.radio \in Radio
        /\ s.ok \in BOOLEAN
        /\ s.ok => ~s.radio.key
        /\ s.radio.overlap = rd.overlap
    BY DEF StopOutcomes, CallbackOutcome
  <2>3. QED
    BY <1>2, <2>1, <2>2 DEF Sound, Control, Outcome, States, Owners
<1>3. QED
  BY <1>1, <1>2

(* A request changes the owner only from NONE, and then either the radio   *)
(* was unkeyed and the owner starts with no time on the air, or the        *)
(* controller ends unowned and FAULTED.                                    *)
LEMMA RequestSound ==
  ASSUME NEW c, NEW rd, Sound(c, rd), NEW owner \in Owners,
         NEW o \in Request(c, rd, owner)
  PROVE  /\ Sound(o.c, o.radio)
         /\ c.enabled => o.c.enabled
         /\ o.c.maximum_key_ms = c.maximum_key_ms
         /\ o.c.physical_ptt_armed = c.physical_ptt_armed
         /\ o.c.physical_ptt_pressed = c.physical_ptt_pressed
         /\ o.c.owner = IF o.r = "OK" THEN owner ELSE c.owner
         /\ o.c.owner # c.owner => c.owner = "NONE"
         /\ \/ o.c = c /\ o.radio = rd
            \/ o.c.owner = "NONE" /\ o.c.state = "FAULTED"
            \/ /\ o.c.owner = owner /\ o.c.key_ms = 0
               /\ owner = "PHYSICAL_MIC" => c.physical_ptt_armed
         /\ c.state = "FAULTED" => o.c = c /\ o.radio = rd
<1>1. CASE RequestRefusal(c, owner) # "START"
  <2>1. o.c = c /\ o.radio = rd /\ o.r = RequestRefusal(c, owner)
    BY <1>1 DEF Request, Unchanged, Outcome
  <2>2. o.r = "OK" => c.owner = owner
    BY <1>1, <2>1 DEF RequestRefusal
  <2>3. QED
    BY <2>1, <2>2
<1>2. CASE RequestRefusal(c, owner) = "START"
  <2>1. /\ c.enabled
        /\ owner = "PHYSICAL_MIC" => c.physical_ptt_armed
        /\ c.state # "FAULTED"
        /\ c.owner = "NONE"
    BY <1>2 DEF RequestRefusal
  <2>2. ~rd.key /\ ~rd.overlap
    BY <2>1 DEF Sound
  <2>3. PICK s \in StartOutcomes(rd) :
          o \in IF s.ok THEN {StartSucceeds(c, owner, s.radio)}
                        ELSE StartFails(c, s.radio)
    BY <1>2 DEF Request
  <2>4. s.radio \in Radio /\ ~s.radio.overlap
    BY <2>2 DEF StartOutcomes, CallbackOutcome
  <2>5. CASE s.ok
    <3>1. o = StartSucceeds(c, owner, s.radio)
      BY <2>3, <2>5
    <3>2. QED
      BY <2>1, <2>4, <3>1
      DEF StartSucceeds, Outcome, Sound, Control, States, Owners
  <2>6. CASE ~s.ok
    <3>1. PICK t \in RollbackOutcomes(s.radio) :
            o = Outcome([c EXCEPT !.cleanup_failed = ~t.ok,
                                  !.state = "FAULTED"],
                        t.radio, "HARDWARE_ERROR")
      BY <2>3, <2>6 DEF StartFails
    <3>2. t.radio \in Radio /\ ~t.radio.overlap /\ t.ok \in BOOLEAN
      BY <2>4 DEF RollbackOutcomes, CallbackOutcome
    <3>3. QED
      BY <2>1, <3>1, <3>2 DEF Outcome, Sound, Control, States, Owners
  <2>7. QED
    BY <2>5, <2>6
<1>3. QED
  BY <1>1, <1>2

(* A press: whoever owned the transmitter, the microphone gets it only     *)
(* with the radio unkeyed in between, and pressed and armed.               *)
LEMMA PreemptSound ==
  ASSUME NEW c, NEW rd, Sound(c, rd), MicSound(c),
         c.physical_ptt_pressed, c.physical_ptt_armed,
         NEW o \in Preempt(c, rd)
  PROVE  /\ Sound(o.c, o.radio)
         /\ MicSound(o.c)
         /\ c.enabled => o.c.enabled
         /\ o.c.maximum_key_ms = c.maximum_key_ms
         /\ o.c.owner \in {c.owner, "NONE", "PHYSICAL_MIC"}
         /\ o.c = c \/ o.c.owner = "NONE" \/ o.c.key_ms = 0
         /\ c.state = "FAULTED" => o.c = c /\ o.radio = rd
<1>1. "PHYSICAL_MIC" \in Owners
  BY DEF Owners
<1>2. CASE c.owner \in {"NONE", "PHYSICAL_MIC"}
  <2>1. o \in Request(c, rd, "PHYSICAL_MIC")
    BY <1>2 DEF Preempt
  <2>2. QED
    BY <1>1, <2>1, RequestSound DEF MicSound
<1>3. CASE c.owner \notin {"NONE", "PHYSICAL_MIC"}
  <2>1. PICK s \in StopOwner(c, rd) :
          o \in IF s.r = "OK" THEN Request(s.c, s.radio, "PHYSICAL_MIC")
                              ELSE {s}
    BY <1>3 DEF Preempt
  <2>2. /\ Sound(s.c, s.radio)
        /\ s.c.owner = "NONE"
        /\ c.enabled => s.c.enabled
        /\ s.c.maximum_key_ms = c.maximum_key_ms
        /\ s.c.physical_ptt_armed /\ s.c.physical_ptt_pressed
    BY StopOwnerSound
  <2>3. c.state # "FAULTED"
    BY <1>3 DEF Sound
  <2>4. CASE s.r = "OK"
    <3>1. o \in Request(s.c, s.radio, "PHYSICAL_MIC")
      BY <2>1, <2>4
    <3>2. QED
      BY <1>1, <2>2, <2>3, <3>1, RequestSound DEF MicSound
  <2>5. CASE s.r # "OK"
    <3>1. o = s
      BY <2>1, <2>5
    <3>2. QED
      BY <2>2, <2>3, <3>1 DEF MicSound
  <2>6. QED
    BY <2>4, <2>5
<1>4. QED
  BY <1>2, <1>3

(* A PTT edge keeps the controller sound; a faulted one changes only what  *)
(* it recorded of the button.                                              *)
LEMMA PhysicalPttSound ==
  ASSUME NEW c, NEW rd, Sound(c, rd), MicSound(c),
         NEW pressed \in BOOLEAN, NEW o \in PhysicalPtt(c, rd, pressed)
  PROVE  /\ Sound(o.c, o.radio)
         /\ MicSound(o.c)
         /\ c.enabled => o.c.enabled
         /\ o.c.maximum_key_ms = c.maximum_key_ms
         /\ o.c.owner \in {c.owner, "NONE", "PHYSICAL_MIC"}
         /\ \/ o.c.owner = "NONE"
            \/ o.c.key_ms = 0
            \/ o.c.owner = c.owner /\ o.c.key_ms = c.key_ms
         /\ c.state = "FAULTED" => o.c.state = "FAULTED"
<1> DEFINE p == [c EXCEPT !.physical_ptt_pressed = pressed]
           q == [p EXCEPT !.physical_ptt_armed = TRUE,
                          !.state = IF @ = "STARTUP_INHIBIT"
                                    THEN "RX" ELSE @]
<1>1. /\ Sound(p, rd)
      /\ p.owner = c.owner /\ p.state = c.state /\ p.enabled = c.enabled
      /\ p.key_ms = c.key_ms /\ p.maximum_key_ms = c.maximum_key_ms
      /\ p.physical_ptt_armed = c.physical_ptt_armed
      /\ p.physical_ptt_pressed = pressed
  BY DEF Sound, Control
<1>2. /\ Sound(q, rd)
      /\ q.owner = c.owner /\ q.enabled = c.enabled
      /\ q.key_ms = c.key_ms /\ q.maximum_key_ms = c.maximum_key_ms
      /\ c.state = "FAULTED" => q.state = "FAULTED"
  BY DEF Sound, Control, States
<1>3. CASE ~c.enabled
  <2>1. o.c = c /\ o.radio = rd
    BY <1>3 DEF PhysicalPtt, Unchanged, Outcome
  <2>2. QED
    BY <2>1
<1>4. CASE c.enabled /\ ~c.physical_ptt_armed
  <2>1. c.owner # "PHYSICAL_MIC"
    BY <1>4 DEF MicSound
  <2>2. o.radio = rd /\ (o.c = p \/ o.c = q)
    BY <1>4 DEF PhysicalPtt, Unchanged, Outcome
  <2>3. QED
    BY <1>1, <1>2, <2>1, <2>2 DEF MicSound
<1>5. CASE c.enabled /\ c.physical_ptt_armed /\ pressed
  <2>1. o \in Preempt(p, rd)
    BY <1>5 DEF PhysicalPtt
  <2>2. MicSound(p)
    BY <1>1, <1>5 DEF MicSound
  <2>3. p.physical_ptt_pressed /\ p.physical_ptt_armed
    BY <1>1, <1>5
  <2>4. /\ Sound(o.c, o.radio)
        /\ MicSound(o.c)
        /\ p.enabled => o.c.enabled
        /\ o.c.maximum_key_ms = p.maximum_key_ms
        /\ o.c.owner \in {p.owner, "NONE", "PHYSICAL_MIC"}
        /\ o.c = p \/ o.c.owner = "NONE" \/ o.c.key_ms = 0
        /\ p.state = "FAULTED" => o.c = p /\ o.radio = rd
    <3> HIDE DEF p
    <3> QED BY <1>1, <2>1, <2>2, <2>3, PreemptSound
  <2>5. QED
    BY <1>1, <2>4
<1>6. CASE c.enabled /\ c.physical_ptt_armed /\ ~pressed
  <2>1. CASE c.owner = "PHYSICAL_MIC"
    <3>1. o \in StopOwner(p, rd)
      BY <1>6, <2>1 DEF PhysicalPtt
    <3>2. c.state # "FAULTED"
      BY <2>1 DEF Sound
    <3>3. QED
      BY <1>1, <3>1, <3>2, StopOwnerSound DEF MicSound
  <2>2. CASE c.owner # "PHYSICAL_MIC"
    <3>1. o.c = p /\ o.radio = rd
      BY <1>6, <2>2 DEF PhysicalPtt, Unchanged, Outcome
    <3>2. QED
      BY <1>1, <2>2, <3>1 DEF MicSound
  <2>3. QED
    BY <2>1, <2>2
<1>7. QED
  BY <1>3, <1>4, <1>5, <1>6

(* After a tick the time on the air is below the maximum. *)
LEMMA TickSound ==
  ASSUME NEW c, NEW rd, Sound(c, rd), MicSound(c), c.maximum_key_ms # 0,
         NEW o \in Tick(c, rd)
  PROVE  /\ Sound(o.c, o.radio)
         /\ MicSound(o.c)
         /\ c.enabled => o.c.enabled
         /\ o.c.maximum_key_ms = c.maximum_key_ms
         /\ o.c.owner \in {"NONE", c.owner}
         /\ o.c.owner # "NONE" => o.c.key_ms < o.c.maximum_key_ms
         /\ c.state = "FAULTED" => o.c = c /\ o.radio = rd
<1>1. CASE c.enabled /\ KeyExpired(c)
  <2>1. PICK s \in StopOwner(c, rd) :
          o = [s EXCEPT !.r = IF @ = "OK" THEN "MAX_KEY" ELSE @]
    BY <1>1 DEF Tick
  <2>2. \E cc, rr, r : s = Outcome(cc, rr, r)
    BY DEF StopOwner, Unchanged
  <2>3. o.c = s.c /\ o.radio = s.radio
    BY <2>1, <2>2 DEF Outcome
  <2>4. /\ Sound(s.c, s.radio) /\ s.c.owner = "NONE"
        /\ c.enabled => s.c.enabled
        /\ s.c.maximum_key_ms = c.maximum_key_ms
    BY StopOwnerSound
  <2>5. c.state # "FAULTED"
    BY <1>1 DEF KeyExpired
  <2>6. QED
    BY <2>3, <2>4, <2>5 DEF MicSound
<1>2. CASE ~(c.enabled /\ KeyExpired(c))
  <2>1. o.c = c /\ o.radio = rd
    BY <1>2 DEF Tick, Unchanged, Outcome
  <2>2. c.owner # "NONE" => ~(c.key_ms >= c.maximum_key_ms)
    BY <1>2 DEF KeyExpired, Sound, Control
  <2>3. c.key_ms \in Nat /\ c.maximum_key_ms \in Nat
    BY DEF Sound, Control
  <2>4. QED
    BY <2>1, <2>2, <2>3
<1>3. QED
  BY <1>1, <1>2

(* A release stops its own owner and leaves every other one alone. *)
LEMMA ReleaseSound ==
  ASSUME NEW c, NEW rd, Sound(c, rd), MicSound(c), c.enabled,
         NEW owner \in Owners, NEW o \in Release(c, rd, owner)
  PROVE  /\ Sound(o.c, o.radio)
         /\ MicSound(o.c)
         /\ c.enabled => o.c.enabled
         /\ o.c.maximum_key_ms = c.maximum_key_ms
         /\ o.c.owner = IF c.owner = owner THEN "NONE" ELSE c.owner
         /\ c.owner = owner /\ o.r # "OK" => o.c.state = "FAULTED"
         /\ c.owner # owner => o.c = c /\ o.radio = rd
         /\ c.state = "FAULTED" => o.c.state = "FAULTED"
<1>1. CASE c.owner # owner
  <2>1. o.c = c /\ o.radio = rd
    BY <1>1 DEF Release, Unchanged, Outcome
  <2>2. QED
    BY <1>1, <2>1
<1>2. CASE c.owner = owner
  <2>1. o \in StopOwner(c, rd)
    BY <1>2 DEF Release
  <2>2. c.owner # "NONE"
    BY <1>2 DEF Owners
  <2>3. c.state # "FAULTED"
    BY <2>2 DEF Sound
  <2>4. /\ Sound(o.c, o.radio)
        /\ o.c.owner = "NONE"
        /\ c.enabled => o.c.enabled
        /\ o.c.maximum_key_ms = c.maximum_key_ms
        /\ o.r # "OK" => o.c.state = "FAULTED"
    BY <2>1, StopOwnerSound
  <2>5. QED
    BY <1>2, <2>3, <2>4 DEF MicSound
<1>3. QED
  BY <1>1, <1>2

(* Arming touches the controller only while it is unowned. *)
LEMMA ArmSound ==
  ASSUME NEW c, NEW rd, Sound(c, rd), MicSound(c),
         NEW d, d = ArmPhysicalPtt(c)
  PROVE  /\ Sound(d, rd)
         /\ MicSound(d)
         /\ d = c \/ d.owner = "NONE"
         /\ c.enabled => d.enabled
         /\ d.maximum_key_ms = c.maximum_key_ms
         /\ c.state = "FAULTED" => d.state = "FAULTED"
  BY DEF ArmPhysicalPtt, Sound, MicSound, Control, States

(* So does the timeout setter, which keeps to the permitted timeouts ts.   *)
LEMMA SetTimeoutSound ==
  ASSUME NEW c, NEW rd, Sound(c, rd), MicSound(c),
         NEW ts \in SUBSET Nat, NEW ms \in ts,
         NEW d, d = SetTimeout(c, ms, ts)
  PROVE  /\ Sound(d, rd)
         /\ MicSound(d)
         /\ d.owner = c.owner /\ d.state = c.state
         /\ c.enabled => d.enabled
         /\ d.maximum_key_ms \in {c.maximum_key_ms, ms}
         /\ d = c \/ d.owner = "NONE"
<1>1. CASE d = c
  BY <1>1
<1>2. CASE c.owner = "NONE" /\ d = [c EXCEPT !.maximum_key_ms = ms]
  BY <1>2 DEF Sound, MicSound, Control
<1>3. QED
  BY <1>1, <1>2 DEF SetTimeout
=============================================================================
