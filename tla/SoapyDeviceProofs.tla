-------------------------- MODULE SoapyDeviceProofs --------------------------
(***************************************************************************)
(* The shared station lease of the SoapySDR adapter: every device that     *)
(* believes to own the station is counted, for every number of devices and *)
(* every interleaving of constructors, keepers and destructors.            *)
(***************************************************************************)
EXTENDS SoapyDevice, FiniteSetTheorems, TLAPS

(* The devices that believe to own the station. *)
Owners == {d \in Devices : owner[d]}

(* What the counting argument needs of the types, and the count.           *)
CountInv ==
  /\ owner \in [Devices -> BOOLEAN]
  /\ DOMAIN shared = {"lease", "references"} /\ shared.references \in Nat
  /\ OwnersCounted

(* The owners are a finite set.                                            *)
LEMMA OwnersFinite ==
  /\ IsFiniteSet(Owners) /\ Cardinality(Owners) \in Nat
  /\ IsFiniteSet(Owners') /\ Cardinality(Owners') \in Nat
<1>1. Owners \subseteq Devices /\ Owners' \subseteq Devices
  BY DEF Owners
<1>2. IsFiniteSet(Owners) /\ IsFiniteSet(Owners')
  BY <1>1, SoapyAssumption, FS_Subset
<1> QED
  BY <1>2, FS_CardinalityType

(* A step that counts no less, and makes nobody an owner, keeps the count. *)
LEMMA FewerOwners ==
  ASSUME CountInv, owner' \in [Devices -> BOOLEAN],
         \A d \in Devices : owner'[d] => owner[d],
         DOMAIN shared' = DOMAIN shared,
         shared'.references = shared.references
  PROVE  CountInv'
<1>1. Owners' \subseteq Owners
  BY DEF Owners
<1>2. Cardinality(Owners') <= Cardinality(Owners)
  BY <1>1, OwnersFinite, FS_Subset
<1>3. Cardinality(Owners) <= shared.references
  BY DEF CountInv, OwnersCounted, Owners
<1>4. Cardinality(Owners') <= shared'.references
  BY <1>2, <1>3, OwnersFinite DEF CountInv
<1> QED
  BY <1>4 DEF CountInv, OwnersCounted, Owners

(* The constructor that joins the others takes a reference with it.        *)
LEMMA JoinKeeps ==
  ASSUME CountInv, NEW d \in Devices, Join(d)
  PROVE  CountInv'
<1>1. /\ owner' = [owner EXCEPT ![d] = TRUE]
      /\ shared'.references = shared.references + 1
      /\ DOMAIN shared' = DOMAIN shared
  BY DEF Join, NewDevice, CountInv
<1>2. Owners' \subseteq Owners \cup {d}
  BY <1>1 DEF Owners, CountInv
<1>3. /\ IsFiniteSet(Owners \cup {d})
      /\ Cardinality(Owners \cup {d}) <= Cardinality(Owners) + 1
  <2>1. /\ IsFiniteSet(Owners \cup {d})
        /\ Cardinality(Owners \cup {d}) =
             IF d \in Owners THEN Cardinality(Owners)
             ELSE Cardinality(Owners) + 1
    BY OwnersFinite, FS_AddElement
  <2> QED
    BY <2>1, OwnersFinite
<1>4. Cardinality(Owners') <= Cardinality(Owners \cup {d})
  BY <1>2, <1>3, FS_Subset
<1>5. Cardinality(Owners \cup {d}) \in Nat
  BY <1>3, FS_CardinalityType
<1>6. Cardinality(Owners) <= shared.references
  BY DEF CountInv, OwnersCounted, Owners
<1>7. Cardinality(Owners') <= shared'.references
  BY <1>1, <1>3, <1>4, <1>5, <1>6, OwnersFinite DEF CountInv
<1> QED
  BY <1>1, <1>7 DEF CountInv, OwnersCounted, Owners

(* The constructor of the first device finds nobody else who owns.         *)
LEMMA AcquireKeeps ==
  ASSUME CountInv, NEW d \in Devices, Acquire(d)
  PROVE  CountInv'
<1>1. Owners = {}
  <2>1. Cardinality(Owners) <= 0
    BY DEF Acquire, CountInv, OwnersCounted, Owners
  <2> QED
    BY <2>1, OwnersFinite, FS_EmptySet
<1>2. CASE /\ owner' = [owner EXCEPT ![d] = TRUE]
           /\ shared' = [lease |-> NewStation, references |-> 1]
  <2>1. Owners' \subseteq {d}
    BY <1>1, <1>2 DEF Owners, CountInv
  <2>2. Cardinality(Owners') <= 1
    <3>1. IsFiniteSet({d}) /\ Cardinality({d}) = 1
      BY FS_Singleton
    <3> QED
      BY <2>1, <3>1, FS_Subset
  <2> QED
    BY <1>2, <2>2 DEF CountInv, OwnersCounted, Owners
<1>3. CASE \/ owner' = [owner EXCEPT ![d] = FALSE] /\ shared' = shared
           \/ owner' = owner /\ shared' = shared
  BY <1>3, FewerOwners DEF CountInv
<1> QED
  BY <1>2, <1>3 DEF Acquire, NewDevice

(* The destructor gives back the reference of an owner, and only of one;   *)
(* the last reference is the last owner's.                                 *)
LEMMA DropKeeps ==
  ASSUME CountInv, NEW d \in Devices, DropReference(d)
  PROVE  CountInv'
<1>1. owner' = [owner EXCEPT ![d] = FALSE] /\ owner' \in [Devices -> BOOLEAN]
  BY DEF DropReference, CountInv
<1>2. CASE ~owner[d] \/ shared.references = 0
  <2>1. shared' = shared
    BY <1>2 DEF DropReference
  <2> QED
    BY <1>1, <2>1, FewerOwners DEF CountInv
<1>3. CASE owner[d] /\ shared.references # 0
  <2>1. shared'.references = shared.references - 1
    BY <1>3 DEF DropReference, Last, CountInv
  <2>2. d \in Owners /\ Owners' = Owners \ {d}
    BY <1>1, <1>3 DEF Owners, CountInv
  <2>3. Cardinality(Owners') = Cardinality(Owners) - 1
    BY <2>2, OwnersFinite, FS_RemoveElement
  <2>4. Cardinality(Owners) <= shared.references
    BY DEF CountInv, OwnersCounted, Owners
  <2>5. Cardinality(Owners') <= shared'.references
    BY <2>1, <2>3, <2>4, OwnersFinite DEF CountInv
  <2>6. shared'.references \in Nat /\ DOMAIN shared' = DOMAIN shared
    BY <1>3, <2>1 DEF DropReference, CountInv
  <2> QED
    BY <1>1, <2>5, <2>6 DEF CountInv, OwnersCounted, Owners
<1> QED
  BY <1>2, <1>3

(* Keepers renew the lease, replace it, or give their device's belief up;  *)
(* none of them gives a reference back.                                    *)
LEMMA KeepersKeep ==
  ASSUME CountInv, NEW d \in Devices,
         \/ Asks(d) \/ Posts(d) \/ AskingFails(d) \/ Keeping(d)
         \/ Destroy(d) \/ ReleaseStation(d)
  PROVE  CountInv'
<1>1. /\ shared'.references = shared.references
      /\ DOMAIN shared' = DOMAIN shared
  BY DEF Asks, Posts, AskingFails, Keeping, Updates, Looks, Stops, Destroy,
         ReleaseStation, CountInv
<1>2. owner' = owner \/ owner' = [owner EXCEPT ![d] = FALSE]
  BY DEF Asks, Posts, AskingFails, Keeping, Updates, Looks, Stops, Destroy,
         ReleaseStation
<1> QED
  BY <1>1, <1>2, FewerOwners DEF CountInv

(* The transmit stream, the daemon and the other stations.                 *)
LEMMA StreamKeeps ==
  ASSUME CountInv,
         \/ SetupStream \/ ActivateTx \/ WriteStream \/ TxStep
         \/ \E g \in {"stay", "close"} : tx.open /\ StopTx(g)
         \/ StopTx("destroy")
         \/ Clock \/ Preempted \/ StreamLost \/ PrebufferArrives
         \/ OtherStation
  PROVE  CountInv'
<1>1. UNCHANGED <<owner, shared>>
  BY DEF SetupStream, ActivateTx, WriteStream, TxStep, Connect, Undo, Send, KeyTx,
         StopPtt, EndSession, Clear, StopTx, Clock, Preempted, StreamLost,
         PrebufferArrives, OtherStation, station
<1> QED
  BY <1>1, FewerOwners DEF CountInv

(* Every device that believes to own the station has a reference, so that  *)
(* the destructor of another one never takes the station away from it.     *)
THEOREM OwnersAreCounted == Spec => []OwnersCounted
<1>1. Init => CountInv
  <2>1. ASSUME Init PROVE CountInv
    <3>1. Owners = {} /\ Cardinality(Owners) = 0
      BY <2>1, FS_EmptySet DEF Init, Owners
    <3> QED
      BY <2>1, <3>1 DEF Init, CountInv, OwnersCounted, Owners
  <2> QED
    BY <2>1
<1>2. CountInv /\ [Next]_vars => CountInv'
  <2>1. ASSUME CountInv, UNCHANGED vars PROVE CountInv'
    BY <2>1, FewerOwners DEF vars, station, CountInv
  <2> QED
    BY <2>1, JoinKeeps, AcquireKeeps, DropKeeps, KeepersKeep, StreamKeeps
    DEF Next, Ending
<1>3. CountInv => OwnersCounted
  BY DEF CountInv
<1> QED
  BY <1>1, <1>2, <1>3, PTL DEF Spec
=============================================================================
