------------------------------- MODULE IqRing -------------------------------
(***************************************************************************)
(* The sample queue of src/src/iq.c: a circular buffer with a read index   *)
(* and a fill level.  What is taken out or cleared stays in its slot until *)
(* it is overwritten.                                                      *)
(***************************************************************************)
EXTENDS Integers, Sequences

CONSTANT Capacity

ASSUME CapacityAssumption == Capacity \in Nat \ {0}

Slots == 0..Capacity - 1

(* flex1500_iq_ring_init: calloc leaves zeros, which are no samples here. *)
EmptyRing == [samples |-> [k \in Slots |-> 0], read_index |-> 0, size |-> 0]

(* Mutant: the index is not brought back to the start of the buffer. *)
Slot_NoWrap(r, i) ==
  IF r.read_index + i < Capacity THEN r.read_index + i ELSE Capacity - 1

(* The slot of the i-th queued sample, counted from 0. *)
Slot(r, i) == (r.read_index + i) % Capacity

(* How many of n samples fit; the others are dropped. *)
Accepted(r, n) == IF n <= Capacity - r.size THEN n ELSE Capacity - r.size

(* flex1500_iq_ring_push: sample i + 1 of s goes behind the queued ones. *)
WrittenTo(r, i, k) == Slot(r, r.size + i) = k

Push(r, s) ==
  LET new == 0..Accepted(r, Len(s)) - 1
  IN  [samples |->
         [k \in Slots |->
            IF \E i \in new : WrittenTo(r, i, k)
            THEN s[1 + CHOOSE i \in new : WrittenTo(r, i, k)]
            ELSE r.samples[k]],
       read_index |-> r.read_index,
       size |-> r.size + Accepted(r, Len(s))]

(* flex1500_iq_ring_pop: the n samples it returns, and the ring after it. *)
Front(r, n) == [i \in 1..n |-> r.samples[Slot(r, i - 1)]]

Pop(r, n) ==
  [r EXCEPT !.read_index = (r.read_index + n) % Capacity, !.size = r.size - n]

(* flex1500_iq_ring_clear *)
Clear(r) == [r EXCEPT !.read_index = 0, !.size = 0]

(* The queue the ring stands for. *)
Contents(r) == Front(r, r.size)
=============================================================================
