------------------------------ MODULE AudioRing ------------------------------
(***************************************************************************)
(* The sample ring of the companion client (src/client/src/audio_ring.cpp),*)
(* shared without a lock by a thread that pushes and one that pops: the    *)
(* receive thread and the callback of the PipeWire source, or the callback *)
(* of the PipeWire sink and the upload thread.  clear() is called by       *)
(* set_ptt before it starts an upload thread, so that it never meets a pop *)
(* (BridgeClient!UploaderUndisturbed).                                     *)
(*                                                                         *)
(* The indices are atomic, the samples are not: each load, each copy of a  *)
(* sample and each store is a step.                                        *)
(***************************************************************************)
EXTENDS Integers, Sequences

CONSTANTS
  Size,        \* samples_.size(): one more than the capacity
  MaxBatch,    \* largest count of a call
  MaxSample    \* bound on the samples that are pushed

ASSUME SizeAssumption == Size \in Nat \ {0} /\ MaxBatch \in Nat

VARIABLES
  samples,     \* samples_: numbered in the order they are offered to push
  read,        \* read_
  write,       \* write_
  producer,    \* push: whether it runs, and its local variables
  consumer,    \* pop and clear: which of them runs, and its local variables
  made,        \* the last sample offered
  fifo         \* for checking only: the samples accepted and not yet taken

ringVars == <<samples, read, write, producer, consumer, made, fifo>>

Places == 0..Size - 1

(* (i + 1) % samples_.size() *)
After(i) == (i + 1) % Size

(* How many places j is ahead of i. *)
Ahead(i, j) == IF i <= j THEN j - i ELSE j - i + Size

(* What an acquire load may return: the index stored last, or an earlier   *)
(* one the thread has not yet seen superseded.                             *)
Loaded(seen, stored) == {i \in Places : Ahead(seen, i) <= Ahead(seen, stored)}

RingInit ==
  /\ samples = [i \in Places |-> 0]
  /\ read = 0 /\ write = 0
  /\ producer = [busy |-> FALSE, read |-> 0, write |-> 0, left |-> 0]
  /\ consumer = [does |-> "idle", read |-> 0, write |-> 0, left |-> 0]
  /\ made = 0 /\ fifo = <<>>

-----------------------------------------------------------------------------
(* push: the loads, the copy of a sample, the store. *)
PushLoads(count) ==
  /\ ~producer.busy /\ made + count <= MaxSample
  /\ \E i \in Loaded(producer.read, read) :
       producer' = [busy |-> TRUE, read |-> i, write |-> write, left |-> count]
  /\ UNCHANGED <<samples, read, write, consumer, made, fifo>>

(* One place stays free, so that a full ring differs from an empty one. *)
Full == After(producer.write) = producer.read

PushCopies ==
  /\ producer.busy /\ producer.left > 0 /\ ~Full
  /\ samples' = [samples EXCEPT ![producer.write] = made + 1]
  /\ made' = made + 1
  /\ fifo' = Append(fifo, made + 1)
  /\ producer' = [producer EXCEPT !.write = After(@), !.left = @ - 1]
  /\ UNCHANGED <<read, write, consumer>>

(* What did not fit is dropped. *)
PushStores ==
  /\ producer.busy /\ (producer.left = 0 \/ Full)
  /\ write' = producer.write
  /\ made' = made + producer.left
  /\ producer' = [producer EXCEPT !.busy = FALSE, !.left = 0]
  /\ UNCHANGED <<samples, read, consumer, fifo>>

-----------------------------------------------------------------------------
(* pop *)
PopLoads(count) ==
  /\ consumer.does = "idle"
  /\ \E i \in Loaded(consumer.write, write) :
       consumer' = [does |-> "pop", read |-> read, write |-> i, left |-> count]
  /\ UNCHANGED <<samples, read, write, producer, made, fifo>>

PopCopies ==
  /\ consumer.does = "pop" /\ consumer.left > 0
  /\ consumer.read # consumer.write
  /\ fifo' = SubSeq(fifo, 2, Len(fifo))
  /\ consumer' = [consumer EXCEPT !.read = After(@), !.left = @ - 1]
  /\ UNCHANGED <<samples, read, write, producer, made>>

PopStores ==
  /\ consumer.does = "pop"
  /\ consumer.left = 0 \/ consumer.read = consumer.write
  /\ read' = consumer.read
  /\ consumer' = [consumer EXCEPT !.does = "idle", !.left = 0]
  /\ UNCHANGED <<samples, write, producer, made, fifo>>

(* clear *)
ClearLoads ==
  /\ consumer.does = "idle"
  /\ \E i \in Loaded(consumer.write, write) :
       consumer' = [does |-> "clear", read |-> read, write |-> i, left |-> 0]
  /\ UNCHANGED <<samples, read, write, producer, made, fifo>>

(* Mutant: clearing sets both indices back to the start. *)
ClearStores_Resets ==
  /\ consumer.does = "clear"
  /\ read' = 0 /\ write' = 0
  /\ fifo' = <<>>
  /\ consumer' = [consumer EXCEPT !.does = "idle", !.read = 0, !.write = 0]
  /\ UNCHANGED <<samples, producer, made>>

ClearStores ==
  /\ consumer.does = "clear"
  /\ read' = consumer.write
  /\ fifo' = SubSeq(fifo, Ahead(read, consumer.write) + 1, Len(fifo))
  /\ consumer' = [consumer EXCEPT !.does = "idle", !.read = consumer.write]
  /\ UNCHANGED <<samples, write, producer, made>>

RingNext ==
  \/ \E count \in 1..MaxBatch : PushLoads(count) \/ PopLoads(count)
  \/ PushCopies \/ PushStores \/ PopCopies \/ PopStores
  \/ ClearLoads \/ ClearStores

RingSpec == RingInit /\ [][RingNext]_ringVars

-----------------------------------------------------------------------------
(* Every sample a pop copies is the oldest one a push has accepted and no  *)
(* pop or clear has removed, from a place the push is not writing to: the  *)
(* two threads never touch one sample at the same time, and the order      *)
(* survives wrapping, full and empty rings, clears in the middle of a push *)
(* and indices that are seen late.                                         *)
TakesOldest ==
  [][PopCopies =>
       /\ fifo # <<>> /\ samples[consumer.read] = Head(fifo)
       /\ producer.busy => producer.write # consumer.read]_ringVars
=============================================================================
