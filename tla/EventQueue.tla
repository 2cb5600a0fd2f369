----------------------------- MODULE EventQueue -----------------------------
(***************************************************************************)
(* The sorted array of src/src/engine/event.c as operators on sequences.   *)
(* An event is a record with at least the fields ts (timestamp) and seq    *)
(* (sequence), the pair the queue orders by; everything else an Event      *)
(* carries is opaque to the queue.                                         *)
(***************************************************************************)
EXTENDS Naturals, Sequences

(* Mutant: equal keys are shifted too, so the newest goes first.           *)
StaysBehindLifo(p, e) == p.ts < e.ts \/ (p.ts = e.ts /\ p.seq < e.seq)

(* The test that ends the shift loop of event_queue_push: the new event    *)
(* stays behind the entry p.                                               *)
StaysBehind(p, e) ==
  \/ p.ts < e.ts
  \/ p.ts = e.ts /\ p.seq <= e.seq

(* Where the shift loop stops: scanning from the last entry to the first,  *)
(* the number of entries that stay in front of e.                          *)
InsertionIndex(q, e) ==
  CHOOSE k \in 0 .. Len(q) :
    /\ k > 0 => StaysBehind(q[k], e)
    /\ \A j \in (k + 1) .. Len(q) : ~StaysBehind(q[j], e)

(* Mutant: the shift loop is gone and e is stored at the end.              *)
InsertUnsorted(q, e) == Append(q, e)

(* The array after the shift loop and the store of e.                      *)
Insert(q, e) ==
  LET k == InsertionIndex(q, e)
  IN  [i \in 1 .. Len(q) + 1 |->
         IF i <= k THEN q[i] ELSE IF i = k + 1 THEN e ELSE q[i - 1]]

(* The capacity after the growth step of event_queue_push, which doubles a *)
(* full array before inserting.                                            *)
Grown(q, capacity) == IF Len(q) >= capacity THEN 2 * capacity ELSE capacity

=============================================================================
