----------------------------- MODULE EventOrder -----------------------------
(***************************************************************************)
(* What the engine promises the rest of the simulator: pending events are  *)
(* a set, the least by (timestamp, order of scheduling) fires next, each   *)
(* fires at most once, and the clock is the largest timestamp fired.       *)
(***************************************************************************)
EXTENDS Naturals

CONSTANTS Times, MaxEvents

VARIABLES
  pending,  \* events scheduled and not fired: records [id, ts]
  clock,    \* simulated time
  firing,   \* the id of the event being handled, 0 for none
  last      \* the id given to the latest event

vars == <<pending, clock, firing, last>>

Init == pending = {} /\ clock = 0 /\ firing = 0 /\ last = 0

(* a fires before b.                                                       *)
Precedes(a, b) == a.ts < b.ts \/ (a.ts = b.ts /\ a.id < b.id)

(* A new event is accepted, or refused and forgotten.                      *)
Add ==
  /\ last < MaxEvents
  /\ last' = last + 1
  /\ \/ \E ts \in Times : pending' = pending \cup {[id |-> last + 1, ts |-> ts]}
     \/ pending' = pending
  /\ UNCHANGED <<clock, firing>>

Fire ==
  /\ firing = 0
  /\ \E e \in pending :
       /\ \A f \in pending \ {e} : Precedes(e, f)
       /\ pending' = pending \ {e}
       /\ firing' = e.id
       /\ clock' = IF e.ts > clock THEN e.ts ELSE clock
  /\ UNCHANGED last

Fired == firing # 0 /\ firing' = 0 /\ UNCHANGED <<pending, clock, last>>

(* The simulation is torn down and pending events are discarded.           *)
Discard == firing = 0 /\ pending' = {} /\ UNCHANGED <<clock, firing, last>>

Next == Add \/ Fire \/ Fired \/ Discard

Spec == Init /\ [][Next]_vars

=============================================================================
