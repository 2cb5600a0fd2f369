------------------------------- MODULE Engine -------------------------------
(***************************************************************************)
(* The simulation engine of FrameRunner: the event queue, the scheduler    *)
(* that owns it and the simulator that drives the scheduler                *)
(* (src/src/engine/event.c, scheduler.c, simulator.c).                     *)
(*                                                                         *)
(* The program is single-threaded, but the engine calls back: a handler    *)
(* that runs inside scheduler_step may schedule events (at any timestamp,  *)
(* the past included), register handlers, move the end time or stop the    *)
(* run.  So a step is split at the call of the handler: Pop starts it,     *)
(* the operations below may be called while at = "handler", and Return     *)
(* ends it.  The same operations are called by the application while       *)
(* at = "idle".  A handler that re-enters scheduler_step or a run loop is  *)
(* not modelled: no handler in the repository does.                        *)
(***************************************************************************)
EXTENDS EventQueue

CONSTANTS
  Types,        \* EventType: the indices of the handler table
  SendType,     \* EVT_PACKET_SEND, the type of an injected packet's event
  TimeMod,      \* timestamps are unsigned and wrap: 2^64 in the code
  InitCapacity, \* the argument of scheduler_create
  MaxEvents     \* bound: events created in a behaviour

ASSUME TypesAssumption    == SendType \in Types
ASSUME TimeAssumption     == TimeMod \in Nat \ {0}
ASSUME CapacityAssumption == InitCapacity \in Nat \ {0}
ASSUME EventsAssumption   == MaxEvents \in Nat

Times == 0 .. TimeMod - 1
Ids   == 1 .. MaxEvents

(* id, born and the variables fate, nextId, stepped and                    *)
(* stopAsked are history: the code does not keep them.  id numbers the     *)
(* events in order of creation and born is the clock at that moment.       *)
(* cb: the event carries its own handler.                                  *)
Event == [id: Ids, type: Types, ts: Times, seq: {0}, cb: BOOLEAN, born: Times]

NoEvent == [id |-> 0]

VARIABLES
  queue,      \* EventQueue.events, the first count entries
  capacity,   \* EventQueue.capacity
  now,        \* Scheduler.now
  running,    \* Scheduler.running
  handlers,   \* Scheduler.handlers: which types have a handler
  endTime,    \* Simulator.end_time
  at,         \* control: "idle", "loop", "handler", "return", "freed"
  loop,       \* which call is active: "none", "step", "sched", "sim"
  cur,        \* the event popped and not yet freed
  fate,       \* what became of each event
  nextId,     \* the next event's number
  stepped,    \* the active run has completed a step
  stopAsked   \* scheduler_stop has been called since the run was entered

engine  == <<queue, capacity, now, running, handlers, endTime, at, loop, cur>>
history == <<fate, nextId, stepped, stopAsked>>
vars    == <<engine, history>>

Fates == {"unborn", "queued", "running", "done", "rejected", "leaked", "drained"}

TypeOK ==
  /\ queue \in Seq(Event)
  /\ capacity \in Nat \ {0}
  /\ now \in Times
  /\ running \in BOOLEAN
  /\ handlers \in [Types -> BOOLEAN]
  /\ endTime \in Times
  /\ at \in {"idle", "loop", "handler", "return", "freed"}
  /\ loop \in {"none", "step", "sched", "sim"}
  /\ cur \in Event \cup {NoEvent}
  /\ fate \in [Ids -> Fates]
  /\ nextId \in 1 .. MaxEvents + 1
  /\ stepped \in BOOLEAN
  /\ stopAsked \in BOOLEAN

(* scheduler_create(InitCapacity) and simulator_create.                    *)
Init ==
  /\ queue = <<>> /\ capacity = InitCapacity
  /\ now = 0 /\ running = FALSE
  /\ handlers = [t \in Types |-> FALSE]
  /\ endTime = 0
  /\ at = "idle" /\ loop = "none" /\ cur = NoEvent
  /\ fate = [i \in Ids |-> "unborn"] /\ nextId = 1
  /\ stepped = FALSE /\ stopAsked = FALSE

-----------------------------------------------------------------------------
(* Operations of the application and of handlers.                          *)

CallAllowed == at \in {"idle", "handler"}

(* event_create and event_create_callback: the sequence field is always 0. *)
NewEvent(type, ts, cb) ==
  [id |-> nextId, type |-> type, ts |-> ts, seq |-> 0, cb |-> cb, born |-> now]

(* scheduler_schedule, that is event_queue_push: insert, growing a full    *)
(* array; when realloc fails the event stays with the caller, and          *)
(* onFailure says what the caller does with it.                            *)
EventQueuePush(e, onFailure) ==
  \/ /\ queue' = Insert(queue, e)
     /\ capacity' = Grown(queue, capacity)
     /\ fate' = [fate EXCEPT ![e.id] = "queued"]
  \/ /\ Len(queue) >= capacity
     /\ fate' = [fate EXCEPT ![e.id] = onFailure]
     /\ UNCHANGED <<queue, capacity>>

Creates(type, ts, cb, onFailure) ==
  /\ CallAllowed
  /\ nextId <= MaxEvents
  /\ EventQueuePush(NewEvent(type, ts, cb), onFailure)
  /\ nextId' = nextId + 1
  /\ UNCHANGED <<now, running, handlers, endTime, at, loop, cur,
                 stepped, stopAsked>>

(* event_create[_callback] and scheduler_schedule at an absolute time; the *)
(* callers in the repository free the event when the push fails.           *)
Schedule(type, ts, cb) == Creates(type, ts, cb, "rejected")

(* simulator_inject_packet: at now + delay, which wraps; when the push     *)
(* fails nobody keeps a pointer to the event.                              *)
Inject(delay) ==
  Creates(SendType, (now + delay) % TimeMod, FALSE, "leaked")

(* scheduler_register; fn = FALSE is a NULL function, which clears the     *)
(* slot.  simulator_register_handler is the case fn = TRUE.                *)
Register(type, fn) ==
  /\ CallAllowed
  /\ handlers' = [handlers EXCEPT ![type] = fn]
  /\ UNCHANGED <<queue, capacity, now, running, endTime, at, loop, cur, history>>

(* scheduler_stop and simulator_stop.                                      *)
Stop ==
  /\ CallAllowed
  /\ running' = FALSE
  /\ stopAsked' = TRUE
  /\ UNCHANGED <<queue, capacity, now, handlers, endTime, at, loop, cur,
                 fate, nextId, stepped>>

(* simulator_set_end_time.                                                 *)
SetEndTime(t) ==
  /\ CallAllowed
  /\ endTime' = t
  /\ UNCHANGED <<queue, capacity, now, running, handlers, at, loop, cur, history>>

-----------------------------------------------------------------------------
(* The step and the two run loops.                                         *)

(* The application calls simulator_step (kind = "step"), scheduler_run     *)
(* ("sched") or simulator_run ("sim"); the run loops set running first.    *)
Enter(kind) ==
  /\ at = "idle"
  /\ at' = "loop" /\ loop' = kind
  /\ running' = IF kind = "step" THEN running ELSE TRUE
  /\ stepped' = FALSE /\ stopAsked' = FALSE
  /\ UNCHANGED <<queue, capacity, now, handlers, endTime, cur,
                 fate, nextId>>

(* The event's own handler, or else the table's entry for its type, is     *)
(* called; with neither the event is dropped in silence.                   *)
HasHandler(e) == e.cb \/ handlers[e.type]

(* Mutant: the count is decremented and the array is not moved down.       *)
PopWithoutMove ==
  /\ at = "loop" /\ queue # <<>>
  /\ cur' = Head(queue) /\ queue' = SubSeq(queue, 1, Len(queue) - 1)
  /\ now' = IF cur'.ts > now THEN cur'.ts ELSE now
  /\ at' = IF HasHandler(cur') THEN "handler" ELSE "return"
  /\ fate' = [fate EXCEPT ![cur'.id] = "running"]
  /\ UNCHANGED <<capacity, running, handlers, endTime, loop,
                 nextId, stepped, stopAsked>>

(* scheduler_step up to the call of the handler: pop the first event and   *)
(* advance the clock, never backwards.                                     *)
Pop ==
  /\ at = "loop" /\ queue # <<>>
  /\ cur' = Head(queue) /\ queue' = Tail(queue)
  /\ now' = IF cur'.ts > now THEN cur'.ts ELSE now
  /\ at' = IF HasHandler(cur') THEN "handler" ELSE "return"
  /\ fate' = [fate EXCEPT ![cur'.id] = "running"]
  /\ UNCHANGED <<capacity, running, handlers, endTime, loop,
                 nextId, stepped, stopAsked>>

(* Mutant: simulator_run looks at the end time only.                       *)
LoopEndsDeaf ==
  CASE loop = "step"  -> TRUE
    [] loop = "sched" -> ~running
    [] loop = "sim"   -> endTime > 0 /\ now >= endTime

(* Mutant: simulator_run stops only strictly after the end time.           *)
LoopEndsLate ==
  CASE loop = "step"  -> TRUE
    [] loop = "sched" -> ~running
    [] loop = "sim"   -> ~running \/ (endTime > 0 /\ now > endTime)

(* Does the run loop stop after a step that returned 1?                    *)
LoopEnds ==
  CASE loop = "step"  -> TRUE
    [] loop = "sched" -> ~running
    [] loop = "sim"   -> ~running \/ (endTime > 0 /\ now >= endTime)

(* simulator_run clears running when it reaches the end time;              *)
(* scheduler_run clears it on the way out; a single step leaves it alone.  *)
RunningAfter(ends) == IF loop = "step" THEN running ELSE ~ends

(* scheduler_step after the handler: free the event and return 1, then the *)
(* test of the loop that called it.                                        *)
Return ==
  /\ at \in {"handler", "return"}
  /\ fate' = [fate EXCEPT ![cur.id] = "done"]
  /\ cur' = NoEvent
  /\ at' = IF LoopEnds THEN "idle" ELSE "loop"
  /\ loop' = IF LoopEnds THEN "none" ELSE loop
  /\ running' = RunningAfter(LoopEnds)
  /\ stepped' = TRUE
  /\ UNCHANGED <<queue, capacity, now, handlers, endTime,
                 nextId, stopAsked>>

(* Mutant: simulator_run ignores a step that returned 0.                   *)
ExhaustedIgnored ==
  /\ at = "loop" /\ queue = <<>>
  /\ IF loop = "sim" THEN at' = at /\ loop' = loop /\ running' = running
     ELSE at' = "idle" /\ loop' = "none" /\ running' = RunningAfter(TRUE)
  /\ UNCHANGED <<queue, capacity, now, handlers, endTime, cur, history>>

(* scheduler_step on an empty queue returns 0, and both run loops end.     *)
Exhausted ==
  /\ at = "loop" /\ queue = <<>>
  /\ at' = "idle" /\ loop' = "none"
  /\ running' = RunningAfter(TRUE)
  /\ UNCHANGED <<queue, capacity, now, handlers, endTime, cur, history>>

(* simulator_free: scheduler_free pops and frees every pending event (and  *)
(* not the packet it carries), then the queue and the scheduler go.        *)
Free ==
  /\ at = "idle"
  /\ at' = "freed"
  /\ queue' = <<>>
  /\ fate' = [i \in Ids |-> IF fate[i] = "queued" THEN "drained" ELSE fate[i]]
  /\ UNCHANGED <<capacity, now, running, handlers, endTime, loop, cur,
                 nextId, stepped, stopAsked>>

-----------------------------------------------------------------------------

Operation ==
  \/ \E type \in Types, ts \in Times, cb \in BOOLEAN : Schedule(type, ts, cb)
  \/ \E delay \in Times : Inject(delay)
  \/ \E type \in Types, fn \in BOOLEAN : Register(type, fn)
  \/ Stop
  \/ \E t \in Times : SetEndTime(t)

Dispatch == Pop \/ Return \/ Exhausted

Next ==
  \/ Operation
  \/ \E kind \in {"step", "sched", "sim"} : Enter(kind)
  \/ Dispatch
  \/ Free

(* The thread that entered a run keeps running, and handlers return.       *)
Spec == Init /\ [][Next]_vars /\ WF_vars(Dispatch)

-----------------------------------------------------------------------------
(* Properties.                                                             *)

(* The order in which events must be dispatched: by timestamp, and first   *)
(* scheduled first among equal timestamps.                                 *)
Before(a, b) == a.ts < b.ts \/ (a.ts = b.ts /\ a.id < b.id)

Sorted(q) == \A i, j \in 1 .. Len(q) : i < j => Before(q[i], q[j])

(* The insertion loop of event_queue_push keeps the array strictly sorted  *)
(* by timestamp and, among equal timestamps, by order of scheduling,       *)
(* although every event has sequence 0.                                    *)
QueueSorted == Sorted(queue)

(* event_queue_push never writes past the array: what is stored fits the   *)
(* capacity that was allocated.                                            *)
QueueFits == Len(queue) <= capacity

(* No event is lost or duplicated by the shifting of the array: the events *)
(* in the queue are exactly those scheduled and not popped, freed or       *)
(* drained, and the one being dispatched is the only running one.          *)
EventsConserved ==
  /\ \A i, j \in 1 .. Len(queue) : queue[i].id = queue[j].id => i = j
  /\ {queue[i].id : i \in 1 .. Len(queue)} = {i \in Ids : fate[i] = "queued"}
  /\ {i \in Ids : fate[i] = "running"} = IF cur = NoEvent THEN {} ELSE {cur.id}
  /\ \A i \in Ids : fate[i] = "unborn" <=> i >= nextId

(* An event not scheduled in the past is dispatched with the clock exactly *)
(* at its timestamp, whatever else handlers schedule in the meantime.      *)
OnTime == cur # NoEvent /\ cur.ts >= cur.born => now = cur.ts

(* After a handler has called scheduler_stop (or simulator_stop), the run  *)
(* that called the handler dispatches nothing more.                        *)
StopHonoured == [][Pop => ~stopAsked]_vars

(* Once simulator_run has completed a step with the clock at or past a     *)
(* non-zero end time it dispatches nothing more, whoever set the end time. *)
EndTimeHonoured ==
  [][Pop /\ loop = "sim" /\ stepped => endTime = 0 \/ now < endTime]_vars

(* A run loop returns to its caller once no more events are created: it    *)
(* does not spin on an empty queue.                                        *)
RunReturns == (at # "idle") ~> (at \in {"idle", "freed"})

(* The engine is an implementation of the abstract event order, in which   *)
(* pending events are a set and the least one fires.                       *)
Abstract == INSTANCE EventOrder WITH
  pending <- {[id |-> queue[i].id, ts |-> queue[i].ts] : i \in 1 .. Len(queue)},
  clock   <- now,
  firing  <- cur.id,
  last    <- nextId - 1

RefinesEventOrder == Abstract!Spec

=============================================================================
