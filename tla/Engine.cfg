SPECIFICATION Spec
CONSTANTS
  Types = {send}
  SendType = send
  TimeMod = 3
  InitCapacity = 1
  MaxEvents = 3
CHECK_DEADLOCK FALSE
INVARIANTS QueueSorted EventsConserved OnTime
PROPERTIES StopHonoured EndTimeHonoured RefinesEventOrder RunReturns
