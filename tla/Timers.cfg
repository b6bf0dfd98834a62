\* Two threads bind and clear two timers, one of them a loop, under two
\* handles; two timers on a wheel of two slots that is
\* turned by five.
CONSTANTS
  Threads = {u1, u2}
  NoThread = NoThread
  Timers = {t1, t2}
  NoTimer = NoTimer
  Loops = {t1}
  Handles = {0, 1}
  MAX_FAILURES = 1
  Delegates = {d1, d2}
  MaxWheelSize = 2
  MAX_DELAY = 3
  MAX_WALKS = 5
SPECIFICATION MCSpec
\* The services may have stopped, or a lock may not have been left.
CHECK_DEADLOCK FALSE
INVARIANTS
  UsedAfterFreeOnlyIfOvertaken
  OnTime
PROPERTIES
  CallsReturn
  LoopGoesOn
