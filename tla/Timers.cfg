\* Two timers, to be sorted against each other; intervals that differ
\* by as much as the callbacks of one round may take.
CONSTANTS
  Timers = {t1, t2}
  Intervals = {1, 3}
  MaxLate = 2
SPECIFICATION FairSpec
INVARIANTS Owned
PROPERTIES CancelIsFinal TimerFires
