CONSTANTS
  N = 3
  MaxMessages = 2
  MaxEnds = 2
  Sends <- MCSends
SPECIFICATION Spec
INVARIANTS OrderedWithoutGaps 
PROPERTIES Delivered
CHECK_DEADLOCK FALSE
