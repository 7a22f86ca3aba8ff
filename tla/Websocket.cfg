SPECIFICATION Spec
CONSTANTS
  Frames <- MCFrames
  MaxFrames = 2
  Cuts <- MCCuts
  Replies <- MCReplies
  MaxQueued = 6
  PAYLOAD_SINGLE = 3
  USHRT_MAX = 8
  MaxFrame = 6
  PAYLOAD_MAX = 4
  SockBuf = 2
INVARIANTS FramesIntact WireInOrder NothingStranded LateOnlyBehindClose
CHECK_DEADLOCK FALSE
