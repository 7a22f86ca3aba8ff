SPECIFICATION Spec
CONSTANTS
  Classes = 2
  BlockSize <- MCBlockSize
  Prealloc <- MCPrealloc
  HeadLen = 2
  Bufs = {b1, b2}
  Strs = {s1, s2}
  Lengths = {1, 2}
  MaxLength = 5
  MaxElms = 2
  MaxInUse = 3
INVARIANTS BlocksApart HeldSound
CHECK_DEADLOCK FALSE
