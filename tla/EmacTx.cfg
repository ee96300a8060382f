SPECIFICATION FairSpec
CONSTANTS
  TMOD = 5
  TMO = 2
  MaxLag = 1
  MaxFrames = 3
  MaxInits = 2
INVARIANTS
  InterruptState
  BufferStable
  LenMeansDone
  TimeoutIsLate
  IInv
PROPERTY
  SendEnds
