SPECIFICATION FairSpec
CONSTANTS
  NUM_RX_BUFF = 4
  MaxFrames = 6
  MaxInits = 2
INVARIANTS QueuedOnce BufferOwned PktStats FifoSinceInit AllQueued IInv
PROPERTIES FrameHandled ImplementsQueue
CHECK_DEADLOCK FALSE
