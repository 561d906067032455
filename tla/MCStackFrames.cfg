SPECIFICATION FrameSpec
CONSTANTS
  MaxSize = 9
  MaxGrow = 3
INVARIANT WithinMaxSize
