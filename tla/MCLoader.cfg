SPECIFICATION Spec
CONSTANTS
  BlockBytes = 3
  StateBytes = 2
  StackBlocks = 1
  TopPage = 9
  TotalBlocks = 14
  Files <- FileNames
  Image <- SomeImages
  Loads = 2
INVARIANTS ImageInPlace FrameAtRsp NothingShared
CHECK_DEADLOCK FALSE
