SPECIFICATION Spec
CONSTANTS
  Entries = 2
  Frames = {1, 2, 3, 4, 5, 6, 7, 8, 9}
  BootFrames = {100}
  UserPages <- FourPages
  Garbage <- DirtyOrClear
  Absent = Absent
  Idle = Idle
  MaxSpaces = 2
  MaxData = 2
INVARIANTS TypeOK TablesFormForest KernelHalfShared
PROPERTY RefinesAddressSpaces
CONSTRAINT Bounded
