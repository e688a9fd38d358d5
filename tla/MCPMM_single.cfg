SPECIFICATION Spec
CONSTANTS
  ByteBits = 8
  BlockBytes = 2
  AlignBytes = 1
  Hhdm = 1073741824
  Memmaps <- AllMaps
  PastEnd <- PastEnds
  MaxHeld = 4
  Requests = {1}
INVARIANTS HeldIsMarked HeldIsUsable
PROPERTY RefinesAllocator
CONSTRAINT FewHeld
