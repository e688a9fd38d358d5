SPECIFICATION Spec
CONSTANTS
  ByteBits = 8
  BlockBytes = 2
  AlignBytes = 1
  Hhdm = 1073741824
  Memmaps <- AllMaps
  PastEnd <- PastEnds
  MaxHeld = 2
  Requests = {1, 2, 3}
INVARIANTS TypeOK LoopInv ZeroIsRefusal
PROPERTY RefusedOnlyWhenFull
CONSTRAINT FewHeld
