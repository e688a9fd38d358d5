SPECIFICATION Spec
CONSTANTS
  PageWords = 12
  AlignWords = 6
  ObjectWords = 2
  WordMod = 256
  UsablePages = {1, 2}
  Data = {7}
INVARIANTS FreeIsListed PagesAccounted
PROPERTY RefinesPool
CONSTRAINT NotContinued
