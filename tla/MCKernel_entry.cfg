SPECIFICATION Spec
CONSTANTS
  Lines = {0, 1}
  Loads = 1
  TableSize = 2
  EntryFlags = {TRUE, FALSE}
  Unset = Unset
  None = None
  Halted = Halted
CHECK_DEADLOCK FALSE
INVARIANT StartsAtEntryPoint
