SPECIFICATION FairSpec
CONSTANTS
  Lines = {0, 1, 12, 14}
  Loads = 2
  TableSize = 3
  EntryFlags = {TRUE, FALSE}
  Unset = Unset
  None = None
  Halted = Halted
CHECK_DEADLOCK FALSE
INVARIANTS TypeOK DispatchedIsFinished NothingLeftInService RegistersAreKept ArgumentsArrive
PROPERTIES PanicIsFinal ProcessesTakeTurns KeysAreHandled
