SPECIFICATION Spec
CONSTANTS
  Keys <- SomeKeys
  Width = 2
  Height = 5
  CellWidth = 2
  Message <- SomeMessage
  Results = {0, 27}
  Images <- SomeImages
  PanicText <- SomePanicText
  Reason <- SomeReason
  ErrorCodes = {16}
  Addresses = {27}
  MaxWaiting = 2
  MaxTyped = 2
INVARIANTS TypeOK TypedIsShown ModifiersAreHeld PrintedStays PanicIsShown
CONSTRAINT Promised
