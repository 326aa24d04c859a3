CONSTANTS
  Size = 3
  MaxOut = 3
  MaxIn = 3
  Starts = {"loader", "clear"}
SPECIFICATION Spec
INVARIANTS TypeOK
PROPERTIES NothingSkipped RoomIsMade GetcharReturns
