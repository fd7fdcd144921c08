SPECIFICATION FilesSpec
CONSTANTS
  Appenders = {a1, a2}
  Rows = {r1, r2, r3}
  InPlace = {"style"}
  Replaced = {"video"}
  Midframes = {"midframe"}
  Order <- MCOrder
  MaxContents = 2
CONSTRAINT OneAtWork
SYMMETRY Symmetric
INVARIANTS NothingLost StagedTrue
CHECK_DEADLOCK FALSE
