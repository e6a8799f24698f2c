SPECIFICATION Spec
CONSTANTS
  Chars = {x, y}
  NUL = NUL
  Junk = Junk
  MaxString = 3
  Strings <- AllStrings
  PieceSize = 3
  MaxReuseSize = 6
  MaxText = 8
INVARIANTS
  WritesFit
  TypeOK
  HoldsText
