SPECIFICATION Spec
CONSTANTS
  Chars = {x, y}
  NL = NL
  NUL = NUL
  ChunkSize = 4
  MaxInput = 6
INVARIANTS
  TypeOK
  PendingIsInput
  OneRequestPerLine
  RequestsAreLines
  LinesAreStream
PROPERTIES
  DeliversNextLine
