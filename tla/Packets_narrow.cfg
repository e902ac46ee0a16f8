\* Bytes of five values, two of them white space; up to two bots and two maps.
CONSTANTS
  Base = 5
  Blank = {2, 3}
  Word = 2
  Digest = 2
  MaxHashes = 2
  Hashes <- SomeHashes
SPECIFICATION Spec
INVARIANTS
  TypeOK
  ReadAsWritten
  BufferLeftEmpty
  CutAtPackets
CHECK_DEADLOCK FALSE
