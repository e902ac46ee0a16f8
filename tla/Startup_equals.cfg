\* Command lines of up to four arguments.
CONSTANTS
  Base = 16
  Bits = 2
  Block = 4
  Half = 1
  Message <- Files
  ArgLists <- CommandLines
  Listing <- Directories
  Chunk = 3
  MaxChanges = 0
SPECIFICATION Spec
INVARIANTS
  EqualsUnderstood
CHECK_DEADLOCK FALSE
