\* Command lines of up to four arguments; files of up to nine bytes, changed once.
CONSTANTS
  Base = 16
  Bits = 2
  Block = 4
  Half = 1
  Message <- Files
  ArgLists <- CommandLines
  Listing <- Directories
  Chunk = 3
  MaxChanges = 1
SPECIFICATION Spec
INVARIANTS
  TypeOK
  PlainUnderstood
  DigestsOfContent
  AllFilesHashed
PROPERTIES
  HashingEnds
CHECK_DEADLOCK FALSE
