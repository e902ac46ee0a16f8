\* Four digests, sets of up to four nodes.
CONSTANTS
  Hashes = {1, 2, 3, 4}
SPECIFICATION Spec
INVARIANTS
  TypeOK
  NoHashLost
  SameFilesMeet
  CommonIsShared
CHECK_DEADLOCK FALSE
