\* Three bots, three maps, two games each; clients of two kinds.
CONSTANTS
  Bots <- ThreeBots
  Maps <- ThreeMaps
  NumGames = 2
  Offers <- TwoKinds
  MaxGiven = 3
SPECIFICATION Spec
INVARIANTS
  OnlyEndedRefused
CHECK_DEADLOCK FALSE
