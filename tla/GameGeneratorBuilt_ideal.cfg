\* Two bots, three maps, two games each; clients with the server's files.
CONSTANTS
  Bots <- TwoBots
  Maps <- ThreeMaps
  NumGames = 2
  Offers <- IdealOffers
  MaxGiven = 3
SPECIFICATION Spec
INVARIANTS
  NeverOverdrawn
CHECK_DEADLOCK FALSE
