\* Two bots, two maps, three games each; clients whose files sort in any order.
CONSTANTS
  Bots <- TwoBots
  Maps <- TwoMaps
  NumGames = 3
  Offers <- AllOffers
  MaxGiven = 7
SPECIFICATION Spec
INVARIANTS
  TypeOK
  AbortsOnlyForMissed
  NiceCounters
PROPERTIES
  NicePromise
  NiceTournamentEnds
CHECK_DEADLOCK FALSE
