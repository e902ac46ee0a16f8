\* Two clients, two bots on two maps, one game each; clients of either version.
CONSTANTS
  Bots <- TwoBots
  Maps <- TwoMaps
  NumGames = 1
  Offers <- SomeKinds
  MaxGiven = 2
  Clients = {c1, c2}
  MaxIds = 4
SPECIFICATION ServerSpec
INVARIANTS
  ServerTypeOK
  NeverAborted
  OwnersPlay
  GamesAccounted
PROPERTIES
  
  SoundClientsPlay
CHECK_DEADLOCK FALSE
