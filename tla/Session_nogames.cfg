\* Two clients of either version, two games, one failed accept.
CONSTANTS
  Clients = {c1, c2}
  Games = {"g1", "g2"}
  MaxIds = 4
SPECIFICATION Spec
INVARIANTS
  SurvivesLackOfGames
CHECK_DEADLOCK FALSE
