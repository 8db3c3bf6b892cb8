SPECIFICATION LiveSpec
CONSTANTS
  Nodes = {1, 2}
  Ids = {1, 2, 3}
  FirstId <- firstId
  Age <- age
  Eps = 5
  MaxCommits = 1
  MaxRare = 3
INVARIANTS TypeOK NothingMissed EveryPeerCounts
PROPERTIES Converges
CHECK_DEADLOCK FALSE
