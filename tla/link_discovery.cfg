SPECIFICATION LiveSpec
CONSTANTS
  Nodes = {1, 2}
  Period = 2
  Ttl = 4
  Pad = 1
  MaxUpdates = 1
  MaxEvents = 2
INVARIANTS TypeOK NobodyStays DeafRepaired NotOverdue
PROPERTIES Seen Forgotten
