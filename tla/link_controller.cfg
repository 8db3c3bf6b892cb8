SPECIFICATION Spec
CONSTANTS
  Unit = 40
  Fastest = 15
  Slowest = 30
  Apps = {a1, a2}
  Edits <- edits
  AudioEdits <- audioEdits
  Sync = TRUE
  Own = own
  Joined = joined
  NetTimelines <- netTimelines
  NetStartStops <- netStartStops
  NetXForms = {5}
  FirstTempo = 20
  Step = 10
  Horizon = 20
  MaxCommits = 2
  MaxNet = 1
  MaxEnables = 2
  MaxEvents = 4
INVARIANTS TypeOK Settled StartStopSettled Advertised
PROPERTIES ForcedBeatKept Continuous RtKeepsCommit
SYMMETRY Symmetric
