CONSTANTS
  osc = osc
  ui = ui
  clock = clock
  d1 = d1
  d2 = d2
  good = good
  bad = bad
  raw = raw
  late = late
  id = id
  broken = broken
  Clients = {osc, ui}
  Ids = {d1}
  Patterns = {raw, bad, late}
  Values = {1}
  Wrap = 2
  Requests <- throwCalls
  EvalFails = {bad, raw}
  TickFails = {bad, raw, late}
  Globals = {id, broken}
  GlobalFails = {broken}
  MaxHistory = 2
SPECIFICATION LiveSpec
CHECK_DEADLOCK FALSE
INVARIANTS PlayOwned ReplacementsEvaluated
PROPERTIES PlayCallsReturn FlagsStay OnlyTransitionsLose
