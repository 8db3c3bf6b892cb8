CONSTANTS
  osc = osc
  ui = ui
  clock = clock
  d1 = d1
  d2 = d2
  good = good
  bad = bad
  raw = raw
  late = late
  id = id
  broken = broken
  Clients = {osc, ui}
  Ids = {d1}
  Patterns = {bad, raw}
  Values = {1}
  Wrap = 2
  Requests <- rawCalls
  EvalFails = {bad, raw}
  TickFails = {bad, raw}
  Globals = {id}
  GlobalFails = {}
  MaxHistory = 1
SPECIFICATION StreamSpec
CHECK_DEADLOCK FALSE
INVARIANT OnlyEvaluatedPlay
