CONSTANTS
  osc = osc
  ui = ui
  clock = clock
  d1 = d1
  d2 = d2
  good = good
  bad = bad
  raw = raw
  late = late
  id = id
  broken = broken
  Clients = {osc, ui}
  Ids = {d1}
  Patterns = {late}
  Values = {1}
  Wrap = 2
  Requests <- lateCalls
  EvalFails = {}
  TickFails = {late}
  Globals = {id}
  GlobalFails = {}
  MaxHistory = 1
SPECIFICATION LiveSpec
CHECK_DEADLOCK FALSE
PROPERTY ContinuesAfterThrow
