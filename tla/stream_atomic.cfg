CONSTANTS
  osc = osc
  ui = ui
  clock = clock
  d1 = d1
  d2 = d2
  good = good
  bad = bad
  raw = raw
  late = late
  id = id
  broken = broken
  Clients = {osc, ui}
  Ids = {d1, d2}
  Patterns = {good}
  Values = {1, 2}
  Wrap = 2
  Requests <- soundCalls
  EvalFails = {}
  TickFails = {}
  Globals = {id}
  GlobalFails = {}
  MaxHistory = 2
SPECIFICATION LiveSpec
INVARIANTS TypeOK StateOwned UndoRestores RollbacksEndInSilence
PROPERTIES OperationsAtomic TicksGoOn CallsReturn
