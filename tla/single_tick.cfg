CONSTANTS
  none = none
  Tempos = {1, 2}
  Blocks = {10, 20, 30}
SPECIFICATION Spec
CHECK_DEADLOCK FALSE
INVARIANT TempoApplied
