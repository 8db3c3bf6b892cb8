CONSTANTS
  Frame = 4
  Ahead = 12
  Skip = 1
  Tempos = {1, 2}
  Cycles = {1}
  Nudges = {1}
  Far = 1
  Late = 1
  Horizon = 8
SPECIFICATION LiveSpec
CHECK_DEADLOCK FALSE
INVARIANTS EarlyEnough NotTooEarly
PROPERTIES ArcsForward CaughtUp CommandsTaken
