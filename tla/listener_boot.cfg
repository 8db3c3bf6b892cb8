CONSTANTS
  Texts = {x}
  Capacity = 2
SPECIFICATION FailingSpec
CHECK_DEADLOCK FALSE
PROPERTY Responsive
