CONSTANTS
  Texts = {x, y}
  Capacity = 2
SPECIFICATION LiveSpec
INVARIANT InStep
PROPERTIES AnsweredInTurn Responsive
