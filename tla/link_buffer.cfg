SPECIFICATION LiveSpec
CONSTANTS
  Value = {x, y}
  Torn = torn
INVARIANT Distinct
PROPERTIES ImplementsRegister WritesTaken
