SPECIFICATION Spec
CONSTANTS
  Cap = 2
  MaxInbound = 0
  MaxBackoff = 4
PROPERTIES SurvivesRestarts
