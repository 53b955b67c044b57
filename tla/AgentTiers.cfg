CONSTANTS
  Tools = {"bash"}
  Paths = {"secrets"}
  Dirs = {"d"}
  Switches = {"research"}
  SafetySwitches = {"safeMode"}
  MaxChoices = 2
SPECIFICATION AgentSpec
PROPERTY EditsSettle
CHECK_DEADLOCK FALSE
