SPECIFICATION FairSpec
CONSTANTS
  Kinds = {action, command}
  Edits = {e1}
  MaxRounds = 2
  MaxItems = 1
  MaxHooks = 1
  MaxRestarts = 0
  MaxEvents = 2
  MaxEffects = 1
INVARIANTS
  RuntimeTypeOK
  EditTruth
PROPERTIES
  StaleIgnored
  
CHECK_DEADLOCK FALSE
