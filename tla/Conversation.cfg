SPECIFICATION Spec
CONSTANTS
  n_ctx = 12
  n_predict = 2
  Inputs <- MCInputs
  StopStrings <- MCStops
  System <- MCSystem
  Depth = 1
  Turns = 3
INVARIANTS MirrorMatchesRows StreamSpellsConversation
PROPERTIES ResumeKeepsHistory
CHECK_DEADLOCK FALSE
