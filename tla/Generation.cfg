SPECIFICATION Spec
CONSTANTS
  Token <- MCToken
  PenaltyWindow = 2
  Predict <- MCPredict
  Targets = {1, 2, 3, 5}
  Prompts <- MCPrompts
  Limits <- MCLimits
  Stops <- MCStops
  Eog = {0}
  BytesOf <- MCBytes
  n_ctx_slot = 5
  draft_n = 2
  Jobs = 2
INVARIANTS RecordMatchesRows
PROPERTIES ReplyIsSequential
CHECK_DEADLOCK FALSE
