SPECIFICATION FairSpec
CONSTANTS
  Attempts = {a1, a2, a3}
  Keys = {k1, k2}
  Prints = {f1}
  None = None
  MaxRetries = 1
INVARIANTS AppliedOnce AnswersAgree NotifiedOnce
PROPERTIES ImplementsSerialized RequestsEnd
CHECK_DEADLOCK FALSE
