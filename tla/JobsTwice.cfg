SPECIFICATION Spec
CONSTANTS
  Jobs = {j1}
  Workers = {w1, w2}
  Uploads <- OneUpload
  Redelivery = "any"
  MaxAgain = 1
  MaxCrashes = 0
  MaxErrors = 0
CHECK_DEADLOCK FALSE
INVARIANT AppliedAtMostOnce
