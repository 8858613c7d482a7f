SPECIFICATION Spec
CONSTANTS
  Jobs = {j1}
  Workers = {w1, w2}
  Uploads <- DryUpload
  Redelivery = "later"
  MaxAgain = 0
  MaxCrashes = 0
  MaxErrors = 0
CHECK_DEADLOCK FALSE
INVARIANT DryRunWritesNothing
