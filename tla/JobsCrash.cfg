SPECIFICATION FairSpec
CONSTANTS
  Jobs = {j1, j2}
  Workers = {w1, w2}
  Uploads <- MixedUploads
  Redelivery = "later"
  MaxAgain = 1
  MaxCrashes = 1
  MaxErrors = 1
CHECK_DEADLOCK FALSE
INVARIANTS JobsInv NothingHalfSubmitted BarredNeverApplied AppliedAtMostOnce
PROPERTIES ImplementsLifecycle EveryJobEnds
