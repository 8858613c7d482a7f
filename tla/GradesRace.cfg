SPECIFICATION FairSpec
CONSTANTS
  ada = ada
  bob = bob
  zoe = zoe
  Students = {ada, bob, zoe}
  Enrolled = {ada, bob}
  Works = {w1, w2, w3}
  Files <- CallsAndSheets
  MaxRows = 2
CHECK_DEADLOCK FALSE
INVARIANTS BookInv NothingOfTheAborted LossNeedsOverlap OneRowPerStudent OnlyBadCallsRefused
PROPERTY EveryWorkEnds
