SPECIFICATION MCSpec
CONSTANTS
  Texts <- MCTexts
  Trim <- MCTrim
  Lower <- MCLower
  Numbers <- MCNumbers
  Ids <- MCIds
  Processes = {p1, p2}
  Environments <- MCEnvironments
  People <- MCPeople
  Imports = {i1}
  MaxStarts = 2
  Jobs = {1, 2}
  Workers = {w1, w2}
  MaxAborts = 1
CHECK_DEADLOCK FALSE
INVARIANTS SessionsSurvive JobsKeepTheirBytes OneHolder
PROPERTY TakenWhilePending
