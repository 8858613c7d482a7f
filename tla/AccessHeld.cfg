SPECIFICATION Spec
CONSTANTS
  tia = tia
  mum = mum
  kid = kid
  s1 = s1
  s2 = s2
  People = {tia, mum, kid}
  Sections = {s1, s2}
  Worlds <- AllWorlds
  KeepsLoaded = TRUE
  MajorityMayRise = FALSE
  MaxAge = 2
  MaxChanges = 2
CHECK_DEADLOCK FALSE
INVARIANTS AccessInv ShownWasReadable WrittenByItsTeacher
