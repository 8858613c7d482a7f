SPECIFICATION Spec
CONSTANTS
  ann = ann
  tess = tess
  tom = tom
  maths = maths
  music = music
  Students = {ann}
  Teachers = {tess, tom}
  Subjects = {maths, music}
  Plans = {p1, p2}
  Sections = {c1, c2}
  Terms = {t1, t2}
  Grades = {5, 6}
  Roles <- StudentAndTeachers
  Qualified <- TessTeachesMaths
  DirectPlans = FALSE
  MaxAttempts = 3
CHECK_DEADLOCK FALSE
INVARIANTS AcademicsInv OneActivePlan OneSectionPerSubject AttemptsWereTaught DegreesStayEarned
PROPERTY StandingNeverFalls
