SPECIFICATION Spec
CONSTANTS
  teacher = teacher
  registrar = registrar
  section = section
  first = first
  tess = tess
  adele = adele
  you = you
  NoEmail = NoEmail
  Runs = {p1, p2, p3}
  Demo <- TwoPeopleAndSection
  Bootstrap = first
  Emails = {tess, adele, you}
  Texts <- SomeTexts
  Uuids <- TwoIds
  Canonical <- Lowercase
  Uuid <- WithBraces
  Numbers <- ReadAsNumbers
  Decimal <- WrittenNumbers
  Years <- TwoYears
  Label <- Labels
  Halves <- ReadAsTerms
  Normal <- Normalised
  WellFormed <- Addresses
  Less <- AsCompared
  Iso <- TwoDays
  Naive = Naive
  Zone = Naive
CHECK_DEADLOCK FALSE
INVARIANTS RegistryInv DemoIsWhole DemoAgainIsQuiet OneAddressOnePerson OneFirstAdministrator NobodyWaitsInCircles
