SPECIFICATION FairSpec
CONSTANTS
  Runs = {p1, p2}
  Enrollers = {p1}
  Keys = {k1}
  Factory = Factory
  NoRun = NoRun
  Addresses = {a1, a2}
  FirstAddress = a1
  Absent = Absent
  FailedLoginLimit = 2
  ForceLogin = FALSE
  MaxMoves = 1
INVARIANTS KeyKept FileIsTrue
PROPERTIES IdSetOnce EnrollmentFinishes
