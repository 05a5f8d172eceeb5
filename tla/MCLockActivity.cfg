\* Three wakes that overlap their windows, with a reload at any point.
CONSTANTS
  Wakes = {w1, w2, w3}
  NoWake = NoWake
  NoUser = NoUser
  Nothing = Nothing
  Frames <- MCFrames
  MaxLoads = 2

SPECIFICATION Spec
SYMMETRY WakeSymmetry
VIEW Seen
INVARIANTS TypeOK NothingOnceRemoved
PROPERTIES FiredIsTrue EchoHidden RealLockShown PeopleShown ActivitySurvives
