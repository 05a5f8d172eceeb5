\* Two writes and every other writer of the options, across one reload or restart.
CONSTANTS
  Ops = {o1, o2}
  DialogOps = {o2}
  Slots = {0, 1}
  Names = {NoName, kari}
  ReservedValues = {0, 2}
  ReservedChoices = {2}
  MaxLoads = 2
  StringsCached = TRUE
  UnreadableAnswers = TRUE
  NoOp = NoOp
  Absent = Absent
  NoName = NoName
  NotANumber = NotANumber

SPECIFICATION Spec
VIEW Seen
INVARIANTS TypeOK StoreMatchesLock ViewIsCurrent
PROPERTIES OptionsAreOneStore MasterUntouched SavedIsNewest
