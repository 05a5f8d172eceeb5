CONSTANTS
  Ops = {o1, o2}
  DialogOps = {o1, o2}
  Slots = {1}
  Names = {NoName}
  ReservedValues = {1, 2}
  ReservedChoices = {1, 2}
  MaxLoads = 2
  StringsCached = TRUE
  UnreadableAnswers = FALSE
  NoOp = NoOp
  Absent = Absent
  NoName = NoName
  NotANumber = NotANumber

SPECIFICATION Spec
INVARIANTS StoreMatchesLockAcrossReloads
