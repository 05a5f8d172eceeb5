\* Every write ends; answers without a readable status, a slow first read of the strings.
CONSTANTS
  Ops = {o1, o2}
  DialogOps = {o2}
  Slots = {1}
  Names = {NoName, kari}
  ReservedValues = {1}
  ReservedChoices = {1}
  MaxLoads = 2
  StringsCached = FALSE
  UnreadableAnswers = TRUE
  NoOp = NoOp
  Absent = Absent
  NoName = NoName
  NotANumber = NotANumber

SPECIFICATION FairSpec
PROPERTIES EveryWriteEnds
