\* ZHA and the entry come and go in any order, with settings and reloads in between.
CONSTANTS
  Clusters = {c1, c2, c3}
  NoGateway = NoGateway
  NoLock = NoLock
  NoCluster = NoCluster
  NotANumber = NotANumber
  NoName = NoName
  Names = {NoName}
  ReservedValues = {0, 1, 3}
  ReservedChoices = {1, 3}
  MaxDue = 2

SPECIFICATION FairSpec
INVARIANTS TypeOK AvailableIsHeard NeverSilent LogTellsLoss HandledOnce RowsFollowFloor
PROPERTIES EventsComeBack
