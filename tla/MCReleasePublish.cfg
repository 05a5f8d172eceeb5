SPECIFICATION FairSpec
CONSTANTS
  cOld = cOld
  cA = cA
  cB = cB
  cC = cC
  zOld = zOld
  zA = zA
  zB = zB
  zC = zC
  Commits = {cOld, cA, cB, cC}
  Version <- MCVersion
  Build <- MCBuild
  Noted = {cA, cB, cC}
  Trial = 0
  FirstZip = 2
  OldCommit = cOld
  OldAsset = HandPacked
  HandPacked = HandPacked
  Truncated = Truncated
  ByHand = ByHand
  None = None
  Persist = {cA}
  Ids = {1, 2, 3}
  FirstId = 1
  MaxHands = 1
INVARIANTS PublishedBound NoFalseAlarm
PROPERTIES ShipsWhole ResumedToTheEnd
