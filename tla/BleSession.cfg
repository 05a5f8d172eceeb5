\* Three commands after the key exchange, under either kind of ref; refs wrap after two.
CONSTANTS
  Connector = Connector
  Senders = {s1, s2, s3}
  NoTask = NoTask
  KeyExchange = KeyExchange
  DeviceModel = DeviceModel
  Kinds = {ka, kb}
  RefLimit = 2

SPECIFICATION FairSpec
CHECK_DEADLOCK FALSE
INVARIANTS TypeOK AnswersAreOwn NobodyWaitsOnClosed
PROPERTIES EveryExchangeEnds
