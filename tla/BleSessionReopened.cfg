CONSTANTS
  Connector = Connector
  Senders = {s1}
  NoTask = NoTask
  KeyExchange = KeyExchange
  DeviceModel = DeviceModel
  Kinds = {ka}
  RefLimit = 127

SPECIFICATION Spec
CHECK_DEADLOCK FALSE
PROPERTIES ClosedForGood
