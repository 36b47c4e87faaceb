SPECIFICATION Spec
CONSTANTS
  Clients = {c1, c2}
  Sizes <- MCSizes
  ReadMax = 3
  MaxOthers = 1
  MaxDatagrams = 1
INVARIANTS
  TypeOK
  NothingLostAtClose
  GreetedOnce
PROPERTIES
  ImplementsChannel
  EveryPacketTaken
  ConnectionGreeted
CHECK_DEADLOCK FALSE
