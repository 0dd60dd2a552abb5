SPECIFICATION FairSpec
CONSTANTS
  Producers = {worker, login, game}
  Handlers = {handler}
  Packets = {p, q}
  MaxPushes = 3
  Nobody = Nobody
INVARIANTS
  TypeOK
  PopFindsPacket
  HandledInOrder
PROPERTIES
  AllHandled
CHECK_DEADLOCK FALSE
