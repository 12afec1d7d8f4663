CONSTANTS
  Boot = boot
  Stack = stack
  Client = client
  Recv = recv
  Eeprom = eeprom
  Clients = {client, recv}
  RingSize = 3
  MaxFrames = 2
SPECIFICATION StartSpec
INVARIANTS
  StartTypeOK
  AcceptedIsQueued
  SpoiltOnlyAtStart
  NullOnlyAtStart
PROPERTIES
  ImplementsPipe
  FramesLeave
  SendersReturn
  StartupEnds
CHECK_DEADLOCK FALSE
