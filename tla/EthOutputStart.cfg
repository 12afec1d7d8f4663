CONSTANTS
  Boot = boot
  Stack = stack
  Clients = {}
  RingSize = 3
  MaxFrames = 2
SPECIFICATION Spec
INVARIANTS
  PacketIsSent
CHECK_DEADLOCK FALSE
