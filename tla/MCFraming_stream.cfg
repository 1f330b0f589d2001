SPECIFICATION FairSpec
CONSTANTS
  Byte = {0, 1, 2}
  Base = 3
  Shape = {1, 2}
  Packet <- Packets
  OutCap = 1
  MaxPackets = 2
INVARIANTS IInv ReceivedWhatWasSent CompleteIsFound
PROPERTIES AcceptedIsReceived ImplementsPipe
CHECK_DEADLOCK FALSE
