SPECIFICATION FairFrameSpec
CONSTANTS
  Senders = {processor, monitor}
  HeaderBytes = 2
  MaxFrameBytes = 2
  MaxMessages = 3
  MaxClock = 4
INVARIANTS
  FrameTypeOK
  ClocksIncrease
PROPERTIES
  ImplementsLink
