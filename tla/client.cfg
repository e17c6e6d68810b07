SPECIFICATION MCSpec
CONSTANTS
  Callers <- MCCallers
  Capacity <- MCCapacity
  Transfers <- MCTransfers
  MaxPacket = 2
  MaxConcurrent = 2
  FileSize = 5
  MaxFaults = 2
INVARIANTS TypeOK RoomToSend TransfersExact 
PROPERTIES CallsReturn CallsExact
CHECK_DEADLOCK FALSE
