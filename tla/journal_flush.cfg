SPECIFICATION Spec
CONSTANTS
  MaxEvents = 2
  Window = 2
  Page = 3
  Ring = 1
  Faults = {"disconnect", "node-restart", "store-error", "hub-restore", "hub-row"}
  MaxFaults = 3
INVARIANTS TypeOK WatermarkIsHeld NothingStranded
PROPERTIES Mirrored
CHECK_DEADLOCK FALSE
