SPECIFICATION Spec
CONSTANTS
  MaxEvents = 2
  Window = 2
  Page = 3
  Ring = 1
  Faults = {"hub-row"}
  MaxFaults = 2
INVARIANTS NodeRowsMirrored
CHECK_DEADLOCK FALSE
