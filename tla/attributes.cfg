\* Three requests of any kind on two attributes, a frame that comes again, a reader.
SPECIFICATION Spec
CONSTANTS
  original = original
  reused = reused
  waste = waste
  Telemetry = {fade}
  BatteryStatus = batteryStatus
  Created = original
  Transitions <- MCTransitions
  Batches = {b1, b2, b3}
  MaxTicks = 2
  Frames = {1}
  Skew = 1
  MaxTime = 3
SYMMETRY BatchSymmetry
INVARIANTS
  HistoryIsOrdered
  NewestIsCurrent
  PastIsAnswered
  FrameAppliedOnce
CHECK_DEADLOCK FALSE
