SPECIFICATION Spec
CONSTANTS
  Minutes <- MCMinutes
  Learned = 3
  Orders <- MCOrders
  MaxStepper = 2
  MaxClock = 4
INVARIANTS ActivityIsRead SpeedsTakeEffect SpeedIsRead RemainingIsRight
