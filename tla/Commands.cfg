SPECIFICATION FairSpec
CONSTANTS
  Calls = {c1, c2}
  Speeds = {floor, walls}
  MaxPresses = 3
  MaxFaults = 1
INVARIANTS AdjustmentsAddUp DrivingIsKnown HaltHolds
PROPERTIES ShownSpeedConverges
