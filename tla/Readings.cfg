SPECIFICATION FairSpec
CONSTANTS
  Reported = {"connected", "disconnected"}
  Duration = 4
  Window = 4
  MaxFaults = 1
INVARIANTS AgreedStatusIsStable VacuumKeepsActivity
PROPERTIES SensorIsDebounced StatusConverges
