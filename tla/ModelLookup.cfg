SPECIFICATION FairSpec
CONSTANTS
  Names = {"RA 6570 iQ", "Unknown (pn)"}
  Modes = {"wall_only", "floor_only", "walls_only"}
  Gated = {"wall_only", "floor_only"}
  MaxAttempts = 5
INVARIANTS PolledSpeedsAreAdvertised
PROPERTIES KnownModelStays LookupSettles
