CONSTANTS
  MaxFdCount = 4
  MapNames = {a}
  MapTypes = {"regular", "unsupported"}
  MaxDups = 1
SPECIFICATION PlaceholderSpec
INVARIANTS TypeOK LinkProgLive ImplsBacked ContainersFreed AllocatedAreOpen
PROPERTIES PerfTakesItsLinks SlotsSurvive
CHECK_DEADLOCK FALSE
