SPECIFICATION CrashSpec
CONSTANTS
  max_ent = 4
  Sizes = {0, 1, 2, 4}
  Producers = {p1, p2}
  Free = Free
  MaxPos = 8
SYMMETRY Symmetry
INVARIANTS SampleIntact ReservationIntact
