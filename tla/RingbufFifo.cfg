SPECIFICATION FairSpec
CONSTANTS
  max_ent = 4
  Sizes = {1, 3}
  Producers = {p1, p2}
  Free = Free
  MaxPos = 8
PROPERTIES ImplementsFifo 
