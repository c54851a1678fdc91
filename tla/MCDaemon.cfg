SPECIFICATION Spec
CONSTANTS
  MaxFdCount = 8
  AppFds = {0, 1, 2}
  ProgIds = {1, 3}
  MapIds = {2}
  FirstFd = 3
  MapNames = {m}
  MaxEvents = 2
  MaxPerfs = 2
  MaxAttaches = 2
INVARIANTS MirrorsUprobes LinksWereMade AttachesAreMirrored 
CONSTRAINT Followed
ACTION_CONSTRAINT InTurn
CHECK_DEADLOCK FALSE
