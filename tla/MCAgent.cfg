SPECIFICATION FairSpec
CONSTANTS
  Functions <- MCFunctions
  Unmapped <- MCUnmapped
  Unhookable <- MCUnhookable
  Threads = {t1}
  RetVals = {1}
  Original = Original
  SysNrs = {"read"}
  EverySyscall = "every"
  Slots <- MCSlots
  Tables <- MCTables
  MaxInjections = 2
  MaxDetaches = 2
INVARIANTS OneOverride OverrideHonouredAlone  LinksAreAttaches ScanComplete AttachedProgramsLoaded DetachIsComplete

PROPERTY SignalDetaches
CHECK_DEADLOCK FALSE
