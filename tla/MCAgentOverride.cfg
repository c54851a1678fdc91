SPECIFICATION Spec
CONSTANTS
  Functions <- MCFunctions
  Unmapped <- MCUnmapped
  Unhookable <- MCUnhookable
  Threads = {t1, t2}
  RetVals = {1}
  Original = Original
  SysNrs = {"read"}
  EverySyscall = "every"
  Slots <- MCSlots
  Tables <- MCTables
  MaxInjections = 1
  MaxDetaches = 0

INVARIANT OverrideHonoured
CHECK_DEADLOCK FALSE
