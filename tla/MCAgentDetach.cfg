SPECIFICATION Spec
CONSTANTS
  Functions <- MCFunctions
  Unmapped <- MCUnmapped
  Unhookable <- MCUnhookable
  Threads = {t1}
  RetVals = {1}
  Original = Original
  SysNrs = {"read"}
  EverySyscall = "every"
  Slots <- MCSlots
  Tables <- MCTables
  MaxInjections = 2
  MaxDetaches = 2

INVARIANT AttachedIsDetachable
CHECK_DEADLOCK FALSE
