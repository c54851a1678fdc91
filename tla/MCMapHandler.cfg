SPECIFICATION Spec
CONSTANTS
  k0 = k0
  k1 = k1
  k2 = k2
  k3 = k3
  MapTypes = {"queue", "stack", "hash", "lru", "lpm_trie"}
  max_entries = 3
  Keys = {k0, k1, k2, k3}
  Values = {v1, v2}
  None = None
  num_buckets = 3
  hash_func <- Colliding
  max_prefixlen = 2
  Clients = {c1}
  MaxPushes = 6
  UpdateFlags = {"BPF_ANY", "BPF_NOEXIST", "BPF_EXIST"}
INVARIANTS QueuePointerValid  StackPointerValidIfNotShifted HashLastCallVisible HashIterationReaches LpmEntriesExact LpmLookupIsLongestUnlessDeleted LruListMatchesTable
PROPERTIES QueueIsFifo  LruEvictsOldest
