----------------------------- MODULE MapHandler -----------------------------
(***************************************************************************)
(* bpf_map_handler: the calls of programs and loaders on one map, passed   *)
(* on to the implementation that its type selects.  All the types here     *)
(* have should_lock, so that a call is one step under map_lock.            *)
(*                                                                         *)
(* The type is fixed when the map is created; the state of the other       *)
(* implementations stays as it is.                                         *)
(***************************************************************************)
EXTENDS Naturals, FiniteSets

CONSTANTS MapTypes,     \* a subset of {"queue", "stack", "hash", "lru", "lpm_trie"}
          max_entries,  \* of all but the hash map
          Keys, Values, None,
          num_buckets, hash_func,
          max_prefixlen,  \* of the trie, in bits
          Clients, MaxPushes, UpdateFlags

ASSUME MaxEntriesAssumption == max_entries \in Nat \ {0}
ASSUME MaxPushesAssumption == MaxPushes \in Nat
ASSUME NumBucketsAssumption == num_buckets \in Nat \ {0}
ASSUME HashAssumption == hash_func \in [Keys -> Nat]
ASSUME NoneAssumption == None \notin Keys \cup Values
ASSUME MapTypesAssumption == MapTypes \subseteq {"queue", "stack", "hash", "lru", "lpm_trie"}

VARIABLES type,
          q_data, q_head, q_tail, q_count, q_pushed, q_call, q_ret, q_ptr,
          s_data, s_pushed, s_popped, s_ret, s_ptr,
          buckets, _count, call, deleted,
          map_impl, next_entry, previous_entry, lru_link_list_head, lru_link_list_tail, ret,
          lpm_root, lpm_n_entries, lpm_entries

queue_vars == <<q_data, q_head, q_tail, q_count, q_pushed, q_call, q_ret, q_ptr>>
stack_vars == <<s_data, s_pushed, s_popped, s_ret, s_ptr>>
hash_vars == <<buckets, _count, call, deleted>>
lru_vars == <<map_impl, next_entry, previous_entry, lru_link_list_head, lru_link_list_tail, ret>>
lpm_vars == <<lpm_root, lpm_n_entries, lpm_entries>>
vars == <<type, queue_vars, stack_vars, hash_vars, lru_vars, lpm_vars>>

Queue == INSTANCE QueueMap WITH
           data <- q_data, head <- q_head, tail <- q_tail, count <- q_count,
           pushed <- q_pushed, call <- q_call, ret <- q_ret, ptr <- q_ptr
Stack == INSTANCE StackMap WITH
           data <- s_data, pushed <- s_pushed, popped <- s_popped, ret <- s_ret, ptr <- s_ptr
Hash == INSTANCE HashMap
\* A prime follows soon: next_prime(num_buckets) is found (Bertrand's postulate).
ASSUME NextPrimeAssumption == \E p \in num_buckets..(2 * num_buckets + 1) : Hash!is_prime(p)

Lru == INSTANCE LruMap WITH Flags <- UpdateFlags
Lpm == INSTANCE LpmTrie WITH root <- lpm_root, n_entries <- lpm_n_entries, entries <- lpm_entries

\* map_init
Init ==
  /\ type \in MapTypes
  /\ Queue!Init
  /\ Stack!Init
  /\ Hash!Init
  /\ Lru!Init
  /\ Lpm!Init

\* The step leaves the other implementations alone.
only(t) ==
  /\ type = t
  /\ UNCHANGED type
  /\ IF t = "queue" THEN TRUE ELSE UNCHANGED queue_vars
  /\ IF t = "stack" THEN TRUE ELSE UNCHANGED stack_vars
  /\ IF t = "hash" THEN TRUE ELSE UNCHANGED hash_vars
  /\ IF t = "lru" THEN TRUE ELSE UNCHANGED lru_vars
  /\ IF t = "lpm_trie" THEN TRUE ELSE UNCHANGED lpm_vars

\* A lookup in a hash map or a trie changes nothing.
map_lookup_elem ==
  \/ /\ only("queue")
     /\ \E c \in Clients : Queue!elem_lookup(c)
  \/ /\ only("stack")
     /\ \E c \in Clients : Stack!elem_lookup(c)
  \/ /\ only("lru")
     /\ \E k \in Keys : Lru!elem_lookup(k)

map_update_elem ==
  \/ /\ only("queue")
     /\ \E f \in UpdateFlags : Queue!elem_update(f)
  \/ /\ only("stack")
     /\ \E f \in UpdateFlags : Stack!elem_update(f)
  \/ /\ only("hash")
     /\ \E k \in Keys, v \in Values : Hash!elem_update(k, v)
  \/ /\ only("lru")
     /\ \E k \in Keys, v \in Values, f \in UpdateFlags : Lru!elem_update(k, v, f)
  \/ /\ only("lpm_trie")
     /\ \E k \in Lpm!Prefixes, v \in Values, f \in UpdateFlags : Lpm!elem_update(k, v, f)

map_delete_elem ==
  \/ only("queue") /\ Queue!elem_delete
  \/ only("stack") /\ Stack!elem_delete
  \/ /\ only("hash")
     /\ \E k \in Keys : Hash!elem_delete(k)
  \/ /\ only("lru")
     /\ \E k \in Keys : Lru!elem_delete(k)
  \/ /\ only("lpm_trie")
     /\ \E k \in Lpm!Prefixes : Lpm!elem_delete(k)

\* push, pop and peek are refused for the other types.
map_push_elem ==
  \/ /\ only("queue")
     /\ \E f \in UpdateFlags : Queue!map_push_elem(f)
  \/ /\ only("stack")
     /\ \E f \in UpdateFlags : Stack!map_push_elem(f)

map_pop_elem ==
  \/ only("queue") /\ Queue!map_pop_elem
  \/ only("stack") /\ Stack!map_pop_elem

map_peek_elem ==
  \/ only("queue") /\ Queue!map_peek_elem
  \/ only("stack") /\ Stack!map_peek_elem

bpf_map_get_next_key ==
  only("queue") /\ Queue!map_get_next_key

Next ==
  \/ map_lookup_elem
  \/ map_update_elem
  \/ map_delete_elem
  \/ map_push_elem
  \/ map_pop_elem
  \/ map_peek_elem
  \/ bpf_map_get_next_key

Spec == Init /\ [][Next]_vars

-----------------------------------------------------------------------------
(* Properties *)

\* The queue map is a bounded first-in first-out queue, results included,
\* through every wrap around of its ring (queue_map_impl).
QueueIsFifo == Queue!ImplementsQueue

\* A pointer from a queue lookup shows its element as long as it is queued,
\* although it is used after map_lock is released.
QueuePointerValid == Queue!PointerValid

\* The stack map pops newest first and overwrites oldest first (stack_map_impl).
StackNewestOnTop == Stack!NewestOnTop

\* A pointer from a stack lookup shows its element while the element is on the
\* stack, unless an overwriting push came in between.
StackPointerValidIfNotShifted == Stack!PointerValidIfNotShifted

\* A hash map shows the call just made, whatever earlier deletions did to the
\* probe sequences.
HashLastCallVisible == Hash!LastCallVisible

\* Until its first deletion the hash map is a bounded map, however keys collide.
HashIsMapUntilDelete == Hash!MapUntilDelete

\* Deleting a key from a hash map leaves the other keys where they are.
HashDeleteKeepsOthers == Hash!DeleteKeepsOthers

\* Iterating over a hash map with get_next_key reaches every element in its first num_buckets buckets,
\* until the first deletion.
HashIterationReaches == Hash!IterationReaches

\* The list of an LRU map links exactly the keys of its table, both ways.
LruListMatchesTable == Lru!ListMatchesTable

\* An LRU map gives up the least recently used key, and no other, when full.
LruEvictsOldest == Lru!ImplementsLru

\* The nodes of a trie with a value are its entries, and n_entries counts them.
LpmEntriesExact == Lpm!EntriesExact

\* A lookup in a trie finds the longest stored prefix, except of a deleted key of full length.
LpmLookupIsLongestUnlessDeleted == Lpm!LookupIsLongestUnlessDeleted

\* A lookup in a trie finds the longest stored prefix of any key.
LpmLookupIsLongest == Lpm!LookupIsLongest

=============================================================================
