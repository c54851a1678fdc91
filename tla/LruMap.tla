------------------------------- MODULE LruMap -------------------------------
(***************************************************************************)
(* BPF_MAP_TYPE_LRU_HASH: a hash table whose values point into a doubly    *)
(* linked list, the most recently used entry first (lru_var_hash_map.cpp). *)
(* Every call runs under the map's lock.                                   *)
(*                                                                         *)
(* A key has at most one list entry, so the entry is named by its key; its *)
(* links are None once it is destroyed.                                    *)
(***************************************************************************)
EXTENDS Naturals, Sequences, FiniteSets

CONSTANTS Keys, Values, None,
          max_entries,
          Flags         \* the flags that updates are called with

VARIABLES map_impl,            \* value of every key, None for a key not in the table
          next_entry, previous_entry,
          lru_link_list_head, lru_link_list_tail,
          ret

vars == <<map_impl, next_entry, previous_entry, lru_link_list_head, lru_link_list_tail, ret>>
list == <<next_entry, previous_entry, lru_link_list_head, lru_link_list_tail>>

NoLinks == [k \in Keys |-> None]

Init ==
  /\ map_impl = NoLinks
  /\ next_entry = NoLinks
  /\ previous_entry = NoLinks
  /\ lru_link_list_head = None
  /\ lru_link_list_tail = None
  /\ ret = "none"

present == {k \in Keys : map_impl[k] # None}

\* The list as a value, for the calls that change it twice.
the_list == [next |-> next_entry, prev |-> previous_entry, head |-> lru_link_list_head, tail |-> lru_link_list_tail]
becomes(l) ==
  /\ next_entry' = l.next
  /\ previous_entry' = l.prev
  /\ lru_link_list_head' = l.head
  /\ lru_link_list_tail' = l.tail

\* f with x |-> v, where x may be None.
with(f, x, v) == IF x = None THEN f ELSE [f EXCEPT ![x] = v]

\* Mutant: the tail is not moved when the tail entry leaves it.
move_to_head_keeps_tail(l, e) ==
  IF e = l.head THEN l
  ELSE [next |-> [l.next EXCEPT ![l.prev[e]] = l.next[e], ![e] = l.head],
        prev |-> [with(l.prev, l.next[e], l.prev[e]) EXCEPT ![e] = None, ![l.head] = e],
        head |-> e,
        tail |-> l.tail]

move_to_head(l, e) ==
  IF e = l.head THEN l
  ELSE [next |-> [l.next EXCEPT ![l.prev[e]] = l.next[e], ![e] = l.head],
        prev |-> [with(l.prev, l.next[e], l.prev[e]) EXCEPT ![e] = None, ![l.head] = e],
        head |-> e,
        tail |-> IF l.next[e] = None THEN l.prev[e] ELSE l.tail]

insert_new_entry(l, e) ==
  [next |-> [l.next EXCEPT ![e] = l.head],
   prev |-> with(l.prev, l.head, e),
   head |-> e,
   tail |-> IF l.head = None THEN e ELSE l.tail]

\* Mutant: the entry after an evicted head or middle entry keeps its link back.
evict_entry_keeps_back_link(l, e) ==
  [next |-> [with(l.next, l.prev[e], l.next[e]) EXCEPT ![e] = None],
   prev |-> [l.prev EXCEPT ![e] = None],
   head |-> IF e = l.head THEN l.next[e] ELSE l.head,
   tail |-> IF e = l.tail THEN l.prev[e] ELSE l.tail]

\* The entry is unlinked and, with its last reference gone, destroyed.
evict_entry(l, e) ==
  [next |-> [with(l.next, l.prev[e], l.next[e]) EXCEPT ![e] = None],
   prev |-> [with(l.prev, l.next[e], l.prev[e]) EXCEPT ![e] = None],
   head |-> IF e = l.head THEN l.next[e] ELSE l.head,
   tail |-> IF e = l.tail THEN l.prev[e] ELSE l.tail]

refuse(code) == ret' = code /\ UNCHANGED <<map_impl, list>>

\* A lookup counts as a use.
elem_lookup(key) ==
  \/ key \notin present /\ refuse("ENOENT")
  \/ /\ key \in present
     /\ becomes(move_to_head(the_list, key))
     /\ ret' = "ok"
     /\ UNCHANGED map_impl

insert(key, value) ==
  LET full == Cardinality(present) = max_entries
      old == lru_link_list_tail
      room == IF full THEN evict_entry(the_list, old) ELSE the_list
  IN  /\ becomes(insert_new_entry(room, key))
      /\ map_impl' = [with(map_impl, IF full THEN old ELSE None, None) EXCEPT ![key] = value]

elem_update(key, value, flags) ==
  \/ flags \notin {"BPF_ANY", "BPF_EXIST", "BPF_NOEXIST"} /\ refuse("EINVAL")
  \/ flags = "BPF_NOEXIST" /\ key \in present /\ refuse("EEXIST")
  \/ flags = "BPF_EXIST" /\ key \notin present /\ refuse("ENOENT")
  \/ /\ flags \in {"BPF_ANY", "BPF_EXIST"}
     /\ key \in present
     /\ becomes(move_to_head(the_list, key))
     /\ map_impl' = [map_impl EXCEPT ![key] = value]
     /\ ret' = "ok"
  \/ /\ flags \in {"BPF_ANY", "BPF_NOEXIST"}
     /\ key \notin present
     /\ insert(key, value)
     /\ ret' = "ok"

elem_delete(key) ==
  \/ key \notin present /\ refuse("ENOENT")
  \/ /\ key \in present
     /\ becomes(evict_entry(the_list, key))
     /\ map_impl' = [map_impl EXCEPT ![key] = None]
     /\ ret' = "ok"

Next ==
  \E k \in Keys :
    \/ elem_lookup(k)
    \/ \E v \in Values, f \in Flags : elem_update(k, v, f)
    \/ elem_delete(k)

Spec == Init /\ [][Next]_vars

-----------------------------------------------------------------------------
(* Properties *)

\* The first n entries of the list, from the head.
walk[n \in Nat] ==
  IF n = 0 THEN (IF lru_link_list_head = None THEN << >> ELSE <<lru_link_list_head>>)
  ELSE LET w == walk[n - 1]
       IN  IF w = << >> \/ next_entry[w[Len(w)]] = None THEN w ELSE Append(w, next_entry[w[Len(w)]])

keys_by_use == walk[Cardinality(Keys)]

\* The list links exactly the keys of the table, backwards as forwards, from
\* lru_link_list_head to lru_link_list_tail: evict_entry and move_to_head can
\* follow their pointers without meeting a null or a destroyed entry.
ListMatchesTable ==
  /\ Cardinality(present) <= max_entries
  /\ \A k \in Keys : k \in present <=> \E i \in DOMAIN keys_by_use : keys_by_use[i] = k
  /\ Len(keys_by_use) = Cardinality(present)
  /\ present # {} => /\ previous_entry[lru_link_list_head] = None
                     /\ next_entry[lru_link_list_tail] = None
                     /\ keys_by_use[Len(keys_by_use)] = lru_link_list_tail
  /\ \A k \in present : next_entry[k] # None => previous_entry[next_entry[k]] = k
  /\ present = {} => lru_link_list_head = None /\ lru_link_list_tail = None

Cache == INSTANCE LruCache WITH order <- keys_by_use, store <- map_impl

\* The map gives up the least recently used key, and no other, when it is full;
\* lookups and updates of a present key count as uses, refused calls do not.
ImplementsLru == Cache!Spec

=============================================================================
