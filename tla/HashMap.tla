------------------------------- MODULE HashMap -------------------------------
(***************************************************************************)
(* BPF_MAP_TYPE_HASH: bpftime_hash_map, open addressing with linear        *)
(* probing, behind fix_size_hash_map_impl.  Every call runs under the      *)
(* map's lock.                                                             *)
(*                                                                         *)
(* hash_func is a constant: which keys collide is chosen by the model.     *)
(***************************************************************************)
EXTENDS Naturals, FiniteSets

CONSTANTS Keys, Values, None,
          hash_func,     \* the hash of every key
          num_buckets    \* max_entries of the map

\* Where a loop that counts up over S stops.
first(S) == CHOOSE i \in S : \A j \in S : i <= j

is_prime(n) == n > 1 /\ \A d \in 2..(n - 1) : n % d # 0
next_prime(n) == first({p \in n..(2 * n + 1) : is_prime(p)})

VARIABLES buckets,  \* key and value of every bucket, key None for an empty one
          _count,
          call,     \* the last call, for the properties
          deleted   \* whether an element was ever deleted

vars == <<buckets, _count, call, deleted>>

\* The length of the vector.
_num_buckets == next_prime(num_buckets)
Index == 0..(_num_buckets - 1)

Empty == [key |-> None, value |-> None]
NoCall == [op |-> "none", key |-> None, value |-> None, stored |-> FALSE]

Init ==
  /\ buckets = [i \in Index |-> Empty]
  /\ _count = 0
  /\ call = NoCall
  /\ deleted = FALSE

is_empty(i) == buckets[i].key = None

\* The i-th bucket probed for a key, and the probes at which the search ends.
probed(key, i) == (hash_func[key] + i) % _num_buckets
stops(key) == {i \in Index : is_empty(probed(key, i)) \/ buckets[probed(key, i)].key = key}

\* Mutant: the first bucket is taken, whoever has it.
search_ends_at_home(key) == probed(key, 0)

\* Where the search for key ends; only defined if it ends before it is back.
search_ends(key) == probed(key, first(stops(key)))

elem_lookup(key) == IF stops(key) = {} THEN None ELSE buckets[search_ends(key)].value

insert_refused(i) == is_empty(i) /\ _count >= num_buckets

count_after_update(i) == IF is_empty(i) THEN _count + 1 ELSE _count

\* fix_size_hash_map_impl::elem_update ignores its flags, and returns 0 whether
\* or not the table took the element.
elem_update(key, value) ==
  LET refused == stops(key) = {} \/ insert_refused(search_ends(key))
  IN  /\ call' = [op |-> "update", key |-> key, value |-> value, stored |-> ~refused]
      /\ IF refused
           THEN UNCHANGED <<buckets, _count>>
           ELSE /\ buckets' = [buckets EXCEPT ![search_ends(key)] = [key |-> key, value |-> value]]
                /\ _count' = count_after_update(search_ends(key))
      /\ UNCHANGED deleted

\* Mutant: the bucket after the key's is emptied.
emptied_bucket_next(key) == (search_ends(key) + 1) % _num_buckets
emptied_bucket(key) == search_ends(key)

\* elem_delete leaves an empty bucket in the middle of a probe sequence, and
\* the wrapper returns 0 also when there was nothing to delete.
elem_delete(key) ==
  /\ call' = [NoCall EXCEPT !.op = "delete", !.key = key]
  /\ deleted' = (deleted \/ elem_lookup(key) # None)
  /\ IF elem_lookup(key) = None
       THEN UNCHANGED <<buckets, _count>>
       ELSE /\ buckets' = [buckets EXCEPT ![emptied_bucket(key)] = Empty]
            /\ _count' = _count - 1

\* Mutant: the last bucket is left out.
first_from_short(i) ==
  LET filled == {j \in i..(num_buckets - 2) : ~is_empty(j)}
  IN  IF filled = {} THEN None ELSE buckets[first(filled)].key

\* map_get_next_key looks for the next filled bucket, up to num_buckets.
first_from(i) ==
  LET filled == {j \in i..(num_buckets - 1) : ~is_empty(j)}
  IN  IF filled = {} THEN None ELSE buckets[first(filled)].key
map_get_next_key(key) ==
  IF key = None \/ elem_lookup(key) = None THEN first_from(0) ELSE first_from(search_ends(key) + 1)

Next ==
  \E k \in Keys :
    \/ \E v \in Values : elem_update(k, v)
    \/ elem_delete(k)

Spec == Init /\ [][Next]_vars

-----------------------------------------------------------------------------
(* Properties *)

\* A key has the value just stored for it and is gone when just deleted,
\* whatever the other keys did to its probe sequence before.
LastCallVisible ==
  /\ call.op = "update" /\ call.stored => elem_lookup(call.key) = call.value
  /\ call.op = "delete" => elem_lookup(call.key) = None

lookups == [k \in Keys |-> elem_lookup(k)]

Map == INSTANCE KeyValueMap WITH store <- lookups, max_entries <- num_buckets

\* Until the first deletion the table is a map: an update changes its own key
\* only, however the keys collide, and is refused only when the map is full.
MapUntilDelete == Map!Init /\ [][deleted' \/ buckets' = buckets \/ Map!Next]_lookups

\* Deleting a key leaves the other keys where they are.
DeleteKeepsOthers ==
  [][call'.op = "delete" =>
       \A k \in Keys \ {call'.key} : elem_lookup(k)' = elem_lookup(k)]_vars

\* The keys visited by following map_get_next_key from the first key.
reached[n \in Nat] ==
  IF n = 0 THEN {map_get_next_key(None)} \ {None}
  ELSE reached[n - 1] \cup ({map_get_next_key(k) : k \in reached[n - 1]} \ {None})

\* Until the first deletion, iterating with map_get_next_key reaches every element in the first
\* num_buckets buckets, and no bucket that next_prime added.  A deletion can hide a key that the
\* iteration still meets; the iteration then starts over.
IterationReaches ==
  ~deleted => \A k \in Keys : elem_lookup(k) # None /\ search_ends(k) < num_buckets => k \in reached[Cardinality(Keys)]

=============================================================================
