------------------------------ MODULE LpmTrie ------------------------------
(***************************************************************************)
(* lpm_trie_map_impl: a path-compressed binary trie.  A node stands for a  *)
(* prefix, a sequence of bits; its value is None while it is intermediate. *)
(* The calls run under mapSpin and are one step each.  That an allocation  *)
(* fails is left out.                                                      *)
(***************************************************************************)
EXTENDS Naturals, Sequences, FiniteSets

CONSTANTS max_prefixlen, max_entries, Values, None

VARIABLES root,       \* None, or [prefix, value, child]
          n_entries,
          entries     \* history: prefix |-> value, by the calls that succeeded

Prefixes == UNION {[1..n -> {0, 1}] : n \in 0..max_prefixlen}

Init == root = None /\ n_entries = 0 /\ entries = << >>

\* The number of leading bits a node's prefix and a key share.
longest_prefix_match(p, key) ==
  CHOOSE n \in 0..Len(p) :
    /\ n <= Len(key) /\ \A i \in 1..n : p[i] = key[i]
    /\ n < Len(p) /\ n < Len(key) => p[n + 1] # key[n + 1]

create_node(p, value) == [prefix |-> p, value |-> value, child |-> [b \in {0, 1} |-> None]]

next_child(n, key) == n.child[key[Len(n.prefix) + 1]]

\* What elem_lookup has found once it has passed node n.
better(n, found) == IF n.value # None THEN n ELSE found

\* elem_update and elem_delete go on below node n, and so does elem_lookup.
descends(n, key) ==
  longest_prefix_match(n.prefix, key) = Len(n.prefix) /\ Len(n.prefix) # Len(key) /\ Len(n.prefix) # max_prefixlen

\* The loop of elem_lookup, elem_update and elem_delete after i rounds: the node it has come to, the
\* best match passed and the number of nodes passed.
walk(key) ==
  LET at[i \in Nat] ==
        IF i = 0 THEN [node |-> root, found |-> None, depth |-> 0]
        ELSE LET w == at[i - 1]
             IN  IF w.node # None /\ descends(w.node, key)
                 THEN [node |-> next_child(w.node, key), found |-> better(w.node, w.found), depth |-> i]
                 ELSE w
  IN  at

\* Where the loop ends: a child has a longer prefix, so that max_prefixlen + 1 rounds are enough.
walk_end(key) == walk(key)[max_prefixlen + 1]

\* None is -ENOENT, also when the node found has no value.
elem_lookup(key) ==
  LET w == walk_end(key)
      matchlen == longest_prefix_match(w.node.prefix, key)
      found == CASE w.node = None -> w.found
                 [] w.node # None /\ matchlen = max_prefixlen -> w.node
                 [] w.node # None /\ matchlen # max_prefixlen ->
                      IF matchlen < Len(w.node.prefix) THEN w.found ELSE better(w.node, w.found)
  IN  IF found = None THEN None ELSE found.value

\* The node in the slot where elem_update and elem_delete stop, or None.
node_at_slot(key) == walk_end(key).node

\* The value found in the node for exactly this key, and whether there is such a node.
exact(key) == LET n == node_at_slot(key) IN n # None /\ n.prefix = key
exists_real(key) == exact(key) /\ node_at_slot(key).value # None

\* Mutant: the old node is hung under the bit of the new key.
split_swapped(n, key, value) ==
  LET matchlen == longest_prefix_match(n.prefix, key)
  IN  [create_node(SubSeq(key, 1, matchlen), None) EXCEPT
         !.child = [b \in {0, 1} |-> IF b = key[matchlen + 1] THEN n ELSE create_node(key, value)]]

\* Node n and a new one for the key, under an intermediate node for what they share.
split(n, key, value) ==
  LET matchlen == longest_prefix_match(n.prefix, key)
  IN  [create_node(SubSeq(key, 1, matchlen), None) EXCEPT
         !.child = [b \in {0, 1} |-> IF b = key[matchlen + 1] THEN create_node(key, value) ELSE n]]

\* A new node for the key, with node n below it.
ancestor(n, key, value) == [create_node(key, value) EXCEPT !.child[n.prefix[Len(key) + 1]] = n]

\* What the slot with node n holds once the value is stored under the key.
slot_after(n, key, value) ==
  CASE n = None -> create_node(key, value)
    [] n # None /\ n.prefix = key -> [n EXCEPT !.value = value]
    [] n # None /\ n.prefix # key ->
         IF Len(n.prefix) # Len(key) /\ longest_prefix_match(n.prefix, key) = Len(key)
         THEN ancestor(n, key, value) ELSE split(n, key, value)

\* The trie with the value stored under the key: the slot changes, and with it what is above it.
stored(key, value) ==
  LET w == walk_end(key)
      above[i \in Nat] ==
        IF i = 0 THEN slot_after(w.node, key, value)
        ELSE LET n == walk(key)[w.depth - i].node
             IN  [n EXCEPT !.child[key[Len(n.prefix) + 1]] = above[i - 1]]
  IN  above[w.depth]

\* elem_update is refused with -EEXIST, -ENOENT or -ENOSPC.  Any node for the key counts for
\* BPF_NOEXIST, only one with a value for BPF_EXIST.
refused(key, flags) ==
  \/ flags = "BPF_NOEXIST" /\ exact(key)
  \/ flags = "BPF_EXIST" /\ ~exists_real(key)
  \/ ~exists_real(key) /\ n_entries >= max_entries

elem_update(key, value, flags) ==
  /\ ~refused(key, flags)
  /\ root' = stored(key, value)
  /\ n_entries' = IF exists_real(key) THEN n_entries ELSE n_entries + 1
  /\ entries' = [p \in DOMAIN entries \cup {key} |-> IF p = key THEN value ELSE entries[p]]

\* Mutant: n_entries is not given back.
elem_delete_uncounted(key) ==
  /\ exists_real(key)
  /\ root' = stored(key, None)
  /\ entries' = [p \in DOMAIN entries \ {key} |-> entries[p]]
  /\ UNCHANGED n_entries

\* The node stays, as an intermediate one.
elem_delete(key) ==
  /\ exists_real(key)
  /\ root' = stored(key, None)
  /\ n_entries' = n_entries - 1
  /\ entries' = [p \in DOMAIN entries \ {key} |-> entries[p]]

-----------------------------------------------------------------------------

\* The nodes of the trie, by their depth.
nodes ==
  LET level[i \in Nat] ==
        IF i = 0 THEN {root} \ {None} ELSE {n.child[b] : n \in level[i - 1], b \in {0, 1}} \ {None}
  IN  UNION {level[i] : i \in 0..max_prefixlen}

\* The reference the tests compare with: the longest stored prefix of the key.
longest(key) ==
  LET matching == {p \in DOMAIN entries : Len(p) <= Len(key) /\ \A i \in 1..Len(p) : p[i] = key[i]}
  IN  IF matching = {} THEN None
      ELSE entries[CHOOSE p \in matching : \A q \in matching : Len(q) <= Len(p)]

\* "run the same large number of random lookups in both and make sure they match"
\* (test_lpm_trie_map.cpp): elem_lookup returns what the trivial longest prefix match returns.
LookupIsLongest == \A k \in Prefixes : elem_lookup(k) = longest(k)

\* LookupIsLongest for every key but one of full length that was deleted, whose node is left in the
\* trie and ends the walk: splits, ancestors and logical deletions keep every other entry in reach.
LookupIsLongestUnlessDeleted ==
  \A k \in Prefixes : Len(k) < max_prefixlen \/ ~exact(k) \/ exists_real(k) => elem_lookup(k) = longest(k)

\* The nodes with a value are the entries, one node each, and n_entries counts them, so that exactly
\* max_entries prefixes fit however often prefixes are deleted and stored again.
EntriesExact ==
  LET real == {n \in nodes : n.value # None}
  IN  /\ {<<n.prefix, n.value>> : n \in real} = {<<p, entries[p]>> : p \in DOMAIN entries}
      /\ Cardinality(real) = n_entries /\ n_entries <= max_entries

=============================================================================
