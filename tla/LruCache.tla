------------------------------ MODULE LruCache ------------------------------
(***************************************************************************)
(* What an LRU hash map promises: at most max_entries keys; to make room   *)
(* for a new key it gives up the one that was used least recently.         *)
(***************************************************************************)
EXTENDS Naturals, Sequences

CONSTANTS Keys, Values, None, max_entries

VARIABLES order,  \* the keys in the map, the most recently used first
          store   \* their values, None for a key that is absent

Held(k) == \E i \in DOMAIN order : order[i] = k
Without(k) == SelectSeq(order, LAMBDA e : e # k)

Init == order = << >> /\ store = [k \in Keys |-> None]

ToFront(k) == order' = <<k>> \o Without(k)

Use(k) == Held(k) /\ ToFront(k) /\ UNCHANGED store

Update(k, v) ==
  /\ Held(k)
  /\ ToFront(k)
  /\ store' = [store EXCEPT ![k] = v]

Insert(k, v) ==
  /\ ~Held(k)
  /\ Len(order) < max_entries
  /\ ToFront(k)
  /\ store' = [store EXCEPT ![k] = v]

InsertEvicting(k, v) ==
  /\ ~Held(k)
  /\ Len(order) = max_entries
  /\ order' = <<k>> \o SubSeq(order, 1, Len(order) - 1)
  /\ store' = [store EXCEPT ![order[Len(order)]] = None, ![k] = v]

Delete(k) ==
  /\ Held(k)
  /\ order' = Without(k)
  /\ store' = [store EXCEPT ![k] = None]

Next ==
  \E k \in Keys :
    \/ Use(k)
    \/ \E v \in Values : Update(k, v) \/ Insert(k, v) \/ InsertEvicting(k, v)
    \/ Delete(k)

Spec == Init /\ [][Next]_<<order, store>>

=============================================================================
