----------------------------- MODULE KeyValueMap -----------------------------
(***************************************************************************)
(* What a hash map promises: at most max_entries keys, each with the value *)
(* last stored for it.                                                     *)
(***************************************************************************)
EXTENDS Naturals, FiniteSets

CONSTANTS Keys, Values, None, max_entries

VARIABLE store  \* the value of every key, None for a key that is absent

Present == {k \in Keys : store[k] # None}

Init == store = [k \in Keys |-> None]

Update(k, v) ==
  /\ k \in Present \/ Cardinality(Present) < max_entries
  /\ store' = [store EXCEPT ![k] = v]

Delete(k) == store' = [store EXCEPT ![k] = None]

Next == \E k \in Keys : Delete(k) \/ \E v \in Values : Update(k, v)

Spec == Init /\ [][Next]_store

=============================================================================
