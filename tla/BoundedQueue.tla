---------------------------- MODULE BoundedQueue ----------------------------
(***************************************************************************)
(* What a queue map promises: a first-in first-out queue of at most        *)
(* max_entries elements, every operation one step under the map's lock.    *)
(* ret is what the last operation returned.                                *)
(***************************************************************************)
EXTENDS Naturals, Sequences

CONSTANTS max_entries, Values

VARIABLES items, ret

bvars == <<items, ret>>

Returned(code, value) == [code |-> code, value |-> value]

Init == items = << >> /\ ret = Returned("none", 0)

Push(v) ==
  /\ Len(items) < max_entries
  /\ items' = Append(items, v)
  /\ ret' = Returned("ok", 0)

\* BPF_EXIST on a full queue drops the oldest element.
PushOver(v) ==
  /\ Len(items) = max_entries
  /\ items' = Append(Tail(items), v)
  /\ ret' = Returned("ok", 0)

Refuse(code) ==
  /\ code = "E2BIG" => Len(items) = max_entries
  /\ code = "ENOENT" => Len(items) = 0
  /\ ret' = Returned(code, 0)
  /\ UNCHANGED items

Peek ==
  /\ Len(items) # 0
  /\ ret' = Returned("ok", Head(items))
  /\ UNCHANGED items

Pop ==
  /\ Len(items) # 0
  /\ ret' = Returned("ok", Head(items))
  /\ items' = Tail(items)

Delete ==
  /\ Len(items) # 0
  /\ ret' = Returned("ok", 0)
  /\ items' = Tail(items)

Next ==
  \/ \E v \in Values : Push(v) \/ PushOver(v)
  \/ \E code \in {"E2BIG", "ENOENT", "EINVAL"} : Refuse(code)
  \/ Peek
  \/ Pop
  \/ Delete

Spec == Init /\ [][Next]_bvars

=============================================================================
