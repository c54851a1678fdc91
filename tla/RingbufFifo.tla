----------------------------- MODULE RingbufFifo -----------------------------
(***************************************************************************)
(* What a ring buffer promises: a bounded queue of records, each reserved, *)
(* then submitted or discarded by its producer in any order, and taken in  *)
(* the order of the reservations.                                          *)
(***************************************************************************)
EXTENDS Integers, Sequences, FiniteSetsExt

CONSTANTS max_ent, Sizes

VARIABLE queue

Used(q) == MapThenSumSet(LAMBDA i : q[i].size + 1, DOMAIN q)

Init == queue = << >>

Reserve(size) ==
  /\ Used(queue) + size + 1 <= max_ent
  /\ queue' = Append(queue, [size |-> size, state |-> "busy"])

Submit(i, state) ==
  /\ queue[i].state = "busy"
  /\ queue' = [queue EXCEPT ![i].state = state]

Take ==
  /\ queue # << >>
  /\ Head(queue).state # "busy"
  /\ queue' = Tail(queue)

Next ==
  \/ \E size \in Sizes : Reserve(size)
  \/ \E i \in DOMAIN queue, state \in {"ready", "discarded"} : Submit(i, state)
  \/ Take

Spec == Init /\ [][Next]_queue

=============================================================================
