------------------------------ MODULE QueueMap ------------------------------
(***************************************************************************)
(* BPF_MAP_TYPE_QUEUE: a ring of max_entries slots (queue.cpp).  Every     *)
(* operation runs under the map's lock, but elem_lookup hands out a        *)
(* pointer to a slot that is used after the lock is released.              *)
(*                                                                         *)
(* The values pushed are 1, 2, 3...: each element is its own identity.     *)
(***************************************************************************)
EXTENDS Naturals, Sequences

CONSTANTS max_entries,
          Clients,    \* threads that may hold a pointer from elem_lookup
          MaxPushes   \* bound on the values pushed

Slot == 0..(max_entries - 1)
Flags == {"BPF_ANY", "BPF_NOEXIST", "BPF_EXIST", "other"}

VARIABLES data,    \* the value in each slot, 0 before the first
          head, tail, count,
          pushed,  \* values pushed so far
          call,    \* the last operation and its flags
          ret,     \* what it returned
          ptr      \* the slot a client's last lookup returned, and what was in it

vars == <<data, head, tail, count, pushed, call, ret, ptr>>

Returned(code, value) == [code |-> code, value |-> value]
NoPointer == [slot |-> 0, elem |-> 0]

Init ==
  /\ data = [s \in Slot |-> 0]
  /\ head = 0 /\ tail = 0 /\ count = 0
  /\ pushed = 0
  /\ call = <<"none", "BPF_ANY">>
  /\ ret = Returned("none", 0)
  /\ ptr = [c \in Clients |-> NoPointer]

is_full == count >= max_entries

is_empty == count = 0

next_index(index) == (index + 1) % max_entries

return(code, value) ==
  /\ ret' = Returned(code, value)
  /\ UNCHANGED <<pushed, ptr>>

refuse(code) == return(code, 0) /\ UNCHANGED <<data, head, tail, count>>

\* Mutant: the oldest element is overwritten where it lies.
push_keeps_head(flags) ==
  \/ /\ is_full
     /\ flags # "BPF_EXIST"
     /\ refuse("E2BIG")
  \/ /\ is_full => flags = "BPF_EXIST"
     /\ pushed < MaxPushes
     /\ pushed' = pushed + 1
     /\ UNCHANGED head
     /\ count' = IF is_full THEN count ELSE count + 1
     /\ data' = [data EXCEPT ![tail] = pushed + 1]
     /\ tail' = next_index(tail)
     /\ ret' = Returned("ok", 0)
     /\ UNCHANGED ptr

\* The common end of elem_update and map_push_elem.
push(flags) ==
  \/ /\ is_full
     /\ flags # "BPF_EXIST"
     /\ refuse("E2BIG")
  \/ /\ is_full => flags = "BPF_EXIST"
     /\ pushed < MaxPushes
     /\ pushed' = pushed + 1
     /\ head' = IF is_full THEN next_index(head) ELSE head
     /\ count' = IF is_full THEN count ELSE count + 1
     /\ data' = [data EXCEPT ![tail] = pushed + 1]
     /\ tail' = next_index(tail)
     /\ ret' = Returned("ok", 0)
     /\ UNCHANGED ptr

\* elem_update takes every flag for BPF_ANY except BPF_EXIST.
elem_update(flags) == push(flags) /\ call' = <<"update", flags>>

map_push_elem(flags) ==
  /\ call' = <<"push", flags>>
  /\ \/ flags \notin {"BPF_ANY", "BPF_EXIST"} /\ refuse("EINVAL")
     \/ flags \in {"BPF_ANY", "BPF_EXIST"} /\ push(flags)

drop_head ==
  /\ head' = next_index(head)
  /\ count' = count - 1
  /\ UNCHANGED <<data, tail>>

elem_delete ==
  /\ call' = <<"delete", "BPF_ANY">>
  /\ \/ is_empty /\ refuse("ENOENT")
     \/ ~is_empty /\ drop_head /\ return("ok", 0)

map_pop_elem ==
  /\ call' = <<"pop", "BPF_ANY">>
  /\ \/ is_empty /\ refuse("ENOENT")
     \/ ~is_empty /\ drop_head /\ return("ok", data[head])

map_peek_elem ==
  /\ call' = <<"peek", "BPF_ANY">>
  /\ \/ is_empty /\ refuse("ENOENT")
     \/ ~is_empty /\ return("ok", data[head]) /\ UNCHANGED <<data, head, tail, count>>

\* Mutant: the pointer is to the slot the next push takes.
elem_lookup_tail(c) ==
  /\ call' = <<"lookup", "BPF_ANY">>
  /\ \/ is_empty /\ refuse("ENOENT")
     \/ /\ ~is_empty
        /\ ptr' = [ptr EXCEPT ![c] = [slot |-> tail, elem |-> data[head]]]
        /\ ret' = Returned("ok", data[head])
        /\ UNCHANGED <<data, head, tail, count, pushed>>

\* The pointer outlives the lock.
elem_lookup(c) ==
  /\ call' = <<"lookup", "BPF_ANY">>
  /\ \/ is_empty /\ refuse("ENOENT")
     \/ /\ ~is_empty
        /\ ptr' = [ptr EXCEPT ![c] = [slot |-> head, elem |-> data[head]]]
        /\ ret' = Returned("ok", data[head])
        /\ UNCHANGED <<data, head, tail, count, pushed>>

map_get_next_key == refuse("EINVAL") /\ call' = <<"next_key", "BPF_ANY">>

Next ==
  \/ \E flags \in Flags : elem_update(flags) \/ map_push_elem(flags)
  \/ elem_delete
  \/ map_pop_elem
  \/ map_peek_elem
  \/ \E c \in Clients : elem_lookup(c)
  \/ map_get_next_key

Spec == Init /\ [][Next]_vars

-----------------------------------------------------------------------------
(* Properties *)

\* The elements from the oldest to the newest.
contents == [i \in 1..count |-> data[(head + i - 1) % max_entries]]

\* A pointer from elem_lookup shows the element it was taken for as long as
\* that element is in the queue: pushes, also overwriting ones, move nothing.
PointerValid ==
  \A c \in Clients :
    (\E i \in 1..count : contents[i] = ptr[c].elem) => data[ptr[c].slot] = ptr[c].elem

Abstract == INSTANCE BoundedQueue WITH items <- contents, Values <- 1..MaxPushes

\* The ring implements the bounded queue, results included.
ImplementsQueue == Abstract!Spec

=============================================================================
