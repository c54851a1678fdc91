------------------------------ MODULE StackMap ------------------------------
(***************************************************************************)
(* BPF_MAP_TYPE_STACK: a vector whose end is the top of the stack          *)
(* (stack.cpp).  Every operation runs under the map's lock; elem_lookup    *)
(* hands out a pointer into the vector that is used after the lock is      *)
(* released.  The vector is reserved to its full size, so it never moves   *)
(* as a whole.                                                             *)
(*                                                                         *)
(* The values pushed are 1, 2, 3...: each element is its own identity.     *)
(***************************************************************************)
EXTENDS Naturals, Sequences

CONSTANTS max_entries,
          Clients,    \* threads that may hold a pointer from elem_lookup
          MaxPushes   \* bound on the values pushed

VARIABLES data,    \* the vector
          pushed,  \* values pushed so far
          popped,  \* values popped or deleted
          ret,     \* what the last operation returned
          ptr      \* index of a client's last lookup, the element it was for,
                   \* and whether an overwriting push ran since

vars == <<data, pushed, popped, ret, ptr>>

Returned(code, value) == [code |-> code, value |-> value]
NoPointer == [index |-> 0, elem |-> 0, shifted |-> FALSE]

Init ==
  /\ data = << >>
  /\ pushed = 0
  /\ popped = {}
  /\ ret = Returned("none", 0)
  /\ ptr = [c \in Clients |-> NoPointer]

is_full == Len(data) >= max_entries
is_empty == data = << >>

top == data[Len(data)]
below_top == SubSeq(data, 1, Len(data) - 1)

refuse(code) == ret' = Returned(code, 0) /\ UNCHANGED <<data, pushed, popped, ptr>>

\* Mutant: the full stack loses its top, not its bottom.
erase_oldest_top(s) == SubSeq(s, 1, Len(s) - 1)
erase_oldest(s) == Tail(s)

\* The common end of elem_update and map_push_elem: BPF_EXIST on a full stack
\* erases the bottom, which moves every other element down by one.
push(flags) ==
  \/ is_full /\ flags # "BPF_EXIST" /\ refuse("E2BIG")
  \/ /\ is_full => flags = "BPF_EXIST"
     /\ pushed < MaxPushes
     /\ pushed' = pushed + 1
     /\ data' = Append(IF is_full THEN erase_oldest(data) ELSE data, pushed + 1)
     /\ ret' = Returned("ok", 0)
     /\ ptr' = [c \in Clients |-> [ptr[c] EXCEPT !.shifted = @ \/ is_full]]
     /\ UNCHANGED popped

elem_update(flags) == push(flags)

map_push_elem(flags) ==
  \/ flags \notin {"BPF_ANY", "BPF_EXIST"} /\ refuse("EINVAL")
  \/ flags \in {"BPF_ANY", "BPF_EXIST"} /\ push(flags)

drop_top ==
  /\ data' = below_top
  /\ popped' = popped \cup {top}
  /\ UNCHANGED <<pushed, ptr>>

elem_delete ==
  \/ is_empty /\ refuse("ENOENT")
  \/ ~is_empty /\ drop_top /\ ret' = Returned("ok", 0)

map_pop_elem ==
  \/ is_empty /\ refuse("ENOENT")
  \/ ~is_empty /\ drop_top /\ ret' = Returned("ok", top)

map_peek_elem ==
  \/ is_empty /\ refuse("ENOENT")
  \/ ~is_empty /\ ret' = Returned("ok", top) /\ UNCHANGED <<data, pushed, popped, ptr>>

\* Mutant: the pointer is to the bottom.
elem_lookup_bottom(c) ==
  \/ is_empty /\ refuse("ENOENT")
  \/ /\ ~is_empty
     /\ ptr' = [ptr EXCEPT ![c] = [index |-> 1, elem |-> top, shifted |-> FALSE]]
     /\ ret' = Returned("ok", top)
     /\ UNCHANGED <<data, pushed, popped>>

elem_lookup(c) ==
  \/ is_empty /\ refuse("ENOENT")
  \/ /\ ~is_empty
     /\ ptr' = [ptr EXCEPT ![c] = [index |-> Len(data), elem |-> top, shifted |-> FALSE]]
     /\ ret' = Returned("ok", top)
     /\ UNCHANGED <<data, pushed, popped>>

Next ==
  \/ \E flags \in {"BPF_ANY", "BPF_NOEXIST", "BPF_EXIST"} : elem_update(flags) \/ map_push_elem(flags)
  \/ elem_delete
  \/ map_pop_elem
  \/ map_peek_elem
  \/ \E c \in Clients : elem_lookup(c)

Spec == Init /\ [][Next]_vars

-----------------------------------------------------------------------------
(* Properties *)

on_stack(v) == \E i \in DOMAIN data : data[i] = v

\* The elements are in the order they were pushed, pop took the newest each
\* time, and an element that is gone without having been popped is older than
\* all that are left: overwriting pushes only ever give up the oldest.
NewestOnTop ==
  /\ Len(data) <= max_entries
  /\ \A i, j \in DOMAIN data : i < j => data[i] < data[j]
  /\ \A v \in 1..pushed : on_stack(v) <=> ~(v \in popped \/ \A i \in DOMAIN data : v < data[i])

\* What the pointer of client c shows, while its element is on the stack.
shows_its_element(c) ==
  on_stack(ptr[c].elem) => ptr[c].index \in DOMAIN data /\ data[ptr[c].index] = ptr[c].elem

\* Without an overwriting push in between, a pointer from elem_lookup shows
\* its element as long as the element is on the stack, whatever was pushed on
\* top of it and popped again.
PointerValidIfNotShifted == \A c \in Clients : ptr[c].shifted \/ shows_its_element(c)

=============================================================================
