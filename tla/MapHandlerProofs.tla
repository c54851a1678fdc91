--------------------------- MODULE MapHandlerProofs ---------------------------
(***************************************************************************)
(* What bpf_map_handler keeps of the maps behind it, for every             *)
(* max_entries, any number of clients, keys and buckets, and every hash    *)
(* function: a queue map implements the bounded queue, a stack map pops    *)
(* the newest value, the pointers both hand out stay good, and a hash map  *)
(* shows the last call and implements a map until its first deletion.      *)
(***************************************************************************)
EXTENDS FiniteSetTheorems, ModArithmetic, MapHandler

-----------------------------------------------------------------------------
(* Calls. *)

\* The calls on a queue map.
QueueCall ==
  \/ \E flags \in UpdateFlags : Queue!elem_update(flags) \/ Queue!map_push_elem(flags)
  \/ Queue!elem_delete
  \/ Queue!map_pop_elem
  \/ Queue!map_peek_elem
  \/ \E c \in Clients : Queue!elem_lookup(c)
  \/ Queue!map_get_next_key

\* The calls on a stack map.
StackCall ==
  \/ \E flags \in UpdateFlags : Stack!elem_update(flags) \/ Stack!map_push_elem(flags)
  \/ Stack!elem_delete
  \/ Stack!map_pop_elem
  \/ Stack!map_peek_elem
  \/ \E c \in Clients : Stack!elem_lookup(c)

\* Every step of a program or a loader leaves a map alone or is a call on it.
LEMMA OneMapCalled ==
  ASSUME [Next]_vars
  PROVE  [QueueCall]_queue_vars /\ [StackCall]_stack_vars /\ [Hash!Next]_hash_vars
<1>1. ASSUME NEW t, only(t)
      PROVE  /\ t = "queue" \/ UNCHANGED queue_vars
             /\ t = "stack" \/ UNCHANGED stack_vars
             /\ t = "hash" \/ UNCHANGED hash_vars
  BY <1>1, Zenon DEF only
<1>2. CASE UNCHANGED vars
  BY <1>2 DEF vars
<1>3. CASE map_lookup_elem
  BY <1>1, <1>3 DEF map_lookup_elem, QueueCall, StackCall
<1>4. CASE map_update_elem
  BY <1>1, <1>4 DEF map_update_elem, QueueCall, StackCall, Hash!Next
<1>5. CASE map_delete_elem
  BY <1>1, <1>5 DEF map_delete_elem, QueueCall, StackCall, Hash!Next
<1>6. CASE map_push_elem \/ map_pop_elem \/ map_peek_elem \/ bpf_map_get_next_key
  BY <1>1, <1>6 DEF map_push_elem, map_pop_elem, map_peek_elem, bpf_map_get_next_key, QueueCall, StackCall
<1> QED BY <1>2, <1>3, <1>4, <1>5, <1>6, Zenon DEF Next

-----------------------------------------------------------------------------
(* Queue maps. *)

\* What a call does to the ring: nothing, an element appended to a ring that has room, an element
\* written over the oldest one of a full ring, or the oldest one dropped.
Kept == UNCHANGED <<q_data, q_head, q_tail, q_count, q_pushed>>
Pushed ==
  /\ ~Queue!is_full /\ q_pushed < MaxPushes /\ q_pushed' = q_pushed + 1
  /\ q_head' = q_head /\ q_count' = q_count + 1 /\ q_tail' = (q_tail + 1) % max_entries
  /\ q_data' = [q_data EXCEPT ![q_tail] = q_pushed + 1]
PushedOver ==
  /\ Queue!is_full /\ q_pushed < MaxPushes /\ q_pushed' = q_pushed + 1
  /\ q_head' = (q_head + 1) % max_entries /\ q_count' = q_count /\ q_tail' = (q_tail + 1) % max_entries
  /\ q_data' = [q_data EXCEPT ![q_tail] = q_pushed + 1]
Dropped ==
  /\ ~Queue!is_empty /\ UNCHANGED <<q_data, q_tail, q_pushed>>
  /\ q_head' = (q_head + 1) % max_entries /\ q_count' = q_count - 1

\* A pointer to the oldest element.
ToHead == [slot |-> q_head, elem |-> q_data[q_head]]

\* The outcomes of a call: refused, pushed, dropped, or shown.
Refused ==
  /\ Kept /\ q_ptr' = q_ptr
  /\ \E code \in {"E2BIG", "ENOENT", "EINVAL"} :
       /\ code = "E2BIG" => Queue!is_full
       /\ code = "ENOENT" => Queue!is_empty
       /\ q_ret' = Queue!Returned(code, 0)
Accepted == (Pushed \/ PushedOver) /\ q_ret' = Queue!Returned("ok", 0) /\ q_ptr' = q_ptr
Removed ==
  /\ Dropped /\ q_ptr' = q_ptr
  /\ q_ret' = Queue!Returned("ok", 0) \/ q_ret' = Queue!Returned("ok", q_data[q_head])
Shown ==
  /\ Kept /\ ~Queue!is_empty /\ q_ret' = Queue!Returned("ok", q_data[q_head])
  /\ q_ptr' = q_ptr \/ \E c \in Clients : q_ptr' = [q_ptr EXCEPT ![c] = ToHead]

\* A call has one of the four outcomes.
LEMMA QueueOutcomes ==
  ASSUME [Next]_vars
  PROVE  UNCHANGED queue_vars \/ Refused \/ Accepted \/ Removed \/ Shown
<1>1. ASSUME NEW code \in {"E2BIG", "ENOENT", "EINVAL"}, Queue!refuse(code),
             code = "E2BIG" => Queue!is_full, code = "ENOENT" => Queue!is_empty
      PROVE  Refused
  BY <1>1 DEF Queue!refuse, Queue!return, Refused, Kept
<1>2. ASSUME NEW flags \in UpdateFlags, Queue!push(flags) PROVE Refused \/ Accepted
  <2>1. CASE Queue!is_full /\ flags # "BPF_EXIST" /\ Queue!refuse("E2BIG")
    BY <1>1, <2>1
  <2>2. CASE ~(Queue!is_full /\ flags # "BPF_EXIST" /\ Queue!refuse("E2BIG"))
    BY <1>2, <2>2 DEF Queue!push, Queue!next_index, Accepted, Pushed, PushedOver
  <2> QED BY <2>1, <2>2
<1>3. ASSUME NEW flags \in UpdateFlags, Queue!elem_update(flags) \/ Queue!map_push_elem(flags)
      PROVE  Refused \/ Accepted
  BY <1>1, <1>2, <1>3 DEF Queue!elem_update, Queue!map_push_elem
<1>4. CASE Queue!elem_delete
  BY <1>1, <1>4 DEF Queue!drop_head, Queue!return, Queue!next_index, Removed, Dropped, Queue!elem_delete
<1>5. CASE Queue!map_pop_elem
  BY <1>1, <1>5 DEF Queue!drop_head, Queue!return, Queue!next_index, Removed, Dropped, Queue!map_pop_elem
<1>6. CASE Queue!map_peek_elem
  <2>1. CASE Queue!is_empty
    BY <1>1, <1>6, <2>1 DEF Queue!map_peek_elem
  <2>2. CASE ~Queue!is_empty
    BY <1>6, <2>2 DEF Queue!map_peek_elem, Queue!return, Shown, Kept
  <2> QED BY <2>1, <2>2
<1>7. ASSUME NEW c \in Clients, Queue!elem_lookup(c) PROVE Refused \/ Shown
  <2>1. CASE Queue!is_empty
    BY <1>1, <1>7, <2>1 DEF Queue!elem_lookup
  <2>2. CASE ~Queue!is_empty
    BY <1>7, <2>2 DEF Queue!elem_lookup, Shown, Kept, ToHead
  <2> QED BY <2>1, <2>2
<1>8. CASE Queue!map_get_next_key
  BY <1>1, <1>8 DEF Queue!map_get_next_key
<1> QED BY <1>3, <1>4, <1>5, <1>6, <1>7, <1>8, OneMapCalled, Zenon DEF QueueCall

\* The types of the ring, and tail q_count slots after head.
RingInv ==
  /\ q_data \in [0..(max_entries - 1) -> 0..MaxPushes]
  /\ q_head \in 0..(max_entries - 1)
  /\ q_count \in 0..max_entries
  /\ q_tail = (q_head + q_count) % max_entries
  /\ q_pushed \in 0..MaxPushes
  /\ q_ptr \in [Clients -> [slot : 0..(max_entries - 1), elem : 0..MaxPushes]]

\* Each outcome keeps the ring's types and the distance from head to tail.
LEMMA RingStep ==
  ASSUME RingInv, [Next]_vars
  PROVE  RingInv'
<1> USE MaxEntriesAssumption, MaxPushesAssumption
<1>1. q_head + 1 \in Nat /\ q_head + q_count \in Nat /\ q_head \in Nat /\ q_count \in Nat
  BY DEF RingInv
<1>2. (q_head + 1) % max_entries \in 0..(max_entries - 1) /\ q_tail \in 0..(max_entries - 1)
  BY <1>1, ModRange, Zenon DEF RingInv
<1>3. CASE Kept /\ (q_ptr' = q_ptr \/ \E c \in Clients : q_ptr' = [q_ptr EXCEPT ![c] = ToHead])
  <2>1. q_ptr' \in [Clients -> [slot : 0..(max_entries - 1), elem : 0..MaxPushes]]
    BY <1>3 DEF RingInv, ToHead
  <2> QED BY <1>3, <2>1 DEF RingInv, Kept
<1>4. CASE Pushed /\ q_ptr' = q_ptr
  <2>1. q_count + 1 \in 0..max_entries /\ q_pushed + 1 \in 0..MaxPushes
    BY <1>4 DEF RingInv, Pushed, Queue!is_full
  <2>2. (q_tail + 1) % max_entries = (q_head + (q_count + 1)) % max_entries
    <3>1. (((q_head + q_count) % max_entries) + 1) % max_entries = ((q_head + q_count) + 1) % max_entries
      BY <1>1, ModShift, Zenon
    <3> QED BY <1>1, <3>1 DEF RingInv
  <2> QED BY <1>2, <1>4, <2>1, <2>2 DEF RingInv, Pushed
<1>5. CASE PushedOver /\ q_ptr' = q_ptr
  <2>1. q_count = max_entries /\ q_pushed + 1 \in 0..MaxPushes
    BY <1>5 DEF RingInv, PushedOver, Queue!is_full
  <2>2. (((q_head + 1) % max_entries) + max_entries) % max_entries = (q_head + 1) % max_entries
    BY <1>2, ModAround
  <2> QED BY <1>2, <1>5, <2>1, <2>2, ModAround, Zenon DEF RingInv, PushedOver
<1>6. CASE Dropped /\ q_ptr' = q_ptr
  <2>1. q_count - 1 \in 0..max_entries /\ q_count - 1 \in Nat /\ (q_head + 1) + (q_count - 1) = q_head + q_count
    BY <1>1, <1>6 DEF RingInv, Dropped, Queue!is_empty
  <2>2. (((q_head + 1) % max_entries) + (q_count - 1)) % max_entries = ((q_head + 1) + (q_count - 1)) % max_entries
    BY <1>1, <2>1, ModShift, Zenon
  <2> QED BY <1>2, <1>6, <2>1, <2>2, Zenon DEF RingInv, Dropped
<1>7. CASE UNCHANGED queue_vars
  BY <1>7 DEF queue_vars, RingInv
<1> QED BY <1>3, <1>4, <1>5, <1>6, <1>7, QueueOutcomes, Zenon DEF Refused, Accepted, Removed, Shown

\* The elements of the queue.
LEMMA QueueContents ==
  ASSUME RingInv
  PROVE  /\ Queue!contents = ring_contents(max_entries, q_data, q_head, q_count)
         /\ Len(Queue!contents) = q_count
         /\ q_count # 0 => Head(Queue!contents) = q_data[q_head]
<1> USE MaxEntriesAssumption
<1>1. Queue!contents = ring_contents(max_entries, q_data, q_head, q_count)
  BY DEF Queue!contents, ring_contents, ring_slot
<1>2. ElementsAre(max_entries, 0..MaxPushes, q_data, q_head, q_count, Queue!contents)
  BY <1>1, RingContents, Zenon DEF RingInv
<1>3. q_count # 0 => 1 \in 1..q_count
  BY DEF RingInv
<1>4. ring_slot(max_entries, q_head, 1) = q_head
  BY RingSlots DEF RingInv, SlotsApart
<1> QED BY <1>1, <1>2, <1>3, <1>4 DEF ElementsAre

\* A step is a step of the bounded queue, or changes neither the elements nor the result.
LEMMA StepRefines ==
  ASSUME RingInv, [Next]_vars
  PROVE  [Queue!Abstract!Next]_(Queue!Abstract!bvars)
<1> USE MaxEntriesAssumption, MaxPushesAssumption
<1>1. /\ q_data \in [0..(max_entries - 1) -> 0..MaxPushes] /\ q_head \in 0..(max_entries - 1)
      /\ q_count \in 0..max_entries /\ q_pushed \in 0..MaxPushes /\ q_tail = (q_head + q_count) % max_entries
  BY DEF RingInv
<1>2. /\ Queue!contents = ring_contents(max_entries, q_data, q_head, q_count)
      /\ Len(Queue!contents) = q_count
      /\ q_count # 0 => Head(Queue!contents) = q_data[q_head]
  BY QueueContents
<1>3. Queue!contents' = ring_contents(max_entries, q_data', q_head', q_count')
  BY DEF Queue!contents, ring_contents, ring_slot
<1>4. CASE UNCHANGED queue_vars
  BY <1>2, <1>3, <1>4 DEF queue_vars, Queue!Abstract!bvars
<1>5. CASE Refused
  <2>1. PICK code \in {"E2BIG", "ENOENT", "EINVAL"} :
          /\ code = "E2BIG" => Queue!is_full
          /\ code = "ENOENT" => Queue!is_empty
          /\ q_ret' = Queue!Returned(code, 0)
    BY <1>5, Zenon DEF Refused
  <2>2. Queue!Abstract!Refuse(code)
    BY <1>1, <1>2, <1>3, <1>5, <2>1 DEF Queue!Abstract!Refuse, Queue!Abstract!Returned, Queue!Returned, Queue!is_full, Queue!is_empty, Refused, Kept
  <2> QED BY <2>2 DEF Queue!Abstract!Next
<1>6. CASE Accepted
  <2>1. q_ret' = Queue!Returned("ok", 0) /\ q_pushed + 1 \in 1..MaxPushes /\ q_pushed + 1 \in 0..MaxPushes
    BY <1>1, <1>6 DEF Accepted, Pushed, PushedOver
  <2>2. CASE Pushed
    <3>1. q_count \in 0..(max_entries - 1)
      BY <1>1, <2>2 DEF Pushed, Queue!is_full
    <3>2. Appends(max_entries, q_data, q_head, q_count, q_pushed + 1)
      BY <1>1, <2>1, <3>1, RingAppend, Zenon
    <3>3. Queue!contents' = Append(Queue!contents, q_pushed + 1)
      BY <1>1, <1>2, <1>3, <2>2, <3>2, Zenon DEF Appends, Pushed
    <3>4. Queue!Abstract!Push(q_pushed + 1)
      BY <1>2, <2>1, <3>1, <3>3 DEF Queue!Abstract!Push, Queue!Abstract!Returned, Queue!Returned
    <3> QED BY <2>1, <3>4 DEF Queue!Abstract!Next
  <2>3. CASE PushedOver
    <3>1. q_count = max_entries
      BY <1>1, <2>3 DEF PushedOver, Queue!is_full
    <3>2. q_tail = q_head
      BY <1>1, <3>1, ModAround, Zenon
    <3>3. Rotates(max_entries, q_data, q_head, q_pushed + 1)
      BY <1>1, <2>1, RingRotate, Zenon
    <3>4. Queue!contents' = Append(Tail(Queue!contents), q_pushed + 1)
      BY <1>2, <1>3, <2>3, <3>1, <3>2, <3>3, Zenon DEF PushedOver, Rotates
    <3> QED BY <1>2, <2>1, <3>1, <3>4 DEF Queue!Abstract!Next, Queue!Abstract!PushOver, Queue!Abstract!Returned, Queue!Returned
  <2> QED BY <1>6, <2>2, <2>3, Zenon DEF Accepted
<1>7. CASE Removed
  <2>1. q_count \in 1..max_entries /\ q_count # 0
    BY <1>1, <1>7 DEF Removed, Dropped, Queue!is_empty
  <2>2. Queue!contents' = Tail(Queue!contents)
    BY <1>1, <1>2, <1>3, <1>7, <2>1, RingTail, Zenon DEF Removed, Dropped
  <2>3. CASE q_ret' = Queue!Returned("ok", 0)
    BY <1>2, <2>1, <2>2, <2>3 DEF Queue!Abstract!Next, Queue!Abstract!Delete, Queue!Abstract!Returned, Queue!Returned
  <2>4. CASE q_ret' = Queue!Returned("ok", q_data[q_head])
    BY <1>2, <2>1, <2>2, <2>4 DEF Queue!Abstract!Next, Queue!Abstract!Pop, Queue!Abstract!Returned, Queue!Returned
  <2> QED BY <1>7, <2>3, <2>4, Zenon DEF Removed
<1>8. CASE Shown
  BY <1>2, <1>3, <1>8 DEF Queue!Abstract!Next, Queue!Abstract!Peek, Queue!Abstract!Returned, Queue!Returned, Shown, Kept, Queue!is_empty
<1> QED BY <1>4, <1>5, <1>6, <1>7, <1>8, QueueOutcomes, Zenon

\* The ring before the first call.
LEMMA RingInit ==
  ASSUME Queue!Init
  PROVE  RingInv /\ Queue!contents = << >>
<1> USE MaxEntriesAssumption, MaxPushesAssumption
<1>1. 0 \in 0..(max_entries - 1) /\ 0 + 0 = 0
  OBVIOUS
<1>2. RingInv
  BY <1>1, ModSmall DEF Queue!Init, Queue!Slot, Queue!NoPointer, RingInv
<1> QED BY <1>2, QueueContents, RingContents DEF ElementsAre, RingInv, Queue!Init

\* queue_map_impl is a first-in first-out queue of max_entries elements, results and error codes
\* included, whatever programs and loaders call: the ring implements BoundedQueue.
THEOREM QueueIsBoundedQueue == Spec => QueueIsFifo
<1>1. Init => RingInv
  BY RingInit DEF Init
<1>2. RingInv /\ [Next]_vars => RingInv'
  BY RingStep
<1>3. Init => Queue!Abstract!Init
  BY RingInit DEF Queue!Abstract!Init, Queue!Abstract!Returned, Init, Queue!Init, Queue!Returned
<1>4. RingInv /\ [Next]_vars => [Queue!Abstract!Next]_(Queue!Abstract!bvars)
  BY StepRefines
<1> QED BY <1>1, <1>2, <1>3, <1>4, PTL DEF Spec, QueueIsFifo, Queue!ImplementsQueue, Queue!Abstract!Spec

\* The queue holds the last q_count values pushed, in order, and a pointer taken for one that is still
\* there points to its slot.
PointersInv ==
  /\ Numbered(max_entries, q_data, q_head, q_count, q_pushed)
  /\ \A c \in Clients : Aims(max_entries, q_head, q_count, q_pushed, q_ptr[c].elem, q_ptr[c].slot)

\* Each outcome keeps the elements numbered and the pointers to them good.
LEMMA PointersStep ==
  ASSUME RingInv, PointersInv, [Next]_vars
  PROVE  PointersInv'
<1> USE MaxEntriesAssumption, MaxPushesAssumption
<1>1. /\ q_data \in [0..(max_entries - 1) -> 0..MaxPushes] /\ q_head \in 0..(max_entries - 1)
      /\ q_count \in 0..max_entries /\ q_pushed \in Nat /\ q_tail = (q_head + q_count) % max_entries
  BY DEF RingInv
<1>2. \A c \in Clients : q_ptr[c].elem \in Nat /\ q_ptr[c].slot \in 0..(max_entries - 1)
  BY DEF RingInv
<1>3. CASE Kept /\ q_ptr' = q_ptr
  BY <1>3, Zenon DEF Kept, PointersInv
<1>4. CASE Pushed /\ q_ptr' = q_ptr
  <2>1. q_count \in 0..(max_entries - 1) /\ q_pushed + 1 \in 0..MaxPushes
    BY <1>1, <1>4 DEF Pushed, Queue!is_full
  <2> QED BY <1>1, <1>2, <1>4, <2>1, NumberedAppend, AimsAppend, Zenon DEF PointersInv, Pushed
<1>5. CASE PushedOver /\ q_ptr' = q_ptr
  <2>1. q_count = max_entries /\ q_pushed + 1 \in 0..MaxPushes
    BY <1>1, <1>5 DEF PushedOver, Queue!is_full
  <2>2. /\ Numbered(max_entries, q_data, q_head, max_entries, q_pushed) =>
             Numbered(max_entries, [q_data EXCEPT ![q_head] = q_pushed + 1], (q_head + 1) % max_entries, max_entries, q_pushed + 1)
        /\ \A e \in Nat, s \in 0..(max_entries - 1) :
             Aims(max_entries, q_head, max_entries, q_pushed, e, s) =>
               Aims(max_entries, (q_head + 1) % max_entries, max_entries, q_pushed + 1, e, s)
    BY <1>1, <2>1, NumberedRotate, Zenon
  <2>3. Numbered(max_entries, q_data, q_head, q_count, q_pushed)'
    BY <1>1, <1>5, <2>1, <2>2, ModAround, Zenon DEF PushedOver, PointersInv
  <2> QED BY <1>2, <1>5, <2>1, <2>2, <2>3 DEF PointersInv, PushedOver
<1>6. CASE Dropped /\ q_ptr' = q_ptr
  <2>1. q_count \in 1..max_entries
    BY <1>1, <1>6 DEF Dropped, Queue!is_empty
  <2> QED BY <1>1, <1>2, <1>6, <2>1, NumberedTail, AimsTail, Zenon DEF PointersInv, Dropped
<1>7. CASE Shown
  <2>1. Aims(max_entries, q_head, q_count, q_pushed, q_data[q_head], q_head)
    <3>1. 1 \in 1..q_count
      BY <1>1, <1>7 DEF Shown, Queue!is_empty
    <3>2. ring_slot(max_entries, q_head, 1) = q_head
      BY <1>1, RingSlots DEF SlotsApart
    <3>3. q_data[q_head] = (q_pushed - q_count) + 1 /\ q_count <= q_pushed
      BY <3>1, <3>2, Zenon DEF PointersInv, Numbered
    <3>4. q_data[q_head] - (q_pushed - q_count) = 1 /\ q_data[q_head] <= q_pushed
      BY <1>1, <3>1, <3>3
    <3> QED BY <3>2, <3>4 DEF Aims
  <2>2. ASSUME NEW c \in Clients
        PROVE  Aims(max_entries, q_head, q_count, q_pushed, q_ptr'[c].elem, q_ptr'[c].slot)
    <3>1. CASE q_ptr'[c] = q_ptr[c]
      BY <3>1, Zenon DEF PointersInv
    <3>2. CASE q_ptr'[c] = ToHead
      BY <2>1, <3>2 DEF ToHead
    <3> QED BY <1>7, <3>1, <3>2 DEF Shown, RingInv
  <2> QED BY <1>7, <2>2, Zenon DEF PointersInv, Shown, Kept
<1>8. CASE UNCHANGED queue_vars
  BY <1>8 DEF queue_vars, PointersInv
<1> QED BY <1>3, <1>4, <1>5, <1>6, <1>7, <1>8, QueueOutcomes, Zenon DEF Refused, Accepted, Removed

\* A pointer that elem_lookup returned shows its element while the element is in the queue, for any
\* number of clients and whatever they push and pop meanwhile.
THEOREM PointersStayValid == Spec => []QueuePointerValid
<1>1. Init => RingInv /\ PointersInv
  <2> SUFFICES ASSUME Queue!Init PROVE RingInv /\ PointersInv
    BY DEF Init
  <2> QED BY RingInit DEF Queue!Init, PointersInv, Numbered, Aims, Queue!NoPointer
<1>2. RingInv /\ PointersInv /\ [Next]_vars => RingInv' /\ PointersInv'
  BY RingStep, PointersStep, Zenon
<1>3. RingInv /\ PointersInv => QueuePointerValid
  <2> SUFFICES ASSUME RingInv, PointersInv, NEW c \in Clients, NEW i \in 1..q_count, Queue!contents[i] = q_ptr[c].elem
               PROVE  q_data[q_ptr[c].slot] = q_ptr[c].elem
    BY DEF QueuePointerValid, Queue!PointerValid
  <2>1. Queue!contents[i] = q_data[ring_slot(max_entries, q_head, i)]
    BY DEF Queue!contents, ring_slot
  <2>2. q_ptr[c].elem > q_pushed - q_count /\ q_ptr[c].elem # 0 /\ q_ptr[c].elem - (q_pushed - q_count) = i
    BY <2>1, MaxEntriesAssumption, MaxPushesAssumption DEF PointersInv, Numbered, RingInv
  <2> QED BY <2>1, <2>2, Zenon DEF PointersInv, Aims
<1> QED BY <1>1, <1>2, <1>3, PTL DEF Spec

-----------------------------------------------------------------------------
(* Stack maps. *)

\* A pointer to the top.
ToTop == [index |-> Len(s_data), elem |-> s_data[Len(s_data)], shifted |-> FALSE]

\* The outcomes of a call: the stack as it was, perhaps with a new pointer to its top, an element pushed
\* with or without the bottom erased, or the top taken away.
StackKept ==
  /\ UNCHANGED <<s_data, s_pushed, s_popped>>
  /\ s_ptr' = s_ptr \/ (s_data # << >> /\ \E c \in Clients : s_ptr' = [s_ptr EXCEPT ![c] = ToTop])
StackPushed ==
  /\ s_data' = Append(IF Stack!is_full THEN Tail(s_data) ELSE s_data, s_pushed + 1)
  /\ s_pushed' = s_pushed + 1 /\ s_popped' = s_popped
  /\ s_ptr' = [c \in Clients |-> [s_ptr[c] EXCEPT !.shifted = @ \/ Stack!is_full]]
StackPopped ==
  /\ s_data # << >> /\ s_data' = SubSeq(s_data, 1, Len(s_data) - 1)
  /\ s_popped' = s_popped \cup {s_data[Len(s_data)]}
  /\ UNCHANGED <<s_pushed, s_ptr>>

\* A call has one of the three outcomes.
LEMMA StackOutcomes ==
  ASSUME [Next]_vars
  PROVE  StackKept \/ StackPushed \/ StackPopped
<1>1. CASE UNCHANGED stack_vars
  BY <1>1 DEF stack_vars, StackKept
<1>2. ASSUME NEW code, Stack!refuse(code) PROVE StackKept
  BY <1>2, Zenon DEF Stack!refuse, StackKept
<1>3. ASSUME NEW flags, Stack!elem_update(flags) \/ Stack!map_push_elem(flags)
      PROVE  StackKept \/ StackPushed
  BY <1>2, <1>3 DEF Stack!elem_update, Stack!map_push_elem, Stack!push, StackPushed, Stack!erase_oldest
<1>4. CASE Stack!elem_delete \/ Stack!map_pop_elem
  BY <1>2, <1>4 DEF Stack!is_empty, Stack!drop_top, Stack!top, Stack!below_top, StackPopped, Stack!elem_delete, Stack!map_pop_elem
<1>5. CASE Stack!map_peek_elem
  BY <1>2, <1>5 DEF StackKept, Stack!map_peek_elem
<1>6. ASSUME NEW c \in Clients, Stack!elem_lookup(c) PROVE StackKept
  <2>1. CASE Stack!refuse("ENOENT")
    BY <1>2, <2>1
  <2>2. CASE ~Stack!refuse("ENOENT")
    BY <1>6, <2>2 DEF Stack!elem_lookup, Stack!is_empty, Stack!top, StackKept, ToTop
  <2> QED BY <2>1, <2>2
<1> QED BY <1>1, <1>3, <1>4, <1>5, <1>6, OneMapCalled, Zenon DEF StackCall

\* The values on the stack, and those that were popped.
StackInv == StackOk(s_data, s_popped, s_pushed) /\ Len(s_data) \in 0..max_entries

\* Each outcome keeps the stack in the order of the pushes.
LEMMA StackStep ==
  ASSUME StackInv, [Next]_vars
  PROVE  StackInv'
<1> USE MaxEntriesAssumption
<1>1. CASE StackKept
  BY <1>1, Zenon DEF StackKept, StackInv
<1>2. CASE StackPushed /\ ~Stack!is_full
  BY <1>2, StackPush DEF StackInv, StackPushed, Stack!is_full
<1>3. CASE StackPushed /\ Stack!is_full
  <2>1. s_data # << >> /\ Len(s_data) = max_entries
    BY <1>3 DEF StackInv, Stack!is_full
  <2>2. StackOk(Tail(s_data), s_popped, s_pushed) /\ Len(Tail(s_data)) = Len(s_data) - 1
    BY <2>1, StackBottom, Zenon DEF StackInv
  <2> QED BY <1>3, <2>1, <2>2, StackPush DEF StackInv, StackPushed
<1>4. CASE StackPopped
  <2>1. Len(s_data) - 1 \in 0..max_entries
    BY <1>4 DEF StackInv, StackOk, Rising, StackPopped
  <2> QED BY <1>4, <2>1, StackPop, Zenon DEF StackInv, StackPopped
<1> QED BY <1>1, <1>2, <1>3, <1>4, StackOutcomes, Zenon

\* The stack before the first call.
LEMMA StackInit ==
  ASSUME Stack!Init
  PROVE  StackInv
BY MaxEntriesAssumption DEF Stack!Init, StackInv, StackOk, Rising, On, Gone

\* A stack map pops the newest value, and a push over a full one gives up the oldest: what is on the
\* stack is in the order of the pushes, and what is missing was popped or is older than all that is left.
THEOREM StacksPopNewest == Spec => []StackNewestOnTop
<1>1. Init => StackInv
  BY StackInit DEF Init
<1>2. StackInv /\ [Next]_vars => StackInv'
  BY StackStep
<1>3. StackInv => StackNewestOnTop
  <2> SUFFICES ASSUME StackInv PROVE Stack!NewestOnTop
    BY DEF StackNewestOnTop
  <2>1. s_data \in Seq(Nat) /\ DOMAIN s_data = 1..Len(s_data) /\ Len(s_data) <= max_entries
    BY MaxEntriesAssumption DEF StackInv, StackOk, Rising
  <2> QED BY <2>1, Zenon DEF StackInv, StackOk, Rising, On, Gone, Stack!NewestOnTop, Stack!on_stack
<1> QED BY <1>1, <1>2, <1>3, PTL DEF Spec

\* A pointer is for a value pushed before, and shows it unless the stack was shifted under it.
Follows(p) == p.elem \in 0..s_pushed /\ (p.shifted \/ Shows(s_data, p.elem, p.index))
StackPointersInv ==
  /\ s_ptr \in [Clients -> [index : Nat, elem : Nat, shifted : BOOLEAN]]
  /\ \A c \in Clients : Follows(s_ptr[c])

\* Each outcome keeps the pointers to the stack good, or marks them as shifted.
LEMMA StackPointersStep ==
  ASSUME StackInv, StackPointersInv, [Next]_vars
  PROVE  StackPointersInv'
<1>1. s_ptr \in [Clients -> [index : Nat, elem : Nat, shifted : BOOLEAN]] /\ s_pushed \in Nat /\ s_data \in Seq(Nat)
  BY Zenon DEF StackInv, StackPointersInv, StackOk, Rising
<1>2. ASSUME NEW c \in Clients PROVE Follows(s_ptr[c]) /\ s_ptr[c] \in [index : Nat, elem : Nat, shifted : BOOLEAN]
  BY <1>1, <1>2, Zenon DEF StackPointersInv
<1>3. CASE StackKept
  <2>1. s_data # << >> => ToTop \in [index : Nat, elem : Nat, shifted : BOOLEAN] /\ Follows(ToTop)
    <3> SUFFICES ASSUME s_data # << >> PROVE ToTop \in [index : Nat, elem : Nat, shifted : BOOLEAN] /\ Follows(ToTop)
      OBVIOUS
    <3>1. Len(s_data) \in 1..Len(s_data) /\ Len(s_data) \in Nat
      BY <1>1
    <3> QED BY <1>1, <3>1 DEF ToTop, Follows, Shows, StackInv, StackOk, Rising
  <2>2. s_ptr' \in [Clients -> [index : Nat, elem : Nat, shifted : BOOLEAN]]
    BY <1>1, <1>3, <2>1, Zenon DEF StackKept
  <2>3. ASSUME NEW c \in Clients PROVE Follows(s_ptr'[c])
    <3>1. s_ptr'[c] = s_ptr[c] \/ (s_ptr'[c] = ToTop /\ s_data # << >>)
      BY <1>1, <1>3, <2>3, Zenon DEF StackKept
    <3> QED BY <1>2, <2>1, <3>1, Zenon
  <2> QED BY <1>3, <2>2, <2>3, Zenon DEF StackPointersInv, StackKept, Follows
<1>4. CASE StackPushed
  <2>1. ASSUME NEW c \in Clients
        PROVE  /\ s_ptr'[c].index = s_ptr[c].index /\ s_ptr'[c].elem = s_ptr[c].elem
               /\ s_ptr'[c].shifted = (s_ptr[c].shifted \/ Stack!is_full)
               /\ s_ptr'[c] \in [index : Nat, elem : Nat, shifted : BOOLEAN]
    <3>1. s_ptr'[c] = [s_ptr[c] EXCEPT !.shifted = @ \/ Stack!is_full]
      BY <1>4, <2>1, Zenon DEF StackPushed
    <3> QED BY <1>2, <3>1, Zenon
  <2>2. ASSUME NEW c \in Clients PROVE Follows(s_ptr[c])'
    <3>1. s_ptr[c].elem \in 0..s_pushed /\ s_ptr[c].index \in Nat /\ (s_ptr[c].shifted \/ Shows(s_data, s_ptr[c].elem, s_ptr[c].index))
      BY <1>2, <2>2 DEF Follows
    <3>2. s_ptr[c].elem \in 0..(s_pushed + 1)
      BY <1>1, <3>1
    <3>3. CASE Stack!is_full \/ s_ptr[c].shifted
      BY <1>4, <2>1, <3>2, <3>3, Zenon DEF Follows, StackPushed
    <3>4. CASE ~Stack!is_full /\ ~s_ptr[c].shifted
      <4>1. Shows(Append(s_data, s_pushed + 1), s_ptr[c].elem, s_ptr[c].index)
        BY <3>1, <3>4, StackPush, Zenon DEF StackInv
      <4> QED BY <1>4, <2>1, <3>2, <3>4, <4>1, Zenon DEF Follows, StackPushed
    <3> QED BY <3>3, <3>4
  <2>3. s_ptr' \in [Clients -> [index : Nat, elem : Nat, shifted : BOOLEAN]]
    BY <1>4, <2>1, Zenon DEF StackPushed
  <2> QED BY <2>2, <2>3, Zenon DEF StackPointersInv
<1>5. CASE StackPopped
  <2>1. ASSUME NEW c \in Clients PROVE Follows(s_ptr[c])'
    <3>1. s_ptr[c].elem \in 0..s_pushed /\ s_ptr[c].index \in Nat /\ (s_ptr[c].shifted \/ Shows(s_data, s_ptr[c].elem, s_ptr[c].index))
      BY <1>2, <2>1 DEF Follows
    <3> QED BY <1>5, <3>1, StackPop, Zenon DEF Follows, StackPopped, StackInv
  <2> QED BY <1>1, <1>5, <2>1, Zenon DEF StackPointersInv, StackPopped
<1> QED BY <1>3, <1>4, <1>5, StackOutcomes, Zenon

\* A pointer that elem_lookup of a stack map returned shows its element while the element is on the
\* stack, whatever was pushed and popped above it meanwhile, unless a push over the full stack shifted it.
THEOREM StackPointersStayValid == Spec => []StackPointerValidIfNotShifted
<1>1. Init => StackInv /\ StackPointersInv
  <2> SUFFICES ASSUME Stack!Init PROVE StackInv /\ StackPointersInv
    BY DEF Init
  <2> QED BY StackInit DEF Stack!Init, StackPointersInv, Follows, Shows, On, Stack!NoPointer
<1>2. StackInv /\ StackPointersInv /\ [Next]_vars => StackInv' /\ StackPointersInv'
  BY StackStep, StackPointersStep, Zenon
<1>3. StackInv /\ StackPointersInv => StackPointerValidIfNotShifted
  <2> SUFFICES ASSUME StackInv, StackPointersInv PROVE Stack!PointerValidIfNotShifted
    BY DEF StackPointerValidIfNotShifted
  <2>1. DOMAIN s_data = 1..Len(s_data)
    BY DEF StackInv, StackOk, Rising
  <2> QED BY <2>1, Zenon DEF StackPointersInv, Follows, Shows, On, Stack!PointerValidIfNotShifted, Stack!shows_its_element, Stack!on_stack
<1> QED BY <1>1, <1>2, <1>3, PTL DEF Spec

-----------------------------------------------------------------------------
(* Hash maps. *)

\* A non-empty set of natural numbers has a least one.
LEMMA LeastNatural ==
  ASSUME NEW S, S \subseteq Nat
  PROVE  HasLeast(S)
<1> SUFFICES ASSUME S # {} PROVE \E i \in S : \A j \in S : i <= j
  BY Zenon DEF HasLeast
<1>1. PICK i \in S : \A j \in S : ~ (<<j, i>> \in OpToRel(<, Nat))
  BY WFMin, NatLessThanWellFounded, Zenon
<1>2. \A j \in S : ~(j < i)
  BY <1>1 DEF OpToRel
<1> QED BY <1>2

N == Hash!_num_buckets

\* There are buckets.
LEMMA TableSize == N \in Nat \ {0} /\ HaveLeast(N)
<1>1. PICK S : S = {p \in num_buckets..(2 * num_buckets + 1) : Hash!is_prime(p)}
  BY Zenon
<1>2. S \subseteq Nat \ {0}
  BY <1>1, NumBucketsAssumption
<1>3. S # {}
  BY <1>1, NextPrimeAssumption, Zenon
<1>4. N \in Nat \ {0}
  BY <1>1, <1>2, <1>3, LeastNatural DEF N, Hash!_num_buckets, Hash!next_prime, HasLeast, Hash!first
<1>5. 0..(N - 1) \subseteq Nat
  BY <1>4
<1> QED BY <1>4, <1>5, LeastNatural, Zenon DEF HaveLeast

\* The value a hash map with buckets d has for a key.
value_of(d, k) == value_in(N, hash_func[k], d, k, None)

\* The model's searches are those of a table.
LEMMA SearchTables ==
  ASSUME NEW k
  PROVE  /\ Hash!stops(k) = stops_in(N, hash_func[k], buckets, k, None)
         /\ Hash!search_ends(k) = ends_in(N, hash_func[k], buckets, k, None)
         /\ Hash!elem_lookup(k) = value_of(buckets, k)
         /\ Hash!elem_lookup(k)' = value_of(buckets', k)
<1>1. Hash!stops(k) = stops_in(N, hash_func[k], buckets, k, None)
  BY Zenon DEF Hash!stops, Hash!Index, Hash!is_empty, Hash!probed, stops_in, probe, N
<1>2. Hash!stops(k)' = stops_in(N, hash_func[k], buckets', k, None)
  BY Zenon DEF Hash!stops, Hash!Index, Hash!is_empty, Hash!probed, stops_in, probe, N
<1>3. Hash!search_ends(k) = ends_in(N, hash_func[k], buckets, k, None)
  BY <1>1, Zenon DEF Hash!search_ends, Hash!first, Hash!probed, ends_in, least, probe, N
<1>4. Hash!search_ends(k)' = ends_in(N, hash_func[k], buckets', k, None)
  BY <1>2, Zenon DEF Hash!search_ends, Hash!first, Hash!probed, ends_in, least, probe, N
<1> QED BY <1>1, <1>2, <1>3, <1>4 DEF Hash!elem_lookup, value_of, value_in

\* The outcomes of a call on a hash map: k and v written where the search for k ends, an update refused,
\* a deletion that found nothing, or the bucket of k emptied.
HashStored(k, v, b) ==
  /\ Ends(N, hash_func[k], buckets, k, None, b)
  /\ buckets' = written(buckets, b, k, v)
  /\ call' = [op |-> "update", key |-> k, value |-> v, stored |-> TRUE]
  /\ buckets[b].key = None => ~(_count >= num_buckets) /\ _count' = _count + 1
  /\ buckets[b].key # None => _count' = _count
  /\ deleted' = deleted
HashRefused(k, v) ==
  /\ UNCHANGED <<buckets, _count, deleted>>
  /\ call' = [op |-> "update", key |-> k, value |-> v, stored |-> FALSE]
HashMissed(k) ==
  /\ UNCHANGED <<buckets, _count>> /\ (deleted' <=> deleted)
  /\ value_of(buckets, k) = None
  /\ call' = [op |-> "delete", key |-> k, value |-> None, stored |-> FALSE]
HashEmptied(k, b) ==
  /\ Ends(N, hash_func[k], buckets, k, None, b)
  /\ buckets' = written(buckets, b, None, None) /\ deleted'
  /\ call' = [op |-> "delete", key |-> k, value |-> None, stored |-> FALSE]
HashOutcome(k) ==
  \/ HashMissed(k)
  \/ \E b \in 0..(N - 1) : HashEmptied(k, b)
  \/ \E v \in Values : HashRefused(k, v) \/ \E b \in 0..(N - 1) : HashStored(k, v, b)

\* Where the search for a key ends, if it does.
LEMMA SearchResult ==
  ASSUME NEW k \in Keys
  PROVE  /\ Searches(N, hash_func[k], buckets, k, None)
         /\ Hash!stops(k) # {} => /\ Ends(N, hash_func[k], buckets, k, None, Hash!search_ends(k))
                                  /\ Hash!search_ends(k) \in 0..(N - 1)
<1>1. Searches(N, hash_func[k], buckets, k, None)
  BY TableSize, SearchesEnd, HashAssumption, Zenon DEF HaveLeast, stops_in
<1> QED BY <1>1, SearchTables, Zenon DEF Searches

\* A call has one of the outcomes.
LEMMA HashOutcomes ==
  ASSUME [Next]_vars
  PROVE  UNCHANGED hash_vars \/ \E k \in Keys : HashOutcome(k)
<1>1. ASSUME NEW k \in Keys, NEW v \in Values, Hash!elem_update(k, v) PROVE HashOutcome(k)
  <2>1. CASE Hash!stops(k) = {} \/ Hash!insert_refused(Hash!search_ends(k))
    BY <1>1, <2>1, Zenon DEF HashOutcome, Hash!elem_update, HashRefused
  <2>2. CASE ~(Hash!stops(k) = {} \/ Hash!insert_refused(Hash!search_ends(k)))
    <3>1. PICK b : b = Hash!search_ends(k)
      BY Zenon
    <3>2. b \in 0..(N - 1) /\ Ends(N, hash_func[k], buckets, k, None, b)
      BY <2>2, <3>1, SearchResult, Zenon
    <3>3. HashStored(k, v, b)
      BY <1>1, <2>2, <3>1, <3>2, Zenon DEF HashStored, written, Hash!count_after_update, Hash!insert_refused, Hash!is_empty, Hash!elem_update
    <3> QED BY <3>2, <3>3, Zenon DEF HashOutcome
  <2> QED BY <2>1, <2>2
<1>2. ASSUME NEW k \in Keys, Hash!elem_delete(k) PROVE HashOutcome(k)
  <2>1. call' = [op |-> "delete", key |-> k, value |-> None, stored |-> FALSE]
    BY <1>2 DEF Hash!elem_delete, Hash!NoCall
  <2>2. CASE Hash!elem_lookup(k) = None
    BY <1>2, <2>1, <2>2, SearchTables, Zenon DEF HashOutcome, Hash!elem_delete, HashMissed
  <2>3. CASE Hash!elem_lookup(k) # None
    <3>1. PICK b : b = Hash!search_ends(k)
      BY Zenon
    <3>2. b \in 0..(N - 1) /\ Ends(N, hash_func[k], buckets, k, None, b)
      BY <2>3, <3>1, SearchResult, Zenon DEF Hash!elem_lookup
    <3>3. HashEmptied(k, b)
      BY <1>2, <2>1, <2>3, <3>1, <3>2, Zenon DEF Hash!elem_delete, Hash!emptied_bucket, Hash!Empty, HashEmptied, written
    <3> QED BY <3>2, <3>3, Zenon DEF HashOutcome
  <2> QED BY <2>2, <2>3
<1> QED BY <1>1, <1>2, OneMapCalled, Zenon DEF Hash!Next

\* The buckets are a table, and it shows the last call.
HashInv == Table(N, Keys, Values, None, buckets)
Visible(c, d) ==
  /\ c.op = "update" /\ c.stored => value_of(d, c.key) = c.value
  /\ c.op = "delete" => value_of(d, c.key) = None

\* Each outcome keeps the table and is visible in it.
LEMMA HashStep ==
  ASSUME HashInv, [Next]_vars
  PROVE  HashInv' /\ (Visible(call, buckets) => Visible(call, buckets)')
<1>1. CASE UNCHANGED hash_vars
  BY <1>1, Zenon DEF hash_vars, HashInv, Visible
<1>2. ASSUME NEW k \in Keys, HashOutcome(k) PROVE HashInv' /\ Visible(call', buckets')
  <2>1. N \in Nat \ {0} /\ HaveLeast(N) /\ hash_func[k] \in Nat /\ None \notin Keys \cup Values
        /\ Table(N, Keys, Values, None, buckets)
    BY TableSize, HashAssumption, NoneAssumption, Zenon DEF HashInv
  <2>2. CASE HashMissed(k)
    BY <2>2 DEF HashMissed, HashInv, Visible
  <2>3. ASSUME NEW v \in Values, HashRefused(k, v) PROVE HashInv' /\ Visible(call', buckets')
    BY <2>3 DEF HashRefused, HashInv, Visible
  <2>4. ASSUME NEW b \in 0..(N - 1), HashEmptied(k, b) PROVE HashInv' /\ Visible(call', buckets')
    <3>1. Ends(N, hash_func[k], buckets, k, None, b) /\ buckets' = written(buckets, b, None, None)
      BY <2>4, Zenon DEF HashEmptied
    <3>2. call'.op = "delete" /\ call'.key = k
      BY <2>4 DEF HashEmptied
    <3>3. Answers(N, hash_func[k], Keys, Values, None, written(buckets, b, None, None), k, None)
      BY <2>1, <3>1, WriteVisible, Zenon
    <3> QED BY <3>1, <3>2, <3>3 DEF Visible, Answers, HashInv, value_of
  <2>5. ASSUME NEW v \in Values, NEW b \in 0..(N - 1), HashStored(k, v, b) PROVE HashInv' /\ Visible(call', buckets')
    <3>1. Ends(N, hash_func[k], buckets, k, None, b) /\ buckets' = written(buckets, b, k, v)
      BY <2>5, Zenon DEF HashStored
    <3>2. Answers(N, hash_func[k], Keys, Values, None, written(buckets, b, k, v), k, v)
      BY <2>1, <3>1, WriteVisible, Zenon
    <3> QED BY <2>5, <3>1, <3>2 DEF Visible, Answers, HashInv, value_of, HashStored
  <2> QED BY <1>2, <2>2, <2>3, <2>4, <2>5, Zenon DEF HashOutcome
<1> QED BY <1>1, <1>2, HashOutcomes, Zenon DEF Visible

\* The table before the first call.
LEMMA HashInit ==
  ASSUME Hash!Init
  PROVE  /\ HashInv /\ Visible(call, buckets)
         /\ \A b \in 0..(N - 1) : buckets[b].key = None
<1>1. buckets = [i \in 0..(N - 1) |-> [key |-> None, value |-> None]]
  BY Zenon DEF Hash!Init, Hash!Index, Hash!Empty, N
<1>2. \A b \in 0..(N - 1) : buckets[b].key = None /\ buckets[b].value = None
  BY <1>1
<1> QED BY <1>1, <1>2 DEF HashInv, Table, Hash!Init, Hash!NoCall, Visible

\* A hash map shows the call just made, in any table with any hash function and after any deletions:
\* a key that was stored has its value, and a key that was deleted is gone.
THEOREM HashShowsLastCall == Spec => []HashLastCallVisible
<1>1. Init => HashInv /\ Visible(call, buckets)
  BY HashInit DEF Init
<1>2. HashInv /\ Visible(call, buckets) /\ [Next]_vars => HashInv' /\ Visible(call, buckets)'
  BY HashStep
<1>3. Visible(call, buckets) => HashLastCallVisible
  BY SearchTables, Zenon DEF Visible, HashLastCallVisible, Hash!LastCallVisible
<1> QED BY <1>1, <1>2, <1>3, PTL DEF Spec

\* The keys with a value.
Filled(d) == {k \in Keys : value_of(d, k) # None}

\* Until the first deletion every key is where its search ends, and _count covers the keys.
MapInv ==
  ~deleted => /\ Placed(N, hash_func, None, buckets)
              /\ _count \in Nat /\ IsFiniteSet(Filled(buckets)) /\ Cardinality(Filled(buckets)) <= _count

\* The abstract map of a state.
LEMMA MapOfTable ==
  /\ Hash!lookups = [k \in Keys |-> value_of(buckets, k)]
  /\ Hash!lookups' = [k \in Keys |-> value_of(buckets', k)]
  /\ Hash!Map!Present = Filled(buckets)
<1>1. Hash!lookups = [k \in Keys |-> value_of(buckets, k)]
  BY SearchTables, Zenon DEF Hash!lookups
<1> QED BY <1>1, SearchTables DEF Hash!lookups, Hash!Map!Present, Filled

\* A write gives its key the value, keeps the other keys, and keeps every key placed.
LEMMA StoredIsUpdate ==
  ASSUME HashInv, MapInv, ~deleted, NEW k \in Keys, NEW v \in Values, NEW b \in 0..(N - 1), HashStored(k, v, b)
  PROVE  MapInv' /\ Hash!Map!Update(k, v)
<1>1. N \in Nat \ {0} /\ HaveLeast(N) /\ hash_func \in [Keys -> Nat] /\ None \notin Keys \cup Values
      /\ Table(N, Keys, Values, None, buckets) /\ num_buckets \in Nat
  BY TableSize, HashAssumption, NoneAssumption, NumBucketsAssumption, Zenon DEF HashInv
<1>2. Placed(N, hash_func, None, buckets) /\ _count \in Nat /\ IsFiniteSet(Filled(buckets))
      /\ Cardinality(Filled(buckets)) <= _count
  BY Zenon DEF MapInv
<1>3. Ends(N, hash_func[k], buckets, k, None, b) /\ buckets' = written(buckets, b, k, v)
  BY Zenon DEF HashStored
<1>4. Placed(N, hash_func, None, buckets')
  BY <1>1, <1>2, <1>3, PlacedWrite, Zenon
<1>5. value_of(buckets', k) = v /\ (\A j \in Keys : j # k => value_of(buckets', j) = value_of(buckets, j))
      /\ (buckets[b].key # None => k \in Filled(buckets))
  <2>1. Stores(N, hash_func, Keys, None, buckets, buckets', b, k, v)
    BY <1>1, <1>2, <1>3, WriteStores, Zenon
  <2> QED BY <2>1, Zenon DEF Stores, value_of, Filled
<1>6. PICK m \in Nat : m = Cardinality(Filled(buckets))
  BY <1>2, FS_CardinalityType, Zenon
<1>7. IsFiniteSet(Filled(buckets')) /\ Cardinality(Filled(buckets')) = IF k \in Filled(buckets) THEN m ELSE m + 1
  <2>1. PICK S : S = Filled(buckets)
    BY Zenon
  <2>2. IsFiniteSet(S \cup {k}) /\ Cardinality(S \cup {k}) = IF k \in S THEN Cardinality(S) ELSE Cardinality(S) + 1
    BY <1>2, <2>1, FS_AddElement, Zenon
  <2> QED BY <1>1, <1>5, <1>6, <2>1, <2>2 DEF Filled
<1>8. _count' \in Nat /\ (k \in Filled(buckets) => m <= _count') /\ (k \notin Filled(buckets) => m + 1 <= _count' /\ m < num_buckets)
  <2>1. buckets[b].key = None => _count < num_buckets /\ _count' = _count + 1
    BY <1>1, <1>2 DEF HashStored
  <2>2. buckets[b].key # None => k \in Filled(buckets) /\ _count' = _count
    BY <1>5, Zenon DEF HashStored
  <2>3. m <= _count
    BY <1>2, <1>6, Zenon
  <2> QED BY <1>1, <1>2, <2>1, <2>2, <2>3
<1>9. Cardinality(Filled(buckets')) <= _count'
  BY <1>7, <1>8, Zenon
<1>10. MapInv'
  BY <1>4, <1>7, <1>8, <1>9, Zenon DEF MapInv, Filled, value_of
<1>11. Hash!lookups' = [Hash!lookups EXCEPT ![k] = v]
  BY <1>5, MapOfTable, Zenon
<1>12. Hash!Map!Update(k, v)
  <2>1. \A S : Hash!Map!Cardinality(S) = Cardinality(S)
    BY Zenon DEF Hash!Map!Cardinality, Cardinality
  <2> QED BY <1>6, <1>8, <1>11, <2>1, MapOfTable, Zenon DEF Hash!Map!Update
<1> QED BY <1>10, <1>12

\* A step before the first deletion is a step of the abstract map.
LEMMA MapStep ==
  ASSUME HashInv, MapInv, [Next]_vars
  PROVE  MapInv' /\ [deleted' \/ buckets' = buckets \/ Hash!Map!Next]_(Hash!lookups)
<1>1. CASE UNCHANGED hash_vars
  BY <1>1, Zenon DEF MapInv, Filled, value_of, hash_vars
<1>2. ASSUME NEW k \in Keys, HashOutcome(k) PROVE MapInv' /\ (deleted' \/ buckets' = buckets \/ Hash!Map!Next)
  <2>1. CASE HashMissed(k)
    BY <2>1, Zenon DEF HashMissed, MapInv, Filled, value_of
  <2>2. ASSUME NEW v \in Values, HashRefused(k, v) PROVE MapInv' /\ buckets' = buckets
    BY <2>2, Zenon DEF HashRefused, MapInv, Filled, value_of
  <2>3. ASSUME NEW b \in 0..(N - 1), HashEmptied(k, b) PROVE MapInv' /\ deleted'
    BY <2>3, Zenon DEF HashEmptied, MapInv
  <2>4. ASSUME NEW v \in Values, NEW b \in 0..(N - 1), HashStored(k, v, b) PROVE MapInv' /\ (deleted' \/ Hash!Map!Next)
    <3>1. CASE deleted
      BY <2>4, <3>1, Zenon DEF HashStored, MapInv
    <3>2. CASE ~deleted
      BY <2>4, <3>2, StoredIsUpdate, Zenon DEF Hash!Map!Next
    <3> QED BY <3>1, <3>2, Zenon
  <2> QED BY <1>2, <2>1, <2>2, <2>3, <2>4, Zenon DEF HashOutcome
<1> QED BY <1>1, <1>2, HashOutcomes, Zenon

\* The abstract map before the first call.
LEMMA MapInit ==
  ASSUME Hash!Init
  PROVE  MapInv /\ Hash!Map!Init
<1>1. /\ Table(N, Keys, Values, None, buckets)
      /\ \A b \in 0..(N - 1) : buckets[b].key = None
  BY HashInit, Zenon DEF HashInv
<1>2. Placed(N, hash_func, None, buckets)
  BY <1>1, Zenon DEF Placed
<1>3. None \notin Keys
  BY NoneAssumption, Zenon
<1>4. \A k \in Keys : value_of(buckets, k) = None
  <2>1. Reads(N, hash_func, Keys, None, buckets)
    BY <1>1, <1>2, <1>3, TableSize, HashAssumption, PlacedReads, Zenon
  <2>2. \A k \in Keys, b \in 0..(N - 1) : buckets[b].key # k
    BY <1>1, <1>3, Zenon
  <2> QED BY <2>1, <2>2, Zenon DEF Reads, value_of
<1>5. MapInv
  BY <1>2, <1>4, FS_EmptySet DEF MapInv, Hash!Init, Filled
<1> QED BY <1>4, <1>5, MapOfTable DEF Hash!Map!Init

\* Until its first deletion a hash map is a bounded map, for any hash function: an update stores the
\* value of its own key and of no other, and is accepted only while there is room.
THEOREM HashIsMapWithoutDeletes == Spec => HashIsMapUntilDelete
<1>1. Init => HashInv /\ MapInv /\ Hash!Map!Init
  BY HashInit, MapInit DEF Init
<1>2. HashInv /\ MapInv /\ [Next]_vars => HashInv' /\ MapInv'
  BY HashStep, MapStep
<1>3. HashInv /\ MapInv /\ [Next]_vars => [deleted' \/ buckets' = buckets \/ Hash!Map!Next]_(Hash!lookups)
  BY MapStep
<1> QED BY <1>1, <1>2, <1>3, PTL DEF Spec, HashIsMapUntilDelete, Hash!MapUntilDelete
=============================================================================
