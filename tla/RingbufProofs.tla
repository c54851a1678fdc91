---------------------------- MODULE RingbufProofs ----------------------------
(***************************************************************************)
(* Proofs about the ring buffer, for every size of the ring, any set of    *)
(* producers and sizes, and producers that are killed at any point: no     *)
(* record is overwritten while it is reserved or being read.               *)
(***************************************************************************)
EXTENDS Ringbuf, ModArithmetic

hdr(b) == data[header_of(b)]
next_pos(b) == b + roundup_len(hdr(b).len)

\* The n words of the record at b are there as its producer wrote them.
Filled(b, n) == \A i \in sample_words(reserved_sample(b), n) : data[i] = payload_word(b)

Reserving == {"locked", "publish"}
Published == {"write", "submit"}

ProducerState ==
  [pc : {"idle", "dead"} \cup Reserving \cup Published, size : Nat, cons_pos : Nat, start : Nat, via : {"output", "helper"}]

RingTypes ==
  /\ data \in [0..(2 * max_ent - 1) -> Word]
  /\ consumer_pos \in Nat /\ producer_pos \in Nat
  /\ prod \in [Producers -> ProducerState]
  /\ cons \in [pc : {"idle", "load", "loop", "callback", "store"}, cons_pos : Nat, prod_pos : Nat, got : BOOLEAN,
               start : Nat, len : Nat]

\* Both positions are boundaries of records, at most the ring apart.
Positions(B) ==
  /\ B \subseteq Nat
  /\ consumer_pos \in B /\ producer_pos \in B
  /\ consumer_pos <= producer_pos /\ producer_pos <= consumer_pos + max_ent
  /\ \A b \in B : b <= producer_pos

\* A record begins at b: the next boundary is where its header says, and once
\* it is submitted its words are filled.
RecordAt(B, b) ==
  /\ next_pos(b) \in B
  /\ \A c \in B : b < c => next_pos(b) <= c
  /\ ~hdr(b).busy => Filled(b, hdr(b).len)

Records(B) == \A b \in B : consumer_pos <= b /\ b < producer_pos => RecordAt(B, b)

\* What a producer has reserved is a record nobody else has, or the one behind
\* producer_pos that the lock lets nobody else reserve.
Reservation(B, p) ==
  /\ prod[p].pc \in Reserving => reserve_spin_lock = p
  /\ prod[p].pc = "locked" => prod[p].cons_pos <= consumer_pos
  /\ prod[p].pc = "publish" =>
       /\ prod[p].start = producer_pos
       /\ producer_pos + roundup_len(prod[p].size) <= consumer_pos + max_ent
  /\ prod[p].pc \in Published =>
       /\ prod[p].start \in B /\ consumer_pos <= prod[p].start /\ prod[p].start < producer_pos
       /\ \A q \in Producers : q # p /\ prod[q].pc \in Published => prod[q].start # prod[p].start
  /\ prod[p].pc \in Published \cup {"publish"} => hdr(prod[p].start) = ringbuf_hdr(prod[p].size, TRUE, FALSE)
  /\ prod[p].pc = "submit" => Filled(prod[p].start, prod[p].size)

\* What the consumer has read of the record at consumer_pos still holds.
Fetching ==
  /\ cons.pc \in {"load", "loop"} => cons.cons_pos = consumer_pos
  /\ cons.pc \in {"loop", "callback", "store"} => cons.prod_pos <= producer_pos
  /\ cons.pc \in {"callback", "store"} =>
       /\ cons.start = consumer_pos /\ consumer_pos < producer_pos
       /\ ~hdr(consumer_pos).busy
       /\ cons.len = hdr(consumer_pos).len
       /\ cons.cons_pos = next_pos(consumer_pos)

RingInv(B) ==
  /\ RingTypes
  /\ Positions(B)
  /\ Records(B)
  /\ \A p \in Producers : Reservation(B, p)
  /\ Fetching

\* The inductive invariant: some set of positions cuts the ring into records.
Divided == \E B \in SUBSET Nat : RingInv(B)

-----------------------------------------------------------------------------
(* Places of the data area. *)

\* Header and sample of a record, as places of the ring.
LEMMA Places ==
  ASSUME NEW b \in Nat
  PROVE  /\ header_of(b) \in 0..(max_ent - 1) /\ header_of(b) \in 0..(2 * max_ent - 1)
         /\ header_of(b) % max_ent = b % max_ent
         /\ reserved_sample(b) \in 0..(max_ent - 1)
         /\ \A i \in Nat : (reserved_sample(b) + i) % max_ent = (b + 1 + i) % max_ent
<1> USE MaxEntAssumption
<1>1. header_of(b) \in 0..(max_ent - 1) /\ header_of(b) % max_ent = b % max_ent
  BY ModRange, ModSmall, Zenon DEF header_of
<1>2. reserved_sample(b) \in 0..(max_ent - 1)
  <2>1. b + 1 \in Nat
    OBVIOUS
  <2> QED BY <2>1, ModRange DEF reserved_sample, BPF_RINGBUF_HDR_SZ
<1>3. ASSUME NEW i \in Nat
      PROVE  (reserved_sample(b) + i) % max_ent = (b + 1 + i) % max_ent
  <2>1. b + 1 \in Nat
    OBVIOUS
  <2> QED BY <2>1, ModShift, Zenon DEF reserved_sample, BPF_RINGBUF_HDR_SZ
<1>4. header_of(b) \in 0..(2 * max_ent - 1)
  BY <1>1
<1> QED BY <1>1, <1>2, <1>3, <1>4

\* The words of a sample are in the data area.
LEMMA SampleWords ==
  ASSUME NEW b \in Nat, NEW k \in Nat, k <= max_ent,
         NEW l \in sample_words(reserved_sample(b), k)
  PROVE  /\ l \in 0..(2 * max_ent - 1)
         /\ \E i \in 0..(k - 1) : l % max_ent = (b + 1 + i) % max_ent
<1> USE MaxEntAssumption
<1>1. PICK i \in 0..(k - 1) : l = reserved_sample(b) + i
  BY DEF sample_words
<1>2. i \in Nat /\ i < max_ent
  BY <1>1
<1>3. l % max_ent = (b + 1 + i) % max_ent
  BY <1>1, <1>2, Places
<1>4. reserved_sample(b) \in 0..(max_ent - 1)
  BY Places
<1>5. l \in 0..(2 * max_ent - 1)
  BY <1>1, <1>2, <1>4
<1> QED BY <1>3, <1>5, Zenon

\* Two positions within one round of the ring are different places.
LEMMA WindowApart ==
  ASSUME NEW c \in Nat, NEW x \in Nat, NEW y \in Nat, c <= x, c <= y, x < c + max_ent, y < c + max_ent, x # y
  PROVE  x % max_ent # y % max_ent
<1> USE MaxEntAssumption
<1>1. CASE x < y
  <2>1. y < x + max_ent
    OBVIOUS
  <2> QED BY <1>1, <2>1, ModApart, Zenon
<1>2. CASE y < x
  <2>1. x < y + max_ent
    OBVIOUS
  <2> QED BY <1>2, <2>1, ModApart, Zenon
<1> QED BY <1>1, <1>2

\* The places of the positions from s up to n.
places(s, n) == {x % max_ent : x \in s..(n - 1)}

\* A write to the positions from s up to n leaves alone the header of a record
\* elsewhere in the window,
LEMMA HeaderUntouched ==
  ASSUME NEW c \in Nat, NEW s \in Nat, NEW n \in Nat, c <= s, n <= c + max_ent,
         NEW b \in Nat, c <= b, b < c + max_ent, b < s \/ n <= b
  PROVE  header_of(b) \in 0..(2 * max_ent - 1) /\ header_of(b) % max_ent \notin places(s, n)
<1> USE MaxEntAssumption
<1>1. header_of(b) \in 0..(max_ent - 1) /\ header_of(b) % max_ent = b % max_ent
  BY Places, Zenon
<1>2. ASSUME NEW x \in s..(n - 1) PROVE x % max_ent # b % max_ent
  <2>1. x \in Nat /\ c <= x /\ x < c + max_ent /\ x # b
    OBVIOUS
  <2> QED BY <2>1, WindowApart, Zenon
<1>3. header_of(b) \in 0..(2 * max_ent - 1)
  BY <1>1
<1>4. header_of(b) % max_ent \notin places(s, n)
  BY <1>1, <1>2, Zenon DEF places
<1> QED BY <1>3, <1>4

\* and the words of a record elsewhere.
LEMMA WordsUntouched ==
  ASSUME NEW c \in Nat, NEW s \in Nat, NEW n \in Nat, c <= s, n <= c + max_ent,
         NEW b \in Nat, NEW k \in Nat, c <= b, b + 1 + k <= c + max_ent, b + 1 + k <= s \/ n <= b + 1,
         NEW l \in sample_words(reserved_sample(b), k)
  PROVE  l \in 0..(2 * max_ent - 1) /\ l % max_ent \notin places(s, n)
<1> USE MaxEntAssumption
<1>1. k <= max_ent
  OBVIOUS
<1>2. l \in 0..(2 * max_ent - 1) /\ \E i \in 0..(k - 1) : l % max_ent = (b + 1 + i) % max_ent
  BY <1>1, SampleWords, Zenon
<1>3. PICK i \in 0..(k - 1) : l % max_ent = (b + 1 + i) % max_ent
  BY <1>2, Zenon
<1>4. ASSUME NEW x \in s..(n - 1) PROVE x % max_ent # (b + 1 + i) % max_ent
  <2> DEFINE y == b + 1 + i
  <2>1. x \in Nat /\ c <= x /\ x < c + max_ent
    OBVIOUS
  <2>2. y \in Nat /\ c <= y /\ y < c + max_ent /\ x # y
    OBVIOUS
  <2> HIDE DEF y
  <2>3. x % max_ent # y % max_ent
    BY <2>1, <2>2, WindowApart, Zenon
  <2> QED BY <2>3 DEF y
<1> QED BY <1>2, <1>3, <1>4, Zenon DEF places

\* submit finds the header in front of the sample.
LEMMA HeaderFromSample ==
  ASSUME NEW b \in Nat
  PROVE  header_from_sample(reserved_sample(b)) = header_of(b)
<1> USE MaxEntAssumption
<1> DEFINE h == b % max_ent
<1>1. h \in 0..(max_ent - 1)
  BY ModRange
<1>2. reserved_sample(b) = IF h = max_ent - 1 THEN 0 ELSE h + 1
  BY ModNext, Zenon DEF reserved_sample, BPF_RINGBUF_HDR_SZ
<1>3. header_of(b) = h
  BY DEF header_of
<1> HIDE DEF h
<1>4. CASE h = max_ent - 1
  <2>1. max_ent + 0 - 1 = max_ent - 1 /\ max_ent - 1 \in 0..(max_ent - 1)
    OBVIOUS
  <2>2. (max_ent - 1) % max_ent = max_ent - 1
    BY <2>1, ModSmall
  <2>3. header_from_sample(0) = (max_ent - 1) % max_ent
    BY <2>1 DEF header_from_sample, BPF_RINGBUF_HDR_SZ
  <2> QED BY <1>2, <1>3, <1>4, <2>2, <2>3
<1>5. CASE h # max_ent - 1
  <2>1. max_ent + (h + 1) - 1 = h + max_ent
    BY <1>1
  <2>2. (h + max_ent) % max_ent = h
    BY <1>1, ModAround
  <2>3. header_from_sample(h + 1) = (h + max_ent) % max_ent
    BY <2>1 DEF header_from_sample, BPF_RINGBUF_HDR_SZ
  <2> QED BY <1>2, <1>3, <1>5, <2>2, <2>3
<1> QED BY <1>4, <1>5

-----------------------------------------------------------------------------
(* Steps that leave the data area and the positions alone. *)

\* The empty ring.
LEMMA RingInit ==
  Init => RingInv({0})
<1> SUFFICES ASSUME Init PROVE RingInv({0})
  OBVIOUS
<1> USE MaxEntAssumption DEF Init
<1>1. ZeroWord \in Word
  BY DEF ZeroWord, ringbuf_hdr, Word, NoRecord
<1>2. RingTypes
  BY <1>1 DEF RingTypes, ProducerState, IdleProducer, IdleConsumer, Reserving, Published
<1>3. Positions({0})
  BY DEF Positions
<1>4. Records({0})
  BY DEF Records
<1>5. ASSUME NEW p \in Producers PROVE Reservation({0}, p)
  BY Zenon DEF Reservation, IdleProducer, Reserving, Published
<1>6. Fetching
  BY DEF Fetching, IdleConsumer
<1> QED BY <1>2, <1>3, <1>4, <1>5, <1>6 DEF RingInv

\* What the ring holds, as long as neither data nor positions change.
LEMMA SameRing ==
  ASSUME NEW B \in SUBSET Nat, RingInv(B), UNCHANGED <<data, consumer_pos, producer_pos>>
  PROVE  /\ Positions(B)' /\ Records(B)'
         /\ \A b : hdr(b)' = hdr(b) /\ next_pos(b)' = next_pos(b)
         /\ \A b, n : Filled(b, n)' = Filled(b, n)
BY DEF RingInv, Positions, Records, RecordAt, hdr, next_pos, Filled

\* A producer whose own state does not change keeps its reservation.
LEMMA OtherReservation ==
  ASSUME NEW B \in SUBSET Nat, RingInv(B), UNCHANGED <<data, consumer_pos, producer_pos>>,
         NEW p \in Producers, prod'[p] = prod[p],
         prod[p].pc \in Reserving => reserve_spin_lock' = reserve_spin_lock,
         \A q \in Producers : prod'[q].pc \in Published => prod[q].pc \in Published /\ prod'[q].start = prod[q].start
  PROVE  Reservation(B, p)'
<1>1. Reservation(B, p)
  BY DEF RingInv
<1>2. hdr(prod[p].start)' = hdr(prod[p].start)
  BY DEF hdr
<1>3. Filled(prod[p].start, prod[p].size)' = Filled(prod[p].start, prod[p].size)
  BY DEF Filled
<1>4. prod'[p].pc \in Published =>
        \A q \in Producers : q # p /\ prod'[q].pc \in Published => prod'[q].start # prod'[p].start
  BY <1>1 DEF Reservation
<1> QED BY <1>1, <1>2, <1>3, <1>4, Zenon DEF Reservation

\* reserve takes the lock; the consumer's position it loads can only be behind.
LEMMA LockKeepsInv ==
  ASSUME NEW B \in SUBSET Nat, RingInv(B),
         NEW p \in Producers, NEW size \in Sizes, NEW via \in {"output", "helper"}, reserve_lock(p, size, via)
  PROVE  RingInv(B)'
<1> USE DEF reserve_lock
<1>1. RingTypes'
  BY SizesAssumption DEF RingInv, RingTypes, ProducerState, Reserving
<1>2. Positions(B)' /\ Records(B)'
  BY SameRing
<1>3. ASSUME NEW q \in Producers PROVE Reservation(B, q)'
  <2>1. RingTypes /\ consumer_pos \in Nat
    BY DEF RingInv, RingTypes
  <2>2. CASE q = p
    BY <2>1, <2>2 DEF RingTypes, Reservation, Reserving, Published
  <2>3. CASE q # p
    <3>1. prod[q].pc \notin Reserving
      BY FreeAssumption, Zenon DEF RingInv, Reservation
    <3>2. prod'[q] = prod[q]
      BY <2>1, <2>3 DEF RingTypes
    <3>3. \A r \in Producers : prod'[r].pc \in Published => prod[r].pc \in Published /\ prod'[r].start = prod[r].start
      BY <2>1 DEF RingTypes, Published
    <3> QED BY <3>1, <3>2, <3>3, OtherReservation
  <2> QED BY <2>2, <2>3
<1>4. Fetching'
  BY DEF RingInv, Fetching, hdr, next_pos
<1> QED BY <1>1, <1>2, <1>3, <1>4 DEF RingInv

\* A producer that goes back to idle, or is killed, takes nothing with it.
LEMMA LeaveKeepsInv ==
  ASSUME NEW B \in SUBSET Nat, RingInv(B), NEW p \in Producers, reserve_fail(p) \/ crash(p)
  PROVE  RingInv(B)'
<1>1. /\ prod' = [prod EXCEPT ![p] = IdleProducer] \/ prod' = [prod EXCEPT ![p] = [IdleProducer EXCEPT !.pc = "dead"]]
      /\ UNCHANGED <<data, consumer_pos, producer_pos, cons>>
      /\ reserve_spin_lock' = reserve_spin_lock \/ (reserve_spin_lock = p /\ reserve_spin_lock' = Free)
  BY Zenon DEF RingInv, Reservation, Reserving, reserve_fail, crash
<1>2. RingTypes'
  <2>1. \A pc \in {"idle", "dead"} :
          [IdleProducer EXCEPT !.pc = pc] \in ProducerState
    BY DEF IdleProducer, ProducerState
  <2>2. [IdleProducer EXCEPT !.pc = "idle"] = IdleProducer
    BY DEF IdleProducer
  <2>3. PICK state \in ProducerState : prod' = [prod EXCEPT ![p] = state]
    BY <1>1, <2>1, <2>2
  <2> QED BY <1>1, <2>3 DEF RingInv, RingTypes
<1>3. Positions(B)' /\ Records(B)'
  BY <1>1, SameRing
<1>4. ASSUME NEW q \in Producers PROVE Reservation(B, q)'
  <2>1. RingTypes
    BY DEF RingInv
  <2>2. prod'[p].pc \in {"idle", "dead"}
    BY <1>1, <2>1 DEF RingTypes, IdleProducer
  <2>3. CASE q = p
    BY <2>2, <2>3, Zenon DEF Reservation, Reserving, Published
  <2>4. CASE q # p
    <3>1. prod'[q] = prod[q]
      BY <1>1, <2>1, <2>4 DEF RingTypes
    <3>2. \A r \in Producers : prod'[r].pc \in Published => prod[r].pc \in Published /\ prod'[r].start = prod[r].start
      BY <1>1, <2>1, <2>2 DEF RingTypes, Published
    <3>3. prod[q].pc \in Reserving => reserve_spin_lock' = reserve_spin_lock
      BY <1>1, <2>4, Zenon DEF RingInv, Reservation
    <3> QED BY <1>1, <3>1, <3>2, <3>3, OtherReservation
  <2> QED BY <2>3, <2>4
<1>5. Fetching'
  BY <1>1 DEF RingInv, Fetching, hdr, next_pos
<1> QED BY <1>2, <1>3, <1>4, <1>5 DEF RingInv

\* The consumer reads positions and headers.
LEMMA ReadKeepsInv ==
  ASSUME NEW B \in SUBSET Nat, RingInv(B), fetch_begin \/ fetch_load \/ fetch_record \/ fetch_drained
  PROVE  RingInv(B)'
<1>1. UNCHANGED <<data, consumer_pos, producer_pos, reserve_spin_lock, prod>>
  BY DEF fetch_begin, fetch_load, fetch_record, fetch_drained
<1>2. Positions(B)' /\ Records(B)'
  BY <1>1, SameRing
<1>3. ASSUME NEW q \in Producers PROVE Reservation(B, q)'
  BY <1>1, OtherReservation
<1>4. RingTypes /\ consumer_pos \in Nat /\ producer_pos \in Nat
  BY DEF RingInv, RingTypes
<1>5. header_of(consumer_pos) \in 0..(2 * max_ent - 1)
  BY <1>4, Places
<1>6. hdr(consumer_pos) \in Word
  BY <1>4, <1>5 DEF RingTypes, hdr
<1>7. cons.pc = "loop" => cons.cons_pos = consumer_pos
  BY DEF RingInv, Fetching
<1>8. RingTypes' /\ Fetching'
  <2>1. CASE fetch_begin
    BY <1>1, <1>4, <2>1, Zenon DEF fetch_begin, RingTypes, Fetching
  <2>2. CASE fetch_load
    <3>1. RingTypes'
      BY <1>1, <1>4, <2>2, Zenon DEF fetch_load, RingTypes
    <3>2. cons.cons_pos = consumer_pos /\ cons'.pc = "loop" /\ cons'.cons_pos = cons.cons_pos /\ cons'.prod_pos = producer_pos
      BY <1>4, <2>2 DEF fetch_load, RingTypes, RingInv, Fetching
    <3> QED BY <1>1, <1>4, <3>1, <3>2 DEF Fetching
  <2>3. CASE fetch_record
    <3>1. hdr(consumer_pos).len \in Nat /\ hdr(consumer_pos).busy \in BOOLEAN
      BY <1>6 DEF Word
    <3>2. CASE hdr(consumer_pos).busy
      <4>1. cons' = IdleConsumer
        BY <1>7, <2>3, <3>2 DEF fetch_record, hdr
      <4> QED BY <1>1, <1>4, <4>1 DEF IdleConsumer, RingTypes, Fetching
    <3>3. CASE ~hdr(consumer_pos).busy
      <4>1. /\ cons.cons_pos = consumer_pos /\ consumer_pos < producer_pos
            /\ cons'.pc \in {"callback", "store"} /\ cons'.got = TRUE
            /\ cons'.prod_pos = cons.prod_pos /\ cons.prod_pos <= producer_pos
            /\ cons'.start = consumer_pos /\ cons'.len = hdr(consumer_pos).len
            /\ cons'.cons_pos = next_pos(consumer_pos)
        BY <1>4, <1>7, <2>3, <3>3 DEF fetch_record, hdr, next_pos, RingInv, RingTypes, Fetching
      <4>2. cons' = [pc |-> cons'.pc, cons_pos |-> cons'.cons_pos, prod_pos |-> cons'.prod_pos, got |-> TRUE,
                     start |-> cons'.start, len |-> cons'.len]
        BY <1>4, <1>7, <2>3, <3>3, Zenon DEF fetch_record, hdr, RingTypes
      <4>3. next_pos(consumer_pos) \in Nat /\ cons.prod_pos \in Nat
        BY <1>4, <3>1 DEF next_pos, roundup_len, BPF_RINGBUF_HDR_SZ, RingTypes
      <4>4. RingTypes'
        BY <1>1, <1>4, <3>1, <4>1, <4>2, <4>3, Zenon DEF RingTypes
      <4> QED BY <1>1, <3>3, <4>1, <4>4 DEF Fetching, hdr, next_pos
    <3> QED BY <3>1, <3>2, <3>3
  <2>4. CASE fetch_drained
    BY <1>1, <1>4, <2>4 DEF fetch_drained, RingInv, RingTypes, Fetching, IdleConsumer
  <2> QED BY <2>1, <2>2, <2>3, <2>4
<1> QED BY <1>2, <1>3, <1>8 DEF RingInv

-----------------------------------------------------------------------------
(* Steps that move the positions. *)

\* The header a position points to, and the next position it yields.
LEMMA Headers ==
  ASSUME RingTypes, NEW b \in Nat
  PROVE  /\ hdr(b) \in Word /\ hdr(b).len \in Nat
         /\ next_pos(b) = b + 1 + hdr(b).len /\ next_pos(b) \in Nat /\ b < next_pos(b)
<1>1. header_of(b) \in 0..(2 * max_ent - 1)
  BY Places
<1>2. hdr(b) \in Word
  BY <1>1 DEF RingTypes, hdr
<1>3. hdr(b).len \in Nat
  BY <1>2 DEF Word
<1>4. next_pos(b) = b + 1 + hdr(b).len
  BY <1>3 DEF next_pos, roundup_len, BPF_RINGBUF_HDR_SZ
<1> QED BY <1>2, <1>3, <1>4

\* The consumer gives a record back: no producer has it any more, for it was submitted.
LEMMA ConsumeKeepsInv ==
  ASSUME NEW B \in SUBSET Nat, RingInv(B), fetch_discarded \/ \E err \in BOOLEAN : fetch_callback(err)
  PROVE  RingInv(B)'
<1> DEFINE n == next_pos(consumer_pos)
<1>1. /\ cons.pc \in {"callback", "store"}
      /\ UNCHANGED <<data, producer_pos, reserve_spin_lock, prod>>
      /\ consumer_pos' = cons.cons_pos
      /\ cons' = IdleConsumer \/ cons' = [cons EXCEPT !.pc = "loop", !.start = 0, !.len = 0]
  BY DEF fetch_discarded, fetch_callback
<1>2. RingTypes /\ consumer_pos \in Nat /\ producer_pos \in Nat /\ cons.prod_pos <= producer_pos
  BY <1>1 DEF RingInv, RingTypes, Fetching
<1>3. consumer_pos' = n /\ consumer_pos < producer_pos /\ ~hdr(consumer_pos).busy
  BY <1>1 DEF RingInv, Fetching
<1>4. n \in Nat /\ consumer_pos < n
  BY <1>2, Headers
<1>5. n \in B /\ \A c \in B : consumer_pos < c => n <= c
  BY <1>2, <1>3 DEF RingInv, Records, RecordAt, Positions
<1> HIDE DEF n
<1>6. RingTypes'
  <2>1. CASE cons' = IdleConsumer
    BY <1>1, <1>2, <1>3, <1>4, <2>1 DEF RingTypes, IdleConsumer
  <2>2. CASE cons' = [cons EXCEPT !.pc = "loop", !.start = 0, !.len = 0]
    BY <1>1, <1>2, <1>3, <1>4, <2>2, Zenon DEF RingTypes
  <2> QED BY <1>1, <2>1, <2>2
<1>7. Positions(B)'
  BY <1>1, <1>2, <1>3, <1>4, <1>5, MaxEntAssumption DEF RingInv, Positions
<1>8. Records(B)'
  <2> SUFFICES ASSUME NEW b \in B, n <= b, b < producer_pos PROVE RecordAt(B, b)'
    BY <1>1, <1>3 DEF Records
  <2>1. RecordAt(B, b)
    BY <1>2, <1>4 DEF RingInv, Records
  <2> QED BY <1>1, <2>1 DEF RecordAt, next_pos, hdr, Filled
<1>9. ASSUME NEW p \in Producers PROVE Reservation(B, p)'
  <2>1. Reservation(B, p)
    BY DEF RingInv
  <2>2. hdr(prod[p].start)' = hdr(prod[p].start)
    BY <1>1 DEF hdr
  <2>3. Filled(prod[p].start, prod[p].size)' = Filled(prod[p].start, prod[p].size)
    BY <1>1 DEF Filled
  <2>4. prod[p].pc \in Published => n <= prod[p].start
    <3> SUFFICES ASSUME prod[p].pc \in Published PROVE n <= prod[p].start
      OBVIOUS
    <3>1. /\ prod[p].start \in B /\ consumer_pos <= prod[p].start
          /\ hdr(prod[p].start) = ringbuf_hdr(prod[p].size, TRUE, FALSE)
      BY <2>1, Zenon DEF Reservation
    <3>2. hdr(prod[p].start).busy
      BY <3>1 DEF ringbuf_hdr
    <3>3. prod[p].start # consumer_pos
      BY <1>3, <3>2
    <3>4. prod[p].start \in Nat
      BY <1>2 DEF RingTypes, ProducerState
    <3> QED BY <1>2, <1>5, <3>1, <3>3, <3>4
  <2>5. prod[p].pc = "locked" => prod[p].cons_pos <= n
    BY <1>2, <1>4, <2>1 DEF Reservation, RingTypes, ProducerState
  <2>6. prod[p].pc = "publish" => producer_pos + roundup_len(prod[p].size) <= n + max_ent
    BY <1>2, <1>4, <2>1, MaxEntAssumption DEF Reservation, RingTypes, ProducerState, roundup_len, BPF_RINGBUF_HDR_SZ
  <2> QED BY <1>1, <1>3, <2>1, <2>2, <2>3, <2>4, <2>5, <2>6, Zenon DEF Reservation
<1>10. Fetching'
  <2>1. CASE cons' = IdleConsumer
    BY <2>1 DEF Fetching, IdleConsumer
  <2>2. CASE cons' = [cons EXCEPT !.pc = "loop", !.start = 0, !.len = 0]
    <3>1. cons'.pc = "loop" /\ cons'.cons_pos = cons.cons_pos /\ cons'.prod_pos = cons.prod_pos
      BY <1>2, <2>2 DEF RingTypes
    <3> QED BY <1>1, <1>2, <3>1 DEF Fetching
  <2> QED BY <1>1, <2>1, <2>2
<1> QED BY <1>6, <1>7, <1>8, <1>9, <1>10 DEF RingInv

\* reserve publishes its record: one more boundary.
LEMMA PublishKeepsInv ==
  ASSUME NEW B \in SUBSET Nat, RingInv(B), NEW p \in Producers, reserve_publish(p)
  PROVE  \E C \in SUBSET Nat : RingInv(C)'
<1> USE DEF reserve_publish
<1>1. RingTypes /\ consumer_pos \in Nat /\ producer_pos \in Nat /\ prod[p].size \in Nat
  BY DEF RingInv, RingTypes, ProducerState
<1>0. PICK n \in Nat : n = producer_pos + 1 + prod[p].size
  BY <1>1
<1> DEFINE C == B \cup {n}
<1>2. /\ prod[p].start = producer_pos /\ reserve_spin_lock = p
      /\ producer_pos + roundup_len(prod[p].size) <= consumer_pos + max_ent
      /\ hdr(producer_pos) = ringbuf_hdr(prod[p].size, TRUE, FALSE)
  BY Zenon DEF RingInv, Reservation, Reserving
<1>3. n \in Nat /\ producer_pos < n /\ n <= consumer_pos + max_ent /\ producer_pos' = n
  BY <1>0, <1>1, <1>2, MaxEntAssumption DEF roundup_len, BPF_RINGBUF_HDR_SZ
<1>4. next_pos(producer_pos) = n /\ hdr(producer_pos).busy
  BY <1>0, <1>1, <1>2 DEF next_pos, ringbuf_hdr, roundup_len, BPF_RINGBUF_HDR_SZ
<1>5. Positions(B)
  BY DEF RingInv
<1>6. C \in SUBSET Nat
  BY <1>3
<1>7. RingTypes'
  <2>1. [prod[p] EXCEPT !.pc = "write"] \in ProducerState
    BY <1>1, Zenon DEF RingTypes, ProducerState, Published
  <2> QED BY <1>1, <1>3, <2>1 DEF RingTypes
<1>8. Positions(C)'
  BY <1>1, <1>3, <1>5, MaxEntAssumption DEF Positions
<1>9. Records(C)'
  <2> SUFFICES ASSUME NEW b \in C, consumer_pos <= b, b < n PROVE RecordAt(C, b)'
    BY <1>3 DEF Records
  <2>1. b \in B /\ b \in Nat /\ b <= producer_pos
    BY <1>3, <1>5 DEF Positions
  <2>2. CASE b = producer_pos
    <3>1. \A c \in C : b < c => n <= c
      BY <1>1, <1>3, <1>5, <2>2 DEF Positions
    <3> QED BY <1>4, <2>2, <3>1 DEF RecordAt, next_pos, hdr
  <2>3. CASE b < producer_pos
    <3>1. RecordAt(B, b)
      BY <2>1, <2>3 DEF RingInv, Records
    <3>2. next_pos(b) \in B /\ next_pos(b) \in Nat /\ next_pos(b) <= n
      BY <1>1, <1>3, <1>5, <3>1 DEF RecordAt, Positions
    <3>3. \A c \in C : b < c => next_pos(b) <= c
      BY <3>1, <3>2 DEF RecordAt
    <3> QED BY <3>1, <3>2, <3>3 DEF RecordAt, next_pos, hdr, Filled
  <2> QED BY <1>1, <2>1, <2>2, <2>3
<1>10. ASSUME NEW q \in Producers PROVE Reservation(C, q)'
  <2>1. Reservation(B, q)
    BY DEF RingInv
  <2>2. \A r \in Producers : r # p => prod'[r] = prod[r]
    BY <1>1 DEF RingTypes
  <2>3. /\ prod'[p].pc = "write" /\ prod'[p].start = producer_pos /\ prod'[p].size = prod[p].size
    BY <1>1, <1>2 DEF RingTypes, ProducerState
  <2>4. \A r \in Producers : prod[r].pc \in Published => prod[r].start # producer_pos
    <3> TAKE r \in Producers
    <3>1. prod[r].start \in Nat
      BY <1>1 DEF RingTypes, ProducerState
    <3>2. prod[r].pc \in Published => prod[r].start < producer_pos
      BY Zenon DEF RingInv, Reservation
    <3> QED BY <1>1, <3>1, <3>2
  <2>5. CASE q = p
    <3>1. hdr(prod[q].start)' = hdr(producer_pos)
      BY <2>3, <2>5 DEF hdr
    <3> QED BY <1>1, <1>2, <1>3, <1>5, <2>2, <2>3, <2>4, <2>5, <3>1, Zenon DEF Reservation, Reserving, Published, Positions
  <2>6. CASE q # p
    <3>1. prod[q].pc \notin Reserving
      BY <1>2, <2>1, <2>6 DEF Reservation
    <3>2. hdr(prod[q].start)' = hdr(prod[q].start)
      BY <2>2, <2>6 DEF hdr
    <3>3. Filled(prod[q].start, prod[q].size)' = Filled(prod[q].start, prod[q].size)
      BY <2>2, <2>6 DEF Filled
    <3>4. prod[q].pc \in Published =>
            \A r \in Producers : r # q /\ prod'[r].pc \in Published => prod'[r].start # prod[q].start
      BY <2>1, <2>2, <2>3, <2>4, <2>6 DEF Reservation
    <3>5. prod[q].pc \in Published => prod[q].start < n
      BY <1>1, <1>3, <2>1 DEF Reservation, RingTypes, ProducerState
    <3> QED BY <1>3, <2>1, <2>2, <2>6, <3>1, <3>2, <3>3, <3>4, <3>5, Zenon DEF Reservation, Reserving
  <2> QED BY <2>5, <2>6
<1>11. Fetching'
  BY <1>1, <1>3 DEF RingInv, Fetching, hdr, next_pos, RingTypes
<1> QED BY <1>6, <1>7, <1>8, <1>9, <1>10, <1>11 DEF RingInv

-----------------------------------------------------------------------------
(* Steps that write to the data area. *)

\* A step that writes only to the positions from s up to n, within the window.
Wrote(s, n) ==
  /\ consumer_pos <= s /\ n <= consumer_pos + max_ent
  /\ \A l \in 0..(2 * max_ent - 1) : l % max_ent \notin places(s, n) => data'[l] = data[l]

\* Headers and words elsewhere stay.
LEMMA WriteFrame ==
  ASSUME consumer_pos \in Nat, NEW s \in Nat, NEW n \in Nat, Wrote(s, n)
  PROVE  /\ \A b \in Nat : consumer_pos <= b /\ b < consumer_pos + max_ent /\ (b < s \/ n <= b) => hdr(b)' = hdr(b)
         /\ \A b, k \in Nat : /\ consumer_pos <= b /\ b + 1 + k <= consumer_pos + max_ent
                              /\ b + 1 + k <= s \/ n <= b + 1
                              /\ Filled(b, k)
                              => Filled(b, k)'
<1>1. ASSUME NEW b \in Nat, consumer_pos <= b, b < consumer_pos + max_ent, b < s \/ n <= b
      PROVE  hdr(b)' = hdr(b)
  <2>1. header_of(b) \in 0..(2 * max_ent - 1) /\ header_of(b) % max_ent \notin places(s, n)
    BY <1>1, HeaderUntouched DEF Wrote
  <2> QED BY <2>1 DEF Wrote, hdr
<1>2. ASSUME NEW b \in Nat, NEW k \in Nat, consumer_pos <= b, b + 1 + k <= consumer_pos + max_ent,
             b + 1 + k <= s \/ n <= b + 1, Filled(b, k),
             NEW l \in sample_words(reserved_sample(b), k)
      PROVE  data'[l] = payload_word(b)
  <2>1. l \in 0..(2 * max_ent - 1) /\ l % max_ent \notin places(s, n)
    BY <1>2, WordsUntouched DEF Wrote
  <2>2. data[l] = payload_word(b)
    BY <1>2 DEF Filled
  <2> QED BY <2>1, <2>2 DEF Wrote
<1> QED BY <1>1, <1>2 DEF Filled

\* A record in front of what is written or behind it stays.
LEMMA RecordKept ==
  ASSUME NEW B \in SUBSET Nat, RingInv(B), NEW s \in Nat, NEW n \in Nat, Wrote(s, n),
         NEW b \in B, consumer_pos <= b, b < producer_pos, next_pos(b) <= s \/ n <= b
  PROVE  RecordAt(B, b)' /\ hdr(b)' = hdr(b)
<1>1. RingTypes /\ consumer_pos \in Nat /\ producer_pos \in Nat /\ b \in Nat
  BY DEF RingInv, RingTypes
<1>2. RecordAt(B, b)
  BY DEF RingInv, Records
<1>3. /\ hdr(b).len \in Nat /\ next_pos(b) = b + 1 + hdr(b).len /\ next_pos(b) \in Nat /\ b < next_pos(b)
  BY <1>1, Headers
<1>4. next_pos(b) <= producer_pos /\ producer_pos <= consumer_pos + max_ent
  BY <1>2 DEF RecordAt, RingInv, Positions
<1>5. hdr(b)' = hdr(b)
  BY <1>1, <1>3, <1>4, WriteFrame, MaxEntAssumption
<1>6. next_pos(b)' = next_pos(b)
  BY <1>5 DEF next_pos
<1>7. Filled(b, hdr(b).len) => Filled(b, hdr(b).len)'
  <2> DEFINE k == hdr(b).len
  <2>1. k \in Nat /\ b + 1 + k <= consumer_pos + max_ent /\ (b + 1 + k <= s \/ n <= b + 1)
    BY <1>1, <1>3, <1>4, MaxEntAssumption
  <2>2. PICK m \in Nat : m = k
    BY <2>1
  <2>3. Filled(b, m) => Filled(b, m)'
    BY <1>1, <2>1, <2>2, WriteFrame, Zenon
  <2> QED BY <1>5, <2>2, <2>3
<1> QED BY <1>2, <1>5, <1>6, <1>7 DEF RecordAt

\* The record of k words that a producer has reserved at b, and its neighbours.
Owned(B, b, k) ==
  /\ b \in B /\ consumer_pos <= b /\ b < producer_pos /\ b + 1 + k <= producer_pos
  /\ hdr(b) = ringbuf_hdr(k, TRUE, FALSE) /\ hdr(b).busy /\ hdr(b).len = k
  /\ next_pos(b) = b + 1 + k
  /\ \A c \in B : b < c => b + 1 + k <= c
  /\ \A c \in B : consumer_pos <= c /\ c < b => next_pos(c) <= b

\* A producer owns what it has published and not yet submitted.
LEMMA PublishedRecord ==
  ASSUME NEW B \in SUBSET Nat, RingInv(B), NEW p \in Producers, prod[p].pc \in Published
  PROVE  Owned(B, prod[p].start, prod[p].size)
<1>0. PICK b \in Nat, k \in Nat : b = prod[p].start /\ k = prod[p].size
  BY DEF RingInv, RingTypes, ProducerState
<1>1. b \in B /\ consumer_pos <= b /\ b < producer_pos /\ hdr(b) = ringbuf_hdr(k, TRUE, FALSE)
  BY <1>0, Zenon DEF RingInv, Reservation
<1>2. hdr(b).busy /\ hdr(b).len = k
  BY <1>1 DEF ringbuf_hdr
<1>3. next_pos(b) = b + 1 + k
  BY <1>2 DEF next_pos, roundup_len, BPF_RINGBUF_HDR_SZ
<1>4. RecordAt(B, b)
  BY <1>1 DEF RingInv, Records
<1>5. b + 1 + k <= producer_pos
  BY <1>3, <1>4 DEF RecordAt, RingInv, Positions
<1>6. ASSUME NEW c \in B, consumer_pos <= c, c < b PROVE next_pos(c) <= b
  <2>1. RecordAt(B, c)
    BY <1>1, <1>6 DEF RingInv, RingTypes, Records
  <2> QED BY <1>1, <1>6, <2>1 DEF RecordAt
<1> QED BY <1>0, <1>1, <1>2, <1>3, <1>4, <1>5, <1>6, Zenon DEF Owned, RecordAt

\* So does a reservation.
LEMMA ReservationKept ==
  ASSUME NEW B \in SUBSET Nat, RingInv(B), NEW s \in Nat, NEW n \in Nat, Wrote(s, n),
         UNCHANGED <<consumer_pos, producer_pos, reserve_spin_lock>>,
         NEW p \in Producers, prod'[p] = prod[p],
         prod[p].pc \in Published \cup {"publish"} => prod[p].start + 1 + prod[p].size <= s \/ n <= prod[p].start,
         \A q \in Producers : prod'[q].pc \in Published => prod[q].pc \in Published /\ prod'[q].start = prod[q].start
  PROVE  Reservation(B, p)'
<1>1. Reservation(B, p) /\ RingTypes /\ Positions(B) /\ consumer_pos \in Nat /\ producer_pos \in Nat
  BY DEF RingInv, RingTypes
<1>2. PICK b \in Nat, k \in Nat : b = prod[p].start /\ k = prod[p].size
  BY <1>1 DEF RingTypes, ProducerState
<1>3. ASSUME prod[p].pc \in Published \cup {"publish"}
      PROVE  /\ hdr(b)' = hdr(b)
             /\ Filled(b, k) => Filled(b, k)'
  <2>1. consumer_pos <= b /\ b + 1 + k <= consumer_pos + max_ent
    <3>1. CASE prod[p].pc = "publish"
      BY <1>1, <1>2, <3>1, MaxEntAssumption DEF Reservation, Positions, roundup_len, BPF_RINGBUF_HDR_SZ
    <3>2. CASE prod[p].pc \in Published
      <4>1. consumer_pos <= b /\ b + 1 + k <= producer_pos
        BY <1>2, <3>2, PublishedRecord, Zenon DEF Owned
      <4>2. producer_pos <= consumer_pos + max_ent
        BY <1>1 DEF Positions
      <4> QED BY <1>1, <4>1, <4>2, MaxEntAssumption
    <3> QED BY <1>3, <3>1, <3>2
  <2>2. b < consumer_pos + max_ent /\ (b < s \/ n <= b) /\ (b + 1 + k <= s \/ n <= b + 1)
    BY <1>1, <1>2, <1>3, <2>1, MaxEntAssumption
  <2> QED BY <1>1, <2>1, <2>2, WriteFrame
<1>4. hdr(prod[p].start)' = hdr(b)' /\ (Filled(prod[p].start, prod[p].size)' <=> Filled(b, k)')
  BY <1>2 DEF hdr, Filled
<1>5. prod'[p].pc \in Published =>
        \A q \in Producers : q # p /\ prod'[q].pc \in Published => prod'[q].start # prod'[p].start
  BY <1>1 DEF Reservation
<1>6. prod'[p].pc \in Published \cup {"publish"} => hdr(prod[p].start)' = ringbuf_hdr(prod'[p].size, TRUE, FALSE)
  BY <1>1, <1>2, <1>3, <1>4, Zenon DEF Reservation
<1>7. prod'[p].pc = "submit" => Filled(prod[p].start, prod[p].size)'
  BY <1>1, <1>2, <1>3, <1>4 DEF Reservation, Published
<1> QED BY <1>1, <1>5, <1>6, <1>7, Zenon DEF Reservation

\* The header of a new reservation goes to the free part of the ring.
LEMMA HeaderKeepsInv ==
  ASSUME NEW B \in SUBSET Nat, RingInv(B), NEW p \in Producers, reserve_header(p)
  PROVE  RingInv(B)'
<1> DEFINE size == prod[p].size
<1>1. /\ prod[p].pc = "locked"
      /\ ~no_room(size, prod[p].cons_pos, producer_pos)
      /\ data' = [data EXCEPT ![header_of(producer_pos)] = ringbuf_hdr(size, TRUE, FALSE)]
      /\ prod' = [prod EXCEPT ![p].pc = "publish", ![p].cons_pos = 0, ![p].start = producer_pos]
      /\ UNCHANGED <<consumer_pos, producer_pos, reserve_spin_lock, cons>>
  BY DEF reserve_header
<1>2. /\ RingTypes /\ Positions(B) /\ consumer_pos \in Nat /\ producer_pos \in Nat
      /\ size \in Nat /\ prod[p].cons_pos \in Nat
  BY DEF RingInv, RingTypes, ProducerState
<1>3. reserve_spin_lock = p /\ prod[p].cons_pos <= consumer_pos
  BY <1>1, Zenon DEF RingInv, Reservation, Reserving
<1>4. producer_pos + roundup_len(size) <= consumer_pos + max_ent /\ producer_pos + 1 <= consumer_pos + max_ent
  <2> HIDE DEF size
  <2> QED BY <1>1, <1>2, <1>3, MaxEntAssumption DEF no_room, roundup_len, BPF_RINGBUF_HDR_SZ
<1>5. PICK s \in Nat, n \in Nat : s = producer_pos /\ n = producer_pos + 1
  BY <1>2
<1>6. header_of(s) \in 0..(2 * max_ent - 1) /\ header_of(s) % max_ent = s % max_ent
  BY Places
<1>7. Wrote(s, n)
  <2>1. s % max_ent \in places(s, n)
    BY <1>2, <1>5 DEF places
  <2>2. \A l \in 0..(2 * max_ent - 1) : l # header_of(s) => data'[l] = data[l]
    BY <1>1, <1>2, <1>5 DEF RingTypes
  <2> QED BY <1>2, <1>4, <1>5, <1>6, <2>1, <2>2 DEF Wrote, Positions
<1>8. RingTypes'
  <2>1. ringbuf_hdr(size, TRUE, FALSE) \in Word
    BY <1>2 DEF ringbuf_hdr, Word, NoRecord
  <2>2. data' \in [0..(2 * max_ent - 1) -> Word]
    BY <1>1, <1>2, <2>1, Zenon DEF RingTypes
  <2>3. [prod[p] EXCEPT !.pc = "publish", !.cons_pos = 0, !.start = producer_pos] \in ProducerState
    <3>1. prod[p] \in ProducerState /\ producer_pos \in Nat
      BY <1>2 DEF RingTypes
    <3> QED BY <3>1, Zenon DEF ProducerState, Reserving
  <2>4. prod' = [prod EXCEPT ![p] = [prod[p] EXCEPT !.pc = "publish", !.cons_pos = 0, !.start = producer_pos]]
    BY <1>1, Zenon
  <2>5. prod' \in [Producers -> ProducerState]
    BY <1>2, <2>3, <2>4 DEF RingTypes
  <2> QED BY <1>1, <1>2, <2>2, <2>5, Zenon DEF RingTypes
<1>9. ASSUME NEW b \in B, consumer_pos <= b, b < producer_pos PROVE RecordAt(B, b)' /\ hdr(b)' = hdr(b)
  <2>1. next_pos(b) <= s
    BY <1>2, <1>5, <1>9 DEF RingInv, Records, RecordAt, Positions
  <2> QED BY <1>5, <1>7, <1>9, <2>1, RecordKept
<1>10. Positions(B)' /\ Records(B)'
  BY <1>1, <1>2, <1>9 DEF Positions, Records
<1>11. ASSUME NEW q \in Producers PROVE Reservation(B, q)'
  <2>1. \A r \in Producers : r # p => prod'[r] = prod[r]
    BY <1>1, <1>2 DEF RingTypes
  <2>2. prod'[p].pc = "publish" /\ prod'[p].start = producer_pos /\ prod'[p].size = size
    BY <1>1, <1>2 DEF RingTypes, ProducerState
  <2>3. CASE q = p
    <3>1. hdr(prod[p].start)' = ringbuf_hdr(size, TRUE, FALSE)
      BY <1>1, <1>2, <1>5, <1>6, <2>2 DEF hdr, RingTypes
    <3> QED BY <1>1, <1>3, <1>4, <2>2, <2>3, <3>1, Zenon DEF Reservation, Reserving, Published
  <2>4. CASE q # p
    <3>1. prod[q].pc \notin Reserving
      BY <1>3, <2>4, Zenon DEF RingInv, Reservation
    <3>2. \A r \in Producers : prod'[r].pc \in Published => prod[r].pc \in Published /\ prod'[r].start = prod[r].start
      BY <2>1, <2>2 DEF Published
    <3>3. prod[q].pc \in Published => prod[q].start + 1 + prod[q].size <= s
      <4> SUFFICES ASSUME prod[q].pc \in Published PROVE prod[q].start + 1 + prod[q].size <= s
        OBVIOUS
      <4>1. PICK b \in Nat, k \in Nat : b = prod[q].start /\ k = prod[q].size
        BY <1>2 DEF RingTypes, ProducerState
      <4>2. b + 1 + k <= producer_pos
        BY <4>1, PublishedRecord, Zenon DEF Owned
      <4> QED BY <1>5, <4>1, <4>2
    <3> QED BY <1>1, <1>7, <2>1, <2>4, <3>1, <3>2, <3>3, ReservationKept, Zenon DEF Reserving
  <2> QED BY <2>3, <2>4
<1>12. Fetching'
  <2>1. cons.pc \in {"callback", "store"} => hdr(consumer_pos)' = hdr(consumer_pos)
    <3> SUFFICES ASSUME cons.pc \in {"callback", "store"} PROVE hdr(consumer_pos)' = hdr(consumer_pos)
      OBVIOUS
    <3>1. consumer_pos \in B /\ consumer_pos < producer_pos
      BY <1>2 DEF RingInv, Fetching, Positions
    <3>2. PICK b \in B : b = consumer_pos
      BY <3>1
    <3>3. hdr(b)' = hdr(b)
      BY <1>2, <1>9, <3>1, <3>2
    <3> QED BY <1>1, <3>2, <3>3, Zenon DEF hdr
  <2> QED BY <1>1, <2>1 DEF RingInv, Fetching, next_pos
<1> QED BY <1>8, <1>10, <1>11, <1>12 DEF RingInv

\* The program writes within its own record.
LEMMA SampleKeepsInv ==
  ASSUME NEW B \in SUBSET Nat, RingInv(B), NEW p \in Producers, write_sample(p)
  PROVE  RingInv(B)'
<1>1. RingTypes /\ Positions(B) /\ consumer_pos \in Nat /\ producer_pos \in Nat /\ Fetching
  BY DEF RingInv, RingTypes
<1>2. PICK b \in Nat, k \in Nat : b = prod[p].start /\ k = prod[p].size
  BY <1>1 DEF RingTypes, ProducerState
<1>3. /\ prod[p].pc = "write"
      /\ data' = [i \in 0..(2 * max_ent - 1) |-> IF i \in sample_words(reserved_sample(b), k) THEN payload_word(b) ELSE data[i]]
      /\ prod' = [prod EXCEPT ![p].pc = "submit"]
      /\ UNCHANGED <<consumer_pos, producer_pos, reserve_spin_lock, cons>>
  <2>1. DOMAIN data = 0..(2 * max_ent - 1)
    BY <1>1 DEF RingTypes
  <2> QED BY <1>2, <2>1 DEF write_sample
<1>4. /\ b \in B /\ consumer_pos <= b /\ b < producer_pos /\ b + 1 + k <= producer_pos
      /\ hdr(b) = ringbuf_hdr(k, TRUE, FALSE) /\ hdr(b).busy /\ next_pos(b) = b + 1 + k
      /\ \A c \in B : b < c => b + 1 + k <= c
      /\ \A c \in B : consumer_pos <= c /\ c < b => next_pos(c) <= b
  BY <1>2, <1>3, PublishedRecord, Zenon DEF Owned, Published
<1>5. PICK s \in Nat, n \in Nat : s = b + 1 /\ n = b + 1 + k
  OBVIOUS
<1>6. b + 1 + k <= consumer_pos + max_ent /\ k <= max_ent
  BY <1>1, <1>4, MaxEntAssumption DEF Positions
<1>7. Wrote(s, n)
  <2>1. ASSUME NEW l \in 0..(2 * max_ent - 1), l % max_ent \notin places(s, n) PROVE data'[l] = data[l]
    <3>1. l \notin sample_words(reserved_sample(b), k)
      <4> SUFFICES ASSUME l \in sample_words(reserved_sample(b), k) PROVE FALSE
        OBVIOUS
      <4>1. PICK i \in 0..(k - 1) : l % max_ent = (b + 1 + i) % max_ent
        BY <1>6, SampleWords, Zenon
      <4>2. b + 1 + i \in s..(n - 1)
        BY <1>5
      <4> QED BY <2>1, <4>1, <4>2 DEF places
    <3> QED BY <1>3, <3>1
  <2> QED BY <1>1, <1>4, <1>5, <1>6, <2>1 DEF Wrote
<1>8. RingTypes'
  <2>1. payload_word(b) \in Word
    BY DEF payload_word, Word
  <2>2. data' \in [0..(2 * max_ent - 1) -> Word]
    BY <1>1, <1>3, <2>1 DEF RingTypes
  <2>3. prod[p] \in ProducerState
    BY <1>1 DEF RingTypes
  <2>4. [prod[p] EXCEPT !.pc = "submit"] \in ProducerState
    BY <2>3 DEF ProducerState, Published
  <2> QED BY <1>1, <1>3, <2>2, <2>4 DEF RingTypes
<1>9. hdr(b)' = hdr(b)
  <2>1. b < s /\ b < consumer_pos + max_ent
    BY <1>1, <1>5, <1>6, MaxEntAssumption
  <2> QED BY <1>1, <1>4, <1>7, <2>1, WriteFrame, Zenon
<1>10. ASSUME NEW c \in B, consumer_pos <= c, c < producer_pos PROVE RecordAt(B, c)' /\ hdr(c)' = hdr(c)
  <2>1. CASE c = b
    <3>1. RecordAt(B, b)
      BY <1>4 DEF RingInv, Records
    <3> QED BY <1>4, <1>9, <2>1, <3>1, Zenon DEF RecordAt, next_pos
  <2>2. CASE c # b
    <3>1. next_pos(c) <= b \/ n <= c
      BY <1>4, <1>5, <1>10, <2>2
    <3>2. next_pos(c) \in Nat
      BY <1>1, Headers
    <3>3. next_pos(c) <= s \/ n <= c
      BY <1>5, <3>1, <3>2
    <3> QED BY <1>7, <1>10, <3>3, RecordKept
  <2> QED BY <2>1, <2>2
<1>11. Positions(B)' /\ Records(B)'
  BY <1>1, <1>3, <1>10 DEF Positions, Records
<1>12. ASSUME NEW q \in Producers PROVE Reservation(B, q)'
  <2>1. \A r \in Producers : r # p => prod'[r] = prod[r]
    BY <1>1, <1>3 DEF RingTypes
  <2>2. prod'[p].pc = "submit" /\ prod'[p].start = b /\ prod'[p].size = k
    BY <1>1, <1>2, <1>3 DEF RingTypes, ProducerState
  <2>3. \A r \in Producers : prod'[r].pc \in Published => prod[r].pc \in Published /\ prod'[r].start = prod[r].start
    BY <1>2, <1>3, <2>1, <2>2 DEF Published
  <2>4. CASE q = p
    <3>1. Filled(b, k)'
      <4>1. \A l \in sample_words(reserved_sample(b), k) : l \in 0..(2 * max_ent - 1)
        BY <1>6, SampleWords
      <4> QED BY <1>3, <4>1 DEF Filled
    <3>2. Filled(prod[p].start, prod[p].size)' /\ hdr(prod[p].start)' = ringbuf_hdr(k, TRUE, FALSE)
      BY <1>4, <1>9, <2>2, <3>1, Zenon DEF Filled, hdr
    <3>3. \A r \in Producers : r # p /\ prod'[r].pc \in Published => prod'[r].start # b
      <4>1. \A r \in Producers : r # p /\ prod[r].pc \in Published => prod[r].start # b
        BY <1>2, <1>3, Zenon DEF RingInv, Reservation, Published
      <4> QED BY <2>1, <4>1
    <3> QED BY <1>3, <1>4, <2>2, <2>4, <3>2, <3>3, Zenon DEF Reservation, Reserving, Published
  <2>5. CASE q # p
    <3>1. prod[q].pc \in Published \cup {"publish"} => prod[q].start + 1 + prod[q].size <= s \/ n <= prod[q].start
      <4>1. PICK c \in Nat, m \in Nat : c = prod[q].start /\ m = prod[q].size
        BY <1>1 DEF RingTypes, ProducerState
      <4>2. CASE prod[q].pc = "publish"
        BY <1>1, <1>4, <1>5, <4>1, <4>2, Zenon DEF RingInv, Reservation
      <4>3. CASE prod[q].pc \in Published
        <5>1. c # b
          BY <1>2, <1>3, <2>5, <4>1, <4>3, Zenon DEF RingInv, Reservation, Published
        <5>2. c \in B /\ consumer_pos <= c /\ next_pos(c) = c + 1 + m
          BY <4>1, <4>3, PublishedRecord, Zenon DEF Owned
        <5>3. c + 1 + m <= b \/ n <= c
          BY <1>4, <1>5, <5>1, <5>2
        <5> QED BY <1>5, <4>1, <5>3
      <4> QED BY <4>2, <4>3
    <3> QED BY <1>3, <1>7, <2>1, <2>3, <2>5, <3>1, ReservationKept
  <2> QED BY <2>4, <2>5
<1>13. Fetching'
  <2>1. cons.pc \in {"callback", "store"} => hdr(consumer_pos)' = hdr(consumer_pos)
    <3> SUFFICES ASSUME cons.pc \in {"callback", "store"} PROVE hdr(consumer_pos)' = hdr(consumer_pos)
      OBVIOUS
    <3>1. PICK c \in B : c = consumer_pos /\ c < producer_pos
      BY <1>1 DEF Fetching, Positions
    <3>2. hdr(c)' = hdr(c)
      BY <1>1, <1>10, <3>1
    <3> QED BY <1>3, <3>1, <3>2 DEF hdr
  <2> QED BY <1>1, <1>3, <2>1 DEF Fetching, next_pos
<1> QED BY <1>8, <1>11, <1>12, <1>13 DEF RingInv

\* submit clears the busy bit of its own header, behind which the words are filled.
LEMMA SubmitKeepsInv ==
  ASSUME NEW B \in SUBSET Nat, RingInv(B), NEW p \in Producers, NEW discard \in BOOLEAN, submit(p, discard)
  PROVE  RingInv(B)'
<1>1. RingTypes /\ Positions(B) /\ consumer_pos \in Nat /\ producer_pos \in Nat /\ Fetching
  BY DEF RingInv, RingTypes
<1>2. PICK b \in Nat, k \in Nat : b = prod[p].start /\ k = prod[p].size
  BY <1>1 DEF RingTypes, ProducerState
<1>3. header_of(b) \in 0..(2 * max_ent - 1) /\ header_of(b) % max_ent = b % max_ent
  BY Places
<1>4. /\ prod[p].pc = "submit"
      /\ data' = data \/ data' = [data EXCEPT ![header_of(b)] = [@ EXCEPT !.busy = FALSE, !.discard = @ \/ discard]]
      /\ prod' = [prod EXCEPT ![p] = IdleProducer]
      /\ UNCHANGED <<consumer_pos, producer_pos, reserve_spin_lock, cons>>
  <2>1. header_from_sample(reserved_sample(b)) = header_of(b)
    BY HeaderFromSample
  <2> QED BY <1>2, <2>1 DEF submit
<1>5. Owned(B, b, k) /\ Filled(b, k)
  <2>1. Filled(b, k)
    BY <1>2, <1>4, Zenon DEF RingInv, Reservation
  <2> QED BY <1>2, <1>4, <2>1, PublishedRecord DEF Published
<1>6. PICK s \in Nat, n \in Nat : s = b /\ n = b + 1
  OBVIOUS
<1>7. b + 1 + k <= consumer_pos + max_ent /\ b + 1 <= consumer_pos + max_ent /\ consumer_pos <= b
  BY <1>1, <1>5, MaxEntAssumption DEF Owned, Positions
<1>8. Wrote(s, n)
  <2>1. b % max_ent \in places(s, n)
    BY <1>6 DEF places
  <2>2. \A l \in 0..(2 * max_ent - 1) : l # header_of(b) => data'[l] = data[l]
    BY <1>1, <1>4, Zenon DEF RingTypes
  <2> QED BY <1>3, <1>6, <1>7, <2>1, <2>2 DEF Wrote
<1>9. hdr(b)' = hdr(b) \/ (hdr(b)' \in Word /\ hdr(b)'.len = hdr(b).len)
  <2>1. CASE data' = data
    BY <2>1 DEF hdr
  <2>2. CASE data' = [data EXCEPT ![header_of(b)] = [@ EXCEPT !.busy = FALSE, !.discard = @ \/ discard]]
    <3>1. PICK e \in BOOLEAN : data' = [data EXCEPT ![header_of(b)] = [@ EXCEPT !.busy = FALSE, !.discard = e]]
      BY <2>2, Zenon
    <3>2. hdr(b)' = [hdr(b) EXCEPT !.busy = FALSE, !.discard = e]
      BY <1>1, <1>3, <3>1 DEF hdr, RingTypes
    <3>3. hdr(b) \in Word
      BY <1>1, Headers
    <3>4. [hdr(b) EXCEPT !.busy = FALSE, !.discard = e] \in Word
      BY <3>3, Zenon DEF Word
    <3>5. [hdr(b) EXCEPT !.busy = FALSE, !.discard = e].len = hdr(b).len
      BY <3>3 DEF Word
    <3> QED BY <3>2, <3>4, <3>5, Zenon
  <2> QED BY <1>4, <2>1, <2>2
<1>10. RingTypes'
  <2>1. data' \in [0..(2 * max_ent - 1) -> Word]
    <3>1. hdr(b)' \in Word
      <4>1. hdr(b) \in Word
        BY <1>1, Headers
      <4> QED BY <1>9, <4>1
    <3>2. \A l \in 0..(2 * max_ent - 1) : data'[l] \in Word
      <4>1. \A l \in 0..(2 * max_ent - 1) : l # header_of(b) => data'[l] = data[l] /\ data[l] \in Word
        BY <1>1, <1>4, Zenon DEF RingTypes
      <4> QED BY <3>1, <4>1 DEF hdr
    <3>3. data' = [l \in 0..(2 * max_ent - 1) |-> data'[l]]
      BY <1>1, <1>4, Zenon DEF RingTypes
    <3> QED BY <3>2, <3>3
  <2>2. IdleProducer \in ProducerState
    BY DEF IdleProducer, ProducerState
  <2> QED BY <1>1, <1>4, <2>1, <2>2 DEF RingTypes
<1>11. Filled(b, k)'
  BY <1>1, <1>5, <1>6, <1>7, <1>8, WriteFrame
<1>12. RecordAt(B, b)'
  <2>1. RecordAt(B, b) /\ hdr(b).len = k
    BY <1>5, Zenon DEF RingInv, Records, Owned
  <2>2. hdr(b)'.len = k /\ next_pos(b)' = next_pos(b)
    BY <1>9, <2>1 DEF next_pos
  <2>3. Filled(b, hdr(b).len)'
    BY <1>11, <2>2 DEF Filled
  <2> QED BY <2>1, <2>2, <2>3 DEF RecordAt
<1>13. ASSUME NEW c \in B, consumer_pos <= c, c < producer_pos, c # b PROVE RecordAt(B, c)' /\ hdr(c)' = hdr(c)
  <2>1. next_pos(c) <= b \/ b + 1 + k <= c
    BY <1>5, <1>13 DEF Owned
  <2>2. next_pos(c) <= s \/ n <= c
    BY <1>6, <2>1
  <2> QED BY <1>8, <1>13, <2>2, RecordKept
<1>14. Positions(B)' /\ Records(B)'
  BY <1>1, <1>4, <1>12, <1>13 DEF Positions, Records
<1>15. ASSUME NEW q \in Producers PROVE Reservation(B, q)'
  <2>1. \A r \in Producers : r # p => prod'[r] = prod[r]
    BY <1>1, <1>4 DEF RingTypes
  <2>2. prod'[p].pc = "idle"
    BY <1>1, <1>4 DEF RingTypes, IdleProducer
  <2>3. \A r \in Producers : prod'[r].pc \in Published => prod[r].pc \in Published /\ prod'[r].start = prod[r].start
    BY <2>1, <2>2 DEF Published
  <2>4. CASE q = p
    BY <2>2, <2>4, Zenon DEF Reservation, Reserving, Published
  <2>5. CASE q # p
    <3>1. prod[q].pc \in Published \cup {"publish"} => prod[q].start + 1 + prod[q].size <= s \/ n <= prod[q].start
      <4>1. PICK c \in Nat, m \in Nat : c = prod[q].start /\ m = prod[q].size
        BY <1>1 DEF RingTypes, ProducerState
      <4>2. CASE prod[q].pc = "publish"
        <5>1. c = producer_pos /\ b < producer_pos
          BY <1>5, <4>1, <4>2, Zenon DEF RingInv, Reservation, Owned
        <5> QED BY <1>1, <1>6, <4>1, <5>1
      <4>3. CASE prod[q].pc \in Published
        <5>1. c # b
          BY <1>2, <1>4, <2>5, <4>1, <4>3, Zenon DEF RingInv, Reservation, Published
        <5>2. c \in B /\ consumer_pos <= c /\ next_pos(c) = c + 1 + m
          BY <4>1, <4>3, PublishedRecord, Zenon DEF Owned
        <5>3. c + 1 + m <= b \/ b + 1 + k <= c
          BY <1>5, <5>1, <5>2 DEF Owned
        <5> QED BY <1>6, <4>1, <5>3
      <4> QED BY <4>2, <4>3
    <3> QED BY <1>4, <1>8, <2>1, <2>3, <2>5, <3>1, ReservationKept
  <2> QED BY <2>4, <2>5
<1>16. Fetching'
  <2>1. cons.pc \in {"callback", "store"} => hdr(consumer_pos)' = hdr(consumer_pos)
    <3> SUFFICES ASSUME cons.pc \in {"callback", "store"} PROVE hdr(consumer_pos)' = hdr(consumer_pos)
      OBVIOUS
    <3>1. PICK c \in B : c = consumer_pos /\ c < producer_pos /\ ~hdr(c).busy
      BY <1>1 DEF Fetching, Positions
    <3>2. c # b
      BY <1>5, <3>1, Zenon DEF Owned
    <3>3. hdr(c)' = hdr(c)
      BY <1>1, <1>13, <3>1, <3>2
    <3> QED BY <1>4, <3>1, <3>3 DEF hdr
  <2> QED BY <1>1, <1>4, <2>1 DEF Fetching, next_pos
<1> QED BY <1>10, <1>14, <1>15, <1>16 DEF RingInv

-----------------------------------------------------------------------------

\* Every step, a crash included, leaves the ring divided into records.
LEMMA DividedStep ==
  Divided /\ [CrashNext]_vars => Divided'
<1> SUFFICES ASSUME Divided, [CrashNext]_vars PROVE Divided'
  OBVIOUS
<1>1. PICK B \in SUBSET Nat : RingInv(B)
  BY DEF Divided
<1>2. ASSUME NEW p \in Producers, NEW size \in Sizes, NEW via \in {"output", "helper"}, reserve_lock(p, size, via)
      PROVE  RingInv(B)'
  BY <1>1, <1>2, LockKeepsInv
<1>3. ASSUME NEW p \in Producers, ProducerStep(p) PROVE \E C \in SUBSET Nat : RingInv(C)'
  <2>1. CASE reserve_fail(p)
    BY <1>1, <2>1, LeaveKeepsInv
  <2>2. CASE reserve_header(p)
    BY <1>1, <2>2, HeaderKeepsInv
  <2>3. CASE reserve_publish(p)
    BY <1>1, <2>3, PublishKeepsInv
  <2>4. CASE write_sample(p)
    BY <1>1, <2>4, SampleKeepsInv
  <2>5. CASE \E discard \in BOOLEAN : submit(p, discard)
    BY <1>1, <2>5, SubmitKeepsInv
  <2> QED BY <1>3, <2>1, <2>2, <2>3, <2>4, <2>5 DEF ProducerStep
<1>4. ASSUME ConsumerStep PROVE RingInv(B)'
  BY <1>1, <1>4, ReadKeepsInv, ConsumeKeepsInv DEF ConsumerStep
<1>5. ASSUME NEW p \in Producers, crash(p) PROVE RingInv(B)'
  BY <1>1, <1>5, LeaveKeepsInv
<1>6. ASSUME UNCHANGED vars PROVE RingInv(B)'
  <2>1. Positions(B)' /\ Records(B)'
    BY <1>1, <1>6, SameRing DEF vars
  <2>2. ASSUME NEW p \in Producers PROVE Reservation(B, p)'
    BY <1>1, <1>6, OtherReservation DEF vars
  <2>3. RingTypes' /\ Fetching'
    BY <1>1, <1>6 DEF vars, RingInv, RingTypes, Fetching, hdr, next_pos
  <2> QED BY <2>1, <2>2, <2>3 DEF RingInv
<1>7. \E C \in SUBSET Nat : RingInv(C)'
  BY <1>2, <1>3, <1>4, <1>5, <1>6 DEF CrashNext, Next
<1> QED BY <1>7 DEF Divided

\* The inductive invariant holds of the ring buffer whose producers may be killed.
LEMMA RingDivided ==
  CrashSpec => []Divided
<1>1. Init => Divided
  <2>1. {0} \in SUBSET Nat
    OBVIOUS
  <2> QED BY <2>1, RingInit DEF Divided
<1> QED BY <1>1, DividedStep, PTL DEF CrashSpec

\* Whatever the size of the ring, the producers and the sizes they ask for: a record that is reserved keeps its busy
\* header and what its producer wrote until it is submitted, and submit finds that header (ringbuf::reserve, submit).
THEOREM ReservationsStayIntact ==
  CrashSpec => []ReservationIntact
<1>1. Divided => ReservationIntact
  <2> SUFFICES ASSUME NEW B \in SUBSET Nat, RingInv(B), NEW p \in Producers
               PROVE  /\ prod[p].pc \in {"publish", "write", "submit"} =>
                           /\ data[header_of(prod[p].start)] = ringbuf_hdr(prod[p].size, TRUE, FALSE)
                           /\ header_from_sample(reserved_sample(prod[p].start)) = header_of(prod[p].start)
                      /\ prod[p].pc = "submit" =>
                           \A i \in sample_words(reserved_sample(prod[p].start), prod[p].size) :
                             data[i] = payload_word(prod[p].start)
    BY Zenon DEF Divided, ReservationIntact
  <2>1. Reservation(B, p)
    BY DEF RingInv
  <2>2. prod[p].start \in Nat
    BY DEF RingInv, RingTypes, ProducerState
  <2>3. header_from_sample(reserved_sample(prod[p].start)) = header_of(prod[p].start)
    BY <2>2, HeaderFromSample
  <2> QED BY <2>1, <2>3, Zenon DEF Reservation, Published, hdr, Filled
<1> QED BY <1>1, RingDivided, PTL

\* Whatever the size of the ring, the producers and the sizes they ask for: the sample handed to the callback of
\* fetch_data is the one its producer wrote, unless the header is in the last word of the ring.
THEOREM SamplesStayIntact ==
  CrashSpec => []SampleIntact
<1>1. Divided => SampleIntact
  <2> SUFFICES ASSUME NEW B \in SUBSET Nat, RingInv(B), cons.pc = "callback", header_of(cons.start) # max_ent - 1
               PROVE  \A i \in sample_words(fetched_sample(cons.start), cons.len) : data[i] = payload_word(cons.start)
    BY DEF Divided, SampleIntact
  <2>1. PICK b \in Nat : b = consumer_pos
    BY DEF RingInv, RingTypes
  <2>2. /\ cons.start = b /\ b \in B /\ b < producer_pos /\ ~hdr(b).busy /\ cons.len = hdr(b).len
    BY <2>1 DEF RingInv, Fetching, Positions
  <2>3. Filled(b, cons.len)
    BY <2>1, <2>2 DEF RingInv, Records, RecordAt
  <2>4. fetched_sample(b) = reserved_sample(b)
    BY <2>2, ModNext, MaxEntAssumption, Zenon DEF fetched_sample, reserved_sample, header_of, BPF_RINGBUF_HDR_SZ
  <2> QED BY <2>2, <2>3, <2>4 DEF Filled
<1> QED BY <1>1, RingDivided, PTL
=============================================================================
