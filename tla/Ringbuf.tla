------------------------------- MODULE Ringbuf -------------------------------
(***************************************************************************)
(* The user-space ring buffer (ringbuf_map.cpp): programs in the traced    *)
(* processes reserve, fill and submit records, one process consumes them   *)
(* with fetch_data.                                                        *)
(*                                                                         *)
(* The unit is the 8-byte word every size is rounded up to: a record is a  *)
(* one-word header and size words of payload.  max_ent is a power of two   *)
(* (map_init refuses any other), so "& mask()" is "% max_ent".  The data   *)
(* area is 2 * max_ent words and is not mapped twice: a header is always   *)
(* in the lower half, a payload may run into the upper half.  The words of *)
(* a payload carry the position of their record, which is unique.          *)
(***************************************************************************)
EXTENDS Integers, Sequences

CONSTANTS max_ent,    \* words of the ring
          Sizes,      \* payload sizes the programs ask for, in words
          Producers,  \* threads of the traced processes
          Free,       \* nobody holds the spin lock
          MaxPos      \* bound on producer_pos

ASSUME MaxEntAssumption == max_ent \in Nat \ {0}
ASSUME SizesAssumption == Sizes \subseteq Nat
ASSUME FreeAssumption == Free \notin Producers
ASSUME MaxPosAssumption == MaxPos \in Nat

VARIABLES data,               \* the words of the data area
          consumer_pos,
          producer_pos,
          reserve_spin_lock,
          prod,               \* a producer's program counter and locals
          cons                \* the consumer's

vars == <<data, consumer_pos, producer_pos, reserve_spin_lock, prod, cons>>

BPF_RINGBUF_HDR_SZ == 1
NoRecord == -1

ringbuf_hdr(len, busy, discard) == [len |-> len, busy |-> busy, discard |-> discard, of |-> NoRecord]
payload_word(pos) == [len |-> 0, busy |-> FALSE, discard |-> FALSE, of |-> pos]
ZeroWord == ringbuf_hdr(0, FALSE, FALSE)

Word == [len : Nat, busy : BOOLEAN, discard : BOOLEAN, of : Int]

roundup_len(len) == len + BPF_RINGBUF_HDR_SZ

\* Where the header of the record at pos is, and where producer and consumer
\* take its payload to be: reserve masks the sum, fetch_data adds to the
\* masked header.
header_of(pos) == pos % max_ent
reserved_sample(pos) == (pos + BPF_RINGBUF_HDR_SZ) % max_ent
fetched_sample(pos) == header_of(pos) + BPF_RINGBUF_HDR_SZ

\* Mutant: the sum is not masked.
header_from_sample_unmasked(sample) == max_ent + sample - BPF_RINGBUF_HDR_SZ

\* submit finds the header from the sample.
header_from_sample(sample) == (max_ent + sample - BPF_RINGBUF_HDR_SZ) % max_ent

IdleProducer == [pc |-> "idle", size |-> 0, cons_pos |-> 0, start |-> 0, via |-> "output"]
IdleConsumer == [pc |-> "idle", cons_pos |-> 0, prod_pos |-> 0, got |-> FALSE, start |-> 0, len |-> 0]

Init ==
  /\ data = [i \in 0..(2 * max_ent - 1) |-> ZeroWord]
  /\ consumer_pos = 0
  /\ producer_pos = 0
  /\ reserve_spin_lock = Free
  /\ prod = [p \in Producers |-> IdleProducer]
  /\ cons = IdleConsumer

-----------------------------------------------------------------------------
(* Producers: bpf_ringbuf_reserve, _submit, _discard ("helper") and        *)
(* bpf_ringbuf_output, which does all of it with the descriptor at hand.   *)

\* reserve takes the lock and loads consumer_pos.
reserve_lock(p, size, via) ==
  /\ prod[p].pc = "idle"
  /\ reserve_spin_lock = Free
  /\ producer_pos + roundup_len(size) <= MaxPos
  /\ reserve_spin_lock' = p
  /\ prod' = [prod EXCEPT ![p] = [pc |-> "locked", size |-> size, cons_pos |-> consumer_pos, start |-> 0, via |-> via]]
  /\ UNCHANGED <<data, consumer_pos, producer_pos, cons>>

\* Mutant: the size check forgets the header.
no_room_off_by_one(size, cons_pos, prod_pos) ==
  \/ roundup_len(size) > max_ent
  \/ max_ent - (prod_pos - cons_pos) < size

no_room(size, cons_pos, prod_pos) ==
  \/ roundup_len(size) > max_ent                               \* E2BIG
  \/ max_ent - (prod_pos - cons_pos) < roundup_len(size)       \* ENOSPC

\* It returns NULL and unlocks...
reserve_fail(p) ==
  /\ prod[p].pc = "locked"
  /\ no_room(prod[p].size, prod[p].cons_pos, producer_pos)
  /\ reserve_spin_lock' = Free
  /\ prod' = [prod EXCEPT ![p] = IdleProducer]
  /\ UNCHANGED <<data, consumer_pos, producer_pos, cons>>

\* Mutant: the header is written without the busy bit.
reserve_header_not_busy(p) ==
  /\ prod[p].pc = "locked"
  /\ ~no_room(prod[p].size, prod[p].cons_pos, producer_pos)
  /\ data' = [data EXCEPT ![header_of(producer_pos)] = ringbuf_hdr(prod[p].size, FALSE, FALSE)]
  /\ prod' = [prod EXCEPT ![p].pc = "publish", ![p].cons_pos = 0, ![p].start = producer_pos]
  /\ UNCHANGED <<consumer_pos, producer_pos, reserve_spin_lock, cons>>

\* ...or writes the busy header,
reserve_header(p) ==
  /\ prod[p].pc = "locked"
  /\ ~no_room(prod[p].size, prod[p].cons_pos, producer_pos)
  /\ data' = [data EXCEPT ![header_of(producer_pos)] = ringbuf_hdr(prod[p].size, TRUE, FALSE)]
  /\ prod' = [prod EXCEPT ![p].pc = "publish", ![p].cons_pos = 0, ![p].start = producer_pos]
  /\ UNCHANGED <<consumer_pos, producer_pos, reserve_spin_lock, cons>>

\* publishes it, and unlocks on return.
reserve_publish(p) ==
  /\ prod[p].pc = "publish"
  /\ producer_pos' = prod[p].start + roundup_len(prod[p].size)
  /\ reserve_spin_lock' = Free
  /\ prod' = [prod EXCEPT ![p].pc = "write"]
  /\ UNCHANGED <<data, consumer_pos, cons>>

sample_words(sample, size) == {sample + i : i \in 0..(size - 1)}

\* The program fills the sample reserve returned.
write_sample(p) ==
  /\ prod[p].pc = "write"
  /\ data' = [i \in DOMAIN data |->
                IF i \in sample_words(reserved_sample(prod[p].start), prod[p].size)
                  THEN payload_word(prod[p].start) ELSE data[i]]
  /\ prod' = [prod EXCEPT ![p].pc = "submit"]
  /\ UNCHANGED <<consumer_pos, producer_pos, reserve_spin_lock, cons>>

\* bpf_ringbuf_submit and _discard take the descriptor from the header word in
\* front of the sample.  For a sample at offset 0 that word is not in the data
\* area but the end of the producer page, which is zero and names no ring
\* buffer: ringbuf::submit is not reached.
submit_reaches_ring(p) == prod[p].via = "output" \/ reserved_sample(prod[p].start) # 0

submit(p, discard) ==
  /\ prod[p].pc = "submit"
  /\ discard => prod[p].via = "helper"
  /\ LET hdr == header_from_sample(reserved_sample(prod[p].start))
     IN  data' = IF submit_reaches_ring(p)
                   THEN [data EXCEPT ![hdr] = [@ EXCEPT !.busy = FALSE, !.discard = @ \/ discard]]
                   ELSE data
  /\ prod' = [prod EXCEPT ![p] = IdleProducer]
  /\ UNCHANGED <<consumer_pos, producer_pos, reserve_spin_lock, cons>>

\* The traced process is killed: nothing it holds is given back.
crash(p) ==
  /\ prod[p].pc # "dead"
  /\ prod' = [prod EXCEPT ![p] = [IdleProducer EXCEPT !.pc = "dead"]]
  /\ UNCHANGED <<data, consumer_pos, producer_pos, reserve_spin_lock, cons>>

-----------------------------------------------------------------------------
(* The consumer: fetch_data. *)

fetch_begin ==
  /\ cons.pc = "idle"
  /\ cons' = [cons EXCEPT !.pc = "load", !.cons_pos = consumer_pos]
  /\ UNCHANGED <<data, consumer_pos, producer_pos, reserve_spin_lock, prod>>

fetch_load ==
  /\ cons.pc = "load"
  /\ cons' = [cons EXCEPT !.pc = "loop", !.got = FALSE, !.prod_pos = producer_pos]
  /\ UNCHANGED <<data, consumer_pos, producer_pos, reserve_spin_lock, prod>>

\* Mutant: the position is given back before the callback has run.
fetch_record_early ==
  /\ cons.pc = "loop"
  /\ cons.cons_pos < cons.prod_pos
  /\ LET hdr == data[header_of(cons.cons_pos)]
         next_pos == cons.cons_pos + roundup_len(hdr.len)
     IN  \/ hdr.busy /\ cons' = IdleConsumer /\ UNCHANGED consumer_pos
         \/ /\ ~hdr.busy
            /\ cons' = [cons EXCEPT !.pc = "callback", !.got = TRUE, !.start = cons.cons_pos, !.len = hdr.len,
                                    !.cons_pos = next_pos]
            /\ consumer_pos' = next_pos
  /\ UNCHANGED <<data, producer_pos, reserve_spin_lock, prod>>

\* One turn of the inner loop up to the callback; a busy record ends the call.
fetch_record ==
  /\ cons.pc = "loop"
  /\ cons.cons_pos < cons.prod_pos
  /\ LET hdr == data[header_of(cons.cons_pos)]
     IN  cons' = IF hdr.busy
                   THEN IdleConsumer
                   ELSE [cons EXCEPT !.pc = IF hdr.discard THEN "store" ELSE "callback",
                                     !.got = TRUE,
                                     !.start = cons.cons_pos,
                                     !.len = hdr.len,
                                     !.cons_pos = @ + roundup_len(hdr.len)]
  /\ UNCHANGED <<data, consumer_pos, producer_pos, reserve_spin_lock, prod>>

\* The outer loop: again if the inner one made progress.
fetch_drained ==
  /\ cons.pc = "loop"
  /\ cons.cons_pos >= cons.prod_pos
  /\ cons' = IF cons.got THEN [cons EXCEPT !.pc = "load"] ELSE IdleConsumer
  /\ UNCHANGED <<data, consumer_pos, producer_pos, reserve_spin_lock, prod>>

\* The callback returns; with an error the call ends, but the record is
\* consumed all the same.
fetch_callback(err) ==
  /\ cons.pc = "callback"
  /\ consumer_pos' = cons.cons_pos
  /\ cons' = IF err THEN IdleConsumer ELSE [cons EXCEPT !.pc = "loop", !.start = 0, !.len = 0]
  /\ UNCHANGED <<data, producer_pos, reserve_spin_lock, prod>>

fetch_discarded ==
  /\ cons.pc = "store"
  /\ consumer_pos' = cons.cons_pos
  /\ cons' = [cons EXCEPT !.pc = "loop", !.start = 0, !.len = 0]
  /\ UNCHANGED <<data, producer_pos, reserve_spin_lock, prod>>

-----------------------------------------------------------------------------
ProducerStep(p) ==
  \/ reserve_fail(p)
  \/ reserve_header(p)
  \/ reserve_publish(p)
  \/ write_sample(p)
  \/ \E discard \in BOOLEAN : submit(p, discard)

ConsumerStep ==
  \/ fetch_begin
  \/ fetch_load
  \/ fetch_record
  \/ fetch_drained
  \/ \E err \in BOOLEAN : fetch_callback(err)
  \/ fetch_discarded

Next ==
  \/ \E p \in Producers, size \in Sizes, via \in {"output", "helper"} : reserve_lock(p, size, via)
  \/ \E p \in Producers : ProducerStep(p)
  \/ ConsumerStep

CrashNext == Next \/ \E p \in Producers : crash(p)

Spec == Init /\ [][Next]_vars

\* Producers may be killed at any point.
CrashSpec == Init /\ [][CrashNext]_vars

\* A program that has reserved goes on to submit, and the consumer polls for
\* ever; nobody has to reserve.
FairSpec ==
  /\ Spec
  /\ \A p \in Producers : WF_vars(ProducerStep(p))
  /\ WF_vars(ConsumerStep)

-----------------------------------------------------------------------------
(* Properties *)

\* While the callback runs, the sample it was given is the one its producer
\* wrote, word for word: no reservation reaches it before consumer_pos moves.
\* It fails, and is not claimed, for a header on the last word of the ring,
\* where reserved_sample and fetched_sample differ.
SampleIntact ==
  cons.pc = "callback" /\ header_of(cons.start) # max_ent - 1 =>
    \A i \in sample_words(fetched_sample(cons.start), cons.len) : data[i] = payload_word(cons.start)

\* A record that is reserved and not submitted keeps its busy header and what
\* was written to it, whatever the other producers and the consumer do; submit
\* then finds its header.
ReservationIntact ==
  \A p \in Producers :
    /\ prod[p].pc \in {"publish", "write", "submit"} =>
         /\ data[header_of(prod[p].start)] = ringbuf_hdr(prod[p].size, TRUE, FALSE)
         /\ header_from_sample(reserved_sample(prod[p].start)) = header_of(prod[p].start)
    /\ prod[p].pc = "submit" =>
         \A i \in sample_words(reserved_sample(prod[p].start), prod[p].size) : data[i] = payload_word(prod[p].start)

\* A record that is reserved is consumed, if the consumer keeps polling and no
\* producer stops between reserve and submit.
ReservedIsConsumed ==
  \A s \in 0..(MaxPos - 1) : producer_pos > s ~> consumer_pos > s

-----------------------------------------------------------------------------
(* What the ring buffer implements: a queue of records. *)

\* The records from pos on, read from the data area as fetch_data reads them.
record_at(pos) ==
  LET hdr == data[header_of(pos)]
      intact == \A i \in sample_words(fetched_sample(pos), hdr.len) : data[i] = payload_word(pos)
  IN  [size |-> hdr.len,
       state |-> IF hdr.busy THEN "busy"
                 ELSE IF hdr.discard THEN "discarded"
                 ELSE IF intact THEN "ready" ELSE "corrupt"]

records_from[pos \in 0..(MaxPos + 1)] ==
  IF pos >= producer_pos THEN << >>
  ELSE <<record_at(pos)>> \o records_from[pos + roundup_len(record_at(pos).size)]

Fifo == INSTANCE RingbufFifo WITH queue <- records_from[consumer_pos]

\* Every step is a step of the queue: records are consumed in the order they
\* were reserved, each once, none before it is submitted, none overtaking one
\* that is still busy (fetch_data).
ImplementsFifo == Fifo!Spec

=============================================================================
