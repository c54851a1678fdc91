------------------------------ MODULE PerfBuffer ------------------------------
(***************************************************************************)
(* The buffer of a software perf event (perf_event_handler.cpp): the       *)
(* programs of the traced processes output records into it, libbpf in the  *)
(* loader reads them through the pages it has mapped.                      *)
(*                                                                         *)
(* The unit is four bytes: a record is a perf_event_header of two units,   *)
(* whose second one holds the record's size, one unit for the raw size,    *)
(* and the payload.  The data area is a power of two, so                   *)
(* "& (mmap_size() - 1)" is "% mmap_size".  output_data takes no lock.     *)
(***************************************************************************)
EXTENDS Integers, Sequences

CONSTANTS DataSize,   \* units of the data area once it is mapped
          Payloads,   \* payload sizes the programs output
          Writers,    \* threads that output into this buffer
          Nobody,     \* what the copy buffer holds at first
          MaxHead     \* bound on data_head

ASSUME DataSizeAssumption == DataSize \in Nat \ {0}
ASSUME PayloadsAssumption == Payloads \subseteq Nat
ASSUME MaxHeadAssumption == MaxHead \in Nat

VARIABLES data,         \* the units of the data area
          mmap_size,    \* 0 until the loader maps the buffer
          data_head,
          data_tail,
          copy_buffer,  \* the one record being assembled, shared by the writers
          writers,      \* a writer's program counter and locals
          reader,       \* the reader's
          unread        \* history: records output and not yet read, in the order of their output

buffer_vars == <<data, mmap_size, data_head, data_tail, copy_buffer, writers, reader, unread>>

sizeof_head == 3        \* perf_sample_raw
size_unit == 1          \* where perf_event_header.size is

Sizes == {sizeof_head + p : p \in Payloads}

NoCell == [by |-> Nobody, start |-> 0, size |-> 0, unit |-> 0]
cell(r, i) == [by |-> r.by, start |-> r.start, size |-> r.size, unit |-> i]
NoCopy == [by |-> Nobody, start |-> 0, size |-> 0]

IdleWriter == [pc |-> "idle", head |-> 0, size |-> 0]
IdleReader == [pc |-> "idle", head |-> 0, tail |-> 0]

BufferInit ==
  /\ data = [i \in 0..(DataSize - 1) |-> NoCell]
  /\ mmap_size = 0
  /\ data_head = 0
  /\ data_tail = 0
  /\ copy_buffer = NoCopy
  /\ writers = [w \in Writers |-> IdleWriter]
  /\ reader = IdleReader
  /\ unread = << >>

has_data == data_tail # data_head

\* The loader maps the buffer, which is grown to the size it asks for.
ensure_mmap_buffer ==
  /\ mmap_size = 0
  /\ mmap_size' = DataSize
  /\ UNCHANGED <<data, data_head, data_tail, copy_buffer, writers, reader, unread>>

-----------------------------------------------------------------------------
(* output_data *)

\* Mutant: a record may fill the buffer to the last byte.
dropped_if_less(size) ==
  LET available == mmap_size - (data_head - data_tail)
  IN  (IF available = 0 THEN mmap_size ELSE available) < size

\* The record is dropped when it would leave no byte free.
dropped(size) ==
  LET available == mmap_size - (data_head - data_tail)
  IN  (IF available = 0 THEN mmap_size ELSE available) <= size

\* data_head and data_tail are loaded, and the room between them is looked at.
output_load(w, size) ==
  /\ writers[w].pc = "idle"
  /\ data_head + size <= MaxHead
  /\ IF dropped(size) THEN UNCHANGED writers
     ELSE writers' = [writers EXCEPT ![w] = [pc |-> "assemble", head |-> data_head, size |-> size]]
  /\ UNCHANGED <<data, mmap_size, data_head, data_tail, copy_buffer, reader, unread>>

output_record(w) == [by |-> w, start |-> writers[w].head, size |-> writers[w].size]

\* The record is put together in copy_buffer,
output_assemble(w) ==
  /\ writers[w].pc = "assemble"
  /\ copy_buffer' = output_record(w)
  /\ writers' = [writers EXCEPT ![w].pc = "copy"]
  /\ UNCHANGED <<data, mmap_size, data_head, data_tail, reader, unread>>

\* Mutant: the part behind the end of the buffer is left out.
copied_to_first_piece_only(i, w) == {k \in 0..(writers[w].size - 1) : (writers[w].head % mmap_size) + k = i}

\* The unit of the record that lands at index i, in one piece or in two.
copied_to(i, w) == {k \in 0..(writers[w].size - 1) : (writers[w].head + k) % mmap_size = i}

\* copied into the ring,
output_copy(w) ==
  /\ writers[w].pc = "copy"
  /\ data' = [i \in DOMAIN data |-> IF copied_to(i, w) = {} THEN data[i]
                                    ELSE cell(copy_buffer, CHOOSE k \in copied_to(i, w) : TRUE)]
  /\ writers' = [writers EXCEPT ![w].pc = "publish"]
  /\ UNCHANGED <<mmap_size, data_head, data_tail, copy_buffer, reader, unread>>

\* and published.
output_publish(w) ==
  /\ writers[w].pc = "publish"
  /\ data_head' = writers[w].head + writers[w].size
  /\ unread' = Append(unread, output_record(w))
  /\ writers' = [writers EXCEPT ![w] = IdleWriter]
  /\ UNCHANGED <<data, mmap_size, data_tail, copy_buffer, reader>>

writer_continues(w) == output_assemble(w) \/ output_copy(w) \/ output_publish(w)

-----------------------------------------------------------------------------
(* perf_event_read_simple of libbpf *)

read_begin ==
  /\ reader.pc = "idle"
  /\ reader' = [pc |-> "reading", head |-> data_head, tail |-> data_tail]
  /\ UNCHANGED <<data, mmap_size, data_head, data_tail, copy_buffer, writers, unread>>

\* The header is read in place, also where it runs past the end of the data area.
size_index(pos) == (pos % DataSize) + size_unit
header_readable(pos) == size_index(pos) \in DOMAIN data /\ data[size_index(pos)].unit = size_unit

read_size(pos) == data[size_index(pos)].size

\* One record; a size that is not the record's own sends the reader astray.
read_record ==
  /\ reader.pc = "reading"
  /\ reader.tail # reader.head
  /\ IF header_readable(reader.tail)
       THEN /\ reader' = [reader EXCEPT !.tail = @ + read_size(@)]
            /\ unread' = IF unread = << >> THEN unread ELSE Tail(unread)
       ELSE /\ reader' = [reader EXCEPT !.pc = "astray"]
            /\ UNCHANGED unread
  /\ UNCHANGED <<data, mmap_size, data_head, data_tail, copy_buffer, writers>>

read_end ==
  /\ reader.pc = "reading"
  /\ reader.tail = reader.head
  /\ data_tail' = reader.tail
  /\ reader' = IdleReader
  /\ UNCHANGED <<data, mmap_size, data_head, copy_buffer, writers, unread>>

-----------------------------------------------------------------------------

\* Where the reader is: the position up to which records have been read.
read_up_to == IF reader.pc = "idle" THEN data_tail ELSE reader.tail

\* "data_tail points to the position the next input should read" (perf_event_handler.hpp): the
\* records output and not read lie one behind the other from where the reader is to data_head,
\* each complete in the data area, in one piece or in two.  No output overwrites a record that
\* has not been read, and no record is read twice or out of order.  The reader goes astray only at
\* a header that the end of the data area cuts in two, which output_data can produce because it does
\* not round the size of a record up to eight bytes.
RecordsIntact ==
  /\ reader.pc = "astray" => reader.tail % DataSize = DataSize - 1
  /\ reader.pc # "astray" =>
    /\ \A n \in 1..Len(unread) :
         /\ unread[n].start = (IF n = 1 THEN read_up_to ELSE unread[n - 1].start + unread[n - 1].size)
         /\ \A k \in 0..(unread[n].size - 1) : data[(unread[n].start + k) % DataSize] = cell(unread[n], k)
    /\ data_head = IF unread = << >> THEN read_up_to ELSE unread[Len(unread)].start + unread[Len(unread)].size

\* "we'll never make data_head equals to data_tail, at situation other than an empty buffer"
\* (output_data), "under the modular of buffer length" (perf_event_handler.hpp): when the two meet,
\* and no read is under way, every record that was output has been read.
EqualOnlyWhenEmpty == reader.pc = "idle" /\ (data_head - data_tail) % DataSize = 0 => unread = << >>

=============================================================================
