---------------------------- MODULE PerfPollProofs ----------------------------
(***************************************************************************)
(* Proofs about the perf event buffer with one writer, for every size of   *)
(* the buffer and of the records, and about the signal mask of epoll_wait. *)
(***************************************************************************)
EXTENDS PerfPoll, ModArithmetic

\* One thread outputs into the buffer: one per CPU, as output_data takes for granted.
OneWriter == \A v, w \in Writers : v = w

Record == [by : Writers, start : Nat, size : Sizes]

\* A writer that has found room: nothing it wrote is disturbed, and the room is still there.
Writing(w) ==
  /\ mmap_size = DataSize
  /\ writers[w].head = data_head
  /\ writers[w].size \in Sizes
  /\ data_head + writers[w].size < data_tail + DataSize
  /\ writers[w].pc # "assemble" => copy_buffer = output_record(w)
  /\ writers[w].pc = "publish" =>
       \A k \in 0..(writers[w].size - 1) : data[(data_head + k) % DataSize] = cell(output_record(w), k)

\* The unread records lie between the reader and data_head, in order, and less than the buffer apart.
Ordered ==
  /\ data_head < data_tail + DataSize
  /\ data_tail <= read_up_to /\ read_up_to <= data_head
  /\ \A i, j \in 1..Len(unread) : i < j => unread[i].start + unread[i].size <= unread[j].start
  /\ \A n \in 1..Len(unread) : read_up_to <= unread[n].start /\ unread[n].start + unread[n].size <= data_head

\* The head that the reader has loaded is where some record begins or will begin.
HeadOnBoundary ==
  reader.pc = "reading" =>
    reader.head = data_head \/ \E n \in 1..Len(unread) : unread[n].start = reader.head

BufferTypes ==
  /\ mmap_size \in {0, DataSize}
  /\ DOMAIN data = 0..(DataSize - 1)
  /\ data_head \in Nat /\ data_tail \in Nat
  /\ writers \in [Writers -> [pc : {"idle", "assemble", "copy", "publish"}, head : Nat, size : Nat]]
  /\ \A w \in Writers : writers[w].pc # "idle" => writers[w].size \in Sizes
  /\ reader \in [pc : {"idle", "reading", "astray"}, head : Nat, tail : Nat]
  /\ unread \in Seq(Record)

Sound ==
  /\ Ordered
  /\ HeadOnBoundary
  /\ \A w \in Writers : writers[w].pc # "idle" => Writing(w)

\* The inductive invariant: what RecordsIntact says of the records holds because they are in order
\* within the window, and because what the only writer has under way is intact as well.
BufferInv == BufferTypes /\ RecordsIntact /\ (reader.pc # "astray" => Sound)

\* A step of the buffer.
BufferStep ==
  \/ ensure_mmap_buffer
  \/ \E w \in Writers : writer_continues(w) \/ \E s \in Sizes : output_load(w, s)
  \/ read_begin \/ read_record \/ read_end

-----------------------------------------------------------------------------

\* A unit written from the head on is ahead of every unread one, and less than the area away from it.
LEMMA AheadOfTail ==
  ASSUME NEW head \in Nat, NEW size \in Nat, NEW tail \in Nat, NEW pos \in Nat, NEW area \in Nat,
         NEW j \in 0..(size - 1), tail <= pos, pos < head, head + size < tail + area
  PROVE  head + j \in Nat /\ pos < head + j /\ head + j < pos + area
OBVIOUS

\* A record has at least the three units of its header.
LEMMA SizesType ==
  \A s \in Sizes : s \in Nat /\ s >= 3
BY PayloadsAssumption DEF Sizes, sizeof_head

\* Every step of the composition is a step of the buffer or leaves it alone.
LEMMA StepsOfTheBuffer ==
  ASSUME [Next]_vars
  PROVE  BufferStep \/ UNCHANGED buffer_vars
<1>1. CASE setup
  BY <1>1 DEF setup, BufferStep
<1>2. CASE traced_processes
  BY <1>2 DEF traced_processes, BufferStep
<1>3. CASE loader_step
  BY <1>3 DEF loader_step, perf_buffer__poll, poll_waits, poll_returns, process_records, BufferStep
<1>4. CASE outside_world
  BY <1>4 DEF outside_world
<1>5. CASE UNCHANGED vars
  BY <1>5 DEF vars
<1> QED BY <1>1, <1>2, <1>3, <1>4, <1>5 DEF Next

\* The empty buffer.
LEMMA BufferInvInit ==
  BufferInit => BufferInv
<1> SUFFICES ASSUME BufferInit PROVE BufferInv
  OBVIOUS
<1> USE DataSizeAssumption
<1>1. BufferTypes
  BY DEF BufferInit, BufferTypes, IdleWriter, IdleReader
<1>2. RecordsIntact
  BY DEF BufferInit, RecordsIntact, IdleReader, read_up_to
<1>3. Sound
  BY DEF BufferInit, Sound, Ordered, HeadOnBoundary, IdleReader, IdleWriter, read_up_to
<1> QED BY <1>1, <1>2, <1>3 DEF BufferInv

\* Nothing of the buffer changes.
LEMMA BufferStutters ==
  ASSUME BufferInv, UNCHANGED buffer_vars
  PROVE  BufferInv'
BY SMTT(30) DEF BufferInv, BufferTypes, RecordsIntact, Sound, Ordered, HeadOnBoundary, Writing, read_up_to, buffer_vars,
       output_record, cell

\* ensure_mmap_buffer: no writer is under way yet.
LEMMA MapKeepsInv ==
  ASSUME BufferInv, ensure_mmap_buffer
  PROVE  BufferInv'
<1> USE DEF ensure_mmap_buffer
<1>1. BufferTypes'
  BY DEF BufferInv, BufferTypes
<1>2. RecordsIntact'
  BY Zenon DEF BufferInv, RecordsIntact, read_up_to, cell
<1>3. Ordered => Ordered'
  BY Zenon DEF Ordered, read_up_to
<1>4. HeadOnBoundary => HeadOnBoundary'
  BY Zenon DEF HeadOnBoundary
<1>5. \A w \in Writers : Writing(w) => Writing(w)'
  BY DataSizeAssumption, Zenon DEF Writing, output_record, cell
<1> QED BY <1>1, <1>2, <1>3, <1>4, <1>5 DEF BufferInv, Sound

\* The first part of output_data: the writer goes on only with room for the record and a byte more.
LEMMA LoadKeepsInv ==
  ASSUME BufferInv, NEW w \in Writers, NEW s \in Sizes, output_load(w, s)
  PROVE  BufferInv'
<1> USE DataSizeAssumption
<1>1. s \in Nat /\ s >= 3
  BY SizesType
<1>2. BufferTypes'
  <2>1. CASE writers' = writers
    BY <2>1 DEF BufferInv, BufferTypes, output_load
  <2>2. CASE writers' = [writers EXCEPT ![w] = [pc |-> "assemble", head |-> data_head, size |-> s]]
    <3>1. \A v \in Writers : writers'[v] = IF v = w THEN [pc |-> "assemble", head |-> data_head, size |-> s] ELSE writers[v]
      BY <2>2 DEF BufferInv, BufferTypes
    <3> QED BY <1>1, <2>2, <3>1 DEF BufferInv, BufferTypes, output_load
  <2> QED BY <2>1, <2>2 DEF output_load
<1>3. RecordsIntact'
  BY DEF BufferInv, RecordsIntact, read_up_to, output_load, cell
<1>4. ASSUME reader.pc # "astray" PROVE Sound'
  <2>1. Ordered' /\ HeadOnBoundary'
    BY <1>4 DEF BufferInv, Sound, Ordered, HeadOnBoundary, read_up_to, output_load
  <2>2. ASSUME NEW v \in Writers, writers'[v].pc # "idle" PROVE Writing(v)'
    <3>1. CASE v # w \/ writers' = writers
      <4>1. writers'[v] = writers[v]
        BY <3>1 DEF BufferInv, BufferTypes, output_load
      <4>2. Writing(v)
        BY <1>4, <2>2, <4>1 DEF BufferInv, Sound
      <4> QED BY <4>1, <4>2 DEF Writing, output_record, cell, output_load
    <3>2. CASE v = w /\ writers' # writers
      <4>1. writers'[w] = [pc |-> "assemble", head |-> data_head, size |-> s] /\ ~dropped(s)
        BY <3>2 DEF BufferInv, BufferTypes, output_load
      <4>2. mmap_size = DataSize /\ data_head + s < data_tail + DataSize
        <5>1. /\ mmap_size \in {0, DataSize} /\ data_head \in Nat /\ data_tail \in Nat /\ data_tail <= data_head
              /\ data_head < data_tail + DataSize
          BY <1>4 DEF BufferInv, BufferTypes, Sound, Ordered, read_up_to
        <5> QED BY <1>1, <4>1, <5>1 DEF dropped
      <4> QED BY <3>2, <4>1, <4>2 DEF Writing, output_load
    <3> QED BY <3>1, <3>2
  <2> QED BY <2>1, <2>2 DEF Sound
<1>5. reader' = reader
  BY DEF output_load
<1> QED BY <1>2, <1>3, <1>4, <1>5 DEF BufferInv

\* The record is put together in the copy buffer, which no other writer uses.
LEMMA AssembleKeepsInv ==
  ASSUME BufferInv, OneWriter, NEW w \in Writers, output_assemble(w)
  PROVE  BufferInv'
<1>2. BufferTypes'
  BY Zenon DEF BufferInv, BufferTypes, output_assemble
<1>3. RecordsIntact'
  BY DEF BufferInv, RecordsIntact, read_up_to, output_assemble, cell
<1>4. ASSUME reader.pc # "astray" PROVE Sound'
  <2>1. Ordered' /\ HeadOnBoundary'
    BY <1>4 DEF BufferInv, Sound, Ordered, HeadOnBoundary, read_up_to, output_assemble
  <2>2. ASSUME NEW v \in Writers PROVE Writing(v)'
    <3>1. v = w
      BY DEF OneWriter
    <3>2. Writing(w)
      BY <1>4 DEF BufferInv, Sound, output_assemble
    <3> QED BY <3>1, <3>2 DEF BufferInv, BufferTypes, Writing, output_record, output_assemble
  <2> QED BY <2>1, <2>2 DEF Sound
<1>5. reader' = reader
  BY DEF output_assemble
<1> QED BY <1>2, <1>3, <1>4, <1>5 DEF BufferInv
\* The record goes to places of the buffer that no unread record occupies.
LEMMA CopyKeepsInv ==
  ASSUME BufferInv, OneWriter, NEW w \in Writers, output_copy(w)
  PROVE  BufferInv'
<1> USE DataSizeAssumption
<1> DEFINE head == writers[w].head
           size == writers[w].size
<1>1. BufferTypes'
  BY Zenon DEF BufferInv, BufferTypes, output_copy
<1>2. UNCHANGED <<mmap_size, data_head, data_tail, copy_buffer, reader, unread>>
  BY DEF output_copy
<1>3. CASE reader.pc = "astray"
  BY <1>1, <1>2, <1>3 DEF BufferInv, RecordsIntact
<1>4. CASE reader.pc # "astray"
  <2>1. /\ Writing(w)
        /\ head = data_head /\ head \in Nat /\ size \in Nat /\ size >= 3
        /\ mmap_size = DataSize /\ head + size < data_tail + DataSize
        /\ copy_buffer = output_record(w)
    BY <1>4, SizesType DEF BufferInv, BufferTypes, Sound, Writing, output_copy
  <2>n. /\ head \in Nat /\ size \in Nat /\ data_head \in Nat /\ data_tail \in Nat
        /\ data_tail <= data_head /\ head = data_head /\ head + size < data_tail + DataSize
    BY <2>1, <1>4 DEF BufferInv, BufferTypes, Sound, Ordered, read_up_to
  <2>2. ASSUME NEW i \in 0..(DataSize - 1)
        PROVE  /\ (\A k \in 0..(size - 1) : (head + k) % DataSize # i) => data'[i] = data[i]
               /\ \A k \in 0..(size - 1) : (head + k) % DataSize = i => data'[i] = cell(copy_buffer, k)
    <3>1. data'[i] = IF copied_to(i, w) = {} THEN data[i] ELSE cell(copy_buffer, CHOOSE k \in copied_to(i, w) : TRUE)
      BY DEF BufferInv, BufferTypes, output_copy
    <3>2. ASSUME \A k \in 0..(size - 1) : (head + k) % DataSize # i PROVE data'[i] = data[i]
      BY <2>1, <3>1, <3>2 DEF copied_to
    <3>3. ASSUME NEW k \in 0..(size - 1), (head + k) % DataSize = i PROVE data'[i] = cell(copy_buffer, k)
      <4>1. \A j \in copied_to(i, w) : j = k
        <5> SUFFICES ASSUME NEW j \in copied_to(i, w), j # k PROVE FALSE
          OBVIOUS
        <5>1. j \in 0..(size - 1) /\ (head + j) % DataSize = i
          BY <2>1 DEF copied_to
        <5>2. /\ head + j \in Nat /\ head + k \in Nat /\ size <= DataSize
              /\ (head + j < head + k /\ head + k < head + j + DataSize)
                   \/ (head + k < head + j /\ head + j < head + k + DataSize)
          <6> HIDE DEF head, size
          <6> QED BY <2>n, <5>1
        <5> QED BY <3>3, <5>1, <5>2, ModApart
      <4>2. k \in copied_to(i, w)
        BY <2>1, <3>3 DEF copied_to
      <4> QED BY <3>1, <4>1, <4>2
    <3> QED BY <3>2, <3>3
  <2>3. ASSUME NEW n \in 1..Len(unread), NEW k \in 0..(unread[n].size - 1)
        PROVE  data'[(unread[n].start + k) % DataSize] = cell(unread[n], k)
    <3> DEFINE pos == unread[n].start + k
    <3>1. /\ pos \in Nat /\ data_tail <= pos /\ pos < data_head
          /\ data[pos % DataSize] = cell(unread[n], k)
      <4>1. unread[n] \in Record
        BY DEF BufferInv, BufferTypes
      <4>2. unread[n].start \in Nat /\ unread[n].size \in Nat
        BY <4>1, SizesType DEF Record
      <4>3. data_tail <= read_up_to /\ read_up_to <= unread[n].start /\ unread[n].start + unread[n].size <= data_head
        BY <1>4 DEF BufferInv, Sound, Ordered
      <4>4. read_up_to \in Nat
        BY DEF BufferInv, BufferTypes, read_up_to
      <4>5. data[(unread[n].start + k) % DataSize] = cell(unread[n], k)
        BY <1>4 DEF BufferInv, RecordsIntact
      <4>6. pos \in Nat /\ data_tail <= pos /\ pos < data_head
        <5> DEFINE start == unread[n].start
                   unit == unread[n].size
        <5>1. start \in Nat /\ unit \in Nat /\ data_tail <= start /\ start + unit <= data_head /\ k \in 0..(unit - 1)
          <6> HIDE DEF head, size
          <6> QED BY <2>n, <4>2, <4>3, <4>4
        <5>2. pos = start + k
          OBVIOUS
        <5> HIDE DEF start, unit, pos
        <5> QED BY <2>n, <5>1, <5>2
      <4> QED BY <4>5, <4>6
    <3>2. ASSUME NEW j \in 0..(size - 1) PROVE (head + j) % DataSize # pos % DataSize
      <4>1. head + j \in Nat /\ pos < head + j /\ head + j < pos + DataSize
        <5> HIDE DEF head, size, pos
        <5>1. /\ head \in Nat /\ size \in Nat /\ data_tail \in Nat /\ pos \in Nat /\ DataSize \in Nat
              /\ data_tail <= pos /\ pos < head /\ head + size < data_tail + DataSize
          BY <2>n, <3>1, DataSizeAssumption, Zenon
        <5> QED BY <5>1, AheadOfTail, Zenon
      <4> QED BY <3>1, <4>1, ModApart, Zenon
    <3>3. pos % DataSize \in 0..(DataSize - 1)
      BY <3>1, ModRange, Zenon
    <3> HIDE DEF pos
    <3>4. data'[pos % DataSize] = data[pos % DataSize]
      BY <2>2, <3>2, <3>3
    <3> QED BY <3>1, <3>4 DEF pos
  <2>4. RecordsIntact'
    BY <1>2, <1>4, <2>3 DEF BufferInv, RecordsIntact, read_up_to
  <2>5. ASSUME NEW v \in Writers PROVE Writing(v)'
    <3>1. v = w /\ writers' = [writers EXCEPT ![w].pc = "publish"] /\ output_record(w)' = output_record(w)
      BY DEF OneWriter, BufferInv, BufferTypes, output_copy, output_record
    <3>2. \A k \in 0..(size - 1) : data'[(head + k) % DataSize] = cell(output_record(w), k)
      <4> TAKE k \in 0..(size - 1)
      <4>1. (head + k) % DataSize \in 0..(DataSize - 1)
        <5> HIDE DEF head, size
        <5>1. head + k \in Nat
          BY <2>n
        <5> QED BY <5>1, ModRange, Zenon
      <4> QED BY <2>1, <2>2, <4>1
    <3> QED BY <1>2, <2>1, <3>1, <3>2 DEF BufferInv, BufferTypes, Writing
  <2>6. Sound'
    BY <1>2, <1>4, <2>5 DEF BufferInv, Sound, Ordered, HeadOnBoundary, read_up_to
  <2> QED BY <1>1, <2>4, <2>6 DEF BufferInv
<1> QED BY <1>3, <1>4
\* The record becomes the last unread one, and data_head moves behind it.
LEMMA PublishKeepsInv ==
  ASSUME BufferInv, OneWriter, NEW w \in Writers, output_publish(w)
  PROVE  BufferInv'
<1> USE DataSizeAssumption
<1> DEFINE rec == output_record(w)
           len == Len(unread)
<1>1. UNCHANGED <<data, mmap_size, data_tail, copy_buffer, reader>>
  BY DEF output_publish
<1>2. /\ writers[w].pc = "publish" /\ writers' = [writers EXCEPT ![w] = IdleWriter]
      /\ data_head' = writers[w].head + writers[w].size /\ unread' = Append(unread, rec)
  BY DEF output_publish
<1>3. CASE reader.pc = "astray"
  <2>1. data_head' \in Nat
    BY <1>2 DEF BufferInv, BufferTypes
  <2>2. unread' \in Seq(Record)
    BY <1>2 DEF BufferInv, BufferTypes, Record, output_record
  <2>3. BufferTypes'
    BY <1>1, <1>2, <2>1, <2>2 DEF BufferInv, BufferTypes, IdleWriter
  <2> QED BY <1>1, <1>3, <2>3 DEF BufferInv, RecordsIntact
<1>4. CASE reader.pc # "astray"
  <2>1. Writing(w)
    BY <1>2, <1>4 DEF BufferInv, Sound
  <2>2. /\ rec \in Record /\ rec.start = data_head /\ rec.size \in Nat /\ rec.size >= 3
        /\ data_head' = rec.start + rec.size /\ data_head' < data_tail + DataSize
        /\ data_head \in Nat /\ data_tail \in Nat /\ read_up_to \in Nat
    BY <1>2, <2>1, SizesType DEF BufferInv, BufferTypes, Writing, output_record, Record, read_up_to
  <2>3. \A k \in 0..(rec.size - 1) : data[(rec.start + k) % DataSize] = cell(rec, k)
    BY <1>2, <2>1 DEF Writing, output_record
  <2> HIDE DEF rec
  <2>4. /\ unread \in Seq(Record) /\ unread' \in Seq(Record) /\ len \in Nat /\ Len(unread') = len + 1
        /\ \A n \in 1..len : unread'[n] = unread[n] /\ unread[n].start \in Nat /\ unread[n].size \in Nat
        /\ unread'[len + 1] = rec
    <3>1. ASSUME NEW n \in 1..len PROVE unread[n].start \in Nat /\ unread[n].size \in Nat
      <4>1. unread[n] \in Record
        BY DEF BufferInv, BufferTypes
      <4> QED BY <4>1, SizesType DEF Record
    <3> QED BY <1>2, <2>2, <3>1, SMTT(30) DEF BufferInv, BufferTypes
  <2>5. read_up_to' = read_up_to
    BY <1>1 DEF read_up_to
  <2>6. BufferTypes'
    BY <1>1, <1>2, <2>2, <2>4, SMTT(30) DEF BufferInv, BufferTypes, IdleWriter
  <2>7. Ordered
    BY <1>4 DEF BufferInv, Sound
  <2>8. Ordered'
    <3>1. data_head' < data_tail' + DataSize /\ data_tail' <= read_up_to' /\ read_up_to' <= data_head'
      BY <1>1, <2>2, <2>5, <2>7 DEF Ordered
    <3>2. ASSUME NEW i \in 1..(len + 1), NEW j \in 1..(len + 1), i < j
          PROVE  unread'[i].start + unread'[i].size <= unread'[j].start
      <4>1. i \in 1..len
        BY <2>4, <3>2
      <4>2. CASE j \in 1..len
        BY <2>4, <2>7, <3>2, <4>1, <4>2 DEF Ordered
      <4>3. CASE j = len + 1
        BY <2>2, <2>4, <2>7, <4>1, <4>3, Zenon DEF Ordered
      <4> QED BY <2>4, <4>2, <4>3
    <3>3. ASSUME NEW n \in 1..(len + 1)
          PROVE  read_up_to' <= unread'[n].start /\ unread'[n].start + unread'[n].size <= data_head'
      <4>1. CASE n \in 1..len
        <5>1. read_up_to <= unread[n].start /\ unread[n].start + unread[n].size <= data_head
          BY <2>7, <4>1 DEF Ordered
        <5>2. unread'[n] = unread[n] /\ unread[n].start \in Nat /\ unread[n].size \in Nat
          BY <2>4, <4>1
        <5> QED BY <2>2, <2>5, <5>1, <5>2, SMTT(30)
      <4>2. CASE n = len + 1
        BY <2>2, <2>4, <2>5, <2>7, <4>2 DEF Ordered
      <4> QED BY <2>4, <4>1, <4>2
    <3> QED BY <2>4, <3>1, <3>2, <3>3 DEF Ordered
  <2>9. RecordsIntact'
    <3>1. reader'.pc # "astray"
      BY <1>1, <1>4
    <3>2. ASSUME NEW n \in 1..(len + 1)
          PROVE  unread'[n].start = (IF n = 1 THEN read_up_to' ELSE unread'[n - 1].start + unread'[n - 1].size)
      <4>1. CASE n \in 1..len
        <5>1. unread[n].start = (IF n = 1 THEN read_up_to ELSE unread[n - 1].start + unread[n - 1].size)
          BY <1>4, <4>1 DEF BufferInv, RecordsIntact
        <5>2. n # 1 => n - 1 \in 1..len
          BY <2>4, <4>1
        <5> QED BY <2>4, <2>5, <4>1, <5>1, <5>2
      <4>2. CASE n = len + 1 /\ len = 0
        BY <1>4, <2>2, <2>4, <2>5, <4>2 DEF BufferInv, RecordsIntact
      <4>3. CASE n = len + 1 /\ len # 0
        <5>1. len \in 1..len /\ n - 1 = len /\ unread # << >> /\ n # 1
          BY <2>4, <4>3
        <5>2. data_head = unread[len].start + unread[len].size
          BY <1>4, <5>1 DEF BufferInv, RecordsIntact
        <5> QED BY <2>2, <2>4, <4>3, <5>1, <5>2
      <4> QED BY <2>4, <4>1, <4>2, <4>3
    <3>3. ASSUME NEW n \in 1..(len + 1), NEW k \in 0..(unread'[n].size - 1)
          PROVE  data'[(unread'[n].start + k) % DataSize] = cell(unread'[n], k)
      <4>1. CASE n \in 1..len
        BY <1>1, <1>4, <2>4, <3>3, <4>1 DEF BufferInv, RecordsIntact
      <4>2. CASE n = len + 1
        BY <1>1, <2>3, <2>4, <3>3, <4>2
      <4> QED BY <2>4, <4>1, <4>2
    <3>4. unread' # << >> /\ data_head' = unread'[Len(unread')].start + unread'[Len(unread')].size
      BY <2>2, <2>4
    <3> QED BY <2>4, <3>1, <3>2, <3>3, <3>4 DEF RecordsIntact
  <2>10. HeadOnBoundary'
    <3>1. CASE reader.head = data_head
      BY <1>1, <2>2, <2>4, <3>1 DEF HeadOnBoundary
    <3>2. CASE \E n \in 1..len : unread[n].start = reader.head
      BY <1>1, <2>4, <3>2 DEF HeadOnBoundary
    <3> QED BY <1>1, <1>4, <3>1, <3>2 DEF BufferInv, Sound, HeadOnBoundary
  <2>11. \A v \in Writers : writers'[v].pc = "idle"
    BY <1>2 DEF OneWriter, BufferInv, BufferTypes, IdleWriter
  <2> QED BY <2>6, <2>8, <2>9, <2>10, <2>11 DEF BufferInv, Sound
<1> QED BY <1>3, <1>4
\* The reader loads data_head and data_tail.
LEMMA BeginKeepsInv ==
  ASSUME BufferInv, read_begin
  PROVE  BufferInv'
<1>1. /\ reader.pc = "idle" /\ reader' = [pc |-> "reading", head |-> data_head, tail |-> data_tail]
      /\ UNCHANGED <<data, mmap_size, data_head, data_tail, copy_buffer, writers, unread>>
  BY DEF read_begin
<1>2. read_up_to' = read_up_to
  BY <1>1 DEF read_up_to
<1>3. BufferTypes'
  BY <1>1 DEF BufferInv, BufferTypes
<1>4. RecordsIntact'
  BY <1>1, <1>2 DEF BufferInv, RecordsIntact
<1>5. Sound'
  BY <1>1, <1>2 DEF BufferInv, Sound, Ordered, HeadOnBoundary, Writing, output_record
<1> QED BY <1>3, <1>4, <1>5 DEF BufferInv

\* The reader frees what it has read.
LEMMA EndKeepsInv ==
  ASSUME BufferInv, read_end
  PROVE  BufferInv'
<1> USE DataSizeAssumption
<1>1. /\ reader.pc = "reading" /\ reader' = IdleReader /\ data_tail' = reader.tail
      /\ UNCHANGED <<data, mmap_size, data_head, copy_buffer, writers, unread>>
  BY DEF read_end
<1>2. read_up_to' = read_up_to /\ read_up_to = reader.tail
  BY <1>1 DEF read_up_to, IdleReader
<1>3. BufferTypes'
  BY <1>1 DEF BufferInv, BufferTypes, IdleReader
<1>4. RecordsIntact'
  BY <1>1, <1>2 DEF BufferInv, RecordsIntact, IdleReader
<1>5. data_tail \in Nat /\ data_tail' \in Nat /\ data_head \in Nat /\ data_tail <= data_tail'
  BY <1>1, <1>2 DEF BufferInv, BufferTypes, Sound, Ordered
<1>6. Ordered'
  BY <1>1, <1>2, <1>5 DEF BufferInv, Sound, Ordered
<1>7. ASSUME NEW w \in Writers, writers[w].pc # "idle" PROVE Writing(w)'
  <2>1. Writing(w) /\ writers[w].size \in Nat
    BY <1>1, <1>7, SizesType DEF BufferInv, Sound, Writing
  <2> QED BY <1>1, <1>5, <2>1, SMTT(30) DEF Writing, output_record
<1>8. HeadOnBoundary'
  BY <1>1 DEF HeadOnBoundary, IdleReader
<1> QED BY <1>1, <1>3, <1>4, <1>6, <1>7, <1>8 DEF BufferInv, Sound

\* The reader's next header is that of the oldest unread record, or the end of the buffer cuts it.
LEMMA HeaderRead ==
  ASSUME BufferInv, reader.pc = "reading", reader.tail # reader.head
  PROVE  /\ unread # << >> /\ unread[1] \in Record /\ unread[1].start = reader.tail
         /\ header_readable(reader.tail) => read_size(reader.tail) = unread[1].size
         /\ ~header_readable(reader.tail) => reader.tail % DataSize = DataSize - 1
<1> USE DataSizeAssumption
<1>1. unread # << >>
  BY DEF BufferInv, RecordsIntact, Sound, HeadOnBoundary, read_up_to
<1>2. 1 \in 1..Len(unread) /\ unread[1] \in Record
  BY <1>1 DEF BufferInv, BufferTypes
<1>3. unread[1].start = reader.tail /\ reader.tail \in Nat /\ unread[1].size \in Nat /\ unread[1].size >= 3
  BY <1>2, SizesType DEF BufferInv, BufferTypes, RecordsIntact, read_up_to, Record
<1>4. \A k \in 0..(unread[1].size - 1) : data[(reader.tail + k) % DataSize] = cell(unread[1], k)
  BY <1>2, <1>3 DEF BufferInv, RecordsIntact
<1>5. data[(reader.tail + 1) % DataSize] = cell(unread[1], 1)
  BY <1>3, <1>4
<1>6. /\ reader.tail % DataSize \in 0..(DataSize - 1)
      /\ reader.tail % DataSize # DataSize - 1 => (reader.tail + 1) % DataSize = (reader.tail % DataSize) + 1
  BY <1>3, ModRange, ModNext, Zenon
<1> DEFINE place == reader.tail % DataSize
<1>7. place \in 0..(DataSize - 1) /\ (place # DataSize - 1 => data[place + 1] = cell(unread[1], 1))
  BY <1>5, <1>6
<1>8. size_index(reader.tail) = place + 1 /\ DOMAIN data = 0..(DataSize - 1)
  BY DEF size_index, size_unit, BufferInv, BufferTypes
<1> HIDE DEF place
<1>9. place = DataSize - 1 <=> size_index(reader.tail) \notin DOMAIN data
  BY <1>7, <1>8
<1>10. place # DataSize - 1 => data[size_index(reader.tail)].unit = 1 /\ data[size_index(reader.tail)].size = unread[1].size
  BY <1>7, <1>8 DEF cell
<1> QED BY <1>1, <1>2, <1>3, <1>9, <1>10 DEF header_readable, read_size, size_unit, place
\* The reader passes over one record, the oldest unread one; or it goes astray.
LEMMA ReadKeepsInv ==
  ASSUME BufferInv, read_record
  PROVE  BufferInv'
<1> USE DataSizeAssumption
<1> DEFINE first == unread[1]
           len == Len(unread)
<1>1. /\ reader.pc = "reading" /\ reader.tail # reader.head
      /\ UNCHANGED <<data, mmap_size, data_head, data_tail, copy_buffer, writers>>
  BY DEF read_record
<1>2. /\ unread # << >> /\ first \in Record /\ first.start = reader.tail
      /\ header_readable(reader.tail) => read_size(reader.tail) = first.size
      /\ ~header_readable(reader.tail) => reader.tail % DataSize = DataSize - 1
  BY <1>1, HeaderRead
<1>3. CASE ~header_readable(reader.tail)
  <2>1. reader' = [reader EXCEPT !.pc = "astray"] /\ unread' = unread
    BY <1>3 DEF read_record
  <2>2. reader'.pc = "astray" /\ reader'.tail = reader.tail /\ BufferTypes'
    BY <1>1, <2>1, SMTT(30) DEF BufferInv, BufferTypes
  <2> QED BY <1>2, <1>3, <2>2 DEF BufferInv, RecordsIntact
<1>4. CASE header_readable(reader.tail)
  <2>1. reader' = [reader EXCEPT !.tail = @ + first.size] /\ unread' = Tail(unread)
    BY <1>2, <1>4 DEF read_record
  <2>2. /\ reader.tail \in Nat /\ first.size \in Nat /\ data_head \in Nat /\ data_tail \in Nat
        /\ reader'.pc = "reading" /\ reader'.head = reader.head /\ reader'.tail = reader.tail + first.size
        /\ reader' \in [pc : {"idle", "reading", "astray"}, head : Nat, tail : Nat]
    <3>1. first.size \in Nat
      BY <1>2, SizesType DEF Record
    <3> HIDE DEF first
    <3> QED BY <1>1, <2>1, <3>1, SMTT(30) DEF BufferInv, BufferTypes
  <2>3. read_up_to = reader.tail /\ read_up_to' = first.start + first.size
    BY <1>1, <1>2, <2>2 DEF read_up_to
  <2>4. ASSUME NEW n \in 1..len PROVE unread[n].start \in Nat /\ unread[n].size \in Nat
    <3>1. unread[n] \in Record
      BY DEF BufferInv, BufferTypes
    <3> QED BY <3>1, SizesType DEF Record
  <2>5. /\ unread' \in Seq(Record) /\ len \in Nat \ {0} /\ Len(unread') = len - 1
        /\ \A n \in 1..(len - 1) : n + 1 \in 1..len /\ unread'[n] = unread[n + 1]
    BY <1>2, <2>1, SMTT(30) DEF BufferInv, BufferTypes
  <2>6. Ordered /\ HeadOnBoundary /\ \A w \in Writers : writers[w].pc # "idle" => Writing(w)
    BY <1>1 DEF BufferInv, Sound
  <2>7. /\ first.start + first.size <= data_head /\ data_tail <= reader.tail
        /\ \A j \in 2..len : first.start + first.size <= unread[j].start
    BY <2>3, <2>5, <2>6 DEF Ordered
  <2>8. BufferTypes'
    BY <1>1, <2>2, <2>5 DEF BufferInv, BufferTypes
  <2>9. Ordered'
    <3>1. data_head' < data_tail' + DataSize /\ data_tail' <= read_up_to' /\ read_up_to' <= data_head'
      BY <1>1, <1>2, <2>2, <2>3, <2>6, <2>7 DEF Ordered
    <3>2. ASSUME NEW i \in 1..(len - 1), NEW j \in 1..(len - 1), i < j
          PROVE  unread'[i].start + unread'[i].size <= unread'[j].start
      <4>1. i + 1 \in 1..len /\ j + 1 \in 1..len /\ i + 1 < j + 1
        BY <2>5, <3>2
      <4>2. unread[i + 1].start + unread[i + 1].size <= unread[j + 1].start
        BY <2>6, <4>1 DEF Ordered
      <4> QED BY <2>5, <4>2
    <3>3. ASSUME NEW n \in 1..(len - 1)
          PROVE  read_up_to' <= unread'[n].start /\ unread'[n].start + unread'[n].size <= data_head'
      <4>1. n + 1 \in 2..len /\ n + 1 \in 1..len /\ unread'[n] = unread[n + 1]
        BY <2>5
      <4>2. unread[n + 1].start + unread[n + 1].size <= data_head
        BY <2>6, <4>1 DEF Ordered
      <4> QED BY <1>1, <2>3, <2>7, <4>1, <4>2
    <3> QED BY <2>5, <3>1, <3>2, <3>3 DEF Ordered
  <2>10. RecordsIntact'
    <3>1. ASSUME NEW n \in 1..(len - 1)
          PROVE  unread'[n].start = (IF n = 1 THEN read_up_to' ELSE unread'[n - 1].start + unread'[n - 1].size)
      <4>1. n + 1 \in 1..len /\ n + 1 # 1 /\ (n + 1) - 1 = n /\ unread'[n] = unread[n + 1]
        BY <2>5
      <4>2. unread[n + 1].start = unread[n].start + unread[n].size
        BY <1>1, <4>1 DEF BufferInv, RecordsIntact
      <4>3. n # 1 => n - 1 \in 1..(len - 1) /\ unread'[n - 1] = unread[n]
        BY <2>5
      <4> QED BY <2>3, <4>1, <4>2, <4>3
    <3>2. ASSUME NEW n \in 1..(len - 1), NEW k \in 0..(unread'[n].size - 1)
          PROVE  data'[(unread'[n].start + k) % DataSize] = cell(unread'[n], k)
      <4>1. n + 1 \in 1..len /\ unread'[n] = unread[n + 1]
        BY <2>5
      <4> QED BY <1>1, <3>2, <4>1 DEF BufferInv, RecordsIntact
    <3>3. data_head' = IF unread' = << >> THEN read_up_to' ELSE unread'[Len(unread')].start + unread'[Len(unread')].size
      <4>1. data_head = unread[len].start + unread[len].size
        BY <1>1, <1>2 DEF BufferInv, RecordsIntact
      <4>2. CASE len = 1
        <5>1. unread' = << >>
          BY <2>5, <4>2
        <5> QED BY <1>1, <2>3, <4>1, <4>2, <5>1
      <4>3. CASE len # 1
        <5>1. len - 1 \in 1..(len - 1) /\ (len - 1) + 1 = len /\ unread' # << >>
          BY <2>5, <4>3
        <5> QED BY <1>1, <2>5, <4>1, <5>1
      <4> QED BY <4>2, <4>3
    <3> QED BY <2>2, <2>5, <3>1, <3>2, <3>3 DEF RecordsIntact
  <2>11. HeadOnBoundary'
    <3>1. CASE reader.head = data_head
      BY <1>1, <2>2, <3>1 DEF HeadOnBoundary
    <3>2. CASE \E n \in 1..len : unread[n].start = reader.head
      <4>1. PICK n \in 1..len : unread[n].start = reader.head
        BY <3>2
      <4>2. n # 1
        BY <1>1, <1>2, <4>1
      <4>3. n - 1 \in 1..(len - 1) /\ (n - 1) + 1 = n
        BY <2>5, <4>2
      <4>4. unread'[n - 1].start = reader'.head /\ n - 1 \in 1..Len(unread')
        <5>1. unread'[n - 1] = unread[(n - 1) + 1]
          BY <2>5, <4>3
        <5> QED BY <2>2, <2>5, <4>1, <4>3, <5>1
      <4> QED BY <4>4 DEF HeadOnBoundary
    <3> QED BY <1>1, <2>6, <3>1, <3>2 DEF HeadOnBoundary
  <2>12. \A w \in Writers : writers'[w].pc # "idle" => Writing(w)'
    BY <1>1, <2>6 DEF Writing, output_record
  <2> QED BY <2>8, <2>9, <2>10, <2>11, <2>12 DEF BufferInv, Sound
<1> QED BY <1>3, <1>4
-----------------------------------------------------------------------------

\* BufferInv is an invariant of the composition.
LEMMA BufferInvariant ==
  ASSUME OneWriter
  PROVE  Spec => []BufferInv
<1>1. Init => BufferInv
  BY BufferInvInit DEF Init
<1>2. BufferInv /\ [Next]_vars => BufferInv'
  <2> SUFFICES ASSUME BufferInv, [Next]_vars PROVE BufferInv'
    OBVIOUS
  <2>1. CASE UNCHANGED buffer_vars
    BY <2>1, BufferStutters
  <2>2. CASE BufferStep
    <3>1. CASE ensure_mmap_buffer
      BY <3>1, MapKeepsInv
    <3>2. ASSUME NEW w \in Writers, writer_continues(w) PROVE BufferInv'
      BY <3>2, AssembleKeepsInv, CopyKeepsInv, PublishKeepsInv DEF writer_continues
    <3>3. ASSUME NEW w \in Writers, NEW s \in Sizes, output_load(w, s) PROVE BufferInv'
      BY <3>3, LoadKeepsInv
    <3>4. CASE read_begin \/ read_record \/ read_end
      BY <3>4, BeginKeepsInv, ReadKeepsInv, EndKeepsInv
    <3> QED BY <2>2, <3>1, <3>2, <3>3, <3>4 DEF BufferStep
  <2> QED BY <2>1, <2>2, StepsOfTheBuffer
<1> QED BY <1>1, <1>2, PTL DEF Spec

\* Whatever the sizes of the buffer and of the records: with one writer, every record that
\* output_data has put into the buffer and libbpf has not read is there, whole and in order.
THEOREM RecordsStayIntact ==
  ASSUME OneWriter
  PROVE  Spec => []RecordsIntact
<1>1. BufferInv => RecordsIntact
  BY DEF BufferInv
<1> QED BY <1>1, BufferInvariant, PTL

\* With one writer data_head and data_tail meet, modulo the buffer, over an empty buffer only: the
\* comment in output_data is true of a buffer that one thread writes to.
THEOREM FullIsNotEmpty ==
  ASSUME OneWriter
  PROVE  Spec => []EqualOnlyWhenEmpty
<1>1. BufferInv => EqualOnlyWhenEmpty
  <2> SUFFICES ASSUME BufferInv, reader.pc = "idle", (data_head - data_tail) % DataSize = 0, unread # << >>
               PROVE  FALSE
    BY DEF EqualOnlyWhenEmpty
  <2>1. Ordered /\ data_head \in Nat /\ data_tail \in Nat /\ read_up_to = data_tail
    BY DEF BufferInv, BufferTypes, Sound, read_up_to
  <2>2. 1 \in 1..Len(unread) /\ unread[1] \in Record
    BY DEF BufferInv, BufferTypes
  <2>3. unread[1].start \in Nat /\ unread[1].size \in Nat /\ unread[1].size >= 3
    BY <2>2, SizesType DEF Record
  <2>4. data_tail <= unread[1].start /\ unread[1].start + unread[1].size <= data_head
    BY <2>1, <2>2 DEF Ordered
  <2>5. data_head - data_tail \in 1..(DataSize - 1)
    BY <2>1, <2>3, <2>4, DataSizeAssumption DEF Ordered
  <2> QED BY <2>5, ModSmall, DataSizeAssumption
<1> QED BY <1>1, BufferInvariant, PTL

-----------------------------------------------------------------------------
(* The signal mask. *)

\* wait has the fields of a call.
WaitRecord ==
  wait = [pc |-> wait.pc, next |-> wait.next, evts |-> wait.evts, elapsed |-> wait.elapsed, orig |-> wait.orig,
          intr |-> wait.intr, ret |-> wait.ret]

\* Inside the call, wait.orig is the mask of a caller that has not blocked the signals; a timeout of 0
\* leaves them blocked for the next call to find.
MaskInv ==
  /\ WaitRecord
  /\ timeout # 0 => wait.orig = FALSE /\ (wait.pc \in {"idle", "returned"} => blocked = FALSE)

\* bpftime_epoll_wait gives the caller's signal mask back, for any timeout but 0 and any number of
\* files, events and signals.
THEOREM MaskIsRestored == Spec => []MaskRestored
<1>1. Init => MaskInv
  BY DEF Init, EpollInit, MaskInv, WaitRecord, NoCall
<1>2. MaskInv /\ [Next]_vars => MaskInv'
  <2> SUFFICES ASSUME MaskInv, [Next]_vars PROVE MaskInv'
    OBVIOUS
  <2>1. CASE UNCHANGED epoll_vars
    BY <2>1 DEF MaskInv, WaitRecord, epoll_vars
  <2>2. ASSUME NEW f \in Files, epoll_ctl_add(f) \/ close_file(f) PROVE MaskInv'
    BY <2>2 DEF MaskInv, WaitRecord, epoll_ctl_add, close_file
  <2>3. CASE epoll_wait_enter
    BY <2>3, Zenon DEF MaskInv, WaitRecord, epoll_wait_enter, returns, NoCall
  <2>4. CASE loop_test
    BY <2>4, Zenon DEF MaskInv, WaitRecord, loop_test, returns
  <2>5. CASE scan_file \/ sleep_uninterruptible
    BY <2>5, Zenon DEF MaskInv, WaitRecord, scan_file, sleep_uninterruptible
  <2>6. CASE unblock_signals \/ sigtimedwait_enter \/ sigtimedwait_expires
    BY <2>6 DEF MaskInv, WaitRecord, unblock_signals, sigtimedwait_enter, sigtimedwait_expires
  <2>7. CASE epoll_wait_leave
    BY <2>7, Zenon DEF MaskInv, WaitRecord, epoll_wait_leave, restored_mask, returns
  <2>8. CASE poll_returns
    BY <2>8 DEF MaskInv, WaitRecord, poll_returns, NoCall
  <2>9. CASE signal_arrives \/ time_passes
    BY <2>9, Zenon DEF MaskInv, WaitRecord, signal_arrives, time_passes
  <2> QED BY <2>1, <2>2, <2>3, <2>4, <2>5, <2>6, <2>7, <2>8, <2>9
          DEF Next, setup, traced_processes, loader_step, perf_buffer__poll, poll_waits, process_records,
              outside_world, epoll_wait_step, vars, epoll_vars, Files
<1>3. MaskInv => MaskRestored
  BY DEF MaskInv, MaskRestored
<1> QED BY <1>1, <1>2, <1>3, PTL DEF Spec
=============================================================================
