------------------------------- MODULE PerfPoll -------------------------------
(***************************************************************************)
(* A loader that reads perf events: libbpf's perf_buffer maps the buffers, *)
(* adds them to an epoll instance, waits on it and reads what it reports,  *)
(* while the traced processes output records.                              *)
(*                                                                         *)
(* "perf" is the buffer of PerfBuffer; "other" is the buffer of another    *)
(* CPU, of which only whether it has data is kept.                         *)
(***************************************************************************)
EXTENDS PerfBuffer

CONSTANTS max_evt, Timeouts, MaxSignals

VARIABLES other,       \* the other buffer has data
          todo,        \* reported events the loader has yet to process
          timeout, files, live, wait, blocked, pending, signals

Files == {"perf", "other"}

ready_files == {f \in Files : IF f = "perf" THEN has_data ELSE other}

INSTANCE Epoll WITH ready <- ready_files

epoll_vars == <<timeout, files, live, wait, blocked, pending, signals>>

vars == <<buffer_vars, epoll_vars, other, todo>>

Init ==
  /\ BufferInit
  /\ EpollInit
  /\ other = FALSE
  /\ todo = << >>

in_files(f) == \E i \in 1..Len(files) : files[i] = f

\* Each buffer in turn is mapped, and only then added to the instance (__perf_buffer__new).
setup ==
  \/ ensure_mmap_buffer /\ UNCHANGED <<epoll_vars, other, todo>>
  \/ \E f \in Files : /\ ~in_files(f)
                      /\ IF f = "perf" THEN mmap_size > 0 ELSE in_files("perf")
                      /\ epoll_ctl_add(f)
                      /\ UNCHANGED <<buffer_vars, other, todo>>

traced_processes ==
  \/ \E w \in Writers : (writer_continues(w) \/ \E s \in Sizes : output_load(w, s)) /\ UNCHANGED <<epoll_vars, other, todo>>
  \/ "other" \in live /\ ~other /\ other' = TRUE /\ UNCHANGED <<buffer_vars, epoll_vars, todo>>

\* perf_buffer__poll: epoll_wait, then every event it reported, in order.
perf_buffer__poll ==
  /\ todo = << >> /\ Len(files) = 2
  /\ epoll_wait_enter
  /\ UNCHANGED <<buffer_vars, other, todo>>

poll_waits == epoll_wait_step /\ UNCHANGED <<buffer_vars, other, todo>>

poll_returns ==
  /\ wait.pc = "returned"
  /\ todo' = IF wait.ret > 0 THEN wait.evts ELSE << >>
  /\ wait' = NoCall
  /\ UNCHANGED <<buffer_vars, other, timeout, files, live, blocked, pending, signals>>

process_records ==
  /\ todo # << >>
  /\ IF Head(todo) = "other"
       THEN other' = FALSE /\ todo' = Tail(todo) /\ UNCHANGED buffer_vars
       ELSE /\ read_begin \/ read_record \/ read_end
            /\ todo' = IF reader.pc = "reading" /\ reader'.pc = "idle" THEN Tail(todo) ELSE todo
            /\ UNCHANGED other
  /\ UNCHANGED epoll_vars

loader_step == perf_buffer__poll \/ poll_waits \/ poll_returns \/ process_records

\* Buffers are closed once the loader has set them up.
outside_world ==
  /\ signal_arrives \/ (Len(files) = 2 /\ close_file("other")) \/ time_passes
  /\ UNCHANGED <<buffer_vars, other, todo>>

Next == setup \/ traced_processes \/ loader_step \/ outside_world

Spec == Init /\ [][Next]_vars

\* The loader keeps polling, a writer that has begun goes on, and time passes; but the loader is not
\* held up on every call for so long that the timeout is over before the files are looked at.
Fairness ==
  /\ WF_vars(setup)
  /\ WF_vars(loader_step)
  /\ SF_vars(~wait.elapsed /\ loop_test /\ UNCHANGED <<buffer_vars, other, todo>>)
  /\ \A w \in Writers : WF_vars(writer_continues(w) /\ UNCHANGED <<epoll_vars, other, todo>>)
  /\ WF_vars(time_passes /\ UNCHANGED <<buffer_vars, other, todo>>)

FairSpec == Spec /\ Fairness

-----------------------------------------------------------------------------

\* Whatever the programs output and is not dropped is read (bpftime_epoll_wait with a timeout that
\* lets it poll, perf_event_read_simple): when the programs fall silent the buffer is drained.  A
\* reader that has gone astray reads nothing more.
OutputIsRead == (unread # << >> /\ timeout \in {-1, 1}) ~> (unread = << >> \/ reader.pc = "astray")

\* A call of epoll_wait that has found an event returns (it goes on polling until the events fill the
\* caller's room), unless the file it found it in was closed.
FoundIsReturned == (wait.evts # << >>) ~> (wait.pc = "returned" \/ live # Files)

\* A signal that arrives while epoll_wait has it blocked is delivered, at the next sleep or on return;
\* not with a timeout of 0, nor once a file in which an event was found has been closed.
SignalIsDelivered == (pending /\ timeout # 0) ~> (~pending \/ live # Files)
=============================================================================
