-------------------------------- MODULE Epoll --------------------------------
(***************************************************************************)
(* The epoll emulation (epoll_handler, bpftime_epoll_wait): a loop that    *)
(* polls the files of the instance every millisecond.  A file is held by a *)
(* weak pointer, so a closed one is passed over.                           *)
(*                                                                         *)
(* SIGINT and SIGTERM are blocked while epoll_wait runs, but for the       *)
(* millisecond it sleeps in sigtimedwait.  One signal stands for both.     *)
(* Time is a flag: the timeout of the call has elapsed or it has not.      *)
(***************************************************************************)
EXTENDS Integers, Sequences

CONSTANTS Files,       \* the files of the instance
          max_evt,     \* room for events in the call
          Timeouts,    \* timeouts the loader polls with
          MaxSignals   \* bound on the signals sent

VARIABLES ready,       \* files that have data
          timeout,     \* the timeout the loader polls with
          files,       \* the files vector
          live,        \* files not closed
          wait,        \* epoll_wait's program counter and locals
          blocked,     \* the two signals are blocked
          pending,     \* one of them is pending
          signals      \* how many were sent

\* `intr': failed_with_intr.
NoCall == [pc |-> "idle", next |-> 0, evts |-> << >>, elapsed |-> FALSE, orig |-> FALSE,
           intr |-> FALSE, ret |-> 0]

EpollInit ==
  /\ timeout \in Timeouts
  /\ files = << >>
  /\ live = Files
  /\ wait = NoCall
  /\ blocked = FALSE
  /\ pending = FALSE
  /\ signals = 0

\* EPOLL_CTL_ADD of a perf event or a ring buffer: appended, whether it is there already or not.
epoll_ctl_add(f) ==
  /\ wait.pc = "idle"
  /\ Len(files) < 2
  /\ f \in live
  /\ files' = Append(files, f)
  /\ UNCHANGED <<timeout, live, wait, blocked, pending, signals>>

\* Another thread closes a file: bpftime_close drops the last strong pointer.
close_file(f) ==
  /\ f \in live
  /\ live' = live \ {f}
  /\ UNCHANGED <<timeout, files, wait, blocked, pending, signals>>

returns(n) == wait' = [wait EXCEPT !.pc = "returned", !.ret = n]

\* The call blocks the signals; a timeout below -1 is refused.
epoll_wait_enter ==
  /\ wait.pc = "idle"
  /\ IF timeout < -1
       THEN returns(-1) /\ UNCHANGED blocked
       ELSE /\ wait' = [NoCall EXCEPT !.pc = "test", !.orig = blocked]
            /\ blocked' = TRUE
  /\ UNCHANGED <<timeout, files, live, pending, signals>>

\* The head of the loop.  A timeout of 0 returns at once, with nothing looked at.
loop_test ==
  /\ wait.pc = "test"
  /\ IF Len(wait.evts) < max_evt /\ timeout = 0
       THEN returns(0)
       ELSE wait' = [wait EXCEPT !.next = 1,
                                 !.pc = IF Len(wait.evts) >= max_evt \/ (timeout > 0 /\ wait.elapsed) THEN "restore" ELSE "scan"]
  /\ UNCHANGED <<timeout, files, live, blocked, pending, signals>>

\* Mutants: a file is reported once per call; the first file is passed over.
reports_once(f) == f \in live /\ f \in ready /\ \A i \in 1..Len(wait.evts) : wait.evts[i] # f
reports_not_first(f) == f \in live /\ f \in ready /\ wait.next > 1 /\ Len(wait.evts) < max_evt

reports(f) == f \in live /\ f \in ready /\ Len(wait.evts) < max_evt

\* One file of the vector.
scan_file ==
  /\ wait.pc = "scan"
  /\ wait.next <= Len(files)
  /\ wait' = [wait EXCEPT !.next = @ + 1,
                          !.evts = IF reports(files[wait.next]) THEN Append(@, files[wait.next]) ELSE @]
  /\ UNCHANGED <<timeout, files, live, blocked, pending, signals>>

\* Something was found: sleep with the signals blocked, then look at every file again, until there
\* are max_evt events or the time is up.
sleep_uninterruptible ==
  /\ wait.pc = "scan" /\ wait.next > Len(files)
  /\ wait.evts # << >>
  /\ wait' = [wait EXCEPT !.pc = "test"]
  /\ UNCHANGED <<timeout, files, live, blocked, pending, signals>>

\* Mutant: the sleep keeps the signals blocked.
unblock_signals_not ==
  /\ wait.pc = "scan" /\ wait.next > Len(files)
  /\ wait.evts = << >>
  /\ wait' = [wait EXCEPT !.pc = "unblocked"]
  /\ UNCHANGED <<timeout, files, live, blocked, pending, signals>>

\* Nothing was found: the signals are unblocked, and a pending one is delivered to its handler.
unblock_signals ==
  /\ wait.pc = "scan" /\ wait.next > Len(files)
  /\ wait.evts = << >>
  /\ blocked' = FALSE
  /\ pending' = FALSE
  /\ wait' = [wait EXCEPT !.pc = "unblocked"]
  /\ UNCHANGED <<timeout, files, live, signals>>

sigtimedwait_enter ==
  /\ wait.pc = "unblocked"
  /\ wait' = [wait EXCEPT !.pc = "sigtimedwait"]
  /\ UNCHANGED <<timeout, files, live, blocked, pending, signals>>

\* The millisecond passes without a signal.
sigtimedwait_expires ==
  /\ wait.pc = "sigtimedwait"
  /\ blocked' = TRUE
  /\ wait' = [wait EXCEPT !.pc = "test"]
  /\ UNCHANGED <<timeout, files, live, pending, signals>>

\* Mutant: the signals stay blocked when the call was interrupted.
restored_mask_not_on_intr == IF wait.intr THEN TRUE ELSE wait.orig

restored_mask == wait.orig

\* The mask of the caller comes back, and a signal that is pending meanwhile is delivered.
epoll_wait_leave ==
  /\ wait.pc = "restore"
  /\ blocked' = restored_mask
  /\ pending' = (pending /\ restored_mask)
  /\ returns(IF wait.intr THEN -1 ELSE Len(wait.evts))
  /\ UNCHANGED <<timeout, files, live, signals>>

\* A signal is sent: it waits while blocked, ends a sigtimedwait, and runs its handler otherwise.
\* sigtimedwait takes it off the queue and the code calls the handler.
signal_arrives ==
  /\ signals < MaxSignals
  /\ signals' = signals + 1
  /\ pending' = blocked
  /\ wait' = IF wait.pc = "sigtimedwait" THEN [wait EXCEPT !.pc = "restore", !.intr = TRUE] ELSE wait
  /\ UNCHANGED <<timeout, files, live, blocked>>

time_passes ==
  /\ timeout > 0 /\ wait.pc \notin {"idle", "returned"} /\ ~wait.elapsed
  /\ wait' = [wait EXCEPT !.elapsed = TRUE]
  /\ UNCHANGED <<timeout, files, live, blocked, pending, signals>>

epoll_wait_step ==
  \/ loop_test
  \/ scan_file
  \/ sleep_uninterruptible
  \/ unblock_signals
  \/ sigtimedwait_enter
  \/ sigtimedwait_expires
  \/ epoll_wait_leave

-----------------------------------------------------------------------------

\* "Restore the original sigmask" (bpftime_epoll_wait): outside the call the signals are blocked
\* only if the caller had blocked them.  The caller here never does; with a timeout of 0 the call
\* returns before the line is reached.
MaskRestored == wait.pc \in {"idle", "returned"} /\ timeout # 0 => ~blocked
=============================================================================
