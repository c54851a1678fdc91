------------------------ MODULE SyscallTraceAttach ------------------------
(***************************************************************************)
(* The syscall tracing attach implementation                               *)
(* (syscall_trace_attach_impl.cpp): callbacks kept per syscall number, and *)
(* in a global set for the number -1, which traces every syscall.          *)
(***************************************************************************)
EXTENDS Naturals

CONSTANTS SysNrs,        \* syscall numbers the callback tables have a row for
          EverySyscall   \* the number -1

VARIABLES attach_entries,  \* attach id |-> [sys_nr, is_enter, cb]
          callbacks,       \* <<sys_nr, is_enter>> |-> ids that run; the row of EverySyscall is the global set
          syscall_next_id

syscall_vars == <<attach_entries, callbacks, syscall_next_id>>

Rows == (SysNrs \cup {EverySyscall}) \X BOOLEAN

SyscallInit ==
  /\ attach_entries = << >>
  /\ callbacks = [r \in Rows |-> {}]
  /\ syscall_next_id = 1

\* A new implementation made global: the dispatcher uses its tables from now on.
set_to_global ==
  /\ attach_entries' = << >>
  /\ callbacks' = [r \in Rows |-> {}]
  /\ syscall_next_id' = 1

syscall_refused(data) == data.sys_nr \notin SysNrs \cup {EverySyscall}

create_syscall_attach(data, cb) ==
  /\ ~syscall_refused(data)
  /\ attach_entries' = [i \in DOMAIN attach_entries \cup {syscall_next_id} |->
                          IF i = syscall_next_id THEN [sys_nr |-> data.sys_nr, is_enter |-> data.is_enter, cb |-> cb]
                          ELSE attach_entries[i]]
  /\ callbacks' = [callbacks EXCEPT ![<<data.sys_nr, data.is_enter>>] = @ \cup {syscall_next_id}]
  /\ syscall_next_id' = syscall_next_id + 1

\* Mutant: an entry of the global set is looked for in the per-syscall rows only.
syscall_detach_by_id_not_global(ids) ==
  /\ callbacks' = [r \in Rows |-> IF r[1] = EverySyscall THEN callbacks[r] ELSE callbacks[r] \ ids]
  /\ attach_entries' = [i \in DOMAIN attach_entries \ ids |-> attach_entries[i]]
  /\ UNCHANGED syscall_next_id

\* detach_by_id of every id in `ids': each leaves the row it was inserted in.
syscall_detach_by_id(ids) ==
  /\ callbacks' = [r \in Rows |->
       callbacks[r] \ {i \in ids \cap DOMAIN attach_entries :
                         <<attach_entries[i].sys_nr, attach_entries[i].is_enter>> = r}]
  /\ attach_entries' = [i \in DOMAIN attach_entries \ ids |-> attach_entries[i]]
  /\ UNCHANGED syscall_next_id

\* The callbacks dispatch_syscall runs before (is_enter) or after the system call sys_nr.
dispatched(sys_nr, is_enter) == callbacks[<<sys_nr, is_enter>>] \cup callbacks[<<EverySyscall, is_enter>>]

\* dispatch_syscall runs an attached callback exactly on the syscalls it was attached to, and
\* never follows a pointer to an entry that detach_by_id has freed.
DispatchesAttached ==
  \A nr \in SysNrs, is_enter \in BOOLEAN :
    dispatched(nr, is_enter)
      = {i \in DOMAIN attach_entries : /\ attach_entries[i].sys_nr \in {nr, EverySyscall}
                                       /\ attach_entries[i].is_enter = is_enter}
=============================================================================
