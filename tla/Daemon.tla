-------------------------------- MODULE Daemon --------------------------------
(***************************************************************************)
(* The bpftime daemon: BPF programs in the kernel watch the bpf,           *)
(* perf_event_open, ioctl and close calls of an eBPF application and send  *)
(* events to the daemon (daemon/kernel), which mirrors the application's   *)
(* uprobes, programs and maps in the shared handler table (daemon/user).   *)
(*                                                                         *)
(* One application thread is traced, and descriptors that have nothing to  *)
(* do with BPF are left out.  A system call of it, from the enter to the   *)
(* exit tracepoint, is one step; so is the handling of one event, which    *)
(* finds the application and the tracer's maps as they are by then.        *)
(*                                                                         *)
(* The handler table has one index for four kinds of number: a uprobe gets *)
(* the lowest unused slot, a program its kernel program id, a map its      *)
(* kernel map id, and a link a descriptor of the daemon.                   *)
(*                                                                         *)
(* external: the kernel, which gives out the lowest descriptor that is     *)
(* closed and ids it has not given before, and frees what nothing refers   *)
(* to.                                                                     *)
(***************************************************************************)
EXTENDS Integers, Sequences, FiniteSetsExt

CONSTANTS MaxFdCount,    \* slots of the table
          AppFds,        \* descriptors of the application: 0 .. n
          ProgIds,       \* ids the kernel gives programs
          MapIds,        \* ids the kernel gives maps
          FirstFd,       \* the lowest descriptor closed in the daemon at its start
          MapNames,      \* names the application gives its maps
          MaxEvents,     \* events the ring buffer of the tracer holds
          MaxPerfs,      \* bound on the uprobes opened
          MaxAttaches    \* bound on the attempts to attach a program

ASSUME SlotsAssumption == ProgIds \cup MapIds \cup {0, FirstFd} \subseteq 0..(MaxFdCount - 1)
ASSUME AppFdsAssumption == AppFds \subseteq Nat

VARIABLES kfd,           \* the kernel: the application's descriptors,
          kprogs,        \*   every program ever loaded, as the application meant it,
          kmaps,         \*   every map ever created, with its name,
          kattached,     \*   uprobe |-> the program attached to it,
          perfs,         \*   uprobes opened so far,
          attempts,      \*   attaches tried so far
          bpf_fd_map,    \* the tracer: descriptor |-> kernel object,
          bpf_prog_insns_map,           \*   instructions by program id,
          insns_of_thread,              \*   and by thread, for the load under way,
          bpf_progs_new_fd_args_map,    \*   the thread's last program id,
          ioctl_param_start,            \*   the thread's ioctl under way,
          rb,                           \*   events under way
          handlers,      \* the daemon: the handler table,
          pid_fd_to_id_map,             \*   uprobe descriptor |-> slot,
          open_fds,                     \*   descriptors it has open, and for what,
          up,                           \*   no exception has ended it
          spoilt         \* history: what has happened that the daemon does not cope with

kernel_vars == <<kfd, kprogs, kmaps, kattached, perfs, attempts>>
tracer_vars == <<bpf_fd_map, bpf_prog_insns_map, insns_of_thread, bpf_progs_new_fd_args_map, ioctl_param_start, rb>>
daemon_vars == <<handlers, pid_fd_to_id_map, open_fds, up>>
vars == <<kernel_vars, tracer_vars, daemon_vars, spoilt>>

Slots == 0..(MaxFdCount - 1)

\* An event found the ring full; the kernel rejected a program, or refused to attach one; a descriptor
\* named by a waiting event came to name something else; two objects wanted one slot; the table had no
\* slot left for one.
Mishaps == {"lost", "rejected", "refused", "reused", "collision", "full"}

None == <<>>
NoFd == -1
closed == [kind |-> "closed", id |-> 0, on |-> FALSE]

Table == INSTANCE HandlerManager
           WITH MapTypes <- {}, MaxDups <- 0, containers <- {}, fds <- {}, mocked_files <- {}, loader <- "up"

\* f with v at x, and f without x.
put(f, x, v) == [y \in DOMAIN f \cup {x} |-> IF y = x THEN v ELSE f[y]]
drop(f, x) == [y \in DOMAIN f \ {x} |-> f[y]]

Init ==
  /\ kfd = [f \in AppFds |-> closed]
  /\ kprogs = <<>> /\ kmaps = <<>> /\ kattached = <<>> /\ perfs = 0 /\ attempts = 0
  /\ bpf_fd_map = <<>> /\ bpf_prog_insns_map = <<>> /\ insns_of_thread = None
  /\ bpf_progs_new_fd_args_map = 0 /\ ioctl_param_start = None /\ rb = <<>>
  /\ handlers = [s \in Slots |-> Table!unused_handler]
  /\ pid_fd_to_id_map = <<>> /\ open_fds = <<>> /\ up = TRUE
  /\ spoilt = {}

-----------------------------------------------------------------------------
(* The application's system calls, and what the tracer makes of them.      *)

\* The call returns descriptor f, for object [kind, id].
returns(f, kind, id) ==
  /\ kfd[f] = closed
  /\ \A g \in AppFds : kfd[g] = closed => f <= g
  /\ kfd' = [kfd EXCEPT ![f] = [kind |-> kind, id |-> id, on |-> FALSE]]

\* The id the kernel gives next, if there is one left.
next_id(ids, given) == {i \in ids \ DOMAIN given : \A j \in ids \ DOMAIN given : i <= j}

set_bpf_fd_data(f, type, id) == bpf_fd_map' = put(bpf_fd_map, f, [type |-> type, kernel_id |-> id])

\* fill_basic_event_info gets a record from bpf_ringbuf_reserve; without room the event is lost.
room == Len(rb) < MaxEvents

submits(e) == rb' = IF room THEN Append(rb, e) ELSE rb
lost_if(sent) == IF sent /\ ~room THEN {"lost"} ELSE {}

\* A waiting BPF_LINK_CREATE event names descriptor f as its program.
reused_if(f) == IF \E i \in 1..Len(rb) : rb[i].type = "link" /\ rb[i].prog = f THEN {"reused"} ELSE {}

map_create(name) ==
  \E f \in AppFds, id \in next_id(MapIds, kmaps) :
    /\ returns(f, "map", id)
    /\ kmaps' = put(kmaps, id, name)
    /\ set_bpf_fd_data(f, "map", id)
    /\ spoilt' = spoilt \cup reused_if(f)
    /\ UNCHANGED <<kprogs, kattached, perfs, attempts, rb, daemon_vars,
                   bpf_prog_insns_map, insns_of_thread, bpf_progs_new_fd_args_map, ioctl_param_start>>

\* process_bpf_prog_load_events stores the instructions under the thread, with BPF_NOEXIST.
insns_stored(insns) == IF insns_of_thread = None THEN insns ELSE insns_of_thread

\* Mutant: bpf_prog_kallsyms_add_enter copies the instructions and leaves them under the thread.
insns_left_kept(insns) == insns

\* bpf_prog_kallsyms_add_enter moves them to the program's id.
insns_left(insns) == None

\* BPF_PROG_LOAD of a program (what it does is named by its id) that refers to the map at descriptor m, or to none.
prog_load(m) ==
  \E f \in AppFds, id \in next_id(ProgIds, kprogs) :
    LET insns == insns_stored([code |-> id, map_fd |-> m])
    IN  /\ m # NoFd => kfd[m].kind = "map"
        /\ returns(f, "prog", id)
        /\ kprogs' = put(kprogs, id, [fd |-> m, map |-> IF m # NoFd THEN kfd[m].id ELSE 0, moved |-> FALSE])
        /\ bpf_prog_insns_map' = put(bpf_prog_insns_map, id, insns)
        /\ insns_of_thread' = insns_left(insns)
        /\ bpf_progs_new_fd_args_map' = id
        /\ set_bpf_fd_data(f, "prog", id)
        /\ spoilt' = spoilt \cup reused_if(f)
        /\ UNCHANGED <<kmaps, kattached, perfs, attempts, ioctl_param_start, rb, daemon_vars>>

\* The kernel's verifier rejects the program: bpf_prog_kallsyms_add is not reached.
prog_load_rejected ==
  /\ insns_of_thread' = insns_stored([code |-> 0, map_fd |-> NoFd])
  /\ spoilt' = spoilt \cup {"rejected"}
  /\ UNCHANGED <<kernel_vars, bpf_fd_map, bpf_prog_insns_map, bpf_progs_new_fd_args_map, ioctl_param_start, rb, daemon_vars>>

\* perf_event_open of a uprobe that is to run in user space.
perf_event_open ==
  \E f \in AppFds :
    /\ perfs < MaxPerfs
    /\ returns(f, "perf", perfs + 1)
    /\ perfs' = perfs + 1
    /\ set_bpf_fd_data(f, "perf", 0)
    /\ submits([type |-> "perf", fd |-> f, perf |-> perfs + 1])
    /\ spoilt' = spoilt \cup reused_if(f) \cup lost_if(TRUE)
    /\ UNCHANGED <<kprogs, kmaps, kattached, attempts, daemon_vars,
                   bpf_prog_insns_map, insns_of_thread, bpf_progs_new_fd_args_map, ioctl_param_start>>

\* The kernel lets program descriptor f be attached to uprobe descriptor p.
attachable(p, f) == kfd[p].kind = "perf" /\ kfd[f].kind = "prog" /\ kfd[p].id \notin DOMAIN kattached

\* Mutant: the program is the one the thread loaded last, as for a link.
prog_id_at_last_loaded(f) == bpf_progs_new_fd_args_map

\* The id an event carries for program descriptor f.
prog_id_at(f) == IF f \in DOMAIN bpf_fd_map THEN bpf_fd_map[f].kernel_id ELSE 0

\* The tracer's part of an ioctl on p.  Entering, the arguments are stored if p is known; leaving,
\* what is stored is sent, whatever p was and whatever the call returned, and stays if there is no room.
traces_ioctl(p, req, data) ==
  LET args == IF p \in DOMAIN bpf_fd_map THEN <<p, req, data>> ELSE ioctl_param_start
      sent == args # None
  IN  /\ rb' = IF ~sent \/ ~room THEN rb
                ELSE Append(rb, [type |-> args[2], fd |-> args[1], prog |-> IF args[2] = "set_bpf" THEN prog_id_at(args[3]) ELSE 0])
      /\ ioctl_param_start' = IF room THEN None ELSE args
      /\ spoilt' = spoilt \cup lost_if(sent)
                     \cup (IF req = "set_bpf" /\ ~attachable(p, data) THEN {"refused"} ELSE {})
      /\ UNCHANGED <<bpf_fd_map, bpf_prog_insns_map, insns_of_thread, bpf_progs_new_fd_args_map, daemon_vars>>

\* ioctl PERF_EVENT_IOC_SET_BPF.
ioctl_set_bpf(p, f) ==
  /\ attempts < MaxAttaches
  /\ kfd[p].kind = "perf"
  /\ attempts' = attempts + 1
  /\ kattached' = IF attachable(p, f) THEN put(kattached, kfd[p].id, kfd[f].id) ELSE kattached
  /\ traces_ioctl(p, "set_bpf", f)
  /\ UNCHANGED <<kfd, kprogs, kmaps, perfs>>

\* ioctl PERF_EVENT_IOC_ENABLE and PERF_EVENT_IOC_DISABLE.
ioctl_enable(p, on) ==
  /\ kfd[p].kind = "perf"
  /\ kfd' = [kfd EXCEPT ![p].on = on]
  /\ traces_ioctl(p, IF on THEN "enable" ELSE "disable", p)
  /\ UNCHANGED <<kprogs, kmaps, kattached, perfs, attempts>>

\* Any ioctl on a descriptor the tracer does not know.
ioctl_elsewhere ==
  /\ traces_ioctl(NoFd, "other", NoFd)
  /\ UNCHANGED kernel_vars

\* BPF_LINK_CREATE.  The tracer insists on an earlier load by the thread; the event carries the two
\* descriptors, and the new descriptor is recorded with the id of that load.
link_create(p, f) ==
  \E l \in AppFds :
    /\ attempts < MaxAttaches
    /\ attachable(p, f)
    /\ returns(l, "link", kfd[f].id)
    /\ attempts' = attempts + 1
    /\ kattached' = put(kattached, kfd[p].id, kfd[f].id)
    /\ set_bpf_fd_data(l, "others", bpf_progs_new_fd_args_map)
    /\ submits([type |-> "link", fd |-> p, prog |-> f])
    /\ spoilt' = spoilt \cup reused_if(l) \cup lost_if(TRUE)
    /\ UNCHANGED <<kprogs, kmaps, perfs, daemon_vars,
                   bpf_prog_insns_map, insns_of_thread, bpf_progs_new_fd_args_map, ioctl_param_start>>

\* Only the close of a uprobe is announced.
close_announced(f) == f \in DOMAIN bpf_fd_map /\ bpf_fd_map[f].type = "perf"

\* close.  An entry of bpf_fd_map goes only with an event.
close_fd(f) ==
  LET cleared == close_announced(f) /\ room
  IN  /\ kfd[f] # closed
      /\ kfd' = [kfd EXCEPT ![f] = closed]
      /\ kprogs' = [i \in DOMAIN kprogs |-> [kprogs[i] EXCEPT !.moved = @ \/ kprogs[i].fd = f]]
      /\ rb' = IF cleared THEN Append(rb, [type |-> "close", fd |-> f]) ELSE rb
      /\ bpf_fd_map' = IF cleared THEN drop(bpf_fd_map, f) ELSE bpf_fd_map
      /\ spoilt' = spoilt \cup lost_if(close_announced(f)) \cup (IF cleared THEN reused_if(f) ELSE {})
      /\ UNCHANGED <<kmaps, kattached, perfs, attempts, daemon_vars,
                     bpf_prog_insns_map, insns_of_thread, bpf_progs_new_fd_args_map, ioctl_param_start>>

application ==
  \/ \E n \in MapNames : map_create(n)
  \/ \E m \in AppFds \cup {NoFd} : prog_load(m)
  \/ prog_load_rejected
  \/ perf_event_open
  \/ ioctl_elsewhere
  \/ \E p, f \in AppFds : ioctl_set_bpf(p, f)
  \/ \E p \in AppFds, on \in BOOLEAN : ioctl_enable(p, on)
  \/ \E p, f \in AppFds : link_create(p, f)
  \/ \E f \in AppFds : close_fd(f)

-----------------------------------------------------------------------------
(* The daemon handles events.                                              *)

bpf_perf_event_handler(perf) == [kind |-> "perf", enabled |-> FALSE, perf |-> perf]
bpf_prog_handler(code, map) == [kind |-> "prog", code |-> code, map |-> map]
bpf_map_handler(name) == [kind |-> "map", name |-> name]

unused_slots == {s \in Slots : ~Table!is_allocated(handlers, s)}

\* The descriptor the daemon's next open returns; it may lie past the table.
lowest_closed(fds) == Min((FirstFd..(FirstFd + Cardinality(DOMAIN fds))) \ DOMAIN fds)

\* Something still refers to the program, so bpf_prog_get_fd_by_id succeeds.
prog_alive(id) ==
  \/ \E f \in AppFds : kfd[f].kind \in {"prog", "link"} /\ kfd[f].id = id
  \/ \E f \in AppFds : kfd[f].kind = "perf" /\ kfd[f].id \in DOMAIN kattached /\ kattached[kfd[f].id] = id
  \/ \E d \in DOMAIN open_fds : open_fds[d] = <<"prog", id>>

\* What the driver has changed so far while it handles an event.
untouched == [hs |-> handlers, fds |-> open_fds, up |-> TRUE, ok |-> TRUE, mishaps |-> {}]

collision_if(taken) == IF taken THEN {"collision"} ELSE {}

\* bpftime_maps_create_server, for a map that is not in the table: whatever has its slot is cleared,
\* the handler is stored, and then a container is constructed under the map's name.  The descriptor
\* of the kernel's map is not closed.
bpftime_maps_create_server(d, id) ==
  LET taken   == \E s \in Slots \ {id} : d.hs[s].kind = "map" /\ d.hs[s].name = kmaps[id]
      cleared == Table!clear_id_at(d.hs, id)
  IN  [d EXCEPT !.hs = [cleared EXCEPT ![id] = bpf_map_handler(kmaps[id])],
                !.fds = put(@, lowest_closed(@), <<"map", id>>),
                !.up = ~taken,
                !.mishaps = @ \cup collision_if(Table!is_allocated(d.hs, id))]

\* get_bpf_obj_id_from_pid_fd: the id recorded for the descriptor now, whatever its type.
get_bpf_obj_id_from_pid_fd(f) == bpf_fd_map[f].kernel_id

\* Mutant: the descriptor is left in the instruction.
relocated_map_not(m) == IF m = NoFd THEN 0 ELSE m

\* What relocate_bpf_prog_insns puts in place of the map descriptor in the instructions.
relocated_map(m) == IF m = NoFd THEN 0 ELSE get_bpf_obj_id_from_pid_fd(m)

\* bpftime_progs_create_server: the map reference is relocated, the program stored, then its map
\* created.  An error leaves the descriptor of the kernel's program open.
bpftime_progs_create_server(d, id) ==
  LET fd    == lowest_closed(d.fds)
      held  == [d EXCEPT !.fds = put(@, fd, <<"prog", id>>), !.ok = FALSE]
      code  == bpf_prog_insns_map[id].code
      m     == bpf_prog_insns_map[id].map_fd
      made  == [held EXCEPT !.hs = Table!set_handler(@, id, bpf_prog_handler(code, relocated_map(m)))]
      needs == kprogs[id].map
      maps  == IF needs = 0 \/ Table!is_map_fd(made.hs, needs) THEN made ELSE bpftime_maps_create_server(made, needs)
  IN  IF ~prog_alive(id) THEN [d EXCEPT !.ok = FALSE]
      ELSE IF m # NoFd /\ m \notin DOMAIN bpf_fd_map THEN held
      ELSE IF Table!is_allocated(d.hs, id) THEN [held EXCEPT !.mishaps = {"collision"}]
      ELSE [maps EXCEPT !.fds = drop(@, fd), !.ok = TRUE]

\* bpftime_attach_perf_to_bpf: the link's slot is a new descriptor, and whether set_handler takes it
\* is not looked at.  A descriptor past the table has no slot: what set_handler overwrites then is left out.
bpftime_attach_perf_to_bpf(d, perf_id, id) ==
  LET fd == lowest_closed(d.fds)
  IN  IF ~(Table!is_perf_fd(d.hs, perf_id) /\ Table!is_prog_fd(d.hs, id)) THEN d
      ELSE IF fd \notin Slots THEN [d EXCEPT !.fds = put(@, fd, <<"link", id>>), !.mishaps = @ \cup {"full"}]
      ELSE [d EXCEPT !.hs = Table!set_handler(@, fd, Table!bpf_link_handler(id, perf_id)),
                     !.fds = put(@, fd, <<"link", id>>),
                     !.mishaps = @ \cup collision_if(Table!is_allocated(d.hs, fd))]

bpftime_attach_perf_to_bpf_server(perf_fd, id) ==
  LET made == IF Table!is_prog_fd(handlers, id) THEN untouched ELSE bpftime_progs_create_server(untouched, id)
      d    == IF made.ok /\ made.up THEN bpftime_attach_perf_to_bpf(made, pid_fd_to_id_map[perf_fd], id) ELSE made
  IN  IF perf_fd \notin DOMAIN pid_fd_to_id_map THEN UNCHANGED <<handlers, open_fds, up, spoilt>>
      ELSE /\ handlers' = d.hs
           /\ open_fds' = d.fds
           /\ up' = d.up
           /\ spoilt' = spoilt \cup d.mishaps

\* SYS_PERF_EVENT_OPEN.
bpftime_uprobe_create_server(e) ==
  /\ e.type = "perf"
  /\ \/ unused_slots = {} /\ spoilt' = spoilt \cup {"full"} /\ UNCHANGED <<handlers, pid_fd_to_id_map>>
     \/ \E slot \in unused_slots :
          /\ \A s \in unused_slots : slot <= s
          /\ handlers' = Table!set_handler(handlers, slot, bpf_perf_event_handler(e.perf))
          /\ pid_fd_to_id_map' = put(pid_fd_to_id_map, e.fd, slot)
          /\ UNCHANGED spoilt
  /\ UNCHANGED <<open_fds, up>>

\* SYS_BPF with BPF_LINK_CREATE: the program is the one the descriptor stands for now.
bpftime_attach_perf_to_bpf_fd_server(e) ==
  /\ e.type = "link"
  /\ IF e.prog \in DOMAIN bpf_fd_map THEN bpftime_attach_perf_to_bpf_server(e.fd, get_bpf_obj_id_from_pid_fd(e.prog))
     ELSE UNCHANGED <<handlers, open_fds, up, spoilt>>
  /\ UNCHANGED pid_fd_to_id_map

\* SYS_IOCTL with PERF_EVENT_IOC_SET_BPF: the program is the one the descriptor stood for then.
handle_set_bpf(e) ==
  /\ e.type = "set_bpf"
  /\ bpftime_attach_perf_to_bpf_server(e.fd, e.prog)
  /\ UNCHANGED pid_fd_to_id_map

\* SYS_IOCTL with PERF_EVENT_IOC_ENABLE or PERF_EVENT_IOC_DISABLE.
bpftime_perf_event_enable_server(e) ==
  /\ e.type \in {"enable", "disable"}
  /\ handlers' = IF e.fd \in DOMAIN pid_fd_to_id_map /\ Table!is_perf_fd(handlers, pid_fd_to_id_map[e.fd])
                 THEN [handlers EXCEPT ![pid_fd_to_id_map[e.fd]].enabled = (e.type = "enable")]
                 ELSE handlers
  /\ UNCHANGED <<pid_fd_to_id_map, open_fds, up, spoilt>>

\* Mutant: the descriptor is forgotten, its slot is not cleared.
bpftime_close_server_keeps_slot(e) ==
  /\ e.type = "close"
  /\ pid_fd_to_id_map' = drop(pid_fd_to_id_map, e.fd)
  /\ UNCHANGED <<handlers, open_fds, up, spoilt>>

\* SYS_CLOSE.
bpftime_close_server(e) ==
  /\ e.type = "close"
  /\ handlers' = IF e.fd \in DOMAIN pid_fd_to_id_map THEN Table!clear_id_at(handlers, pid_fd_to_id_map[e.fd]) ELSE handlers
  /\ pid_fd_to_id_map' = drop(pid_fd_to_id_map, e.fd)
  /\ UNCHANGED <<open_fds, up, spoilt>>

\* handle_event_rb.  The event is consumed whatever comes of it.
handle_event ==
  /\ up /\ rb # <<>>
  /\ rb' = Tail(rb)
  /\ \/ bpftime_uprobe_create_server(Head(rb))
     \/ bpftime_attach_perf_to_bpf_fd_server(Head(rb))
     \/ handle_set_bpf(Head(rb))
     \/ bpftime_perf_event_enable_server(Head(rb))
     \/ bpftime_close_server(Head(rb))
  /\ UNCHANGED <<kernel_vars, bpf_fd_map, bpf_prog_insns_map, insns_of_thread,
                 bpf_progs_new_fd_args_map, ioctl_param_start>>

Next == application \/ handle_event

Spec == Init /\ [][Next]_vars

-----------------------------------------------------------------------------
(* Properties *)

kept(mishaps) == spoilt \cap mishaps = {}

open_perfs == {f \in AppFds : kfd[f].kind = "perf"}

\* Once the events are handled, none was lost and the table had room, the uprobes of the table are those the
\* application has open, each enabled as the application left it, and no descriptor leads to another's slot:
\* pid_fd_to_id_map follows every reuse of a descriptor (handle_perf_event_open, handle_ioctl,
\* handle_close_event).
MirrorsUprobes ==
  up /\ rb = <<>> /\ kept({"lost", "collision", "full"}) =>
    /\ DOMAIN pid_fd_to_id_map = open_perfs
    /\ \A f \in open_perfs : handlers[pid_fd_to_id_map[f]] = [kind |-> "perf", enabled |-> kfd[f].on, perf |-> kfd[f].id]
    /\ \A s \in Slots : handlers[s].kind = "perf" => \E f \in open_perfs : pid_fd_to_id_map[f] = s

\* A link of the table joins a uprobe and a program that the kernel joined too, however late its event
\* was handled.
LinksWereMade ==
  kept({"lost", "refused", "reused"}) =>
    \A s \in Slots : Table!is_link_fd(handlers, s) =>
      LET target == handlers[handlers[s].attach_target_id]
      IN  /\ Table!is_prog_fd(handlers, handlers[s].prog_id)
          /\ target.kind = "perf"
          /\ target.perf \in DOMAIN kattached /\ kattached[target.perf] = handlers[s].prog_id

\* Once the events are handled, and the table had room, what the kernel attached to an open uprobe is attached in it:
\* the program, its link and the map it uses are all there.
AttachesAreMirrored ==
  up /\ rb = <<>> /\ kept({"lost", "rejected", "reused", "collision", "full"}) =>
    \A f \in open_perfs : kfd[f].id \in DOMAIN kattached /\ ~kprogs[kattached[kfd[f].id]].moved =>
      LET id == kattached[kfd[f].id]
      IN  /\ \E s \in Slots : handlers[s] = Table!bpf_link_handler(id, pid_fd_to_id_map[f])
          /\ kprogs[id].map # 0 => handlers[kprogs[id].map].kind = "map" /\ handlers[id].map = kprogs[id].map

\* "Kernel tracer captures the program's instructions and metadata ... Program is registered in
\* bpftime's shared memory runtime" (daemon/README.md): the program at an id runs the code that the
\* kernel loaded under that id, as long as none was rejected.  Instructions stored by thread and moved
\* to the id do not reach another program; those of a rejected one reach the next.
CodeIsCaptured ==
  kept({"rejected"}) => \A s \in Slots : Table!is_prog_fd(handlers, s) => handlers[s].code = s

=============================================================================
