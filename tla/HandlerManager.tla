---------------------------- MODULE HandlerManager ----------------------------
(***************************************************************************)
(* The handler table of bpftime_shm: one slot per file descriptor, holding *)
(* a map, program, perf event, link, epoll or memfd handler, as the        *)
(* syscall server of one loader process fills and clears it.               *)
(*                                                                         *)
(* The fake descriptors are real descriptors of the loader (open_fake_fd   *)
(* opens /dev/null), so the table is indexed by numbers the kernel hands   *)
(* out: fds is the kernel's view of them, handlers the table's.  Descriptor *)
(* 0 of the model is the first one above the standard streams.             *)
(*                                                                         *)
(* containers are the named objects map_init constructs in the segment.    *)
(* A name is a pair: how many "dup_" prefixes dup_bpf_map put in front of  *)
(* the name the loader chose.                                              *)
(***************************************************************************)
EXTENDS Naturals

CONSTANTS MaxFdCount,  \* slots of the table
          MapNames,    \* names the loader gives its maps
          MapTypes,    \* which kinds of map type it asks for
          MaxDups      \* bound on the "dup_" prefixes of a name

AllMapTypes == {"regular", "array_of_maps", "bad_ringbuf", "unsupported"}

ASSUME MaxFdCountAssumption == MaxFdCount \in Nat \ {0}
ASSUME MaxDupsAssumption == MaxDups \in Nat
ASSUME MapTypesAssumption == MapTypes \subseteq AllMapTypes

Fd == 0..(MaxFdCount - 1)
Name == (0..MaxDups) \X MapNames

VARIABLES handlers,    \* the table: a handler for every slot
          containers,  \* the map objects in the segment, with the slot that made them
          fds,         \* descriptors open in the loader process
          mocked_files,\* descriptors of the syscall server's mocked files
          loader       \* "up", or "aborted" by an exception nobody catches

vars == <<handlers, containers, fds, mocked_files, loader>>

unused_handler == [kind |-> "unused"]
bpf_prog_handler == [kind |-> "prog"]
\* Mutant: a constructor that leaves enabled out.
bpf_perf_event_handler_uninit(enabled) == [kind |-> "perf"]
bpf_perf_event_handler(enabled) == [kind |-> "perf", enabled |-> enabled]
bpf_link_handler(prog, target) ==
  [kind |-> "link", prog_id |-> prog, attach_target_id |-> target]
bpf_map_handler(name, type, impl) ==
  [kind |-> "map", name |-> name, type |-> type, impl |-> impl]
plain_handler(kind) == [kind |-> kind]  \* epoll_handler and memfd_handler

Handler ==
  {unused_handler, bpf_prog_handler}
    \cup [kind : {"perf"}, enabled : BOOLEAN]
    \cup [kind : {"link"}, prog_id : Fd, attach_target_id : Fd]
    \cup [kind : {"map"}, name : Name, type : MapTypes, impl : BOOLEAN]
    \cup [kind : {"epoll", "memfd"}]

is_allocated(hs, f) == hs[f].kind # "unused"
is_map_fd(hs, f) == hs[f].kind = "map"
is_prog_fd(hs, f) == hs[f].kind = "prog"
is_perf_fd(hs, f) == hs[f].kind = "perf"
is_link_fd(hs, f) == hs[f].kind = "link"

-----------------------------------------------------------------------------
(* handler_manager *)

\* set_handler refuses a slot in use with -EEXIST.
set_handler(hs, f, h) ==
  IF is_allocated(hs, f) THEN hs ELSE [hs EXCEPT ![f] = h]

\* Mutants: clear_id_at forgets the links of a program, or of a perf event.
cleared_with_drops_prog(hs, f) ==
  {g \in Fd : is_link_fd(hs, g) /\ is_perf_fd(hs, f) /\ hs[g].attach_target_id = f}

cleared_with_drops_perf(hs, f) ==
  {g \in Fd : is_link_fd(hs, g) /\ is_prog_fd(hs, f) /\ hs[g].prog_id = f}

\* The links clear_id_at removes together with slot f.
cleared_with(hs, f) ==
  {g \in Fd : /\ is_link_fd(hs, g)
              /\ \/ is_perf_fd(hs, f) /\ hs[g].attach_target_id = f
                 \/ is_prog_fd(hs, f) /\ hs[g].prog_id = f}

clear_id_at(hs, f) ==
  [g \in Fd |-> IF g = f \/ g \in cleared_with(hs, f) THEN unused_handler ELSE hs[g]]

\* Whether map_init constructs an object for the type, and whether map_free
\* destroys one: a ring buffer whose size is not a power of two is refused by
\* map_init and destroyed by map_free, an array of maps is the other way round.
map_init_constructs(type) == type \in {"regular", "array_of_maps"}
map_free_destroys(type) == type \in {"regular", "bad_ringbuf"}

\* Mutant: unset_type without map_free.
map_free_keeps(hs, cs, f) == cs

\* map_free destroys the object that has the handler's name.
map_free(hs, cs, f) ==
  IF is_map_fd(hs, f) /\ map_free_destroys(hs[f].type)
    THEN {c \in cs : c.name # hs[f].name}
    ELSE cs

\* Mutant: find_or_construct in place of construct.
map_name_never_taken(cs, name, type) == FALSE

\* The segment throws on a name that is taken.  By then set_handler has put
\* the handler in its slot, and handle_exceptions, which is noexcept, catches
\* bad_alloc only: the loader ends in std::terminate.
map_name_taken(cs, name, type) ==
  map_init_constructs(type) /\ \E c \in cs : c.name = name

-----------------------------------------------------------------------------
(* bpftime_shm and the syscall server's handlers *)

\* The kernel hands out the lowest descriptor that is not open.
open_fake_fd(open, f) == f \in Fd \ open /\ \A g \in Fd \ open : f <= g

Init ==
  /\ handlers = [f \in Fd |-> unused_handler]
  /\ containers = {}
  /\ fds = {}
  /\ mocked_files = {}
  /\ loader = "up"

\* A new fake descriptor and the handler stored at it.
add_handler(h) ==
  /\ loader = "up"
  /\ \E f \in Fd : /\ open_fake_fd(fds, f)
                   /\ handlers' = set_handler(handlers, f, h)
                   /\ fds' = fds \cup {f}
  /\ UNCHANGED <<containers, mocked_files, loader>>

\* perf_event_open: only replace and override events are born enabled.
handle_perfevent == \E enabled \in BOOLEAN : add_handler(bpf_perf_event_handler(enabled))

add_bpf_prog == add_handler(bpf_prog_handler)

epoll_create == add_handler(plain_handler("epoll"))

add_memfd_handler == add_handler(plain_handler("memfd"))

\* set_handler of a map at slot f, which the caller has just cleared: the
\* handler is stored, then map_init runs and its result is dropped.
set_map_handler(hs, cs, f, name, type) ==
  LET constructs == map_init_constructs(type) /\ ~map_name_taken(cs, name, type)
  IN  /\ handlers' = [hs EXCEPT ![f] = bpf_map_handler(name, type, constructs)]
      /\ containers' = IF constructs THEN cs \cup {[name |-> name, owner |-> f]} ELSE cs
      /\ loader' = IF map_name_taken(cs, name, type) THEN "aborted" ELSE loader

\* BPF_MAP_CREATE: whatever the slot held is cleared first.
add_bpf_map(name, type) ==
  /\ loader = "up"
  /\ \E f \in Fd :
       /\ open_fake_fd(fds, f)
       /\ set_map_handler(clear_id_at(handlers, f), map_free(handlers, containers, f), f, name, type)
       /\ fds' = fds \cup {f}
  /\ UNCHANGED mocked_files

\* dup3 of a map: an empty map of the same attributes replaces what newfd held.
\* The kernel's dup3 is not called, so fds does not change.
dup_bpf_map(oldfd, newfd) ==
  /\ loader = "up"
  /\ oldfd # newfd
  /\ is_map_fd(handlers, oldfd)
  /\ handlers[oldfd].name[1] < MaxDups
  /\ set_map_handler(clear_id_at(handlers, newfd), map_free(handlers, containers, newfd), newfd,
                     <<handlers[oldfd].name[1] + 1, handlers[oldfd].name[2]>>, handlers[oldfd].type)
  /\ UNCHANGED <<fds, mocked_files>>

\* BPF_LINK_CREATE: add_bpf_link, and for a perf event target a second link by
\* bpftime_attach_perf_to_bpf_with_cookie.  A descriptor is spent on each, also
\* when add_bpf_link then returns EBADF.
link_create(prog, target, attach_type) ==
  /\ loader = "up"
  /\ \E f \in Fd :
       /\ open_fake_fd(fds, f)
       /\ LET link == bpf_link_handler(prog, target)
              hs == IF is_prog_fd(handlers, prog) THEN set_handler(handlers, f, link) ELSE handlers
              attach == is_prog_fd(hs, prog) /\ is_perf_fd(hs, target) /\ attach_type = "perf_event"
          IN  \/ /\ ~attach \/ fds \cup {f} = Fd  \* not asked for, or -ENOSPC
                 /\ handlers' = hs
                 /\ fds' = fds \cup {f}
              \/ /\ attach
                 /\ \E g \in Fd : /\ open_fake_fd(fds \cup {f}, g)
                                  /\ handlers' = set_handler(hs, g, link)
                                  /\ fds' = fds \cup {f, g}
  /\ UNCHANGED <<containers, mocked_files, loader>>

\* PERF_EVENT_IOC_SET_BPF and BPF_PROG_ATTACH.
attach_perf_to_bpf(perf, prog) ==
  /\ is_perf_fd(handlers, perf)
  /\ is_prog_fd(handlers, prog)
  /\ add_handler(bpf_link_handler(prog, perf))

\* PERF_EVENT_IOC_ENABLE and PERF_EVENT_IOC_DISABLE.
perf_event_enable(f, enabled) ==
  /\ loader = "up"
  /\ is_perf_fd(handlers, f)
  /\ handlers' = [handlers EXCEPT ![f] = bpf_perf_event_handler(enabled)]
  /\ UNCHANGED <<containers, fds, mocked_files, loader>>

\* open of an ordinary file, or of a path the syscall server mocks.
handle_open(mocked) ==
  /\ loader = "up"
  /\ \E f \in Fd : /\ open_fake_fd(fds, f)
                   /\ fds' = fds \cup {f}
                   /\ mocked_files' = IF mocked THEN mocked_files \cup {f} ELSE mocked_files
  /\ UNCHANGED <<handlers, containers, loader>>

\* Mutant: close without bpftime_close.
handle_close_keeps_slot(f) ==
  /\ loader = "up"
  /\ fds' = fds \ {f}
  /\ UNCHANGED <<handlers, containers, mocked_files, loader>>

\* close: a mocked file is forgotten and its descriptor stays open; any other
\* descriptor has its slot cleared and is closed.
handle_close(f) ==
  /\ loader = "up"
  /\ IF f \in mocked_files
       THEN /\ mocked_files' = mocked_files \ {f}
            /\ UNCHANGED <<handlers, containers, fds>>
       ELSE /\ handlers' = clear_id_at(handlers, f)
            /\ containers' = map_free(handlers, containers, f)
            /\ fds' = fds \ {f}
            /\ UNCHANGED mocked_files
  /\ UNCHANGED loader

\* Every request but dup3.
NextButDup ==
  \/ handle_perfevent
  \/ add_bpf_prog
  \/ epoll_create
  \/ add_memfd_handler
  \/ \E n \in MapNames, t \in MapTypes : add_bpf_map(<<0, n>>, t)
  \/ \E p, t \in Fd, a \in {"perf_event", "other"} : link_create(p, t, a)
  \/ \E e, p \in Fd : attach_perf_to_bpf(e, p)
  \/ \E f \in Fd, on \in BOOLEAN : perf_event_enable(f, on)
  \/ \E m \in BOOLEAN : handle_open(m)
  \/ \E f \in Fd : handle_close(f)

Next == NextButDup \/ \E o, n \in Fd : dup_bpf_map(o, n)

\* libbpf duplicates a map only onto the memfd it reserved for it.
PlaceholderNext ==
  NextButDup \/ \E o, n \in Fd : handlers[n].kind = "memfd" /\ dup_bpf_map(o, n)

Spec == Init /\ [][Next]_vars
PlaceholderSpec == Init /\ [][PlaceholderNext]_vars

-----------------------------------------------------------------------------
(* Properties *)

\* Every variable has its type: the slots hold handlers whose references are
\* descriptors of the table (handler_variant, bpf_link_handler).
TypeOK ==
  /\ handlers \in [Fd -> Handler]
  /\ containers \subseteq [name : Name, owner : Fd]
  /\ fds \subseteq Fd
  /\ mocked_files \subseteq Fd
  /\ loader \in {"up", "aborted"}

\* A link's prog_id always names a slot that holds a program: clear_id_at takes
\* a program's links with it, and no request replaces a program in place.  The
\* agent relies on it when it calls instantiated_progs.at(prog_id).
LinkProgLive ==
  \A f \in Fd : is_link_fd(handlers, f) => is_prog_fd(handlers, handlers[f].prog_id)

\* A step that removes a perf event from its slot leaves no link to the slot.
LinksLeaveWithPerf ==
  \A f \in Fd : is_perf_fd(handlers, f) /\ ~is_perf_fd(handlers', f) =>
     \A g \in Fd : is_link_fd(handlers', g) => handlers'[g].attach_target_id # f

\* When a perf event leaves its slot, every link to it leaves in the same step
\* (clear_id_at), so no link is inherited by the next user of the descriptor.
PerfTakesItsLinks == [][LinksLeaveWithPerf]_vars

\* Every slot in use belongs to a descriptor that is open in the loader and is
\* not a mocked file.  add_bpf_prog_attach_target drops the result of
\* set_handler and add_bpf_map clears the slot it is given: both are harmless
\* only because open_fake_fd never returns a slot in use.
AllocatedAreOpen ==
  \A f \in Fd : is_allocated(handlers, f) => f \in fds \ mocked_files

\* What may happen in one step to a slot that is in use.
SlotChangesAllowed ==
  \A f \in Fd :
     is_allocated(handlers, f) /\ handlers'[f] # handlers[f] =>
       \/ f \in fds \ fds'
       \/ is_link_fd(handlers, f) /\ ~is_allocated(handlers', f)
       \/ is_perf_fd(handlers, f) /\ is_perf_fd(handlers', f)
       \/ is_map_fd(handlers', f) /\ handlers'[f].name[1] > 0

\* A slot keeps its handler until its own descriptor is closed: the only other
\* changes are a link following its program or perf event, the enabled flag,
\* and a duplicate of a map taking the slot dup3 names.
SlotsSurvive == [][SlotChangesAllowed]_vars

\* A handler whose map_impl_ptr is set points to an object of the segment that
\* it constructed itself (map_init, map_free).
ImplsBacked ==
  \A f \in Fd : is_map_fd(handlers, f) /\ handlers[f].impl =>
                  [name |-> handlers[f].name, owner |-> f] \in containers

\* Every map object of the segment belongs to a handler in the table: map_free
\* has freed the others.
ContainersFreed ==
  \A c \in containers : is_map_fd(handlers, c.owner) /\ handlers[c.owner].impl
                          /\ handlers[c.owner].name = c.name

=============================================================================
