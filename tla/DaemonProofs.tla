----------------------------- MODULE DaemonProofs -----------------------------
(***************************************************************************)
(* Proofs about the daemon, for tables, ring buffers, applications and     *)
(* numbers of system calls of any size.                                    *)
(*                                                                         *)
(* The daemon lags behind the kernel by the events that wait in the ring   *)
(* buffer.  The invariant says that they make up the difference: there are *)
(* views of the application's uprobes, one before each waiting event and   *)
(* one after the last, of which the first is the daemon's, the last the    *)
(* kernel's, and each is made from the one before it by its event.         *)
(***************************************************************************)
EXTENDS Daemon, TLAPS

-----------------------------------------------------------------------------
(* Types. *)

Object == [kind : {"closed", "map", "prog", "perf", "link"}, id : Nat, on : BOOLEAN]
Insns == [code : Slots, map_fd : AppFds \cup {NoFd}]
Event ==
  [type : {"perf"}, fd : AppFds, perf : Nat \ {0}]
    \cup [type : {"link"}, fd : AppFds, prog : AppFds]
    \cup [type : {"set_bpf", "enable", "disable"}, fd : AppFds, prog : Slots]
    \cup [type : {"close"}, fd : AppFds]
AHandler ==
  {Table!unused_handler}
    \cup [kind : {"perf"}, enabled : BOOLEAN, perf : Nat \ {0}]
    \cup [kind : {"prog"}, code : Slots, map : Slots]
    \cup [kind : {"map"}, name : MapNames]
    \cup [kind : {"link"}, prog_id : Slots, attach_target_id : Slots]

\* What the kernel and the tracer hold.
KernelTypes ==
  /\ kfd \in [AppFds -> Object]
  /\ DOMAIN kprogs \subseteq ProgIds /\ DOMAIN kmaps \subseteq MapIds
  /\ \A i \in DOMAIN kprogs : kprogs[i] \in [fd : AppFds \cup {NoFd}, map : DOMAIN kmaps \cup {0}, moved : BOOLEAN]
  /\ \A i \in DOMAIN kmaps : kmaps[i] \in MapNames
  /\ perfs \in Nat /\ attempts \in Nat
  /\ \A n \in DOMAIN kattached : n \in 1..perfs /\ kattached[n] \in DOMAIN kprogs
  /\ \A f \in AppFds : /\ kfd[f].kind \in {"prog", "link"} => kfd[f].id \in DOMAIN kprogs
                       /\ kfd[f].kind = "map" => kfd[f].id \in DOMAIN kmaps
                       /\ kfd[f].kind = "perf" => kfd[f].id \in 1..perfs

TracerTypes ==
  /\ DOMAIN bpf_fd_map \subseteq AppFds
  /\ \A f \in DOMAIN bpf_fd_map : bpf_fd_map[f] \in [type : {"map", "prog", "perf", "others"}, kernel_id : Slots]
  /\ DOMAIN bpf_prog_insns_map = DOMAIN kprogs
  /\ \A i \in DOMAIN kprogs : bpf_prog_insns_map[i] \in Insns
  /\ insns_of_thread = None \/ insns_of_thread \in Insns
  /\ bpf_progs_new_fd_args_map \in Slots
  /\ ioctl_param_start = None
     \/ \E p, f \in AppFds, req \in {"set_bpf", "enable", "disable"} : ioctl_param_start = <<p, req, f>>
  /\ rb \in Seq(Event)

\* The tracer knows the descriptors of maps, programs and uprobes.
Known ==
  \A f \in AppFds :
    /\ kfd[f].kind \in {"map", "prog"} => f \in DOMAIN bpf_fd_map /\ bpf_fd_map[f] = [type |-> kfd[f].kind, kernel_id |-> kfd[f].id]
    /\ kfd[f].kind = "perf" => f \in DOMAIN bpf_fd_map /\ bpf_fd_map[f].type = "perf"

\* What the daemon holds: links join programs and uprobes, and no two descriptors share a uprobe.
TableOk(hs) ==
  /\ hs \in [Slots -> AHandler]
  /\ \A s \in Slots : hs[s].kind = "link" => hs[hs[s].prog_id].kind = "prog" /\ hs[hs[s].attach_target_id].kind = "perf"

UprobesOk(hs, ids) ==
  /\ DOMAIN ids \subseteq AppFds
  /\ \A f \in DOMAIN ids : ids[f] \in Slots /\ hs[ids[f]].kind \in {"perf", "map"}
  /\ \A f, g \in DOMAIN ids : ids[f] = ids[g] => f = g

DaemonTypes ==
  /\ TableOk(handlers) /\ UprobesOk(handlers, pid_fd_to_id_map)
  /\ \A d \in DOMAIN open_fds : open_fds[d][1] = "prog" => open_fds[d][2] \in DOMAIN kprogs
  /\ spoilt \subseteq Mishaps /\ up \in BOOLEAN

Types == KernelTypes /\ TracerTypes /\ Known /\ DaemonTypes

\* Instructions are under the id of their program.
Captured ==
  kept({"rejected"}) =>
    /\ insns_of_thread = None
    /\ \A i \in DOMAIN kprogs : bpf_prog_insns_map[i].code = i /\ bpf_prog_insns_map[i].map_fd = kprogs[i].fd
    /\ \A s \in Slots : handlers[s].kind = "prog" => handlers[s].code = s

-----------------------------------------------------------------------------
(* The waiting events. *)

NotOpen == [perf |-> 0, on |-> FALSE]
View == [AppFds -> [perf : Nat, on : BOOLEAN]]

KernelView == [f \in AppFds |-> IF kfd[f].kind = "perf" THEN [perf |-> kfd[f].id, on |-> kfd[f].on] ELSE NotOpen]

\* What an event makes of a view.
told(view, e) ==
  CASE e.type = "perf"    -> [view EXCEPT ![e.fd] = [perf |-> e.perf, on |-> FALSE]]
    [] e.type = "enable"  -> [view EXCEPT ![e.fd] = [perf |-> view[e.fd].perf, on |-> TRUE]]
    [] e.type = "disable" -> [view EXCEPT ![e.fd] = [perf |-> view[e.fd].perf, on |-> FALSE]]
    [] e.type = "close"   -> [view EXCEPT ![e.fd] = NotOpen]
    [] OTHER              -> view

\* What the daemon holds for its uprobes is the view, except that a map may have the slot; bad is what has happened.
DaemonView(view, hs, ids, bad) ==
  /\ \A f \in DOMAIN ids : /\ view[f].perf # 0
                           /\ hs[ids[f]].kind = "perf" => hs[ids[f]].perf = view[f].perf /\ (hs[ids[f]].enabled <=> view[f].on)
  /\ \A s \in Slots : hs[s].kind = "perf" => \E f \in DOMAIN ids : ids[f] = s
  /\ "full" \notin bad => \A f \in AppFds : view[f].perf # 0 => f \in DOMAIN ids
  /\ "collision" \notin bad => \A f \in DOMAIN ids : hs[ids[f]].kind = "perf"

\* The program an attach event names, by what the descriptors stand for.
Named(fds, e) == IF e.type = "link" THEN fds[e.prog].kernel_id ELSE e.prog
named(e) == Named(bpf_fd_map, e)

\* An event seen with the view it finds.
EventOk(view, e, fds, attached, bad) ==
  /\ e.type = "perf" => view[e.fd].perf = 0
  /\ e.type \in {"set_bpf", "link"} => view[e.fd].perf # 0
  /\ e.type = "link" /\ "reused" \notin bad => e.prog \in DOMAIN fds
  /\ e.type \in {"set_bpf", "link"} /\ "refused" \notin bad /\ "reused" \notin bad =>
       view[e.fd].perf \in DOMAIN attached /\ attached[view[e.fd].perf] = Named(fds, e)

Replay(v) ==
  /\ v \in [1..(Len(rb) + 1) -> View]
  /\ DaemonView(v[1], handlers, pid_fd_to_id_map, spoilt)
  /\ v[Len(rb) + 1] = KernelView
  /\ \A i \in 1..Len(rb) : v[i + 1] = told(v[i], rb[i]) /\ EventOk(v[i], rb[i], bpf_fd_map, kattached, spoilt)

\* Links of the table join what the kernel joined.
Joined(hs, attached, bad) ==
  "refused" \notin bad /\ "reused" \notin bad =>
    \A s \in Slots : hs[s].kind = "link" =>
      hs[hs[s].attach_target_id].perf \in DOMAIN attached
      /\ attached[hs[hs[s].attach_target_id].perf] = hs[s].prog_id

ReplayInv == "lost" \notin spoilt => ioctl_param_start = None /\ Joined(handlers, kattached, spoilt) /\ \E v : Replay(v)

-----------------------------------------------------------------------------
(* The handler table. *)

\* Ids are slots, and no descriptor is NoFd.
LEMMA ConstantFacts ==
  /\ 0 \in Slots /\ ProgIds \subseteq Slots /\ MapIds \subseteq Slots
  /\ NoFd \notin AppFds /\ Slots \subseteq Nat
BY SlotsAssumption, AppFdsAssumption DEF Slots, NoFd

\* The fields of a handler by its kind.
LEMMA HandlerFields ==
  ASSUME NEW h \in AHandler
  PROVE  /\ h.kind = "perf" => /\ h = [kind |-> "perf", enabled |-> h.enabled, perf |-> h.perf]
                               /\ h.enabled \in BOOLEAN /\ h.perf \in Nat \ {0}
         /\ h.kind = "prog" => h.code \in Slots /\ h.map \in Slots
         /\ h.kind = "link" => /\ h = Table!bpf_link_handler(h.prog_id, h.attach_target_id)
                               /\ h.prog_id \in Slots /\ h.attach_target_id \in Slots
         /\ h.kind \in {"unused", "perf", "prog", "map", "link"}
         /\ h.kind = "unused" => h = Table!unused_handler
BY DEF AHandler, Table!unused_handler, Table!bpf_link_handler

\* The handlers the daemon stores are handlers.
LEMMA HandlersStored ==
  /\ \A n \in Nat \ {0} : bpf_perf_event_handler(n) \in AHandler
  /\ \A c, m \in Slots : bpf_prog_handler(c, m) \in AHandler
  /\ \A n \in MapNames : bpf_map_handler(n) \in AHandler
  /\ \A p, t \in Slots : Table!bpf_link_handler(p, t) \in AHandler
  /\ Table!unused_handler \in AHandler
<1>1. \A n \in Nat \ {0} : bpf_perf_event_handler(n) \in AHandler
  BY Zenon DEF AHandler, bpf_perf_event_handler
<1>2. \A c, m \in Slots : bpf_prog_handler(c, m) \in AHandler
  BY Zenon DEF AHandler, bpf_prog_handler
<1>3. \A n \in MapNames : bpf_map_handler(n) \in AHandler
  BY Zenon DEF AHandler, bpf_map_handler
<1>4. \A p, t \in Slots : Table!bpf_link_handler(p, t) \in AHandler
  BY Zenon DEF AHandler, Table!bpf_link_handler
<1> QED BY <1>1, <1>2, <1>3, <1>4, Zenon DEF AHandler

\* Slot s, so far unused, holds h.
Stored(hs, s, h, cs) == cs \in [Slots -> AHandler] /\ cs[s] = h /\ \A t \in Slots : t # s => cs[t] = hs[t]

\* Slot s has been cleared, with the links that refer to it.
ClearedAt(hs, s, cs) ==
  /\ cs \in [Slots -> AHandler] /\ cs[s].kind = "unused"
  /\ \A t \in Slots : t # s => \/ cs[t] = hs[t]
                               \/ hs[t].kind = "link" /\ cs[t].kind = "unused" /\ s \in {hs[t].prog_id, hs[t].attach_target_id}
  /\ \A t \in Slots : t # s /\ cs[t] = hs[t] /\ hs[t].kind = "link" =>
       ~(hs[s].kind = "perf" /\ hs[t].attach_target_id = s) /\ ~(hs[s].kind = "prog" /\ hs[t].prog_id = s)

\* set_handler stores into an unused slot and leaves a used one alone.
LEMMA SetStores ==
  ASSUME NEW hs \in [Slots -> AHandler], NEW s \in Slots, NEW h \in AHandler
  PROVE  /\ hs[s].kind = "unused" => Stored(hs, s, h, Table!set_handler(hs, s, h))
         /\ hs[s].kind # "unused" => Table!set_handler(hs, s, h) = hs
BY Zenon DEF Stored, Table!set_handler, Table!is_allocated

\* clear_id_at empties a slot and the slots of the links to it.
LEMMA ClearClears ==
  ASSUME NEW hs \in [Slots -> AHandler], NEW s \in Slots
  PROVE  ClearedAt(hs, s, Table!clear_id_at(hs, s))
<1> DEFINE gone == {t \in Slots : /\ hs[t].kind = "link"
                                  /\ \/ hs[s].kind = "perf" /\ hs[t].attach_target_id = s
                                     \/ hs[s].kind = "prog" /\ hs[t].prog_id = s}
           cs == [t \in Slots |-> IF t = s \/ t \in gone THEN Table!unused_handler ELSE hs[t]]
<1>1. Table!clear_id_at(hs, s) = cs
  BY Zenon DEF Table!clear_id_at, Table!cleared_with, Table!is_link_fd, Table!is_perf_fd, Table!is_prog_fd, Table!Fd, Slots
<1>2. Table!unused_handler.kind = "unused" /\ Table!unused_handler \in AHandler
  BY HandlersStored, Zenon DEF Table!unused_handler
<1>3. cs \in [Slots -> AHandler]
  BY <1>2, Zenon
<1>4. \A t \in Slots : cs[t] = IF t = s \/ t \in gone THEN Table!unused_handler ELSE hs[t]
  BY Zenon
<1> HIDE DEF cs
<1> QED BY <1>1, <1>2, <1>3, <1>4, Zenon DEF ClearedAt

\* Links keep what they join.
LEMMA StoredOk ==
  ASSUME NEW hs, TableOk(hs), NEW s \in Slots, NEW h \in AHandler, hs[s].kind = "unused", NEW cs, Stored(hs, s, h, cs),
         h.kind = "link" => hs[h.prog_id].kind = "prog" /\ hs[h.attach_target_id].kind = "perf"
  PROVE  TableOk(cs)
<1> SUFFICES ASSUME NEW t \in Slots, cs[t].kind = "link"
             PROVE  cs[cs[t].prog_id].kind = "prog" /\ cs[cs[t].attach_target_id].kind = "perf"
  BY Zenon DEF TableOk, Stored
<1>1. cs[t] \in AHandler /\ cs[t].prog_id \in Slots /\ cs[t].attach_target_id \in Slots
  BY HandlerFields, Zenon DEF Stored
<1>2. hs[cs[t].prog_id].kind = "prog" /\ hs[cs[t].attach_target_id].kind = "perf"
  BY Zenon DEF TableOk, Stored
<1> QED BY <1>1, <1>2, Zenon DEF Stored

\* Links go with their program or uprobe, so the table stays well formed.
LEMMA ClearedOk ==
  ASSUME NEW hs, TableOk(hs), NEW s \in Slots, NEW cs, ClearedAt(hs, s, cs)
  PROVE  TableOk(cs)
<1> SUFFICES ASSUME NEW t \in Slots, cs[t].kind = "link"
             PROVE  cs[cs[t].prog_id].kind = "prog" /\ cs[cs[t].attach_target_id].kind = "perf"
  BY Zenon DEF TableOk, ClearedAt
<1>1. t # s /\ cs[t] = hs[t]
  BY Zenon DEF ClearedAt
<1>2. /\ hs[t].prog_id \in Slots /\ hs[t].attach_target_id \in Slots
      /\ hs[hs[t].prog_id].kind = "prog" /\ hs[hs[t].attach_target_id].kind = "perf"
  <2>1. hs[t] \in AHandler /\ hs[t].kind = "link" /\ hs[hs[t].prog_id].kind = "prog" /\ hs[hs[t].attach_target_id].kind = "perf"
    BY <1>1, Zenon DEF TableOk
  <2> QED BY <2>1, HandlerFields, Zenon
<1>3. hs[t].prog_id # s /\ hs[t].attach_target_id # s
  BY <1>1, <1>2, Zenon DEF ClearedAt
<1> QED BY <1>1, <1>2, <1>3, Zenon DEF ClearedAt

-----------------------------------------------------------------------------
(* Types: the system calls. *)

\* A function with one value put in.
IsPut(f, x, v, g) == DOMAIN g = DOMAIN f \cup {x} /\ g[x] = v /\ \A y \in DOMAIN f : y # x => g[y] = f[y]

\* What put returns.
LEMMA PutIs ==
  ASSUME NEW f, NEW x, NEW v
  PROVE  IsPut(f, x, v, put(f, x, v))
BY Zenon DEF IsPut, put

\* A system call has returned descriptor f for a new object.
Opened(f, kind, id) ==
  /\ kfd[f].kind = "closed" /\ kfd' \in [AppFds -> Object]
  /\ kfd'[f].kind = kind /\ kfd'[f].id = id /\ kfd'[f].on = FALSE
  /\ \A g \in AppFds : g # f => kfd'[g] = kfd[g]

\* A call that returns a descriptor opens that one and no other.
LEMMA ReturnsOpens ==
  ASSUME KernelTypes, NEW f \in AppFds, NEW kind \in {"map", "prog", "perf", "link"}, NEW id \in Nat, returns(f, kind, id)
  PROVE  Opened(f, kind, id)
<1>1. kfd[f] = closed /\ kfd' = [kfd EXCEPT ![f] = [kind |-> kind, id |-> id, on |-> FALSE]]
  BY Zenon DEF returns
<1>2. [kind |-> kind, id |-> id, on |-> FALSE] \in Object
  BY Zenon DEF Object
<1> QED BY <1>1, <1>2 DEF Opened, KernelTypes, closed

\* What the tracer notes are mishaps.
LEMMA MishapsStay ==
  ASSUME NEW f, NEW sent
  PROVE  reused_if(f) \subseteq Mishaps /\ lost_if(sent) \subseteq Mishaps
BY Zenon DEF reused_if, lost_if, Mishaps

\* Creating a map keeps the types.
LEMMA TypesMapCreate ==
  ASSUME Types, NEW n \in MapNames, map_create(n)
  PROVE  Types'
<1>1. PICK f \in AppFds, id \in next_id(MapIds, kmaps) :
        /\ returns(f, "map", id)
        /\ kmaps' = put(kmaps, id, n)
        /\ bpf_fd_map' = put(bpf_fd_map, f, [type |-> "map", kernel_id |-> id])
        /\ spoilt' = spoilt \cup reused_if(f)
  BY Zenon DEF map_create, set_bpf_fd_data
<1>2. UNCHANGED <<kprogs, kattached, perfs, attempts, rb, handlers, pid_fd_to_id_map, open_fds, up,
                  bpf_prog_insns_map, insns_of_thread, bpf_progs_new_fd_args_map, ioctl_param_start>>
  BY Zenon DEF map_create, daemon_vars
<1>3. id \in MapIds /\ id \in Slots /\ id \in Nat
  BY ConstantFacts, Zenon DEF next_id
<1>4. Opened(f, "map", id)
  BY <1>1, <1>3, ReturnsOpens, Zenon DEF Types
<1>5. IsPut(kmaps, id, n, kmaps') /\ IsPut(bpf_fd_map, f, [type |-> "map", kernel_id |-> id], bpf_fd_map')
  BY <1>1, PutIs, Zenon
<1>6. KernelTypes'
  BY <1>2, <1>3, <1>4, <1>5, Zenon DEF Types, KernelTypes, Opened, IsPut
<1>7. TracerTypes'
  BY <1>2, <1>3, <1>5 DEF Types, TracerTypes, IsPut
<1>8. Known'
  BY <1>4, <1>5 DEF Types, Known, Opened, IsPut
<1>9. DaemonTypes'
  BY <1>1, <1>2, MishapsStay, Zenon DEF Types, DaemonTypes
<1> QED BY <1>6, <1>7, <1>8, <1>9, Zenon DEF Types

\* Loading a program keeps the types.
LEMMA TypesProgLoad ==
  ASSUME Types, NEW m \in AppFds \cup {NoFd}, prog_load(m)
  PROVE  Types'
<1>1. PICK f \in AppFds, id \in next_id(ProgIds, kprogs) :
        /\ m # NoFd => kfd[m].kind = "map"
        /\ returns(f, "prog", id)
        /\ kprogs' = put(kprogs, id, [fd |-> m, map |-> IF m # NoFd THEN kfd[m].id ELSE 0, moved |-> FALSE])
        /\ bpf_prog_insns_map' = put(bpf_prog_insns_map, id, insns_stored([code |-> id, map_fd |-> m]))
        /\ insns_of_thread' = None
        /\ bpf_progs_new_fd_args_map' = id
        /\ bpf_fd_map' = put(bpf_fd_map, f, [type |-> "prog", kernel_id |-> id])
        /\ spoilt' = spoilt \cup reused_if(f)
  BY Zenon DEF prog_load, set_bpf_fd_data, insns_left
<1>2. UNCHANGED <<kmaps, kattached, perfs, attempts, rb, handlers, pid_fd_to_id_map, open_fds, up, ioctl_param_start>>
  BY Zenon DEF prog_load, daemon_vars
<1> DEFINE new == [fd |-> m, map |-> IF m # NoFd THEN kfd[m].id ELSE 0, moved |-> FALSE]
           insns == insns_stored([code |-> id, map_fd |-> m])
<1>3. id \in ProgIds /\ id \in Slots /\ id \in Nat /\ id \notin DOMAIN kprogs
  BY ConstantFacts, Zenon DEF next_id
<1>4. Opened(f, "prog", id)
  BY <1>1, <1>3, ReturnsOpens, Zenon DEF Types
<1>5. new \in [fd : AppFds \cup {NoFd}, map : DOMAIN kmaps \cup {0}, moved : BOOLEAN]
  BY <1>1, ConstantFacts, Zenon DEF Types, KernelTypes
<1>6. insns \in Insns
  BY <1>3, Zenon DEF insns_stored, Insns, Types, TracerTypes
<1>7. /\ IsPut(kprogs, id, new, kprogs') /\ IsPut(bpf_prog_insns_map, id, insns, bpf_prog_insns_map')
      /\ IsPut(bpf_fd_map, f, [type |-> "prog", kernel_id |-> id], bpf_fd_map')
  BY <1>1, PutIs, Zenon
<1> HIDE DEF new, insns
<1>8. KernelTypes'
  BY <1>2, <1>3, <1>4, <1>5, <1>7 DEF Types, KernelTypes, Opened, IsPut
<1>9. TracerTypes'
  <2>1. insns_of_thread' = None /\ bpf_progs_new_fd_args_map' \in Slots
    BY <1>1, <1>3, Zenon
  <2>2. /\ DOMAIN bpf_prog_insns_map' = DOMAIN kprogs'
        /\ \A i \in DOMAIN kprogs' : bpf_prog_insns_map'[i] \in Insns
    BY <1>6, <1>7, Zenon DEF Types, TracerTypes, IsPut
  <2>3. /\ DOMAIN bpf_fd_map' \subseteq AppFds
        /\ \A g \in DOMAIN bpf_fd_map' : bpf_fd_map'[g] \in [type : {"map", "prog", "perf", "others"}, kernel_id : Slots]
    BY <1>3, <1>7 DEF Types, TracerTypes, IsPut
  <2> QED BY <1>2, <2>1, <2>2, <2>3, Zenon DEF Types, TracerTypes
<1>10. Known'
  BY <1>4, <1>7 DEF Types, Known, Opened, IsPut
<1>11. DaemonTypes'
  BY <1>1, <1>2, <1>7, MishapsStay, Zenon DEF Types, DaemonTypes, IsPut
<1> QED BY <1>8, <1>9, <1>10, <1>11, Zenon DEF Types

\* A rejected program keeps the types.
LEMMA TypesRejected ==
  ASSUME Types, prog_load_rejected
  PROVE  Types'
<1>1. insns_stored([code |-> 0, map_fd |-> NoFd]) \in Insns
  BY ConstantFacts, Zenon DEF insns_stored, Insns, Types, TracerTypes
<1>2. /\ insns_of_thread' \in Insns /\ spoilt' = spoilt \cup {"rejected"}
      /\ UNCHANGED <<kernel_vars, bpf_fd_map, bpf_prog_insns_map, bpf_progs_new_fd_args_map, ioctl_param_start, rb, daemon_vars>>
  BY <1>1, Zenon DEF prog_load_rejected
<1>3. KernelTypes' /\ Known'
  BY <1>2, Zenon DEF Types, KernelTypes, Known, kernel_vars
<1>4. TracerTypes'
  BY <1>2, Zenon DEF Types, TracerTypes, kernel_vars
<1>5. DaemonTypes'
  BY <1>2, Zenon DEF Types, DaemonTypes, daemon_vars, kernel_vars, Mishaps
<1> QED BY <1>3, <1>4, <1>5, Zenon DEF Types

\* Opening a uprobe keeps the types.
LEMMA TypesPerfOpen ==
  ASSUME Types, perf_event_open
  PROVE  Types'
<1> DEFINE e(f) == [type |-> "perf", fd |-> f, perf |-> perfs + 1]
<1>1. PICK f \in AppFds :
        /\ returns(f, "perf", perfs + 1)
        /\ bpf_fd_map' = put(bpf_fd_map, f, [type |-> "perf", kernel_id |-> 0])
        /\ submits(e(f))
        /\ spoilt' = spoilt \cup reused_if(f) \cup lost_if(TRUE)
  BY Zenon DEF perf_event_open, set_bpf_fd_data
<1>2. /\ UNCHANGED <<kprogs, kmaps, kattached, attempts, handlers, pid_fd_to_id_map, open_fds, up,
                     bpf_prog_insns_map, insns_of_thread, bpf_progs_new_fd_args_map, ioctl_param_start>>
      /\ perfs' = perfs + 1
  BY Zenon DEF perf_event_open, daemon_vars
<1>3. perfs \in Nat /\ perfs' \in Nat \ {0}
  BY <1>2 DEF Types, KernelTypes
<1>4. Opened(f, "perf", perfs')
  BY <1>1, <1>2, <1>3, ReturnsOpens, Zenon DEF Types
<1>5. IsPut(bpf_fd_map, f, [type |-> "perf", kernel_id |-> 0], bpf_fd_map')
  BY <1>1, PutIs, Zenon
<1>6. e(f) \in Event
  BY <1>2, <1>3, Zenon DEF Event
<1> HIDE DEF e
<1>7. rb' \in Seq(Event)
  BY <1>1, <1>6 DEF Types, TracerTypes, submits
<1>8. KernelTypes'
  <2>1. \A n \in 1..perfs : n \in 1..perfs'
    BY <1>2, <1>3
  <2>2. perfs' \in 1..perfs'
    BY <1>3
  <2> QED BY <1>2, <1>3, <1>4, <2>1, <2>2, Zenon DEF Types, KernelTypes, Opened
<1>9. TracerTypes'
  BY <1>2, <1>5, <1>7, ConstantFacts DEF Types, TracerTypes, IsPut
<1>10. Known'
  BY <1>4, <1>5 DEF Types, Known, Opened, IsPut
<1>11. DaemonTypes'
  BY <1>1, <1>2, MishapsStay, Zenon DEF Types, DaemonTypes
<1> QED BY <1>8, <1>9, <1>10, <1>11, Zenon DEF Types

\* Creating a link keeps the types.
LEMMA TypesLinkCreate ==
  ASSUME Types, NEW p \in AppFds, NEW f \in AppFds, link_create(p, f)
  PROVE  Types'
<1> DEFINE e == [type |-> "link", fd |-> p, prog |-> f]
<1>1. PICK l \in AppFds :
        /\ returns(l, "link", kfd[f].id)
        /\ bpf_fd_map' = put(bpf_fd_map, l, [type |-> "others", kernel_id |-> bpf_progs_new_fd_args_map])
        /\ submits(e)
        /\ spoilt' = spoilt \cup reused_if(l) \cup lost_if(TRUE)
  BY Zenon DEF link_create, set_bpf_fd_data
<1>2. /\ UNCHANGED <<kprogs, kmaps, perfs, handlers, pid_fd_to_id_map, open_fds, up,
                     bpf_prog_insns_map, insns_of_thread, bpf_progs_new_fd_args_map, ioctl_param_start>>
      /\ attempts' = attempts + 1 /\ kattached' = put(kattached, kfd[p].id, kfd[f].id)
      /\ kfd[p].kind = "perf" /\ kfd[f].kind = "prog"
  BY Zenon DEF link_create, daemon_vars, attachable
<1>3. kfd[f].id \in Nat /\ kfd[f].id \in DOMAIN kprogs /\ kfd[p].id \in 1..perfs
  BY <1>2, Zenon DEF Types, KernelTypes, Object
<1>4. Opened(l, "link", kfd[f].id)
  BY <1>1, <1>3, ReturnsOpens, Zenon DEF Types
<1>5. /\ IsPut(bpf_fd_map, l, [type |-> "others", kernel_id |-> bpf_progs_new_fd_args_map], bpf_fd_map')
      /\ IsPut(kattached, kfd[p].id, kfd[f].id, kattached')
  BY <1>1, <1>2, PutIs, Zenon
<1>6. e \in Event
  BY Zenon DEF Event
<1> HIDE DEF e
<1>7. rb' \in Seq(Event)
  BY <1>1, <1>6 DEF Types, TracerTypes, submits
<1>8. KernelTypes'
  BY <1>2, <1>3, <1>4, <1>5 DEF Types, KernelTypes, Opened, IsPut
<1>9. TracerTypes'
  <2>1. /\ DOMAIN bpf_fd_map' \subseteq AppFds
        /\ \A g \in DOMAIN bpf_fd_map' : bpf_fd_map'[g] \in [type : {"map", "prog", "perf", "others"}, kernel_id : Slots]
    BY <1>5 DEF Types, TracerTypes, IsPut
  <2> QED BY <1>2, <1>7, <2>1, Zenon DEF Types, TracerTypes
<1>10. Known'
  BY <1>4, <1>5 DEF Types, Known, Opened, IsPut
<1>11. DaemonTypes'
  BY <1>1, <1>2, MishapsStay, Zenon DEF Types, DaemonTypes
<1> QED BY <1>8, <1>9, <1>10, <1>11, Zenon DEF Types

\* The event an ioctl sends, and the arguments it leaves behind.
LEMMA TracesIoctl ==
  ASSUME Types, NEW p, NEW req, NEW data, traces_ioctl(p, req, data),
         p = NoFd \/ (p \in AppFds /\ data \in AppFds /\ req \in {"set_bpf", "enable", "disable"})
  PROVE  /\ TracerTypes' \/ DOMAIN kprogs # DOMAIN kprogs'
         /\ spoilt' \subseteq Mishaps
         /\ UNCHANGED <<bpf_fd_map, bpf_prog_insns_map, insns_of_thread, bpf_progs_new_fd_args_map, daemon_vars>>
<1> DEFINE args == IF p \in DOMAIN bpf_fd_map THEN <<p, req, data>> ELSE ioctl_param_start
           e == [type |-> args[2], fd |-> args[1], prog |-> IF args[2] = "set_bpf" THEN prog_id_at(args[3]) ELSE 0]
<1>1. /\ rb' = IF args = None \/ ~room THEN rb ELSE Append(rb, e)
      /\ ioctl_param_start' = IF room THEN None ELSE args
      /\ UNCHANGED <<bpf_fd_map, bpf_prog_insns_map, insns_of_thread, bpf_progs_new_fd_args_map, daemon_vars>>
  BY Zenon DEF traces_ioctl
<1>2. args = None \/ \E q, f \in AppFds, r \in {"set_bpf", "enable", "disable"} : args = <<q, r, f>>
  BY ConstantFacts, Zenon DEF Types, TracerTypes
<1>3. \A f \in AppFds : prog_id_at(f) \in Slots
  BY ConstantFacts, Zenon DEF Types, TracerTypes, prog_id_at
<1> HIDE DEF args
<1>4. ASSUME args # None PROVE e \in Event
  <2>1. PICK q, f \in AppFds, r \in {"set_bpf", "enable", "disable"} : args = <<q, r, f>>
    BY <1>2, <1>4, Zenon
  <2>2. args[1] = q /\ args[2] = r /\ args[3] = f
    BY <2>1, Zenon
  <2> QED BY <1>3, <2>2, ConstantFacts, Zenon DEF Event
<1> HIDE DEF e
<1>5. rb' \in Seq(Event)
  BY <1>1, <1>4 DEF Types, TracerTypes
<1>6. \/ ioctl_param_start' = None
      \/ \E q, f \in AppFds, r \in {"set_bpf", "enable", "disable"} : ioctl_param_start' = <<q, r, f>>
  BY <1>1, <1>2, Zenon
<1>7. ASSUME DOMAIN kprogs' = DOMAIN kprogs PROVE TracerTypes'
  BY <1>1, <1>5, <1>6, <1>7, Zenon DEF Types, TracerTypes
<1>8. spoilt' \subseteq Mishaps
  BY Zenon DEF traces_ioctl, lost_if, Mishaps, Types, DaemonTypes
<1> QED BY <1>1, <1>7, <1>8, Zenon

\* An ioctl keeps the types.
LEMMA TypesIoctl ==
  ASSUME Types, NEW p, NEW f, NEW on,
         \/ p \in AppFds /\ f \in AppFds /\ ioctl_set_bpf(p, f)
         \/ p \in AppFds /\ on \in BOOLEAN /\ ioctl_enable(p, on)
         \/ ioctl_elsewhere
  PROVE  Types'
<1>1. /\ UNCHANGED <<kprogs, kmaps, perfs>>
      /\ \E q, req, data : /\ traces_ioctl(q, req, data)
                           /\ q = NoFd \/ (q \in AppFds /\ data \in AppFds /\ req \in {"set_bpf", "enable", "disable"})
  BY Zenon DEF ioctl_set_bpf, ioctl_enable, ioctl_elsewhere, kernel_vars
<1>2. /\ TracerTypes' /\ spoilt' \subseteq Mishaps
      /\ UNCHANGED <<bpf_fd_map, bpf_prog_insns_map, insns_of_thread, bpf_progs_new_fd_args_map, daemon_vars>>
  BY <1>1, TracesIoctl, Zenon
<1>3. DaemonTypes'
  BY <1>1, <1>2, Zenon DEF Types, DaemonTypes, daemon_vars
<1>4. CASE p \in AppFds /\ f \in AppFds /\ ioctl_set_bpf(p, f)
  <2>1. UNCHANGED kfd /\ attempts' = attempts + 1 /\ kfd[p].kind = "perf"
    BY <1>4, Zenon DEF ioctl_set_bpf
  <2>2. \/ kattached' = kattached
        \/ IsPut(kattached, kfd[p].id, kfd[f].id, kattached') /\ kfd[f].kind = "prog"
    BY <1>4, PutIs, Zenon DEF ioctl_set_bpf, attachable
  <2>3. KernelTypes'
    BY <1>1, <1>4, <2>1, <2>2 DEF Types, KernelTypes, IsPut
  <2> QED BY <1>2, <1>3, <2>1, <2>3, Zenon DEF Types, Known
<1>5. CASE p \in AppFds /\ on \in BOOLEAN /\ ioctl_enable(p, on)
  <2>1. UNCHANGED <<kattached, attempts>> /\ kfd' = [kfd EXCEPT ![p].on = on]
    BY <1>5, Zenon DEF ioctl_enable
  <2>2. kfd' \in [AppFds -> Object] /\ \A g \in AppFds : kfd'[g].kind = kfd[g].kind /\ kfd'[g].id = kfd[g].id
    BY <1>5, <2>1 DEF Types, KernelTypes, Object
  <2>3. KernelTypes' /\ Known'
    BY <1>1, <1>2, <2>1, <2>2 DEF Types, KernelTypes, Known
  <2> QED BY <1>2, <1>3, <2>3, Zenon DEF Types
<1>6. CASE ioctl_elsewhere
  <2>1. KernelTypes' /\ Known'
    BY <1>2, <1>6, Zenon DEF Types, KernelTypes, Known, ioctl_elsewhere, kernel_vars
  <2> QED BY <1>2, <1>3, <2>1, Zenon DEF Types
<1> QED BY <1>4, <1>5, <1>6, Zenon

\* A close keeps the types.
LEMMA TypesClose ==
  ASSUME Types, NEW f \in AppFds, close_fd(f)
  PROVE  Types'
<1> DEFINE cleared == close_announced(f) /\ room
           e == [type |-> "close", fd |-> f]
<1>1. /\ kfd' = [kfd EXCEPT ![f] = closed]
      /\ kprogs' = [i \in DOMAIN kprogs |-> [kprogs[i] EXCEPT !.moved = @ \/ kprogs[i].fd = f]]
      /\ rb' = IF cleared THEN Append(rb, e) ELSE rb
      /\ bpf_fd_map' = IF cleared THEN drop(bpf_fd_map, f) ELSE bpf_fd_map
      /\ spoilt' = spoilt \cup lost_if(close_announced(f)) \cup (IF cleared THEN reused_if(f) ELSE {})
      /\ UNCHANGED <<kmaps, kattached, perfs, attempts, handlers, pid_fd_to_id_map, open_fds, up,
                     bpf_prog_insns_map, insns_of_thread, bpf_progs_new_fd_args_map, ioctl_param_start>>
  BY Zenon DEF close_fd, daemon_vars
<1>2. closed \in Object /\ closed.kind = "closed"
  BY Zenon DEF closed, Object
<1>3. /\ kfd' \in [AppFds -> Object] /\ kfd'[f].kind = "closed" /\ \A g \in AppFds : g # f => kfd'[g] = kfd[g]
  BY <1>1, <1>2, Zenon DEF Types, KernelTypes
<1>4. /\ DOMAIN kprogs' = DOMAIN kprogs
      /\ \A i \in DOMAIN kprogs : kprogs'[i] \in [fd : AppFds \cup {NoFd}, map : DOMAIN kmaps \cup {0}, moved : BOOLEAN]
  <2>1. ASSUME NEW i \in DOMAIN kprogs
        PROVE  [kprogs[i] EXCEPT !.moved = @ \/ kprogs[i].fd = f] \in [fd : AppFds \cup {NoFd}, map : DOMAIN kmaps \cup {0}, moved : BOOLEAN]
    BY Zenon DEF Types, KernelTypes
  <2> QED BY <1>1, <2>1, Zenon
<1>5. rb' \in Seq(Event)
  <2>1. e \in Event
    BY Zenon DEF Event
  <2> HIDE DEF e
  <2> QED BY <1>1, <2>1 DEF Types, TracerTypes
<1>6. /\ DOMAIN bpf_fd_map' \subseteq DOMAIN bpf_fd_map /\ \A g \in DOMAIN bpf_fd_map' : bpf_fd_map'[g] = bpf_fd_map[g]
      /\ \A g \in DOMAIN bpf_fd_map : g # f => g \in DOMAIN bpf_fd_map'
  BY <1>1, Zenon DEF drop
<1>7. spoilt' \subseteq Mishaps
  BY <1>1, MishapsStay, Zenon DEF Types, DaemonTypes
<1>8. KernelTypes'
  BY <1>1, <1>3, <1>4, Zenon DEF Types, KernelTypes
<1>9. TracerTypes'
  BY <1>1, <1>4, <1>5, <1>6 DEF Types, TracerTypes
<1>10. Known'
  BY <1>3, <1>6, Zenon DEF Types, Known
<1>11. DaemonTypes'
  BY <1>1, <1>4, <1>7, Zenon DEF Types, DaemonTypes
<1> QED BY <1>8, <1>9, <1>10, <1>11, Zenon DEF Types

-----------------------------------------------------------------------------
(* What the driver does to the table. *)

FdsOk(fds) == \A x \in DOMAIN fds : fds[x][1] = "prog" => fds[x][2] \in DOMAIN kprogs

\* Program s was stored from its instructions, and its map is there.
NewProgram(cs, s) ==
  /\ s \in DOMAIN kprogs
  /\ cs[s] = bpf_prog_handler(bpf_prog_insns_map[s].code, relocated_map(bpf_prog_insns_map[s].map_fd))
  /\ bpf_prog_insns_map[s].map_fd = NoFd \/ bpf_prog_insns_map[s].map_fd \in DOMAIN bpf_fd_map
  /\ kprogs[s].map # 0 => cs[kprogs[s].map].kind = "map"

\* A table with a program and its map added: other slots are kept, unless two objects wanted one.
Grown(hs, cs, mishaps) ==
  /\ TableOk(cs)
  /\ \A s \in Slots : /\ cs[s].kind \in {"perf", "link"} => cs[s] = hs[s]
                      /\ hs[s].kind = "map" => cs[s].kind = "map"
                      /\ hs[s].kind = "perf" => cs[s].kind \in {"perf", "map"}
                      /\ cs[s].kind = "prog" => cs[s] = hs[s] \/ NewProgram(cs, s)
                      /\ mishaps = {} /\ hs[s].kind # "unused" => cs[s] = hs[s]

\* New programs and maps leave the slots of the uprobes theirs.
LEMMA GrownUprobes ==
  ASSUME NEW hs, NEW cs, NEW ids, NEW mishaps, TableOk(hs), UprobesOk(hs, ids), Grown(hs, cs, mishaps)
  PROVE  UprobesOk(cs, ids)
BY Zenon DEF UprobesOk, Grown

\* A new descriptor of the daemon for a program of the kernel.
LEMMA FdsPut ==
  ASSUME NEW fds, FdsOk(fds), NEW x, NEW kind, NEW id, kind = "prog" => id \in DOMAIN kprogs
  PROVE  FdsOk(put(fds, x, <<kind, id>>))
BY Zenon DEF FdsOk, put

\* A closed descriptor of the daemon.
LEMMA FdsDrop ==
  ASSUME NEW fds, FdsOk(fds), NEW x
  PROVE  FdsOk(drop(fds, x))
BY Zenon DEF FdsOk, drop

\* A record of the driver.
Driver(d) ==
  /\ d = [hs |-> d.hs, fds |-> d.fds, up |-> d.up, ok |-> d.ok, mishaps |-> d.mishaps]
  /\ d.up \in BOOLEAN /\ d.ok \in BOOLEAN /\ FdsOk(d.fds)

\* The program has been stored in its slot, so far unused.
ProgramStored(id, ms) ==
  /\ handlers[id].kind = "unused"
  /\ bpf_prog_insns_map[id].map_fd = NoFd \/ bpf_prog_insns_map[id].map_fd \in DOMAIN bpf_fd_map
  /\ Stored(handlers, id, bpf_prog_handler(bpf_prog_insns_map[id].code, relocated_map(bpf_prog_insns_map[id].map_fd)), ms)

\* The map has been stored in its slot, which was cleared.
MapStored(n, ms, hs) == \E cs : ClearedAt(ms, n, cs) /\ Stored(cs, n, bpf_map_handler(kmaps[n]), hs)

\* bpftime_maps_create_server puts the map into the slot of its id.
LEMMA MapsCreate ==
  ASSUME KernelTypes, NEW d, Driver(d), TableOk(d.hs), NEW id \in DOMAIN kmaps
  PROVE  LET r == bpftime_maps_create_server(d, id)
         IN  /\ Driver(r) /\ (r.ok <=> d.ok) /\ TableOk(r.hs) /\ MapStored(id, d.hs, r.hs)
             /\ r.mishaps = d.mishaps \cup collision_if(d.hs[id].kind # "unused")
<1> DEFINE r == bpftime_maps_create_server(d, id)
           taken == \E s \in Slots \ {id} : d.hs[s].kind = "map" /\ d.hs[s].name = kmaps[id]
           cs == Table!clear_id_at(d.hs, id)
           h == bpf_map_handler(kmaps[id])
           fds == put(d.fds, lowest_closed(d.fds), <<"map", id>>)
           ms == d.mishaps \cup collision_if(d.hs[id].kind # "unused")
           hs == [cs EXCEPT ![id] = h]
<1>1. id \in Slots /\ kmaps[id] \in MapNames
  BY ConstantFacts, Zenon DEF KernelTypes
<1>2. h \in AHandler /\ h.kind = "map"
  BY <1>1, HandlersStored, Zenon DEF bpf_map_handler
<1>3. ClearedAt(d.hs, id, cs) /\ TableOk(cs)
  BY <1>1, ClearClears, ClearedOk DEF TableOk
<1>4. Stored(cs, id, h, hs)
  BY <1>1, <1>2, <1>3, Zenon DEF Stored, TableOk
<1>5. TableOk(hs)
  BY <1>1, <1>2, <1>3, <1>4, StoredOk, Zenon DEF ClearedAt
<1>6. r = [d EXCEPT !.hs = hs, !.fds = fds, !.up = ~taken, !.mishaps = ms]
  BY Zenon DEF bpftime_maps_create_server, Table!is_allocated
<1>7. FdsOk(fds)
  BY FdsPut, Zenon DEF Driver
<1>8. taken \in BOOLEAN
  BY Zenon
<1> HIDE DEF r, cs, h, fds, ms, hs, taken
<1>9. /\ r = [hs |-> hs, fds |-> fds, up |-> ~taken, ok |-> d.ok, mishaps |-> ms]
  BY <1>6, Zenon DEF Driver
<1>10. r.hs = hs /\ r.fds = fds /\ (r.up <=> ~taken) /\ (r.ok <=> d.ok) /\ r.mishaps = ms
  BY <1>9, Zenon
<1>11. Driver(r)
  <2>1. r.up \in BOOLEAN /\ r.ok \in BOOLEAN
    BY <1>8, <1>9, Zenon DEF Driver
  <2>2. r = [hs |-> r.hs, fds |-> r.fds, up |-> r.up, ok |-> r.ok, mishaps |-> r.mishaps]
    BY <1>9, Zenon
  <2> QED BY <1>7, <1>10, <2>1, <2>2, Zenon DEF Driver
<1>12. ms = d.mishaps \cup collision_if(d.hs[id].kind # "unused")
  BY Zenon DEF ms
<1>13. MapStored(id, d.hs, hs)
  BY <1>3, <1>4, Zenon DEF h, MapStored
<1> QED BY <1>3, <1>5, <1>10, <1>11, <1>12, <1>13, Zenon DEF r

\* A program that is alive was loaded.
LEMMA AliveLoaded ==
  ASSUME Types, NEW id, prog_alive(id)
  PROVE  id \in DOMAIN kprogs
<1>1. CASE \E f \in AppFds : kfd[f].kind \in {"prog", "link"} /\ kfd[f].id = id
  BY <1>1, Zenon DEF Types, KernelTypes
<1>2. CASE \E f \in AppFds : kfd[f].kind = "perf" /\ kfd[f].id \in DOMAIN kattached /\ kattached[kfd[f].id] = id
  BY <1>2, Zenon DEF Types, KernelTypes
<1>3. CASE \E d \in DOMAIN open_fds : open_fds[d] = <<"prog", id>>
  BY <1>3 DEF Types, DaemonTypes
<1> QED BY <1>1, <1>2, <1>3, Zenon DEF prog_alive

\* What storing map n does to the other slots.
LEMMA MapStoredAt ==
  ASSUME NEW n \in Slots, NEW ms, NEW hs, MapStored(n, ms, hs)
  PROVE  /\ hs[n].kind = "map"
         /\ \A s \in Slots : s # n => \/ hs[s] = ms[s]
                                      \/ ms[s].kind = "link" /\ hs[s].kind = "unused" /\ n \in {ms[s].prog_id, ms[s].attach_target_id}
         /\ TableOk(ms) /\ ms[n].kind = "unused" => \A s \in Slots : s # n => hs[s] = ms[s]
<1>1. PICK cs : ClearedAt(ms, n, cs) /\ Stored(cs, n, bpf_map_handler(kmaps[n]), hs)
  BY Zenon DEF MapStored
<1>2. hs[n].kind = "map" /\ \A s \in Slots : s # n => hs[s] = cs[s]
  BY <1>1 DEF Stored, bpf_map_handler
<1>3. \A s \in Slots : s # n => \/ hs[s] = ms[s]
                                \/ ms[s].kind = "link" /\ hs[s].kind = "unused" /\ n \in {ms[s].prog_id, ms[s].attach_target_id}
  BY <1>1, <1>2, Zenon DEF ClearedAt
<1>4. ASSUME TableOk(ms), ms[n].kind = "unused", NEW s \in Slots, s # n PROVE hs[s] = ms[s]
  BY <1>3, <1>4, Zenon DEF TableOk
<1> QED BY <1>2, <1>3, <1>4, Zenon

\* The program needs no other map, or a new one.
MapKept(n, ms, hs) == hs = ms /\ (n = 0 \/ ms[n].kind = "map")
MapMade(n, ms, hs, mishaps) ==
  n \in DOMAIN kmaps /\ ms[n].kind # "map" /\ MapStored(n, ms, hs) /\ (mishaps = {} => ms[n].kind = "unused")

\* A program stored in an unused slot, and a map in the slot it needs.
LEMMA ProgramGrows ==
  ASSUME Types, NEW id \in DOMAIN kprogs, NEW ms, NEW hs, TableOk(ms), TableOk(hs), ProgramStored(id, ms),
         NEW mishaps, NEW n, n = kprogs[id].map, MapKept(n, ms, hs) \/ MapMade(n, ms, hs, mishaps)
  PROVE  Grown(handlers, hs, mishaps)
<1>1. id \in Slots
  BY ConstantFacts, Zenon DEF Types, KernelTypes
<1>2. handlers[id].kind = "unused" /\ ms[id].kind = "prog" /\ \A s \in Slots : s # id => ms[s] = handlers[s]
  BY DEF ProgramStored, Stored, bpf_prog_handler
<1>3. hs[id] = ms[id] /\ (n = 0 \/ hs[n].kind = "map") => NewProgram(hs, id)
  BY Zenon DEF ProgramStored, Stored, NewProgram
<1>4. CASE MapKept(n, ms, hs)
  BY <1>1, <1>2, <1>3, <1>4, Zenon DEF Grown, MapKept
<1>5. CASE MapMade(n, ms, hs, mishaps)
  <2>1. n \in Slots
    BY <1>5, ConstantFacts, Zenon DEF MapMade, Types, KernelTypes
  <2>2. /\ hs[n].kind = "map" /\ ms[n].kind # "map"
        /\ \A s \in Slots : s # n => \/ hs[s] = ms[s]
                                     \/ ms[s].kind = "link" /\ hs[s].kind = "unused"
        /\ mishaps = {} => ms[n].kind = "unused" /\ \A s \in Slots : s # n => hs[s] = ms[s]
    BY <1>5, <2>1, MapStoredAt DEF MapMade
  <2>3. n # id => NewProgram(hs, id)
    BY <1>1, <1>2, <1>3, <2>2, Zenon
  <2>4. \A s \in Slots : hs[s].kind \in {"perf", "link"} => hs[s] = handlers[s]
    BY <1>1, <1>2, <2>2, Zenon
  <2>5. \A s \in Slots : handlers[s].kind = "map" => hs[s].kind = "map"
    BY <1>1, <1>2, <2>2, Zenon
  <2>6. \A s \in Slots : handlers[s].kind = "perf" => hs[s].kind \in {"perf", "map"}
    BY <1>1, <1>2, <2>2, Zenon
  <2>7. \A s \in Slots : hs[s].kind = "prog" => hs[s] = handlers[s] \/ NewProgram(hs, s)
    BY <1>1, <1>2, <2>2, <2>3, Zenon
  <2>8. mishaps = {} => \A s \in Slots : handlers[s].kind # "unused" => hs[s] = handlers[s]
    BY <1>1, <1>2, <2>2, Zenon
  <2> QED BY <2>4, <2>5, <2>6, <2>7, <2>8, Zenon DEF Grown
<1> QED BY <1>4, <1>5, Zenon

\* A record of the driver with fields replaced.
LEMMA DriverExcept ==
  ASSUME NEW d, NEW z, NEW x, NEW y, NEW a, NEW b, NEW c, NEW e, NEW f,
         d = [hs |-> a, fds |-> b, up |-> c, ok |-> e, mishaps |-> f],
         z = [d EXCEPT !.fds = x, !.ok = y]
  PROVE  z = [hs |-> a, fds |-> x, up |-> c, ok |-> y, mishaps |-> f]
BY Zenon

\* What becomes of a program that is not in the table yet.
LEMMA ProgsCreate ==
  ASSUME Types, NEW id \in Slots, handlers[id].kind # "prog"
  PROVE  LET r == bpftime_progs_create_server(untouched, id)
         IN  /\ Driver(r) /\ r.mishaps \subseteq {"collision"} /\ Grown(handlers, r.hs, r.mishaps)
             /\ r.mishaps = {} /\ r.ok => r.hs[id].kind = "prog"
             /\ /\ r.mishaps = {} /\ prog_alive(id)
                /\ bpf_prog_insns_map[id].map_fd = NoFd \/ bpf_prog_insns_map[id].map_fd \in DOMAIN bpf_fd_map
                => r.ok
<1> DEFINE r == bpftime_progs_create_server(untouched, id)
           fd == lowest_closed(untouched.fds)
           fds == put(open_fds, fd, <<"prog", id>>)
           m == bpf_prog_insns_map[id].map_fd
           h == bpf_prog_handler(bpf_prog_insns_map[id].code, relocated_map(m))
           held == [untouched EXCEPT !.fds = put(@, fd, <<"prog", id>>), !.ok = FALSE]
           made == [held EXCEPT !.hs = Table!set_handler(@, id, h)]
           n == kprogs[id].map
           maps == IF n = 0 \/ Table!is_map_fd(made.hs, n) THEN made ELSE bpftime_maps_create_server(made, n)
           known == m = NoFd \/ m \in DOMAIN bpf_fd_map
           none == [untouched EXCEPT !.ok = FALSE]
           failed == [held EXCEPT !.mishaps = {"collision"}]
           stored == [maps EXCEPT !.fds = drop(@, fd), !.ok = TRUE]
<1>1. TableOk(handlers) /\ FdsOk(open_fds)
  BY Zenon DEF Types, DaemonTypes, FdsOk
<1>2. Grown(handlers, handlers, {}) /\ Grown(handlers, handlers, {"collision"})
  BY <1>1, Zenon DEF Grown
<1>a. r = IF ~prog_alive(id) THEN none
          ELSE IF m # NoFd /\ m \notin DOMAIN bpf_fd_map THEN held
          ELSE IF Table!is_allocated(untouched.hs, id) THEN failed
          ELSE stored
  BY Zenon DEF bpftime_progs_create_server
<1> HIDE DEF maps
<1>d. (known <=> m = NoFd \/ m \in DOMAIN bpf_fd_map) /\ stored = [maps EXCEPT !.fds = drop(@, fd), !.ok = TRUE]
  BY Zenon
<1> HIDE DEF stored, known
<1>b. /\ none = [hs |-> handlers, fds |-> open_fds, up |-> TRUE, ok |-> FALSE, mishaps |-> {}]
      /\ held = [hs |-> handlers, fds |-> fds, up |-> TRUE, ok |-> FALSE, mishaps |-> {}]
  <2>1. untouched = [hs |-> handlers, fds |-> open_fds, up |-> TRUE, ok |-> TRUE, mishaps |-> {}]
    BY Zenon DEF untouched
  <2>2. untouched.fds = open_fds
    BY <2>1, Zenon
  <2>3. held = [untouched EXCEPT !.fds = fds, !.ok = FALSE]
    BY <2>2, Zenon
  <2>4. none = [untouched EXCEPT !.ok = FALSE]
    BY Zenon
  <2> HIDE DEF fds, held, none
  <2> QED BY <2>1, <2>3, <2>4, Zenon
<1>c. (Table!is_allocated(untouched.hs, id) <=> handlers[id].kind # "unused")
  BY Zenon DEF untouched, Table!is_allocated
<1> HIDE DEF r, fds, fd, m, h, n, known, held, none, stored
<1>e. /\ made = [hs |-> Table!set_handler(handlers, id, h), fds |-> fds, up |-> TRUE, ok |-> FALSE, mishaps |-> {}]
      /\ failed = [hs |-> handlers, fds |-> fds, up |-> TRUE, ok |-> FALSE, mishaps |-> {"collision"}]
  <2>1. held.hs = handlers
    BY <1>b, Zenon
  <2>2. made = [held EXCEPT !.hs = Table!set_handler(handlers, id, h)]
    BY <2>1, Zenon
  <2>3. failed = [held EXCEPT !.mishaps = {"collision"}]
    BY Zenon
  <2> HIDE DEF made, failed
  <2> QED BY <1>b, <2>2, <2>3, Zenon
<1> HIDE DEF made, maps, failed
<1>3. /\ ~prog_alive(id) => r = none
      /\ prog_alive(id) /\ ~known => r = held
      /\ prog_alive(id) /\ known /\ handlers[id].kind # "unused" => r = failed
      /\ prog_alive(id) /\ known /\ handlers[id].kind = "unused" => r = stored
  BY <1>a, <1>c, <1>d, Zenon
<1>4. ASSUME prog_alive(id) PROVE id \in DOMAIN kprogs /\ FdsOk(fds)
  BY <1>1, <1>4, AliveLoaded, FdsPut, Zenon DEF fds
<1>5. CASE ~prog_alive(id)
  <2>1. Driver(none) /\ none.mishaps = {} /\ none.hs = handlers /\ ~none.ok
    BY <1>1, <1>b, Zenon DEF Driver
  <2> QED BY <1>2, <1>3, <1>5, <2>1, Zenon DEF r
<1>6. CASE prog_alive(id) /\ ~known
  <2>1. ~(m = NoFd \/ m \in DOMAIN bpf_fd_map)
    BY <1>6, Zenon DEF known
  <2>2. Driver(held) /\ held.mishaps = {} /\ held.hs = handlers /\ ~held.ok
    BY <1>4, <1>6, <1>b, Zenon DEF Driver
  <2> QED BY <1>2, <1>3, <1>6, <2>1, <2>2, Zenon DEF r, m
<1>7. CASE prog_alive(id) /\ known /\ handlers[id].kind # "unused"
  <2>1. Driver(failed) /\ failed.mishaps = {"collision"} /\ failed.hs = handlers
    BY <1>4, <1>7, <1>e, Zenon DEF Driver
  <2> QED BY <1>2, <1>3, <1>7, <2>1, Zenon DEF r
<1>8. CASE prog_alive(id) /\ known /\ handlers[id].kind = "unused"
  <2>1. id \in DOMAIN kprogs /\ known
    BY <1>4, <1>8, Zenon
  <2>2. h \in AHandler /\ h.kind = "prog"
    <3>1. bpf_prog_insns_map[id].code \in Slots
      BY <2>1, Zenon DEF Types, TracerTypes, Insns
    <3>2. relocated_map(m) \in Slots
      BY <2>1, ConstantFacts, Zenon DEF known, relocated_map, get_bpf_obj_id_from_pid_fd, Types, TracerTypes
    <3> QED BY <3>1, <3>2, HandlersStored, Zenon DEF h, bpf_prog_handler
  <2>3. Stored(handlers, id, h, made.hs) /\ TableOk(made.hs)
    <3>1. Stored(handlers, id, h, made.hs)
      BY <1>1, <1>8, <1>e, <2>2, SetStores, Zenon DEF TableOk
    <3> QED BY <1>1, <1>8, <2>2, <3>1, StoredOk, Zenon
  <2>4. Driver(made) /\ made.mishaps = {} /\ (made.ok <=> FALSE)
    BY <1>4, <1>8, <1>e, Zenon DEF Driver
  <2>5. n \in DOMAIN kmaps \cup {0}
    BY <2>1, Zenon DEF n, Types, KernelTypes
  <2>b. ProgramStored(id, made.hs)
    BY <1>8, <2>1, <2>3, Zenon DEF ProgramStored, h, m, known
  <2>a. r = [maps EXCEPT !.fds = drop(@, fd), !.ok = TRUE]
    BY <1>3, <1>8, <1>d, Zenon
  <2>6. CASE n = 0 \/ made.hs[n].kind = "map"
    <3>1. maps = made
      BY <2>6, Zenon DEF maps, Table!is_map_fd
    <3>2. r = [hs |-> made.hs, fds |-> drop(made.fds, fd), up |-> made.up, ok |-> TRUE, mishaps |-> {}]
      <4>1. r = [made EXCEPT !.fds = drop(made.fds, fd), !.ok = TRUE]
        BY <2>a, <3>1, Zenon
      <4> QED BY <2>4, <4>1, DriverExcept, Zenon DEF Driver
    <3>3. Grown(handlers, made.hs, {})
      BY <2>1, <2>3, <2>6, <2>b, ProgramGrows, Zenon DEF n, MapKept
    <3>4. FdsOk(drop(made.fds, fd)) /\ made.up \in BOOLEAN
      BY <2>4, FdsDrop, Zenon DEF Driver
    <3>5. made.hs[id].kind = "prog"
      BY <2>2, <2>3, Zenon DEF Stored
    <3> QED BY <3>2, <3>3, <3>4, <3>5 DEF Driver, r
  <2>7. CASE ~(n = 0 \/ made.hs[n].kind = "map")
    <3> DEFINE q == bpftime_maps_create_server(made, n)
    <3>1. maps = q /\ n \in DOMAIN kmaps
      BY <2>5, <2>7, Zenon DEF maps, Table!is_map_fd
    <3>2. /\ Driver(q) /\ TableOk(q.hs)
          /\ q.mishaps = made.mishaps \cup collision_if(made.hs[n].kind # "unused")
          /\ MapStored(n, made.hs, q.hs)
      BY <2>3, <2>4, <3>1, MapsCreate, Zenon DEF Types
    <3> HIDE DEF q
    <3>4. q.mishaps = collision_if(made.hs[n].kind # "unused")
      BY <2>4, <3>2, Zenon
    <3>5. q.mishaps \subseteq {"collision"} /\ (q.mishaps = {} => made.hs[n].kind = "unused")
      BY <3>4, Zenon DEF collision_if
    <3>6. r = [hs |-> q.hs, fds |-> drop(q.fds, fd), up |-> q.up, ok |-> TRUE, mishaps |-> q.mishaps]
      <4>1. r = [q EXCEPT !.fds = drop(q.fds, fd), !.ok = TRUE]
        BY <2>a, <3>1
      <4> QED BY <3>2, <4>1, DriverExcept, Zenon DEF Driver
    <3>7. Grown(handlers, q.hs, q.mishaps)
      BY <2>1, <2>3, <2>7, <2>b, <3>1, <3>2, <3>5, ProgramGrows, Zenon DEF n, MapMade
    <3>8. FdsOk(drop(q.fds, fd)) /\ q.up \in BOOLEAN
      BY <3>2, FdsDrop, Zenon DEF Driver
    <3>9. q.mishaps = {} => q.hs[id].kind = "prog"
      <4>1. made.hs[id].kind = "prog"
        BY <2>2, <2>3, Zenon DEF Stored
      <4>2. n \in Slots
        BY <3>1, ConstantFacts, Zenon DEF Types, KernelTypes
      <4> QED BY <2>3, <3>2, <3>5, <4>1, <4>2, MapStoredAt
    <3> QED BY <3>5, <3>6, <3>7, <3>8, <3>9 DEF Driver, r
  <2> QED BY <2>6, <2>7, Zenon
<1> QED BY <1>5, <1>6, <1>7, <1>8, Zenon

\* The fields of the driver state after a link.
LEMMA DriverLinked ==
  ASSUME NEW d, NEW z, NEW x, NEW y, NEW w, NEW a, NEW b, NEW c, NEW e, NEW f,
         d = [hs |-> a, fds |-> b, up |-> c, ok |-> e, mishaps |-> f],
         z = [d EXCEPT !.hs = w, !.fds = x, !.mishaps = y]
  PROVE  z = [hs |-> w, fds |-> x, up |-> c, ok |-> e, mishaps |-> y]
BY Zenon

\* A link of program id and uprobe t has been stored.
Linked(hs, t, id, cs) ==
  /\ hs[t].kind = "perf" /\ hs[id].kind = "prog"
  /\ \E s \in Slots : hs[s].kind = "unused" /\ Stored(hs, s, Table!bpf_link_handler(id, t), cs)

\* bpftime_attach_perf_to_bpf adds the link, or a mishap says why not.
LEMMA AttachLinks ==
  ASSUME NEW d, Driver(d), TableOk(d.hs), NEW t \in Slots, NEW id \in Slots
  PROVE  LET r == bpftime_attach_perf_to_bpf(d, t, id)
         IN  /\ FdsOk(r.fds) /\ r.up \in BOOLEAN /\ TableOk(r.hs)
             /\ d.mishaps \subseteq r.mishaps /\ r.mishaps \subseteq d.mishaps \cup {"collision", "full"}
             /\ r.hs = d.hs \/ Linked(d.hs, t, id, r.hs)
             /\ r.mishaps \cap {"collision", "full"} = {} /\ d.hs[t].kind = "perf" /\ d.hs[id].kind = "prog"
                => Linked(d.hs, t, id, r.hs)
<1> DEFINE r == bpftime_attach_perf_to_bpf(d, t, id)
           fd == lowest_closed(d.fds)
           fds == put(d.fds, fd, <<"link", id>>)
           h == Table!bpf_link_handler(id, t)
           hs == Table!set_handler(d.hs, fd, h)
           ms == d.mishaps \cup collision_if(Table!is_allocated(d.hs, fd))
           past == [d EXCEPT !.fds = put(@, fd, <<"link", id>>), !.mishaps = @ \cup {"full"}]
           joined == [d EXCEPT !.hs = Table!set_handler(@, fd, h),
                               !.fds = put(@, fd, <<"link", id>>),
                               !.mishaps = @ \cup collision_if(Table!is_allocated(d.hs, fd))]
<1>1. r = IF ~(d.hs[t].kind = "perf" /\ d.hs[id].kind = "prog") THEN d
          ELSE IF fd \notin Slots THEN past
          ELSE joined
  BY Zenon DEF bpftime_attach_perf_to_bpf, Table!is_perf_fd, Table!is_prog_fd
<1>2. /\ past = [d EXCEPT !.hs = d.hs, !.fds = fds, !.mishaps = d.mishaps \cup {"full"}]
      /\ joined = [d EXCEPT !.hs = hs, !.fds = fds, !.mishaps = ms]
  BY Zenon
<1>3. FdsOk(fds)
  BY FdsPut, Zenon DEF Driver
<1>4. h \in AHandler /\ h.kind = "link" /\ h.prog_id = id /\ h.attach_target_id = t
  BY HandlersStored, Zenon DEF Table!bpf_link_handler
<1>5. ms = d.mishaps \cup collision_if(d.hs[fd].kind # "unused")
  BY Zenon DEF Table!is_allocated
<1>6. Driver(d)
  BY Zenon
<1> HIDE DEF past, joined, fds, h, fd, r, ms
<1>7. past = [hs |-> d.hs, fds |-> fds, up |-> d.up, ok |-> d.ok, mishaps |-> d.mishaps \cup {"full"}]
  BY <1>2, DriverLinked, Zenon DEF Driver
<1>8. joined = [hs |-> hs, fds |-> fds, up |-> d.up, ok |-> d.ok, mishaps |-> ms]
  BY <1>2, DriverLinked, Zenon DEF Driver
<1>9. CASE ~(d.hs[t].kind = "perf" /\ d.hs[id].kind = "prog")
  BY <1>1, <1>9, Zenon DEF Driver, r
<1>10. CASE d.hs[t].kind = "perf" /\ d.hs[id].kind = "prog" /\ fd \notin Slots
  BY <1>1, <1>3, <1>7, <1>10 DEF Driver, r
<1>11. CASE d.hs[t].kind = "perf" /\ d.hs[id].kind = "prog" /\ fd \in Slots
  <2>1. r.hs = hs /\ r.fds = fds /\ r.up = d.up /\ r.mishaps = ms
    BY <1>1, <1>8, <1>11, Zenon
  <2>2. CASE d.hs[fd].kind = "unused"
    <3>1. Stored(d.hs, fd, h, hs)
      BY <1>4, <1>11, <2>2, SetStores, Zenon DEF TableOk
    <3>2. TableOk(hs) /\ Linked(d.hs, t, id, hs)
      BY <1>4, <1>11, <2>2, <3>1, StoredOk, Zenon DEF Linked, h
    <3>3. ms = d.mishaps
      BY <1>5, <2>2, Zenon DEF collision_if
    <3> QED BY <1>3, <1>6, <2>1, <3>2, <3>3, Zenon DEF r, Driver
  <2>3. CASE d.hs[fd].kind # "unused"
    <3>1. hs = d.hs
      BY <1>4, <1>11, <2>3, SetStores, Zenon DEF TableOk
    <3>2. ms = d.mishaps \cup {"collision"}
      BY <1>5, <2>3, Zenon DEF collision_if
    <3> QED BY <1>3, <1>6, <2>1, <3>1, <3>2, Zenon DEF r, Driver
  <2> QED BY <2>2, <2>3, Zenon
<1> QED BY <1>9, <1>10, <1>11, Zenon

\* What bpftime_attach_perf_to_bpf_server has done for the uprobe of descriptor p and program id: the program
\* was added to the table if it was not there, and linked if all went well.
Attached(p, id) ==
  \E cs, ms :
    /\ Grown(handlers, cs, ms) /\ ms \subseteq {"collision"}
    /\ handlers' = cs \/ Linked(cs, pid_fd_to_id_map[p], id, handlers')
    /\ TableOk(handlers') /\ FdsOk(open_fds') /\ up' \in BOOLEAN
    /\ spoilt \cup ms \subseteq spoilt' /\ spoilt' \subseteq spoilt \cup {"collision", "full"}
    /\ /\ up' /\ spoilt' \cap {"collision", "full"} = {}
       /\ handlers[pid_fd_to_id_map[p]].kind = "perf"
       /\ \/ handlers[id].kind = "prog"
          \/ /\ prog_alive(id)
             /\ bpf_prog_insns_map[id].map_fd = NoFd \/ bpf_prog_insns_map[id].map_fd \in DOMAIN bpf_fd_map
       => Linked(cs, pid_fd_to_id_map[p], id, handlers')

\* bpftime_attach_perf_to_bpf_server attaches to a uprobe it knows, and does nothing for others.
LEMMA AttachServer ==
  ASSUME Types, NEW p, NEW id \in Slots, bpftime_attach_perf_to_bpf_server(p, id)
  PROVE  \/ p \notin DOMAIN pid_fd_to_id_map /\ UNCHANGED <<handlers, open_fds, up, spoilt>>
         \/ p \in DOMAIN pid_fd_to_id_map /\ Attached(p, id)
<1> SUFFICES ASSUME p \in DOMAIN pid_fd_to_id_map PROVE Attached(p, id)
  BY Zenon DEF bpftime_attach_perf_to_bpf_server
<1> DEFINE there == Table!is_prog_fd(handlers, id)
           t == pid_fd_to_id_map[p]
           made == IF there THEN untouched ELSE bpftime_progs_create_server(untouched, id)
           q == bpftime_attach_perf_to_bpf(made, t, id)
           known == bpf_prog_insns_map[id].map_fd = NoFd \/ bpf_prog_insns_map[id].map_fd \in DOMAIN bpf_fd_map
           d == IF made.ok /\ made.up THEN q ELSE made
<1>1. handlers' = d.hs /\ open_fds' = d.fds /\ up' = d.up /\ spoilt' = spoilt \cup d.mishaps
  BY Zenon DEF bpftime_attach_perf_to_bpf_server
<1>2. t \in Slots
  BY Zenon DEF Types, DaemonTypes, UprobesOk
<1>3. there <=> handlers[id].kind = "prog"
  BY Zenon DEF Table!is_prog_fd
<1> HIDE DEF there, t
<1>4. /\ Driver(made) /\ made.mishaps \subseteq {"collision"} /\ Grown(handlers, made.hs, made.mishaps)
      /\ made.mishaps = {} /\ made.ok => made.hs[id].kind = "prog"
      /\ made.mishaps = {} /\ (handlers[id].kind = "prog" \/ (prog_alive(id) /\ known)) => made.ok
  <2>1. CASE there
    <3>1. made = [hs |-> handlers, fds |-> open_fds, up |-> TRUE, ok |-> TRUE, mishaps |-> {}]
      BY <2>1, Zenon DEF untouched
    <3>2. Driver(made)
      <4>1. FdsOk(open_fds)
        BY Zenon DEF Types, DaemonTypes, FdsOk
      <4> HIDE DEF made
      <4> QED BY <3>1, <4>1, Zenon DEF Driver
    <3>3. Grown(handlers, handlers, {})
      BY Zenon DEF Grown, Types, DaemonTypes
    <3> HIDE DEF made
    <3> QED BY <1>3, <2>1, <3>1, <3>2, <3>3, Zenon
  <2>2. CASE ~there
    <3>1. made = bpftime_progs_create_server(untouched, id)
      BY <2>2, Zenon
    <3> HIDE DEF made
    <3> QED BY <1>3, <2>2, <3>1, ProgsCreate, Zenon
  <2> QED BY <2>1, <2>2, Zenon
<1> HIDE DEF made
<1>5. TableOk(made.hs)
  BY <1>4, Zenon DEF Grown
<1>6. /\ FdsOk(q.fds) /\ q.up \in BOOLEAN /\ TableOk(q.hs)
      /\ made.mishaps \subseteq q.mishaps /\ q.mishaps \subseteq made.mishaps \cup {"collision", "full"}
      /\ q.hs = made.hs \/ Linked(made.hs, t, id, q.hs)
      /\ q.mishaps \cap {"collision", "full"} = {} /\ made.hs[t].kind = "perf" /\ made.hs[id].kind = "prog"
         => Linked(made.hs, t, id, q.hs)
  BY <1>2, <1>4, <1>5, AttachLinks, Zenon
<1> HIDE DEF q
<1>7. /\ TableOk(d.hs) /\ FdsOk(d.fds) /\ d.up \in BOOLEAN
      /\ made.mishaps \subseteq d.mishaps /\ d.mishaps \subseteq {"collision", "full"}
      /\ d.hs = made.hs \/ Linked(made.hs, t, id, d.hs)
  BY <1>4, <1>5, <1>6, Zenon DEF Driver
<1>8. ASSUME d.up, d.mishaps = {}, handlers[t].kind = "perf", handlers[id].kind = "prog" \/ (prog_alive(id) /\ known)
      PROVE  Linked(made.hs, t, id, d.hs)
  <2>1. made.mishaps = {}
    BY <1>7, <1>8, Zenon
  <2>2. made.ok /\ made.hs[id].kind = "prog" /\ made.hs[t] = handlers[t]
    BY <1>2, <1>4, <1>8, <2>1, Zenon DEF Grown
  <2>3. made.up
    BY <1>8, <2>2, Zenon
  <2>4. d = q
    BY <2>2, <2>3, Zenon
  <2> QED BY <1>6, <1>8, <2>2, <2>4, Zenon
<1> HIDE DEF d
<1>9. spoilt' \cap {"collision", "full"} = {} => d.mishaps = {}
  BY <1>1, <1>7, Zenon
<1>10. Grown(handlers, made.hs, made.mishaps) /\ made.mishaps \subseteq {"collision"}
  BY <1>4, Zenon
<1>11. handlers' = made.hs \/ Linked(made.hs, pid_fd_to_id_map[p], id, handlers')
  BY <1>1, <1>7, Zenon DEF t
<1>12. TableOk(handlers') /\ FdsOk(open_fds') /\ up' \in BOOLEAN
  BY <1>1, <1>7, Zenon
<1>13. spoilt \cup made.mishaps \subseteq spoilt' /\ spoilt' \subseteq spoilt \cup {"collision", "full"}
  BY <1>1, <1>7, Zenon
<1>14. /\ up' /\ spoilt' \cap {"collision", "full"} = {}
       /\ handlers[pid_fd_to_id_map[p]].kind = "perf"
       /\ \/ handlers[id].kind = "prog"
          \/ /\ prog_alive(id)
             /\ bpf_prog_insns_map[id].map_fd = NoFd \/ bpf_prog_insns_map[id].map_fd \in DOMAIN bpf_fd_map
       => Linked(made.hs, pid_fd_to_id_map[p], id, handlers')
  BY <1>1, <1>8, <1>9, Zenon DEF t, known
<1> QED BY <1>10, <1>11, <1>12, <1>13, <1>14, Zenon DEF Attached

-----------------------------------------------------------------------------
(* Types: the events. *)

\* The fields of an event by its type.
LEMMA EventFields ==
  ASSUME NEW e \in Event
  PROVE  /\ e.type \in {"perf", "link", "set_bpf", "enable", "disable", "close"} /\ e.fd \in AppFds
         /\ e.type = "perf" => e.perf \in Nat \ {0}
         /\ e.type = "link" => e.prog \in AppFds
         /\ e.type \in {"set_bpf", "enable", "disable"} => e.prog \in Slots
BY Zenon DEF Event

\* The waiting events after the first is taken.
LEMMA FirstEvent ==
  ASSUME Types, rb # <<>>
  PROVE  /\ Head(rb) = rb[1] /\ rb[1] \in Event /\ Len(rb) \in Nat /\ Len(rb) >= 1
         /\ Tail(rb) \in Seq(Event) /\ Len(Tail(rb)) = Len(rb) - 1
         /\ \A i \in 1..(Len(rb) - 1) : Tail(rb)[i] = rb[i + 1]
BY DEF Types, TracerTypes

\* Slot t of the table has been cleared for descriptor f, or stored, or its uprobe switched.
LEMMA UprobeStored ==
  ASSUME Types, bpftime_uprobe_create_server(rb[1]), rb # <<>>
  PROVE  /\ TableOk(handlers') /\ UprobesOk(handlers', pid_fd_to_id_map') /\ UNCHANGED <<open_fds, up>>
         /\ \/ spoilt' = spoilt \cup {"full"} /\ UNCHANGED <<handlers, pid_fd_to_id_map>>
            \/ \E t \in Slots : /\ handlers[t].kind = "unused" /\ spoilt' = spoilt
                                /\ Stored(handlers, t, bpf_perf_event_handler(rb[1].perf), handlers')
                                /\ IsPut(pid_fd_to_id_map, rb[1].fd, t, pid_fd_to_id_map')
<1> DEFINE e == rb[1]
           h == bpf_perf_event_handler(e.perf)
<1>1. e.fd \in AppFds /\ e.perf \in Nat \ {0} /\ UNCHANGED <<open_fds, up>>
  BY FirstEvent, EventFields, Zenon DEF bpftime_uprobe_create_server
<1>2. TableOk(handlers) /\ UprobesOk(handlers, pid_fd_to_id_map)
  BY Zenon DEF Types, DaemonTypes
<1>3. CASE spoilt' = spoilt \cup {"full"} /\ UNCHANGED <<handlers, pid_fd_to_id_map>>
  BY <1>1, <1>2, <1>3, Zenon
<1>4. ASSUME NEW t \in unused_slots, spoilt' = spoilt, handlers' = Table!set_handler(handlers, t, h),
             pid_fd_to_id_map' = put(pid_fd_to_id_map, e.fd, t)
      PROVE  /\ TableOk(handlers') /\ UprobesOk(handlers', pid_fd_to_id_map')
             /\ t \in Slots /\ handlers[t].kind = "unused"
             /\ Stored(handlers, t, h, handlers') /\ IsPut(pid_fd_to_id_map, e.fd, t, pid_fd_to_id_map')
  <2>1. t \in Slots /\ handlers[t].kind = "unused"
    BY Zenon DEF unused_slots, Table!is_allocated
  <2>2. h \in AHandler /\ h.kind = "perf"
    BY <1>1, HandlersStored DEF bpf_perf_event_handler
  <2> HIDE DEF h, e
  <2>3. Stored(handlers, t, h, handlers') /\ IsPut(pid_fd_to_id_map, e.fd, t, pid_fd_to_id_map')
    BY <1>2, <1>4, <2>1, <2>2, SetStores, PutIs, Zenon DEF TableOk
  <2>4. TableOk(handlers')
    BY <1>2, <2>1, <2>2, <2>3, StoredOk, Zenon
  <2>5. UprobesOk(handlers', pid_fd_to_id_map')
    BY <1>1, <1>2, <2>1, <2>2, <2>3 DEF UprobesOk, Stored, IsPut
  <2> QED BY <2>1, <2>3, <2>4, <2>5, Zenon
<1> QED BY <1>1, <1>3, <1>4, Zenon DEF bpftime_uprobe_create_server

\* The handler of a uprobe switched on or off.
LEMMA SwitchedHandler ==
  ASSUME NEW h, NEW c, h = [kind |-> "perf", enabled |-> h.enabled, perf |-> h.perf]
  PROVE  [h EXCEPT !.enabled = c] = [kind |-> "perf", enabled |-> c, perf |-> h.perf]
<1>1. ASSUME NEW a, NEW b, NEW z, h = [kind |-> "perf", enabled |-> a, perf |-> b], z = [h EXCEPT !.enabled = c]
      PROVE  z = [kind |-> "perf", enabled |-> c, perf |-> b]
  BY <1>1, Zenon
<1> QED BY <1>1, Zenon

\* An enable or disable event switches the uprobe of its descriptor and no other.
LEMMA UprobeSwitched ==
  ASSUME Types, bpftime_perf_event_enable_server(rb[1]), rb # <<>>
  PROVE  /\ TableOk(handlers') /\ UprobesOk(handlers', pid_fd_to_id_map')
         /\ UNCHANGED <<pid_fd_to_id_map, open_fds, up, spoilt>>
         /\ rb[1].fd \notin DOMAIN pid_fd_to_id_map => handlers' = handlers
         /\ \A s \in Slots : \/ handlers'[s] = handlers[s]
                             \/ handlers[s].kind = "perf" /\ handlers'[s].kind = "perf" /\ handlers'[s].perf = handlers[s].perf
         /\ \A f \in DOMAIN pid_fd_to_id_map :
              /\ f # rb[1].fd => handlers'[pid_fd_to_id_map[f]] = handlers[pid_fd_to_id_map[f]]
              /\ f = rb[1].fd /\ handlers[pid_fd_to_id_map[f]].kind = "perf"
                 => (handlers'[pid_fd_to_id_map[f]].enabled <=> rb[1].type = "enable")
<1> DEFINE e == rb[1]
           t == pid_fd_to_id_map[e.fd]
<1>1. /\ handlers' = IF e.fd \in DOMAIN pid_fd_to_id_map /\ handlers[t].kind = "perf"
                     THEN [handlers EXCEPT ![t].enabled = (e.type = "enable")] ELSE handlers
      /\ UNCHANGED <<pid_fd_to_id_map, open_fds, up, spoilt>>
  BY Zenon DEF bpftime_perf_event_enable_server, Table!is_perf_fd
<1>2. TableOk(handlers) /\ UprobesOk(handlers, pid_fd_to_id_map)
  BY Zenon DEF Types, DaemonTypes
<1>3. CASE ~(e.fd \in DOMAIN pid_fd_to_id_map /\ handlers[t].kind = "perf")
  BY <1>1, <1>2, <1>3, Zenon
<1>4. CASE e.fd \in DOMAIN pid_fd_to_id_map /\ handlers[t].kind = "perf"
  <2> DEFINE h == [handlers[t] EXCEPT !.enabled = (e.type = "enable")]
  <2>1. t \in Slots /\ handlers \in [Slots -> AHandler] /\ handlers' = [handlers EXCEPT ![t] = h]
    BY <1>1, <1>2, <1>4, Zenon DEF UprobesOk, TableOk
  <2>2. h \in AHandler /\ h.kind = "perf" /\ h.perf = handlers[t].perf /\ (h.enabled <=> e.type = "enable")
    <3>1. handlers[t] = [kind |-> "perf", enabled |-> handlers[t].enabled, perf |-> handlers[t].perf] /\ handlers[t].perf \in Nat \ {0}
      BY <1>4, <2>1, HandlerFields, Zenon
    <3>2. h = [kind |-> "perf", enabled |-> (e.type = "enable"), perf |-> handlers[t].perf]
      <4> HIDE DEF e, t
      <4> QED BY <3>1, SwitchedHandler, Zenon
    <3>3. \A b \in BOOLEAN : [kind |-> "perf", enabled |-> b, perf |-> handlers[t].perf] \in AHandler
      BY <3>1, Zenon DEF AHandler
    <3>4. h \in AHandler
      BY <3>2, <3>3, Zenon
    <3>5. h.kind = "perf" /\ h.perf = handlers[t].perf /\ (h.enabled <=> e.type = "enable")
      BY <3>2, Zenon
    <3> QED BY <3>4, <3>5, Zenon
  <2> HIDE DEF h
  <2>3. handlers' \in [Slots -> AHandler] /\ handlers'[t] = h /\ \A s \in Slots : s # t => handlers'[s] = handlers[s]
    BY <2>1, <2>2, Zenon
  <2>4. \A s \in Slots : handlers[s].kind = "link" => handlers[s].prog_id \in Slots /\ handlers[s].attach_target_id \in Slots
    BY <2>1, HandlerFields, Zenon
  <2> HIDE DEF t, e
  <2>5. TableOk(handlers')
    BY <1>2, <1>4, <2>1, <2>2, <2>3, <2>4 DEF TableOk
  <2>6. UprobesOk(handlers', pid_fd_to_id_map')
    BY <1>1, <1>2, <1>4, <2>1, <2>2, <2>3, Zenon DEF UprobesOk
  <2>7. \A s \in Slots : \/ handlers'[s] = handlers[s]
                         \/ handlers[s].kind = "perf" /\ handlers'[s].kind = "perf" /\ handlers'[s].perf = handlers[s].perf
    BY <1>4, <2>2, <2>3, Zenon
  <2>8. ASSUME NEW f \in DOMAIN pid_fd_to_id_map
        PROVE  /\ f # e.fd => handlers'[pid_fd_to_id_map[f]] = handlers[pid_fd_to_id_map[f]]
               /\ f = e.fd => (handlers'[pid_fd_to_id_map[f]].enabled <=> e.type = "enable")
    BY <1>2, <1>4, <2>2, <2>3, Zenon DEF UprobesOk, t
  <2> QED BY <1>1, <1>4, <2>5, <2>6, <2>7, <2>8, Zenon DEF e
<1> QED BY <1>3, <1>4, Zenon

\* A close event empties the slot of its descriptor and forgets it.
LEMMA UprobeClosed ==
  ASSUME Types, bpftime_close_server(rb[1]), rb # <<>>
  PROVE  /\ TableOk(handlers') /\ UprobesOk(handlers', pid_fd_to_id_map')
         /\ UNCHANGED <<open_fds, up, spoilt>>
         /\ DOMAIN pid_fd_to_id_map' = DOMAIN pid_fd_to_id_map \ {rb[1].fd}
         /\ \A f \in DOMAIN pid_fd_to_id_map' : pid_fd_to_id_map'[f] = pid_fd_to_id_map[f]
         /\ rb[1].fd \notin DOMAIN pid_fd_to_id_map => handlers' = handlers
         /\ rb[1].fd \in DOMAIN pid_fd_to_id_map => ClearedAt(handlers, pid_fd_to_id_map[rb[1].fd], handlers')
<1> DEFINE e == rb[1]
           t == pid_fd_to_id_map[e.fd]
<1>1. /\ handlers' = IF e.fd \in DOMAIN pid_fd_to_id_map THEN Table!clear_id_at(handlers, t) ELSE handlers
      /\ pid_fd_to_id_map' = drop(pid_fd_to_id_map, e.fd)
      /\ UNCHANGED <<open_fds, up, spoilt>>
  BY Zenon DEF bpftime_close_server
<1>2. TableOk(handlers) /\ UprobesOk(handlers, pid_fd_to_id_map)
  BY Zenon DEF Types, DaemonTypes
<1> HIDE DEF e
<1>3. /\ DOMAIN pid_fd_to_id_map' = DOMAIN pid_fd_to_id_map \ {e.fd}
      /\ \A f \in DOMAIN pid_fd_to_id_map' : pid_fd_to_id_map'[f] = pid_fd_to_id_map[f]
  BY <1>1, Zenon DEF drop
<1>4. CASE e.fd \notin DOMAIN pid_fd_to_id_map
  <2>1. handlers' = handlers
    BY <1>1, <1>4, Zenon
  <2>2. UprobesOk(handlers', pid_fd_to_id_map')
    BY <1>2, <1>3, <2>1, Zenon DEF UprobesOk
  <2> QED BY <1>1, <1>2, <1>3, <1>4, <2>1, <2>2, Zenon DEF e
<1>5. CASE e.fd \in DOMAIN pid_fd_to_id_map
  <2>1. t \in Slots
    BY <1>2, <1>5, Zenon DEF UprobesOk
  <2>2. ClearedAt(handlers, t, handlers')
    BY <1>1, <1>2, <1>5, <2>1, ClearClears, Zenon DEF TableOk
  <2>3. TableOk(handlers')
    BY <1>2, <2>1, <2>2, ClearedOk, Zenon
  <2>4. UprobesOk(handlers', pid_fd_to_id_map')
    BY <1>2, <1>3, <1>5, <2>1, <2>2 DEF UprobesOk, ClearedAt
  <2> QED BY <1>1, <1>3, <1>5, <2>2, <2>3, <2>4, Zenon DEF e
<1> QED BY <1>4, <1>5, Zenon

\* What a program and a link added to the table leave of the other slots.
KeptBy(hs, cs, ms, t, id, new) ==
  \A s \in Slots : /\ new[s].kind = "perf" => new[s] = hs[s]
                   /\ hs[s].kind = "map" => new[s].kind = "map"
                   /\ hs[s].kind = "perf" => new[s].kind \in {"perf", "map"}
                   /\ new[s].kind = "prog" => new[s] = hs[s] \/ (new[s] = cs[s] /\ NewProgram(cs, s))
                   /\ new[s].kind = "link" => new[s] = hs[s] \/ (new[s] = Table!bpf_link_handler(id, t) /\ Linked(cs, t, id, new))
                   /\ cs[s].kind = "map" => new[s].kind = "map"
                   /\ ms = {} /\ hs[s].kind # "unused" => new[s] = hs[s]

\* What an attach leaves of the table.
LEMMA AttachedKeeps ==
  ASSUME NEW hs, NEW cs, NEW ms, NEW t, NEW id, NEW new, Grown(hs, cs, ms), new = cs \/ Linked(cs, t, id, new)
  PROVE  KeptBy(hs, cs, ms, t, id, new)
<1> USE DEF KeptBy
<1>1. CASE new = cs
  BY <1>1, Zenon DEF Grown
<1>2. CASE Linked(cs, t, id, new)
  <2>1. PICK u \in Slots : cs[u].kind = "unused" /\ Stored(cs, u, Table!bpf_link_handler(id, t), new)
    BY <1>2, Zenon DEF Linked
  <2>2. new[u] = Table!bpf_link_handler(id, t) /\ new[u].kind = "link" /\ \A s \in Slots : s # u => new[s] = cs[s]
    BY <2>1 DEF Stored, Table!bpf_link_handler
  <2> QED BY <1>2, <2>1, <2>2, Zenon DEF Grown
<1> QED BY <1>1, <1>2, Zenon

\* An attach leaves the descriptors their uprobes.
LEMMA AttachedUprobes ==
  ASSUME Types, NEW p, NEW id, Attached(p, id)
  PROVE  UprobesOk(handlers', pid_fd_to_id_map)
<1>1. PICK cs, ms : Grown(handlers, cs, ms) /\ (handlers' = cs \/ Linked(cs, pid_fd_to_id_map[p], id, handlers'))
  BY Zenon DEF Attached
<1>2. \A s \in Slots : /\ handlers[s].kind = "map" => handlers'[s].kind = "map"
                       /\ handlers[s].kind = "perf" => handlers'[s].kind \in {"perf", "map"}
  <2>1. KeptBy(handlers, cs, ms, pid_fd_to_id_map[p], id, handlers')
    BY <1>1, AttachedKeeps, Zenon
  <2> QED BY <2>1, Zenon DEF KeptBy
<1> QED BY <1>2, Zenon DEF UprobesOk, Types, DaemonTypes

\* An attach event has been handled: nothing came of it, or the program it names was linked to its uprobe.
AttachHandled(e, id) ==
  /\ UNCHANGED pid_fd_to_id_map
  /\ \/ UNCHANGED <<handlers, open_fds, up, spoilt>> /\ e.fd \notin DOMAIN pid_fd_to_id_map
     \/ e.fd \in DOMAIN pid_fd_to_id_map /\ Attached(e.fd, id)

\* The two attach events name a program and attach it, or name a descriptor the tracer does not know.
LEMMA AttachEvents ==
  ASSUME Types, rb # <<>>, bpftime_attach_perf_to_bpf_fd_server(rb[1]) \/ handle_set_bpf(rb[1])
  PROVE  /\ rb[1].type \in {"link", "set_bpf"}
         /\ \/ named(rb[1]) \in Slots /\ AttachHandled(rb[1], named(rb[1]))
            \/ rb[1].type = "link" /\ rb[1].prog \notin DOMAIN bpf_fd_map /\ UNCHANGED <<daemon_vars, spoilt>>
<1>1. CASE bpftime_attach_perf_to_bpf_fd_server(rb[1])
  <2>1. rb[1].type = "link" /\ UNCHANGED pid_fd_to_id_map
    BY <1>1, Zenon DEF bpftime_attach_perf_to_bpf_fd_server
  <2>2. CASE rb[1].prog \in DOMAIN bpf_fd_map
    <3>1. bpftime_attach_perf_to_bpf_server(rb[1].fd, bpf_fd_map[rb[1].prog].kernel_id)
      BY <1>1, <2>2, Zenon DEF bpftime_attach_perf_to_bpf_fd_server, get_bpf_obj_id_from_pid_fd
    <3>2. bpf_fd_map[rb[1].prog].kernel_id \in Slots
      BY <2>2, Zenon DEF Types, TracerTypes
    <3> QED BY <2>1, <3>1, <3>2, AttachServer, Zenon DEF named, Named, AttachHandled
  <2>3. CASE rb[1].prog \notin DOMAIN bpf_fd_map
    BY <1>1, <2>1, <2>3, Zenon DEF bpftime_attach_perf_to_bpf_fd_server, daemon_vars
  <2> QED BY <2>2, <2>3, Zenon
<1>2. CASE handle_set_bpf(rb[1])
  <2>1. /\ rb[1].type = "set_bpf" /\ UNCHANGED pid_fd_to_id_map
        /\ bpftime_attach_perf_to_bpf_server(rb[1].fd, rb[1].prog)
    BY <1>2, Zenon DEF handle_set_bpf
  <2>2. rb[1].prog \in Slots
    BY <2>1, FirstEvent, EventFields, Zenon
  <2> QED BY <2>1, <2>2, AttachServer, Zenon DEF named, Named, AttachHandled
<1> QED BY <1>1, <1>2, Zenon

\* Handling an event keeps the types.
LEMMA TypesHandle ==
  ASSUME Types, handle_event
  PROVE  Types'
<1>1. /\ rb # <<>> /\ rb' = Tail(rb)
      /\ UNCHANGED <<kfd, kprogs, kmaps, kattached, perfs, attempts, bpf_fd_map, bpf_prog_insns_map, insns_of_thread,
                     bpf_progs_new_fd_args_map, ioctl_param_start>>
      /\ \/ bpftime_uprobe_create_server(rb[1])
         \/ bpftime_attach_perf_to_bpf_fd_server(rb[1]) \/ handle_set_bpf(rb[1])
         \/ bpftime_perf_event_enable_server(rb[1])
         \/ bpftime_close_server(rb[1])
  BY FirstEvent, Zenon DEF handle_event, kernel_vars
<1>2. KernelTypes' /\ Known'
  BY <1>1, Zenon DEF Types, KernelTypes, Known
<1>3. TracerTypes'
  BY <1>1, FirstEvent, Zenon DEF Types, TracerTypes
<1>4. TableOk(handlers') /\ UprobesOk(handlers', pid_fd_to_id_map') /\ FdsOk(open_fds') /\ up' \in BOOLEAN /\ spoilt' \subseteq Mishaps
  <2>0. DaemonTypes /\ FdsOk(open_fds)
    BY Zenon DEF Types, DaemonTypes, FdsOk
  <2>1. CASE bpftime_uprobe_create_server(rb[1])
    BY <1>1, <2>0, <2>1, UprobeStored, Zenon DEF DaemonTypes, Mishaps
  <2>2. CASE bpftime_attach_perf_to_bpf_fd_server(rb[1]) \/ handle_set_bpf(rb[1])
    <3>1. CASE UNCHANGED <<daemon_vars, spoilt>>
      BY <2>0, <3>1, Zenon DEF DaemonTypes, daemon_vars
    <3>2. CASE named(rb[1]) \in Slots /\ AttachHandled(rb[1], named(rb[1]))
      <4>1. CASE UNCHANGED <<handlers, open_fds, up, spoilt>>
        BY <2>0, <3>2, <4>1, Zenon DEF AttachHandled, DaemonTypes
      <4>2. CASE Attached(rb[1].fd, named(rb[1]))
        <5>1. UprobesOk(handlers', pid_fd_to_id_map)
          BY <4>2, AttachedUprobes, Zenon
        <5>2. TableOk(handlers') /\ FdsOk(open_fds') /\ up' \in BOOLEAN /\ spoilt' \subseteq spoilt \cup {"collision", "full"}
          BY <4>2, Zenon DEF Attached
        <5> QED BY <2>0, <3>2, <5>1, <5>2, Zenon DEF AttachHandled, DaemonTypes, Mishaps
      <4> QED BY <3>2, <4>1, <4>2, Zenon DEF AttachHandled
    <3> QED BY <1>1, <2>2, <3>1, <3>2, AttachEvents, Zenon
  <2>3. CASE bpftime_perf_event_enable_server(rb[1])
    BY <1>1, <2>0, <2>3, UprobeSwitched, Zenon DEF DaemonTypes
  <2>4. CASE bpftime_close_server(rb[1])
    BY <1>1, <2>0, <2>4, UprobeClosed, Zenon DEF DaemonTypes
  <2> QED BY <1>1, <2>1, <2>2, <2>3, <2>4, Zenon
<1>5. DaemonTypes'
  BY <1>1, <1>4, Zenon DEF DaemonTypes, FdsOk
<1> QED BY <1>2, <1>3, <1>5, Zenon DEF Types

\* Every step keeps the types.
LEMMA TypesNext ==
  ASSUME Types, [Next]_vars
  PROVE  Types'
<1>1. CASE application
  BY <1>1, TypesMapCreate, TypesProgLoad, TypesRejected, TypesPerfOpen, TypesLinkCreate, TypesIoctl, TypesClose, Zenon DEF application
<1>2. CASE handle_event
  BY <1>2, TypesHandle, Zenon
<1>3. CASE UNCHANGED vars
  <2>1. KernelTypes' /\ TracerTypes' /\ Known'
    <3>1. KernelTypes'
      BY <1>3, Zenon DEF vars, kernel_vars, Types, KernelTypes
    <3>2. TracerTypes'
      BY <1>3, Zenon DEF vars, kernel_vars, tracer_vars, Types, TracerTypes
    <3>3. Known'
      BY <1>3, Zenon DEF vars, kernel_vars, tracer_vars, Types, Known
    <3> QED BY <3>1, <3>2, <3>3, Zenon
  <2>2. DaemonTypes'
    BY <1>3, Zenon DEF vars, kernel_vars, daemon_vars, Types, DaemonTypes
  <2> QED BY <2>1, <2>2, Zenon DEF Types
<1> QED BY <1>1, <1>2, <1>3 DEF Next

\* The types hold at the start.
LEMMA TypesInit ==
  ASSUME Init
  PROVE  Types
<1>1. KernelTypes /\ Known
  BY DEF Init, KernelTypes, Known, closed, Object
<1>2. TracerTypes
  BY ConstantFacts DEF Init, TracerTypes, None
<1>3. DaemonTypes
  BY HandlersStored DEF Init, DaemonTypes, TableOk, UprobesOk, Table!unused_handler
<1> QED BY <1>1, <1>2, <1>3, Zenon DEF Types

-----------------------------------------------------------------------------
(* The code of the programs. *)

\* What has happened stays on record, and a system call does not touch the daemon.
LEMMA ApplicationStep ==
  ASSUME application
  PROVE  spoilt \subseteq spoilt' /\ UNCHANGED daemon_vars
<1>1. CASE \E n \in MapNames : map_create(n)
  BY <1>1, Zenon DEF map_create
<1>2. CASE \E m \in AppFds \cup {NoFd} : prog_load(m)
  BY <1>2, Zenon DEF prog_load
<1>3. CASE prog_load_rejected \/ perf_event_open \/ \E p, f \in AppFds : link_create(p, f)
  BY <1>3, Zenon DEF prog_load_rejected, perf_event_open, link_create
<1>4. ASSUME NEW p, NEW req, NEW data, traces_ioctl(p, req, data)
      PROVE  spoilt \subseteq spoilt' /\ UNCHANGED daemon_vars
  BY <1>4, Zenon DEF traces_ioctl
<1>5. CASE ioctl_elsewhere \/ \E p, f \in AppFds : ioctl_set_bpf(p, f)
  BY <1>4, <1>5, Zenon DEF ioctl_elsewhere, ioctl_set_bpf
<1>6. CASE \E p \in AppFds, on \in BOOLEAN : ioctl_enable(p, on)
  BY <1>4, <1>6, Zenon DEF ioctl_enable
<1>7. CASE \E f \in AppFds : close_fd(f)
  BY <1>7, Zenon DEF close_fd
<1> QED BY <1>1, <1>2, <1>3, <1>5, <1>6, <1>7, Zenon DEF application

\* Handling an event takes the first and changes nothing of the kernel and the tracer.
LEMMA EventStep ==
  ASSUME Types, handle_event
  PROVE  /\ spoilt \subseteq spoilt' /\ up
         /\ rb # <<>> /\ rb' = Tail(rb) /\ Head(rb) = rb[1]
         /\ UNCHANGED <<kfd, kprogs, kmaps, kattached, perfs, attempts, bpf_fd_map, bpf_prog_insns_map, insns_of_thread,
                        bpf_progs_new_fd_args_map, ioctl_param_start>>
<1>1. /\ rb # <<>> /\ rb' = Tail(rb) /\ Head(rb) = rb[1] /\ up
      /\ UNCHANGED <<kfd, kprogs, kmaps, kattached, perfs, attempts, bpf_fd_map, bpf_prog_insns_map, insns_of_thread,
                     bpf_progs_new_fd_args_map, ioctl_param_start>>
  BY FirstEvent, Zenon DEF handle_event, kernel_vars
<1>2. spoilt \subseteq spoilt'
  <2>1. CASE bpftime_uprobe_create_server(rb[1])
    BY <1>1, <2>1, UprobeStored, Zenon
  <2>2. CASE bpftime_attach_perf_to_bpf_fd_server(rb[1]) \/ handle_set_bpf(rb[1])
    BY <1>1, <2>2, AttachEvents, Zenon DEF AttachHandled, Attached
  <2>3. CASE bpftime_perf_event_enable_server(rb[1])
    BY <1>1, <2>3, UprobeSwitched, Zenon
  <2>4. CASE bpftime_close_server(rb[1])
    BY <1>1, <2>4, UprobeClosed, Zenon
  <2> QED BY <1>1, <2>1, <2>2, <2>3, <2>4, Zenon DEF handle_event
<1> QED BY <1>1, <1>2, Zenon

\* A program that an event puts into the table is made from the instructions under its id.
LEMMA StoredPrograms ==
  ASSUME Types, handle_event, NEW s \in Slots, handlers'[s].kind = "prog"
  PROVE  \/ handlers'[s] = handlers[s]
         \/ /\ s \in DOMAIN kprogs
            /\ handlers'[s] = bpf_prog_handler(bpf_prog_insns_map[s].code, relocated_map(bpf_prog_insns_map[s].map_fd))
            /\ kprogs[s].map # 0 => handlers'[kprogs[s].map].kind = "map"
<1>1. rb # <<>> /\ Head(rb) = rb[1]
  BY FirstEvent, Zenon DEF handle_event
<1>2. CASE bpftime_uprobe_create_server(rb[1])
  BY <1>1, <1>2, UprobeStored DEF Stored, bpf_perf_event_handler
<1>3. CASE bpftime_attach_perf_to_bpf_fd_server(rb[1]) \/ handle_set_bpf(rb[1])
  <2>1. CASE handlers' = handlers
    BY <2>1, Zenon
  <2>2. CASE Attached(rb[1].fd, named(rb[1]))
    <3>1. PICK cs, ms : Grown(handlers, cs, ms) /\ (handlers' = cs \/ Linked(cs, pid_fd_to_id_map[rb[1].fd], named(rb[1]), handlers'))
      BY <2>2, Zenon DEF Attached
    <3>2. KeptBy(handlers, cs, ms, pid_fd_to_id_map[rb[1].fd], named(rb[1]), handlers')
      BY <3>1, AttachedKeeps, Zenon
    <3>3. handlers'[s] = handlers[s] \/ (handlers'[s] = cs[s] /\ NewProgram(cs, s))
      BY <3>2, Zenon DEF KeptBy
    <3>4. CASE handlers'[s] = cs[s] /\ NewProgram(cs, s)
      <4>1. kprogs[s].map # 0 => kprogs[s].map \in Slots /\ cs[kprogs[s].map].kind = "map"
        BY <3>4, ConstantFacts DEF NewProgram, Types, KernelTypes
      <4> QED BY <3>2, <3>4, <4>1, Zenon DEF NewProgram, KeptBy
    <3> QED BY <3>3, <3>4, Zenon
  <2> QED BY <1>1, <1>3, <2>1, <2>2, AttachEvents, Zenon DEF AttachHandled, daemon_vars
<1>4. CASE bpftime_perf_event_enable_server(rb[1])
  BY <1>1, <1>4, UprobeSwitched, Zenon
<1>5. CASE bpftime_close_server(rb[1])
  BY <1>1, <1>5, UprobeClosed, Zenon DEF ClearedAt, Types, DaemonTypes, UprobesOk
<1> QED BY <1>1, <1>2, <1>3, <1>4, <1>5, Zenon DEF handle_event

\* Every step keeps instructions under the id of their program.
LEMMA CapturedNext ==
  ASSUME Types, Captured, Next
  PROVE  Captured'
<1> SUFFICES ASSUME kept({"rejected"})'
             PROVE  /\ insns_of_thread' = None
                    /\ \A i \in DOMAIN kprogs' : bpf_prog_insns_map'[i].code = i /\ bpf_prog_insns_map'[i].map_fd = kprogs'[i].fd
                    /\ \A s \in Slots : handlers'[s].kind = "prog" => handlers'[s].code = s
  BY Zenon DEF Captured
<1>1. kept({"rejected"})
  BY ApplicationStep, EventStep, Zenon DEF kept, Next
<1>2. /\ insns_of_thread = None
      /\ \A i \in DOMAIN kprogs : bpf_prog_insns_map[i].code = i /\ bpf_prog_insns_map[i].map_fd = kprogs[i].fd
      /\ \A s \in Slots : handlers[s].kind = "prog" => handlers[s].code = s
  BY <1>1, Zenon DEF Captured
<1>3. CASE application
  <2>1. UNCHANGED handlers
    BY <1>3, ApplicationStep, Zenon DEF daemon_vars
  <2>2. CASE \E m \in AppFds \cup {NoFd} : prog_load(m)
    <3>1. PICK m, id, x :
            /\ m \in AppFds \cup {NoFd} /\ id \in ProgIds /\ kprogs' = put(kprogs, id, [fd |-> m, map |-> x, moved |-> FALSE])
            /\ bpf_prog_insns_map' = put(bpf_prog_insns_map, id, [code |-> id, map_fd |-> m])
            /\ insns_of_thread' = None
      BY <1>2, <2>2, Zenon DEF prog_load, insns_stored, insns_left, next_id
    <3>2. /\ IsPut(kprogs, id, [fd |-> m, map |-> x, moved |-> FALSE], kprogs')
          /\ IsPut(bpf_prog_insns_map, id, [code |-> id, map_fd |-> m], bpf_prog_insns_map')
      BY <3>1, PutIs, Zenon
    <3>3. DOMAIN bpf_prog_insns_map = DOMAIN kprogs
      BY Zenon DEF Types, TracerTypes
    <3>4. \A i \in DOMAIN kprogs' : bpf_prog_insns_map'[i].code = i /\ bpf_prog_insns_map'[i].map_fd = kprogs'[i].fd
      BY <1>2, <3>2, <3>3 DEF IsPut
    <3> QED BY <1>2, <2>1, <3>1, <3>4, Zenon
  <2>3. CASE \E f \in AppFds : close_fd(f)
    <3>1. PICK f \in AppFds : close_fd(f)
      BY <2>3, Zenon
    <3>2. /\ kprogs' = [i \in DOMAIN kprogs |-> [kprogs[i] EXCEPT !.moved = @ \/ kprogs[i].fd = f]]
          /\ UNCHANGED <<bpf_prog_insns_map, insns_of_thread>>
      BY <3>1, Zenon DEF close_fd
    <3>3. DOMAIN kprogs' = DOMAIN kprogs /\ \A i \in DOMAIN kprogs : kprogs'[i].fd = kprogs[i].fd
      BY <3>2, Zenon DEF Types, KernelTypes
    <3> QED BY <1>2, <2>1, <3>2, <3>3
  <2>4. CASE prog_load_rejected
    BY <2>4, Zenon DEF prog_load_rejected, kept
  <2>5. CASE ~((\E m \in AppFds \cup {NoFd} : prog_load(m)) \/ prog_load_rejected \/ \E f \in AppFds : close_fd(f))
    <3>1. UNCHANGED <<kprogs, bpf_prog_insns_map, insns_of_thread>>
      BY <1>3, <2>5, Zenon DEF application, map_create, perf_event_open, link_create, ioctl_elsewhere, ioctl_set_bpf, ioctl_enable,
                        traces_ioctl, kernel_vars
    <3> QED BY <1>2, <2>1, <3>1, Zenon
  <2> QED BY <2>2, <2>3, <2>4, <2>5, Zenon
<1>4. CASE handle_event
  <2>1. UNCHANGED <<kprogs, bpf_prog_insns_map, insns_of_thread>>
    BY <1>4, Zenon DEF handle_event, kernel_vars
  <2>2. ASSUME NEW s \in Slots, handlers'[s].kind = "prog" PROVE handlers'[s].code = s
    <3>1. CASE handlers'[s] = handlers[s]
      BY <1>2, <2>2, <3>1, Zenon
    <3>2. CASE s \in DOMAIN kprogs /\ \E x : handlers'[s] = bpf_prog_handler(bpf_prog_insns_map[s].code, x)
      BY <1>2, <3>2 DEF bpf_prog_handler
    <3> QED BY <1>4, <2>2, <3>1, <3>2, StoredPrograms, Zenon
  <2> QED BY <1>2, <2>1, <2>2, Zenon
<1> QED BY <1>3, <1>4, Zenon DEF Next

\* "Program is registered in bpftime's shared memory runtime" (daemon/README.md): whatever the application
\* loads, attaches and closes, and however late the events are handled, a program of the table runs the code
\* the kernel loaded under its id, unless the kernel rejected a program before.
THEOREM ProgramsRunTheirCode == Spec => []CodeIsCaptured
<1>1. Init => Types /\ Captured
  BY TypesInit DEF Init, Captured, Table!unused_handler
<1>2. Types /\ Captured /\ [Next]_vars => Types' /\ Captured'
  <2> SUFFICES ASSUME Types, Captured, [Next]_vars PROVE Types' /\ Captured'
    BY Zenon
  <2>1. Types'
    BY TypesNext, Zenon
  <2>2. CASE Next
    BY <2>1, <2>2, CapturedNext, Zenon
  <2>3. CASE UNCHANGED vars
    BY <2>1, <2>3, Zenon DEF Captured, kept, vars, kernel_vars, tracer_vars, daemon_vars
  <2> QED BY <2>2, <2>3, Zenon
<1>3. Captured => CodeIsCaptured
  BY Zenon DEF Captured, CodeIsCaptured, Table!is_prog_fd
<1> QED BY <1>1, <1>2, <1>3, PTL DEF Spec

-----------------------------------------------------------------------------
(* Replaying the events: the system calls. *)

\* What the waiting events name stays, unless a descriptor of theirs was reused; what was attached stays.
NamesKept ==
  \A i \in 1..Len(rb) :
    rb[i].type = "link" /\ "reused" \notin spoilt' /\ rb[i].prog \in DOMAIN bpf_fd_map =>
      rb[i].prog \in DOMAIN bpf_fd_map' /\ bpf_fd_map'[rb[i].prog] = bpf_fd_map[rb[i].prog]
AttachesKept == \A n \in DOMAIN kattached : n \in DOMAIN kattached' /\ kattached'[n] = kattached[n]

\* A descriptor that is given out again under a waiting event is noted as reused.
LEMMA NamesPut ==
  ASSUME NEW f, NEW x, IsPut(bpf_fd_map, f, x, bpf_fd_map'), reused_if(f) \subseteq spoilt'
  PROVE  NamesKept
<1> SUFFICES ASSUME NEW i \in 1..Len(rb), rb[i].type = "link", "reused" \notin spoilt', rb[i].prog \in DOMAIN bpf_fd_map
             PROVE  rb[i].prog \in DOMAIN bpf_fd_map' /\ bpf_fd_map'[rb[i].prog] = bpf_fd_map[rb[i].prog]
  BY Zenon DEF NamesKept
<1>1. rb[i].prog # f
  BY Zenon DEF reused_if
<1> QED BY <1>1, Zenon DEF IsPut

\* A waiting event stays one that its view expects.
LEMMA EventKept ==
  ASSUME NEW i \in 1..Len(rb), NEW view, EventOk(view, rb[i], bpf_fd_map, kattached, spoilt),
         NamesKept, AttachesKept, spoilt \subseteq spoilt'
  PROVE  EventOk(view, rb[i], bpf_fd_map', kattached', spoilt')
BY Zenon DEF EventOk, Named, NamesKept, AttachesKept

\* Links stay those of the kernel while it attaches more.
LEMMA JoinedKept ==
  ASSUME NEW hs, Joined(hs, kattached, spoilt), AttachesKept, spoilt \subseteq spoilt'
  PROVE  Joined(hs, kattached', spoilt')
BY Zenon DEF Joined, AttachesKept

\* A view of the daemon stays one when more mishaps happen.
LEMMA ViewKept ==
  ASSUME NEW view, NEW hs, NEW ids, DaemonView(view, hs, ids, spoilt), spoilt \subseteq spoilt'
  PROVE  DaemonView(view, hs, ids, spoilt')
BY Zenon DEF DaemonView

\* A system call that neither sends an event nor changes the uprobes.
LEMMA ReplayStays ==
  ASSUME Types, ReplayInv, UNCHANGED <<rb, daemon_vars>>, KernelView' = KernelView, ioctl_param_start' = ioctl_param_start,
         spoilt \subseteq spoilt', NamesKept, AttachesKept
  PROVE  ReplayInv'
<1> SUFFICES ASSUME "lost" \notin spoilt'
             PROVE  ioctl_param_start' = None /\ Joined(handlers', kattached', spoilt') /\ \E v : Replay(v)'
  BY Zenon DEF ReplayInv
<1>1. UNCHANGED <<handlers, pid_fd_to_id_map>> /\ rb' = rb
  BY Zenon DEF daemon_vars
<1>2. ioctl_param_start = None /\ Joined(handlers, kattached, spoilt)
  BY Zenon DEF ReplayInv
<1>3. PICK v : Replay(v)
  BY Zenon DEF ReplayInv
<1>4. DaemonView(v[1], handlers', pid_fd_to_id_map', spoilt')
  BY <1>1, <1>3, ViewKept, Zenon DEF Replay
<1>5. \A i \in 1..Len(rb) : EventOk(v[i], rb[i], bpf_fd_map', kattached', spoilt')
  BY <1>3, EventKept, Zenon DEF Replay
<1>6. Replay(v)'
  BY <1>1, <1>3, <1>4, <1>5, Zenon DEF Replay
<1>7. Joined(handlers', kattached', spoilt')
  BY <1>1, <1>2, JoinedKept, Zenon
<1> QED BY <1>2, <1>6, <1>7, Zenon

\* A system call that sends event e, which tells what it changed.
LEMMA ReplaySends ==
  ASSUME Types, Types', ReplayInv, NEW e, rb' = Append(rb, e), UNCHANGED daemon_vars, KernelView' = told(KernelView, e),
         ioctl_param_start' = None, spoilt \subseteq spoilt', NamesKept, AttachesKept,
         "lost" \notin spoilt => EventOk(KernelView, e, bpf_fd_map', kattached', spoilt')
  PROVE  ReplayInv'
<1> SUFFICES ASSUME "lost" \notin spoilt'
             PROVE  Joined(handlers', kattached', spoilt') /\ \E v : Replay(v)'
  BY Zenon DEF ReplayInv
<1>1. UNCHANGED <<handlers, pid_fd_to_id_map>>
  BY Zenon DEF daemon_vars
<1>2. "lost" \notin spoilt /\ Joined(handlers, kattached, spoilt)
  BY Zenon DEF ReplayInv
<1>3. PICK v : Replay(v)
  BY <1>2, Zenon DEF ReplayInv
<1> DEFINE n == Len(rb)
<1>w. PICK w : w = [i \in 1..(n + 2) |-> IF i = n + 2 THEN KernelView' ELSE v[i]]
  BY Zenon
<1>4. /\ n \in Nat /\ Len(rb') = n + 1 /\ rb'[n + 1] = e /\ \A i \in 1..n : rb'[i] = rb[i]
  BY DEF Types, TracerTypes
<1>5. KernelView' \in View
  <2>1. \A f \in AppFds : kfd'[f].id \in Nat /\ kfd'[f].on \in BOOLEAN
    BY Zenon DEF Types, KernelTypes, Object
  <2> QED BY <2>1, Zenon DEF KernelView, View, NotOpen
<1>6. /\ v \in [1..(n + 1) -> View] /\ DaemonView(v[1], handlers, pid_fd_to_id_map, spoilt) /\ v[n + 1] = KernelView
      /\ \A i \in 1..n : v[i + 1] = told(v[i], rb[i]) /\ EventOk(v[i], rb[i], bpf_fd_map, kattached, spoilt)
  BY <1>3, Zenon DEF Replay
<1> HIDE DEF n
<1>7. /\ w \in [1..(n + 2) -> View] /\ w[n + 2] = KernelView'
      /\ \A i \in 1..(n + 1) : w[i] = v[i]
  BY <1>4, <1>5, <1>6, <1>w
<1>8. DaemonView(w[1], handlers', pid_fd_to_id_map', spoilt')
  <2>1. w[1] = v[1]
    BY <1>4, <1>7
  <2> QED BY <1>1, <1>6, <2>1, ViewKept, Zenon
<1>9. ASSUME NEW i \in 1..(n + 1)
      PROVE  w[i + 1] = told(w[i], rb'[i]) /\ EventOk(w[i], rb'[i], bpf_fd_map', kattached', spoilt')
  <2>1. CASE i \in 1..n
    <3>1. w[i] = v[i] /\ w[i + 1] = v[i + 1] /\ rb'[i] = rb[i]
      BY <1>4, <1>7, <2>1
    <3>2. EventOk(v[i], rb[i], bpf_fd_map', kattached', spoilt')
      BY <1>6, <2>1, EventKept, Zenon DEF n
    <3> QED BY <1>6, <2>1, <3>1, <3>2, Zenon
  <2>2. CASE i = n + 1
    <3>1. w[i] = KernelView /\ w[i + 1] = KernelView' /\ rb'[i] = e
      BY <1>4, <1>6, <1>7, <2>2
    <3> QED BY <1>2, <3>1, Zenon
  <2> QED BY <1>4, <2>1, <2>2
<1>10. Len(rb') + 1 = n + 2
  BY <1>4
<1>11. Replay(w)'
  BY <1>4, <1>7, <1>8, <1>9, <1>10, Zenon DEF Replay
<1>12. Joined(handlers', kattached', spoilt')
  BY <1>1, <1>2, JoinedKept
<1> QED BY <1>11, <1>12, Zenon

\* What an opened descriptor changes of the view.
LEMMA ViewOpened ==
  ASSUME KernelTypes, NEW f \in AppFds, NEW kind, NEW id, Opened(f, kind, id)
  PROVE  /\ kind # "perf" => KernelView' = KernelView
         /\ kind = "perf" => KernelView' = [KernelView EXCEPT ![f] = [perf |-> id, on |-> FALSE]]
         /\ KernelView[f].perf = 0
<1>1. KernelView[f] = NotOpen
  BY Zenon DEF KernelView, Opened
<1>2. \A g \in AppFds : g # f => KernelView'[g] = KernelView[g]
  BY Zenon DEF KernelView, Opened
<1>3. kind # "perf" => KernelView'[f] = NotOpen
  BY Zenon DEF KernelView, Opened
<1>4. kind = "perf" => KernelView'[f] = [perf |-> id, on |-> FALSE]
  BY Zenon DEF KernelView, Opened
<1>5. KernelView = [g \in AppFds |-> KernelView[g]] /\ KernelView' = [g \in AppFds |-> KernelView'[g]]
  BY Zenon DEF KernelView
<1>6. KernelView[f].perf = 0
  BY <1>1 DEF NotOpen
<1> HIDE DEF KernelView
<1> QED BY <1>1, <1>2, <1>3, <1>4, <1>5, <1>6, Zenon

\* Creating a map sends no event and changes no uprobe.
LEMMA ReplayMapCreate ==
  ASSUME Types, ReplayInv, NEW n \in MapNames, map_create(n)
  PROVE  ReplayInv'
<1>1. PICK f \in AppFds, id \in next_id(MapIds, kmaps) :
        /\ returns(f, "map", id)
        /\ bpf_fd_map' = put(bpf_fd_map, f, [type |-> "map", kernel_id |-> id])
        /\ spoilt' = spoilt \cup reused_if(f)
  BY Zenon DEF map_create, set_bpf_fd_data
<1>2. UNCHANGED <<kattached, rb, daemon_vars, ioctl_param_start>>
  BY Zenon DEF map_create
<1>3. id \in Nat
  BY ConstantFacts, Zenon DEF next_id
<1>4. Opened(f, "map", id)
  BY <1>1, <1>3, ReturnsOpens, Zenon DEF Types
<1>5. KernelView' = KernelView
  BY <1>4, ViewOpened DEF Types
<1>6. NamesKept
  BY <1>1, PutIs, NamesPut, Zenon
<1>7. AttachesKept
  BY <1>2, Zenon DEF AttachesKept
<1> QED BY <1>1, <1>2, <1>5, <1>6, <1>7, ReplayStays, Zenon

\* Nor does loading a program.
LEMMA ReplayProgLoad ==
  ASSUME Types, ReplayInv, NEW m \in AppFds \cup {NoFd}, prog_load(m)
  PROVE  ReplayInv'
<1>1. PICK f \in AppFds, id \in next_id(ProgIds, kprogs) :
        /\ returns(f, "prog", id)
        /\ bpf_fd_map' = put(bpf_fd_map, f, [type |-> "prog", kernel_id |-> id])
        /\ spoilt' = spoilt \cup reused_if(f)
  BY Zenon DEF prog_load, set_bpf_fd_data
<1>2. UNCHANGED <<kattached, rb, daemon_vars, ioctl_param_start>>
  BY Zenon DEF prog_load
<1>3. id \in Nat
  BY ConstantFacts, Zenon DEF next_id
<1>4. Opened(f, "prog", id)
  BY <1>1, <1>3, ReturnsOpens, Zenon DEF Types
<1>5. KernelView' = KernelView
  BY <1>4, ViewOpened DEF Types
<1>6. NamesKept
  BY <1>1, PutIs, NamesPut, Zenon
<1>7. AttachesKept
  BY <1>2, Zenon DEF AttachesKept
<1> QED BY <1>1, <1>2, <1>5, <1>6, <1>7, ReplayStays, Zenon

\* Nor does a rejected program.
LEMMA ReplayRejected ==
  ASSUME Types, ReplayInv, prog_load_rejected
  PROVE  ReplayInv'
<1>1. UNCHANGED <<kfd, kattached, rb, daemon_vars, ioctl_param_start, bpf_fd_map>> /\ spoilt \subseteq spoilt'
  BY Zenon DEF prog_load_rejected, kernel_vars
<1>2. KernelView' = KernelView /\ NamesKept /\ AttachesKept
  BY <1>1, Zenon DEF KernelView, NamesKept, AttachesKept
<1> QED BY <1>1, <1>2, ReplayStays, Zenon

\* Under way are events enough for what happened, unless one was lost.
LEMMA Submitted ==
  ASSUME NEW e, submits(e), lost_if(TRUE) \subseteq spoilt', "lost" \notin spoilt'
  PROVE  rb' = Append(rb, e)
BY DEF submits, lost_if

\* The event of a new uprobe leads from the view before the call to the one after it.
LEMMA ReplayPerfOpen ==
  ASSUME Types, ReplayInv, perf_event_open
  PROVE  ReplayInv'
<1> SUFFICES ASSUME "lost" \notin spoilt' PROVE ReplayInv'
  BY Zenon DEF ReplayInv
<1> DEFINE e(f) == [type |-> "perf", fd |-> f, perf |-> perfs + 1]
<1>1. PICK f \in AppFds :
        /\ returns(f, "perf", perfs + 1)
        /\ bpf_fd_map' = put(bpf_fd_map, f, [type |-> "perf", kernel_id |-> 0])
        /\ submits(e(f))
        /\ spoilt' = spoilt \cup reused_if(f) \cup lost_if(TRUE)
  BY Zenon DEF perf_event_open, set_bpf_fd_data
<1>2. UNCHANGED <<kattached, daemon_vars, ioctl_param_start>>
  BY Zenon DEF perf_event_open
<1>3. rb' = Append(rb, e(f))
  BY <1>1, Submitted, Zenon
<1>4. Opened(f, "perf", perfs + 1)
  <2>1. KernelTypes /\ perfs \in Nat
    BY Zenon DEF Types, KernelTypes
  <2>2. perfs + 1 \in Nat
    BY <2>1
  <2> QED BY <1>1, <2>1, <2>2, ReturnsOpens, Zenon
<1>5. KernelView' = [KernelView EXCEPT ![f] = [perf |-> perfs + 1, on |-> FALSE]] /\ KernelView[f].perf = 0
  BY <1>4, ViewOpened, Zenon DEF Types
<1>6. KernelView' = told(KernelView, e(f))
  BY <1>5, Zenon DEF told
<1>7. NamesKept
  BY <1>1, PutIs, NamesPut, Zenon
<1>8. AttachesKept
  BY <1>2, Zenon DEF AttachesKept
<1>9. EventOk(KernelView, e(f), bpf_fd_map', kattached', spoilt')
  BY <1>5, Zenon DEF EventOk
<1>10. Types' /\ ioctl_param_start' = None
  BY <1>1, <1>2, TypesPerfOpen, Zenon DEF ReplayInv
<1> HIDE DEF e
<1> QED BY <1>1, <1>2, <1>3, <1>6, <1>7, <1>8, <1>9, <1>10, ReplaySends, Zenon

\* The event of a new link finds the uprobe open and the attach made.
LEMMA ReplayLinkCreate ==
  ASSUME Types, ReplayInv, NEW p \in AppFds, NEW f \in AppFds, link_create(p, f)
  PROVE  ReplayInv'
<1> SUFFICES ASSUME "lost" \notin spoilt' PROVE ReplayInv'
  BY Zenon DEF ReplayInv
<1> DEFINE e == [type |-> "link", fd |-> p, prog |-> f]
<1>1. PICK l \in AppFds :
        /\ returns(l, "link", kfd[f].id)
        /\ bpf_fd_map' = put(bpf_fd_map, l, [type |-> "others", kernel_id |-> bpf_progs_new_fd_args_map])
        /\ submits(e)
        /\ spoilt' = spoilt \cup reused_if(l) \cup lost_if(TRUE)
  BY Zenon DEF link_create, set_bpf_fd_data
<1>2. /\ UNCHANGED <<daemon_vars, ioctl_param_start>>
      /\ kfd[p].kind = "perf" /\ kfd[f].kind = "prog" /\ kfd[p].id \notin DOMAIN kattached
      /\ kattached' = put(kattached, kfd[p].id, kfd[f].id)
  BY Zenon DEF link_create, attachable
<1>3. rb' = Append(rb, e)
  BY <1>1, Submitted, Zenon
<1>4. Opened(l, "link", kfd[f].id) /\ kfd[p].id # 0
  <2>1. KernelTypes /\ kfd[f] \in Object /\ perfs \in Nat /\ kfd[p].id \in 1..perfs
    BY <1>2, Zenon DEF Types, KernelTypes
  <2>2. kfd[f].id \in Nat
    BY <2>1 DEF Object
  <2>3. kfd[p].id # 0
    BY <2>1
  <2> QED BY <1>1, <2>1, <2>2, <2>3, ReturnsOpens, Zenon
<1>5. KernelView' = KernelView
  BY <1>4, ViewOpened DEF Types
<1>6. told(KernelView, e) = KernelView
  BY Zenon DEF told
<1>7. IsPut(bpf_fd_map, l, [type |-> "others", kernel_id |-> bpf_progs_new_fd_args_map], bpf_fd_map')
  BY <1>1, PutIs, Zenon
<1>8. NamesKept
  BY <1>1, <1>7, NamesPut, Zenon
<1>9. IsPut(kattached, kfd[p].id, kfd[f].id, kattached')
  BY <1>2, PutIs, Zenon
<1>10. AttachesKept
  BY <1>2, <1>9, Zenon DEF AttachesKept, IsPut
<1>11. f # l /\ bpf_fd_map[f] = [type |-> "prog", kernel_id |-> kfd[f].id] /\ f \in DOMAIN bpf_fd_map
  BY <1>2, <1>4, Zenon DEF Types, Known, Opened
<1>12. f \in DOMAIN bpf_fd_map' /\ bpf_fd_map'[f].kernel_id = kfd[f].id
  BY <1>7, <1>11 DEF IsPut
<1>13. KernelView[p].perf = kfd[p].id
  BY <1>2, Zenon DEF KernelView
<1>14. EventOk(KernelView, e, bpf_fd_map', kattached', spoilt')
  BY <1>4, <1>9, <1>12, <1>13, Zenon DEF EventOk, Named, IsPut
<1>15. Types' /\ ioctl_param_start' = None
  BY <1>1, <1>2, TypesLinkCreate, Zenon DEF ReplayInv
<1> HIDE DEF e
<1> QED BY <1>1, <1>2, <1>3, <1>5, <1>6, <1>8, <1>10, <1>14, <1>15, ReplaySends, Zenon

\* The event of an ioctl on a uprobe, if none was lost.
LEMMA IoctlSends ==
  ASSUME Types, NEW p \in AppFds, NEW req, NEW data, kfd[p].kind = "perf", traces_ioctl(p, req, data), "lost" \notin spoilt'
  PROVE  /\ rb' = Append(rb, [type |-> req, fd |-> p, prog |-> IF req = "set_bpf" THEN prog_id_at(data) ELSE 0])
         /\ ioctl_param_start' = None /\ spoilt \subseteq spoilt' /\ UNCHANGED <<bpf_fd_map, daemon_vars>>
         /\ req = "set_bpf" /\ "refused" \notin spoilt' => attachable(p, data)
<1> DEFINE args == IF p \in DOMAIN bpf_fd_map THEN <<p, req, data>> ELSE ioctl_param_start
<1>1. p \in DOMAIN bpf_fd_map
  BY Zenon DEF Types, Known
<1>2. /\ rb' = IF args = None \/ ~room THEN rb
               ELSE Append(rb, [type |-> args[2], fd |-> args[1], prog |-> IF args[2] = "set_bpf" THEN prog_id_at(args[3]) ELSE 0])
      /\ ioctl_param_start' = IF room THEN None ELSE args
      /\ spoilt' = spoilt \cup lost_if(args # None)
                     \cup (IF req = "set_bpf" /\ ~attachable(p, data) THEN {"refused"} ELSE {})
      /\ UNCHANGED <<bpf_fd_map, daemon_vars>>
  BY Zenon DEF traces_ioctl
<1>3. args = <<p, req, data>> /\ args[1] = p /\ args[2] = req /\ args[3] = data /\ args # None
  BY <1>1, Zenon DEF None
<1> HIDE DEF args
<1>4. room
  BY <1>2, <1>3, Zenon DEF lost_if
<1>5. spoilt \subseteq spoilt' /\ (req = "set_bpf" /\ "refused" \notin spoilt' => attachable(p, data))
  BY <1>2, Zenon
<1>6. rb' = Append(rb, [type |-> args[2], fd |-> args[1], prog |-> IF args[2] = "set_bpf" THEN prog_id_at(args[3]) ELSE 0])
  BY <1>2, <1>3, <1>4, Zenon
<1>7. rb' = Append(rb, [type |-> req, fd |-> p, prog |-> IF req = "set_bpf" THEN prog_id_at(data) ELSE 0])
  BY <1>3, <1>6, Zenon
<1> QED BY <1>2, <1>4, <1>5, <1>7, Zenon

\* So does the event of PERF_EVENT_IOC_SET_BPF.
LEMMA ReplaySetBpf ==
  ASSUME Types, ReplayInv, NEW p \in AppFds, NEW f \in AppFds, ioctl_set_bpf(p, f)
  PROVE  ReplayInv'
<1> SUFFICES ASSUME "lost" \notin spoilt' PROVE ReplayInv'
  BY Zenon DEF ReplayInv
<1> DEFINE e == [type |-> "set_bpf", fd |-> p, prog |-> prog_id_at(f)]
<1>1. /\ kfd[p].kind = "perf" /\ traces_ioctl(p, "set_bpf", f) /\ UNCHANGED kfd
      /\ kattached' = IF attachable(p, f) THEN put(kattached, kfd[p].id, kfd[f].id) ELSE kattached
  BY Zenon DEF ioctl_set_bpf
<1>2. /\ rb' = Append(rb, e)
      /\ ioctl_param_start' = None /\ spoilt \subseteq spoilt' /\ UNCHANGED <<bpf_fd_map, daemon_vars>>
      /\ "refused" \notin spoilt' => attachable(p, f)
  BY <1>1, IoctlSends, Zenon
<1>3. KernelView' = told(KernelView, e)
  BY <1>1, Zenon DEF KernelView, told
<1>4. NamesKept
  BY <1>2, Zenon DEF NamesKept
<1>5. IF attachable(p, f) THEN IsPut(kattached, kfd[p].id, kfd[f].id, kattached') ELSE kattached' = kattached
  BY <1>1, PutIs, Zenon
<1>6. AttachesKept
  BY <1>5, Zenon DEF AttachesKept, IsPut, attachable
<1>7. KernelView[p].perf = kfd[p].id /\ kfd[p].id # 0
  <2>1. kfd[p].id \in 1..perfs /\ perfs \in Nat
    BY <1>1, Zenon DEF Types, KernelTypes
  <2>2. kfd[p].id # 0
    BY <2>1
  <2> QED BY <1>1, <2>2, Zenon DEF KernelView
<1>8. ASSUME attachable(p, f)
      PROVE  prog_id_at(f) = kfd[f].id /\ kfd[p].id \in DOMAIN kattached' /\ kattached'[kfd[p].id] = kfd[f].id
  <2>1. kfd[f].kind = "prog"
    BY <1>8, Zenon DEF attachable
  <2>2. f \in DOMAIN bpf_fd_map /\ bpf_fd_map[f] = [type |-> "prog", kernel_id |-> kfd[f].id]
    BY <2>1, Zenon DEF Types, Known
  <2>3. prog_id_at(f) = kfd[f].id
    <3>1. bpf_fd_map[f].kernel_id = kfd[f].id
      BY <2>2
    <3> QED BY <2>2, <3>1, Zenon DEF prog_id_at
  <2> QED BY <1>5, <1>8, <2>3, Zenon DEF IsPut
<1>9. EventOk(KernelView, e, bpf_fd_map', kattached', spoilt')
  BY <1>2, <1>7, <1>8, Zenon DEF EventOk, Named
<1>10. Types'
  BY TypesIoctl
<1> HIDE DEF e
<1> QED BY <1>2, <1>3, <1>4, <1>6, <1>9, <1>10, ReplaySends, Zenon

\* The event of an enable or disable leads to the view after the call.
LEMMA ReplayEnable ==
  ASSUME Types, ReplayInv, NEW p \in AppFds, NEW on \in BOOLEAN, ioctl_enable(p, on)
  PROVE  ReplayInv'
<1> SUFFICES ASSUME "lost" \notin spoilt' PROVE ReplayInv'
  BY Zenon DEF ReplayInv
<1> DEFINE req == IF on THEN "enable" ELSE "disable"
           e == [type |-> req, fd |-> p, prog |-> 0]
<1>1. kfd[p].kind = "perf" /\ traces_ioctl(p, req, p) /\ kfd' = [kfd EXCEPT ![p].on = on] /\ UNCHANGED kattached
  BY Zenon DEF ioctl_enable
<1>2. /\ rb' = Append(rb, [type |-> req, fd |-> p, prog |-> IF req = "set_bpf" THEN prog_id_at(p) ELSE 0])
      /\ ioctl_param_start' = None /\ spoilt \subseteq spoilt' /\ UNCHANGED <<bpf_fd_map, daemon_vars>>
  <2> HIDE DEF req
  <2> QED BY <1>1, IoctlSends, Zenon
<1>3. rb' = Append(rb, e)
  BY <1>2, Zenon
<1>4. KernelView' = told(KernelView, e)
  <2>1. /\ KernelView[p] = [perf |-> kfd[p].id, on |-> kfd[p].on] /\ KernelView'[p] = [perf |-> kfd[p].id, on |-> on]
    BY <1>1, Zenon DEF KernelView, Types, KernelTypes, Object
  <2>2. \A g \in AppFds : g # p => KernelView'[g] = KernelView[g]
    BY <1>1, Zenon DEF KernelView, Types, KernelTypes
  <2>3. KernelView = [g \in AppFds |-> KernelView[g]] /\ KernelView' = [g \in AppFds |-> KernelView'[g]]
    BY Zenon DEF KernelView
  <2> HIDE DEF KernelView
  <2>4. told(KernelView, e) = [KernelView EXCEPT ![p] = [perf |-> KernelView[p].perf, on |-> on]]
    BY Zenon DEF told
  <2>5. KernelView[p].perf = kfd[p].id
    BY <2>1
  <2> QED BY <2>1, <2>2, <2>3, <2>4, <2>5
<1>5. NamesKept /\ AttachesKept
  BY <1>1, <1>2, Zenon DEF NamesKept, AttachesKept
<1>6. EventOk(KernelView, e, bpf_fd_map', kattached', spoilt')
  BY Zenon DEF EventOk
<1>7. Types'
  BY TypesIoctl, Zenon
<1> HIDE DEF e
<1> QED BY <1>2, <1>3, <1>4, <1>5, <1>6, <1>7, ReplaySends, Zenon

\* An ioctl on another descriptor changes nothing.
LEMMA ReplayElsewhere ==
  ASSUME Types, ReplayInv, ioctl_elsewhere
  PROVE  ReplayInv'
<1> SUFFICES ASSUME "lost" \notin spoilt' PROVE ReplayInv'
  BY Zenon DEF ReplayInv
<1>1. traces_ioctl(NoFd, "other", NoFd) /\ UNCHANGED <<kfd, kattached>>
  BY Zenon DEF ioctl_elsewhere, kernel_vars
<1>2. spoilt \subseteq spoilt' /\ UNCHANGED <<bpf_fd_map, daemon_vars>>
  BY <1>1, Zenon DEF traces_ioctl
<1>3. ioctl_param_start = None
  BY <1>2, Zenon DEF ReplayInv
<1>4. NoFd \notin DOMAIN bpf_fd_map
  BY ConstantFacts, Zenon DEF Types, TracerTypes
<1>5. rb' = rb /\ ioctl_param_start' = None
  BY <1>1, <1>3, <1>4, Zenon DEF traces_ioctl
<1>6. KernelView' = KernelView /\ NamesKept /\ AttachesKept
  BY <1>1, <1>2, Zenon DEF KernelView, NamesKept, AttachesKept
<1> QED BY <1>2, <1>3, <1>5, <1>6, ReplayStays, Zenon

\* The event of a close leads to the view without the uprobe.
LEMMA ReplayClose ==
  ASSUME Types, ReplayInv, NEW f \in AppFds, close_fd(f)
  PROVE  ReplayInv'
<1> SUFFICES ASSUME "lost" \notin spoilt' PROVE ReplayInv'
  BY Zenon DEF ReplayInv
<1> DEFINE e == [type |-> "close", fd |-> f]
           cleared == close_announced(f) /\ room
<1>1. /\ kfd' = [kfd EXCEPT ![f] = closed]
      /\ rb' = IF cleared THEN Append(rb, e) ELSE rb
      /\ bpf_fd_map' = IF cleared THEN drop(bpf_fd_map, f) ELSE bpf_fd_map
      /\ spoilt' = spoilt \cup lost_if(close_announced(f)) \cup (IF cleared THEN reused_if(f) ELSE {})
      /\ UNCHANGED <<kattached, daemon_vars, ioctl_param_start>>
  BY Zenon DEF close_fd
<1>2. Types'
  BY TypesClose, Zenon
<1>3. spoilt \subseteq spoilt' /\ AttachesKept
  BY <1>1, Zenon DEF AttachesKept
<1>4. ioctl_param_start = None
  BY <1>3, Zenon DEF ReplayInv
<1>5. KernelView' = [KernelView EXCEPT ![f] = NotOpen]
  BY <1>1, Zenon DEF KernelView, Types, KernelTypes, closed
<1>6. CASE close_announced(f)
  <2>1. room
    BY <1>1, <1>6, Zenon DEF lost_if
  <2>2. rb' = Append(rb, e) /\ bpf_fd_map' = drop(bpf_fd_map, f) /\ reused_if(f) \subseteq spoilt'
    BY <1>1, <1>6, <2>1, Zenon
  <2>3. KernelView' = told(KernelView, e)
    BY <1>5, Zenon DEF told
  <2>4. EventOk(KernelView, e, bpf_fd_map', kattached', spoilt')
    BY Zenon DEF EventOk
  <2> HIDE DEF e
  <2>5. NamesKept
    <3> SUFFICES ASSUME NEW i \in 1..Len(rb), rb[i].type = "link", "reused" \notin spoilt', rb[i].prog \in DOMAIN bpf_fd_map
                 PROVE  rb[i].prog \in DOMAIN bpf_fd_map' /\ bpf_fd_map'[rb[i].prog] = bpf_fd_map[rb[i].prog]
      BY Zenon DEF NamesKept
    <3>1. rb[i].prog # f
      BY <2>2 DEF reused_if
    <3> QED BY <2>2, <3>1, Zenon DEF drop
  <2> QED BY <1>1, <1>2, <1>3, <1>4, <2>2, <2>3, <2>4, <2>5, ReplaySends, Zenon
<1>7. CASE ~close_announced(f)
  <2>1. kfd[f].kind # "perf"
    BY <1>7, Zenon DEF close_announced, Types, Known
  <2>2. KernelView' = KernelView
    <3>1. KernelView[f] = NotOpen
      BY <2>1, Zenon DEF KernelView
    <3>2. KernelView = [g \in AppFds |-> KernelView[g]]
      BY Zenon DEF KernelView
    <3> HIDE DEF KernelView
    <3> QED BY <1>5, <3>1, <3>2, Zenon
  <2>3. rb' = rb /\ bpf_fd_map' = bpf_fd_map
    BY <1>1, <1>7, Zenon
  <2>4. NamesKept
    BY <2>3, Zenon DEF NamesKept
  <2> QED BY <1>1, <1>3, <2>2, <2>3, <2>4, ReplayStays, Zenon
<1> QED BY <1>6, <1>7, Zenon

\* Every call of the application keeps the replay.
LEMMA ReplayApplication ==
  ASSUME Types, ReplayInv, application
  PROVE  ReplayInv'
BY ReplayMapCreate, ReplayProgLoad, ReplayRejected, ReplayPerfOpen, ReplayElsewhere, ReplaySetBpf, ReplayEnable, ReplayLinkCreate,
   ReplayClose, Zenon DEF application

-----------------------------------------------------------------------------
(* Replaying the events: the daemon. *)

\* The first event is handled: what is left to replay starts at the view after it.
LEMMA ReplayHandled ==
  ASSUME Types, NEW v, Replay(v), handle_event, DaemonView(v[2], handlers', pid_fd_to_id_map', spoilt')
  PROVE  \E w : Replay(w)'
<1> DEFINE n == Len(rb)
<1>1. PICK w : w = [i \in 1..n |-> v[i + 1]]
  BY Zenon
<1>2. /\ rb # <<>> /\ rb' = Tail(rb) /\ spoilt \subseteq spoilt'
      /\ UNCHANGED <<kfd, kattached, bpf_fd_map>>
  BY EventStep, Zenon
<1>3. n \in Nat /\ n >= 1 /\ Len(rb') = n - 1 /\ \A i \in 1..(n - 1) : rb'[i] = rb[i + 1]
  BY <1>2, FirstEvent, Zenon
<1>4. /\ v \in [1..(n + 1) -> View] /\ v[n + 1] = KernelView
      /\ \A i \in 1..n : v[i + 1] = told(v[i], rb[i]) /\ EventOk(v[i], rb[i], bpf_fd_map, kattached, spoilt)
  BY Zenon DEF Replay
<1>5. NamesKept /\ AttachesKept /\ KernelView' = KernelView
  BY <1>2, Zenon DEF NamesKept, AttachesKept, KernelView
<1>6. \A i \in 1..n : EventOk(v[i], rb[i], bpf_fd_map', kattached', spoilt')
  BY <1>2, <1>4, <1>5, EventKept, Zenon
<1> HIDE DEF n
<1>7. w \in [1..n -> View] /\ w[n] = KernelView' /\ \A i \in 1..n : w[i] = v[i + 1]
  BY <1>1, <1>3, <1>4, <1>5
<1>8. DaemonView(w[1], handlers', pid_fd_to_id_map', spoilt')
  BY <1>3, <1>7
<1>9. ASSUME NEW i \in 1..(n - 1)
      PROVE  w[i + 1] = told(w[i], rb'[i]) /\ EventOk(w[i], rb'[i], bpf_fd_map', kattached', spoilt')
  <2>1. i \in 1..n /\ i + 1 \in 1..n /\ rb'[i] = rb[i + 1]
    BY <1>3
  <2>2. w[i] = v[i + 1] /\ w[i + 1] = v[(i + 1) + 1]
    BY <1>7, <2>1, Zenon
  <2> QED BY <1>4, <1>6, <2>1, <2>2, Zenon
<1>10. Len(rb') + 1 = n
  BY <1>3
<1> QED BY <1>3, <1>7, <1>8, <1>9, <1>10, Zenon DEF Replay

\* The view that follows an event of each type.
LEMMA ToldIs ==
  ASSUME NEW view \in View, NEW e \in Event
  PROVE  /\ told(view, e) \in View
         /\ \A f \in AppFds : f # e.fd => told(view, e)[f] = view[f]
         /\ e.type = "perf" => told(view, e)[e.fd] = [perf |-> e.perf, on |-> FALSE]
         /\ e.type \in {"enable", "disable"} =>
              told(view, e)[e.fd].perf = view[e.fd].perf /\ (told(view, e)[e.fd].on <=> e.type = "enable")
         /\ e.type = "close" => told(view, e)[e.fd] = NotOpen
         /\ e.type \in {"link", "set_bpf"} => told(view, e) = view
<1>1. e.fd \in AppFds /\ e.type \in {"perf", "link", "set_bpf", "enable", "disable", "close"}
      /\ (e.type = "perf" => e.perf \in Nat \ {0})
  BY EventFields, Zenon
<1>2. view[e.fd].perf \in Nat
  BY <1>1 DEF View
<1>3. CASE e.type = "perf"
  <2>1. told(view, e) = [view EXCEPT ![e.fd] = [perf |-> e.perf, on |-> FALSE]]
    BY <1>3, Zenon DEF told
  <2> QED BY <1>1, <1>3, <2>1 DEF View
<1>4. CASE e.type = "enable"
  <2>1. told(view, e) = [view EXCEPT ![e.fd] = [perf |-> view[e.fd].perf, on |-> TRUE]]
    BY <1>4 DEF told
  <2> QED BY <1>1, <1>2, <1>4, <2>1 DEF View
<1>5. CASE e.type = "disable"
  <2>1. told(view, e) = [view EXCEPT ![e.fd] = [perf |-> view[e.fd].perf, on |-> FALSE]]
    BY <1>5 DEF told
  <2> QED BY <1>1, <1>2, <1>5, <2>1 DEF View
<1>6. CASE e.type = "close"
  <2>1. told(view, e) = [view EXCEPT ![e.fd] = NotOpen]
    BY <1>6 DEF told
  <2> QED BY <1>1, <1>6, <2>1 DEF View, NotOpen
<1>7. CASE e.type \in {"link", "set_bpf"}
  <2>1. told(view, e) = view
    BY <1>7 DEF told
  <2> QED BY <1>7, <2>1
<1> QED BY <1>1, <1>3, <1>4, <1>5, <1>6, <1>7, Zenon

\* A view the daemon has, and the event that waits first.
Sees(view) ==
  /\ rb # <<>> /\ view \in View
  /\ DaemonView(view, handlers, pid_fd_to_id_map, spoilt)
  /\ EventOk(view, rb[1], bpf_fd_map, kattached, spoilt)
  /\ Joined(handlers, kattached, spoilt)

\* Handling it makes the next view and joins nothing the kernel has not joined.
Follows(view) ==
  /\ DaemonView(told(view, rb[1]), handlers', pid_fd_to_id_map', spoilt')
  /\ Joined(handlers', kattached, spoilt')

\* Links that stay as they are stay those of the kernel.
LEMMA JoinedStays ==
  ASSUME NEW hs, NEW cs, NEW attached, NEW bad, Joined(hs, attached, bad),
         \A s \in Slots : cs[s].kind = "link" =>
           cs[s] = hs[s] /\ cs[hs[s].attach_target_id].perf = hs[hs[s].attach_target_id].perf
  PROVE  Joined(cs, attached, bad)
<1> SUFFICES ASSUME "refused" \notin bad, "reused" \notin bad, NEW s \in Slots, cs[s].kind = "link"
             PROVE  /\ cs[cs[s].attach_target_id].perf \in DOMAIN attached
                    /\ attached[cs[cs[s].attach_target_id].perf] = cs[s].prog_id
  BY Zenon DEF Joined
<1>1. cs[s] = hs[s] /\ cs[hs[s].attach_target_id].perf = hs[hs[s].attach_target_id].perf
  BY Zenon
<1>2. /\ hs[hs[s].attach_target_id].perf \in DOMAIN attached
      /\ attached[hs[hs[s].attach_target_id].perf] = hs[s].prog_id
  BY <1>1, Zenon DEF Joined
<1> QED BY <1>1, <1>2, Zenon

\* A new uprobe is stored as the event says.
LEMMA FollowsStored ==
  ASSUME Types, NEW view, Sees(view), bpftime_uprobe_create_server(rb[1])
  PROVE  Follows(view)
<1> DEFINE e == rb[1]
           ids == pid_fd_to_id_map
           next == told(view, e)
<1>1. e \in Event /\ e.type = "perf" /\ e.fd \in AppFds /\ e.perf \in Nat \ {0}
  BY FirstEvent, EventFields, Zenon DEF Sees, bpftime_uprobe_create_server
<1>2. /\ next[e.fd] = [perf |-> e.perf, on |-> FALSE] /\ \A f \in AppFds : f # e.fd => next[f] = view[f]
      /\ view[e.fd].perf = 0
  BY <1>1, ToldIs, Zenon DEF Sees, EventOk
<1>3. DaemonView(view, handlers, ids, spoilt) /\ Joined(handlers, kattached, spoilt)
      /\ TableOk(handlers) /\ UprobesOk(handlers, ids)
  BY Zenon DEF Sees, Types, DaemonTypes
<1>4. e.fd \notin DOMAIN ids /\ DOMAIN ids \subseteq AppFds
  BY <1>2, <1>3, Zenon DEF DaemonView, UprobesOk
<1> HIDE DEF e, ids, next
<1>5. CASE spoilt' = spoilt \cup {"full"} /\ UNCHANGED <<handlers, pid_fd_to_id_map>>
  <2>1. DaemonView(next, handlers', ids', spoilt')
    <3>1. \A f \in DOMAIN ids : next[f] = view[f]
      BY <1>2, <1>4, Zenon
    <3>2. handlers' = handlers /\ ids' = ids /\ "full" \in spoilt' /\ ("collision" \in spoilt => "collision" \in spoilt')
      BY <1>5, Zenon DEF ids
    <3> QED BY <1>3, <3>1, <3>2, ZenonT(30) DEF DaemonView
  <2>2. Joined(handlers', kattached, spoilt')
    BY <1>3, <1>5, Zenon DEF Joined
  <2> QED BY <2>1, <2>2, Zenon DEF Follows, next, e, ids
<1>6. ASSUME NEW t \in Slots, handlers[t].kind = "unused", spoilt' = spoilt,
             Stored(handlers, t, bpf_perf_event_handler(e.perf), handlers'), IsPut(ids, e.fd, t, ids')
      PROVE  Follows(view)
  <2>1. handlers'[t].kind = "perf" /\ handlers'[t].perf = e.perf /\ handlers'[t].enabled = FALSE
        /\ \A s \in Slots : s # t => handlers'[s] = handlers[s]
    BY <1>6 DEF Stored, bpf_perf_event_handler
  <2>2. /\ DOMAIN ids' = DOMAIN ids \cup {e.fd} /\ ids'[e.fd] = t
        /\ \A f \in DOMAIN ids : ids'[f] = ids[f] /\ f # e.fd /\ ids[f] \in Slots /\ ids[f] # t
    BY <1>3, <1>4, <1>6, Zenon DEF IsPut, UprobesOk
  <2>3. \A f \in DOMAIN ids' : /\ next[f].perf # 0
                               /\ handlers'[ids'[f]].kind = "perf" =>
                                    handlers'[ids'[f]].perf = next[f].perf /\ (handlers'[ids'[f]].enabled <=> next[f].on)
    <3>1. next[e.fd].perf = e.perf /\ e.perf # 0 /\ next[e.fd].on = FALSE
      BY <1>1, <1>2 DEF e
    <3>2. ASSUME NEW f \in DOMAIN ids PROVE next[f] = view[f] /\ handlers'[ids'[f]] = handlers[ids[f]]
      BY <1>2, <1>4, <2>1, <2>2, Zenon
    <3>3. ASSUME NEW f \in DOMAIN ids
          PROVE  view[f].perf # 0 /\ (handlers[ids[f]].kind = "perf" =>
                   handlers[ids[f]].perf = view[f].perf /\ (handlers[ids[f]].enabled <=> view[f].on))
      BY <1>3, Zenon DEF DaemonView
    <3>4. ASSUME NEW f \in DOMAIN ids'
          PROVE  /\ next[f].perf # 0
                 /\ handlers'[ids'[f]].kind = "perf" =>
                      handlers'[ids'[f]].perf = next[f].perf /\ (handlers'[ids'[f]].enabled <=> next[f].on)
      <4>1. CASE f = e.fd
        BY <2>1, <2>2, <3>1, <4>1, Zenon
      <4>2. CASE f \in DOMAIN ids
        BY <3>2, <3>3, <4>2, Zenon
      <4> QED BY <2>2, <4>1, <4>2, Zenon
    <3> QED BY <3>4, Zenon
  <2>4. \A s \in Slots : handlers'[s].kind = "perf" => \E f \in DOMAIN ids' : ids'[f] = s
    <3>1. ASSUME NEW s \in Slots, handlers'[s].kind = "perf", s # t PROVE \E f \in DOMAIN ids' : ids'[f] = s
      <4>1. PICK f \in DOMAIN ids : ids[f] = s
        BY <1>3, <2>1, <3>1, Zenon DEF DaemonView
      <4> QED BY <2>2, <4>1, Zenon
    <3> QED BY <2>2, <3>1, Zenon
  <2>5. "full" \notin spoilt' => \A f \in AppFds : next[f].perf # 0 => f \in DOMAIN ids'
    BY <1>2, <1>3, <1>6, <2>2, Zenon DEF DaemonView
  <2>6. "collision" \notin spoilt' => \A f \in DOMAIN ids' : handlers'[ids'[f]].kind = "perf"
    <3>1. "collision" \notin spoilt => \A f \in DOMAIN ids : handlers[ids[f]].kind = "perf"
      BY <1>3, Zenon DEF DaemonView
    <3>2. ASSUME "collision" \notin spoilt, NEW f \in DOMAIN ids PROVE handlers'[ids'[f]].kind = "perf"
      <4>1. ids'[f] = ids[f] /\ handlers'[ids[f]] = handlers[ids[f]]
        BY <2>1, <2>2, Zenon
      <4> QED BY <3>1, <3>2, <4>1, Zenon
    <3>3. handlers'[ids'[e.fd]].kind = "perf"
      BY <2>1, <2>2, Zenon
    <3>4. spoilt' = spoilt /\ \A f \in DOMAIN ids' : f \in DOMAIN ids \/ f = e.fd
      BY <1>6, <2>2, Zenon
    <3> QED BY <3>2, <3>3, <3>4, Zenon
  <2>7. DaemonView(next, handlers', ids', spoilt')
    BY <2>3, <2>4, <2>5, <2>6, Zenon DEF DaemonView
  <2>8. Joined(handlers', kattached, spoilt')
    <3>1. ASSUME NEW s \in Slots, handlers'[s].kind = "link"
          PROVE  handlers'[s] = handlers[s] /\ handlers'[handlers[s].attach_target_id] = handlers[handlers[s].attach_target_id]
      <4>1. handlers'[s] = handlers[s]
        BY <2>1, <3>1
      <4>2. handlers[s].attach_target_id \in Slots /\ handlers[handlers[s].attach_target_id].kind = "perf"
        BY <1>3, <3>1, <4>1, HandlerFields, Zenon DEF TableOk
      <4> QED BY <1>6, <2>1, <4>1, <4>2
    <3> QED BY <1>3, <1>6, <3>1, JoinedStays, Zenon
  <2> QED BY <2>7, <2>8, Zenon DEF Follows, next, e, ids
<1> QED BY <1>5, <1>6, UprobeStored, Zenon DEF Sees, e, ids

\* An event that changes no view and leaves the table alone is followed.
LEMMA FollowsUnchanged ==
  ASSUME NEW view, Sees(view), told(view, rb[1]) = view, UNCHANGED <<handlers, pid_fd_to_id_map, spoilt>>
  PROVE  Follows(view)
<1>1. /\ handlers' = handlers /\ pid_fd_to_id_map' = pid_fd_to_id_map /\ spoilt' = spoilt
      /\ DaemonView(view, handlers, pid_fd_to_id_map, spoilt) /\ Joined(handlers, kattached, spoilt)
  BY Zenon DEF Sees
<1> QED BY <1>1, Zenon DEF Follows

\* An attach event changes no view and adds only a link of the kernel.
LEMMA FollowsAttached ==
  ASSUME Types, NEW view, Sees(view), bpftime_attach_perf_to_bpf_fd_server(rb[1]) \/ handle_set_bpf(rb[1])
  PROVE  Follows(view)
<1> DEFINE e == rb[1]
           ids == pid_fd_to_id_map
<1>1. e \in Event /\ e.type \in {"link", "set_bpf"} /\ rb # <<>>
  BY FirstEvent, AttachEvents, Zenon DEF Sees
<1>2. told(view, e) = view
  BY <1>1, ToldIs, Zenon DEF Sees
<1>3. DaemonView(view, handlers, ids, spoilt) /\ Joined(handlers, kattached, spoilt)
      /\ TableOk(handlers) /\ UprobesOk(handlers, ids) /\ EventOk(view, e, bpf_fd_map, kattached, spoilt)
  BY Zenon DEF Sees, Types, DaemonTypes
<1> HIDE DEF e, ids
<1>4. CASE UNCHANGED <<handlers, pid_fd_to_id_map, spoilt>>
  BY <1>2, <1>4, FollowsUnchanged, Zenon DEF e
<1>5. ASSUME NEW id, id = named(e), UNCHANGED pid_fd_to_id_map, e.fd \in DOMAIN ids, Attached(e.fd, id)
      PROVE  Follows(view)
  <2>1. PICK cs, ms : /\ Grown(handlers, cs, ms) /\ ms \subseteq {"collision"}
                      /\ handlers' = cs \/ Linked(cs, ids[e.fd], id, handlers')
                      /\ TableOk(handlers') /\ spoilt \cup ms \subseteq spoilt'
    BY <1>5, Zenon DEF Attached, ids
  <2>2. ids' = ids /\ (\A f \in DOMAIN ids : ids[f] \in Slots)
    BY <1>3, <1>5, Zenon DEF ids, UprobesOk
  <2>3. \A s \in Slots : /\ handlers'[s].kind = "perf" => handlers'[s] = handlers[s]
                         /\ handlers'[s].kind = "link" =>
                              handlers'[s] = handlers[s] \/ handlers'[s] = Table!bpf_link_handler(id, ids[e.fd])
                         /\ ms = {} /\ handlers[s].kind # "unused" => handlers'[s] = handlers[s]
    <3>1. KeptBy(handlers, cs, ms, ids[e.fd], id, handlers')
      BY <2>1, AttachedKeeps, Zenon
    <3> QED BY <3>1, Zenon DEF KeptBy
  <2>4. "collision" \notin spoilt' => ms = {}
    BY <2>1, Zenon
  <2>5. DaemonView(view, handlers', ids', spoilt')
    <3>1. \A f \in DOMAIN ids : handlers'[ids[f]].kind = "perf" => handlers'[ids[f]] = handlers[ids[f]]
      BY <2>2, <2>3, Zenon
    <3>2. "collision" \notin spoilt' => \A f \in DOMAIN ids : handlers'[ids[f]].kind = "perf"
      <4>1. "collision" \notin spoilt' => \A f \in DOMAIN ids : handlers[ids[f]].kind = "perf" /\ ms = {}
        BY <1>3, <2>1, <2>4, Zenon DEF DaemonView
      <4> QED BY <2>2, <2>3, <4>1
    <3>3. "full" \notin spoilt' => \A f \in AppFds : view[f].perf # 0 => f \in DOMAIN ids
      BY <1>3, <2>1, Zenon DEF DaemonView
    <3>4. \A s \in Slots : handlers'[s].kind = "perf" => \E f \in DOMAIN ids : ids[f] = s
      BY <1>3, <2>3, Zenon DEF DaemonView
    <3>5. \A f \in DOMAIN ids : /\ view[f].perf # 0
                                /\ handlers'[ids[f]].kind = "perf" =>
                                     handlers'[ids[f]].perf = view[f].perf /\ (handlers'[ids[f]].enabled <=> view[f].on)
      BY <1>3, <3>1, Zenon DEF DaemonView
    <3> QED BY <2>2, <3>2, <3>3, <3>4, <3>5, Zenon DEF DaemonView
  <2>6. Joined(handlers', kattached, spoilt')
    <3> SUFFICES ASSUME "refused" \notin spoilt', "reused" \notin spoilt', NEW s \in Slots, handlers'[s].kind = "link"
                 PROVE  /\ handlers'[handlers'[s].attach_target_id].perf \in DOMAIN kattached
                        /\ kattached[handlers'[handlers'[s].attach_target_id].perf] = handlers'[s].prog_id
      BY Zenon DEF Joined
    <3>1. "refused" \notin spoilt /\ "reused" \notin spoilt
      BY <2>1, Zenon
    <3>2. PICK t \in Slots : t = handlers'[s].attach_target_id /\ handlers'[t].kind = "perf"
      <4>1. handlers'[s] \in AHandler /\ handlers'[handlers'[s].attach_target_id].kind = "perf"
        BY <2>1, Zenon DEF TableOk
      <4>2. handlers'[s].attach_target_id \in Slots
        BY <4>1, HandlerFields, Zenon
      <4> QED BY <4>1, <4>2, Zenon
    <3>3. handlers'[t] = handlers[t]
      BY <2>3, <3>2, Zenon
    <3>4. CASE handlers'[s] = handlers[s]
      BY <1>3, <3>1, <3>2, <3>3, <3>4, Zenon DEF Joined
    <3>5. CASE handlers'[s] = Table!bpf_link_handler(id, ids[e.fd])
      <4>1. t = ids[e.fd] /\ handlers'[s].prog_id = id
        BY <3>2, <3>5 DEF Table!bpf_link_handler
      <4>2. handlers[t].perf = view[e.fd].perf
        <5>1. handlers[ids[e.fd]].kind = "perf"
          BY <3>2, <3>3, <4>1, Zenon
        <5> QED BY <1>3, <1>5, <4>1, <5>1, Zenon DEF DaemonView
      <4>3. view[e.fd].perf \in DOMAIN kattached /\ kattached[view[e.fd].perf] = id
        BY <1>1, <1>3, <1>5, <3>1, Zenon DEF EventOk, named
      <4> QED BY <3>2, <3>3, <4>1, <4>2, <4>3
    <3> QED BY <2>3, <3>4, <3>5, Zenon
  <2> QED BY <1>2, <2>5, <2>6, Zenon DEF Follows, e, ids
<1>6. /\ UNCHANGED <<daemon_vars, spoilt>> => UNCHANGED <<handlers, pid_fd_to_id_map, spoilt>>
      /\ \/ AttachHandled(e, named(e))
         \/ UNCHANGED <<daemon_vars, spoilt>>
  BY <1>1, AttachEvents, Zenon DEF e, daemon_vars
<1> QED BY <1>4, <1>5, <1>6, Zenon DEF AttachHandled, ids

\* A uprobe is switched as the event says.
LEMMA FollowsSwitched ==
  ASSUME Types, NEW view, Sees(view), bpftime_perf_event_enable_server(rb[1])
  PROVE  Follows(view)
<1> DEFINE e == rb[1]
           ids == pid_fd_to_id_map
           next == told(view, e)
<1>1. e \in Event /\ e.type \in {"enable", "disable"} /\ e.fd \in AppFds /\ rb # <<>>
  BY FirstEvent, EventFields, Zenon DEF Sees, bpftime_perf_event_enable_server
<1>2. /\ next[e.fd].perf = view[e.fd].perf /\ (next[e.fd].on <=> e.type = "enable")
      /\ \A f \in AppFds : f # e.fd => next[f] = view[f]
  BY <1>1, ToldIs, Zenon DEF Sees
<1>3. DaemonView(view, handlers, ids, spoilt) /\ Joined(handlers, kattached, spoilt)
      /\ TableOk(handlers) /\ UprobesOk(handlers, ids)
  BY Zenon DEF Sees, Types, DaemonTypes
<1>4. /\ ids' = ids /\ spoilt' = spoilt /\ TableOk(handlers')
      /\ \A s \in Slots : \/ handlers'[s] = handlers[s]
                          \/ handlers[s].kind = "perf" /\ handlers'[s].kind = "perf" /\ handlers'[s].perf = handlers[s].perf
      /\ \A f \in DOMAIN ids :
           /\ f # e.fd => handlers'[ids[f]] = handlers[ids[f]]
           /\ f = e.fd /\ handlers[ids[f]].kind = "perf" => (handlers'[ids[f]].enabled <=> e.type = "enable")
  BY <1>1, UprobeSwitched, Zenon
<1>5. \A f \in DOMAIN ids : ids[f] \in Slots /\ f \in AppFds
  BY <1>3, Zenon DEF UprobesOk
<1> HIDE DEF e, ids, next
<1>6. \A s \in Slots : /\ handlers'[s].kind = handlers[s].kind
                       /\ handlers[s].kind = "perf" => handlers'[s].perf = handlers[s].perf
                       /\ handlers[s].kind # "perf" => handlers'[s] = handlers[s]
  BY <1>4, Zenon
<1>7. DaemonView(next, handlers', ids', spoilt')
  <2>1. \A f \in DOMAIN ids : next[f].perf # 0
    <3>1. \A f \in DOMAIN ids : view[f].perf # 0
      BY <1>3, Zenon DEF DaemonView
    <3>2. \A f \in AppFds : next[f].perf = view[f].perf
      BY <1>2, Zenon
    <3> QED BY <1>5, <3>1, <3>2, Zenon
  <2>2. ASSUME NEW f \in DOMAIN ids, handlers'[ids[f]].kind = "perf"
        PROVE  handlers'[ids[f]].perf = next[f].perf /\ (handlers'[ids[f]].enabled <=> next[f].on)
    <3>1. handlers[ids[f]].kind = "perf" /\ handlers'[ids[f]].perf = handlers[ids[f]].perf
      BY <1>5, <1>6, <2>2, Zenon
    <3>2. handlers[ids[f]].perf = view[f].perf /\ (handlers[ids[f]].enabled <=> view[f].on)
      BY <1>3, <3>1, Zenon DEF DaemonView
    <3>3. CASE f = e.fd
      BY <1>2, <1>4, <3>1, <3>2, <3>3, Zenon
    <3>4. CASE f # e.fd
      BY <1>2, <1>4, <1>5, <3>1, <3>2, <3>4, Zenon
    <3> QED BY <3>3, <3>4, Zenon
  <2>3. \A s \in Slots : handlers'[s].kind = "perf" => \E f \in DOMAIN ids : ids[f] = s
    BY <1>3, <1>6, Zenon DEF DaemonView
  <2>4. "full" \notin spoilt => \A f \in AppFds : next[f].perf # 0 => f \in DOMAIN ids
    BY <1>2, <1>3, Zenon DEF DaemonView
  <2>5. "collision" \notin spoilt => \A f \in DOMAIN ids : handlers'[ids[f]].kind = "perf"
    BY <1>3, <1>5, <1>6, Zenon DEF DaemonView
  <2> QED BY <1>4, <2>1, <2>2, <2>3, <2>4, <2>5, Zenon DEF DaemonView
<1>8. Joined(handlers', kattached, spoilt')
  <2>1. ASSUME NEW s \in Slots, handlers'[s].kind = "link"
        PROVE  handlers'[s] = handlers[s] /\ handlers'[handlers[s].attach_target_id].perf = handlers[handlers[s].attach_target_id].perf
    <3>1. handlers'[s] = handlers[s]
      BY <1>6, <2>1
    <3>2. handlers[s].attach_target_id \in Slots /\ handlers[handlers[s].attach_target_id].kind = "perf"
      BY <1>3, <2>1, <3>1, HandlerFields, Zenon DEF TableOk
    <3> QED BY <1>6, <3>1, <3>2, Zenon
  <2>2. \A s \in Slots : handlers'[s].kind = "link" =>
          handlers'[s] = handlers[s] /\ handlers'[handlers[s].attach_target_id].perf = handlers[handlers[s].attach_target_id].perf
    BY <2>1, Zenon
  <2>3. Joined(handlers', kattached, spoilt)
    BY <1>3, <2>2, JoinedStays, Zenon
  <2> QED BY <1>4, <2>3, Zenon
<1> QED BY <1>7, <1>8, Zenon DEF Follows, next, e, ids

\* A uprobe goes as the event says.
LEMMA FollowsClosed ==
  ASSUME Types, NEW view, Sees(view), bpftime_close_server(rb[1])
  PROVE  Follows(view)
<1> DEFINE e == rb[1]
           ids == pid_fd_to_id_map
           next == told(view, e)
<1>1. e \in Event /\ e.type = "close" /\ e.fd \in AppFds /\ rb # <<>>
  BY FirstEvent, EventFields, Zenon DEF Sees, bpftime_close_server
<1>2. next[e.fd].perf = 0 /\ \A f \in AppFds : f # e.fd => next[f] = view[f]
  <2>1. next[e.fd] = NotOpen /\ \A f \in AppFds : f # e.fd => next[f] = view[f]
    BY <1>1, ToldIs, Zenon DEF Sees
  <2> QED BY <2>1 DEF NotOpen
<1>3. DaemonView(view, handlers, ids, spoilt) /\ Joined(handlers, kattached, spoilt)
      /\ TableOk(handlers) /\ UprobesOk(handlers, ids)
  BY Zenon DEF Sees, Types, DaemonTypes
<1>4. /\ TableOk(handlers') /\ spoilt' = spoilt
      /\ DOMAIN ids' = DOMAIN ids \ {e.fd} /\ \A f \in DOMAIN ids' : ids'[f] = ids[f]
      /\ e.fd \notin DOMAIN ids => handlers' = handlers
      /\ e.fd \in DOMAIN ids => ClearedAt(handlers, ids[e.fd], handlers')
  BY <1>1, UprobeClosed, Zenon
<1>5. \A f \in DOMAIN ids : /\ ids[f] \in Slots /\ f \in AppFds /\ handlers[ids[f]].kind \in {"perf", "map"}
                            /\ \A g \in DOMAIN ids : ids[f] = ids[g] => f = g
  BY <1>3, Zenon DEF UprobesOk
<1> HIDE DEF e, ids, next
<1>6. \A s \in Slots : handlers'[s].kind \in {"perf", "link"} =>
        handlers'[s] = handlers[s] /\ (e.fd \in DOMAIN ids => s # ids[e.fd])
  BY <1>4 DEF ClearedAt
<1>7. \A f \in DOMAIN ids' : f \in DOMAIN ids /\ f # e.fd /\ ids'[f] = ids[f] /\ handlers'[ids[f]] = handlers[ids[f]]
  <2>1. \A f \in DOMAIN ids' : f \in DOMAIN ids /\ f # e.fd /\ ids'[f] = ids[f]
    BY <1>4, Zenon
  <2>2. ASSUME NEW f \in DOMAIN ids' PROVE handlers'[ids[f]] = handlers[ids[f]]
    <3>1. f \in DOMAIN ids /\ f # e.fd /\ ids[f] \in Slots /\ handlers[ids[f]].kind # "link"
      BY <1>5, <2>1
    <3>2. e.fd \in DOMAIN ids => ids[f] # ids[e.fd]
      BY <1>5, <3>1, Zenon
    <3> QED BY <1>4, <3>1, <3>2, Zenon DEF ClearedAt
  <2> QED BY <2>1, <2>2, Zenon
<1>8. DaemonView(next, handlers', ids', spoilt')
  <2>1. ASSUME NEW f \in DOMAIN ids'
        PROVE  /\ next[f].perf # 0
               /\ handlers'[ids'[f]].kind = "perf" =>
                    handlers'[ids'[f]].perf = next[f].perf /\ (handlers'[ids'[f]].enabled <=> next[f].on)
    <3>1. next[f] = view[f] /\ handlers'[ids'[f]] = handlers[ids[f]] /\ f \in DOMAIN ids
      BY <1>2, <1>5, <1>7, Zenon
    <3> QED BY <1>3, <3>1, Zenon DEF DaemonView
  <2>2. ASSUME NEW s \in Slots, handlers'[s].kind = "perf" PROVE \E f \in DOMAIN ids' : ids'[f] = s
    <3>1. handlers[s].kind = "perf" /\ (e.fd \in DOMAIN ids => s # ids[e.fd])
      BY <1>6, <2>2
    <3>2. PICK f \in DOMAIN ids : ids[f] = s
      BY <1>3, <3>1, Zenon DEF DaemonView
    <3> QED BY <1>4, <3>1, <3>2, Zenon
  <2>3. "full" \notin spoilt => \A f \in AppFds : next[f].perf # 0 => f \in DOMAIN ids'
    <3>1. "full" \notin spoilt => \A f \in AppFds : view[f].perf # 0 => f \in DOMAIN ids
      BY <1>3, Zenon DEF DaemonView
    <3> QED BY <1>2, <1>4, <3>1
  <2>4. "collision" \notin spoilt => \A f \in DOMAIN ids' : handlers'[ids'[f]].kind = "perf"
    <3>1. "collision" \notin spoilt => \A f \in DOMAIN ids : handlers[ids[f]].kind = "perf"
      BY <1>3, Zenon DEF DaemonView
    <3> QED BY <1>4, <1>7, <3>1
  <2> QED BY <1>4, <2>1, <2>2, <2>3, <2>4, Zenon DEF DaemonView
<1>9. Joined(handlers', kattached, spoilt')
  <2>1. ASSUME NEW s \in Slots, handlers'[s].kind = "link"
        PROVE  handlers'[s] = handlers[s] /\ handlers'[handlers[s].attach_target_id] = handlers[handlers[s].attach_target_id]
    <3>1. handlers'[s] = handlers[s]
      BY <1>6, <2>1
    <3>2. handlers[s].attach_target_id \in Slots /\ handlers'[handlers[s].attach_target_id].kind = "perf"
      <4>1. handlers'[s] \in AHandler /\ handlers'[handlers'[s].attach_target_id].kind = "perf"
        BY <1>4, <2>1, Zenon DEF TableOk
      <4>2. handlers'[s].attach_target_id \in Slots
        BY <2>1, <4>1, HandlerFields, Zenon
      <4> QED BY <3>1, <4>1, <4>2, Zenon
    <3> QED BY <1>6, <3>1, <3>2
  <2>2. \A s \in Slots : handlers'[s].kind = "link" =>
          handlers'[s] = handlers[s] /\ handlers'[handlers[s].attach_target_id].perf = handlers[handlers[s].attach_target_id].perf
    BY <2>1, Zenon
  <2>3. Joined(handlers', kattached, spoilt)
    BY <1>3, <2>2, JoinedStays, Zenon
  <2> QED BY <1>4, <2>3, Zenon
<1> QED BY <1>8, <1>9, Zenon DEF Follows, next, e, ids

\* The daemon follows every event it handles.
LEMMA FollowsHandled ==
  ASSUME Types, NEW view, Sees(view), handle_event
  PROVE  Follows(view)
<1>1. Head(rb) = rb[1]
  BY EventStep, Zenon
<1> QED BY <1>1, FollowsStored, FollowsAttached, FollowsSwitched, FollowsClosed, Zenon DEF handle_event

\* Handling an event moves the replay on by one view.
LEMMA ReplayHandles ==
  ASSUME Types, ReplayInv, handle_event
  PROVE  ReplayInv'
<1>1. CASE "lost" \in spoilt'
  BY <1>1, Zenon DEF ReplayInv
<1>2. CASE "lost" \notin spoilt'
  <2>1. /\ spoilt \subseteq spoilt' /\ rb # <<>> /\ rb' = Tail(rb) /\ UNCHANGED <<kattached, ioctl_param_start>>
    BY EventStep, Zenon
  <2>2. PICK v : Replay(v)
    BY <1>2, <2>1, Zenon DEF ReplayInv
  <2>3. ioctl_param_start = None /\ Joined(handlers, kattached, spoilt)
    BY <1>2, <2>1, Zenon DEF ReplayInv
  <2>4. Len(rb) \in Nat /\ Len(rb) >= 1
    BY <2>1, FirstEvent, Zenon
  <2>5. 1 \in 1..Len(rb) /\ 1 \in 1..(Len(rb) + 1) /\ 1 + 1 = 2
    BY <2>4
  <2>6. Sees(v[1]) /\ v[2] = told(v[1], rb[1])
    BY <2>1, <2>2, <2>3, <2>5, Zenon DEF Sees, Replay
  <2>7. Follows(v[1])
    BY <2>6, FollowsHandled, Zenon
  <2>8. \E w : Replay(w)'
    BY <2>2, <2>6, <2>7, ReplayHandled, Zenon DEF Follows
  <2>9. ioctl_param_start' = None /\ Joined(handlers', kattached', spoilt')
    BY <2>1, <2>3, <2>7, Zenon DEF Follows
  <2> QED BY <2>8, <2>9, Zenon DEF ReplayInv
<1> QED BY <1>1, <1>2, Zenon

\* Every step keeps the replay.
LEMMA ReplayNext ==
  ASSUME Types, ReplayInv, [Next]_vars
  PROVE  ReplayInv'
<1>1. CASE UNCHANGED vars
  BY <1>1, Zenon DEF ReplayInv, Replay, KernelView, vars, kernel_vars, tracer_vars, daemon_vars
<1> QED BY <1>1, ReplayApplication, ReplayHandles, Zenon DEF Next

\* At the start no event waits and no uprobe is open.
LEMMA ReplayInit ==
  ASSUME Init
  PROVE  ReplayInv
<1>1. PICK v : v = [i \in 1..1 |-> KernelView]
  BY Zenon
<1>2. /\ rb = <<>> /\ Len(rb) = 0 /\ \A f \in AppFds : kfd[f].kind = "closed"
      /\ DOMAIN pid_fd_to_id_map = {} /\ \A s \in Slots : handlers[s].kind = "unused"
  BY DEF Init, closed, Table!unused_handler
<1>3. KernelView = [f \in AppFds |-> NotOpen]
  BY <1>2 DEF KernelView
<1>4. KernelView \in View /\ \A f \in AppFds : KernelView[f].perf = 0
  BY <1>3 DEF View, NotOpen
<1>5. v \in [1..1 -> View] /\ v[1] = KernelView
  BY <1>1, <1>4
<1>6. DaemonView(v[1], handlers, pid_fd_to_id_map, spoilt)
  BY <1>2, <1>4, <1>5 DEF DaemonView
<1>7. Replay(v)
  BY <1>2, <1>5, <1>6 DEF Replay
<1>8. Joined(handlers, kattached, spoilt)
  BY <1>2 DEF Joined
<1> QED BY <1>7, <1>8, Zenon DEF ReplayInv, Init

\* What waits in the ring buffer, replayed on the daemon's table, leads to what the kernel has: at every moment,
\* unless an event was lost.
LEMMA Replays == Spec => [](Types /\ ReplayInv)
<1>1. Init => Types /\ ReplayInv
  BY TypesInit, ReplayInit, Zenon
<1>2. Types /\ ReplayInv /\ [Next]_vars => Types' /\ ReplayInv'
  BY TypesNext, ReplayNext, Zenon
<1> QED BY <1>1, <1>2, PTL DEF Spec

\* A link of the table (bpftime_attach_perf_to_bpf) joins a program of the table to a uprobe of the table that the
\* kernel joined too, however many calls passed and whichever descriptors were reused before its event was handled,
\* unless an event was lost, an attach was refused by the kernel or a program's descriptor was reused.
THEOREM LinksAreTheKernels == Spec => []LinksWereMade
<1>1. Types /\ ReplayInv => LinksWereMade
  <2> SUFFICES ASSUME Types, ReplayInv, kept({"lost", "refused", "reused"}), NEW s \in Slots, handlers[s].kind = "link"
               PROVE  LET target == handlers[handlers[s].attach_target_id]
                      IN  /\ handlers[handlers[s].prog_id].kind = "prog" /\ handlers[s].prog_id \in Slots
                          /\ target.kind = "perf"
                          /\ target.perf \in DOMAIN kattached /\ kattached[target.perf] = handlers[s].prog_id
    BY Zenon DEF LinksWereMade, Table!is_link_fd, Table!is_prog_fd
  <2>1. "lost" \notin spoilt /\ "refused" \notin spoilt /\ "reused" \notin spoilt
    BY Zenon DEF kept
  <2>2. Joined(handlers, kattached, spoilt) /\ TableOk(handlers)
    BY <2>1, Zenon DEF ReplayInv, Types, DaemonTypes
  <2> QED BY <2>1, <2>2, HandlerFields, Zenon DEF Joined, TableOk
<1> QED BY <1>1, Replays, PTL

\* Once the events are handled the table holds the uprobes the application has open, and only those, each under the
\* descriptor that stands for it now and enabled as its last ioctl left it (handle_perf_event_open, handle_ioctl,
\* handle_close_event), unless an event was lost, a map took a uprobe's slot or the table was full.
THEOREM UprobesAreTheKernels == Spec => []MirrorsUprobes
<1>1. Types /\ ReplayInv => MirrorsUprobes
  <2> SUFFICES ASSUME Types, ReplayInv, rb = <<>>, kept({"lost", "collision", "full"})
               PROVE  /\ DOMAIN pid_fd_to_id_map = open_perfs
                      /\ \A f \in open_perfs :
                           handlers[pid_fd_to_id_map[f]] = [kind |-> "perf", enabled |-> kfd[f].on, perf |-> kfd[f].id]
                      /\ \A s \in Slots : handlers[s].kind = "perf" => \E f \in open_perfs : pid_fd_to_id_map[f] = s
    BY Zenon DEF MirrorsUprobes
  <2>1. "lost" \notin spoilt /\ "collision" \notin spoilt /\ "full" \notin spoilt
    BY Zenon DEF kept
  <2>2. PICK v : Replay(v)
    BY <2>1, Zenon DEF ReplayInv
  <2>3. Len(rb) + 1 = 1
    OBVIOUS
  <2>4. DaemonView(KernelView, handlers, pid_fd_to_id_map, spoilt)
    BY <2>2, <2>3, Zenon DEF Replay
  <2>5. \A f \in AppFds : /\ kfd[f].kind = "perf" => /\ KernelView[f].perf = kfd[f].id /\ (KernelView[f].on <=> kfd[f].on)
                                                     /\ kfd[f].id # 0 /\ kfd[f].on \in BOOLEAN
                          /\ kfd[f].kind # "perf" => KernelView[f].perf = 0
    BY DEF KernelView, NotOpen, Types, KernelTypes, Object
  <2>6. DOMAIN pid_fd_to_id_map = open_perfs
    <3>1. DOMAIN pid_fd_to_id_map \subseteq AppFds
      BY Zenon DEF Types, DaemonTypes, UprobesOk
    <3> QED BY <2>1, <2>4, <2>5, <3>1, Zenon DEF DaemonView, open_perfs
  <2>7. ASSUME NEW f \in open_perfs
        PROVE  handlers[pid_fd_to_id_map[f]] = [kind |-> "perf", enabled |-> kfd[f].on, perf |-> kfd[f].id]
    <3>1. f \in DOMAIN pid_fd_to_id_map /\ f \in AppFds /\ kfd[f].kind = "perf"
      BY <2>6 DEF open_perfs
    <3>2. PICK h \in AHandler : h = handlers[pid_fd_to_id_map[f]]
      BY <3>1, Zenon DEF Types, DaemonTypes, UprobesOk, TableOk
    <3>3. h.kind = "perf" /\ h.perf = kfd[f].id /\ (h.enabled <=> kfd[f].on)
      BY <2>1, <2>4, <2>5, <3>1, <3>2, Zenon DEF DaemonView
    <3>4. h = [kind |-> "perf", enabled |-> h.enabled, perf |-> h.perf] /\ h.enabled \in BOOLEAN
      BY <3>3, HandlerFields, Zenon
    <3>5. h.enabled = kfd[f].on
      BY <2>5, <3>1, <3>3, <3>4, Zenon
    <3> QED BY <3>2, <3>3, <3>4, <3>5, Zenon
  <2> QED BY <2>4, <2>6, <2>7, Zenon DEF DaemonView
<1> QED BY <1>1, Replays, PTL

=============================================================================
