-------------------------- MODULE DaemonAttachProofs --------------------------
(***************************************************************************)
(* More proofs about the daemon: what the kernel attached is attached in   *)
(* the table, with the program and the map it needs, or an event that will *)
(* attach it waits.                                                        *)
(***************************************************************************)
EXTENDS DaemonProofs

\* A program in the table is there with its map, if the descriptor it named the map by has not been closed.
MapsOk(hs) ==
  \A s \in Slots : hs[s].kind = "prog" =>
    /\ s \in DOMAIN kprogs
    /\ ~kprogs[s].moved => /\ hs[s].map = kprogs[s].map
                           /\ kprogs[s].map # 0 => hs[kprogs[s].map].kind = "map"

LinkedIn(hs, ids, f, id) == f \in DOMAIN ids /\ \E s \in Slots : hs[s] = Table!bpf_link_handler(id, ids[f])

\* From event i on, no event opens or closes descriptor f.
Quiet(f, i) == \A j \in i..Len(rb) : rb[j].type \in {"perf", "close"} => rb[j].fd # f

\* What the kernel has attached to an open uprobe is in the table, or an event for it waits.
Mirrored ==
  \A f \in AppFds :
    kfd[f].kind = "perf" /\ kfd[f].id \in DOMAIN kattached /\ ~kprogs[kattached[kfd[f].id]].moved =>
      \/ Quiet(f, 1) /\ LinkedIn(handlers, pid_fd_to_id_map, f, kattached[kfd[f].id])
      \/ \E i \in 1..Len(rb) : /\ rb[i].type \in {"set_bpf", "link"} /\ rb[i].fd = f
                               /\ named(rb[i]) = kattached[kfd[f].id] /\ Quiet(f, i)

\* A program that has not lost its map's descriptor can be relocated.
Relocatable ==
  \A i \in DOMAIN kprogs : /\ kprogs[i].fd = NoFd => kprogs[i].map = 0
                           /\ ~kprogs[i].moved /\ kprogs[i].fd # NoFd =>
                                kfd[kprogs[i].fd].kind = "map" /\ kfd[kprogs[i].fd].id = kprogs[i].map

MirrorInv == kept({"lost", "rejected", "reused", "collision", "full"}) /\ up => MapsOk(handlers) /\ Mirrored

-----------------------------------------------------------------------------
(* The map a program names by a descriptor. *)

\* A call that returns a descriptor leaves the others as they were.
LEMMA ReturnsElsewhere ==
  ASSUME KernelTypes, NEW f \in AppFds, NEW kind, NEW id, returns(f, kind, id)
  PROVE  kfd[f].kind = "closed" /\ \A g \in AppFds : g # f => kfd'[g] = kfd[g]
BY DEF returns, closed, KernelTypes

\* Every step keeps programs relocatable until the descriptor of their map is closed.
LEMMA RelocatableNext ==
  ASSUME Types, Relocatable, Next
  PROVE  Relocatable'
<1>0. KernelTypes /\ \A i \in DOMAIN kprogs : kprogs[i].fd \in AppFds \cup {NoFd} /\ kprogs[i].moved \in BOOLEAN
  BY Zenon DEF Types, KernelTypes
<1>1. ASSUME UNCHANGED kprogs,
             \/ \E f \in AppFds : kfd[f].kind = "closed" /\ \A g \in AppFds : g # f => kfd'[g] = kfd[g]
             \/ \A g \in AppFds : kfd'[g].kind = kfd[g].kind /\ kfd'[g].id = kfd[g].id
      PROVE  Relocatable'
  BY <1>0, <1>1, Zenon DEF Relocatable
<1>2. CASE \E n \in MapNames : map_create(n)
  BY <1>0, <1>1, <1>2, ReturnsElsewhere, Zenon DEF map_create
<1>3. CASE perf_event_open
  BY <1>0, <1>1, <1>3, ReturnsElsewhere, Zenon DEF perf_event_open
<1>4. CASE \E p, f \in AppFds : link_create(p, f)
  BY <1>0, <1>1, <1>4, ReturnsElsewhere, Zenon DEF link_create
<1>5. CASE prog_load_rejected \/ ioctl_elsewhere \/ \E p, f \in AppFds : ioctl_set_bpf(p, f)
  <2>1. UNCHANGED <<kprogs, kfd>>
    BY <1>5, Zenon DEF prog_load_rejected, ioctl_elsewhere, ioctl_set_bpf, kernel_vars
  <2> QED BY <1>1, <2>1, Zenon
<1>6. CASE \E p \in AppFds, on \in BOOLEAN : ioctl_enable(p, on)
  <2>1. PICK p \in AppFds, on \in BOOLEAN : UNCHANGED kprogs /\ kfd' = [kfd EXCEPT ![p].on = on]
    BY <1>6, Zenon DEF ioctl_enable
  <2>2. \A g \in AppFds : kfd'[g].kind = kfd[g].kind /\ kfd'[g].id = kfd[g].id
    BY <1>0, <2>1 DEF KernelTypes, Object
  <2> QED BY <1>1, <2>1, <2>2, Zenon
<1>7. CASE \E m \in AppFds \cup {NoFd} : prog_load(m)
  <2>1. PICK m \in AppFds \cup {NoFd}, f \in AppFds, id \in next_id(ProgIds, kprogs) :
          /\ m # NoFd => kfd[m].kind = "map"
          /\ returns(f, "prog", id)
          /\ kprogs' = put(kprogs, id, [fd |-> m, map |-> IF m # NoFd THEN kfd[m].id ELSE 0, moved |-> FALSE])
    BY <1>7, Zenon DEF prog_load
  <2>2. kfd[f].kind = "closed" /\ \A g \in AppFds : g # f => kfd'[g] = kfd[g]
    BY <1>0, <2>1, ReturnsElsewhere, Zenon
  <2> DEFINE new == [fd |-> m, map |-> IF m # NoFd THEN kfd[m].id ELSE 0, moved |-> FALSE]
  <2>3. IsPut(kprogs, id, new, kprogs')
    BY <2>1, PutIs, Zenon
  <2>4. /\ new.fd = NoFd => new.map = 0
        /\ new.fd # NoFd => kfd'[new.fd].kind = "map" /\ kfd'[new.fd].id = new.map
    BY <2>1, <2>2, Zenon
  <2> HIDE DEF new
  <2>5. ASSUME NEW i \in DOMAIN kprogs, i # id
        PROVE  /\ kprogs'[i].fd = NoFd => kprogs'[i].map = 0
               /\ ~kprogs'[i].moved /\ kprogs'[i].fd # NoFd =>
                    kfd'[kprogs'[i].fd].kind = "map" /\ kfd'[kprogs'[i].fd].id = kprogs'[i].map
    BY <1>0, <2>2, <2>3, <2>5 DEF Relocatable, IsPut
  <2> QED BY <2>3, <2>4, <2>5, Zenon DEF Relocatable, IsPut
<1>8. CASE \E f \in AppFds : close_fd(f)
  <2>1. PICK f \in AppFds : /\ kfd' = [kfd EXCEPT ![f] = closed]
                            /\ kprogs' = [i \in DOMAIN kprogs |-> [kprogs[i] EXCEPT !.moved = @ \/ kprogs[i].fd = f]]
    BY <1>8, Zenon DEF close_fd
  <2>2. \A g \in AppFds : g # f => kfd'[g] = kfd[g]
    BY <1>0, <2>1, Zenon DEF KernelTypes
  <2>3. /\ DOMAIN kprogs' = DOMAIN kprogs
        /\ \A i \in DOMAIN kprogs : kprogs'[i].fd = kprogs[i].fd /\ kprogs'[i].map = kprogs[i].map
    BY <2>1, Zenon DEF Types, KernelTypes
  <2>4. \A i \in DOMAIN kprogs : ~kprogs'[i].moved => ~kprogs[i].moved /\ kprogs[i].fd # f
    BY <2>1, Zenon DEF Types, KernelTypes
  <2> QED BY <1>0, <2>2, <2>3, <2>4 DEF Relocatable
<1>9. CASE handle_event
  BY <1>1, <1>9, EventStep, Zenon
<1> QED BY <1>2, <1>3, <1>4, <1>5, <1>6, <1>7, <1>8, <1>9, Zenon DEF Next, application

-----------------------------------------------------------------------------
(* What is attached: the system calls. *)

\* No two descriptors stand for one uprobe.
Distinct == \A f, g \in AppFds : kfd[f].kind = "perf" /\ kfd[g].kind = "perf" /\ kfd[f].id = kfd[g].id => f = g

\* A descriptor of a uprobe was one before, or is that of the uprobe just opened.
SameUprobe(g) == kfd[g].kind = "perf" /\ kfd[g].id = kfd'[g].id
NewUprobe(g) ==
  /\ kfd[g].kind = "closed" /\ kfd'[g].id = perfs + 1 /\ UNCHANGED kattached
  /\ \A f \in AppFds : f # g => kfd'[f] = kfd[f]
UprobesKept == \A g \in AppFds : kfd'[g].kind = "perf" => SameUprobe(g)

\* A new map, program or link is no uprobe.
LEMMA OtherOpened ==
  ASSUME KernelTypes, NEW f \in AppFds, NEW kind \in {"map", "prog", "link"}, NEW id \in Nat, returns(f, kind, id)
  PROVE  UprobesKept
<1>1. Opened(f, kind, id)
  BY ReturnsOpens, Zenon
<1>2. kfd'[f].kind # "perf" /\ \A g \in AppFds : g # f => kfd'[g] = kfd[g]
  BY <1>1, Zenon DEF Opened
<1> QED BY <1>2, Zenon DEF UprobesKept, SameUprobe

\* A call leaves the uprobes open or opens a new one.
LEMMA CallUprobes ==
  ASSUME Types, application
  PROVE  UprobesKept \/ (perf_event_open /\ \E f \in AppFds : NewUprobe(f))
<1>0. KernelTypes
  BY Zenon DEF Types
<1>1. CASE \E n \in MapNames : map_create(n)
  <2>1. PICK f \in AppFds, id \in next_id(MapIds, kmaps) : returns(f, "map", id)
    BY <1>1, Zenon DEF map_create
  <2>2. id \in Nat
    BY ConstantFacts, Zenon DEF next_id
  <2> QED BY <1>0, <2>1, <2>2, OtherOpened, Zenon
<1>2. CASE \E m \in AppFds \cup {NoFd} : prog_load(m)
  <2>1. PICK f \in AppFds, id \in next_id(ProgIds, kprogs) : returns(f, "prog", id)
    BY <1>2, Zenon DEF prog_load
  <2>2. id \in Nat
    BY ConstantFacts, Zenon DEF next_id
  <2> QED BY <1>0, <2>1, <2>2, OtherOpened, Zenon
<1>3. CASE \E p, f \in AppFds : link_create(p, f)
  <2>1. PICK p \in AppFds, f \in AppFds, l \in AppFds : returns(l, "link", kfd[f].id)
    BY <1>3, Zenon DEF link_create
  <2>2. kfd[f].id \in Nat
    BY <1>0, Zenon DEF KernelTypes, Object
  <2> QED BY <1>0, <2>1, <2>2, OtherOpened, Zenon
<1>4. CASE perf_event_open
  <2>1. PICK f \in AppFds : returns(f, "perf", perfs + 1) /\ UNCHANGED kattached
    BY <1>4, Zenon DEF perf_event_open
  <2>2. perfs + 1 \in Nat
    BY <1>0 DEF KernelTypes
  <2>3. Opened(f, "perf", perfs + 1)
    BY <1>0, <2>1, <2>2, ReturnsOpens, Zenon
  <2>4. NewUprobe(f)
    BY <2>1, <2>3, Zenon DEF Opened, NewUprobe
  <2> QED BY <1>4, <2>4, Zenon
<1>5. CASE prog_load_rejected \/ ioctl_elsewhere \/ \E p, f \in AppFds : ioctl_set_bpf(p, f)
  <2>1. UNCHANGED kfd
    BY <1>5, Zenon DEF prog_load_rejected, ioctl_elsewhere, ioctl_set_bpf, kernel_vars
  <2> QED BY <2>1, Zenon DEF UprobesKept, SameUprobe
<1>6. CASE \E p \in AppFds, on \in BOOLEAN : ioctl_enable(p, on)
  <2>1. PICK p \in AppFds, on \in BOOLEAN : kfd' = [kfd EXCEPT ![p].on = on]
    BY <1>6, Zenon DEF ioctl_enable
  <2>2. \A g \in AppFds : kfd'[g].kind = kfd[g].kind /\ kfd'[g].id = kfd[g].id
    BY <1>0, <2>1 DEF KernelTypes, Object
  <2> QED BY <2>2, Zenon DEF UprobesKept, SameUprobe
<1>7. CASE \E f \in AppFds : close_fd(f)
  <2>1. PICK f \in AppFds : kfd' = [kfd EXCEPT ![f] = closed]
    BY <1>7, Zenon DEF close_fd
  <2>2. \A g \in AppFds : kfd'[g] = kfd[g] \/ kfd'[g].kind = "closed"
    BY <1>0, <2>1 DEF KernelTypes, closed
  <2> QED BY <2>2, Zenon DEF UprobesKept, SameUprobe
<1> QED BY <1>1, <1>2, <1>3, <1>4, <1>5, <1>6, <1>7, Zenon DEF application

\* Every step keeps the descriptors of uprobes apart.
LEMMA DistinctNext ==
  ASSUME Types, Distinct, [Next]_vars
  PROVE  Distinct'
<1>1. CASE application
  <2>1. CASE UprobesKept
    BY <2>1, Zenon DEF UprobesKept, SameUprobe, Distinct
  <2>2. CASE \E f \in AppFds : NewUprobe(f)
    <3>1. PICK f \in AppFds : NewUprobe(f)
      BY <2>2, Zenon
    <3>2. \A g \in AppFds : kfd[g].kind = "perf" => kfd[g].id # perfs + 1
      BY DEF Types, KernelTypes
    <3>3. ASSUME NEW g \in AppFds, NEW h \in AppFds, kfd'[g].kind = "perf", kfd'[h].kind = "perf", kfd'[g].id = kfd'[h].id
          PROVE  g = h
      <4>1. kfd'[f].id = perfs + 1 /\ (g # f => kfd'[g] = kfd[g]) /\ (h # f => kfd'[h] = kfd[h])
        BY <3>1, Zenon DEF NewUprobe
      <4> QED BY <3>2, <3>3, <4>1, Zenon DEF Distinct
    <3> QED BY <3>3, Zenon DEF Distinct
  <2> QED BY <1>1, <2>1, <2>2, CallUprobes, Zenon
<1>2. CASE handle_event
  BY <1>2, EventStep, Zenon DEF Distinct
<1>3. CASE UNCHANGED vars
  BY <1>3, Zenon DEF Distinct, vars, kernel_vars
<1> QED BY <1>1, <1>2, <1>3, Zenon DEF Next

\* Programs stay, with their maps.
ProgsKept ==
  \A i \in DOMAIN kprogs : /\ i \in DOMAIN kprogs' /\ kprogs'[i].map = kprogs[i].map
                           /\ ~kprogs'[i].moved => ~kprogs[i].moved

\* A call leaves loaded programs as they are, except that a close may take away the descriptor of their map.
LEMMA CallProgs ==
  ASSUME Types, application
  PROVE  ProgsKept
<1>1. CASE UNCHANGED kprogs
  BY <1>1, Zenon DEF ProgsKept
<1>2. CASE \E m \in AppFds \cup {NoFd} : prog_load(m)
  <2>1. PICK id, x : id \in next_id(ProgIds, kprogs) /\ kprogs' = put(kprogs, id, x)
    BY <1>2, Zenon DEF prog_load
  <2>2. IsPut(kprogs, id, x, kprogs') /\ id \notin DOMAIN kprogs
    BY <2>1, PutIs, Zenon DEF next_id
  <2> QED BY <2>2, Zenon DEF ProgsKept, IsPut
<1>3. CASE \E f \in AppFds : close_fd(f)
  <2>1. PICK f \in AppFds : kprogs' = [i \in DOMAIN kprogs |-> [kprogs[i] EXCEPT !.moved = @ \/ kprogs[i].fd = f]]
    BY <1>3, Zenon DEF close_fd
  <2>2. \A i \in DOMAIN kprogs : kprogs[i] \in [fd : AppFds \cup {NoFd}, map : DOMAIN kmaps \cup {0}, moved : BOOLEAN]
    BY Zenon DEF Types, KernelTypes
  <2> QED BY <2>1, <2>2 DEF ProgsKept
<1>4. CASE \/ \E n \in MapNames : map_create(n)
           \/ prog_load_rejected \/ perf_event_open \/ ioctl_elsewhere
           \/ \E p, f \in AppFds : ioctl_set_bpf(p, f)
           \/ \E p \in AppFds, on \in BOOLEAN : ioctl_enable(p, on)
           \/ \E p, f \in AppFds : link_create(p, f)
  <2>1. UNCHANGED kprogs
    BY <1>4, Zenon DEF map_create, prog_load_rejected, perf_event_open, ioctl_elsewhere, ioctl_set_bpf, ioctl_enable,
                       link_create, kernel_vars
  <2> QED BY <1>1, <2>1, Zenon
<1> QED BY <1>2, <1>3, <1>4, Zenon DEF application

\* What waits still waits, and what a waiting link event names is what it named.
Longer ==
  /\ Len(rb) \in Nat /\ Len(rb') \in Nat /\ Len(rb') >= Len(rb)
  /\ \A i \in 1..Len(rb) : rb'[i] = rb[i]

\* An event sent is the last one that waits.
LEMMA LongerBy ==
  ASSUME Types, NEW e, rb' = Append(rb, e)
  PROVE  Longer /\ Len(rb') = Len(rb) + 1 /\ rb'[Len(rb')] = e
<1>1. Len(rb) \in Nat /\ rb \in Seq(Event)
  BY DEF Types, TracerTypes
<1> QED BY <1>1 DEF Longer

\* A uprobe has the program it had, and no later event opens or closes its descriptor.
AsBefore(f) ==
  /\ SameUprobe(f) /\ kfd[f].id \in DOMAIN kattached /\ kattached'[kfd[f].id] = kattached[kfd[f].id]
  /\ \A j \in (Len(rb) + 1)..Len(rb') : rb'[j].type \in {"perf", "close"} => rb'[j].fd # f

\* The last event is for the program the uprobe has now.
Announced(f) ==
  \E e : /\ Len(rb') >= 1 /\ e = rb'[Len(rb')] /\ e.type \in {"set_bpf", "link"} /\ e.fd = f
         /\ Named(bpf_fd_map', e) = kattached'[kfd'[f].id]

AttachesTold ==
  \A f \in AppFds : kfd'[f].kind = "perf" /\ kfd'[f].id \in DOMAIN kattached' => AsBefore(f) \/ Announced(f)

\* A call that attaches nothing has nothing to tell.
LEMMA ToldNothing ==
  ASSUME Types, rb' = rb, UNCHANGED kattached, UprobesKept
  PROVE  Longer /\ AttachesTold
<1>1. Len(rb) \in Nat
  BY DEF Types, TracerTypes
<1>2. Longer
  BY <1>1 DEF Longer
<1>3. \A j \in (Len(rb) + 1)..Len(rb') : FALSE
  BY <1>1
<1> QED BY <1>2, <1>3, Zenon DEF AttachesTold, AsBefore, UprobesKept, SameUprobe

\* A call that sends e, for a uprobe that has a program from now on if e is an attach event.
LEMMA ToldLast ==
  ASSUME Types, NEW e, rb' = Append(rb, e),
         \A f \in AppFds : kfd'[f].kind = "perf" /\ kfd'[f].id \in DOMAIN kattached' =>
           \/ /\ SameUprobe(f) /\ kfd[f].id \in DOMAIN kattached /\ kattached'[kfd[f].id] = kattached[kfd[f].id]
              /\ e.type \in {"perf", "close"} => e.fd # f
           \/ e.type \in {"set_bpf", "link"} /\ e.fd = f /\ Named(bpf_fd_map', e) = kattached'[kfd'[f].id]
  PROVE  Longer /\ AttachesTold
<1>1. Longer /\ Len(rb') = Len(rb) + 1 /\ rb'[Len(rb')] = e
  BY LongerBy, Zenon
<1>2. Len(rb') >= 1 /\ \A j \in (Len(rb) + 1)..Len(rb') : j = Len(rb')
  BY <1>1 DEF Longer
<1>3. ASSUME NEW f \in AppFds, kfd'[f].kind = "perf", kfd'[f].id \in DOMAIN kattached'
      PROVE  AsBefore(f) \/ Announced(f)
  <2>1. CASE /\ SameUprobe(f) /\ kfd[f].id \in DOMAIN kattached /\ kattached'[kfd[f].id] = kattached[kfd[f].id]
             /\ e.type \in {"perf", "close"} => e.fd # f
    BY <1>1, <1>2, <2>1, Zenon DEF AsBefore
  <2>2. CASE e.type \in {"set_bpf", "link"} /\ e.fd = f /\ Named(bpf_fd_map', e) = kattached'[kfd'[f].id]
    BY <1>1, <1>2, <2>2, Zenon DEF Announced
  <2> QED BY <1>3, <2>1, <2>2, Zenon
<1> QED BY <1>1, <1>3, Zenon DEF AttachesTold

\* A waiting event names the program it named, or a reuse is noted.
LEMMA CallNames ==
  ASSUME Types, application, "lost" \notin spoilt'
  PROVE  NamesKept
<1>1. CASE UNCHANGED bpf_fd_map
  BY <1>1, Zenon DEF NamesKept
<1>2. CASE \E n \in MapNames : map_create(n)
  <2>1. PICK f, x : bpf_fd_map' = put(bpf_fd_map, f, x) /\ reused_if(f) \subseteq spoilt'
    BY <1>2, Zenon DEF map_create, set_bpf_fd_data
  <2> QED BY <2>1, PutIs, NamesPut, Zenon
<1>3. CASE \E m \in AppFds \cup {NoFd} : prog_load(m)
  <2>1. PICK f, x : bpf_fd_map' = put(bpf_fd_map, f, x) /\ reused_if(f) \subseteq spoilt'
    BY <1>3, Zenon DEF prog_load, set_bpf_fd_data
  <2> QED BY <2>1, PutIs, NamesPut, Zenon
<1>4. CASE perf_event_open \/ \E p, f \in AppFds : link_create(p, f)
  <2>1. PICK f, x : bpf_fd_map' = put(bpf_fd_map, f, x) /\ reused_if(f) \subseteq spoilt'
    BY <1>4, Zenon DEF perf_event_open, link_create, set_bpf_fd_data
  <2> QED BY <2>1, PutIs, NamesPut, Zenon
<1>5. CASE \/ prog_load_rejected \/ ioctl_elsewhere
           \/ \E p, f \in AppFds : ioctl_set_bpf(p, f)
           \/ \E p \in AppFds, on \in BOOLEAN : ioctl_enable(p, on)
  <2>1. UNCHANGED bpf_fd_map
    BY <1>5, Zenon DEF prog_load_rejected, ioctl_elsewhere, ioctl_set_bpf, ioctl_enable, traces_ioctl
  <2> QED BY <1>1, <2>1, Zenon
<1>6. CASE \E f \in AppFds : close_fd(f)
  <2>1. PICK f \in AppFds : close_fd(f)
    BY <1>6, Zenon
  <2>2. \/ UNCHANGED bpf_fd_map
        \/ bpf_fd_map' = drop(bpf_fd_map, f) /\ reused_if(f) \subseteq spoilt'
    BY <2>1, Zenon DEF close_fd
  <2>3. CASE bpf_fd_map' = drop(bpf_fd_map, f) /\ reused_if(f) \subseteq spoilt'
    <3> SUFFICES ASSUME NEW i \in 1..Len(rb), rb[i].type = "link", "reused" \notin spoilt', rb[i].prog \in DOMAIN bpf_fd_map
                 PROVE  rb[i].prog \in DOMAIN bpf_fd_map' /\ bpf_fd_map'[rb[i].prog] = bpf_fd_map[rb[i].prog]
      BY Zenon DEF NamesKept
    <3>1. rb[i].prog # f
      BY <2>3, Zenon DEF reused_if
    <3> QED BY <2>3, <3>1, Zenon DEF drop
  <2> QED BY <1>1, <2>2, <2>3, Zenon
<1> QED BY <1>2, <1>3, <1>4, <1>5, <1>6, Zenon DEF application

\* The uprobe that PERF_EVENT_IOC_SET_BPF or BPF_LINK_CREATE gives a program to is announced with it.
LEMMA ToldAttach ==
  ASSUME Types, Distinct, NEW p \in AppFds, NEW f \in AppFds, attachable(p, f), NEW e, rb' = Append(rb, e),
         e.type \in {"set_bpf", "link"}, e.fd = p, Named(bpf_fd_map', e) = kfd[f].id,
         UprobesKept, kfd'[p] = kfd[p], kattached' = put(kattached, kfd[p].id, kfd[f].id)
  PROVE  Longer /\ AttachesTold
<1>1. IsPut(kattached, kfd[p].id, kfd[f].id, kattached') /\ kfd[p].kind = "perf" /\ kfd[p].id \notin DOMAIN kattached
  BY PutIs, Zenon DEF attachable
<1>2. e.type \notin {"perf", "close"}
  OBVIOUS
<1>3. ASSUME NEW g \in AppFds, kfd'[g].kind = "perf", kfd'[g].id \in DOMAIN kattached'
      PROVE  \/ SameUprobe(g) /\ kfd[g].id \in DOMAIN kattached /\ kattached'[kfd[g].id] = kattached[kfd[g].id]
             \/ g = p /\ kattached'[kfd'[g].id] = kfd[f].id
  <2>1. SameUprobe(g) /\ kfd'[g].id = kfd[g].id /\ kfd[g].kind = "perf"
    BY <1>3, Zenon DEF UprobesKept, SameUprobe
  <2>2. CASE kfd[g].id = kfd[p].id
    BY <1>1, <2>1, <2>2, Zenon DEF Distinct, IsPut
  <2>3. CASE kfd[g].id # kfd[p].id
    BY <1>1, <1>3, <2>1, <2>3, Zenon DEF IsPut
  <2> QED BY <2>2, <2>3, Zenon
<1>4. \A g \in AppFds : kfd'[g].kind = "perf" /\ kfd'[g].id \in DOMAIN kattached' =>
        \/ /\ SameUprobe(g) /\ kfd[g].id \in DOMAIN kattached /\ kattached'[kfd[g].id] = kattached[kfd[g].id]
           /\ e.type \in {"perf", "close"} => e.fd # g
        \/ e.type \in {"set_bpf", "link"} /\ e.fd = g /\ Named(bpf_fd_map', e) = kattached'[kfd'[g].id]
  BY <1>2, <1>3, Zenon
<1> QED BY <1>4, ToldLast, Zenon

\* PERF_EVENT_IOC_SET_BPF tells of the attach.
LEMMA ToldSetBpf ==
  ASSUME Types, Distinct, "lost" \notin spoilt', NEW p \in AppFds, NEW f \in AppFds, ioctl_set_bpf(p, f)
  PROVE  Longer /\ AttachesTold
<1> DEFINE e == [type |-> "set_bpf", fd |-> p, prog |-> prog_id_at(f)]
<1>1. /\ kfd[p].kind = "perf" /\ traces_ioctl(p, "set_bpf", f) /\ UNCHANGED kfd
      /\ kattached' = IF attachable(p, f) THEN put(kattached, kfd[p].id, kfd[f].id) ELSE kattached
  BY Zenon DEF ioctl_set_bpf
<1>2. rb' = Append(rb, e) /\ UNCHANGED bpf_fd_map
  BY <1>1, IoctlSends, Zenon
<1>3. UprobesKept
  BY <1>1, Zenon DEF UprobesKept, SameUprobe
<1>4. CASE attachable(p, f)
  <2>1. kfd[f].kind = "prog"
    BY <1>4, Zenon DEF attachable
  <2>2. f \in DOMAIN bpf_fd_map /\ bpf_fd_map[f] = [type |-> "prog", kernel_id |-> kfd[f].id]
    BY <2>1, Zenon DEF Types, Known
  <2>3. prog_id_at(f) = kfd[f].id
    BY <2>2 DEF prog_id_at
  <2>4. e.type = "set_bpf" /\ e.fd = p /\ Named(bpf_fd_map', e) = kfd[f].id
    BY <2>3, Zenon DEF Named
  <2>5. kattached' = put(kattached, kfd[p].id, kfd[f].id) /\ kfd'[p] = kfd[p]
    BY <1>1, <1>4, Zenon
  <2> HIDE DEF e
  <2> QED BY <1>2, <1>3, <1>4, <2>4, <2>5, ToldAttach, Zenon
<1>5. CASE ~attachable(p, f)
  <2>1. kattached' = kattached /\ e.type \notin {"perf", "close"}
    BY <1>1, <1>5
  <2> HIDE DEF e
  <2> QED BY <1>2, <1>3, <2>1, ToldLast, Zenon DEF UprobesKept, SameUprobe
<1> QED BY <1>4, <1>5, Zenon

\* BPF_LINK_CREATE tells of the attach.
LEMMA ToldLink ==
  ASSUME Types, Distinct, "lost" \notin spoilt', NEW p \in AppFds, NEW f \in AppFds, link_create(p, f)
  PROVE  Longer /\ AttachesTold
<1> DEFINE e == [type |-> "link", fd |-> p, prog |-> f]
<1>1. PICK l \in AppFds :
        /\ returns(l, "link", kfd[f].id)
        /\ bpf_fd_map' = put(bpf_fd_map, l, [type |-> "others", kernel_id |-> bpf_progs_new_fd_args_map])
        /\ submits(e) /\ lost_if(TRUE) \subseteq spoilt'
  BY Zenon DEF link_create, set_bpf_fd_data
<1>2. attachable(p, f) /\ kattached' = put(kattached, kfd[p].id, kfd[f].id)
  BY Zenon DEF link_create
<1>3. rb' = Append(rb, e)
  BY <1>1, Submitted, Zenon
<1>4. kfd[f].id \in Nat /\ KernelTypes /\ kfd[p].kind = "perf" /\ kfd[f].kind = "prog"
  BY <1>2, Zenon DEF Types, KernelTypes, Object, attachable
<1>5. Opened(l, "link", kfd[f].id) /\ UprobesKept
  BY <1>1, <1>4, ReturnsOpens, OtherOpened, Zenon
<1>6. p # l /\ f # l /\ kfd'[p] = kfd[p]
  BY <1>4, <1>5, Zenon DEF Opened
<1>7. f \in DOMAIN bpf_fd_map /\ bpf_fd_map[f].kernel_id = kfd[f].id
  <2>1. f \in DOMAIN bpf_fd_map /\ bpf_fd_map[f] = [type |-> "prog", kernel_id |-> kfd[f].id]
    BY <1>4, Zenon DEF Types, Known
  <2> QED BY <2>1
<1>8. bpf_fd_map'[f] = bpf_fd_map[f]
  <2>1. IsPut(bpf_fd_map, l, [type |-> "others", kernel_id |-> bpf_progs_new_fd_args_map], bpf_fd_map')
    BY <1>1, PutIs, Zenon
  <2> QED BY <1>6, <1>7, <2>1, Zenon DEF IsPut
<1>9. e.type = "link" /\ e.fd = p /\ Named(bpf_fd_map', e) = kfd[f].id
  BY <1>7, <1>8, Zenon DEF Named
<1> HIDE DEF e
<1> QED BY <1>2, <1>3, <1>5, <1>6, <1>9, ToldAttach, Zenon

\* A new uprobe has nothing attached.
LEMMA ToldPerfOpen ==
  ASSUME Types, "lost" \notin spoilt', perf_event_open
  PROVE  Longer /\ AttachesTold
<1> DEFINE e(f) == [type |-> "perf", fd |-> f, perf |-> perfs + 1]
<1>1. PICK f \in AppFds : /\ returns(f, "perf", perfs + 1) /\ UNCHANGED kattached
                          /\ submits(e(f)) /\ lost_if(TRUE) \subseteq spoilt'
  BY Zenon DEF perf_event_open
<1>2. rb' = Append(rb, e(f)) /\ e(f).fd = f
  BY <1>1, Submitted, Zenon
<1>3. Opened(f, "perf", perfs + 1)
  BY <1>1, ReturnsOpens DEF Types, KernelTypes
<1>4. perfs + 1 \notin DOMAIN kattached
  BY DEF Types, KernelTypes
<1> HIDE DEF e
<1>5. \A g \in AppFds : kfd'[g].kind = "perf" /\ kfd'[g].id \in DOMAIN kattached' =>
        SameUprobe(g) /\ kfd[g].id \in DOMAIN kattached /\ kattached'[kfd[g].id] = kattached[kfd[g].id] /\ g # f
  BY <1>1, <1>3, <1>4, Zenon DEF Opened, SameUprobe
<1> QED BY <1>2, <1>5, ToldLast, Zenon

\* An enable or disable attaches nothing.
LEMMA ToldEnable ==
  ASSUME Types, "lost" \notin spoilt', UprobesKept, NEW p \in AppFds, NEW on \in BOOLEAN, ioctl_enable(p, on)
  PROVE  Longer /\ AttachesTold
<1>1. PICK req \in {"enable", "disable"} : kfd[p].kind = "perf" /\ traces_ioctl(p, req, p) /\ UNCHANGED kattached
  BY Zenon DEF ioctl_enable
<1>2. PICK e : e = [type |-> req, fd |-> p, prog |-> IF req = "set_bpf" THEN prog_id_at(p) ELSE 0]
  BY Zenon
<1>3. rb' = Append(rb, e) /\ e.type \notin {"perf", "close"}
  BY <1>1, <1>2, IoctlSends
<1> QED BY <1>1, <1>3, ToldLast, Zenon DEF UprobesKept, SameUprobe

\* A close attaches nothing.
LEMMA ToldClose ==
  ASSUME Types, "lost" \notin spoilt', UprobesKept, NEW f \in AppFds, close_fd(f)
  PROVE  Longer /\ AttachesTold
<1> DEFINE e == [type |-> "close", fd |-> f]
<1>1. kfd' = [kfd EXCEPT ![f] = closed] /\ UNCHANGED kattached /\ (rb' = rb \/ rb' = Append(rb, e))
  BY Zenon DEF close_fd
<1>2. kfd'[f].kind # "perf"
  BY <1>1 DEF Types, KernelTypes, closed
<1>3. \A g \in AppFds : kfd'[g].kind = "perf" => SameUprobe(g) /\ kfd'[g].id = kfd[g].id /\ g # f
  BY <1>2, Zenon DEF UprobesKept, SameUprobe
<1>4. e.fd = f
  OBVIOUS
<1> HIDE DEF e
<1> QED BY <1>1, <1>3, <1>4, ToldNothing, ToldLast, Zenon

\* Every attach of the kernel sends an event that names it.
LEMMA CallTold ==
  ASSUME Types, Distinct, ReplayInv, application, "lost" \notin spoilt'
  PROVE  Longer /\ AttachesTold
<1>1. "lost" \notin spoilt /\ (UprobesKept \/ perf_event_open)
  BY ApplicationStep, CallUprobes, Zenon
<1>2. CASE perf_event_open
  BY <1>2, ToldPerfOpen, Zenon
<1> SUFFICES ASSUME UprobesKept PROVE Longer /\ AttachesTold
  BY <1>1, <1>2, Zenon
<1>3. CASE \/ \E n \in MapNames : map_create(n)
           \/ \E m \in AppFds \cup {NoFd} : prog_load(m)
           \/ prog_load_rejected
  <2>1. UNCHANGED <<rb, kattached>>
    BY <1>3, Zenon DEF map_create, prog_load, prog_load_rejected, kernel_vars
  <2> QED BY <2>1, ToldNothing, Zenon
<1>4. CASE ioctl_elsewhere
  <2>1. traces_ioctl(NoFd, "other", NoFd) /\ UNCHANGED kattached
    BY <1>4, Zenon DEF ioctl_elsewhere, kernel_vars
  <2>2. ioctl_param_start = None /\ NoFd \notin DOMAIN bpf_fd_map
    BY <1>1, ConstantFacts, Zenon DEF ReplayInv, Types, TracerTypes
  <2>3. rb' = rb
    BY <2>1, <2>2, Zenon DEF traces_ioctl
  <2> QED BY <2>1, <2>3, ToldNothing, Zenon
<1> QED BY <1>2, <1>3, <1>4, ToldSetBpf, ToldLink, ToldEnable, ToldClose, Zenon DEF application

\* No event for a descriptor that a call leaves alone.
LEMMA QuietStays ==
  ASSUME Longer, NEW f, AsBefore(f), NEW i \in 1..(Len(rb) + 1), Quiet(f, i)
  PROVE  Quiet(f, i)'
<1> SUFFICES ASSUME NEW j \in i..Len(rb'), rb'[j].type \in {"perf", "close"} PROVE rb'[j].fd # f
  BY Zenon DEF Quiet
<1>1. CASE j \in 1..Len(rb)
  <2>1. j \in i..Len(rb) /\ rb'[j] = rb[j]
    BY <1>1 DEF Longer
  <2> QED BY <2>1, Zenon DEF Quiet
<1>2. CASE j \in (Len(rb) + 1)..Len(rb')
  BY <1>2, Zenon DEF AsBefore
<1> QED BY <1>1, <1>2 DEF Longer

\* What waits names what it named, if no descriptor was reused.
LEMMA NamesStay ==
  ASSUME ReplayInv, NamesKept, "lost" \notin spoilt, "reused" \notin spoilt, "reused" \notin spoilt',
         NEW i \in 1..Len(rb), rb[i].type \in {"set_bpf", "link"}
  PROVE  Named(bpf_fd_map', rb[i]) = Named(bpf_fd_map, rb[i])
<1>1. PICK v : Replay(v)
  BY Zenon DEF ReplayInv
<1>2. rb[i].type = "link" => rb[i].prog \in DOMAIN bpf_fd_map
  BY <1>1, Zenon DEF Replay, EventOk
<1> QED BY <1>2, Zenon DEF Named, NamesKept

Unspoilt == kept({"lost", "rejected", "reused", "collision", "full"})

\* What unspoilt means, mishap by mishap.
LEMMA UnspoiltIs ==
  ASSUME Unspoilt
  PROVE  "lost" \notin spoilt /\ "rejected" \notin spoilt /\ "reused" \notin spoilt /\ "collision" \notin spoilt /\ "full" \notin spoilt
BY Zenon DEF Unspoilt, kept

\* What is unspoilt was unspoilt before.
LEMMA UnspoiltWas ==
  ASSUME Unspoilt', spoilt \subseteq spoilt'
  PROVE  /\ Unspoilt
         /\ "lost" \notin spoilt' /\ "reused" \notin spoilt' /\ "collision" \notin spoilt' /\ "full" \notin spoilt'
BY DEF Unspoilt, kept

\* A call leaves the programs of the table their maps.
LEMMA MapsStay ==
  ASSUME MapsOk(handlers), ProgsKept, handlers' = handlers
  PROVE  MapsOk(handlers)'
BY Zenon DEF MapsOk, ProgsKept

\* Every call of the application keeps attaches mirrored or waiting.
LEMMA MirrorCall ==
  ASSUME Types, Distinct, ReplayInv, MirrorInv, application
  PROVE  MirrorInv'
<1> SUFFICES ASSUME Unspoilt', up' PROVE MapsOk(handlers)' /\ Mirrored'
  BY Zenon DEF MirrorInv, Unspoilt
<1>1. spoilt \subseteq spoilt' /\ UNCHANGED <<handlers, pid_fd_to_id_map, up>>
  BY ApplicationStep, Zenon DEF daemon_vars
<1>2. Unspoilt /\ "lost" \notin spoilt' /\ "reused" \notin spoilt' /\ up
  BY <1>1, UnspoiltWas, Zenon
<1>3. MapsOk(handlers) /\ Mirrored
  BY <1>2, Zenon DEF MirrorInv, Unspoilt
<1>4. Longer /\ AttachesTold /\ NamesKept /\ ProgsKept
  BY <1>2, CallTold, CallNames, CallProgs, Zenon
<1>5. MapsOk(handlers)'
  BY <1>1, <1>3, <1>4, MapsStay, Zenon
<1>6. ASSUME NEW f \in AppFds, kfd'[f].kind = "perf", kfd'[f].id \in DOMAIN kattached', ~kprogs'[kattached'[kfd'[f].id]].moved
      PROVE  \/ Quiet(f, 1)' /\ LinkedIn(handlers', pid_fd_to_id_map', f, kattached'[kfd'[f].id])
             \/ \E i \in 1..Len(rb') : /\ rb'[i].type \in {"set_bpf", "link"} /\ rb'[i].fd = f
                                       /\ Named(bpf_fd_map', rb'[i]) = kattached'[kfd'[f].id] /\ Quiet(f, i)'
  <2>1. CASE AsBefore(f)
    <3>1. PICK id : /\ kfd[f].kind = "perf" /\ kfd[f].id \in DOMAIN kattached
                    /\ id = kattached[kfd[f].id] /\ id = kattached'[kfd'[f].id] /\ ~kprogs'[id].moved
      BY <1>6, <2>1, Zenon DEF AsBefore, SameUprobe
    <3>2. id \in DOMAIN kprogs
      BY <3>1, Zenon DEF Types, KernelTypes
    <3>3. ~kprogs[id].moved
      BY <1>4, <3>1, <3>2, Zenon DEF ProgsKept
    <3>4. CASE Quiet(f, 1) /\ LinkedIn(handlers, pid_fd_to_id_map, f, id)
      <4>1. 1 \in 1..(Len(rb) + 1)
        BY <1>4 DEF Longer
      <4>2. Quiet(f, 1)'
        BY <1>4, <2>1, <3>4, <4>1, QuietStays, Zenon
      <4> QED BY <1>1, <3>1, <3>4, <4>2, Zenon
    <3>5. ASSUME NEW i \in 1..Len(rb), rb[i].type \in {"set_bpf", "link"}, rb[i].fd = f, named(rb[i]) = id, Quiet(f, i)
          PROVE  \E k \in 1..Len(rb') : /\ rb'[k].type \in {"set_bpf", "link"} /\ rb'[k].fd = f
                                        /\ Named(bpf_fd_map', rb'[k]) = id /\ Quiet(f, k)'
      <4>1. i \in 1..(Len(rb) + 1) /\ i \in 1..Len(rb') /\ rb'[i] = rb[i]
        BY <1>4 DEF Longer
      <4>2. Quiet(f, i)'
        BY <1>4, <2>1, <3>5, <4>1, QuietStays, Zenon
      <4>3. Named(bpf_fd_map', rb[i]) = id
        BY <1>2, <1>4, <3>5, UnspoiltIs, NamesStay, Zenon DEF named
      <4> QED BY <3>5, <4>1, <4>2, <4>3, Zenon
    <3> QED BY <1>3, <3>1, <3>3, <3>4, <3>5, Zenon DEF Mirrored
  <2>2. CASE Announced(f)
    <3>1. PICK e : /\ Len(rb') >= 1 /\ e = rb'[Len(rb')] /\ e.type \in {"set_bpf", "link"} /\ e.fd = f
                   /\ Named(bpf_fd_map', e) = kattached'[kfd'[f].id]
      BY <2>2, Zenon DEF Announced
    <3>2. PICK n \in 1..Len(rb') : n = Len(rb') /\ \A j \in n..Len(rb') : j = n
      BY <1>4, <3>1 DEF Longer
    <3>3. e.type \notin {"perf", "close"}
      BY <3>1
    <3>4. Quiet(f, n)'
      BY <3>1, <3>2, <3>3, Zenon DEF Quiet
    <3> QED BY <3>1, <3>2, <3>4, Zenon
  <2> QED BY <1>4, <1>6, <2>1, <2>2, Zenon DEF AttachesTold
<1> QED BY <1>5, <1>6, Zenon DEF Mirrored, named

-----------------------------------------------------------------------------
(* What is attached: the daemon. *)

\* Maps stay in the table; so does a link, unless its uprobe is closed; so do the slots of the other descriptors.
TableStays ==
  /\ \A s \in Slots :
       /\ handlers[s].kind = "map" => handlers'[s].kind = "map"
       /\ handlers[s].kind = "link" =>
            \/ handlers'[s] = handlers[s]
            \/ /\ rb[1].type = "close" /\ rb[1].fd \in DOMAIN pid_fd_to_id_map
               /\ pid_fd_to_id_map[rb[1].fd] \in {handlers[s].prog_id, handlers[s].attach_target_id}
  /\ \A f \in DOMAIN pid_fd_to_id_map :
       (rb[1].type \in {"perf", "close"} => rb[1].fd # f) => f \in DOMAIN pid_fd_to_id_map' /\ pid_fd_to_id_map'[f] = pid_fd_to_id_map[f]

\* A new uprobe takes an unused slot.
LEMMA TableStaysStored ==
  ASSUME Types, rb # <<>>, bpftime_uprobe_create_server(rb[1])
  PROVE  TableStays
<1>1. CASE UNCHANGED <<handlers, pid_fd_to_id_map>>
  BY <1>1, Zenon DEF TableStays
<1>2. ASSUME NEW t \in Slots, handlers[t].kind = "unused", NEW h, Stored(handlers, t, h, handlers'),
             IsPut(pid_fd_to_id_map, rb[1].fd, t, pid_fd_to_id_map')
      PROVE  TableStays
  <2>1. rb[1].type = "perf"
    BY Zenon DEF bpftime_uprobe_create_server
  <2>2. \A s \in Slots : handlers[s].kind # "unused" => handlers'[s] = handlers[s]
    BY <1>2, Zenon DEF Stored
  <2>3. \A f \in DOMAIN pid_fd_to_id_map :
          rb[1].fd # f => f \in DOMAIN pid_fd_to_id_map' /\ pid_fd_to_id_map'[f] = pid_fd_to_id_map[f]
    BY <1>2, Zenon DEF IsPut
  <2> QED BY <2>1, <2>2, <2>3 DEF TableStays
<1> QED BY <1>1, <1>2, UprobeStored, Zenon

\* An attach adds to the table.
LEMMA TableStaysAttached ==
  ASSUME Types, rb # <<>>, bpftime_attach_perf_to_bpf_fd_server(rb[1]) \/ handle_set_bpf(rb[1]), "collision" \notin spoilt'
  PROVE  TableStays
<1>1. CASE UNCHANGED <<handlers, pid_fd_to_id_map>>
  BY <1>1, Zenon DEF TableStays
<1>2. CASE Attached(rb[1].fd, named(rb[1])) /\ UNCHANGED pid_fd_to_id_map
  <2>1. PICK cs, ms : /\ Grown(handlers, cs, ms) /\ ms \subseteq {"collision"} /\ ms \subseteq spoilt'
                      /\ handlers' = cs \/ Linked(cs, pid_fd_to_id_map[rb[1].fd], named(rb[1]), handlers')
    BY <1>2, Zenon DEF Attached
  <2>2. ms = {}
    BY <2>1, Zenon
  <2>3. KeptBy(handlers, cs, ms, pid_fd_to_id_map[rb[1].fd], named(rb[1]), handlers')
    BY <2>1, AttachedKeeps, Zenon
  <2>4. \A s \in Slots : handlers[s].kind # "unused" => handlers'[s] = handlers[s]
    BY <2>2, <2>3, Zenon DEF KeptBy
  <2> QED BY <1>2, <2>4 DEF TableStays
<1> QED BY <1>1, <1>2, AttachEvents, Zenon DEF AttachHandled, daemon_vars

\* A close takes a uprobe and its links only.
LEMMA TableStaysClosed ==
  ASSUME Types, rb # <<>>, bpftime_close_server(rb[1]), NEW view, DaemonView(view, handlers, pid_fd_to_id_map, spoilt),
         "collision" \notin spoilt
  PROVE  TableStays
<1>1. /\ DOMAIN pid_fd_to_id_map' = DOMAIN pid_fd_to_id_map \ {rb[1].fd}
      /\ \A f \in DOMAIN pid_fd_to_id_map' : pid_fd_to_id_map'[f] = pid_fd_to_id_map[f]
      /\ rb[1].fd \notin DOMAIN pid_fd_to_id_map => handlers' = handlers
      /\ rb[1].fd \in DOMAIN pid_fd_to_id_map => ClearedAt(handlers, pid_fd_to_id_map[rb[1].fd], handlers')
  BY UprobeClosed, Zenon
<1>2. rb[1].type = "close"
  BY Zenon DEF bpftime_close_server
<1>3. rb[1].fd \in DOMAIN pid_fd_to_id_map => handlers[pid_fd_to_id_map[rb[1].fd]].kind = "perf"
  BY Zenon DEF DaemonView
<1>4. \A s \in Slots :
        /\ handlers[s].kind = "map" => handlers'[s].kind = "map"
        /\ handlers[s].kind = "link" =>
             \/ handlers'[s] = handlers[s]
             \/ /\ rb[1].fd \in DOMAIN pid_fd_to_id_map
                /\ pid_fd_to_id_map[rb[1].fd] \in {handlers[s].prog_id, handlers[s].attach_target_id}
  BY <1>1, <1>3 DEF ClearedAt
<1>5. \A f \in DOMAIN pid_fd_to_id_map :
        rb[1].fd # f => f \in DOMAIN pid_fd_to_id_map' /\ pid_fd_to_id_map'[f] = pid_fd_to_id_map[f]
  BY <1>1, Zenon
<1> QED BY <1>2, <1>4, <1>5, Zenon DEF TableStays

\* An event leaves the maps and the links of other uprobes.
LEMMA TableStaysHandled ==
  ASSUME Types, handle_event, NEW view, Sees(view), "collision" \notin spoilt'
  PROVE  TableStays
<1>1. Head(rb) = rb[1] /\ spoilt \subseteq spoilt' /\ rb # <<>>
  BY EventStep, Zenon
<1>2. CASE bpftime_perf_event_enable_server(rb[1])
  <2>1. /\ UNCHANGED pid_fd_to_id_map
        /\ \A s \in Slots : \/ handlers'[s] = handlers[s]
                            \/ handlers[s].kind = "perf" /\ handlers'[s].kind = "perf" /\ handlers'[s].perf = handlers[s].perf
    BY <1>1, <1>2, UprobeSwitched, Zenon
  <2> QED BY <2>1 DEF TableStays
<1>3. CASE bpftime_close_server(rb[1])
  BY <1>1, <1>3, TableStaysClosed, Zenon DEF Sees
<1> QED BY <1>1, <1>2, <1>3, TableStaysStored, TableStaysAttached, Zenon DEF handle_event

\* A link stays until an event opens or closes its descriptor.
LEMMA LinkStays ==
  ASSUME Types, TableStays, NEW f, NEW id, LinkedIn(handlers, pid_fd_to_id_map, f, id),
         rb[1].type \in {"perf", "close"} => rb[1].fd # f
  PROVE  LinkedIn(handlers', pid_fd_to_id_map', f, id)
<1> DEFINE ids == pid_fd_to_id_map
<1>1. f \in DOMAIN ids /\ ids[f] \in Slots
  BY Zenon DEF LinkedIn, Types, DaemonTypes, UprobesOk
<1>2. f \in DOMAIN ids' /\ ids'[f] = ids[f]
  BY <1>1, Zenon DEF TableStays
<1>3. PICK s \in Slots : handlers[s] = Table!bpf_link_handler(id, ids[f])
  BY Zenon DEF LinkedIn
<1>4. handlers[s].kind = "link" /\ handlers[s].prog_id = id /\ handlers[s].attach_target_id = ids[f]
  BY <1>3 DEF Table!bpf_link_handler
<1>5. handlers[id].kind = "prog"
  BY <1>4, Zenon DEF Types, DaemonTypes, TableOk
<1>6. rb[1].type = "close" /\ rb[1].fd \in DOMAIN ids => ids[rb[1].fd] # ids[f] /\ ids[rb[1].fd] # id
  <2>1. rb[1].type = "close" /\ rb[1].fd \in DOMAIN ids => ids[rb[1].fd] # ids[f] /\ handlers[ids[rb[1].fd]].kind \in {"perf", "map"}
    BY <1>1, Zenon DEF Types, DaemonTypes, UprobesOk
  <2> QED BY <1>5, <2>1
<1>7. handlers'[s] = handlers[s]
  BY <1>4, <1>6 DEF TableStays
<1> QED BY <1>2, <1>3, <1>7, Zenon DEF LinkedIn

\* The descriptor a program names its map by leads to that map.
LEMMA Relocates ==
  ASSUME Types, Captured, Relocatable, "rejected" \notin spoilt, NEW i \in DOMAIN kprogs, ~kprogs[i].moved
  PROVE  /\ relocated_map(bpf_prog_insns_map[i].map_fd) = kprogs[i].map
         /\ bpf_prog_insns_map[i].map_fd = NoFd \/ bpf_prog_insns_map[i].map_fd \in DOMAIN bpf_fd_map
<1>1. PICK m \in AppFds \cup {NoFd} : m = kprogs[i].fd
  BY Zenon DEF Types, KernelTypes
<1>2. bpf_prog_insns_map[i].map_fd = m
  BY <1>1, Zenon DEF Captured, kept
<1>3. CASE m = NoFd
  BY <1>1, <1>2, <1>3, Zenon DEF Relocatable, relocated_map
<1>4. CASE m # NoFd
  <2>1. kfd[m].kind = "map" /\ kfd[m].id = kprogs[i].map /\ m \in AppFds
    BY <1>1, <1>4, Zenon DEF Relocatable
  <2>2. m \in DOMAIN bpf_fd_map /\ bpf_fd_map[m] = [type |-> "map", kernel_id |-> kprogs[i].map]
    BY <2>1, Zenon DEF Types, Known
  <2>3. bpf_fd_map[m].kernel_id = kprogs[i].map
    BY <2>2
  <2> QED BY <1>2, <1>4, <2>2, <2>3, Zenon DEF relocated_map, get_bpf_obj_id_from_pid_fd
<1> QED BY <1>3, <1>4, Zenon

\* A program that an event brings into the table comes with its map.
LEMMA MapsHandled ==
  ASSUME Types, Captured, Relocatable, MapsOk(handlers), handle_event, TableStays, "rejected" \notin spoilt
  PROVE  MapsOk(handlers)'
<1>1. UNCHANGED kprogs
  BY EventStep, Zenon
<1>2. ASSUME NEW s \in Slots, handlers'[s].kind = "prog"
      PROVE  /\ s \in DOMAIN kprogs
             /\ ~kprogs[s].moved => /\ handlers'[s].map = kprogs[s].map
                                    /\ kprogs[s].map # 0 => handlers'[kprogs[s].map].kind = "map"
  <2>1. CASE handlers'[s] = handlers[s]
    <3>1. /\ s \in DOMAIN kprogs
          /\ ~kprogs[s].moved => /\ handlers[s].map = kprogs[s].map
                                 /\ kprogs[s].map # 0 => handlers[kprogs[s].map].kind = "map"
      BY <1>2, <2>1, Zenon DEF MapsOk
    <3>2. kprogs[s].map \in Slots
      BY <3>1, ConstantFacts DEF Types, KernelTypes
    <3>3. handlers[kprogs[s].map].kind = "map" => handlers'[kprogs[s].map].kind = "map"
      BY <3>2, Zenon DEF TableStays
    <3> QED BY <2>1, <3>1, <3>3, Zenon
  <2>2. CASE /\ s \in DOMAIN kprogs
             /\ handlers'[s] = bpf_prog_handler(bpf_prog_insns_map[s].code, relocated_map(bpf_prog_insns_map[s].map_fd))
             /\ kprogs[s].map # 0 => handlers'[kprogs[s].map].kind = "map"
    <3>1. handlers'[s].map = relocated_map(bpf_prog_insns_map[s].map_fd)
      BY <2>2 DEF bpf_prog_handler
    <3> QED BY <2>2, <3>1, Relocates, Zenon
  <2> QED BY <1>2, <2>1, <2>2, StoredPrograms, Zenon
<1> QED BY <1>1, <1>2, Zenon DEF MapsOk

\* A descriptor without events has none after the first is taken.
LEMMA QuietHandled ==
  ASSUME Types, rb # <<>>, rb' = Tail(rb), NEW f, NEW i \in 1..Len(rb), NEW k \in 1..Len(rb), i <= k + 1, Quiet(f, i)
  PROVE  Quiet(f, k)'
<1>1. Len(rb) \in Nat /\ Len(rb') = Len(rb) - 1 /\ \A j \in 1..(Len(rb) - 1) : rb'[j] = rb[j + 1]
  BY FirstEvent, Zenon
<1>2. ASSUME NEW j \in k..Len(rb'), rb'[j].type \in {"perf", "close"} PROVE rb'[j].fd # f
  <2>1. j + 1 \in i..Len(rb) /\ rb'[j] = rb[j + 1]
    BY <1>1
  <2> QED BY <1>2, <2>1, Zenon DEF Quiet
<1> QED BY <1>2, Zenon DEF Quiet

\* An attach event whose uprobe is still open links its program.
LEMMA AttachCompletes ==
  ASSUME Types, Captured, Relocatable, NEW view, Sees(view), handle_event, up', Unspoilt, Unspoilt',
         rb[1].type \in {"set_bpf", "link"}, NEW f \in AppFds, rb[1].fd = f,
         kfd[f].kind = "perf", kfd[f].id \in DOMAIN kattached, kattached[kfd[f].id] = named(rb[1]),
         ~kprogs[kattached[kfd[f].id]].moved
  PROVE  LinkedIn(handlers', pid_fd_to_id_map', f, named(rb[1]))
<1> DEFINE ids == pid_fd_to_id_map
<1>1. rb # <<>> /\ Head(rb) = rb[1] /\ spoilt \subseteq spoilt'
  BY EventStep, Zenon
<1>2. /\ "full" \notin spoilt /\ "collision" \notin spoilt /\ "reused" \notin spoilt /\ "rejected" \notin spoilt
      /\ spoilt' \cap {"collision", "full"} = {}
  BY <1>1, UnspoiltIs, UnspoiltWas, Zenon
<1>3. view[f].perf # 0 /\ (rb[1].type = "link" => rb[1].prog \in DOMAIN bpf_fd_map)
  BY <1>2, Zenon DEF Sees, EventOk
<1>4. f \in DOMAIN ids /\ handlers[ids[f]].kind = "perf"
  BY <1>2, <1>3, Zenon DEF Sees, DaemonView
<1>5. PICK id \in DOMAIN kprogs : id = named(rb[1]) /\ ~kprogs[id].moved
  BY Zenon DEF Types, KernelTypes
<1>6. prog_alive(id)
  BY <1>5, Zenon DEF prog_alive
<1>7. bpf_prog_insns_map[id].map_fd = NoFd \/ bpf_prog_insns_map[id].map_fd \in DOMAIN bpf_fd_map
  BY <1>2, <1>5, Relocates, Zenon
<1>8. bpftime_attach_perf_to_bpf_fd_server(rb[1]) \/ handle_set_bpf(rb[1])
  BY <1>1, Zenon DEF handle_event, bpftime_uprobe_create_server, bpftime_perf_event_enable_server, bpftime_close_server
<1>9. AttachHandled(rb[1], id)
  BY <1>1, <1>3, <1>5, <1>8, AttachEvents, Zenon
<1>10. Attached(f, id) /\ ids' = ids
  BY <1>4, <1>9, Zenon DEF AttachHandled
<1>11. PICK cs : Linked(cs, ids[f], id, handlers')
  BY <1>2, <1>4, <1>6, <1>7, <1>10, Zenon DEF Attached
<1>12. \E s \in Slots : handlers'[s] = Table!bpf_link_handler(id, ids[f])
  BY <1>11, Zenon DEF Linked, Stored
<1> QED BY <1>4, <1>5, <1>10, <1>12, Zenon DEF LinkedIn

\* Handling an event keeps attaches mirrored or waiting.
LEMMA MirrorHandled ==
  ASSUME Types, Captured, Relocatable, ReplayInv, MirrorInv, handle_event
  PROVE  MirrorInv'
<1> SUFFICES ASSUME Unspoilt', up' PROVE MapsOk(handlers)' /\ Mirrored'
  BY Zenon DEF MirrorInv, Unspoilt
<1>1. /\ spoilt \subseteq spoilt' /\ up /\ rb # <<>> /\ rb' = Tail(rb)
      /\ UNCHANGED <<kfd, kprogs, kattached, bpf_fd_map>>
  BY EventStep, Zenon
<1>2. Unspoilt /\ "collision" \notin spoilt' /\ "lost" \notin spoilt /\ "rejected" \notin spoilt
  BY <1>1, UnspoiltWas, UnspoiltIs, Zenon
<1>3. MapsOk(handlers) /\ Mirrored
  BY <1>1, <1>2, Zenon DEF MirrorInv, Unspoilt
<1>4. /\ Len(rb) \in Nat /\ Len(rb) >= 1 /\ Len(rb') = Len(rb) - 1 /\ 1 \in 1..Len(rb)
      /\ \A i \in 1..(Len(rb) - 1) : rb'[i] = rb[i + 1]
  BY <1>1, FirstEvent
<1>5. PICK view : Sees(view)
  <2>1. PICK v : Replay(v)
    BY <1>2, Zenon DEF ReplayInv
  <2>2. 1 \in 1..(Len(rb) + 1)
    BY <1>4
  <2>3. Sees(v[1])
    BY <1>1, <1>2, <1>4, <2>1, <2>2, Zenon DEF Sees, Replay, ReplayInv
  <2> QED BY <2>3, Zenon
<1>6. TableStays
  BY <1>2, <1>5, TableStaysHandled, Zenon
<1>7. MapsOk(handlers)'
  BY <1>2, <1>3, <1>6, MapsHandled, Zenon
<1>8. ASSUME NEW f \in AppFds, kfd[f].kind = "perf", kfd[f].id \in DOMAIN kattached, ~kprogs[kattached[kfd[f].id]].moved
      PROVE  \/ Quiet(f, 1)' /\ LinkedIn(handlers', pid_fd_to_id_map', f, kattached[kfd[f].id])
             \/ \E i \in 1..Len(rb') : /\ rb'[i].type \in {"set_bpf", "link"} /\ rb'[i].fd = f
                                       /\ named(rb'[i]) = kattached[kfd[f].id] /\ Quiet(f, i)'
  <2>1. ASSUME Quiet(f, 1) PROVE Quiet(f, 1)' /\ (rb[1].type \in {"perf", "close"} => rb[1].fd # f)
    <3>1. 1 <= 1 + 1 /\ 1 \in 1..Len(rb)
      BY <1>4
    <3>2. 1 \in 1..Len(rb) /\ rb[1].type \in {"perf", "close"} => rb[1].fd # f
      BY <2>1, Zenon DEF Quiet
    <3>3. Quiet(f, 1)'
      BY <1>1, <2>1, <3>1, QuietHandled, Zenon
    <3> QED BY <3>1, <3>2, <3>3, Zenon
  <2>2. CASE Quiet(f, 1) /\ LinkedIn(handlers, pid_fd_to_id_map, f, kattached[kfd[f].id])
    BY <1>6, <2>1, <2>2, LinkStays, Zenon
  <2>3. ASSUME NEW i \in 1..Len(rb), i # 1, rb[i].type \in {"set_bpf", "link"}, rb[i].fd = f,
               named(rb[i]) = kattached[kfd[f].id], Quiet(f, i)
        PROVE  \E k \in 1..Len(rb') : /\ rb'[k].type \in {"set_bpf", "link"} /\ rb'[k].fd = f
                                      /\ named(rb'[k]) = kattached[kfd[f].id] /\ Quiet(f, k)'
    <3>1. PICK k \in 1..Len(rb') : k \in 1..Len(rb) /\ i <= k + 1 /\ rb'[k] = rb[i]
      <4>1. i - 1 \in 1..Len(rb') /\ i - 1 \in 1..Len(rb) /\ i <= (i - 1) + 1 /\ rb'[i - 1] = rb[i]
        BY <1>4, <2>3
      <4> QED BY <4>1, Zenon
    <3>2. Quiet(f, k)'
      BY <1>1, <2>3, <3>1, QuietHandled, Zenon
    <3> QED BY <2>3, <3>1, <3>2, Zenon
  <2>4. CASE rb[1].type \in {"set_bpf", "link"} /\ rb[1].fd = f /\ named(rb[1]) = kattached[kfd[f].id] /\ Quiet(f, 1)
    <3>1. LinkedIn(handlers', pid_fd_to_id_map', f, named(rb[1]))
      BY <1>2, <1>5, <1>8, <2>4, AttachCompletes, Zenon
    <3> QED BY <2>1, <2>4, <3>1, Zenon
  <2> QED BY <1>3, <1>8, <2>2, <2>3, <2>4, Zenon DEF Mirrored
<1> QED BY <1>1, <1>7, <1>8, Zenon DEF Mirrored, named

DaemonInv == Types /\ Captured /\ Relocatable /\ Distinct /\ ReplayInv /\ MirrorInv

\* The invariant holds at the start.
LEMMA InvInit ==
  ASSUME Init
  PROVE  DaemonInv
<1>1. Types /\ ReplayInv
  BY TypesInit, ReplayInit, Zenon
<1>2. /\ \A f \in AppFds : kfd[f].kind = "closed"
      /\ \A s \in Slots : handlers[s].kind = "unused"
      /\ DOMAIN kprogs = {} /\ insns_of_thread = None
  BY DEF Init, closed, Table!unused_handler
<1>3. Captured /\ Relocatable /\ Distinct
  BY <1>2 DEF Captured, Relocatable, Distinct
<1>4. MirrorInv
  BY <1>2 DEF MirrorInv, MapsOk, Mirrored
<1> QED BY <1>1, <1>3, <1>4, Zenon DEF DaemonInv

\* Every step keeps the invariant.
LEMMA InvNext ==
  ASSUME DaemonInv, [Next]_vars
  PROVE  DaemonInv'
<1>0. Types /\ Captured /\ Relocatable /\ Distinct /\ ReplayInv /\ MirrorInv
  BY Zenon DEF DaemonInv
<1>1. Types' /\ ReplayInv' /\ Distinct'
  BY <1>0, TypesNext, ReplayNext, DistinctNext, Zenon
<1>2. CASE UNCHANGED vars
  <2>1. Captured' /\ Relocatable'
    BY <1>0, <1>2, Zenon DEF Captured, Relocatable, kept, vars, kernel_vars, tracer_vars, daemon_vars
  <2>2. UNCHANGED <<kfd, kprogs, kattached, bpf_fd_map, rb, handlers, pid_fd_to_id_map, spoilt, up>>
    BY <1>2, Zenon DEF vars, kernel_vars, tracer_vars, daemon_vars
  <2>3. /\ \A f, i : Quiet(f, i)' <=> Quiet(f, i)
        /\ \A e : named(e)' = named(e)
    BY <2>2, Zenon DEF Quiet, named
  <2>4. (MapsOk(handlers) => MapsOk(handlers)') /\ (Mirrored => Mirrored')
    BY <2>2, <2>3, Zenon DEF MapsOk, Mirrored
  <2>5. MirrorInv'
    BY <1>0, <2>2, <2>4, Zenon DEF MirrorInv, kept
  <2> QED BY <1>1, <2>1, <2>5, Zenon DEF DaemonInv
<1>3. CASE Next
  <2>1. Captured' /\ Relocatable'
    BY <1>0, <1>1, <1>3, CapturedNext, RelocatableNext, Zenon
  <2>2. MirrorInv'
    BY <1>0, <1>3, MirrorCall, MirrorHandled, Zenon DEF Next
  <2> QED BY <1>1, <2>1, <2>2, Zenon DEF DaemonInv
<1> QED BY <1>2, <1>3, Zenon

\* Once the events are handled, what the kernel attached to an open uprobe is attached in the table: the link, the
\* program it names and the map the program uses are all there (bpftime_attach_perf_to_bpf_server,
\* bpftime_progs_create_server, bpftime_maps_create_server), unless an event was lost, a program was rejected, a
\* descriptor a waiting event names was reused, two objects wanted one slot, the table was full or the daemon stopped.
THEOREM AttachesReachTheTable == Spec => []AttachesAreMirrored
<1>1. DaemonInv => AttachesAreMirrored
  <2> SUFFICES ASSUME DaemonInv, up, rb = <<>>, Unspoilt, NEW f \in open_perfs, kfd[f].id \in DOMAIN kattached,
                      NEW id, id = kattached[kfd[f].id], ~kprogs[id].moved
               PROVE  /\ \E s \in Slots : handlers[s] = Table!bpf_link_handler(id, pid_fd_to_id_map[f])
                      /\ kprogs[id].map # 0 => handlers[kprogs[id].map].kind = "map" /\ handlers[id].map = kprogs[id].map
    BY Zenon DEF AttachesAreMirrored, Unspoilt
  <2>1. MapsOk(handlers) /\ Mirrored /\ TableOk(handlers)
    BY Zenon DEF DaemonInv, MirrorInv, Unspoilt, Types, DaemonTypes
  <2>2. \A i \in 1..Len(rb) : FALSE
    OBVIOUS
  <2>3. f \in AppFds /\ kfd[f].kind = "perf"
    BY Zenon DEF open_perfs
  <2>4. LinkedIn(handlers, pid_fd_to_id_map, f, id)
    BY <2>1, <2>2, <2>3, Zenon DEF Mirrored
  <2>5. PICK s \in Slots : handlers[s] = Table!bpf_link_handler(id, pid_fd_to_id_map[f])
    BY <2>4, Zenon DEF LinkedIn
  <2>6. handlers[s].kind = "link" /\ handlers[s].prog_id = id
    BY <2>5 DEF Table!bpf_link_handler
  <2>7. handlers[id].kind = "prog" /\ id \in Slots
    <3>1. handlers[s] \in AHandler /\ handlers[handlers[s].prog_id].kind = "prog"
      BY <2>1, <2>6, Zenon DEF TableOk
    <3>2. handlers[s].prog_id \in Slots
      BY <2>6, <3>1, HandlerFields, Zenon
    <3> QED BY <2>6, <3>1, <3>2, Zenon
  <2> QED BY <2>1, <2>5, <2>7, Zenon DEF MapsOk
<1> QED BY <1>1, InvInit, InvNext, PTL DEF Spec

=============================================================================
