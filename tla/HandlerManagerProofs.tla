------------------------- MODULE HandlerManagerProofs -------------------------
(***************************************************************************)
(* Proofs about the handler table, for a table of any size and any set of  *)
(* map names.                                                              *)
(***************************************************************************)
EXTENDS HandlerManager, TLAPS

\* The table property behind LinkProgLive, for any table.
LinksHaveProgs(hs) ==
  \A f \in Fd : is_link_fd(hs, f) => is_prog_fd(hs, hs[f].prog_id)

-----------------------------------------------------------------------------
(* What handler_manager's two operations do to a table. *)

\* clear_id_at of a well-typed table is a well-typed table.
LEMMA ClearType ==
  ASSUME NEW hs \in [Fd -> Handler], NEW f \in Fd
  PROVE  clear_id_at(hs, f) \in [Fd -> Handler]
BY DEF clear_id_at, Handler, unused_handler

\* set_handler of a handler keeps the table well typed.
LEMMA SetType ==
  ASSUME NEW hs \in [Fd -> Handler], NEW f \in Fd, NEW h \in Handler
  PROVE  set_handler(hs, f, h) \in [Fd -> Handler]
BY DEF set_handler

\* The handlers the requests store are handlers.
LEMMA HandlerTypes ==
  /\ bpf_prog_handler \in Handler
  /\ plain_handler("epoll") \in Handler
  /\ plain_handler("memfd") \in Handler
  /\ \A on \in BOOLEAN : bpf_perf_event_handler(on) \in Handler
  /\ \A p, t \in Fd : bpf_link_handler(p, t) \in Handler
  /\ \A n \in Name, t \in MapTypes, i \in BOOLEAN : bpf_map_handler(n, t, i) \in Handler
<1>1. /\ bpf_prog_handler \in Handler
      /\ plain_handler("epoll") \in Handler
      /\ plain_handler("memfd") \in Handler
  BY DEF Handler, bpf_prog_handler, plain_handler
<1>2. \A on \in BOOLEAN : bpf_perf_event_handler(on) \in Handler
  BY DEF Handler, bpf_perf_event_handler
<1>3. \A p, t \in Fd : bpf_link_handler(p, t) \in Handler
  BY DEF Handler, bpf_link_handler
<1>4. \A n \in Name, t \in MapTypes, i \in BOOLEAN : bpf_map_handler(n, t, i) \in Handler
  BY DEF Handler, bpf_map_handler
<1> QED BY <1>1, <1>2, <1>3, <1>4

\* A handler of kind "link" refers to slots of the table.
LEMMA LinkFields ==
  ASSUME NEW h \in Handler, h.kind = "link"
  PROVE  h.prog_id \in Fd /\ h.attach_target_id \in Fd
BY DEF Handler, unused_handler, bpf_prog_handler

\* A handler of kind "map" has a name, a type and a flag for its object.
LEMMA MapFields ==
  ASSUME NEW h \in Handler, h.kind = "map"
  PROVE  h.name \in Name /\ h.type \in MapTypes /\ h.impl \in BOOLEAN
BY DEF Handler, unused_handler, bpf_prog_handler

\* clear_id_at takes a program's links with the program.
LEMMA ClearLinks ==
  ASSUME NEW hs \in [Fd -> Handler], NEW f \in Fd, LinksHaveProgs(hs)
  PROVE  LinksHaveProgs(clear_id_at(hs, f))
<1> DEFINE cs == clear_id_at(hs, f)
<1> SUFFICES ASSUME NEW g \in Fd, cs[g].kind = "link"
             PROVE  cs[cs[g].prog_id].kind = "prog"
  BY DEF LinksHaveProgs, is_link_fd, is_prog_fd
<1>1. g # f /\ g \notin cleared_with(hs, f) /\ cs[g] = hs[g]
  BY DEF clear_id_at, unused_handler
<1>2. hs[g].prog_id \in Fd /\ hs[hs[g].prog_id].kind = "prog"
  BY <1>1, LinkFields DEF LinksHaveProgs, is_link_fd, is_prog_fd
<1>3. hs[g].prog_id # f
  BY <1>1, <1>2 DEF cleared_with, is_link_fd, is_prog_fd
<1>4. hs[g].prog_id \notin cleared_with(hs, f)
  BY <1>2 DEF cleared_with, is_link_fd
<1> QED BY <1>1, <1>2, <1>3, <1>4 DEF clear_id_at

\* set_handler keeps the property when the handler stored is no link, or is a
\* link to a program of the table.
LEMMA SetLinks ==
  ASSUME NEW hs \in [Fd -> Handler], NEW f \in Fd, NEW h \in Handler, LinksHaveProgs(hs),
         h.kind = "link" => is_prog_fd(hs, h.prog_id)
  PROVE  LinksHaveProgs(set_handler(hs, f, h))
<1>1. CASE is_allocated(hs, f)
  BY <1>1 DEF set_handler
<1>2. CASE ~is_allocated(hs, f)
  <2> DEFINE cs == set_handler(hs, f, h)
  <2>1. cs = [hs EXCEPT ![f] = h]
    BY <1>2 DEF set_handler
  <2>2. \A g \in Fd : is_prog_fd(hs, g) => is_prog_fd(cs, g)
    BY <1>2, <2>1 DEF is_allocated, is_prog_fd
  <2> QED BY <2>1, <2>2, LinkFields, Zenon DEF LinksHaveProgs, is_link_fd
<1> QED BY <1>1, <1>2

-----------------------------------------------------------------------------
(* Type correctness. *)

\* set_map_handler stores a typed map in a typed table.
LEMMA SetMapType ==
  ASSUME NEW hs \in [Fd -> Handler], NEW cs \in SUBSET [name : Name, owner : Fd],
         NEW f \in Fd, NEW n \in Name, NEW t \in MapTypes, loader \in {"up", "aborted"},
         set_map_handler(hs, cs, f, n, t)
  PROVE  /\ handlers' \in [Fd -> Handler]
         /\ containers' \in SUBSET [name : Name, owner : Fd]
         /\ loader' \in {"up", "aborted"}
<1> DEFINE i == map_init_constructs(t) /\ ~map_name_taken(cs, n, t)
<1>1. i \in BOOLEAN
  BY DEF map_init_constructs, map_name_taken
<1>2. bpf_map_handler(n, t, i) \in Handler
  BY <1>1, HandlerTypes, Zenon
<1> QED BY <1>2 DEF set_map_handler

\* map_free only removes objects.
LEMMA MapFreeType ==
  ASSUME NEW hs, NEW cs \in SUBSET [name : Name, owner : Fd], NEW f \in Fd
  PROVE  map_free(hs, cs, f) \in SUBSET [name : Name, owner : Fd]
BY DEF map_free

\* The table stays well typed: the type invariant of the handler table holds
\* in every behaviour of the loader (handler_manager.cpp, bpftime_shm_internal.cpp).
LEMMA TypeStep == TypeOK /\ [Next]_vars => TypeOK'
<1> SUFFICES ASSUME TypeOK, [Next]_vars PROVE TypeOK'
  OBVIOUS
<1> USE DEF TypeOK
<1>a. ASSUME NEW h \in Handler, add_handler(h) PROVE TypeOK'
  BY <1>a, SetType DEF add_handler
<1>1. CASE handle_perfevent
  BY <1>1, <1>a, HandlerTypes DEF handle_perfevent
<1>2. CASE add_bpf_prog
  BY <1>2, <1>a, HandlerTypes DEF add_bpf_prog
<1>3. CASE epoll_create
  BY <1>3, <1>a, HandlerTypes DEF epoll_create
<1>4. CASE add_memfd_handler
  BY <1>4, <1>a, HandlerTypes DEF add_memfd_handler
<1>5. ASSUME NEW n \in MapNames, NEW t \in MapTypes, add_bpf_map(<<0, n>>, t) PROVE TypeOK'
  <2>1. PICK f \in Fd : /\ set_map_handler(clear_id_at(handlers, f), map_free(handlers, containers, f), f, <<0, n>>, t)
                        /\ fds' = fds \cup {f}
    BY <1>5 DEF add_bpf_map
  <2>2. <<0, n>> \in Name
    BY MaxDupsAssumption DEF Name
  <2>3. /\ handlers' \in [Fd -> Handler]
        /\ containers' \in SUBSET [name : Name, owner : Fd]
        /\ loader' \in {"up", "aborted"}
    BY <2>1, <2>2, ClearType, MapFreeType, SetMapType, Zenon
  <2> QED BY <1>5, <2>1, <2>3 DEF add_bpf_map
<1>6. ASSUME NEW p \in Fd, NEW t \in Fd, NEW a, link_create(p, t, a) PROVE TypeOK'
  <2> DEFINE link == bpf_link_handler(p, t)
  <2>1. link \in Handler
    BY HandlerTypes
  <2>2. PICK f \in Fd : \E hs \in {handlers, set_handler(handlers, f, link)} :
              \/ handlers' = hs /\ fds' = fds \cup {f}
              \/ \E g \in Fd : handlers' = set_handler(hs, g, link) /\ fds' = fds \cup {f, g}
    BY <1>6 DEF link_create
  <2>3. PICK hs \in [Fd -> Handler] :
              \/ handlers' = hs /\ fds' = fds \cup {f}
              \/ \E g \in Fd : handlers' = set_handler(hs, g, link) /\ fds' = fds \cup {f, g}
    BY <2>1, <2>2, SetType, Zenon
  <2>4. handlers' \in [Fd -> Handler]
    <3>1. ASSUME NEW g \in Fd PROVE set_handler(hs, g, link) \in [Fd -> Handler]
      BY <2>1, SetType, Zenon
    <3> QED BY <2>3, <3>1
  <2>5. fds' \subseteq Fd
    BY <2>3
  <2> QED BY <1>6, <2>4, <2>5 DEF link_create
<1>7. ASSUME NEW e \in Fd, NEW p \in Fd, attach_perf_to_bpf(e, p) PROVE TypeOK'
  BY <1>7, <1>a, HandlerTypes DEF attach_perf_to_bpf
<1>8. ASSUME NEW f \in Fd, NEW on \in BOOLEAN, perf_event_enable(f, on) PROVE TypeOK'
  BY <1>8, HandlerTypes DEF perf_event_enable
<1>9. ASSUME NEW m \in BOOLEAN, handle_open(m) PROVE TypeOK'
  BY <1>9 DEF handle_open
<1>10. ASSUME NEW f \in Fd, handle_close(f) PROVE TypeOK'
  <2>1. clear_id_at(handlers, f) \in [Fd -> Handler]
    BY ClearType
  <2>2. map_free(handlers, containers, f) \in SUBSET [name : Name, owner : Fd]
    BY MapFreeType
  <2> QED BY <1>10, <2>1, <2>2 DEF handle_close
<1>11. ASSUME NEW o \in Fd, NEW n \in Fd, dup_bpf_map(o, n) PROVE TypeOK'
  <2> DEFINE name == <<handlers[o].name[1] + 1, handlers[o].name[2]>>
  <2>1. handlers[o].name \in Name /\ handlers[o].type \in MapTypes
    BY <1>11, MapFields DEF dup_bpf_map, is_map_fd
  <2>2. name \in Name
    BY <1>11, <2>1, MaxDupsAssumption DEF dup_bpf_map, Name
  <2>3. set_map_handler(clear_id_at(handlers, n), map_free(handlers, containers, n), n, name, handlers[o].type)
    BY <1>11 DEF dup_bpf_map
  <2>4. /\ handlers' \in [Fd -> Handler]
        /\ containers' \in SUBSET [name : Name, owner : Fd]
        /\ loader' \in {"up", "aborted"}
    BY <2>1, <2>2, <2>3, ClearType, MapFreeType, SetMapType, Zenon
  <2> QED BY <1>11, <2>4 DEF dup_bpf_map
<1>12. CASE UNCHANGED vars
  BY <1>12 DEF vars
<1> QED BY <1>1, <1>2, <1>3, <1>4, <1>5, <1>6, <1>7, <1>8, <1>9, <1>10, <1>11, <1>12, Zenon DEF Next, NextButDup

\* The type invariant of the handler table holds in every behaviour.
THEOREM TypeCorrect == Spec => []TypeOK
<1>1. Init => TypeOK
  BY DEF Init, TypeOK, Handler
<1> QED BY <1>1, TypeStep, PTL DEF Spec

-----------------------------------------------------------------------------
(* Referential integrity of the links. *)

\* Storing a map in a slot that was just cleared keeps the links' programs.
LEMMA SetMapLinks ==
  ASSUME NEW hs \in [Fd -> Handler], NEW cs, NEW f \in Fd, NEW n \in Name, NEW t \in MapTypes,
         LinksHaveProgs(hs), hs[f].kind = "unused", set_map_handler(hs, cs, f, n, t)
  PROVE  LinksHaveProgs(handlers')
<1> DEFINE i == map_init_constructs(t) /\ ~map_name_taken(cs, n, t)
           h == bpf_map_handler(n, t, i)
<1>1. h \in Handler /\ h.kind = "map"
  <2>1. i \in BOOLEAN
    BY DEF map_init_constructs, map_name_taken
  <2> QED BY <2>1, HandlerTypes, Zenon DEF bpf_map_handler
<1>2. handlers' = set_handler(hs, f, h)
  BY DEF set_map_handler, set_handler, is_allocated
<1> HIDE DEF h
<1> QED BY <1>1, <1>2, SetLinks

\* The slot clear_id_at is called for is empty afterwards.
LEMMA ClearEmpties ==
  ASSUME NEW hs, NEW f \in Fd
  PROVE  clear_id_at(hs, f)[f] = unused_handler
BY DEF clear_id_at

\* Every request keeps every link's program in the table.
LEMMA LinkStep == TypeOK /\ LinkProgLive /\ [Next]_vars => LinkProgLive'
<1> SUFFICES ASSUME TypeOK, LinksHaveProgs(handlers), [Next]_vars
             PROVE  LinksHaveProgs(handlers')
  BY DEF LinkProgLive, LinksHaveProgs
<1> USE DEF TypeOK
<1>a. ASSUME NEW h \in Handler, h.kind = "link" => is_prog_fd(handlers, h.prog_id), add_handler(h)
      PROVE  LinksHaveProgs(handlers')
  BY <1>a, SetLinks DEF add_handler
<1>1. CASE handle_perfevent
  BY <1>1, <1>a, HandlerTypes DEF handle_perfevent, bpf_perf_event_handler
<1>2. CASE add_bpf_prog
  BY <1>2, <1>a, HandlerTypes DEF add_bpf_prog, bpf_prog_handler
<1>3. CASE epoll_create
  BY <1>3, <1>a, HandlerTypes DEF epoll_create, plain_handler
<1>4. CASE add_memfd_handler
  BY <1>4, <1>a, HandlerTypes DEF add_memfd_handler, plain_handler
<1>5. ASSUME NEW n \in MapNames, NEW t \in MapTypes, add_bpf_map(<<0, n>>, t)
      PROVE  LinksHaveProgs(handlers')
  <2>1. PICK f \in Fd : set_map_handler(clear_id_at(handlers, f), map_free(handlers, containers, f), f, <<0, n>>, t)
    BY <1>5 DEF add_bpf_map
  <2>2. <<0, n>> \in Name
    BY MaxDupsAssumption DEF Name
  <2>3. clear_id_at(handlers, f)[f].kind = "unused"
    BY ClearEmpties DEF unused_handler
  <2> QED BY <2>1, <2>2, <2>3, ClearType, ClearLinks, SetMapLinks
<1>6. ASSUME NEW p \in Fd, NEW t \in Fd, NEW a, link_create(p, t, a)
      PROVE  LinksHaveProgs(handlers')
  <2> DEFINE link == bpf_link_handler(p, t)
  <2>1. link \in Handler /\ link.kind = "link" /\ link.prog_id = p
    BY HandlerTypes DEF bpf_link_handler
  <2>2. PICK f \in Fd : \E hs \in {handlers, set_handler(handlers, f, link)} :
              /\ hs # handlers => is_prog_fd(handlers, p)
              /\ \/ handlers' = hs
                 \/ /\ is_prog_fd(hs, p)
                    /\ \E g \in Fd : handlers' = set_handler(hs, g, link)
    BY <1>6 DEF link_create
  <2>3. PICK hs \in {handlers, set_handler(handlers, f, link)} :
              /\ hs # handlers => is_prog_fd(handlers, p)
              /\ \/ handlers' = hs
                 \/ /\ is_prog_fd(hs, p)
                    /\ \E g \in Fd : handlers' = set_handler(hs, g, link)
    BY <2>2
  <2> HIDE DEF link
  <2>4. hs \in [Fd -> Handler] /\ LinksHaveProgs(hs)
    <3>1. CASE hs = handlers
      BY <3>1
    <3>2. CASE hs # handlers
      <4>1. hs = set_handler(handlers, f, link) /\ is_prog_fd(handlers, link.prog_id)
        BY <3>2, <2>1, <2>3
      <4>2. LinksHaveProgs(set_handler(handlers, f, link))
        BY <4>1, <2>1, SetLinks
      <4> QED BY <4>1, <4>2, <2>1, SetType
    <3> QED BY <3>1, <3>2
  <2>5. ASSUME NEW g \in Fd, is_prog_fd(hs, p) PROVE LinksHaveProgs(set_handler(hs, g, link))
    BY <2>1, <2>4, <2>5, SetLinks
  <2> QED BY <2>4, <2>5, <2>3
<1>7. ASSUME NEW e \in Fd, NEW p \in Fd, attach_perf_to_bpf(e, p)
      PROVE  LinksHaveProgs(handlers')
  <2>1. bpf_link_handler(p, e) \in Handler /\ bpf_link_handler(p, e).prog_id = p
    BY HandlerTypes DEF bpf_link_handler
  <2> QED BY <1>7, <2>1, <1>a DEF attach_perf_to_bpf
<1>8. ASSUME NEW f \in Fd, NEW on \in BOOLEAN, perf_event_enable(f, on)
      PROVE  LinksHaveProgs(handlers')
  <2>1. /\ handlers[f].kind = "perf"
        /\ handlers' = [handlers EXCEPT ![f] = bpf_perf_event_handler(on)]
    BY <1>8 DEF perf_event_enable, is_perf_fd
  <2>2. \A g \in Fd : handlers'[g].kind = handlers[g].kind /\ (g # f => handlers'[g] = handlers[g])
    BY <2>1 DEF bpf_perf_event_handler
  <2> QED BY <2>1, <2>2, LinkFields DEF LinksHaveProgs, is_link_fd, is_prog_fd
<1>9. ASSUME NEW m \in BOOLEAN, handle_open(m) PROVE LinksHaveProgs(handlers')
  BY <1>9 DEF handle_open
<1>10. ASSUME NEW f \in Fd, handle_close(f) PROVE LinksHaveProgs(handlers')
  BY <1>10, ClearLinks DEF handle_close
<1>11. ASSUME NEW o \in Fd, NEW n \in Fd, dup_bpf_map(o, n) PROVE LinksHaveProgs(handlers')
  <2> DEFINE name == <<handlers[o].name[1] + 1, handlers[o].name[2]>>
  <2>1. handlers[o].name \in Name /\ handlers[o].type \in MapTypes
    BY <1>11, MapFields DEF dup_bpf_map, is_map_fd
  <2>2. name \in Name
    BY <1>11, <2>1, MaxDupsAssumption DEF dup_bpf_map, Name
  <2>3. set_map_handler(clear_id_at(handlers, n), map_free(handlers, containers, n), n, name, handlers[o].type)
    BY <1>11 DEF dup_bpf_map
  <2>4. clear_id_at(handlers, n)[n].kind = "unused"
    BY ClearEmpties DEF unused_handler
  <2> HIDE DEF name
  <2> QED BY <2>1, <2>2, <2>3, <2>4, ClearType, ClearLinks, SetMapLinks
<1>12. CASE UNCHANGED vars
  BY <1>12 DEF vars
<1> QED BY <1>1, <1>2, <1>3, <1>4, <1>5, <1>6, <1>7, <1>8, <1>9, <1>10, <1>11, <1>12, Zenon DEF Next, NextButDup

\* Every link of the table names a program of the table, whatever the loader
\* asks for and however its descriptors are reused (clear_id_at, add_bpf_link,
\* add_bpf_prog_attach_target).
THEOREM LinksHavePrograms == Spec => []LinkProgLive
<1>1. Init => LinkProgLive
  BY DEF Init, LinkProgLive, is_link_fd, unused_handler
<1> QED BY <1>1, TypeCorrect, LinkStep, PTL DEF Spec

-----------------------------------------------------------------------------
(* What a request that adds handlers may do to the rest of the state. *)

\* Slots change only from empty, at descriptors that the request opens, and
\* to something that is no map.
OnlyAdds ==
  /\ \A g \in Fd : \/ handlers'[g] = handlers[g]
                   \/ /\ ~is_allocated(handlers, g)
                      /\ g \in fds' \ fds
                      /\ ~is_map_fd(handlers', g)
  /\ fds \subseteq fds'
  /\ UNCHANGED <<containers, mocked_files, loader>>

\* A map stored at slot f in place of what was there.
ReplacesByMap(f, name, type) ==
  set_map_handler(clear_id_at(handlers, f), map_free(handlers, containers, f), f, name, type)

\* add_handler only adds.
LEMMA AddHandlerAdds ==
  ASSUME TypeOK, NEW h \in Handler, h.kind # "map", add_handler(h)
  PROVE  OnlyAdds
<1>1. PICK f \in Fd : /\ f \notin fds
                      /\ handlers' = set_handler(handlers, f, h)
                      /\ fds' = fds \cup {f}
  BY DEF add_handler, open_fake_fd
<1>2. \A g \in Fd : \/ handlers'[g] = handlers[g]
                    \/ ~is_allocated(handlers, g) /\ g = f /\ handlers'[g] = h
  BY <1>1 DEF set_handler, TypeOK
<1> QED BY <1>1, <1>2 DEF OnlyAdds, add_handler, is_map_fd

\* BPF_LINK_CREATE only adds, one link or two.
LEMMA LinkCreateAdds ==
  ASSUME TypeOK, NEW p \in Fd, NEW t \in Fd, NEW a, link_create(p, t, a)
  PROVE  OnlyAdds
<1> DEFINE link == bpf_link_handler(p, t)
<1>1. link.kind # "map" /\ link.kind # "unused"
  BY DEF bpf_link_handler
<1>2. PICK f \in Fd : /\ f \notin fds
                      /\ \E hs \in {handlers, set_handler(handlers, f, link)} :
                           \/ handlers' = hs /\ fds' = fds \cup {f}
                           \/ \E g \in Fd : /\ g \notin fds
                                            /\ handlers' = set_handler(hs, g, link)
                                            /\ fds' = fds \cup {f, g}
  BY DEF link_create, open_fake_fd
<1> HIDE DEF link
<1>3. PICK hs \in {handlers, set_handler(handlers, f, link)} :
           \/ handlers' = hs /\ fds' = fds \cup {f}
           \/ \E g \in Fd : g \notin fds /\ handlers' = set_handler(hs, g, link) /\ fds' = fds \cup {f, g}
  BY <1>2
<1>4. hs \in [Fd -> Handler \cup {link}]
  BY <1>3 DEF set_handler, TypeOK
<1>5. \A i \in Fd : \/ hs[i] = handlers[i]
                    \/ ~is_allocated(handlers, i) /\ i = f /\ hs[i] = link
  BY <1>3 DEF set_handler, TypeOK
<1>6. ASSUME NEW g \in Fd, NEW i \in Fd
      PROVE  \/ set_handler(hs, g, link)[i] = hs[i]
             \/ ~is_allocated(hs, i) /\ i = g /\ set_handler(hs, g, link)[i] = link
  BY <1>4 DEF set_handler
<1>7. \A i \in Fd : \/ handlers'[i] = handlers[i]
                    \/ /\ ~is_allocated(handlers, i)
                       /\ i \in fds' \ fds
                       /\ handlers'[i] = link
  <2>1. CASE handlers' = hs /\ fds' = fds \cup {f}
    BY <2>1, <1>2, <1>5
  <2>2. ASSUME NEW g \in Fd, g \notin fds, handlers' = set_handler(hs, g, link), fds' = fds \cup {f, g}
        PROVE  \A i \in Fd : \/ handlers'[i] = handlers[i]
                             \/ /\ ~is_allocated(handlers, i)
                                /\ i \in fds' \ fds
                                /\ handlers'[i] = link
    BY <2>2, <1>2, <1>5, <1>6 DEF is_allocated
  <2> QED BY <1>3, <2>1, <2>2
<1>8. fds \subseteq fds'
  BY <1>3
<1> QED BY <1>1, <1>7, <1>8 DEF OnlyAdds, link_create, is_map_fd

\* The requests that only add.
LEMMA AddRequests ==
  ASSUME TypeOK,
         \/ handle_perfevent
         \/ add_bpf_prog
         \/ epoll_create
         \/ add_memfd_handler
         \/ \E p, t \in Fd, a \in {"perf_event", "other"} : link_create(p, t, a)
         \/ \E e, p \in Fd : attach_perf_to_bpf(e, p)
  PROVE  OnlyAdds
<1>1. CASE handle_perfevent
  BY <1>1, AddHandlerAdds, HandlerTypes DEF handle_perfevent, bpf_perf_event_handler
<1>2. CASE add_bpf_prog
  BY <1>2, AddHandlerAdds, HandlerTypes DEF add_bpf_prog, bpf_prog_handler
<1>3. CASE epoll_create
  BY <1>3, AddHandlerAdds, HandlerTypes DEF epoll_create, plain_handler
<1>4. CASE add_memfd_handler
  BY <1>4, AddHandlerAdds, HandlerTypes DEF add_memfd_handler, plain_handler
<1>5. CASE \E p, t \in Fd, a \in {"perf_event", "other"} : link_create(p, t, a)
  BY <1>5, LinkCreateAdds
<1>6. CASE \E e, p \in Fd : attach_perf_to_bpf(e, p)
  BY <1>6, AddHandlerAdds, HandlerTypes DEF attach_perf_to_bpf, bpf_link_handler
<1> QED BY <1>1, <1>2, <1>3, <1>4, <1>5, <1>6

\* Every request falls in one of seven classes.
LEMMA Requests ==
  ASSUME TypeOK, [Next]_vars
  PROVE  \/ OnlyAdds
         \/ \E f \in Fd, on \in BOOLEAN : perf_event_enable(f, on)
         \/ \E m \in BOOLEAN : handle_open(m)
         \/ \E f \in Fd : handle_close(f)
         \/ \E n \in MapNames, t \in MapTypes : add_bpf_map(<<0, n>>, t)
         \/ \E o, n \in Fd : dup_bpf_map(o, n)
         \/ UNCHANGED vars
BY AddRequests DEF Next, NextButDup

-----------------------------------------------------------------------------
(* A perf event takes its links with it. *)

\* clear_id_at empties slot f and links that refer to it; the rest stays.
LEMMA ClearKeeps ==
  ASSUME NEW hs, NEW f \in Fd, NEW g \in Fd
  PROVE  \/ clear_id_at(hs, f)[g] = hs[g] /\ g # f /\ g \notin cleared_with(hs, f)
         \/ clear_id_at(hs, f)[g] = unused_handler /\ (g = f \/ is_link_fd(hs, g))
BY DEF clear_id_at, cleared_with

\* After clear_id_at of a perf event no link of the table targets it, and no
\* other perf event is gone.
LEMMA ClearPerf ==
  ASSUME NEW hs \in [Fd -> Handler], NEW f \in Fd, NEW e \in Fd,
         is_perf_fd(hs, e), ~is_perf_fd(clear_id_at(hs, f), e)
  PROVE  /\ e = f
         /\ \A g \in Fd : is_link_fd(clear_id_at(hs, f), g) => clear_id_at(hs, f)[g].attach_target_id # e
<1>1. e = f
  BY ClearKeeps DEF is_perf_fd, is_link_fd
<1>2. ASSUME NEW g \in Fd, is_link_fd(clear_id_at(hs, f), g)
      PROVE  clear_id_at(hs, f)[g].attach_target_id # e
  <2>1. clear_id_at(hs, f)[g] = hs[g] /\ g \notin cleared_with(hs, f)
    BY <1>2, ClearKeeps DEF is_link_fd, unused_handler
  <2> QED BY <1>1, <1>2, <2>1 DEF cleared_with, is_link_fd, is_perf_fd
<1> QED BY <1>1, <1>2

\* The same when a map then takes the cleared slot.
LEMMA ReplacePerf ==
  ASSUME TypeOK, NEW f \in Fd, NEW n, NEW t, NEW e \in Fd, ReplacesByMap(f, n, t),
         is_perf_fd(handlers, e), ~is_perf_fd(handlers', e)
  PROVE  \A g \in Fd : is_link_fd(handlers', g) => handlers'[g].attach_target_id # e
<1> DEFINE hs == clear_id_at(handlers, f)
<1>1. hs \in [Fd -> Handler]
  BY ClearType DEF TypeOK
<1>2. PICK i \in BOOLEAN : handlers' = [hs EXCEPT ![f] = bpf_map_handler(n, t, i)]
  BY Zenon DEF ReplacesByMap, set_map_handler, map_init_constructs, map_name_taken
<1> HIDE DEF hs
<1>3. \A g \in Fd : is_link_fd(handlers', g) => handlers'[g] = hs[g]
  BY <1>1, <1>2 DEF is_link_fd, bpf_map_handler
<1>4. hs[f] = unused_handler
  BY ClearEmpties DEF hs
<1>5. ~is_perf_fd(hs, e)
  BY <1>1, <1>2, <1>4 DEF is_perf_fd, unused_handler
<1>6. \A g \in Fd : is_link_fd(hs, g) => hs[g].attach_target_id # e
  BY <1>5, ClearPerf DEF hs, TypeOK
<1> QED BY <1>3, <1>6 DEF is_link_fd

\* Closing a perf event, or replacing it by a map, removes its links in the
\* same step: the descriptor's next user inherits none (clear_id_at).
THEOREM PerfLinksGo == Spec => PerfTakesItsLinks
<1>1. TypeOK /\ [Next]_vars => LinksLeaveWithPerf
  <2> SUFFICES ASSUME TypeOK, [Next]_vars, NEW e \in Fd, is_perf_fd(handlers, e), ~is_perf_fd(handlers', e)
               PROVE  \A g \in Fd : is_link_fd(handlers', g) => handlers'[g].attach_target_id # e
    BY DEF LinksLeaveWithPerf
  <2>1. CASE OnlyAdds
    BY <2>1 DEF OnlyAdds, is_perf_fd, is_allocated
  <2>2. CASE \E f \in Fd, on \in BOOLEAN : perf_event_enable(f, on)
    BY <2>2 DEF perf_event_enable, is_perf_fd, bpf_perf_event_handler, TypeOK
  <2>3. CASE \E m \in BOOLEAN : handle_open(m)
    BY <2>3 DEF handle_open
  <2>4. ASSUME NEW f \in Fd, handle_close(f)
        PROVE  \A g \in Fd : is_link_fd(handlers', g) => handlers'[g].attach_target_id # e
    <3>1. handlers' = clear_id_at(handlers, f)
      BY <2>4 DEF handle_close
    <3> QED BY <3>1, ClearPerf DEF TypeOK
  <2>5. ASSUME NEW n \in MapNames, NEW t \in MapTypes, add_bpf_map(<<0, n>>, t)
        PROVE  \A g \in Fd : is_link_fd(handlers', g) => handlers'[g].attach_target_id # e
    <3>1. PICK f \in Fd : ReplacesByMap(f, <<0, n>>, t)
      BY <2>5 DEF add_bpf_map, ReplacesByMap
    <3> QED BY <3>1, ReplacePerf
  <2>6. ASSUME NEW o \in Fd, NEW n \in Fd, dup_bpf_map(o, n)
        PROVE  \A g \in Fd : is_link_fd(handlers', g) => handlers'[g].attach_target_id # e
    <3>1. ReplacesByMap(n, <<handlers[o].name[1] + 1, handlers[o].name[2]>>, handlers[o].type)
      BY <2>6 DEF dup_bpf_map, ReplacesByMap
    <3> QED BY <3>1, ReplacePerf
  <2>7. CASE UNCHANGED vars
    BY <2>7 DEF vars
  <2> QED BY <2>1, <2>2, <2>3, <2>4, <2>5, <2>6, <2>7, Requests, Zenon
<1> QED BY <1>1, TypeCorrect, PTL DEF Spec, PerfTakesItsLinks

-----------------------------------------------------------------------------
(* The slots in use are the open descriptors'. *)

\* AllocatedAreOpen needs that mocked files are open themselves: only then does
\* open_fake_fd never hand out the descriptor of one.
FdInv == TypeOK /\ AllocatedAreOpen /\ mocked_files \subseteq fds

\* A placeholder step is a step.
LEMMA PlaceholderIsNext == [PlaceholderNext]_vars => [Next]_vars
BY DEF PlaceholderNext, Next

\* clear_id_at of an empty slot changes nothing.
LEMMA ClearOfEmpty ==
  ASSUME NEW hs \in [Fd -> Handler], NEW f \in Fd, ~is_allocated(hs, f)
  PROVE  \A g \in Fd : g # f => clear_id_at(hs, f)[g] = hs[g]
BY DEF clear_id_at, cleared_with, is_allocated, is_perf_fd, is_prog_fd

\* A map stored at f: the other slots are cleared or stay.
LEMMA ReplaceKeeps ==
  ASSUME TypeOK, NEW f \in Fd, NEW n, NEW t, ReplacesByMap(f, n, t)
  PROVE  /\ is_map_fd(handlers', f) /\ handlers'[f].name = n
         /\ \A g \in Fd : g # f => \/ handlers'[g] = handlers[g]
                                   \/ ~is_allocated(handlers', g) /\ is_link_fd(handlers, g)
<1> DEFINE hs == clear_id_at(handlers, f)
<1>1. hs \in [Fd -> Handler]
  BY ClearType DEF TypeOK
<1>2. PICK i \in BOOLEAN : handlers' = [hs EXCEPT ![f] = bpf_map_handler(n, t, i)]
  BY Zenon DEF ReplacesByMap, set_map_handler, map_init_constructs, map_name_taken
<1>3. \A g \in Fd : g # f => \/ hs[g] = handlers[g]
                             \/ hs[g] = unused_handler /\ is_link_fd(handlers, g)
  BY ClearKeeps
<1> HIDE DEF hs
<1> QED BY <1>1, <1>2, <1>3 DEF is_map_fd, is_allocated, bpf_map_handler, unused_handler

\* The classes of requests of a loader that uses dup3 as libbpf does.
LEMMA PlaceholderRequests ==
  ASSUME TypeOK, [PlaceholderNext]_vars
  PROVE  \/ OnlyAdds
         \/ \E f \in Fd, on \in BOOLEAN : perf_event_enable(f, on)
         \/ \E m \in BOOLEAN : handle_open(m)
         \/ \E f \in Fd : handle_close(f)
         \/ \E n \in MapNames, t \in MapTypes : add_bpf_map(<<0, n>>, t)
         \/ \E o, n \in Fd : handlers[n].kind = "memfd" /\ dup_bpf_map(o, n)
         \/ UNCHANGED vars
<1>1. CASE NextButDup
  <2>1. NextButDup => \/ OnlyAdds
                      \/ \E f \in Fd, on \in BOOLEAN : perf_event_enable(f, on)
                      \/ \E m \in BOOLEAN : handle_open(m)
                      \/ \E f \in Fd : handle_close(f)
                      \/ \E n \in MapNames, t \in MapTypes : add_bpf_map(<<0, n>>, t)
    BY AddRequests DEF NextButDup
  <2> QED BY <1>1, <2>1
<1> QED BY <1>1, Zenon DEF PlaceholderNext

\* FdInv is inductive when dup3 goes to a placeholder.
LEMMA FdStep == FdInv /\ [PlaceholderNext]_vars => FdInv'
<1> SUFFICES ASSUME FdInv, [PlaceholderNext]_vars PROVE FdInv'
  OBVIOUS
<1> USE DEF FdInv
<1>0. TypeOK' /\ [Next]_vars
  BY TypeStep, PlaceholderIsNext
<1> SUFFICES AllocatedAreOpen' /\ (mocked_files \subseteq fds)'
  BY <1>0
<1> USE DEF AllocatedAreOpen
<1>1. CASE OnlyAdds
  BY <1>1 DEF OnlyAdds, is_allocated
<1>2. CASE \E f \in Fd, on \in BOOLEAN : perf_event_enable(f, on)
  BY <1>2 DEF perf_event_enable, is_perf_fd, is_allocated, TypeOK
<1>3. CASE \E m \in BOOLEAN : handle_open(m)
  BY <1>3 DEF handle_open, open_fake_fd, is_allocated
<1>4. ASSUME NEW f \in Fd, handle_close(f) PROVE AllocatedAreOpen' /\ (mocked_files \subseteq fds)'
  <2>1. CASE f \in mocked_files
    BY <1>4, <2>1 DEF handle_close, is_allocated
  <2>2. CASE f \notin mocked_files
    <3>1. handlers' = clear_id_at(handlers, f) /\ fds' = fds \ {f} /\ mocked_files' = mocked_files
      BY <1>4, <2>2 DEF handle_close
    <3>2. \A g \in Fd : is_allocated(handlers', g) => g # f /\ is_allocated(handlers, g)
      BY <3>1, ClearKeeps DEF is_allocated, unused_handler
    <3> QED BY <2>2, <3>1, <3>2
  <2> QED BY <2>1, <2>2
<1>5. ASSUME NEW n \in MapNames, NEW t \in MapTypes, add_bpf_map(<<0, n>>, t)
      PROVE  AllocatedAreOpen' /\ (mocked_files \subseteq fds)'
  <2>1. PICK f \in Fd : /\ f \notin fds
                        /\ fds' = fds \cup {f}
                        /\ ReplacesByMap(f, <<0, n>>, t)
    BY <1>5 DEF add_bpf_map, open_fake_fd, ReplacesByMap
  <2>2. mocked_files' = mocked_files
    BY <1>5 DEF add_bpf_map
  <2>3. \A g \in Fd : is_allocated(handlers', g) => g = f \/ is_allocated(handlers, g)
    BY <2>1, ReplaceKeeps DEF is_allocated
  <2> QED BY <2>1, <2>2, <2>3
<1>6. ASSUME NEW o \in Fd, NEW n \in Fd, handlers[n].kind = "memfd", dup_bpf_map(o, n)
      PROVE  AllocatedAreOpen' /\ (mocked_files \subseteq fds)'
  <2>1. ReplacesByMap(n, <<handlers[o].name[1] + 1, handlers[o].name[2]>>, handlers[o].type)
    BY <1>6 DEF dup_bpf_map, ReplacesByMap
  <2>2. fds' = fds /\ mocked_files' = mocked_files
    BY <1>6 DEF dup_bpf_map
  <2>3. \A g \in Fd : is_allocated(handlers', g) => is_allocated(handlers, g)
    BY <1>6, <2>1, ReplaceKeeps DEF is_allocated
  <2> QED BY <2>2, <2>3
<1>7. CASE UNCHANGED vars
  BY <1>7 DEF vars, is_allocated
<1> QED BY <1>1, <1>2, <1>3, <1>4, <1>5, <1>6, <1>7, PlaceholderRequests, Zenon

\* Every slot in use belongs to an open descriptor that is no mocked file, in
\* a loader that uses dup3 as libbpf does.
THEOREM SlotsOpen == PlaceholderSpec => []AllocatedAreOpen
<1>1. Init => FdInv
  BY DEF Init, FdInv, TypeOK, AllocatedAreOpen, Handler, is_allocated, unused_handler
<1>2. FdInv => AllocatedAreOpen
  BY DEF FdInv
<1> QED BY <1>1, <1>2, FdStep, PTL DEF PlaceholderSpec

\* In such a loader a slot keeps its handler until its own descriptor is
\* closed (open_fake_fd, add_bpf_map, dup_bpf_map, clear_id_at).
THEOREM SlotsKept == PlaceholderSpec => SlotsSurvive
<1>1. FdInv /\ [PlaceholderNext]_vars => SlotChangesAllowed
  <2> SUFFICES ASSUME FdInv, [PlaceholderNext]_vars PROVE SlotChangesAllowed
    OBVIOUS
  <2> USE DEF FdInv, SlotChangesAllowed
  <2>1. CASE OnlyAdds
    BY <2>1 DEF OnlyAdds
  <2>2. CASE \E f \in Fd, on \in BOOLEAN : perf_event_enable(f, on)
    BY <2>2 DEF perf_event_enable, is_perf_fd, bpf_perf_event_handler, TypeOK
  <2>3. CASE \E m \in BOOLEAN : handle_open(m)
    BY <2>3 DEF handle_open
  <2>4. ASSUME NEW f \in Fd, handle_close(f) PROVE SlotChangesAllowed
    <3>1. CASE f \in mocked_files
      BY <2>4, <3>1 DEF handle_close
    <3>2. CASE f \notin mocked_files
      <4>1. handlers' = clear_id_at(handlers, f) /\ fds' = fds \ {f}
        BY <2>4, <3>2 DEF handle_close
      <4> QED BY <4>1, ClearKeeps DEF is_allocated, unused_handler, AllocatedAreOpen
    <3> QED BY <3>1, <3>2
  <2>5. ASSUME NEW n \in MapNames, NEW t \in MapTypes, add_bpf_map(<<0, n>>, t)
        PROVE  SlotChangesAllowed
    <3>1. PICK f \in Fd : f \notin fds /\ ReplacesByMap(f, <<0, n>>, t)
      BY <2>5 DEF add_bpf_map, open_fake_fd, ReplacesByMap
    <3> QED BY <3>1, ReplaceKeeps DEF AllocatedAreOpen
  <2>6. ASSUME NEW o \in Fd, NEW n \in Fd, handlers[n].kind = "memfd", dup_bpf_map(o, n)
        PROVE  SlotChangesAllowed
    <3> DEFINE name == <<handlers[o].name[1] + 1, handlers[o].name[2]>>
    <3>1. ReplacesByMap(n, name, handlers[o].type)
      BY <2>6 DEF dup_bpf_map, ReplacesByMap
    <3>2. handlers[o].name \in Name
      BY <2>6, MapFields DEF dup_bpf_map, is_map_fd, TypeOK
    <3>3. name[1] > 0
      BY <3>2, MaxDupsAssumption DEF Name
    <3> HIDE DEF name
    <3> QED BY <3>1, <3>3, ReplaceKeeps
  <2>7. CASE UNCHANGED vars
    BY <2>7 DEF vars
  <2> QED BY <2>1, <2>2, <2>3, <2>4, <2>5, <2>6, <2>7, PlaceholderRequests, Zenon
<1>2. Init => FdInv
  BY DEF Init, FdInv, TypeOK, AllocatedAreOpen, Handler, is_allocated, unused_handler
<1> QED BY <1>1, <1>2, FdStep, PTL DEF PlaceholderSpec, SlotsSurvive

-----------------------------------------------------------------------------
(* Map objects, for map types that map_init and map_free agree on. *)

\* The inductive strengthening: the objects' names are distinct, and as long
\* as the loader runs every map that should have an object has it, so that
\* map_free of a handler never destroys another handler's object.
ObjectInv ==
  /\ TypeOK
  /\ ImplsBacked
  /\ ContainersFreed
  /\ \A c, d \in containers : c.name = d.name => c = d
  /\ \A f \in Fd : is_map_fd(handlers, f) /\ handlers[f].impl => handlers[f].type = "regular"
  /\ loader = "up" => \A f \in Fd : is_map_fd(handlers, f) /\ handlers[f].type = "regular" => handlers[f].impl

\* clear_id_at with map_free of the slot keeps the objects and handlers
\* together, and leaves the slot empty and unowned.
Freed(hs, cs, f) ==
  /\ \A g \in Fd : is_map_fd(hs, g) <=> (is_map_fd(handlers, g) /\ g # f)
  /\ \A g \in Fd : is_map_fd(hs, g) => hs[g] = handlers[g]
  /\ cs = {c \in containers : c.owner # f}

\* Closing a map takes its handler and its object and no others.
LEMMA ClearFrees ==
  ASSUME MapTypes \subseteq {"regular", "unsupported"}, ObjectInv, loader = "up", NEW f \in Fd
  PROVE  Freed(clear_id_at(handlers, f), map_free(handlers, containers, f), f)
<1> DEFINE hs == clear_id_at(handlers, f)
<1>1. \A g \in Fd : /\ is_map_fd(hs, g) <=> (is_map_fd(handlers, g) /\ g # f)
                    /\ is_map_fd(hs, g) => hs[g] = handlers[g]
  BY ClearKeeps DEF is_map_fd, is_link_fd, unused_handler
<1>2. map_free(handlers, containers, f) = {c \in containers : c.owner # f}
  <2>1. CASE is_map_fd(handlers, f) /\ handlers[f].type = "regular"
    <3>1. handlers[f].impl /\ [name |-> handlers[f].name, owner |-> f] \in containers
      BY <2>1 DEF ObjectInv, ImplsBacked
    <3>2. \A c \in containers : c.name = handlers[f].name <=> c.owner = f
      BY <3>1 DEF ObjectInv, ContainersFreed
    <3> QED BY <2>1, <3>2 DEF map_free, map_free_destroys
  <2>2. CASE ~(is_map_fd(handlers, f) /\ handlers[f].type = "regular")
    <3>1. \A c \in containers : c.owner # f
      BY <2>2 DEF ObjectInv, ContainersFreed, TypeOK
    <3>2. map_free(handlers, containers, f) = containers
      BY <2>2, MapFields DEF ObjectInv, TypeOK, map_free, map_free_destroys, is_map_fd
    <3> QED BY <3>1, <3>2
  <2> QED BY <2>1, <2>2
<1> QED BY <1>1, <1>2 DEF Freed

\* Closing a map, or freeing a slot for a map, and storing a new map there,
\* keep the invariant.
LEMMA ReplaceObjects ==
  ASSUME MapTypes \subseteq {"regular", "unsupported"}, ObjectInv, TypeOK', loader = "up",
         NEW f \in Fd, NEW n \in Name, NEW t \in MapTypes, ReplacesByMap(f, n, t)
  PROVE  ObjectInv'
<1> DEFINE hs == clear_id_at(handlers, f)
           cs == map_free(handlers, containers, f)
           i == map_init_constructs(t) /\ ~map_name_taken(cs, n, t)
<1>1. Freed(hs, cs, f)
  BY ClearFrees
<1>2. hs \in [Fd -> Handler]
  BY ClearType DEF ObjectInv, TypeOK
<1>3. /\ handlers' = [hs EXCEPT ![f] = bpf_map_handler(n, t, i)]
      /\ containers' = IF i THEN cs \cup {[name |-> n, owner |-> f]} ELSE cs
      /\ loader' = IF map_name_taken(cs, n, t) THEN "aborted" ELSE loader
  BY DEF ReplacesByMap, set_map_handler
<1>4. i \in BOOLEAN /\ (i => t = "regular" /\ \A c \in cs : c.name # n)
  BY DEF map_init_constructs, map_name_taken
<1>5. loader' = "up" /\ t = "regular" => i
  BY <1>3 DEF map_init_constructs
<1> HIDE DEF hs, cs, i
<1>6. /\ is_map_fd(handlers', f)
      /\ handlers'[f].name = n /\ handlers'[f].type = t /\ handlers'[f].impl = i
  BY <1>2, <1>3 DEF is_map_fd, bpf_map_handler
<1>7. \A g \in Fd : g # f => /\ is_map_fd(handlers', g) <=> is_map_fd(handlers, g)
                             /\ is_map_fd(handlers, g) => handlers'[g] = handlers[g]
  BY <1>1, <1>2, <1>3 DEF Freed, is_map_fd
<1>8. \A c \in cs : c \in containers /\ c.owner \in Fd /\ c.owner # f
  BY <1>1 DEF Freed, ObjectInv, TypeOK
<1>9. ImplsBacked'
  <2>1. ASSUME NEW g \in Fd, is_map_fd(handlers', g), handlers'[g].impl
        PROVE  [name |-> handlers'[g].name, owner |-> g] \in containers'
    <3>1. CASE g = f
      BY <3>1, <2>1, <1>3, <1>6
    <3>2. CASE g # f
      <4>1. [name |-> handlers[g].name, owner |-> g] \in containers
        BY <3>2, <2>1, <1>7 DEF ObjectInv, ImplsBacked
      <4>2. [name |-> handlers[g].name, owner |-> g] \in cs
        BY <3>2, <4>1, <1>1 DEF Freed
      <4>3. cs \subseteq containers'
        BY <1>3
      <4>4. handlers'[g] = handlers[g]
        BY <3>2, <2>1, <1>7
      <4> QED BY <4>2, <4>3, <4>4
    <3> QED BY <3>1, <3>2
  <2> QED BY <2>1 DEF ImplsBacked
<1>10. ContainersFreed'
  <2>1. ASSUME NEW c \in cs
        PROVE  is_map_fd(handlers', c.owner) /\ handlers'[c.owner].impl /\ handlers'[c.owner].name = c.name
    BY <1>7, <1>8 DEF ObjectInv, ContainersFreed
  <2>2. i => LET c == [name |-> n, owner |-> f]
             IN  is_map_fd(handlers', c.owner) /\ handlers'[c.owner].impl /\ handlers'[c.owner].name = c.name
    BY <1>6, Zenon
  <2> QED BY <1>3, <2>1, <2>2, Zenon DEF ContainersFreed
<1>11. \A c, d \in containers' : c.name = d.name => c = d
  <2>1. \A c, d \in cs : c.name = d.name => c = d
    BY <1>8, Zenon DEF ObjectInv
  <2>2. CASE ~i
    BY <1>3, <2>1, <2>2, Zenon
  <2>3. CASE i
    <3>1. PICK new : new = [name |-> n, owner |-> f]
      BY Zenon
    <3>2. new.name = n /\ containers' = cs \cup {new} /\ \A c \in cs : c.name # n
      BY <1>3, <1>4, <2>3, <3>1
    <3> QED BY <2>1, <3>2, Zenon
  <2> QED BY <2>2, <2>3, Zenon
<1>12. \A g \in Fd : is_map_fd(handlers', g) /\ handlers'[g].impl => handlers'[g].type = "regular"
  BY <1>4, <1>6, <1>7 DEF ObjectInv
<1>13. loader' = "up" => \A g \in Fd : is_map_fd(handlers', g) /\ handlers'[g].type = "regular" => handlers'[g].impl
  BY <1>5, <1>6, <1>7 DEF ObjectInv
<1> QED BY <1>9, <1>10, <1>11, <1>12, <1>13 DEF ObjectInv

\* Every request keeps the map objects and the handlers together.
LEMMA ObjectStep ==
  ASSUME MapTypes \subseteq {"regular", "unsupported"}
  PROVE  ObjectInv /\ [Next]_vars => ObjectInv'
<1> SUFFICES ASSUME ObjectInv, [Next]_vars PROVE ObjectInv'
  OBVIOUS
<1>0. TypeOK /\ TypeOK'
  BY TypeStep DEF ObjectInv
<1>a. ASSUME UNCHANGED <<containers, loader>>,
             \A g \in Fd : \/ handlers'[g] = handlers[g]
                           \/ ~is_map_fd(handlers, g) /\ ~is_map_fd(handlers', g)
      PROVE  ObjectInv'
  <2>1. \A g \in Fd : /\ is_map_fd(handlers', g) <=> is_map_fd(handlers, g)
                      /\ is_map_fd(handlers, g) => handlers'[g] = handlers[g]
    BY <1>a DEF is_map_fd
  <2>2. ImplsBacked'
    BY <1>a, <2>1 DEF ObjectInv, ImplsBacked
  <2>3. ContainersFreed'
    BY <1>0, <1>a, <2>1 DEF ObjectInv, ContainersFreed, TypeOK
  <2> QED BY <1>0, <1>a, <2>1, <2>2, <2>3 DEF ObjectInv
<1>1. CASE OnlyAdds
  BY <1>1, <1>a DEF OnlyAdds, is_allocated, is_map_fd
<1>2. CASE \E f \in Fd, on \in BOOLEAN : perf_event_enable(f, on)
  <2>1. PICK f \in Fd, on \in BOOLEAN : perf_event_enable(f, on)
    BY <1>2
  <2>2. handlers' = [handlers EXCEPT ![f] = bpf_perf_event_handler(on)] /\ handlers[f].kind = "perf"
    BY <2>1 DEF perf_event_enable, is_perf_fd
  <2>3. \A g \in Fd : \/ handlers'[g] = handlers[g]
                      \/ ~is_map_fd(handlers, g) /\ ~is_map_fd(handlers', g)
    BY <1>0, <2>2 DEF TypeOK, is_map_fd, bpf_perf_event_handler
  <2> QED BY <1>a, <2>1, <2>3, Zenon DEF perf_event_enable
<1>3. CASE \E m \in BOOLEAN : handle_open(m)
  BY <1>3, <1>a DEF handle_open
<1>4. ASSUME NEW f \in Fd, handle_close(f) PROVE ObjectInv'
  <2>1. CASE f \in mocked_files
    BY <1>4, <1>a, <2>1 DEF handle_close
  <2>2. CASE f \notin mocked_files
    <3>1. Freed(handlers', containers', f) /\ loader' = loader
      BY <1>4, <2>2, ClearFrees DEF handle_close
    <3>2. ImplsBacked'
      BY <3>1 DEF Freed, ObjectInv, ImplsBacked
    <3>3. ContainersFreed'
      BY <1>0, <3>1 DEF Freed, ObjectInv, ContainersFreed, TypeOK
    <3> QED BY <1>0, <3>1, <3>2, <3>3 DEF Freed, ObjectInv
  <2> QED BY <2>1, <2>2
<1>5. ASSUME NEW n \in MapNames, NEW t \in MapTypes, add_bpf_map(<<0, n>>, t) PROVE ObjectInv'
  <2>1. PICK f \in Fd : ReplacesByMap(f, <<0, n>>, t)
    BY <1>5 DEF add_bpf_map, ReplacesByMap
  <2>2. <<0, n>> \in Name
    BY MaxDupsAssumption DEF Name
  <2> QED BY <1>0, <1>5, <2>1, <2>2, ReplaceObjects DEF add_bpf_map
<1>6. ASSUME NEW o \in Fd, NEW n \in Fd, dup_bpf_map(o, n) PROVE ObjectInv'
  <2> DEFINE name == <<handlers[o].name[1] + 1, handlers[o].name[2]>>
  <2>1. handlers[o].name \in Name /\ handlers[o].type \in MapTypes
    BY <1>0, <1>6, MapFields DEF dup_bpf_map, is_map_fd, TypeOK
  <2>2. name \in Name
    <3>1. handlers[o].name[1] \in 0..MaxDups /\ handlers[o].name[2] \in MapNames
      BY <2>1 DEF Name
    <3>2. handlers[o].name[1] < MaxDups
      BY <1>6, Zenon DEF dup_bpf_map
    <3>3. handlers[o].name[1] + 1 \in 0..MaxDups
      BY <3>1, <3>2, MaxDupsAssumption
    <3> QED BY <3>1, <3>3, Zenon DEF Name
  <2>3. ReplacesByMap(n, name, handlers[o].type) /\ loader = "up"
    BY <1>6 DEF dup_bpf_map, ReplacesByMap
  <2> HIDE DEF name
  <2> QED BY <1>0, <2>1, <2>2, <2>3, ReplaceObjects, Zenon
<1>7. CASE UNCHANGED vars
  BY <1>7, <1>a DEF vars
<1> QED BY <1>0, <1>1, <1>2, <1>3, <1>4, <1>5, <1>6, <1>7, Requests, Zenon

\* The map objects and their handlers correspond, for map types that map_init and map_free treat alike.
LEMMA ObjectInvariant ==
  ASSUME MapTypes \subseteq {"regular", "unsupported"}
  PROVE  Spec => []ObjectInv
<1>1. Init => ObjectInv
  BY DEF Init, ObjectInv, TypeOK, ImplsBacked, ContainersFreed, Handler, is_map_fd, unused_handler
<1> QED BY <1>1, ObjectStep, PTL DEF Spec

\* map_init and map_free: a handler with an object has constructed it itself, and it is still there.
THEOREM HandlersHaveObjects ==
  ASSUME MapTypes \subseteq {"regular", "unsupported"}
  PROVE  Spec => []ImplsBacked
<1>1. ObjectInv => ImplsBacked
  BY DEF ObjectInv
<1> QED BY <1>1, ObjectInvariant, PTL

\* map_free, called by clear_id_at: no map object outlives its handler.
THEOREM ObjectsAreFreed ==
  ASSUME MapTypes \subseteq {"regular", "unsupported"}
  PROVE  Spec => []ContainersFreed
<1>1. ObjectInv => ContainersFreed
  BY DEF ObjectInv
<1> QED BY <1>1, ObjectInvariant, PTL

=============================================================================
