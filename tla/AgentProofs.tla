----------------------------- MODULE AgentProofs -----------------------------
(***************************************************************************)
(* Proofs about the agent, for every handler table, one that the loader    *)
(* changes meanwhile included, and any number of injections and detaches,  *)
(* overlapping or not: what the attach context believes to be attached is  *)
(* what the two attach implementations hold, overrides stay on their own,  *)
(* a detach leaves nothing, and an injection attaches all it can.          *)
(***************************************************************************)
EXTENDS Agent, TLAPS

\* The tables of the syscall tracer mirror its entries.
SyscallInv ==
  /\ syscall_next_id \in Nat
  /\ callbacks = [r \in Rows |-> {i \in DOMAIN attach_entries : <<attach_entries[i].sys_nr, attach_entries[i].is_enter>> = r}]
  /\ \A i \in DOMAIN attach_entries : i \in Nat /\ i < syscall_next_id

\* A step as the syscall tracer sees it.
SyscallStep ==
  \/ UNCHANGED syscall_vars
  \/ set_to_global
  \/ \E data, cb : create_syscall_attach(data, cb)
  \/ \E ids : syscall_detach_by_id(ids)

\* Every step is one of the tracer's operations, or leaves it alone.
LEMMA StepsOfTheTracer ==
  ASSUME [Next \/ loader_changes_table]_all_vars
  PROVE  SyscallStep
<1>1. ASSUME NEW m \in Injections, bpftime_agent_main(m) \/ bpftime_initialize_global_shm(m) \/ add_pid_into_alive_agent_set(m)
      PROVE  SyscallStep
  BY <1>1, Zenon DEF bpftime_agent_main, bpftime_initialize_global_shm, add_pid_into_alive_agent_set, attach_vars, SyscallStep
<1>2. ASSUME NEW m \in Injections, ctx_holder_init(m) PROVE SyscallStep
  BY <1>2, Zenon DEF ctx_holder_init, construct, SyscallStep
<1>3. ASSUME NEW m \in Injections, init_attach_ctx_from_handlers(m) PROVE SyscallStep
  <2>1. ASSUME NEW id, NEW result, instantiate_handler_at(id, result) PROVE SyscallStep
    <3>1. ASSUME NEW c, instantiate_bpf_link_handler_at(c, id, result) PROVE SyscallStep
      BY <3>1, Zenon DEF instantiate_bpf_link_handler_at, SyscallStep
    <3> QED BY <2>1, <3>1, Zenon DEF instantiate_handler_at, attach_vars, SyscallStep
  <2>2. ASSUME UNCHANGED attach_vars PROVE SyscallStep
    BY <2>2, Zenon DEF attach_vars, SyscallStep
  <2> QED BY <1>3, <2>1, <2>2, Zenon DEF init_attach_ctx_from_handlers
<1>4. ASSUME detach_command \/ sigusr1_reset \/ traced_thread \/ UNCHANGED all_vars PROVE SyscallStep
  BY <1>4, Zenon DEF detach_command, sigusr1_reset, traced_thread, all_vars, attach_vars, SyscallStep
<1>5. ASSUME sigusr1_destroy_all PROVE SyscallStep
  BY <1>5, Zenon DEF sigusr1_destroy_all, destroy_all_attach_links, attach_vars, SyscallStep
<1>6. ASSUME loader_changes_table PROVE SyscallStep
  BY <1>6, Zenon DEF loader_changes_table, attach_vars, SyscallStep
<1> QED BY <1>1, <1>2, <1>3, <1>4, <1>5, <1>6, Zenon DEF Next

\* The operations of the tracer keep its tables in step.
LEMMA TracerStep ==
  ASSUME SyscallInv, SyscallStep
  PROVE  SyscallInv'
<1>1. CASE UNCHANGED syscall_vars
  BY <1>1, Zenon DEF SyscallInv, syscall_vars
<1>2. CASE set_to_global
  BY <1>2 DEF SyscallInv, set_to_global
<1>3. ASSUME NEW data, NEW cb, create_syscall_attach(data, cb) PROVE SyscallInv'
  <2> DEFINE n == syscall_next_id
             row == <<data.sys_nr, data.is_enter>>
             of(i) == <<attach_entries[i].sys_nr, attach_entries[i].is_enter>>
  <2>1. /\ DOMAIN attach_entries' = DOMAIN attach_entries \cup {n}
        /\ \A i \in DOMAIN attach_entries : i # n /\ attach_entries'[i] = attach_entries[i]
        /\ attach_entries'[n].sys_nr = data.sys_nr /\ attach_entries'[n].is_enter = data.is_enter
    BY <1>3 DEF create_syscall_attach, SyscallInv
  <2>2. callbacks' = [r \in Rows |-> IF r = row THEN callbacks[r] \cup {n} ELSE callbacks[r]]
    BY <1>3, Zenon DEF create_syscall_attach, SyscallInv
  <2>3. ASSUME NEW r \in Rows
        PROVE  (IF r = row THEN callbacks[r] \cup {n} ELSE callbacks[r])
                 = {i \in DOMAIN attach_entries' : <<attach_entries'[i].sys_nr, attach_entries'[i].is_enter>> = r}
    <3>1. callbacks[r] = {i \in DOMAIN attach_entries : of(i) = r}
      BY Zenon DEF SyscallInv
    <3> QED BY <2>1, <3>1, Zenon
  <2>4. /\ syscall_next_id' \in Nat
        /\ \A i \in DOMAIN attach_entries' : i \in Nat /\ i < syscall_next_id'
    <3>1. n \in Nat /\ syscall_next_id' = n + 1 /\ \A i \in DOMAIN attach_entries : i \in Nat /\ i < n
      BY <1>3, Zenon DEF SyscallInv, create_syscall_attach
    <3> QED BY <2>1, <3>1
  <2>5. callbacks' = [r \in Rows |-> {i \in DOMAIN attach_entries' :
                                       <<attach_entries'[i].sys_nr, attach_entries'[i].is_enter>> = r}]
    BY <2>2, <2>3, Zenon
  <2> QED BY <2>4, <2>5, Zenon DEF SyscallInv
<1>4. ASSUME NEW ids, syscall_detach_by_id(ids) PROVE SyscallInv'
  <2>1. /\ DOMAIN attach_entries' = DOMAIN attach_entries \ ids
        /\ \A i \in DOMAIN attach_entries' : attach_entries'[i] = attach_entries[i]
    BY <1>4, Zenon DEF syscall_detach_by_id
  <2>2. ASSUME NEW r \in Rows
        PROVE  callbacks[r] \ {i \in ids \cap DOMAIN attach_entries : <<attach_entries[i].sys_nr, attach_entries[i].is_enter>> = r}
                 = {i \in DOMAIN attach_entries' : <<attach_entries'[i].sys_nr, attach_entries'[i].is_enter>> = r}
    <3>1. callbacks[r] = {i \in DOMAIN attach_entries : <<attach_entries[i].sys_nr, attach_entries[i].is_enter>> = r}
      BY Zenon DEF SyscallInv
    <3> QED BY <2>1, <3>1, Zenon
  <2> QED BY <1>4, <2>1, <2>2, Zenon DEF SyscallInv, syscall_detach_by_id
<1> QED BY <1>1, <1>2, <1>3, <1>4, Zenon DEF SyscallStep

\* Whatever the tables, also while the loader changes them, and however injections and detaches overlap:
\* dispatch_syscall runs exactly the callbacks that are attached to the system call, and follows no pointer to an
\* entry that detach_by_id has freed.
THEOREM TracerDispatchesAttached ==
  SharedTableSpec => []DispatchesAttached
<1>1. AgentInit => SyscallInv
  BY DEF AgentInit, CtxInit, SyscallInit, SyscallInv
<1>2. SyscallInv /\ [Next \/ loader_changes_table]_all_vars => SyscallInv'
  BY StepsOfTheTracer, TracerStep, Zenon
<1>3. SyscallInv => DispatchesAttached
  BY DEF SyscallInv, DispatchesAttached, dispatched, Rows
<1> QED BY <1>1, <1>2, <1>3, PTL DEF SharedTableSpec

-----------------------------------------------------------------------------
(* What the context knows. *)

\* A context as instantiate_handler_at passes it around, which has lost none of the handlers in `done'.
Keeps(c, done) ==
  /\ c = [done |-> c.done, progs |-> c.progs, events |-> c.events, err |-> c.err]
  /\ done \subseteq c.done

\* Instantiating a handler forgets none that was instantiated.
LEMMA InstantiatedKeeps ==
  ASSUME NEW done, NEW c, Keeps(c, done), NEW id
  PROVE  Keeps(instantiated(c, id), done)
<1>1. Keeps(instantiate_prog_handler_at(c, id), done)
  BY Zenon DEF Keeps, instantiate_prog_handler_at
<1>2. Keeps(instantiate_perf_event_handler_at(c, id), done)
  BY Zenon DEF Keeps, instantiate_perf_event_handler_at
<1> QED BY <1>1, <1>2, Zenon DEF instantiated

\* So for what a slot of the table, or a link, needs.
LEMMA NeededKeeps ==
  ASSUME NEW id
  PROVE  /\ instantiated_handlers \subseteq instantiated(now, id).done
         /\ instantiated_handlers \subseteq needed_by_link(handlers[id]).done
<1>1. Keeps(now, instantiated_handlers)
  BY Zenon DEF Keeps, now
<1>2. \A i : Keeps(instantiated(now, i), instantiated_handlers)
  BY <1>1, InstantiatedKeeps, Zenon
<1>3. \A i, j : Keeps(instantiated(instantiated(now, i), j), instantiated_handlers)
  BY <1>2, InstantiatedKeeps, Zenon
<1> QED BY <1>2, <1>3, Zenon DEF needed_by_link, Keeps

\* The link `id' is attached by one of the two implementations, under the next id of that implementation.
Attaches(id, impl) ==
  /\ id \notin instantiated_handlers
  /\ instantiated_handlers \cup {id} \subseteq instantiated_handlers'
  /\ instantiated_attach_links' =
       [i \in DOMAIN instantiated_attach_links \cup {id} |->
          IF i # id THEN instantiated_attach_links[i]
          ELSE [impl |-> impl, id |-> IF impl = "frida" THEN next_id ELSE syscall_next_id]]
  /\ IF impl = "frida"
       THEN /\ DOMAIN attaches' = DOMAIN attaches \cup {next_id} /\ next_id' = next_id + 1
            /\ UNCHANGED <<attach_entries, syscall_next_id>>
       ELSE /\ DOMAIN attach_entries' = DOMAIN attach_entries \cup {syscall_next_id}
            /\ UNCHANGED <<attaches, next_id>>

\* A step as the context sees it.
ContextStep ==
  \/ /\ UNCHANGED <<attaches, next_id, attach_entries, instantiated_attach_links>>
     /\ instantiated_handlers \subseteq instantiated_handlers'
  \/ construct
  \/ \E id, impl : impl \in {"frida", "syscall"} /\ Attaches(id, impl)
  \/ destroy_all_attach_links

\* Every step is one of the context's operations, or leaves it alone.
LEMMA StepsOfTheContext ==
  ASSUME [Next \/ loader_changes_table]_all_vars
  PROVE  ContextStep
<1>0. ASSUME UNCHANGED attach_vars PROVE ContextStep
  BY <1>0, Zenon DEF attach_vars, frida_vars, syscall_vars, ctx_vars, ContextStep
<1>1. ASSUME NEW m \in Injections, bpftime_agent_main(m) \/ bpftime_initialize_global_shm(m) \/ add_pid_into_alive_agent_set(m)
      PROVE  ContextStep
  BY <1>0, <1>1, Zenon DEF bpftime_agent_main, bpftime_initialize_global_shm, add_pid_into_alive_agent_set
<1>2. ASSUME NEW m \in Injections, ctx_holder_init(m) PROVE ContextStep
  BY <1>2, Zenon DEF ctx_holder_init, ContextStep
<1>3. ASSUME NEW id, NEW result, instantiate_handler_at(id, result) PROVE ContextStep
  <2>1. CASE UNCHANGED attach_vars
    BY <1>0, <2>1, Zenon
  <2>2. CASE /\ UNCHANGED <<instantiated_attach_links, frida_vars, syscall_vars>>
             /\ instantiated_handlers \subseteq instantiated_handlers'
    BY <2>2, Zenon DEF frida_vars, syscall_vars, ContextStep
  <2>3. ASSUME NEW c, instantiated_handlers \subseteq c.done, ~already_instantiated(id),
               instantiate_bpf_link_handler_at(c, id, result)
        PROVE  ContextStep
    <3>1. CASE UNCHANGED <<instantiated_attach_links, frida_vars, syscall_vars>> /\ instantiated_handlers' = c.done
      BY <2>2, <2>3, <3>1, Zenon
    <3>2. ASSUME NEW at, NEW type, attach_at(at, type, id), UNCHANGED syscall_vars,
                 instantiated_handlers' = c.done \cup {id},
                 instantiated_attach_links' =
                   [i \in DOMAIN instantiated_attach_links \cup {id} |->
                      IF i # id THEN instantiated_attach_links[i] ELSE [impl |-> "frida", id |-> next_id]]
          PROVE  Attaches(id, "frida")
      BY <2>3, <3>2, Zenon DEF attach_at, syscall_vars, Attaches, already_instantiated
    <3>3. ASSUME NEW at, create_syscall_attach(at, id), UNCHANGED frida_vars,
                 instantiated_handlers' = c.done \cup {id},
                 instantiated_attach_links' =
                   [i \in DOMAIN instantiated_attach_links \cup {id} |->
                      IF i # id THEN instantiated_attach_links[i] ELSE [impl |-> "syscall", id |-> syscall_next_id]]
          PROVE  Attaches(id, "syscall")
      BY <2>3, <3>3, Zenon DEF create_syscall_attach, frida_vars, Attaches, already_instantiated
    <3> QED BY <2>3, <3>1, <3>2, <3>3, Zenon DEF instantiate_bpf_link_handler_at, ContextStep
  <2>4. CASE ~already_instantiated(id) /\ handlers[id].kind # "link"
    <3>1. instantiated_handlers \subseteq instantiated(now, id).done
      BY NeededKeeps, Zenon
    <3> QED BY <1>3, <2>2, <2>4, <3>1, Zenon DEF instantiate_handler_at
  <2>5. CASE ~already_instantiated(id) /\ handlers[id].kind = "link"
    <3>1. instantiated_handlers \subseteq needed_by_link(handlers[id]).done
      BY NeededKeeps, Zenon
    <3> QED BY <1>3, <2>2, <2>3, <2>5, <3>1, Zenon DEF instantiate_handler_at
  <2> QED BY <1>3, <2>1, <2>4, <2>5, Zenon DEF instantiate_handler_at
<1>4. ASSUME NEW m \in Injections, init_attach_ctx_from_handlers(m) PROVE ContextStep
  BY <1>0, <1>3, <1>4, Zenon DEF init_attach_ctx_from_handlers
<1>5. ASSUME detach_command \/ sigusr1_reset \/ UNCHANGED all_vars PROVE ContextStep
  BY <1>0, <1>5, Zenon DEF detach_command, sigusr1_reset, all_vars
<1>6. ASSUME traced_thread PROVE ContextStep
  BY <1>6, Zenon DEF traced_thread, call_step, override_enter, override_filter, override_leave, syscall_vars, ctx_vars, ContextStep
<1>7. ASSUME sigusr1_destroy_all PROVE ContextStep
  BY <1>0, <1>7, Zenon DEF sigusr1_destroy_all, ContextStep
<1>8. ASSUME loader_changes_table PROVE ContextStep
  BY <1>0, <1>8, Zenon DEF loader_changes_table
<1> QED BY <1>1, <1>2, <1>4, <1>5, <1>6, <1>7, <1>8, Zenon DEF Next

\* The inductive invariant: ids are handed out once, and a link that has an attach is instantiated, so that the
\* second pass and a further injection leave it alone.
ContextInv ==
  /\ SyscallInv
  /\ next_id \in Nat /\ \A i \in DOMAIN attaches : i \in Nat /\ i < next_id
  /\ DOMAIN instantiated_attach_links \subseteq instantiated_handlers
  /\ LinksAreAttaches

Nothing ==
  /\ DOMAIN attaches = {} /\ DOMAIN attach_entries = {} /\ DOMAIN instantiated_attach_links = {}
  /\ next_id \in Nat
  /\ SyscallInv

\* A new context, the context at the start, and one whose links were destroyed have nothing attached.
LEMMA NothingAttached ==
  Nothing => ContextInv
<1> SUFFICES ASSUME Nothing PROVE ContextInv
  BY Zenon
<1>1. \A impl : attach_ids(impl, DOMAIN instantiated_attach_links) = {}
  BY Zenon DEF Nothing, attach_ids
<1> QED BY <1>1, Zenon DEF Nothing, ContextInv, LinksAreAttaches

\* An attach adds an id to one implementation and to the link.
LEMMA AttachStep ==
  ASSUME ContextInv, SyscallInv', NEW id, NEW impl \in {"frida", "syscall"}, Attaches(id, impl)
  PROVE  ContextInv'
<1> DEFINE links == instantiated_attach_links
           n == IF impl = "frida" THEN next_id ELSE syscall_next_id
<1>1. id \notin DOMAIN links /\ next_id \notin DOMAIN attaches /\ syscall_next_id \notin DOMAIN attach_entries
  BY DEF ContextInv, SyscallInv, Attaches
<1>2. /\ DOMAIN links' = DOMAIN links \cup {id}
      /\ \A l \in DOMAIN links : links'[l] = links[l]
      /\ links'[id].impl = impl /\ links'[id].id = n
  BY <1>1, Zenon DEF Attaches
<1>3. attach_ids(impl, DOMAIN links)' = attach_ids(impl, DOMAIN links) \cup {n}
  BY <1>1, <1>2 DEF attach_ids
<1>4. \A other \in {"frida", "syscall"} :
        other # impl => attach_ids(other, DOMAIN links)' = attach_ids(other, DOMAIN links)
  BY <1>1, <1>2 DEF attach_ids
<1>5. DOMAIN links' \subseteq instantiated_handlers'
  BY <1>2, Zenon DEF ContextInv, Attaches
<1>6. \A l \in DOMAIN links : links[l].impl = impl => links[l].id # n
  BY <1>1, Zenon DEF ContextInv, LinksAreAttaches, attach_ids
<1>7. \A k, l \in DOMAIN links' : links'[k] = links'[l] => k = l
  BY <1>2, <1>6 DEF ContextInv, LinksAreAttaches
<1>8. CASE impl = "frida"
  <2>1. /\ DOMAIN attaches' = DOMAIN attaches \cup {next_id} /\ next_id' = next_id + 1 /\ n = next_id
        /\ attach_entries' = attach_entries
    BY <1>8, Zenon DEF Attaches
  <2>2. next_id' \in Nat /\ \A i \in DOMAIN attaches' : i \in Nat /\ i < next_id'
    BY <2>1 DEF ContextInv
  <2>3. attach_ids("frida", DOMAIN links)' = DOMAIN attaches' /\ attach_ids("syscall", DOMAIN links)' = DOMAIN attach_entries'
    BY <1>3, <1>4, <1>8, <2>1, Zenon DEF ContextInv, LinksAreAttaches
  <2> QED BY <1>5, <1>7, <2>2, <2>3, Zenon DEF ContextInv, LinksAreAttaches
<1>9. CASE impl = "syscall"
  <2>1. /\ DOMAIN attach_entries' = DOMAIN attach_entries \cup {syscall_next_id} /\ n = syscall_next_id
        /\ attaches' = attaches /\ next_id' = next_id
    BY <1>9, Zenon DEF Attaches
  <2>2. attach_ids("frida", DOMAIN links)' = DOMAIN attaches' /\ attach_ids("syscall", DOMAIN links)' = DOMAIN attach_entries'
    BY <1>3, <1>4, <1>9, <2>1, Zenon DEF ContextInv, LinksAreAttaches
  <2> QED BY <1>5, <1>7, <2>1, <2>2, Zenon DEF ContextInv, LinksAreAttaches
<1> QED BY <1>8, <1>9, Zenon

\* The operations of the context keep it in step with the implementations.
LEMMA ContextKept ==
  ASSUME ContextInv, SyscallInv', ContextStep
  PROVE  ContextInv'
<1>1. CASE /\ UNCHANGED <<attaches, next_id, attach_entries, instantiated_attach_links>>
           /\ instantiated_handlers \subseteq instantiated_handlers'
  BY <1>1, ZenonT(40) DEF ContextInv, LinksAreAttaches, attach_ids
<1>2. CASE construct
  <2>1. Nothing'
    BY <1>2 DEF Nothing, construct, fresh_impl, set_to_global
  <2> QED BY <2>1, NothingAttached, PTL
<1>3. ASSUME NEW id, NEW impl \in {"frida", "syscall"}, Attaches(id, impl) PROVE ContextInv'
  BY <1>3, AttachStep, Zenon
<1>4. CASE destroy_all_attach_links
  <2>1. Nothing'
    BY <1>4, Zenon DEF Nothing, destroy_all_attach_links, detach_by_id, syscall_detach_by_id, links_to_detach, ContextInv, LinksAreAttaches
  <2> QED BY <2>1, NothingAttached, PTL
<1> QED BY <1>1, <1>2, <1>3, <1>4, Zenon DEF ContextStep

\* Whatever the tables, also while the loader changes them, and however injections and detaches overlap: every
\* attach of the two implementations belongs to exactly one link of the context, so destroy_all_attach_links
\* reaches all that this context attached.
THEOREM ContextKnowsItsAttaches ==
  SharedTableSpec => []LinksAreAttaches
<1>1. AgentInit => ContextInv
  <2> SUFFICES ASSUME AgentInit PROVE ContextInv
    BY Zenon
  <2>1. Nothing
    BY DEF Nothing, AgentInit, CtxInit, FridaInit, SyscallInit, SyscallInv
  <2> QED BY <2>1, NothingAttached, Zenon
<1>2. ContextInv /\ [Next \/ loader_changes_table]_all_vars => ContextInv'
  BY StepsOfTheTracer, TracerStep, StepsOfTheContext, ContextKept, Zenon DEF ContextInv
<1>3. ContextInv => LinksAreAttaches
  BY Zenon DEF ContextInv
<1> QED BY <1>1, <1>2, <1>3, PTL DEF SharedTableSpec

-----------------------------------------------------------------------------
(* Hook entries and the calls of replaced functions. *)

UserAttach == [self_id : Nat, type : AttachTypes, cb : Slots]
HookEntry == [function : Functions, listener : BOOLEAN, user_attaches : SUBSET UserAttach, is_overrided : BOOLEAN,
              user_ret : RetVals \cup {Original}, live : BOOLEAN]
Call == [pc : {"outside", "filter", "leave"}, entry : Nat, set : RetVals \cup {Original}, got : RetVals \cup {Original},
         alone : BOOLEAN]

FridaTypes ==
  /\ entries \in Seq(HookEntry)
  /\ calls \in [Threads -> Call]
  /\ next_id \in Nat
  /\ \A f \in DOMAIN internal_attaches : f \in Functions /\ internal_attaches[f] \in live_entries

\* A step as the uprobe implementation sees it.
FridaStep ==
  \/ UNCHANGED frida_vars
  \/ fresh_impl /\ UNCHANGED <<entries, calls>>
  \/ \E func \in Functions, type \in AttachTypes, cb \in Slots : attach_at(func, type, cb)
  \/ \E ids : detach_by_id(ids)
  \/ call_step

\* Hook entry e with one more user attach.
Extended(e, ua) == [e EXCEPT !.user_attaches = @ \cup {ua}]

\* An attach changes one hook entry, a new one or the one of the function.
AttachedTo(n, e, ua, func, type) ==
  /\ n \in 1..Len(entries') /\ e \in HookEntry /\ ua \in UserAttach
  /\ \A m \in 1..Len(entries') : m # n => m \in 1..Len(entries) /\ entries'[m] = entries[m]
  /\ entries'[n] = Extended(e, ua)
  /\ ua.self_id = next_id /\ ua.type = recorded_type(type)
  /\ \/ /\ func \notin DOMAIN internal_attaches
        /\ n = Len(entries) + 1 /\ Len(entries') = n
        /\ e = new_entry(func, type)
     \/ /\ func \in DOMAIN internal_attaches
        /\ n = internal_attaches[func] /\ Len(entries') = Len(entries)
        /\ e = entries[n] /\ ~has_override(n)

\* attach_at adds one user attach to one hook entry, a new or an existing one.
LEMMA AttachAt ==
  ASSUME FridaTypes, NEW func \in Functions, NEW type \in AttachTypes, NEW cb \in Slots, attach_at(func, type, cb)
  PROVE  /\ entries' \in Seq(HookEntry)
         /\ \E n \in Nat, e \in HookEntry, ua \in UserAttach : ua.cb = cb /\ AttachedTo(n, e, ua, func, type)
<1> DEFINE ent == [self_id |-> next_id, type |-> recorded_type(type), cb |-> cb]
<1>1. ent \in UserAttach
  BY Zenon DEF UserAttach, FridaTypes, recorded_type, AttachTypes, OverrideTypes
<1>2. \A e \in HookEntry : Extended(e, ent) \in HookEntry
  BY <1>1, Zenon DEF HookEntry, Extended
<1>3. new_entry(func, type) \in HookEntry
  BY Zenon DEF new_entry, HookEntry
<1>4. CASE func \notin DOMAIN internal_attaches
  <2> DEFINE n == Len(entries) + 1
             all == Append(entries, new_entry(func, type))
  <2>1. entries' = [all EXCEPT ![n] = Extended(all[n], ent)]
    BY <1>4, Zenon DEF attach_at, Extended
  <2>2. /\ all \in Seq(HookEntry) /\ Len(all) = n /\ n \in Nat /\ n \in 1..n /\ all[n] = new_entry(func, type)
        /\ \A m \in 1..n : m # n => m \in 1..Len(entries) /\ all[m] = entries[m]
    BY <1>3 DEF FridaTypes
  <2>3. /\ entries' \in Seq(HookEntry) /\ Len(entries') = n /\ entries'[n] = Extended(new_entry(func, type), ent)
        /\ \A m \in 1..n : m # n => m \in 1..Len(entries) /\ entries'[m] = entries[m]
    <3> HIDE DEF all, n, ent
    <3> QED BY <1>2, <1>3, <2>1, <2>2
  <2> QED BY <1>1, <1>3, <1>4, <2>2, <2>3, Zenon DEF AttachedTo
<1>5. CASE func \in DOMAIN internal_attaches
  <2> DEFINE n == internal_attaches[func]
  <2>1. entries' = [entries EXCEPT ![n] = Extended(entries[n], ent)] /\ ~has_override(n)
    BY <1>5, Zenon DEF attach_at, Extended, refused
  <2>2. n \in 1..Len(entries) /\ entries[n] \in HookEntry /\ n \in Nat
    BY <1>5 DEF FridaTypes, live_entries
  <2>3. /\ entries' \in Seq(HookEntry) /\ Len(entries') = Len(entries) /\ entries'[n] = Extended(entries[n], ent)
        /\ \A m \in 1..Len(entries) : m # n => entries'[m] = entries[m]
    <3> HIDE DEF n, ent
    <3> QED BY <1>2, <2>1, <2>2 DEF FridaTypes
  <2> QED BY <1>1, <1>5, <2>1, <2>2, <2>3, Zenon DEF AttachedTo
<1> QED BY <1>4, <1>5, Zenon

\* Detaching changes the hook entries of the functions that are attached to.
LEMMA DetachById ==
  ASSUME FridaTypes, NEW ids, detach_by_id(ids)
  PROVE  /\ entries' \in Seq(HookEntry) /\ Len(entries') = Len(entries)
         /\ \A n \in 1..Len(entries) :
              \/ entries'[n] = entries[n] /\ ~ \E f \in DOMAIN internal_attaches : internal_attaches[f] = n
              \/ /\ n \in live_entries
                 /\ entries'[n] = left_after(ids, n) /\ entries'[n] \in HookEntry
                 /\ entries'[n].user_attaches = {ua \in entries[n].user_attaches : ua.self_id \notin ids}
                 /\ entries'[n].live = (entries'[n].user_attaches # {})
                 /\ entries'[n].listener = entries[n].listener /\ entries'[n].function = entries[n].function
                 /\ entries'[n].is_overrided = entries[n].is_overrided /\ entries'[n].user_ret = entries[n].user_ret
         /\ DOMAIN internal_attaches' \subseteq DOMAIN internal_attaches
         /\ \A f \in DOMAIN internal_attaches' :
              internal_attaches'[f] = internal_attaches[f] /\ entries'[internal_attaches[f]].user_attaches # {}
         /\ \A t \in Threads : calls'[t] = [calls[t] EXCEPT !.alone = @ /\ (calls[t].entry = 0 \/ entries'[calls[t].entry].live)]
<1> DEFINE hooked == {internal_attaches[f] : f \in DOMAIN internal_attaches}
           after == [n \in 1..Len(entries) |-> IF n \in hooked THEN left_after(ids, n) ELSE entries[n]]
<1>1. /\ entries' = after
      /\ internal_attaches' = [f \in {g \in DOMAIN internal_attaches : after[internal_attaches[g]].user_attaches # {}}
                                |-> internal_attaches[f]]
      /\ calls' = [t \in Threads |-> [calls[t] EXCEPT !.alone = @ /\ (calls[t].entry = 0 \/ after[calls[t].entry].live)]]
  BY Zenon DEF detach_by_id
<1>2. ASSUME NEW n \in hooked
      PROVE  /\ n \in live_entries /\ n \in 1..Len(entries)
             /\ left_after(ids, n) \in HookEntry
             /\ left_after(ids, n).user_attaches = {ua \in entries[n].user_attaches : ua.self_id \notin ids}
             /\ left_after(ids, n).live = (left_after(ids, n).user_attaches # {})
             /\ left_after(ids, n).listener = entries[n].listener /\ left_after(ids, n).function = entries[n].function
             /\ left_after(ids, n).is_overrided = entries[n].is_overrided /\ left_after(ids, n).user_ret = entries[n].user_ret
  <2>1. n \in live_entries /\ n \in 1..Len(entries) /\ entries[n] \in HookEntry
    BY DEF FridaTypes, live_entries
  <2> DEFINE rest == {ua \in entries[n].user_attaches : ua.self_id \notin ids}
  <2>2. rest \in SUBSET UserAttach /\ (rest # {}) \in BOOLEAN
    BY <2>1, Zenon DEF HookEntry
  <2>3. left_after(ids, n) = [entries[n] EXCEPT !.user_attaches = rest, !.live = rest # {}]
    BY Zenon DEF left_after
  <2> HIDE DEF rest
  <2>4. PICK l \in BOOLEAN : l = (rest # {})
    BY <2>2, Zenon
  <2>5. left_after(ids, n) = [entries[n] EXCEPT !.user_attaches = rest, !.live = l]
    BY <2>3, <2>4, Zenon
  <2>6. /\ left_after(ids, n) \in HookEntry /\ left_after(ids, n).user_attaches = rest /\ left_after(ids, n).live = l
        /\ left_after(ids, n).listener = entries[n].listener /\ left_after(ids, n).function = entries[n].function
        /\ left_after(ids, n).is_overrided = entries[n].is_overrided /\ left_after(ids, n).user_ret = entries[n].user_ret
    BY <2>1, <2>2, <2>5, Zenon DEF HookEntry
  <2> QED BY <2>1, <2>4, <2>6, Zenon DEF rest
<1> HIDE DEF hooked
<1>3. \A n \in 1..Len(entries) : after[n] \in HookEntry
  BY <1>2 DEF FridaTypes
<1>4. after \in Seq(HookEntry) /\ Len(after) = Len(entries)
  BY <1>3 DEF FridaTypes
<1>5. \A n \in 1..Len(entries) : after[n] = IF n \in hooked THEN left_after(ids, n) ELSE entries[n]
  BY Zenon
<1> HIDE DEF after
<1>6. \A f \in DOMAIN internal_attaches : internal_attaches[f] \in hooked /\ internal_attaches[f] \in 1..Len(entries)
  BY <1>2 DEF hooked
<1>7. \A n \in 1..Len(entries) :
        \/ entries'[n] = entries[n] /\ ~ \E f \in DOMAIN internal_attaches : internal_attaches[f] = n
        \/ /\ n \in hooked /\ entries'[n] = left_after(ids, n)
  BY <1>1, <1>5, <1>6
<1> QED BY <1>1, <1>2, <1>4, <1>6, <1>7

\* Perf events that were instantiated are of a registered type, and uprobes are at a function.
EventsOk(events) ==
  \A i \in DOMAIN events : /\ events[i].type \in Registered
                           /\ events[i].type # "tracepoint" => events[i].at \in Functions

Main == [pc : Finished \cup {"open_shm", "record_pid", "init_ctx", "scan"}, id : Slots, nv : BOOLEAN]

AgentTypes ==
  /\ handlers \in Tables
  /\ mains \in [Injections -> Main]
  /\ EventsOk(instantiated_perf_events)

\* Instantiating a handler adds a perf event only as the table has it.
LEMMA InstantiatedEvents ==
  ASSUME handlers \in Tables, NEW c, Keeps(c, {}), EventsOk(c.events), NEW id \in Slots
  PROVE  EventsOk(instantiated(c, id).events)
<1>1. c = [done |-> c.done, progs |-> c.progs, events |-> c.events, err |-> c.err]
  BY Zenon DEF Keeps
<1>2. instantiate_prog_handler_at(c, id).events = c.events
  BY <1>1, Zenon DEF instantiate_prog_handler_at
<1>3. ASSUME handlers[id].kind = "perf" PROVE EventsOk(instantiate_perf_event_handler_at(c, id).events)
  <2> DEFINE h == handlers[id]
             more == [i \in DOMAIN c.events \cup {id} |-> IF i = id THEN [type |-> h.type, at |-> h.at] ELSE c.events[i]]
  <2>1. CASE h.type = "software" \/ h.type \notin Registered \/ ~h.parses
    <3>1. instantiate_perf_event_handler_at(c, id).events = c.events
      BY <1>1, <2>1, Zenon DEF instantiate_perf_event_handler_at, Registered, AttachTypes, OverrideTypes
    <3> QED BY <3>1, Zenon
  <2>2. CASE h.type # "software" /\ h.type \in Registered /\ h.parses
    <3>1. instantiate_perf_event_handler_at(c, id).events = more
      BY <1>1, <2>2, Zenon DEF instantiate_perf_event_handler_at
    <3>2. h.type # "tracepoint" => h.at \in Functions
      BY <1>3, <2>2, TablesAssumption, Zenon DEF Registered
    <3>3. EventsOk(more)
      BY <2>2, <3>2, Zenon DEF EventsOk
    <3> QED BY <3>1, <3>3, Zenon
  <2> QED BY <2>1, <2>2, Zenon
<1> QED BY <1>2, <1>3, Zenon DEF instantiated

\* So for what a slot of the table, or a link, needs.
LEMMA NeededEvents ==
  ASSUME AgentTypes, NEW id \in Slots
  PROVE  /\ EventsOk(instantiated(now, id).events)
         /\ handlers[id].kind = "link" => EventsOk(needed_by_link(handlers[id]).events)
<1>1. Keeps(now, {}) /\ EventsOk(now.events) /\ handlers \in Tables
  BY Zenon DEF Keeps, now, AgentTypes
<1>2. ASSUME NEW i \in Slots PROVE Keeps(instantiated(now, i), {}) /\ EventsOk(instantiated(now, i).events)
  BY <1>1, InstantiatedKeeps, InstantiatedEvents, Zenon
<1>3. ASSUME NEW i \in Slots, NEW j \in Slots PROVE EventsOk(instantiated(instantiated(now, i), j).events)
  BY <1>1, <1>2, InstantiatedEvents, Zenon
<1>4. handlers[id].kind = "link" => handlers[id].prog_id \in Slots /\ handlers[id].attach_target_id \in Slots
  BY <1>1, TablesAssumption, Zenon
<1> QED BY <1>2, <1>3, <1>4, Zenon DEF needed_by_link

\* A slot of the table, as the uprobe implementation and the list of events see it.
LEMMA SlotStep ==
  ASSUME AgentTypes, NEW id \in Slots, NEW result, instantiate_handler_at(id, result)
  PROVE  FridaStep /\ EventsOk(instantiated_perf_events)'
<1>1. CASE UNCHANGED attach_vars
  BY <1>1, Zenon DEF attach_vars, ctx_vars, FridaStep, AgentTypes
<1>2. CASE handlers[id].kind # "link" /\ keeps(instantiated(now, id)) /\ UNCHANGED frida_vars
  BY <1>2, NeededEvents, Zenon DEF keeps, FridaStep
<1>3. CASE handlers[id].kind = "link" /\ keeps(needed_by_link(handlers[id]))
  <2> DEFINE c == needed_by_link(handlers[id])
  <2>1. EventsOk(c.events) /\ instantiated_perf_events' = c.events
    BY <1>3, NeededEvents, Zenon DEF keeps
  <2> HIDE DEF c
  <2>2. ASSUME instantiate_bpf_link_handler_at(c, id, result) PROVE FridaStep
    <3> DEFINE event == c.events[handlers[id].attach_target_id]
    <3>1. CASE UNCHANGED frida_vars
      BY <3>1, Zenon DEF FridaStep
    <3>2. CASE /\ handlers[id].attach_target_id \in DOMAIN c.events /\ event.type # "tracepoint"
               /\ attach_at(event.at, event.type, id)
      <4>1. event.type \in AttachTypes /\ event.at \in Functions
        BY <2>1, <3>2, Zenon DEF EventsOk, Registered
      <4> QED BY <3>2, <4>1, Zenon DEF FridaStep
    <3> QED BY <2>2, <3>1, <3>2, Zenon DEF instantiate_bpf_link_handler_at
  <2>3. UNCHANGED frida_vars => FridaStep
    BY Zenon DEF FridaStep
  <2> QED BY <1>3, <2>1, <2>2, <2>3, Zenon DEF instantiate_handler_at, already_instantiated, attach_vars, c
<1> QED BY <1>1, <1>2, <1>3, Zenon DEF instantiate_handler_at

\* Where the scan goes after a slot is a slot again.
LEMMA AfterSlotType ==
  ASSUME NEW s \in Main, NEW result
  PROVE  after_slot(s, result) \in Main
<1> USE SlotsAssumption
<1> QED BY Zenon DEF after_slot, Main, Finished

\* Every step is one of the operations of the uprobe implementation, or leaves it alone, and keeps the types of the agent.
LEMMA StepsOfTheHooks ==
  ASSUME AgentTypes, [Next \/ loader_changes_table]_all_vars
  PROVE  FridaStep /\ AgentTypes'
<1>0. ASSUME UNCHANGED attach_vars PROVE FridaStep /\ EventsOk(instantiated_perf_events)'
  BY <1>0, Zenon DEF attach_vars, ctx_vars, FridaStep, AgentTypes
<1>1. ASSUME NEW m \in Injections, bpftime_agent_main(m) \/ bpftime_initialize_global_shm(m) \/ add_pid_into_alive_agent_set(m)
      PROVE  FridaStep /\ AgentTypes'
  <2>1. \E pc \in Finished \cup {"open_shm", "record_pid", "init_ctx", "scan"} : goes_to(m, pc)
    BY <1>1, Zenon DEF bpftime_agent_main, bpftime_initialize_global_shm, add_pid_into_alive_agent_set, Finished
  <2>2. mains' \in [Injections -> Main]
    BY <2>1, ZenonT(40) DEF goes_to, AgentTypes, Main
  <2>3. UNCHANGED <<handlers, attach_vars>>
    BY <1>1, Zenon DEF bpftime_agent_main, bpftime_initialize_global_shm, add_pid_into_alive_agent_set
  <2> QED BY <1>0, <2>2, <2>3, Zenon DEF AgentTypes
<1>2. ASSUME NEW m \in Injections, ctx_holder_init(m) PROVE FridaStep /\ AgentTypes'
  <2>1. mains' \in [Injections -> Main]
    BY <1>2, Zenon DEF ctx_holder_init, goes_to, AgentTypes, Main
  <2>2. FridaStep /\ EventsOk(instantiated_perf_events)'
    BY <1>2 DEF ctx_holder_init, construct, FridaStep, EventsOk
  <2> QED BY <1>2, <2>1, <2>2, Zenon DEF ctx_holder_init, AgentTypes
<1>3. ASSUME NEW m \in Injections, init_attach_ctx_from_handlers(m) PROVE FridaStep /\ AgentTypes'
  <2>1. PICK result \in {"ok", "error", "throw"} :
          /\ UNCHANGED attach_vars \/ instantiate_handler_at(mains[m].id, result)
          /\ mains' = [mains EXCEPT ![m] = after_slot(mains[m], result)]
    BY <1>3, Zenon DEF init_attach_ctx_from_handlers
  <2>2. mains[m] \in Main
    BY Zenon DEF AgentTypes
  <2>3. mains' \in [Injections -> Main]
    BY <2>1, <2>2, AfterSlotType, Zenon DEF AgentTypes
  <2>4. mains[m].id \in Slots
    BY <2>2, Zenon DEF Main
  <2>5. FridaStep /\ EventsOk(instantiated_perf_events)'
    BY <1>0, <2>1, <2>4, SlotStep, Zenon
  <2> QED BY <1>3, <2>3, <2>5, Zenon DEF init_attach_ctx_from_handlers, AgentTypes
<1>4. ASSUME detach_command \/ sigusr1_reset \/ UNCHANGED all_vars PROVE FridaStep /\ AgentTypes'
  BY <1>0, <1>4, Zenon DEF detach_command, sigusr1_reset, all_vars, agent_vars, AgentTypes
<1>5. ASSUME traced_thread PROVE FridaStep /\ AgentTypes'
  BY <1>5, Zenon DEF traced_thread, ctx_vars, agent_vars, FridaStep, AgentTypes
<1>6. ASSUME sigusr1_destroy_all PROVE FridaStep /\ AgentTypes'
  <2>1. FridaStep /\ EventsOk(instantiated_perf_events)'
    BY <1>0, <1>6, Zenon DEF sigusr1_destroy_all, destroy_all_attach_links, FridaStep, AgentTypes
  <2> QED BY <1>6, <2>1, Zenon DEF sigusr1_destroy_all, AgentTypes
<1>7. ASSUME loader_changes_table PROVE FridaStep /\ AgentTypes'
  BY <1>0, <1>7, Zenon DEF loader_changes_table, agent_vars, AgentTypes
<1> QED BY <1>1, <1>2, <1>3, <1>4, <1>5, <1>6, <1>7, Zenon DEF Next

\* The override of a function shares its hook entry with nothing that replaced the function: an attach is refused
\* next to it.
Exclusive(n) ==
  /\ \A a, b \in entries[n].user_attaches : a.type = "uprobe_override" /\ b.type = "uprobe_override" => a = b
  /\ ~entries[n].listener => \E a \in entries[n].user_attaches : a.type = "uprobe_override" /\ entries[n].user_attaches = {a}

HooksInv == FridaTypes /\ \A n \in live_entries : Exclusive(n)

\* What a thread inside override_handler finds in the hook entry when it is on its own there.
CallInv(t) ==
  /\ calls[t].pc # "outside" => calls[t].entry \in 1..Len(entries)
  /\ calls[t].alone =>
       /\ calls[t].pc = "outside" => calls[t].got = calls[t].set
       /\ calls[t].pc # "outside" => entries[calls[t].entry].live /\ inside(calls[t].entry) = {t}
       /\ calls[t].pc = "filter" => ~entries[calls[t].entry].is_overrided
       /\ calls[t].pc = "leave" =>
            IF calls[t].set = Original THEN ~entries[calls[t].entry].is_overrided
            ELSE entries[calls[t].entry].is_overrided /\ entries[calls[t].entry].user_ret = calls[t].set

CallsInv == \A t \in Threads : CallInv(t)

\* An attach keeps overrides on their own.
LEMMA HooksAttach ==
  ASSUME HooksInv, NEW func \in Functions, NEW type \in AttachTypes, NEW cb \in Slots, attach_at(func, type, cb)
  PROVE  HooksInv'
<1>1. /\ FridaTypes /\ entries' \in Seq(HookEntry) /\ calls' = calls /\ next_id' = next_id + 1
      /\ internal_attaches' = [f \in DOMAIN internal_attaches \cup {func} |->
           IF f = func THEN (IF func \notin DOMAIN internal_attaches THEN Len(entries) + 1 ELSE internal_attaches[func])
           ELSE internal_attaches[f]]
  BY AttachAt, Zenon DEF HooksInv, attach_at
<1>2. PICK n \in Nat, e \in HookEntry, ua \in UserAttach : AttachedTo(n, e, ua, func, type)
  BY <1>1, AttachAt, Zenon
<1>3. /\ entries'[n].live = e.live /\ entries'[n].listener = e.listener
      /\ entries'[n].user_attaches = e.user_attaches \cup {ua}
      /\ n \in 1..Len(entries')
  BY <1>2, Zenon DEF AttachedTo, Extended, HookEntry
<1>4. e.live /\ \A m \in 1..Len(entries) : m # n => m \in 1..Len(entries')
  BY <1>1, <1>2 DEF AttachedTo, new_entry, FridaTypes, live_entries
<1>5. \A m \in live_entries : m \in live_entries'
  BY <1>2, <1>3, <1>4, Zenon DEF AttachedTo, live_entries
<1>6. n \in live_entries' /\ internal_attaches'[func] = n
  BY <1>1, <1>2, <1>3, <1>4, Zenon DEF AttachedTo, live_entries
<1>7. \A f \in DOMAIN internal_attaches' : f \in Functions /\ internal_attaches'[f] \in live_entries'
  BY <1>1, <1>5, <1>6, Zenon DEF FridaTypes
<1>8. FridaTypes'
  <2>1. entries' \in Seq(HookEntry) /\ next_id' \in Nat /\ calls' \in [Threads -> Call]
    BY <1>1 DEF FridaTypes
  <2> QED BY <1>7, <2>1, Zenon DEF FridaTypes
<1>9. ASSUME NEW m \in live_entries', m # n PROVE Exclusive(m)'
  <2>1. m \in live_entries /\ entries'[m] = entries[m]
    BY <1>2, <1>9, Zenon DEF AttachedTo, live_entries
  <2> QED BY <2>1, Zenon DEF HooksInv, Exclusive
<1>10. Exclusive(n)'
  <2>1. CASE func \notin DOMAIN internal_attaches
    <3>1. e.user_attaches = {} /\ e.listener = (type \notin OverrideTypes) /\ ua.type = recorded_type(type)
      BY <1>2, <2>1 DEF AttachedTo, new_entry
    <3>2. entries'[n].user_attaches = {ua} /\ (~entries'[n].listener => ua.type = "uprobe_override")
      BY <1>3, <3>1, Zenon DEF recorded_type
    <3> QED BY <3>2, Zenon DEF Exclusive
  <2>2. CASE func \in DOMAIN internal_attaches
    <3>1. e = entries[n] /\ ~has_override(n) /\ n \in live_entries
      BY <1>1, <1>2, <2>2, Zenon DEF AttachedTo, FridaTypes
    <3>2. /\ \A a \in e.user_attaches : a.type # "uprobe_override"
          /\ Exclusive(n)
      BY <3>1, Zenon DEF has_override, HooksInv
    <3>3. e.listener
      BY <3>1, <3>2, Zenon DEF Exclusive
    <3> QED BY <1>3, <3>2, <3>3, Zenon DEF Exclusive
  <2> QED BY <2>1, <2>2, Zenon
<1> QED BY <1>8, <1>9, <1>10, Zenon DEF HooksInv

\* A detach leaves a hook entry with fewer user attaches.
LEMMA HooksDetach ==
  ASSUME HooksInv, NEW ids, detach_by_id(ids)
  PROVE  HooksInv'
<1> DEFINE Rest(n) ==
      \/ entries'[n] = entries[n]
      \/ /\ n \in live_entries
         /\ entries'[n].user_attaches = {ua \in entries[n].user_attaches : ua.self_id \notin ids}
         /\ entries'[n].live <=> entries'[n].user_attaches # {}
         /\ entries'[n].listener = entries[n].listener
<1>1. /\ entries' \in Seq(HookEntry) /\ Len(entries') = Len(entries) /\ next_id' = next_id
      /\ \A n \in 1..Len(entries) : Rest(n)
      /\ DOMAIN internal_attaches' \subseteq DOMAIN internal_attaches
      /\ \A f \in DOMAIN internal_attaches' :
           internal_attaches'[f] = internal_attaches[f] /\ entries'[internal_attaches[f]].user_attaches # {}
      /\ FridaTypes
  <2>1. FridaTypes /\ next_id' = next_id
    BY Zenon DEF HooksInv, detach_by_id
  <2> QED BY <2>1, DetachById, Zenon
<1>2. ASSUME NEW f \in DOMAIN internal_attaches'
      PROVE  f \in Functions /\ internal_attaches'[f] \in live_entries'
  <2>1. PICK n \in live_entries : n = internal_attaches[f]
    BY <1>1, Zenon DEF FridaTypes
  <2>2. n \in 1..Len(entries) /\ entries[n].live /\ entries'[n].user_attaches # {}
    BY <1>1, <2>1, Zenon DEF live_entries
  <2>3. entries'[n].live
    BY <1>1, <2>2, Zenon
  <2> QED BY <1>1, <2>1, <2>2, <2>3, Zenon DEF FridaTypes, live_entries
<1>3. calls' \in [Threads -> Call]
  <2>1. calls' = [t \in Threads |-> [calls[t] EXCEPT !.alone = @ /\ (calls[t].entry = 0 \/ entries'[calls[t].entry].live)]]
    BY Zenon DEF detach_by_id
  <2>2. ASSUME NEW t \in Threads, NEW b \in BOOLEAN PROVE [calls[t] EXCEPT !.alone = b] \in Call
    BY <1>1, ZenonT(40) DEF FridaTypes, Call
  <2>3. ASSUME NEW t \in Threads
        PROVE  (calls[t].alone /\ (calls[t].entry = 0 \/ entries'[calls[t].entry].live)) \in BOOLEAN
    BY Zenon
  <2> QED BY <2>1, <2>2, <2>3, Zenon
<1>4. ASSUME NEW n \in live_entries' PROVE Exclusive(n)'
  <2>1. n \in 1..Len(entries) /\ entries'[n].live
    BY <1>1, Zenon DEF live_entries
  <2>2. CASE entries'[n] = entries[n]
    BY <2>1, <2>2, Zenon DEF HooksInv, live_entries, Exclusive
  <2>3. CASE entries'[n] # entries[n]
    <3>1. /\ Exclusive(n)
          /\ entries'[n].user_attaches \subseteq entries[n].user_attaches /\ entries'[n].user_attaches # {}
          /\ entries'[n].listener = entries[n].listener
      BY <1>1, <2>1, <2>3, Zenon DEF HooksInv
    <3> QED BY <3>1 DEF Exclusive
  <2> QED BY <2>2, <2>3, Zenon
<1> QED BY <1>1, <1>2, <1>3, <1>4, Zenon DEF HooksInv, FridaTypes

\* A step that only touches the verdicts of hook entries.
SameHooks ==
  /\ entries' \in Seq(HookEntry) /\ Len(entries') = Len(entries)
  /\ \A n \in 1..Len(entries) : /\ entries'[n].live = entries[n].live /\ entries'[n].listener = entries[n].listener
                                /\ entries'[n].user_attaches = entries[n].user_attaches
                                /\ entries'[n].function = entries[n].function
  /\ UNCHANGED <<internal_attaches, attaches, next_id>>

\* A step that leaves the hook entries alone keeps overrides on their own.
LEMMA HooksSame ==
  ASSUME HooksInv, SameHooks, calls' \in [Threads -> Call]
  PROVE  HooksInv'
<1>1. live_entries' = live_entries
  BY Zenon DEF SameHooks, live_entries
<1>2. \A n \in live_entries : n \in 1..Len(entries)
  BY Zenon DEF live_entries
<1>3. FridaTypes'
  BY <1>1, Zenon DEF SameHooks, HooksInv, FridaTypes
<1>4. ASSUME NEW n \in live_entries PROVE Exclusive(n)'
  <2>1. entries'[n].listener = entries[n].listener /\ entries'[n].user_attaches = entries[n].user_attaches
    BY <1>2, <1>4, Zenon DEF SameHooks
  <2>2. Exclusive(n)
    BY <1>4, Zenon DEF HooksInv
  <2> QED BY <2>1, <2>2, Zenon DEF Exclusive
<1> QED BY <1>1, <1>3, <1>4, Zenon DEF HooksInv

-----------------------------------------------------------------------------

\* Nothing that a call reads of its hook entry changes.
SameVerdicts ==
  \A n \in 1..Len(entries) :
    /\ n \in 1..Len(entries') /\ entries'[n].live = entries[n].live
    /\ entries'[n].is_overrided = entries[n].is_overrided /\ entries'[n].user_ret = entries[n].user_ret

\* A step that touches no verdict keeps what the calls under way rely on.
LEMMA CallsKept ==
  ASSUME CallsInv, SameVerdicts, calls' = calls
  PROVE  CallsInv'
<1> SUFFICES ASSUME NEW t \in Threads PROVE CallInv(t)'
  BY Zenon DEF CallsInv
<1>1. CallInv(t) /\ \A n : inside(n)' = inside(n)
  BY Zenon DEF CallsInv, inside
<1> QED BY <1>1, Zenon DEF CallInv, SameVerdicts

\* So does an attach: it resets no verdict of an entry that a thread is in.
LEMMA CallsAttach ==
  ASSUME HooksInv, CallsInv, NEW func \in Functions, NEW type \in AttachTypes, NEW cb \in Slots, attach_at(func, type, cb)
  PROVE  CallsInv'
<1>1. FridaTypes /\ calls' = calls
  BY Zenon DEF HooksInv, attach_at
<1>2. PICK n \in Nat, e \in HookEntry, ua \in UserAttach : AttachedTo(n, e, ua, func, type)
  BY <1>1, AttachAt, Zenon
<1>3. entries'[n].live = e.live /\ entries'[n].is_overrided = e.is_overrided /\ entries'[n].user_ret = e.user_ret
  BY <1>2, Zenon DEF AttachedTo, Extended, HookEntry
<1>4. SameVerdicts
  BY <1>1, <1>2, <1>3, SMTT(30) DEF AttachedTo, SameVerdicts, FridaTypes
<1> QED BY <1>1, <1>4, CallsKept, Zenon

\* A detach only ever ends what a call was alone for.
LEMMA CallsDetach ==
  ASSUME HooksInv, CallsInv, NEW ids, detach_by_id(ids)
  PROVE  CallsInv'
<1> SUFFICES ASSUME NEW t \in Threads PROVE CallInv(t)'
  BY Zenon DEF CallsInv
<1>1. /\ FridaTypes /\ Len(entries') = Len(entries)
      /\ \A n \in 1..Len(entries) : entries'[n].is_overrided = entries[n].is_overrided /\ entries'[n].user_ret = entries[n].user_ret
      /\ \A u \in Threads : calls'[u] = [calls[u] EXCEPT !.alone = @ /\ (calls[u].entry = 0 \/ entries'[calls[u].entry].live)]
  BY DetachById, Zenon DEF HooksInv
<1>2. ASSUME NEW u \in Threads
      PROVE  /\ calls'[u].pc = calls[u].pc /\ calls'[u].entry = calls[u].entry
             /\ calls'[u].set = calls[u].set /\ calls'[u].got = calls[u].got
             /\ calls'[u].alone => calls[u].alone /\ (calls[u].entry = 0 \/ entries'[calls[u].entry].live)
  <2>1. PICK b \in BOOLEAN : b = (calls[u].alone /\ (calls[u].entry = 0 \/ entries'[calls[u].entry].live))
    BY Zenon
  <2>2. calls'[u] = [calls[u] EXCEPT !.alone = b] /\ calls[u] \in Call
    BY <1>1, <2>1, Zenon DEF FridaTypes
  <2> QED BY <2>1, <2>2, Zenon DEF Call
<1>3. \A n : inside(n)' = inside(n)
  BY <1>2, Zenon DEF inside
<1>4. CallInv(t)
  BY Zenon DEF CallsInv
<1>5. calls[t].pc # "outside" => calls[t].entry # 0 /\ calls[t].entry \in 1..Len(entries)
  BY <1>1, <1>4 DEF CallInv, FridaTypes
<1> QED BY <1>1, <1>2, <1>3, <1>4, <1>5 DEF CallInv

\* A thread enters override_handler.
LEMMA CallsEnter ==
  ASSUME HooksInv, CallsInv, NEW t \in Threads, NEW n \in live_entries, override_enter(t, n)
  PROVE  HooksInv' /\ CallsInv'
<1>1. /\ entries \in Seq(HookEntry) /\ n \in 1..Len(entries) /\ entries[n] \in HookEntry /\ entries[n].live
      /\ \A u \in Threads : calls[u] \in Call
  BY DEF HooksInv, FridaTypes, live_entries
<1>0. entries' = [entries EXCEPT ![n] = [entries[n] EXCEPT !.is_overrided = FALSE]]
  BY Zenon DEF override_enter
<1>2. PICK a \in BOOLEAN : a = (inside(n) = {})
  BY Zenon
<1> DEFINE entered == [Outside EXCEPT !.pc = "filter", !.entry = n, !.alone = a]
<1>3. /\ entered \in Call /\ entered.pc = "filter" /\ entered.entry = n /\ entered.alone = a
      /\ calls' = [u \in Threads |-> IF u = t THEN entered ELSE IF u \in inside(n) THEN [calls[u] EXCEPT !.alone = FALSE] ELSE calls[u]]
  <2>1. n \in Nat
    BY <1>1
  <2>2. entered \in Call /\ entered.pc = "filter" /\ entered.entry = n /\ entered.alone = a
    BY <2>1, Zenon DEF Outside, Call
  <2> QED BY <1>2, <2>2, Zenon DEF override_enter
<1> HIDE DEF entered
<1>4. \A u \in Threads : [calls[u] EXCEPT !.alone = FALSE] \in Call
  BY <1>1, Zenon DEF Call
<1>5. calls' \in [Threads -> Call]
  BY <1>1, <1>3, <1>4, Zenon
<1>6. /\ Len(entries') = Len(entries) /\ entries' \in Seq(HookEntry)
      /\ \A m \in 1..Len(entries) : m # n => entries'[m] = entries[m]
      /\ entries'[n] = [entries[n] EXCEPT !.is_overrided = FALSE]
  <2>1. PICK e \in HookEntry : e = [entries[n] EXCEPT !.is_overrided = FALSE]
    BY <1>1, Zenon DEF HookEntry
  <2>2. entries' = [entries EXCEPT ![n] = e]
    BY <1>0, <2>1, Zenon
  <2>3. /\ Len(entries') = Len(entries) /\ entries' \in Seq(HookEntry) /\ entries'[n] = e
        /\ \A m \in 1..Len(entries) : m # n => entries'[m] = entries[m]
    BY <1>1, <2>2
  <2> QED BY <2>1, <2>3, Zenon
<1>7. /\ entries'[n].live = entries[n].live /\ entries'[n].listener = entries[n].listener
      /\ entries'[n].user_attaches = entries[n].user_attaches /\ entries'[n].function = entries[n].function
      /\ ~entries'[n].is_overrided
  BY <1>1, <1>6, Zenon DEF HookEntry
<1>8. SameHooks
  BY <1>6, <1>7, Zenon DEF SameHooks, override_enter
<1>9. ASSUME NEW u \in Threads, u # t
      PROVE  /\ calls'[u].pc = calls[u].pc /\ calls'[u].entry = calls[u].entry
             /\ calls'[u].set = calls[u].set /\ calls'[u].got = calls[u].got
             /\ calls'[u].alone => calls[u].alone /\ u \notin inside(n)
  <2>1. CASE u \in inside(n)
    BY <1>1, <1>3, <1>9, <2>1, Zenon DEF Call
  <2>2. CASE u \notin inside(n)
    BY <1>3, <1>9, <2>2, Zenon
  <2> QED BY <2>1, <2>2, Zenon
<1>10. calls'[t] = entered /\ calls[t].pc = "outside"
  BY <1>3, Zenon DEF override_enter
<1>11. \A m : inside(m)' = IF m = n THEN inside(n) \cup {t} ELSE inside(m)
  BY <1>3, <1>9, <1>10 DEF inside
<1>12. CallInv(t)'
  BY <1>1, <1>2, <1>3, <1>6, <1>7, <1>10, <1>11, Zenon DEF CallInv
<1>13. ASSUME NEW u \in Threads, u # t PROVE CallInv(u)'
  <2>1. CallInv(u)
    BY Zenon DEF CallsInv
  <2>2. CASE calls[u].pc = "outside"
    BY <1>9, <1>13, <2>1, <2>2, Zenon DEF CallInv
  <2>3. CASE calls[u].pc # "outside"
    <3>1. calls[u].entry \in 1..Len(entries) /\ calls[u].pc \in {"filter", "leave"}
      BY <1>1, <2>1, <2>3, Zenon DEF CallInv, Call
    <3>2. calls'[u].alone => calls[u].entry # n
      BY <1>9, <1>13, <3>1, Zenon DEF inside
    <3> QED BY <1>6, <1>9, <1>11, <1>13, <2>1, <3>1, <3>2 DEF CallInv
  <2> QED BY <2>2, <2>3, Zenon
<1> QED BY <1>5, <1>8, <1>12, <1>13, HooksSame, Zenon DEF CallsInv

\* The filter callback has run: what it set is in the hook entry, if that is alive.
LEMMA CallsFilter ==
  ASSUME HooksInv, CallsInv, NEW t \in Threads, NEW v \in RetVals \cup {Original}, override_filter(t, v)
  PROVE  HooksInv' /\ CallsInv'
<1> DEFINE n == calls[t].entry
<1>1. /\ entries \in Seq(HookEntry) /\ n \in 1..Len(entries) /\ entries[n] \in HookEntry
      /\ \A u \in Threads : calls[u] \in Call
      /\ calls[t].pc = "filter" /\ CallInv(t)
  <2>1. entries \in Seq(HookEntry) /\ \A u \in Threads : calls[u] \in Call
    BY Zenon DEF HooksInv, FridaTypes
  <2>2. calls[t].pc = "filter" /\ CallInv(t)
    BY Zenon DEF CallsInv, override_filter
  <2>3. n \in 1..Len(entries)
    BY <2>2, Zenon DEF CallInv
  <2> QED BY <2>1, <2>2, <2>3
<1>2. /\ calls' = [calls EXCEPT ![t] = [calls[t] EXCEPT !.pc = "leave", !.set = v]]
      /\ entries' = IF v = Original \/ ~entries[n].live THEN entries
                    ELSE [entries EXCEPT ![n] = [entries[n] EXCEPT !.is_overrided = TRUE, !.user_ret = v]]
      /\ UNCHANGED <<internal_attaches, attaches, next_id>>
  BY Zenon DEF override_filter
<1>3. PICK c \in Call : c = [calls[t] EXCEPT !.pc = "leave", !.set = v]
  BY <1>1, Zenon DEF Call
<1>4. c.pc = "leave" /\ c.set = v /\ c.entry = n /\ c.alone = calls[t].alone
  BY <1>1, <1>3, Zenon DEF Call
<1>5. calls' \in [Threads -> Call] /\ calls'[t] = c /\ \A u \in Threads : u # t => calls'[u] = calls[u]
  <2>1. calls' = [calls EXCEPT ![t] = c] /\ calls \in [Threads -> Call]
    BY <1>2, <1>3, Zenon DEF HooksInv, FridaTypes
  <2> QED BY <2>1, Zenon
<1>6. PICK e \in HookEntry : e = [entries[n] EXCEPT !.is_overrided = TRUE, !.user_ret = v]
  BY <1>1, Zenon DEF HookEntry
<1>7. /\ e.live = entries[n].live /\ e.listener = entries[n].listener /\ e.function = entries[n].function
      /\ e.user_attaches = entries[n].user_attaches /\ e.is_overrided /\ e.user_ret = v
  BY <1>1, <1>6, Zenon DEF HookEntry
<1>8. /\ Len(entries') = Len(entries) /\ entries' \in Seq(HookEntry)
      /\ \A m \in 1..Len(entries) : m # n => entries'[m] = entries[m]
      /\ entries'[n] = IF v = Original \/ ~entries[n].live THEN entries[n] ELSE e
  <2>1. entries' = IF v = Original \/ ~entries[n].live THEN entries ELSE [entries EXCEPT ![n] = e]
    BY <1>2, <1>6, Zenon
  <2> HIDE DEF n
  <2> QED BY <1>1, <2>1
<1> HIDE DEF n
<1>9. SameHooks
  BY <1>2, <1>7, <1>8, Zenon DEF SameHooks
<1>10. \A m : inside(m)' = inside(m)
  BY <1>1, <1>4, <1>5, Zenon DEF inside, n
<1>11. calls[t].alone => entries[n].live /\ inside(n) = {t} /\ ~entries[n].is_overrided
  BY <1>1, Zenon DEF CallInv, n
<1>12. CallInv(t)'
  BY <1>1, <1>4, <1>5, <1>7, <1>8, <1>10, <1>11, ZenonT(40) DEF CallInv
<1>13. ASSUME NEW u \in Threads, u # t PROVE CallInv(u)'
  <2>1. CallInv(u) /\ calls'[u] = calls[u] /\ calls[u] \in Call
    BY <1>1, <1>5, <1>13, Zenon DEF CallsInv
  <2>2. CASE calls[u].pc = "outside"
    BY <2>1, <2>2, Zenon DEF CallInv
  <2>3. CASE calls[u].pc # "outside"
    <3>1. calls[u].entry \in 1..Len(entries)
      BY <2>1, <2>3, Zenon DEF CallInv
    <3>2. t \in inside(n)
      BY <1>1, Zenon DEF inside, n
    <3>3. calls[u].alone => calls[u].entry # n
      BY <1>13, <2>1, <2>3, <3>2, Zenon DEF CallInv
    <3> QED BY <1>8, <1>10, <2>1, <3>1, <3>3, Zenon DEF CallInv
  <2> QED BY <2>2, <2>3, Zenon
<1> QED BY <1>5, <1>9, <1>12, <1>13, HooksSame, Zenon DEF CallsInv

\* The verdict is read back.
LEMMA CallsLeave ==
  ASSUME HooksInv, CallsInv, NEW t \in Threads, override_leave(t)
  PROVE  HooksInv' /\ CallsInv'
<1> DEFINE n == calls[t].entry
<1>1. /\ entries \in Seq(HookEntry) /\ n \in 1..Len(entries) /\ entries[n] \in HookEntry
      /\ calls \in [Threads -> Call] /\ calls[t] \in Call
      /\ calls[t].pc = "leave" /\ CallInv(t)
      /\ UNCHANGED <<entries, internal_attaches, attaches, next_id>>
  <2>1. entries \in Seq(HookEntry) /\ calls \in [Threads -> Call]
    BY Zenon DEF HooksInv, FridaTypes
  <2>2. calls[t].pc = "leave" /\ CallInv(t) /\ UNCHANGED <<entries, internal_attaches, attaches, next_id>>
    BY Zenon DEF CallsInv, override_leave
  <2>3. n \in 1..Len(entries)
    BY <2>2, Zenon DEF CallInv
  <2> QED BY <2>1, <2>2, <2>3
<1>2. PICK got \in RetVals \cup {Original} :
        /\ calls' = [calls EXCEPT ![t] = IF got = calls[t].set THEN Outside
                                         ELSE [calls[t] EXCEPT !.pc = "outside", !.entry = 0, !.got = got]]
        /\ entries[n].live => got = IF entries[n].is_overrided THEN entries[n].user_ret ELSE Original
  BY <1>1, Zenon DEF override_leave, HookEntry
<1>3. calls[t].alone => got = calls[t].set
  BY <1>1, <1>2, Zenon DEF CallInv
<1>4. PICK c \in Call : c = IF got = calls[t].set THEN Outside ELSE [calls[t] EXCEPT !.pc = "outside", !.entry = 0, !.got = got]
  BY <1>1, Zenon DEF Call, Outside
<1>5. c.pc = "outside" /\ (c.alone => c.got = c.set)
  <2>1. CASE got = calls[t].set
    BY <1>4, <2>1, Zenon DEF Outside
  <2>2. CASE got # calls[t].set
    <3>1. c.pc = "outside" /\ c.alone = calls[t].alone
      BY <1>1, <1>4, <2>2, Zenon DEF Call
    <3> QED BY <1>3, <2>2, <3>1, Zenon
  <2> QED BY <2>1, <2>2, Zenon
<1>6. calls' \in [Threads -> Call] /\ calls'[t] = c /\ \A u \in Threads : u # t => calls'[u] = calls[u]
  <2>1. calls' = [calls EXCEPT ![t] = c]
    BY <1>2, <1>4, Zenon
  <2> QED BY <1>1, <2>1, Zenon
<1>7. SameHooks
  BY <1>1, Zenon DEF SameHooks
<1>8. \A m : inside(m)' = inside(m) \ {t}
  BY <1>5, <1>6, Zenon DEF inside
<1>9. CallInv(t)'
  BY <1>5, <1>6, Zenon DEF CallInv
<1>10. ASSUME NEW u \in Threads, u # t PROVE CallInv(u)'
  <2>1. CallInv(u) /\ calls'[u] = calls[u]
    BY <1>6, <1>10, Zenon DEF CallsInv
  <2> QED BY <1>1, <1>8, <1>10, <2>1, Zenon DEF CallInv
<1> QED BY <1>6, <1>7, <1>9, <1>10, HooksSame, Zenon DEF CallsInv

\* Every step of the uprobe implementation keeps overrides on their own and the calls consistent.
LEMMA FridaKept ==
  ASSUME HooksInv, CallsInv, FridaStep
  PROVE  HooksInv' /\ CallsInv'
<1>1. ASSUME UNCHANGED <<entries, calls>>, next_id' \in Nat,
             \A f \in DOMAIN internal_attaches' : f \in Functions /\ internal_attaches'[f] \in live_entries
      PROVE  HooksInv' /\ CallsInv'
  <2>1. live_entries' = live_entries /\ SameVerdicts
    BY <1>1, Zenon DEF live_entries, SameVerdicts
  <2>2. HooksInv'
    BY <1>1, <2>1, Zenon DEF HooksInv, FridaTypes, Exclusive
  <2> QED BY <1>1, <2>1, <2>2, CallsKept, Zenon
<1>2. CASE UNCHANGED frida_vars
  BY <1>1, <1>2, Zenon DEF frida_vars, HooksInv, FridaTypes
<1>3. CASE fresh_impl /\ UNCHANGED <<entries, calls>>
  BY <1>1, <1>3 DEF fresh_impl
<1>4. CASE \E func \in Functions, type \in AttachTypes, cb \in Slots : attach_at(func, type, cb)
  BY <1>4, HooksAttach, CallsAttach, Zenon
<1>5. CASE \E ids : detach_by_id(ids)
  BY <1>5, HooksDetach, CallsDetach, Zenon
<1>6. CASE call_step
  BY <1>6, CallsEnter, CallsFilter, CallsLeave, Zenon DEF call_step
<1> QED BY <1>2, <1>3, <1>4, <1>5, <1>6, Zenon DEF FridaStep

\* The process has nothing attached and no call under way at the start.
LEMMA FridaAtStart ==
  ASSUME AgentInit
  PROVE  AgentTypes /\ HooksInv /\ CallsInv
<1>1. AgentTypes
  BY SlotsAssumption DEF AgentInit, CtxInit, AgentTypes, Main, Finished, EventsOk
<1>2. Outside \in Call
  BY Zenon DEF Outside, Call
<1>3. live_entries = {} /\ FridaTypes
  BY <1>2 DEF AgentInit, CtxInit, FridaInit, FridaTypes, live_entries
<1>4. CallsInv
  BY Zenon DEF AgentInit, CtxInit, FridaInit, CallsInv, CallInv, Outside
<1> QED BY <1>1, <1>3, <1>4, Zenon DEF HooksInv

\* Whatever the tables, also while the loader changes them, and however injections and detaches overlap: a function
\* has at most one override, and one that replaced the function has its hook entry to itself, as run_filter_callback
\* takes for granted.
THEOREM FunctionsHaveOneOverride ==
  SharedTableSpec => []OneOverride
<1>1. AgentInit => AgentTypes /\ HooksInv /\ CallsInv
  BY FridaAtStart, Zenon
<1>2. AgentTypes /\ HooksInv /\ CallsInv /\ [Next \/ loader_changes_table]_all_vars => (AgentTypes /\ HooksInv /\ CallsInv)'
  BY StepsOfTheHooks, FridaKept, Zenon
<1>3. HooksInv => OneOverride
  BY Zenon DEF HooksInv, OneOverride, Exclusive
<1> QED BY <1>1, <1>2, <1>3, PTL DEF SharedTableSpec

\* Likewise: a call of a replaced function that overlaps neither another call of it nor the detach of its hook entry
\* returns what the program set in this call, or runs the original function if it set nothing.
THEOREM LoneCallsAreHonoured ==
  SharedTableSpec => []OverrideHonouredAlone
<1>1. AgentInit => AgentTypes /\ HooksInv /\ CallsInv
  BY FridaAtStart, Zenon
<1>2. AgentTypes /\ HooksInv /\ CallsInv /\ [Next \/ loader_changes_table]_all_vars => (AgentTypes /\ HooksInv /\ CallsInv)'
  BY StepsOfTheHooks, FridaKept, Zenon
<1>3. CallsInv => OverrideHonouredAlone
  BY Zenon DEF CallsInv, CallInv, OverrideHonouredAlone
<1> QED BY <1>1, <1>2, <1>3, PTL DEF SharedTableSpec

-----------------------------------------------------------------------------
(* What a detach finds. *)

links == instantiated_attach_links

\* What hangs off the hook entries of this context, and what the syscall tracer holds, is what its links stand for.
LinksInv ==
  /\ \A n \in live_entries : entries[n].user_attaches # {}
  /\ \A f \in DOMAIN internal_attaches :
       /\ entries[internal_attaches[f]].function = f
       /\ \A ua \in entries[internal_attaches[f]].user_attaches :
            /\ ua.self_id \in DOMAIN attaches /\ attaches[ua.self_id] = f
            /\ ua.cb \in DOMAIN links /\ links[ua.cb] = [impl |-> "frida", id |-> ua.self_id]
  /\ \A i \in DOMAIN attach_entries :
       attach_entries[i].cb \in DOMAIN links /\ links[attach_entries[i].cb] = [impl |-> "syscall", id |-> i]

\* Injection m is under way.
Active(m) == mains[m].pc \notin Finished

Hooked(n) == \E f \in DOMAIN internal_attaches : internal_attaches[f] = n

\* While the signal handler and injections have not overlapped, one injection is under way at most, all that is live
\* was attached by the present context, and a process in which something is attached has recorded its pid.
Orderly ==
  /\ \A n \in live_entries : Hooked(n)
  /\ \A m \in Injections : Active(m) => initialized = 1 /\ ~handling
  /\ \A m, k \in Injections : Active(m) /\ Active(k) => m = k
  /\ \A m \in Injections : mains[m].pc \in {"open_shm", "record_pid", "init_ctx"} => live_attaches = {}
  /\ \A m \in Injections : mains[m].pc \in {"init_ctx", "scan"} /\ injected_with_frida => alive
  /\ live_attaches # {} /\ injected_with_frida => alive
  /\ initialized = 0 \/ handling => live_attaches = {}

DetachInv ==
  /\ early \in BOOLEAN /\ alive \in BOOLEAN /\ handling \in BOOLEAN /\ injected_with_frida \in BOOLEAN
  /\ initialized \in {0, 1}
  /\ ~early => Orderly

\* What a slot of the table can do to the attaches: nothing, or attach the link in it through one of the implementations.
AttachesUprobe(id) ==
  /\ \E func \in Functions, type \in AttachTypes : attach_at(func, type, id)
  /\ UNCHANGED syscall_vars
  /\ id \notin instantiated_handlers
  /\ links' = [l \in DOMAIN links \cup {id} |-> IF l # id THEN links[l] ELSE [impl |-> "frida", id |-> next_id]]

AttachesSyscall(id) ==
  /\ \E data : create_syscall_attach(data, id)
  /\ UNCHANGED frida_vars
  /\ id \notin instantiated_handlers
  /\ links' = [l \in DOMAIN links \cup {id} |-> IF l # id THEN links[l] ELSE [impl |-> "syscall", id |-> syscall_next_id]]

\* The tracer's entries after it: the others are as they were, and the new one calls the link.
LEMMA SyscallEntries ==
  ASSUME NEW id, AttachesSyscall(id)
  PROVE  /\ DOMAIN attach_entries' = DOMAIN attach_entries \cup {syscall_next_id}
         /\ \A i \in DOMAIN attach_entries : i # syscall_next_id => attach_entries'[i] = attach_entries[i]
         /\ attach_entries'[syscall_next_id].cb = id
<1>1. PICK data : create_syscall_attach(data, id)
  BY Zenon DEF AttachesSyscall
<1>2. PICK new : new = [sys_nr |-> data.sys_nr, is_enter |-> data.is_enter, cb |-> id]
  BY Zenon
<1>3. attach_entries' = [i \in DOMAIN attach_entries \cup {syscall_next_id} |->
                           IF i = syscall_next_id THEN new ELSE attach_entries[i]]
  BY <1>1, <1>2, Zenon DEF create_syscall_attach
<1>4. new.cb = id
  BY <1>2
<1> QED BY <1>3, <1>4, Zenon

\* One slot of a pass attaches nothing, one uprobe or one syscall tracepoint.
LEMMA SlotAttaches ==
  ASSUME AgentTypes, NEW id \in Slots, NEW result, instantiate_handler_at(id, result)
  PROVE  UNCHANGED <<frida_vars, syscall_vars, links>> \/ AttachesUprobe(id) \/ AttachesSyscall(id)
<1> DEFINE Quiet == UNCHANGED <<frida_vars, syscall_vars, links>>
<1>1. CASE UNCHANGED attach_vars
  BY <1>1, Zenon DEF attach_vars, ctx_vars, links
<1>2. CASE handlers[id].kind # "link" /\ UNCHANGED <<instantiated_attach_links, frida_vars, syscall_vars>>
  BY <1>2, Zenon DEF links
<1>3. CASE handlers[id].kind = "link" /\ ~already_instantiated(id)
  <2> DEFINE c == needed_by_link(handlers[id])
  <2>1. EventsOk(c.events)
    BY <1>3, NeededEvents, Zenon
  <2> HIDE DEF c
  <2>2. ASSUME instantiate_bpf_link_handler_at(c, id, result) PROVE Quiet \/ AttachesUprobe(id) \/ AttachesSyscall(id)
    <3> DEFINE event == c.events[handlers[id].attach_target_id]
               uprobe == handlers[id].attach_target_id \in DOMAIN c.events /\ event.type # "tracepoint"
    <3>1. CASE UNCHANGED <<instantiated_attach_links, frida_vars, syscall_vars>>
      BY <3>1, Zenon DEF links
    <3>2. CASE /\ uprobe /\ attach_at(event.at, event.type, id) /\ UNCHANGED syscall_vars
               /\ instantiated_attach_links' =
                    [i \in DOMAIN instantiated_attach_links \cup {id} |->
                       IF i # id THEN instantiated_attach_links[i] ELSE [impl |-> "frida", id |-> next_id]]
      <4>1. event.type \in AttachTypes /\ event.at \in Functions
        BY <2>1, <3>2, Zenon DEF EventsOk, Registered
      <4>2. \E func \in Functions, type \in AttachTypes : attach_at(func, type, id)
        BY <3>2, <4>1, Zenon
      <4> QED BY <1>3, <3>2, <4>2, Zenon DEF AttachesUprobe, links, already_instantiated
    <3>3. CASE /\ create_syscall_attach(event.at, id) /\ UNCHANGED frida_vars
               /\ instantiated_attach_links' =
                    [i \in DOMAIN instantiated_attach_links \cup {id} |->
                       IF i # id THEN instantiated_attach_links[i] ELSE [impl |-> "syscall", id |-> syscall_next_id]]
      BY <1>3, <3>3, Zenon DEF AttachesSyscall, links, already_instantiated
    <3> QED BY <2>2, <3>1, <3>2, <3>3, Zenon DEF instantiate_bpf_link_handler_at
  <2>3. UNCHANGED <<instantiated_attach_links, frida_vars, syscall_vars>> => Quiet
    BY Zenon DEF links
  <2> QED BY <1>3, <2>2, <2>3, Zenon DEF instantiate_handler_at, c
<1> QED BY <1>1, <1>2, <1>3, Zenon DEF instantiate_handler_at

\* A call leaves the hook entries alone, but for their verdicts.
LEMMA CallsAreSameHooks ==
  ASSUME HooksInv, CallsInv, call_step
  PROVE  SameHooks
<1>1. PICK t \in Threads :
        \/ \E n \in live_entries : override_enter(t, n)
        \/ \E v \in RetVals \cup {Original} : override_filter(t, v)
        \/ override_leave(t)
  BY Zenon DEF call_step
<1>2. entries \in Seq(HookEntry) /\ UNCHANGED <<internal_attaches, attaches, next_id>>
  BY <1>1, Zenon DEF override_enter, override_filter, override_leave, HooksInv, FridaTypes
<1>3. ASSUME NEW n \in 1..Len(entries), NEW e \in HookEntry, entries' = [entries EXCEPT ![n] = e],
             e.live = entries[n].live, e.listener = entries[n].listener,
             e.user_attaches = entries[n].user_attaches, e.function = entries[n].function
      PROVE  SameHooks
  <2>1. Len(entries') = Len(entries) /\ entries' \in Seq(HookEntry) /\ entries'[n] = e
    BY <1>2, <1>3
  <2>2. \A m \in 1..Len(entries) : m # n => entries'[m] = entries[m]
    BY <1>2, <1>3
  <2> QED BY <1>2, <1>3, <2>1, <2>2, Zenon DEF SameHooks
<1>4. CASE entries' = entries
  BY <1>2, <1>4, Zenon DEF SameHooks
<1>5. ASSUME NEW n \in live_entries, override_enter(t, n) PROVE SameHooks
  <2>1. n \in 1..Len(entries) /\ entries[n] \in HookEntry
    BY <1>2 DEF live_entries
  <2>2. PICK e \in HookEntry : e = [entries[n] EXCEPT !.is_overrided = FALSE]
    BY <2>1, Zenon DEF HookEntry
  <2>3. /\ e.live = entries[n].live /\ e.listener = entries[n].listener
        /\ e.user_attaches = entries[n].user_attaches /\ e.function = entries[n].function
    BY <2>1, <2>2, Zenon DEF HookEntry
  <2>4. entries' = [entries EXCEPT ![n] = e]
    BY <1>5, <2>2, Zenon DEF override_enter
  <2> QED BY <1>3, <2>1, <2>3, <2>4, Zenon
<1>6. ASSUME NEW v \in RetVals \cup {Original}, override_filter(t, v), entries' # entries PROVE SameHooks
  <2> DEFINE n == calls[t].entry
  <2>1. n \in 1..Len(entries) /\ entries[n] \in HookEntry
    <3>1. calls[t].pc # "outside"
      BY <1>6, Zenon DEF override_filter
    <3>2. n \in 1..Len(entries)
      BY <1>2, <3>1, Zenon DEF CallsInv, CallInv
    <3> QED BY <1>2, <3>2
  <2>2. PICK e \in HookEntry : e = [entries[n] EXCEPT !.is_overrided = TRUE, !.user_ret = v]
    BY <2>1, Zenon DEF HookEntry
  <2>3. /\ e.live = entries[n].live /\ e.listener = entries[n].listener
        /\ e.user_attaches = entries[n].user_attaches /\ e.function = entries[n].function
    BY <2>1, <2>2, Zenon DEF HookEntry
  <2>4. entries' = [entries EXCEPT ![n] = e]
    BY <1>6, <2>2, Zenon DEF override_filter
  <2> QED BY <1>3, <2>1, <2>3, <2>4, Zenon
<1> QED BY <1>1, <1>4, <1>5, <1>6, Zenon DEF override_leave

\* The links of the context and the hook entries stay in step.
LEMMA LinksSame ==
  ASSUME HooksInv, LinksInv, SameHooks, UNCHANGED <<attach_entries, links>>
  PROVE  LinksInv' /\ live_attaches' = live_attaches /\ live_entries' = live_entries
<1>1. live_entries' = live_entries /\ \A n \in live_entries : n \in 1..Len(entries)
  BY Zenon DEF SameHooks, live_entries
<1>2. \A f \in DOMAIN internal_attaches : internal_attaches[f] \in live_entries
  BY Zenon DEF HooksInv, FridaTypes
<1>3. LinksInv'
  BY <1>1, <1>2 DEF LinksInv, SameHooks
<1>4. live_attaches' = live_attaches
  BY <1>1 DEF live_attaches, SameHooks
<1> QED BY <1>1, <1>3, <1>4, Zenon

\* A uprobe attach is recorded with its link.
LEMMA LinksUprobe ==
  ASSUME HooksInv, LinksInv, ContextInv, NEW id \in Slots, AttachesUprobe(id)
  PROVE  LinksInv' /\ \A n \in live_entries' : n \in live_entries \/ Hooked(n)'
<1>1. PICK func \in Functions, type \in AttachTypes : attach_at(func, type, id)
  BY Zenon DEF AttachesUprobe
<1>2. /\ FridaTypes /\ attach_entries' = attach_entries
      /\ internal_attaches' = [f \in DOMAIN internal_attaches \cup {func} |->
           IF f = func THEN (IF func \notin DOMAIN internal_attaches THEN Len(entries) + 1 ELSE internal_attaches[func])
           ELSE internal_attaches[f]]
      /\ attaches' = [i \in DOMAIN attaches \cup {next_id} |-> IF i = next_id THEN func ELSE attaches[i]]
  BY <1>1, Zenon DEF HooksInv, attach_at, AttachesUprobe, syscall_vars
<1>3. PICK n \in Nat, e \in HookEntry, ua \in UserAttach : ua.cb = id /\ AttachedTo(n, e, ua, func, type)
  BY <1>1, <1>2, AttachAt, Zenon
<1>4. /\ entries'[n].live = e.live /\ entries'[n].function = e.function
      /\ entries'[n].user_attaches = e.user_attaches \cup {ua}
  BY <1>3, Zenon DEF AttachedTo, Extended, HookEntry
<1>5. id \notin DOMAIN links /\ next_id \notin DOMAIN attaches
  BY DEF ContextInv, AttachesUprobe, links
<1>6. /\ DOMAIN links' = DOMAIN links \cup {id} /\ links'[id] = [impl |-> "frida", id |-> next_id]
      /\ \A l \in DOMAIN links : links'[l] = links[l]
      /\ DOMAIN attaches' = DOMAIN attaches \cup {next_id} /\ attaches'[next_id] = func
      /\ \A i \in DOMAIN attaches : attaches'[i] = attaches[i]
  BY <1>2, <1>5, Zenon DEF AttachesUprobe
<1>7. internal_attaches'[func] = n /\ func \in DOMAIN internal_attaches'
  BY <1>2, <1>3, Zenon DEF AttachedTo
<1>8. e.function = func /\ \A a \in e.user_attaches :
        /\ a.self_id \in DOMAIN attaches /\ attaches[a.self_id] = func
        /\ a.cb \in DOMAIN links /\ links[a.cb] = [impl |-> "frida", id |-> a.self_id]
  BY <1>3 DEF AttachedTo, new_entry, LinksInv
<1>9. ASSUME NEW f \in DOMAIN internal_attaches', f # func
      PROVE  /\ f \in DOMAIN internal_attaches /\ internal_attaches'[f] = internal_attaches[f]
             /\ entries'[internal_attaches[f]] = entries[internal_attaches[f]]
  <2>1. f \in DOMAIN internal_attaches /\ internal_attaches'[f] = internal_attaches[f]
    BY <1>2, <1>9, Zenon
  <2>2. internal_attaches[f] \in 1..Len(entries) /\ internal_attaches[f] \in Nat /\ Len(entries) \in Nat
    BY <1>2, <2>1 DEF FridaTypes, live_entries
  <2>3. internal_attaches[f] # n
    <3>1. CASE func \notin DOMAIN internal_attaches
      BY <1>3, <2>2, <3>1 DEF AttachedTo
    <3>2. CASE func \in DOMAIN internal_attaches
      BY <1>3, <1>9, <2>1, <3>2 DEF AttachedTo, LinksInv
    <3> QED BY <3>1, <3>2, Zenon
  <2>4. internal_attaches[f] \in 1..Len(entries')
    <3>1. Len(entries') \in {Len(entries), Len(entries) + 1}
      BY <1>3, Zenon DEF AttachedTo
    <3> QED BY <2>2, <3>1
  <2> QED BY <1>3, <2>1, <2>3, <2>4, Zenon DEF AttachedTo
<1>10. ASSUME NEW m \in live_entries'
       PROVE  entries'[m].user_attaches # {} /\ (m \in live_entries \/ Hooked(m)')
  <2>1. CASE m = n
    BY <1>4, <1>7, <2>1, Zenon DEF Hooked
  <2>2. CASE m # n
    BY <1>3, <2>2, Zenon DEF AttachedTo, live_entries, LinksInv
  <2> QED BY <2>1, <2>2, Zenon
<1>11. ASSUME NEW f \in DOMAIN internal_attaches'
       PROVE  /\ entries'[internal_attaches'[f]].function = f
              /\ \A a \in entries'[internal_attaches'[f]].user_attaches :
                   /\ a.self_id \in DOMAIN attaches' /\ attaches'[a.self_id] = f
                   /\ a.cb \in DOMAIN links' /\ links'[a.cb] = [impl |-> "frida", id |-> a.self_id]
  <2>1. CASE f = func
    <3>1. ua.self_id = next_id
      BY <1>3, Zenon DEF AttachedTo
    <3> QED BY <1>3, <1>4, <1>6, <1>7, <1>8, <2>1, <3>1
  <2>2. CASE f # func
    BY <1>6, <1>9, <2>2 DEF LinksInv
  <2> QED BY <2>1, <2>2, Zenon
<1>12. \A i \in DOMAIN attach_entries' :
         attach_entries'[i].cb \in DOMAIN links' /\ links'[attach_entries'[i].cb] = [impl |-> "syscall", id |-> i]
  BY <1>2, <1>6, Zenon DEF LinksInv
<1>13. LinksInv'
  BY <1>10, <1>11, <1>12, Zenon DEF LinksInv
<1> QED BY <1>10, <1>13, Zenon

\* A syscall attach is recorded with its link.
LEMMA LinksSyscall ==
  ASSUME HooksInv, LinksInv, ContextInv, NEW id \in Slots, AttachesSyscall(id)
  PROVE  LinksInv' /\ live_entries' = live_entries /\ internal_attaches' = internal_attaches
<1>1. PICK data : create_syscall_attach(data, id)
  BY Zenon DEF AttachesSyscall
<1>2. /\ UNCHANGED <<entries, internal_attaches, attaches>> /\ live_entries' = live_entries
      /\ DOMAIN attach_entries' = DOMAIN attach_entries \cup {syscall_next_id}
      /\ syscall_next_id \notin DOMAIN attach_entries
      /\ \A i \in DOMAIN attach_entries : attach_entries'[i] = attach_entries[i]
      /\ attach_entries'[syscall_next_id].cb = id
  <2>1. UNCHANGED <<entries, internal_attaches, attaches>> /\ live_entries' = live_entries
    BY Zenon DEF AttachesSyscall, frida_vars, live_entries
  <2>2. syscall_next_id \notin DOMAIN attach_entries
    BY DEF ContextInv, SyscallInv
  <2>3. attach_entries' = [i \in DOMAIN attach_entries \cup {syscall_next_id} |->
                             IF i = syscall_next_id THEN [sys_nr |-> data.sys_nr, is_enter |-> data.is_enter, cb |-> id]
                             ELSE attach_entries[i]]
    BY <1>1, Zenon DEF create_syscall_attach
  <2> QED BY <2>1, <2>2, <2>3, Zenon
<1>3. id \notin DOMAIN links
  BY Zenon DEF ContextInv, AttachesSyscall, links
<1>4. /\ DOMAIN links' = DOMAIN links \cup {id} /\ links'[id] = [impl |-> "syscall", id |-> syscall_next_id]
      /\ \A l \in DOMAIN links : links'[l] = links[l]
  BY <1>3, Zenon DEF AttachesSyscall
<1>5. ASSUME NEW i \in DOMAIN attach_entries'
      PROVE  attach_entries'[i].cb \in DOMAIN links' /\ links'[attach_entries'[i].cb] = [impl |-> "syscall", id |-> i]
  <2>1. CASE i = syscall_next_id
    BY <1>2, <1>4, <2>1, Zenon
  <2>2. CASE i \in DOMAIN attach_entries
    <3>1. attach_entries'[i] = attach_entries[i]
      BY <1>2, <2>2, Zenon
    <3>2. attach_entries[i].cb \in DOMAIN links /\ links[attach_entries[i].cb] = [impl |-> "syscall", id |-> i]
      BY <2>2, Zenon DEF LinksInv
    <3> QED BY <1>4, <3>1, <3>2, Zenon
  <2> QED BY <1>2, <2>1, <2>2, Zenon
<1>6. ASSUME NEW f \in DOMAIN internal_attaches, NEW ua \in entries[internal_attaches[f]].user_attaches
      PROVE  ua.cb \in DOMAIN links' /\ links'[ua.cb] = [impl |-> "frida", id |-> ua.self_id]
  BY <1>4, Zenon DEF LinksInv
<1>7. \A n \in live_entries' : entries'[n].user_attaches # {}
  BY <1>2, Zenon DEF LinksInv
<1>8. ASSUME NEW f \in DOMAIN internal_attaches'
      PROVE  /\ entries'[internal_attaches'[f]].function = f
             /\ \A ua \in entries'[internal_attaches'[f]].user_attaches :
                  /\ ua.self_id \in DOMAIN attaches' /\ attaches'[ua.self_id] = f
                  /\ ua.cb \in DOMAIN links' /\ links'[ua.cb] = [impl |-> "frida", id |-> ua.self_id]
  <2>1. /\ entries[internal_attaches[f]].function = f
        /\ \A ua \in entries[internal_attaches[f]].user_attaches : ua.self_id \in DOMAIN attaches /\ attaches[ua.self_id] = f
    BY <1>2, Zenon DEF LinksInv
  <2> QED BY <1>2, <1>6, <2>1, Zenon
<1>9. LinksInv'
  BY <1>5, <1>7, <1>8, Zenon DEF LinksInv
<1> QED BY <1>2, <1>9, Zenon

\* A detach leaves nothing of what the context attached.
LEMMA LinksDestroyed ==
  ASSUME HooksInv, LinksInv, ContextInv, destroy_all_attach_links
  PROVE  /\ LinksInv'
         /\ \A n \in live_entries' : n \in live_entries /\ ~Hooked(n)
         /\ (\A n \in live_entries : Hooked(n)) => live_attaches' = {}
<1> DEFINE ids == attach_ids("frida", links_to_detach)
<1>1. ids = DOMAIN attaches /\ attach_ids("syscall", links_to_detach) = DOMAIN attach_entries
  BY Zenon DEF links_to_detach, ContextInv, LinksAreAttaches
<1>2. detach_by_id(ids) /\ DOMAIN attach_entries' = {}
  BY <1>1, Zenon DEF destroy_all_attach_links, syscall_detach_by_id
<1>3. FridaTypes
  BY Zenon DEF HooksInv
<1> HIDE DEF ids
<1>4. /\ Len(entries') = Len(entries)
      /\ \A n \in 1..Len(entries) :
           \/ entries'[n] = entries[n] /\ ~Hooked(n)
           \/ /\ n \in live_entries
              /\ entries'[n].user_attaches = {ua \in entries[n].user_attaches : ua.self_id \notin ids}
              /\ entries'[n].live <=> entries'[n].user_attaches # {}
      /\ DOMAIN internal_attaches' \subseteq DOMAIN internal_attaches
      /\ \A f \in DOMAIN internal_attaches' : entries'[internal_attaches[f]].user_attaches # {}
  <2>1. /\ Len(entries') = Len(entries)
        /\ \A n \in 1..Len(entries) :
             \/ entries'[n] = entries[n] /\ ~ \E f \in DOMAIN internal_attaches : internal_attaches[f] = n
             \/ /\ n \in live_entries
                /\ entries'[n].user_attaches = {ua \in entries[n].user_attaches : ua.self_id \notin ids}
                /\ entries'[n].live = (entries'[n].user_attaches # {})
        /\ DOMAIN internal_attaches' \subseteq DOMAIN internal_attaches
        /\ \A f \in DOMAIN internal_attaches' :
             internal_attaches'[f] = internal_attaches[f] /\ entries'[internal_attaches[f]].user_attaches # {}
    BY <1>2, <1>3, DetachById
  <2> QED BY <2>1, Zenon DEF Hooked
<1>5. ASSUME NEW f \in DOMAIN internal_attaches PROVE entries'[internal_attaches[f]].user_attaches = {}
  <2>1. internal_attaches[f] \in 1..Len(entries) /\ Hooked(internal_attaches[f])
    BY <1>3, Zenon DEF FridaTypes, live_entries, Hooked
  <2>2. \A ua \in entries[internal_attaches[f]].user_attaches : ua.self_id \in ids
    BY <1>1, Zenon DEF LinksInv
  <2> QED BY <1>4, <2>1, <2>2, Zenon
<1>6. DOMAIN internal_attaches' = {}
  BY <1>4, <1>5, Zenon
<1>7. ASSUME NEW n \in live_entries' PROVE n \in live_entries /\ ~Hooked(n) /\ entries'[n].user_attaches # {}
  <2>1. n \in 1..Len(entries) /\ entries'[n].live
    BY <1>4, Zenon DEF live_entries
  <2>2. ~Hooked(n)
    <3> SUFFICES ASSUME Hooked(n) PROVE FALSE
      BY Zenon
    <3>1. entries'[n].user_attaches = {}
      BY <1>5, Zenon DEF Hooked
    <3> QED BY <1>4, <2>1, <3>1, Zenon
  <2>3. CASE entries'[n] = entries[n]
    BY <2>1, <2>2, <2>3, Zenon DEF live_entries, LinksInv
  <2>4. CASE entries'[n] # entries[n]
    BY <1>4, <2>1, <2>2, <2>4, Zenon
  <2> QED BY <2>2, <2>3, <2>4, Zenon
<1>8. LinksInv'
  BY <1>2, <1>6, <1>7, Zenon DEF LinksInv
<1>9. ASSUME \A n \in live_entries : Hooked(n) PROVE live_attaches' = {}
  <2>1. live_entries' = {}
    BY <1>7, <1>9, Zenon
  <2> QED BY <1>2, <2>1, Zenon DEF live_attaches
<1> QED BY <1>7, <1>8, <1>9, Zenon

AttachInv == AgentTypes /\ HooksInv /\ CallsInv /\ ContextInv /\ LinksInv

\* An injection goes from one place to the next.
LEMMA MainsOthers ==
  ASSUME AgentTypes, NEW m \in Injections, NEW pc, goes_to(m, pc)
  PROVE  mains'[m].pc = pc /\ \A k \in Injections : k # m => mains'[k] = mains[k]
BY Zenon DEF AgentTypes, Main, goes_to

\* Nothing of the attaches changes.
LEMMA AttachesSame ==
  ASSUME UNCHANGED attach_vars
  PROVE  live_attaches' = live_attaches /\ live_entries' = live_entries /\ \A n : Hooked(n)' = Hooked(n)
<1>1. UNCHANGED <<entries, internal_attaches, attaches, attach_entries>>
  BY Zenon DEF attach_vars, frida_vars, syscall_vars
<1>2. live_entries' = live_entries /\ \A n : Hooked(n)' = Hooked(n)
  BY <1>1, Zenon DEF live_entries, Hooked
<1> DEFINE In(es, live, as) == (UNION {{[entry |-> n, id |-> ua.self_id, cb |-> ua.cb] : ua \in es[n].user_attaches} : n \in live})
                                 \cup {[entry |-> 0, id |-> i, cb |-> as[i].cb] : i \in DOMAIN as}
<1>3. live_attaches = In(entries, live_entries, attach_entries) /\ live_attaches' = In(entries', live_entries', attach_entries')
  BY Zenon DEF live_attaches
<1> HIDE DEF In
<1> QED BY <1>1, <1>2, <1>3, Zenon

\* bpftime_agent_main, up to the context.
LEMMA OrderlyMain ==
  ASSUME AttachInv, DetachInv, NEW m \in Injections, bpftime_agent_main(m)
  PROVE  DetachInv'
<1>1. goes_to(m, IF initialized = 0 THEN "open_shm" ELSE "skipped") /\ UNCHANGED attach_vars
  BY Zenon DEF bpftime_agent_main
<1>2. /\ mains'[m].pc = IF initialized = 0 THEN "open_shm" ELSE "skipped"
      /\ \A k \in Injections : k # m => mains'[k] = mains[k]
  BY <1>1, MainsOthers, Zenon DEF AttachInv
<1>3. live_attaches' = live_attaches /\ live_entries' = live_entries /\ \A n : Hooked(n)' = Hooked(n)
  BY <1>1, AttachesSame, Zenon
<1>4. /\ early' \in BOOLEAN /\ alive' = alive /\ handling' = handling /\ injected_with_frida' = injected_with_frida
      /\ initialized' = 1 /\ (~early' => ~early /\ ~(handling /\ initialized = 0))
  BY Zenon DEF bpftime_agent_main, DetachInv
<1>5. ASSUME Orderly, ~(handling /\ initialized = 0) PROVE Orderly'
  <2>1. CASE initialized = 0
    <3>1. \A k \in Injections : ~Active(k)
      BY <1>5, <2>1 DEF Orderly
    <3>2. \A k \in Injections : k # m => mains'[k].pc \in Finished
      BY <1>2, <3>1, Zenon DEF Active
    <3> QED BY <1>2, <1>3, <1>4, <1>5, <2>1, <3>2, Zenon DEF Orderly, Active, Finished
  <2>2. CASE initialized # 0
    BY <1>2, <1>3, <1>4, <1>5, <2>2, Zenon DEF Orderly, Active, Finished, DetachInv
  <2> QED BY <2>1, <2>2, Zenon
<1> QED BY <1>4, <1>5, Zenon DEF DetachInv

\* Opening the segment and recording the pid attach nothing.
LEMMA OrderlyShm ==
  ASSUME AttachInv, DetachInv, NEW m \in Injections, bpftime_initialize_global_shm(m) \/ add_pid_into_alive_agent_set(m)
  PROVE  DetachInv'
<1>1. PICK pc \in {"record_pid", "no_shm", "init_ctx"} : goes_to(m, pc) /\ (pc = "init_ctx" /\ injected_with_frida => alive')
  BY Zenon DEF bpftime_initialize_global_shm, add_pid_into_alive_agent_set
<1>2. /\ mains[m].pc \in {"open_shm", "record_pid"} /\ UNCHANGED attach_vars
      /\ UNCHANGED <<injected_with_frida, initialized, handling, early>>
      /\ alive' \in BOOLEAN /\ (alive => alive')
  BY Zenon DEF bpftime_initialize_global_shm, add_pid_into_alive_agent_set, DetachInv
<1>3. mains'[m].pc = pc /\ \A k \in Injections : k # m => mains'[k] = mains[k]
  BY <1>1, MainsOthers, Zenon DEF AttachInv
<1>4. live_attaches' = live_attaches /\ live_entries' = live_entries /\ \A n : Hooked(n)' = Hooked(n)
  BY <1>2, AttachesSame, Zenon
<1>5. Active(m) /\ \A k \in Injections : Active(k)' => Active(k)
  BY <1>2, <1>3, Zenon DEF Active, Finished
<1> QED BY <1>1, <1>2, <1>3, <1>4, <1>5, Zenon DEF DetachInv, Orderly

\* The context is constructed over one that has nothing attached.
LEMMA OrderlyConstruct ==
  ASSUME AttachInv, DetachInv, NEW m \in Injections, ctx_holder_init(m)
  PROVE  DetachInv'
<1>1. /\ goes_to(m, "scan") /\ mains[m].pc = "init_ctx" /\ construct
      /\ UNCHANGED <<injected_with_frida, initialized, handling, early, alive>>
  BY Zenon DEF ctx_holder_init
<1>2. mains'[m].pc = "scan" /\ \A k \in Injections : k # m => mains'[k] = mains[k]
  BY <1>1, MainsOthers, Zenon DEF AttachInv
<1>3. Active(m) /\ \A k \in Injections : Active(k)' => Active(k)
  BY <1>1, <1>2, Zenon DEF Active, Finished
<1>4. ASSUME live_attaches = {} PROVE live_attaches' = {} /\ live_entries' = {}
  <2>1. live_entries = {}
    <3> SUFFICES ASSUME NEW n \in live_entries PROVE FALSE
      BY Zenon
    <3>1. PICK ua \in entries[n].user_attaches : TRUE
      BY ZenonT(40) DEF AttachInv, LinksInv
    <3>2. [entry |-> n, id |-> ua.self_id, cb |-> ua.cb] \in live_attaches
      BY DEF live_attaches
    <3> QED BY <1>4, <3>2, Zenon
  <2>2. live_entries' = {} /\ DOMAIN attach_entries' = {}
    BY <1>1, <2>1 DEF construct, set_to_global, live_entries
  <2> QED BY <2>2, Zenon DEF live_attaches
<1> QED BY <1>1, <1>2, <1>3, <1>4, Zenon DEF DetachInv, Orderly

\* A slot of the table: what it attaches hangs off a hook entry of this context.
LEMMA OrderlySlot ==
  ASSUME AttachInv, DetachInv, NEW m \in Injections, init_attach_ctx_from_handlers(m)
  PROVE  DetachInv'
<1>1. PICK result \in {"ok", "error", "throw"} :
        /\ UNCHANGED attach_vars \/ instantiate_handler_at(mains[m].id, result)
        /\ mains' = [mains EXCEPT ![m] = after_slot(mains[m], result)]
  BY Zenon DEF init_attach_ctx_from_handlers
<1>2. /\ mains[m].pc = "scan" /\ mains[m] \in Main /\ mains[m].id \in Slots
      /\ UNCHANGED <<injected_with_frida, initialized, handling, early, alive>>
  BY Zenon DEF init_attach_ctx_from_handlers, AttachInv, AgentTypes, Main
<1>3. mains'[m].pc \in {"scan", "attached", "aborted"} /\ \A k \in Injections : k # m => mains'[k] = mains[k]
  <2>1. after_slot(mains[m], result).pc \in {"scan", "attached", "aborted"}
    BY <1>2, Zenon DEF after_slot, Main
  <2> QED BY <1>1, <2>1, Zenon DEF AttachInv, AgentTypes
<1>4. Active(m) /\ \A k \in Injections : Active(k)' => Active(k)
  BY <1>2, <1>3, Zenon DEF Active, Finished
<1>5. ASSUME \A n \in live_entries : Hooked(n) PROVE \A n \in live_entries' : Hooked(n)'
  <2>1. CASE UNCHANGED <<frida_vars, syscall_vars, links>>
    BY <1>5, <2>1, Zenon DEF frida_vars, live_entries, Hooked
  <2>2. CASE AttachesUprobe(mains[m].id)
    <3>1. \A n \in live_entries' : n \in live_entries \/ Hooked(n)'
      BY <1>2, <2>2, LinksUprobe, Zenon DEF AttachInv
    <3>2. \A n : Hooked(n) => Hooked(n)'
      BY <2>2 DEF Hooked, AttachesUprobe, attach_at
    <3> QED BY <1>5, <3>1, <3>2, Zenon
  <2>3. CASE AttachesSyscall(mains[m].id)
    BY <1>2, <1>5, <2>3, LinksSyscall, Zenon DEF AttachInv, Hooked
  <2>4. CASE UNCHANGED attach_vars
    BY <1>5, <2>4, AttachesSame, Zenon
  <2> QED BY <1>1, <1>2, <2>1, <2>2, <2>3, <2>4, SlotAttaches, Zenon DEF AttachInv
<1>6. ASSUME Orderly PROVE Orderly'
  <2>1. initialized = 1 /\ ~handling /\ (injected_with_frida => alive) /\ \A k \in Injections : k # m => ~Active(k)
    BY <1>2, <1>4, <1>6, Zenon DEF Orderly
  <2>2. \A k \in Injections : mains'[k].pc \notin {"open_shm", "record_pid", "init_ctx"}
    BY <1>3, <2>1, Zenon DEF Active, Finished
  <2> QED BY <1>2, <1>3, <1>4, <1>5, <1>6, <2>1, <2>2 DEF Orderly
<1> QED BY <1>2, <1>6, Zenon DEF DetachInv

\* The two halves of the signal handler.
LEMMA OrderlyDestroy ==
  ASSUME AttachInv, DetachInv, sigusr1_destroy_all
  PROVE  DetachInv'
<1>1. /\ UNCHANGED <<injected_with_frida, initialized, mains, alive>>
      /\ early' \in BOOLEAN /\ (~early' => ~early /\ idle)
  BY Zenon DEF sigusr1_destroy_all, DetachInv
<1>2. CASE constructed
  <2>1. destroy_all_attach_links /\ handling' = TRUE
    BY <1>2, Zenon DEF sigusr1_destroy_all
  <2>2. /\ \A n \in live_entries' : n \in live_entries /\ ~Hooked(n)
        /\ (\A n \in live_entries : Hooked(n)) => live_attaches' = {}
    BY <2>1, LinksDestroyed, Zenon DEF AttachInv
  <2>3. idle => \A k \in Injections : ~Active(k)' /\ mains'[k].pc \in Finished
    BY <1>1, Zenon DEF idle, Active
  <2> QED BY <1>1, <2>1, <2>2, <2>3, Zenon DEF DetachInv, Orderly, Finished
<1>3. CASE ~constructed
  <2>1. UNCHANGED <<attach_vars, handling>>
    BY <1>3, Zenon DEF sigusr1_destroy_all
  <2>2. live_attaches' = live_attaches /\ live_entries' = live_entries /\ \A n : Hooked(n)' = Hooked(n)
    BY <2>1, AttachesSame, Zenon
  <2> QED BY <1>1, <2>1, <2>2, Zenon DEF DetachInv, Orderly, Active
<1> QED BY <1>2, <1>3, Zenon

\* The second half of the signal handler finds nothing attached.
LEMMA OrderlyReset ==
  ASSUME AttachInv, DetachInv, sigusr1_reset
  PROVE  DetachInv'
<1>1. /\ UNCHANGED <<attach_vars, injected_with_frida, mains>> /\ handling /\ handling' = FALSE /\ alive' = FALSE
      /\ initialized' = 0 /\ early' \in BOOLEAN /\ (~early' => ~early /\ idle)
  BY Zenon DEF sigusr1_reset, DetachInv
<1>2. live_attaches' = live_attaches /\ live_entries' = live_entries /\ \A n : Hooked(n)' = Hooked(n)
  BY <1>1, AttachesSame, Zenon
<1>3. idle => \A k \in Injections : ~Active(k)' /\ mains'[k].pc \in Finished
  BY <1>1, Zenon DEF idle, Active
<1> QED BY <1>1, <1>2, <1>3, Zenon DEF DetachInv, Orderly, Finished

\* The detach command, calls of traced threads and changes of the table attach nothing.
LEMMA OrderlyRest ==
  ASSUME AttachInv, DetachInv, detach_command \/ traced_thread \/ loader_changes_table \/ UNCHANGED all_vars
  PROVE  DetachInv'
<1>1. UNCHANGED <<injected_with_frida, initialized, mains, alive, handling, early>>
  BY Zenon DEF detach_command, traced_thread, loader_changes_table, all_vars, agent_vars
<1>2. live_attaches' = live_attaches /\ live_entries' = live_entries /\ \A n : Hooked(n)' = Hooked(n)
  <2>1. CASE UNCHANGED attach_vars
    BY <2>1, AttachesSame, Zenon
  <2>2. CASE traced_thread
    <3>1. SameHooks /\ UNCHANGED <<attach_entries, links>>
      BY <2>2, CallsAreSameHooks, Zenon DEF AttachInv, HooksInv, traced_thread, syscall_vars, ctx_vars, links
    <3>2. live_attaches' = live_attaches /\ live_entries' = live_entries
      BY <3>1, LinksSame, Zenon DEF AttachInv
    <3> QED BY <3>1, <3>2, Zenon DEF Hooked, SameHooks
  <2> QED BY <2>1, <2>2, Zenon DEF detach_command, loader_changes_table, all_vars
<1> QED BY <1>1, <1>2, Zenon DEF DetachInv, Orderly, Active

\* What the context knows of its attaches is kept by every step.
LEMMA LinksKept ==
  ASSUME AttachInv, [Next \/ loader_changes_table]_all_vars
  PROVE  LinksInv'
<1>1. CASE UNCHANGED attach_vars
  BY <1>1 DEF AttachInv, LinksInv, live_entries, attach_vars, frida_vars, syscall_vars, ctx_vars, links
<1>2. ASSUME NEW m \in Injections, init_attach_ctx_from_handlers(m) PROVE LinksInv'
  <2>1. mains[m].id \in Slots
    BY <1>2, Zenon DEF AttachInv, AgentTypes, Main
  <2>2. PICK result : UNCHANGED attach_vars \/ instantiate_handler_at(mains[m].id, result)
    BY <1>2, Zenon DEF init_attach_ctx_from_handlers
  <2>3. CASE UNCHANGED <<frida_vars, syscall_vars, links>>
    BY <2>3 DEF AttachInv, LinksInv, live_entries, frida_vars, syscall_vars
  <2> QED BY <1>1, <2>1, <2>2, <2>3, SlotAttaches, LinksUprobe, LinksSyscall, Zenon DEF AttachInv
<1>3. CASE construct
  BY <1>3 DEF AttachInv, LinksInv, construct, fresh_impl, set_to_global, live_entries, links
<1>4. CASE destroy_all_attach_links
  BY <1>4, LinksDestroyed, Zenon DEF AttachInv
<1>5. CASE traced_thread
  <2>1. SameHooks /\ UNCHANGED <<attach_entries, links>>
    BY <1>5, CallsAreSameHooks, Zenon DEF AttachInv, HooksInv, traced_thread, syscall_vars, ctx_vars, links
  <2> QED BY <2>1, LinksSame, Zenon DEF AttachInv
<1> QED BY <1>1, <1>2, <1>3, <1>4, <1>5, Zenon DEF Next, loader_changes_table, all_vars, bpftime_agent_main,
       bpftime_initialize_global_shm, add_pid_into_alive_agent_set, ctx_holder_init, detach_command,
       sigusr1_destroy_all, sigusr1_reset

\* Every step keeps the order of injections and detaches.
LEMMA DetachInvKept ==
  ASSUME AttachInv, DetachInv, [Next \/ loader_changes_table]_all_vars
  PROVE  DetachInv'
BY OrderlyMain, OrderlyShm, OrderlyConstruct, OrderlySlot, OrderlyDestroy, OrderlyReset, OrderlyRest, Zenon DEF Next

\* A hook entry is that of its function, an attach id that of one link: no link is attached twice.
LEMMA AttachedOnce ==
  ASSUME AttachInv, Orderly
  PROVE  \A a, b \in live_attaches : a.cb = b.cb => a = b
<1> DEFINE Uprobe(a) == \E f \in DOMAIN internal_attaches :
             /\ a = [entry |-> internal_attaches[f], id |-> a.id, cb |-> a.cb]
             /\ a.id \in DOMAIN attaches /\ attaches[a.id] = f
             /\ links[a.cb] = [impl |-> "frida", id |-> a.id]
           Syscall(a) == a = [entry |-> 0, id |-> a.id, cb |-> a.cb] /\ links[a.cb] = [impl |-> "syscall", id |-> a.id]
<1>1. \A a \in live_attaches : Uprobe(a) \/ Syscall(a)
  <2> SUFFICES ASSUME NEW a \in live_attaches PROVE Uprobe(a) \/ Syscall(a)
    BY Zenon
  <2>1. CASE \E n \in live_entries : \E ua \in entries[n].user_attaches : a = [entry |-> n, id |-> ua.self_id, cb |-> ua.cb]
    <3>1. PICK n \in live_entries : \E ua \in entries[n].user_attaches : a = [entry |-> n, id |-> ua.self_id, cb |-> ua.cb]
      BY <2>1, Zenon
    <3>2. PICK ua \in entries[n].user_attaches : a = [entry |-> n, id |-> ua.self_id, cb |-> ua.cb]
      BY <3>1, Zenon
    <3>3. PICK f \in DOMAIN internal_attaches : internal_attaches[f] = n
      BY <3>1, Zenon DEF Orderly, Hooked
    <3>4. ua.self_id \in DOMAIN attaches /\ attaches[ua.self_id] = f /\ links[ua.cb] = [impl |-> "frida", id |-> ua.self_id]
      BY <3>2, <3>3, Zenon DEF AttachInv, LinksInv
    <3> QED BY <3>2, <3>3, <3>4, Zenon
  <2>2. CASE \E i \in DOMAIN attach_entries : a = [entry |-> 0, id |-> i, cb |-> attach_entries[i].cb]
    BY <2>2 DEF AttachInv, LinksInv
  <2> QED BY <2>1, <2>2, Zenon DEF live_attaches
<1>2. ASSUME NEW a, NEW b, a.cb = b.cb, Uprobe(a), Uprobe(b) PROVE a = b
  <2>1. a.id = b.id
    BY <1>2
  <2> QED BY <1>2, <2>1, Zenon
<1>3. ASSUME NEW a, NEW b, a.cb = b.cb, Syscall(a), Syscall(b) PROVE a = b
  <2>1. a.id = b.id
    BY <1>3
  <2> QED BY <1>3, <2>1, Zenon
<1>4. ASSUME NEW a, NEW b, a.cb = b.cb, Uprobe(a), Syscall(b) PROVE FALSE
  <2>1. "frida" = "syscall"
    BY <1>4
  <2> QED BY <2>1, Zenon
<1> HIDE DEF Uprobe, Syscall
<1> QED BY <1>1, <1>2, <1>3, <1>4, Zenon

\* Nothing is attached before the first injection.
LEMMA AgentAtStart ==
  ASSUME AgentInit
  PROVE  AttachInv /\ DetachInv
<1>1. Nothing
  BY DEF Nothing, AgentInit, CtxInit, FridaInit, SyscallInit, SyscallInv
<1>2. ContextInv
  BY <1>1, NothingAttached, Zenon
<1>3. AgentTypes /\ HooksInv /\ CallsInv
  BY FridaAtStart, Zenon
<1>4. live_entries = {} /\ DOMAIN internal_attaches = {} /\ DOMAIN attach_entries = {}
  BY DEF AgentInit, CtxInit, FridaInit, SyscallInit, live_entries
<1>5. LinksInv /\ live_attaches = {}
  BY <1>4, Zenon DEF LinksInv, live_attaches
<1>6. \A m \in Injections : mains[m].pc = "not_called"
  BY Zenon DEF AgentInit
<1>7. DetachInv
  BY <1>4, <1>5, <1>6, Zenon DEF DetachInv, Orderly, Active, Finished, AgentInit
<1> QED BY <1>2, <1>3, <1>5, <1>7, Zenon DEF AttachInv

\* Every step keeps what the context and the implementations agree on.
LEMMA AttachInvKept ==
  ASSUME AttachInv, [Next \/ loader_changes_table]_all_vars
  PROVE  AttachInv'
<1>1. ContextInv'
  BY StepsOfTheTracer, TracerStep, StepsOfTheContext, ContextKept, Zenon DEF AttachInv, ContextInv
<1>2. AgentTypes' /\ HooksInv' /\ CallsInv'
  BY StepsOfTheHooks, FridaKept, Zenon DEF AttachInv
<1> QED BY <1>1, <1>2, LinksKept, Zenon DEF AttachInv

\* In any number of injections, detaches and table changes, with any tables: as long as the signal handler has not
\* overlapped an injection, a process with attaches is in the set `bpftime detach' walks, a process it has left has
\* none, and no link is attached twice.
THEOREM DetachLeavesNothing ==
  SharedTableSpec => []DetachIsComplete
<1>1. AgentInit => AttachInv /\ DetachInv
  BY AgentAtStart, Zenon
<1>2. AttachInv /\ DetachInv /\ [Next \/ loader_changes_table]_all_vars => (AttachInv /\ DetachInv)'
  BY AttachInvKept, DetachInvKept, Zenon
<1>3. AttachInv /\ DetachInv => DetachIsComplete
  <2> SUFFICES ASSUME AttachInv, Orderly PROVE
               /\ AttachedIsDetachable
               /\ initialized = 0 => attached = {}
               /\ \A a, b \in live_attaches : a.cb = b.cb => a = b
    BY Zenon DEF DetachInv, DetachIsComplete
  <2>1. attached # {} => live_attaches # {}
    BY Zenon DEF attached
  <2>2. AttachedIsDetachable /\ (initialized = 0 => attached = {})
    BY <2>1, Zenon DEF Orderly, AttachedIsDetachable
  <2> QED BY <2>2, AttachedOnce, Zenon
<1> QED BY <1>1, <1>2, <1>3, PTL DEF SharedTableSpec

-----------------------------------------------------------------------------
(* What is attached comes from the table. *)

\* Instantiated programs have loaded, instantiated events are as the table has them.
ContextOfTable(c) ==
  /\ \A p \in c.done : handlers[p].kind = "prog" => handlers[p].loads /\ p \in c.progs
  /\ \A p \in c.done : handlers[p].kind = "perf" => p \in DOMAIN c.events
  /\ \A i \in DOMAIN c.events :
       handlers[i].kind = "perf" /\ c.events[i].type = handlers[i].type /\ c.events[i].at = handlers[i].at

\* Link l was attached for its program, and for the function and as the type of its target.
AttachOfTable(l) == handlers[l].kind = "link" /\ handlers[handlers[l].prog_id].loads

UprobeOfTable(func, type, l) ==
  LET target == handlers[handlers[l].attach_target_id]
  IN  AttachOfTable(l) /\ target.at = func /\ (type = "uprobe_override" => target.type \in OverrideTypes)

TableInv ==
  /\ ContextOfTable(now)
  /\ \A n \in live_entries : \A ua \in entries[n].user_attaches : UprobeOfTable(entries[n].function, ua.type, ua.cb)
  /\ \A i \in DOMAIN attach_entries : AttachOfTable(attach_entries[i].cb)

\* Before a detach, a link that needs no further work is attached.
DoneAreAttached == \A l \in instantiated_handlers : handlers[l].kind = "link" => l \in attached

\* Injection m has got past the compare-and-swap.
Past(m) == mains[m].pc \notin {"not_called", "skipped"}

\* The scan s has been at slot l.
Visited(s, l) == l < s.id \/ s.nv

\* Before the first detach: one injection has scanned the table, or is scanning it, and has attached what it could.
FirstScan ==
  /\ ~pending /\ ~handling /\ ~early
  /\ \A m \in Injections : Past(m) => initialized = 1
  /\ \A m, k \in Injections : Past(m) /\ Past(k) => m = k
  /\ \A m \in Injections : mains[m].pc \notin {"scan", "attached", "aborted"} => mains[m].id = 0 /\ ~mains[m].nv
  /\ DoneAreAttached
  /\ \A m \in Injections : mains[m].pc = "scan" => \A l \in Slots : Visited(mains[m], l) /\ attachable(l) => l \in attached
  /\ \A m \in Injections : mains[m].pc = "attached" => \A l \in Slots : attachable(l) => l \in attached

ScanInv == detaches \in Nat /\ (detaches = 0 => FirstScan)

\* A context as instantiate_handler_at passes it around.
IsContext(c) == c = [done |-> c.done, progs |-> c.progs, events |-> c.events, err |-> c.err]

\* What instantiating handler `id' makes of context c.
Instantiates(c, id, d) ==
  /\ IsContext(d) /\ ContextOfTable(d)
  /\ c.done \subseteq d.done /\ c.progs \subseteq d.progs /\ DOMAIN c.events \subseteq DOMAIN d.events
  /\ \A l \in d.done : l \in c.done \/ handlers[l].kind # "link"
  /\ ~c.err /\ ~d.err /\ handlers[id].kind = "prog" => handlers[id].loads
  /\ ~c.err /\ handlers[id].kind = "prog" /\ handlers[id].loads => ~d.err /\ id \in d.progs
  /\ ~c.err /\ handlers[id].kind = "perf" /\ handlers[id].type \in Registered /\ handlers[id].parses =>
       ~d.err /\ id \in DOMAIN d.events

\* Instantiating a handler loads it as the table has it, or fails.
LEMMA InstantiatesOfTable ==
  ASSUME NEW c, IsContext(c), ContextOfTable(c), NEW id
  PROVE  Instantiates(c, id, instantiated(c, id))
<1> DEFINE h == handlers[id]
<1>1. CASE id \in c.done \/ h.kind \notin {"prog", "perf"}
  <2>1. instantiated(c, id) = c
    BY <1>1, Zenon DEF instantiated
  <2> QED BY <1>1, <2>1, Zenon DEF Instantiates, ContextOfTable
<1>2. CASE id \notin c.done /\ h.kind = "prog"
  <2> DEFINE d == instantiate_prog_handler_at(c, id)
  <2>1. instantiated(c, id) = d
    BY <1>2, Zenon DEF instantiated
  <2>2. CASE h.loads
    <3>1. d = [done |-> c.done \cup {id}, progs |-> c.progs \cup {id}, events |-> c.events, err |-> c.err]
      BY <2>2, Zenon DEF instantiate_prog_handler_at, IsContext
    <3> HIDE DEF d
    <3>2. IsContext(d) /\ d.done = c.done \cup {id} /\ d.progs = c.progs \cup {id} /\ d.events = c.events /\ d.err = c.err
      BY <3>1 DEF IsContext
    <3>3. ContextOfTable(d)
      BY <1>2, <2>2, <3>2, Zenon DEF ContextOfTable
    <3> QED BY <1>2, <2>1, <2>2, <3>2, <3>3, Zenon DEF Instantiates
  <2>3. CASE ~h.loads
    <3>1. d = [done |-> c.done, progs |-> c.progs \cup {id}, events |-> c.events, err |-> TRUE]
      BY <2>3, Zenon DEF instantiate_prog_handler_at, IsContext
    <3> HIDE DEF d
    <3>2. IsContext(d) /\ d.done = c.done /\ d.progs = c.progs \cup {id} /\ d.events = c.events /\ d.err = TRUE
      BY <3>1 DEF IsContext
    <3>3. ContextOfTable(d)
      BY <3>2, Zenon DEF ContextOfTable
    <3> QED BY <1>2, <2>1, <2>3, <3>2, <3>3, Zenon DEF Instantiates
  <2> QED BY <2>2, <2>3, Zenon
<1>3. CASE id \notin c.done /\ h.kind = "perf"
  <2> DEFINE d == instantiate_perf_event_handler_at(c, id)
             more == [i \in DOMAIN c.events \cup {id} |-> IF i = id THEN [type |-> h.type, at |-> h.at] ELSE c.events[i]]
  <2>1. instantiated(c, id) = d
    BY <1>3, Zenon DEF instantiated
  <2>2. CASE h.type = "software"
    <3>1. d = c /\ h.type \notin Registered
      BY <2>2, Zenon DEF instantiate_perf_event_handler_at, Registered, AttachTypes, OverrideTypes
    <3> QED BY <1>3, <2>1, <3>1, Zenon DEF Instantiates, ContextOfTable
  <2>3. CASE h.type # "software" /\ (h.type \notin Registered \/ ~h.parses)
    <3>1. d = [done |-> c.done, progs |-> c.progs, events |-> c.events, err |-> TRUE]
      BY <2>3, Zenon DEF instantiate_perf_event_handler_at, IsContext
    <3> HIDE DEF d
    <3>2. IsContext(d) /\ d.done = c.done /\ d.progs = c.progs /\ d.events = c.events /\ d.err = TRUE
      BY <3>1 DEF IsContext
    <3>3. ContextOfTable(d)
      BY <3>2, Zenon DEF ContextOfTable
    <3> QED BY <1>3, <2>1, <2>3, <3>2, <3>3, Zenon DEF Instantiates
  <2>4. CASE h.type # "software" /\ h.type \in Registered /\ h.parses
    <3>1. d = [done |-> c.done \cup {id}, progs |-> c.progs, events |-> more, err |-> c.err]
      BY <2>4, Zenon DEF instantiate_perf_event_handler_at, IsContext
    <3>2. /\ DOMAIN more = DOMAIN c.events \cup {id} /\ more[id].type = h.type /\ more[id].at = h.at
          /\ \A i \in DOMAIN c.events : i # id => more[i] = c.events[i]
      BY Zenon
    <3> HIDE DEF more
    <3> HIDE DEF d
    <3>3. IsContext(d) /\ d.done = c.done \cup {id} /\ d.progs = c.progs /\ d.events = more /\ d.err = c.err
      BY <3>1 DEF IsContext
    <3>4. ContextOfTable(d)
      <4>1. ASSUME NEW i \in DOMAIN more
            PROVE  handlers[i].kind = "perf" /\ more[i].type = handlers[i].type /\ more[i].at = handlers[i].at
        BY <1>3, <3>2, Zenon DEF ContextOfTable
      <4> QED BY <1>3, <3>2, <3>3, <4>1, Zenon DEF ContextOfTable
    <3> QED BY <1>3, <2>1, <2>4, <3>2, <3>3, <3>4, Zenon DEF Instantiates
  <2> QED BY <2>2, <2>3, <2>4, Zenon
<1> QED BY <1>1, <1>2, <1>3, Zenon

\* What a link finds: it goes on only with a program that has loaded, and it does go on if that and its target are in order.
LEMMA NeededOfTable ==
  ASSUME handlers \in Tables, ContextOfTable(now), NEW id \in Slots, handlers[id].kind = "link"
  PROVE  LET c == needed_by_link(handlers[id])
             link == handlers[id]
             target == handlers[link.attach_target_id]
         IN  /\ ContextOfTable(c)
             /\ \A l \in c.done : l \in instantiated_handlers \/ handlers[l].kind # "link"
             /\ ~c.err => handlers[link.prog_id].loads
             /\ handlers[link.prog_id].loads /\ target.kind = "perf" /\ target.type \in Registered /\ target.parses =>
                  ~c.err /\ link.prog_id \in c.progs /\ link.attach_target_id \in DOMAIN c.events
<1> DEFINE link == handlers[id]
           target == handlers[link.attach_target_id]
           p == instantiated(now, link.prog_id)
           q == instantiated(p, link.attach_target_id)
<1>1. IsContext(now) /\ ~now.err /\ handlers[link.prog_id].kind = "prog"
  BY TablesAssumption, Zenon DEF IsContext, now
<1>2. Instantiates(now, link.prog_id, p)
  BY <1>1, InstantiatesOfTable, Zenon
<1>3. IsContext(p) /\ ContextOfTable(p)
  BY <1>2, Zenon DEF Instantiates
<1>4. Instantiates(p, link.attach_target_id, q)
  BY <1>3, InstantiatesOfTable, Zenon
<1>5. needed_by_link(link) = IF p.err THEN p ELSE q
  BY Zenon DEF needed_by_link
<1>6. now.done = instantiated_handlers
  BY Zenon DEF now
<1> HIDE DEF p, q
<1> QED BY <1>1, <1>2, <1>4, <1>5, <1>6, Zenon DEF Instantiates

\* A slot of the table: what it adds to the context, and what it attaches, come from the table.
AttachesUprobeOfTable(id) ==
  /\ AttachesUprobe(id)
  /\ \E func \in Functions, type \in AttachTypes :
       attach_at(func, type, id) /\ UprobeOfTable(func, recorded_type(type), id)

\* One slot of a pass attaches only what the table says, with a loaded program.
LEMMA SlotOfTable ==
  ASSUME AgentTypes, ContextOfTable(now), handlers' = handlers, NEW id \in Slots, NEW result, instantiate_handler_at(id, result)
  PROVE  /\ ContextOfTable(now)'
         /\ \/ UNCHANGED <<frida_vars, syscall_vars, links>>
            \/ AttachesUprobeOfTable(id)
            \/ AttachesSyscall(id) /\ AttachOfTable(id)
<1> DEFINE Quiet == UNCHANGED <<frida_vars, syscall_vars, links>>
<1>0. IsContext(now) /\ ~now.err
  BY Zenon DEF IsContext, now
<1>1. CASE UNCHANGED attach_vars
  BY <1>1, Zenon DEF attach_vars, ctx_vars, links, ContextOfTable, now
<1>2. CASE ~already_instantiated(id) /\ handlers[id].kind # "link"
  <2> DEFINE c == instantiated(now, id)
  <2>1. /\ instantiated_handlers' = c.done /\ instantiated_progs' = c.progs /\ instantiated_perf_events' = c.events
        /\ UNCHANGED <<instantiated_attach_links, frida_vars, syscall_vars>>
    BY <1>2, Zenon DEF instantiate_handler_at, already_instantiated, attach_vars, keeps
  <2>2. ContextOfTable(c)
    BY <1>0, InstantiatesOfTable, Zenon DEF Instantiates
  <2> HIDE DEF c
  <2> QED BY <2>1, <2>2, Zenon DEF ContextOfTable, now, links
<1>3. CASE ~already_instantiated(id) /\ handlers[id].kind = "link"
  <2> DEFINE link == handlers[id]
             c == needed_by_link(link)
  <2>1. /\ instantiated_progs' = c.progs /\ instantiated_perf_events' = c.events
        /\ \/ c.err /\ instantiated_handlers' = c.done /\ UNCHANGED <<instantiated_attach_links, frida_vars, syscall_vars>>
           \/ ~c.err /\ instantiate_bpf_link_handler_at(c, id, result)
    BY <1>3, Zenon DEF instantiate_handler_at, keeps
  <2>2. ContextOfTable(c) /\ (~c.err => AttachOfTable(id))
    BY <1>3, NeededOfTable, Zenon DEF AgentTypes, AttachOfTable
  <2>3. EventsOk(c.events)
    BY <1>3, NeededEvents, Zenon
  <2>4. id \notin instantiated_handlers
    BY <1>3, Zenon DEF already_instantiated
  <2> HIDE DEF c
  <2>5. ASSUME instantiate_bpf_link_handler_at(c, id, result)
        PROVE  instantiated_handlers' \in {c.done, c.done \cup {id}}
    BY <2>5, Zenon DEF instantiate_bpf_link_handler_at
  <2>6. ContextOfTable(now)'
    <3>1. instantiated_handlers' \in {c.done, c.done \cup {id}}
      BY <2>1, <2>5, Zenon
    <3> QED BY <1>3, <2>1, <2>2, <3>1, Zenon DEF ContextOfTable, now
  <2>7. ASSUME ~c.err, instantiate_bpf_link_handler_at(c, id, result), ~Quiet
        PROVE  AttachesUprobeOfTable(id) \/ AttachesSyscall(id)
    <3> DEFINE event == c.events[link.attach_target_id]
               target == handlers[link.attach_target_id]
    <3>1. CASE /\ link.attach_target_id \in DOMAIN c.events /\ event.type # "tracepoint"
               /\ attach_at(event.at, event.type, id) /\ UNCHANGED syscall_vars
               /\ instantiated_attach_links' =
                    [i \in DOMAIN instantiated_attach_links \cup {id} |->
                       IF i # id THEN instantiated_attach_links[i] ELSE [impl |-> "frida", id |-> next_id]]
      <4>1. event.type \in AttachTypes /\ event.at \in Functions
        BY <2>3, <3>1, Zenon DEF EventsOk, Registered
      <4>2. UprobeOfTable(event.at, recorded_type(event.type), id)
        <5>1. target.type = event.type /\ target.at = event.at /\ AttachOfTable(id)
          BY <2>2, <2>7, <3>1, Zenon DEF ContextOfTable
        <5> QED BY <5>1, Zenon DEF UprobeOfTable, recorded_type, OverrideTypes
      <4>3. \E func \in Functions, type \in AttachTypes :
              attach_at(func, type, id) /\ UprobeOfTable(func, recorded_type(type), id)
        BY <3>1, <4>1, <4>2, Zenon
      <4> QED BY <2>4, <3>1, <4>3, Zenon DEF AttachesUprobeOfTable, AttachesUprobe, links
    <3>2. CASE /\ create_syscall_attach(event.at, id) /\ UNCHANGED frida_vars
               /\ instantiated_attach_links' =
                    [i \in DOMAIN instantiated_attach_links \cup {id} |->
                       IF i # id THEN instantiated_attach_links[i] ELSE [impl |-> "syscall", id |-> syscall_next_id]]
      BY <2>4, <3>2, Zenon DEF AttachesSyscall, links
    <3>3. CASE UNCHANGED <<instantiated_attach_links, frida_vars, syscall_vars>>
      BY <2>7, <3>3, Zenon DEF links
    <3> QED BY <2>7, <3>1, <3>2, <3>3, Zenon DEF instantiate_bpf_link_handler_at
  <2> QED BY <2>1, <2>2, <2>6, <2>7, Zenon DEF links
<1> QED BY <1>1, <1>2, <1>3, Zenon DEF instantiate_handler_at

\* A uprobe attach adds one user attach to what is live.
LEMMA UprobeGrows ==
  ASSUME HooksInv, LinksInv, NEW func \in Functions, NEW type \in AttachTypes, NEW id \in Slots, attach_at(func, type, id)
  PROVE  /\ live_entries \subseteq live_entries'
         /\ \A n \in live_entries : entries[n].user_attaches \subseteq entries'[n].user_attaches
         /\ \A n \in live_entries' : \A ua \in entries'[n].user_attaches :
              \/ n \in live_entries /\ ua \in entries[n].user_attaches /\ entries'[n].function = entries[n].function
              \/ ua.cb = id /\ ua.type = recorded_type(type) /\ entries'[n].function = func
         /\ \E n \in live_entries' : \E ua \in entries'[n].user_attaches : ua.cb = id
<1>1. FridaTypes
  BY Zenon DEF HooksInv
<1>2. PICK n \in Nat, e \in HookEntry, ua \in UserAttach : ua.cb = id /\ AttachedTo(n, e, ua, func, type)
  BY <1>1, AttachAt, Zenon
<1>3. /\ entries'[n].live = e.live /\ entries'[n].function = e.function
      /\ entries'[n].user_attaches = e.user_attaches \cup {ua}
  BY <1>2, Zenon DEF AttachedTo, Extended, HookEntry
<1>4. CASE func \notin DOMAIN internal_attaches
  <2>1. /\ n = Len(entries) + 1 /\ Len(entries') = n /\ e.live /\ e.function = func /\ e.user_attaches = {}
        /\ ua.type = recorded_type(type) /\ \A m \in 1..Len(entries) : entries'[m] = entries[m]
    <3>1. /\ n = Len(entries) + 1 /\ Len(entries') = n /\ e = new_entry(func, type) /\ ua.type = recorded_type(type)
          /\ \A m \in 1..Len(entries') : m # n => entries'[m] = entries[m]
      BY <1>2, <1>4, Zenon DEF AttachedTo
    <3>2. e.live /\ e.function = func /\ e.user_attaches = {}
      BY <3>1, Zenon DEF new_entry
    <3>3. \A k \in Nat : \A m \in 1..k : m \in 1..(k + 1) /\ m # k + 1
      OBVIOUS
    <3>4. Len(entries) \in Nat
      BY <1>1 DEF FridaTypes
    <3> QED BY <3>1, <3>2, <3>3, <3>4, Zenon
  <2>2. live_entries' = live_entries \cup {n} /\ n \notin live_entries /\ \A m \in live_entries : m \in 1..Len(entries)
    <3>1. Len(entries) \in Nat /\ Len(entries') = Len(entries) + 1
      BY <1>1, <2>1 DEF FridaTypes
    <3>2. n \notin 1..Len(entries) /\ 1..Len(entries') = 1..Len(entries) \cup {n}
      BY <2>1, <3>1
    <3>3. entries'[n].live
      BY <1>3, <2>1, Zenon
    <3> QED BY <2>1, <3>2, <3>3, Zenon DEF live_entries
  <2> QED BY <1>2, <1>3, <2>1, <2>2, Zenon
<1>5. CASE func \in DOMAIN internal_attaches
  <2>1. /\ n = internal_attaches[func] /\ Len(entries') = Len(entries) /\ e = entries[n]
        /\ ua.type = recorded_type(type) /\ \A m \in 1..Len(entries) : m # n => entries'[m] = entries[m]
    BY <1>1, <1>2, <1>5, Zenon DEF AttachedTo, FridaTypes
  <2>2. n \in live_entries /\ e.function = func
    BY <1>1, <1>5, <2>1, Zenon DEF LinksInv, FridaTypes
  <2>3. live_entries' = live_entries /\ \A m \in live_entries : m \in 1..Len(entries)
    BY <1>1, <1>3, <2>1, <2>2, Zenon DEF live_entries, FridaTypes
  <2> QED BY <1>2, <1>3, <2>1, <2>2, <2>3, Zenon
<1> QED BY <1>4, <1>5, Zenon

\* A step that attaches nothing.
Shrinks ==
  /\ \A n \in live_entries' : /\ n \in live_entries /\ entries'[n].function = entries[n].function
                              /\ entries'[n].user_attaches \subseteq entries[n].user_attaches
  /\ \A i \in DOMAIN attach_entries' : i \in DOMAIN attach_entries /\ attach_entries'[i] = attach_entries[i]

\* Every step but those of a scan attaches nothing, and only the constructor touches what was instantiated.
LEMMA OtherStepsShrink ==
  ASSUME AttachInv, [Next]_all_vars, ~ \E m \in Injections : init_attach_ctx_from_handlers(m)
  PROVE  Shrinks /\ handlers' = handlers /\ (ContextOfTable(now) => ContextOfTable(now)')
<1> DEFINE Same == UNCHANGED <<instantiated_handlers, instantiated_progs, instantiated_perf_events>>
<1>1. handlers' = handlers
  BY Zenon DEF Next, all_vars, bpftime_agent_main, bpftime_initialize_global_shm, add_pid_into_alive_agent_set, ctx_holder_init,
         detach_command, sigusr1_destroy_all, sigusr1_reset, traced_thread
<1>2. Same => (ContextOfTable(now) => ContextOfTable(now)')
  BY <1>1, ZenonT(40) DEF ContextOfTable, now
<1>3. CASE UNCHANGED attach_vars
  <2>1. Shrinks
    BY <1>3, Zenon DEF Shrinks, live_entries, attach_vars, frida_vars, syscall_vars
  <2> QED BY <1>1, <1>2, <1>3, <2>1, Zenon DEF attach_vars, ctx_vars
<1>4. CASE construct
  <2>1. Shrinks
    BY <1>4 DEF Shrinks, construct, set_to_global, live_entries
  <2>2. ContextOfTable(now)'
    BY <1>4 DEF construct, ContextOfTable, now
  <2> QED BY <1>1, <2>1, <2>2, Zenon
<1>5. CASE destroy_all_attach_links
  <2>1. PICK ids : detach_by_id(ids)
    BY <1>5, Zenon DEF destroy_all_attach_links
  <2>2. FridaTypes
    BY Zenon DEF AttachInv, HooksInv
  <2>3. /\ Len(entries') = Len(entries)
        /\ \A n \in 1..Len(entries) :
             \/ entries'[n] = entries[n]
             \/ n \in live_entries /\ entries'[n].function = entries[n].function
                /\ entries'[n].user_attaches = {ua \in entries[n].user_attaches : ua.self_id \notin ids}
    BY <2>1, <2>2, DetachById, Zenon
  <2>4. \A i \in DOMAIN attach_entries' : i \in DOMAIN attach_entries /\ attach_entries'[i] = attach_entries[i]
    BY <1>5, Zenon DEF destroy_all_attach_links, syscall_detach_by_id
  <2>5. Shrinks
    BY <2>3, <2>4, Zenon DEF Shrinks, live_entries
  <2> QED BY <1>1, <1>2, <1>5, <2>5, Zenon DEF destroy_all_attach_links
<1>6. CASE traced_thread
  <2>1. SameHooks /\ UNCHANGED attach_entries /\ Same
    BY <1>6, CallsAreSameHooks, Zenon DEF AttachInv, traced_thread, syscall_vars, ctx_vars
  <2>2. Shrinks
    BY <2>1, Zenon DEF SameHooks, Shrinks, live_entries
  <2> QED BY <1>1, <1>2, <2>1, <2>2, Zenon
<1> QED BY <1>3, <1>4, <1>5, <1>6, Zenon DEF Next, all_vars, bpftime_agent_main, bpftime_initialize_global_shm,
       add_pid_into_alive_agent_set, ctx_holder_init, detach_command, sigusr1_destroy_all, sigusr1_reset

\* What a slot of the scan does to what is attached: nothing, or it attaches the link in the slot.
LEMMA TableSlot ==
  ASSUME AttachInv, TableInv, handlers' = handlers, NEW id \in Slots, NEW result,
         UNCHANGED attach_vars \/ instantiate_handler_at(id, result)
  PROVE  TableInv'
<1>1. FridaTypes /\ HooksInv /\ LinksInv /\ AgentTypes /\ ContextInv
  BY Zenon DEF AttachInv, HooksInv
<1>2. CASE UNCHANGED attach_vars
  BY <1>2, ZenonT(40) DEF TableInv, ContextOfTable, now, UprobeOfTable, AttachOfTable, live_entries, attach_vars, frida_vars, syscall_vars, ctx_vars
<1>3. CASE instantiate_handler_at(id, result)
  <2>1. ContextOfTable(now)'
    BY <1>1, <1>3, SlotOfTable, Zenon DEF TableInv
  <2>2. CASE UNCHANGED <<frida_vars, syscall_vars, links>>
    BY <2>1, <2>2, Zenon DEF TableInv, UprobeOfTable, AttachOfTable, live_entries, frida_vars, syscall_vars
  <2>3. CASE AttachesUprobeOfTable(id)
    <3>1. PICK func \in Functions, type \in AttachTypes : attach_at(func, type, id) /\ UprobeOfTable(func, recorded_type(type), id)
      BY <2>3, Zenon DEF AttachesUprobeOfTable
    <3>2. \A n \in live_entries' : \A ua \in entries'[n].user_attaches :
              \/ n \in live_entries /\ ua \in entries[n].user_attaches /\ entries'[n].function = entries[n].function
              \/ ua.cb = id /\ ua.type = recorded_type(type) /\ entries'[n].function = func
      BY <1>1, <3>1, UprobeGrows, Zenon
    <3>3. attach_entries' = attach_entries
      BY <2>3, Zenon DEF AttachesUprobeOfTable, AttachesUprobe, syscall_vars
    <3>4. \A n \in live_entries' : \A ua \in entries'[n].user_attaches : UprobeOfTable(entries'[n].function, ua.type, ua.cb)
      BY <3>1, <3>2, Zenon DEF TableInv
    <3> QED BY <2>1, <3>3, <3>4, Zenon DEF TableInv, UprobeOfTable, AttachOfTable
  <2>4. CASE AttachesSyscall(id) /\ AttachOfTable(id)
    <3>1. entries' = entries /\ live_entries' = live_entries
      BY <2>4, Zenon DEF AttachesSyscall, frida_vars, live_entries
    <3>2. \A i \in DOMAIN attach_entries' : attach_entries'[i].cb = id \/ (i \in DOMAIN attach_entries /\ attach_entries'[i] = attach_entries[i])
      BY <2>4, SyscallEntries, Zenon
    <3> QED BY <2>1, <2>4, <3>1, <3>2, ZenonT(40) DEF TableInv, UprobeOfTable, AttachOfTable
  <2> QED BY <1>1, <1>3, <2>2, <2>3, <2>4, SlotOfTable, Zenon DEF TableInv
<1> QED BY <1>2, <1>3, Zenon

\* Every step with a fixed table keeps the attaches those of the table.
LEMMA TableInvKept ==
  ASSUME AttachInv, TableInv, [Next]_all_vars
  PROVE  TableInv'
<1>1. ASSUME NEW m \in Injections, init_attach_ctx_from_handlers(m) PROVE TableInv'
  <2>1. mains[m].id \in Slots
    BY <1>1, Zenon DEF AttachInv, AgentTypes, Main
  <2>2. PICK result : UNCHANGED attach_vars \/ instantiate_handler_at(mains[m].id, result)
    BY <1>1, Zenon DEF init_attach_ctx_from_handlers
  <2>3. handlers' = handlers
    BY <1>1, Zenon DEF init_attach_ctx_from_handlers
  <2> QED BY <2>1, <2>2, <2>3, TableSlot, Zenon
<1>2. CASE ~ \E m \in Injections : init_attach_ctx_from_handlers(m)
  <2>1. Shrinks /\ handlers' = handlers /\ ContextOfTable(now)'
    BY <1>2, OtherStepsShrink, Zenon DEF TableInv
  <2> QED BY <2>1, ZenonT(40) DEF TableInv, Shrinks, UprobeOfTable, AttachOfTable
<1> QED BY <1>1, <1>2, Zenon

\* What is attached, by link.
LEMMA AttachedMeans ==
  ASSUME NEW l
  PROVE  l \in attached <=> \/ \E n \in live_entries : \E ua \in entries[n].user_attaches : ua.cb = l
                            \/ \E i \in DOMAIN attach_entries : attach_entries[i].cb = l
<1>1. ASSUME NEW a \in live_attaches, a.cb = l
      PROVE  \/ \E n \in live_entries : \E ua \in entries[n].user_attaches : ua.cb = l
             \/ \E i \in DOMAIN attach_entries : attach_entries[i].cb = l
  <2>1. CASE \E n \in live_entries : \E ua \in entries[n].user_attaches : a = [entry |-> n, id |-> ua.self_id, cb |-> ua.cb]
    BY <1>1, <2>1
  <2>2. CASE \E i \in DOMAIN attach_entries : a = [entry |-> 0, id |-> i, cb |-> attach_entries[i].cb]
    BY <1>1, <2>2
  <2> QED BY <2>1, <2>2, Zenon DEF live_attaches
<1>2. ASSUME NEW n \in live_entries, NEW ua \in entries[n].user_attaches, ua.cb = l PROVE \E a \in live_attaches : a.cb = l
  <2>1. [entry |-> n, id |-> ua.self_id, cb |-> ua.cb] \in live_attaches
    <3>1. [entry |-> n, id |-> ua.self_id, cb |-> ua.cb] \in {[entry |-> n, id |-> u.self_id, cb |-> u.cb] : u \in entries[n].user_attaches}
      BY Zenon
    <3> QED BY <3>1, Zenon DEF live_attaches
  <2> QED BY <1>2, <2>1, Zenon
<1>3. ASSUME NEW i \in DOMAIN attach_entries, attach_entries[i].cb = l PROVE \E a \in live_attaches : a.cb = l
  <2>1. [entry |-> 0, id |-> i, cb |-> attach_entries[i].cb] \in live_attaches
    BY Zenon DEF live_attaches
  <2> QED BY <1>3, <2>1, Zenon
<1> QED BY <1>1, <1>2, <1>3, Zenon DEF attached

\* Whatever the table is: what an agent attaches runs a program that has loaded.
THEOREM AttachesRunLoadedPrograms ==
  Spec => []AttachedProgramsLoaded
<1>1. AgentInit => AttachInv /\ TableInv
  <2> SUFFICES ASSUME AgentInit PROVE AttachInv /\ TableInv
    BY Zenon
  <2>1. live_entries = {} /\ DOMAIN attach_entries = {} /\ ContextOfTable(now)
    BY DEF AgentInit, CtxInit, FridaInit, SyscallInit, live_entries, ContextOfTable, now
  <2> QED BY <2>1, AgentAtStart, Zenon DEF TableInv
<1>2. AttachInv /\ TableInv /\ [Next]_all_vars => (AttachInv /\ TableInv)'
  BY AttachInvKept, TableInvKept, Zenon
<1>3. TableInv => AttachedProgramsLoaded
  BY AttachedMeans, Zenon DEF TableInv, UprobeOfTable, AttachOfTable, AttachedProgramsLoaded
<1> QED BY <1>1, <1>2, <1>3, PTL DEF Spec

-----------------------------------------------------------------------------
(* A scan attaches all it can. *)

\* What is attached, by link, in the next state too.
AttachedIs ==
  \A l : l \in attached <=> \/ \E n \in live_entries : \E ua \in entries[n].user_attaches : ua.cb = l
                            \/ \E i \in DOMAIN attach_entries : attach_entries[i].cb = l

\* Which links are attached, in terms of the two implementations.
LEMMA AttachedIsAfter == AttachedIs /\ AttachedIs'
<1>1. AttachedIs
  BY AttachedMeans, Zenon DEF AttachedIs
<1> QED BY <1>1, PTL

\* An attach, through either implementation, adds the link to what is attached.
LEMMA AttachedGrows ==
  ASSUME AttachInv, NEW id \in Slots, AttachesUprobe(id) \/ AttachesSyscall(id)
  PROVE  attached' = attached \cup {id}
<1>1. HooksInv /\ LinksInv /\ ContextInv
  BY Zenon DEF AttachInv
<1>2. CASE AttachesUprobe(id)
  <2>1. PICK func \in Functions, type \in AttachTypes : attach_at(func, type, id)
    BY <1>2, Zenon DEF AttachesUprobe
  <2>2. attach_entries' = attach_entries
    BY <1>2, Zenon DEF AttachesUprobe, syscall_vars
  <2>3. /\ live_entries \subseteq live_entries'
        /\ \A n \in live_entries : entries[n].user_attaches \subseteq entries'[n].user_attaches
        /\ \A n \in live_entries' : \A ua \in entries'[n].user_attaches :
              (n \in live_entries /\ ua \in entries[n].user_attaches) \/ ua.cb = id
        /\ \E n \in live_entries' : \E ua \in entries'[n].user_attaches : ua.cb = id
    BY <1>1, <2>1, UprobeGrows
  <2> QED BY <2>2, <2>3, AttachedIsAfter DEF AttachedIs
<1>3. CASE AttachesSyscall(id)
  <2>1. entries' = entries /\ live_entries' = live_entries
    BY <1>3, Zenon DEF AttachesSyscall, frida_vars, live_entries
  <2>2. syscall_next_id \notin DOMAIN attach_entries
    BY <1>1 DEF ContextInv, SyscallInv
  <2>3. /\ DOMAIN attach_entries' = DOMAIN attach_entries \cup {syscall_next_id}
        /\ \A i \in DOMAIN attach_entries : attach_entries'[i] = attach_entries[i]
        /\ attach_entries'[syscall_next_id].cb = id
    BY <1>3, <2>2, SyscallEntries, Zenon
  <2>4. \A l : (\E i \in DOMAIN attach_entries' : attach_entries'[i].cb = l) <=>
               (\E i \in DOMAIN attach_entries : attach_entries[i].cb = l) \/ l = id
    BY <2>3, Zenon
  <2>5. \A l : l \in attached' <=> l \in attached \/ l = id
    BY <2>1, <2>4, AttachedIsAfter, Zenon DEF AttachedIs
  <2> QED BY <2>5, Zenon
<1> QED BY <1>2, <1>3, Zenon

\* No link that can be attached is refused.
LEMMA AttachableIsAccepted ==
  ASSUME AttachInv, TableInv, Orderly, NEW id \in Slots, id \notin instantiated_handlers, attachable(id),
         handlers[handlers[id].attach_target_id].type # "tracepoint"
  PROVE  LET target == handlers[handlers[id].attach_target_id]
         IN  ~refused(target.at, target.type) /\ ~throws(target.at, target.type)
<1> DEFINE target == handlers[handlers[id].attach_target_id]
<1>1. /\ target.type \in AttachTypes /\ target.at \notin Unmapped /\ target.at \notin Unhookable
      /\ \A other \in attached \ {id} :
           handlers[handlers[other].attach_target_id].type \in OverrideTypes =>
             handlers[handlers[other].attach_target_id].at # target.at
  BY Zenon DEF attachable, Registered
<1>2. ASSUME target.at \in DOMAIN internal_attaches, has_override(internal_attaches[target.at]) PROVE FALSE
  <2> DEFINE n == internal_attaches[target.at]
  <2>1. PICK ua \in entries[n].user_attaches : ua.type = "uprobe_override"
    BY <1>2, Zenon DEF has_override
  <2>2. n \in live_entries /\ entries[n].function = target.at /\ ua.cb \in DOMAIN links
    BY <1>2, <2>1, Zenon DEF AttachInv, HooksInv, FridaTypes, LinksInv
  <2>3. UprobeOfTable(entries[n].function, ua.type, ua.cb)
    BY <2>1, <2>2, Zenon DEF TableInv
  <2>4. ua.cb \in attached
    BY <2>1, <2>2, AttachedMeans, Zenon
  <2>5. ua.cb # id
    BY <2>2, Zenon DEF AttachInv, ContextInv, links
  <2> QED BY <1>1, <2>1, <2>2, <2>3, <2>4, <2>5, Zenon DEF UprobeOfTable
<1>3. ASSUME target.at \notin DOMAIN internal_attaches, NEW n \in live_entries, entries[n].function = target.at PROVE FALSE
  <2>1. PICK f \in DOMAIN internal_attaches : internal_attaches[f] = n
    BY <1>3, Zenon DEF Orderly, Hooked
  <2>2. entries[internal_attaches[f]].function = f
    BY <2>1, Zenon DEF AttachInv, LinksInv
  <2> QED BY <1>3, <2>1, <2>2, Zenon
<1> QED BY <1>1, <1>2, <1>3, Zenon DEF refused, throws

\* A slot of the scan: it attaches the link in it if that can be attached, and marks it as done only then.
LEMMA ScanSlot ==
  ASSUME AttachInv, TableInv, Orderly, DoneAreAttached, handlers' = handlers, NEW id \in Slots, NEW result,
         instantiate_handler_at(id, result)
  PROVE  /\ attached \subseteq attached' /\ attached' \subseteq attached \cup {id}
         /\ attachable(id) => id \in attached'
         /\ DoneAreAttached'
<1> DEFINE Quiet == UNCHANGED <<frida_vars, syscall_vars, instantiated_attach_links>>
           Grows == AttachesUprobe(id) \/ AttachesSyscall(id)
           NoNewLinks == \A l \in instantiated_handlers' : l \in instantiated_handlers \/ handlers[l].kind # "link"
<1>1. AgentTypes /\ ContextOfTable(now) /\ IsContext(now) /\ now.done = instantiated_handlers
  BY Zenon DEF AttachInv, TableInv, IsContext, now
<1>2. Quiet => attached' = attached
  <2>1. Quiet => entries' = entries /\ attach_entries' = attach_entries /\ live_entries' = live_entries
    BY Zenon DEF frida_vars, syscall_vars, live_entries
  <2>2. Quiet => \A l : l \in attached' <=> l \in attached
    BY <2>1, AttachedIsAfter, Zenon DEF AttachedIs
  <2> QED BY <2>2, Zenon
<1>3. ASSUME Quiet, NoNewLinks PROVE DoneAreAttached'
  BY <1>2, <1>3, Zenon DEF DoneAreAttached
<1>4. CASE already_instantiated(id)
  <2>1. UNCHANGED attach_vars
    BY <1>4, Zenon DEF instantiate_handler_at
  <2>2. Quiet /\ NoNewLinks
    BY <2>1, Zenon DEF attach_vars, ctx_vars
  <2>3. attachable(id) => id \in attached
    BY <1>4, Zenon DEF already_instantiated, DoneAreAttached, attachable
  <2> QED BY <1>2, <1>3, <2>2, <2>3, Zenon
<1>5. CASE ~already_instantiated(id) /\ handlers[id].kind # "link"
  <2>1. instantiated_handlers' = instantiated(now, id).done /\ Quiet
    BY <1>5, Zenon DEF instantiate_handler_at
  <2>2. NoNewLinks
    BY <1>1, <2>1, InstantiatesOfTable, Zenon DEF Instantiates
  <2> QED BY <1>2, <1>3, <1>5, <2>1, <2>2, Zenon DEF attachable
<1>6. CASE ~already_instantiated(id) /\ handlers[id].kind = "link"
  <2> DEFINE link == handlers[id]
             target == handlers[link.attach_target_id]
             c == needed_by_link(link)
             event == c.events[link.attach_target_id]
  <2>1. \/ c.err /\ instantiated_handlers' = c.done /\ Quiet
        \/ ~c.err /\ instantiate_bpf_link_handler_at(c, id, result)
    BY <1>6, Zenon DEF instantiate_handler_at
  <2>2. /\ \A l \in c.done : l \in instantiated_handlers \/ handlers[l].kind # "link"
        /\ ContextOfTable(c)
        /\ attachable(id) => ~c.err /\ link.prog_id \in c.progs /\ link.attach_target_id \in DOMAIN c.events
    BY <1>1, <1>6, NeededOfTable, Zenon DEF AgentTypes, attachable
  <2>3. id \notin instantiated_handlers
    BY <1>6, Zenon DEF already_instantiated
  <2>4. Quiet \/ Grows
    BY <1>1, SlotAttaches, Zenon DEF links
  <2> HIDE DEF c
  <2>5. ASSUME instantiated_handlers' = c.done, Quiet PROVE NoNewLinks
    BY <2>2, <2>5, Zenon
  <2>6. ASSUME instantiate_bpf_link_handler_at(c, id, result)
        PROVE  \/ result \in {"error", "throw"} /\ instantiated_handlers' = c.done /\ Quiet
               \/ result = "ok" /\ instantiated_handlers' = c.done \cup {id} /\ id \in DOMAIN instantiated_attach_links'
    BY <2>6, Zenon DEF instantiate_bpf_link_handler_at
  <2>7. ASSUME attachable(id) PROVE result = "ok" /\ ~c.err /\ instantiate_bpf_link_handler_at(c, id, result)
    <3>1. ~c.err /\ link.prog_id \in c.progs /\ link.attach_target_id \in DOMAIN c.events
      BY <2>2, <2>7, Zenon
    <3>2. event.type = target.type /\ event.at = target.at
      BY <2>2, <3>1, Zenon DEF ContextOfTable
    <3>3. event.type # "tracepoint" => ~refused(event.at, event.type) /\ ~throws(event.at, event.type)
      BY <2>3, <2>7, <3>2, AttachableIsAccepted, Zenon
    <3>4. event.type = "tracepoint" => ~syscall_refused(event.at)
      BY <2>7, <3>2, Zenon DEF attachable, syscall_refused
    <3>5. instantiate_bpf_link_handler_at(c, id, result)
      BY <2>1, <3>1, Zenon
    <3> HIDE DEF event
    <3> QED BY <3>1, <3>3, <3>4, <3>5, Zenon DEF instantiate_bpf_link_handler_at, event
  <2>8. DOMAIN instantiated_attach_links \subseteq instantiated_handlers
    BY Zenon DEF AttachInv, ContextInv
  <2>9. CASE Quiet
    <3>1. instantiated_handlers' = c.done /\ ~attachable(id)
      BY <2>1, <2>3, <2>6, <2>7, <2>8, <2>9, Zenon
    <3> QED BY <1>2, <1>3, <2>5, <2>9, <3>1, Zenon
  <2>10. CASE Grows
    <3>1. attached' = attached \cup {id}
      BY <2>10, AttachedGrows, Zenon
    <3>2. instantiated_handlers' \subseteq c.done \cup {id}
      BY <2>1, <2>6, Zenon
    <3>3. DoneAreAttached'
      BY <2>2, <3>1, <3>2, Zenon DEF DoneAreAttached
    <3> QED BY <3>1, <3>3, Zenon
  <2> QED BY <2>4, <2>9, <2>10, Zenon
<1> QED BY <1>4, <1>5, <1>6, Zenon

\* What can still be attached depends on the table and on what is attached, and more attaches leave less.
LEMMA AttachableShrinks ==
  ASSUME handlers' = handlers, attached \subseteq attached', NEW l
  PROVE  attachable(l)' => attachable(l)
BY Zenon DEF attachable

\* A step of an injection up to its scan, or of the rest of the process.
LEMMA FirstScanOther ==
  ASSUME AttachInv, FirstScan, handlers' = handlers, attached' = attached,
         UNCHANGED <<instantiated_handlers, pending, handling, early>>,
         \/ UNCHANGED <<mains, initialized>>
         \/ \E m \in Injections : bpftime_agent_main(m) \/ bpftime_initialize_global_shm(m) \/ add_pid_into_alive_agent_set(m)
  PROVE  FirstScan'
<1>1. /\ ~pending' /\ ~handling' /\ ~early' /\ DoneAreAttached'
      /\ \A l : attachable(l)' => attachable(l)
  BY AttachableShrinks, Zenon DEF FirstScan, DoneAreAttached
<1>2. CASE UNCHANGED <<mains, initialized>>
  BY <1>1, <1>2, Zenon DEF FirstScan, Past, Visited
<1>3. ASSUME NEW m \in Injections,
             bpftime_agent_main(m) \/ bpftime_initialize_global_shm(m) \/ add_pid_into_alive_agent_set(m)
      PROVE  FirstScan'
  <2>1. PICK pc \in {"open_shm", "skipped", "record_pid", "no_shm", "init_ctx"} :
          /\ goes_to(m, pc) /\ mains[m].pc \in {"not_called", "open_shm", "record_pid"}
          /\ \/ pc = "skipped" /\ initialized' = 1
             \/ pc # "skipped" /\ initialized' = 1 /\ initialized = 0
             \/ initialized' = initialized /\ Past(m)
    BY <1>3, Zenon DEF bpftime_agent_main, bpftime_initialize_global_shm, add_pid_into_alive_agent_set, Past
  <2>2. /\ mains'[m].pc = pc /\ mains'[m].id = mains[m].id /\ mains'[m].nv = mains[m].nv
        /\ \A k \in Injections : k # m => mains'[k] = mains[k]
    BY <2>1, Zenon DEF goes_to, AttachInv, AgentTypes, Main
  <2>3. /\ \A k \in Injections : Past(k)' => initialized' = 1
        /\ \A k, j \in Injections : Past(k)' /\ Past(j)' => k = j
    <3>1. \A k \in Injections : k # m => (Past(k)' <=> Past(k))
      BY <2>2, Zenon DEF Past
    <3>2. pc = "skipped" => ~Past(m)'
      BY <2>2, Zenon DEF Past
    <3>3. /\ \A k \in Injections : Past(k) => initialized = 1
          /\ \A k, j \in Injections : Past(k) /\ Past(j) => k = j
      BY Zenon DEF FirstScan
    <3>4. CASE pc = "skipped" /\ initialized' = 1
      BY <3>1, <3>2, <3>3, <3>4, Zenon
    <3>5. CASE initialized' = 1 /\ initialized = 0
      <4>1. \A k \in Injections : ~Past(k)
        BY <3>3, <3>5
      <4> QED BY <3>1, <3>5, <4>1, Zenon
    <3>6. CASE initialized' = initialized /\ Past(m)
      BY <3>1, <3>3, <3>6, Zenon
    <3> QED BY <2>1, <3>4, <3>5, <3>6, Zenon
  <2> QED BY <1>1, <2>1, <2>2, <2>3, ZenonT(40) DEF FirstScan, Visited
<1> QED BY <1>2, <1>3, Zenon

\* A pass that starts has visited nothing.
LEMMA FirstScanStarts ==
  ASSUME AttachInv, FirstScan, NEW m \in Injections, ctx_holder_init(m)
  PROVE  FirstScan'
<1>1. /\ mains[m].pc = "init_ctx" /\ goes_to(m, "scan") /\ instantiated_handlers' = {}
      /\ UNCHANGED <<handlers, initialized, pending, handling, early>>
  BY Zenon DEF ctx_holder_init, construct
<1>2. /\ mains'[m].pc = "scan" /\ mains'[m].id = mains[m].id /\ mains'[m].nv = mains[m].nv
      /\ \A k \in Injections : k # m => mains'[k] = mains[k]
  BY <1>1, Zenon DEF goes_to, AttachInv, AgentTypes, Main
<1>3. \A k \in Injections : k # m => ~Past(k)
  BY <1>1, Zenon DEF FirstScan, Past
<1>4. \A l \in Slots : ~Visited(mains'[m], l)
  <2>1. mains'[m].id = 0 /\ ~mains'[m].nv
    BY <1>1, <1>2, Zenon DEF FirstScan
  <2>2. \A l \in Slots : ~(l < 0)
    <3>1. \A l \in Nat : ~(l < 0)
      OBVIOUS
    <3> QED BY <3>1, SlotsAssumption, Zenon
  <2> QED BY <2>1, <2>2, Zenon DEF Visited
<1> QED BY <1>1, <1>2, <1>3, <1>4, Zenon DEF FirstScan, Past, DoneAreAttached

\* A pass that goes on has attached what it visited and could attach.
LEMMA FirstScanGoesOn ==
  ASSUME AttachInv, TableInv, DetachInv, FirstScan, NEW m \in Injections, init_attach_ctx_from_handlers(m)
  PROVE  FirstScan'
<1> DEFINE s == mains[m]
<1>1. s.pc = "scan" /\ s.id \in Slots /\ s.nv \in BOOLEAN /\ s \in Main
      /\ UNCHANGED <<handlers, initialized, pending, handling, early>>
  BY Zenon DEF init_attach_ctx_from_handlers, AttachInv, AgentTypes, Main
<1>2. PICK result \in {"ok", "error", "throw"} :
        /\ IF handlers[s.id].kind = "unused" THEN UNCHANGED attach_vars ELSE instantiate_handler_at(s.id, result)
        /\ mains' = [mains EXCEPT ![m] = after_slot(s, result)]
  BY Zenon DEF init_attach_ctx_from_handlers
<1>3. Orderly /\ DoneAreAttached
  BY Zenon DEF DetachInv, FirstScan
<1>4. /\ attached \subseteq attached' /\ attached' \subseteq attached \cup {s.id}
      /\ attachable(s.id) => s.id \in attached'
      /\ DoneAreAttached'
  <2>1. CASE handlers[s.id].kind = "unused"
    <3>1. UNCHANGED attach_vars
      BY <1>2, <2>1, Zenon
    <3>2. attached' = attached /\ instantiated_handlers' = instantiated_handlers
      BY <3>1, AttachesSame, Zenon DEF attached, attach_vars, ctx_vars
    <3> QED BY <1>1, <1>3, <2>1, <3>2, Zenon DEF attachable, DoneAreAttached
  <2>2. CASE handlers[s.id].kind # "unused"
    BY <1>1, <1>2, <1>3, <2>2, ScanSlot, Zenon
  <2> QED BY <2>1, <2>2, Zenon
<1>5. \A l \in Slots : (Visited(s, l) \/ l = s.id) /\ attachable(l)' => l \in attached'
  BY <1>1, <1>4, AttachableShrinks, Zenon DEF FirstScan
<1>6. \A l \in Slots : l \in Nat /\ (s.id + 1 \notin Slots => l < s.id \/ l = s.id)
  BY <1>1, SlotsAssumption
<1>7. mains'[m] = after_slot(s, result) /\ \A k \in Injections : k # m => mains'[k] = mains[k]
  BY <1>2, Zenon DEF AttachInv, AgentTypes
<1>8. \A k \in Injections : k # m => ~Past(k)
  BY <1>1, Zenon DEF FirstScan, Past
<1> HIDE DEF s
<1>9. /\ after_slot(s, result).pc \in {"scan", "attached", "aborted"}
      /\ after_slot(s, result).pc = "scan" =>
           \A l \in Slots : Visited(after_slot(s, result), l) => Visited(s, l) \/ l = s.id
      /\ after_slot(s, result).pc = "attached" => \A l \in Slots : Visited(s, l) \/ l = s.id
  <2>1. CASE result = "throw"
    <3>1. after_slot(s, result).pc = "aborted"
      BY <1>1, <2>1, Zenon DEF after_slot, Main
    <3> QED BY <3>1, Zenon
  <2>2. CASE result # "throw" /\ s.id + 1 \in Slots
    <3>1. after_slot(s, result) = [pc |-> "scan", id |-> s.id + 1, nv |-> s.nv]
      BY <1>1, <2>2, Zenon DEF after_slot, Main
    <3>2. \A l \in Slots : l < s.id + 1 => l < s.id \/ l = s.id
      BY <1>1, <1>6
    <3> QED BY <3>1, <3>2 DEF Visited
  <2>3. CASE result # "throw" /\ s.id + 1 \notin Slots /\ ~s.nv
    <3>1. after_slot(s, result).pc = "scan"
      BY <1>1, <2>3, Zenon DEF after_slot, Main
    <3> QED BY <1>6, <2>3, <3>1, Zenon DEF Visited
  <2>4. CASE result # "throw" /\ s.id + 1 \notin Slots /\ s.nv
    <3>1. after_slot(s, result).pc = "attached"
      BY <1>1, <2>4, Zenon DEF after_slot, Main
    <3> QED BY <2>4, <3>1, Zenon DEF Visited
  <2> QED BY <2>1, <2>2, <2>3, <2>4, Zenon
<1>10. initialized' = 1
  BY <1>1, Zenon DEF FirstScan, Past, s
<1> QED BY <1>1, <1>4, <1>5, <1>7, <1>8, <1>9, <1>10, ZenonT(40) DEF FirstScan, Past

\* Every step keeps what the passes before the first detach have attached.
LEMMA ScanInvKept ==
  ASSUME AttachInv, TableInv, DetachInv, ScanInv, [Next]_all_vars
  PROVE  ScanInv'
<1>1. CASE detach_command
  BY <1>1 DEF detach_command, ScanInv
<1>2. CASE ~detach_command
  <2>1. detaches' = detaches
    BY <1>2, Zenon DEF Next, all_vars, agent_vars, bpftime_agent_main, bpftime_initialize_global_shm, add_pid_into_alive_agent_set,
                ctx_holder_init, init_attach_ctx_from_handlers, sigusr1_destroy_all, sigusr1_reset, traced_thread
  <2> SUFFICES ASSUME FirstScan PROVE FirstScan'
    BY <2>1, Zenon DEF ScanInv
  <2>2. ~sigusr1_destroy_all /\ ~sigusr1_reset
    BY Zenon DEF FirstScan, sigusr1_destroy_all, sigusr1_reset
  <2>3. ASSUME UNCHANGED attach_vars PROVE attached' = attached /\ instantiated_handlers' = instantiated_handlers
    BY <2>3, AttachesSame, Zenon DEF attached, attach_vars, ctx_vars
  <2>4. ASSUME NEW m \in Injections, bpftime_agent_main(m) PROVE FirstScan'
    <3>1. UNCHANGED <<handlers, attach_vars, pending, handling>> /\ early' = early
      BY <2>4, Zenon DEF bpftime_agent_main, FirstScan, DetachInv
    <3> QED BY <2>3, <2>4, <3>1, FirstScanOther, Zenon
  <2>5. ASSUME NEW m \in Injections, bpftime_initialize_global_shm(m) \/ add_pid_into_alive_agent_set(m) PROVE FirstScan'
    <3>1. UNCHANGED <<handlers, attach_vars, pending, handling, early>>
      BY <2>5, Zenon DEF bpftime_initialize_global_shm, add_pid_into_alive_agent_set
    <3> QED BY <2>3, <2>5, <3>1, FirstScanOther, Zenon
  <2>6. CASE UNCHANGED all_vars
    BY <2>3, <2>6, FirstScanOther, Zenon DEF all_vars, agent_vars
  <2>7. CASE traced_thread
    <3>1. /\ UNCHANGED <<handlers, instantiated_handlers, pending, handling, early, mains, initialized>>
          /\ UNCHANGED <<attach_entries, links>> /\ SameHooks
      BY <2>7, CallsAreSameHooks, Zenon DEF AttachInv, traced_thread, syscall_vars, ctx_vars, agent_vars, links
    <3>2. attached' = attached
      BY <3>1, LinksSame, Zenon DEF AttachInv, attached
    <3> QED BY <3>1, <3>2, FirstScanOther, Zenon
  <2> QED BY <1>2, <2>2, <2>4, <2>5, <2>6, <2>7, FirstScanStarts, FirstScanGoesOn, Zenon DEF Next
<1> QED BY <1>1, <1>2, Zenon

\* Whatever the table is, and wherever the handlers are in it that cannot be instantiated: an injection that has run
\* both passes to the end has attached every link that can be attached, unless a detach came in between.
THEOREM ScansAttachAll ==
  Spec => []ScanComplete
<1> DEFINE Inv == AttachInv /\ TableInv /\ DetachInv /\ ScanInv
<1>1. AgentInit => Inv
  <2> SUFFICES ASSUME AgentInit PROVE Inv
    BY Zenon
  <2>1. live_entries = {} /\ DOMAIN attach_entries = {} /\ ContextOfTable(now)
    BY DEF AgentInit, CtxInit, FridaInit, SyscallInit, live_entries, ContextOfTable, now
  <2>2. TableInv
    BY <2>1, Zenon DEF TableInv
  <2>3. \A m \in Injections : mains[m].pc = "not_called" /\ mains[m].id = 0 /\ ~mains[m].nv
    BY Zenon DEF AgentInit
  <2>4. DoneAreAttached /\ ~pending /\ ~handling /\ ~early /\ detaches = 0
    BY Zenon DEF AgentInit, CtxInit, DoneAreAttached
  <2>5. ScanInv
    BY <2>3, <2>4, Zenon DEF ScanInv, FirstScan, Past
  <2> QED BY <2>2, <2>5, AgentAtStart, Zenon
<1>2. Inv /\ [Next]_all_vars => Inv'
  BY AttachInvKept, TableInvKept, DetachInvKept, ScanInvKept, Zenon
<1>3. Inv => ScanComplete
  BY Zenon DEF ScanInv, FirstScan, ScanComplete
<1> QED BY <1>1, <1>2, <1>3, PTL DEF Spec

=============================================================================
