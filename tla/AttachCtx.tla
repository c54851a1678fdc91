----------------------------- MODULE AttachCtx -----------------------------
(***************************************************************************)
(* bpf_attach_ctx (attach/bpf_attach_ctx.cpp): what an agent makes of the  *)
(* handlers in the shared table.  Programs are loaded, perf events are     *)
(* turned into attach arguments, and links become attaches in one of the   *)
(* two attach implementations.                                             *)
(*                                                                         *)
(* The table is only read here.  It is any table the loader can leave      *)
(* behind: the program of a link is a program (LinkProgLive of             *)
(* HandlerManager), while its target may be any handler.                   *)
(***************************************************************************)
EXTENDS FridaAttach, SyscallTraceAttach

CONSTANTS Slots,         \* 0 .. size - 1
          Tables         \* the handler tables to start from

ASSUME SlotsAssumption == 0 \in Slots /\ \A s \in Slots : s \in Nat /\ 0..s \subseteq Slots

\* The program of a link is a program, its target is a slot (add_bpf_link checks the first and takes
\* the second on trust), and a uprobe is at a function.
ASSUME TablesAssumption ==
  \A h \in Tables, s \in Slots :
    /\ h[s].kind = "link" => /\ h[s].prog_id \in Slots /\ h[s].attach_target_id \in Slots
                             /\ h[h[s].prog_id].kind = "prog"
    /\ h[s].kind = "perf" /\ h[s].type \in AttachTypes => h[s].at \in Functions

VARIABLES handlers,                   \* the table
          instantiated_handlers,      \* ids that need no further work
          instantiated_progs,         \* ids with a bpftime_prog object, loaded or not
          instantiated_perf_events,   \* id |-> [type, at]
          instantiated_attach_links   \* link id |-> [impl, id]

ctx_vars == <<instantiated_handlers, instantiated_progs, instantiated_perf_events, instantiated_attach_links>>
attach_vars == <<frida_vars, syscall_vars, ctx_vars>>

Registered == AttachTypes \cup {"tracepoint"}

CtxInit ==
  /\ handlers \in Tables
  /\ instantiated_handlers = {}
  /\ instantiated_progs = {}
  /\ instantiated_perf_events = << >>
  /\ instantiated_attach_links = << >>
  /\ FridaInit
  /\ SyscallInit

\* A context constructed in place, with new attach implementations registered.  Nothing destroys
\* what the storage held: the hook entries of an earlier implementation stay alive.
construct ==
  /\ instantiated_handlers' = {}
  /\ instantiated_progs' = {}
  /\ instantiated_perf_events' = << >>
  /\ instantiated_attach_links' = << >>
  /\ fresh_impl
  /\ set_to_global
  /\ UNCHANGED <<entries, calls>>

\* The part of the context that instantiating a program or an event changes, with the outcome.
now == [done |-> instantiated_handlers, progs |-> instantiated_progs, events |-> instantiated_perf_events, err |-> FALSE]

instantiate_prog_handler_at(c, id) ==
  IF handlers[id].loads THEN [c EXCEPT !.progs = @ \cup {id}, !.done = @ \cup {id}]
  ELSE [c EXCEPT !.progs = @ \cup {id}, !.err = TRUE]

instantiate_perf_event_handler_at(c, id) ==
  CASE handlers[id].type = "software" -> c
    [] handlers[id].type # "software" /\ (handlers[id].type \notin Registered \/ ~handlers[id].parses) -> [c EXCEPT !.err = TRUE]
    [] OTHER -> [c EXCEPT !.done = @ \cup {id},
                          !.events = [i \in DOMAIN @ \cup {id} |-> IF i = id THEN [type |-> handlers[id].type, at |-> handlers[id].at] ELSE @[i]]]

\* instantiate_handler_at for anything but a link.
instantiated(c, id) ==
  CASE id \in c.done                -> c
    [] id \notin c.done /\ handlers[id].kind = "prog" -> instantiate_prog_handler_at(c, id)
    [] id \notin c.done /\ handlers[id].kind = "perf" -> instantiate_perf_event_handler_at(c, id)
    [] OTHER                        -> c

\* Mutant: the error of the program is overlooked, its object is there all the same.
needed_by_link_any_prog(link) == instantiated([instantiated(now, link.prog_id) EXCEPT !.err = FALSE], link.attach_target_id)

\* The program, and then the target; an error of the first ends it.
needed_by_link(link) ==
  LET p == instantiated(now, link.prog_id)
  IN  IF p.err THEN p ELSE instantiated(p, link.attach_target_id)

keeps(c) ==
  /\ instantiated_progs' = c.progs
  /\ instantiated_perf_events' = c.events

\* instantiate_bpf_link_handler_at, ending in `result'.  A target that is not an instantiated
\* event (a software event, a map) has attach type 0, which is not registered.
instantiate_bpf_link_handler_at(c, id, result) ==
  LET link       == handlers[id]
      registered == link.attach_target_id \in DOMAIN c.events
      event      == c.events[link.attach_target_id]
      uprobe     == registered /\ event.type # "tracepoint"
      no_prog    == link.prog_id \notin c.progs
      refuses    == IF uprobe THEN refused(event.at, event.type) ELSE syscall_refused(event.at)
  IN  \/ /\ result = "error"
         /\ IF registered THEN ~no_prog /\ refuses ELSE TRUE
         /\ instantiated_handlers' = c.done
         /\ UNCHANGED <<instantiated_attach_links, frida_vars, syscall_vars>>
      \/ /\ result = "throw"
         /\ registered
         /\ IF uprobe /\ ~no_prog THEN ~refuses /\ throws(event.at, event.type) ELSE no_prog
         /\ instantiated_handlers' = c.done
         /\ UNCHANGED <<instantiated_attach_links, frida_vars, syscall_vars>>
      \/ /\ result = "ok"
         /\ registered /\ ~no_prog
         /\ \/ uprobe /\ attach_at(event.at, event.type, id) /\ UNCHANGED syscall_vars
            \/ ~uprobe /\ create_syscall_attach(event.at, id) /\ UNCHANGED frida_vars
         /\ instantiated_attach_links' =
              [i \in DOMAIN instantiated_attach_links \cup {id} |->
                 IF i # id THEN instantiated_attach_links[i]
                 ELSE IF uprobe THEN [impl |-> "frida", id |-> next_id] ELSE [impl |-> "syscall", id |-> syscall_next_id]]
         /\ instantiated_handlers' = c.done \cup {id}

\* Mutant: links are instantiated again by the second pass.
already_instantiated_not_links(id) == id \in instantiated_handlers /\ handlers[id].kind # "link"

already_instantiated(id) == id \in instantiated_handlers

\* instantiate_handler_at for slot id, ending in `result'.
instantiate_handler_at(id, result) ==
  \/ /\ already_instantiated(id)
     /\ result = "ok"
     /\ UNCHANGED attach_vars
  \/ /\ ~already_instantiated(id)
     /\ handlers[id].kind # "link"
     /\ LET c == instantiated(now, id)
        IN  /\ result = IF c.err THEN "error" ELSE "ok"
            /\ keeps(c)
            /\ instantiated_handlers' = c.done
     /\ UNCHANGED <<instantiated_attach_links, frida_vars, syscall_vars>>
  \/ /\ ~already_instantiated(id)
     /\ handlers[id].kind = "link"
     /\ LET c == needed_by_link(handlers[id])
        IN  /\ keeps(c)
            /\ \/ /\ c.err
                  /\ result = "error"
                  /\ instantiated_handlers' = c.done
                  /\ UNCHANGED <<instantiated_attach_links, frida_vars, syscall_vars>>
               \/ ~c.err /\ instantiate_bpf_link_handler_at(c, id, result)

attach_ids(impl, links) == {instantiated_attach_links[l].id : l \in {k \in links : instantiated_attach_links[k].impl = impl}}

\* Mutant: the links of the syscall tracer are skipped.
links_to_detach_frida_only == {l \in DOMAIN instantiated_attach_links : instantiated_attach_links[l].impl = "frida"}

links_to_detach == DOMAIN instantiated_attach_links

\* destroy_all_attach_links; the ids were handed out by the implementations, so no detach fails.
destroy_all_attach_links ==
  /\ detach_by_id(attach_ids("frida", links_to_detach))
  /\ syscall_detach_by_id(attach_ids("syscall", links_to_detach))
  /\ instantiated_attach_links' = [l \in DOMAIN instantiated_attach_links \ links_to_detach |-> instantiated_attach_links[l]]
  /\ UNCHANGED <<instantiated_handlers, instantiated_progs, instantiated_perf_events>>

-----------------------------------------------------------------------------

\* Every attach of the two implementations belongs to exactly one link the context knows, and is
\* there to be detached: what destroy_all_attach_links walks is what is attached.
LinksAreAttaches ==
  /\ attach_ids("frida", DOMAIN instantiated_attach_links) = DOMAIN attaches
  /\ attach_ids("syscall", DOMAIN instantiated_attach_links) = DOMAIN attach_entries
  /\ \A k, l \in DOMAIN instantiated_attach_links :
       instantiated_attach_links[k] = instantiated_attach_links[l] => k = l

\* What is live in the process: the user attaches of hook entries, made by this context or an earlier
\* one, and the entries of the syscall tracer.
live_attaches ==
  (UNION {{[entry |-> n, id |-> ua.self_id, cb |-> ua.cb] : ua \in entries[n].user_attaches} : n \in live_entries})
    \cup {[entry |-> 0, id |-> i, cb |-> attach_entries[i].cb] : i \in DOMAIN attach_entries}

\* The links it was attached for.
attached == {a.cb : a \in live_attaches}
=============================================================================
