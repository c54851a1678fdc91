------------------------------- MODULE Agent -------------------------------
(***************************************************************************)
(* The agent in one traced process (runtime/agent/agent.cpp): it opens the *)
(* shared memory, records its pid, constructs the attach context in static *)
(* storage and instantiates the handlers; `bpftime detach' sends SIGUSR1   *)
(* to every recorded pid, and the signal handler takes the attaches down   *)
(* and lets the agent be injected again.                                   *)
(*                                                                         *)
(* Injections run on threads of their own, so a signal can be handled      *)
(* between any two of their steps, and after it a further injection can    *)
(* run beside one that has not finished.  One slot of the handler table is *)
(* one step: the handler reads nothing an unfinished slot has half done.   *)
(***************************************************************************)
EXTENDS AttachCtx

CONSTANTS MaxInjections,   \* calls of bpftime_agent_main
          MaxDetaches      \* runs of `bpftime detach'

VARIABLES injected_with_frida,
          initialized,      \* the compare-and-swap word: 0 or 1
          mains,            \* injection |-> [pc, id, nv]
          alive,            \* this pid is in the alive agent set
          constructed,      \* ctx_holder.init() has run at least once
          pending,          \* SIGUSR1 is pending
          handling,         \* the signal handler is between its two halves
          detaches,
          crashed,
          early             \* history: the signal handler ran while an injection was under way

agent_vars == <<injected_with_frida, initialized, mains, alive, constructed, pending, handling, detaches, crashed, early>>
all_vars == <<handlers, attach_vars, agent_vars>>

Injections == 1..MaxInjections
Finished == {"not_called", "skipped", "no_shm", "attached", "aborted"}
idle == \A m \in Injections : mains[m].pc \in Finished

AgentInit ==
  /\ CtxInit
  /\ injected_with_frida \in BOOLEAN
  /\ initialized = 0
  /\ mains = [m \in Injections |-> [pc |-> "not_called", id |-> 0, nv |-> FALSE]]
  /\ alive = FALSE /\ constructed = FALSE /\ pending = FALSE /\ handling = FALSE
  /\ detaches = 0
  /\ crashed = FALSE /\ early = FALSE

goes_to(m, pc) == mains' = [mains EXCEPT ![m].pc = pc]

\* bpftime_agent_main is called: only one call gets past the compare-and-swap.
bpftime_agent_main(m) ==
  /\ mains[m].pc = "not_called"
  /\ \A k \in 1..(m - 1) : mains[k].pc # "not_called"
  /\ goes_to(m, IF initialized = 0 THEN "open_shm" ELSE "skipped")
  /\ initialized' = 1
  /\ early' = (early \/ (handling /\ initialized = 0))
  /\ UNCHANGED <<handlers, attach_vars, injected_with_frida, alive, constructed, pending, handling, detaches, crashed>>

\* bpftime_initialize_global_shm(SHM_OPEN_ONLY); its failure leaves `initialized' set.
bpftime_initialize_global_shm(m) ==
  /\ mains[m].pc = "open_shm"
  /\ \E pc \in {"record_pid", "no_shm"} : goes_to(m, pc)
  /\ UNCHANGED <<handlers, attach_vars, injected_with_frida, initialized, alive, constructed, pending, handling, detaches, crashed, early>>

add_pid_into_alive_agent_set(m) ==
  /\ mains[m].pc = "record_pid"
  /\ alive' = (alive \/ injected_with_frida)
  /\ goes_to(m, "init_ctx")
  /\ UNCHANGED <<handlers, attach_vars, injected_with_frida, initialized, constructed, pending, handling, detaches, crashed, early>>

ctx_holder_init(m) ==
  /\ mains[m].pc = "init_ctx"
  /\ construct
  /\ constructed' = TRUE
  /\ goes_to(m, "scan")
  /\ UNCHANGED <<handlers, injected_with_frida, initialized, alive, pending, handling, detaches, crashed, early>>

\* Mutant: a handler that cannot be instantiated ends the pass it is met in.
after_slot_stops_on_error(s, result) ==
  CASE result = "throw" -> [s EXCEPT !.pc = "aborted"]
    [] result = "error" /\ ~s.nv -> [s EXCEPT !.id = 0, !.nv = TRUE]
    [] result = "ok" /\ s.id + 1 \in Slots -> [s EXCEPT !.id = @ + 1]
    [] result = "ok" /\ s.id + 1 \notin Slots /\ ~s.nv -> [s EXCEPT !.id = 0, !.nv = TRUE]
    [] OTHER -> [s EXCEPT !.pc = "attached"]

\* Where the two passes over the table go after slot s.id: on, whatever its error; but an
\* exception is caught in bpftime_agent_main, outside both loops.
after_slot(s, result) ==
  CASE result = "throw" -> [s EXCEPT !.pc = "aborted"]
    [] result # "throw" /\ s.id + 1 \in Slots -> [s EXCEPT !.id = @ + 1]
    [] result # "throw" /\ s.id + 1 \notin Slots /\ ~s.nv -> [s EXCEPT !.id = 0, !.nv = TRUE]
    [] OTHER -> [s EXCEPT !.pc = "attached"]

\* One slot of init_attach_ctx_from_handlers.
init_attach_ctx_from_handlers(m) ==
  /\ mains[m].pc = "scan"
  /\ \E result \in {"ok", "error", "throw"} :
       /\ IF handlers[mains[m].id].kind = "unused" THEN result = "ok" /\ UNCHANGED attach_vars
          ELSE instantiate_handler_at(mains[m].id, result)
       /\ mains' = [mains EXCEPT ![m] = after_slot(@, result)]
  /\ UNCHANGED <<handlers, injected_with_frida, initialized, alive, constructed, pending, handling, detaches, crashed, early>>

\* `bpftime detach': SIGUSR1 to every pid in the alive set.
detach_command ==
  /\ alive /\ detaches < MaxDetaches
  /\ pending' = TRUE
  /\ detaches' = detaches + 1
  /\ UNCHANGED <<handlers, attach_vars, injected_with_frida, initialized, mains, alive, constructed, handling, crashed, early>>

\* sig_handler_sigusr1_detach, first half.  Before the first ctx_holder.init() the storage is all
\* zeroes, which is no std::map: walking it dereferences a null pointer.
sigusr1_destroy_all ==
  /\ pending /\ ~handling
  /\ pending' = FALSE
  /\ early' = (early \/ ~idle)
  /\ IF constructed THEN destroy_all_attach_links /\ handling' = TRUE /\ UNCHANGED crashed
     ELSE crashed' = TRUE /\ UNCHANGED <<attach_vars, handling>>
  /\ UNCHANGED <<handlers, injected_with_frida, initialized, mains, alive, constructed, detaches>>

\* sig_handler_sigusr1_detach, second half.
sigusr1_reset ==
  /\ handling
  /\ handling' = FALSE
  /\ alive' = FALSE
  /\ initialized' = 0
  /\ early' = (early \/ ~idle)
  /\ UNCHANGED <<handlers, attach_vars, injected_with_frida, mains, constructed, pending, detaches, crashed>>

traced_thread ==
  /\ call_step
  /\ UNCHANGED <<handlers, syscall_vars, ctx_vars, agent_vars>>

Next ==
  /\ ~crashed
  /\ \/ \E m \in Injections :
          \/ bpftime_agent_main(m)
          \/ bpftime_initialize_global_shm(m)
          \/ add_pid_into_alive_agent_set(m)
          \/ ctx_holder_init(m)
          \/ init_attach_ctx_from_handlers(m)
     \/ detach_command
     \/ sigusr1_destroy_all
     \/ sigusr1_reset
     \/ traced_thread

Spec == AgentInit /\ [][Next]_all_vars

\* The loader changes the table while agents use it (the table has no lock): between two slots of a
\* pass, or two injections, the agent may find any other table.
loader_changes_table ==
  /\ handlers' \in Tables
  /\ UNCHANGED <<attach_vars, agent_vars>>

SharedTableSpec == AgentInit /\ [][Next \/ loader_changes_table]_all_vars

\* A pending signal is handled.  No injection needs to go on for that.
Fairness == WF_all_vars(~crashed /\ (sigusr1_destroy_all \/ sigusr1_reset))

FairSpec == Spec /\ Fairness

-----------------------------------------------------------------------------

\* The handlers that init_attach_ctx_from_handlers can turn into an attach in this process: the
\* program loads, the event is registered and parses, and the place exists and can be hooked.
attachable(link) ==
  /\ handlers[link].kind = "link"
  /\ handlers[handlers[link].prog_id].loads
  /\ LET target == handlers[handlers[link].attach_target_id]
     IN  /\ target.kind = "perf" /\ target.type \in Registered /\ target.parses
         /\ IF target.type = "tracepoint" THEN target.at.sys_nr \in SysNrs \cup {EverySyscall}
            ELSE /\ target.at \notin Unmapped \cup Unhookable
                 /\ \A other \in attached \ {link} :
                      LET t == handlers[handlers[other].attach_target_id]
                      IN  t.type \in OverrideTypes => t.at # target.at

\* "Unable to instantiate handler may not be an error. We can continue trying to instantiate other
\* handlers" (init_attach_ctx_from_handlers): once both passes of an injection are over, every handler
\* that can be attached is attached, unless a detach came in between.  A handler that cannot be
\* instantiated, a link in front of its program, and a shared function change nothing for the rest.
\* An injection that ended in an exception ("aborted") has skipped the handlers behind the one that threw.
ScanComplete ==
  detaches = 0 /\ (\E m \in Injections : mains[m].pc = "attached") =>
    \A link \in Slots : attachable(link) => link \in attached

\* Nothing is attached without a loaded program (instantiate_prog_handler_at keeps the object of a
\* program that failed to load, and the link must not use it).
AttachedProgramsLoaded == \A link \in attached : handlers[handlers[link].prog_id].loads

\* "Detach all attached agents" (tools/README.md, bpftime detach): a process injected through frida
\* that has something attached, with no injection under way, is in the set the command walks.
AttachedIsDetachable == injected_with_frida /\ idle /\ ~handling /\ attached # {} => alive

\* AttachedIsDetachable when the signal handler never overlapped an injection, and then also: a process
\* that the set has lost has nothing attached, not even by a context that was constructed over,
\* and no link is attached twice over any number of injections and detaches.
DetachIsComplete ==
  ~early =>
    /\ AttachedIsDetachable
    /\ initialized = 0 => attached = {}
    /\ \A a, b \in live_attaches : a.cb = b.cb => a = b

\* A process that `bpftime detach' signalled gets rid of its attaches (or the signal met an
\* injection under way, which leaves some behind or kills the process).
SignalDetaches == pending ~> (attached = {} \/ early)
=============================================================================
