---------------------------- MODULE FridaAttach ----------------------------
(***************************************************************************)
(* The uprobe attach implementation (frida_uprobe_attach_impl.cpp and      *)
(* frida_internal_attach_entry.cpp) in one traced process, and the threads *)
(* of that process that call a function it has replaced.                   *)
(*                                                                         *)
(* One hook entry per function stands for the function's instrumentation;  *)
(* the user attaches of the function hang off it, a set here because       *)
(* nothing depends on their order.  Hook entries are heap objects: they    *)
(* are numbered, and stay in `entries' with live = FALSE after their       *)
(* destructor, so that a thread which still holds a pointer to one can be  *)
(* told from a thread that does not.                                       *)
(*                                                                         *)
(* external: the gum interceptor, which may refuse to instrument a         *)
(* function and refuses to replace a function that is replaced already.    *)
(***************************************************************************)
EXTENDS Naturals, Sequences, FiniteSets

CONSTANTS Functions,
          Unmapped,      \* functions whose module this process does not map
          Unhookable,    \* functions gum cannot instrument
          Threads,       \* threads that call replaced functions
          RetVals        \* return values a program may override with

CONSTANT Original        \* what a call returns when nothing overrides it

VARIABLES entries,            \* every frida_internal_attach_entry ever constructed
          internal_attaches,  \* function |-> number of its hook entry
          attaches,           \* attach id |-> function
          next_id,
          calls               \* what each thread does inside override_handler

frida_vars == <<entries, internal_attaches, attaches, next_id, calls>>

OverrideTypes == {"uprobe_override", "ureplace"}
AttachTypes == OverrideTypes \cup {"uprobe", "uretprobe"}

\* The implementation's own maps; a new attach context starts with empty ones.
fresh_impl ==
  /\ internal_attaches' = << >>
  /\ attaches' = << >>
  /\ next_id' = 1

Outside == [pc |-> "outside", entry |-> 0, set |-> Original, got |-> Original, alone |-> TRUE]

FridaInit ==
  /\ entries = << >>
  /\ internal_attaches = << >>
  /\ attaches = << >>
  /\ next_id = 1
  /\ calls = [t \in Threads |-> Outside]

live_entries == {n \in 1..Len(entries) : entries[n].live}

\* The attach type a request is recorded with: a replacement is an override.
recorded_type(attach_type) == IF attach_type \in OverrideTypes THEN "uprobe_override" ELSE attach_type

has_override(n) == \E ua \in entries[n].user_attaches : ua.type = "uprobe_override"

\* Mutant: a second attach is let in beside an override.
refused_unmapped_only(func, attach_type) == func \in Unmapped \/ attach_type \notin AttachTypes

\* create_attach_with_ebpf_callback returns an error.
refused(func, attach_type) ==
  \/ func \in Unmapped
  \/ attach_type \notin AttachTypes
  \/ func \in DOMAIN internal_attaches /\ has_override(internal_attaches[func])

\* The constructor of the hook entry throws: gum refuses.
throws(func, attach_type) ==
  /\ func \notin DOMAIN internal_attaches
  /\ \/ func \in Unhookable
     \/ /\ attach_type \in OverrideTypes
        /\ \E n \in live_entries : entries[n].function = func /\ ~entries[n].listener

new_entry(func, attach_type) ==
  [function |-> func, listener |-> attach_type \notin OverrideTypes, user_attaches |-> {},
   is_overrided |-> FALSE, user_ret |-> Original, live |-> TRUE]

\* An accepted attach: `cb' is what runs, here the link it was created for.
attach_at(func, attach_type, cb) ==
  LET created == func \notin DOMAIN internal_attaches
      n   == IF created THEN Len(entries) + 1 ELSE internal_attaches[func]
      all == IF created THEN Append(entries, new_entry(func, attach_type)) ELSE entries
      ent == [self_id |-> next_id, type |-> recorded_type(attach_type), cb |-> cb]
  IN  /\ ~refused(func, attach_type)
      /\ ~throws(func, attach_type)
      /\ entries' = [all EXCEPT ![n].user_attaches = @ \cup {ent}]
      /\ internal_attaches' = [f \in DOMAIN internal_attaches \cup {func} |-> IF f = func THEN n ELSE internal_attaches[f]]
      /\ attaches' = [i \in DOMAIN attaches \cup {next_id} |-> IF i = next_id THEN func ELSE attaches[i]]
      /\ next_id' = next_id + 1
      /\ UNCHANGED calls

\* Hook entry n after detach_by_id of `ids'; the last user attach takes the entry with it.
left_after(ids, n) ==
  LET rest == {ua \in entries[n].user_attaches : ua.self_id \notin ids}
  IN  [entries[n] EXCEPT !.user_attaches = rest, !.live = rest # {}]

\* detach_by_id of every id in `ids', one after the other.
detach_by_id(ids) ==
  LET hooked == {internal_attaches[f] : f \in DOMAIN internal_attaches}
      after  == [n \in 1..Len(entries) |-> IF n \in hooked THEN left_after(ids, n) ELSE entries[n]]
  IN  /\ entries' = after
      /\ attaches' = [i \in DOMAIN attaches \ ids |-> attaches[i]]
      /\ internal_attaches' = [f \in {g \in DOMAIN internal_attaches : after[internal_attaches[g]].user_attaches # {}}
                                |-> internal_attaches[f]]
      /\ calls' = [t \in Threads |-> [calls[t] EXCEPT !.alone = @ /\ (calls[t].entry = 0 \/ after[calls[t].entry].live)]]
      /\ UNCHANGED next_id

-----------------------------------------------------------------------------
(* A call of a replaced function.                                          *)

inside(n) == {t \in Threads : calls[t].pc \in {"filter", "leave"} /\ calls[t].entry = n}

\* Mutant: the verdict of the previous call is not cleared.
override_enter_no_reset(t, n) ==
  /\ calls[t].pc = "outside"
  /\ n \in live_entries /\ ~entries[n].listener
  /\ calls' = [u \in Threads |-> IF u = t THEN [Outside EXCEPT !.pc = "filter", !.entry = n, !.alone = inside(n) = {}]
                                 ELSE IF u \in inside(n) THEN [calls[u] EXCEPT !.alone = FALSE] ELSE calls[u]]
  /\ UNCHANGED <<entries, internal_attaches, attaches, next_id>>

\* override_handler up to the filter callback: the entry's verdict is cleared.
override_enter(t, n) ==
  /\ calls[t].pc = "outside"
  /\ n \in live_entries /\ ~entries[n].listener
  /\ entries' = [entries EXCEPT ![n].is_overrided = FALSE]
  /\ calls' = [u \in Threads |-> IF u = t THEN [Outside EXCEPT !.pc = "filter", !.entry = n, !.alone = inside(n) = {}]
                                 ELSE IF u \in inside(n) THEN [calls[u] EXCEPT !.alone = FALSE] ELSE calls[u]]
  /\ UNCHANGED <<internal_attaches, attaches, next_id>>

\* The program runs, and may set the return value (Original: it does not).  A
\* write through an entry that has been destroyed reaches nothing.
override_filter(t, v) ==
  LET n == calls[t].entry
  IN  /\ calls[t].pc = "filter"
      /\ calls' = [calls EXCEPT ![t].pc = "leave", ![t].set = v]
      /\ entries' = IF v = Original \/ ~entries[n].live THEN entries
                    ELSE [entries EXCEPT ![n].is_overrided = TRUE, ![n].user_ret = v]
      /\ UNCHANGED <<internal_attaches, attaches, next_id>>

\* The verdict is read back; from a destroyed entry anything may be read.
override_leave(t) ==
  LET n == calls[t].entry
  IN  /\ calls[t].pc = "leave"
      /\ \E got \in IF entries[n].live THEN {IF entries[n].is_overrided THEN entries[n].user_ret ELSE Original}
                    ELSE RetVals \cup {Original} :
           calls' = [calls EXCEPT ![t] = IF got = @.set THEN Outside
                                         ELSE [@ EXCEPT !.pc = "outside", !.entry = 0, !.got = got]]
      /\ UNCHANGED <<entries, internal_attaches, attaches, next_id>>

call_step ==
  \E t \in Threads :
    \/ \E n \in live_entries : override_enter(t, n)
    \/ \E v \in RetVals \cup {Original} : override_filter(t, v)
    \/ override_leave(t)

-----------------------------------------------------------------------------

\* "There should be at most one filter attach.." (run_filter_callback): a function never has two
\* overrides, and an override that replaced the function shares its entry with nothing.
OneOverride ==
  \A n \in live_entries :
    /\ \A a, b \in entries[n].user_attaches : a.type = "uprobe_override" /\ b.type = "uprobe_override" => a = b
    /\ ~entries[n].listener => \E a \in entries[n].user_attaches : entries[n].user_attaches = {a}

\* A call that set a return value returns it, and a call that did not runs the original function
\* (override_handler: "If the return value is set, the original function will not be invoked").
OverrideHonoured == \A t \in Threads : calls[t].pc = "outside" => calls[t].got = calls[t].set

\* OverrideHonoured for a call that overlaps neither another call of the same function nor the
\* detach of its hook entry: the verdict left by an earlier call never leaks into it.
OverrideHonouredAlone ==
  \A t \in Threads : calls[t].pc = "outside" /\ calls[t].alone => calls[t].got = calls[t].set
=============================================================================
