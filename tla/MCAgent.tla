------------------------------ MODULE MCAgent ------------------------------
(***************************************************************************)
(* Small handler tables for Agent: what a loader can leave behind.         *)
(***************************************************************************)
EXTENDS Agent

MCSlots == 0..4

\* Functions: one that can be hooked, one that gum refuses, one whose module is not mapped.
at(function) == [function |-> function]
MCFunctions == {at("f"), at("hard"), at("away")}
MCUnhookable == {at("hard")}
MCUnmapped == {at("away")}

unused == [kind |-> "unused"]
a_map == [kind |-> "map"]
prog(loads) == [kind |-> "prog", loads |-> loads]
uprobe(type, func) == [kind |-> "perf", type |-> type, at |-> at(func), parses |-> TRUE]
syscall(nr, enter) == [kind |-> "perf", type |-> "tracepoint", at |-> [sys_nr |-> nr, is_enter |-> enter], parses |-> TRUE]
link(p, t) == [kind |-> "link", prog_id |-> p, attach_target_id |-> t]
table(s) == [i \in MCSlots |-> s[i + 1]]

MCTables ==
  { table(<<link(2, 1), uprobe("uprobe_override", "f"), prog(TRUE), link(2, 1), a_map>>),           \* links first; one function twice
    table(<<prog(FALSE), link(0, 2), uprobe("uprobe", "f"), prog(TRUE), link(3, 2)>>),              \* a program that fails to load
    table(<<prog(TRUE), uprobe("uretprobe", "hard"), uprobe("uprobe", "f"), link(0, 1), link(0, 2)>>),  \* a function gum refuses
    table(<<prog(TRUE), uprobe("uprobe", "f"), link(0, 1), uprobe("ureplace", "f"), link(0, 3)>>),  \* an override after a uprobe
    table(<<prog(TRUE), syscall("every", TRUE), link(0, 1), syscall("read", FALSE), link(0, 3)>>),
    table(<<prog(TRUE), syscall("beyond", TRUE), link(0, 1), uprobe("uprobe", "away"), link(0, 3)>>), \* nowhere to attach
    table(<<prog(TRUE), [kind |-> "perf", type |-> "software"], link(0, 1), [kind |-> "perf", type |-> "kprobe"], link(0, 3)>>),
    table(<<unused, prog(TRUE), a_map, link(1, 2), [kind |-> "perf", type |-> "uprobe", at |-> at("f"), parses |-> FALSE]>>) }
=============================================================================
