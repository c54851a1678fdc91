------------------------------ MODULE MCPerfPoll ------------------------------
(* Perf events polled with every kind of timeout: refused, endless, none, and finite. *)
EXTENDS PerfPoll

MCTimeouts == {-2, -1, 0, 1}

=============================================================================
