------------------------------ MODULE MCDaemon ------------------------------
(***************************************************************************)
(* Daemon with small bounds.  The ids overlap: a uprobe, a program and a   *)
(* link can want the same slot.                                            *)
(***************************************************************************)
EXTENDS Daemon

\* Behaviours are followed past a collision, and up to any other mishap.
Followed == spoilt \subseteq {"collision"}

\* A uprobe is enabled and disabled in turn: of the calls that ask for what it is already, none is followed.
InTurn == Len(rb') > Len(rb) /\ rb'[Len(rb')].type \in {"enable", "disable"} => kfd' # kfd
=============================================================================
