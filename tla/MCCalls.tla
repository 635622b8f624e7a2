------------------------------ MODULE MCCalls ------------------------------
(***************************************************************************)
(* Small instances of Calls.                                               *)
(***************************************************************************)
EXTENDS Calls

start(callers, n) == [callers |-> callers, events |-> n]
Usual == {start(Client, 0), start({"a"}, 1)}
=============================================================================
