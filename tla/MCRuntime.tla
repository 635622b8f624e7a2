----------------------------- MODULE MCRuntime -----------------------------
(* Two documents, two calls; one dump at most in each scenario. *)
EXTENDS Runtime

CONSTANT channel

MCDocOrder == <<channel, block>>
scenario == [changes |-> 1, dumps |-> 1, errors |-> 0, crashes |-> 0, stops |-> 0, replaces |-> 0,
             calls |-> 0, answers |-> 0, old |-> {}]
MCScenarios ==
  {\* calls, answered or not, while the client is stopped, by one or two signals
   [scenario EXCEPT !.dumps = 0, !.calls = 2, !.answers = 2, !.stops = 1],
   [scenario EXCEPT !.changes = 0, !.calls = 2, !.answers = 2, !.stops = 1],
   [scenario EXCEPT !.changes = 0, !.calls = 2, !.answers = 1, !.stops = 2],
   \* a crash, and what the next instance finds
   [scenario EXCEPT !.crashes = 1, !.changes = 2, !.stops = 1],
   \* errors of the database
   [scenario EXCEPT !.errors = 1, !.calls = 1, !.answers = 1, !.stops = 1],
   \* an older version, which is migrated, and a crash meanwhile
   [scenario EXCEPT !.errors = 1, !.stops = 2, !.old = {channel, block}],
   [scenario EXCEPT !.crashes = 1, !.stops = 1, !.old = {channel, block}],
   \* a dump that is imported, and a crash meanwhile
   [scenario EXCEPT !.changes = 2, !.stops = 2, !.replaces = 1],
   [scenario EXCEPT !.crashes = 1, !.changes = 2, !.stops = 2, !.replaces = 1]}
=============================================================================
