------------------------------ MODULE Journal ------------------------------
(***************************************************************************)
(* What the database promises: it holds the store as it was at some moment *)
(* since it was opened, never a mixture, and never goes back, except to a  *)
(* dump, which is the database of one moment, too.                         *)
(***************************************************************************)
EXTENDS Naturals

CONSTANT Doc

VARIABLES
  store,   \* how often each document changed
  saving,  \* the store as it is being written
  saved,   \* the database
  dumped     \* a dump of it

journal == <<store, saving, saved, dumped>>

Init == store \in [Doc -> Nat] /\ saving = store /\ saved = store /\ dumped = [d \in Doc |-> 0]

Change ==
  /\ \E D \in SUBSET Doc : store' = [d \in Doc |-> IF d \in D THEN store[d] + 1 ELSE store[d]]
  /\ UNCHANGED <<saving, saved, dumped>>
Take == saving' = store /\ UNCHANGED <<store, saved, dumped>>
Save == saved' = saving /\ UNCHANGED <<store, saving, dumped>>
Fail == saving' = saved /\ UNCHANGED <<store, saved, dumped>>
Reopen == store' = saved /\ saving' = saved /\ UNCHANGED <<saved, dumped>>
Dump == dumped' = saved /\ UNCHANGED <<store, saving, saved>>
Import == store' = dumped /\ saving' = dumped /\ saved' = dumped /\ UNCHANGED dumped

Next == Change \/ Take \/ Save \/ Fail \/ Reopen \/ Dump \/ Import
Spec == Init /\ [][Next]_journal
=============================================================================
