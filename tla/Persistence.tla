---------------------------- MODULE Persistence ----------------------------
(***************************************************************************)
(* The client's database: the persister, which saves what changes in the   *)
(* store, dumps of the database, its teardown, and how it is opened:       *)
(* migrated from an older version, or replaced by a dump.                  *)
(*                                                                         *)
(* A document's value is how often it changed.  PouchDB is external: it    *)
(* takes a batch of documents as a whole, except those whose revision is   *)
(* not the current one.                                                    *)
(***************************************************************************)
EXTENDS Integers, Sequences, FiniteSets, SequencesExt, Functions

CONSTANTS
  Doc,            \* documents
  block,          \* the one with the block number and everything else that is not of a channel or transfer
  DocOrder,       \* their order in the database
  Scenarios       \* what happens, see below

\* How often something happens, and the documents of an older version
Scenario ==
  [changes : Nat, dumps : Nat, errors : Nat, crashes : Nat, stops : Nat, replaces : Nat,
   calls : Nat, answers : Nat, old : SUBSET Doc]

\* A database has the block number as soon as it has anything (putRaidenState)
ASSUME PersistenceAssumption ==
  /\ block \in Doc /\ DocOrder \in Seq(Doc) /\ Range(DocOrder) = Doc
  /\ Scenarios \subseteq Scenario /\ \A s \in Scenarios : s.old # {} => block \in s.old

VARIABLES
  left,     \* what is to come of the scenario
  boot,     \* how the database is opened: [step, rest]
  state,    \* the documents in the store
  dirty,    \* documents to be saved (dirtyDocs)
  busy,     \* db.busy$: idle, busy, or broken
  savers,   \* running saveDatabase: [step, data, revs, failed]
  teardown, \* teardown$: none, waiting, closing, or closed
  docs,     \* the database: [value, rev] of the documents in it
  old,      \* the same in its older version
  dump,     \* a dump being made: [step, rows, changed]
  file,     \* a finished dump
  \* Kept for the properties:
  late,       \* documents that changed while the database was busy with nothing that would look at them
  overlapped, \* whether a saveDatabase ever started while another one was running
  cutShort    \* whether the process ever ended while the database was copied

storeVars == <<state, dirty, busy, savers, late, overlapped>>
dbVars == <<docs, old>>
persistenceVars == <<left, boot, storeVars, teardown, dbVars, dump, file, cutShort>>

Partial == UNION {[D -> Nat] : D \in SUBSET Doc}
Nothing == [d \in {} |-> 0]
Initially(D) == [d \in D |-> 0]
over(f, g) == [d \in DOMAIN f \cup DOMAIN g |-> IF d \in DOMAIN f THEN f[d] ELSE g[d]]
values(database) == [d \in DOMAIN database |-> database[d].value]
NoDump == [step |-> "none", rows |-> Nothing, changed |-> FALSE]
\* The one of S that comes first in the database
first(S) ==
  DocOrder[CHOOSE i \in DOMAIN DocOrder : DocOrder[i] \in S /\ \A j \in DOMAIN DocOrder : DocOrder[j] \in S => i <= j]
saver(step, data) == [step |-> step, data |-> data, revs |-> Nothing, failed |-> {}]

PersistenceInit ==
  /\ left \in Scenarios /\ boot = [step |-> "off", rest |-> {}]
  /\ state = Initially(Doc) /\ dirty = Nothing /\ busy = "idle" /\ savers = <<>> /\ teardown = "none"
  /\ docs = Nothing /\ old = [d \in left.old |-> [value |-> 1, rev |-> 1]]
  /\ dump = NoDump /\ file = Nothing
  /\ late = {} /\ overlapped = FALSE /\ cutShort = FALSE

-----------------------------------------------------------------------------
(* The persister *)

\* createPersisterMiddleware: an action changes some documents, at any moment, also between the end of a
\* saveDatabase, or a busy$ that turned idle, and the continuation of its promise
willLook == \E i \in DOMAIN savers : savers[i].step # "ended"
dispatch(D) ==
  /\ state' = [d \in Doc |-> IF d \in D THEN state[d] + 1 ELSE state[d]]
  /\ dirty' = over([d \in D |-> state[d] + 1], dirty)
  /\ IF busy = "idle" /\ D # {} THEN busy' = "busy" /\ savers' = Append(savers, saver("start", Nothing))
                                        /\ overlapped' = (overlapped \/ savers # <<>>) /\ UNCHANGED late
     ELSE /\ late' = IF busy = "idle" \/ willLook THEN late ELSE late \cup D
          /\ UNCHANGED <<busy, savers, overlapped>>

\* db.busy$.next(false): whoever waits for it goes on
becomeIdle(d) ==
  /\ busy' = IF busy = "broken" THEN busy ELSE IF teardown = "waiting" THEN "busy" ELSE "idle"
  /\ teardown' = IF teardown = "waiting" THEN "closing" ELSE teardown
  /\ dump' = IF d.step = "waiting" THEN [d EXCEPT !.step = "ready"] ELSE d

\* saveDatabase: what failed is taken again, unless it changed meanwhile
retried(s) == [d \in s.failed \ DOMAIN dirty |-> s.data[d]]
\* Mutant of takeDirty: all of it, once
takeOnce(i) ==
  /\ savers[i].step \in {"start", "written"}
  /\ LET data == over(retried(savers[i]), dirty)
     IN savers' = [savers EXCEPT ![i] = saver(IF savers[i].step = "written" \/ data = Nothing THEN "ended" ELSE "taken", data)]
  /\ dirty' = Nothing /\ late' = {} /\ UNCHANGED <<left, boot, state, busy, overlapped, teardown, dbVars, dump, file, cutShort>>
takeDirty(i) ==
  /\ savers[i].step \in {"start", "written"}
  /\ LET data == over(retried(savers[i]), dirty)
     IN savers' = [savers EXCEPT ![i] = saver(IF data = Nothing THEN "ended" ELSE "taken", data)]
  /\ dirty' = Nothing /\ late' = {} /\ UNCHANGED <<left, boot, state, busy, overlapped, teardown, dbVars, dump, file, cutShort>>
fetchRevs(i) ==
  /\ savers[i].step = "taken"
  /\ savers' = [savers EXCEPT ![i] = [savers[i] EXCEPT
       !.step = "fetched", !.revs = [d \in DOMAIN savers[i].data \cap DOMAIN docs |-> docs[d].rev]]]
  /\ UNCHANGED <<left, boot, state, dirty, busy, late, overlapped, teardown, dbVars, dump, file, cutShort>>
isFresh(s, d) == IF d \in DOMAIN docs THEN d \in DOMAIN s.revs /\ s.revs[d] = docs[d].rev ELSE d \notin DOMAIN s.revs
put(data) == over([d \in DOMAIN data |-> [value |-> data[d], rev |-> IF d \in DOMAIN docs THEN docs[d].rev + 1 ELSE 1]], docs)
bulkDocs(i) ==
  LET s == savers[i]  fresh == {d \in DOMAIN s.data : isFresh(s, d)}
  IN /\ s.step = "fetched"
     /\ docs' = put(Restrict(s.data, fresh))
     /\ savers' = [savers EXCEPT ![i] = [s EXCEPT !.step = "written", !.failed = DOMAIN s.data \ fresh]]
     /\ dump' = [dump EXCEPT !.changed = dump.step # "none"]
     /\ UNCHANGED <<left, boot, state, dirty, busy, late, overlapped, teardown, old, file, cutShort>>
endSave(i) ==
  /\ savers[i].step = "ended" /\ savers' = RemoveAt(savers, i) /\ becomeIdle(dump)
  /\ UNCHANGED <<left, boot, state, dirty, late, overlapped, dbVars, file, cutShort>>
\* Mutant of saveFails: and nobody notices
saveFailsUnnoticed(i) ==
  /\ left.errors > 0 /\ left' = [left EXCEPT !.errors = @ - 1]
  /\ savers[i].step \in {"start", "taken", "fetched"} /\ savers' = RemoveAt(savers, i)
  /\ UNCHANGED <<boot, state, dirty, busy, late, overlapped, teardown, dbVars, dump, file, cutShort>>
saveFails(i) ==
  /\ left.errors > 0 /\ left' = [left EXCEPT !.errors = @ - 1]
  /\ savers[i].step \in {"start", "taken", "fetched"} /\ savers' = RemoveAt(savers, i) /\ busy' = "broken"
  /\ teardown' = IF teardown = "waiting" THEN "closing" ELSE teardown
  /\ dump' = IF dump.step = "waiting" THEN NoDump ELSE dump
  /\ UNCHANGED <<boot, state, dirty, late, overlapped, dbVars, file, cutShort>>
saveDatabase == \E i \in DOMAIN savers : takeDirty(i) \/ fetchRevs(i) \/ bulkDocs(i) \/ endSave(i)

-----------------------------------------------------------------------------
(* Dumps (dumpDatabase) *)

startDump ==
  /\ left.dumps > 0 /\ left' = [left EXCEPT !.dumps = @ - 1]
  /\ boot.step = "loaded" /\ dump.step = "none" /\ busy # "broken"
  /\ dump' = [NoDump EXCEPT !.step = IF busy = "idle" THEN "ready" ELSE "waiting"]
  /\ UNCHANGED <<boot, storeVars, teardown, dbVars, file, cutShort>>
beginDump ==
  /\ dump.step = "ready" /\ dump' = [dump EXCEPT !.step = "reading"]
  /\ busy' = IF busy = "broken" THEN busy ELSE "busy"
  /\ UNCHANGED <<left, boot, state, dirty, savers, late, overlapped, teardown, dbVars, file, cutShort>>
\* The documents that follow, in batches of one; the rows are worthless if something changed meanwhile
next == DOMAIN docs \ DOMAIN dump.rows
isValid == ~dump.changed
readBatch ==
  /\ dump.step = "reading" /\ isValid /\ next # {}
  /\ dump' = [dump EXCEPT !.rows = over(Restrict(values(docs), {first(next)}), dump.rows)]
  /\ UNCHANGED <<left, boot, storeVars, teardown, dbVars, file, cutShort>>
endDump ==
  /\ dump.step = "reading" /\ (isValid => next = {})
  /\ file' = IF isValid THEN dump.rows ELSE file
  /\ becomeIdle(NoDump) /\ UNCHANGED <<left, boot, state, dirty, savers, late, overlapped, dbVars, cutShort>>

-----------------------------------------------------------------------------
(* Opening the database (getState) *)

memory == <<storeVars, teardown, dump, cutShort>>

\* replaceDatabase: the dump must not be older, as far as block numbers tell
canReplace == file # Nothing /\ (block \in DOMAIN docs => file[block] >= docs[block].value)
replaceDatabase ==
  /\ left.replaces > 0 /\ left' = [left EXCEPT !.replaces = @ - 1]
  /\ boot.step = "off" /\ canReplace /\ docs' = Nothing
  /\ boot' = [step |-> "replacing", rest |-> DOMAIN file]
  /\ UNCHANGED <<memory, old, file>>
\* migrateDatabase: the newest version there is; an older one is copied document by document
migrateDatabase ==
  /\ boot.step = "off"
  /\ boot' = IF docs = Nothing /\ old # Nothing
             THEN [step |-> "migrating", rest |-> DOMAIN old]
             ELSE [boot EXCEPT !.step = "opened"]
  /\ UNCHANGED <<left, memory, dbVars, file>>
copy(step, from) ==
  /\ boot.step = step
  /\ IF boot.rest = {} THEN boot' = [boot EXCEPT !.step = "opened"] /\ UNCHANGED docs
     ELSE LET d == first(boot.rest)
          IN docs' = put(Restrict(from, {d})) /\ boot' = [boot EXCEPT !.rest = boot.rest \ {d}]
  /\ UNCHANGED <<left, memory, old, file>>
\* The copy of a migration that fails is destroyed
migrationFails ==
  /\ left.errors > 0 /\ left' = [left EXCEPT !.errors = @ - 1]
  /\ boot.step = "migrating" /\ boot' = [step |-> "off", rest |-> {}] /\ docs' = Nothing
  /\ UNCHANGED <<memory, old, file>>
\* getRaidenState, putRaidenState: without an address, everything is new
load ==
  /\ boot.step = "opened" /\ boot' = [boot EXCEPT !.step = "loaded"]
  /\ IF block \in DOMAIN docs THEN state' = over(values(docs), Initially(Doc)) /\ UNCHANGED docs
     ELSE state' = Initially(Doc) /\ docs' = put(Initially({block}))
  /\ dirty' = Nothing /\ busy' = "idle" /\ savers' = <<>> /\ teardown' = "none" /\ dump' = NoDump
  /\ late' = {} /\ UNCHANGED <<left, old, file, overlapped, cutShort>>
open == replaceDatabase \/ migrateDatabase \/ copy("migrating", values(old)) \/ copy("replacing", file) \/ load

-----------------------------------------------------------------------------
(* Closing it (teardown$) *)

\* Mutant of startTeardown: it doesn't wait
startTeardownAtOnce ==
  /\ teardown = "none" /\ teardown' = "closing" /\ busy' = IF busy = "idle" THEN "busy" ELSE busy
  /\ UNCHANGED <<left, boot, state, dirty, savers, late, overlapped, dbVars, dump, file, cutShort>>
startTeardown ==
  /\ teardown = "none" /\ teardown' = IF busy = "busy" THEN "waiting" ELSE "closing"
  /\ busy' = IF busy = "idle" THEN "busy" ELSE busy
  /\ UNCHANGED <<left, boot, state, dirty, savers, late, overlapped, dbVars, dump, file, cutShort>>
closeDatabase ==
  /\ teardown = "closing" /\ teardown' = "closed" /\ savers' = <<>> /\ dump' = NoDump
  /\ busy' = IF busy = "broken" THEN busy ELSE "idle"
  /\ UNCHANGED <<left, boot, state, dirty, late, overlapped, dbVars, file, cutShort>>
\* Nothing in memory stays; documents that were still to be copied are never copied, as what there is of
\* the database, if anything, is taken for all of it
isCopied == boot.step \in {"migrating", "replacing"} => boot.rest = {} \/ (boot.step = "migrating" /\ docs = Nothing)
forget ==
  /\ boot' = [step |-> "off", rest |-> {}] /\ state' = Initially(Doc)
  /\ dirty' = Nothing /\ busy' = "idle" /\ savers' = <<>> /\ teardown' = "none" /\ dump' = NoDump
  /\ late' = {} /\ cutShort' = (cutShort \/ ~isCopied) /\ UNCHANGED <<dbVars, file, overlapped>>

=============================================================================
