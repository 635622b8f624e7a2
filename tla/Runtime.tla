------------------------------ MODULE Runtime ------------------------------
(***************************************************************************)
(* A client from its start to its end: epics, which are shut down one      *)
(* after the other, the calls of the user, which epics answer, and the     *)
(* database (Persistence), which is closed in the end.                     *)
(*                                                                         *)
(* Two epics stand for all: transfers handles calls, with messages that    *)
(* the transport sends.                                                    *)
(***************************************************************************)
EXTENDS Persistence

CONSTANT Call

VARIABLES
  started,      \* Raiden.started: undefined, true, or false
  subscribed,   \* epics that run
  notified,     \* how many raidenShutdown there were
  calls,        \* of the user: [job, promise], the job being what the epic makes of it
  forced        \* epics that were unsubscribed

runtimeVars == <<started, subscribed, notified, calls, forced>>
vars == <<persistenceVars, runtimeVars>>

\* In the order in which they are shut down: latestEpic is subscribed first and shut down last
EpicOrder == <<"transfers", "transport", "db", "latest">>
Epic == {"transfers", "transport", "db", "latest"}

Init ==
  /\ PersistenceInit
  /\ started = "undefined" /\ subscribed = {} /\ notified = 0 /\ forced = {}
  /\ calls = [c \in Call |-> [job |-> "none", promise |-> "none"]]

-----------------------------------------------------------------------------
(* Epics (combineRaidenEpics) *)

isSubscribed(epic) == epic \in subscribed
\* epicShutdown$: its inputs complete
\* Mutant of isShutDown: those of all epics at once
isShutDownAtOnce(epic) == notified > 0 /\ isSubscribed(epic)
isShutDown(epic) ==
  notified > 0 /\ \E i \in DOMAIN EpicOrder : /\ EpicOrder[i] = epic /\ epic \in subscribed
                                              /\ \A j \in 1..(i - 1) : EpicOrder[j] \notin subscribed
isListening(epic) == isSubscribed(epic) /\ ~isShutDown(epic)
hasJobs(epic) ==
  \/ epic = "transfers" /\ \E c \in Call : calls[c].job \in {"asked", "sending"}
  \/ epic = "transport" /\ \E c \in Call : calls[c].job = "sending"

\* Raiden.action$ completes, which answers what is pending (asyncActionToPromise)
\* Mutant of completed: those who wait, wait
completedSilently == calls
completed == [c \in Call |-> [job |-> IF calls[c].job \in {"asked", "sending"} THEN "cut" ELSE calls[c].job,
                              promise |-> IF calls[c].promise = "pending" THEN "rejected" ELSE calls[c].promise]]
\* An epic is unsubscribed
unsubscribe(epic) ==
  /\ subscribed' = subscribed \ {epic}
  /\ IF epic = "latest" THEN started' = "false" /\ calls' = completed
     ELSE /\ UNCHANGED started
          /\ calls' = [c \in Call |-> IF epic = "transfers" /\ calls[c].job \in {"asked", "sending"}
                                      THEN [calls[c] EXCEPT !.job = "cut"] ELSE calls[c]]
epicEnds(epic) ==
  /\ isShutDown(epic) /\ ~hasJobs(epic) /\ unsubscribe(epic) /\ UNCHANGED <<persistenceVars, notified, forced>>
\* An epic that doesn't end in httpTimeout: the transport, without a server, and what needs it
isStuck(epic) ==
  /\ isShutDown(epic) /\ hasJobs(epic)
  /\ (\A c \in Call : calls[c].job # "asked") /\ (left.answers = 0 \/ ~isSubscribed("transport"))
epicTimesOut(epic) ==
  /\ isStuck(epic) /\ unsubscribe(epic) /\ forced' = forced \cup {epic} /\ UNCHANGED <<persistenceVars, notified>>

\* raidenShutdown: the second one ends everything
raidenShutdown ==
  IF notified = 0 THEN notified' = 1 /\ UNCHANGED <<started, subscribed, calls, forced>>
  ELSE /\ notified' = 2 /\ forced' = forced \cup subscribed /\ subscribed' = {} /\ started' = "false"
       /\ calls' = completed
\* dbErrorsEpic
dbError ==
  /\ isSubscribed("db") /\ busy = "broken" /\ notified = 0
  /\ notified' = 1 /\ subscribed' = subscribed \ {"db"}
  /\ UNCHANGED <<persistenceVars, started, calls, forced>>

-----------------------------------------------------------------------------
(* What changes the store *)

running == <<left, boot, teardown, dbVars, dump, file, cutShort>>
newBlock ==
  /\ left.changes > 0 /\ left' = [left EXCEPT !.changes = @ - 1]
  /\ started = "true" /\ notified = 0 /\ dispatch({block})
  /\ UNCHANGED <<boot, teardown, dbVars, dump, file, cutShort, runtimeVars>>

\* Raiden.transfer and others: a request, and the promise of its answer
request(c) ==
  /\ left.calls > 0 /\ left' = [left EXCEPT !.calls = @ - 1]
  /\ calls[c].promise = "none" /\ started # "undefined"
  /\ calls' = [calls EXCEPT ![c] = IF started = "false" THEN [calls[c] EXCEPT !.promise = "rejected"]
                                   ELSE [job |-> IF isListening("transfers") THEN "asked" ELSE "none", promise |-> "pending"]]
  /\ UNCHANGED <<boot, storeVars, teardown, dbVars, dump, file, cutShort, started, subscribed, notified, forced>>
send(c) ==
  /\ calls[c].job = "asked" /\ calls' = [calls EXCEPT ![c] = [calls[c] EXCEPT !.job = "sending"]]
  /\ dispatch(Doc) /\ UNCHANGED <<running, started, subscribed, notified, forced>>
\* The server answers if the transport still took the request
succeed(c) ==
  /\ calls[c].job = "sending" /\ isSubscribed("transport") /\ left.answers > 0 /\ left' = [left EXCEPT !.answers = @ - 1]
  /\ calls' = [calls EXCEPT ![c] = [job |-> "done", promise |-> IF calls[c].promise = "pending" THEN "resolved" ELSE calls[c].promise]]
  /\ dispatch(Doc \ {block}) /\ UNCHANGED <<boot, teardown, dbVars, dump, file, cutShort, started, subscribed, notified, forced>>

-----------------------------------------------------------------------------
(* Start and stop *)

\* Raiden.create
create == open /\ UNCHANGED runtimeVars
failToCreate == migrationFails /\ UNCHANGED runtimeVars
\* Raiden.start
start ==
  /\ boot.step = "loaded" /\ started = "undefined" /\ teardown = "none"
  /\ started' = "true" /\ subscribed' = Epic /\ notified' = 0 /\ forced' = {}
  /\ UNCHANGED <<persistenceVars, calls>>
\* Raiden.stop
stop ==
  /\ left.stops > 0 /\ left' = [left EXCEPT !.stops = @ - 1] /\ started = "true" /\ raidenShutdown
  /\ UNCHANGED <<boot, storeVars, teardown, dbVars, dump, file, cutShort>>
tearDown == started = "false" /\ startTeardown /\ UNCHANGED runtimeVars
close == closeDatabase /\ UNCHANGED runtimeVars
endProcess ==
  /\ started' = "undefined" /\ subscribed' = {} /\ notified' = 0 /\ forced' = {}
  /\ calls' = [c \in Call |-> IF calls[c].promise = "pending" THEN [job |-> "cut", promise |-> "lost"] ELSE calls[c]]
\* A new instance, when the old one has ended
leave == teardown = "closed" /\ left.stops > 0 /\ forget /\ endProcess /\ UNCHANGED left
crash ==
  /\ left.crashes > 0 /\ boot.step # "off" /\ left' = [left EXCEPT !.crashes = @ - 1] /\ forget /\ endProcess

save == saveDatabase /\ UNCHANGED runtimeVars
failToSave == (\E i \in DOMAIN savers : saveFails(i)) /\ UNCHANGED runtimeVars
dumpDatabase == (beginDump \/ readBatch \/ endDump) /\ UNCHANGED runtimeVars
Epics == \E e \in Epic : epicEnds(e) \/ epicTimesOut(e)
Jobs == \E c \in Call : send(c) \/ succeed(c)
Next ==
  \/ create \/ failToCreate \/ start \/ stop \/ tearDown \/ close \/ leave \/ crash
  \/ save \/ failToSave \/ dumpDatabase \/ (startDump /\ UNCHANGED runtimeVars)
  \/ newBlock \/ Jobs \/ Epics \/ dbError \/ (\E c \in Call : request(c))

\* Promises settle, epics end or are ended
Spec ==
  /\ Init /\ [][Next]_vars
  /\ WF_vars(create) /\ WF_vars(start) /\ WF_vars(tearDown) /\ WF_vars(close)
  /\ WF_vars(save) /\ WF_vars(dumpDatabase) /\ WF_vars(Epics) /\ WF_vars(Jobs)

-----------------------------------------------------------------------------
(* Properties *)

\* What the database holds: an older version or a dump until it is opened
kept ==
  IF boot.step = "replacing" THEN file
  ELSE IF boot.step = "migrating" \/ docs = Nothing THEN values(old) ELSE values(docs)
whole(f) == over(f, Initially(Doc))
\* Documents that a saveDatabase took, and still has to write
holders(list, d) == {i \in DOMAIN list : list[i].step # "written" /\ d \in DOMAIN list[i].data}
unwritten(list) == [d \in {e \in Doc : holders(list, e) # {}} |-> list[Max(holders(list, d))].data[d]]
journal == INSTANCE Journal WITH store <- IF boot.step = "loaded" THEN state ELSE whole(kept),
  saving <- whole(over(unwritten(savers), kept)), saved <- whole(kept), dumped <- whole(file)

\* The database is the store of one moment, and so is a dump (persister, dumpDatabase, replaceDatabase),
\* unless two saveDatabase ran at once, which a dispatch between the end of a saveDatabase and the start of
\* a dump brings about (persister.ts:101, db/utils.ts:474, against "do not run concurrently",
\* persister.ts:37), or the process ended in the middle of a migration or an import.
KeepsJournal == journal!Init /\ [][~overlapped' /\ ~cutShort' => journal!Next]_(journal!journal)

\* When the database is closed, everything is in it (persister, teardown$), except what changed while nobody
\* would look at it, between the last look of a saveDatabase and its end (persister.ts:40, 102); unless it
\* fails or a dump was made.
NothingUnsaved ==
  [][teardown' = "closing" /\ teardown # "closing" /\ busy' # "broken" /\ left.dumps > 0 => DOMAIN dirty \subseteq late]_vars

\* A job of an epic is cut only if the server doesn't answer, by a second shutdown (combineRaidenEpics), or
\* by the end of the process, and then nobody waits for it any more.
isCut(c) == calls[c].job = "cut"
JobsEnd ==
  [][\A c \in Call : isCut(c)' /\ ~isCut(c) => left.answers = 0 \/ notified' = 2 \/ calls'[c].promise = "lost"]_vars

\* A client that shuts down closes its database in the end (Raiden.stop), and every promise is settled
\* (asyncActionToPromise), if the server answers or the client stops.
ShutdownEnds == notified > 0 ~> teardown = "closed" \/ started = "undefined"
CallEnds(c) == calls[c].promise = "pending" ~> calls[c].promise # "pending" \/ (left.answers = 0 /\ notified = 0)
EveryoneEnds == ShutdownEnds /\ \A c \in Call : CallEnds(c)
=============================================================================
