--------------------------- MODULE RuntimeProofs ---------------------------
EXTENDS Runtime, WellFoundedInduction, TLAPS

(* Partial functions from documents *)

LEMMA PartialIs ==
  ASSUME NEW f \in Partial
  PROVE  f \in [DOMAIN f -> Nat] /\ DOMAIN f \subseteq Doc
  BY DEF Partial

LEMMA IsPartial ==
  ASSUME NEW D \in SUBSET Doc, NEW f \in [D -> Nat]
  PROVE  f \in Partial
  BY DEF Partial

LEMMA NothingIs == Nothing \in Partial /\ DOMAIN Nothing = {}
  BY DEF Partial, Nothing

LEMMA EmptyIsNothing ==
  ASSUME NEW f \in Partial, DOMAIN f = {}
  PROVE  f = Nothing
  BY PartialIs DEF Nothing

LEMMA OverIs ==
  ASSUME NEW f \in Partial, NEW g \in Partial
  PROVE  /\ over(f, g) \in Partial
         /\ DOMAIN over(f, g) = DOMAIN f \cup DOMAIN g
         /\ \A d \in DOMAIN f : over(f, g)[d] = f[d]
         /\ \A d \in DOMAIN g : d \notin DOMAIN f => over(f, g)[d] = g[d]
<1>1. DOMAIN f \cup DOMAIN g \in SUBSET Doc
  BY PartialIs
<1>2. over(f, g) \in [DOMAIN f \cup DOMAIN g -> Nat]
  BY PartialIs DEF over
<1> QED
  BY <1>1, <1>2, IsPartial DEF over

LEMMA OverNothing ==
  ASSUME NEW f \in Partial
  PROVE  over(Nothing, f) = f /\ over(f, Nothing) = f
  BY PartialIs, NothingIs DEF over

LEMMA OverOver ==
  ASSUME NEW f \in Partial, NEW g \in Partial, NEW h \in Partial
  PROVE  over(f, over(g, h)) = over(over(f, g), h)
  BY DEF over

LEMMA WholeIs ==
  ASSUME NEW f \in Partial
  PROVE  whole(f) = [d \in Doc |-> IF d \in DOMAIN f THEN f[d] ELSE 0]
<1>1. DOMAIN f \cup Doc = Doc
  BY PartialIs
<1> QED
  BY <1>1 DEF whole, over, Initially

LEMMA WholeOver ==
  ASSUME NEW f \in Partial, NEW g \in Partial
  PROVE  whole(over(f, g)) = [d \in Doc |-> IF d \in DOMAIN f THEN f[d] ELSE whole(g)[d]]
<1> DEFINE o == over(f, g)
<1>1. o \in Partial /\ DOMAIN o = DOMAIN f \cup DOMAIN g /\ o = [d \in DOMAIN f \cup DOMAIN g |-> IF d \in DOMAIN f THEN f[d] ELSE g[d]]
  BY OverIs DEF over
<1> HIDE DEF o
<1>2. whole(o) = [d \in Doc |-> IF d \in DOMAIN o THEN o[d] ELSE 0]
  BY <1>1, WholeIs
<1>3. whole(g) = [d \in Doc |-> IF d \in DOMAIN g THEN g[d] ELSE 0]
  BY WholeIs
<1>4. \A d \in Doc : (IF d \in DOMAIN o THEN o[d] ELSE 0) = IF d \in DOMAIN f THEN f[d] ELSE whole(g)[d]
  BY <1>1, <1>3
<1> QED
  BY <1>2, <1>4 DEF o

LEMMA LeastIndex ==
  ASSUME NEW S \in SUBSET Nat, S # {}
  PROVE  \E n \in S : \A m \in S : n <= m
<1>1. PICK n \in S : \A m \in S : ~(<<m, n>> \in OpToRel(<, Nat))
  BY NatLessThanWellFounded, WFMin, Zenon
<1>2. \A m \in S : ~(m < n)
  BY <1>1 DEF OpToRel
<1> QED
  BY <1>2

LEMMA FirstIsIn ==
  ASSUME NEW S \in SUBSET Doc, S # {}
  PROVE  first(S) \in S
<1> DEFINE I == {i \in DOMAIN DocOrder : DocOrder[i] \in S}
<1>1. I \in SUBSET Nat /\ I # {}
  BY PersistenceAssumption DEF Range
<1>2. PICK i \in I : \A j \in I : i <= j
  <2> HIDE DEF I
  <2> QED
    BY <1>1, LeastIndex
<1> QED
  BY <1>2 DEF first

(* The database *)

Database == UNION {[D -> [value : Nat, rev : Nat]] : D \in SUBSET Doc}

LEMMA DatabaseIs ==
  ASSUME NEW db \in Database
  PROVE  db \in [DOMAIN db -> [value : Nat, rev : Nat]] /\ DOMAIN db \subseteq Doc
  BY DEF Database

LEMMA IsDatabase ==
  ASSUME NEW D \in SUBSET Doc, NEW db \in [D -> [value : Nat, rev : Nat]]
  PROVE  db \in Database
  BY DEF Database

LEMMA NoDatabase == Nothing \in Database /\ values(Nothing) = Nothing
  BY DEF Database, Nothing, values

LEMMA ValuesAre ==
  ASSUME NEW db \in Database
  PROVE  /\ values(db) \in Partial
         /\ DOMAIN values(db) = DOMAIN db
         /\ \A d \in DOMAIN db : values(db)[d] = db[d].value
         /\ DOMAIN db = {} => db = Nothing
<1>1. values(db) \in [DOMAIN db -> Nat]
  BY DatabaseIs DEF values
<1>2. DOMAIN db = {} => db = Nothing
  BY DatabaseIs DEF Nothing
<1> QED
  BY <1>1, <1>2, DatabaseIs, IsPartial DEF values

\* What is put into the database lies over what was there.
LEMMA PutIs ==
  ASSUME NEW data \in Partial, docs \in Database
  PROVE  /\ put(data) \in Database
         /\ DOMAIN put(data) = DOMAIN data \cup DOMAIN docs
         /\ values(put(data)) = over(data, values(docs))
<1> DEFINE new == [d \in DOMAIN data |-> [value |-> data[d], rev |-> IF d \in DOMAIN docs THEN docs[d].rev + 1 ELSE 1]]
<1>1. new \in [DOMAIN data -> [value : Nat, rev : Nat]]
  BY PartialIs, DatabaseIs
<1>2. put(data) = over(new, docs) /\ DOMAIN new = DOMAIN data
  BY DEF put
<1>3. \A d \in DOMAIN data : new[d].value = data[d]
  OBVIOUS
<1> HIDE DEF new
<1>4. put(data) = [d \in DOMAIN data \cup DOMAIN docs |-> IF d \in DOMAIN data THEN new[d] ELSE docs[d]]
  BY <1>2 DEF over
<1>5. put(data) \in [DOMAIN data \cup DOMAIN docs -> [value : Nat, rev : Nat]]
  BY <1>1, <1>4, DatabaseIs
<1>6. DOMAIN data \cup DOMAIN docs \in SUBSET Doc
  BY PartialIs, DatabaseIs
<1>7. values(put(data)) = over(data, values(docs))
  BY <1>3, <1>4 DEF values, over
<1> QED
  BY <1>4, <1>5, <1>6, <1>7, IsDatabase

(* Lists of at most one saveDatabase *)

Saver == [step : {"start", "taken", "fetched", "written", "ended"}, data : Partial, revs : Partial, failed : SUBSET Doc]

LEMMA NobodyWrites == unwritten(<<>>) = Nothing
<1>1. \A d : holders(<<>>, d) = {}
  BY DEF holders
<1> QED
  BY <1>1 DEF unwritten, Nothing

LEMMA OneWrites ==
  ASSUME NEW s \in Saver
  PROVE  unwritten(<<s>>) = IF s.step = "written" THEN Nothing ELSE s.data
<1> DEFINE t == <<s>>
<1>1. DOMAIN t = {1} /\ t[1] = s
  OBVIOUS
<1>2. s.data \in Partial
  BY DEF Saver
<1> HIDE DEF t
<1>3. \A d : holders(t, d) = IF s.step # "written" /\ d \in DOMAIN s.data THEN {1} ELSE {}
  BY <1>1 DEF holders
<1>4. Max({1}) = 1
  BY DEF Max
<1>5. CASE s.step = "written"
  BY <1>3, <1>5 DEF unwritten, Nothing, t
<1>6. CASE s.step # "written"
  <2>1. {e \in Doc : holders(t, e) # {}} = DOMAIN s.data
    BY <1>2, <1>3, <1>6, PartialIs
  <2>2. \A d \in DOMAIN s.data : t[Max(holders(t, d))].data[d] = s.data[d]
    BY <1>1, <1>3, <1>4, <1>6
  <2>3. unwritten(t) = [d \in DOMAIN s.data |-> s.data[d]]
    BY <2>1, <2>2 DEF unwritten
  <2> QED
    BY <1>2, <1>6, <2>3, PartialIs DEF t
<1> QED
  BY <1>5, <1>6

LEMMA Lists ==
  ASSUME NEW s, NEW r
  PROVE  /\ Append(<<>>, s) = <<s>> /\ RemoveAt(<<s>>, 1) = <<>> /\ [<<s>> EXCEPT ![1] = r] = <<r>>
         /\ DOMAIN <<s>> = {1} /\ <<s>>[1] = s /\ DOMAIN <<>> = {}
  BY DEF RemoveAt

-----------------------------------------------------------------------------
(* The invariant *)

Types ==
  /\ left \in Scenario
  /\ boot \in [step : {"off", "migrating", "replacing", "opened", "loaded"}, rest : SUBSET Doc]
  /\ state \in [Doc -> Nat] /\ dirty \in Partial /\ busy \in {"idle", "busy", "broken"}
  /\ savers = <<>> \/ \E s \in Saver : savers = <<s>>
  /\ teardown \in {"none", "waiting", "closing", "closed"}
  /\ docs \in Database /\ old \in Database /\ file \in Partial
  /\ dump \in [step : {"none", "waiting", "ready", "reading"}, rows : Partial, changed : BOOLEAN]

\* While documents are copied, the database has those that don't remain.
isCopy(from) ==
  /\ boot.rest \subseteq DOMAIN from /\ DOMAIN docs = DOMAIN from \ boot.rest
  /\ \A d \in DOMAIN docs : docs[d].value = from[d]
Opening ==
  /\ boot.step # "loaded" => savers = <<>> /\ dump = NoDump /\ teardown = "none"
  /\ old # Nothing => block \in DOMAIN old
  /\ file # Nothing => block \in DOMAIN file
  /\ boot.step = "off" /\ ~cutShort => docs = Nothing \/ block \in DOMAIN docs
  /\ boot.step = "opened" /\ ~cutShort => block \in DOMAIN docs \/ (docs = Nothing /\ old = Nothing)
  /\ boot.step = "loaded" => block \in DOMAIN docs
  /\ boot.step = "migrating" => old # Nothing /\ isCopy(values(old))
  /\ boot.step = "replacing" => file # Nothing /\ isCopy(file)

\* Nothing else writes to the database while a saveDatabase does, which never fails to write something.
Saving ==
  /\ busy = "broken" => savers = <<>>
  /\ \A i \in DOMAIN savers :
       /\ teardown # "closed" /\ savers[i].failed = {}
       /\ savers[i].step \in {"start", "ended"} => savers[i].data = Nothing
       /\ savers[i].step = "fetched" =>
            savers[i].revs = [d \in DOMAIN savers[i].data \cap DOMAIN docs |-> docs[d].rev]

\* A dump that nothing disturbed has the rows of the database.
Dumping ==
  /\ dump.step = "none" => dump = NoDump
  /\ ~dump.changed => /\ DOMAIN dump.rows \subseteq DOMAIN docs
                      /\ \A d \in DOMAIN dump.rows : dump.rows[d] = docs[d].value

\* What is dirty, what is being written, and what is in the database, one over the other, are the store.
Covered ==
  ~cutShort /\ boot.step = "loaded" /\ busy # "broken" /\ teardown # "closed"
    => state = whole(over(dirty, over(unwritten(savers), kept)))

Persisted == Types /\ Opening /\ Saving /\ Dumping /\ Covered

RunningTypes ==
  /\ started \in {"undefined", "true", "false"} /\ subscribed \subseteq Epic /\ notified \in 0..2 /\ forced \subseteq Epic
  /\ calls \in [Call -> [job : {"none", "asked", "sending", "done", "cut"},
                         promise : {"none", "pending", "resolved", "rejected", "lost"}]]
\* Epics run only while the client does; those that others need end after them.
Running ==
  /\ RunningTypes
  /\ boot.step # "loaded" => started = "undefined"
  /\ teardown # "none" => started = "false"
  /\ started # "true" => subscribed = {}
  /\ "transfers" \in subscribed => "transport" \in subscribed
  /\ \A c \in Call : calls[c].job \in {"asked", "sending"} => "transfers" \in subscribed /\ calls[c].promise = "pending"

LEMMA KeptIs ==
  Types /\ Opening => kept \in Partial /\ (boot.step = "loaded" => kept = values(docs))
<1> SUFFICES ASSUME Types, Opening
             PROVE  kept \in Partial /\ (boot.step = "loaded" => kept = values(docs))
  OBVIOUS
<1>1. values(docs) \in Partial /\ values(old) \in Partial /\ file \in Partial
  BY ValuesAre DEF Types
<1>2. boot.step = "loaded" => docs # Nothing
  BY NothingIs DEF Opening
<1> QED
  BY <1>1, <1>2 DEF kept

LEMMA KeptIsToo ==
  (Types /\ Opening)' => (kept \in Partial /\ (boot.step = "loaded" => kept = values(docs)))'
  BY KeptIs, PTL

LEMMA PersistedStays ==
  ASSUME Persisted, UNCHANGED persistenceVars
  PROVE  Persisted'
<1> USE DEF persistenceVars, storeVars, dbVars
<1>1. Types' /\ Dumping'
  BY DEF Persisted, Types, Dumping
<1>2. Opening'
  BY DEF Persisted, Opening, isCopy
<1>3. Saving'
  BY DEF Persisted, Saving
<1>4. Covered'
  BY DEF Persisted, Covered, kept
<1> QED
  BY <1>1, <1>2, <1>3, <1>4 DEF Persisted

\* What is over the database is the store after a change, if it was before.
LEMMA ChangeIsCovered ==
  ASSUME NEW f \in Partial, NEW g \in Partial, NEW D \in SUBSET Doc, state \in [Doc -> Nat], state = whole(over(f, g))
  PROVE  /\ over([d \in D |-> state[d] + 1], f) \in Partial
         /\ [d \in Doc |-> IF d \in D THEN state[d] + 1 ELSE state[d]]
              = whole(over(over([d \in D |-> state[d] + 1], f), g))
<1> DEFINE h == [d \in D |-> state[d] + 1]
<1>1. h \in [D -> Nat] /\ DOMAIN h = D /\ \A d \in D : h[d] = state[d] + 1
  OBVIOUS
<1> HIDE DEF h
<1>2. h \in Partial
  BY <1>1, IsPartial
<1>3. over(h, f) \in Partial /\ over(over(h, f), g) = over(h, over(f, g))
  <2>1. over(h, over(f, g)) = over(over(h, f), g)
    BY <1>2, OverOver
  <2>2. over(h, f) \in Partial
    BY <1>2, OverIs
  <2> QED
    BY <2>1, <2>2
<1>4. over(f, g) \in Partial
  BY OverIs
<1>5. whole(over(h, over(f, g))) = [d \in Doc |-> IF d \in DOMAIN h THEN h[d] ELSE state[d]]
  BY <1>2, <1>4, WholeOver
<1>6. whole(over(h, over(f, g))) = [d \in Doc |-> IF d \in D THEN state[d] + 1 ELSE state[d]]
  BY <1>1, <1>5
<1> QED
  BY <1>3, <1>6 DEF h

\* The scenario has one thing less to come.
LEMMA LeftIsTaken ==
  ASSUME left \in Scenario
  PROVE  /\ left.changes > 0 => [left EXCEPT !.changes = left.changes - 1] \in Scenario
         /\ left.dumps > 0 => [left EXCEPT !.dumps = left.dumps - 1] \in Scenario
         /\ left.errors > 0 => [left EXCEPT !.errors = left.errors - 1] \in Scenario
         /\ left.crashes > 0 => [left EXCEPT !.crashes = left.crashes - 1] \in Scenario
         /\ left.stops > 0 => [left EXCEPT !.stops = left.stops - 1] \in Scenario
         /\ left.replaces > 0 => [left EXCEPT !.replaces = left.replaces - 1] \in Scenario
         /\ left.calls > 0 => [left EXCEPT !.calls = left.calls - 1] \in Scenario
         /\ left.answers > 0 => [left EXCEPT !.answers = left.answers - 1] \in Scenario
<1>1. left.changes > 0 => [left EXCEPT !.changes = left.changes - 1] \in Scenario
  BY DEF Scenario
<1>2. left.dumps > 0 => [left EXCEPT !.dumps = left.dumps - 1] \in Scenario
  BY DEF Scenario
<1>3. left.errors > 0 => [left EXCEPT !.errors = left.errors - 1] \in Scenario
  BY DEF Scenario
<1>4. left.crashes > 0 => [left EXCEPT !.crashes = left.crashes - 1] \in Scenario
  BY DEF Scenario
<1>5. left.stops > 0 => [left EXCEPT !.stops = left.stops - 1] \in Scenario
  BY DEF Scenario
<1>6. left.replaces > 0 => [left EXCEPT !.replaces = left.replaces - 1] \in Scenario
  BY DEF Scenario
<1>7. left.calls > 0 => [left EXCEPT !.calls = left.calls - 1] \in Scenario
  BY DEF Scenario
<1>8. left.answers > 0 => [left EXCEPT !.answers = left.answers - 1] \in Scenario
  BY DEF Scenario
<1> QED
  BY <1>1, <1>2, <1>3, <1>4, <1>5, <1>6, <1>7, <1>8

\* There is one saveDatabase, if any.
LEMMA TheSaver ==
  ASSUME Persisted, NEW i \in DOMAIN savers
  PROVE  i = 1 /\ \E s \in Saver : savers = <<s>> /\ savers[i] = s
  BY Lists DEF Persisted, Types

LEMMA DispatchPersists ==
  ASSUME Persisted, boot.step = "loaded", teardown = "none", NEW D \in SUBSET Doc, dispatch(D), ~overlapped',
         left' \in Scenario, UNCHANGED <<boot, teardown, dbVars, dump, file, cutShort>>
  PROVE  Persisted'
<1> USE DEF dbVars
<1>2. \/ savers' = savers /\ (busy' = busy)
      \/ savers = <<>> /\ savers' = <<saver("start", Nothing)>> /\ busy = "idle" /\ busy' = "busy"
  BY Lists DEF dispatch
<1>3. saver("start", Nothing) \in Saver
  BY NothingIs DEF saver, Saver
<1>4. state' \in [Doc -> Nat] /\ dirty' \in Partial
  <2>1. [d \in D |-> state[d] + 1] \in Partial
    <3>1. [d \in D |-> state[d] + 1] \in [D -> Nat]
      BY DEF Persisted, Types
    <3> QED
      BY <3>1, IsPartial
  <2>2. dirty \in Partial /\ state \in [Doc -> Nat]
    BY DEF Persisted, Types
  <2>3. dirty' \in Partial
    BY <2>1, <2>2, OverIs DEF dispatch
  <2>4. state' \in [Doc -> Nat]
    BY <2>2 DEF dispatch
  <2> QED
    BY <2>3, <2>4
<1>5. Types'
  BY <1>2, <1>3, <1>4 DEF Persisted, Types
<1>6. Opening'
  BY DEF Persisted, Opening, isCopy
<1>7. Saving'
  <2>1. CASE savers' = savers /\ busy' = busy
    BY <2>1 DEF Persisted, Saving
  <2>2. CASE savers = <<>> /\ savers' = <<saver("start", Nothing)>> /\ busy = "idle" /\ busy' = "busy"
    BY <2>2, Lists DEF Persisted, Saving, saver
  <2> QED
    BY <1>2, <2>1, <2>2
<1>8. Dumping'
  BY DEF Persisted, Dumping
<1>9. unwritten(savers') = unwritten(savers)
  BY <1>2, <1>3, NobodyWrites, OneWrites DEF saver
<1>10. Covered'
  <2> SUFFICES ASSUME ~cutShort, busy # "broken", teardown # "closed"
               PROVE  state' = whole(over(dirty', over(unwritten(savers), kept)))
    BY <1>2, <1>9 DEF Covered, kept
  <2>1. unwritten(savers) \in Partial
    BY NobodyWrites, OneWrites, NothingIs DEF Persisted, Types, Saver
  <2>2. over(unwritten(savers), kept) \in Partial
    BY <2>1, KeptIs, OverIs DEF Persisted
  <2>3. state = whole(over(dirty, over(unwritten(savers), kept)))
    BY DEF Persisted, Covered
  <2> QED
    BY <2>2, <2>3, ChangeIsCovered DEF dispatch, Persisted, Types
<1> QED
  BY <1>5, <1>6, <1>7, <1>8, <1>10 DEF Persisted

LEMMA TakePersists ==
  ASSUME Persisted, NEW i \in DOMAIN savers, takeDirty(i)
  PROVE  Persisted' /\ unwritten(savers) = Nothing /\ unwritten(savers') = dirty
<1> USE DEF dbVars
<1>1. PICK s \in Saver : i = 1 /\ savers = <<s>> /\ savers[i] = s
  BY TheSaver
<1>2. s.step \in {"start", "written"} /\ s.failed = {} /\ (s.step = "start" => s.data = Nothing)
  BY <1>1 DEF takeDirty, Persisted, Saving
<1>3. retried(s) = Nothing
  BY <1>2 DEF retried, Nothing
<1>4. over(retried(s), dirty) = dirty
  BY <1>3, OverNothing DEF Persisted, Types
<1> DEFINE r == saver(IF dirty = Nothing THEN "ended" ELSE "taken", dirty)
<1>5. r \in Saver /\ r.data = dirty /\ r.failed = {} /\ r.step \in {"ended", "taken"} /\ (r.step = "ended" => dirty = Nothing)
  BY NothingIs DEF saver, Saver, Persisted, Types
<1>6. savers' = <<r>>
  BY <1>1, <1>4, Lists DEF takeDirty
<1> HIDE DEF r
<1>7. UNCHANGED <<left, boot, state, busy, teardown, docs, old, dump, file, cutShort>> /\ dirty' = Nothing
  BY DEF takeDirty
<1>8. Types'
  BY <1>5, <1>6, <1>7, NothingIs DEF Persisted, Types
<1>9. Opening'
  BY <1>1, <1>7, Lists DEF Persisted, Opening, isCopy
<1>10. Saving'
  <2>1. DOMAIN savers' = {1} /\ savers'[1] = r
    BY <1>6, Lists
  <2>2. busy # "broken" /\ teardown # "closed"
    BY <1>1 DEF Persisted, Saving
  <2> QED
    BY <1>5, <1>7, <2>1, <2>2 DEF Saving
<1>11. Dumping'
  BY <1>7 DEF Persisted, Dumping
<1>12. unwritten(savers) = Nothing
  BY <1>1, <1>2, OneWrites
<1>13. unwritten(savers') = dirty
  BY <1>5, <1>6, OneWrites
<1>14. Covered'
  <2> SUFFICES ASSUME ~cutShort, boot.step = "loaded", busy # "broken", teardown # "closed"
               PROVE  state = whole(over(Nothing, over(dirty, kept)))
    BY <1>7, <1>13 DEF Covered, kept
  <2>1. kept \in Partial /\ dirty \in Partial
    BY KeptIs DEF Persisted, Types
  <2>2. over(Nothing, kept) = kept /\ over(dirty, kept) \in Partial
    BY <2>1, OverNothing, OverIs
  <2>3. over(Nothing, over(dirty, kept)) = over(dirty, kept)
    BY <2>2, OverNothing
  <2> QED
    BY <1>12, <2>2, <2>3 DEF Persisted, Covered
<1> QED
  BY <1>8, <1>9, <1>10, <1>11, <1>12, <1>13, <1>14 DEF Persisted

LEMMA FetchPersists ==
  ASSUME Persisted, NEW i \in DOMAIN savers, fetchRevs(i)
  PROVE  Persisted' /\ unwritten(savers') = unwritten(savers)
<1> USE DEF dbVars
<1>1. PICK s \in Saver : i = 1 /\ savers = <<s>> /\ savers[i] = s
  BY TheSaver
<1> DEFINE revs == [d \in DOMAIN s.data \cap DOMAIN docs |-> docs[d].rev]
           r == [s EXCEPT !.step = "fetched", !.revs = revs]
<1>2. revs \in Partial
  <2>1. DOMAIN s.data \cap DOMAIN docs \in SUBSET Doc
    BY DatabaseIs DEF Persisted, Types
  <2>2. revs \in [DOMAIN s.data \cap DOMAIN docs -> Nat]
    BY DatabaseIs DEF Persisted, Types
  <2> QED
    BY <2>1, <2>2, IsPartial
<1> HIDE DEF revs
<1>3. r \in Saver /\ r.step = "fetched" /\ r.data = s.data /\ r.failed = s.failed /\ r.revs = revs
  BY <1>2 DEF Saver
<1>4. savers' = <<r>> /\ s.step = "taken"
  BY <1>1, Lists DEF fetchRevs, revs
<1> HIDE DEF r
<1>5. UNCHANGED <<left, boot, state, dirty, busy, teardown, docs, old, dump, file, cutShort>>
  BY DEF fetchRevs
<1>6. Types'
  BY <1>3, <1>4, <1>5 DEF Persisted, Types
<1>7. Opening'
  BY <1>1, <1>5, Lists DEF Persisted, Opening, isCopy
<1>8. Saving'
  <2>1. DOMAIN savers' = {1} /\ savers'[1] = r
    BY <1>4, Lists
  <2>2. busy # "broken" /\ teardown # "closed" /\ s.failed = {}
    BY <1>1 DEF Persisted, Saving
  <2>3. r.revs = [d \in DOMAIN r.data \cap DOMAIN docs |-> docs[d].rev]
    BY <1>3 DEF revs
  <2> QED
    BY <1>3, <1>5, <2>1, <2>2, <2>3 DEF Saving
<1>9. Dumping'
  BY <1>5 DEF Persisted, Dumping
<1>10. unwritten(savers') = unwritten(savers)
  BY <1>1, <1>3, <1>4, OneWrites
<1>11. Covered'
  BY <1>5, <1>10 DEF Persisted, Covered, kept
<1> QED
  BY <1>6, <1>7, <1>8, <1>9, <1>10, <1>11 DEF Persisted

LEMMA BulkPersists ==
  ASSUME Persisted, NEW i \in DOMAIN savers, bulkDocs(i)
  PROVE  /\ Persisted' /\ boot.step = "loaded"
         /\ values(docs') = over(unwritten(savers), values(docs)) /\ unwritten(savers') = Nothing
<1> USE DEF dbVars
<1>1. PICK s \in Saver : i = 1 /\ savers = <<s>> /\ savers[i] = s
  BY TheSaver
<1>2. /\ s.step = "fetched" /\ s.data \in Partial /\ s.failed = {}
      /\ s.revs = [d \in DOMAIN s.data \cap DOMAIN docs |-> docs[d].rev]
      /\ busy # "broken" /\ teardown # "closed"
  BY <1>1 DEF bulkDocs, Persisted, Saving, Saver
<1>3. {d \in DOMAIN s.data : isFresh(s, d)} = DOMAIN s.data
  BY <1>2 DEF isFresh
<1>4. Restrict(s.data, DOMAIN s.data) = s.data
  BY <1>2, PartialIs DEF Restrict
<1>5. docs' = put(s.data)
  BY <1>1, <1>3, <1>4 DEF bulkDocs
<1> DEFINE r == [s EXCEPT !.step = "written", !.failed = {}]
<1>6. savers' = <<r>>
  <2>1. savers' = [savers EXCEPT ![i] = [s EXCEPT !.step = "written", !.failed = DOMAIN s.data \ DOMAIN s.data]]
    BY <1>1, <1>3 DEF bulkDocs
  <2>2. DOMAIN s.data \ DOMAIN s.data = {}
    OBVIOUS
  <2> QED
    BY <1>1, <2>1, <2>2, Lists
<1>7. r \in Saver /\ r.step = "written" /\ r.failed = {}
  BY DEF Saver
<1> HIDE DEF r
<1>8. /\ docs' \in Database /\ DOMAIN docs' = DOMAIN s.data \cup DOMAIN docs
      /\ values(docs') = over(s.data, values(docs))
  BY <1>2, <1>5, PutIs DEF Persisted, Types
<1>9. boot.step = "loaded"
  BY <1>1, Lists DEF Persisted, Opening
<1>10. /\ UNCHANGED <<left, boot, state, dirty, busy, teardown, old, file, cutShort>>
       /\ dump' = [dump EXCEPT !.changed = dump.step # "none"]
  BY DEF bulkDocs
<1>11. Types'
  BY <1>6, <1>7, <1>8, <1>10 DEF Persisted, Types
<1>12. Opening'
  BY <1>8, <1>9, <1>10 DEF Persisted, Opening
<1>13. Saving'
  BY <1>2, <1>6, <1>7, <1>10, Lists DEF Persisted, Saving, Types
<1>14. Dumping'
  <2>1. CASE dump.step = "none"
    <3>1. dump' = NoDump
      <4>1. dump = [step |-> "none", rows |-> Nothing, changed |-> FALSE]
        BY <2>1 DEF Persisted, Dumping, NoDump
      <4>2. (dump.step # "none") = FALSE
        BY <2>1
      <4>3. dump' = [dump EXCEPT !.changed = FALSE]
        BY <1>10, <4>2
      <4> QED
        BY <4>1, <4>3 DEF NoDump
    <3> QED
      BY <3>1, NothingIs DEF Dumping, NoDump
  <2>2. CASE dump.step # "none"
    BY <1>10, <2>2 DEF Persisted, Dumping, Types
  <2> QED
    BY <2>1, <2>2
<1>15. unwritten(savers) = s.data /\ unwritten(savers') = Nothing
  BY <1>1, <1>2, <1>6, <1>7, OneWrites
<1>16. Covered'
  <2> SUFFICES ASSUME ~cutShort, busy # "broken", teardown # "closed"
               PROVE  state = whole(over(dirty, over(Nothing, values(docs'))))
    BY <1>9, <1>10, <1>11, <1>12, <1>15, KeptIsToo DEF Covered
  <2>1. values(docs') \in Partial
    BY <1>8, ValuesAre
  <2>2. over(Nothing, values(docs')) = values(docs')
    BY <2>1, OverNothing
  <2> QED
    BY <1>8, <1>9, <1>15, <2>2, KeptIs DEF Persisted, Covered
<1> QED
  BY <1>8, <1>9, <1>11, <1>12, <1>13, <1>14, <1>15, <1>16 DEF Persisted

LEMMA EndPersists ==
  ASSUME Persisted, NEW i \in DOMAIN savers, endSave(i)
  PROVE  Persisted' /\ unwritten(savers) = Nothing /\ unwritten(savers') = Nothing
<1> USE DEF dbVars
<1>1. PICK s \in Saver : i = 1 /\ savers = <<s>> /\ savers[i] = s
  BY TheSaver
<1>2. s.step = "ended" /\ s.data = Nothing /\ busy # "broken"
  BY <1>1 DEF endSave, Persisted, Saving
<1>3. savers' = <<>> /\ UNCHANGED <<left, boot, state, dirty, docs, old, file, cutShort>>
  BY <1>1, Lists DEF endSave
<1>4. /\ busy' = IF teardown = "waiting" THEN "busy" ELSE "idle"
      /\ teardown' = IF teardown = "waiting" THEN "closing" ELSE teardown
      /\ dump' = IF dump.step = "waiting" THEN [dump EXCEPT !.step = "ready"] ELSE dump
  BY <1>2 DEF endSave, becomeIdle
<1>5. boot.step = "loaded"
  BY <1>1, Lists DEF Persisted, Opening
<1>6. Types'
  BY <1>3, <1>4 DEF Persisted, Types
<1>7. Opening'
  BY <1>3, <1>5 DEF Persisted, Opening
<1>8. Saving'
  BY <1>3, Lists DEF Saving
<1>9. Dumping'
  BY <1>3, <1>4 DEF Persisted, Dumping, Types
<1>10. unwritten(savers) = Nothing /\ unwritten(savers') = Nothing
  BY <1>1, <1>2, <1>3, OneWrites, NobodyWrites
<1>11. Covered'
  BY <1>2, <1>3, <1>4, <1>10 DEF Persisted, Covered, kept
<1> QED
  BY <1>6, <1>7, <1>8, <1>9, <1>10, <1>11 DEF Persisted

LEMMA FailPersists ==
  ASSUME Persisted, NEW i \in DOMAIN savers, saveFails(i)
  PROVE  Persisted' /\ boot.step = "loaded" /\ unwritten(savers') = Nothing
<1> USE DEF dbVars
<1>1. PICK s \in Saver : i = 1 /\ savers = <<s>> /\ savers[i] = s
  BY TheSaver
<1>3. /\ savers' = <<>> /\ busy' = "broken" /\ UNCHANGED <<boot, state, dirty, docs, old, file, cutShort>>
      /\ teardown' = IF teardown = "waiting" THEN "closing" ELSE teardown
      /\ dump' = IF dump.step = "waiting" THEN NoDump ELSE dump
  BY <1>1, Lists DEF saveFails
<1>4. left' \in Scenario
  <2>1. left.errors > 0 /\ left' = [left EXCEPT !.errors = left.errors - 1]
    BY DEF saveFails
  <2> QED
    BY <2>1, LeftIsTaken DEF Persisted, Types
<1>5. boot.step = "loaded"
  BY <1>1, Lists DEF Persisted, Opening
<1>6. NoDump \in [step : {"none", "waiting", "ready", "reading"}, rows : Partial, changed : BOOLEAN]
  BY NothingIs DEF NoDump
<1>7. Types'
  BY <1>3, <1>4, <1>6 DEF Persisted, Types
<1>8. Opening'
  BY <1>3, <1>5 DEF Persisted, Opening
<1>9. Saving'
  BY <1>3, Lists DEF Saving
<1>10. Dumping'
  BY <1>3, NothingIs DEF Persisted, Dumping, Types, NoDump
<1>11. Covered'
  BY <1>3 DEF Covered
<1> QED
  BY <1>3, <1>5, <1>7, <1>8, <1>9, <1>10, <1>11, NobodyWrites DEF Persisted

(* Dumps *)

LEMMA StartDumpPersists ==
  ASSUME Persisted, startDump
  PROVE  Persisted'
<1>1. /\ UNCHANGED <<boot, state, dirty, busy, savers, teardown, docs, old, file, cutShort>>
      /\ boot.step = "loaded" /\ busy # "broken"
      /\ dump' = [NoDump EXCEPT !.step = IF busy = "idle" THEN "ready" ELSE "waiting"]
  BY DEF startDump, storeVars, dbVars
<1>2. left' \in Scenario
  <2>1. left.dumps > 0 /\ left' = [left EXCEPT !.dumps = left.dumps - 1]
    BY DEF startDump
  <2> QED
    BY <2>1, LeftIsTaken DEF Persisted, Types
<1>3. /\ dump'.step = IF busy = "idle" THEN "ready" ELSE "waiting"
      /\ dump'.rows = Nothing /\ dump'.changed = FALSE
      /\ dump' \in [step : {"none", "waiting", "ready", "reading"}, rows : Partial, changed : BOOLEAN]
  BY <1>1, NothingIs DEF NoDump
<1>4. Types'
  BY <1>1, <1>2, <1>3 DEF Persisted, Types
<1>5. Opening'
  BY <1>1 DEF Persisted, Opening
<1>6. Saving'
  <2>1. UNCHANGED <<busy, savers, teardown, docs>>
    BY <1>1
  <2> QED
    BY <2>1 DEF Persisted, Saving
<1>7. Dumping'
  BY <1>1, <1>3, NothingIs DEF Dumping
<1>8. Covered'
  BY <1>1 DEF Persisted, Covered, kept
<1> QED
  BY <1>4, <1>5, <1>6, <1>7, <1>8 DEF Persisted

LEMMA BeginDumpPersists ==
  ASSUME Persisted, beginDump
  PROVE  Persisted'
<1>1. /\ UNCHANGED <<left, boot, state, dirty, savers, teardown, docs, old, file, cutShort>>
      /\ busy' = IF busy = "broken" THEN busy ELSE "busy"
      /\ dump.step = "ready" /\ dump' = [dump EXCEPT !.step = "reading"]
  BY DEF beginDump, dbVars
<1>2. dump'.step = "reading" /\ dump'.rows = dump.rows /\ dump'.changed = dump.changed
  BY <1>1 DEF Persisted, Types
<1>4. Types'
  BY <1>1 DEF Persisted, Types
<1>5. Opening'
  <2>1. boot.step = "loaded"
    BY <1>1 DEF Persisted, Opening, NoDump
  <2> QED
    BY <1>1, <2>1 DEF Persisted, Opening
<1>6. Saving'
  BY <1>1 DEF Persisted, Saving
<1>7. Dumping'
  BY <1>1, <1>2 DEF Persisted, Dumping
<1>8. Covered'
  BY <1>1 DEF Persisted, Covered, kept
<1> QED
  BY <1>4, <1>5, <1>6, <1>7, <1>8 DEF Persisted

LEMMA ReadPersists ==
  ASSUME Persisted, readBatch
  PROVE  Persisted'
<1> DEFINE d == first(next)
           row == Restrict(values(docs), {d})
<1>1. /\ UNCHANGED <<left, boot, state, dirty, busy, savers, teardown, docs, old, file, cutShort>>
      /\ dump.step = "reading" /\ ~dump.changed /\ next # {}
      /\ dump' = [dump EXCEPT !.rows = over(row, dump.rows)]
  BY DEF readBatch, isValid, storeVars, dbVars
<1>2. d \in DOMAIN docs /\ DOMAIN docs \subseteq Doc
  <2>1. next \in SUBSET Doc /\ next \subseteq DOMAIN docs
    BY DatabaseIs DEF next, Persisted, Types
  <2> QED
    BY <1>1, <2>1, FirstIsIn, DatabaseIs DEF Persisted, Types
<1>3. row \in Partial /\ DOMAIN row = {d} /\ row[d] = docs[d].value
  <2>1. values(docs) \in Partial /\ DOMAIN values(docs) = DOMAIN docs /\ values(docs)[d] = docs[d].value
    BY <1>2, ValuesAre DEF Persisted, Types
  <2>2. row \in [{d} -> Nat] /\ row[d] = docs[d].value
    BY <1>2, <2>1, PartialIs DEF Restrict
  <2> HIDE DEF row
  <2> QED
    BY <1>2, <2>2, IsPartial
<1> HIDE DEF row, d
<1>4. dump.rows \in Partial
  BY DEF Persisted, Types
<1> DEFINE rows == over(row, dump.rows)
<1>5. /\ rows \in Partial /\ DOMAIN rows = {d} \cup DOMAIN dump.rows
      /\ \A e \in DOMAIN rows : rows[e] = IF e \in {d} THEN row[e] ELSE dump.rows[e]
  <2>1. /\ rows \in Partial /\ DOMAIN rows = DOMAIN row \cup DOMAIN dump.rows
        /\ \A e \in DOMAIN row : rows[e] = row[e]
        /\ \A e \in DOMAIN dump.rows : e \notin DOMAIN row => rows[e] = dump.rows[e]
    BY <1>3, <1>4, OverIs
  <2> HIDE DEF rows
  <2> QED
    BY <1>3, <2>1
<1> HIDE DEF rows
<1>6. /\ dump'.step = "reading" /\ dump'.rows = rows /\ dump'.changed = FALSE
      /\ dump' \in [step : {"none", "waiting", "ready", "reading"}, rows : Partial, changed : BOOLEAN]
  BY <1>1, <1>5 DEF Persisted, Types, rows
<1>7. boot.step = "loaded"
  BY <1>1 DEF Persisted, Opening, NoDump
<1>8. Types'
  BY <1>1, <1>6 DEF Persisted, Types
<1>9. Opening'
  BY <1>1, <1>7 DEF Persisted, Opening
<1>10. Saving'
  <2>1. UNCHANGED <<busy, savers, teardown, docs>>
    BY <1>1
  <2> QED
    BY <2>1 DEF Persisted, Saving
<1>11. Dumping'
  BY <1>1, <1>2, <1>3, <1>5, <1>6 DEF Persisted, Dumping
<1>12. Covered'
  BY <1>1 DEF Persisted, Covered, kept
<1> QED
  BY <1>8, <1>9, <1>10, <1>11, <1>12 DEF Persisted

LEMMA EndDumpPersists ==
  ASSUME Persisted, endDump
  PROVE  Persisted' /\ boot.step = "loaded" /\ file' \in {file, values(docs)}
<1>1. /\ UNCHANGED <<left, boot, state, dirty, savers, docs, old, cutShort>>
      /\ dump.step = "reading" /\ (~dump.changed => next = {})
      /\ file' = IF ~dump.changed THEN dump.rows ELSE file
      /\ busy' = IF busy = "broken" THEN busy ELSE IF teardown = "waiting" THEN "busy" ELSE "idle"
      /\ teardown' = IF teardown = "waiting" THEN "closing" ELSE teardown
      /\ dump' = NoDump
  BY DEF endDump, isValid, becomeIdle, dbVars, NoDump
<1>2. boot.step = "loaded" /\ block \in DOMAIN docs
  <2>2. boot.step = "loaded"
    BY <1>1 DEF Persisted, Opening, NoDump
  <2> QED
    BY <2>2 DEF Persisted, Opening
<1>3. ~dump.changed => dump.rows = values(docs)
  <2> SUFFICES ASSUME ~dump.changed
               PROVE  dump.rows = values(docs)
    OBVIOUS
  <2>1. DOMAIN dump.rows = DOMAIN docs /\ \A d \in DOMAIN docs : dump.rows[d] = docs[d].value
    BY <1>1 DEF next, Persisted, Dumping
  <2>2. dump.rows \in [DOMAIN dump.rows -> Nat]
    BY PartialIs DEF Persisted, Types
  <2> QED
    BY <2>1, <2>2 DEF values
<1>4. values(docs) \in Partial /\ block \in DOMAIN values(docs)
  BY <1>2, ValuesAre DEF Persisted, Types
<1>5. NoDump \in [step : {"none", "waiting", "ready", "reading"}, rows : Partial, changed : BOOLEAN]
  BY NothingIs DEF NoDump
<1>6. Types'
  BY <1>1, <1>3, <1>4, <1>5 DEF Persisted, Types
<1>7. Opening'
  BY <1>1, <1>2, <1>3, <1>4 DEF Persisted, Opening
<1>8. Saving'
  BY <1>1 DEF Persisted, Saving
<1>9. Dumping'
  BY <1>1, NothingIs DEF Dumping, NoDump
<1>10. Covered'
  BY <1>1, <1>2 DEF Persisted, Covered, kept
<1> QED
  BY <1>1, <1>2, <1>3, <1>6, <1>7, <1>8, <1>9, <1>10 DEF Persisted

(* Opening *)

\* Before the database is loaded, nothing in memory matters.
LEMMA MemoryStays ==
  ASSUME Persisted, boot.step # "loaded", boot'.step # "loaded", UNCHANGED memory
  PROVE  /\ savers' = <<>> /\ dump' = NoDump /\ teardown' = "none" /\ Saving' /\ Dumping' /\ Covered'
         /\ UNCHANGED <<state, dirty, busy, cutShort>>
<1>1. /\ savers = <<>> /\ dump = NoDump /\ teardown = "none"
      /\ UNCHANGED <<state, dirty, busy, savers, teardown, dump, cutShort>>
  BY DEF Persisted, Opening, memory, storeVars
<1>2. Saving'
  BY <1>1, Lists DEF Saving
<1>3. Dumping'
  BY <1>1, NothingIs DEF Dumping, NoDump
<1> QED
  BY <1>1, <1>2, <1>3 DEF Covered

LEMMA ReplacePersists ==
  ASSUME Persisted, replaceDatabase
  PROVE  Persisted' /\ kept' = file /\ boot.step = "off" /\ boot'.step = "replacing"
<1>1. /\ UNCHANGED <<memory, old, file>> /\ docs' = Nothing /\ boot.step = "off"
      /\ boot' = [step |-> "replacing", rest |-> DOMAIN file] /\ file # Nothing
  BY DEF replaceDatabase, canReplace
<1>2. left' \in Scenario
  <2>1. left.replaces > 0 /\ left' = [left EXCEPT !.replaces = left.replaces - 1]
    BY DEF replaceDatabase
  <2> QED
    BY <2>1, LeftIsTaken DEF Persisted, Types
<1>3. boot'.step = "replacing" /\ boot'.rest = DOMAIN file
  BY <1>1
<1>4. /\ savers' = <<>> /\ dump' = NoDump /\ teardown' = "none" /\ Saving' /\ Dumping' /\ Covered'
      /\ UNCHANGED <<state, dirty, busy, dump>>
  BY <1>1, <1>3, MemoryStays DEF memory
<1>5. DOMAIN file \subseteq Doc
  BY PartialIs DEF Persisted, Types
<1>6. Types'
  BY <1>1, <1>2, <1>4, <1>5, NoDatabase DEF Persisted, Types
<1>7. Opening'
  BY <1>1, <1>3, <1>4, NothingIs DEF Persisted, Opening, isCopy
<1> QED
  BY <1>1, <1>3, <1>4, <1>6, <1>7 DEF Persisted, kept

LEMMA MigratePersists ==
  ASSUME Persisted, migrateDatabase
  PROVE  Persisted' /\ kept' = kept /\ boot.step = "off" /\ boot'.step # "loaded"
<1>1. /\ UNCHANGED <<left, memory, docs, old, file>> /\ boot.step = "off"
      /\ boot' = IF docs = Nothing /\ old # Nothing
                 THEN [step |-> "migrating", rest |-> DOMAIN old] ELSE [boot EXCEPT !.step = "opened"]
  BY DEF migrateDatabase, dbVars
<1>2. DOMAIN old \subseteq Doc /\ DOMAIN values(old) = DOMAIN old
  BY DatabaseIs, ValuesAre DEF Persisted, Types
<1>3. \/ boot' = [step |-> "migrating", rest |-> DOMAIN old] /\ docs = Nothing /\ old # Nothing
      \/ boot' = [boot EXCEPT !.step = "opened"] /\ (docs # Nothing \/ old = Nothing)
  BY <1>1
<1>4. \/ boot'.step = "migrating" /\ boot'.rest = DOMAIN old /\ docs = Nothing /\ old # Nothing
      \/ boot'.step = "opened" /\ (docs # Nothing \/ old = Nothing)
  BY <1>3 DEF Persisted, Types
<1>5. boot' \in [step : {"off", "migrating", "replacing", "opened", "loaded"}, rest : SUBSET Doc]
  BY <1>2, <1>3 DEF Persisted, Types
<1>6. /\ savers' = <<>> /\ dump' = NoDump /\ teardown' = "none" /\ Saving' /\ Dumping' /\ Covered'
      /\ UNCHANGED <<state, dirty, busy, cutShort>>
  BY <1>1, <1>4, MemoryStays
<1>7. Types'
  BY <1>1, <1>5, <1>6 DEF Persisted, Types, memory, storeVars
<1>8. Opening'
  BY <1>1, <1>2, <1>4, <1>6, NothingIs DEF Persisted, Opening, isCopy
<1>9. kept' = kept
  BY <1>1, <1>4 DEF kept
<1> QED
  BY <1>1, <1>4, <1>6, <1>7, <1>8, <1>9 DEF Persisted

\* A copy has one document more after each step, and all of them in the end.
LEMMA CopyPersists ==
  ASSUME Persisted, NEW step \in {"migrating", "replacing"}, NEW from \in Partial, copy(step, from),
         step = "migrating" => from = values(old), step = "replacing" => from = file
  PROVE  Persisted' /\ kept' = kept /\ boot.step # "loaded" /\ boot'.step # "loaded"
<1>1. UNCHANGED <<left, memory, old, file>> /\ boot.step = step
  BY DEF copy
<1>2. isCopy(from) /\ kept = from /\ block \in DOMAIN from
  <2>1. step = "migrating" => isCopy(from) /\ kept = from /\ block \in DOMAIN old
    BY <1>1 DEF Persisted, Opening, kept
  <2>2. step = "replacing" => isCopy(from) /\ kept = from /\ block \in DOMAIN file
    BY <1>1 DEF Persisted, Opening, kept
  <2> QED
    BY <2>1, <2>2, ValuesAre DEF Persisted, Types
<1>3. CASE boot.rest = {}
  <2>1. boot' = [boot EXCEPT !.step = "opened"] /\ docs' = docs
    BY <1>3 DEF copy
  <2>2. boot'.step = "opened" /\ boot' \in [step : {"off", "migrating", "replacing", "opened", "loaded"}, rest : SUBSET Doc]
    BY <2>1 DEF Persisted, Types
  <2>3. /\ savers' = <<>> /\ dump' = NoDump /\ teardown' = "none" /\ Saving' /\ Dumping' /\ Covered'
        /\ UNCHANGED <<state, dirty, busy>>
    BY <1>1, <2>2, MemoryStays
  <2>4. DOMAIN docs = DOMAIN from /\ \A d \in DOMAIN docs : docs[d].value = from[d]
    BY <1>2, <1>3 DEF isCopy
  <2>5. values(docs) = from
    BY <2>4, PartialIs DEF values
  <2>6. Types'
    BY <1>1, <2>1, <2>2, <2>3 DEF Persisted, Types, memory, storeVars
  <2>7. Opening'
    BY <1>1, <1>2, <2>1, <2>2, <2>3, <2>4 DEF Persisted, Opening
  <2>8. docs # Nothing
    BY <1>2, <2>4, NothingIs
  <2> QED
    BY <1>1, <1>2, <2>1, <2>2, <2>3, <2>5, <2>6, <2>7, <2>8 DEF Persisted, kept
<1>4. CASE boot.rest # {}
  <2> DEFINE d == first(boot.rest)
             one == Restrict(from, {d})
  <2>1. d \in boot.rest /\ d \in DOMAIN from /\ d \in Doc
    BY <1>2, <1>4, FirstIsIn DEF isCopy, Persisted, Types
  <2>2. docs' = put(one) /\ boot' = [boot EXCEPT !.rest = boot.rest \ {d}]
    BY <1>4 DEF copy
  <2>3. one \in [{d} -> Nat] /\ one[d] = from[d]
    BY <2>1, PartialIs DEF Restrict
  <2>4. one \in Partial /\ DOMAIN one = {d}
    <3> HIDE DEF one
    <3> QED
      BY <2>1, <2>3, IsPartial
  <2> HIDE DEF one, d
  <2>5. /\ docs' \in Database /\ DOMAIN docs' = {d} \cup DOMAIN docs
        /\ values(docs') = over(one, values(docs))
    BY <2>2, <2>4, PutIs DEF Persisted, Types
  <2>6. boot'.step = step /\ boot'.rest = boot.rest \ {d}
        /\ boot' \in [step : {"off", "migrating", "replacing", "opened", "loaded"}, rest : SUBSET Doc]
    BY <1>1, <2>2 DEF Persisted, Types
  <2>7. /\ savers' = <<>> /\ dump' = NoDump /\ teardown' = "none" /\ Saving' /\ Dumping' /\ Covered'
        /\ UNCHANGED <<state, dirty, busy>>
    BY <1>1, <2>6, MemoryStays
  <2>8. \A e \in DOMAIN docs' : docs'[e].value = from[e]
    <3> SUFFICES ASSUME NEW e \in DOMAIN docs'
                 PROVE  docs'[e].value = from[e]
      OBVIOUS
    <3>1. docs'[e].value = over(one, values(docs))[e]
      BY <2>5, ValuesAre
    <3>2. values(docs) \in Partial /\ DOMAIN values(docs) = DOMAIN docs /\ \A x \in DOMAIN docs : values(docs)[x] = docs[x].value
      BY ValuesAre DEF Persisted, Types
    <3>3. CASE e = d
      <4>1. \A x \in DOMAIN one : over(one, values(docs))[x] = one[x]
        BY <2>4, <3>2, OverIs
      <4> QED
        BY <2>3, <2>4, <3>1, <3>3, <4>1
    <3>4. CASE e # d
      <4>1. e \in DOMAIN docs /\ e \notin DOMAIN one
        BY <2>4, <2>5, <3>4
      <4>2. over(one, values(docs))[e] = values(docs)[e]
        <5>1. \A x \in DOMAIN values(docs) : x \notin DOMAIN one => over(one, values(docs))[x] = values(docs)[x]
          BY <2>4, <3>2, OverIs
        <5> QED
          BY <3>2, <4>1, <5>1
      <4> QED
        BY <1>2, <3>1, <3>2, <4>1, <4>2 DEF isCopy
    <3> QED
      BY <3>3, <3>4
  <2>9. boot'.rest \subseteq DOMAIN from /\ DOMAIN docs' = DOMAIN from \ boot'.rest
    BY <1>2, <2>1, <2>5, <2>6 DEF isCopy
  <2>10. Types'
    BY <1>1, <2>5, <2>6, <2>7 DEF Persisted, Types, memory, storeVars
  <2>11. step = "migrating" => isCopy(values(old))'
    BY <1>1, <2>8, <2>9 DEF isCopy
  <2>12. step = "replacing" => isCopy(file)'
    BY <1>1, <2>8, <2>9 DEF isCopy
  <2>13. Opening'
    BY <1>1, <2>6, <2>7, <2>11, <2>12 DEF Persisted, Opening
  <2>14. kept' = kept
    BY <1>1, <2>6 DEF kept
  <2> QED
    BY <1>1, <2>6, <2>7, <2>10, <2>13, <2>14 DEF Persisted
<1> QED
  BY <1>3, <1>4

LEMMA MigrationFailsPersists ==
  ASSUME Persisted, migrationFails
  PROVE  Persisted' /\ kept' = kept /\ boot.step # "loaded" /\ boot'.step # "loaded"
<1>1. /\ UNCHANGED <<memory, old, file>> /\ docs' = Nothing /\ boot.step = "migrating"
      /\ boot' = [step |-> "off", rest |-> {}]
  BY DEF migrationFails
<1>2. left' \in Scenario
  <2>1. left.errors > 0 /\ left' = [left EXCEPT !.errors = left.errors - 1]
    BY DEF migrationFails
  <2> QED
    BY <2>1, LeftIsTaken DEF Persisted, Types
<1>3. /\ savers' = <<>> /\ dump' = NoDump /\ teardown' = "none" /\ Saving' /\ Dumping' /\ Covered'
      /\ UNCHANGED <<state, dirty, busy>>
  BY <1>1, MemoryStays
<1>4. Types'
  BY <1>1, <1>2, <1>3, NoDatabase DEF Persisted, Types, memory
<1>5. Opening'
  BY <1>1, <1>3 DEF Persisted, Opening
<1> QED
  BY <1>1, <1>3, <1>4, <1>5 DEF Persisted, kept

LEMMA LoadPersists ==
  ASSUME Persisted, load
  PROVE  /\ Persisted' /\ boot.step = "opened" /\ boot'.step = "loaded" /\ UNCHANGED cutShort
         /\ ~cutShort => whole(kept') = whole(kept) /\ state' = whole(kept)
<1>1. /\ UNCHANGED <<left, old, file, cutShort>> /\ boot.step = "opened" /\ boot' = [boot EXCEPT !.step = "loaded"]
      /\ dirty' = Nothing /\ busy' = "idle" /\ savers' = <<>> /\ teardown' = "none" /\ dump' = NoDump
  BY DEF load
<1>2. boot'.step = "loaded" /\ boot' \in [step : {"off", "migrating", "replacing", "opened", "loaded"}, rest : SUBSET Doc]
  BY <1>1 DEF Persisted, Types
<1>3. NoDump \in [step : {"none", "waiting", "ready", "reading"}, rows : Partial, changed : BOOLEAN]
  BY NothingIs DEF NoDump
<1>4. /\ docs' \in Database /\ block \in DOMAIN docs' /\ state' \in [Doc -> Nat]
      /\ ~cutShort => state' = whole(kept) /\ whole(kept) = whole(values(docs'))
  <2>1. kept \in Partial
    BY KeptIs DEF Persisted
  <2>2. whole(kept) \in [Doc -> Nat]
    BY <2>1, WholeIs, PartialIs
  <2>3. CASE block \in DOMAIN docs
    <3>1. docs # Nothing
      BY <2>3, NothingIs
    <3>2. kept = values(docs)
      BY <1>1, <3>1 DEF kept
    <3> QED
      BY <2>1, <2>2, <2>3, <3>2 DEF load, whole, Persisted, Types
  <2>4. CASE block \notin DOMAIN docs
    <3> DEFINE fresh == Initially({block})
    <3>1. ~cutShort => docs = Nothing /\ old = Nothing
      BY <1>1, <2>4 DEF Persisted, Opening
    <3>2. ~cutShort => kept = Nothing
      BY <1>1, <3>1, NoDatabase DEF kept
    <3>3. state' = Initially(Doc) /\ docs' = put(fresh)
      BY <2>4 DEF load
    <3>4. fresh \in [{block} -> Nat] /\ fresh[block] = 0
      BY DEF Initially
    <3> HIDE DEF fresh
    <3>5. fresh \in Partial /\ DOMAIN fresh = {block}
      BY <3>4, IsPartial, PersistenceAssumption
    <3>6. docs' \in Database /\ DOMAIN docs' = {block} \cup DOMAIN docs /\ values(docs') = over(fresh, values(docs))
      BY <3>3, <3>5, PutIs DEF Persisted, Types
    <3>7. ~cutShort => values(docs') = fresh
      BY <3>1, <3>5, <3>6, NoDatabase, OverNothing
    <3>8. whole(fresh) = [d \in Doc |-> IF d \in DOMAIN fresh THEN fresh[d] ELSE 0]
      BY <3>5, WholeIs
    <3>9. whole(fresh) = Initially(Doc)
      BY <3>4, <3>5, <3>8 DEF Initially
    <3>10. whole(Nothing) = Initially(Doc)
      BY NothingIs, WholeIs DEF Initially
    <3>11. Initially(Doc) \in [Doc -> Nat]
      BY DEF Initially
    <3> QED
      BY <3>2, <3>3, <3>6, <3>7, <3>9, <3>10, <3>11
  <2> QED
    BY <2>3, <2>4
<1>5. Types'
  BY <1>1, <1>2, <1>3, <1>4, NothingIs DEF Persisted, Types
<1>6. Opening'
  BY <1>1, <1>2, <1>4 DEF Persisted, Opening
<1>7. Saving'
  BY <1>1, Lists DEF Saving
<1>8. Dumping'
  BY <1>1, NothingIs DEF Dumping, NoDump
<1>9. kept' = values(docs')
  BY <1>2, <1>5, <1>6, KeptIsToo
<1>10. Covered'
  <2>1. values(docs') \in Partial
    BY <1>4, ValuesAre
  <2>2. over(Nothing, over(Nothing, values(docs'))) = values(docs')
    BY <2>1, OverNothing
  <2> QED
    BY <1>1, <1>4, <1>9, <2>2, NobodyWrites DEF Covered
<1> QED
  BY <1>1, <1>2, <1>4, <1>5, <1>6, <1>7, <1>8, <1>9, <1>10 DEF Persisted

(* Closing *)

LEMMA TeardownPersists ==
  ASSUME Persisted, startTeardown, boot.step = "loaded"
  PROVE  Persisted'
<1>1. /\ UNCHANGED <<left, boot, state, dirty, savers, docs, old, dump, file, cutShort>>
      /\ teardown = "none" /\ teardown' = IF busy = "busy" THEN "waiting" ELSE "closing"
      /\ busy' = IF busy = "idle" THEN "busy" ELSE busy
  BY DEF startTeardown, dbVars
<1>2. Types'
  BY <1>1 DEF Persisted, Types
<1>3. Opening'
  BY <1>1 DEF Persisted, Opening
<1>4. Saving'
  BY <1>1 DEF Persisted, Saving
<1>5. Dumping'
  BY <1>1 DEF Persisted, Dumping
<1>6. Covered'
  BY <1>1 DEF Persisted, Covered, kept, Types
<1> QED
  BY <1>2, <1>3, <1>4, <1>5, <1>6 DEF Persisted

LEMMA ClosePersists ==
  ASSUME Persisted, closeDatabase
  PROVE  Persisted' /\ boot.step = "loaded"
<1>1. /\ UNCHANGED <<left, boot, state, dirty, docs, old, file, cutShort>>
      /\ teardown = "closing" /\ teardown' = "closed" /\ savers' = <<>> /\ dump' = NoDump
      /\ busy' = IF busy = "broken" THEN busy ELSE "idle"
  BY DEF closeDatabase, dbVars
<1>2. boot.step = "loaded"
  BY <1>1 DEF Persisted, Opening
<1>3. NoDump \in [step : {"none", "waiting", "ready", "reading"}, rows : Partial, changed : BOOLEAN]
  BY NothingIs DEF NoDump
<1>4. Types'
  BY <1>1, <1>3 DEF Persisted, Types
<1>5. Opening'
  BY <1>1, <1>2 DEF Persisted, Opening
<1>6. Saving'
  BY <1>1, Lists DEF Saving
<1>7. Dumping'
  BY <1>1, NothingIs DEF Dumping, NoDump
<1>8. Covered'
  BY <1>1 DEF Covered
<1> QED
  BY <1>2, <1>4, <1>5, <1>6, <1>7, <1>8 DEF Persisted

\* Whenever the process ends, and the database isn't cut short, it is kept.
LEMMA ForgetPersists ==
  ASSUME Persisted, forget, left' \in Scenario
  PROVE  Persisted' /\ savers' = <<>> /\ boot'.step = "off" /\ (~cutShort' => kept' = kept)
<1>1. /\ UNCHANGED <<docs, old, file>> /\ boot' = [step |-> "off", rest |-> {}] /\ state' = Initially(Doc)
      /\ dirty' = Nothing /\ busy' = "idle" /\ savers' = <<>> /\ teardown' = "none" /\ dump' = NoDump
      /\ cutShort' = (cutShort \/ ~isCopied)
  BY DEF forget, dbVars
<1>2. boot'.step = "off" /\ state' \in [Doc -> Nat]
      /\ boot' \in [step : {"off", "migrating", "replacing", "opened", "loaded"}, rest : SUBSET Doc]
  BY <1>1 DEF Initially
<1>3. NoDump \in [step : {"none", "waiting", "ready", "reading"}, rows : Partial, changed : BOOLEAN]
  BY NothingIs DEF NoDump
<1>4. ASSUME ~cutShort'
      PROVE  (docs = Nothing \/ block \in DOMAIN docs) /\ kept = IF docs = Nothing THEN values(old) ELSE values(docs)
  <2>1. ~cutShort /\ isCopied
    BY <1>1, <1>4
  <2>2. CASE boot.step \in {"off", "opened", "loaded"}
    BY <2>1, <2>2 DEF Persisted, Opening, kept
  <2>3. ASSUME NEW from \in Partial, isCopy(from), boot.rest = {}, block \in DOMAIN from
        PROVE  block \in DOMAIN docs /\ docs # Nothing /\ values(docs) = from
    <3>1. DOMAIN docs = DOMAIN from /\ \A d \in DOMAIN docs : docs[d].value = from[d]
      BY <2>3 DEF isCopy
    <3>2. values(docs) = from
      BY <2>3, <3>1, PartialIs DEF values
    <3> QED
      BY <2>3, <3>1, <3>2, NothingIs
  <2>4. CASE boot.step = "migrating"
    <3>1. values(old) \in Partial /\ isCopy(values(old)) /\ block \in DOMAIN values(old)
      BY <2>4, ValuesAre DEF Persisted, Types, Opening
    <3>2. boot.rest = {} \/ docs = Nothing
      BY <2>1, <2>4 DEF isCopied
    <3> QED
      BY <2>3, <2>4, <3>1, <3>2 DEF kept
  <2>5. CASE boot.step = "replacing"
    <3>1. file \in Partial /\ isCopy(file) /\ block \in DOMAIN file /\ boot.rest = {}
      BY <2>1, <2>5 DEF Persisted, Types, Opening, isCopied
    <3> QED
      BY <2>3, <2>5, <3>1 DEF kept
  <2> QED
    BY <2>2, <2>4, <2>5 DEF Persisted, Types
<1>5. Types'
  BY <1>1, <1>2, <1>3, NothingIs DEF Persisted, Types
<1>6. Opening'
  BY <1>1, <1>2, <1>4 DEF Persisted, Opening
<1>7. Saving'
  BY <1>1, Lists DEF Saving
<1>8. Dumping'
  BY <1>1, NothingIs DEF Dumping, NoDump
<1>9. Covered'
  BY <1>2 DEF Covered
<1>10. ~cutShort' => kept' = kept
  BY <1>1, <1>2, <1>4 DEF kept
<1> QED
  BY <1>1, <1>2, <1>5, <1>6, <1>7, <1>8, <1>9, <1>10 DEF Persisted

-----------------------------------------------------------------------------
(* Epics, calls, and the life of a client *)

\* Those that come before an epic have ended when it is shut down.
LEMMA ShutDownInOrder ==
  ASSUME subscribed \subseteq Epic
  PROVE  /\ \A e : isShutDown(e) => e \in subscribed
         /\ isShutDown("transport") => "transfers" \notin subscribed
         /\ isShutDown("latest") => subscribed \subseteq {"latest"}
<1>1. /\ DOMAIN EpicOrder = 1..4
      /\ EpicOrder[1] = "transfers" /\ EpicOrder[2] = "transport" /\ EpicOrder[3] = "db" /\ EpicOrder[4] = "latest"
  BY DEF EpicOrder
<1>2. \A e : isShutDown(e) => e \in subscribed
  BY DEF isShutDown
<1>3. isShutDown("transport") => "transfers" \notin subscribed
  <2> SUFFICES ASSUME isShutDown("transport")
               PROVE  "transfers" \notin subscribed
    OBVIOUS
  <2>1. PICK i \in DOMAIN EpicOrder : EpicOrder[i] = "transport" /\ \A j \in 1..(i - 1) : EpicOrder[j] \notin subscribed
    BY DEF isShutDown
  <2>2. i = 2
    BY <1>1, <2>1
  <2> QED
    BY <1>1, <2>1, <2>2
<1>4. isShutDown("latest") => subscribed \subseteq {"latest"}
  <2> SUFFICES ASSUME isShutDown("latest")
               PROVE  subscribed \subseteq {"latest"}
    OBVIOUS
  <2>1. PICK i \in DOMAIN EpicOrder : EpicOrder[i] = "latest" /\ \A j \in 1..(i - 1) : EpicOrder[j] \notin subscribed
    BY DEF isShutDown
  <2>2. i = 4
    BY <1>1, <2>1
  <2>3. "transfers" \notin subscribed /\ "transport" \notin subscribed /\ "db" \notin subscribed
    BY <1>1, <2>1, <2>2
  <2> QED
    BY <2>3 DEF Epic
<1> QED
  BY <1>2, <1>3, <1>4

Calls == [Call -> [job : {"none", "asked", "sending", "done", "cut"},
                   promise : {"none", "pending", "resolved", "rejected", "lost"}]]

\* When everything completes, no job goes on.
LEMMA CompletedIs ==
  ASSUME calls \in Calls
  PROVE  completed \in Calls /\ \A c \in Call : completed[c].job \notin {"asked", "sending"}
  BY DEF completed, Calls

\* An epic is unsubscribed without jobs, or with those that don't end.
LEMMA UnsubscribeRuns ==
  ASSUME Running, NEW e \in Epic, isShutDown(e), unsubscribe(e), UNCHANGED <<persistenceVars, notified>>, forced' \subseteq Epic
  PROVE  Running'
<1> USE DEF Running, RunningTypes
<1>1. /\ e \in subscribed /\ (e = "transport" => "transfers" \notin subscribed)
      /\ (e = "latest" => subscribed \subseteq {"latest"})
  BY ShutDownInOrder
<1>2. UNCHANGED <<boot, teardown, notified>> /\ subscribed' = subscribed \ {e}
  BY DEF unsubscribe, persistenceVars
<1>3. CASE e = "latest"
  <2>1. started' = "false" /\ calls' = completed
    BY <1>3 DEF unsubscribe
  <2>2. completed \in Calls /\ \A c \in Call : completed[c].job \notin {"asked", "sending"}
    BY CompletedIs DEF Calls
  <2>3. boot.step = "loaded"
    BY <1>1
  <2> QED
    BY <1>1, <1>2, <1>3, <2>1, <2>2, <2>3 DEF Calls
<1>4. CASE e # "latest"
  <2>1. /\ started' = started
        /\ calls' = [c \in Call |-> IF e = "transfers" /\ calls[c].job \in {"asked", "sending"}
                                    THEN [calls[c] EXCEPT !.job = "cut"] ELSE calls[c]]
    BY <1>4 DEF unsubscribe
  <2>2. calls' \in Calls
    BY <2>1 DEF Calls
  <2>3. started = "true"
    BY <1>1
  <2>4. ASSUME NEW c \in Call, calls'[c].job \in {"asked", "sending"}
        PROVE  "transfers" \in subscribed' /\ calls'[c].promise = "pending"
    <3>1. calls'[c] = calls[c] /\ e # "transfers"
      BY <2>1, <2>4
    <3> QED
      BY <1>2, <2>4, <3>1
  <2> QED
    BY <1>1, <1>2, <2>1, <2>2, <2>3, <2>4 DEF Calls
<1> QED
  BY <1>3, <1>4

\* How a database is opened or closed agrees with what runs.
LEMMA DatabaseRuns ==
  ASSUME Running, UNCHANGED runtimeVars,
         boot'.step # "loaded" => boot.step # "loaded", teardown' # "none" => teardown # "none" \/ started = "false"
  PROVE  Running'
  BY DEF Running, RunningTypes, runtimeVars

LEMMA CallRuns ==
  ASSUME Running, UNCHANGED <<boot, teardown, started, subscribed, notified, forced>>, calls' \in Calls,
         \A c \in Call : calls'[c].job \in {"asked", "sending"}
           => calls'[c] = calls[c] \/ ("transfers" \in subscribed /\ calls'[c].promise = "pending")
  PROVE  Running'
  BY DEF Running, RunningTypes, Calls

LEMMA NextRuns ==
  ASSUME Running, Next
  PROVE  Running'
<1> USE DEF Running, RunningTypes
<1>1. CASE create
  <2>1. UNCHANGED runtimeVars /\ (boot'.step # "loaded" => boot.step # "loaded") /\ (teardown' # "none" => teardown # "none")
    BY <1>1 DEF create, open, replaceDatabase, migrateDatabase, copy, load, memory
  <2> QED
    BY <2>1, DatabaseRuns
<1>2. CASE failToCreate
  BY <1>2, DatabaseRuns DEF failToCreate, migrationFails, memory
<1>3. CASE start
  BY <1>3 DEF start, persistenceVars, Epic
<1>4. CASE stop
  <2>1. completed \in Calls /\ \A c \in Call : completed[c].job \notin {"asked", "sending"}
    BY CompletedIs DEF Calls
  <2> QED
    BY <1>4, <2>1 DEF stop, raidenShutdown, Epic, Calls
<1>5. CASE tearDown
  BY <1>5, DatabaseRuns DEF tearDown, startTeardown
<1>6. CASE close
  BY <1>6, DatabaseRuns DEF close, closeDatabase
<1>7. CASE leave \/ crash
  <2>1. boot'.step = "off" /\ teardown' = "none" /\ endProcess
    BY <1>7 DEF leave, crash, forget
  <2>2. calls' \in Calls /\ \A c \in Call : calls'[c].job \notin {"asked", "sending"}
    BY <2>1 DEF endProcess, Calls
  <2> QED
    BY <2>1, <2>2 DEF endProcess, Calls
<1>8. CASE save
  <2>1. teardown' # "none" => teardown # "none"
    BY <1>8 DEF save, saveDatabase, takeDirty, fetchRevs, bulkDocs, endSave, becomeIdle
  <2>2. boot' = boot
    BY <1>8 DEF save, saveDatabase, takeDirty, fetchRevs, bulkDocs, endSave
  <2> QED
    BY <1>8, <2>1, <2>2, DatabaseRuns DEF save
<1>9. CASE failToSave
  BY <1>9, DatabaseRuns DEF failToSave, saveFails
<1>10. CASE dumpDatabase
  BY <1>10, DatabaseRuns DEF dumpDatabase, beginDump, readBatch, endDump, becomeIdle
<1>11. CASE startDump /\ UNCHANGED runtimeVars
  BY <1>11, DatabaseRuns DEF startDump
<1>12. CASE newBlock
  BY <1>12, DatabaseRuns DEF newBlock
<1>13. CASE Jobs
  <2>1. PICK c \in Call : send(c) \/ succeed(c)
    BY <1>13 DEF Jobs
  <2>2. UNCHANGED <<boot, teardown, started, subscribed, notified, forced>>
    BY <2>1 DEF send, succeed, running
  <2>3. CASE send(c)
    <3>1. calls[c].job = "asked" /\ calls' = [calls EXCEPT ![c] = [calls[c] EXCEPT !.job = "sending"]]
      BY <2>3 DEF send
    <3>2. calls' \in Calls
      BY <3>1 DEF Calls
    <3>3. calls'[c].promise = "pending" /\ "transfers" \in subscribed /\ \A d \in Call \ {c} : calls'[d] = calls[d]
      BY <3>1
    <3> QED
      BY <2>2, <3>2, <3>3, CallRuns
  <2>4. CASE succeed(c)
    <3>1. calls' = [calls EXCEPT ![c] =
            [job |-> "done", promise |-> IF calls[c].promise = "pending" THEN "resolved" ELSE calls[c].promise]]
      BY <2>4 DEF succeed
    <3>2. calls' \in Calls
      BY <3>1 DEF Calls
    <3>3. calls'[c].job = "done" /\ \A d \in Call \ {c} : calls'[d] = calls[d]
      BY <3>1
    <3> QED
      BY <2>2, <3>2, <3>3, CallRuns
  <2> QED
    BY <2>1, <2>3, <2>4
<1>14. CASE Epics
  <2>1. PICK e \in Epic : epicEnds(e) \/ epicTimesOut(e)
    BY <1>14 DEF Epics
  <2>2. isShutDown(e) /\ unsubscribe(e) /\ UNCHANGED <<persistenceVars, notified>> /\ forced' \subseteq Epic
    BY <2>1 DEF epicEnds, epicTimesOut, isStuck
  <2> QED
    BY <2>2, UnsubscribeRuns
<1>15. CASE dbError
  BY <1>15 DEF dbError, persistenceVars
<1>16. CASE \E c \in Call : request(c)
  <2>1. PICK c \in Call : request(c)
    BY <1>16
  <2>2. UNCHANGED <<boot, teardown, started, subscribed, notified, forced>>
    BY <2>1 DEF request
  <2>3. calls' = [calls EXCEPT ![c] = IF started = "false" THEN [calls[c] EXCEPT !.promise = "rejected"]
                                      ELSE [job |-> IF isListening("transfers") THEN "asked" ELSE "none", promise |-> "pending"]]
        /\ calls[c].promise = "none"
    BY <2>1 DEF request
  <2>4. calls' \in Calls
    BY <2>3 DEF Calls
  <2>5. \A d \in Call \ {c} : calls'[d] = calls[d]
    BY <2>3
  <2>6. calls'[c].job \in {"asked", "sending"} => "transfers" \in subscribed /\ calls'[c].promise = "pending"
    BY <2>3 DEF isListening, isSubscribed
  <2> QED
    BY <2>2, <2>4, <2>5, <2>6, CallRuns
<1> QED
  BY <1>1, <1>2, <1>3, <1>4, <1>5, <1>6, <1>7, <1>8, <1>9, <1>10, <1>11, <1>12, <1>13, <1>14, <1>15, <1>16 DEF Next

\* What the actions of the runtime do with the database.
LEMMA DispatchIsLoaded ==
  ASSUME Persisted, Running, newBlock \/ Jobs
  PROVE  /\ boot.step = "loaded" /\ teardown = "none" /\ left' \in Scenario
         /\ UNCHANGED <<boot, teardown, dbVars, dump, file, cutShort>>
         /\ \E D \in SUBSET Doc : dispatch(D)
<1>1. CASE newBlock
  <2>1. boot.step = "loaded" /\ teardown = "none" /\ UNCHANGED <<boot, teardown, dbVars, dump, file, cutShort>> /\ dispatch({block})
    BY <1>1 DEF newBlock, Running
  <2>2. left' \in Scenario
    <3>1. left.changes > 0 /\ left' = [left EXCEPT !.changes = left.changes - 1]
      BY <1>1 DEF newBlock
    <3> QED
      BY <3>1, LeftIsTaken DEF Persisted, Types
  <2> QED
    BY <2>1, <2>2, PersistenceAssumption
<1>2. CASE Jobs
  <2>1. PICK c \in Call : send(c) \/ succeed(c)
    BY <1>2 DEF Jobs
  <2>2. calls[c].job \in {"asked", "sending"}
    BY <2>1 DEF send, succeed
  <2>3. boot.step = "loaded" /\ teardown = "none"
    BY <2>2 DEF Running
  <2>4. UNCHANGED <<boot, teardown, dbVars, dump, file, cutShort>>
    BY <2>1 DEF send, succeed, running
  <2>5. dispatch(Doc) \/ dispatch(Doc \ {block})
    BY <2>1 DEF send, succeed
  <2>6. left' \in Scenario
    <3>1. CASE send(c)
      BY <3>1 DEF send, running, Persisted, Types
    <3>2. CASE succeed(c)
      <4>1. left.answers > 0 /\ left' = [left EXCEPT !.answers = left.answers - 1]
        BY <3>2 DEF succeed
      <4> QED
        BY <4>1, LeftIsTaken DEF Persisted, Types
    <3> QED
      BY <2>1, <3>1, <3>2
  <2> QED
    BY <2>3, <2>4, <2>5, <2>6
<1> QED
  BY <1>1, <1>2

\* Actions that only take something from the scenario.
LEMMA LeftPersists ==
  ASSUME Persisted, UNCHANGED <<boot, storeVars, teardown, dbVars, dump, file, cutShort>>, left' \in Scenario
  PROVE  Persisted'
<1> USE DEF storeVars, dbVars
<1>1. Types' /\ Dumping'
  BY DEF Persisted, Types, Dumping
<1>2. Opening'
  BY DEF Persisted, Opening, isCopy
<1>3. Saving'
  BY DEF Persisted, Saving
<1>4. Covered'
  BY DEF Persisted, Covered, kept
<1> QED
  BY <1>1, <1>2, <1>3, <1>4 DEF Persisted

LEMMA OpenIs ==
  ASSUME open
  PROVE  \/ replaceDatabase \/ migrateDatabase \/ load
         \/ \E step \in {"migrating", "replacing"} :
              copy(step, IF step = "migrating" THEN values(old) ELSE file)
  BY DEF open

LEMMA OpenPersists ==
  ASSUME Persisted, open
  PROVE  /\ Persisted' /\ boot.step # "loaded" /\ UNCHANGED cutShort
         /\ \/ kept' = file /\ file' = file /\ boot.step = "off" /\ boot'.step = "replacing"
            \/ kept' = kept /\ file' = file /\ boot'.step # "loaded"
            \/ /\ boot'.step = "loaded" /\ file' = file
               /\ ~cutShort => whole(kept') = whole(kept) /\ state' = whole(kept)
<1>1. CASE replaceDatabase
  BY <1>1, ReplacePersists DEF replaceDatabase, memory
<1>2. CASE migrateDatabase
  BY <1>2, MigratePersists DEF migrateDatabase, memory
<1>3. CASE load
  BY <1>3, LoadPersists DEF load
<1>4. ASSUME NEW step \in {"migrating", "replacing"}, NEW from, copy(step, from),
             from = IF step = "migrating" THEN values(old) ELSE file
      PROVE  Persisted' /\ boot.step # "loaded" /\ kept' = kept /\ UNCHANGED <<file, cutShort>> /\ boot'.step # "loaded"
  <2>1. from \in Partial
    BY <1>4, ValuesAre DEF Persisted, Types
  <2>2. UNCHANGED <<file, cutShort>>
    BY <1>4 DEF copy, memory
  <2> QED
    BY <1>4, <2>1, <2>2, CopyPersists
<1> QED
  BY <1>1, <1>2, <1>3, <1>4, OpenIs

LEMMA NextPersists ==
  ASSUME Persisted, Running, Next, ~overlapped'
  PROVE  Persisted'
<1>1. CASE create
  BY <1>1, OpenPersists DEF create
<1>2. CASE failToCreate
  BY <1>2, MigrationFailsPersists DEF failToCreate
<1>3. CASE tearDown
  <2>1. boot.step = "loaded"
    BY <1>3 DEF tearDown, Running
  <2> QED
    BY <1>3, <2>1, TeardownPersists DEF tearDown
<1>4. CASE close
  BY <1>4, ClosePersists DEF close
<1>5. CASE leave \/ crash
  <2>1. left' \in Scenario
    <3>1. left' = left \/ (left.crashes > 0 /\ left' = [left EXCEPT !.crashes = left.crashes - 1])
      BY <1>5 DEF leave, crash
    <3> QED
      BY <3>1, LeftIsTaken DEF Persisted, Types
  <2> QED
    BY <1>5, <2>1, ForgetPersists DEF leave, crash
<1>6. CASE save
  BY <1>6, TakePersists, FetchPersists, BulkPersists, EndPersists DEF save, saveDatabase
<1>7. CASE failToSave
  BY <1>7, FailPersists DEF failToSave
<1>8. CASE dumpDatabase
  BY <1>8, BeginDumpPersists, ReadPersists, EndDumpPersists DEF dumpDatabase
<1>9. CASE startDump
  BY <1>9, StartDumpPersists
<1>10. CASE newBlock \/ Jobs
  BY <1>10, DispatchIsLoaded, DispatchPersists
<1>11. CASE start \/ Epics \/ dbError
  BY <1>11, PersistedStays DEF start, Epics, epicEnds, epicTimesOut, dbError
<1>12. CASE stop \/ \E c \in Call : request(c)
  <2>1. left' \in Scenario
    <3>1. \/ left.stops > 0 /\ left' = [left EXCEPT !.stops = left.stops - 1]
          \/ left.calls > 0 /\ left' = [left EXCEPT !.calls = left.calls - 1]
      BY <1>12 DEF stop, request
    <3> QED
      BY <3>1, LeftIsTaken DEF Persisted, Types
  <2>2. UNCHANGED <<boot, storeVars, teardown, dbVars, dump, file, cutShort>>
    BY <1>12 DEF stop, request
  <2> QED
    BY <2>1, <2>2, LeftPersists
<1> QED
  BY <1>1, <1>2, <1>3, <1>4, <1>5, <1>6, <1>7, <1>8, <1>9, <1>10, <1>11, <1>12 DEF Next

LEMMA InitPersists == Init => Persisted /\ Running
<1> SUFFICES ASSUME Init
             PROVE  Persisted /\ Running
  OBVIOUS
<1>1. /\ left \in Scenarios /\ boot = [step |-> "off", rest |-> {}] /\ state = Initially(Doc) /\ dirty = Nothing
      /\ busy = "idle" /\ savers = <<>> /\ teardown = "none" /\ docs = Nothing
      /\ old = [d \in left.old |-> [value |-> 1, rev |-> 1]] /\ dump = NoDump /\ file = Nothing
  BY DEF Init, PersistenceInit
<1>2. left \in Scenario /\ (left.old # {} => block \in left.old) /\ left.old \in SUBSET Doc
  BY <1>1, PersistenceAssumption DEF Scenario
<1>3. old \in Database /\ DOMAIN old = left.old
  <2>1. old \in [left.old -> [value : Nat, rev : Nat]]
    BY <1>1
  <2> QED
    BY <1>1, <1>2, <2>1, IsDatabase
<1>4. old # Nothing => block \in DOMAIN old
  BY <1>2, <1>3, ValuesAre
<1>5. NoDump \in [step : {"none", "waiting", "ready", "reading"}, rows : Partial, changed : BOOLEAN]
  BY NothingIs DEF NoDump
<1>6. Types
  BY <1>1, <1>2, <1>3, <1>5, NothingIs, NoDatabase DEF Types, Initially
<1>7. Opening
  BY <1>1, <1>4 DEF Opening
<1>8. Saving
  BY <1>1, Lists DEF Saving
<1>9. Dumping
  BY <1>1, NothingIs DEF Dumping, NoDump
<1>10. Covered
  BY <1>1 DEF Covered
<1>11. Running
  BY <1>1 DEF Init, Running, RunningTypes
<1> QED
  BY <1>6, <1>7, <1>8, <1>9, <1>10, <1>11 DEF Persisted

-----------------------------------------------------------------------------
(* Theorems *)

LEMMA RunningStays ==
  ASSUME Running, [Next]_vars
  PROVE  Running'
<1>1. CASE UNCHANGED vars
  BY <1>1 DEF vars, runtimeVars, persistenceVars, Running, RunningTypes
<1> QED
  BY <1>1, NextRuns

\* What runs is consistent: the database is closed after the epics have ended, and only loaded ones are used.
THEOREM RunningInvariant == Spec => []Running
<1>1. Init => Running
  BY InitPersists
<1>2. Running /\ [Next]_vars => Running'
  BY RunningStays
<1> QED
  BY <1>1, <1>2, PTL DEF Spec

\* A job is cut by a step only as JobsEnd says.
jobsEnd(c) == isCut(c)' /\ ~isCut(c) => left.answers = 0 \/ notified' = 2 \/ calls'[c].promise = "lost"

LEMMA JobsStep ==
  ASSUME Running, [Next]_vars, NEW c \in Call
  PROVE  jobsEnd(c)
<1> SUFFICES ASSUME isCut(c)', ~isCut(c)
             PROVE  left.answers = 0 \/ notified' = 2 \/ calls'[c].promise = "lost"
  BY DEF jobsEnd
<1> USE DEF isCut
<1>1. calls' # calls
  OBVIOUS
<1>2. CASE stop
  BY <1>1, <1>2 DEF stop, raidenShutdown
<1>3. CASE leave \/ crash
  BY <1>3 DEF leave, crash, endProcess
<1>4. CASE Epics
  <2>1. PICK e \in Epic : epicEnds(e) \/ epicTimesOut(e)
    BY <1>4 DEF Epics
  <2>2. isShutDown(e) /\ unsubscribe(e)
    BY <2>1 DEF epicEnds, epicTimesOut, isStuck
  <2>3. /\ e \in subscribed /\ (e = "latest" => subscribed \subseteq {"latest"})
    BY <2>2, ShutDownInOrder DEF Running, RunningTypes
  <2>4. calls[c].job \in {"asked", "sending"} /\ e \in {"transfers", "latest"}
    BY <2>2 DEF unsubscribe, completed
  <2>5. "transfers" \in subscribed
    BY <2>4 DEF Running
  <2>6. e = "transfers"
    BY <2>3, <2>4, <2>5
  <2>7. epicTimesOut(e)
    BY <2>1, <2>4, <2>6 DEF epicEnds, hasJobs
  <2>8. left.answers = 0 \/ "transport" \notin subscribed
    BY <2>7 DEF epicTimesOut, isStuck, isSubscribed
  <2> QED
    BY <2>5, <2>8 DEF Running
<1>5. CASE Jobs
  BY <1>5 DEF Jobs, send, succeed, Running, RunningTypes
<1>6. CASE \E d \in Call : request(d)
  BY <1>6 DEF request, Running, RunningTypes
<1>7. CASE create \/ failToCreate \/ start \/ tearDown \/ close \/ save \/ failToSave \/ dumpDatabase
           \/ (startDump /\ UNCHANGED runtimeVars) \/ newBlock \/ dbError
  BY <1>1, <1>7 DEF create, failToCreate, start, tearDown, close, save, failToSave, dumpDatabase, newBlock, dbError, runtimeVars
<1>8. CASE UNCHANGED vars
  BY <1>1, <1>8 DEF vars, runtimeVars
<1> QED
  BY <1>2, <1>3, <1>4, <1>5, <1>6, <1>7, <1>8 DEF Next

\* A job of an epic is cut only if the server doesn't answer, by a second shutdown (combineRaidenEpics), or
\* by the end of the process, and then nobody waits for it any more.
THEOREM JobsEndOrAreLost == Spec => JobsEnd
<1>1. Running /\ [Next]_vars => \A c \in Call : jobsEnd(c)
  BY JobsStep
<1>2. Running /\ [Next]_vars =>
        [\A c \in Call : isCut(c)' /\ ~isCut(c) => left.answers = 0 \/ notified' = 2 \/ calls'[c].promise = "lost"]_vars
  BY <1>1 DEF jobsEnd
<1> QED
  BY <1>2, RunningInvariant, PTL DEF Spec, JobsEnd

\* The store, what is being written, the database and its dump, as the journal has them.
LEMMA JournalStep ==
  ASSUME Persisted, Running, [Next]_vars, ~overlapped', ~cutShort'
  PROVE  [journal!Next]_(journal!journal)
<1> DEFINE store == IF boot.step = "loaded" THEN state ELSE whole(kept)
           saving == whole(over(unwritten(savers), kept))
           saved == whole(kept)
           dumped == whole(file)
<1> USE DEF journal!journal
<1>1. Persisted' /\ kept \in Partial /\ kept' \in Partial
  <2>1. Persisted'
    BY NextPersists, PersistedStays DEF vars
  <2> QED
    BY <2>1, KeptIs, KeptIsToo DEF Persisted
<1>2. /\ over(Nothing, kept) = kept /\ over(Nothing, kept') = kept'
      /\ savers = <<>> => saving = saved
      /\ savers' = <<>> => saving' = saved'
  BY <1>1, OverNothing, NobodyWrites
<1>3. /\ boot.step # "loaded" => savers = <<>>
      /\ boot'.step # "loaded" => savers' = <<>>
  BY <1>1 DEF Persisted, Opening
<1>4. CASE UNCHANGED persistenceVars
  BY <1>4 DEF persistenceVars, storeVars, dbVars, kept
<1>5. CASE create
  <2>1. /\ boot.step # "loaded" /\ savers = <<>>
        /\ \/ kept' = file /\ file' = file /\ boot.step = "off" /\ boot'.step = "replacing"
           \/ kept' = kept /\ file' = file /\ boot'.step # "loaded"
           \/ whole(kept') = whole(kept) /\ state' = whole(kept) /\ file' = file /\ boot'.step = "loaded"
    BY <1>3, <1>5, OpenPersists DEF create
  <2>2. savers' = <<>>
    BY <1>5, <2>1 DEF create, open, replaceDatabase, migrateDatabase, copy, load, memory, storeVars
  <2>3. \/ store' = dumped /\ saving' = dumped /\ saved' = dumped /\ dumped' = dumped
        \/ UNCHANGED <<store, saving, saved, dumped>>
    BY <1>2, <2>1, <2>2
  <2> QED
    BY <2>3 DEF journal!Next, journal!Import
<1>6. CASE failToCreate
  <2>1. kept' = kept /\ file' = file /\ boot.step # "loaded" /\ boot'.step # "loaded"
    BY <1>6, MigrationFailsPersists DEF failToCreate, migrationFails
  <2> QED
    BY <1>2, <1>3, <2>1
<1>7. CASE leave \/ crash
  <2>1. left' \in Scenario /\ forget
    <3>1. left' = left \/ (left.crashes > 0 /\ left' = [left EXCEPT !.crashes = left.crashes - 1])
      BY <1>7 DEF leave, crash
    <3> QED
      BY <1>7, <3>1, LeftIsTaken DEF leave, crash, Persisted, Types
  <2>2. kept' = kept /\ savers' = <<>> /\ boot'.step = "off" /\ file' = file
    BY <2>1, ForgetPersists DEF forget
  <2>3. store' = saved /\ saving' = saved /\ saved' = saved /\ dumped' = dumped
    BY <1>2, <2>2
  <2> QED
    BY <2>3 DEF journal!Next, journal!Reopen
<1>8. CASE newBlock \/ Jobs
  <2>1. /\ boot.step = "loaded" /\ UNCHANGED <<boot, docs, old, file>>
        /\ \E D \in SUBSET Doc : dispatch(D)
    BY <1>8, DispatchIsLoaded DEF dbVars
  <2>2. PICK D \in SUBSET Doc : dispatch(D)
    BY <2>1
  <2>3. state' = [d \in Doc |-> IF d \in D THEN state[d] + 1 ELSE state[d]]
    BY <2>2 DEF dispatch
  <2>4. savers' = savers \/ (savers = <<>> /\ savers' = <<saver("start", Nothing)>>)
    BY <2>2, Lists DEF dispatch
  <2>5. unwritten(savers') = unwritten(savers)
    <3>1. saver("start", Nothing) \in Saver /\ saver("start", Nothing).data = Nothing
      BY NothingIs DEF saver, Saver
    <3> QED
      BY <2>4, <3>1, NobodyWrites, OneWrites
  <2>6. kept' = kept
    BY <2>1 DEF kept
  <2>7. /\ store' = [d \in Doc |-> IF d \in D THEN store[d] + 1 ELSE store[d]]
        /\ UNCHANGED <<saving, saved, dumped>>
    BY <2>1, <2>3, <2>5, <2>6
  <2> QED
    BY <2>7 DEF journal!Next, journal!Change
<1>9. CASE save
  <2>1. PICK i \in DOMAIN savers : takeDirty(i) \/ fetchRevs(i) \/ bulkDocs(i) \/ endSave(i)
    BY <1>9 DEF save, saveDatabase
  <2>2. boot.step = "loaded" /\ kept = values(docs)
    BY <1>3, <2>1, Lists, KeptIs DEF Persisted
  <2>3. UNCHANGED <<boot, state, old, file>>
    BY <2>1 DEF takeDirty, fetchRevs, bulkDocs, endSave, dbVars
  <2>4. kept' = values(docs')
    BY <1>1, <2>2, <2>3, KeptIsToo DEF Persisted
  <2>5. CASE takeDirty(i)
    <3>1. unwritten(savers) = Nothing /\ unwritten(savers') = dirty /\ docs' = docs
      BY <2>5, TakePersists DEF takeDirty, dbVars
    <3>2. busy # "broken" /\ teardown # "closed"
      BY <2>1, Lists DEF Persisted, Saving
    <3>3. ~cutShort
      BY <2>5 DEF takeDirty
    <3>4. saving' = store /\ UNCHANGED <<store, saved, dumped>>
      BY <1>2, <2>2, <2>3, <2>4, <3>1, <3>2, <3>3 DEF Persisted, Covered
    <3> QED
      BY <3>4 DEF journal!Next, journal!Take
  <2>6. CASE fetchRevs(i)
    <3>1. unwritten(savers') = unwritten(savers) /\ docs' = docs
      BY <2>6, FetchPersists DEF fetchRevs, dbVars
    <3> QED
      BY <2>2, <2>3, <2>4, <3>1
  <2>7. CASE bulkDocs(i)
    <3>1. values(docs') = over(unwritten(savers), values(docs)) /\ unwritten(savers') = Nothing
      BY <2>7, BulkPersists
    <3>2. saved' = saving /\ UNCHANGED <<store, saving, dumped>>
      BY <1>2, <2>2, <2>3, <2>4, <3>1
    <3> QED
      BY <3>2 DEF journal!Next, journal!Save
  <2>8. CASE endSave(i)
    <3>1. unwritten(savers') = unwritten(savers) /\ docs' = docs
      BY <2>8, EndPersists DEF endSave, dbVars
    <3> QED
      BY <2>2, <2>3, <2>4, <3>1
  <2> QED
    BY <2>1, <2>5, <2>6, <2>7, <2>8
<1>10. CASE failToSave
  <2>1. PICK i \in DOMAIN savers : saveFails(i)
    BY <1>10 DEF failToSave
  <2>2. unwritten(savers') = Nothing /\ UNCHANGED <<boot, state, docs, old, file>>
    BY <2>1, FailPersists DEF saveFails, dbVars
  <2>3. saving' = saved /\ UNCHANGED <<store, saved, dumped>>
    BY <1>2, <2>2 DEF kept
  <2> QED
    BY <2>3 DEF journal!Next, journal!Fail
<1>11. CASE close
  <2>1. savers' = <<>> /\ UNCHANGED <<boot, state, docs, old, file>>
    BY <1>11 DEF close, closeDatabase, dbVars
  <2>2. saving' = saved /\ UNCHANGED <<store, saved, dumped>>
    BY <1>2, <2>1 DEF kept
  <2> QED
    BY <2>2 DEF journal!Next, journal!Fail
<1>12. CASE endDump
  <2>1. boot.step = "loaded" /\ file' \in {file, values(docs)} /\ UNCHANGED <<boot, state, savers, docs, old>>
    BY <1>12, EndDumpPersists DEF endDump, dbVars
  <2>2. kept' = kept /\ kept = values(docs)
    BY <2>1, KeptIs DEF kept, Persisted
  <2>3. dumped' \in {dumped, saved} /\ UNCHANGED <<store, saving, saved>>
    BY <2>1, <2>2
  <2> QED
    BY <2>3 DEF journal!Next, journal!Dump
<1>13. CASE tearDown \/ beginDump \/ readBatch \/ startDump \/ stop \/ \E c \in Call : request(c)
  <2>1. UNCHANGED <<boot, state, savers, docs, old, file>>
    BY <1>13 DEF tearDown, startTeardown, beginDump, readBatch, startDump, stop, request, storeVars, dbVars
  <2> QED
    BY <2>1 DEF kept
<1>14. CASE start \/ Epics \/ dbError \/ UNCHANGED vars
  BY <1>4, <1>14 DEF start, Epics, epicEnds, epicTimesOut, dbError, vars
<1> QED
  BY <1>5, <1>6, <1>7, <1>8, <1>9, <1>10, <1>11, <1>12, <1>13, <1>14 DEF Next, dumpDatabase

LEMMA JournalInit == Init => journal!Init
<1> SUFFICES ASSUME Init
             PROVE  journal!Init
  OBVIOUS
<1>1. Persisted /\ kept \in Partial
  BY InitPersists, KeptIs DEF Persisted
<1>2. boot.step = "off" /\ savers = <<>> /\ file = Nothing
  BY DEF Init, PersistenceInit
<1>3. whole(kept) \in [Doc -> Nat]
  BY <1>1, WholeIs, PartialIs
<1>4. whole(Nothing) = [d \in Doc |-> 0]
  BY NothingIs, WholeIs
<1>5. over(unwritten(savers), kept) = kept
  BY <1>1, <1>2, NobodyWrites, OverNothing
<1> QED
  BY <1>2, <1>3, <1>4, <1>5 DEF journal!Init

LEMMA OverlappedStays ==
  ASSUME overlapped, [Next]_vars
  PROVE  overlapped'
<1>1. CASE create
  BY <1>1 DEF create, open, replaceDatabase, migrateDatabase, copy, load, memory, storeVars
<1>2. CASE failToCreate \/ failToSave
  BY <1>2 DEF failToCreate, failToSave, migrationFails, saveFails, memory, storeVars
<1>3. CASE start \/ Epics \/ dbError
  BY <1>3 DEF start, Epics, epicEnds, epicTimesOut, dbError, persistenceVars, storeVars
<1>4. CASE stop \/ startDump \/ \E c \in Call : request(c)
  BY <1>4 DEF stop, startDump, request, storeVars
<1>5. CASE tearDown \/ close
  BY <1>5 DEF tearDown, close, startTeardown, closeDatabase
<1>6. CASE leave \/ crash
  BY <1>6 DEF leave, crash, forget
<1>7. CASE save
  BY <1>7 DEF save, saveDatabase, takeDirty, fetchRevs, bulkDocs, endSave
<1>8. CASE dumpDatabase
  BY <1>8 DEF dumpDatabase, beginDump, readBatch, endDump, storeVars
<1>9. CASE newBlock \/ Jobs
  BY <1>9 DEF newBlock, Jobs, send, succeed, dispatch
<1>10. CASE UNCHANGED vars
  BY <1>10 DEF vars, persistenceVars, storeVars
<1> QED
  BY <1>1, <1>2, <1>3, <1>4, <1>5, <1>6, <1>7, <1>8, <1>9, <1>10 DEF Next

\* The persister's invariant, until a saveDatabase starts while another one runs (createPersisterMiddleware).
THEOREM PersistenceInvariant == Spec => []((overlapped \/ Persisted) /\ Running)
<1>1. Init => Persisted /\ Running
  BY InitPersists
<1>2. (overlapped \/ Persisted) /\ Running /\ [Next]_vars => ((overlapped \/ Persisted) /\ Running)'
  <2> SUFFICES ASSUME overlapped \/ Persisted, Running, [Next]_vars
               PROVE  (overlapped \/ Persisted)' /\ Running'
    OBVIOUS
  <2>1. CASE overlapped
    BY <2>1, OverlappedStays, RunningStays
  <2>2. CASE Persisted
    BY <2>2, NextPersists, PersistedStays, RunningStays DEF vars
  <2> QED
    BY <2>1, <2>2
<1> QED
  BY <1>1, <1>2, PTL DEF Spec

\* The database is the store of one moment, and so is a dump (persister, dumpDatabase, replaceDatabase), for any
\* documents and scenarios, unless two saveDatabase ran at once (persister.ts:101, db/utils.ts:474), or the
\* process ended in the middle of a migration or an import.
THEOREM JournalIsKept == Spec => KeepsJournal
<1>1. Init => journal!Init
  BY JournalInit
<1>2. (overlapped \/ Persisted) /\ Running /\ [Next]_vars => [~overlapped' /\ ~cutShort' => journal!Next]_(journal!journal)
  <2> SUFFICES ASSUME overlapped \/ Persisted, Running, [Next]_vars, ~overlapped', ~cutShort'
               PROVE  [journal!Next]_(journal!journal)
    OBVIOUS
  <2>1. Persisted
    BY OverlappedStays
  <2> QED
    BY <2>1, JournalStep
<1> QED
  BY <1>1, <1>2, PersistenceInvariant, PTL DEF Spec, KeepsJournal

-----------------------------------------------------------------------------
(* What is saved when the database is closed *)

\* So that left.dumps > 0 says that there was none.
AtMostOneDump == \A s \in Scenarios : s.dumps <= 1

\* Until there is a dump, the database is busy while there is a saveDatabase, which looks once more before it
\* ends, and so nothing is dirty without one but what changed afterwards.
isBeingSaved ==
  boot.step = "loaded" /\ busy # "broken" /\ teardown \notin {"closing", "closed"}
    => (DOMAIN dirty \subseteq late \/ willLook) /\ (busy = "busy" <=> savers # <<>>)
Saved == left.dumps \in 0..1 /\ (left.dumps > 0 => dump.step = "none" /\ ~overlapped /\ isBeingSaved)

\* teardown$ goes on only then.
nothingUnsaved ==
  teardown' = "closing" /\ teardown # "closing" /\ busy' # "broken" /\ left.dumps > 0 => DOMAIN dirty \subseteq late

LEMMA DumpsLeft ==
  ASSUME left \in Scenario, Next
  PROVE  left'.dumps = left.dumps \/ (startDump /\ left'.dumps = left.dumps - 1)
<1> USE DEF Scenario
<1>1. CASE create
  BY <1>1 DEF create, open, replaceDatabase, migrateDatabase, copy, load
<1>2. CASE failToCreate \/ failToSave
  BY <1>2 DEF failToCreate, failToSave, migrationFails, saveFails
<1>3. CASE start \/ Epics \/ dbError
  BY <1>3 DEF start, Epics, epicEnds, epicTimesOut, dbError, persistenceVars
<1>4. CASE stop \/ newBlock
  BY <1>4 DEF stop, newBlock
<1>5. CASE tearDown \/ close
  BY <1>5 DEF tearDown, close, startTeardown, closeDatabase
<1>6. CASE leave \/ crash
  BY <1>6 DEF leave, crash
<1>7. CASE save
  BY <1>7 DEF save, saveDatabase, takeDirty, fetchRevs, bulkDocs, endSave
<1>8. CASE dumpDatabase \/ startDump
  BY <1>8 DEF dumpDatabase, beginDump, readBatch, endDump, startDump
<1>9. CASE Jobs \/ \E c \in Call : request(c)
  BY <1>9 DEF Jobs, send, succeed, request, running
<1> QED
  BY <1>1, <1>2, <1>3, <1>4, <1>5, <1>6, <1>7, <1>8, <1>9 DEF Next

LEMMA LeftStays ==
  ASSUME left \in Scenario, [Next]_vars
  PROVE  left' \in Scenario
<1>1. \/ left' = left
      \/ left.changes > 0 /\ left' = [left EXCEPT !.changes = left.changes - 1]
      \/ left.dumps > 0 /\ left' = [left EXCEPT !.dumps = left.dumps - 1]
      \/ left.errors > 0 /\ left' = [left EXCEPT !.errors = left.errors - 1]
      \/ left.crashes > 0 /\ left' = [left EXCEPT !.crashes = left.crashes - 1]
      \/ left.stops > 0 /\ left' = [left EXCEPT !.stops = left.stops - 1]
      \/ left.replaces > 0 /\ left' = [left EXCEPT !.replaces = left.replaces - 1]
      \/ left.calls > 0 /\ left' = [left EXCEPT !.calls = left.calls - 1]
      \/ left.answers > 0 /\ left' = [left EXCEPT !.answers = left.answers - 1]
  <2>1. CASE create \/ failToCreate \/ start \/ stop \/ tearDown \/ close
    BY <2>1 DEF create, open, replaceDatabase, migrateDatabase, copy, load, failToCreate, migrationFails,
                start, stop, tearDown, startTeardown, close, closeDatabase, persistenceVars
  <2>2. CASE leave \/ crash \/ save \/ failToSave \/ dumpDatabase \/ startDump
    BY <2>2 DEF leave, crash, save, saveDatabase, takeDirty, fetchRevs, bulkDocs, endSave, failToSave, saveFails,
                dumpDatabase, beginDump, readBatch, endDump, startDump
  <2>3. CASE newBlock \/ Jobs \/ Epics \/ dbError \/ (\E c \in Call : request(c)) \/ UNCHANGED vars
    BY <2>3 DEF newBlock, Jobs, send, succeed, running, Epics, epicEnds, epicTimesOut, dbError, request,
                persistenceVars, vars
  <2> QED
    BY <2>1, <2>2, <2>3 DEF Next
<1> QED
  BY <1>1, LeftIsTaken

\* A step that leaves what is saved alone.
LEMMA SavedStays ==
  ASSUME isBeingSaved, dump.step = "none", UNCHANGED <<boot, storeVars, teardown, dump>>
  PROVE  isBeingSaved' /\ dump'.step = "none" /\ nothingUnsaved /\ UNCHANGED overlapped
  BY DEF isBeingSaved, willLook, nothingUnsaved, storeVars

LEMMA SavedWhileSaving ==
  ASSUME Persisted, isBeingSaved, dump.step = "none", NEW i \in DOMAIN savers,
         takeDirty(i) \/ fetchRevs(i) \/ bulkDocs(i) \/ endSave(i) \/ saveFails(i)
  PROVE  isBeingSaved' /\ dump'.step = "none" /\ nothingUnsaved /\ UNCHANGED overlapped
<1>1. PICK s \in Saver : i = 1 /\ savers = <<s>> /\ savers[i] = s
  BY TheSaver
<1>2. boot.step = "loaded" /\ busy # "broken" /\ teardown # "closed"
  BY <1>1, Lists DEF Persisted, Opening, Saving
<1>3. dump \in [step : {"none", "waiting", "ready", "reading"}, rows : Partial, changed : BOOLEAN]
  BY DEF Persisted, Types
<1>9. teardown # "closing" => busy = "busy"
  BY <1>1, <1>2 DEF isBeingSaved
<1>4. CASE takeDirty(i)
  <2>1. \E r : savers' = <<r>>
    BY <1>1, <1>4, Lists DEF takeDirty
  <2>2. savers' # <<>> /\ DOMAIN dirty' = {}
    BY <1>4, <2>1, NothingIs DEF takeDirty
  <2> QED
    BY <1>2, <1>4, <1>9, <2>2 DEF takeDirty, isBeingSaved, nothingUnsaved
<1>5. CASE fetchRevs(i)
  <2> DEFINE revs == [d \in DOMAIN s.data \cap DOMAIN docs |-> docs[d].rev]
             r == [s EXCEPT !.step = "fetched", !.revs = revs]
  <2>1. savers' = <<r>>
    BY <1>1, <1>5, Lists DEF fetchRevs
  <2> HIDE DEF revs
  <2>3. r.step = "fetched"
    BY DEF Saver
  <2> HIDE DEF r
  <2>2. DOMAIN savers' = {1} /\ savers'[1].step = "fetched" /\ savers' # <<>>
    BY <2>1, <2>3, Lists
  <2> QED
    BY <1>2, <1>5, <1>9, <2>2 DEF fetchRevs, isBeingSaved, willLook, nothingUnsaved
<1>6. CASE bulkDocs(i)
  <2> DEFINE failed == DOMAIN s.data \ {d \in DOMAIN s.data : isFresh(s, d)}
             r == [s EXCEPT !.step = "written", !.failed = failed]
  <2>1. savers' = <<r>>
    BY <1>1, <1>6, Lists DEF bulkDocs
  <2> HIDE DEF failed
  <2>4. r.step = "written"
    BY DEF Saver
  <2> HIDE DEF r
  <2>2. DOMAIN savers' = {1} /\ savers'[1].step = "written" /\ savers' # <<>>
    BY <2>1, <2>4, Lists
  <2>3. dump'.step = "none" /\ UNCHANGED <<boot, busy, teardown, dirty, late, overlapped>>
    BY <1>3, <1>6 DEF bulkDocs
  <2> QED
    BY <1>2, <1>9, <2>2, <2>3 DEF isBeingSaved, willLook, nothingUnsaved
<1>7. CASE endSave(i)
  <2>1. s.step = "ended" /\ ~willLook /\ savers' = <<>>
    BY <1>1, <1>7, Lists DEF endSave, willLook
  <2>2. teardown # "closing" => DOMAIN dirty \subseteq late
    BY <1>2, <2>1 DEF isBeingSaved
  <2>3. /\ UNCHANGED <<boot, dirty, dump, late, overlapped>>
        /\ busy' = IF teardown = "waiting" THEN "busy" ELSE "idle"
        /\ teardown' = IF teardown = "waiting" THEN "closing" ELSE teardown
    BY <1>2, <1>7 DEF endSave, becomeIdle
  <2> QED
    BY <2>1, <2>2, <2>3 DEF isBeingSaved, nothingUnsaved
<1>8. CASE saveFails(i)
  BY <1>8 DEF saveFails, isBeingSaved, nothingUnsaved
<1> QED
  BY <1>4, <1>5, <1>6, <1>7, <1>8

LEMMA SavedWhileDispatching ==
  ASSUME Persisted, isBeingSaved, dump.step = "none", boot.step = "loaded", teardown = "none",
         NEW D \in SUBSET Doc, dispatch(D), UNCHANGED <<boot, teardown, dump>>
  PROVE  isBeingSaved' /\ nothingUnsaved /\ (~overlapped => ~overlapped')
<1> DEFINE h == [d \in D |-> state[d] + 1]
<1>1. DOMAIN dirty' = D \cup DOMAIN dirty
  <2>1. DOMAIN h = D
    OBVIOUS
  <2>2. dirty' = over(h, dirty)
    BY DEF dispatch
  <2> HIDE DEF h
  <2> QED
    BY <2>1, <2>2 DEF over
<1> HIDE DEF h
<1>2. CASE busy = "idle" /\ D # {}
  <2>1. savers = <<>>
    BY <1>2 DEF isBeingSaved
  <2>2. savers' = <<saver("start", Nothing)>> /\ busy' = "busy"
    BY <1>2, <2>1, Lists DEF dispatch
  <2>3. DOMAIN savers' = {1} /\ savers'[1].step = "start" /\ savers' # <<>>
    BY <2>2, Lists DEF saver
  <2>4. ~overlapped => ~overlapped'
    BY <1>2, <2>1 DEF dispatch
  <2> QED
    BY <2>2, <2>3, <2>4 DEF willLook, isBeingSaved, nothingUnsaved
<1>3. CASE ~(busy = "idle" /\ D # {})
  <2>1. /\ UNCHANGED <<busy, savers, overlapped>>
        /\ late' = IF busy = "idle" \/ willLook THEN late ELSE late \cup D
    BY <1>3 DEF dispatch
  <2>2. willLook' = willLook
    BY <2>1 DEF willLook
  <2>3. DOMAIN dirty \subseteq late => DOMAIN dirty' \subseteq late' \/ willLook
    BY <1>1, <1>3, <2>1
  <2> QED
    BY <2>1, <2>2, <2>3 DEF isBeingSaved, nothingUnsaved
<1> QED
  BY <1>2, <1>3

LEMMA SavedStep ==
  ASSUME Persisted, Running, isBeingSaved, dump.step = "none", ~overlapped, Next, ~startDump
  PROVE  isBeingSaved' /\ dump'.step = "none" /\ nothingUnsaved /\ ~overlapped'
<1>1. CASE create
  <2>1. boot.step # "loaded" /\ teardown = "none" /\ dump = NoDump
    BY <1>1, OpenPersists DEF create, Persisted, Opening
  <2>2. CASE load
    BY <2>2, NothingIs DEF load, isBeingSaved, nothingUnsaved, NoDump
  <2>3. CASE ~load
    <3>1. boot'.step # "loaded" /\ UNCHANGED <<teardown, dump, overlapped>>
      <4>1. CASE replaceDatabase
        BY <4>1 DEF replaceDatabase, memory, storeVars
      <4>2. CASE migrateDatabase
        BY <4>2 DEF migrateDatabase, memory, storeVars, Persisted, Types
      <4>3. ASSUME NEW step \in {"migrating", "replacing"}, NEW from, copy(step, from)
            PROVE  boot'.step # "loaded" /\ UNCHANGED <<teardown, dump, overlapped>>
        BY <4>3 DEF copy, memory, storeVars, Persisted, Types
      <4> QED
        BY <1>1, <2>3, <4>1, <4>2, <4>3, OpenIs DEF create
    <3> QED
      BY <2>1, <3>1 DEF isBeingSaved, nothingUnsaved
  <2> QED
    BY <2>2, <2>3
<1>2. CASE failToCreate
  BY <1>2 DEF failToCreate, migrationFails, memory, storeVars, isBeingSaved, nothingUnsaved
<1>3. CASE leave \/ crash
  BY <1>3 DEF leave, crash, forget, isBeingSaved, nothingUnsaved, NoDump
<1>4. CASE newBlock \/ Jobs
  BY <1>4, DispatchIsLoaded, SavedWhileDispatching
<1>5. CASE save \/ failToSave
  BY <1>5, SavedWhileSaving DEF save, saveDatabase, failToSave
<1>6. CASE tearDown
  <2>1. boot.step = "loaded" /\ startTeardown
    BY <1>6 DEF tearDown, Running
  <2>2. busy = "idle" => DOMAIN dirty \subseteq late
    <3> SUFFICES ASSUME busy = "idle"
                 PROVE  DOMAIN dirty \subseteq late
      OBVIOUS
    <3>1. savers = <<>> /\ teardown = "none"
      BY <2>1 DEF startTeardown, isBeingSaved
    <3> QED
      BY <2>1, <3>1, Lists DEF isBeingSaved, willLook
  <2> QED
    BY <2>1, <2>2 DEF startTeardown, isBeingSaved, willLook, nothingUnsaved, Persisted, Types
<1>7. CASE close
  BY <1>7 DEF close, closeDatabase, isBeingSaved, nothingUnsaved, NoDump
<1>8. CASE start \/ Epics \/ dbError
  BY <1>8, SavedStays DEF start, Epics, epicEnds, epicTimesOut, dbError, persistenceVars
<1>9. CASE stop \/ \E c \in Call : request(c)
  BY <1>9, SavedStays DEF stop, request
<1>10. ~dumpDatabase
  BY DEF dumpDatabase, beginDump, readBatch, endDump
<1> QED
  BY <1>1, <1>2, <1>3, <1>4, <1>5, <1>6, <1>7, <1>8, <1>9, <1>10 DEF Next

\* When the database is closed, everything is in it (persister, teardown$), except what changed after the last
\* look of a saveDatabase, unless it fails or a dump was made.
THEOREM NothingIsLeftUnsaved ==
  ASSUME AtMostOneDump
  PROVE  Spec => NothingUnsaved
<1>1. Init => Saved
  <2>1. Init => left \in Scenarios /\ boot.step = "off" /\ dump.step = "none" /\ ~overlapped
    BY DEF Init, PersistenceInit, NoDump
  <2>2. Init => left.dumps \in 0..1
    BY <2>1, PersistenceAssumption DEF AtMostOneDump, Scenario
  <2> QED
    BY <2>1, <2>2 DEF Saved, isBeingSaved
<1>2. ASSUME overlapped \/ Persisted, Running, Saved, [Next]_vars, left \in Scenario
      PROVE  Saved' /\ [nothingUnsaved]_vars
  <2>1. CASE UNCHANGED vars
    BY <1>2, <2>1 DEF vars, persistenceVars, storeVars, Saved, isBeingSaved, willLook
  <2>2. CASE Next
    <3>1. left'.dumps = left.dumps \/ (startDump /\ left'.dumps = left.dumps - 1)
      BY <1>2, <2>2, DumpsLeft
    <3>2. CASE left.dumps = 0
      <4>1. ~startDump
        BY <3>2 DEF startDump
      <4> QED
        BY <3>1, <3>2, <4>1 DEF Saved, nothingUnsaved
    <3>3. CASE left.dumps = 1 /\ startDump
      BY <3>3 DEF startDump, nothingUnsaved, Saved, Persisted
    <3>4. CASE left.dumps = 1 /\ ~startDump
      <4>1. isBeingSaved /\ dump.step = "none" /\ ~overlapped /\ Persisted
        BY <1>2, <3>4 DEF Saved
      <4>2. isBeingSaved' /\ dump'.step = "none" /\ nothingUnsaved /\ ~overlapped'
        BY <1>2, <2>2, <3>4, <4>1, SavedStep
      <4>3. left'.dumps = 1
        BY <3>1, <3>4
      <4> QED
        BY <4>2, <4>3 DEF Saved
    <3> QED
      BY <1>2, <3>2, <3>3, <3>4 DEF Saved
  <2> QED
    BY <1>2, <2>1, <2>2
<1>3. (overlapped \/ Persisted) /\ Running /\ Saved /\ left \in Scenario /\ [Next]_vars => Saved' /\ [nothingUnsaved]_vars
  BY <1>2
<1>4. [nothingUnsaved]_vars =>
        [teardown' = "closing" /\ teardown # "closing" /\ busy' # "broken" /\ left.dumps > 0 => DOMAIN dirty \subseteq late]_vars
  BY DEF nothingUnsaved
<1>5. Init => left \in Scenario
  BY InitPersists DEF Persisted, Types
<1>6. left \in Scenario /\ [Next]_vars => (left \in Scenario)'
  BY LeftStays
<1> QED
  BY <1>1, <1>3, <1>4, <1>5, <1>6, PersistenceInvariant, PTL DEF Spec, NothingUnsaved
=============================================================================
