----------------------------- MODULE Lifecycle -----------------------------
(***************************************************************************)
(* The life cycle of the channels of one client with one partner, as the   *)
(* client follows it on a chain that may be reorganised: opening, deposits, *)
(* closing, the update of the closer's balance proof, settlement alone or  *)
(* together, and the unlock of what is locked.                             *)
(*                                                                         *)
(* A balance proof is the number of messages it stands for.  The partner   *)
(* is free in what the contract lets it do: it may close, or update, with  *)
(* an old balance proof of the client's.                                   *)
(***************************************************************************)
EXTENDS Integers, FiniteSets, Sequences, SequencesExt

CONSTANTS
  Id,               \* identifiers of the channels, 1..n
  confirmationBlocks,
  MaxTransfers,     \* bound: balance proofs in each direction
  Scenarios         \* what is checked, see Scenario

\* What the user and the partner may send
Transaction == {"opened", "deposit", "closed", "updated", "settled", "coopSettled"}

\* The settlement timeout in blocks, and the bounds of a behaviour
Scenario ==
  [settleTimeout : Nat \ {0},
   height : Nat,                     \* of the chain
   lag : Nat,                        \* blocks whose logs the client didn't request yet
   transfers : 0..MaxTransfers,      \* balance proofs in each direction
   reorgs : Nat, restarts : Nat,     \* reorganisations, kills of the client
   mayLag : BOOLEAN,                 \* things may happen between eth_getLogs and its answer
   autoSettle : BOOLEAN,             \* config.autoSettle, which is false by default
   own : SUBSET Transaction,         \* what the user asks for
   partner : SUBSET Transaction,     \* what the partner sends
   prompt : BOOLEAN,                 \* no block while the client could settle
   closeFails : BOOLEAN]             \* the user may reject the signature of a close

ASSUME BlocksAssumption ==
  /\ confirmationBlocks \in Nat \ {0} /\ Id \subseteq Nat \ {0} /\ MaxTransfers \in Nat
  /\ Scenarios \subseteq Scenario

VARIABLES
  scenario,         \* what may happen, and the settlement timeout
  height,           \* the block that is being made
  chain,            \* logs of the token network, in the order of the chain
  mempool,          \* transactions sent and not mined
  reorgs,
  blockNumber,      \* state.blockNumber
  channel,          \* state.channels[key], NoChannel if there isn't one
  oldChannels,
  pendingTxs,
  phase,            \* "off", "syncing" or "synced"
  blockQueue,       \* of fromEthersEvent
  response,         \* answers to eth_getLogs that weren't handled yet
  scanned,          \* the block up to which logs were requested last
  past,             \* history of scans after which the client looks further on
  jobs,             \* what epics are doing
  restarts

chainVars == <<scenario, height, chain, mempool, reorgs>>
store == <<blockNumber, channel, oldChannels, pendingTxs>>
scan == <<blockQueue, response, scanned, past>>
lifecycleVars == <<chainVars, store, phase, scan, jobs, restarts>>

Party == {"own", "partner"}
BalanceProof == 0..MaxTransfers

\* A deposit, or a balance proof
Amount == 0..MaxTransfers + 1

\* The balance proof of a message the client sent and didn't store
Unstored == MaxTransfers + 1

\* The last block of the chain
head == height - 1

(***************************************************************************)
(* The token network contract                                              *)
(***************************************************************************)
Tx == [type : {"opened", "deposit", "closed", "updated", "settled", "coopSettled", "unlocked"},
       id : Id, who : Party, args : Amount \X Amount]

tx(type, id, who, x, y) == [type |-> type, id |-> id, who |-> who, args |-> <<x, y>>]

logs(id, types) == {i \in DOMAIN chain : chain[i].id = id /\ chain[i].type \in types}

stage(id) ==
  IF logs(id, {"settled", "coopSettled"}) # {} THEN "settled"
  ELSE IF logs(id, {"closed"}) # {} THEN "closed"
  ELSE IF logs(id, {"opened"}) # {} THEN "opened"
  ELSE "none"

closing(id) == chain[CHOOSE i \in logs(id, {"closed"}) : TRUE]

total(id, who) ==
  Max({0} \cup {chain[i].args[1] : i \in {j \in logs(id, {"deposit"}) : chain[j].who = who}})

\* The balance proof of an end the contract knows: the other end's to submit
proof(id, end) ==
  Max({0} \cup {chain[i].args[1] :
                  i \in {j \in logs(id, {"closed", "updated"}) : chain[j].who # end}})

windowOver(id) == height >= closing(id).block + scenario.settleTimeout

\* What the contract accepts
accepts(t) ==
  CASE t.type = "opened" ->
         /\ stage(t.id) = "none"
         /\ \A i \in Id : i < t.id => stage(i) = "settled"
    [] t.type = "deposit" -> stage(t.id) = "opened" /\ t.args[1] > total(t.id, t.who)
    [] t.type = "closed" -> stage(t.id) = "opened"
    [] t.type = "updated" ->
         /\ stage(t.id) = "closed" /\ closing(t.id).who # t.who
         /\ ~windowOver(t.id)
         /\ t.args[1] > 0 /\ logs(t.id, {"updated"}) = {}
    [] t.type = "settled" ->
         /\ stage(t.id) = "closed" /\ windowOver(t.id)
         /\ t.args = <<proof(t.id, "own"), proof(t.id, "partner")>>
    [] t.type = "coopSettled" ->
         /\ stage(t.id) = "opened"
         /\ t.args = <<total(t.id, "own"), total(t.id, "partner")>>
    [] t.type = "unlocked" ->
         /\ stage(t.id) = "settled" /\ logs(t.id, {"unlocked"}) = {}
         /\ t.args[1] = proof(t.id, "partner")

(***************************************************************************)
(* The store                                                               *)
(***************************************************************************)
NoBlock == -1

NoChannel ==
  [id |-> 0, state |-> "none", openBlock |-> 0,
   deposit |-> [p \in Party |-> 0], sent |-> 0, received |-> 0, unstored |-> FALSE,
   closeBlock |-> NoBlock, closeParticipant |-> "nobody"]

State == {"none", "open", "closing", "closed", "settleable", "settling"}

Channel ==
  [id : {0} \cup Id, state : State, openBlock : Nat,
   deposit : [Party -> Amount], sent : BalanceProof, received : BalanceProof,
   unstored : BOOLEAN,
   closeBlock : {NoBlock} \cup Nat, closeParticipant : Party \cup {"nobody"}]

\* A received transfer is locked until a second message unlocks it
hasLocks(c) == c.received = 1

isClosed(c) == c.closeBlock # NoBlock

\* A confirmable action: the log of a transaction as it was seen in a block
Action == [tx : Tx, block : Nat, locks : BalanceProof]

removeAction(txs, t) == {a \in txs : a.tx # t}

pendingAfter(txs, a, confirmed) ==
  IF confirmed = "undefined" THEN removeAction(txs, a.tx) \cup {a} ELSE removeAction(txs, a.tx)

channelOpenSuccessReducer(c, a, confirmed) ==
  IF c.openBlock >= a.block \/ c.id >= a.tx.id \/ confirmed # "true" THEN c
  ELSE [NoChannel EXCEPT !.id = a.tx.id, !.state = "open", !.openBlock = a.block]

channelUpdateOnchainBalance(c, a, confirmed) ==
  IF confirmed # "true" \/ c.state # "open" \/ c.id # a.tx.id
     \/ a.tx.args[1] <= c.deposit[a.tx.who]
  THEN c
  ELSE [c EXCEPT !.deposit[a.tx.who] = a.tx.args[1]]

channelCloseSuccessReducer(c, a, confirmed) ==
  CASE c.id = a.tx.id /\ confirmed = "undefined" /\ c.state = "open" ->
         [c EXCEPT !.state = "closing"]
    [] c.id = a.tx.id /\ confirmed = "true" /\ ~isClosed(c) ->
         [c EXCEPT !.state = "closed", !.closeBlock = a.block, !.closeParticipant = a.tx.who]
    [] OTHER -> c

channelSettleSuccessReducer(c, a, confirmed) ==
  CASE c.id = a.tx.id /\ confirmed = "undefined" /\ c.state # "settling" ->
         [c EXCEPT !.state = "settling", !.closeBlock = IF isClosed(c) THEN @ ELSE 0]
    [] c.id = a.tx.id /\ confirmed = "true" -> NoChannel
    [] OTHER -> c

reduceChannel(c, a, confirmed) ==
  CASE a.tx.type = "opened" -> channelOpenSuccessReducer(c, a, confirmed)
    [] a.tx.type = "deposit" -> channelUpdateOnchainBalance(c, a, confirmed)
    [] a.tx.type = "closed" -> channelCloseSuccessReducer(c, a, confirmed)
    [] a.tx.type \in {"settled", "coopSettled"} -> channelSettleSuccessReducer(c, a, confirmed)

(***************************************************************************)
(* Epics that react to the events.  A job is what an epic does at the      *)
(* moment; "awaitBlock" is channelUpdateEpic between a confirmed close and *)
(* the next block.                                                         *)
(***************************************************************************)
Job == [name : {"open", "close", "awaitBlock", "update", "settle", "unlock"},
        id : Id, bp : BalanceProof]

job(name, id, bp) == [name |-> name, id |-> id, bp |-> bp]

\* takeUntil: a job gives up when somebody else did the same
givesUp(j, a) ==
  \/ j.name = "open" /\ a.tx.type = "opened"
  \/ j.name = "close" /\ a.tx.type = "closed"
  \/ j.name = "settle" /\ a.tx.type \in {"settled", "coopSettled"}

\* Mutant of started: locks are unlocked of a channel that is still there
startedInChannel(a, confirmed, after) ==
  IF confirmed # "true" THEN {}
  ELSE IF a.tx.type = "closed" THEN {job("awaitBlock", a.tx.id, 0)}
  ELSE IF a.tx.type \in {"settled", "coopSettled"} /\ a.locks > 0 /\ after.id = a.tx.id
       THEN {job("unlock", a.tx.id, a.locks)}
  ELSE {}

\* channelUpdateEpic and channelUnlockEpic start on confirmed actions
started(a, confirmed, after) ==
  IF confirmed # "true" THEN {}
  ELSE IF a.tx.type = "closed" THEN {job("awaitBlock", a.tx.id, 0)}
  ELSE IF a.tx.type \in {"settled", "coopSettled"} /\ a.locks > 0 /\ after.id # a.tx.id
       THEN {job("unlock", a.tx.id, a.locks)}
  ELSE {}

\* What one action does to the store and to the epics
dispatched(s, a, confirmed) ==
  LET after == reduceChannel(s.channel, a, confirmed)
  IN [channel |-> after,
      oldChannels |-> IF s.channel.id # 0 /\ after.id = 0
                      THEN s.oldChannels \cup {s.channel.id} ELSE s.oldChannels,
      pendingTxs |-> pendingAfter(s.pendingTxs, a, confirmed),
      jobs |-> {j \in s.jobs : ~givesUp(j, a)} \cup started(a, confirmed, after)]

current == [channel |-> channel, oldChannels |-> oldChannels,
            pendingTxs |-> pendingTxs, jobs |-> jobs]

become(after) ==
  \E s \in {after} :
     /\ channel' = s.channel
     /\ oldChannels' = s.oldChannels
     /\ pendingTxs' = s.pendingTxs
     /\ jobs' = s.jobs

(***************************************************************************)
(* Logs become actions                                                     *)
(***************************************************************************)
\* Mutant of isKnown: only a settlement the client didn't ask for is an event
isKnownUnasked(c, log) ==
  CASE log.type = "opened" -> log.id > c.id
    [] log.type = "deposit" -> c.id = log.id /\ log.args[1] > c.deposit[log.who]
    [] log.type = "closed" -> c.id = log.id /\ ~isClosed(c)
    [] log.type \in {"settled", "coopSettled"} -> c.id = log.id /\ c.state # "settling"
    [] OTHER -> FALSE

isKnown(c, log) ==
  CASE log.type = "opened" -> log.id > c.id
    [] log.type = "deposit" -> c.id = log.id /\ log.args[1] > c.deposit[log.who]
    [] log.type = "closed" -> c.id = log.id /\ ~isClosed(c)
    [] log.type \in {"settled", "coopSettled"} -> c.id = log.id
    [] OTHER -> FALSE

txOf(log) == tx(log.type, log.id, log.who, log.args[1], log.args[2])

mapChannelEventsToAction(s, log) ==
  LET a == [tx |-> txOf(log), block |-> log.block,
            locks |-> IF hasLocks(s.channel) THEN s.channel.received ELSE 0]
      confirmed == IF log.block + confirmationBlocks <= blockNumber THEN "true" ELSE "undefined"
  IN IF isKnown(s.channel, log) THEN dispatched(s, a, confirmed) ELSE s

\* The logs of an answer, one after the other
afterLogs(s, events) ==
  LET after[n \in 0..Len(events)] ==
        IF n = 0 THEN s ELSE mapChannelEventsToAction(after[n - 1], events[n])
  IN after[Len(events)]

\* How many logs the chain has before a block
logsBefore(block) == Cardinality({i \in DOMAIN chain : chain[i].block < block})

getLogs(from, to) == SubSeq(chain, logsBefore(from) + 1, logsBefore(to + 1))

(***************************************************************************)
(* blockQueue holds the blocks to scan from: a confirmed log clears what   *)
(* is before its block, and the queue is at most 2 * confirmationBlocks    *)
(* long.                                                                   *)
(***************************************************************************)
\* Mutant of clear: logs that aren't confirmed clear the queue as well
clearAny(q, log, to) ==
  LET next == log.block + 1
      kept == SelectSeq(q, LAMBDA b : b > next)
  IN IF q # <<>> /\ Head(q) > next THEN q ELSE <<next>> \o kept

clear(q, log, to) ==
  LET next == log.block + 1
      kept == SelectSeq(q, LAMBDA b : b > next)
  IN IF log.block + confirmationBlocks > to \/ (q # <<>> /\ Head(q) > next)
     THEN q
     ELSE <<next>> \o kept

shift(q) ==
  LET full == 2 * confirmationBlocks
  IN IF Len(q) >= full THEN SubSeq(q, Len(q) - full + 2, Len(q)) ELSE q

queueAfter(q, r) ==
  Append(shift(FoldLeft(LAMBDA x, log : clear(x, log, r.to), q, r.logs)), r.to + 1)

-----------------------------------------------------------------------------
LifecycleInit ==
  /\ scenario \in Scenarios
  /\ height = 2 /\ chain = <<>> /\ mempool = {} /\ reorgs = 0
  /\ blockNumber = 1 /\ channel = NoChannel /\ oldChannels = {} /\ pendingTxs = {}
  /\ phase = "off" /\ blockQueue = <<>> /\ response = {} /\ scanned = 0 /\ past = {}
  /\ jobs = {} /\ restarts = 0

(***************************************************************************)
(* The chain                                                               *)
(***************************************************************************)
\* The work of which a transaction is a part; it ends when its receipt is good
jobOf(t) ==
  CASE t.type = "opened" -> "open" [] t.type = "closed" -> "close"
    [] t.type = "updated" -> "update" [] t.type \in {"settled", "coopSettled"} -> "settle"
    [] t.type = "unlocked" -> "unlock" [] OTHER -> "deposit"

txOfJob(j) ==
  CASE j.name = "open" -> tx("opened", j.id, "own", 0, 0)
    [] j.name = "close" -> tx("closed", j.id, "own", j.bp, 0)
    [] j.name = "update" -> tx("updated", j.id, "own", j.bp, 0)
    \* settleSettleableChannel finds the balance proofs the contract knows
    [] j.name = "settle" -> tx("settled", j.id, "own", proof(j.id, "own"), proof(j.id, "partner"))
    [] j.name = "unlock" -> tx("unlocked", j.id, "own", j.bp, 0)

\* findBalanceProofMatchingBalanceHash$ finds what the contract knows of the client
\* among the stored messages
isFound(j) == j.name = "settle" => proof(j.id, "own") # Unstored

\* The client could ask for the settlement, or its transaction be sent or mined
settlesNow ==
  /\ phase = "synced" /\ scenario.autoSettle
  /\ \/ channel.state = "closed" /\ head >= channel.closeBlock + scenario.settleTimeout
     \/ channel.state = "settleable"
underWay ==
  \/ settlesNow
  \/ \E t \in mempool \cup {txOfJob(j) : j \in {x \in jobs : x.name # "awaitBlock" /\ isFound(x)}} :
        t.who = "own" /\ accepts(t)

included(t) ==
  chain' = Append(chain, [type |-> t.type, id |-> t.id, who |-> t.who,
                          args |-> t.args, block |-> height])

\* A transaction is mined, or fails and is sent again by retryWhile
mine ==
  \E t \in mempool :
     /\ mempool' = mempool \ {t}
     /\ IF accepts(t)
        THEN /\ included(t)
             /\ jobs' = {j \in jobs : ~(t.who = "own" /\ j.name = jobOf(t) /\ j.id = t.id)}
        ELSE UNCHANGED <<chain, jobs>>
     /\ UNCHANGED <<scenario, height, reorgs, store, phase, scan, restarts>>

\* What the partner does alone
partnerTransacts ==
  \E t \in Tx :
     /\ t.who = "partner" /\ t.type \in scenario.partner \ {"coopSettled"}
     /\ CASE t.type = "opened" -> t.args = <<0, 0>>
          [] t.type = "deposit" -> t.args = <<1, 0>>
          [] t.type \in {"closed", "updated"} ->
               /\ t.args[2] = 0
               /\ \/ t.args[1] <= (IF channel.id = t.id THEN channel.sent ELSE 0)
                  \/ t.args[1] = Unstored /\ channel.id = t.id /\ channel.unstored
          [] t.type = "settled" -> TRUE
     /\ accepts(t) /\ included(t)
     /\ UNCHANGED <<scenario, height, mempool, reorgs, store, phase, scan, jobs, restarts>>

nextBlock ==
  /\ height < scenario.height
  /\ scenario.prompt => ~underWay
  /\ head - (IF phase = "synced" THEN scanned ELSE blockNumber) < scenario.lag
  /\ height' = height + 1
  /\ UNCHANGED <<scenario, chain, mempool, reorgs, store, phase, scan, jobs, restarts>>

\* Blocks with less than confirmationBlocks confirmations, their own included, are
\* replaced.  What they held comes back to the mempool or is gone.
reorganise ==
  \E h \in (head - confirmationBlocks + 2)..height :
     LET dropped == {txOf(chain[i]) : i \in {j \in DOMAIN chain : chain[j].block >= h}}
     IN /\ reorgs < scenario.reorgs /\ dropped # {}
        /\ reorgs' = reorgs + 1
        /\ chain' = SubSeq(chain, 1, logsBefore(h))
        /\ \E back \in SUBSET dropped : mempool' = mempool \cup back
        /\ UNCHANGED <<scenario, height, store, phase, scan, jobs, restarts>>

(***************************************************************************)
(* Following the chain                                                     *)
(***************************************************************************)
\* initNewBlockEpic fetches the block number; initTokensRegistryEpic and
\* channelEventsEpic begin to fetch past events
startClient ==
  /\ phase = "off"
  /\ phase' = "syncing"
  /\ blockNumber' = head
  /\ blockQueue' = <<blockNumber - confirmationBlocks>>
  /\ UNCHANGED <<chainVars, channel, oldChannels, pendingTxs, response, scanned, past, jobs, restarts>>

\* fetchPastChannelEvents$, up to the block fetched first; from there on,
\* fetchNewChannelEvents$
fetchPast ==
  /\ phase = "syncing"
  /\ become(afterLogs(current, getLogs(Head(blockQueue), blockNumber)))
  /\ phase' = "synced"
  /\ blockQueue' = <<blockNumber + 1>>
  /\ scanned' = blockNumber
  /\ past' = past \cup {[to |-> blockNumber, done |-> TRUE]}
  /\ UNCHANGED <<chainVars, blockNumber, response, restarts>>

\* Mutant of mayUpdate: only the closing side updates
mayUpdateOwn(j) ==
  /\ channel.state = "closed" /\ channel.id = j.id
  /\ channel.received > 0
  /\ channel.closeParticipant = "own"

\* channelUpdateEpic: the other side closed and there's a balance proof to give
mayUpdate(j) ==
  /\ channel.state = "closed" /\ channel.id = j.id
  /\ channel.received > 0
  /\ channel.closeParticipant # "own"

\* A new block also ends channelUpdateEpic's wait
newBlock ==
  /\ phase = "synced" /\ blockNumber < head
  /\ blockNumber' = head
  /\ jobs' = {j \in jobs : j.name # "awaitBlock"}
               \cup {job("update", j.id, channel.received) :
                       j \in {x \in jobs : x.name = "awaitBlock" /\ mayUpdate(x)}}
  /\ UNCHANGED <<chainVars, channel, oldChannels, pendingTxs, phase, scan, restarts>>

\* fromEthersEvent: one eth_getLogs at a time
requestLogs ==
  /\ phase = "synced" /\ response = {} /\ scanned < blockNumber
  /\ response' = {[to |-> blockNumber, logs |-> getLogs(Head(blockQueue), blockNumber)]}
  /\ scanned' = blockNumber
  /\ UNCHANGED <<chainVars, store, phase, blockQueue, past, jobs, restarts>>

receiveLogs ==
  \E r \in response :
     /\ become(afterLogs(current, r.logs))
     /\ blockQueue' = queueAfter(blockQueue, r)
     /\ response' = {}
     /\ UNCHANGED <<chainVars, blockNumber, phase, scanned, past, restarts>>

\* Mutant of confirmation: any receipt confirms an old action
confirmationAny ==
  \E a \in pendingTxs :
     LET at == {i \in DOMAIN chain : txOf(chain[i]) = a.tx}
     IN /\ phase = "synced"
        /\ a.block + confirmationBlocks < blockNumber
        /\ \/ \E i \in at :
               become(dispatched(current, [a EXCEPT !.block = chain[i].block], "true"))
           \/ /\ at = {}
              /\ a.block + 2 * confirmationBlocks < blockNumber
              /\ become(dispatched(current, a, "false"))
        /\ UNCHANGED <<chainVars, blockNumber, phase, scan, restarts>>

\* checkPendingAction: the receipt of the transaction, or that there's none for long
confirmation ==
  \E a \in pendingTxs :
     LET at == {i \in DOMAIN chain : txOf(chain[i]) = a.tx}
         deep == {i \in at : head - chain[i].block + 1 >= confirmationBlocks}
     IN /\ phase = "synced"
        /\ a.block + confirmationBlocks < blockNumber
        /\ \/ \E i \in deep :
               become(dispatched(current, [a EXCEPT !.block = chain[i].block], "true"))
           \/ /\ deep = {}
              /\ a.block + 2 * confirmationBlocks < blockNumber
              /\ become(dispatched(current, a, "false"))
        /\ UNCHANGED <<chainVars, blockNumber, phase, scan, restarts>>

(***************************************************************************)
(* Transactions of the client                                              *)
(***************************************************************************)
\* transact sends what estimateGas finds good; otherwise retryWhile waits
transact ==
  \E j \in {x \in jobs : x.name # "awaitBlock" /\ isFound(x)} :
     /\ phase = "synced"
     /\ txOfJob(j) \notin mempool /\ accepts(txOfJob(j))
     /\ mempool' = mempool \cup {txOfJob(j)}
     /\ UNCHANGED <<scenario, height, chain, reorgs, store, phase, scan, jobs, restarts>>

\* maxRetries, or no balance proof to settle with: the channel stays as it is
gaveUp ==
  \E j \in jobs :
     /\ j.name \in {"settle", "unlock"}
     /\ txOfJob(j) \notin mempool /\ (accepts(txOfJob(j)) => ~isFound(j))
     /\ jobs' = jobs \ {j}
     /\ UNCHANGED <<chainVars, store, phase, scan, restarts>>

\* channelOpen.request
channelOpenRequest ==
  \E id \in Id :
     /\ "opened" \in scenario.own /\ phase = "synced" /\ channel.state = "none"
     /\ id > Max({0} \cup oldChannels) /\ \A i \in Id : i < id => i \in oldChannels
     /\ ~\E j \in jobs : j.name = "open"
     /\ jobs' = jobs \cup {job("open", id, 0)}
     /\ UNCHANGED <<chainVars, store, phase, scan, restarts>>

\* channelClose.request, for the first time or again; channelCloseEpic takes the
\* partner's balance proof before the signature
channelCloseRequest ==
  /\ "closed" \in scenario.own /\ phase = "synced" /\ channel.state \in {"open", "closing"}
  /\ ~\E j \in jobs : j.name = "close"
  /\ channel' = [channel EXCEPT !.state = "closing"]
  /\ jobs' = jobs \cup {job("close", channel.id, channel.received)}
  /\ UNCHANGED <<chainVars, blockNumber, oldChannels, pendingTxs, phase, scan, restarts>>

\* channelClose.failure
channelCloseFailure ==
  \E j \in jobs :
     /\ scenario.closeFails /\ j.name = "close" /\ txOfJob(j) \notin mempool
     /\ jobs' = jobs \ {j}
     /\ IF channel.state = "closing"
        THEN /\ channel' = [channel EXCEPT !.state = "open"]
             /\ past' = past \cup {[to |-> blockNumber, done |-> FALSE]}
        ELSE UNCHANGED <<channel, past>>
     /\ UNCHANGED <<chainVars, blockNumber, oldChannels, pendingTxs, phase, restarts>>
     /\ UNCHANGED <<blockQueue, response, scanned>>

\* channelSettleableEpic
channelSettleable ==
  /\ phase = "synced" /\ channel.state = "closed"
  /\ head >= channel.closeBlock + scenario.settleTimeout
  /\ channel' = [channel EXCEPT !.state = "settleable"]
  /\ UNCHANGED <<chainVars, blockNumber, oldChannels, pendingTxs, phase, scan, jobs, restarts>>

\* channelSettle.request
channelSettleRequest ==
  /\ ~\E j \in jobs : j.name = "settle"
  /\ channel' = [channel EXCEPT !.state = "settling"]
  /\ jobs' = jobs \cup {job("settle", channel.id, 0)}
  /\ UNCHANGED <<chainVars, blockNumber, oldChannels, pendingTxs, phase, scan, restarts>>

\* Raiden.settleChannel, of the user, who may call it again; not if it's automatic
settleChannel ==
  /\ ~scenario.autoSettle /\ "settled" \in scenario.own
  /\ phase = "synced" /\ channel.state \in {"settleable", "settling"}
  /\ channelSettleRequest

\* channelAutoSettleEpic, once for a channel that became settleable
channelAutoSettle ==
  /\ scenario.autoSettle
  /\ phase = "synced" /\ channel.state = "settleable"
  /\ channelSettleRequest

(***************************************************************************)
(* Transfers and the rest                                                  *)
(***************************************************************************)
\* Both sides signed withdraws of everything they own: no more transfers
agreed(id) == \E t \in mempool \cup {txOf(chain[i]) : i \in DOMAIN chain} :
                t.type = "coopSettled" /\ t.id = id

cooperativeSettle ==
  /\ "coopSettled" \in scenario.own /\ phase = "synced" /\ channel.state = "open" /\ ~hasLocks(channel)
  /\ ~agreed(channel.id)
  /\ mempool' = mempool \cup
       {tx("coopSettled", channel.id, "own", channel.deposit["own"], channel.deposit["partner"])}
  /\ UNCHANGED <<scenario, height, chain, reorgs, store, phase, scan, jobs, restarts>>

transfer ==
  /\ phase = "synced" /\ channel.state = "open" /\ ~agreed(channel.id)
  /\ \/ /\ channel.sent < scenario.transfers
        /\ channel' = [channel EXCEPT !.sent = @ + 1]
     \/ /\ channel.received < scenario.transfers
        /\ channel' = [channel EXCEPT !.received = @ + 1]
  /\ UNCHANGED <<chainVars, blockNumber, oldChannels, pendingTxs, phase, scan, jobs, restarts>>

\* A message that was being signed when the channel began to close: the partner gets
\* it, while the reducer ignores it (transfers/reducer.ts)
messageIgnored ==
  /\ phase = "synced" /\ channel.state = "closing" /\ ~agreed(channel.id)
  /\ channel.sent < scenario.transfers /\ ~channel.unstored
  /\ channel' = [channel EXCEPT !.unstored = TRUE]
  /\ UNCHANGED <<chainVars, blockNumber, oldChannels, pendingTxs, phase, scan, jobs, restarts>>

\* All that is known of the chain has been looked at
followed == phase = "synced" /\ response = {} /\ scanned = blockNumber

\* The client is killed; the store survives, and so do transactions that were sent
restart ==
  /\ phase # "off" /\ restarts < scenario.restarts
  /\ restarts' = restarts + 1
  /\ phase' = "off"
  /\ blockQueue' = <<>> /\ response' = {} /\ scanned' = 0
  /\ past' = past
       \cup (IF phase = "synced" THEN {[to |-> Last(blockQueue) - 1, done |-> TRUE]} ELSE {})
       \cup (IF followed THEN {} ELSE {[to |-> blockNumber - confirmationBlocks - 1, done |-> FALSE]})
  /\ jobs' = {}
  /\ UNCHANGED <<chainVars, store>>

Environment == mine \/ partnerTransacts \/ nextBlock \/ reorganise

Client ==
  \/ startClient \/ fetchPast \/ newBlock \/ requestLogs \/ confirmation
  \/ transact \/ gaveUp \/ channelOpenRequest \/ channelCloseRequest \/ channelCloseFailure
  \/ channelSettleable \/ settleChannel \/ channelAutoSettle
  \/ cooperativeSettle \/ transfer \/ messageIgnored \/ restart

LifecycleNext ==
  \/ receiveLogs
  \/ (response # {} => scenario.mayLag) /\ Environment
  \/ (response # {} => scenario.mayLag) /\ Client

LifecycleSpec == LifecycleInit /\ [][LifecycleNext]_lifecycleVars

\* The client looks at blocks and logs
follow == startClient \/ fetchPast \/ newBlock \/ requestLogs \/ receiveLogs

\* The chain goes on, the client runs, and its transactions get mined.  Nothing is
\* assumed of users, of the partner, or of what is signed: that a channel is settled
\* is up to the user, unless config.autoSettle is on.
FairLifecycleSpec ==
  /\ LifecycleSpec
  /\ WF_lifecycleVars(nextBlock) /\ WF_lifecycleVars(mine)
  /\ WF_lifecycleVars(follow) /\ WF_lifecycleVars(confirmation)
  /\ WF_lifecycleVars(transact) /\ WF_lifecycleVars(channelSettleable \/ channelAutoSettle)

-----------------------------------------------------------------------------
(***************************************************************************)
(* Properties                                                              *)
(***************************************************************************)
\* Whatever was confirmed stays: a confirmed opening, deposit, close or settlement
\* in the store is on the chain, in a block no reorganisation reaches any more
\* (channels/epics/block.ts and monitor.ts decide what is confirmed).
onChain(type, id, who) ==
  {chain[i].args[1] : i \in {j \in logs(id, {type}) :
                               who \in {chain[j].who, "any"} /\ chain[j].block <= head - confirmationBlocks + 1}}

ConfirmedIsFinal ==
  /\ channel.id # 0 => onChain("opened", channel.id, "any") # {}
  /\ \A p \in Party : channel.deposit[p] # 0 =>
        channel.deposit[p] \in onChain("deposit", channel.id, p)
  /\ channel.closeParticipant # "nobody" =>
        onChain("closed", channel.id, channel.closeParticipant) # {}
  /\ \A id \in oldChannels :
        onChain("settled", id, "any") \cup onChain("coopSettled", id, "any") # {}

\* What the store has to say of a log that is confirmed
isApplied(log) ==
  \/ \E a \in pendingTxs : a.tx = txOf(log)
  \/ CASE log.type = "opened" -> log.id = channel.id \/ log.id \in oldChannels
       [] log.type = "deposit" ->
            log.id = channel.id /\ channel.state = "open" =>
              log.args[1] <= channel.deposit[log.who]
       [] log.type = "closed" -> log.id = channel.id => isClosed(channel)
       [] log.type \in {"settled", "coopSettled"} -> log.id # channel.id
       [] OTHER -> TRUE

\* Channels of which events may be lost.  Their opening was seen but not confirmed by a
\* scan of past events, or when the client was killed: what follows is dropped until
\* confirmationEpic confirms it, and those blocks aren't scanned again.  Or the client was
\* killed before it had looked at what it knew of: it goes on from there.  Or a close
\* failed: the deposits confirmed while the channel was closing were ignored.
mayMiss(id) ==
  \E i \in logs(id, {"opened"}), r \in past :
     /\ chain[i].block <= r.to
     /\ r.done => chain[i].block + confirmationBlocks > r.to

\* No event gets lost: once a client followed the chain up to a block, it knows
\* everything that is confirmed by that block, whatever order blocks, answers and
\* reorganisations came in, and across kills (fromEthersEvent's queue of blocks,
\* channels/epics/monitor.ts).  Events are lost of the channels that mayMiss names.
ConfirmedIsApplied ==
  followed => \A i \in DOMAIN chain :
     chain[i].block + confirmationBlocks <= blockNumber /\ ~mayMiss(chain[i].id) =>
        isApplied(chain[i])

\* A partner can't settle on an old state: a channel the partner closed is settled on
\* the last balance proof the client received, if it isn't settled together
\* (channels/epics/close.ts, channelUpdateEpic).  Its update has to be mined before the
\* settlement timeout: prompt and lag bound how late the client and its transaction are.
settledAlone(id) == stage(id) = "settled" /\ channel.id = id /\ ~agreed(id)

SettledOnLatest ==
  \A id \in Id :
     settledAlone(id) /\ closing(id).who = "partner" => proof(id, "partner") = channel.received

\* A channel that is known to be closed and is settled automatically, or whose
\* settlement the user asked for, is settled in the end, and known to be settled
\* (channels/epics/settle.ts).  Not if the client is restarted meanwhile, which forgets the
\* request, or if the partner gave the chain a balance proof of a message that the client
\* didn't store, which it can't find; nor if the chain of this model stops too early.
Finished(id) == id \in oldChannels
InTime(id) ==
  /\ logs(id, {"closed"}) # {}
  /\ Max({head, closing(id).block + scenario.settleTimeout}) + 2 * confirmationBlocks + 2 <= scenario.height
isBeingSettled(id) ==
  /\ channel.id = id
  /\ \/ channel.state = "closed" /\ scenario.autoSettle
     \/ \E j \in jobs : j.name = "settle" /\ j.id = id
hindered(id) == restarts # 0 \/ proof(id, "own") = Unstored

EventuallySettled ==
  \A id \in Id : (isBeingSettled(id) /\ InTime(id)) ~> (Finished(id) \/ hindered(id))

\* What was received and is locked is unlocked in the end (channelUnlockEpic), once the
\* channel is being settled, with the same exceptions, and if the client didn't close
\* the channel on an older balance proof.
EventuallyUnlocked ==
  \A id \in Id :
     (/\ isBeingSettled(id) /\ hasLocks(channel) /\ InTime(id)
      /\ channel.closeParticipant = "own" => proof(id, "partner") = channel.received)
        ~> (logs(id, {"unlocked"}) # {} \/ hindered(id))

=============================================================================
