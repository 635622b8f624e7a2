------------------------------ MODULE Funding ------------------------------
(***************************************************************************)
(* How a client puts tokens in its channels of one token network: the      *)
(* requests to open and to deposit, what runs in parallel of them and what *)
(* is serialized, the allowance of the token network they share, and the   *)
(* retries of transactions that are invalid when they are sent or mined.   *)
(***************************************************************************)
EXTENDS Integers, FiniteSets, Sequences, SequencesExt

CONSTANTS
  Partner,          \* partners of the client
  Depositor,        \* partners who deposit, too
  Balance,          \* tokens of the client
  Amount,           \* amounts to deposit
  MaxUint256,
  Configs,          \* configurations: [minimumAllowance, openChannelWithDeposit]
  MaxRetries,       \* of a request: shouldRetryError, 10 in the code
  MaxRequests,      \* bound: requests of the user
  Plans             \* what the user asks for each partner, in this order

ASSUME FundingAssumption ==
  /\ Depositor \subseteq Partner
  /\ Balance \in Nat /\ Amount \subseteq Nat \ {0}
  /\ MaxUint256 \in Nat /\ Balance <= MaxUint256
  /\ Configs \subseteq [minimumAllowance : 0..MaxUint256, openChannelWithDeposit : BOOLEAN]
  /\ MaxRetries \in Nat /\ MaxRequests \in Nat /\ Plans \subseteq [Partner -> Seq(Amount)]

VARIABLES
  config,           \* config.minimumAllowance, and what checkContractHasMethod$ finds
  balance, allowance, \* of the client in the token contract
  contract,         \* channels in the token network: who opened, and the deposits
  mempool,          \* transactions of the client, in the order of their nonces
  logs,             \* events that aren't confirmed yet
  channels,         \* state.channels
  queue,            \* channelDeposit requests: the first one of a group is being handled
  openings,         \* channelOpen requests being handled
  requests, plan,   \* number of the user's requests, and what is left to ask for
  asked,            \* what the user asked for, by partner: openings, the most one of them deposits, deposits
  failed            \* partners with a request that failed

user == <<requests, plan, asked>>
vars == <<config, balance, allowance, contract, mempool, logs, channels, queue, openings,
          requests, plan, asked, failed>>

Id == 1..MaxRequests
Tx == [by : Id, method : {"approve", "openChannel", "setTotalDeposit"}, partner : Partner, value : Nat]
Log == [type : {"opened", "deposit"}, partner : Partner, participant : {"own", "partner"}, total : Nat]

DepositStep == {"check", "reset", "resetting", "approve", "approving", "channelId", "depositing", "confirming"}
DepositRequest ==
  [id : Id, partner : Partner, relative : BOOLEAN, amount : Nat, step : DepositStep \cup {"queued"},
   deposit : Nat, total : Nat, retries : 0..MaxRetries]
OpenRequest ==
  [id : Id, partner : Partner, amount : Nat, step : {"send", "sent", "confirming"}, retries : 0..MaxRetries]

-----------------------------------------------------------------------------
(* The contracts *)

withDeposit(tx) == tx.method = "openChannel" /\ tx.value > 0
\* tokens a transaction takes from the client
spent(tx) ==
  CASE tx.method = "openChannel" -> tx.value
    [] tx.method = "setTotalDeposit" -> tx.value - contract[tx.partner].own
    [] OTHER -> 0

isValid(tx) ==
  /\ spent(tx) <= balance /\ spent(tx) <= allowance
  /\ CASE tx.method = "approve" -> tx.value = 0 \/ allowance = 0
       [] tx.method = "openChannel" -> ~contract[tx.partner].opened
       [] tx.method = "setTotalDeposit" -> contract[tx.partner].opened /\ spent(tx) > 0

eventsOf(tx) ==
  LET log(type) == [type |-> type, partner |-> tx.partner, participant |-> "own", total |-> tx.value]
  IN CASE withDeposit(tx) -> <<[log("opened") EXCEPT !.total = 0], log("deposit")>>
       [] tx.method = "openChannel" /\ ~withDeposit(tx) -> <<log("opened")>>
       [] tx.method = "setTotalDeposit" -> <<log("deposit")>>
       [] OTHER -> <<>>

execute(tx) ==
  /\ balance' = balance - spent(tx)
  /\ allowance' = IF tx.method = "approve" THEN tx.value ELSE allowance - spent(tx)
  /\ contract' = IF tx.method = "approve" THEN contract
                 ELSE [contract EXCEPT ![tx.partner].opened = TRUE, ![tx.partner].own = tx.value]
  /\ logs' = logs \o eventsOf(tx)

-----------------------------------------------------------------------------
(* Requests *)

max(a, b) == IF a >= b THEN a ELSE b

Init ==
  /\ config \in Configs
  /\ balance = Balance /\ allowance = 0
  /\ contract = [p \in Partner |-> [opened |-> FALSE, own |-> 0, partner |-> 0]]
  /\ mempool = <<>> /\ logs = <<>>
  /\ channels = [p \in Partner |-> [known |-> FALSE, own |-> 0, partner |-> 0]]
  /\ queue = <<>> /\ openings = {}
  /\ requests = 0 /\ plan \in Plans /\ asked = [p \in Partner |-> [opens |-> 0, open |-> 0, more |-> 0]] /\ failed = {}

\* groupBy of channelDepositEpic: requests of a channel are serialized, those of a
\* token network too if they approve what they need only
sameGroup(r, s) == r.partner = s.partner \/ config.minimumAllowance # MaxUint256
\* Mutant of isHead: the requests aren't serialized
isHeadAny(i) == i \in DOMAIN queue
isHead(i) == \A j \in 1..(i - 1) : ~sameGroup(queue[j], queue[i])
handled == {i \in DOMAIN queue : isHead(i) /\ queue[i].step # "queued"}
handles(i, steps) == i \in handled /\ queue[i].step \in steps

request(p, relative, amount) ==
  [id |-> requests + 1, partner |-> p, relative |-> relative, amount |-> amount,
   step |-> "queued", deposit |-> 0, total |-> 0, retries |-> 0]

\* Raiden.openChannel, channelOpenEpic
channelOpenRequest(p, amount) ==
  /\ requests < MaxRequests
  /\ requests' = requests + 1 /\ plan' = [plan EXCEPT ![p] = Tail(@)]
  /\ IF channels[p].known
     THEN /\ failed' = failed \cup {p}
          /\ UNCHANGED <<openings, queue, asked>>
     ELSE /\ openings' = openings \cup
               {[id |-> requests + 1, partner |-> p, step |-> "send", retries |-> 0,
                 amount |-> IF config.openChannelWithDeposit THEN amount ELSE 0]}
          /\ queue' = Append(queue, request(p, FALSE, amount))
          /\ asked' = [asked EXCEPT ![p].opens = @ + 1, ![p].open = max(@, amount)]
          /\ UNCHANGED failed
  /\ UNCHANGED <<config, balance, allowance, contract, mempool, logs, channels>>

\* Raiden.depositChannel, of a channel the user opened
channelDepositRequest(p, amount) ==
  /\ requests < MaxRequests
  /\ channels[p].known \/ \E i \in DOMAIN queue : queue[i].partner = p
  /\ requests' = requests + 1 /\ plan' = [plan EXCEPT ![p] = Tail(@)]
  /\ queue' = Append(queue, request(p, TRUE, amount))
  /\ asked' = [asked EXCEPT ![p].more = @ + amount]
  /\ UNCHANGED <<config, balance, allowance, contract, mempool, logs, channels, openings, failed>>

\* channelDeposit.failure: the next request of the group is handled
depositFails(i) ==
  /\ queue' = RemoveAt(queue, i)
  /\ failed' = failed \cup {queue[i].partner}

\* Mutant of totalDeposit: what was asked for with the opening is added to a deposit that is there
totalDepositAdded(r) == channels[r.partner].own + r.amount

\* getDeposits, with the deposit that is known when the request is handled
totalDeposit(r) == IF r.relative THEN channels[r.partner].own + r.amount ELSE r.amount
deposit(r) == IF r.relative THEN r.amount ELSE r.amount - channels[r.partner].own

channelDepositEpic(i) ==
  /\ isHead(i) /\ queue[i].step = "queued"
  /\ LET r == queue[i] IN
     IF (r.relative /\ ~channels[r.partner].known) \/ deposit(r) <= 0
     THEN depositFails(i)
     ELSE /\ queue' = [queue EXCEPT ![i].step = "check", ![i].total = totalDeposit(r), ![i].deposit = deposit(r)]
          /\ UNCHANGED failed
  /\ UNCHANGED <<config, balance, allowance, contract, mempool, logs, channels, openings, user>>

\* ensureApprovedBalance$
ensureApprovedBalance(i) ==
  /\ handles(i, {"check"})
  /\ IF balance < queue[i].deposit THEN depositFails(i)
     ELSE /\ queue' = [queue EXCEPT ![i].step = CASE allowance >= queue[i].deposit -> "channelId"
                                                  [] allowance \in 1..(queue[i].deposit - 1) -> "reset"
                                                  [] OTHER -> "approve"]
          /\ UNCHANGED failed
  /\ UNCHANGED <<config, balance, allowance, contract, mempool, logs, channels, openings, user>>

-----------------------------------------------------------------------------
(* Transactions *)

\* What a request sends, and what it waits for then
txOf(r) ==
  CASE r.step = "reset" -> [by |-> r.id, method |-> "approve", partner |-> r.partner, value |-> 0]
    [] r.step = "approve" -> [by |-> r.id, method |-> "approve", partner |-> r.partner,
                              value |-> max(config.minimumAllowance, r.deposit)]
    [] r.step = "channelId" -> [by |-> r.id, method |-> "setTotalDeposit", partner |-> r.partner, value |-> r.total]
sending == [reset |-> "resetting", approve |-> "approving", channelId |-> "depositing"]
\* ... and once that is mined
mined == [resetting |-> "approve", approving |-> "channelId", depositing |-> "confirming"]

\* Mutant of retryDeposit: never gives up
retryDepositForEver(i) ==
  /\ queue' = [queue EXCEPT ![i].step = "check", ![i].retries = @ + 1]
  /\ UNCHANGED failed

\* retryWhile starts over at ensureApprovedBalance$
retryDeposit(i) ==
  IF queue[i].retries = MaxRetries THEN depositFails(i)
  ELSE /\ queue' = [queue EXCEPT ![i].step = "check", ![i].retries = @ + 1]
       /\ UNCHANGED failed

\* makeDeposit$, transact: an invalid transaction fails in estimateGas
sendDeposit(i) ==
  /\ handles(i, DOMAIN sending)
  /\ queue[i].step = "channelId" => channels[queue[i].partner].known
  /\ IF isValid(txOf(queue[i]))
     THEN /\ mempool' = Append(mempool, txOf(queue[i]))
          /\ queue' = [queue EXCEPT ![i].step = sending[@]]
          /\ UNCHANGED failed
     ELSE retryDeposit(i) /\ UNCHANGED mempool
  /\ UNCHANGED <<config, balance, allowance, contract, logs, channels, openings, user>>

openTx(o) == [by |-> o.id, method |-> "openChannel", partner |-> o.partner, value |-> o.amount]

\* Mutant of openFails: the deposit goes on waiting for the channel
openFailsAlone(o) ==
  /\ openings' = openings \ {o}
  /\ failed' = failed \cup {o.partner}
  /\ UNCHANGED queue

\* channelOpen.failure: also what a deposit that waits for the channel fails with
openFails(o) ==
  LET waits(r) == r.partner = o.partner /\ ~channels[o.partner].known
      failing == {i \in handled : waits(queue[i])}
  IN /\ openings' = openings \ {o}
     /\ queue' = IF failing = {} THEN queue ELSE RemoveAt(queue, CHOOSE i \in failing : TRUE)
     /\ failed' = failed \cup {o.partner}

retryOpen(o) ==
  IF o.retries = MaxRetries THEN openFails(o)
  ELSE /\ openings' = (openings \ {o}) \cup {[o EXCEPT !.step = "send", !.retries = @ + 1]}
       /\ UNCHANGED <<queue, failed>>

sendOpen(o) ==
  /\ o \in openings /\ o.step = "send"
  /\ IF isValid(openTx(o))
     THEN /\ mempool' = Append(mempool, openTx(o))
          /\ openings' = (openings \ {o}) \cup {[o EXCEPT !.step = "sent"]}
          /\ UNCHANGED <<queue, failed>>
     ELSE retryOpen(o) /\ UNCHANGED mempool
  /\ UNCHANGED <<config, balance, allowance, contract, logs, channels, user>>

\* A transaction is mined, assertTx
mine ==
  /\ mempool # <<>>
  /\ mempool' = Tail(mempool)
  /\ LET tx == Head(mempool)
         r == {i \in DOMAIN queue : queue[i].id = tx.by /\ handles(i, DOMAIN mined)}
         o == {x \in openings : x.id = tx.by /\ x.step = "sent"}
     IN /\ IF isValid(tx) THEN execute(tx) ELSE UNCHANGED <<balance, allowance, contract, logs>>
        /\ CASE tx.method = "openChannel" /\ o # {} ->
                 LET x == CHOOSE x \in o : TRUE IN
                 IF isValid(tx)
                 THEN /\ openings' = (openings \ {x}) \cup {[x EXCEPT !.step = "confirming"]}
                      /\ UNCHANGED <<queue, failed>>
                 ELSE retryOpen(x)
             [] tx.method # "openChannel" /\ r # {} ->
                 LET i == CHOOSE i \in r : TRUE IN
                 /\ IF isValid(tx)
                    THEN queue' = [queue EXCEPT ![i].step = mined[@]] /\ UNCHANGED failed
                    ELSE retryDeposit(i)
                 /\ UNCHANGED openings
             [] OTHER -> UNCHANGED <<queue, openings, failed>>
  /\ UNCHANGED <<config, channels, user>>

-----------------------------------------------------------------------------
(* Events *)

\* An opening that wasn't confirmed yet ends the retries of channelOpenEpic
openingSeen(p) ==
  /\ \E i \in DOMAIN logs : logs[i].type = "opened" /\ logs[i].partner = p
  /\ \E o \in openings : o.partner = p /\ o.step # "confirming"
  /\ openings' = {IF o.partner = p THEN [o EXCEPT !.step = "confirming"] ELSE o : o \in openings}
  /\ UNCHANGED <<config, balance, allowance, contract, mempool, logs, channels, queue, user, failed>>

\* A confirmed channelDeposit.success ends the request that waits for one with its meta, whoever
\* made the deposit, and any request whose total is reached (channelDepositEpic: concatWith, takeUntil)
endedBy(log, chs) ==
  {i \in handled :
     /\ queue[i].partner = log.partner
     /\ \/ queue[i].step = "confirming" /\ log.type = "deposit" /\ log.total >= queue[i].total
        \/ chs[log.partner].known /\ chs[log.partner].own >= queue[i].total}

confirm ==
  /\ logs # <<>>
  /\ logs' = Tail(logs)
  /\ LET log == Head(logs)
         chs == CASE log.type = "opened" -> [channels EXCEPT ![log.partner].known = TRUE]
                  [] log.type = "deposit" /\ log.participant = "own" -> [channels EXCEPT ![log.partner].own = max(@, log.total)]
                  [] OTHER -> [channels EXCEPT ![log.partner].partner = max(@, log.total)]
         ended == endedBy(log, chs)
     IN /\ channels' = chs
        /\ openings' = {o \in openings : ~(log.type = "opened" /\ o.partner = log.partner)}
        /\ queue' = IF ended = {} THEN queue ELSE RemoveAt(queue, CHOOSE i \in ended : TRUE)
  /\ UNCHANGED <<config, balance, allowance, contract, mempool, user, failed>>

partnerOpens(p) ==
  /\ ~contract[p].opened
  /\ contract' = [contract EXCEPT ![p].opened = TRUE]
  /\ logs' = Append(logs, [type |-> "opened", partner |-> p, participant |-> "partner", total |-> 0])
  /\ UNCHANGED <<config, balance, allowance, mempool, channels, queue, openings, user, failed>>

partnerDeposits(p, amount) ==
  /\ contract[p].opened /\ contract[p].partner < amount
  /\ contract' = [contract EXCEPT ![p].partner = amount]
  /\ logs' = Append(logs, [type |-> "deposit", partner |-> p, participant |-> "partner", total |-> amount])
  /\ UNCHANGED <<config, balance, allowance, mempool, channels, queue, openings, user, failed>>

-----------------------------------------------------------------------------
\* concatMap goes on to the next request at once
isTaken == \A i \in DOMAIN queue : isHead(i) => queue[i].step # "queued"

Next ==
  \/ \E i \in DOMAIN queue : channelDepositEpic(i)
  \/ /\ isTaken
     /\ \/ \E p \in Partner : /\ plan[p] # <<>>
                              /\ channelOpenRequest(p, Head(plan[p])) \/ channelDepositRequest(p, Head(plan[p]))
        \/ \E i \in DOMAIN queue : ensureApprovedBalance(i) \/ sendDeposit(i)
        \/ \E o \in openings : sendOpen(o)
        \/ mine
        \/ confirm
        \/ \E p \in Partner : openingSeen(p)
        \/ \E p \in Depositor : partnerOpens(p) \/ \E a \in Amount : partnerDeposits(p, a)

Spec == Init /\ [][Next]_vars

\* The epics, the miners and the confirmations go on
FairSpec ==
  /\ Spec
  /\ \A id \in Id :
       /\ WF_vars(\E i \in DOMAIN queue : queue[i].id = id /\ channelDepositEpic(i))
       /\ WF_vars(isTaken /\ \E i \in DOMAIN queue : queue[i].id = id /\ (ensureApprovedBalance(i) \/ sendDeposit(i)))
       /\ WF_vars(isTaken /\ \E o \in openings : o.id = id /\ sendOpen(o))
  /\ WF_vars(isTaken /\ mine) /\ WF_vars(isTaken /\ confirm)

-----------------------------------------------------------------------------
(* Properties *)

\* Types of the variables.
TypeOK ==
  /\ config \in Configs /\ balance \in 0..Balance /\ allowance \in 0..MaxUint256
  /\ contract \in [Partner -> [opened : BOOLEAN, own : Nat, partner : Nat]]
  /\ mempool \in Seq(Tx) /\ logs \in Seq(Log)
  /\ channels \in [Partner -> [known : BOOLEAN, own : Nat, partner : Nat]]
  /\ queue \in Seq(DepositRequest) /\ openings \subseteq OpenRequest
  /\ requests \in 0..MaxRequests /\ plan \in [Partner -> Seq(Amount)] /\ failed \subseteq Partner
  /\ asked \in [Partner -> [opens : Nat, open : Nat, more : Nat]]

\* However many requests, retries and openings with a deposit are under way at once, no more is
\* deposited than the user asked for (channelOpenEpic asks channelDepositEpic for the
\* same deposit it may already put in the opening transaction).
NoOverDeposit == \A p \in Partner : contract[p].own <= asked[p].open + asked[p].more

\* ... and once everything is done and nothing failed, all of it is deposited, and known: a request
\* starts from a deposit that is up to date, if nobody else deposits (the lock of channelDepositEpic).
isDone(p) ==
  /\ \A i \in DOMAIN queue : queue[i].partner # p
  /\ \A o \in openings : o.partner # p
  /\ \A i \in DOMAIN logs : logs[i].partner # p
ExactDeposit ==
  \A p \in Partner : isDone(p) /\ p \notin failed /\ contract[p].partner = 0 =>
     /\ channels[p].own = contract[p].own
     /\ contract[p].own >= asked[p].open
     /\ asked[p].opens <= 1 => contract[p].own = asked[p].open + asked[p].more

\* Every request to deposit comes to an end: it succeeds or it fails, but doesn't hold the lock for ever.
EveryDepositEnds ==
  \A id \in Id : (\E i \in DOMAIN queue : queue[i].id = id) ~> (\A i \in DOMAIN queue : queue[i].id # id)

=============================================================================
