----------------------------- MODULE Withdraws -----------------------------
(***************************************************************************)
(* The withdraw protocol of a channel: the requester asks its partner to   *)
(* confirm a total withdraw (WithdrawRequest), the partner signs it        *)
(* (WithdrawConfirmation), the requester takes both signatures to the      *)
(* chain, or lets the request expire (WithdrawExpired) and be forgotten.   *)
(*                                                                         *)
(* These messages consume the nonces of the transfers' messages, and their *)
(* handlers run in the same concatMap.  Of the transfers only              *)
(* LockedTransfers are modelled here: they spend what a withdraw claims.   *)
(* Module Envelopes has the rest of the transfers, and shows that their    *)
(* messages arrive in the end.                                             *)
(***************************************************************************)
EXTENDS Channel, FiniteSetsExt

CONSTANTS
  Withdraw,   \* withdraws: a requester, a total and an expiration
  Requester,  \* Requester[w] is the withdrawing node
  Total,      \* Total[w] is total_withdraw
  MaxClosers, \* bound on the number of nodes that begin to close the channel
  MaxCrash    \* MaxCrash[n]: bound on the number of crashes of n

ASSUME WithdrawsAssumption ==
  /\ Requester \in [Withdraw -> Node]
  /\ Total \in [Withdraw -> Nat \ {0}]
  /\ MaxClosers \in Nat
  /\ MaxCrash \in [Node -> Nat]

VARIABLES
  channel,    \* channel[n]: state of the channel in n's store, "open" or "closing"
  reopened,   \* nodes of which a close failed
  end,        \* end[n][m]: n's copy of the channel end of m
  withdrawn,  \* withdrawn[n][m]: field withdraw of that copy
  pending,    \* pending[n][m]: field pendingWithdraws of that copy
  requested,  \* transfers whose route is resolved and that wait in the concatMap
  job,        \* job[n]: what n's concatMap is busy with: a message being signed, a
              \* LockedTransfer or a WithdrawExpired whose Processed is being signed,
              \* or a WithdrawRequest and its WithdrawConfirmation
  asking,     \* asking[n]: withdraws with a loop in withdrawSendRequestMessageEpic
  watching,   \* watching[n]: withdraws with timers in withdrawAutoExpireEpic
  expiring,   \* expiring[n]: messages with a loop in withdrawSendExpireMessageEpic
  ready,      \* ready[n]: withdraws waiting in withdrawSendTxEpic
  sending,    \* sending[n]: the withdraw whose transaction it is busy with, if any
  up,         \* up[n]: whether n runs
  crashes,    \* crashes[n]: how often n was killed so far
  wire,       \* messages in flight
  answers,    \* WithdrawExpired messages whose Processed is in flight
  log,        \* every message ever handed to the transport
  late,       \* withdraws that expire within revealTimeout
  past,       \* past[n]: withdraws whose expiration n's clock has passed
  txs,        \* withdraws with a setTotalWithdraw transaction in the mempool
  mined       \* withdraws whose transaction is in a block

store == <<channel, reopened, end, withdrawn, pending>>
epics == <<requested, job, asking, watching, expiring, ready, sending, up, crashes>>
network == <<wire, answers, log>>
world == <<late, past, txs, mined>>
vars == <<channel, reopened, end, withdrawn, pending,
          requested, job, asking, watching, expiring, ready, sending, up, crashes,
          wire, answers, log, late, past, txs, mined>>

WithdrawType == {"WithdrawRequest", "WithdrawConfirmation", "WithdrawExpired"}

Message ==
  [type : WithdrawType, from : Node, of : Withdraw, nonce : Nat]
    \cup [type : {"LockedTransfer"}, from : Node, of : Transfer, nonce : Nat]

own(n) == end[n][n]
partner(n) == end[n][Peer[n]]
idle(n) == up[n] /\ job[n] = {}

\* matchWithdraw: the messages of a type about w in n's copy of m's end
match(n, m, type, w) == {p \in pending[n][m] : p.type = type /\ p.of = w}

\* Mutant of pendingWithdraw: what is asked for may still be spent
pendingWithdrawOnchain(n, m) == withdrawn[n][m]

\* ownPendingWithdraw, partnerPendingWithdraw: the largest total of the end of m,
\* on-chain or asked for
pendingWithdraw(n, m) ==
  Max({withdrawn[n][m]}
        \cup {Total[p.of] : p \in {q \in pending[n][m] : q.type = "WithdrawRequest"}})

\* The message n composes next
compose(n, type, x) == [type |-> type, from |-> n, of |-> x, nonce |-> own(n).nextNonce]

-----------------------------------------------------------------------------
(***************************************************************************)
(* Reducers and epics common to the handlers                               *)
(***************************************************************************)

\* m has the next nonce of its sender
applies(n, m) == channel[n] = "open" /\ m.nonce = end[n][m.from].nextNonce

\* Mutant of withdrawReducer: only the requester's messages use up nonces
withdrawReducerRequester(n, S) ==
  LET applied == {m \in S : applies(n, m)}
  IN /\ end' = [end EXCEPT ![n] =
                  [o \in Node |-> [end[n][o] EXCEPT !.nextNonce =
                     IF \E m \in applied : m.from = o /\ Requester[m.of] = o THEN @ + 1 ELSE @]]]
     /\ pending' = [pending EXCEPT ![n] =
                      [o \in Node |-> @[o] \cup {m \in applied : Requester[m.of] = o}]]

\* withdrawReducer: the messages S are applied to n's copies of the ends.  The nonce
\* is the sender's, the message is kept at the requester's end.
withdrawReducer(n, S) ==
  LET applied == {m \in S : applies(n, m)}
  IN /\ end' = [end EXCEPT ![n] =
                  [o \in Node |-> [end[n][o] EXCEPT !.nextNonce =
                     IF \E m \in applied : m.from = o THEN @ + 1 ELSE @]]]
     /\ pending' = [pending EXCEPT ![n] =
                      [o \in Node |-> @[o] \cup {m \in applied : Requester[m.of] = o}]]

\* The client stops: loops, timers and what waits in its epics are gone
stop(n) ==
  /\ requested' = {t \in requested : Payer[t] # n}
  /\ job' = [job EXCEPT ![n] = {}]
  /\ asking' = [asking EXCEPT ![n] = {}]
  /\ watching' = [watching EXCEPT ![n] = {}]
  /\ expiring' = [expiring EXCEPT ![n] = {}]
  /\ ready' = [ready EXCEPT ![n] = {}]
  /\ sending' = [sending EXCEPT ![n] = {}]
  /\ up' = [up EXCEPT ![n] = FALSE]

send(S) == wire' = wire \cup S /\ log' = log \cup S

\* The concatMap signs, or acknowledges, the messages S
begin(n, S) ==
  /\ job' = [job EXCEPT ![n] = S]
  /\ UNCHANGED <<store, network, world, asking, watching, expiring, ready, sending,
                 up, crashes>>

-----------------------------------------------------------------------------
(***************************************************************************)
(* Transfers: the capacity is what no withdraw claims                      *)
(***************************************************************************)

\* The route of a transfer is resolved; its capacity is not looked at again
transferRequest(n, t) ==
  /\ up[n] /\ channel[n] = "open"
  /\ Payer[t] = n /\ t \notin requested /\ t \notin own(n).locks
  /\ Amount[t] <= Capacity(own(n), partner(n), pendingWithdraw(n, n))
  /\ requested' = requested \cup {t}
  /\ UNCHANGED <<store, network, world, job, asking, watching, expiring, ready, sending,
                 up, crashes>>

sendTransferSigned(n, t) ==
  /\ idle(n) /\ Payer[t] = n /\ t \in requested
  /\ requested' = requested \ {t}
  /\ begin(n, IF channel[n] = "open" /\ t \notin own(n).locks
              THEN {compose(n, "LockedTransfer", t)} ELSE {})

\* m is applied to n's copy of its sender's end.  A transfer the reducer ignores
\* isn't in memory when its own epics read it: they throw, and the client stops.
transferEnvelopeReducer(n, m) ==
  IF applies(n, m)
  THEN /\ end' = [end EXCEPT ![n][m.from] =
                    [end[n][m.from] EXCEPT !.locks = @ \cup {m.of}, !.locked = @ + Amount[m.of],
                              !.nextNonce = @ + 1]]
       /\ job' = [job EXCEPT ![n] = {}]
       /\ send(IF m.from = n THEN {m} ELSE {})
       /\ UNCHANGED <<requested, asking, watching, expiring, ready, sending, up>>
  ELSE /\ stop(n)
       /\ UNCHANGED <<end, wire, log>>

\* The LockedTransfer, or the Processed of the partner's one, is signed
transferSigned(n, m) ==
  /\ m \in job[n] /\ m.type = "LockedTransfer"
  /\ transferEnvelopeReducer(n, m)
  /\ UNCHANGED <<channel, reopened, withdrawn, pending, crashes, answers, world>>

receiveTransferSigned(n, m) ==
  /\ idle(n) /\ m \in wire /\ m.from = Peer[n] /\ m.type = "LockedTransfer"
  /\ channel[n] = "open" /\ m.nonce = partner(n).nextNonce
  /\ m.of \notin partner(n).locks
  /\ Amount[m.of] <= Capacity(partner(n), own(n), pendingWithdraw(n, Peer[n]))
  /\ begin(n, {m})
  /\ UNCHANGED requested

-----------------------------------------------------------------------------
(***************************************************************************)
(* Asking for a withdraw                                                   *)
(***************************************************************************)

\* Raiden.withdrawChannel: of what one owns in an open channel; whether it is too much is decided later
withdrawChannel(n, w) == channel[n] = "open" /\ Requester[w] = n

\* sendWithdrawRequest: one withdraw at a time
sendWithdrawRequest(n, w) ==
  /\ idle(n) /\ withdrawChannel(n, w)
  /\ pending[n][n] = {}
  /\ Total[w] <= TotalWithdrawable(own(n), partner(n))
  /\ Total[w] > withdrawn[n][n]
  /\ w \notin late
  /\ begin(n, {compose(n, "WithdrawRequest", w)})
  /\ UNCHANGED requested

\* ... and as long as an earlier one has its confirmation stored, asking for any
\* other one tries the transaction of the earlier one again
retryConfirmation(n) ==
  /\ idle(n) /\ channel[n] = "open"
  /\ \E c \in pending[n][n] :
        /\ c.type = "WithdrawConfirmation"
        /\ ready' = [ready EXCEPT ![n] = @ \cup {c.of}]
  /\ UNCHANGED <<store, network, world, requested, job, asking, watching, expiring,
                 sending, up, crashes>>

\* withdrawMessage.request: the request is kept, sent again and again, and watched.
\* If the channel isn't open by now, all of them end at once.
withdrawMessageRequest(n, m) ==
  LET S == {p \in {m} : applies(n, p)}
      ws == {p.of : p \in S}
  IN /\ m \in job[n] /\ m.from = n /\ m.type = "WithdrawRequest"
     /\ withdrawReducer(n, {m})
     /\ job' = [job EXCEPT ![n] = {}]
     /\ asking' = [asking EXCEPT ![n] = @ \cup ws]
     /\ watching' = [watching EXCEPT ![n] = @ \cup ws]
     /\ send(S)
     /\ UNCHANGED <<channel, reopened, withdrawn, requested, expiring, ready, sending, up, crashes,
                    answers, world>>

\* withdrawSendRequestMessageEpic: until the request is confirmed or gone
retryWithdrawRequest(n, w) ==
  /\ w \in asking[n] /\ channel[n] = "open"
  /\ match(n, n, "WithdrawConfirmation", w) = {}
  /\ send(match(n, n, "WithdrawRequest", w))
  /\ UNCHANGED <<store, epics, answers, world>>

-----------------------------------------------------------------------------
(***************************************************************************)
(* Confirming a withdraw                                                   *)
(***************************************************************************)

\* receiveWithdrawRequest: whatever its expiration is
receiveWithdrawRequest(n, m) ==
  /\ idle(n) /\ m \in wire /\ m.from = Peer[n] /\ m.type = "WithdrawRequest"
  /\ channel[n] = "open"
  /\ match(n, m.from, "WithdrawConfirmation", m.of) = {}
  /\ m.nonce = partner(n).nextNonce
  /\ Total[m.of] <= TotalWithdrawable(partner(n), own(n))
  /\ begin(n, {m, compose(n, "WithdrawConfirmation", m.of)})
  /\ UNCHANGED requested

\* The confirmation is signed: request and confirmation are applied, in a channel
\* that is still open, and the confirmation is sent, in any
confirm(n) ==
  \E m, c \in job[n] :
     /\ m.type = "WithdrawRequest" /\ c.type = "WithdrawConfirmation"
     /\ withdrawReducer(n, {m, c})
     /\ job' = [job EXCEPT ![n] = {}]
     /\ send({c})
     /\ UNCHANGED <<channel, reopened, withdrawn, requested, asking, watching, expiring, ready,
                    sending, up, crashes, answers, world>>

\* A request that was confirmed before is answered by the stored confirmation
confirmAgain(n, m) ==
  /\ idle(n) /\ m \in wire /\ m.from = Peer[n] /\ m.type = "WithdrawRequest"
  /\ channel[n] = "open"
  /\ \E c \in match(n, m.from, "WithdrawConfirmation", m.of) : send({c})
  /\ UNCHANGED <<store, epics, answers, world>>

\* receiveWithdrawConfirmation: the reducer ignores it unless its nonce is the next
\* one, the transaction is tried in any case
receiveWithdrawConfirmation(n, c) ==
  /\ idle(n) /\ c \in wire /\ c.from = Peer[n] /\ c.type = "WithdrawConfirmation"
  /\ channel[n] = "open"
  /\ withdrawReducer(n, {c})
  /\ ready' = [ready EXCEPT ![n] = @ \cup {c.of}]
  /\ wire' = wire \ {c}
  /\ UNCHANGED <<channel, reopened, withdrawn, requested, job, asking, watching, expiring, sending,
                 up, crashes, answers, log, world>>

-----------------------------------------------------------------------------
(***************************************************************************)
(* Withdrawing on-chain                                                    *)
(***************************************************************************)

\* withdrawSendTxEpic: one transaction at a time; withdraw.failure if any of its
\* assertions fails
withdrawSendTx(n, w) ==
  LET sends == /\ channel[n] = "open"
               /\ match(n, n, "WithdrawRequest", w) # {}
               /\ Total[w] > withdrawn[n][n]
               /\ w \notin late
  IN /\ w \in ready[n] /\ sending[n] = {}
     /\ ready' = [ready EXCEPT ![n] = @ \ {w}]
     /\ sending' = [sending EXCEPT ![n] = IF sends THEN {w} ELSE {}]
     /\ txs' = IF sends THEN txs \cup {w} ELSE txs
     /\ UNCHANGED <<store, network, requested, job, asking, watching, expiring, up, crashes,
                    late, past, mined>>

\* The prompt is rejected, or the transaction fails and will not be mined
withdrawFailure(n, w) ==
  /\ w \in sending[n] /\ w \in txs
  /\ txs' = txs \ {w}
  /\ sending' = [sending EXCEPT ![n] = {}]
  /\ UNCHANGED <<store, network, requested, job, asking, watching, expiring, ready, up,
                 crashes, late, past, mined>>

\* setTotalWithdraw is mined: in time, and more than was withdrawn before.  The
\* client that sent it stops watching its expiration (withdraw.success).
setTotalWithdraw(w) ==
  /\ w \in txs
  /\ \A n \in Node : w \notin past[n]
  /\ \A v \in mined : Requester[v] = Requester[w] => Total[v] < Total[w]
  /\ mined' = mined \cup {w}
  /\ txs' = txs \ {w}
  /\ watching' = [n \in Node |-> IF w \in sending[n] THEN watching[n] \ {w} ELSE watching[n]]
  /\ UNCHANGED <<store, network, requested, job, asking, expiring, ready, sending, up,
                 crashes, late, past>>

\* channelUpdateOnchainBalanceStateReducer: the confirmed event, of either end,
\* clears the withdraws it covers.  It is ignored if it is past or if the channel
\* isn't open; withdrawSendTxEpic goes on in any case.
channelWithdrawn(n, w) ==
  LET m == Requester[w]
      counts == channel[n] = "open" /\ Total[w] > withdrawn[n][m]
  IN /\ up[n] /\ w \in mined
     /\ withdrawn' = [withdrawn EXCEPT ![n][m] = IF counts THEN Total[w] ELSE @]
     /\ pending' = [pending EXCEPT ![n][m] = {p \in @ : counts => Total[p.of] > Total[w]}]
     /\ sending' = [sending EXCEPT ![n] = @ \ {w}]
     /\ UNCHANGED <<channel, reopened, end, requested, job, asking, watching, expiring, ready,
                    up, crashes, network, world>>

-----------------------------------------------------------------------------
(***************************************************************************)
(* Expiring a withdraw                                                     *)
(***************************************************************************)

\* withdrawAutoExpireEpic and sendWithdrawExpired
sendWithdrawExpired(n, w) ==
  /\ idle(n) /\ w \in watching[n] /\ w \in past[n] /\ w \notin sending[n]
  /\ channel[n] = "open"
  /\ match(n, n, "WithdrawExpired", w) = {}
  /\ match(n, n, "WithdrawRequest", w) # {}
  /\ begin(n, {compose(n, "WithdrawExpired", w)})
  /\ UNCHANGED requested

\* withdrawExpire.success: nothing is looked at again
withdrawExpireSuccess(n, m) ==
  /\ m \in job[n] /\ m.from = n /\ m.type = "WithdrawExpired"
  /\ withdrawReducer(n, {m})
  /\ job' = [job EXCEPT ![n] = {}]
  /\ expiring' = [expiring EXCEPT ![n] = @ \cup {m}]
  /\ send({m})
  /\ UNCHANGED <<channel, reopened, withdrawn, requested, asking, watching, ready, sending, up,
                 crashes, answers, world>>

\* withdrawSendExpireMessageEpic: until Processed is received
retryWithdrawExpired(n, m) ==
  /\ m \in expiring[n]
  /\ send({m})
  /\ UNCHANGED <<store, epics, answers, world>>

\* receiveWithdrawExpired: the first time, or again
receiveWithdrawExpired(n, m) ==
  /\ idle(n) /\ m \in wire /\ m.from = Peer[n] /\ m.type = "WithdrawExpired"
  /\ channel[n] = "open"
  /\ m.nonce <= partner(n).nextNonce
  /\ m.of \in past[n]
  /\ begin(n, {m})
  /\ UNCHANGED requested

\* Its Processed is signed: withdrawExpire.success, then withdrawCompleted, forget
\* everything about the withdraw
acknowledgeExpired(n, m) ==
  /\ m \in job[n] /\ m.from = Peer[n] /\ m.type = "WithdrawExpired"
  /\ end' = [end EXCEPT ![n][m.from].nextNonce = IF applies(n, m) THEN @ + 1 ELSE @]
  /\ pending' = [pending EXCEPT ![n][m.from] =
                   {p \in @ : channel[n] = "open" => p.of # m.of}]
  /\ answers' = answers \cup {m}
  /\ job' = [job EXCEPT ![n] = {}]
  /\ UNCHANGED <<channel, reopened, withdrawn, requested, asking, watching, expiring, ready, sending,
                 up, crashes, wire, log, world>>

\* The requester receives Processed
withdrawCompleted(n, m) ==
  /\ m \in expiring[n] /\ m \in answers
  /\ expiring' = [expiring EXCEPT ![n] = @ \ {m}]
  /\ pending' = [pending EXCEPT ![n][n] = {p \in @ : channel[n] = "open" => p.of # m.of}]
  /\ UNCHANGED <<channel, reopened, end, withdrawn, requested, job, asking, watching, ready, sending,
                 up, crashes, network, world>>

-----------------------------------------------------------------------------
(***************************************************************************)
(* Signatures, crashes, restarts, the clocks and the network               *)
(***************************************************************************)

\* The user rejects a signature prompt
signatureFails(n) ==
  /\ job[n] # {}
  /\ begin(n, {})
  /\ UNCHANGED requested

crash(n) ==
  /\ up[n] /\ crashes[n] < MaxCrash[n]
  /\ crashes' = [crashes EXCEPT ![n] = @ + 1]
  /\ stop(n)
  /\ UNCHANGED <<store, network, world>>

\* initWithdrawMessagesEpic: own requests without a confirmation, and own
\* WithdrawExpired messages, are taken up again
unconfirmed(n) ==
  {m \in pending[n][n] :
      m.type = "WithdrawRequest" /\ match(n, n, "WithdrawConfirmation", m.of) = {}}

\* Mutant of restart: unanswered requests are forgotten
restartUnasked(n) ==
  LET expired == IF channel[n] = "open"
                 THEN {m \in pending[n][n] : m.type = "WithdrawExpired"} ELSE {}
  IN /\ ~up[n]
     /\ up' = [up EXCEPT ![n] = TRUE]
     /\ expiring' = [expiring EXCEPT ![n] = expired]
     /\ send(expired)
     /\ UNCHANGED <<store, requested, job, asking, watching, ready, sending, crashes,
                    answers, world>>

restart(n) ==
  LET requests == IF channel[n] = "open" THEN unconfirmed(n) ELSE {}
      expired == IF channel[n] = "open"
                 THEN {m \in pending[n][n] : m.type = "WithdrawExpired"} ELSE {}
  IN /\ ~up[n]
     /\ up' = [up EXCEPT ![n] = TRUE]
     /\ asking' = [asking EXCEPT ![n] = {m.of : m \in requests}]
     /\ watching' = [watching EXCEPT ![n] = {m.of : m \in requests}]
     /\ expiring' = [expiring EXCEPT ![n] = expired]
     /\ send(requests \cup expired)
     /\ UNCHANGED <<store, requested, job, ready, sending, crashes, answers, world>>

\* The user, or an event of the chain, begins to close the channel: the loops that
\* ask for withdraws and the timers of their expirations end
channelClose(n) ==
  /\ up[n] /\ channel[n] = "open"
  /\ Cardinality({n} \cup reopened \cup {m \in Node : channel[m] # "open"}) <= MaxClosers
  /\ channel' = [channel EXCEPT ![n] = "closing"]
  /\ asking' = [asking EXCEPT ![n] = {}]
  /\ watching' = [watching EXCEPT ![n] = {}]
  /\ UNCHANGED <<reopened, end, withdrawn, pending, requested, job, expiring, ready, sending,
                 up, crashes, network, world>>

\* channelClose.failure: the channel is open again, its loops are not taken up
channelCloseFailure(n) ==
  /\ up[n] /\ channel[n] = "closing"
  /\ channel' = [channel EXCEPT ![n] = "open"]
  /\ reopened' = reopened \cup {n}
  /\ UNCHANGED <<end, withdrawn, pending, epics, network, world>>

expiresSoon(w) ==
  /\ w \notin late
  /\ late' = late \cup {w}
  /\ UNCHANGED <<store, epics, network, past, txs, mined>>

expires(n, w) ==
  /\ w \in late /\ w \notin past[n]
  /\ past' = [past EXCEPT ![n] = @ \cup {w}]
  /\ UNCHANGED <<store, epics, network, late, txs, mined>>

-----------------------------------------------------------------------------

Init ==
  /\ channel = [n \in Node |-> "open"]
  /\ reopened = {}
  /\ end = [n \in Node |-> [m \in Node |-> [emptyChannelEnd EXCEPT !.deposit = Deposit[m]]]]
  /\ withdrawn = [n \in Node |-> [m \in Node |-> 0]]
  /\ pending = [n \in Node |-> [m \in Node |-> {}]]
  /\ requested = {}
  /\ job = [n \in Node |-> {}]
  /\ asking = [n \in Node |-> {}]
  /\ watching = [n \in Node |-> {}]
  /\ expiring = [n \in Node |-> {}]
  /\ ready = [n \in Node |-> {}]
  /\ sending = [n \in Node |-> {}]
  /\ up = [n \in Node |-> TRUE]
  /\ crashes = [n \in Node |-> 0]
  /\ wire = {} /\ answers = {} /\ log = {}
  /\ late = {}
  /\ past = [n \in Node |-> {}]
  /\ txs = {} /\ mined = {}

RequesterNext(n, w) ==
  \/ sendWithdrawRequest(n, w) \/ retryWithdrawRequest(n, w)
  \/ withdrawSendTx(n, w) \/ withdrawFailure(n, w) \/ sendWithdrawExpired(n, w)

SignedNext(n) ==
  \/ \E m \in job[n] :
        \/ transferSigned(n, m) \/ withdrawMessageRequest(n, m)
        \/ withdrawExpireSuccess(n, m) \/ acknowledgeExpired(n, m)
  \/ confirm(n)

ReceiveNext(n) ==
  \E m \in wire :
     \/ receiveTransferSigned(n, m) \/ receiveWithdrawRequest(n, m) \/ confirmAgain(n, m)
     \/ receiveWithdrawConfirmation(n, m) \/ receiveWithdrawExpired(n, m)

NodeNext(n) ==
  \/ \E t \in Transfer : transferRequest(n, t) \/ sendTransferSigned(n, t)
  \/ \E w \in Withdraw : RequesterNext(n, w) \/ channelWithdrawn(n, w) \/ expires(n, w)
  \/ \E m \in expiring[n] : retryWithdrawExpired(n, m) \/ withdrawCompleted(n, m)
  \/ SignedNext(n) \/ ReceiveNext(n)
  \/ retryConfirmation(n) \/ signatureFails(n) \/ crash(n) \/ restart(n)
  \/ channelClose(n) \/ channelCloseFailure(n)

Next ==
  \/ \E n \in Node : NodeNext(n)
  \/ \E w \in Withdraw : setTotalWithdraw(w) \/ expiresSoon(w)

Spec == Init /\ [][Next]_vars

-----------------------------------------------------------------------------

\* A node never sends two different messages with the same nonce: requests,
\* confirmations and expirations of withdraws share the nonces of the transfers.  A
\* node of which a close failed is excepted: the reducer ignored the confirmations
\* and expirations it sent while closing, and their nonces are signed again.
NonceUnique ==
  \A m1, m2 \in log :
     m1.from = m2.from /\ m1.nonce = m2.nonce /\ m1.from \notin reopened => m1 = m2

\* Withdraws of w's requester that are on-chain, or that a confirmation still
\* allows to be brought there
claims(n) ==
  mined \cup {c.of : c \in {m \in log : /\ m.type = "WithdrawConfirmation" /\ m.from = n
                                        /\ \A o \in Node : m.of \notin past[o]}}

\* A node never accepts transfers that spend what it let its partner withdraw: what
\* the partner took, or can still take, out of the channel stays covered.  A partner
\* that was restarted is excepted: with its confirmation not stored (an earlier nonce
\* was missing) and its transaction forgotten, it expires a withdraw that is mined.
\* So are nodes that both failed to close: a withdraw confirmed while closing isn't in
\* the store, and two messages of the partner may then have the nonce of its request.
WithdrawsCovered ==
  \A n \in Node : \A w \in claims(n) :
     /\ Requester[w] = Peer[n] /\ crashes[Peer[n]] = 0
     /\ ~ {n, Peer[n]} \subseteq reopened
     => Total[w] <= TotalWithdrawable(partner(n), own(n))

\* What a requester still owes an answer for is being sent, across crashes: requests
\* without a confirmation, and expirations.  Their nonces would be missing otherwise.
\* A close that fails is excepted: the loops that it ended aren't taken up again.
PendingIsSent ==
  \A n \in Node \ reopened :
     up[n] /\ channel[n] = "open" =>
       /\ \A m \in unconfirmed(n) : m.of \in asking[n]
       /\ \A m \in pending[n][n] : m.type = "WithdrawExpired" => m \in expiring[n]

=============================================================================
