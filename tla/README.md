# The Raiden light client in TLA+

Specifications, model-checking runs and machine-checked proofs about the light
client of the Raiden network, `raiden-ts`. Paths below are relative to
`raiden-ts/src/` unless they begin with another package.

## 1. The system

A light client is one process. Its whole state is a redux store; every change is
an action that pure reducers apply. *Epics* (rxjs) read the stream of actions and
states and emit more actions. Epics interleave at every asynchronous point: a
signature (which may be a prompt of the user's wallet), a transaction, a call to
the chain, to a service or to the matrix transport. A persister copies the store
to a database; a restart begins from what it holds.

| Component | State | Operations | What is hard |
|---|---|---|---|
| Channel ends (`channels/state.ts`, `channels/utils.ts`) | `own` and `partner`: deposit, balance proof, locks, next nonce, pending withdraws | `channelAmounts` | balances are differences of what two parties signed; locks may become claimable on-chain |
| Transfer envelopes (`transfers/epics/locked.ts`, `transfers/reducer.ts`) | the channel ends, one `TransferState` per transfer and direction | compose, sign, send, validate, apply, acknowledge LockedTransfer, Unlock, LockExpired | signatures are awaited between reading and writing the nonce; messages are lost, duplicated, reordered; the channel closes meanwhile |
| Retries and restart (`transfers/epics/retry.ts`, `init.ts`, `processed.ts`) | rxjs loops in memory only | retry until Processed, re-queue after a restart, clear what is completed | loops are not persisted; they read transfers that may be gone |
| Expiration (`expire.ts`) and secrets (`secret.ts`) | timers; `secret`, `secretReveal`, `secretRegistered` | request LockExpired, reveal, unlock, register on-chain | expiration races reveals and registrations, seen by both sides at different times |
| Withdraws (`withdraw.ts`, `locked.ts`) | `pendingWithdraws` of both ends | request, confirm, expire, withdraw on-chain | three message types share the nonces of the transfers |
| Cooperative settlement (`coopsettle.ts`) | none of its own | two withdraws of everything, then one transaction | both sides must be ready at once |
| Mediation (`transfers/mediate/`) | two transfers of one secret | forward a received transfer, fees | the outgoing transfer outlives the incoming one |
| On-chain life cycle (`channels/epics/open.ts`, `deposit.ts`, `close.ts`, `settle.ts`, `monitor.ts`) | `ChannelState`, pending transactions | open, deposit, close, update, settle, unlock | events arrive unconfirmed, may be undone, and race the client's own requests |
| Blocks and confirmations (`block.ts`, `utils/ethers.ts`) | `blockNumber`, `pendingTxs` | confirm or drop actions | reorganisations |
| Matrix transport (`transport/`) | queues, presences | batches, presence, Delivered | order, repetition, an unreachable peer |
| WebRTC transport (`transport/epics/webrtc.ts`) | calls | offer, answer, hang up | both sides call at once |
| Path finding services (`services/epics/pathfinding.ts`, `helpers.ts`) | one IOU per service | find a route, pay for it | IOUs are signed from cached ones |
| Payment views of the dApp (`raiden-dapp/src/views/TransferStepsRoute.vue`, `QuickPayRoute.vue`) | a stepper; an action that runs | choose a service, find routes, deposit, pay | clicks while promises are pending; an answer goes to whoever waits for that target and value |
| User deposit and monitoring services (`udc.ts`, `monitor.ts`) | deposits, requests | deposit, plan and make a withdraw, request monitoring | requests cancelled by newer ones |
| Database and persister (`persister.ts`, `db/`) | dirty documents | save, load, migrate | what is sent before it is saved |
| Runtime (`epics.ts`, `raiden.ts`) | epics | start, stop, shut down on an error | an error in one epic ends all |

The components meet in the store. The transfer epics read and write the channel
ends; the chain epics change the state of the channel under them; the retry epic
turns actions into messages; the transport turns messages into actions of the
partner.

## 2. Modules

| Module | What it is |
|---|---|
| `Channel` | constants (nodes, transfers, amounts, deposits), `ChannelEnd`, `channelAmounts` |
| `Settlement` | abstract: what two clients promise each other about one transfer |
| `Envelopes` | the transfer half of the envelope protocol between the two clients of a channel |
| `EnvelopesInvariant` | inductive invariants of `Envelopes` |
| `EnvelopesProofs` | proofs about `Envelopes` |
| `Withdraws`, `WithdrawsProofs` | the withdraw protocol, among LockedTransfers of the same channel; proofs |
| `Lifecycle` | the life of a channel of one client, on a chain that is reorganised |
| `Funding`, `FundingProofs` | opening and depositing, with an allowance that all channels share; proofs |
| `Fees`, `Mediation` | fees of a mediator; one payment along a path in time |
| `ChainProofs` | proofs about `Lifecycle` and `Mediation` |
| `Transport`, `Calls`, `TransportProofs` | the Matrix transport of one client; WebRTC calls between two clients; proofs of both |
| `PathFinding`, `Payments`, `PathFindingProofs` | path requests and their IOUs; the views of the dApp that make them; proofs of both |
| `UserDeposit`, `Monitoring`, `MonitoringProofs` | the deposit that pays for services; what services are told; proofs of both |
| `Journal` | abstract: what a database promises |
| `Persistence`, `Runtime`, `RuntimeProofs` | persister, dumps, migrations; a client from start to end; proofs |
| `MC*` | instances for TLC |

`Channel` is shared: `Envelopes` and `Withdraws` each give their own state to its
channel ends. They are two views of one `concatMap`, each with the handlers of its
own messages; `Withdraws` adds the one transfer message that competes with a
withdraw for the balance. `Mediation` extends `Fees`, `Monitoring` extends
`UserDeposit`, `Payments` extends `PathFinding`, `Runtime` extends `Persistence`. `Envelopes` implements `Settlement`,
`Runtime` implements `Journal`.

What one module proves of a component is what the others take for granted of it:
`Mediation` lets a message arrive once or never, because `Envelopes` shows that
repetition and order don't matter; `Monitoring` lets a payment change both ends at
once; `Envelopes` and `Withdraws` let the transport do what `Transport` allows it to
(lose, repeat, reorder).

### Envelopes

`end[n][m]` is what node `n` stores of the end of `m`: `channel.own` when
`m = n`, `channel.partner` otherwise. A message is a record with its type, sender,
transfer and balance proof; `message_identifier` is fresh for each signature, so
the record stands for it. `stored[n]` holds the messages of n's TransferStates
(the fields `transfer`, `unlock`, `expired`), `processed[n]` those whose
`*Processed` field is set.

All handlers of envelope messages run in one `concatMap`
(`transferGenerateAndSignEnvelopeMessageEpic`): one at a time, first in first out.
`queue[n]` holds its requests. A handler has two halves, before and after its
signature, and `job[n]` holds the message between them, so every handler is two
actions with anything in between:

| Code | Actions |
|---|---|
| `sendTransferSigned`, `sendTransferUnlocked`, `sendTransferExpired` up to `signMessage` | the same names |
| what they emit once signed, with the reducer and the retry epic's first send | `transferSigned`, `transferUnlockSuccess`, `transferExpireSuccess` |
| `receiveTransferSigned`, `receiveTransferUnlocked`, `receiveTransferExpired` up to the signature of Processed | the same names |
| what they emit: apply, record and send Processed | `acknowledge` |
| the answer to a message that was already processed | `receiveAgain` |
| a rejected prompt | `signatureFails` |
| `transferRetryMessageEpic`, `transferProcessedReceivedEpic`, `transferAutoExpireEpic`, `transferSecretRevealedEpic`, `transferRequestUnlockEpic`, `monitorSecretRegistryEpic`, `transferClearCompletedEpic` | `retryMessage`, `retrySecretReveal`, `transferProcessedReceived`, `transferAutoExpire`, `transferSecretRevealed`, `transferSecretReveal`, `transferSecretRegistered`, `transferClear` |
| the init epics | `restart` |
| reducers of close requests, failures and events, of deposits | `channelClose*`, `channelDeposited` |

Messages of the network are sets. A message stays in `wire` after it is received,
so it may be received late, twice, in any order, or never; `lose` also removes
messages, and is only needed for liveness, where a message must be sent again to
arrive.

An error in an epic ends all of them (`epics.ts:373`); `stop` models it, and the
two places where it happens are modelled: an action emitted for a transfer that
isn't in memory, and a retry loop whose transfer is cleared.

### Withdraws

`pending[n][m]` is `pendingWithdraws` of the end of `m` in n's store, `withdrawn[n][m]`
its field `withdraw`. A withdraw `w` stands for its total and expiration, by which
`matchWithdraw` matches messages. A message names the withdraw (or the transfer) it
is about.

| Code | Actions |
|---|---|
| `sendWithdrawRequest` and what it emits | `sendWithdrawRequest`, `retryConfirmation`; `withdrawMessageRequest` |
| `receiveWithdrawRequest` | `receiveWithdrawRequest` then `confirm`; `confirmAgain` when it was confirmed before |
| `receiveWithdrawConfirmation` | the same name |
| `withdrawAutoExpireEpic` and `sendWithdrawExpired` | `sendWithdrawExpired`, `withdrawExpireSuccess` |
| `receiveWithdrawExpired` | `receiveWithdrawExpired`, `acknowledgeExpired` |
| `withdrawSendRequestMessageEpic`, `withdrawSendExpireMessageEpic` | `retryWithdrawRequest`, `retryWithdrawExpired`, `withdrawCompleted` |
| `withdrawSendTxEpic` | `withdrawSendTx`, `withdrawFailure`; the contract is `setTotalWithdraw` |
| `channelUpdateOnchainBalanceStateReducer` | `channelWithdrawn` |
| reducers of close requests, events and failures | `channelClose`, `channelCloseFailure` |
| `initWithdrawMessagesEpic` | `restart` |
| the transfers | `transferRequest`, `sendTransferSigned`, `transferSigned`, `receiveTransferSigned` |

A confirmation is consumed when it is received, because nothing but another request
makes its signer send it again; every other message stays in `wire`, for its sender
repeats it. A transaction that failed isn't mined later, and one is mined only
while the expiration hasn't passed by any clock (the contract compares it with
the time of the block). Requests wait in the concatMap in any order. The cache of
Processed messages of `receiveWithdrawExpired` has no effect on what is done: a nonce
that was low enough, and an expiration that had passed, stay so. The loops that send and watch requests
end when the channel begins to close; a close that fails opens the channel again, without them.

### Abstractions

* Locks are sets of transfers. The lock list and its `locksroot` are compared as
  a set; the order of locks is not looked at.
* `totalLocked` is a constant function with the axioms of a sum.
* `past[n]` is the set of expired transfers by n's clock: the clocks of two nodes
  are independent.
* A registration happens before any clock has passed the expiration, which is
  what `monitorSecretRegistryEpic` accepts, and is seen once it is confirmed.
* Every applied action is in the database when the client stops.

### Lifecycle

`chain` is the sequence of the token network's logs, `mempool` what was sent and isn't
mined, `channel` and `oldChannels` the state of the client, `pendingTxs` the actions
waiting for confirmations. A balance proof is the number of messages it stands for, or `Unstored`: that of a
message of the client which its own reducer ignored, so that the history doesn't have it.

| Code | Actions |
|---|---|
| `initNewBlockEpic`, `initMonitorProviderEpic` | `startClient`, `newBlock` |
| `channelEventsEpic`, `fromEthersEvent`: past and new logs | `fetchPast`, `requestLogs`, `receiveLogs` |
| `confirmationEpic`, `checkPendingAction` | `confirmation` |
| `channelOpenEpic`, `channelCloseEpic`, `channelUpdateEpic`, `channelSettleEpic`, `channelUnlockEpic`, cooperative settlement's transaction | `transact`, `channelSettleRequest`, and the jobs they start |
| `channelSettleableEpic` | `channelSettleable` |
| `Raiden.settleChannel`, `channelAutoSettleEpic` (only with `config.autoSettle`) | `settleChannel`, `channelAutoSettle` |
| a message signed while the channel is closing | `messageIgnored` |
| miners, the partner, reorganisations | `mine`, `partnerTransacts`, `nextBlock`, `reorganise` |

### Funding

`queue` holds deposits, of which the first of a group is handled at a time;
`openings` are handled in parallel; both share `allowance`. `channelDepositEpic`,
`ensureApprovedBalance`, `sendDeposit`, `sendOpen` are one asynchronous step each;
`mine` and `confirm` are the chain; `openingSeen`, `partnerOpens`, `partnerDeposits`
are events. `plan` is what the user asks for next, `asked` a history: how many openings, the most
one of them deposits, and the sum of the deposits.

### Mediation

Hop `h` is the channel of the nodes `h` and `h + 1`. `sent[h]` and `received[h]` are the
transfer states of payer and payee; messages arrive some time or never. Nodes stop and
start. `tick` advances time, and only while no transaction is overdue (`mineDelay`) and
no running node's timer is (`transferAutoRegisterEpic`): timers fire when they are due.
`Fees` searches the amount that a mediator forwards (`getStandardFeeCalculator`,
`mediate/types.ts`), with `Depth` and `Points` as bounds. A payment says what is locked, which fees mediators
take, and what is in their channels.

### Transport

Setup (`initMatrixEpic`: which servers are tried, with which credentials), presence
requests, the queue of `messages.ts` with its batches and retries, messages to
services, RTC channels, received events with unknown senders, `deliveredEpic` with its
cache. `sent`, `order`, `signed` are histories.

### Calls

`pipe[c][role]` is how far client `c` is as a caller or a callee, `channels[c]` its open
data channels, `rtc[c]` the one messages go through. `Calling`, `answer`, `Receive`,
`Events` are the steps of `manageCallerChannel` and `manageCalleeChannel`; `wants`, `call`,
`noPresence` those of the manager; `connect`, `break`, `datachannel` those of the browser.

### PathFinding

One request at a time (`concatMap`): `PathFind` has the steps of `pfsRequestEpic`: wait for
the first sync, choose a service, fetch its last IOU, sign the next one, ask, filter paths.
`owed`, `asked`, `refused` are what services know. `crash` forgets IOUs that weren't saved.

### Payments

`page` is the data of the view that is open: `TransferSteps` (`TransferStepsRoute.vue`) or
`QuickPay` (`QuickPayRoute.vue`, with the action components). A view adds requests to the
client's `queue`. `client` is a step of `PathFinding`; when a request ends, its outcome is in
`settled`, and the view's continuations run before anything else does, as microtasks.

| Code | Actions |
|---|---|
| `created` and `checkDirectRoute` up to the request | `open`, `checkDirectRoute` |
| `handleStep` up to its first `await`; after it | `clickContinue` or `setPFS`; `resume` |
| what `checkDirectRoute`, `findRoutes`, `transfer` do with an answer | `stepsSettled`; the timer for the next step is `nextStep` |
| `PathfindingServices`, `FindRoutes` | `listServices`, `select`, `setRoute` |
| `fetchCheapestPathfindingService`, `fetchCheapestMediationRoute` | the same names; `quickSettled` |
| `runAction` and the `handleAction` of the four actions | `runAction`, `deposits`, `transferDeposited`, `quickSettled`, `actionEnds` |

The amount deposited is the one that the view suggests. The token of the link is known.

### UserDeposit and Monitoring

`recent` holds the contract in the last `confirmationBlocks + 1` blocks: a reader of the
confirmed state sees its head. Time is counted in blocks. `Deposit` has the steps of
`udcDepositEpic`, `Withdraw` those of `udcAutoWithdrawEpic`, `Confirm` those of
`confirmationEpic`. `Reports(r)` has those of `msMonitorRequestEpic` and
`pfsCapacityUpdateEpic`: a debounce (`held`), then a job that a newer one replaces (`jobs`), a
signature that may be refused, and a request (`asked`) that `matrixMessageServiceSendEpic` carries out beside
others, again and again or not at all (`sending`). `told` is the newest state that arrived, `lost` what was
neither tried again nor sent.

### Persistence and Runtime

A document's value is how often it changed. `dirty` and `savers` are the persister's,
`dump` is `dumpDatabase`, `boot` how the database is opened. `Runtime` has two epics that
stand for all (one handles calls, with messages that the other sends), the one that
watches the database, and `latestEpic`, which is shut down last. Actions come between any two steps of
`saveDatabase` and of the promises that wait for it, and a crash at any moment, also while documents are copied.
`overlapped`, `late` and `cutShort` remember what then goes wrong.

### Bounds

Every bound is a constant or a field of a scenario, in a guard.

* `Envelopes`: `Expirable`, `Registrable`, `Closers` (who may close), `CloseAlone` (not in the same
  run as a crash or a registration), `CloseFails`, `MayLose`, `MaxCrash` turn hazards on and off. A request is in a queue at most once (a second
  one re-emits a cached message). A node has one `closeChannel` under way. `MaxCrash`
  counts kills; shutdowns after an error are not counted. `Withdraws` has `MaxClosers`,
  how many nodes begin to close, and `MaxCrash` for each node.
* `Lifecycle`, `PathFinding`, `UserDeposit`, `Monitoring`, `Runtime`, `Transport`: a set of
  scenarios, each of which says what the environment and the user may do and how
  often. TLC takes them all as initial states. Many short scenarios stand for a
  long one because components keep little between two requests: what one request
  leaves for the next is in the state, and scenarios with several requests go there.
* `Payments`: a scenario says how often a view is opened and how much goes wrong; `MaxWaiting` bounds clicks
  while the direct route is looked for; the page isn't loaded again while a request of a view waits.
* `Lifecycle`: `height` bounds the chain; `mayLag` lets other steps come between eth_getLogs and its answer, and
  `lag` says how far the client may be behind (see section 6).
* `Mediation`: `MaxTime` and `mineDelay` bound time; the theorem has any values that are `Timely`. Most of the
  payments are `quick`: nothing goes wrong but fees.
* `Funding`: `MaxRequests`, and `Plans`, the orders in which the user asks; `MaxRetries` stands for the 10 retries of the code, since each
  retry starts from the same state. `Calls`, `Transport`: `maxRetries`, `maxSendRetries`, `cacheSize`,
  `maxBatchSize` are small for the same reason.
* One channel, one token network.

## 3. Runs

Distinct states are those TLC finds. Every property has a mutant: a plausible bug of the
code it is about, which makes TLC refute it (`PROJECT.json`, "mutants").

| Run | Instance | Shows | States |
|---|---|---|---|
| `MCReopened` | one transfer that expires, closing may fail, one crash | what isn't acknowledged is retried (`UnackedIsRetried`); the clients implement `Settlement` (`Settles`) | 278,244 |
| `MCOpposed` | two transfers in opposite directions, b owns only what a pays it; a lock expires; a secret is registered and one node crashes, or `a` closes the channel | nonces are unique, the next message is valid, what is accepted is covered, acknowledged means applied | 942,558 |
| `MCSettled` | one transfer, losses, one crash, fairness | every lock is settled in the end | 100,672 |
| `MCWithdraws` | a withdraw and a transfer of `a`, who owns only one of them, a transfer of `b`, a crash of `a`; one of them closes, which may fail | nonces unique, confirmed withdraws covered, unanswered messages sent | 1,018,796 |
| `MCLifecycle` | a channel that is followed, with closes that fail and a reorganisation, or with a restart, blocks during requests and deposits; one that is settled automatically, by its user, or together | what is confirmed is final and applied; settlement uses the latest balances; channels that are being settled are settled, then unlocked | 478,387 |
| `MCFunding` | a channel opened twice with a deposit in between; two channels at once; one in which its partner deposits too; a balance of three; an allowance that is unlimited or just enough | no more is deposited than asked for, and all of it if nothing failed; every deposit ends | 274,968 |
| `MCMediation` | three nodes, an unreliable payer, a channel that closes; and 570 payments with other schedules, capacities and amounts, with fees of more than one token and below zero | a secret is worth its payment; a mediator earns its fee; every lock ends | 259,226 |
| `MCTransport` | servers to choose from; texts, batches, RTC and hangups; services; repeated events and strangers | messages keep their order, Delivered is signed for fresh messages, every send but stranded hangups is answered | 132,692 |
| `MCCalls` | both call at once, or one does, and something happens from outside | at most one channel, connections are kept, calls end, both agree | 145,446 |
| `MCPathFinding` | three services; requests of every mode with two troubles; a stepper opened twice, a quick payment with one trouble | paid at most once for a request; refusals have a reason; a visit of a view asks once; every request and every search ends | 233,481 |
| `MCMonitoring` | deposits, plans and both at once, claims, failures, refused signatures and lost reports, restarts, transfers | success means deposited; plans are withdrawn; reports are asked for in order; services know | 284,175 |
| `MCRuntime` | nine scenarios: calls, stops, crashes at any moment, database errors, dumps, a migration, an import | jobs end; the database is the store of one moment; nothing is left unsaved; shutdown ends and so does every promise | 330,135 |

Why the instances are enough. One transfer suffices for questions about its stages, since
only its own messages are ordered with respect to it; two are needed where balances of both
directions meet. One crash suffices because a restart rebuilds everything but the store,
and invariants look at the store in every state. One withdraw suffices because a node
asks for one at a time. `NonceUnique` takes messages of equal content for the same one;
with a single transfer a message that is signed twice equals the first, so it is checked
where there are two.

What runs leave out on purpose: in `MCOpposed` no close fails, and `MCReopened`
doesn't register secrets. Both at once break `Settles` and, with a close that fails,
`NonceUnique` (section 6). The queued transfers of one payer are left to the theorem `PartnerIsSolvent`.

What properties except, each with a counterexample of TLC when the exception is dropped:

* `WithdrawsCovered`, requesters that were restarted: a confirmation overtakes a transfer, so it is used but not
  stored; the requester restarts with its transaction pending, asks again, and lets the
  withdraw expire after it was mined and before that is confirmed. And channels whose two closes both
  failed: a confirmation given while closing isn't in the store of who gave it, and a request signed
  with a nonce that was used before isn't either. (With one node that closes, `MCWithdraws` can't get there.)
* `NonceUnique` and `PendingIsSent` of `Withdraws`, nodes of which a close failed.
* `ConfirmedIsApplied`, channels of which events are lost (`mayMiss`): their opening was seen and not
  confirmed by a scan of past events or when the client was killed, or a close failed after the deposit was confirmed.
* `EventuallySettled` and `EventuallyUnlocked`, restarts, which forget the request, and a balance proof that the
  history doesn't have. Only channels that are being settled, by their user or `autoSettle`, are spoken of.
* `PlanIsWithdrawn`, a withdraw whose smaller balance is hidden by a deposit.
* `ServicesKnow`, reports whose signature or sending failed, until the next change.
* `EverySendAnswered`, notices without a user whose request for a presence ended with that of a text (`stranded`).
* `KeepsJournal`, two saves at once, and copies that a crash cut short; `NothingUnsaved`, changes that came
  when no save would look again.

CHECK_DEADLOCK is off everywhere: a client whose scenario is over stops.

## 4. Fairness

Fairness is weak unless it says otherwise, and is only given to what the process does by
itself: a promise that settles, a timer, a poll, a retry without a limit.

* `Envelopes`: clients are started again, clocks advance, deposits get confirmed,
  retry timers fire and the expiration timer requests a LockExpired. Strong fairness: the
  user signs eventually when prompted again and again, and the transport
  delivers what is sent again and again, since losses and crashes disable these steps. Nothing is
  assumed about unlocking, closing or registering. `EventuallySettled` gives up when either
  channel isn't open.
* `Lifecycle`: blocks are made, transactions mined, logs requested and handled, transactions that were asked for
  sent, and with `autoSettle` settlement requested. Closing and settling are the user's, so nothing is assumed of them.
* `Funding`: every request's own next step; mining; confirmation.
* `Mediation`: time passes; messages arrive; transactions are mined; nodes are started again.
* `Transport`, `Calls`, `PathFinding`, `Monitoring`: the steps of epics; not those of users, nor failures (those
  of `Monitoring` are as few as the scenario says).
* `Payments`: those of `PathFinding`; promises that are settled are looked at, and timers run.
* `Runtime`: the steps of the persister, the shutdown, the epics and their jobs; not `stop`.

## 5. Proofs

All theorems hold for every value of the constants that satisfies the modules' assumptions,
so for any number of transfers, withdraws, services, calls, deposits, or nodes of a path, and any
number of crashes, losses and retries. Those with a further hypothesis state it.

| Theorem | Hypothesis | Property |
|---|---|---|
| `EnvelopesProofs!TypeCorrect` | | amounts stay numbers |
| `EnvelopesProofs!Invariant`, `NoncesAreUnique`, `ViewsAgree`, `PartnerIsNeverAhead`, `NextMessageIsValid` | `~CloseFails` | `IInv`, `NonceUnique`, `ViewAgreement`, `NeverAhead`, `NextMessageValid` |
| `EnvelopesProofs!PartnerIsSolvent` | | `PartnerSolvent` |
| `EnvelopesProofs!OutcomeInvariant`, `UnackedMessagesAreRetried` | | `OInv`, `UnackedIsRetried` |
| `EnvelopesProofs!TransfersAreSettled` | `~CloseFails \/ Registrable = {}` | `Settles`: refinement of `Settlement` |
| `EnvelopesProofs!AcknowledgedIsApplied` | `~CloseFails` | `AckMeansApplied` |
| `WithdrawsProofs!Invariant`, `NoncesAreUnique`, `WhatIsOwedIsSent` | | `IInv`, `NonceUnique`, `PendingIsSent` |
| `WithdrawsProofs!WithdrawsAreCovered` | | `WithdrawsCovered` |
| `FundingProofs!Invariant`, `NoMoreThanAskedFor`, `AllThatWasAskedFor` | | `IInv`, `NoOverDeposit`, `ExactDeposit` |
| `ChainProofs!Invariant`, `SecretsAreWorthIt` | `Timely` | `WorthInv`, `SecretIsWorth`, of `Mediation` |
| `ChainProofs!LifecycleInvariant`, `ConfirmedStays` | `Undisturbed` | `LifecycleInv`, `ConfirmedIsFinal`, of `Lifecycle` |
| `TransportProofs!Invariant`, `ThereIsOneChannel`, `ConnectionsAreKept` | | `IInv`, `OneChannel`, `ConnectionKept`, of `Calls` |
| `TransportProofs!MessagesKeepOrder`, `ForgottenIsSignedAgain` | | `OrderKept`, `SignedIfFresh`, of `Transport` |
| `PathFindingProofs!Invariant`, `ServicesArePaidOnce`, `RefusalsHaveReasons` | | `IInv`, `PaidOncePerRequest`, `RefusedForAReason` |
| `PathFindingProofs!ViewsPayOnce`, `ViewsAreRefusedForAReason` | | the same, of `PaymentsSpec` |
| `PathFindingProofs!ViewsAskOncePerVisit` | | `AskedOncePerVisit` |
| `MonitoringProofs!Invariant`, `SuccessIsOnChain`, `RequestsAreInOrder` | | `DepositInv`, `ReportInv`, `SuccessIsDeposited`, `AskedInOrder` |
| `RuntimeProofs!PersistenceInvariant`, `JournalIsKept` | | `Persisted`, `Running`, `KeepsJournal` |
| `RuntimeProofs!NothingIsLeftUnsaved` | `AtMostOneDump` | `NothingUnsaved` |
| `RuntimeProofs!JobsEndOrAreLost` | | `JobsEnd` |

TLC checked each inductive invariant on the component's run before it was proved.

### The arguments

**Nonces and balances** (`EnvelopesProofs`). `IInv`: what is stored, retried or in flight was
sent (`InLog`); the message being signed still is the next of its sender's end
(`Pending`), which is what the `concatMap` gives; the locked amount is the sum of the locks
(`LockSums`); sent nonces are below the signer's next one, or its channel isn't open and its
reducer ignored it (`Fresh`); every message was composed on top of the one before
(`Chained`). If a close fails, a channel opens again whose reducer had ignored
a message that was sent, and the nonce is signed again: `~CloseFails` is needed.

**Solvency** (`PartnerIsSolvent`). What arrives is measured against both ends; until it
is applied they only change in the sender's favour, since deposits and payments only grow. The
locks of an own end that count as registered are among those the node saw
registered (`backed`). Neither closing nor reopening matters.

**One outcome** (`EnvelopesProofs`). A payer that holds an Unlock of a transfer signs no
LockExpired of it, and the other way round; nobody holds an outcome without its lock; a
payee's outcome was sent. These imply that each step of `Envelopes` is a step of `Settlement`
or a stutter, for the payer's and the payee's stage of each transfer. With `CloseFails`
a sent LockExpired may not be stored and, after the secret is registered, an
Unlock follows it: hence the hypothesis. `UnackedIsRetried` needs `Acked` and `Retried`: who acknowledges an outcome knows the transfer,
and what the payer stored is in a loop, was acknowledged, or is seen registered.

**Withdraws** (`WithdrawsProofs`). As for transfers (`NextIsSigned`, `Fresh`); in addition, requests and expirations come
from the requester and confirmations from its partner (`Addressed`), and what is pending or sent
again was sent before (`InLog`). Once a close of a node failed, `NextIsSigned`, `Fresh` and `PendingIsSent`
don't hold of it any more; what its partner received from it and keeps is still covered, as long as the
partner's own closes didn't fail.
`WithdrawsCovered` needs `CoveredInv`. What is brought to the chain was confirmed, and its
requester brings it (`ByConfirmation`). A requester that didn't crash knows its transaction and
watches nothing that is mined (`Watched`), keeps its request until it sees it mined
(`RequestKept`), and lets expire only what can't be mined any more (`NeverMined`). So its
partner keeps the request too, its capacity counts it, and a transfer that is being
acknowledged still fits (`ClaimKept`), as nothing else of its sender is applied meanwhile
(`NextIsReceived`). Capacity subtracts the largest pending total, which exists because pending
totals are bounded (`Bounded`).

**Deposits in channels** (`FundingProofs`). What is due is what was asked for without the deposits that
still wait to be added (`due`). No request that started, transaction, or deposit goes beyond it
(`NoMore`): a request starts from the deposit that is known, which is no more than there is and is
what there is or is going to be known (`OnChain`), and only the first request of a channel is
handled (`Sorted`, `Serial`). Unless a request failed or the partner deposits, what is due is
reached by what is known, or by the request that started (`NoLess`): a confirmed deposit that ends a
request reaches the request's total. The attempt showed that `NoOverDeposit` was wrong
for three requests: if a channel is opened, deposited in and opened again before its opening is
known, and the second opening is mined first, the deposit comes on top of the second
opening's. So `asked` now adds deposits to the largest opening, whatever their order, and a channel
opened twice needn't end with their sum. The sums are recursive functions; their laws
(`SumChanges`) are proved by the smallest number for which they would fail.

**A secret in time** (`ChainProofs`). Time doesn't pass while a timer is due, so a node that
knows the secret registers it by `max(knownAt, expiration - revealTimeout)`
(`Registers`); it is mined within `mineDelay` (`Mining`) and seen confirmed before
`expiration + httpTimeout` (`Confirmed`), and LockExpired is refused until then; so the lock
can't be given up. `Timely` says that these times suffice: `mineDelay < revealTimeout`,
`mineDelay + confirmDelay <= revealTimeout + httpTimeout`, and the clock reaches the
expiration. It is what `revealTimeout` is for (`config.ts:35` "Timeout for secrets to be revealed"): with a shorter one, a
registration may be late, and the code has no other means. The defaults give 10 minutes.

**Confirmed is final** (`ChainProofs`). What the store says of a channel that is confirmed comes from
transactions in blocks with `confirmationBlocks` confirmations (`Backed`); these are only ever added to, as a
reorganisation keeps the first logs of the chain (`LogsBeforeAreFirst`) and all of the deep ones (`FinalGrows`).
A log is taken for confirmed by its block and the latest block number, which is not ahead of the chain
(`Blocks`), so it is final if it is still on the chain (`Answers`). Hence `Undisturbed`: in a scenario either
nothing happens between request and answer (`mayLag` is false), or no block is replaced. Otherwise a reorganisation and new
blocks in between let a log that is gone count as confirmed, which TLC finds at once (section 6). The
logs of an answer are handled in a recursive function, as those of a batch. Neither the queue of
blocks nor what is dispatched in which order matters here; they do for `ConfirmedIsApplied`.

**Calls** (`TransportProofs`). An offer names a call that isn't used for anything else
(`OffersAreNew`); who hung up has nothing more of the call (`HangupsAreLast`); the call of a
role has a connection that isn't closed (`CallsAreLive`); only the role that won the race
has a channel, and messages go through it (`OneOpen`).

**Order of messages** (`TransportProofs`). A batch and what is left of the queue are in the order of
the queue (`Picked`), and of what has one type and one peer the batch has the first ones: whatever makes
`popMessages` leave a message behind makes it leave those of the same kind that follow (`takes`).
So of one kind what left comes before what is in the batch, and that before what is in the queue
(`OrderInv`), also when a batch is sent again whose messages the server may have taken.
`popMessages` and `pick` are recursive functions; that they exist is proved once (`Iterates`), and what
they return by the smallest position for which it would fail.

**Acknowledgements signed again** (`TransportProofs`). Behind each entry of the cache are exactly the
ids used after its last use, and after the last use of one that isn't there at least
`cacheSize` others were (`CacheInv`). Using an id moves it to the end, and what falls off the cache
then has `cacheSize` others after it.

**IOUs** (`PathFindingProofs`). An IOU that is kept is no more than what its service accepted
(`KeptIsOwed`), and one that is signed no more than it may be paid (`Payable`). If the next IOU
is going to be refused, a lost answer or a crash is left that explains it (`ReasonLeft`). The attempt showed that
`RefusedForAReason` was wrong as first stated, for the sum over services: one crash forgets
the IOUs of several services, each of which then refuses one. It is stated for each service
now. The views of `Payments` only add requests to the queue and lend the client their channel, so the
same invariant holds of `PaymentsSpec`. `AskedOncePerVisit` needs `AskedInv`: what was asked of all
services, with the request under way that may still be paid for (`choosing`), those that wait
(`paying`), and those the view may still make (`mayAsk`), is covered by the visits and the actions
that pay. The sum over the services is a fold, whose law (`TotalGrows`) is proved
by the smallest set for which it would fail.

**Deposits and reports** (`MonitoringProofs`). Totals never decrease from block to block
(`Growing`), a mined deposit's total is in its block and so in all later ones (`Mined`); after
`confirmationBlocks` it is in the first that is kept. A reporter makes at most one report at a time,
of a state later than what it asked to be sent last, and what is held back is later still (`InOrder`). What
is sent arrives in any order: the theorem speaks of the requests only, and that services don't go back is
theirs, by the nonces.

**The database** (`RuntimeProofs`). Until two saves overlap, at most one runs, never while a dump is read, so the
revisions it fetched are current and nothing of it is refused. Then what is dirty, over what is
being written, over what is in the database, is the store (`Covered`), and each step is one of
`Journal`: the start of a batch takes the store, its end saves it, an error or the end of the
process forgets it. While documents are copied, the database has all that don't remain (`isCopy`), so that
only a crash before the last leaves a part (`cutShort`).
An action before the continuation of a promise may start a second save, after which nothing is claimed
(`overlapped`, section 6). With at most one dump, which the property excludes,
a save that runs looks once more before it ends, so what is dirty when teardown goes on changed after that
look (`late`). Jobs
are only those of a subscribed epic, and epics end in order (`Running`).

### Only model-checked

* Liveness and fairness: out of the prover's reach.
* `FeeIsEarned`: the fee is the root of a piecewise linear function, found by halving an interval and
  then rounded; that it is within a token of the root takes nonlinear arithmetic, and induction
  over the search.
* `ConfirmedIsApplied`: the queue of blocks needs an invariant of its own. It doesn't hold with two
  channels, one after the other: `confirmation` may take the second one's opening before the first one's
  settlement, as `pendingTxs` is a set here, while the code goes through it in order. The run has one channel.
* `SettledOnLatest` rests on the pace of the chain (`prompt`, `lag`), which lets the update be mined before
  the settlement timeout where the partner closes with an old balance; of an update that is late it says nothing.
* `SuccessIsDeposited` compares totals; that two equal deposits at once are both told success of one is not seen.

## 6. Where code and comments disagree

Found while modelling. The model does what the code does, and properties are stated so that they
hold of it; exceptions in properties name these.

| Place | What happens |
|---|---|
| `channels/utils.ts:112` casts the capacity to `UInt<32>` | two transfers pass the capacity check of their routes before the first is signed; both are signed |
| `transfers/state.ts:83` "acknowledging validity of our off-chain unlock" | a payee that starts closing while it signs Processed drops the Unlock and acknowledges it; if the close fails, its channel lacks a nonce for ever |
| `transfers/epics/init.ts:49` "Re-queue pending" | an Unlock whose secret is registered isn't sent again after a restart |
| `transfers/reducer.ts:94` "otherwise we already processed this message" | a LockExpired is sent but not stored, and after a failed close its nonce is signed again |
| `channels/reducer.ts:169` "rollback to open" | the loops of withdraw requests and expirations that ended while closing (`withdraw.ts:171`, `406`) aren't started again before a restart; confirmations and expirations signed meanwhile aren't in the store, and their nonces are signed again |
| `transfers/epics/init.ts:269` "there's nothing else to do with it" | the SecretReveal loop of a cleared transfer shuts the client down |
| `transfers/epics/locked.ts:928` "to always update nonce" | a confirmation that overtakes a transfer is used but not applied; once the withdraw is on-chain both sides forget it, and its nonce stays missing |
| `transfers/epics/withdraw.ts:358` "when one of our sent WithdrawRequests expired" | a confirmed withdraw isn't watched after a restart; it stays pending and blocks every later one |
| `raiden.ts:723` "channel's state stays as 'closing'" | `channels/reducer.ts:168` reopens it, even when an earlier close was mined |
| `channels/epics/monitor.ts:545` | the scan of past events drops events of a channel whose opening isn't confirmed |
| `transfers/mediate/epics.ts:113` "if we did and know the secret but partner didn't unlock, we register on-chain as usual" | not once the channel is closed: `transferAutoRegisterEpic` stops |
| `transport/epics/webrtc.ts:716` "The winner channel of the callee/caller race is used" | both ends may take different winners for a while |
| `raiden.ts:1239` | two deposits to UserDeposit at once compute the same total; the second is outdated |
| `persister.ts:37` "do not run concurrently" | a dispatch between the end of a dump or a save and its continuation starts a second save; older data may be written over newer (`overlapped`) |

Others, by component:

* Channels: a kill during the scan of past events loses events (`monitor.ts:533`, `raiden.ts:199`);
  a kill forgets the blocks that were to be scanned again, and what was dropped in them, as a deposit whose
  opening was pending;
  `mapChannelEventsToAction` uses the latest block number, not the log's (`mayLag`); a
  removed close leaves 'closing', a removed cooperative settlement 'settling' with no close
  block; deposits confirmed while 'closing' are ignored, and not looked at again if the close fails; a balance
  proof sent while 'closing' isn't in the history, so that a channel closed with it can't be settled; updates, unlocks and automatic settlement
  aren't resumed after a restart; a removed transaction is confirmed as false after
  `2 * confirmationBlocks` even if it is mined again.
* Funding: the lock of deposits is released by the partner's confirmed deposit (`deposit.ts:181`); an opening
  with a deposit fails without an allowance and its deposit waits for ever; two
  promises of one channel's deposits both end with the first success.
* Transport: `setDisplayName` is retried without limit, which keeps other servers from being tried; a refused
  signature of Delivered shuts the client down; a hangup, which names no user
  (`webrtc.ts:692`), is never answered if it waits for the peer's presence together with texts, and an RTC channel
  opens through which these leave: the shared request for the presence ends with the first of them.
* Services: a deposit equal to a claim, mined unseen, leaves the known total stale; a deposit mined
  during a withdraw keeps `udcWithdraw` from ever succeeding, and the next due plan isn't withdrawn; a refused
  signature or a failed send loses a report until the next change; reports may arrive in another order than
  they were asked for; network errors are retried without limit.
* Database: a crash in `migrateDatabase` or `replaceDatabase` leaves a partial database that is taken as complete
  (`cutShort`); a change between the last look of a save and its continuation stays dirty until another (`late`);
  `replaceDatabase` compares block numbers only and destroys before it inserts; migrations are
  sorted as strings; changes during a dump stay dirty until another change.
* Runtime: a second `stop` unsubscribes every epic at once; after an error of the database the next
  dispatch throws; a `closeChannel` that waits for a cooperative settlement ends in a
  TypeError when the client stops.
* dApp: `handleStep` may run before `checkDirectRoutePromise` exists (`TransferStepsRoute.vue:333`), and then
  the answer to `findRoutes` is also taken for the direct route, so the stepper skips to the summary and its
  timer takes it back; clicks that wait for the direct route all go on, and two of them pay twice (the
  button is disabled only once `processingTransfer` is set); a quick payment that deposits asks any service
  without showing its price.
* CLI: a PATCH of `total_deposit` computes the amount from a stale deposit.

## 7. Not modelled

`PROJECT.json` lists every component with its status and reason.

* Abstracted everywhere: message packing and signatures (taken to be unforgeable), logging, configuration.
* Path finding: fee updates. User deposit: the manual withdraw and `udcAutoWithdrawEpic`'s own start.
  Monitoring: the reaction to NewBalanceProofReceived. Transport: capabilities. Mediation: secrets
  in metadata. Withdraws: those that are part of a cooperative settlement. Lifecycle: the search for
  token networks.
* The applications on top of the library: `raiden-cli`, the other pages of `raiden-dapp`, the e2e environment.

## 8. Plan

1. Proofs: `ConfirmedIsApplied`, for which the queue of blocks needs an invariant.
2. The library's public interface as a whole, and the applications.
