----------------------------- MODULE Envelopes -----------------------------
(***************************************************************************)
(* The transfer half of the envelope-message protocol: how the two nodes   *)
(* of a channel sign, send, retry, validate and acknowledge LockedTransfer,*)
(* Unlock and LockExpired, the messages that carry balance proofs.         *)
(*                                                                         *)
(* In every node one rxjs concatMap (transferGenerateAndSignEnvelopeMessage*)
(* Epic) serializes the handlers of these messages.  A handler reads the   *)
(* state, waits for a signature (a key in memory or a prompt of the user's *)
(* wallet), and emits actions that reducers apply.  Here job[n] holds the  *)
(* message between the two halves: one that n is signing (m.from = n), or  *)
(* one whose Processed n is signing (m.from = Peer[n]).  Everything that is*)
(* not in that concatMap interleaves with it: other epics, the chain, the  *)
(* user, and the partner.                                                  *)
(*                                                                         *)
(* Messages may be lost, duplicated and reordered; nodes may crash at any  *)
(* point and restart from their database, which is assumed to hold every   *)
(* applied action.                                                         *)
(***************************************************************************)
EXTENDS Channel, Sequences

CONSTANTS
  Expirable,   \* the transfers whose locks may expire
  Registrable, \* the transfers whose secret may be registered on-chain
  Closers,     \* the nodes whose users may ask to close the channel
  CloseFails,  \* whether a closeChannel transaction may fail
  CloseAlone,  \* a bound: a channel isn't closed in the same behaviour as a crash, a
               \* registration, or an expiration by the clock of its partner
  MayLose,     \* whether the transport loses messages; what it keeps for ever may
               \* be delivered late, twice or never, which is enough for safety
  Crashers,    \* the nodes that may crash
  MaxCrash     \* bound on the number of crashes

ASSUME EnvelopesAssumption ==
  /\ Expirable \subseteq Transfer
  /\ Registrable \subseteq Transfer
  /\ Closers \subseteq Node
  /\ CloseFails \in BOOLEAN
  /\ CloseAlone \in BOOLEAN
  /\ MayLose \in BOOLEAN
  /\ Crashers \subseteq Node
  /\ MaxCrash \in Nat

VARIABLES
  channel,    \* channel[n]: state of the channel in n's store
  end,        \* end[n][m]: n's copy of the channel end of m
  stored,     \* stored[n]: the envelope messages in n's TransferStates
  processed,  \* processed[n]: those with their *Processed field set
  revealed,   \* revealed[n]: transfers n receives with secretReveal set
  seen,       \* seen[n]: transfers with secretRegistered set
  cleared,    \* cleared[n]: transfers moved from memory to the database only
  queue,      \* queue[n]: requests waiting in n's concatMap, first in first out
  job,        \* job[n]: the message n's concatMap is busy with, if any
  retry,      \* retry[n]: messages with a retry loop in transferRetryMessageEpic
  revealing,  \* revealing[n]: transfers with a SecretReveal retry loop
  closing,    \* nodes whose channelCloseEpic has a prompt or transaction under way
  wire,       \* envelope messages in flight
  acks,       \* messages whose Processed is in flight
  reveals,    \* transfers whose SecretReveal, to the payer, is in flight
  log,        \* every envelope message ever handed to the transport
  past,       \* past[n]: transfers whose expiration n's clock has passed
  registry,   \* transfers whose secret is registered on-chain in time
  closed,     \* nodes whose channel is closed on-chain
  up,         \* up[n]: whether n runs
  crashes     \* number of crashes so far

store == <<channel, end, stored, processed, revealed, seen, cleared>>
process == <<closing, up, crashes>>
epics == <<queue, job, retry, revealing, process>>
network == <<wire, acks, reveals, log>>
world == <<past, registry, closed>>
vars == <<channel, end, stored, processed, revealed, seen, cleared,
          queue, job, retry, revealing, closing, up, crashes,
          wire, acks, reveals, log, past, registry, closed>>

EnvelopeType == {"LockedTransfer", "Unlock", "LockExpired"}

\* message_identifier is fresh for every signature: the message itself is its id
Envelope ==
  [type : EnvelopeType, from : Node, t : Transfer, nonce : Nat,
   transferred : Nat, locked : Int, locks : SUBSET Transfer]

idle(n) == up[n] /\ job[n] = {}

Request == [op : {"transfer", "unlock", "expire"}, t : Transfer]

-----------------------------------------------------------------------------
(***************************************************************************)
(* Reading a TransferState                                                 *)
(***************************************************************************)

own(n) == end[n][n]
partner(n) == end[n][Peer[n]]

\* transferState[field] is set for transfer t
has(n, t, type) == \E m \in stored[n] : m.t = t /\ m.type = type

\* transferState[field + 'Processed'] is set for transfer t
hasProcessed(n, t, type) == \E m \in processed[n] : m.t = t /\ m.type = type

\* db.storageKeys.has(transferKey): known(n, t), also when cleared from memory
known(n, t) == has(n, t, "LockedTransfer")

inMemory(n, t) == known(n, t) /\ t \notin cleared[n]

\* nothing is left to do off-chain for t
completed(n, t) == hasProcessed(n, t, "Unlock") \/ hasProcessed(n, t, "LockExpired")

-----------------------------------------------------------------------------
(***************************************************************************)
(* Balance proofs                                                          *)
(***************************************************************************)

\* The locks of end e once message (type, t) is applied: append or withoutLock
locksAfter(e, type, t) ==
  IF type = "LockedTransfer" THEN e.locks \cup {t} ELSE e.locks \ {t}

\* Mutants of compose: the amount of an expired lock is taken out of the
\* transferred amount, or is left in the locked amount
composeRefund(n, type, t) ==
  LET e == own(n)
      locks == locksAfter(e, type, t)
  IN [type |-> type, from |-> n, t |-> t, nonce |-> e.nextNonce,
      transferred |-> e.transferred + (CASE type = "Unlock" -> Amount[t]
                                         [] type = "LockExpired" -> -Amount[t]
                                         [] OTHER -> 0),
      locked |-> totalLocked[locks], locks |-> locks]

composeStillLocked(n, type, t) ==
  LET e == own(n)
      locks == locksAfter(e, type, t)
  IN [type |-> type, from |-> n, t |-> t, nonce |-> e.nextNonce,
      transferred |-> e.transferred + (IF type = "Unlock" THEN Amount[t] ELSE 0),
      locked |-> IF type = "LockExpired" THEN e.locked ELSE totalLocked[locks],
      locks |-> locks]

\* The message n composes on top of its own end
compose(n, type, t) ==
  LET e == own(n)
      locks == locksAfter(e, type, t)
  IN [type |-> type, from |-> n, t |-> t, nonce |-> e.nextNonce,
      transferred |-> e.transferred + (IF type = "Unlock" THEN Amount[t] ELSE 0),
      locked |-> IF type = "LockedTransfer" THEN totalLocked[locks]
                                            ELSE e.locked - Amount[t],
      locks |-> locks]

\* The balance-proof assertions of the three receive handlers: m is what the
\* sender's end e, as the receiver knows it, allows next
follows(e, m) ==
  /\ m.type # "LockedTransfer" => m.t \in e.locks
  /\ m.locks = locksAfter(e, m.type, m.t)
  /\ m.transferred = e.transferred + (IF m.type = "Unlock" THEN Amount[m.t] ELSE 0)
  /\ m.locked = totalLocked[m.locks]

balanceProofFollows(e, m) == m.nonce = e.nextNonce /\ follows(e, m)

\* transferEnvelopeReducer applies m only if the channel is open, the nonce is
\* the next one and the transfer doesn't have that field yet
applies(n, m) ==
  /\ channel[n] = "open"
  /\ m.nonce = end[n][m.from].nextNonce
  /\ IF m.type = "LockedTransfer"
     THEN ~inMemory(n, m.t)
     ELSE inMemory(n, m.t) /\ ~has(n, m.t, m.type)

\* Mutants of afterMessage: the nonce, or the locked amount, is not updated
afterMessageSameNonce(e, m) ==
  LET locks == locksAfter(e, m.type, m.t)
  IN [e EXCEPT !.locks = locks, !.registered = @ \cap locks,
               !.transferred = m.transferred, !.locked = m.locked]

afterMessageSameLocked(e, m) ==
  LET locks == locksAfter(e, m.type, m.t)
  IN [e EXCEPT !.locks = locks, !.registered = @ \cap locks,
               !.transferred = m.transferred, !.nextNonce = @ + 1]

\* The channel end e once m is applied
afterMessage(e, m) ==
  LET locks == locksAfter(e, m.type, m.t)
  IN [e EXCEPT !.locks = locks, !.registered = @ \cap locks,
               !.transferred = m.transferred, !.locked = m.locked,
               !.nextNonce = @ + 1]

\* The channel's end and the transfer's field change in one reduction
transferEnvelopeReducer(n, m) ==
  IF applies(n, m)
  THEN /\ end' = [end EXCEPT ![n][m.from] = afterMessage(@, m)]
       /\ stored' = [stored EXCEPT ![n] = @ \cup {m}]
  ELSE UNCHANGED <<end, stored>>

-----------------------------------------------------------------------------
(***************************************************************************)
(* Retry loops (transferRetryMessageEpic)                                  *)
(***************************************************************************)

\* Mutant of stopped: an Unlock or LockExpired that is sent, and not yet
\* acknowledged, is enough to give up the LockedTransfer
stoppedBySent(n, m) ==
  \/ channel[n] = "closed"
  \/ hasProcessed(n, m.t, m.type)
  \/ m.type = "LockedTransfer" /\ (has(n, m.t, "Unlock") \/ has(n, m.t, "LockExpired"))

\* stop$ of an envelope message's loop
stopped(n, m) ==
  \/ channel[n] = "closed"
  \/ hasProcessed(n, m.t, m.type)
  \/ m.type = "LockedTransfer" /\ completed(n, m.t)

\* stop$ of a SecretReveal's loop: the partner unlocked, or the channel closed
revealStopped(n, t) == channel[n] = "closed" \/ has(n, t, "Unlock")

\* raidenShutdown, or the process is killed: all epics and their queues end
stop(n) ==
  /\ queue' = [queue EXCEPT ![n] = <<>>]
  /\ job' = [job EXCEPT ![n] = {}]
  /\ retry' = [retry EXCEPT ![n] = {}]
  /\ revealing' = [revealing EXCEPT ![n] = {}]
  /\ closing' = closing \ {n}
  /\ up' = [up EXCEPT ![n] = FALSE]

\* A signed message is emitted: it is sent and kept in a retry loop, unless a closed
\* channel ends the loop at once, and n's concatMap goes on with the rest of its
\* queue.  The loop's stop$ dereferences the transfer in memory: with none there the
\* epic throws, and the client shuts down before anything is sent.
emit(n, m, rest) ==
  IF inMemory(n, m.t) \/ (m.type = "LockedTransfer" /\ applies(n, m))
  THEN LET sent == IF channel[n] = "closed" THEN {} ELSE {m}
       IN /\ queue' = [queue EXCEPT ![n] = rest]
          /\ job' = [job EXCEPT ![n] = {}]
          /\ retry' = [retry EXCEPT ![n] = @ \cup sent]
          /\ wire' = wire \cup sent
          /\ log' = log \cup sent
          /\ UNCHANGED <<revealing, closing, up, acks, reveals>>
  ELSE /\ stop(n)
       /\ UNCHANGED network

-----------------------------------------------------------------------------
(***************************************************************************)
(* Requests                                                                *)
(***************************************************************************)

\* The bound on the queues: no request is in a queue twice, for a second one
\* would only emit a cached message again
enqueue(n, op, t) ==
  /\ \A i \in DOMAIN queue[n] : queue[n][i] # [op |-> op, t |-> t]
  /\ queue' = [queue EXCEPT ![n] = Append(@, [op |-> op, t |-> t])]
  /\ UNCHANGED <<store, network, world, job, retry, revealing, process>>

\* A user's (or a mediated) transfer: the route is validated against the state
\* of this moment, and the resolved request joins the queue.  The same secret
\* may be requested again.
resolveTransfer(n, t) ==
  /\ up[n] /\ Payer[t] = n
  /\ channel[n] = "open"
  /\ Amount[t] <= Capacity(own(n), partner(n), 0)
  /\ enqueue(n, "transfer", t)

\* A SecretReveal from the partner asks for the Unlock
transferSecretRevealed(n, t) ==
  /\ up[n] /\ Payer[t] = n
  /\ t \in reveals
  /\ inMemory(n, t)
  /\ channel[n] # "closed"
  /\ enqueue(n, "unlock", t)

\* The lock expired and the transfer was neither unlocked nor registered
transferAutoExpire(n, t) ==
  /\ up[n] /\ Payer[t] = n
  /\ inMemory(n, t)
  /\ t \in past[n]
  /\ ~has(n, t, "Unlock") /\ ~has(n, t, "LockExpired")
  /\ t \notin seen[n]
  /\ channel[n] # "closed"
  /\ enqueue(n, "expire", t)

-----------------------------------------------------------------------------
(***************************************************************************)
(* Sending: first half, up to the signature                                *)
(***************************************************************************)

\* The concatMap is free, and takes its next request
takes(n, op, t) ==
  /\ idle(n)
  /\ queue[n] # <<>> /\ Head(queue[n]) = [op |-> op, t |-> t]

\* The request is dropped, or the composed message waits for its signature
sign(n, allowed, type, t) ==
  /\ queue' = [queue EXCEPT ![n] = Tail(@)]
  /\ job' = [job EXCEPT ![n] = IF allowed THEN {compose(n, type, t)} ELSE {}]
  /\ UNCHANGED <<store, network, world, retry, revealing, process>>

\* The message was signed before: it is emitted again, the reducer ignores it, and
\* it is sent unless its Processed arrived meanwhile
resend(n, allowed, m) ==
  /\ IF allowed /\ ~(inMemory(n, m.t) /\ m \in processed[n])
     THEN emit(n, m, Tail(queue[n]))
     ELSE /\ queue' = [queue EXCEPT ![n] = Tail(@)]
          /\ UNCHANGED <<job, retry, revealing, closing, up, network>>
  /\ UNCHANGED <<store, world, crashes>>

\* A transfer that is already stored, that expired, or whose channel isn't open
\* is not signed.  The capacity is not looked at again.
sendTransferSigned(n, t) ==
  /\ takes(n, "transfer", t)
  /\ sign(n, ~known(n, t) /\ channel[n] = "open" /\ t \notin past[n], "LockedTransfer", t)

\* An Unlock past the expiration needs a registered secret.  This is checked
\* here, and again after the signature.
unlockable(n, t) == channel[n] = "open" /\ (t \notin past[n] \/ t \in seen[n])

sendTransferUnlocked(n, t) ==
  /\ takes(n, "unlock", t)
  /\ \/ /\ ~has(n, t, "Unlock")
        /\ sign(n, unlockable(n, t) /\ t \in own(n).locks, "Unlock", t)
     \/ \E m \in stored[n] :
           /\ m.t = t /\ m.type = "Unlock"
           /\ resend(n, unlockable(n, t), m)

\* Neither the secret nor its registration on-chain are looked at
sendTransferExpired(n, t) ==
  /\ takes(n, "expire", t)
  /\ \/ /\ ~has(n, t, "LockExpired")
        /\ sign(n, /\ channel[n] = "open" /\ t \in past[n]
                   /\ t \in own(n).locks /\ ~has(n, t, "Unlock"), "LockExpired", t)
     \/ \E m \in stored[n] :
           /\ m.t = t /\ m.type = "LockExpired"
           /\ resend(n, channel[n] = "open", m)

-----------------------------------------------------------------------------
(***************************************************************************)
(* Sending: second half, the actions emitted with the signed message       *)
(***************************************************************************)

signed(n, m, type) == m \in job[n] /\ m.from = n /\ m.type = type

transferSigned(n, m) ==
  /\ signed(n, m, "LockedTransfer")
  /\ transferEnvelopeReducer(n, m)
  /\ emit(n, m, queue[n])
  /\ UNCHANGED <<channel, processed, revealed, seen, cleared, world, crashes>>

\* Mutants of transferUnlockSuccess: the signed Unlock is sent, but not stored; or
\* the channel and the expiration are not looked at again after the signature
transferUnlockUnstored(n, m) ==
  /\ signed(n, m, "Unlock") /\ unlockable(n, m.t)
  /\ emit(n, m, queue[n])
  /\ UNCHANGED <<channel, end, stored, processed, revealed, seen, cleared, world, crashes>>

transferUnlockUnchecked(n, m) ==
  /\ signed(n, m, "Unlock")
  /\ transferEnvelopeReducer(n, m)
  /\ emit(n, m, queue[n])
  /\ UNCHANGED <<channel, processed, revealed, seen, cleared, world, crashes>>

\* The state is looked at again: not open or expired by now is a failure
transferUnlockSuccess(n, m) ==
  /\ signed(n, m, "Unlock")
  /\ IF unlockable(n, m.t)
     THEN transferEnvelopeReducer(n, m) /\ emit(n, m, queue[n])
     ELSE /\ job' = [job EXCEPT ![n] = {}]
          /\ UNCHANGED <<end, stored, queue, retry, revealing, closing, up, network>>
  /\ UNCHANGED <<channel, processed, revealed, seen, cleared, world, crashes>>

\* Nothing is looked at again: what the reducer ignores is sent all the same
transferExpireSuccess(n, m) ==
  /\ signed(n, m, "LockExpired")
  /\ transferEnvelopeReducer(n, m)
  /\ emit(n, m, queue[n])
  /\ UNCHANGED <<channel, processed, revealed, seen, cleared, world, crashes>>

\* The user rejects the signature prompt, of a message or of its Processed
signatureFails(n) ==
  /\ job[n] # {}
  /\ job' = [job EXCEPT ![n] = {}]
  /\ UNCHANGED <<store, network, world, queue, retry, revealing, process>>

-----------------------------------------------------------------------------
(***************************************************************************)
(* Receiving.  A message that fails an assertion changes nothing.          *)
(***************************************************************************)

delivered(n, m) == idle(n) /\ m \in wire /\ m.from = Peer[n]

\* The Processed of a valid message waits for its signature
accept(n, m) ==
  /\ channel[n] = "open"
  /\ balanceProofFollows(partner(n), m)
  /\ job' = [job EXCEPT ![n] = {m}]
  /\ UNCHANGED <<store, network, world, queue, retry, revealing, process>>

\* Mutant of receiveTransferSigned: the sender's capacity is not checked
receiveTransferUnchecked(n, m) ==
  /\ delivered(n, m) /\ m.type = "LockedTransfer"
  /\ ~known(n, m.t)
  /\ accept(n, m)

\* A transfer never seen before; one that has expired is accepted too
receiveTransferSigned(n, m) ==
  /\ delivered(n, m) /\ m.type = "LockedTransfer"
  /\ ~known(n, m.t)
  /\ Amount[m.t] <= Capacity(partner(n), own(n), 0)
  /\ accept(n, m)

\* The expiration is not looked at
receiveTransferUnlocked(n, m) ==
  /\ delivered(n, m) /\ m.type = "Unlock"
  /\ known(n, m.t) /\ ~has(n, m.t, "LockExpired") /\ ~has(n, m.t, "Unlock")
  /\ accept(n, m)

receiveTransferExpired(n, m) ==
  /\ delivered(n, m) /\ m.type = "LockExpired"
  /\ known(n, m.t) /\ ~has(n, m.t, "Unlock") /\ ~has(n, m.t, "LockExpired")
  /\ m.t \in past[n] /\ m.t \notin seen[n]
  /\ accept(n, m)

\* Mutant of receiveAgain: any message of a known transfer is acknowledged
receiveAgainUnchecked(n, m) ==
  /\ delivered(n, m)
  /\ inMemory(n, m.t)
  /\ acks' = acks \cup {m}
  /\ UNCHANGED <<store, world, epics, wire, reveals, log>>

\* The same message again: its Processed is sent once more, if it was ever sent
\* and, for a LockedTransfer, the transfer is still in memory
receiveAgain(n, m) ==
  /\ delivered(n, m)
  /\ m \in stored[n] /\ m \in processed[n]
  /\ m.type = "LockedTransfer" => inMemory(n, m.t)
  /\ acks' = acks \cup {m}
  /\ UNCHANGED <<store, world, epics, wire, reveals, log>>

\* The actions emitted once Processed is signed: the message is applied, unless
\* the reducer ignores it, and Processed is recorded and sent.  Processed for a
\* transfer that isn't known throws, and the client shuts down.
acknowledge(n, m) ==
  /\ m \in job[n] /\ m.from = Peer[n]
  /\ transferEnvelopeReducer(n, m)
  /\ IF known(n, m.t) \/ applies(n, m)
     THEN /\ processed' = [processed EXCEPT ![n] = @ \cup {m}]
          /\ acks' = acks \cup {m}
          /\ job' = [job EXCEPT ![n] = {}]
          /\ UNCHANGED <<queue, retry, revealing, closing, up, wire, reveals, log>>
     ELSE /\ stop(n)
          /\ UNCHANGED <<processed, network>>
  /\ UNCHANGED <<channel, revealed, seen, cleared, world, crashes>>

\* transferProcessedReceivedEpic: Processed of a message of a transfer in memory
transferProcessedReceived(n, m) ==
  /\ up[n]
  /\ m \in acks /\ m.from = n
  /\ m \in stored[n] /\ m \notin processed[n]
  /\ m.t \notin cleared[n]
  /\ processed' = [processed EXCEPT ![n] = @ \cup {m}]
  /\ UNCHANGED <<channel, end, stored, revealed, seen, cleared, epics, network, world>>

\* The secret reaches the payee (from the next hop, the initiator or the chain):
\* transferRequestUnlockEpic signs a SecretReveal to the payer, which is retried
\* unless nothing is left to reveal it for
transferSecretReveal(n, t) ==
  /\ up[n] /\ Payer[t] = Peer[n]
  /\ inMemory(n, t) /\ t \notin revealing[n]
  /\ revealed' = [revealed EXCEPT ![n] = @ \cup {t}]
  /\ revealing' = [revealing EXCEPT ![n] = @ \cup {t}]
  /\ reveals' = IF revealStopped(n, t) THEN reveals ELSE reveals \cup {t}
  /\ UNCHANGED <<channel, end, stored, processed, seen, cleared, world,
                 queue, job, retry, process, wire, acks, log>>

-----------------------------------------------------------------------------
(***************************************************************************)
(* Retries, and the end of a transfer                                      *)
(***************************************************************************)

retryMessage(n, m) ==
  /\ m \in retry[n] /\ ~stopped(n, m)
  /\ wire' = wire \cup {m}
  /\ UNCHANGED <<store, epics, world, acks, reveals, log>>

retrySecretReveal(n, t) ==
  /\ t \in revealing[n] /\ ~revealStopped(n, t)
  /\ reveals' = reveals \cup {t}
  /\ UNCHANGED <<store, epics, world, wire, acks, log>>

\* transferClearCompletedEpic: a completed transfer leaves memory.  A SecretReveal
\* loop that is still running then dereferences it, throws, and the client shuts
\* down.
transferClear(n, t) ==
  /\ up[n]
  /\ inMemory(n, t) /\ completed(n, t)
  /\ cleared' = [cleared EXCEPT ![n] = @ \cup {t}]
  /\ IF t \in revealing[n] /\ ~revealStopped(n, t)
     THEN stop(n)
     ELSE UNCHANGED <<queue, job, retry, revealing, closing, up>>
  /\ UNCHANGED <<channel, end, stored, processed, revealed, seen, network, world, crashes>>

\* The process is killed, or stopped by its user
crash(n) ==
  /\ n \in Crashers /\ up[n] /\ crashes < MaxCrash
  /\ CloseAlone => \A m \in Node : channel[m] = "open"
  /\ crashes' = crashes + 1
  /\ stop(n)
  /\ UNCHANGED <<store, network, world>>

\* Mutants of pendingEnvelopes: only LockedTransfers, or only messages of an open
\* channel, are sent again
pendingLockedTransfers(n) ==
  {m \in stored[n] :
      /\ m.from = n /\ m.type = "LockedTransfer"
      /\ inMemory(n, m.t) /\ ~completed(n, m.t)
      /\ m.t \notin seen[n] /\ channel[n] # "closed"
      /\ m \notin processed[n]}

pendingIfOpen(n) ==
  {m \in stored[n] :
      /\ m.from = n
      /\ inMemory(n, m.t) /\ ~completed(n, m.t)
      /\ m.t \notin seen[n] /\ channel[n] = "open"
      /\ m.type = "LockedTransfer" => m \notin processed[n]}

\* initQueuePendingEnvelopeMessagesEpic: what is sent again after a restart
pendingEnvelopes(n) ==
  {m \in stored[n] :
      /\ m.from = n
      /\ inMemory(n, m.t) /\ ~completed(n, m.t)
      /\ m.t \notin seen[n] /\ channel[n] # "closed"
      /\ m.type = "LockedTransfer" => m \notin processed[n]}

\* initQueuePendingReceivedEpic, for the SecretReveals
pendingReveals(n) ==
  {t \in revealed[n] :
      /\ inMemory(n, t)
      /\ ~has(n, t, "Unlock") /\ ~has(n, t, "LockExpired")
      /\ t \notin seen[n] /\ channel[n] # "closed"}

restart(n) ==
  /\ ~up[n]
  /\ up' = [up EXCEPT ![n] = TRUE]
  /\ retry' = [retry EXCEPT ![n] = pendingEnvelopes(n)]
  /\ wire' = wire \cup pendingEnvelopes(n)
  /\ revealing' = [revealing EXCEPT ![n] = pendingReveals(n)]
  /\ reveals' = reveals \cup pendingReveals(n)
  /\ UNCHANGED <<store, world, queue, job, closing, crashes, acks, log>>

-----------------------------------------------------------------------------
(***************************************************************************)
(* The chain, the clocks and the network                                   *)
(***************************************************************************)

\* A confirmed deposit event, of either end, reaches n
channelDeposited(n, m) ==
  /\ up[n] /\ m \in {n, Peer[n]}
  /\ channel[n] = "open"
  /\ end[n][m].deposit < Deposit[m]
  /\ end' = [end EXCEPT ![n][m].deposit = Deposit[m]]
  /\ UNCHANGED <<channel, stored, processed, revealed, seen, cleared,
                 epics, network, world>>

\* n's clock passes the expiration of t
expires(n, t) ==
  /\ t \in Expirable \ past[n]
  /\ CloseAlone => channel[Peer[n]] = "open"
  /\ past' = [past EXCEPT ![n] = @ \cup {t}]
  /\ UNCHANGED <<store, epics, network, registry, closed>>

\* Someone who knows the secret registers it, in a block before the expiration
secretRegistered(t) ==
  /\ t \in Registrable \ registry
  /\ CloseAlone => \A m \in Node : channel[m] = "open"
  /\ t \in revealed[Peer[Payer[t]]]
  /\ \A n \in Node : t \notin past[n]
  /\ registry' = registry \cup {t}
  /\ UNCHANGED <<store, epics, network, past, closed>>

\* monitorSecretRegistryEpic and the two reducers of the confirmed registration
transferSecretRegistered(n, t) ==
  /\ up[n] /\ t \in registry \ seen[n]
  /\ inMemory(n, t)
  /\ seen' = [seen EXCEPT ![n] = @ \cup {t}]
  /\ end' = [end EXCEPT ![n][Payer[t]].registered =
                          @ \cup ({t} \cap end[n][Payer[t]].locks)]
  /\ UNCHANGED <<channel, stored, processed, revealed, cleared, epics, network, world>>

\* A closing channel takes the request too, for a retry
channelCloseRequest(n) ==
  /\ n \in Closers \ closing /\ up[n]
  /\ CloseAlone => crashes = 0 /\ registry = {} /\ past[Peer[n]] = {}
  /\ channel[n] \in {"open", "closing"}
  /\ channel' = [channel EXCEPT ![n] = "closing"]
  /\ closing' = closing \cup {n}
  /\ UNCHANGED <<end, stored, processed, revealed, seen, cleared, queue, job, retry,
                 revealing, up, crashes, network, world>>

\* The prompt is rejected, or the closeChannel transaction fails: back to open
channelCloseFailure(n) ==
  /\ CloseFails /\ n \in closing
  /\ channel' = [channel EXCEPT ![n] = "open"]
  /\ closing' = closing \ {n}
  /\ UNCHANGED <<end, stored, processed, revealed, seen, cleared, queue, job, retry,
                 revealing, up, crashes, network, world>>

\* The closeChannel transaction of n is mined
closeChannel(n) ==
  /\ n \in closing /\ n \notin closed
  /\ closed' = closed \cup {n, Peer[n]}
  /\ closing' = closing \ {n}
  /\ UNCHANGED <<store, queue, job, retry, revealing, up, crashes, network, past, registry>>

\* The close event reaches n: unconfirmed it stops new messages, confirmed it
\* ends the channel and marks its transfers channelClosed.  Either ends a
\* channelCloseEpic that is under way.
channelCloseSuccess(n) ==
  /\ up[n] /\ n \in closed
  /\ \/ channel[n] = "open" /\ channel' = [channel EXCEPT ![n] = "closing"]
     \/ channel[n] # "closed" /\ channel' = [channel EXCEPT ![n] = "closed"]
  /\ closing' = closing \ {n}
  /\ UNCHANGED <<end, stored, processed, revealed, seen, cleared, queue, job, retry,
                 revealing, up, crashes, network, world>>

\* The transport loses a message; one that isn't lost may be delivered again
lose ==
  /\ MayLose
  /\ \/ \E m \in wire : wire' = wire \ {m} /\ UNCHANGED <<acks, reveals>>
     \/ \E m \in acks : acks' = acks \ {m} /\ UNCHANGED <<wire, reveals>>
     \/ \E t \in reveals : reveals' = reveals \ {t} /\ UNCHANGED <<wire, acks>>
  /\ UNCHANGED <<store, epics, world, log>>

-----------------------------------------------------------------------------

Init ==
  /\ channel = [n \in Node |-> "open"]
  /\ end = [n \in Node |-> [m \in Node |-> emptyChannelEnd]]
  /\ stored = [n \in Node |-> {}]
  /\ processed = [n \in Node |-> {}]
  /\ revealed = [n \in Node |-> {}]
  /\ seen = [n \in Node |-> {}]
  /\ cleared = [n \in Node |-> {}]
  /\ queue = [n \in Node |-> <<>>]
  /\ job = [n \in Node |-> {}]
  /\ retry = [n \in Node |-> {}]
  /\ revealing = [n \in Node |-> {}]
  /\ closing = {}
  /\ up = [n \in Node |-> TRUE]
  /\ crashes = 0
  /\ wire = {} /\ acks = {} /\ reveals = {} /\ log = {}
  /\ past = [n \in Node |-> {}]
  /\ registry = {} /\ closed = {}

\* The next request is handled
TakeNext(n) ==
  \E t \in Transfer :
     sendTransferSigned(n, t) \/ sendTransferUnlocked(n, t) \/ sendTransferExpired(n, t)

\* The message the concatMap is busy with is signed
EmitNext(n) ==
  \E m \in job[n] :
     \/ transferSigned(n, m) \/ transferUnlockSuccess(n, m) \/ transferExpireSuccess(n, m)
     \/ acknowledge(n, m)

\* A new message arrives
ReceiveNext(n) ==
  \E m \in wire :
     \/ receiveTransferSigned(n, m) \/ receiveTransferUnlocked(n, m)
     \/ receiveTransferExpired(n, m)

TransferNext(n, t) ==
  \/ resolveTransfer(n, t) \/ transferSecretRevealed(n, t) \/ transferAutoExpire(n, t)
  \/ transferSecretReveal(n, t) \/ retrySecretReveal(n, t) \/ transferClear(n, t)
  \/ expires(n, t) \/ transferSecretRegistered(n, t)

NodeNext(n) ==
  \/ \E m \in wire : receiveAgain(n, m)
  \/ \E m \in acks : transferProcessedReceived(n, m)
  \/ \E m \in retry[n] : retryMessage(n, m)
  \/ signatureFails(n) \/ crash(n) \/ restart(n)
  \/ \E m \in Node : channelDeposited(n, m)
  \/ channelCloseRequest(n) \/ channelCloseFailure(n)
  \/ closeChannel(n) \/ channelCloseSuccess(n)

Next ==
  \/ \E n \in Node : \/ \E t \in Transfer : TransferNext(n, t)
                     \/ TakeNext(n) \/ EmitNext(n) \/ ReceiveNext(n) \/ NodeNext(n)
  \/ \E t \in Transfer : secretRegistered(t)
  \/ lose

Spec == Init /\ [][Next]_vars

\* Retry loops: of n's messages of a type
RetryNext(n, type) == \E m \in retry[n] : m.type = type /\ retryMessage(n, m)

\* A message whose Processed got lost is received again
ReceiveAgainNext(n) == \E m \in wire : m \notin processed[m.from] /\ receiveAgain(n, m)

\* Processed is received
ProcessedNext(n) == \E m \in acks : transferProcessedReceived(n, m)

\* Clocks advance, clients are started again, deposits get confirmed, retry loops
\* go on, and expirations are requested (weak fairness).  The user signs, and the
\* transport delivers, what is prompted or sent again and again (strong fairness,
\* for the payer and the payee of a transfer).
Fairness ==
  /\ \A n \in Node : WF_vars(restart(n))
  /\ \A t \in Transfer :
        /\ \A n \in Node : WF_vars(expires(n, t)) /\ WF_vars(channelDeposited(n, Payer[t]))
        /\ \A type \in EnvelopeType : WF_vars(RetryNext(Payer[t], type))
        /\ WF_vars(transferAutoExpire(Payer[t], t))
        /\ SF_vars(TakeNext(Payer[t]))
        /\ SF_vars(EmitNext(Payer[t]))
        /\ SF_vars(ProcessedNext(Payer[t]))
        /\ SF_vars(ReceiveNext(Peer[Payer[t]]))
        /\ SF_vars(EmitNext(Peer[Payer[t]]))
        /\ SF_vars(ReceiveAgainNext(Peer[Payer[t]]))

FairSpec == Spec /\ Fairness

-----------------------------------------------------------------------------
(***************************************************************************)
(* Type correctness                                                        *)
(***************************************************************************)

TypeOK ==
  /\ channel \in [Node -> {"open", "closing", "closed"}]
  /\ end \in [Node -> [Node -> ChannelEnd]]
  /\ stored \in [Node -> SUBSET Envelope]
  /\ processed \in [Node -> SUBSET Envelope]
  /\ revealed \in [Node -> SUBSET Transfer]
  /\ seen \in [Node -> SUBSET Transfer]
  /\ cleared \in [Node -> SUBSET Transfer]
  /\ queue \in [Node -> Seq(Request)]
  /\ job \in [Node -> SUBSET Envelope]
  /\ retry \in [Node -> SUBSET Envelope]
  /\ revealing \in [Node -> SUBSET Transfer]
  /\ closing \in SUBSET Node
  /\ up \in [Node -> BOOLEAN]
  /\ crashes \in Nat
  /\ wire \in SUBSET Envelope
  /\ acks \in SUBSET Envelope
  /\ reveals \in SUBSET Transfer
  /\ log \in SUBSET Envelope
  /\ past \in [Node -> SUBSET Transfer]
  /\ registry \in SUBSET Transfer
  /\ closed \in SUBSET Node

-----------------------------------------------------------------------------
(***************************************************************************)
(* Safety                                                                  *)
(***************************************************************************)

\* A node never sends two different messages with the same nonce, whatever it
\* was doing when it, or its partner, closed the channel, or when it crashed: its
\* partner could take either to the chain.  Where a close can fail, it may: what was
\* signed for the channel while it was closing isn't in the store, and its nonce
\* is used again in the reopened channel.
NonceUnique ==
  ~CloseFails =>
    \A m1, m2 \in log : m1.from = m2.from /\ m1.nonce = m2.nonce => m1 = m2

\* e is the state of the channel end right after message m
carries(e, m) ==
  /\ e.nextNonce = m.nonce + 1
  /\ e.transferred = m.transferred /\ e.locked = m.locked /\ e.locks = m.locks

\* The two ends of a channel that have applied as many messages of a node agree
\* on its balance proof, and neither has anything its signer never sent
ViewAgreement ==
  \A n, o \in Node :
     \/ /\ end[n][o].nextNonce = 1
        /\ end[n][o].transferred = 0 /\ end[n][o].locked = 0 /\ end[n][o].locks = {}
     \/ \E m \in log : m.from = o /\ carries(end[n][o], m)

\* A partner is ahead of the node whose messages it applies only when that node
\* stopped using the channel while it was sending one
NeverAhead ==
  \A n \in Node : partner(n).nextNonce > own(Peer[n]).nextNonce => channel[Peer[n]] # "open"

\* The next message a node is owed always passes the balance-proof validation:
\* two honest clients never lock themselves out of their channel, as long as no
\* close of it fails
NextMessageValid ==
  \A n \in Node : \A m \in log :
     m.from = Peer[n] /\ m.nonce = partner(n).nextNonce => balanceProofFollows(partner(n), m)

\* A message the partner acknowledged has been applied by the partner, unless
\* its channel was closing at that moment
AckMeansApplied ==
  \A n \in Node : \A m \in processed[n] :
     m.from = n => m \in stored[Peer[n]] \/ channel[Peer[n]] # "open"

\* A stored message that its partner neither applied nor acknowledged is still in
\* a retry loop, across crashes, shutdowns and failed closings: else the partner
\* would wait for its nonce forever
UnackedIsRetried ==
  \A n \in Node : \A m \in stored[n] :
     /\ up[n] /\ m.from = n
     /\ channel[n] = "open" /\ channel[Peer[n]] = "open"
     /\ m \notin stored[Peer[n]] /\ m \notin processed[n]
     /\ m.t \notin seen[n]
     => m \in retry[n] /\ ~stopped(n, m)

\* n expired a lock whose secret it had seen registered
expiredRegistered(n) == \E t \in seen[n] : has(n, t, "LockExpired")

\* What a node accepts from its partner never exceeds what the partner owns,
\* with the locks of both directions in any stage and secrets registered
\* on-chain; the one exception is a registered lock expired by the node itself
PartnerSolvent ==
  \A n \in Node :
     ~expiredRegistered(n) => Capacity(partner(n), own(n), 0) >= 0

-----------------------------------------------------------------------------
(***************************************************************************)
(* Refinement                                                              *)
(***************************************************************************)

\* How far the messages in S went with transfer t
stage(S, t) ==
  LET sent(type) == \E m \in S : m.t = t /\ m.type = type
  IN CASE sent("Unlock") -> "paid"
       [] ~sent("Unlock") /\ sent("LockExpired") -> "returned"
       [] ~sent("Unlock") /\ ~sent("LockExpired") /\ sent("LockedTransfer") -> "locked"
       [] OTHER -> "none"

Promise == INSTANCE Settlement WITH
  payer <- [t \in Transfer |-> stage(log, t)],
  payee <- [t \in Transfer |-> stage(stored[Peer[Payer[t]]], t)]

\* What the payer has sent and what the payee has applied implement Settlement:
\* one lock, one outcome, never taken back, and never another one at the payee
Settles == Promise!Spec

-----------------------------------------------------------------------------
(***************************************************************************)
(* Liveness                                                                *)
(***************************************************************************)

\* Every transfer a node locks in an open channel is settled in the end: the
\* partner acknowledged its Unlock or its LockExpired
EventuallySettled ==
  \A t \in Transfer :
     has(Payer[t], t, "LockedTransfer")
       ~> completed(Payer[t], t) \/ channel[Payer[t]] # "open" \/ channel[Peer[Payer[t]]] # "open"

=============================================================================
