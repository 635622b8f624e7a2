----------------------------- MODULE Mediation -----------------------------
(***************************************************************************)
(* One payment along a path of nodes: the locks it sets up hop by hop, the *)
(* secret that comes back, and what the clock, the chain and clients that  *)
(* aren't there all the time make of it.                                   *)
(*                                                                         *)
(* Hop h is the channel between the nodes h and h + 1; node 1 initiates    *)
(* the payment, the last node is its target.  Messages are sent until they *)
(* are handled (Envelopes says why): here, each one arrives some time or   *)
(* never does.  Nodes run the code of this client.                         *)
(***************************************************************************)
EXTENDS Integers, FiniteSets, Sequences, Fees

CONSTANTS
  N,                \* nodes
  expiration,       \* of the locks, which are the same all along the path
  revealTimeout,
  httpTimeout,
  mineDelay,        \* bound: how long a transaction may take
  confirmDelay,     \* confirmationBlocks
  MaxTime,          \* bound of the clock
  Unreliable,       \* nodes that may be offline for some time
  Closing,          \* channels that may be closed
  Payments          \* [amount, config, in, out, quick]: what is locked at the first hop, the fees of
                    \* mediators, and what they have in their channels; bound: with a quick one, no
                    \* node stops, no channel is closed, and time waits for messages

ASSUME MediationAssumption ==
  /\ N \in Nat /\ N >= 2
  /\ {expiration, revealTimeout, httpTimeout, mineDelay, confirmDelay, MaxTime} \subseteq Nat
  /\ Unreliable \subseteq 1..N /\ Closing \subseteq 1..(N - 1)

Node == 1..N
Hop == 1..(N - 1)
Mediator == 2..(N - 1)

VARIABLES
  now,
  up,               \* nodes that run
  sent,             \* transfers[sent:...] of the payer of each hop
  received,         \* transfers[received:...] of the payee of each hop
  messages,
  mediating,        \* hops whose transfer is about to be forwarded
  registering,      \* when a node sent registerSecret, 0 if it didn't
  registeredAt,     \* in the SecretRegistry, 0 if it isn't
  closed,           \* channels that were closed on chain
  knownAt,          \* when a node learned the secret
  amount, payment

vars == <<now, up, sent, received, messages, mediating, registering, registeredAt, closed,
          knownAt, amount, payment>>

TransferState ==
  [transfer : BOOLEAN, secret : BOOLEAN, unlock : BOOLEAN, expired : BOOLEAN,
   secretRegistered : BOOLEAN, channelClosed : BOOLEAN]
None == [transfer |-> FALSE, secret |-> FALSE, unlock |-> FALSE, expired |-> FALSE,
         secretRegistered |-> FALSE, channelClosed |-> FALSE]
Message ==
  [type : {"LockedTransfer", "Unlock", "LockExpired", "SecretReveal"}, hop : Hop]
    \cup [type : {"SecretRequest", "SecretToTarget"}, hop : {0}]
msg(type, hop) == [type |-> type, hop |-> hop]

Init ==
  /\ now = 1 /\ up = Node
  /\ sent = [h \in Hop |-> IF h = 1 THEN [None EXCEPT !.transfer = TRUE, !.secret = TRUE] ELSE None]
  /\ received = [h \in Hop |-> None]
  /\ messages = {msg("LockedTransfer", 1)}
  /\ mediating = {}
  /\ registering = [n \in Node |-> 0] /\ registeredAt = 0
  /\ closed = {}
  /\ knownAt = [n \in Node |-> IF n = 1 THEN now ELSE 0]
  /\ payment \in Payments
  /\ amount = [h \in Hop |-> IF h = 1 THEN payment.amount ELSE 0]

unchangedChain == UNCHANGED <<registering, registeredAt, closed>>
unchangedRest == UNCHANGED <<now, up, amount, payment>>

-----------------------------------------------------------------------------
(* Locking *)

\* receiveTransferSigned: the target asks for the secret unless the lock expires too soon
receiveTransferSigned(h) ==
  /\ h + 1 \in up /\ msg("LockedTransfer", h) \in messages
  /\ ~received[h].transfer /\ ~received[h].channelClosed
  /\ received' = [received EXCEPT ![h].transfer = TRUE]
  /\ LET asks == h + 1 = N /\ now < expiration - revealTimeout
     IN messages' = (messages \ {msg("LockedTransfer", h)})
                      \cup (IF asks THEN {msg("SecretRequest", 0)} ELSE {})
  /\ mediating' = IF h + 1 \in Mediator THEN mediating \cup {h} ELSE mediating
  /\ unchangedChain /\ unchangedRest /\ UNCHANGED <<sent, knownAt>>

\* transferMediateEpic, makeAndSignTransfer$: the lock is forwarded, with the same expiration and
\* less the fee, if there is a fee, the outgoing channel is open and there is time enough
forwards(h) ==
  /\ ~sent[h + 1].transfer /\ ~sent[h + 1].channelClosed
  /\ now + revealTimeout < expiration
  /\ hasRoot(payment.config, payment.in, payment.out, amount[h])

feeAt(h) == fee(payment.config, payment.in, payment.out, amount[h])

transferMediate(h) ==
  /\ h \in mediating /\ h + 1 \in up
  /\ mediating' = mediating \ {h}
  /\ IF forwards(h)
     THEN /\ sent' = [sent EXCEPT ![h + 1].transfer = TRUE, ![h + 1].secret = received[h].secret]
          /\ amount' = [amount EXCEPT ![h + 1] = amount[h] - feeAt(h)]
          /\ messages' = messages \cup {msg("LockedTransfer", h + 1)}
     ELSE UNCHANGED <<sent, amount, messages>>
  /\ unchangedChain /\ UNCHANGED <<now, up, payment, received, knownAt>>

-----------------------------------------------------------------------------
(* Revealing and unlocking *)

\* transferSecretRequestedEpic, transferSecretRevealEpic of the initiator
secretReveal ==
  /\ 1 \in up /\ msg("SecretRequest", 0) \in messages
  /\ messages' = (messages \ {msg("SecretRequest", 0)})
                   \cup (IF now < expiration THEN {msg("SecretToTarget", 0)} ELSE {})
  /\ unchangedChain /\ unchangedRest /\ UNCHANGED <<sent, received, mediating, knownAt>>

learns(n) == knownAt' = IF knownAt[n] = 0 THEN [knownAt EXCEPT ![n] = now] ELSE knownAt

\* makeAndSignUnlock$
canUnlock(t) ==
  /\ t.transfer /\ ~t.unlock /\ ~t.expired /\ ~t.channelClosed
  /\ t.secretRegistered \/ now <= expiration

\* transferSecretRevealedEpic and what follows: unlock to the next hop, reveal to the previous one
receiveSecretReveal(n) ==
  LET m == IF n = N THEN msg("SecretToTarget", 0) ELSE msg("SecretReveal", n)
      unlocks == n # N /\ canUnlock(sent[n])
      reveals == n # 1 /\ received[n - 1].transfer
  IN /\ n \in up /\ m \in messages
     /\ messages' = (messages \ {m}) \cup (IF unlocks THEN {msg("Unlock", n)} ELSE {})
                                     \cup (IF reveals THEN {msg("SecretReveal", n - 1)} ELSE {})
     /\ sent' = [h \in Hop |-> IF h = n /\ sent[h].transfer
                               THEN [sent[h] EXCEPT !.secret = TRUE, !.unlock = @ \/ unlocks] ELSE sent[h]]
     /\ received' = [h \in Hop |-> IF h + 1 = n /\ reveals THEN [received[h] EXCEPT !.secret = TRUE] ELSE received[h]]
     /\ learns(n)
     /\ unchangedChain /\ unchangedRest /\ UNCHANGED mediating

receiveTransferUnlocked(h) ==
  /\ h + 1 \in up /\ msg("Unlock", h) \in messages
  /\ received[h].transfer /\ ~received[h].channelClosed
  /\ messages' = messages \ {msg("Unlock", h)}
  /\ received' = [received EXCEPT ![h].unlock = TRUE, ![h].secret = TRUE]
  /\ learns(h + 1)
  /\ unchangedChain /\ unchangedRest /\ UNCHANGED <<sent, mediating>>

\* Mutant of transferAutoExpire: only locks whose secret isn't known are given up
transferAutoExpireUnknown(h) ==
  /\ h \in up /\ sent[h].transfer /\ ~sent[h].secret
  /\ ~sent[h].unlock /\ ~sent[h].expired /\ ~sent[h].secretRegistered /\ ~sent[h].channelClosed
  /\ now >= expiration + 1 + httpTimeout
  /\ sent' = [sent EXCEPT ![h].expired = TRUE]
  /\ messages' = messages \cup {msg("LockExpired", h)}
  /\ unchangedChain /\ unchangedRest /\ UNCHANGED <<received, mediating, knownAt>>

\* transferAutoExpireEpic
transferAutoExpire(h) ==
  /\ h \in up /\ sent[h].transfer
  /\ ~sent[h].unlock /\ ~sent[h].expired /\ ~sent[h].secretRegistered /\ ~sent[h].channelClosed
  /\ now >= expiration + 1 + httpTimeout
  /\ sent' = [sent EXCEPT ![h].expired = TRUE]
  /\ messages' = messages \cup {msg("LockExpired", h)}
  /\ unchangedChain /\ unchangedRest /\ UNCHANGED <<received, mediating, knownAt>>

\* receiveTransferExpired refuses while the secret is known to be registered
receiveTransferExpired(h) ==
  /\ h + 1 \in up /\ msg("LockExpired", h) \in messages
  /\ received[h].transfer /\ ~received[h].channelClosed /\ ~received[h].secretRegistered
  /\ expiration < now
  /\ messages' = messages \ {msg("LockExpired", h)}
  /\ received' = [received EXCEPT ![h].expired = TRUE]
  /\ unchangedChain /\ unchangedRest /\ UNCHANGED <<sent, mediating, knownAt>>

-----------------------------------------------------------------------------
(* The chain *)

\* Mutant of isInDanger: the secret is registered when the lock expires
isInDangerLate(n) ==
  LET t == received[n - 1]
  IN /\ t.transfer /\ t.secret /\ now >= expiration
     /\ ~t.unlock /\ ~t.expired /\ ~t.secretRegistered /\ ~t.channelClosed /\ now < expiration
     /\ registering[n] = 0

\* transferAutoRegisterEpic: in the danger zone, while there is something to gain
isInDanger(n) ==
  LET t == received[n - 1]
  IN /\ t.transfer /\ t.secret /\ now >= expiration - revealTimeout
     /\ ~t.unlock /\ ~t.expired /\ ~t.secretRegistered /\ ~t.channelClosed /\ now < expiration
     /\ registering[n] = 0
transferAutoRegister(n) ==
  /\ n \in up \ {1} /\ isInDanger(n)
  /\ registering' = [registering EXCEPT ![n] = now]
  /\ unchangedRest /\ UNCHANGED <<sent, received, messages, mediating, registeredAt, closed, knownAt>>

registerSecret(n) ==
  /\ registering[n] # 0 /\ registeredAt = 0
  /\ registeredAt' = now
  /\ unchangedRest /\ UNCHANGED <<sent, received, messages, mediating, registering, closed, knownAt>>

\* monitorSecretRegistryEpic: the secret is stored at once, its registration once it is confirmed;
\* then, it is revealed as if a SecretReveal had come
isConfirmed == registeredAt # 0 /\ registeredAt + confirmDelay <= now
seen(t) ==
  IF t.transfer /\ registeredAt < expiration
  THEN [t EXCEPT !.secret = TRUE, !.secretRegistered = isConfirmed] ELSE t
seesRegistered(n) ==
  LET sees(h, t) == registeredAt # 0 /\ seen(t) # t
  IN \/ n \in Hop /\ sees(n, sent[n])
     \/ n - 1 \in Hop /\ sees(n - 1, received[n - 1])
transferSecretRegisterSuccess(n) ==
  /\ n \in up /\ seesRegistered(n)
  /\ sent' = [h \in Hop |-> IF h = n THEN seen(sent[h]) ELSE sent[h]]
  /\ received' = [h \in Hop |-> IF h + 1 = n THEN seen(received[h]) ELSE received[h]]
  /\ messages' = IF isConfirmed /\ n - 1 \in Hop /\ received[n - 1].transfer
                 THEN messages \cup {msg("SecretReveal", n - 1)} ELSE messages
  /\ learns(n)
  /\ unchangedChain /\ unchangedRest /\ UNCHANGED mediating

\* A channel is closed, and its participants see it
close(h) ==
  /\ h \in Closing \ closed /\ now < expiration /\ ~payment.quick
  /\ closed' = closed \cup {h}
  /\ unchangedRest /\ UNCHANGED <<sent, received, messages, mediating, registering, registeredAt, knownAt>>
channelCloseSuccess(h) ==
  /\ h \in closed
  /\ \/ /\ h \in up /\ ~sent[h].channelClosed
        /\ sent' = [sent EXCEPT ![h].channelClosed = TRUE] /\ UNCHANGED received
     \/ /\ h + 1 \in up /\ ~received[h].channelClosed
        /\ received' = [received EXCEPT ![h].channelClosed = TRUE] /\ UNCHANGED sent
  /\ unchangedChain /\ unchangedRest /\ UNCHANGED <<messages, mediating, knownAt>>

-----------------------------------------------------------------------------
(* Time, and nodes that stop and start again *)

\* What a node that runs does at once, and a transaction does within mineDelay
isDue ==
  \/ \E n \in up \ {1} : isInDanger(n)
  \/ \E n \in up : seesRegistered(n)
  \/ registeredAt = 0 /\ \E n \in Node : registering[n] # 0 /\ registering[n] + mineDelay <= now

tick ==
  /\ now < MaxTime /\ ~isDue /\ (payment.quick => messages = {})
  /\ now' = now + 1
  /\ unchangedChain /\ UNCHANGED <<up, amount, payment, sent, received, messages, mediating, knownAt>>

stop(n) ==
  /\ n \in up \cap Unreliable /\ now < MaxTime /\ ~payment.quick
  /\ up' = up \ {n} /\ mediating' = mediating \ {n - 1}
  /\ unchangedChain /\ UNCHANGED <<now, amount, payment, sent, received, messages, knownAt>>

\* initQueuePendingReceivedEpic: pending transfers are taken as if they had just come
start(n) ==
  /\ n \in Node \ up
  /\ up' = up \cup {n}
  /\ LET isPending(t) == t.transfer /\ ~t.unlock /\ ~t.expired /\ ~t.secretRegistered /\ ~t.channelClosed
     IN mediating' = mediating \cup {h \in Hop : h + 1 = n /\ n \in Mediator /\ isPending(received[h])}
  /\ unchangedChain /\ UNCHANGED <<now, amount, payment, sent, received, messages, knownAt>>

Receive ==
  \/ secretReveal
  \/ \E n \in Node : receiveSecretReveal(n)
  \/ \E h \in Hop : \/ receiveTransferSigned(h) \/ receiveTransferUnlocked(h) \/ receiveTransferExpired(h)

Chain == \E n \in Node : transferAutoRegister(n) \/ registerSecret(n) \/ transferSecretRegisterSuccess(n)

Next ==
  \/ Receive \/ Chain
  \/ \E h \in Hop : transferMediate(h) \/ transferAutoExpire(h) \/ close(h) \/ channelCloseSuccess(h)
  \/ \E n \in Node : stop(n) \/ start(n)
  \/ tick

Spec == Init /\ [][Next]_vars

\* Time goes on, nodes come back, messages arrive in the end
FairSpec ==
  /\ Spec /\ WF_vars(tick) /\ WF_vars(Receive) /\ WF_vars(Chain)
  /\ WF_vars(\E h \in Hop : transferAutoExpire(h))
  /\ WF_vars(\E n \in Node : start(n))

-----------------------------------------------------------------------------
(* Properties *)

\* What the contracts pay for a lock that is neither unlocked nor expired (TokenNetwork.sol)
isClaimable(h) ==
  received[h].transfer /\ ~received[h].expired /\ registeredAt # 0 /\ registeredAt < expiration
isPaid(h) == received[h].unlock \/ isClaimable(h)
\* A secret is worth its payment: whoever knows it early enough to register it and see that confirmed
\* before the payer gives the lock up, gets paid, whatever the payer does or doesn't do.  Not so if the
\* channel is closed: transferAutoRegisterEpic (transfers/epics/secret.ts:419) stops then.
knewInTime(n) ==
  knownAt[n] # 0 /\ knownAt[n] + mineDelay < expiration
    /\ knownAt[n] + mineDelay + confirmDelay <= expiration + httpTimeout
SecretIsWorth ==
  \A n \in Node \ ({1} \cup Unreliable) :
     now = MaxTime /\ received[n - 1].transfer /\ knewInTime(n) /\ n - 1 \notin closed => isPaid(n - 1)

\* A mediator never forwards more than it gets if its fees are capped, and takes what its fee
\* functions ask for the amount it sends, up to a token (transfers/mediate/types.ts): no more, and no
\* less, but where the cap keeps it from paying.
FeeIsEarned ==
  \A n \in Mediator : msg("LockedTransfer", n) \in messages =>
     LET over == excess(payment.config, payment.in, payment.out, amount[n - 1], amount[n] * Unit)
     IN /\ payment.config.cap => amount[n] <= amount[n - 1]
        /\ over <= Token
        /\ over >= -Token \/ (payment.config.cap /\ amount[n] = amount[n - 1])

\* No lock stays for ever: it is unlocked, given up by both, or paid for on chain, or its channel is closed.
EveryLockEnds ==
  \A h \in Hop : received[h].transfer ~> (isPaid(h) \/ received[h].expired \/ h \in closed)

=============================================================================
