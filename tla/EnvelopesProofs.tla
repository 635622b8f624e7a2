-------------------------- MODULE EnvelopesProofs --------------------------
(***************************************************************************)
(* Theorems about Envelopes, for every pairing of nodes, every set of      *)
(* transfers and every bound.  The invariant of EnvelopesInvariant is      *)
(* inductive when a closing channel is never opened again; types, what a   *)
(* partner owns, and outcomes and retries, in the last sections, hold      *)
(* without that.                                                           *)
(***************************************************************************)
EXTENDS EnvelopesInvariant, TLAPS

-----------------------------------------------------------------------------
(***************************************************************************)
(* Types of the helpers                                                    *)
(***************************************************************************)

\* The locks after a message are locks
LEMMA LocksAfterType ==
  ASSUME NEW e \in ChannelEnd, NEW type, NEW t \in Transfer
  PROVE  locksAfter(e, type, t) \in SUBSET Transfer
BY DEF locksAfter, ChannelEnd

\* What a node composes is an envelope message
LEMMA ComposeType ==
  ASSUME TypeOK, NEW n \in Node, NEW type \in EnvelopeType, NEW t \in Transfer
  PROVE  compose(n, type, t) \in Envelope
<1> USE PeerAssumption, TransferAssumption, DepositAssumption, TotalLockedAssumption,
        EnvelopesAssumption
<1> DEFINE e == end[n][n]
<1>1. e \in ChannelEnd
  BY DEF TypeOK
<1>2. locksAfter(e, type, t) \in SUBSET Transfer
  BY <1>1, LocksAfterType
<1>3. Amount[t] \in Nat /\ totalLocked[locksAfter(e, type, t)] \in Nat
  BY <1>2
<1>4. /\ e.nextNonce \in Nat /\ e.transferred \in Nat /\ e.locked \in Int
  BY <1>1 DEF ChannelEnd
<1> QED
  BY <1>2, <1>3, <1>4 DEF compose, own, Envelope

\* The end of a message's sender, once the message is applied
LEMMA AfterMessageType ==
  ASSUME NEW e \in ChannelEnd, NEW m \in Envelope
  PROVE  afterMessage(e, m) \in ChannelEnd
<1> USE PeerAssumption, TransferAssumption, DepositAssumption, TotalLockedAssumption,
        EnvelopesAssumption
<1> DEFINE locks == locksAfter(e, m.type, m.t)
<1>1. m.t \in Transfer /\ m.transferred \in Nat /\ m.locked \in Int
  BY DEF Envelope
<1>2. locks \in SUBSET Transfer
  BY <1>1, LocksAfterType
<1>3. e.nextNonce + 1 \in Nat /\ e.registered \cap locks \in SUBSET Transfer
  BY <1>2 DEF ChannelEnd
<1> HIDE DEF locks
<1>4. [e EXCEPT !.locks = locks, !.registered = e.registered \cap locks,
                !.transferred = m.transferred, !.locked = m.locked,
                !.nextNonce = e.nextNonce + 1] \in ChannelEnd
  BY <1>1, <1>2, <1>3 DEF ChannelEnd
<1> QED
  BY <1>4 DEF afterMessage, locks

\* The reducer of envelope messages
LEMMA ReducerType ==
  ASSUME TypeOK, NEW n \in Node, NEW m \in Envelope, transferEnvelopeReducer(n, m)
  PROVE  /\ end' \in [Node -> [Node -> ChannelEnd]]
         /\ stored' \in [Node -> SUBSET Envelope]
<1> USE PeerAssumption, TransferAssumption, DepositAssumption, TotalLockedAssumption,
        EnvelopesAssumption
<1>1. m.from \in Node
  BY DEF Envelope
<1>2. end[n][m.from] \in ChannelEnd
  BY <1>1 DEF TypeOK
<1>3. afterMessage(end[n][m.from], m) \in ChannelEnd
  BY <1>2, AfterMessageType
<1>4. CASE applies(n, m)
  <2>1. /\ end' = [end EXCEPT ![n][m.from] = afterMessage(end[n][m.from], m)]
        /\ stored' = [stored EXCEPT ![n] = stored[n] \cup {m}]
    BY <1>4 DEF transferEnvelopeReducer
  <2> QED
    BY <2>1, <1>1, <1>3 DEF TypeOK
<1>5. CASE ~applies(n, m)
  BY <1>5 DEF transferEnvelopeReducer, TypeOK
<1> QED
  BY <1>4, <1>5

\* The variables emitting a message touches
EpicsType ==
  /\ queue \in [Node -> Seq(Request)]
  /\ job \in [Node -> SUBSET Envelope]
  /\ retry \in [Node -> SUBSET Envelope]
  /\ revealing \in [Node -> SUBSET Transfer]
  /\ closing \in SUBSET Node
  /\ up \in [Node -> BOOLEAN]

\* Stopping a client
LEMMA StopType ==
  ASSUME TypeOK, NEW n \in Node, stop(n)
  PROVE  EpicsType'
BY DEF TypeOK, stop, EpicsType

\* Emitting a message
LEMMA EmitType ==
  ASSUME TypeOK, NEW n \in Node, NEW m \in Envelope, NEW rest \in Seq(Request),
         emit(n, m, rest)
  PROVE  /\ EpicsType'
         /\ wire' \in SUBSET Envelope /\ acks' \in SUBSET Envelope
         /\ reveals' \in SUBSET Transfer /\ log' \in SUBSET Envelope
<1> USE PeerAssumption, TransferAssumption, DepositAssumption, TotalLockedAssumption,
        EnvelopesAssumption
<1> DEFINE kept == inMemory(n, m.t) \/ (m.type = "LockedTransfer" /\ applies(n, m))
<1>1. CASE kept
  <2> DEFINE sent == IF channel[n] = "closed" THEN {} ELSE {m}
  <2>1. /\ queue' = [queue EXCEPT ![n] = rest]
        /\ job' = [job EXCEPT ![n] = {}]
        /\ retry' = [retry EXCEPT ![n] = retry[n] \cup sent]
        /\ wire' = wire \cup sent /\ log' = log \cup sent
        /\ UNCHANGED <<revealing, closing, up, acks, reveals>>
    BY <1>1 DEF emit
  <2>2. sent \in SUBSET Envelope
    OBVIOUS
  <2> HIDE DEF sent
  <2> QED
    BY <2>1, <2>2 DEF EpicsType, TypeOK
<1>2. CASE ~kept
  <2>1. stop(n) /\ UNCHANGED network
    BY <1>2 DEF emit
  <2> QED
    BY <2>1, StopType DEF network, TypeOK
<1> QED
  BY <1>1, <1>2

\* The rest of a queue that isn't empty
LEMMA RestType ==
  ASSUME TypeOK, NEW n \in Node, queue[n] # <<>>
  PROVE  Tail(queue[n]) \in Seq(Request)
BY DEF TypeOK

-----------------------------------------------------------------------------
(***************************************************************************)
(* Type correctness                                                        *)
(***************************************************************************)

\* Requests only join a queue
LEMMA EnqueueType ==
  ASSUME TypeOK, NEW n \in Node, NEW op \in {"transfer", "unlock", "expire"},
         NEW t \in Transfer, enqueue(n, op, t)
  PROVE  TypeOK'
<1> USE PeerAssumption, TransferAssumption, DepositAssumption, TotalLockedAssumption,
        EnvelopesAssumption
<1>1. [op |-> op, t |-> t] \in Request
  BY DEF Request
<1>2. Append(queue[n], [op |-> op, t |-> t]) \in Seq(Request)
  BY <1>1 DEF TypeOK
<1> QED
  BY <1>2 DEF enqueue, TypeOK, store, network, world, process

\* A request is dropped, or its message gets signed
LEMMA SignType ==
  ASSUME TypeOK, NEW n \in Node, NEW allowed, NEW type \in EnvelopeType, NEW t \in Transfer,
         queue[n] # <<>>, sign(n, allowed, type, t)
  PROVE  TypeOK'
<1> USE PeerAssumption, TransferAssumption, DepositAssumption, TotalLockedAssumption,
        EnvelopesAssumption
<1>1. compose(n, type, t) \in Envelope
  BY ComposeType
<1>2. Tail(queue[n]) \in Seq(Request)
  BY RestType
<1> QED
  BY <1>1, <1>2 DEF sign, TypeOK, store, network, world, process

\* A cached message is emitted again, or its request is dropped
LEMMA ResendType ==
  ASSUME TypeOK, NEW n \in Node, NEW allowed, NEW m \in stored[n],
         queue[n] # <<>>, resend(n, allowed, m)
  PROVE  TypeOK'
<1> USE PeerAssumption, TransferAssumption, DepositAssumption, TotalLockedAssumption,
        EnvelopesAssumption
<1>1. m \in Envelope
  BY DEF TypeOK
<1>2. Tail(queue[n]) \in Seq(Request)
  BY RestType
<1>3. CASE emit(n, m, Tail(queue[n])) /\ UNCHANGED <<store, world, crashes>>
  BY <1>1, <1>2, <1>3, EmitType DEF EpicsType, TypeOK, store, world
<1>4. CASE ~emit(n, m, Tail(queue[n]))
  BY <1>2, <1>4 DEF resend, TypeOK, store, network, world
<1> QED
  BY <1>3, <1>4 DEF resend

\* Actions that take the next request of n
LEMMA TakeType ==
  ASSUME TypeOK, NEW n \in Node, TakeNext(n)
  PROVE  TypeOK'
<1> USE PeerAssumption, TransferAssumption, DepositAssumption, TotalLockedAssumption,
        EnvelopesAssumption
<1> PICK t \in Transfer :
      sendTransferSigned(n, t) \/ sendTransferUnlocked(n, t) \/ sendTransferExpired(n, t)
  BY DEF TakeNext
<1> USE DEF EnvelopeType
<1>1. CASE sendTransferSigned(n, t)
  BY <1>1, SignType DEF sendTransferSigned, takes
<1>2. CASE sendTransferUnlocked(n, t)
  BY <1>2, SignType, ResendType DEF sendTransferUnlocked, takes
<1>3. CASE sendTransferExpired(n, t)
  BY <1>3, SignType, ResendType DEF sendTransferExpired, takes
<1> QED
  BY <1>1, <1>2, <1>3

\* Actions emitted when a signature is there
LEMMA EmitNextType ==
  ASSUME TypeOK, NEW n \in Node, EmitNext(n)
  PROVE  TypeOK'
<1> USE PeerAssumption, TransferAssumption, DepositAssumption, TotalLockedAssumption,
        EnvelopesAssumption
<1> PICK m \in job[n] :
      \/ transferSigned(n, m) \/ transferUnlockSuccess(n, m) \/ transferExpireSuccess(n, m)
      \/ acknowledge(n, m)
  BY DEF EmitNext
<1>m. m \in Envelope /\ queue[n] \in Seq(Request)
  BY DEF TypeOK
<1>1. CASE transferSigned(n, m)
  BY <1>1, <1>m, ReducerType, EmitType DEF transferSigned, EpicsType, TypeOK, world
<1>2. CASE transferUnlockSuccess(n, m)
  <2>1. CASE unlockable(n, m.t)
    BY <1>2, <2>1, <1>m, ReducerType, EmitType DEF transferUnlockSuccess, EpicsType, TypeOK, world
  <2>2. CASE ~unlockable(n, m.t)
    BY <1>2, <2>2 DEF transferUnlockSuccess, TypeOK, world, network
  <2> QED
    BY <2>1, <2>2
<1>3. CASE transferExpireSuccess(n, m)
  BY <1>3, <1>m, ReducerType, EmitType DEF transferExpireSuccess, EpicsType, TypeOK, world
<1>4. CASE acknowledge(n, m)
  <2>1. /\ end' \in [Node -> [Node -> ChannelEnd]]
        /\ stored' \in [Node -> SUBSET Envelope]
    BY <1>4, <1>m, ReducerType DEF acknowledge
  <2>2. CASE known(n, m.t) \/ applies(n, m)
    <3>1. /\ processed' = [processed EXCEPT ![n] = processed[n] \cup {m}]
          /\ acks' = acks \cup {m}
          /\ job' = [job EXCEPT ![n] = {}]
          /\ UNCHANGED <<queue, retry, revealing, closing, up, wire, reveals, log,
                         channel, revealed, seen, cleared, past, registry, closed, crashes>>
      BY <1>4, <2>2 DEF acknowledge, world
    <3> QED
      BY <2>1, <3>1, <1>m DEF TypeOK
  <2>3. CASE ~(known(n, m.t) \/ applies(n, m))
    BY <1>4, <2>1, <2>3, StopType DEF acknowledge, EpicsType, TypeOK, world, network
  <2> QED
    BY <2>2, <2>3
<1> QED
  BY <1>1, <1>2, <1>3, <1>4

\* Actions that take a new message from the wire
LEMMA ReceiveType ==
  ASSUME TypeOK, NEW n \in Node, ReceiveNext(n)
  PROVE  TypeOK'
<1> USE PeerAssumption, TransferAssumption, DepositAssumption, TotalLockedAssumption,
        EnvelopesAssumption
<1> PICK m \in wire : accept(n, m)
  BY DEF ReceiveNext, receiveTransferSigned, receiveTransferUnlocked, receiveTransferExpired
<1> m \in Envelope
  BY DEF TypeOK
<1> QED
  BY DEF accept, TypeOK, store, network, world, process

\* Actions on one transfer
LEMMA TransferType ==
  ASSUME TypeOK, NEW n \in Node, NEW t \in Transfer, TransferNext(n, t)
  PROVE  TypeOK'
<1> USE PeerAssumption, TransferAssumption, DepositAssumption, TotalLockedAssumption,
        EnvelopesAssumption
<1>1. CASE resolveTransfer(n, t)
  BY <1>1, EnqueueType DEF resolveTransfer
<1>2. CASE transferSecretRevealed(n, t)
  BY <1>2, EnqueueType DEF transferSecretRevealed
<1>3. CASE transferAutoExpire(n, t)
  BY <1>3, EnqueueType DEF transferAutoExpire
<1>4. CASE transferSecretReveal(n, t)
  BY <1>4 DEF transferSecretReveal, TypeOK, world, process
<1>5. CASE retrySecretReveal(n, t)
  BY <1>5 DEF retrySecretReveal, TypeOK, store, world, epics, process
<1>6. CASE transferClear(n, t)
  <2>1. EpicsType'
    BY <1>6, StopType DEF transferClear, EpicsType, TypeOK
  <2>2. /\ cleared' = [cleared EXCEPT ![n] = cleared[n] \cup {t}]
        /\ UNCHANGED <<channel, end, stored, processed, revealed, seen, wire, acks, reveals,
                       log, past, registry, closed, crashes>>
    BY <1>6 DEF transferClear, network, world
  <2> QED
    BY <2>1, <2>2 DEF EpicsType, TypeOK
<1>7. CASE expires(n, t)
  BY <1>7 DEF expires, TypeOK, store, epics, process, network
<1>8. CASE transferSecretRegistered(n, t)
  <2> DEFINE e == end[n][Payer[t]]
  <2>1. Payer[t] \in Node /\ e \in ChannelEnd
    BY DEF TypeOK
  <2>2. [e EXCEPT !.registered = @ \cup ({t} \cap e.locks)] \in ChannelEnd
    BY <2>1 DEF ChannelEnd
  <2>3. end' \in [Node -> [Node -> ChannelEnd]]
    BY <1>8, <2>1, <2>2 DEF transferSecretRegistered, TypeOK
  <2> QED
    BY <1>8, <2>3 DEF transferSecretRegistered, TypeOK, epics, process, network, world
<1> QED
  BY <1>1, <1>2, <1>3, <1>4, <1>5, <1>6, <1>7, <1>8 DEF TransferNext

\* Actions of a node on its own
LEMMA NodeType ==
  ASSUME TypeOK, NEW n \in Node, NodeNext(n)
  PROVE  TypeOK'
<1> USE PeerAssumption, TransferAssumption, DepositAssumption, TotalLockedAssumption,
        EnvelopesAssumption
<1>1. CASE \E m \in wire : receiveAgain(n, m)
  BY <1>1 DEF receiveAgain, TypeOK, store, epics, process, world
<1>2. CASE \E m \in acks : transferProcessedReceived(n, m)
  BY <1>2 DEF transferProcessedReceived, TypeOK, epics, process, network, world
<1>3. CASE \E m \in retry[n] : retryMessage(n, m)
  BY <1>3 DEF retryMessage, TypeOK, store, epics, process, world
<1>4. CASE signatureFails(n)
  BY <1>4 DEF signatureFails, TypeOK, store, process, network, world
<1>5. CASE crash(n)
  BY <1>5, StopType DEF crash, EpicsType, TypeOK, store, network, world
<1>6. CASE restart(n)
  <2>1. /\ pendingEnvelopes(n) \in SUBSET Envelope
        /\ pendingReveals(n) \in SUBSET Transfer
    BY DEF pendingEnvelopes, pendingReveals, TypeOK
  <2> QED
    BY <1>6, <2>1 DEF restart, TypeOK, store, world
<1>7. CASE \E m \in Node : channelDeposited(n, m)
  <2> PICK m \in Node : channelDeposited(n, m)
    BY <1>7
  <2>0. end[n][m] \in ChannelEnd /\ Deposit[m] \in Nat
    BY DEF TypeOK
  <2>1. [end[n][m] EXCEPT !.deposit = Deposit[m]] \in ChannelEnd
    BY <2>0 DEF ChannelEnd
  <2>2. end' \in [Node -> [Node -> ChannelEnd]]
    BY <2>1 DEF channelDeposited, TypeOK
  <2> QED
    BY <2>2 DEF channelDeposited, TypeOK, epics, process, network, world
<1>8. CASE channelCloseRequest(n)
  BY <1>8 DEF channelCloseRequest, TypeOK, network, world
<1>9. CASE channelCloseFailure(n)
  BY <1>9 DEF channelCloseFailure, TypeOK, network, world
<1>10. CASE closeChannel(n)
  BY <1>10 DEF closeChannel, TypeOK, store, network
<1>11. CASE channelCloseSuccess(n)
  BY <1>11 DEF channelCloseSuccess, TypeOK, network, world
<1> QED
  BY <1>1, <1>2, <1>3, <1>4, <1>5, <1>6, <1>7, <1>8, <1>9, <1>10, <1>11 DEF NodeNext

\* Every variable keeps its type in every step
LEMMA NextType ==
  ASSUME TypeOK, [Next]_vars
  PROVE  TypeOK'
<1> USE PeerAssumption, TransferAssumption, DepositAssumption, TotalLockedAssumption,
        EnvelopesAssumption
<1>1. CASE \E n \in Node : \/ \E t \in Transfer : TransferNext(n, t)
                           \/ TakeNext(n) \/ EmitNext(n) \/ ReceiveNext(n) \/ NodeNext(n)
  BY <1>1, TransferType, TakeType, EmitNextType, ReceiveType, NodeType
<1>2. CASE \E t \in Transfer : secretRegistered(t)
  BY <1>2 DEF secretRegistered, TypeOK, store, epics, process, network
<1>3. CASE lose
  BY <1>3 DEF lose, TypeOK, store, epics, process, world
<1>4. CASE UNCHANGED vars
  BY <1>4 DEF vars, TypeOK
<1> QED
  BY <1>1, <1>2, <1>3, <1>4 DEF Next

\* The initial state has the types
LEMMA InitType == Init => TypeOK
<1> USE PeerAssumption, TransferAssumption, DepositAssumption, TotalLockedAssumption,
        EnvelopesAssumption
<1>1. emptyChannelEnd \in ChannelEnd
  BY DEF emptyChannelEnd, ChannelEnd
<1> QED
  BY <1>1 DEF Init, TypeOK

\* Every variable has its type in every reachable state: amounts stay numbers,
\* locks and messages stay about known transfers and nodes, whatever the message
\* handlers, reducers, crashes and the chain do
THEOREM TypeCorrect == Spec => []TypeOK
<1> QED
  BY InitType, NextType, PTL DEF Spec
-----------------------------------------------------------------------------
(***************************************************************************)
(* What steps do                                                           *)
(***************************************************************************)

\* n's copy of the end of o keeps its balance proof, locks and nonce in a step
keepsBalance(n, o) ==
  /\ end'[n][o].nextNonce = end[n][o].nextNonce
  /\ end'[n][o].transferred = end[n][o].transferred
  /\ end'[n][o].locked = end[n][o].locked
  /\ end'[n][o].locks = end[n][o].locks

\* A step that neither signs nor applies a message
quiet ==
  /\ \A n, o \in Node : keepsBalance(n, o)
  /\ stored' = stored /\ log' = log /\ wire' \subseteq log
  /\ \A n \in Node : /\ retry'[n] \subseteq log
                     /\ job'[n] \subseteq job[n]
                     /\ channel'[n] = "open" => channel[n] = "open"

-----------------------------------------------------------------------------
(***************************************************************************)
(* Facts about balance proofs                                              *)
(***************************************************************************)

\* What may follow an end depends on its locks and transferred amount only
LEMMA FollowsSame ==
  ASSUME NEW e, NEW p, NEW m, e.locks = p.locks, e.transferred = p.transferred
  PROVE  follows(e, m) <=> follows(p, m)
BY DEF follows, locksAfter

\* Taking a lock out of a set subtracts its amount
LEMMA SumWithout ==
  ASSUME NEW S \in SUBSET Transfer, NEW t \in S
  PROVE  totalLocked[S \ {t}] = totalLocked[S] - Amount[t]
<1> DEFINE R == S \ {t}
<1>1. R \in SUBSET Transfer /\ t \in Transfer \ R /\ R \cup {t} = S
  OBVIOUS
<1> HIDE DEF R
<1>2. totalLocked[R \cup {t}] = totalLocked[R] + Amount[t]
  BY <1>1, TotalLockedAssumption
<1>3. totalLocked[S] \in Nat /\ totalLocked[R] \in Nat /\ Amount[t] \in Nat
  BY <1>1, TotalLockedAssumption, TransferAssumption
<1> QED
  BY <1>1, <1>2, <1>3 DEF R

\* What a node composes is valid on top of its own end
LEMMA ComposeFollows ==
  ASSUME TypeOK, LockSums, NEW n \in Node, NEW t \in Transfer, NEW type \in EnvelopeType,
         type # "LockedTransfer" => t \in own(n).locks
  PROVE  balanceProofFollows(own(n), compose(n, type, t))
<1> DEFINE e == own(n)
<1>1. e.locks \in SUBSET Transfer /\ e.locked = totalLocked[e.locks]
  BY DEF TypeOK, ChannelEnd, LockSums, own
<1>2. CASE type = "LockedTransfer"
  BY <1>2 DEF compose, balanceProofFollows, follows, locksAfter
<1>3. CASE type # "LockedTransfer"
  <2>1. t \in e.locks
    BY <1>3
  <2>2. totalLocked[e.locks \ {t}] = e.locked - Amount[t]
    BY <1>1, <2>1, SumWithout
  <2> QED
    BY <1>3, <2>1, <2>2 DEF compose, balanceProofFollows, follows, locksAfter
<1> QED
  BY <1>2, <1>3

\* An end that applies a valid message carries it
LEMMA AppliedCarries ==
  ASSUME NEW e \in ChannelEnd, NEW m \in Envelope, balanceProofFollows(e, m)
  PROVE  /\ carries(afterMessage(e, m), m)
         /\ afterMessage(e, m).nextNonce = e.nextNonce + 1
         /\ afterMessage(e, m).locked = totalLocked[afterMessage(e, m).locks]
<1> DEFINE locks == locksAfter(e, m.type, m.t)
           f == [e EXCEPT !.locks = locks, !.registered = e.registered \cap locks,
                          !.transferred = m.transferred, !.locked = m.locked,
                          !.nextNonce = e.nextNonce + 1]
<1>1. afterMessage(e, m) = f
  BY DEF afterMessage
<1>2. m.locks = locks /\ m.nonce = e.nextNonce /\ m.locked = totalLocked[m.locks]
  BY DEF balanceProofFollows, follows
<1> HIDE DEF locks
<1>3. /\ f.nextNonce = e.nextNonce + 1 /\ f.transferred = m.transferred
      /\ f.locked = m.locked /\ f.locks = locks
  BY DEF ChannelEnd
<1> QED
  BY <1>1, <1>2, <1>3 DEF carries

-----------------------------------------------------------------------------
(***************************************************************************)
(* Quiet steps                                                             *)
(***************************************************************************)

\* A quiet step keeps the invariant
LEMMA QuietKeeps ==
  ASSUME IInv, TypeOK', quiet
  PROVE  IInv'
<1> USE DEF IInv
<1>1. InLog'
  BY DEF InLog, quiet
<1>2. Pending'
  <2> SUFFICES ASSUME NEW n \in Node, NEW m \in job'[n]
               PROVE  (/\ balanceProofFollows(end[n][m.from], m)
                       /\ m.from = n => ~has(n, m.t, m.type))'
    BY DEF Pending
  <2>1. m \in job[n] /\ m.from \in Node
    BY DEF quiet, TypeOK, Envelope
  <2>2. balanceProofFollows(end[n][m.from], m) /\ (m.from = n => ~has(n, m.t, m.type))
    BY <2>1 DEF Pending
  <2>3. keepsBalance(n, m.from) /\ stored' = stored
    BY <2>1 DEF quiet
  <2> QED
    BY <2>2, <2>3 DEF balanceProofFollows, follows, locksAfter, keepsBalance, has
<1>3. LockSums'
  BY DEF LockSums, own, quiet, keepsBalance
<1>4. Fresh'
  <2> SUFFICES ASSUME NEW m \in log
               PROVE  /\ 1 <= m.nonce
                      /\ \/ m.nonce < own(m.from)'.nextNonce
                         \/ /\ m.nonce = own(m.from)'.nextNonce
                            /\ channel'[m.from] # "open"
                            /\ \A j \in job'[m.from] : j.from # m.from
    BY DEF Fresh, quiet
  <2>1. m.from \in Node
    BY DEF TypeOK, Envelope
  <2> QED
    BY <2>1 DEF Fresh, quiet, keepsBalance, own
<1>5. Chained'
  BY DEF Chained, quiet
<1>6. NonceUnique'
  BY DEF NonceUnique, quiet
<1>7. ViewAgreement'
  BY DEF ViewAgreement, quiet, keepsBalance, carries
<1> QED
  BY <1>1, <1>2, <1>3, <1>4, <1>5, <1>6, <1>7

-----------------------------------------------------------------------------
(***************************************************************************)
(* Steps of the concatMap                                                  *)
(***************************************************************************)

\* A step that only fills n's empty concatMap
fillsJob(n, m) ==
  /\ job[n] = {} /\ job' = [job EXCEPT ![n] = {m}]
  /\ UNCHANGED <<channel, end, stored, retry, wire, log>>

\* Composing a message keeps the invariant
LEMMA ComposeKeeps ==
  ASSUME IInv, TypeOK', NEW n \in Node, NEW t \in Transfer, NEW type \in EnvelopeType,
         channel[n] = "open", ~has(n, t, type),
         type # "LockedTransfer" => t \in own(n).locks,
         fillsJob(n, compose(n, type, t))
  PROVE  IInv'
<1> DEFINE m == compose(n, type, t)
<1> USE DEF IInv
<1>1. m.from = n /\ m.t = t /\ m.type = type
  BY DEF compose
<1>2. balanceProofFollows(own(n), m)
  BY ComposeFollows
<1> HIDE DEF m
<1>3. job' = [job EXCEPT ![n] = {m}] /\ UNCHANGED <<channel, end, stored, retry, wire, log>>
  BY DEF fillsJob, m
<1>4. InLog'
  BY <1>1, <1>3 DEF InLog, TypeOK
<1>5. Pending'
  BY <1>1, <1>2, <1>3 DEF Pending, TypeOK, own, has, balanceProofFollows, follows
<1>6. LockSums' /\ Chained' /\ NonceUnique' /\ ViewAgreement'
  BY <1>3 DEF LockSums, Chained, NonceUnique, ViewAgreement, own
<1>7. Fresh'
  <2> SUFFICES ASSUME NEW k \in log
               PROVE  /\ 1 <= k.nonce
                      /\ \/ k.nonce < own(k.from).nextNonce
                         \/ /\ k.nonce = own(k.from).nextNonce
                            /\ channel[k.from] # "open"
                            /\ \A j \in job'[k.from] : j.from # k.from
    BY <1>3 DEF Fresh, own
  <2>1. k.from \in Node
    BY DEF TypeOK, Envelope
  <2>2. CASE k.from = n
    BY <2>2 DEF Fresh
  <2>3. CASE k.from # n
    BY <2>1, <2>3, <1>3 DEF Fresh, TypeOK
  <2> QED
    BY <2>2, <2>3
<1> QED
  BY <1>4, <1>5, <1>6, <1>7

\* Validating a message of the partner keeps the invariant
LEMMA AcceptKeeps ==
  ASSUME IInv, TypeOK', NEW n \in Node, NEW m \in wire, m.from = Peer[n],
         balanceProofFollows(partner(n), m), fillsJob(n, m)
  PROVE  IInv'
<1> USE DEF IInv
<1>1. job' = [job EXCEPT ![n] = {m}] /\ UNCHANGED <<channel, end, stored, retry, wire, log>>
  BY DEF fillsJob
<1>2. m \in log /\ m.from # n
  BY PeerAssumption DEF InLog
<1>3. InLog'
  BY <1>1, <1>2 DEF InLog, TypeOK
<1>4. Pending'
  BY <1>1, <1>2 DEF Pending, TypeOK, partner, has, balanceProofFollows, follows
<1>5. LockSums' /\ Chained' /\ NonceUnique' /\ ViewAgreement'
  BY <1>1 DEF LockSums, Chained, NonceUnique, ViewAgreement, own
<1>6. Fresh'
  <2> SUFFICES ASSUME NEW k \in log
               PROVE  /\ 1 <= k.nonce
                      /\ \/ k.nonce < own(k.from).nextNonce
                         \/ /\ k.nonce = own(k.from).nextNonce
                            /\ channel[k.from] # "open"
                            /\ \A j \in job'[k.from] : j.from # k.from
    BY <1>1 DEF Fresh, own
  <2>1. k.from \in Node
    BY DEF TypeOK, Envelope
  <2> QED
    BY <2>1, <1>1, <1>2 DEF Fresh, TypeOK
<1> QED
  BY <1>3, <1>4, <1>5, <1>6

-----------------------------------------------------------------------------
(***************************************************************************)
(* Steps that send a new message                                           *)
(***************************************************************************)

\* A message that n signs has a nonce that n never used, and its predecessor was
\* sent
LEMMA SignedIsNext ==
  ASSUME IInv, NEW n \in Node, NEW m \in job[n], m.from = n
  PROVE  /\ m.nonce = own(n).nextNonce /\ 1 <= m.nonce
         /\ \A k \in log : k.from = n => k.nonce < m.nonce
         /\ \/ m.nonce = 1 /\ follows(emptyChannelEnd, m)
            \/ \E p \in log : p.from = n /\ m.nonce = p.nonce + 1 /\ follows(p, m)
<1> USE DEF IInv
<1> DEFINE e == own(n)
<1>1. m.nonce = e.nextNonce /\ follows(e, m)
  BY DEF Pending, balanceProofFollows, own
<1>2. \A k \in log : k.nonce \in Nat /\ 1 <= k.nonce
  BY DEF Fresh, TypeOK, Envelope
<1>3. \A k \in log : k.from = n => k.nonce < m.nonce
  BY <1>1 DEF Fresh
<1>4. CASE e.nextNonce = 1 /\ e.transferred = 0 /\ e.locks = {}
  <2>1. follows(emptyChannelEnd, m)
    BY <1>1, <1>4, FollowsSame DEF emptyChannelEnd
  <2> QED
    BY <1>1, <1>3, <1>4, <2>1
<1>5. CASE \E p \in log : p.from = n /\ carries(e, p)
  <2> PICK p \in log : p.from = n /\ carries(e, p)
    BY <1>5
  <2>1. m.nonce = p.nonce + 1 /\ follows(p, m)
    BY <1>1, FollowsSame DEF carries
  <2> QED
    BY <1>1, <1>2, <1>3, <2>1
<1> QED
  BY <1>4, <1>5 DEF ViewAgreement, own

\* n's concatMap is free again, and m was sent
sends(n, m) ==
  /\ job' = [job EXCEPT ![n] = {}]
  /\ retry' = [retry EXCEPT ![n] = retry[n] \cup {m}]
  /\ wire' = wire \cup {m} /\ log' = log \cup {m}
  /\ channel' = channel

\* The messages sent so far and the new one are a chain of unique nonces
LEMMA SendChains ==
  ASSUME IInv, TypeOK', NEW n \in Node, NEW m \in job[n], m.from = n, sends(n, m)
  PROVE  Chained' /\ NonceUnique'
<1>1. log' = log \cup {m}
  BY DEF sends
<1>2. Chained'
  BY <1>1, SignedIsNext DEF Chained, IInv
<1>3. \A k \in log : k.from = n => k.nonce < m.nonce /\ k.nonce \in Nat /\ m.nonce \in Nat
  <2>1. TypeOK /\ m \in Envelope /\ \A k \in log : k \in Envelope
    BY DEF IInv, TypeOK
  <2> QED
    BY <2>1, SignedIsNext DEF Envelope
<1>4. NonceUnique'
  <2> SUFFICES ASSUME ~CloseFails,
                      NEW m1 \in log', NEW m2 \in log', m1.from = m2.from, m1.nonce = m2.nonce
               PROVE  m1 = m2
    BY DEF NonceUnique
  <2>1. CASE m1 \in log /\ m2 \in log
    BY <2>1 DEF IInv, NonceUnique
  <2>2. CASE m1 \in log /\ m2 = m
    BY <2>2, <1>3
  <2>3. CASE m1 = m /\ m2 \in log
    BY <2>3, <1>3
  <2> QED
    BY <1>1, <2>1, <2>2, <2>3
<1> QED
  BY <1>2, <1>4

\* Sending a message that the own reducer applies
LEMMA SendKeeps ==
  ASSUME IInv, TypeOK', NEW n \in Node, NEW m \in job[n], m.from = n, applies(n, m),
         transferEnvelopeReducer(n, m), sends(n, m)
  PROVE  IInv'
<1> USE DEF IInv
<1> DEFINE e == end[n][n]
           f == afterMessage(e, m)
<1>1. m \in Envelope /\ e \in ChannelEnd
  BY DEF TypeOK
<1>2. /\ end' = [end EXCEPT ![n][n] = f]
      /\ stored' = [stored EXCEPT ![n] = stored[n] \cup {m}]
  BY DEF transferEnvelopeReducer
<1>3. carries(f, m) /\ f.nextNonce = e.nextNonce + 1 /\ f.locked = totalLocked[f.locks]
  BY <1>1, AppliedCarries DEF Pending
<1> HIDE DEF f
<1>4. /\ end'[n][n] = f
      /\ \A k, o \in Node : ~(k = n /\ o = n) => end'[k][o] = end[k][o]
  BY <1>2 DEF TypeOK
<1>5. InLog'
  BY <1>2 DEF InLog, sends, TypeOK
<1>6. Pending'
  <2> SUFFICES ASSUME NEW k \in Node, NEW j \in job'[k]
               PROVE  (/\ balanceProofFollows(end[k][j.from], j)
                       /\ j.from = k => ~has(k, j.t, j.type))'
    BY DEF Pending
  <2>1. k # n /\ j \in job[k] /\ j.from \in Node
    BY DEF sends, TypeOK, Envelope
  <2>2. end'[k][j.from] = end[k][j.from] /\ stored'[k] = stored[k]
    BY <1>2, <1>4, <2>1 DEF TypeOK
  <2> QED
    BY <2>1, <2>2 DEF Pending, has, balanceProofFollows, follows
<1>7. LockSums'
  BY <1>3, <1>4 DEF LockSums, own
<1>8. Fresh'
  <2> SUFFICES ASSUME NEW k \in log'
               PROVE  /\ 1 <= k.nonce
                      /\ \/ k.nonce < end'[k.from][k.from].nextNonce
                         \/ /\ k.nonce = end'[k.from][k.from].nextNonce
                            /\ channel'[k.from] # "open"
                            /\ \A j \in job'[k.from] : j.from # k.from
    BY DEF Fresh, own
  <2>1. k.from \in Node /\ k.nonce \in Nat /\ (k \in log \/ k = m) /\ e.nextNonce \in Nat
    BY <1>1 DEF TypeOK, Envelope, sends, ChannelEnd
  <2>2. CASE k.from = n
    BY <2>1, <2>2, <1>3, <1>4, SignedIsNext DEF Fresh, own
  <2>3. CASE k.from # n
    BY <2>1, <2>3, <1>4 DEF Fresh, own, sends, TypeOK
  <2> QED
    BY <2>2, <2>3
<1>9. Chained' /\ NonceUnique'
  BY SendChains
<1>10. ViewAgreement'
  <2> SUFFICES ASSUME NEW k \in Node, NEW o \in Node
               PROVE  \/ /\ end'[k][o].nextNonce = 1
                         /\ end'[k][o].transferred = 0 /\ end'[k][o].locked = 0
                         /\ end'[k][o].locks = {}
                      \/ \E p \in log' : p.from = o /\ carries(end'[k][o], p)
    BY DEF ViewAgreement, carries
  <2>1. CASE k = n /\ o = n
    BY <2>1, <1>3, <1>4 DEF sends
  <2>2. CASE ~(k = n /\ o = n)
    BY <2>2, <1>4 DEF ViewAgreement, sends
  <2> QED
    BY <2>1, <2>2
<1> QED
  BY <1>5, <1>6, <1>7, <1>8, <1>9, <1>10

\* Sending a message that the own reducer ignores, on a channel that isn't open
LEMMA SendDroppedKeeps ==
  ASSUME IInv, TypeOK', NEW n \in Node, NEW m \in job[n], m.from = n,
         channel[n] # "open", UNCHANGED <<end, stored>>, sends(n, m)
  PROVE  IInv'
<1> USE DEF IInv
<1>1. InLog'
  BY DEF InLog, sends, TypeOK
<1>2. Pending'
  BY DEF Pending, sends, TypeOK, has, balanceProofFollows, follows
<1>3. LockSums'
  BY DEF LockSums, own
<1>4. Fresh'
  <2> SUFFICES ASSUME NEW k \in log'
               PROVE  /\ 1 <= k.nonce
                      /\ \/ k.nonce < own(k.from).nextNonce
                         \/ /\ k.nonce = own(k.from).nextNonce
                            /\ channel[k.from] # "open"
                            /\ \A j \in job'[k.from] : j.from # k.from
    BY DEF Fresh, own, sends
  <2>1. k.from \in Node /\ (k \in log \/ k = m)
    BY DEF TypeOK, Envelope, sends
  <2>2. \A j \in job'[k.from] : j \in job[k.from]
    BY <2>1 DEF sends, TypeOK
  <2>3. CASE k \in log
    BY <2>1, <2>2, <2>3 DEF Fresh
  <2>4. CASE k = m
    BY <2>1, <2>4, SignedIsNext DEF sends, TypeOK
  <2> QED
    BY <2>1, <2>3, <2>4
<1>5. Chained' /\ NonceUnique'
  BY SendChains
<1>6. ViewAgreement'
  BY DEF ViewAgreement, sends, carries
<1> QED
  BY <1>1, <1>2, <1>3, <1>4, <1>5, <1>6

-----------------------------------------------------------------------------
(***************************************************************************)
(* Steps that apply a message of the partner                               *)
(***************************************************************************)

\* Applying a message of the partner keeps the invariant
LEMMA AcknowledgeKeeps ==
  ASSUME IInv, TypeOK', NEW n \in Node, NEW m \in job[n], m.from = Peer[n], applies(n, m),
         transferEnvelopeReducer(n, m), job' = [job EXCEPT ![n] = {}],
         UNCHANGED <<channel, retry, wire, log>>
  PROVE  IInv'
<1> USE DEF IInv
<1> DEFINE o == Peer[n]
           f == afterMessage(end[n][o], m)
<1>1. o \in Node /\ o # n /\ m \in Envelope /\ end[n][o] \in ChannelEnd /\ m \in log
  <2>1. o \in Node /\ o # n
    BY PeerAssumption
  <2>2. m \in Envelope /\ end[n][o] \in ChannelEnd
    BY <2>1 DEF TypeOK
  <2>3. m \in log
    BY <2>1 DEF InLog
  <2> QED
    BY <2>1, <2>2, <2>3
<1>2. /\ end' = [end EXCEPT ![n][o] = f]
      /\ stored' = [stored EXCEPT ![n] = stored[n] \cup {m}]
  BY DEF transferEnvelopeReducer
<1>3. carries(f, m)
  BY <1>1, AppliedCarries DEF Pending
<1> HIDE DEF f
<1>4. /\ end'[n][o] = f
      /\ \A k, p \in Node : ~(k = n /\ p = o) => end'[k][p] = end[k][p]
  BY <1>1, <1>2 DEF TypeOK
<1>5. InLog'
  BY <1>1, <1>2 DEF InLog, TypeOK
<1>6. Pending'
  <2> SUFFICES ASSUME NEW k \in Node, NEW j \in job'[k]
               PROVE  (/\ balanceProofFollows(end[k][j.from], j)
                       /\ j.from = k => ~has(k, j.t, j.type))'
    BY DEF Pending
  <2>1. k # n /\ j \in job[k] /\ j.from \in Node
    BY DEF TypeOK, Envelope
  <2>2. end'[k][j.from] = end[k][j.from] /\ stored'[k] = stored[k]
    BY <1>2, <1>4, <2>1 DEF TypeOK
  <2> QED
    BY <2>1, <2>2 DEF Pending, has, balanceProofFollows, follows
<1>7. \A k \in Node : own(k)' = own(k)
  BY <1>1, <1>4 DEF own
<1>8. LockSums'
  BY <1>7 DEF LockSums
<1>9. Fresh'
  <2> SUFFICES ASSUME NEW k \in log
               PROVE  /\ 1 <= k.nonce
                      /\ \/ k.nonce < own(k.from)'.nextNonce
                         \/ /\ k.nonce = own(k.from)'.nextNonce
                            /\ channel[k.from] # "open"
                            /\ \A j \in job'[k.from] : j.from # k.from
    BY DEF Fresh
  <2>1. k.from \in Node
    BY DEF TypeOK, Envelope
  <2>2. \A j \in job'[k.from] : j \in job[k.from]
    BY <2>1 DEF TypeOK
  <2> QED
    BY <2>1, <2>2, <1>7 DEF Fresh
<1>10. Chained' /\ NonceUnique'
  BY DEF Chained, NonceUnique
<1>11. ViewAgreement'
  <2> SUFFICES ASSUME NEW k \in Node, NEW p \in Node
               PROVE  \/ /\ end'[k][p].nextNonce = 1
                         /\ end'[k][p].transferred = 0 /\ end'[k][p].locked = 0
                         /\ end'[k][p].locks = {}
                      \/ \E q \in log : q.from = p /\ carries(end'[k][p], q)
    BY DEF ViewAgreement, carries
  <2>1. CASE k = n /\ p = o
    BY <2>1, <1>1, <1>3, <1>4
  <2>2. CASE ~(k = n /\ p = o)
    BY <2>2, <1>4 DEF ViewAgreement
  <2> QED
    BY <2>1, <2>2
<1> QED
  BY <1>5, <1>6, <1>8, <1>9, <1>10, <1>11

-----------------------------------------------------------------------------
(***************************************************************************)
(* The actions                                                             *)
(***************************************************************************)

\* A step that leaves both ends, the messages and the log alone, and of the
\* concatMap at most frees it, is quiet
LEMMA StillQuiet ==
  ASSUME IInv, UNCHANGED <<end, stored, log>>, wire' \subseteq log,
         \A n \in Node : /\ retry'[n] \subseteq log
                         /\ job'[n] \subseteq job[n]
                         /\ channel'[n] = "open" => channel[n] = "open"
  PROVE  quiet
BY DEF quiet, keepsBalance

\* A client that stops keeps the invariant
LEMMA StopQuiet ==
  ASSUME IInv, NEW n \in Node, stop(n), UNCHANGED <<channel, end, stored, log, wire>>
  PROVE  quiet
BY DEF stop, quiet, keepsBalance, IInv, InLog, TypeOK

\* A request that is dropped, or signed when its guards allow it
LEMMA SignKeeps ==
  ASSUME IInv, TypeOK', NEW n \in Node, NEW t \in Transfer, NEW type \in EnvelopeType,
         NEW allowed \in BOOLEAN,
         allowed => /\ channel[n] = "open" /\ ~has(n, t, type)
                    /\ type # "LockedTransfer" => t \in own(n).locks,
         idle(n), sign(n, allowed, type, t)
  PROVE  IInv'
<1>1. CASE allowed
  <2>1. fillsJob(n, compose(n, type, t))
    BY <1>1 DEF sign, fillsJob, idle, store, network
  <2> QED
    BY <1>1, <2>1, ComposeKeeps
<1>2. CASE ~allowed
  <2>1. job' = [job EXCEPT ![n] = {}]
    BY <1>2 DEF sign
  <2>2. UNCHANGED <<channel, end, stored, retry, wire, log>>
    BY DEF sign, store, network
  <2>3. quiet
    BY <2>1, <2>2 DEF quiet, keepsBalance, IInv, InLog, TypeOK
  <2> QED
    BY <2>3, QuietKeeps
<1> QED
  BY <1>1, <1>2

\* A message that is emitted again
LEMMA ResendKeeps ==
  ASSUME IInv, TypeOK', NEW n \in Node, NEW m \in stored[n], NEW allowed \in BOOLEAN,
         idle(n), resend(n, allowed, m)
  PROVE  IInv'
<1>1. UNCHANGED <<channel, end, stored>> /\ m \in log
  BY DEF resend, store, IInv, InLog
<1> DEFINE again == allowed /\ ~(inMemory(n, m.t) /\ m \in processed[n])
<1>2. CASE ~again
  <2>1. UNCHANGED <<job, retry, wire, log>>
    BY <1>2 DEF resend, network
  <2> QED
    BY <1>1, <2>1, QuietKeeps DEF quiet, keepsBalance, IInv, InLog
<1>3. CASE stop(n) /\ UNCHANGED network
  BY <1>1, <1>3, StopQuiet, QuietKeeps DEF network
<1>4. CASE \E S \in SUBSET {m} :
              /\ job' = [job EXCEPT ![n] = {}] /\ retry' = [retry EXCEPT ![n] = @ \cup S]
              /\ wire' = wire \cup S /\ log' = log \cup S
  <2>1. log' = log /\ wire' \subseteq log
    BY <1>1, <1>4 DEF IInv, InLog
  <2>2. \A k \in Node : retry'[k] \subseteq log /\ job'[k] \subseteq job[k]
    BY <1>1, <1>4 DEF IInv, InLog, TypeOK
  <2> QED
    BY <1>1, <2>1, <2>2, StillQuiet, QuietKeeps
<1>5. CASE again
  <2>1. emit(n, m, Tail(queue[n]))
    BY <1>5 DEF resend
  <2> QED
    BY <1>3, <1>4, <2>1 DEF emit
<1> QED
  BY <1>2, <1>5

\* The concatMap takes a request
LEMMA TakeKeeps ==
  ASSUME IInv, TypeOK', NEW n \in Node, TakeNext(n)
  PROVE  IInv'
<1> PICK t \in Transfer :
       sendTransferSigned(n, t) \/ sendTransferUnlocked(n, t) \/ sendTransferExpired(n, t)
  BY DEF TakeNext
<1>1. CASE sendTransferSigned(n, t)
  BY <1>1, SignKeeps DEF sendTransferSigned, takes, known, EnvelopeType
<1>2. CASE sendTransferUnlocked(n, t)
  <2>1. idle(n) /\ unlockable(n, t) \in BOOLEAN /\ (unlockable(n, t) => channel[n] = "open")
    BY <1>2 DEF sendTransferUnlocked, takes, unlockable
  <2>2. CASE ~has(n, t, "Unlock") /\ sign(n, unlockable(n, t) /\ t \in own(n).locks, "Unlock", t)
    BY <2>1, <2>2, SignKeeps DEF EnvelopeType
  <2>3. CASE \E m \in stored[n] : resend(n, unlockable(n, t), m)
    BY <2>1, <2>3, ResendKeeps
  <2> QED
    BY <1>2, <2>2, <2>3 DEF sendTransferUnlocked
<1>3. CASE sendTransferExpired(n, t)
  <2>1. idle(n)
    BY <1>3 DEF sendTransferExpired, takes
  <2>2. CASE /\ ~has(n, t, "LockExpired")
             /\ sign(n, /\ channel[n] = "open" /\ t \in past[n]
                        /\ t \in own(n).locks /\ ~has(n, t, "Unlock"), "LockExpired", t)
    BY <2>1, <2>2, SignKeeps DEF EnvelopeType
  <2>3. CASE \E m \in stored[n] : resend(n, channel[n] = "open", m)
    BY <2>1, <2>3, ResendKeeps
  <2> QED
    BY <1>3, <2>2, <2>3 DEF sendTransferExpired
<1> QED
  BY <1>1, <1>2, <1>3

\* A signed message is emitted: an open channel applies it
LEMMA EmitKeeps ==
  ASSUME IInv, TypeOK', NEW n \in Node, NEW m \in job[n], m.from = n,
         transferEnvelopeReducer(n, m), emit(n, m, queue[n]), channel' = channel
  PROVE  IInv'
<1> DEFINE kept == inMemory(n, m.t) \/ (m.type = "LockedTransfer" /\ applies(n, m))
<1>1. m.nonce = end[n][m.from].nextNonce /\ ~has(n, m.t, m.type)
  BY DEF IInv, Pending, balanceProofFollows
<1>2. CASE kept /\ channel[n] # "closed"
  <2>1. sends(n, m)
    BY <1>2 DEF emit, sends
  <2>2. CASE applies(n, m)
    BY <2>1, <2>2, SendKeeps
  <2>3. CASE ~applies(n, m)
    <3>1. channel[n] # "open"
      BY <1>1, <1>2, <2>3 DEF applies, inMemory, known
    <3>2. UNCHANGED <<end, stored>>
      BY <2>3 DEF transferEnvelopeReducer
    <3> QED
      BY <2>1, <3>1, <3>2, SendDroppedKeeps
  <2> QED
    BY <2>2, <2>3
<1>3. CASE ~kept
  <2>1. ~applies(n, m)
    BY <1>3 DEF applies
  <2>2. UNCHANGED <<end, stored>> /\ stop(n) /\ UNCHANGED network
    BY <1>3, <2>1 DEF transferEnvelopeReducer, emit
  <2> QED
    BY <2>2, StopQuiet, QuietKeeps DEF network
<1>4. CASE kept /\ channel[n] = "closed"
  <2>1. UNCHANGED <<end, stored>>
    BY <1>4 DEF transferEnvelopeReducer, applies
  <2>2. job' = [job EXCEPT ![n] = {}] /\ UNCHANGED <<retry, wire, log>>
    BY <1>4 DEF emit, IInv, TypeOK
  <2>3. quiet
    BY <2>1, <2>2 DEF quiet, keepsBalance, IInv, InLog, TypeOK
  <2> QED
    BY <2>3, QuietKeeps
<1> QED
  BY <1>2, <1>3, <1>4

\* What the concatMap was busy with is signed
LEMMA EmitNextKeeps ==
  ASSUME IInv, TypeOK', NEW n \in Node, EmitNext(n)
  PROVE  IInv'
<1> PICK m \in job[n] :
       \/ transferSigned(n, m) \/ transferUnlockSuccess(n, m) \/ transferExpireSuccess(n, m)
       \/ acknowledge(n, m)
  BY DEF EmitNext
<1>1. CASE transferSigned(n, m)
  BY <1>1, EmitKeeps DEF transferSigned, signed
<1>2. CASE transferUnlockSuccess(n, m)
  <2>1. CASE unlockable(n, m.t)
    BY <1>2, <2>1, EmitKeeps DEF transferUnlockSuccess, signed
  <2>2. CASE ~unlockable(n, m.t)
    <3>1. /\ job' = [job EXCEPT ![n] = {}]
          /\ UNCHANGED <<channel, end, stored, retry, wire, log>>
      BY <1>2, <2>2 DEF transferUnlockSuccess, network
    <3>2. quiet
      BY <3>1 DEF quiet, keepsBalance, IInv, InLog, TypeOK
    <3> QED
      BY <3>2, QuietKeeps
  <2> QED
    BY <2>1, <2>2
<1>3. CASE transferExpireSuccess(n, m)
  BY <1>3, EmitKeeps DEF transferExpireSuccess, signed
<1>4. CASE acknowledge(n, m)
  <2>1. m.from = Peer[n] /\ transferEnvelopeReducer(n, m) /\ channel' = channel
    BY <1>4 DEF acknowledge
  <2>2. CASE applies(n, m)
    BY <1>4, <2>1, <2>2, AcknowledgeKeeps DEF acknowledge
  <2>3. CASE ~applies(n, m)
    <3>1. UNCHANGED <<end, stored>>
      BY <2>1, <2>3 DEF transferEnvelopeReducer
    <3>2. CASE known(n, m.t)
      <4>1. job' = [job EXCEPT ![n] = {}] /\ UNCHANGED <<retry, wire, log>>
        BY <1>4, <3>2 DEF acknowledge
      <4>2. quiet
        BY <2>1, <3>1, <4>1 DEF quiet, keepsBalance, IInv, InLog, TypeOK
      <4> QED
        BY <4>2, QuietKeeps
    <3>3. CASE ~known(n, m.t)
      <4>1. stop(n) /\ UNCHANGED network
        BY <1>4, <2>3, <3>3 DEF acknowledge
      <4> QED
        BY <2>1, <3>1, <4>1, StopQuiet, QuietKeeps DEF network
    <3> QED
      BY <3>2, <3>3
  <2> QED
    BY <2>2, <2>3
<1> QED
  BY <1>1, <1>2, <1>3, <1>4

\* A new message is validated
LEMMA ReceiveKeeps ==
  ASSUME IInv, TypeOK', NEW n \in Node, ReceiveNext(n)
  PROVE  IInv'
<1> PICK m \in wire :
       \/ receiveTransferSigned(n, m) \/ receiveTransferUnlocked(n, m)
       \/ receiveTransferExpired(n, m)
  BY DEF ReceiveNext
<1>1. idle(n) /\ m.from = Peer[n] /\ accept(n, m)
  BY DEF receiveTransferSigned, receiveTransferUnlocked, receiveTransferExpired, delivered
<1>2. balanceProofFollows(partner(n), m) /\ fillsJob(n, m)
  BY <1>1 DEF accept, idle, fillsJob, store, network
<1> QED
  BY <1>1, <1>2, AcceptKeeps

-----------------------------------------------------------------------------
(***************************************************************************)
(* The actions outside the concatMap are quiet                             *)
(***************************************************************************)

\* What leaves everything the invariant speaks of alone is quiet
LEMMA UnchangedQuiet ==
  ASSUME IInv, UNCHANGED <<channel, end, stored, job, retry, wire, log>>
  PROVE  quiet
BY DEF quiet, keepsBalance, IInv, InLog

\* A step that changes one copy of one end, but not its balance proof
LEMMA OneEndKept ==
  ASSUME TypeOK, NEW n \in Node, NEW p \in Node, NEW f,
         end' = [end EXCEPT ![n][p] = f],
         f.nextNonce = end[n][p].nextNonce, f.transferred = end[n][p].transferred,
         f.locked = end[n][p].locked, f.locks = end[n][p].locks
  PROVE  \A k, o \in Node : keepsBalance(k, o)
<1> TAKE k, o \in Node
<1>1. CASE k = n /\ o = p
  BY <1>1 DEF keepsBalance, TypeOK
<1>2. CASE ~(k = n /\ o = p)
  BY <1>2 DEF keepsBalance, TypeOK
<1> QED
  BY <1>1, <1>2

\* The steps of one transfer
LEMMA TransferQuiet ==
  ASSUME IInv, NEW n \in Node, NEW t \in Transfer, TransferNext(n, t)
  PROVE  quiet
<1>1. CASE resolveTransfer(n, t) \/ transferSecretRevealed(n, t) \/ transferAutoExpire(n, t)
  BY <1>1, UnchangedQuiet
  DEF resolveTransfer, transferSecretRevealed, transferAutoExpire, enqueue, store, network
<1>2. CASE transferSecretReveal(n, t) \/ retrySecretReveal(n, t) \/ expires(n, t)
  BY <1>2, UnchangedQuiet
  DEF transferSecretReveal, retrySecretReveal, expires, store, epics, network
<1>3. CASE transferClear(n, t)
  <2>1. CASE stop(n)
    BY <1>3, <2>1, StopQuiet DEF transferClear, network
  <2>2. CASE UNCHANGED <<queue, job, retry, revealing, closing, up>>
    BY <1>3, <2>2, UnchangedQuiet DEF transferClear, network
  <2> QED
    BY <1>3, <2>1, <2>2 DEF transferClear
<1>4. CASE transferSecretRegistered(n, t)
  <2>1. UNCHANGED <<channel, stored, job, retry, wire, log>>
    BY <1>4 DEF transferSecretRegistered, epics, network
  <2> DEFINE p == Payer[t]
             e == end[n][p]
             f == [e EXCEPT !.registered = e.registered \cup ({t} \cap e.locks)]
  <2>2. p \in Node /\ e \in ChannelEnd /\ end' = [end EXCEPT ![n][p] = f]
    BY <1>4, TransferAssumption DEF transferSecretRegistered, IInv, TypeOK
  <2>3. \A k, o \in Node : keepsBalance(k, o)
    BY <2>2, OneEndKept DEF ChannelEnd, IInv
  <2> QED
    BY <2>1, <2>3 DEF quiet, IInv, InLog
<1> QED
  BY <1>1, <1>2, <1>3, <1>4 DEF TransferNext

\* The other steps of one node
LEMMA NodeQuiet ==
  ASSUME IInv, ~CloseFails, NEW n \in Node, NodeNext(n)
  PROVE  quiet
<1>1. CASE \E m \in wire : receiveAgain(n, m)
  BY <1>1, UnchangedQuiet DEF receiveAgain, store, epics
<1>2. CASE \E m \in acks : transferProcessedReceived(n, m)
  BY <1>2, UnchangedQuiet DEF transferProcessedReceived, epics, network
<1>3. CASE \E m \in retry[n] : retryMessage(n, m)
  <2> PICK m \in retry[n] : retryMessage(n, m)
    BY <1>3
  <2>1. wire' = wire \cup {m} /\ UNCHANGED <<channel, end, stored, job, retry, log>>
    BY DEF retryMessage, store, epics
  <2>2. wire' \subseteq log
    BY <2>1 DEF IInv, InLog
  <2> QED
    BY <2>1, <2>2 DEF quiet, keepsBalance, IInv, InLog
<1>4. CASE signatureFails(n)
  <2>1. /\ job' = [job EXCEPT ![n] = {}]
        /\ UNCHANGED <<channel, end, stored, retry, wire, log>>
    BY <1>4 DEF signatureFails, store, network
  <2> QED
    BY <2>1 DEF quiet, keepsBalance, IInv, InLog, TypeOK
<1>5. CASE crash(n)
  BY <1>5, StopQuiet DEF crash, store, network
<1>6. CASE restart(n)
  <2>1. /\ UNCHANGED <<channel, end, stored, job, log>>
        /\ retry' = [retry EXCEPT ![n] = pendingEnvelopes(n)]
        /\ wire' = wire \cup pendingEnvelopes(n)
    BY <1>6 DEF restart, store
  <2>2. pendingEnvelopes(n) \subseteq log
    BY DEF pendingEnvelopes, IInv, InLog
  <2> QED
    BY <2>1, <2>2 DEF quiet, keepsBalance, IInv, InLog, TypeOK
<1>7. CASE \E m \in Node : channelDeposited(n, m)
  <2> PICK m \in Node : channelDeposited(n, m)
    BY <1>7
  <2> DEFINE e == end[n][m]
             f == [e EXCEPT !.deposit = Deposit[m]]
  <2>1. /\ end' = [end EXCEPT ![n][m] = f]
        /\ UNCHANGED <<channel, stored, job, retry, wire, log>>
    BY DEF channelDeposited, epics, network
  <2>2. e \in ChannelEnd
    BY DEF IInv, TypeOK
  <2>3. \A k, o \in Node : keepsBalance(k, o)
    BY <2>1, <2>2, OneEndKept DEF ChannelEnd, IInv
  <2> QED
    BY <2>1, <2>3 DEF quiet, IInv, InLog
<1>8. CASE channelCloseRequest(n) \/ channelCloseSuccess(n)
  <2>1. UNCHANGED <<end, stored, job, retry, wire, log>>
    BY <1>8 DEF channelCloseRequest, channelCloseSuccess, network
  <2>2. \A k \in Node : channel'[k] = "open" => channel[k] = "open"
    BY <1>8 DEF channelCloseRequest, channelCloseSuccess, IInv, TypeOK
  <2> QED
    BY <2>1, <2>2 DEF quiet, keepsBalance, IInv, InLog
<1>9. CASE closeChannel(n)
  BY <1>9, UnchangedQuiet DEF closeChannel, store, network
<1> QED
  BY <1>1, <1>2, <1>3, <1>4, <1>5, <1>6, <1>7, <1>8, <1>9 DEF NodeNext, channelCloseFailure

-----------------------------------------------------------------------------
(***************************************************************************)
(* The invariant                                                           *)
(***************************************************************************)

LEMMA InitInv == Init => IInv
<1> SUFFICES ASSUME Init PROVE IInv
  OBVIOUS
<1>1. TypeOK
  BY InitType
<1>2. \A n, o \in Node : end[n][o] = emptyChannelEnd
  BY DEF Init
<1>3. /\ emptyChannelEnd.nextNonce = 1 /\ emptyChannelEnd.transferred = 0
      /\ emptyChannelEnd.locked = 0 /\ emptyChannelEnd.locks = {}
  BY DEF emptyChannelEnd
<1>4. ViewAgreement
  BY <1>2, <1>3 DEF ViewAgreement
<1>5. LockSums
  BY <1>2, <1>3, TotalLockedAssumption DEF LockSums, own
<1>6. InLog /\ Pending /\ Fresh /\ Chained /\ NonceUnique
  BY DEF Init, InLog, Pending, Fresh, Chained, NonceUnique
<1> QED
  BY <1>1, <1>4, <1>5, <1>6 DEF IInv

LEMMA NextInv ==
  ASSUME ~CloseFails, IInv, [Next]_vars
  PROVE  IInv'
<1>1. TypeOK'
  BY NextType DEF IInv
<1>2. CASE \E n \in Node : \E t \in Transfer : TransferNext(n, t)
  BY <1>1, <1>2, TransferQuiet, QuietKeeps
<1>3. CASE \E n \in Node : TakeNext(n)
  BY <1>1, <1>3, TakeKeeps
<1>4. CASE \E n \in Node : EmitNext(n)
  BY <1>1, <1>4, EmitNextKeeps
<1>5. CASE \E n \in Node : ReceiveNext(n)
  BY <1>1, <1>5, ReceiveKeeps
<1>6. CASE \E n \in Node : NodeNext(n)
  BY <1>1, <1>6, NodeQuiet, QuietKeeps
<1>7. CASE \E t \in Transfer : secretRegistered(t)
  <2>1. UNCHANGED <<channel, end, stored, job, retry, wire, log>>
    BY <1>7 DEF secretRegistered, store, epics, network
  <2> QED
    BY <1>1, <2>1, UnchangedQuiet, QuietKeeps
<1>8. CASE lose
  <2>1. UNCHANGED <<channel, end, stored, job, retry, log>> /\ wire' \subseteq wire
    BY <1>8 DEF lose, store, epics
  <2> QED
    BY <1>1, <2>1, StillQuiet, QuietKeeps DEF IInv, InLog
<1>9. CASE UNCHANGED vars
  <2>1. UNCHANGED <<channel, end, stored, job, retry, wire, log>>
    BY <1>9 DEF vars
  <2> QED
    BY <1>1, <2>1, UnchangedQuiet, QuietKeeps
<1> QED
  BY <1>2, <1>3, <1>4, <1>5, <1>6, <1>7, <1>8, <1>9 DEF Next

\* Where closing a channel is final, the invariant holds in every reachable state
THEOREM Invariant ==
  ASSUME ~CloseFails
  PROVE  Spec => []IInv
<1>1. Init => IInv
  BY InitInv
<1>2. IInv /\ [Next]_vars => IInv'
  BY NextInv
<1> QED
  BY <1>1, <1>2, PTL DEF Spec

-----------------------------------------------------------------------------
(***************************************************************************)
(* What the invariant means to the users                                   *)
(***************************************************************************)

\* No two messages a node ever hands to its transport share a nonce, whatever it
\* was signing when it closed the channel, crashed or shut down, if no close of the
\* channel fails
THEOREM NoncesAreUnique ==
  ASSUME ~CloseFails
  PROVE  Spec => []NonceUnique
<1>1. IInv => NonceUnique
  BY DEF IInv
<1> QED
  BY <1>1, Invariant, PTL

\* What a node believes of either end of its channel is always the balance proof
\* of a message that the end's owner signed, for any number of transfers, lost or
\* reordered messages and crashes
THEOREM ViewsAgree ==
  ASSUME ~CloseFails
  PROVE  Spec => []ViewAgreement
<1>1. IInv => ViewAgreement
  BY DEF IInv
<1> QED
  BY <1>1, Invariant, PTL

\* A partner never runs ahead of an open channel: the signer's reducer applies its
\* own message before the transport has it
THEOREM PartnerIsNeverAhead ==
  ASSUME ~CloseFails
  PROVE  Spec => []NeverAhead
<1>1. ASSUME IInv PROVE NeverAhead
  <2> SUFFICES ASSUME NEW n \in Node, channel[Peer[n]] = "open"
               PROVE  ~(partner(n).nextNonce > own(Peer[n]).nextNonce)
    BY DEF NeverAhead
  <2> DEFINE o == Peer[n]
  <2>1. o \in Node
    BY PeerAssumption
  <2>2. \A k \in log : k.nonce \in Nat /\ 1 <= k.nonce
    BY <1>1 DEF IInv, Fresh, TypeOK, Envelope
  <2>3. own(o).nextNonce \in Nat /\ 1 <= own(o).nextNonce
    <3>1. end[o][o] \in ChannelEnd
      BY <1>1, <2>1 DEF IInv, TypeOK
    <3>2. own(o).nextNonce \in Nat
      BY <3>1 DEF ChannelEnd, own
    <3>3. \/ own(o).nextNonce = 1
          \/ \E m \in log : own(o).nextNonce = m.nonce + 1
      BY <1>1, <2>1 DEF IInv, ViewAgreement, carries, own
    <3> QED
      BY <2>2, <3>2, <3>3
  <2>4. CASE partner(n).nextNonce = 1
    BY <2>3, <2>4
  <2>5. CASE \E m \in log : m.from = o /\ carries(partner(n), m)
    <3> PICK m \in log : m.from = o /\ carries(partner(n), m)
      BY <2>5
    <3>1. m.nonce < own(o).nextNonce
      BY <1>1 DEF IInv, Fresh
    <3> QED
      BY <2>2, <2>3, <3>1 DEF carries
  <2> QED
    BY <1>1, <2>1, <2>4, <2>5 DEF IInv, ViewAgreement, partner
<1> QED
  BY <1>1, Invariant, PTL

\* The next message a node is owed passes every balance-proof assertion of the
\* receive handlers: two clients never lock themselves out of their channel
THEOREM NextMessageIsValid ==
  ASSUME ~CloseFails
  PROVE  Spec => []NextMessageValid
<1>1. ASSUME IInv PROVE NextMessageValid
  <2> SUFFICES ASSUME NEW n \in Node, NEW m \in log, m.from = Peer[n],
                      m.nonce = partner(n).nextNonce
               PROVE  follows(partner(n), m)
    BY DEF NextMessageValid, balanceProofFollows
  <2> DEFINE e == partner(n)
  <2>1. \A k \in log : k.nonce \in Nat /\ 1 <= k.nonce
    BY <1>1 DEF IInv, Fresh, TypeOK, Envelope
  <2>2. CASE e.nextNonce = 1 /\ e.transferred = 0 /\ e.locks = {}
    <3>1. follows(emptyChannelEnd, m)
      BY <1>1, <2>1, <2>2 DEF IInv, Chained
    <3> QED
      BY <2>2, <3>1, FollowsSame DEF emptyChannelEnd
  <2>3. CASE \E q \in log : q.from = Peer[n] /\ carries(e, q)
    <3> PICK q \in log : q.from = Peer[n] /\ carries(e, q)
      BY <2>3
    <3>1. m.nonce = q.nonce + 1
      BY DEF carries
    <3>2. PICK p \in log : p.from = m.from /\ m.nonce = p.nonce + 1 /\ follows(p, m)
      BY <1>1, <2>1, <3>1 DEF IInv, Chained
    <3>3. p = q
      BY <1>1, <2>1, <3>1, <3>2 DEF IInv, NonceUnique
    <3> QED
      BY <3>2, <3>3, FollowsSame DEF carries
  <2>4. Peer[n] \in Node
    BY PeerAssumption
  <2> QED
    BY <1>1, <2>2, <2>3, <2>4 DEF IInv, ViewAgreement, partner
<1> QED
  BY <1>1, Invariant, PTL

-----------------------------------------------------------------------------
(***************************************************************************)
(* What a partner owns                                                     *)
(***************************************************************************)

solvent(n) == ~expiredRegistered(n) => Capacity(partner(n), own(n), 0) >= 0

\* Claimable locks count for who receives them only
LEMMA CapacityIs ==
  ASSUME NEW e \in ChannelEnd, NEW o \in ChannelEnd
  PROVE  /\ Capacity(e, o, 0) =
              e.deposit + o.transferred + totalLocked[o.registered] - e.transferred - e.locked
         /\ Capacity(e, o, 0) \in Int
<1>1. /\ e.deposit \in Int /\ e.transferred \in Int /\ e.locked \in Int /\ o.transferred \in Int
      /\ totalLocked[e.registered] \in Int /\ totalLocked[o.registered] \in Int
  BY TotalLockedAssumption DEF ChannelEnd
<1> QED
  BY <1>1 DEF Capacity, TotalWithdrawable, Balance, Unlocked, Locked

\* Adding a lock never makes the sum smaller, and at most adds its amount
LEMMA SumWith ==
  ASSUME NEW S \in SUBSET Transfer, NEW t \in Transfer
  PROVE  /\ totalLocked[S] \in Nat /\ totalLocked[S \cup {t}] \in Nat /\ Amount[t] \in Nat
         /\ totalLocked[S] <= totalLocked[S \cup {t}]
         /\ totalLocked[S \cup {t}] <= totalLocked[S] + Amount[t]
<1>1. totalLocked[S] \in Nat /\ totalLocked[S \cup {t}] \in Nat /\ Amount[t] \in Nat
  BY TotalLockedAssumption, TransferAssumption
<1>2. CASE t \in S
  <2>1. S \cup {t} = S
    BY <1>2
  <2> QED
    BY <1>1, <2>1
<1>3. CASE t \notin S
  <2>1. totalLocked[S \cup {t}] = totalLocked[S] + Amount[t]
    BY <1>3, TotalLockedAssumption
  <2> QED
    BY <1>1, <2>1
<1> QED
  BY <1>2, <1>3

LEMMA EndsAreTyped ==
  ASSUME TypeOK, NEW n \in Node
  PROVE  own(n) \in ChannelEnd /\ partner(n) \in ChannelEnd /\ Peer[n] \in Node /\ Peer[n] # n
BY PeerAssumption DEF TypeOK, own, partner

\* The node that a step is not about
LEMMA BackedElsewhere ==
  ASSUME NEW k, backed(k), solvent(k), end'[k] = end[k], stored'[k] = stored[k], seen'[k] = seen[k],
         job'[k] = job[k]
  PROVE  backed(k)' /\ solvent(k)'
BY DEF backed, solvent, own, partner, expiredRegistered, has

\* What n knows more of favours the partner
LEMMA BackedMore ==
  ASSUME TypeOK, TypeOK', NEW n \in Node, backed(n), solvent(n),
         keepsBalance(n, n), keepsBalance(n, Peer[n]), partner(n).deposit <= partner(n)'.deposit,
         totalLocked[own(n).registered] <= totalLocked[own(n)'.registered],
         own(n)'.registered \subseteq seen'[n] \cap own(n).locks,
         seen[n] \subseteq seen'[n], stored[n] \subseteq stored'[n], job'[n] \subseteq job[n]
  PROVE  backed(n)' /\ solvent(n)'
<1> DEFINE e == partner(n)
           o == own(n)
<1>1. expiredRegistered(n) => expiredRegistered(n)'
  BY DEF expiredRegistered, has
<1>2. e \in ChannelEnd /\ o \in ChannelEnd /\ e' \in ChannelEnd /\ o' \in ChannelEnd
  BY PeerAssumption DEF TypeOK, own, partner
<1>3. /\ e'.transferred = e.transferred /\ e'.locked = e.locked /\ e'.locks = e.locks
      /\ o'.transferred = o.transferred /\ o'.locks = o.locks
  BY DEF keepsBalance, own, partner
<1>4. /\ e.deposit \in Int /\ e'.deposit \in Int /\ e.transferred \in Int /\ e.locked \in Int
      /\ o.transferred \in Int /\ totalLocked[o.registered] \in Int /\ totalLocked[o'.registered] \in Int
  BY <1>2, TotalLockedAssumption DEF ChannelEnd
<1>5. /\ Capacity(e, o, 0) = e.deposit + o.transferred + totalLocked[o.registered] - e.transferred - e.locked
      /\ Capacity(e', o', 0) =
           e'.deposit + o'.transferred + totalLocked[o'.registered] - e'.transferred - e'.locked
  BY <1>2, CapacityIs
<1>6. /\ Capacity(e, o, 0) <= Capacity(e', o', 0)
      /\ Capacity(e, o, 0) \in Int /\ Capacity(e', o', 0) \in Int
  BY <1>3, <1>4, <1>5
<1>7. Capacity(e, o, 0)' = Capacity(e', o', 0)
  BY DEF Capacity, TotalWithdrawable, Balance, Unlocked, Locked
<1>8. solvent(n)'
  BY <1>1, <1>6, <1>7 DEF solvent
<1>9. ASSUME NEW m \in job'[n]
      PROVE  /\ m.from = n =>
                  m.transferred = o'.transferred + (IF m.type = "Unlock" THEN Amount[m.t] ELSE 0)
             /\ m.from = Peer[n] =>
                  /\ follows(e', m)
                  /\ m.type = "LockedTransfer" =>
                       expiredRegistered(n)' \/ Amount[m.t] <= Capacity(e', o', 0)
  <2>1. m \in job[n] /\ Amount[m.t] \in Int
    BY TransferAssumption DEF TypeOK, Envelope
  <2>2. follows(e, m) <=> follows(e', m)
    BY <1>3, FollowsSame
  <2> QED
    BY <1>1, <1>3, <1>6, <2>1, <2>2 DEF backed
<1> QED
  BY <1>3, <1>7, <1>8, <1>9 DEF backed, follows, locksAfter

\* The amounts of an end once a message is applied
LEMMA AppliedAmounts ==
  ASSUME NEW e \in ChannelEnd, NEW m \in Envelope
  PROVE  LET f == afterMessage(e, m)
         IN /\ f.deposit = e.deposit /\ f.transferred = m.transferred /\ f.locked = m.locked
            /\ f.locks = locksAfter(e, m.type, m.t)
            /\ f.registered = e.registered \cap locksAfter(e, m.type, m.t)
<1> DEFINE locks == locksAfter(e, m.type, m.t)
           f == [e EXCEPT !.locks = locks, !.registered = e.registered \cap locks,
                          !.transferred = m.transferred, !.locked = m.locked,
                          !.nextNonce = e.nextNonce + 1]
<1>1. afterMessage(e, m) = f
  BY DEF afterMessage
<1> HIDE DEF locks
<1>2. /\ f.deposit = e.deposit /\ f.transferred = m.transferred /\ f.locked = m.locked
      /\ f.locks = locks /\ f.registered = e.registered \cap locks
  BY DEF ChannelEnd
<1> QED
  BY <1>1, <1>2 DEF locks

\* A message of the partner, valid and within its capacity, leaves it solvent
LEMMA PartnerPays ==
  ASSUME NEW e \in ChannelEnd, NEW o \in ChannelEnd, NEW m \in Envelope, follows(e, m),
         e.locked = totalLocked[e.locks], NEW exempt \in BOOLEAN,
         m.type = "LockedTransfer" => exempt \/ Amount[m.t] <= Capacity(e, o, 0),
         ~exempt => Capacity(e, o, 0) >= 0
  PROVE  /\ afterMessage(e, m).locked = totalLocked[afterMessage(e, m).locks]
         /\ ~exempt => Capacity(afterMessage(e, m), o, 0) >= 0
<1> DEFINE f == afterMessage(e, m)
<1>1. /\ f \in ChannelEnd /\ f.deposit = e.deposit /\ f.transferred = m.transferred /\ f.locked = m.locked
      /\ f.locks = locksAfter(e, m.type, m.t)
  BY AfterMessageType, AppliedAmounts
<1>2. /\ m.t \in Transfer /\ m.type \in EnvelopeType /\ m.locks = f.locks /\ m.locked = totalLocked[m.locks]
      /\ m.transferred = e.transferred + (IF m.type = "Unlock" THEN Amount[m.t] ELSE 0)
      /\ m.type # "LockedTransfer" => m.t \in e.locks
  BY <1>1 DEF Envelope, follows
<1> DEFINE sum == totalLocked[o.registered]
<1>3. /\ e.locks \in SUBSET Transfer /\ e.deposit \in Int /\ e.transferred \in Int /\ e.locked \in Int
      /\ o.transferred \in Int /\ sum \in Int
      /\ f.transferred \in Int /\ f.locked \in Int /\ Amount[m.t] \in Nat
  BY <1>1, <1>2, TotalLockedAssumption, TransferAssumption DEF ChannelEnd
<1>4. /\ Capacity(e, o, 0) = e.deposit + o.transferred + sum - e.transferred - e.locked
      /\ Capacity(f, o, 0) = e.deposit + o.transferred + sum - f.transferred - f.locked
  BY <1>1, CapacityIs
<1>5. CASE m.type = "LockedTransfer"
  <2>1. f.transferred = e.transferred /\ f.locked = totalLocked[e.locks \cup {m.t}]
    BY <1>1, <1>2, <1>3, <1>5 DEF locksAfter
  <2>2. f.locked <= e.locked + Amount[m.t]
    BY <1>2, <1>3, <2>1, SumWith
  <2> HIDE DEF f, sum
  <2>3. ~exempt => Capacity(f, o, 0) >= 0
    BY <1>3, <1>4, <1>5, <2>1, <2>2
  <2> QED
    BY <1>1, <1>2, <2>3 DEF f
<1>6. CASE m.type # "LockedTransfer"
  <2>1. f.locked = totalLocked[e.locks \ {m.t}]
    BY <1>1, <1>2, <1>6 DEF locksAfter
  <2>2. f.locked = e.locked - Amount[m.t]
    BY <1>2, <1>3, <1>6, <2>1, SumWithout
  <2>3. f.transferred <= e.transferred + Amount[m.t]
    BY <1>1, <1>2, <1>3
  <2> HIDE DEF f, sum
  <2>4. ~exempt => Capacity(f, o, 0) >= 0
    BY <1>3, <1>4, <2>2, <2>3
  <2> QED
    BY <1>1, <1>2, <2>4 DEF f
<1> QED
  BY <1>5, <1>6

\* An own message favours the partner, unless it expires a lock that was claimable
LEMMA OwnPays ==
  ASSUME NEW e \in ChannelEnd, NEW o \in ChannelEnd, NEW m \in Envelope,
         m.transferred = o.transferred + (IF m.type = "Unlock" THEN Amount[m.t] ELSE 0),
         o.registered \subseteq o.locks, m.type = "LockExpired" => m.t \notin o.registered
  PROVE  Capacity(e, o, 0) <= Capacity(e, afterMessage(o, m), 0)
<1> DEFINE f == afterMessage(o, m)
           sum == totalLocked[o.registered]
           rest == totalLocked[f.registered]
<1>1. /\ f \in ChannelEnd /\ f.transferred = m.transferred
      /\ f.registered = o.registered \cap locksAfter(o, m.type, m.t)
  BY AfterMessageType, AppliedAmounts
<1>2. m.t \in Transfer /\ m.type \in EnvelopeType /\ o.registered \in SUBSET Transfer
  BY DEF Envelope, ChannelEnd
<1>3. /\ e.deposit \in Int /\ e.transferred \in Int /\ e.locked \in Int /\ o.transferred \in Int
      /\ sum \in Int /\ f.transferred \in Int /\ rest \in Int /\ Amount[m.t] \in Nat
  BY <1>1, <1>2, TotalLockedAssumption, TransferAssumption DEF ChannelEnd
<1>4. /\ Capacity(e, o, 0) = e.deposit + o.transferred + sum - e.transferred - e.locked
      /\ Capacity(e, f, 0) = e.deposit + f.transferred + rest - e.transferred - e.locked
  BY <1>1, CapacityIs
<1>5. o.transferred + sum <= f.transferred + rest
  <2>1. CASE m.t \notin o.registered \/ m.type = "LockedTransfer"
    <3>1. f.registered = o.registered
      BY <1>1, <2>1 DEF locksAfter
    <3> QED
      BY <1>1, <1>3, <3>1
  <2>2. CASE m.t \in o.registered /\ m.type # "LockedTransfer"
    <3>1. m.type = "Unlock"
      BY <1>2, <2>2 DEF EnvelopeType
    <3>2. f.registered = o.registered \ {m.t}
      BY <1>1, <2>2 DEF locksAfter
    <3>3. rest = sum - Amount[m.t]
      BY <1>2, <2>2, <3>2, SumWithout
    <3> QED
      BY <1>1, <1>3, <3>1, <3>3
  <2> QED
    BY <2>1, <2>2
<1> HIDE DEF f, sum, rest
<1>6. Capacity(e, o, 0) <= Capacity(e, f, 0)
  BY <1>3, <1>4, <1>5
<1> QED
  BY <1>6 DEF f

\* The message n's concatMap is busy with is applied
LEMMA AppliedBacked ==
  ASSUME SolventInv, TypeOK', NEW n \in Node, NEW m \in job[n], m.from \in {n, Peer[n]}, applies(n, m),
         transferEnvelopeReducer(n, m), job' = [job EXCEPT ![n] = {}], UNCHANGED seen
  PROVE  SolventInv'
<1> DEFINE e == partner(n)
           o == own(n)
<1>1. /\ e \in ChannelEnd /\ o \in ChannelEnd /\ Peer[n] \in Node /\ Peer[n] # n
      /\ m \in Envelope /\ backed(n) /\ solvent(n)
  BY EndsAreTyped DEF SolventInv, TypeOK, PartnerSolvent, solvent
<1>2. /\ end' = [end EXCEPT ![n][m.from] = afterMessage(end[n][m.from], m)]
      /\ stored' = [stored EXCEPT ![n] = stored[n] \cup {m}]
  BY DEF transferEnvelopeReducer
<1>3. /\ stored'[n] = stored[n] \cup {m} /\ job'[n] = {} /\ seen'[n] = seen[n]
      /\ \A k \in Node : k # n => end'[k] = end[k] /\ stored'[k] = stored[k] /\ job'[k] = job[k]
      /\ end'[n][m.from] = afterMessage(end[n][m.from], m)
      /\ \A p \in Node : p # m.from => end'[n][p] = end[n][p]
  BY <1>1, <1>2 DEF SolventInv, TypeOK
<1>4. ASSUME NEW k \in Node, k # n PROVE backed(k)' /\ solvent(k)'
  BY <1>3, <1>4, BackedElsewhere DEF SolventInv, PartnerSolvent, solvent
<1>5. expiredRegistered(n) => expiredRegistered(n)'
  BY <1>3 DEF expiredRegistered, has
<1>6. /\ expiredRegistered(n)' \in BOOLEAN /\ expiredRegistered(n) \in BOOLEAN
      /\ \A t \in seen[n] : m.t = t /\ m.type = "LockExpired" => expiredRegistered(n)'
  BY <1>3 DEF expiredRegistered, has
<1>7. backed(n)' /\ solvent(n)'
  <2>1. CASE m.from = Peer[n]
    <3> DEFINE f == afterMessage(e, m)
    <3>1. own(n)' = o /\ partner(n)' = f
      BY <1>1, <1>3, <2>1 DEF own, partner
    <3>2. /\ f.locked = totalLocked[f.locks]
          /\ ~expiredRegistered(n) => Capacity(f, o, 0) >= 0
      BY <1>1, <1>6, <2>1, PartnerPays DEF backed, solvent
    <3>3. Capacity(partner(n), own(n), 0)' = Capacity(f, o, 0)
      BY <3>1 DEF Capacity, TotalWithdrawable, Balance, Unlocked, Locked
    <3> HIDE DEF f, o
    <3>4. backed(n)'
      BY <1>1, <1>3, <3>1, <3>2 DEF backed, o
    <3> QED
      BY <1>5, <3>2, <3>3, <3>4 DEF solvent
  <2>2. CASE m.from = n
    <3> DEFINE f == afterMessage(o, m)
    <3>1. own(n)' = f /\ partner(n)' = e
      BY <1>1, <1>3, <2>2 DEF own, partner
    <3>2. f.registered = o.registered \cap locksAfter(o, m.type, m.t) /\ f.locks = locksAfter(o, m.type, m.t)
          /\ f \in ChannelEnd
      BY <1>1, AppliedAmounts, AfterMessageType
    <3>3. ~expiredRegistered(n)' /\ m.type = "LockExpired" => m.t \notin o.registered
      BY <1>1, <1>6 DEF backed
    <3>4. ASSUME ~expiredRegistered(n)' PROVE Capacity(e, f, 0) >= 0
      <4>1. Capacity(e, o, 0) >= 0
        BY <1>1, <1>5, <3>4 DEF solvent
      <4>2. /\ m.transferred = o.transferred + (IF m.type = "Unlock" THEN Amount[m.t] ELSE 0)
            /\ o.registered \subseteq o.locks
        BY <1>1, <2>2 DEF backed
      <4>3. Capacity(e, o, 0) <= Capacity(e, f, 0)
        BY <1>1, <3>3, <3>4, <4>2, OwnPays
      <4>4. Capacity(e, o, 0) \in Int /\ Capacity(e, f, 0) \in Int
        BY <1>1, <3>2, CapacityIs
      <4> QED
        BY <4>1, <4>3, <4>4
    <3>5. Capacity(partner(n), own(n), 0)' = Capacity(e, f, 0)
      BY <3>1 DEF Capacity, TotalWithdrawable, Balance, Unlocked, Locked
    <3> HIDE DEF f, e
    <3>6. backed(n)'
      BY <1>1, <1>3, <3>1, <3>2 DEF backed, e
    <3> QED
      BY <3>4, <3>5, <3>6 DEF solvent
  <2> QED
    BY <2>1, <2>2
<1> QED
  BY <1>4, <1>7 DEF SolventInv, PartnerSolvent, solvent

\* A step that applies nothing
LEMMA StillBacked ==
  ASSUME SolventInv, TypeOK', UNCHANGED <<end, seen>>,
         \A n \in Node : stored[n] \subseteq stored'[n] /\ job'[n] \subseteq job[n]
  PROVE  SolventInv'
<1> SUFFICES ASSUME NEW n \in Node PROVE backed(n)' /\ solvent(n)'
  BY DEF SolventInv, PartnerSolvent, solvent
<1>1. backed(n) /\ solvent(n)
  BY DEF SolventInv, PartnerSolvent, solvent
<1>2. /\ own(n)' = own(n) /\ partner(n)' = partner(n) /\ Peer[n] \in Node
      /\ own(n) \in ChannelEnd /\ partner(n) \in ChannelEnd
  BY EndsAreTyped DEF own, partner, SolventInv
<1>3. partner(n).deposit <= partner(n)'.deposit
  BY <1>2 DEF ChannelEnd
<1>4. totalLocked[own(n).registered] <= totalLocked[own(n)'.registered]
  BY <1>2, TotalLockedAssumption DEF ChannelEnd
<1>5. own(n)'.registered \subseteq seen'[n] \cap own(n).locks
  BY <1>1, <1>2 DEF backed
<1> QED
  BY <1>1, <1>3, <1>4, <1>5, BackedMore DEF keepsBalance, SolventInv

\* n's concatMap takes m: composed on top of its own end, or accepted from its partner
LEMMA TakenBacked ==
  ASSUME SolventInv, TypeOK', NEW n \in Node, NEW m, job' = [job EXCEPT ![n] = {m}],
         UNCHANGED <<end, stored, seen>>,
         m.from = n =>
           m.transferred = own(n).transferred + (IF m.type = "Unlock" THEN Amount[m.t] ELSE 0),
         m.from = Peer[n] =>
           /\ follows(partner(n), m)
           /\ m.type = "LockedTransfer" => Amount[m.t] <= Capacity(partner(n), own(n), 0)
  PROVE  SolventInv'
<1>1. job'[n] = {m} /\ \A k \in Node : k # n => job'[k] = job[k]
  BY DEF SolventInv, TypeOK
<1>2. ASSUME NEW k \in Node, k # n PROVE backed(k)' /\ solvent(k)'
  BY <1>1, <1>2, BackedElsewhere DEF SolventInv, PartnerSolvent, solvent
<1>3. solvent(n)'
  BY DEF SolventInv, PartnerSolvent, solvent, own, partner, expiredRegistered, has,
     Capacity, TotalWithdrawable, Balance, Unlocked, Locked
<1>4. backed(n)'
  <2> DEFINE e == partner(n)
             o == own(n)
  <2>1. e' = e /\ o' = o /\ expiredRegistered(n)' = expiredRegistered(n)
    BY DEF own, partner, expiredRegistered, has
  <2>2. Capacity(e, o, 0)' = Capacity(e, o, 0)
    BY <2>1 DEF Capacity, TotalWithdrawable, Balance, Unlocked, Locked
  <2>3. follows(e, m)' = follows(e, m)
    BY <2>1 DEF follows, locksAfter
  <2>4. backed(n) /\ seen'[n] = seen[n]
    BY DEF SolventInv
  <2> HIDE DEF e, o
  <2>5. /\ e.locked = totalLocked[e.locks] /\ o.registered \subseteq seen[n] \cap o.locks
    BY <2>4 DEF backed, e, o
  <2> QED
    BY <1>1, <2>1, <2>2, <2>3, <2>4, <2>5 DEF backed, e, o
<1> QED
  BY <1>2, <1>3, <1>4 DEF SolventInv, PartnerSolvent, solvent

LEMMA TakeBacked ==
  ASSUME SolventInv, TypeOK', NEW n \in Node, TakeNext(n)
  PROVE  SolventInv'
<1>1. ASSUME NEW t \in Transfer, NEW type \in EnvelopeType, NEW allowed, sign(n, allowed, type, t)
      PROVE  SolventInv'
  <2>1. UNCHANGED <<end, stored, seen>>
    BY <1>1 DEF sign, store
  <2>2. CASE allowed
    <3> DEFINE m == compose(n, type, t)
    <3>1. job' = [job EXCEPT ![n] = {m}]
      BY <1>1, <2>2 DEF sign
    <3>2. m.from = n /\ Peer[n] # n
          /\ m.transferred = own(n).transferred + (IF m.type = "Unlock" THEN Amount[m.t] ELSE 0)
      BY PeerAssumption DEF compose
    <3> HIDE DEF m
    <3> QED
      BY <2>1, <3>1, <3>2, TakenBacked
  <2>3. CASE ~allowed
    <3>1. job' = [job EXCEPT ![n] = {}]
      BY <1>1, <2>3 DEF sign
    <3>2. \A k \in Node : stored[k] \subseteq stored'[k] /\ job'[k] \subseteq job[k]
      BY <2>1, <3>1 DEF SolventInv, TypeOK
    <3> QED
      BY <2>1, <3>2, StillBacked
  <2> QED
    BY <2>2, <2>3
<1>2. ASSUME NEW m, NEW allowed, resend(n, allowed, m)
      PROVE  SolventInv'
  <2>1. UNCHANGED <<end, stored, seen>>
    BY <1>2 DEF resend, store
  <2>2. job' = job \/ job' = [job EXCEPT ![n] = {}]
    BY <1>2 DEF resend, emit, stop
  <2>3. \A k \in Node : stored[k] \subseteq stored'[k] /\ job'[k] \subseteq job[k]
    BY <2>1, <2>2 DEF SolventInv, TypeOK
  <2> QED
    BY <2>1, <2>3, StillBacked
<1> QED
  BY <1>1, <1>2 DEF TakeNext, sendTransferSigned, sendTransferUnlocked, sendTransferExpired, EnvelopeType

LEMMA EmitBacked ==
  ASSUME SolventInv, TypeOK', NEW n \in Node, EmitNext(n)
  PROVE  SolventInv'
<1> PICK m \in job[n] :
       \/ transferSigned(n, m) \/ transferUnlockSuccess(n, m) \/ transferExpireSuccess(n, m)
       \/ acknowledge(n, m)
  BY DEF EmitNext
<1>1. UNCHANGED seen /\ job' = [job EXCEPT ![n] = {}] /\ m.from \in {n, Peer[n]}
  BY DEF transferSigned, transferUnlockSuccess, transferExpireSuccess, acknowledge, signed, emit, stop
<1>2. transferEnvelopeReducer(n, m) \/ UNCHANGED <<end, stored>>
  BY DEF transferSigned, transferUnlockSuccess, transferExpireSuccess, acknowledge
<1>3. CASE transferEnvelopeReducer(n, m) /\ applies(n, m)
  BY <1>1, <1>3, AppliedBacked
<1>4. CASE UNCHANGED <<end, stored>>
  <2>1. \A k \in Node : stored[k] \subseteq stored'[k] /\ job'[k] \subseteq job[k]
    BY <1>1, <1>4 DEF SolventInv, TypeOK
  <2> QED
    BY <1>1, <1>4, <2>1, StillBacked
<1> QED
  BY <1>2, <1>3, <1>4 DEF transferEnvelopeReducer

LEMMA ReceiveBacked ==
  ASSUME SolventInv, TypeOK', NEW n \in Node, ReceiveNext(n)
  PROVE  SolventInv'
<1> PICK m \in wire :
       \/ receiveTransferSigned(n, m) \/ receiveTransferUnlocked(n, m)
       \/ receiveTransferExpired(n, m)
  BY DEF ReceiveNext
<1>1. /\ m.from = Peer[n] /\ accept(n, m) /\ Peer[n] # n
      /\ m.type = "LockedTransfer" => Amount[m.t] <= Capacity(partner(n), own(n), 0)
  BY PeerAssumption DEF receiveTransferSigned, receiveTransferUnlocked, receiveTransferExpired, delivered
<1>2. job' = [job EXCEPT ![n] = {m}] /\ UNCHANGED <<end, stored, seen>> /\ follows(partner(n), m)
  BY <1>1 DEF accept, store, balanceProofFollows
<1> QED
  BY <1>1, <1>2, TakenBacked

\* A deposit is confirmed
LEMMA DepositBacked ==
  ASSUME SolventInv, TypeOK', NEW n \in Node, NEW p \in Node, channelDeposited(n, p)
  PROVE  SolventInv'
<1> DEFINE e == end[n][p]
           f == [e EXCEPT !.deposit = Deposit[p]]
<1>1. end' = [end EXCEPT ![n][p] = f] /\ UNCHANGED <<stored, seen, job>>
  BY DEF channelDeposited, epics
<1>2. e \in ChannelEnd /\ Deposit[p] \in Int /\ e.deposit <= Deposit[p]
  <2>1. e \in ChannelEnd
    BY DEF SolventInv, TypeOK
  <2>3. Deposit[p] \in Nat
    BY DepositAssumption
  <2>4. e.deposit < Deposit[p]
    BY DEF channelDeposited
  <2>2. e.deposit \in Nat
    BY <2>1 DEF ChannelEnd
  <2> HIDE DEF e
  <2> QED
    BY <2>1, <2>2, <2>3, <2>4
<1>3. /\ f.nextNonce = e.nextNonce /\ f.transferred = e.transferred /\ f.locked = e.locked
      /\ f.locks = e.locks /\ f.registered = e.registered /\ f.deposit = Deposit[p]
  BY <1>2 DEF ChannelEnd
<1> HIDE DEF f
<1>4. \A k, o \in Node : keepsBalance(k, o)
  BY <1>1, <1>3, OneEndKept DEF SolventInv
<1>5. \A k, o \in Node : /\ end[k][o].deposit <= end'[k][o].deposit
                         /\ end'[k][o].registered = end[k][o].registered
  <2> TAKE k, o \in Node
  <2>1. end[k][o].deposit \in Int
    BY DEF SolventInv, TypeOK, ChannelEnd
  <2>2. CASE k = n /\ o = p
    BY <1>1, <1>2, <1>3, <2>2 DEF SolventInv, TypeOK
  <2>3. CASE ~(k = n /\ o = p)
    BY <1>1, <2>1, <2>3 DEF SolventInv, TypeOK
  <2> QED
    BY <2>2, <2>3
<1> SUFFICES ASSUME NEW k \in Node PROVE backed(k)' /\ solvent(k)'
  BY DEF SolventInv, PartnerSolvent, solvent
<1>6. backed(k) /\ solvent(k) /\ Peer[k] \in Node
  BY PeerAssumption DEF SolventInv, PartnerSolvent, solvent
<1>7. partner(k).deposit <= partner(k)'.deposit /\ own(k)'.registered = own(k).registered
  BY <1>5, <1>6 DEF partner, own
<1>8. totalLocked[own(k).registered] <= totalLocked[own(k)'.registered]
  <2>1. own(k).registered \in SUBSET Transfer
    <3>1. own(k) \in ChannelEnd
      BY EndsAreTyped DEF SolventInv
    <3> QED
      BY <3>1 DEF ChannelEnd
  <2> QED
    BY <1>7, <2>1, TotalLockedAssumption
<1>9. own(k)'.registered \subseteq seen'[k] \cap own(k).locks
  BY <1>1, <1>6, <1>7 DEF backed
<1> QED
  BY <1>1, <1>4, <1>6, <1>7, <1>8, <1>9, BackedMore DEF SolventInv

\* A registration is seen
LEMMA RegisteredBacked ==
  ASSUME SolventInv, TypeOK', NEW n \in Node, NEW t \in Transfer, transferSecretRegistered(n, t)
  PROVE  SolventInv'
<1> DEFINE p == Payer[t]
           e == end[n][p]
           claimable == e.registered \cup ({t} \cap e.locks)
           f == [e EXCEPT !.registered = claimable]
<1>1. /\ end' = [end EXCEPT ![n][p] = f] /\ p \in Node
      /\ seen' = [seen EXCEPT ![n] = seen[n] \cup {t}] /\ UNCHANGED <<stored, job>>
  BY TransferAssumption DEF transferSecretRegistered, epics
<1>2. e \in ChannelEnd
  BY <1>1 DEF SolventInv, TypeOK
<1> HIDE DEF claimable
<1>3. /\ f.nextNonce = e.nextNonce /\ f.transferred = e.transferred /\ f.locked = e.locked
      /\ f.locks = e.locks /\ f.registered = claimable /\ f.deposit = e.deposit
  BY <1>2 DEF ChannelEnd
<1> HIDE DEF f
<1>4. \A k, o \in Node : keepsBalance(k, o)
  BY <1>1, <1>3, OneEndKept DEF SolventInv
<1>5. /\ seen'[n] = seen[n] \cup {t} /\ \A k \in Node : k # n => seen'[k] = seen[k] /\ end'[k] = end[k]
      /\ end'[n][p] = f /\ \A o \in Node : o # p => end'[n][o] = end[n][o]
  BY <1>1 DEF SolventInv, TypeOK
<1>6. ASSUME NEW k \in Node, k # n PROVE backed(k)' /\ solvent(k)'
  BY <1>1, <1>5, <1>6, BackedElsewhere DEF SolventInv, PartnerSolvent, solvent
<1>7. backed(n)' /\ solvent(n)'
  <2>1. backed(n) /\ solvent(n) /\ Peer[n] \in Node /\ own(n) \in ChannelEnd /\ partner(n) \in ChannelEnd
    BY EndsAreTyped DEF SolventInv, PartnerSolvent, solvent
  <2>2. partner(n)'.deposit = partner(n).deposit
    BY <1>3, <1>5, <2>1 DEF partner
  <2>3. \/ own(n)'.registered = own(n).registered
        \/ p = n /\ t \in own(n).locks /\ own(n)'.registered = own(n).registered \cup {t}
    <3>1. CASE p # n
      BY <1>5, <3>1 DEF own
    <3>2. CASE p = n
      <4>1. own(n)' = f /\ own(n) = e
        BY <1>5, <3>2 DEF own
      <4>2. own(n)'.registered = e.registered \cup ({t} \cap e.locks)
        BY <1>3, <4>1 DEF claimable
      <4>3. CASE t \in e.locks
        BY <3>2, <4>1, <4>2, <4>3
      <4>4. CASE t \notin e.locks
        BY <4>1, <4>2, <4>4
      <4> QED
        BY <4>3, <4>4
    <3> QED
      BY <3>1, <3>2
  <2>4. totalLocked[own(n).registered] <= totalLocked[own(n)'.registered]
    <3>1. own(n).registered \in SUBSET Transfer
      BY <2>1 DEF ChannelEnd
    <3>2. CASE own(n)'.registered = own(n).registered
      BY <3>1, <3>2, TotalLockedAssumption
    <3>3. CASE own(n)'.registered = own(n).registered \cup {t}
      BY <3>1, <3>3, SumWith
    <3> QED
      BY <2>3, <3>2, <3>3
  <2>5. own(n)'.registered \subseteq seen'[n] \cap own(n).locks
    BY <1>5, <2>1, <2>3 DEF backed
  <2>6. partner(n).deposit <= partner(n)'.deposit
    BY <2>1, <2>2 DEF ChannelEnd
  <2> QED
    BY <1>1, <1>4, <1>5, <2>1, <2>4, <2>5, <2>6, BackedMore DEF SolventInv
<1> QED
  BY <1>6, <1>7 DEF SolventInv, PartnerSolvent, solvent

LEMMA NextBacked ==
  ASSUME SolventInv, [Next]_vars
  PROVE  SolventInv'
<1>1. TypeOK'
  BY NextType DEF SolventInv
<1>2. ASSUME UNCHANGED <<end, stored, seen>>, \A n \in Node : job'[n] \subseteq job[n]
      PROVE  SolventInv'
  BY <1>1, <1>2, StillBacked
<1>3. ASSUME NEW n \in Node, UNCHANGED <<end, stored, seen>>, UNCHANGED job \/ job' = [job EXCEPT ![n] = {}]
      PROVE  SolventInv'
  <2>1. \A k \in Node : job'[k] \subseteq job[k]
    BY <1>3 DEF SolventInv, TypeOK
  <2> QED
    BY <1>2, <1>3, <2>1
<1>4. ASSUME NEW n \in Node, NEW t \in Transfer, TransferNext(n, t)
      PROVE  SolventInv'
  <2>1. CASE transferSecretRegistered(n, t)
    BY <1>1, <2>1, RegisteredBacked
  <2>2. CASE ~transferSecretRegistered(n, t)
    <3>1. UNCHANGED <<end, stored, seen>> /\ (UNCHANGED job \/ job' = [job EXCEPT ![n] = {}])
      BY <1>4, <2>2 DEF TransferNext, resolveTransfer, transferSecretRevealed, transferAutoExpire, enqueue,
         transferSecretReveal, retrySecretReveal, transferClear, expires, store, epics, stop
    <3> QED
      BY <1>3, <3>1
  <2> QED
    BY <2>1, <2>2
<1>5. ASSUME NEW n \in Node, NodeNext(n)
      PROVE  SolventInv'
  <2>1. CASE \E p \in Node : channelDeposited(n, p)
    BY <1>1, <2>1, DepositBacked
  <2>2. CASE ~ \E p \in Node : channelDeposited(n, p)
    <3>1. UNCHANGED <<end, stored, seen>> /\ (UNCHANGED job \/ job' = [job EXCEPT ![n] = {}])
      BY <1>5, <2>2 DEF NodeNext, receiveAgain, transferProcessedReceived, retryMessage, signatureFails, crash,
         restart, channelCloseRequest, channelCloseFailure, closeChannel, channelCloseSuccess, store, epics, stop
    <3> QED
      BY <1>3, <3>1
  <2> QED
    BY <2>1, <2>2
<1>6. CASE (\E t \in Transfer : secretRegistered(t)) \/ lose \/ UNCHANGED vars
  <2>1. UNCHANGED <<end, stored, seen, job>>
    BY <1>6 DEF secretRegistered, lose, vars, store, epics
  <2> QED
    BY <1>2, <2>1
<1> QED
  BY <1>1, <1>4, <1>5, <1>6, TakeBacked, EmitBacked, ReceiveBacked DEF Next

\* What a node accepts from its partner never exceeds what the partner owns: whatever locks, payments and
\* registrations of both directions are under way, and whether or not closing a channel may fail.  The
\* exception, a registered lock that the node itself expired, is part of the property.
THEOREM PartnerIsSolvent == Spec => []PartnerSolvent
<1>1. Init => SolventInv
  <2> SUFFICES ASSUME Init PROVE SolventInv
    OBVIOUS
  <2>1. TypeOK
    BY InitType
  <2>2. \A n \in Node : own(n) = emptyChannelEnd /\ partner(n) = emptyChannelEnd /\ job[n] = {}
    BY PeerAssumption DEF Init, own, partner
  <2>3. Capacity(emptyChannelEnd, emptyChannelEnd, 0) = 0
    BY TotalLockedAssumption
    DEF Capacity, TotalWithdrawable, Balance, Unlocked, Locked, emptyChannelEnd
  <2>4. PartnerSolvent
    BY <2>2, <2>3 DEF PartnerSolvent
  <2>5. \A n \in Node : backed(n)
    <3>1. /\ emptyChannelEnd.locked = 0 /\ emptyChannelEnd.locks = {} /\ emptyChannelEnd.registered = {}
          /\ totalLocked[{}] = 0
      BY TotalLockedAssumption DEF emptyChannelEnd
    <3> QED
      BY <2>2, <3>1 DEF backed
  <2> QED
    BY <2>1, <2>4, <2>5 DEF SolventInv
<1>2. SolventInv /\ [Next]_vars => SolventInv'
  BY NextBacked
<1>3. SolventInv => PartnerSolvent
  BY DEF SolventInv
<1> QED
  BY <1>1, <1>2, <1>3, PTL DEF Spec

-----------------------------------------------------------------------------
(***************************************************************************)
(* What becomes of a transfer: it has one outcome, which the payee follows;*)
(* what the payee does not know yet is sent again and again; and a Processed*)
(* means what it says.  Unlike nonces, outcomes and retries also survive   *)
(* that closing a channel fails.                                           *)
(***************************************************************************)

settled(n, t) == has(n, t, "Unlock") \/ has(n, t, "LockExpired")

\* Only payers ask for, sign and send messages about a transfer
RequestOf(n) == {r \in Request : Payer[r.t] = n}
Owed ==
  /\ \A m \in log : m.from = Payer[m.t]
  /\ \A n \in Node : /\ queue[n] \in Seq(RequestOf(n))
                     /\ \A m \in job[n] : m.from = Payer[m.t]

\* Whatever is stored, retried, delivered, acknowledged or being acknowledged was sent
Sent ==
  /\ InLog /\ acks \subseteq log
  /\ \A n \in Node : processed[n] \subseteq log

\* What the concatMap is busy with is news: it has the next nonce, and its transfer was not
\* known, or not settled, before
News ==
  \A n \in Node : \A m \in job[n] :
     /\ m.nonce = end[n][m.from].nextNonce
     /\ known(n, m.t) <=> m.type # "LockedTransfer"
     /\ ~settled(n, m.t)
     /\ m.type = "LockExpired" => m.t \in past[n]

\* The locks of a node's own end are its transfers that have no outcome yet
Unsettled == \A n \in Node : \A t \in own(n).locks : Payer[t] = n /\ known(n, t) /\ ~settled(n, t)

\* A transfer has one LockedTransfer and then one outcome
Distinct ==
  \A n \in Node :
     /\ \A m \in stored[n] : known(n, m.t)
     /\ \A m1, m2 \in stored[n] :
           m1.t = m2.t /\ (m1.type = "LockedTransfer" <=> m2.type = "LockedTransfer") => m1 = m2

\* What a node sent is stored, but for a LockExpired that was signed while the channel began to close
Kept ==
  \A m \in log :
     /\ known(m.from, m.t)
     /\ m.type = "LockExpired" => m.t \in past[m.from]
     /\ \/ m \in stored[m.from]
        \/ m.type = "LockExpired" /\ (CloseFails \/ channel[m.from] # "open")

\* Such a LockExpired is all that can contradict an Unlock: if the channel opens again and the secret
\* gets registered
Decided == ~CloseFails \/ Registrable = {}
OneOutcome ==
  /\ registry \subseteq Registrable /\ \A n \in Node : seen[n] \subseteq registry
  /\ Decided => \A m1, m2 \in log : m1.t = m2.t /\ m1.type = "Unlock" => m2.type # "LockExpired"

\* Who acknowledges an outcome knows the transfer; a transfer leaves memory when its outcome is acknowledged
Acked ==
  /\ \A m \in acks : m.type # "LockedTransfer" => known(Peer[m.from], m.t)
  /\ \A n \in Node :
       /\ \A m \in processed[n] :
             m.from = n => m \in stored[n] /\ (m.type # "LockedTransfer" => known(Peer[n], m.t))
       /\ \A t \in cleared[n] : completed(n, t)

\* UnackedIsRetried, whatever the channels' states are
Retried ==
  \A n \in Node : \A m \in stored[n] :
     /\ up[n] /\ m.from = n /\ channel[n] # "closed"
     /\ m \notin stored[Peer[n]] /\ m \notin processed[n] /\ m.t \notin seen[n]
     => m \in retry[n]

OInv ==
  /\ TypeOK /\ Owed /\ Sent /\ News /\ Unsettled /\ Distinct /\ Kept /\ OneOutcome
  /\ Acked /\ Retried

-----------------------------------------------------------------------------
(***************************************************************************)
(* Steps that neither send nor apply a message                             *)
(***************************************************************************)

\* Neither sent nor applied: what is kept, being signed or awaited stays as it is, or is given up
calm ==
  /\ \A n, o \in Node : keepsBalance(n, o)
  /\ UNCHANGED <<stored, log>> /\ wire' \subseteq log
  /\ \A n \in Node :
        /\ retry'[n] \subseteq log /\ job'[n] \subseteq job[n] /\ queue'[n] \in Seq(RequestOf(n))
        /\ past[n] \subseteq past'[n] /\ seen'[n] \subseteq registry'
        /\ CloseFails \/ (channel'[n] = "open" => channel[n] = "open")
  /\ registry' \subseteq Registrable

\* All of the invariant but acknowledgements and retries
Core ==
  TypeOK /\ Owed /\ InLog /\ News /\ Unsettled /\ Distinct /\ Kept /\ OneOutcome

LEMMA FromIsNode ==
  ASSUME TypeOK
  PROVE  /\ \A m \in log : m.from \in Node /\ m.t \in Transfer
         /\ \A n \in Node : \A m \in stored[n] : m.from \in Node /\ m.t \in Transfer
         /\ \A n \in Node : \A m \in job[n] : m.from \in Node /\ m.t \in Transfer
BY DEF TypeOK, Envelope

LEMMA CalmKeeps ==
  ASSUME OInv, TypeOK', calm
  PROVE  Core'
<1>1. /\ \A n, o \in Node : keepsBalance(n, o)
      /\ UNCHANGED <<stored, log>> /\ wire' \subseteq log
      /\ \A n \in Node : /\ retry'[n] \subseteq log /\ job'[n] \subseteq job[n]
                         /\ queue'[n] \in Seq(RequestOf(n))
      /\ \A n, t : has(n, t, "Unlock")' = has(n, t, "Unlock")
      /\ \A n, t : known(n, t)' = known(n, t) /\ settled(n, t)' = settled(n, t)
  BY DEF calm, has, known, settled
<1>2. Owed' /\ InLog'
  BY <1>1 DEF OInv, Owed, Sent, InLog
<1>3. News'
  <2> SUFFICES ASSUME NEW n \in Node, NEW m \in job'[n]
               PROVE  /\ m.nonce = end'[n][m.from].nextNonce
                      /\ known(n, m.t) <=> m.type # "LockedTransfer"
                      /\ ~settled(n, m.t)
                      /\ m.type = "LockExpired" => m.t \in past'[n]
    BY <1>1 DEF News
  <2>1. m \in job[n] /\ m.from \in Node
    BY <1>1, FromIsNode DEF OInv
  <2>2. m.nonce = end[n][m.from].nextNonce
    BY <2>1 DEF OInv, News
  <2>3. keepsBalance(n, m.from)
    BY <1>1, <2>1
  <2>4. m.nonce = end'[n][m.from].nextNonce
    BY <2>2, <2>3 DEF keepsBalance
  <2> QED
    BY <2>1, <2>4 DEF OInv, News, calm
<1>4. Unsettled' /\ Distinct'
  BY <1>1 DEF OInv, Unsettled, Distinct, own, keepsBalance
<1>5. Kept'
  BY <1>1, FromIsNode DEF OInv, Kept, calm
<1>6. OneOutcome'
  BY <1>1 DEF OInv, OneOutcome, calm, Decided
<1> QED
  BY <1>2, <1>3, <1>4, <1>5, <1>6 DEF Core

LEMMA AckedKeeps ==
  ASSUME OInv, \A n \in Node : stored[n] \subseteq stored'[n],
         acks' \subseteq acks, UNCHANGED <<processed, cleared>>, log \subseteq log'
  PROVE  Acked' /\ acks' \subseteq log' /\ \A n \in Node : processed'[n] \subseteq log'
<1>1. \A n \in Node : \A t : known(n, t) => known(n, t)'
  BY DEF known, has
<1>2. \A m \in acks : Peer[m.from] \in Node
  BY PeerAssumption, FromIsNode DEF OInv, Sent
<1>3. \A n \in Node : Peer[n] \in Node
  BY PeerAssumption
<1> QED
  BY <1>1, <1>2, <1>3 DEF OInv, Sent, Acked, completed, hasProcessed

LEMMA RetriedKeeps ==
  ASSUME OInv, UNCHANGED stored,
         \A n \in Node : /\ processed[n] \subseteq processed'[n] /\ seen[n] \subseteq seen'[n]
                         /\ channel[n] = "closed" => channel'[n] = "closed"
                         /\ up'[n] => up[n] /\ retry[n] \subseteq retry'[n]
  PROVE  Retried'
BY DEF OInv, Retried

\* A calm step about none of the acknowledgements and retries
LEMMA CalmIsSafe ==
  ASSUME OInv, TypeOK', calm, acks' \subseteq acks, UNCHANGED <<processed, cleared>>,
         \A n \in Node : /\ seen[n] \subseteq seen'[n]
                         /\ channel[n] = "closed" => channel'[n] = "closed"
                         /\ up'[n] => up[n] /\ retry[n] \subseteq retry'[n]
  PROVE  OInv'
<1>1. Core'
  BY CalmKeeps
<1>2. Acked' /\ acks' \subseteq log' /\ \A n \in Node : processed'[n] \subseteq log'
  BY AckedKeeps DEF calm
<1>3. Retried'
  BY RetriedKeeps DEF calm
<1> QED
  BY <1>1, <1>2, <1>3 DEF OInv, Core, Sent

\* What changes nothing that the invariant speaks of, or lets something get lost
LEMMA StillSafe ==
  ASSUME OInv, TypeOK',
         UNCHANGED <<channel, end, stored, processed, cleared, seen, retry, up, log>>,
         wire' \subseteq log, acks' \subseteq acks,
         \A n \in Node : /\ job'[n] \subseteq job[n] /\ queue'[n] \in Seq(RequestOf(n))
                         /\ past[n] \subseteq past'[n],
         registry \subseteq registry', registry' \subseteq Registrable
  PROVE  OInv'
<1>1. calm
  BY DEF calm, keepsBalance, OInv, Sent, InLog, OneOutcome
<1> QED
  BY <1>1, CalmIsSafe

\* A client stops
LEMMA StopSafe ==
  ASSUME OInv, TypeOK', NEW n \in Node, stop(n),
         UNCHANGED <<channel, end, stored, processed, cleared, seen, wire, acks, log, past, registry>>
  PROVE  OInv'
<1>1. /\ \A k \in Node : /\ retry'[k] \subseteq log /\ job'[k] \subseteq job[k]
                         /\ up'[k] => up[k] /\ retry[k] \subseteq retry'[k]
  BY DEF stop, OInv, TypeOK, Sent, InLog
<1>2. \A k \in Node : queue'[k] \in Seq(RequestOf(k))
  <2>1. <<>> \in Seq(RequestOf(n))
    OBVIOUS
  <2> QED
    BY <2>1 DEF stop, OInv, TypeOK, Owed
<1>3. calm
  BY <1>1, <1>2 DEF calm, keepsBalance, OInv, Sent, InLog, OneOutcome
<1> QED
  BY <1>1, <1>3, CalmIsSafe

-----------------------------------------------------------------------------
(***************************************************************************)
(* Steps that apply or send a message                                      *)
(***************************************************************************)

\* Of m and what n had stored, and of all other nodes
LEMMA StoredMore ==
  ASSUME TypeOK, NEW n \in Node, NEW m, stored' = [stored EXCEPT ![n] = stored[n] \cup {m}]
  PROVE  /\ stored'[n] = stored[n] \cup {m}
         /\ \A k \in Node : k # n => stored'[k] = stored[k]
         /\ \A k \in Node : \A t : /\ known(k, t) => known(k, t)'
                                   /\ k # n => (known(k, t)' <=> known(k, t)) /\ (settled(k, t)' <=> settled(k, t))
                                   /\ t # m.t => (known(k, t)' <=> known(k, t)) /\ (settled(k, t)' <=> settled(k, t))
<1>1. /\ stored'[n] = stored[n] \cup {m}
      /\ \A k \in Node : k # n => stored'[k] = stored[k]
  BY DEF TypeOK
<1> QED
  BY <1>1 DEF known, settled, has

\* n's reducer applies what the concatMap was busy with
LEMMA AppliedIs ==
  ASSUME OInv, NEW n \in Node, NEW m \in job[n], applies(n, m), transferEnvelopeReducer(n, m)
  PROVE  /\ stored' = [stored EXCEPT ![n] = stored[n] \cup {m}]
         /\ end'[n][m.from].locks = locksAfter(end[n][m.from], m.type, m.t)
         /\ \A k, o \in Node : ~(k = n /\ o = m.from) => end'[k][o] = end[k][o]
<1>1. m.from \in Node /\ end[n][m.from] \in ChannelEnd
  BY FromIsNode DEF OInv, TypeOK
<1>2. /\ end' = [end EXCEPT ![n][m.from] = afterMessage(end[n][m.from], m)]
      /\ stored' = [stored EXCEPT ![n] = stored[n] \cup {m}]
  BY DEF transferEnvelopeReducer
<1> DEFINE f == afterMessage(end[n][m.from], m)
<1>3. f.locks = locksAfter(end[n][m.from], m.type, m.t)
  BY <1>1 DEF afterMessage, ChannelEnd
<1> HIDE DEF f
<1>4. /\ end'[n][m.from] = f
      /\ \A k, o \in Node : ~(k = n /\ o = m.from) => end'[k][o] = end[k][o]
  BY <1>1, <1>2 DEF OInv, TypeOK, f
<1> QED
  BY <1>2, <1>3, <1>4

LEMMA AppliedKeeps ==
  ASSUME OInv, TypeOK', NEW n \in Node, NEW m \in job[n], applies(n, m),
         transferEnvelopeReducer(n, m), job' = [job EXCEPT ![n] = {}],
         log' = log \cup {m}, wire' \subseteq log', \A k \in Node : retry'[k] \subseteq log',
         m.from = n /\ m.type = "Unlock" => unlockable(n, m.t),
         UNCHANGED <<channel, queue, past, seen, registry>>
  PROVE  Core'
<1>1. /\ stored' = [stored EXCEPT ![n] = stored[n] \cup {m}]
      /\ end'[n][m.from].locks = locksAfter(end[n][m.from], m.type, m.t)
      /\ \A k, o \in Node : ~(k = n /\ o = m.from) => end'[k][o] = end[k][o]
  BY AppliedIs
<1>2. /\ stored'[n] = stored[n] \cup {m}
      /\ \A k \in Node : k # n => stored'[k] = stored[k]
      /\ \A k \in Node : \A t : /\ known(k, t) => known(k, t)'
                                /\ k # n => (known(k, t)' <=> known(k, t)) /\ (settled(k, t)' <=> settled(k, t))
                                /\ t # m.t => (known(k, t)' <=> known(k, t)) /\ (settled(k, t)' <=> settled(k, t))
  BY <1>1, StoredMore DEF OInv
<1>3. job'[n] = {} /\ \A k \in Node : k # n => job'[k] = job[k]
  BY DEF OInv, TypeOK
<1>4. /\ m.type \in EnvelopeType /\ m.from \in Node /\ m.from = Payer[m.t] /\ ~settled(n, m.t)
      /\ known(n, m.t) <=> m.type # "LockedTransfer"
      /\ m.type = "LockExpired" => m.t \in past[n]
      /\ m.from # n => m \in log
      /\ m \in Envelope
  BY FromIsNode DEF OInv, Owed, News, TypeOK, Envelope, Sent, InLog
<1>5. Owed' /\ InLog'
  <2>1. Owed'
    BY <1>3, <1>4 DEF OInv, Owed
  <2>2. \A k \in Node : stored'[k] \subseteq log'
    BY <1>2 DEF OInv, Sent, InLog
  <2>3. \A k \in Node : \A j \in job'[k] : j.from = k \/ j \in log'
    BY <1>3 DEF OInv, Sent, InLog
  <2> QED
    BY <2>1, <2>2, <2>3 DEF InLog
<1>6. News'
  <2> SUFFICES ASSUME NEW k \in Node, NEW j \in job'[k]
               PROVE  /\ j.nonce = end'[k][j.from].nextNonce
                      /\ known(k, j.t)' <=> j.type # "LockedTransfer"
                      /\ ~settled(k, j.t)'
                      /\ j.type = "LockExpired" => j.t \in past'[k]
    BY DEF News
  <2>1. k # n /\ j \in job[k] /\ j.from \in Node
    BY <1>3, FromIsNode DEF OInv
  <2>2. j.nonce = end'[k][j.from].nextNonce
    BY <1>1, <2>1 DEF OInv, News
  <2>3. (known(k, j.t)' <=> known(k, j.t)) /\ (settled(k, j.t)' <=> settled(k, j.t))
    BY <1>2, <2>1
  <2> QED
    BY <2>1, <2>2, <2>3 DEF OInv, News
<1>7. Unsettled'
  <2> SUFFICES ASSUME NEW k \in Node, NEW t \in end'[k][k].locks
               PROVE  Payer[t] = k /\ known(k, t)' /\ ~settled(k, t)'
    BY DEF Unsettled, own
  <2>1. CASE ~(k = n /\ m.from = n)
    <3>1. t \in own(k).locks
      BY <1>1, <2>1 DEF own
    <3>2. Payer[t] = k /\ known(k, t) /\ ~settled(k, t)
      BY <3>1 DEF OInv, Unsettled
    <3>3. CASE k # n
      BY <1>2, <3>2, <3>3
    <3>4. CASE k = n
      BY <1>2, <1>4, <2>1, <3>2, <3>4
    <3> QED
      BY <3>3, <3>4
  <2>2. CASE k = n /\ m.from = n
    <3>1. t \in locksAfter(own(n), m.type, m.t)
      BY <1>1, <2>2 DEF own
    <3>2. CASE m.type = "LockedTransfer" /\ t = m.t
      BY <1>2, <1>4, <2>2, <3>2 DEF known, settled, has
    <3>3. CASE t # m.t
      <4>1. t \in own(n).locks
        BY <3>1, <3>3 DEF locksAfter
      <4> QED
        BY <1>2, <2>2, <3>3, <4>1 DEF OInv, Unsettled
    <3> QED
      BY <3>1, <3>2, <3>3 DEF locksAfter
  <2> QED
    BY <2>1, <2>2
<1>8. Distinct'
  <2>1. \A p \in stored[n] : p.t = m.t => (p.type = "LockedTransfer" /\ m.type # "LockedTransfer")
    <3> SUFFICES ASSUME NEW p \in stored[n], p.t = m.t
                 PROVE  p.type = "LockedTransfer" /\ m.type # "LockedTransfer"
      OBVIOUS
    <3>1. p.type \in EnvelopeType /\ known(n, p.t)
      BY DEF OInv, TypeOK, Envelope, Distinct
    <3> QED
      BY <3>1, <1>4 DEF settled, has, EnvelopeType
  <2>2. known(n, m.t)'
    BY <1>2, <1>4 DEF known, has
  <2> QED
    BY <1>2, <2>1, <2>2 DEF OInv, Distinct
<1>9. Kept'
  <2> SUFFICES ASSUME NEW p \in log'
               PROVE  /\ known(p.from, p.t)'
                      /\ p.type = "LockExpired" => p.t \in past[p.from]
                      /\ \/ p \in stored'[p.from]
                         \/ p.type = "LockExpired" /\ (CloseFails \/ channel[p.from] # "open")
    BY DEF Kept
  <2>1. CASE p \in log
    BY <2>1, <1>2, FromIsNode DEF OInv, Kept
  <2>2. CASE p = m /\ m.from = n
    BY <2>2, <1>2, <1>4 DEF known, has
  <2> QED
    BY <2>1, <2>2, <1>4
<1>10. OneOutcome'
  <2> SUFFICES ASSUME Decided, m \notin log, NEW p \in log, p.t = m.t
               PROVE  /\ m.type = "Unlock" => p.type # "LockExpired"
                      /\ m.type = "LockExpired" => p.type # "Unlock"
    BY DEF OInv, OneOutcome
  <2>1. m.from = n /\ p.from = n
    BY <1>4 DEF OInv, Owed
  <2>2. p \in stored[n] => p.type \notin {"Unlock", "LockExpired"}
    BY <1>4 DEF settled, has
  <2>3. CASE p \notin stored[n] /\ m.type = "Unlock"
    <3>1. SUFFICES ASSUME p.type = "LockExpired" PROVE FALSE
      BY <2>3
    <3>2. CloseFails /\ p.t \in past[n]
      BY <2>1, <2>3, <3>1 DEF OInv, Kept, applies
    <3>3. seen[n] = {}
      BY <3>2 DEF OInv, OneOutcome, Decided
    <3> QED
      BY <2>1, <2>3, <3>2, <3>3 DEF unlockable
  <2>4. CASE p \notin stored[n] /\ m.type # "Unlock"
    BY <2>1, <2>4 DEF OInv, Kept
  <2> QED
    BY <2>2, <2>3, <2>4
<1> QED
  BY <1>5, <1>6, <1>7, <1>8, <1>9, <1>10 DEF Core

\* A LockExpired that the reducer ignores is sent all the same
LEMMA DroppedKeeps ==
  ASSUME OInv, TypeOK', NEW n \in Node, NEW m \in job[n], m.from = n, m.type = "LockExpired",
         channel[n] # "open", NEW S \in SUBSET {m},
         job' = [job EXCEPT ![n] = {}], log' = log \cup S, wire' \subseteq log',
         \A k \in Node : retry'[k] \subseteq log',
         UNCHANGED <<channel, end, stored, queue, past, seen, registry>>
  PROVE  Core'
<1>1. job'[n] = {} /\ \A k \in Node : k # n => job'[k] = job[k]
  BY DEF OInv, TypeOK
<1>2. /\ m.from = Payer[m.t] /\ ~settled(n, m.t) /\ m.t \in past[n]
  BY DEF OInv, Owed, News
<1>3. Owed' /\ InLog'
  BY <1>1, <1>2 DEF OInv, Owed, Sent, InLog
<1>4. News'
  <2> SUFFICES ASSUME NEW k \in Node, NEW j \in job'[k]
               PROVE  /\ j.nonce = end'[k][j.from].nextNonce
                      /\ known(k, j.t)' <=> j.type # "LockedTransfer"
                      /\ ~settled(k, j.t)'
                      /\ j.type = "LockExpired" => j.t \in past'[k]
    BY DEF News
  <2>1. /\ known(k, j.t)' <=> known(k, j.t)
        /\ settled(k, j.t)' <=> settled(k, j.t)
    BY DEF known, settled, has
  <2>2. j \in job[k]
    BY <1>1
  <2> QED
    BY <2>1, <2>2 DEF OInv, News
<1>5. Unsettled' /\ Distinct'
  BY DEF OInv, Unsettled, Distinct, own, known, settled, has
<1>6. Kept'
  <2>1. known(n, m.t)
    BY DEF OInv, News
  <2> QED
    BY <1>2, <2>1 DEF OInv, Kept, known, has
<1>7. OneOutcome'
  <2>1. \A p \in log : p.t = m.t => p.type # "Unlock"
    <3> SUFFICES ASSUME NEW p \in log, p.t = m.t, p.type = "Unlock" PROVE FALSE
      OBVIOUS
    <3>1. p \in stored[n]
      BY <1>2 DEF OInv, Owed, Kept
    <3> QED
      BY <3>1, <1>2 DEF settled, has
  <2> QED
    BY <2>1 DEF OInv, OneOutcome
<1> QED
  BY <1>3, <1>4, <1>5, <1>6, <1>7 DEF Core

\* An own message is emitted with its signature
LEMMA EmitSafe ==
  ASSUME OInv, TypeOK', NEW n \in Node, NEW m \in job[n], m.from = n,
         transferEnvelopeReducer(n, m), emit(n, m, queue[n]),
         m.type = "Unlock" => unlockable(n, m.t),
         UNCHANGED <<channel, processed, seen, cleared, past, registry>>
  PROVE  OInv'
<1> DEFINE kept == inMemory(n, m.t) \/ (m.type = "LockedTransfer" /\ applies(n, m))
           S == IF channel[n] = "closed" THEN {} ELSE {m}
<1>1. /\ m.nonce = end[n][m.from].nextNonce /\ m.type \in EnvelopeType
      /\ ~settled(n, m.t) /\ (known(n, m.t) <=> m.type # "LockedTransfer")
  BY DEF OInv, News, TypeOK, Envelope
<1>2. applies(n, m) => kept
  BY DEF applies
<1>3. ASSUME kept
      PROVE  /\ job' = [job EXCEPT ![n] = {}] /\ retry' = [retry EXCEPT ![n] = retry[n] \cup S]
             /\ wire' = wire \cup S /\ log' = log \cup S
             /\ UNCHANGED <<queue, up, acks>>
             /\ retry'[n] = retry[n] \cup S /\ \A k \in Node : k # n => retry'[k] = retry[k]
  BY <1>3 DEF emit, OInv, TypeOK
<1>4. ASSUME kept
      PROVE  wire' \subseteq log' /\ \A k \in Node : retry'[k] \subseteq log'
  BY <1>3, <1>4 DEF OInv, Sent, InLog
<1>5. CASE applies(n, m)
  <2>1. S = {m}
    BY <1>5 DEF applies
  <2>2. Core'
    BY <1>2, <1>3, <1>4, <1>5, <2>1, AppliedKeeps
  <2>3. /\ stored'[n] = stored[n] \cup {m}
        /\ \A k \in Node : k # n => stored'[k] = stored[k]
    BY <1>5, AppliedIs, StoredMore DEF OInv
  <2>4. Acked' /\ acks' \subseteq log' /\ \A k \in Node : processed'[k] \subseteq log'
    BY <1>2, <1>3, <1>5, <2>3, AckedKeeps
  <2>5. Retried'
    <3> SUFFICES ASSUME NEW k \in Node, NEW p \in stored'[k], up[k], p.from = k, channel[k] # "closed",
                        p \notin stored'[Peer[k]], p \notin processed[k], p.t \notin seen[k]
                 PROVE  p \in retry'[k]
      BY <1>2, <1>3, <1>5 DEF Retried
    <3>1. CASE p \in stored[k]
      <4>1. p \notin stored[Peer[k]]
        BY <2>3, PeerAssumption
      <4> QED
        BY <3>1, <4>1, <1>2, <1>3, <1>5 DEF OInv, Retried
    <3>2. CASE k = n /\ p = m
      BY <3>2, <2>1, <1>2, <1>3, <1>5
    <3> QED
      BY <3>1, <3>2, <2>3
  <2> QED
    BY <2>2, <2>4, <2>5 DEF OInv, Core, Sent
<1>6. CASE ~applies(n, m) /\ kept
  <2>1. m.type = "LockExpired" /\ channel[n] # "open"
    <3>1. m.type # "LockedTransfer" /\ channel[n] # "open"
      BY <1>1, <1>6 DEF applies, inMemory, settled, EnvelopeType
    <3> QED
      BY <3>1, <1>1 DEF unlockable, EnvelopeType
  <2>2. UNCHANGED <<end, stored>>
    BY <1>6 DEF transferEnvelopeReducer
  <2>3. S \in SUBSET {m}
    OBVIOUS
  <2> HIDE DEF S, kept
  <2>4. Core'
    BY <1>3, <1>4, <1>6, <2>1, <2>2, <2>3, DroppedKeeps
  <2>5. Acked' /\ acks' \subseteq log' /\ \A k \in Node : processed'[k] \subseteq log'
    BY <1>3, <1>6, <2>2, AckedKeeps
  <2>6. Retried'
    BY <1>3, <1>6, <2>2, RetriedKeeps
  <2> QED
    BY <2>4, <2>5, <2>6 DEF OInv, Core, Sent
<1>7. CASE ~kept
  <2>1. stop(n) /\ UNCHANGED <<end, stored, wire, acks, log>>
    BY <1>2, <1>7 DEF transferEnvelopeReducer, emit, network
  <2> QED
    BY <2>1, StopSafe
<1> QED
  BY <1>5, <1>6, <1>7

\* A message of the partner is acknowledged
LEMMA AcknowledgeSafe ==
  ASSUME OInv, TypeOK', NEW n \in Node, NEW m \in job[n], acknowledge(n, m)
  PROVE  OInv'
<1>1. /\ m.from = Peer[n] /\ m.from # n /\ m.from \in Node /\ Peer[m.from] = n /\ m \in log
      /\ transferEnvelopeReducer(n, m)
      /\ UNCHANGED <<channel, seen, cleared, past, registry>>
  BY PeerAssumption DEF acknowledge, world, OInv, Sent, InLog
<1>2. CASE known(n, m.t) \/ applies(n, m)
  <2>1. /\ processed' = [processed EXCEPT ![n] = processed[n] \cup {m}] /\ acks' = acks \cup {m}
        /\ job' = [job EXCEPT ![n] = {}] /\ UNCHANGED <<queue, retry, up, wire, log>>
    BY <1>2 DEF acknowledge
  <2>2. /\ processed'[n] = processed[n] \cup {m}
        /\ \A k \in Node : k # n => processed'[k] = processed[k]
    BY <2>1 DEF OInv, TypeOK
  <2>3. log' = log \cup {m} /\ wire' \subseteq log' /\ \A k \in Node : retry'[k] \subseteq log'
    BY <1>1, <2>1 DEF OInv, Sent, InLog
  <2>4. \A k \in Node : job'[k] \subseteq job[k]
    BY <2>1 DEF OInv, TypeOK
  <2>5. /\ \A k \in Node : stored[k] \subseteq stored'[k]
        /\ \A k \in Node : k # n => stored'[k] = stored[k]
        /\ \A p \in stored'[n] : p \in stored[n] \/ p = m
        /\ Core'
    <3>1. CASE applies(n, m)
      <4>1. /\ stored'[n] = stored[n] \cup {m}
            /\ \A k \in Node : k # n => stored'[k] = stored[k]
        BY <1>1, <3>1, AppliedIs, StoredMore DEF OInv
      <4>2. Core'
        BY <1>1, <2>1, <2>3, <3>1, AppliedKeeps
      <4> QED
        BY <4>1, <4>2
    <3>2. CASE ~applies(n, m)
      <4>1. UNCHANGED <<end, stored>>
        BY <1>1, <3>2 DEF transferEnvelopeReducer
      <4>2. calm
        BY <1>1, <2>1, <2>3, <2>4, <4>1 DEF calm, keepsBalance, OInv, Owed, OneOutcome
      <4> QED
        BY <4>1, <4>2, CalmKeeps
    <3> QED
      BY <3>1, <3>2
  <2>6. \A k \in Node : \A t : known(k, t) => known(k, t)'
    BY <2>5 DEF known, has
  <2>7. m.type # "LockedTransfer" => known(n, m.t)
    BY DEF OInv, News
  <2>8. Acked'
    <3>1. \A p \in acks' : p.type # "LockedTransfer" => known(Peer[p.from], p.t)'
      <4> SUFFICES ASSUME NEW p \in acks', p.type # "LockedTransfer" PROVE known(Peer[p.from], p.t)'
        OBVIOUS
      <4>1. CASE p = m
        BY <4>1, <1>1, <2>6, <2>7
      <4>2. CASE p \in acks
        <5>1. Peer[p.from] \in Node
          BY <4>2, FromIsNode, PeerAssumption DEF OInv, Sent
        <5> QED
          BY <4>2, <5>1, <2>6 DEF OInv, Acked
      <4> QED
        BY <4>1, <4>2, <2>1
    <3>2. ASSUME NEW k \in Node
          PROVE  /\ \A p \in processed'[k] : p.from = k =>
                      p \in stored'[k] /\ (p.type # "LockedTransfer" => known(Peer[k], p.t)')
                 /\ \A t \in cleared'[k] : completed(k, t)'
      <4>1. Peer[k] \in Node
        BY PeerAssumption
      <4>2. processed[k] \subseteq processed'[k] /\ \A p \in processed'[k] : p.from = k => p \in processed[k]
        BY <1>1, <2>2
      <4> QED
        BY <4>1, <4>2, <2>5, <2>6, <1>1 DEF OInv, Acked, completed, hasProcessed
    <3> QED
      BY <3>1, <3>2 DEF Acked
  <2>9. Retried'
    <3> SUFFICES ASSUME NEW k \in Node, NEW p \in stored'[k], up[k], p.from = k, channel[k] # "closed",
                        p \notin stored'[Peer[k]], p \notin processed'[k], p.t \notin seen[k]
                 PROVE  p \in retry[k]
      BY <1>1, <2>1 DEF Retried
    <3>1. p \in stored[k] /\ p \notin processed[k] /\ p \notin stored[Peer[k]]
      BY <1>1, <2>2, <2>5, PeerAssumption
    <3> QED
      BY <3>1 DEF OInv, Retried
  <2>10. acks' \subseteq log' /\ \A k \in Node : processed'[k] \subseteq log'
    BY <1>1, <2>1, <2>2 DEF OInv, Sent
  <2> QED
    BY <2>5, <2>8, <2>9, <2>10 DEF OInv, Core, Sent
<1>3. CASE ~(known(n, m.t) \/ applies(n, m))
  <2>1. stop(n) /\ UNCHANGED <<end, stored, processed, wire, acks, log>>
    BY <1>1, <1>3 DEF transferEnvelopeReducer, acknowledge, network
  <2> QED
    BY <1>1, <2>1, StopSafe
<1> QED
  BY <1>2, <1>3

-----------------------------------------------------------------------------
(***************************************************************************)
(* The concatMap takes a request, or a message from the wire               *)
(***************************************************************************)

\* The concatMap of n, that was idle, takes m
LEMMA TakenSafe ==
  ASSUME OInv, TypeOK', NEW n \in Node, NEW m \in Envelope, job' = [job EXCEPT ![n] = {m}],
         m.from = Payer[m.t], m.from = n \/ m \in log,
         m.nonce = end[n][m.from].nextNonce, known(n, m.t) <=> m.type # "LockedTransfer",
         ~settled(n, m.t), m.type = "LockExpired" => m.t \in past[n],
         \A k \in Node : queue'[k] \in Seq(RequestOf(k)),
         UNCHANGED <<channel, end, stored, processed, cleared, seen, retry, up, wire, acks, log, past, registry>>
  PROVE  OInv'
<1>1. job'[n] = {m} /\ \A k \in Node : k # n => job'[k] = job[k]
  BY DEF OInv, TypeOK
<1>2. Owed'
  BY <1>1 DEF OInv, Owed
<1>3. Sent'
  BY <1>1 DEF OInv, Sent, InLog
<1>4. \A k \in Node : \A t : (known(k, t)' <=> known(k, t)) /\ (settled(k, t)' <=> settled(k, t))
  BY DEF known, settled, has
<1>5. News'
  BY <1>1, <1>4 DEF OInv, News
<1>6. Unsettled' /\ Distinct'
  BY <1>4 DEF OInv, Unsettled, Distinct, own
<1>7. Kept' /\ OneOutcome'
  BY DEF OInv, Kept, OneOutcome, known, has
<1>8. Acked'
  BY AckedKeeps
<1>9. Retried'
  BY RetriedKeeps
<1> QED
  BY <1>2, <1>3, <1>5, <1>6, <1>7, <1>8, <1>9 DEF OInv

\* The rest of a queue, and its first request
LEMMA QueueIs ==
  ASSUME OInv, NEW n \in Node, queue[n] # <<>>
  PROVE  /\ Payer[Head(queue[n]).t] = n
         /\ Tail(queue[n]) \in Seq(RequestOf(n))
<1>1. queue[n] \in Seq(RequestOf(n))
  BY DEF OInv, Owed
<1>2. Head(queue[n]) \in RequestOf(n) /\ Tail(queue[n]) \in Seq(RequestOf(n))
  BY <1>1
<1> QED
  BY <1>2 DEF RequestOf

\* A queue that lost its first request
LEMMA QueueRest ==
  ASSUME OInv, NEW n \in Node, queue[n] # <<>>, queue' = [queue EXCEPT ![n] = Tail(@)]
  PROVE  \A k \in Node : queue'[k] \in Seq(RequestOf(k))
BY QueueIs DEF OInv, TypeOK, Owed

\* A request that is dropped, or signed when its guards allow it
LEMMA SignSafe ==
  ASSUME OInv, TypeOK', NEW n \in Node, NEW t \in Transfer, NEW type \in EnvelopeType,
         NEW allowed \in BOOLEAN, Payer[t] = n, queue[n] # <<>>,
         allowed => /\ type = "LockedTransfer" => ~known(n, t)
                    /\ type # "LockedTransfer" => t \in own(n).locks
                    /\ type = "LockExpired" => t \in past[n],
         sign(n, allowed, type, t)
  PROVE  OInv'
<1>1. /\ queue' = [queue EXCEPT ![n] = Tail(@)]
      /\ UNCHANGED <<channel, end, stored, processed, cleared, seen, retry, up, wire, acks, log, past, registry>>
      /\ job' = [job EXCEPT ![n] = IF allowed THEN {compose(n, type, t)} ELSE {}]
  BY DEF sign, store, network, world, process
<1>2. \A k \in Node : queue'[k] \in Seq(RequestOf(k))
  BY <1>1, QueueRest
<1>3. CASE allowed
  <2> DEFINE m == compose(n, type, t)
  <2>1. m \in Envelope
    BY ComposeType DEF OInv
  <2>2. m.from = n /\ m.t = t /\ m.type = type /\ m.nonce = end[n][m.from].nextNonce
    BY DEF compose, own
  <2>3. job' = [job EXCEPT ![n] = {m}]
    BY <1>1, <1>3
  <2>4. (known(n, t) <=> type # "LockedTransfer") /\ ~settled(n, t)
    <3>1. CASE type = "LockedTransfer"
      BY <1>3, <3>1 DEF OInv, Distinct, settled, has
    <3>2. CASE type # "LockedTransfer"
      BY <1>3, <3>2 DEF OInv, Unsettled
    <3> QED
      BY <3>1, <3>2
  <2> HIDE DEF m
  <2> QED
    BY <1>1, <1>2, <1>3, <2>1, <2>2, <2>3, <2>4, TakenSafe
<1>4. CASE ~allowed
  <2>1. \A k \in Node : job'[k] \subseteq job[k]
    BY <1>1, <1>4 DEF OInv, TypeOK
  <2> QED
    BY <1>1, <1>2, <2>1, StillSafe DEF OInv, OneOutcome, Sent, InLog
<1> QED
  BY <1>3, <1>4

\* A stored message is emitted again
LEMMA ResendSafe ==
  ASSUME OInv, TypeOK', NEW n \in Node, NEW m \in stored[n], NEW allowed \in BOOLEAN,
         idle(n), queue[n] # <<>>, resend(n, allowed, m)
  PROVE  OInv'
<1> DEFINE again == allowed /\ ~(inMemory(n, m.t) /\ m \in processed[n])
           S == IF channel[n] = "closed" THEN {} ELSE {m}
<1>1. UNCHANGED <<channel, end, stored, processed, cleared, seen, past, registry>> /\ m \in log
  BY DEF resend, store, world, OInv, Sent, InLog
<1>2. CASE stop(n) /\ UNCHANGED network
  BY <1>1, <1>2, StopSafe DEF network
<1>3. ASSUME queue' = [queue EXCEPT ![n] = Tail(@)], NEW T \in SUBSET {m},
             \A k \in Node : job'[k] \subseteq job[k],
             retry' = [retry EXCEPT ![n] = retry[n] \cup T], wire' = wire \cup T, log' = log \cup T,
             UNCHANGED <<up, acks>>
      PROVE  OInv'
  <2>1. \A k \in Node : queue'[k] \in Seq(RequestOf(k))
    BY <1>3, QueueRest
  <2>2. log' = log /\ wire' \subseteq log
    BY <1>1, <1>3 DEF OInv, Sent, InLog
  <2>3. \A k \in Node : retry'[k] \subseteq log /\ retry[k] \subseteq retry'[k]
    BY <1>1, <1>3 DEF OInv, TypeOK, Sent, InLog
  <2>4. calm
    BY <1>1, <1>3, <2>1, <2>2, <2>3 DEF calm, keepsBalance, OInv, OneOutcome
  <2> QED
    BY <1>1, <1>3, <2>3, <2>4, CalmIsSafe
<1>4. CASE again
  <2>1. emit(n, m, Tail(queue[n]))
    BY <1>4 DEF resend
  <2>2. CASE inMemory(n, m.t) \/ (m.type = "LockedTransfer" /\ applies(n, m))
    <3>1. /\ queue' = [queue EXCEPT ![n] = Tail(queue[n])]
          /\ job' = [job EXCEPT ![n] = {}]
          /\ retry' = [retry EXCEPT ![n] = retry[n] \cup S]
          /\ wire' = wire \cup S /\ log' = log \cup S /\ UNCHANGED <<up, acks>>
      BY <2>1, <2>2 DEF emit
    <3>2. \A k \in Node : job'[k] \subseteq job[k]
      BY <3>1 DEF OInv, TypeOK
    <3>3. S \in SUBSET {m}
      OBVIOUS
    <3> HIDE DEF S
    <3> QED
      BY <3>1, <3>2, <3>3, <1>3
  <2>3. CASE ~(inMemory(n, m.t) \/ (m.type = "LockedTransfer" /\ applies(n, m)))
    BY <1>2, <2>1, <2>3 DEF emit
  <2> QED
    BY <2>2, <2>3
<1>5. CASE ~again
  <2>1. queue' = [queue EXCEPT ![n] = Tail(queue[n])] /\ UNCHANGED <<job, retry, up, wire, acks, log>>
    BY <1>5 DEF resend, network
  <2>2. retry' = [retry EXCEPT ![n] = retry[n] \cup {}] /\ wire' = wire \cup {} /\ log' = log \cup {}
    BY <2>1 DEF OInv, TypeOK
  <2>3. {} \in SUBSET {m} /\ \A k \in Node : job'[k] \subseteq job[k]
    BY <2>1
  <2> QED
    BY <2>1, <2>2, <2>3, <1>3
<1> QED
  BY <1>4, <1>5

LEMMA TakeSafe ==
  ASSUME OInv, TypeOK', NEW n \in Node, TakeNext(n)
  PROVE  OInv'
<1> PICK t \in Transfer :
       sendTransferSigned(n, t) \/ sendTransferUnlocked(n, t) \/ sendTransferExpired(n, t)
  BY DEF TakeNext
<1>1. queue[n] # <<>> /\ Payer[t] = n /\ idle(n)
  <2> PICK op \in {"transfer", "unlock", "expire"} : takes(n, op, t)
    BY DEF sendTransferSigned, sendTransferUnlocked, sendTransferExpired
  <2>1. queue[n] # <<>> /\ Head(queue[n]).t = t /\ idle(n)
    BY DEF takes
  <2> QED
    BY <2>1, QueueIs
<1>2. CASE sendTransferSigned(n, t)
  BY <1>1, <1>2, SignSafe DEF sendTransferSigned, EnvelopeType
<1>3. CASE sendTransferUnlocked(n, t)
  <2>1. unlockable(n, t) \in BOOLEAN
    BY DEF unlockable
  <2>2. CASE sign(n, unlockable(n, t) /\ t \in own(n).locks, "Unlock", t)
    BY <1>1, <2>2, SignSafe DEF EnvelopeType
  <2>3. CASE \E m \in stored[n] : resend(n, unlockable(n, t), m)
    BY <1>1, <2>1, <2>3, ResendSafe
  <2> QED
    BY <1>3, <2>2, <2>3 DEF sendTransferUnlocked
<1>4. CASE sendTransferExpired(n, t)
  <2>1. CASE sign(n, /\ channel[n] = "open" /\ t \in past[n]
                     /\ t \in own(n).locks /\ ~has(n, t, "Unlock"), "LockExpired", t)
    BY <1>1, <2>1, SignSafe DEF EnvelopeType
  <2>2. CASE \E m \in stored[n] : resend(n, channel[n] = "open", m)
    BY <1>1, <2>2, ResendSafe
  <2> QED
    BY <1>4, <2>1, <2>2 DEF sendTransferExpired
<1> QED
  BY <1>2, <1>3, <1>4

LEMMA ReceiveSafe ==
  ASSUME OInv, TypeOK', NEW n \in Node, ReceiveNext(n)
  PROVE  OInv'
<1> PICK m \in wire :
       \/ receiveTransferSigned(n, m) \/ receiveTransferUnlocked(n, m)
       \/ receiveTransferExpired(n, m)
  BY DEF ReceiveNext
<1>1. /\ m.from = Peer[n] /\ accept(n, m)
      /\ known(n, m.t) <=> m.type # "LockedTransfer"
      /\ m.type # "LockedTransfer" => ~settled(n, m.t)
      /\ m.type = "LockExpired" => m.t \in past[n]
  BY DEF receiveTransferSigned, receiveTransferUnlocked, receiveTransferExpired, delivered, settled
<1>2. ~settled(n, m.t)
  BY <1>1 DEF OInv, Distinct, settled, has
<1>3. m \in log /\ m \in Envelope /\ m.from = Payer[m.t]
  BY DEF OInv, Sent, InLog, Owed, TypeOK
<1>4. /\ m.nonce = end[n][m.from].nextNonce /\ job' = [job EXCEPT ![n] = {m}]
      /\ UNCHANGED <<channel, end, stored, processed, cleared, seen, queue, retry, up, wire, acks, log,
                     past, registry>>
  BY <1>1 DEF accept, balanceProofFollows, partner, store, network, world, process
<1>5. \A k \in Node : queue'[k] \in Seq(RequestOf(k))
  BY <1>4 DEF OInv, Owed
<1> QED
  BY <1>1, <1>2, <1>3, <1>4, <1>5, TakenSafe

LEMMA EmitNextSafe ==
  ASSUME OInv, TypeOK', NEW n \in Node, EmitNext(n)
  PROVE  OInv'
<1> PICK m \in job[n] :
       \/ transferSigned(n, m) \/ transferUnlockSuccess(n, m) \/ transferExpireSuccess(n, m)
       \/ acknowledge(n, m)
  BY DEF EmitNext
<1>1. CASE transferSigned(n, m)
  BY <1>1, EmitSafe DEF transferSigned, signed, world
<1>2. CASE transferUnlockSuccess(n, m)
  <2>1. CASE unlockable(n, m.t)
    BY <1>2, <2>1, EmitSafe DEF transferUnlockSuccess, signed, world
  <2>2. CASE ~unlockable(n, m.t)
    <3>1. /\ job' = [job EXCEPT ![n] = {}]
          /\ UNCHANGED <<channel, end, stored, processed, cleared, seen, queue, retry, up, wire, acks, log,
                         past, registry>>
      BY <1>2, <2>2 DEF transferUnlockSuccess, network, world
    <3>2. \A k \in Node : job'[k] \subseteq job[k] /\ queue'[k] \in Seq(RequestOf(k))
      BY <3>1 DEF OInv, TypeOK, Owed
    <3> QED
      BY <3>1, <3>2, StillSafe DEF OInv, OneOutcome, Sent, InLog
  <2> QED
    BY <2>1, <2>2
<1>3. CASE transferExpireSuccess(n, m)
  BY <1>3, EmitSafe DEF transferExpireSuccess, signed, world
<1>4. CASE acknowledge(n, m)
  BY <1>4, AcknowledgeSafe
<1> QED
  BY <1>1, <1>2, <1>3, <1>4

-----------------------------------------------------------------------------
(***************************************************************************)
(* The steps outside the concatMap                                         *)
(***************************************************************************)

\* A request joins a queue
LEMMA EnqueueSafe ==
  ASSUME OInv, TypeOK', NEW n \in Node, NEW op \in {"transfer", "unlock", "expire"},
         NEW t \in Transfer, Payer[t] = n, enqueue(n, op, t)
  PROVE  OInv'
<1>1. [op |-> op, t |-> t] \in RequestOf(n)
  BY DEF RequestOf, Request
<1>2. queue[n] \in Seq(RequestOf(n))
  BY DEF OInv, Owed
<1>3. Append(queue[n], [op |-> op, t |-> t]) \in Seq(RequestOf(n))
  BY <1>1, <1>2
<1>4. \A k \in Node : queue'[k] \in Seq(RequestOf(k))
  BY <1>3 DEF enqueue, OInv, TypeOK, Owed
<1> QED
  BY <1>4, StillSafe DEF enqueue, store, network, world, process, OInv, OneOutcome, Sent, InLog

LEMMA ClearSafe ==
  ASSUME OInv, TypeOK', NEW n \in Node, NEW t \in Transfer, transferClear(n, t)
  PROVE  OInv'
<1>1. /\ cleared' = [cleared EXCEPT ![n] = cleared[n] \cup {t}] /\ completed(n, t)
      /\ UNCHANGED <<channel, end, stored, processed, seen, wire, acks, log, past, registry>>
      /\ stop(n) \/ UNCHANGED <<queue, job, retry, up>>
  BY DEF transferClear, network, world
<1>2. \A k \in Node : /\ retry'[k] \subseteq log /\ job'[k] \subseteq job[k]
                      /\ up'[k] => up[k] /\ retry[k] \subseteq retry'[k]
                      /\ queue'[k] \in Seq(RequestOf(k))
  <2>1. CASE stop(n)
    <3>1. <<>> \in Seq(RequestOf(n))
      OBVIOUS
    <3> QED
      BY <2>1, <3>1 DEF stop, OInv, TypeOK, Sent, InLog, Owed
  <2>2. CASE UNCHANGED <<queue, job, retry, up>>
    BY <2>2 DEF OInv, Sent, InLog, Owed
  <2> QED
    BY <1>1, <2>1, <2>2
<1>3. calm
  BY <1>1, <1>2 DEF calm, keepsBalance, OInv, Sent, InLog, OneOutcome
<1>4. Core'
  BY <1>3, CalmKeeps
<1>5. Retried'
  BY <1>1, <1>2, RetriedKeeps
<1>6. \A k \in Node : \A x \in cleared'[k] : completed(k, x)'
  <2>1. \A k \in Node : \A x : completed(k, x)' = completed(k, x)
    BY <1>1 DEF completed, hasProcessed
  <2> QED
    BY <2>1, <1>1 DEF OInv, Acked, TypeOK
<1>7. Acked'
  BY <1>1, <1>6 DEF OInv, Acked, known, has
<1> QED
  BY <1>1, <1>4, <1>5, <1>7 DEF OInv, Core, Sent

LEMMA TransferSafe ==
  ASSUME OInv, TypeOK', NEW n \in Node, NEW t \in Transfer, TransferNext(n, t)
  PROVE  OInv'
<1>1. CASE resolveTransfer(n, t) \/ transferSecretRevealed(n, t) \/ transferAutoExpire(n, t)
  BY <1>1, EnqueueSafe DEF resolveTransfer, transferSecretRevealed, transferAutoExpire
<1>2. CASE transferSecretReveal(n, t) \/ retrySecretReveal(n, t) \/ expires(n, t)
  <2>1. /\ UNCHANGED <<channel, end, stored, processed, cleared, seen, queue, job, retry, up, wire, acks, log,
                       registry>>
        /\ past' = past \/ past' = [past EXCEPT ![n] = past[n] \cup {t}]
    BY <1>2 DEF transferSecretReveal, retrySecretReveal, expires, store, epics, process, network, world
  <2>2. past \in [Node -> SUBSET Transfer]
    BY DEF OInv, TypeOK
  <2>3. \A k \in Node : past[k] \subseteq past'[k]
    BY <2>1, <2>2
  <2> QED
    BY <2>1, <2>3, StillSafe DEF OInv, OneOutcome, Sent, InLog, Owed
<1>3. CASE transferClear(n, t)
  BY <1>3, ClearSafe
<1>4. CASE transferSecretRegistered(n, t)
  <2>1. /\ UNCHANGED <<channel, stored, processed, cleared, queue, job, retry, up, wire, acks, log, past,
                       registry>>
        /\ t \in registry /\ seen' = [seen EXCEPT ![n] = seen[n] \cup {t}]
    BY <1>4 DEF transferSecretRegistered, epics, process, network, world
  <2> DEFINE p == Payer[t]
             e == end[n][p]
             f == [e EXCEPT !.registered = e.registered \cup ({t} \cap e.locks)]
  <2>2. p \in Node /\ e \in ChannelEnd /\ end' = [end EXCEPT ![n][p] = f]
    BY <1>4, TransferAssumption DEF transferSecretRegistered, OInv, TypeOK
  <2>3. \A k, o \in Node : keepsBalance(k, o)
    BY <2>2, OneEndKept DEF ChannelEnd, OInv
  <2>4. \A k \in Node : seen[k] \subseteq seen'[k] /\ seen'[k] \subseteq registry
    BY <2>1 DEF OInv, OneOutcome, TypeOK
  <2>5. calm
    BY <2>1, <2>3, <2>4 DEF calm, OInv, OneOutcome, Sent, InLog, Owed
  <2> QED
    BY <2>1, <2>4, <2>5, CalmIsSafe
<1> QED
  BY <1>1, <1>2, <1>3, <1>4 DEF TransferNext

\* A LockedTransfer is acknowledged before its outcome is
LEMMA LockedIsApplied ==
  ASSUME OInv, NEW n \in Node, NEW m \in stored[n], m.from = n, m.type = "LockedTransfer",
         NEW p \in processed[n], p.t = m.t, p.type # "LockedTransfer"
  PROVE  m \in stored[Peer[n]]
<1>1. p \in log /\ m \in log /\ m.from = Payer[m.t] /\ p.from = n /\ Peer[n] \in Node
  BY PeerAssumption DEF OInv, Sent, InLog, Owed
<1>2. PICK q \in stored[Peer[n]] : q.t = m.t /\ q.type = "LockedTransfer"
  BY <1>1 DEF OInv, Acked, known, has
<1>3. q \in log /\ q.from = n
  BY <1>1, <1>2 DEF OInv, Sent, InLog, Owed
<1>4. q \in stored[n]
  BY <1>2, <1>3 DEF OInv, Kept
<1>5. q = m
  BY <1>2, <1>4 DEF OInv, Distinct
<1> QED
  BY <1>2, <1>5

\* A restart takes up again all that was not applied and not acknowledged
LEMMA RestartSafe ==
  ASSUME OInv, TypeOK', NEW n \in Node, restart(n)
  PROVE  OInv'
<1> DEFINE S == pendingEnvelopes(n)
<1>1. /\ up' = [up EXCEPT ![n] = TRUE] /\ retry' = [retry EXCEPT ![n] = S] /\ wire' = wire \cup S
      /\ UNCHANGED <<channel, end, stored, processed, cleared, seen, queue, job, acks, log, past, registry>>
  BY DEF restart, store, world
<1>2. S \subseteq stored[n]
  BY DEF pendingEnvelopes
<1>3. ASSUME NEW m \in stored[n], m.from = n, channel[n] # "closed", m \notin stored[Peer[n]],
             m \notin processed[n], m.t \notin seen[n]
      PROVE  m \in S
  <2>1. ~completed(n, m.t)
    <3> SUFFICES ASSUME NEW p \in processed[n], p.t = m.t, p.type \in {"Unlock", "LockExpired"}
                 PROVE FALSE
      BY DEF completed, hasProcessed
    <3>1. m.type # "LockedTransfer"
      BY <1>3, LockedIsApplied
    <3>2. p.from = n
      BY <1>3 DEF OInv, Sent, InLog, Owed
    <3>3. p \in stored[n]
      BY <3>2 DEF OInv, Acked
    <3> QED
      BY <1>3, <3>1, <3>3 DEF OInv, Distinct
  <2>2. inMemory(n, m.t)
    BY <2>1 DEF inMemory, OInv, Acked, Distinct
  <2> QED
    BY <1>3, <2>1, <2>2 DEF pendingEnvelopes
<1> HIDE DEF S
<1>4. /\ retry'[n] = S /\ \A k \in Node : k # n => up'[k] = up[k] /\ retry'[k] = retry[k]
  BY <1>1 DEF OInv, TypeOK
<1>5. calm
  BY <1>1, <1>2, <1>4 DEF calm, keepsBalance, OInv, Sent, InLog, Owed, OneOutcome
<1>6. Core'
  BY <1>5, CalmKeeps
<1>7. Acked' /\ acks' \subseteq log' /\ \A k \in Node : processed'[k] \subseteq log'
  BY <1>1, AckedKeeps
<1>8. Retried'
  BY <1>1, <1>3, <1>4 DEF OInv, Retried
<1> QED
  BY <1>6, <1>7, <1>8 DEF OInv, Core, Sent

\* A Processed is sent again, or received
LEMMA ProcessedSafe ==
  ASSUME OInv, TypeOK', NEW n \in Node,
         (\E m \in wire : receiveAgain(n, m)) \/ (\E m \in acks : transferProcessedReceived(n, m))
  PROVE  OInv'
<1>1. ASSUME NEW m \in wire, receiveAgain(n, m) PROVE OInv'
  <2>1. /\ UNCHANGED <<channel, end, stored, processed, cleared, seen, queue, job, retry, up, wire, log, past,
                       registry>>
        /\ acks' = acks \cup {m} /\ m \in stored[n] /\ m.from = Peer[n] /\ m \in log
    BY <1>1 DEF receiveAgain, delivered, store, epics, process, world, OInv, Sent, InLog
  <2>2. known(Peer[m.from], m.t)
    BY <2>1, PeerAssumption DEF OInv, Distinct
  <2>3. Acked'
    BY <2>1, <2>2 DEF OInv, Acked, known, has, completed, hasProcessed
  <2>4. calm
    BY <2>1 DEF calm, keepsBalance, OInv, Sent, InLog, Owed, OneOutcome
  <2> QED
    BY <2>1, <2>3, <2>4, CalmKeeps, RetriedKeeps DEF OInv, Core, Sent
<1>2. ASSUME NEW m \in acks, transferProcessedReceived(n, m) PROVE OInv'
  <2>1. /\ UNCHANGED <<channel, end, stored, cleared, seen, queue, job, retry, up, wire, acks, log, past,
                       registry>>
        /\ processed' = [processed EXCEPT ![n] = processed[n] \cup {m}] /\ m \in stored[n] /\ m.from = n
        /\ m \in log
    BY <1>2 DEF transferProcessedReceived, epics, process, network, world, OInv, Sent
  <2>2. /\ processed'[n] = processed[n] \cup {m}
        /\ \A k \in Node : k # n => processed'[k] = processed[k]
    BY <2>1 DEF OInv, TypeOK
  <2>3. m.type # "LockedTransfer" => known(Peer[n], m.t)
    BY <2>1 DEF OInv, Acked
  <2>4. Acked'
    <3>1. \A k \in Node : \A t : (known(k, t)' <=> known(k, t)) /\ (completed(k, t) => completed(k, t)')
      BY <2>1, <2>2 DEF known, has, completed, hasProcessed
    <3>2. \A k \in Node : Peer[k] \in Node
      BY PeerAssumption
    <3>3. \A q \in acks : Peer[q.from] \in Node
      BY <3>2, FromIsNode DEF OInv, Sent
    <3> QED
      BY <2>1, <2>2, <2>3, <3>1, <3>2, <3>3 DEF OInv, Acked
  <2>5. calm
    BY <2>1 DEF calm, keepsBalance, OInv, Sent, InLog, Owed, OneOutcome
  <2>6. Retried'
    BY <2>1, <2>2, RetriedKeeps
  <2> QED
    BY <2>1, <2>2, <2>4, <2>5, <2>6, CalmKeeps DEF OInv, Core, Sent
<1> QED
  BY <1>1, <1>2

\* Only a channel that isn't closed is being closed
ClosingOnce == \A n \in closing : channel[n] = "closing"

LEMMA ChannelSafe ==
  ASSUME OInv, ClosingOnce, TypeOK', NEW n \in Node,
         \/ channelCloseRequest(n) \/ channelCloseFailure(n)
         \/ closeChannel(n) \/ channelCloseSuccess(n)
  PROVE  OInv'
<1>1. UNCHANGED <<end, stored, processed, cleared, seen, queue, job, retry, up, wire, acks, log, past, registry>>
  BY DEF channelCloseRequest, channelCloseFailure, closeChannel, channelCloseSuccess, store, network, world
<1>2. \A k \in Node : /\ CloseFails \/ (channel'[k] = "open" => channel[k] = "open")
                      /\ channel[k] = "closed" => channel'[k] = "closed"
  BY DEF channelCloseRequest, channelCloseFailure, closeChannel, channelCloseSuccess, store, ClosingOnce,
         OInv, TypeOK
<1>3. calm
  BY <1>1, <1>2 DEF calm, keepsBalance, OInv, Sent, InLog, Owed, OneOutcome
<1> QED
  BY <1>1, <1>2, <1>3, CalmIsSafe

LEMMA NodeSafe ==
  ASSUME OInv, ClosingOnce, TypeOK', NEW n \in Node, NodeNext(n)
  PROVE  OInv'
<1>1. CASE \E m \in retry[n] : retryMessage(n, m)
  <2> PICK m \in retry[n] : retryMessage(n, m)
    BY <1>1
  <2>1. /\ UNCHANGED <<channel, end, stored, processed, cleared, seen, queue, job, retry, up, acks, log, past,
                       registry>>
        /\ wire' = wire \cup {m}
    BY DEF retryMessage, store, epics, process, world
  <2>2. wire' \subseteq log
    BY <2>1 DEF OInv, Sent, InLog
  <2> QED
    BY <2>1, <2>2, StillSafe DEF OInv, OneOutcome, Owed
<1>2. CASE signatureFails(n)
  <2>1. /\ UNCHANGED <<channel, end, stored, processed, cleared, seen, queue, retry, up, wire, acks, log, past,
                       registry>>
        /\ job' = [job EXCEPT ![n] = {}]
    BY <1>2 DEF signatureFails, store, network, world, process
  <2>2. \A k \in Node : job'[k] \subseteq job[k]
    BY <2>1 DEF OInv, TypeOK
  <2> QED
    BY <2>1, <2>2, StillSafe DEF OInv, OneOutcome, Owed, Sent, InLog
<1>3. CASE crash(n)
  BY <1>3, StopSafe DEF crash, store, network, world
<1>4. CASE \E m \in Node : channelDeposited(n, m)
  <2> PICK m \in Node : channelDeposited(n, m)
    BY <1>4
  <2> DEFINE e == end[n][m]
             f == [e EXCEPT !.deposit = Deposit[m]]
  <2>1. /\ end' = [end EXCEPT ![n][m] = f]
        /\ UNCHANGED <<channel, stored, processed, cleared, seen, queue, job, retry, up, wire, acks, log, past,
                       registry>>
    BY DEF channelDeposited, epics, process, network, world
  <2>2. e \in ChannelEnd
    BY DEF OInv, TypeOK
  <2>3. \A k, o \in Node : keepsBalance(k, o)
    BY <2>1, <2>2, OneEndKept DEF ChannelEnd, OInv
  <2>4. calm
    BY <2>1, <2>3 DEF calm, OInv, Sent, InLog, Owed, OneOutcome
  <2> QED
    BY <2>1, <2>4, CalmIsSafe
<1> QED
  BY <1>1, <1>2, <1>3, <1>4, ProcessedSafe, RestartSafe, ChannelSafe DEF NodeNext

-----------------------------------------------------------------------------
(***************************************************************************)
(* The invariant                                                           *)
(***************************************************************************)

LEMMA InitSafe == Init => OInv /\ ClosingOnce
<1> SUFFICES ASSUME Init PROVE OInv /\ ClosingOnce
  OBVIOUS
<1>1. TypeOK
  BY InitType
<1>2. \A n \in Node : own(n).locks = {}
  BY DEF Init, own, emptyChannelEnd
<1>3. \A n \in Node : queue[n] \in Seq(RequestOf(n))
  <2> TAKE n \in Node
  <2>1. <<>> \in Seq(RequestOf(n))
    OBVIOUS
  <2>2. queue[n] = <<>>
    BY DEF Init
  <2> QED
    BY <2>1, <2>2
<1>4. Owed /\ Sent /\ News
  BY <1>3 DEF Init, Owed, Sent, InLog, News
<1>5. Unsettled /\ Distinct /\ Kept
  BY <1>2 DEF Init, Unsettled, Distinct, Kept
<1>6. OneOutcome /\ Acked /\ Retried /\ ClosingOnce
  BY DEF Init, OneOutcome, Acked, Retried, ClosingOnce
<1> QED
  BY <1>1, <1>4, <1>5, <1>6 DEF OInv

\* Where neither a channel nor the set of closings changes, or a client stops
LEMMA ClosingStays ==
  ASSUME ClosingOnce, channel' = channel, closing' \subseteq closing
  PROVE  ClosingOnce'
BY DEF ClosingOnce

LEMMA EmitClosing ==
  ASSUME NEW n, NEW m, NEW rest, emit(n, m, rest)
  PROVE  closing' \subseteq closing
BY DEF emit, stop

LEMMA ClosingNext ==
  ASSUME OInv, ClosingOnce, [Next]_vars
  PROVE  ClosingOnce'
<1>1. ASSUME NEW n \in Node, NEW t \in Transfer, TransferNext(n, t)
      PROVE  channel' = channel /\ closing' \subseteq closing
  <2>1. CASE transferClear(n, t)
    BY <2>1 DEF transferClear, stop
  <2>2. CASE ~transferClear(n, t)
    BY <1>1, <2>2 DEF TransferNext, resolveTransfer, transferSecretRevealed, transferAutoExpire, enqueue,
       transferSecretReveal, retrySecretReveal, expires, transferSecretRegistered, store, epics, process
  <2> QED
    BY <2>1, <2>2
<1>2. ASSUME NEW n \in Node, TakeNext(n)
      PROVE  channel' = channel /\ closing' \subseteq closing
  <2>1. ASSUME NEW m, NEW allowed, resend(n, allowed, m) PROVE channel' = channel /\ closing' \subseteq closing
    BY <2>1, EmitClosing DEF resend, store
  <2>2. ASSUME NEW t, NEW type, NEW allowed, sign(n, allowed, type, t)
        PROVE  channel' = channel /\ closing' \subseteq closing
    BY <2>2 DEF sign, store, process
  <2> QED
    BY <1>2, <2>1, <2>2 DEF TakeNext, sendTransferSigned, sendTransferUnlocked, sendTransferExpired
<1>3. ASSUME NEW n \in Node, EmitNext(n)
      PROVE  channel' = channel /\ closing' \subseteq closing
  BY <1>3, EmitClosing
  DEF EmitNext, transferSigned, transferUnlockSuccess, transferExpireSuccess, acknowledge, stop
<1>4. ASSUME NEW n \in Node, ReceiveNext(n)
      PROVE  channel' = channel /\ closing' \subseteq closing
  BY <1>4 DEF ReceiveNext, receiveTransferSigned, receiveTransferUnlocked, receiveTransferExpired, accept,
     store, process
<1>5. ASSUME NEW n \in Node, NodeNext(n) PROVE ClosingOnce'
  <2>1. CASE (\E m \in wire : receiveAgain(n, m)) \/ (\E m \in acks : transferProcessedReceived(n, m))
    BY <2>1, ClosingStays DEF receiveAgain, transferProcessedReceived, store, epics, process
  <2>2. CASE (\E m \in retry[n] : retryMessage(n, m)) \/ signatureFails(n) \/ crash(n) \/ restart(n)
    BY <2>2, ClosingStays DEF retryMessage, signatureFails, crash, restart, stop, store, epics, process
  <2>3. CASE \E m \in Node : channelDeposited(n, m)
    BY <2>3, ClosingStays DEF channelDeposited, epics, process
  <2>4. CASE channelCloseRequest(n) \/ channelCloseFailure(n) \/ closeChannel(n) \/ channelCloseSuccess(n)
    BY <2>4 DEF channelCloseRequest, channelCloseFailure, closeChannel, channelCloseSuccess, store, ClosingOnce,
       OInv, TypeOK
  <2> QED
    BY <1>5, <2>1, <2>2, <2>3, <2>4 DEF NodeNext
<1>6. CASE (\E t \in Transfer : secretRegistered(t)) \/ lose \/ UNCHANGED vars
  BY <1>6, ClosingStays DEF secretRegistered, lose, vars, store, epics, process
<1> QED
  BY <1>1, <1>2, <1>3, <1>4, <1>5, <1>6, ClosingStays DEF Next

LEMMA NextSafe ==
  ASSUME OInv, ClosingOnce, [Next]_vars
  PROVE  OInv' /\ ClosingOnce'
<1>1. TypeOK'
  BY NextType DEF OInv
<1>2. CASE \E n \in Node : \/ \E t \in Transfer : TransferNext(n, t)
                           \/ TakeNext(n) \/ EmitNext(n) \/ ReceiveNext(n) \/ NodeNext(n)
  BY <1>1, <1>2, ClosingNext, TransferSafe, TakeSafe, EmitNextSafe, ReceiveSafe, NodeSafe
<1>3. CASE \E t \in Transfer : secretRegistered(t)
  <2>1. /\ UNCHANGED <<channel, end, stored, processed, cleared, seen, queue, job, retry, up, wire, acks, log,
                       past>>
        /\ registry \subseteq registry' /\ registry' \subseteq Registrable
    BY <1>3 DEF secretRegistered, store, epics, process, network, OInv, OneOutcome
  <2> QED
    BY <1>1, <2>1, ClosingNext, StillSafe DEF OInv, Owed, Sent, InLog
<1>4. CASE lose
  <2>1. /\ UNCHANGED <<channel, end, stored, processed, cleared, seen, queue, job, retry, up, log, past, registry>>
        /\ wire' \subseteq wire /\ acks' \subseteq acks
    BY <1>4 DEF lose, store, epics, process, world
  <2> QED
    BY <1>1, <2>1, ClosingNext, StillSafe DEF OInv, Owed, Sent, InLog, OneOutcome
<1>5. CASE UNCHANGED vars
  BY <1>1, <1>5, ClosingNext, StillSafe DEF vars, OInv, Owed, Sent, InLog, OneOutcome
<1> QED
  BY <1>2, <1>3, <1>4, <1>5 DEF Next

\* In every reachable state the invariant holds, whether or not closing a channel may fail
THEOREM OutcomeInvariant == Spec => [](OInv /\ ClosingOnce)
BY InitSafe, NextSafe, PTL DEF Spec

\* What a payer stored, and its payee neither applied nor acknowledged, is in a retry loop that isn't
\* stopped: across crashes, shutdowns, failed closings and closings of the payee, so that the payee never
\* waits for a nonce in vain
THEOREM UnackedMessagesAreRetried == Spec => []UnackedIsRetried
<1>1. ASSUME OInv PROVE UnackedIsRetried
  <2> SUFFICES ASSUME NEW n \in Node, NEW m \in stored[n], up[n], m.from = n,
                      channel[n] = "open", m \notin stored[Peer[n]], m \notin processed[n], m.t \notin seen[n]
               PROVE  m \in retry[n] /\ ~stopped(n, m)
    BY DEF UnackedIsRetried
  <2>1. m \in retry[n]
    BY <1>1 DEF OInv, Retried
  <2>2. \A p \in processed[n] : p.t = m.t => p.from = n /\ p \in stored[n]
    BY <1>1 DEF OInv, Sent, InLog, Owed, Acked
  <2>3. ~hasProcessed(n, m.t, m.type)
    BY <1>1, <2>2 DEF hasProcessed, OInv, Distinct
  <2>4. m.type = "LockedTransfer" => ~completed(n, m.t)
    BY <1>1, LockedIsApplied DEF completed, hasProcessed
  <2> QED
    BY <2>1, <2>3, <2>4 DEF stopped
<1> QED
  BY OutcomeInvariant, <1>1, PTL

-----------------------------------------------------------------------------
(***************************************************************************)
(* What a step sends and applies                                           *)
(***************************************************************************)

\* n sends m, which it was signing, and stores it unless its reducer ignores a LockExpired
sending(n, m) ==
  /\ m.from = n /\ log' = log \cup {m}
  /\ \/ stored' = [stored EXCEPT ![n] = stored[n] \cup {m}]
     \/ m.type = "LockExpired" /\ UNCHANGED stored

\* n applies m of its partner, which it was acknowledging
following(n, m) ==
  m.from = Peer[n] /\ UNCHANGED log /\ stored' = [stored EXCEPT ![n] = stored[n] \cup {m}]

LEMMA EmitSends ==
  ASSUME OInv, NEW n \in Node, NEW m \in job[n], m.from = n,
         transferEnvelopeReducer(n, m), emit(n, m, queue[n]),
         m.type = "Unlock" => unlockable(n, m.t)
  PROVE  UNCHANGED <<stored, log>> \/ sending(n, m)
<1>1. /\ m.type \in EnvelopeType /\ ~settled(n, m.t) /\ (known(n, m.t) <=> m.type # "LockedTransfer")
      /\ m.nonce = end[n][m.from].nextNonce
  BY DEF OInv, News, TypeOK, Envelope
<1>2. CASE applies(n, m)
  <2>1. stored' = [stored EXCEPT ![n] = stored[n] \cup {m}]
    BY <1>2, AppliedIs
  <2>2. channel[n] = "open" /\ (inMemory(n, m.t) \/ m.type = "LockedTransfer")
    BY <1>2 DEF applies
  <2>3. log' = log \cup {m}
    BY <1>2, <2>2 DEF emit
  <2> QED
    BY <2>1, <2>3 DEF sending
<1>3. CASE ~applies(n, m)
  <2>1. UNCHANGED stored
    BY <1>3 DEF transferEnvelopeReducer
  <2>2. CASE inMemory(n, m.t)
    <3>1. m.type # "LockedTransfer" /\ channel[n] # "open"
      BY <1>1, <1>3, <2>2 DEF applies, inMemory, settled, EnvelopeType
    <3>2. m.type = "LockExpired"
      BY <3>1, <1>1 DEF unlockable, EnvelopeType
    <3>3. log' = log \cup {m} \/ log' = log
      BY <2>2 DEF emit
    <3> QED
      BY <2>1, <3>2, <3>3 DEF sending
  <2>3. CASE ~inMemory(n, m.t)
    BY <1>3, <2>1, <2>3 DEF emit, network
  <2> QED
    BY <2>2, <2>3
<1> QED
  BY <1>2, <1>3

LEMMA StepIs ==
  ASSUME OInv, [Next]_vars
  PROVE  \/ UNCHANGED <<stored, log>>
         \/ \E n \in Node : \E m \in job[n] : sending(n, m) \/ following(n, m)
<1>1. ASSUME NEW n \in Node, NEW t \in Transfer, TransferNext(n, t)
      PROVE  UNCHANGED <<stored, log>>
  BY <1>1 DEF TransferNext, resolveTransfer, transferSecretRevealed, transferAutoExpire, enqueue,
     transferSecretReveal, retrySecretReveal, transferClear, expires, transferSecretRegistered, store, network
<1>2. ASSUME NEW n \in Node, TakeNext(n)
      PROVE  UNCHANGED <<stored, log>>
  <2>1. ASSUME NEW m \in stored[n], NEW allowed, resend(n, allowed, m) PROVE UNCHANGED <<stored, log>>
    <3>1. m \in log /\ UNCHANGED stored
      BY <2>1 DEF resend, store, OInv, Sent, InLog
    <3>2. log' = log \/ log' = log \cup {m} \/ log' = log \cup {}
      BY <2>1 DEF resend, emit, network
    <3> QED
      BY <3>1, <3>2
  <2>2. ASSUME NEW t, NEW type, NEW allowed, sign(n, allowed, type, t)
        PROVE  UNCHANGED <<stored, log>>
    BY <2>2 DEF sign, store, network
  <2> QED
    BY <1>2, <2>1, <2>2 DEF TakeNext, sendTransferSigned, sendTransferUnlocked, sendTransferExpired
<1>3. ASSUME NEW n \in Node, EmitNext(n)
      PROVE  UNCHANGED <<stored, log>> \/ \E m \in job[n] : sending(n, m) \/ following(n, m)
  <2> PICK m \in job[n] :
         \/ transferSigned(n, m) \/ transferUnlockSuccess(n, m) \/ transferExpireSuccess(n, m)
         \/ acknowledge(n, m)
    BY <1>3 DEF EmitNext
  <2>1. CASE transferSigned(n, m) \/ transferExpireSuccess(n, m)
    BY <2>1, EmitSends DEF transferSigned, transferExpireSuccess, signed
  <2>2. CASE transferUnlockSuccess(n, m)
    <3>1. CASE unlockable(n, m.t)
      BY <2>2, <3>1, EmitSends DEF transferUnlockSuccess, signed
    <3>2. CASE ~unlockable(n, m.t)
      BY <2>2, <3>2 DEF transferUnlockSuccess, network
    <3> QED
      BY <3>1, <3>2
  <2>3. CASE acknowledge(n, m)
    <3>1. m.from = Peer[n] /\ transferEnvelopeReducer(n, m) /\ UNCHANGED log
      BY <2>3 DEF acknowledge, network
    <3>2. UNCHANGED stored \/ stored' = [stored EXCEPT ![n] = stored[n] \cup {m}]
      BY <3>1 DEF transferEnvelopeReducer
    <3> QED
      BY <3>1, <3>2 DEF following
  <2> QED
    BY <2>1, <2>2, <2>3
<1>4. ASSUME NEW n \in Node, ReceiveNext(n)
      PROVE  UNCHANGED <<stored, log>>
  BY <1>4 DEF ReceiveNext, receiveTransferSigned, receiveTransferUnlocked, receiveTransferExpired, accept,
     store, network
<1>5. ASSUME NEW n \in Node, NodeNext(n)
      PROVE  UNCHANGED <<stored, log>>
  <2>1. CASE (\E m \in wire : receiveAgain(n, m)) \/ (\E m \in acks : transferProcessedReceived(n, m))
    BY <2>1 DEF receiveAgain, transferProcessedReceived, store, network
  <2>2. CASE (\E m \in retry[n] : retryMessage(n, m)) \/ signatureFails(n) \/ crash(n) \/ restart(n)
    BY <2>2 DEF retryMessage, signatureFails, crash, restart, store, network
  <2>3. CASE \E m \in Node : channelDeposited(n, m)
    BY <2>3 DEF channelDeposited, network
  <2>4. CASE channelCloseRequest(n) \/ channelCloseFailure(n) \/ closeChannel(n) \/ channelCloseSuccess(n)
    BY <2>4 DEF channelCloseRequest, channelCloseFailure, closeChannel, channelCloseSuccess, store, network
  <2> QED
    BY <1>5, <2>1, <2>2, <2>3, <2>4 DEF NodeNext
<1>6. CASE (\E t \in Transfer : secretRegistered(t)) \/ lose \/ UNCHANGED vars
  BY <1>6 DEF secretRegistered, lose, vars, store, network
<1> QED
  BY <1>1, <1>2, <1>3, <1>4, <1>5, <1>6 DEF Next

-----------------------------------------------------------------------------
(***************************************************************************)
(* Refinement: payer and payee of a transfer settle it as promised         *)
(***************************************************************************)

LEMMA StageIs ==
  ASSUME NEW S, NEW t
  PROVE  /\ (\E m \in S : m.t = t /\ m.type = "Unlock") => stage(S, t) = "paid"
         /\ /\ \A m \in S : m.t = t => m.type # "Unlock"
            /\ \E m \in S : m.t = t /\ m.type = "LockExpired"
            => stage(S, t) = "returned"
         /\ /\ \A m \in S : m.t = t => m.type = "LockedTransfer"
            /\ \E m \in S : m.t = t
            => stage(S, t) = "locked"
         /\ (\A m \in S : m.t # t) => stage(S, t) = "none"
BY DEF stage

LEMMA StageSame ==
  ASSUME NEW S, NEW m, NEW t, t # m.t
  PROVE  stage(S \cup {m}, t) = stage(S, t)
BY DEF stage

payerStages == [t \in Transfer |-> stage(log, t)]
payeeStages == [t \in Transfer |-> stage(stored[Peer[Payer[t]]], t)]

\* A payer that sends a message locks the transfer, settles it, or sends its LockExpired once more
LEMMA SendingStages ==
  ASSUME OInv, OInv', Decided, NEW n \in Node, NEW m \in job[n], sending(n, m)
  PROVE  /\ payeeStages' = payeeStages
         /\ \/ payerStages' = payerStages
            \/ /\ payerStages[m.t] = "none"
               /\ payerStages' = [payerStages EXCEPT ![m.t] = "locked"]
            \/ /\ payerStages[m.t] = "locked"
               /\ \E outcome \in {"paid", "returned"} :
                     payerStages' = [payerStages EXCEPT ![m.t] = outcome]
<1>1. /\ m.t \in Transfer /\ m.type \in EnvelopeType /\ Payer[m.t] = n /\ ~settled(n, m.t) /\ m.from = n
      /\ known(n, m.t) <=> m.type # "LockedTransfer"
      /\ log' = log \cup {m} /\ m \in log'
  BY DEF OInv, News, Owed, TypeOK, Envelope, sending
<1>2. payeeStages' = payeeStages
  <2>1. \A t \in Transfer : stored'[Peer[Payer[t]]] = stored[Peer[Payer[t]]]
                            \/ (stored'[Peer[Payer[t]]] = stored[Peer[Payer[t]]] \cup {m} /\ t # m.t)
    <3> TAKE t \in Transfer
    <3> DEFINE k == Peer[Payer[t]]
    <3>1. k \in Node /\ (t = m.t => k # n)
      BY <1>1, PeerAssumption, TransferAssumption
    <3>2. UNCHANGED stored \/ (stored'[n] = stored[n] \cup {m} /\ \A j \in Node : j # n => stored'[j] = stored[j])
      BY DEF sending, OInv, TypeOK
    <3> HIDE DEF k
    <3>3. stored'[k] = stored[k] \/ (stored'[k] = stored[k] \cup {m} /\ t # m.t)
      BY <3>1, <3>2
    <3> QED
      BY <3>3 DEF k
  <2>2. \A t \in Transfer : stage(stored'[Peer[Payer[t]]], t) = stage(stored[Peer[Payer[t]]], t)
    BY <2>1, StageSame
  <2> QED
    BY <2>2 DEF payeeStages
<1>3. \A t \in Transfer : t # m.t => payerStages'[t] = payerStages[t]
  BY <1>1, StageSame DEF payerStages
<1>4. \A s : payerStages'[m.t] = s => payerStages' = [payerStages EXCEPT ![m.t] = s]
  BY <1>1, <1>3 DEF payerStages
<1>5. payerStages'[m.t] = payerStages[m.t] => payerStages' = payerStages
  BY <1>3 DEF payerStages
<1>6. \A p \in log : p.t = m.t => known(n, m.t) /\ (p \in stored[n] \/ p.type = "LockExpired")
  BY <1>1 DEF OInv, Kept, Owed
<1>7. \A p \in log : p.t = m.t => p.type \in {"LockedTransfer", "LockExpired"}
  <2> SUFFICES ASSUME NEW p \in log, p.t = m.t, p.type = "Unlock" PROVE FALSE
    BY DEF OInv, TypeOK, Envelope, EnvelopeType
  <2>1. p \in stored[n]
    BY <1>6
  <2> QED
    BY <2>1, <1>1 DEF settled, has
<1>8. payerStages[m.t] = stage(log, m.t) /\ payerStages'[m.t] = stage(log', m.t)
  BY <1>1 DEF payerStages
<1>9. CASE m.type = "LockedTransfer"
  <2>1. \A p \in log : p.t # m.t
    BY <1>1, <1>6, <1>9
  <2>2. stage(log, m.t) = "none"
    BY <2>1, StageIs
  <2>3. stage(log', m.t) = "locked"
    BY <1>1, <1>9, <2>1, StageIs
  <2> QED
    BY <1>2, <1>4, <1>8, <2>2, <2>3
<1>10. CASE m.type # "LockedTransfer"
  <2>1. PICK q \in log : q.t = m.t /\ q.type = "LockedTransfer"
    BY <1>1, <1>10 DEF known, has, OInv, Sent, InLog
  <2>2. CASE \A p \in log : p.t = m.t => p.type = "LockedTransfer"
    <3>1. stage(log, m.t) = "locked"
      BY <2>1, <2>2, StageIs
    <3>2. stage(log', m.t) \in {"paid", "returned"}
      <4>1. CASE m.type = "Unlock"
        BY <1>1, <4>1, StageIs
      <4>2. CASE m.type = "LockExpired"
        <5>1. \A p \in log' : p.t = m.t => p.type # "Unlock"
          BY <1>1, <2>2, <4>2
        <5> QED
          BY <1>1, <4>2, <5>1, StageIs
      <4> QED
        BY <1>1, <1>10, <4>1, <4>2 DEF EnvelopeType
    <3> QED
      BY <1>2, <1>4, <1>8, <3>1, <3>2
  <2>3. CASE ~ \A p \in log : p.t = m.t => p.type = "LockedTransfer"
    <3>1. PICK p \in log : p.t = m.t /\ p.type = "LockExpired"
      BY <1>7, <2>3
    <3>2. m.type = "LockExpired"
      BY <1>1, <1>10, <3>1 DEF OInv, OneOutcome, EnvelopeType
    <3>3. stage(log, m.t) = "returned"
      BY <1>7, <3>1, StageIs
    <3>4. \A r \in log' : r.t = m.t => r.type # "Unlock"
      BY <1>1, <1>7, <3>2
    <3>5. stage(log', m.t) = "returned"
      BY <1>1, <3>2, <3>4, StageIs
    <3> QED
      BY <1>2, <1>5, <1>8, <3>3, <3>5
  <2> QED
    BY <2>2, <2>3
<1> QED
  BY <1>9, <1>10

\* A payee that applies a message learns of the lock, or of the outcome the payer sent
LEMMA FollowingStages ==
  ASSUME OInv, Decided, NEW n \in Node, NEW m \in job[n], following(n, m)
  PROVE  /\ payerStages' = payerStages
         /\ \/ /\ payeeStages[m.t] = "none" /\ payerStages[m.t] # "none"
               /\ payeeStages' = [payeeStages EXCEPT ![m.t] = "locked"]
            \/ /\ payeeStages[m.t] = "locked" /\ payerStages[m.t] \in {"paid", "returned"}
               /\ payeeStages' = [payeeStages EXCEPT ![m.t] = payerStages[m.t]]
<1>1. /\ m.t \in Transfer /\ m.type \in EnvelopeType /\ Payer[m.t] = Peer[n] /\ ~settled(n, m.t)
      /\ known(n, m.t) <=> m.type # "LockedTransfer"
      /\ Peer[Payer[m.t]] = n /\ m \in log
  BY PeerAssumption DEF OInv, News, Owed, Sent, InLog, TypeOK, Envelope, following
<1>2. payerStages' = payerStages
  BY DEF payerStages, following
<1>3. stored'[n] = stored[n] \cup {m} /\ \A k \in Node : k # n => stored'[k] = stored[k]
  BY DEF following, OInv, TypeOK
<1>4. \A t \in Transfer : t # m.t => payeeStages'[t] = payeeStages[t]
  <2> TAKE t \in Transfer
  <2> DEFINE k == Peer[Payer[t]]
  <2>1. k \in Node
    BY PeerAssumption, TransferAssumption
  <2>2. stored'[k] = stored[k] \/ stored'[k] = stored[k] \cup {m}
    BY <1>3, <2>1
  <2>3. t # m.t => stage(stored'[k], t) = stage(stored[k], t)
    BY <2>2, StageSame
  <2> QED
    BY <2>3 DEF payeeStages
<1>5. \A s : payeeStages'[m.t] = s => payeeStages' = [payeeStages EXCEPT ![m.t] = s]
  BY <1>1, <1>4 DEF payeeStages
<1>6. /\ payeeStages[m.t] = stage(stored[n], m.t) /\ payeeStages'[m.t] = stage(stored'[n], m.t)
      /\ payerStages[m.t] = stage(log, m.t)
  BY <1>1 DEF payeeStages, payerStages
<1>7. \A p \in stored[n] : p.t = m.t => p.type = "LockedTransfer"
  BY <1>1 DEF settled, has, OInv, TypeOK, Envelope, EnvelopeType
<1>8. CASE m.type = "LockedTransfer"
  <2>1. \A p \in stored[n] : p.t # m.t
    BY <1>1, <1>8 DEF OInv, Distinct
  <2>2. stage(stored[n], m.t) = "none"
    BY <2>1, StageIs
  <2>3. stage(stored'[n], m.t) = "locked"
    BY <1>3, <1>8, <2>1, StageIs
  <2>4. stage(log, m.t) # "none"
    <3>1. \A p \in log : p.t = m.t => p.type \in EnvelopeType
      BY DEF OInv, TypeOK, Envelope
    <3> QED
      BY <1>1, <3>1, StageIs DEF EnvelopeType
  <2> QED
    BY <1>2, <1>5, <1>6, <2>2, <2>3, <2>4
<1>9. CASE m.type # "LockedTransfer"
  <2>1. PICK q \in stored[n] : q.t = m.t /\ q.type = "LockedTransfer"
    BY <1>1, <1>9 DEF known, has
  <2>2. stage(stored[n], m.t) = "locked"
    BY <1>7, <2>1, StageIs
  <2>3. stage(stored'[n], m.t) = stage(log, m.t) /\ stage(log, m.t) \in {"paid", "returned"}
    <3>1. CASE m.type = "Unlock"
      BY <1>1, <1>3, <3>1, StageIs
    <3>2. CASE m.type = "LockExpired"
      <4>1. \A p \in log : p.t = m.t => p.type # "Unlock"
        BY <1>1, <3>2 DEF OInv, OneOutcome
      <4>2. \A p \in stored'[n] : p.t = m.t => p.type # "Unlock"
        BY <1>3, <1>7, <3>2
      <4> QED
        BY <1>1, <1>3, <3>2, <4>1, <4>2, StageIs
    <3> QED
      BY <1>1, <1>9, <3>1, <3>2 DEF EnvelopeType
  <2> QED
    BY <1>2, <1>5, <1>6, <2>2, <2>3
<1> QED
  BY <1>8, <1>9

\* Every step of the two clients is one of the promise, or none
LEMMA NextSettles ==
  ASSUME OInv, OInv', Decided, [Next]_vars
  PROVE  [Promise!Next]_<<payerStages, payeeStages>>
<1>1. CASE UNCHANGED <<stored, log>>
  <2>1. payerStages' = payerStages
    BY <1>1 DEF payerStages
  <2>2. payeeStages' = payeeStages
    BY <1>1 DEF payeeStages
  <2> QED
    BY <2>1, <2>2
<1>2. ASSUME NEW n \in Node, NEW m \in job[n], sending(n, m)
      PROVE  [Promise!Next]_<<payerStages, payeeStages>>
  <2>1. m.t \in Transfer
    BY DEF OInv, TypeOK, Envelope
  <2>2. \/ UNCHANGED <<payerStages, payeeStages>>
        \/ Promise!Lock(m.t) \/ Promise!Settle(m.t)
    BY <1>2, SendingStages DEF Promise!Lock, Promise!Settle, Promise!Outcome, payerStages, payeeStages
  <2> QED
    BY <2>1, <2>2 DEF Promise!Next
<1>3. ASSUME NEW n \in Node, NEW m \in job[n], following(n, m)
      PROVE  [Promise!Next]_<<payerStages, payeeStages>>
  <2>1. m.t \in Transfer
    BY DEF OInv, TypeOK, Envelope
  <2>2. Promise!Accept(m.t) \/ Promise!Follow(m.t)
    BY <1>3, FollowingStages DEF Promise!Accept, Promise!Follow, Promise!Outcome, payerStages, payeeStages
  <2> QED
    BY <2>1, <2>2 DEF Promise!Next
<1> QED
  BY <1>1, <1>2, <1>3, StepIs

LEMMA InitSettles == Init => Promise!Init
<1> SUFFICES ASSUME Init PROVE Promise!Init
  OBVIOUS
<1>1. \A t \in Transfer : Peer[Payer[t]] \in Node
  BY PeerAssumption, TransferAssumption
<1>2. \A t \in Transfer : stage(log, t) = "none" /\ stage(stored[Peer[Payer[t]]], t) = "none"
  BY <1>1, StageIs DEF Init
<1> QED
  BY <1>2 DEF Promise!Init

\* Where a lock cannot be both unlocked and expired - closing a channel never fails, or no secret is
\* registered on-chain - the two clients implement Settlement: whatever is lost, delayed, repeated or
\* interrupted, one lock has one outcome, and the payee follows it
THEOREM TransfersAreSettled ==
  ASSUME Decided
  PROVE  Spec => Settles
<1>1. Init => Promise!Init
  BY InitSettles
<1>2. OInv /\ OInv' /\ [Next]_vars => [Promise!Next]_<<payerStages, payeeStages>>
  BY NextSettles
<1> QED
  BY <1>1, <1>2, OutcomeInvariant, PTL DEF Spec, Settles, Promise!Spec, payerStages, payeeStages

-----------------------------------------------------------------------------
(***************************************************************************)
(* A Processed means that its message was applied                          *)
(***************************************************************************)

\* The payee of a message applied it, or was closing its channel
taken(m) == m \in stored[Peer[m.from]] \/ channel[Peer[m.from]] # "open"

Taken ==
  /\ \A m \in acks : taken(m)
  /\ \A n \in Node : \A m \in processed[n] : taken(m)

LEMMA TakenStays ==
  ASSUME OInv, \A n \in Node : stored[n] \subseteq stored'[n],
         \A n \in Node : channel'[n] = "open" => channel[n] = "open"
  PROVE  \A m \in log : taken(m) => taken(m)'
<1> TAKE m \in log
<1>1. Peer[m.from] \in Node
  BY FromIsNode, PeerAssumption DEF OInv
<1> QED
  BY <1>1 DEF taken

\* An honest payee applies what it acknowledges as long as its channel is open
LEMMA AcknowledgedIsTaken ==
  ASSUME OInv, Taken, NEW n \in Node, NEW m \in job[n], acknowledge(n, m)
  PROVE  taken(m)'
<1>1. /\ m.from = Peer[n] /\ Peer[m.from] = n /\ transferEnvelopeReducer(n, m) /\ UNCHANGED channel
      /\ m \in Envelope /\ Payer[m.t] = Peer[n]
  BY PeerAssumption DEF acknowledge, OInv, TypeOK, Owed
<1>2. CASE channel[n] # "open"
  BY <1>1, <1>2 DEF taken
<1>3. CASE channel[n] = "open"
  <2>1. /\ m.nonce = end[n][m.from].nextNonce /\ (known(n, m.t) <=> m.type # "LockedTransfer")
        /\ ~settled(n, m.t) /\ m.type \in EnvelopeType
    BY <1>1 DEF OInv, News, Envelope
  <2>2. m.t \notin cleared[n]
    <3> SUFFICES ASSUME m.t \in cleared[n] PROVE FALSE
      OBVIOUS
    <3>1. PICK p \in processed[n] : p.t = m.t /\ p.type \in {"Unlock", "LockExpired"}
      BY DEF OInv, Acked, completed, hasProcessed
    <3>2. p.from = Peer[n] /\ Peer[p.from] = n
      BY <1>1, <3>1 DEF OInv, Sent, Owed
    <3>3. p \in stored[n]
      BY <1>3, <3>2 DEF Taken, taken
    <3> QED
      BY <2>1, <3>1, <3>3 DEF settled, has
  <2>3. applies(n, m)
    BY <1>3, <2>1, <2>2 DEF applies, inMemory, settled, EnvelopeType
  <2>4. m \in stored'[n]
    BY <2>3, <1>1, AppliedIs, StoredMore DEF OInv
  <2> QED
    BY <1>1, <2>4 DEF taken
<1> QED
  BY <1>2, <1>3

\* What is acknowledged in a step: what the partner applied, or acknowledged before, or just acknowledges
LEMMA AcksAre ==
  ASSUME OInv, [Next]_vars
  PROVE  \E M \in SUBSET Envelope :
            /\ acks' \subseteq acks \cup M
            /\ \A k \in Node : processed'[k] \subseteq processed[k] \cup M
            /\ \A m \in M : \/ m \in acks
                            \/ \E n \in Node : m.from = Peer[n] /\ m \in stored[n]
                            \/ \E n \in Node : m \in job[n] /\ acknowledge(n, m)
<1> DEFINE From(M) ==
      /\ acks' \subseteq acks \cup M
      /\ \A k \in Node : processed'[k] \subseteq processed[k] \cup M
<1>1. ASSUME acks' \subseteq acks, UNCHANGED processed PROVE From({})
  BY <1>1
<1>2. ASSUME NEW n \in Node, NEW t \in Transfer, TransferNext(n, t)
      PROVE  acks' \subseteq acks /\ UNCHANGED processed
  BY <1>2 DEF TransferNext, resolveTransfer, transferSecretRevealed, transferAutoExpire, enqueue,
     transferSecretReveal, retrySecretReveal, transferClear, expires, transferSecretRegistered, store, network
<1>3. ASSUME NEW n \in Node, TakeNext(n)
      PROVE  acks' \subseteq acks /\ UNCHANGED processed
  <2>1. ASSUME NEW m, NEW allowed, resend(n, allowed, m) PROVE acks' \subseteq acks /\ UNCHANGED processed
    BY <2>1 DEF resend, emit, network, store
  <2>2. ASSUME NEW t, NEW type, NEW allowed, sign(n, allowed, type, t)
        PROVE  acks' \subseteq acks /\ UNCHANGED processed
    BY <2>2 DEF sign, store, network
  <2> QED
    BY <1>3, <2>1, <2>2 DEF TakeNext, sendTransferSigned, sendTransferUnlocked, sendTransferExpired
<1>4. ASSUME NEW n \in Node, NEW m \in job[n],
             transferSigned(n, m) \/ transferUnlockSuccess(n, m) \/ transferExpireSuccess(n, m)
      PROVE  acks' \subseteq acks /\ UNCHANGED processed
  BY <1>4 DEF transferSigned, transferUnlockSuccess, transferExpireSuccess, emit, network
<1>5. ASSUME NEW n \in Node, NEW m \in job[n], acknowledge(n, m)
      PROVE  From({m}) /\ m \in Envelope
  <2>1. \/ processed' = [processed EXCEPT ![n] = processed[n] \cup {m}] /\ acks' = acks \cup {m}
        \/ UNCHANGED <<processed, acks>>
    BY <1>5 DEF acknowledge, network
  <2> QED
    BY <2>1 DEF OInv, TypeOK
<1>6. ASSUME NEW n \in Node, ReceiveNext(n)
      PROVE  acks' \subseteq acks /\ UNCHANGED processed
  BY <1>6 DEF ReceiveNext, receiveTransferSigned, receiveTransferUnlocked, receiveTransferExpired, accept,
     store, network
<1>7. ASSUME NEW n \in Node, NEW m \in wire, receiveAgain(n, m)
      PROVE  From({m}) /\ m \in Envelope /\ m.from = Peer[n] /\ m \in stored[n]
  BY <1>7 DEF receiveAgain, delivered, store, OInv, TypeOK
<1>8. ASSUME NEW n \in Node, NEW m \in acks, transferProcessedReceived(n, m)
      PROVE  From({m}) /\ m \in Envelope
  BY <1>8 DEF transferProcessedReceived, network, OInv, TypeOK
<1>9. ASSUME NEW n \in Node,
             \/ \E m \in retry[n] : retryMessage(n, m)
             \/ signatureFails(n) \/ crash(n) \/ restart(n)
             \/ \E m \in Node : channelDeposited(n, m)
             \/ channelCloseRequest(n) \/ channelCloseFailure(n)
             \/ closeChannel(n) \/ channelCloseSuccess(n)
      PROVE  acks' \subseteq acks /\ UNCHANGED processed
  BY <1>9 DEF retryMessage, signatureFails, crash, restart, channelDeposited, channelCloseRequest,
     channelCloseFailure, closeChannel, channelCloseSuccess, store, network
<1>10. ASSUME (\E t \in Transfer : secretRegistered(t)) \/ lose \/ UNCHANGED vars
       PROVE  acks' \subseteq acks /\ UNCHANGED processed
  BY <1>10 DEF secretRegistered, lose, vars, store, network
<1> HIDE DEF From
<1>11. CASE acks' \subseteq acks /\ UNCHANGED processed
  <2>1. From({}) /\ {} \in SUBSET Envelope
    BY <1>1, <1>11
  <2> WITNESS {} \in SUBSET Envelope
  <2> QED
    BY <2>1 DEF From
<1>12. CASE \E n \in Node : \E m \in job[n] : acknowledge(n, m)
  <2> PICK n \in Node : \E m \in job[n] : acknowledge(n, m)
    BY <1>12
  <2> PICK m \in job[n] : acknowledge(n, m)
    OBVIOUS
  <2>1. From({m}) /\ {m} \in SUBSET Envelope
    BY <1>5
  <2> QED
    BY <2>1 DEF From
<1>13. CASE \E n \in Node : \E m \in wire : receiveAgain(n, m)
  <2> PICK n \in Node, m \in wire : receiveAgain(n, m)
    BY <1>13
  <2>1. From({m}) /\ {m} \in SUBSET Envelope /\ m.from = Peer[n] /\ m \in stored[n]
    BY <1>7
  <2> QED
    BY <2>1 DEF From
<1>14. CASE \E n \in Node : \E m \in acks : transferProcessedReceived(n, m)
  <2> PICK n \in Node, m \in acks : transferProcessedReceived(n, m)
    BY <1>14
  <2>1. From({m}) /\ {m} \in SUBSET Envelope
    BY <1>8
  <2> QED
    BY <2>1 DEF From
<1>15. ASSUME NEW n \in Node, EmitNext(n)
       PROVE  (acks' \subseteq acks /\ UNCHANGED processed) \/ \E m \in job[n] : acknowledge(n, m)
  BY <1>15, <1>4 DEF EmitNext
<1>16. ASSUME NEW n \in Node, NodeNext(n)
       PROVE  \/ acks' \subseteq acks /\ UNCHANGED processed
              \/ \E m \in wire : receiveAgain(n, m)
              \/ \E m \in acks : transferProcessedReceived(n, m)
  BY <1>16, <1>9 DEF NodeNext
<1> QED
  BY <1>2, <1>3, <1>6, <1>10, <1>11, <1>12, <1>13, <1>14, <1>15, <1>16 DEF Next

\* Where closing is final, a channel isn't opened again
LEMMA ChannelStays ==
  ASSUME OInv, ~CloseFails, [Next]_vars
  PROVE  \A n \in Node : channel'[n] = "open" => channel[n] = "open"
<1>1. ASSUME NEW n \in Node,
             channelCloseRequest(n) \/ channelCloseFailure(n) \/ closeChannel(n) \/ channelCloseSuccess(n)
      PROVE  \A k \in Node : channel'[k] = "open" => channel[k] = "open"
  BY <1>1 DEF channelCloseRequest, channelCloseFailure, closeChannel, channelCloseSuccess, store, OInv, TypeOK
<1>2. ASSUME NEW n \in Node, NEW t \in Transfer, TransferNext(n, t)
      PROVE  UNCHANGED channel
  BY <1>2 DEF TransferNext, resolveTransfer, transferSecretRevealed, transferAutoExpire, enqueue,
     transferSecretReveal, retrySecretReveal, transferClear, expires, transferSecretRegistered, store
<1>3. ASSUME NEW n \in Node, TakeNext(n) \/ EmitNext(n) \/ ReceiveNext(n)
      PROVE  UNCHANGED channel
  BY <1>3 DEF TakeNext, sendTransferSigned, sendTransferUnlocked, sendTransferExpired, resend, sign,
     EmitNext, transferSigned, transferUnlockSuccess, transferExpireSuccess, acknowledge,
     ReceiveNext, receiveTransferSigned, receiveTransferUnlocked, receiveTransferExpired, accept, store
<1>4. ASSUME NEW n \in Node, NodeNext(n)
      PROVE  \/ UNCHANGED channel
             \/ channelCloseRequest(n) \/ channelCloseFailure(n) \/ closeChannel(n) \/ channelCloseSuccess(n)
  BY <1>4 DEF NodeNext, receiveAgain, transferProcessedReceived, retryMessage, signatureFails, crash, restart,
     channelDeposited, store
<1>5. ASSUME (\E t \in Transfer : secretRegistered(t)) \/ lose \/ UNCHANGED vars
      PROVE  UNCHANGED channel
  BY <1>5 DEF secretRegistered, lose, vars, store
<1> QED
  BY <1>1, <1>2, <1>3, <1>4, <1>5 DEF Next

LEMMA TakenNext ==
  ASSUME OInv, OInv', ClosingOnce, Taken, ~CloseFails, [Next]_vars
  PROVE  Taken'
<1>1. \A n \in Node : stored[n] \subseteq stored'[n]
  <2>1. CASE UNCHANGED <<stored, log>>
    BY <2>1
  <2>2. ASSUME NEW n \in Node, NEW m \in job[n], sending(n, m) \/ following(n, m)
        PROVE  \A k \in Node : stored[k] \subseteq stored'[k]
    <3>1. UNCHANGED stored \/ stored' = [stored EXCEPT ![n] = stored[n] \cup {m}]
      BY <2>2 DEF sending, following
    <3>2. CASE stored' = [stored EXCEPT ![n] = stored[n] \cup {m}]
      <4>1. stored'[n] = stored[n] \cup {m} /\ \A k \in Node : k # n => stored'[k] = stored[k]
        BY <3>2, StoredMore DEF OInv
      <4> QED
        BY <4>1
    <3> QED
      BY <3>1, <3>2
  <2> QED
    BY <2>1, <2>2, StepIs
<1>2. \A n \in Node : channel'[n] = "open" => channel[n] = "open"
  BY ChannelStays
<1>3. \A m \in log : taken(m) => taken(m)'
  BY <1>1, <1>2, TakenStays
<1>4. PICK M \in SUBSET Envelope :
            /\ acks' \subseteq acks \cup M
            /\ \A k \in Node : processed'[k] \subseteq processed[k] \cup M
            /\ \A m \in M : \/ m \in acks
                            \/ \E n \in Node : m.from = Peer[n] /\ m \in stored[n]
                            \/ \E n \in Node : m \in job[n] /\ acknowledge(n, m)
  BY AcksAre
<1>5. \A m \in M : taken(m)'
  <2> TAKE m \in M
  <2>1. CASE m \in acks
    BY <2>1, <1>3 DEF Taken, OInv, Sent
  <2>2. CASE \E n \in Node : m.from = Peer[n] /\ m \in stored[n]
    <3> PICK n \in Node : m.from = Peer[n] /\ m \in stored[n]
      BY <2>2
    <3>1. Peer[m.from] = n /\ m \in log
      BY PeerAssumption DEF OInv, Sent, InLog
    <3>2. taken(m)
      BY <3>1 DEF taken
    <3> QED
      BY <3>1, <3>2, <1>3
  <2>3. CASE \E n \in Node : m \in job[n] /\ acknowledge(n, m)
    BY <2>3, AcknowledgedIsTaken
  <2> QED
    BY <1>4, <2>1, <2>2, <2>3
<1>6. \A m \in acks : m \in log /\ taken(m)
  BY DEF Taken, OInv, Sent
<1>7. \A n \in Node : \A m \in processed[n] : m \in log /\ taken(m)
  BY DEF Taken, OInv, Sent
<1>8. \A m \in acks' : taken(m)'
  BY <1>3, <1>4, <1>5, <1>6
<1>9. \A n \in Node : \A m \in processed'[n] : taken(m)'
  BY <1>3, <1>4, <1>5, <1>7
<1> QED
  BY <1>8, <1>9 DEF Taken

\* Where closing a channel is final, a Processed that a payer received means that its payee applied the
\* message, unless the payee stopped using the channel before
THEOREM AcknowledgedIsApplied ==
  ASSUME ~CloseFails
  PROVE  Spec => []AckMeansApplied
<1>1. Init => Taken
  BY DEF Init, Taken
<1>2. OInv /\ OInv' /\ ClosingOnce /\ Taken /\ [Next]_vars => Taken'
  BY TakenNext
<1>3. Taken => AckMeansApplied
  BY DEF Taken, taken, AckMeansApplied
<1> QED
  BY <1>1, <1>2, <1>3, OutcomeInvariant, PTL DEF Spec

=============================================================================
