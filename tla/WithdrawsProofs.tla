-------------------------- MODULE WithdrawsProofs --------------------------
(***************************************************************************)
(* Withdraws, like transfers, never use a nonce twice, what a client still *)
(* owes its partner of a withdraw is always being sent, and what a partner *)
(* was let withdraw stays covered by its end of the channel.               *)
(***************************************************************************)
EXTENDS Withdraws, TLAPS, WellFoundedInduction

TypeOK ==
  /\ channel \in [Node -> {"open", "closing"}]
  /\ end \in [Node -> [Node -> ChannelEnd]]
  /\ withdrawn \in [Node -> [Node -> Nat]]
  /\ pending \in [Node -> [Node -> SUBSET Message]]
  /\ job \in [Node -> SUBSET Message] /\ expiring \in [Node -> SUBSET Message]
  /\ asking \in [Node -> SUBSET Withdraw] /\ reopened \subseteq Node
  /\ up \in [Node -> BOOLEAN]
  /\ wire \subseteq log /\ log \subseteq Message

\* The requester asks and lets expire, its partner confirms
addressed(m) ==
  /\ m.type \in {"WithdrawRequest", "WithdrawExpired"} => Requester[m.of] = m.from
  /\ m.type = "WithdrawConfirmation" => Requester[m.of] = Peer[m.from]
Addressed ==
  /\ \A m \in log : addressed(m)
  /\ \A n \in Node : \A m \in job[n] : addressed(m)

\* Whatever is kept, sent again or being acknowledged was sent, and is kept at the requester's end
InLog ==
  /\ \A n, o \in Node : /\ pending[n][o] \subseteq log
                        /\ \A m \in pending[n][o] : m.type \in WithdrawType /\ Requester[m.of] = o
  /\ \A n \in Node : expiring[n] \subseteq log
  /\ \A n \in Node : \A m \in job[n] : m.from = n \/ (m.from = Peer[n] /\ m \in log)

\* What a node is signing: one message, with its next nonce
signing(n) == {m \in job[n] : m.from = n}
NextIsSigned ==
  \A n \in Node :
     /\ \A m \in signing(n) : m.nonce = own(n).nextNonce
     /\ \A m1, m2 \in signing(n) : m1 = m2
     /\ \A m \in job[n] : m.type = "WithdrawConfirmation" => m.from = n

\* The signer of a message has moved on, or its reducer ignored the message because the channel was
\* closing: then it signs nothing any more, unless the close fails
Fresh ==
  \A m \in log :
     \/ m.from \in reopened
     \/ m.nonce < own(m.from).nextNonce
     \/ /\ m.nonce = own(m.from).nextNonce
        /\ channel[m.from] # "open" /\ signing(m.from) = {}

IInv ==
  /\ TypeOK /\ Addressed /\ InLog /\ NextIsSigned /\ Fresh
  /\ NonceUnique /\ PendingIsSent

-----------------------------------------------------------------------------
(***************************************************************************)
(* What the steps have in common                                           *)
(***************************************************************************)

LEMMA ComposeIs ==
  ASSUME TypeOK, NEW n \in Node, NEW type, NEW x,
         \/ type \in WithdrawType /\ x \in Withdraw
         \/ type = "LockedTransfer" /\ x \in Transfer
  PROVE  /\ compose(n, type, x) \in Message
         /\ compose(n, type, x).from = n /\ compose(n, type, x).type = type /\ compose(n, type, x).of = x
         /\ compose(n, type, x).nonce = own(n).nextNonce
<1>1. own(n).nextNonce \in Nat
  BY DEF TypeOK, ChannelEnd, own
<1> QED
  BY <1>1 DEF compose, Message

\* What withdrawReducer does to the ends and the messages kept
LEMMA ReducerIs ==
  ASSUME TypeOK, NEW n \in Node, NEW S \in SUBSET Message, withdrawReducer(n, S)
  PROVE  /\ end' \in [Node -> [Node -> ChannelEnd]] /\ pending' \in [Node -> [Node -> SUBSET Message]]
         /\ \A k \in Node : k # n => end'[k] = end[k] /\ pending'[k] = pending[k]
         /\ \A o \in Node :
              /\ end'[n][o].nextNonce = IF \E m \in S : applies(n, m) /\ m.from = o
                                        THEN end[n][o].nextNonce + 1 ELSE end[n][o].nextNonce
              /\ pending'[n][o] = pending[n][o] \cup {m \in S : applies(n, m) /\ Requester[m.of] = o}
<1> DEFINE applied == {m \in S : applies(n, m)}
           nonce(o) == IF \E m \in applied : m.from = o THEN end[n][o].nextNonce + 1 ELSE end[n][o].nextNonce
           e(o) == [end[n][o] EXCEPT !.nextNonce = nonce(o)]
           q(o) == pending[n][o] \cup {m \in applied : Requester[m.of] = o}
<1>1. end' = [end EXCEPT ![n] = [o \in Node |-> e(o)]] /\ pending' = [pending EXCEPT ![n] = [o \in Node |-> q(o)]]
  <2>1. end' = [end EXCEPT ![n] = [o \in Node |-> e(o)]]
    BY DEF withdrawReducer
  <2>2. pending' = [pending EXCEPT ![n] = [o \in Node |-> q(o)]]
    BY DEF withdrawReducer
  <2> QED
    BY <2>1, <2>2
<1>2. \A o \in Node : end[n][o] \in ChannelEnd /\ pending[n][o] \in SUBSET Message
  BY DEF TypeOK
<1>3. \A o \in Node : e(o) \in ChannelEnd /\ e(o).nextNonce = nonce(o)
  <2> TAKE o \in Node
  <2>1. nonce(o) \in Nat
    BY <1>2 DEF ChannelEnd
  <2> HIDE DEF nonce
  <2> QED
    BY <1>2, <2>1 DEF ChannelEnd
<1>4. \A o \in Node : q(o) \in SUBSET Message
  BY <1>2
<1> HIDE DEF e, q
<1>5. /\ end' \in [Node -> [Node -> ChannelEnd]] /\ pending' \in [Node -> [Node -> SUBSET Message]]
      /\ \A k \in Node : k # n => end'[k] = end[k] /\ pending'[k] = pending[k]
      /\ \A o \in Node : end'[n][o] = e(o) /\ pending'[n][o] = q(o)
  BY <1>1, <1>3, <1>4 DEF TypeOK
<1> QED
  BY <1>3, <1>5 DEF q

\* n signs, sends what it signed, or gives up; S is what it sends for the first time
LEMMA NoncesKeep ==
  ASSUME TypeOK, NextIsSigned, Fresh, NonceUnique, TypeOK',
         NEW n \in Node, NEW S \in SUBSET signing(n), log' \subseteq log \cup S,
         \A k \in Node : /\ k # n => job'[k] = job[k] /\ own(k)'.nextNonce = own(k).nextNonce
                         /\ k \in reopened' \/ (channel'[k] = "open" => channel[k] = "open"),
         reopened \subseteq reopened',
         \/ own(n)'.nextNonce = own(n).nextNonce + 1 /\ job'[n] = {}
         \/ own(n)'.nextNonce = own(n).nextNonce /\ job'[n] = {} /\ (S # {} => channel[n] # "open")
         \/ /\ own(n)'.nextNonce = own(n).nextNonce /\ S = {}
            /\ \/ job'[n] \subseteq job[n]
               \/ /\ channel[n] = "open" /\ \A m1, m2 \in signing(n)' : m1 = m2
                  /\ \A m \in signing(n)' : m.nonce = own(n).nextNonce
                  /\ \A m \in job'[n] : m.type = "WithdrawConfirmation" => m.from = n
  PROVE  NextIsSigned' /\ Fresh' /\ NonceUnique'
<1>1. \A k \in Node : own(k).nextNonce \in Nat /\ own(k)'.nextNonce \in Nat
  BY DEF TypeOK, ChannelEnd, own
<1>2. /\ \A m \in log : m.from \in Node /\ m.nonce \in Nat
      /\ \A k \in Node : \A m \in job[k] : m.nonce \in Nat
  BY DEF TypeOK, Message
<1>3. NextIsSigned'
  <2> SUFFICES ASSUME NEW k \in Node
               PROVE  /\ \A m \in signing(k)' : m.nonce = own(k)'.nextNonce
                      /\ \A m1, m2 \in signing(k)' : m1 = m2
                      /\ \A m \in job'[k] : m.type = "WithdrawConfirmation" => m.from = k
    BY DEF NextIsSigned
  <2>1. CASE k # n \/ (job'[n] \subseteq job[n] /\ own(n)'.nextNonce = own(n).nextNonce)
    BY <2>1 DEF NextIsSigned, signing
  <2>2. CASE k = n /\ job'[n] = {}
    BY <2>2 DEF signing
  <2> QED
    BY <2>1, <2>2
<1>4. Fresh'
  <2> SUFFICES ASSUME NEW m \in log'
               PROVE  \/ m.from \in reopened'
                      \/ m.nonce < own(m.from)'.nextNonce
                      \/ /\ m.nonce = own(m.from)'.nextNonce
                         /\ channel'[m.from] # "open" /\ signing(m.from)' = {}
    BY DEF Fresh
  <2>1. CASE m \in S
    <3>1. m.from = n /\ m.nonce = own(n).nextNonce
      BY <2>1 DEF NextIsSigned, signing
    <3> QED
      BY <2>1, <3>1, <1>1 DEF signing
  <2>2. CASE m \in log /\ m.from # n
    <3>1. m.from \in Node
      BY <2>2, <1>2
    <3> QED
      BY <2>2, <3>1 DEF Fresh, signing
  <2>3. CASE m \in log /\ m.from = n
    BY <2>3, <1>1, <1>2 DEF Fresh, signing
  <2> QED
    BY <2>1, <2>2, <2>3
<1>5. NonceUnique'
  <2> SUFFICES ASSUME NEW m1 \in log', NEW m2 \in log', m1.from = m2.from, m1.nonce = m2.nonce,
                      m1.from \notin reopened'
               PROVE  m1 = m2
    BY DEF NonceUnique
  <2>1. \A m \in S : m.from = n /\ m.nonce = own(n).nextNonce /\ signing(n) # {}
    BY DEF NextIsSigned, signing
  <2>2. \A m \in log : m.from = n /\ n \notin reopened /\ signing(n) # {} => m.nonce < own(n).nextNonce
    BY DEF Fresh
  <2>3. CASE m1 \in S /\ m2 \in S
    BY <2>3 DEF NextIsSigned
  <2>4. CASE m1 \in log /\ m2 \in log
    BY <2>4 DEF NonceUnique
  <2>5. \A m \in log, p \in S : m.from = p.from /\ m.from \notin reopened => m.nonce # p.nonce
    BY <2>1, <2>2, <1>1, <1>2
  <2> QED
    BY <2>3, <2>4, <2>5
<1> QED
  BY <1>3, <1>4, <1>5

\* What n still has to send
isSent(n) ==
  n \notin reopened /\ up[n] /\ channel[n] = "open" =>
    /\ \A m \in unconfirmed(n) : m.of \in asking[n]
    /\ \A m \in pending[n][n] : m.type = "WithdrawExpired" => m \in expiring[n]

\* A withdraw is forgotten altogether
LEMMA SentKeeps ==
  ASSUME NEW n \in Node, isSent(n), up'[n] => up[n], reopened \subseteq reopened',
         n \in reopened' \/ (channel'[n] = "open" => channel[n] = "open"),
         pending'[n][n] \subseteq pending[n][n],
         \A p, q \in pending[n][n] : p.of = q.of /\ p \in pending'[n][n] => q \in pending'[n][n],
         channel'[n] = "open" => asking[n] \subseteq asking'[n],
         \A m \in expiring[n] : m \in expiring'[n] \/ m \notin pending'[n][n]
  PROVE  isSent(n)'
<1> SUFFICES ASSUME n \notin reopened', up'[n], channel'[n] = "open"
             PROVE  /\ \A m \in unconfirmed(n)' : m.of \in asking'[n]
                    /\ \A m \in pending'[n][n] : m.type = "WithdrawExpired" => m \in expiring'[n]
  BY DEF isSent
<1>1. unconfirmed(n)' \subseteq unconfirmed(n)
  BY DEF unconfirmed, match
<1> QED
  BY <1>1 DEF isSent

LEMMA SentSame ==
  ASSUME PendingIsSent, NEW n \in Node, pending'[n][n] = pending[n][n], up'[n] => up[n],
         reopened \subseteq reopened', n \in reopened' \/ (channel'[n] = "open" => channel[n] = "open"),
         channel'[n] = "open" => asking[n] \subseteq asking'[n], expiring[n] \subseteq expiring'[n]
  PROVE  isSent(n)'
BY SentKeeps DEF PendingIsSent, isSent

-----------------------------------------------------------------------------
(***************************************************************************)
(* The invariant is inductive                                              *)
(***************************************************************************)

LEMMA InitInv == Init => IInv
<1> SUFFICES ASSUME Init PROVE IInv
  OBVIOUS
<1>1. TypeOK
  <2>1. \A m \in Node : [emptyChannelEnd EXCEPT !.deposit = Deposit[m]] \in ChannelEnd
    BY DepositAssumption DEF emptyChannelEnd, ChannelEnd
  <2> QED
    BY <2>1 DEF Init, TypeOK
<1>2. Addressed /\ InLog /\ NextIsSigned /\ Fresh
  BY DEF Init, Addressed, InLog, NextIsSigned, Fresh, signing
<1>3. NonceUnique /\ PendingIsSent
  BY DEF Init, NonceUnique, PendingIsSent, unconfirmed
<1> QED
  BY <1>1, <1>2, <1>3 DEF IInv

\* Steps about the chain, the clocks and what is asked of the client
LEMMA ElseKeeps ==
  ASSUME IInv, UNCHANGED <<store, job, asking, expiring, up, wire, log>>
  PROVE  IInv'
<1>1. TypeOK' /\ Addressed' /\ InLog'
  BY DEF IInv, TypeOK, Addressed, InLog, store
<1>2. NextIsSigned' /\ Fresh' /\ NonceUnique'
  BY DEF IInv, NextIsSigned, Fresh, NonceUnique, signing, own, store
<1>3. PendingIsSent'
  BY SentSame DEF IInv, PendingIsSent, isSent, store
<1> QED
  BY <1>1, <1>2, <1>3 DEF IInv

\* Messages are sent again
LEMMA ResendKeeps ==
  ASSUME IInv, NEW S \in SUBSET log, send(S), UNCHANGED <<store, epics>>
  PROVE  IInv'
<1>1. TypeOK' /\ log' = log
  BY DEF IInv, TypeOK, send, store, epics
<1>2. Addressed' /\ InLog'
  BY <1>1 DEF IInv, Addressed, InLog, store, epics
<1>3. NextIsSigned' /\ Fresh' /\ NonceUnique'
  BY <1>1 DEF IInv, NextIsSigned, Fresh, NonceUnique, signing, own, store, epics
<1>4. PendingIsSent'
  BY SentSame DEF IInv, PendingIsSent, isSent, store, epics
<1> QED
  BY <1>1, <1>2, <1>3, <1>4 DEF IInv

\* The concatMap takes messages of the partner, and one of its own, or gives up
LEMMA BeginKeeps ==
  ASSUME IInv, NEW n \in Node, NEW S \in SUBSET Message, begin(n, S), S = {} \/ channel[n] = "open",
         \A m \in S : /\ addressed(m)
                      /\ \/ m.from = n /\ m.nonce = own(n).nextNonce
                         \/ m.from = Peer[n] /\ m \in log /\ m.type # "WithdrawConfirmation",
         \A m1, m2 \in S : m1.from = n /\ m2.from = n => m1 = m2
  PROVE  IInv'
<1>1. job' = [job EXCEPT ![n] = S]
      /\ UNCHANGED <<channel, reopened, end, withdrawn, pending, asking, expiring, up, wire, log>>
  BY DEF begin, store, network
<1>2. TypeOK'
  BY <1>1 DEF IInv, TypeOK
<1>3. job \in [Node -> SUBSET Message] /\ job'[n] = S /\ \A k \in Node : k # n => job'[k] = job[k]
  BY <1>1 DEF IInv, TypeOK
<1>4. Addressed' /\ InLog'
  BY <1>1, <1>3 DEF IInv, Addressed, InLog
<1>5. NextIsSigned' /\ Fresh' /\ NonceUnique'
  <2>1. \A k \in Node : own(k)'.nextNonce = own(k).nextNonce
    BY <1>1 DEF own
  <2>2. CASE S = {}
    BY <2>1, <2>2, <1>1, <1>2, <1>3, NoncesKeep DEF IInv
  <2>3. CASE S # {}
    <3>1. /\ channel[n] = "open" /\ \A m1, m2 \in signing(n)' : m1 = m2
          /\ \A m \in signing(n)' : m.nonce = own(n).nextNonce
          /\ \A m \in job'[n] : m.type = "WithdrawConfirmation" => m.from = n
      BY <2>3, <1>3, PeerAssumption DEF signing
    <3>2. {} \in SUBSET signing(n) /\ log' \subseteq log \cup {}
      BY <1>1
    <3>3. \A k \in Node : /\ k # n => job'[k] = job[k] /\ own(k)'.nextNonce = own(k).nextNonce
                          /\ k \in reopened' \/ (channel'[k] = "open" => channel[k] = "open")
      BY <1>1, <1>3, <2>1
    <3>4. reopened \subseteq reopened'
      BY <1>1
    <3> QED
      BY <2>1, <3>1, <3>2, <3>3, <3>4, <1>2, NoncesKeep DEF IInv
  <2> QED
    BY <2>2, <2>3
<1>6. PendingIsSent'
  BY <1>1, SentSame DEF IInv, PendingIsSent, isSent
<1> QED
  BY <1>2, <1>4, <1>5, <1>6 DEF IInv

LEMMA BeginsKeep ==
  ASSUME IInv, NEW n \in Node,
         \/ \E t \in Transfer : sendTransferSigned(n, t)
         \/ \E w \in Withdraw : sendWithdrawRequest(n, w) \/ sendWithdrawExpired(n, w)
         \/ \E m \in wire : \/ receiveTransferSigned(n, m) \/ receiveWithdrawRequest(n, m)
                            \/ receiveWithdrawExpired(n, m)
         \/ signatureFails(n)
  PROVE  IInv'
<1>1. TypeOK /\ \A m \in wire : m \in log /\ m \in Message /\ addressed(m)
  BY DEF IInv, TypeOK, Addressed
<1>2. Peer[n] # n /\ Peer[n] \in Node /\ Peer[Peer[n]] = n
  BY PeerAssumption
<1>3. ASSUME NEW t \in Transfer, sendTransferSigned(n, t) PROVE IInv'
  <2> DEFINE m == compose(n, "LockedTransfer", t)
  <2>1. m \in Message /\ m.from = n /\ m.type = "LockedTransfer" /\ m.nonce = own(n).nextNonce
    BY <1>1, ComposeIs
  <2>2. addressed(m)
    BY <2>1 DEF addressed
  <2>3. (begin(n, {m}) /\ channel[n] = "open") \/ begin(n, {})
    BY <1>3 DEF sendTransferSigned
  <2> HIDE DEF m
  <2> QED
    BY <2>1, <2>2, <2>3, BeginKeeps
<1>4. ASSUME NEW w \in Withdraw, NEW type \in {"WithdrawRequest", "WithdrawExpired"}, Requester[w] = n,
             channel[n] = "open", begin(n, {compose(n, type, w)})
      PROVE  IInv'
  <2> DEFINE m == compose(n, type, w)
  <2>1. m \in Message /\ m.from = n /\ m.type = type /\ m.of = w /\ m.nonce = own(n).nextNonce
    BY <1>1, ComposeIs DEF WithdrawType
  <2>2. addressed(m)
    BY <2>1, <1>4 DEF addressed
  <2> HIDE DEF m
  <2> QED
    BY <2>1, <2>2, <1>4, BeginKeeps DEF m
<1>5. ASSUME NEW w \in Withdraw, sendWithdrawRequest(n, w) PROVE IInv'
  BY <1>5, <1>4 DEF sendWithdrawRequest, withdrawChannel
<1>6. ASSUME NEW w \in Withdraw, sendWithdrawExpired(n, w) PROVE IInv'
  <2>1. Requester[w] = n
    BY <1>6 DEF sendWithdrawExpired, match, IInv, InLog
  <2> QED
    BY <2>1, <1>6, <1>4 DEF sendWithdrawExpired
<1>7. ASSUME NEW m \in wire, receiveTransferSigned(n, m) \/ receiveWithdrawExpired(n, m) PROVE IInv'
  BY <1>7, <1>1, <1>2, BeginKeeps DEF receiveTransferSigned, receiveWithdrawExpired
<1>8. ASSUME NEW m \in wire, receiveWithdrawRequest(n, m) PROVE IInv'
  <2> DEFINE c == compose(n, "WithdrawConfirmation", m.of)
  <2>1. m.from = Peer[n] /\ m.type = "WithdrawRequest" /\ channel[n] = "open" /\ begin(n, {m, c})
    BY <1>8 DEF receiveWithdrawRequest
  <2>2. m.of \in Withdraw
    BY <2>1, <1>1 DEF Message
  <2>3. c \in Message /\ c.from = n /\ c.type = "WithdrawConfirmation" /\ c.of = m.of /\ c.nonce = own(n).nextNonce
    BY <1>1, <2>2, ComposeIs DEF WithdrawType
  <2>4. addressed(c)
    BY <2>1, <2>3, <1>1, <1>2 DEF addressed
  <2> HIDE DEF c
  <2> QED
    BY <2>1, <2>3, <2>4, <1>1, <1>2, BeginKeeps
<1>9. CASE signatureFails(n)
  BY <1>9, BeginKeeps DEF signatureFails
<1> QED
  BY <1>3, <1>5, <1>6, <1>7, <1>8, <1>9

\* The reducer applies a message of the other end
LEMMA OwnUntouched ==
  ASSUME IInv, NEW n \in Node, NEW S \in SUBSET Message, withdrawReducer(n, S),
         \A m \in S : m.from # n
  PROVE  own(n)'.nextNonce = own(n).nextNonce
BY ReducerIs DEF IInv, own

LEMMA receiveWithdrawConfirmationKeeps ==
  ASSUME IInv, NEW n \in Node, NEW c \in wire, receiveWithdrawConfirmation(n, c)
  PROVE  IInv'
<1>1. /\ c.from = Peer[n] /\ c.type = "WithdrawConfirmation" /\ withdrawReducer(n, {c}) /\ job[n] = {}
      /\ UNCHANGED <<channel, reopened, withdrawn, job, asking, expiring, up, log>> /\ wire' \subseteq wire
  BY DEF receiveWithdrawConfirmation, idle
<1>2. TypeOK /\ c \in Message /\ c \in log /\ Requester[c.of] = n /\ Peer[n] # n
  BY <1>1, PeerAssumption DEF IInv, TypeOK, Addressed, addressed
<1>3. /\ end' \in [Node -> [Node -> ChannelEnd]] /\ pending' \in [Node -> [Node -> SUBSET Message]]
      /\ \A k \in Node : k # n => end'[k] = end[k] /\ pending'[k] = pending[k]
      /\ \A o \in Node : pending'[n][o] = pending[n][o] \cup {m \in {c} : applies(n, m) /\ Requester[m.of] = o}
  BY <1>1, <1>2, ReducerIs
<1>4. own(n)'.nextNonce = own(n).nextNonce
  BY <1>1, <1>2, OwnUntouched
<1>5. TypeOK'
  BY <1>1, <1>2, <1>3 DEF TypeOK
<1>6. Addressed' /\ InLog'
  BY <1>1, <1>2, <1>3 DEF IInv, Addressed, InLog, WithdrawType
<1>7. NextIsSigned' /\ Fresh' /\ NonceUnique'
  <2> DEFINE S == {}
  <2>1. \A k \in Node : /\ k # n => job'[k] = job[k] /\ own(k)'.nextNonce = own(k).nextNonce
                        /\ k \in reopened' \/ (channel'[k] = "open" => channel[k] = "open")
    BY <1>1, <1>3 DEF own
  <2>2. S \in SUBSET signing(n) /\ log' \subseteq log \cup S /\ reopened \subseteq reopened' /\ job'[n] = {}
    BY <1>1
  <2>3. TypeOK /\ NextIsSigned /\ Fresh /\ NonceUnique
    BY DEF IInv
  <2>4. own(n)'.nextNonce = own(n).nextNonce /\ S = {} /\ job'[n] \subseteq job[n]
    BY <1>4, <2>2
  <2> HIDE DEF S
  <2> QED
    BY <1>5, <2>1, <2>2, <2>3, <2>4, NoncesKeep
<1>8. PendingIsSent'
  <2> SUFFICES ASSUME NEW k \in Node PROVE isSent(k)'
    BY DEF PendingIsSent, isSent
  <2>1. CASE k # n
    BY <2>1, <1>1, <1>3, SentSame DEF IInv
  <2>2. CASE k = n
    <3>1. unconfirmed(n)' \subseteq unconfirmed(n)
      BY <1>1, <1>3 DEF unconfirmed, match
    <3>2. \A m \in pending'[n][n] : m.type = "WithdrawExpired" => m \in pending[n][n]
      BY <1>1, <1>3
    <3> QED
      BY <2>2, <3>1, <3>2, <1>1 DEF IInv, PendingIsSent, isSent
  <2> QED
    BY <2>1, <2>2
<1> QED
  BY <1>5, <1>6, <1>7, <1>8 DEF IInv

\* Messages of withdraws that n signed, with those of its partner that go with them: they are applied,
\* unless the channel is closing, and S is sent
LEMMA SignedKeeps ==
  ASSUME IInv, NEW n \in Node, NEW R \in SUBSET job[n], NEW S \in SUBSET signing(n),
         withdrawReducer(n, R), send(S), job' = [job EXCEPT ![n] = {}],
         UNCHANGED <<channel, reopened, withdrawn, up>>,
         S \subseteq R, \A m \in R : m.type \in WithdrawType,
         \A m \in R : m.from = n /\ applies(n, m) => m \in S,
         asking' \in [Node -> SUBSET Withdraw],
         expiring' \in [Node -> SUBSET Message],
         \A k \in Node : expiring'[k] \subseteq expiring[k] \cup S,
         \A k \in Node : isSent(k)'
  PROVE  IInv'
<1>1. /\ TypeOK /\ job \in [Node -> SUBSET Message] /\ R \in SUBSET Message
      /\ S \subseteq Message /\ log' = log \cup S /\ wire' \subseteq log'
      /\ \A m \in job[n] : m.from = n \/ (m.from = Peer[n] /\ m \in log)
      /\ \A m \in S : m.from = n /\ m.nonce = own(n).nextNonce /\ m \in job[n]
  BY DEF IInv, TypeOK, InLog, signing, NextIsSigned, send
<1>2. /\ end' \in [Node -> [Node -> ChannelEnd]] /\ pending' \in [Node -> [Node -> SUBSET Message]]
      /\ \A k \in Node : k # n => end'[k] = end[k] /\ pending'[k] = pending[k]
      /\ \A o \in Node :
           /\ end'[n][o].nextNonce = IF \E m \in R : applies(n, m) /\ m.from = o
                                     THEN end[n][o].nextNonce + 1 ELSE end[n][o].nextNonce
           /\ pending'[n][o] = pending[n][o] \cup {m \in R : applies(n, m) /\ Requester[m.of] = o}
  BY <1>1, ReducerIs
<1>3. job' \in [Node -> SUBSET Message] /\ job'[n] = {} /\ \A k \in Node : k # n => job'[k] = job[k]
  BY <1>1
<1>4. TypeOK'
  BY <1>1, <1>2, <1>3 DEF TypeOK
<1>5. Addressed'
  BY <1>1, <1>3 DEF IInv, Addressed
<1>6. \A m \in R : applies(n, m) => m \in log'
  BY <1>1
<1>7. InLog'
  <2>1. \A k, o \in Node : /\ pending'[k][o] \subseteq log'
                           /\ \A m \in pending'[k][o] : m.type \in WithdrawType /\ Requester[m.of] = o
    <3> TAKE k \in Node, o \in Node
    <3>1. pending[k][o] \subseteq log' /\ \A m \in pending[k][o] : m.type \in WithdrawType /\ Requester[m.of] = o
      BY <1>1 DEF IInv, InLog
    <3>2. CASE k # n
      BY <3>1, <3>2, <1>2
    <3>3. CASE k = n
      BY <3>1, <3>3, <1>2, <1>6
    <3> QED
      BY <3>2, <3>3
  <2>2. \A k \in Node : expiring'[k] \subseteq log'
    BY <1>1 DEF IInv, InLog
  <2>3. \A k \in Node : \A m \in job'[k] : m.from = k \/ (m.from = Peer[k] /\ m \in log')
    BY <1>1, <1>3 DEF IInv, InLog
  <2> QED
    BY <2>1, <2>2, <2>3 DEF InLog
<1>8. NextIsSigned' /\ Fresh' /\ NonceUnique'
  <2>1. \/ own(n)'.nextNonce = own(n).nextNonce + 1
        \/ own(n)'.nextNonce = own(n).nextNonce /\ (S # {} => channel[n] # "open")
    <3>1. CASE channel[n] = "open" /\ S # {}
      <4>1. PICK m \in S : m \in R /\ m.from = n /\ m.nonce = own(n).nextNonce
        BY <3>1, <1>1
      <4>2. applies(n, m)
        BY <4>1, <3>1 DEF applies, own
      <4> QED
        BY <4>1, <4>2, <1>2 DEF own
    <3>2. CASE channel[n] # "open" \/ S = {}
      BY <3>2, <1>2 DEF own
    <3> QED
      BY <3>1, <3>2
  <2>2. \A k \in Node : k # n => own(k)'.nextNonce = own(k).nextNonce
    BY <1>2 DEF own
  <2> QED
    BY <2>1, <2>2, <1>1, <1>3, <1>4, NoncesKeep DEF IInv
<1>9. PendingIsSent'
  BY DEF PendingIsSent, isSent
<1> QED
  BY <1>4, <1>5, <1>7, <1>8, <1>9 DEF IInv

\* Of a node that applies nothing to its own end, and stops nothing, all is sent
LEMMA OthersSent ==
  ASSUME IInv, NEW n \in Node, UNCHANGED <<channel, reopened, up>>,
         \A k \in Node : k # n => /\ pending'[k][k] = pending[k][k] /\ asking'[k] = asking[k]
                                  /\ expiring'[k] = expiring[k],
         isSent(n)'
  PROVE  \A k \in Node : isSent(k)'
BY SentSame DEF IInv

LEMMA withdrawMessageRequestKeeps ==
  ASSUME IInv, NEW n \in Node, NEW m \in job[n], withdrawMessageRequest(n, m)
  PROVE  IInv'
<1> DEFINE S == {p \in {m} : applies(n, p)}
           ws == {p.of : p \in S}
<1>1. /\ m.from = n /\ m.type = "WithdrawRequest" /\ withdrawReducer(n, {m})
      /\ job' = [job EXCEPT ![n] = {}] /\ asking' = [asking EXCEPT ![n] = @ \cup ws] /\ send(S)
      /\ UNCHANGED <<channel, reopened, withdrawn, expiring, up>>
  BY DEF withdrawMessageRequest
<1>2. TypeOK /\ m \in Message /\ m \in signing(n) /\ m.of \in Withdraw
  BY <1>1 DEF IInv, TypeOK, signing, Message
<1>3. \/ S = {m} /\ ws = {m.of} /\ applies(n, m)
      \/ S = {} /\ ws = {} /\ ~applies(n, m)
  OBVIOUS
<1>4. m.nonce = own(n).nextNonce
  BY <1>2 DEF IInv, NextIsSigned
<1>5. /\ asking' \in [Node -> SUBSET Withdraw] /\ asking'[n] = asking[n] \cup ws
      /\ \A k \in Node : k # n => asking'[k] = asking[k]
  BY <1>1, <1>2, <1>3 DEF TypeOK
<1> HIDE DEF S, ws
<1>6. /\ \A k \in Node : k # n => pending'[k] = pending[k]
      /\ pending'[n][n] = pending[n][n] \cup {p \in {m} : applies(n, p) /\ Requester[p.of] = n}
  BY <1>1, <1>2, ReducerIs
<1>7. isSent(n)'
  <2> SUFFICES ASSUME n \notin reopened, up[n], channel[n] = "open"
               PROVE  /\ \A p \in unconfirmed(n)' : p.of \in asking'[n]
                      /\ \A p \in pending'[n][n] : p.type = "WithdrawExpired" => p \in expiring[n]
    BY <1>1 DEF isSent
  <2>1. pending'[n][n] \subseteq pending[n][n] \cup {m} /\ pending[n][n] \subseteq pending'[n][n]
    BY <1>6
  <2>2. unconfirmed(n)' \subseteq unconfirmed(n) \cup {m}
    BY <2>1 DEF unconfirmed, match
  <2>3. applies(n, m)
    BY <1>1, <1>4 DEF applies, own
  <2> QED
    BY <2>1, <2>2, <2>3, <1>1, <1>3, <1>5 DEF IInv, PendingIsSent
<1>8. \A k \in Node : isSent(k)'
  BY <1>1, <1>5, <1>6, <1>7, OthersSent
<1>9. S \subseteq {m} /\ (applies(n, m) => m \in S) /\ (channel[n] = "open" => applies(n, m))
  BY <1>1, <1>3, <1>4 DEF applies, own
<1> QED
  <2> DEFINE R == {m}
  <2>1. R \in SUBSET job[n] /\ S \in SUBSET signing(n) /\ S \subseteq R
    BY <1>2, <1>9
  <2>2. \A p \in R : p.type \in WithdrawType /\ (p.from = n /\ applies(n, p) => p \in S)
    BY <1>1, <1>9 DEF WithdrawType
  <2>3. withdrawReducer(n, R)
    BY <1>1
  <2>4. expiring' \in [Node -> SUBSET Message] /\ \A k \in Node : expiring'[k] \subseteq expiring[k] \cup S
    BY <1>1, <1>2 DEF TypeOK
  <2> HIDE DEF R
  <2> QED
    BY <1>1, <1>5, <1>8, <2>1, <2>2, <2>3, <2>4, SignedKeeps

LEMMA withdrawExpireSuccessKeeps ==
  ASSUME IInv, NEW n \in Node, NEW m \in job[n], withdrawExpireSuccess(n, m)
  PROVE  IInv'
<1>1. /\ m.from = n /\ m.type = "WithdrawExpired" /\ withdrawReducer(n, {m})
      /\ job' = [job EXCEPT ![n] = {}] /\ expiring' = [expiring EXCEPT ![n] = @ \cup {m}] /\ send({m})
      /\ UNCHANGED <<channel, reopened, withdrawn, asking, up>>
  BY DEF withdrawExpireSuccess
<1>2. TypeOK /\ m \in Message /\ m \in signing(n)
  BY <1>1 DEF IInv, TypeOK, signing
<1>3. /\ expiring' \in [Node -> SUBSET Message] /\ expiring'[n] = expiring[n] \cup {m}
      /\ \A k \in Node : k # n => expiring'[k] = expiring[k]
  BY <1>1, <1>2 DEF TypeOK
<1>4. /\ \A k \in Node : k # n => pending'[k] = pending[k]
      /\ pending'[n][n] = pending[n][n] \cup {p \in {m} : applies(n, p) /\ Requester[p.of] = n}
  BY <1>1, <1>2, ReducerIs
<1>5. isSent(n)'
  <2>1. pending'[n][n] \subseteq pending[n][n] \cup {m} /\ pending[n][n] \subseteq pending'[n][n]
    BY <1>4
  <2>2. unconfirmed(n)' \subseteq unconfirmed(n)
    BY <2>1, <1>1 DEF unconfirmed, match
  <2> QED
    BY <2>1, <2>2, <1>1, <1>3 DEF IInv, PendingIsSent, isSent
<1>6. \A k \in Node : isSent(k)'
  BY <1>1, <1>3, <1>4, <1>5, OthersSent
<1> QED
  <2> DEFINE R == {m}
  <2>1. R \in SUBSET job[n] /\ R \in SUBSET signing(n) /\ R \subseteq R
    BY <1>2
  <2>2. \A p \in R : p.type \in WithdrawType /\ (p.from = n /\ applies(n, p) => p \in R)
    BY <1>1 DEF WithdrawType
  <2>3. withdrawReducer(n, R) /\ send(R)
    BY <1>1
  <2>4. asking' \in [Node -> SUBSET Withdraw] /\ \A k \in Node : expiring'[k] \subseteq expiring[k] \cup R
    BY <1>1, <1>2, <1>3 DEF TypeOK
  <2> HIDE DEF R
  <2> QED
    BY <1>1, <1>3, <1>6, <2>1, <2>2, <2>3, <2>4, SignedKeeps

LEMMA confirmKeeps ==
  ASSUME IInv, NEW n \in Node, confirm(n)
  PROVE  IInv'
<1>1. PICK m \in job[n], c \in job[n] :
        /\ m.type = "WithdrawRequest" /\ c.type = "WithdrawConfirmation" /\ withdrawReducer(n, {m, c})
        /\ job' = [job EXCEPT ![n] = {}] /\ send({c})
        /\ UNCHANGED <<channel, reopened, withdrawn, asking, expiring, up>>
  BY DEF confirm
<1>2. /\ TypeOK /\ m \in Message /\ c \in Message /\ c \in signing(n) /\ c.from = n
      /\ Requester[c.of] = Peer[n] /\ Peer[n] # n
  BY <1>1, PeerAssumption DEF IInv, TypeOK, signing, NextIsSigned, Addressed, addressed
<1>3. m \notin signing(n)
  BY <1>1, <1>2 DEF IInv, NextIsSigned
<1>4. m.from = Peer[n] /\ Requester[m.of] = Peer[n]
  BY <1>1, <1>3 DEF signing, IInv, InLog, Addressed, addressed
<1>5. /\ \A k \in Node : k # n => pending'[k] = pending[k]
      /\ pending'[n][n] = pending[n][n] \cup {p \in {m, c} : applies(n, p) /\ Requester[p.of] = n}
  BY <1>1, <1>2, ReducerIs
<1>6. pending'[n][n] = pending[n][n]
  BY <1>2, <1>4, <1>5
<1>7. \A k \in Node : isSent(k)'
  <2> TAKE k \in Node
  <2> QED
    BY <1>1, <1>5, <1>6, SentSame DEF IInv
<1> QED
  <2> DEFINE R == {m, c}
             S == {c}
  <2>1. R \in SUBSET job[n] /\ S \in SUBSET signing(n) /\ S \subseteq R
    BY <1>1, <1>2
  <2>2. \A p \in R : p.type \in WithdrawType /\ (p.from = n /\ applies(n, p) => p \in S)
    BY <1>1, <1>2, <1>4 DEF WithdrawType
  <2>3. withdrawReducer(n, R) /\ send(S)
    BY <1>1
  <2>4. /\ asking' \in [Node -> SUBSET Withdraw] /\ expiring' \in [Node -> SUBSET Message]
        /\ \A k \in Node : expiring'[k] \subseteq expiring[k] \cup S
    BY <1>1, <1>2 DEF TypeOK
  <2> HIDE DEF R, S
  <2> QED
    BY <1>1, <1>7, <2>1, <2>2, <2>3, <2>4, SignedKeeps

\* The client stops
LEMMA StopKeeps ==
  ASSUME IInv, NEW n \in Node, stop(n), UNCHANGED <<store, wire, log>>
  PROVE  IInv'
<1>1. /\ job' = [job EXCEPT ![n] = {}] /\ asking' = [asking EXCEPT ![n] = {}]
      /\ expiring' = [expiring EXCEPT ![n] = {}] /\ up' = [up EXCEPT ![n] = FALSE]
      /\ UNCHANGED <<channel, reopened, end, withdrawn, pending, wire, log>>
  BY DEF stop, store
<1>2. /\ job \in [Node -> SUBSET Message] /\ expiring \in [Node -> SUBSET Message]
      /\ asking \in [Node -> SUBSET Withdraw] /\ up \in [Node -> BOOLEAN]
  BY DEF IInv, TypeOK
<1>3. /\ job'[n] = {} /\ expiring'[n] = {} /\ ~up'[n]
      /\ \A k \in Node : k # n => job'[k] = job[k] /\ expiring'[k] = expiring[k] /\ asking'[k] = asking[k] /\ up'[k] = up[k]
      /\ job' \in [Node -> SUBSET Message] /\ expiring' \in [Node -> SUBSET Message]
      /\ asking' \in [Node -> SUBSET Withdraw] /\ up' \in [Node -> BOOLEAN]
  BY <1>1, <1>2
<1>4. TypeOK'
  BY <1>1, <1>3 DEF IInv, TypeOK
<1>5. Addressed' /\ InLog'
  BY <1>1, <1>3 DEF IInv, Addressed, InLog
<1>6. NextIsSigned' /\ Fresh' /\ NonceUnique'
  <2> DEFINE S == {}
  <2>1. \A k \in Node : /\ k # n => job'[k] = job[k] /\ own(k)'.nextNonce = own(k).nextNonce
                        /\ k \in reopened' \/ (channel'[k] = "open" => channel[k] = "open")
    BY <1>1, <1>3 DEF own
  <2>2. S \in SUBSET signing(n) /\ log' \subseteq log \cup S /\ reopened \subseteq reopened'
    BY <1>1
  <2>3. TypeOK /\ NextIsSigned /\ Fresh /\ NonceUnique
    BY DEF IInv
  <2>4. own(n)'.nextNonce = own(n).nextNonce /\ S = {} /\ job'[n] \subseteq job[n]
    BY <1>1, <1>3 DEF own
  <2> HIDE DEF S
  <2> QED
    BY <1>4, <2>1, <2>2, <2>3, <2>4, NoncesKeep
<1>7. PendingIsSent'
  <2> SUFFICES ASSUME NEW k \in Node PROVE isSent(k)'
    BY DEF PendingIsSent, isSent
  <2>1. CASE k # n
    BY <2>1, <1>1, <1>3, SentSame DEF IInv
  <2>2. CASE k = n
    BY <2>2, <1>3 DEF isSent
  <2> QED
    BY <2>1, <2>2
<1> QED
  BY <1>4, <1>5, <1>6, <1>7 DEF IInv

\* The LockedTransfer n signed, or a partner's one that it acknowledges
LEMMA transferSignedKeeps ==
  ASSUME IInv, NEW n \in Node, NEW m \in job[n], transferSigned(n, m)
  PROVE  IInv'
<1>1. /\ m.type = "LockedTransfer" /\ transferEnvelopeReducer(n, m)
      /\ UNCHANGED <<channel, reopened, withdrawn, pending>>
  BY DEF transferSigned
<1>2. /\ TypeOK /\ m \in Message /\ m.of \in Transfer /\ m.from \in Node /\ Peer[n] # n
      /\ m.from = n \/ (m.from = Peer[n] /\ m \in log)
  BY <1>1, PeerAssumption DEF IInv, TypeOK, Message, WithdrawType, InLog
<1>3. CASE applies(n, m)
  <2> DEFINE e == [end[n][m.from] EXCEPT !.locks = @ \cup {m.of}, !.locked = @ + Amount[m.of], !.nextNonce = @ + 1]
             S == IF m.from = n THEN {m} ELSE {}
  <2>1. /\ end' = [end EXCEPT ![n][m.from] = e] /\ job' = [job EXCEPT ![n] = {}] /\ send(S)
        /\ UNCHANGED <<asking, expiring, up>>
    BY <1>1, <1>3 DEF transferEnvelopeReducer
  <2>2. end[n][m.from] \in ChannelEnd /\ Amount[m.of] \in Nat
    BY <1>2, TransferAssumption DEF TypeOK
  <2>3. e \in ChannelEnd /\ e.nextNonce = end[n][m.from].nextNonce + 1
    <3> DEFINE ls == end[n][m.from].locks \cup {m.of}
               ld == end[n][m.from].locked + Amount[m.of]
               nn == end[n][m.from].nextNonce + 1
    <3>1. ls \in SUBSET Transfer /\ ld \in Int /\ nn \in Nat
      BY <1>2, <2>2 DEF ChannelEnd
    <3>2. e = [end[n][m.from] EXCEPT !.locks = ls, !.locked = ld, !.nextNonce = nn]
      BY <2>2 DEF ChannelEnd
    <3> HIDE DEF e, ls, ld
    <3> QED
      BY <3>1, <3>2, <2>2 DEF ChannelEnd
  <2>4. S \in SUBSET signing(n) /\ S \in SUBSET Message /\ (m.from # n => S = {})
    BY <1>2 DEF signing
  <2> HIDE DEF e, S
  <2>5. /\ end' \in [Node -> [Node -> ChannelEnd]] /\ end'[n][m.from] = e
        /\ \A k, o \in Node : k # n \/ o # m.from => end'[k][o] = end[k][o]
    BY <2>1, <2>3, <1>2 DEF TypeOK
  <2>6. job' \in [Node -> SUBSET Message] /\ job'[n] = {} /\ \A k \in Node : k # n => job'[k] = job[k]
    BY <2>1, <1>2 DEF TypeOK
  <2>7. TypeOK' /\ log' = log \cup S
    BY <1>1, <1>2, <2>1, <2>4, <2>5, <2>6 DEF TypeOK, send
  <2>8. Addressed'
    BY <2>4, <2>6, <2>7 DEF IInv, Addressed, signing
  <2>9. InLog'
    BY <1>1, <2>1, <2>6, <2>7 DEF IInv, InLog
  <2>10. NextIsSigned' /\ Fresh' /\ NonceUnique'
    <3>1. IF m.from = n THEN own(n)'.nextNonce = own(n).nextNonce + 1
          ELSE own(n)'.nextNonce = own(n).nextNonce /\ S = {}
      BY <1>2, <2>3, <2>4, <2>5 DEF own
    <3>2. \A k \in Node : k # n => own(k)'.nextNonce = own(k).nextNonce
      BY <2>5 DEF own
    <3> QED
      BY <3>1, <3>2, <1>1, <1>2, <2>4, <2>6, <2>7, NoncesKeep DEF IInv
  <2>11. PendingIsSent'
    BY <1>1, <2>1, SentSame DEF IInv, PendingIsSent, isSent
  <2> QED
    BY <2>7, <2>8, <2>9, <2>10, <2>11 DEF IInv
<1>4. CASE ~applies(n, m)
  <2>1. stop(n) /\ UNCHANGED <<end, wire, log>>
    BY <1>1, <1>4 DEF transferEnvelopeReducer
  <2> QED
    BY <1>1, <2>1, StopKeeps DEF store
<1> QED
  BY <1>3, <1>4

\* The partner's WithdrawExpired is acknowledged, and the withdraw forgotten
LEMMA acknowledgeExpiredKeeps ==
  ASSUME IInv, NEW n \in Node, NEW m \in job[n], acknowledgeExpired(n, m)
  PROVE  IInv'
<1>1. /\ m.from = Peer[n] /\ m.type = "WithdrawExpired"
      /\ end' = [end EXCEPT ![n][m.from].nextNonce = IF applies(n, m) THEN @ + 1 ELSE @]
      /\ pending' = [pending EXCEPT ![n][m.from] = {p \in @ : channel[n] = "open" => p.of # m.of}]
      /\ job' = [job EXCEPT ![n] = {}]
      /\ UNCHANGED <<channel, reopened, withdrawn, asking, expiring, up, wire, log>>
  BY DEF acknowledgeExpired
<1>2. TypeOK /\ m.from \in Node /\ m.from # n
  BY <1>1, PeerAssumption DEF IInv
<1>3. /\ end' \in [Node -> [Node -> ChannelEnd]]
      /\ \A k \in Node : own(k)'.nextNonce = own(k).nextNonce
  <2> DEFINE x == IF applies(n, m) THEN end[n][m.from].nextNonce + 1 ELSE end[n][m.from].nextNonce
             e == [end[n][m.from] EXCEPT !.nextNonce = x]
  <2>1. end[n][m.from] \in ChannelEnd
    BY <1>2 DEF TypeOK
  <2>2. e \in ChannelEnd
    BY <2>1 DEF ChannelEnd
  <2>3. end' = [end EXCEPT ![n][m.from] = e]
    BY <1>1, <1>2, <2>1 DEF ChannelEnd
  <2> HIDE DEF e
  <2> QED
    BY <2>2, <2>3, <1>2 DEF TypeOK, own
<1>4. /\ pending' \in [Node -> [Node -> SUBSET Message]] /\ \A k \in Node : pending'[k][k] = pending[k][k]
      /\ \A k, o \in Node : pending'[k][o] \subseteq pending[k][o]
  BY <1>1, <1>2 DEF TypeOK
<1>5. job' \in [Node -> SUBSET Message] /\ job'[n] = {} /\ \A k \in Node : k # n => job'[k] = job[k]
  BY <1>1, <1>2 DEF TypeOK
<1>6. TypeOK'
  BY <1>1, <1>2, <1>3, <1>4, <1>5 DEF TypeOK
<1>7. Addressed' /\ InLog'
  BY <1>1, <1>4, <1>5 DEF IInv, Addressed, InLog
<1>8. NextIsSigned' /\ Fresh' /\ NonceUnique'
  <2>1. {} \in SUBSET signing(n) /\ log' \subseteq log \cup {}
    BY <1>1
  <2> QED
    BY <2>1, <1>1, <1>2, <1>3, <1>5, <1>6, NoncesKeep DEF IInv
<1>9. PendingIsSent'
  BY <1>1, <1>4, SentSame DEF IInv, PendingIsSent, isSent
<1> QED
  BY <1>6, <1>7, <1>8, <1>9 DEF IInv

\* A withdraw is mined, or its expiration acknowledged
LEMMA ForgetKeeps ==
  ASSUME IInv, NEW n \in Node, NEW o \in Node, NEW kept \in SUBSET pending[n][o],
         pending' = [pending EXCEPT ![n][o] = kept],
         \A p, q \in pending[n][o] : p.of = q.of /\ p \in kept => q \in kept,
         UNCHANGED <<channel, reopened, end, job, asking, up, wire, log>>, withdrawn' \in [Node -> [Node -> Nat]],
         expiring' \in [Node -> SUBSET Message],
         \A k \in Node : /\ expiring'[k] \subseteq expiring[k] /\ (k # n => expiring'[k] = expiring[k])
                         /\ \A m \in expiring[k] : m \in expiring'[k] \/ m \notin pending'[k][k]
  PROVE  IInv'
<1>1. TypeOK /\ kept \in SUBSET Message
  BY DEF IInv, TypeOK
<1>2. /\ pending' \in [Node -> [Node -> SUBSET Message]] /\ pending'[n][o] = kept
      /\ \A k, l \in Node : k # n \/ l # o => pending'[k][l] = pending[k][l]
  BY <1>1 DEF TypeOK
<1>3. TypeOK'
  BY <1>1, <1>2 DEF TypeOK
<1>4. Addressed' /\ InLog'
  BY <1>1, <1>2 DEF IInv, Addressed, InLog
<1>5. NextIsSigned' /\ Fresh' /\ NonceUnique'
  BY DEF IInv, NextIsSigned, Fresh, NonceUnique, signing, own
<1>6. PendingIsSent'
  <2> SUFFICES ASSUME NEW k \in Node PROVE isSent(k)'
    BY DEF PendingIsSent, isSent
  <2>1. pending'[k][k] \subseteq pending[k][k]
    BY <1>2
  <2>2. \A p, q \in pending[k][k] : p.of = q.of /\ p \in pending'[k][k] => q \in pending'[k][k]
    BY <1>2
  <2>3. isSent(k)
    BY DEF IInv, PendingIsSent, isSent
  <2> QED
    BY <2>1, <2>2, <2>3, SentKeeps
<1> QED
  BY <1>3, <1>4, <1>5, <1>6 DEF IInv

LEMMA channelWithdrawnKeeps ==
  ASSUME IInv, NEW n \in Node, NEW w \in Withdraw, channelWithdrawn(n, w)
  PROVE  IInv'
<1> DEFINE o == Requester[w]
           counts == channel[n] = "open" /\ Total[w] > withdrawn[n][o]
           kept == {p \in pending[n][o] : counts => Total[p.of] > Total[w]}
<1>1. o \in Node /\ TypeOK /\ Total[w] \in Nat
  BY WithdrawsAssumption DEF IInv
<1>2. /\ withdrawn' = [withdrawn EXCEPT ![n][o] = IF counts THEN Total[w] ELSE @]
      /\ pending' = [pending EXCEPT ![n][o] = kept]
      /\ UNCHANGED <<channel, reopened, end, job, asking, expiring, up, wire, log>>
  BY DEF channelWithdrawn, network
<1>3. kept \in SUBSET pending[n][o] /\ \A p, q \in pending[n][o] : p.of = q.of /\ p \in kept => q \in kept
  OBVIOUS
<1> HIDE DEF o, kept, counts
<1>4. withdrawn' \in [Node -> [Node -> Nat]]
  BY <1>1, <1>2 DEF TypeOK
<1> QED
  BY <1>1, <1>2, <1>3, <1>4, ForgetKeeps DEF TypeOK

LEMMA withdrawCompletedKeeps ==
  ASSUME IInv, NEW n \in Node, NEW m \in expiring[n], withdrawCompleted(n, m)
  PROVE  IInv'
<1> DEFINE kept == {p \in pending[n][n] : channel[n] = "open" => p.of # m.of}
<1>1. TypeOK
  BY DEF IInv
<1>2. expiring' = [expiring EXCEPT ![n] = @ \ {m}] /\ pending' = [pending EXCEPT ![n][n] = kept]
      /\ UNCHANGED <<channel, reopened, end, withdrawn, job, asking, up, wire, log>>
  BY DEF withdrawCompleted, network
<1>3. kept \in SUBSET pending[n][n] /\ \A p, q \in pending[n][n] : p.of = q.of /\ p \in kept => q \in kept
  OBVIOUS
<1>4. CASE channel[n] = "open"
  <2>1. m \notin kept
    BY <1>4
  <2>2. expiring' \in [Node -> SUBSET Message] /\ pending'[n][n] = kept
    BY <1>1, <1>2, <1>3 DEF TypeOK
  <2> HIDE DEF kept
  <2>3. \A k \in Node : /\ expiring'[k] \subseteq expiring[k] /\ (k # n => expiring'[k] = expiring[k])
                        /\ \A p \in expiring[k] : p \in expiring'[k] \/ p \notin pending'[k][k]
    BY <1>1, <1>2, <2>1, <2>2 DEF TypeOK
  <2>4. withdrawn' \in [Node -> [Node -> Nat]]
    BY <1>1, <1>2 DEF TypeOK
  <2>5. pending' = [pending EXCEPT ![n][n] = kept] /\ UNCHANGED <<channel, reopened, end, job, asking, up, wire, log>>
    BY <1>2
  <2>6. n \in Node /\ IInv /\ kept \in SUBSET pending[n][n]
    BY <1>3
  <2>7. \A p, q \in pending[n][n] : p.of = q.of /\ p \in kept => q \in kept
    BY <1>3
  <2>8. expiring' \in [Node -> SUBSET Message]
    BY <2>2
  <2> QED
    BY <2>3, <2>4, <2>5, <2>6, <2>7, <2>8, ForgetKeeps, Zenon
<1>5. CASE channel[n] # "open"
  <2>1. pending' = pending
    BY <1>1, <1>2, <1>5 DEF TypeOK
  <2>2. /\ expiring' \in [Node -> SUBSET Message] /\ \A k \in Node : expiring'[k] \subseteq expiring[k]
        /\ \A k \in Node : k # n => expiring'[k] = expiring[k]
    BY <1>1, <1>2 DEF TypeOK
  <2>3. TypeOK'
    BY <1>1, <1>2, <2>1, <2>2 DEF TypeOK
  <2>4. Addressed' /\ InLog'
    BY <1>2, <2>1, <2>2 DEF IInv, Addressed, InLog
  <2>5. NextIsSigned' /\ Fresh' /\ NonceUnique'
    BY <1>2 DEF IInv, NextIsSigned, Fresh, NonceUnique, signing, own
  <2>6. PendingIsSent'
    <3> SUFFICES ASSUME NEW k \in Node PROVE isSent(k)'
      BY DEF PendingIsSent, isSent
    <3>1. CASE k # n
      BY <3>1, <1>2, <2>1, <2>2, SentSame DEF IInv
    <3>2. CASE k = n
      BY <3>2, <1>2, <1>5 DEF isSent
    <3> QED
      BY <3>1, <3>2
  <2> QED
    BY <2>3, <2>4, <2>5, <2>6 DEF IInv
<1> QED
  BY <1>4, <1>5

\* Both of a node's kinds of loops are taken up again from what is stored
LEMMA restartKeeps ==
  ASSUME IInv, NEW n \in Node, restart(n)
  PROVE  IInv'
<1> DEFINE requests == IF channel[n] = "open" THEN unconfirmed(n) ELSE {}
           expired == IF channel[n] = "open"
                      THEN {m \in pending[n][n] : m.type = "WithdrawExpired"} ELSE {}
           asked == {m.of : m \in requests}
           S == requests \cup expired
<1>1. /\ up' = [up EXCEPT ![n] = TRUE] /\ asking' = [asking EXCEPT ![n] = asked]
      /\ expiring' = [expiring EXCEPT ![n] = expired] /\ send(S)
      /\ UNCHANGED <<channel, reopened, end, withdrawn, pending, job>>
  BY DEF restart, store
<1>2. TypeOK /\ pending[n][n] \subseteq log /\ pending[n][n] \subseteq Message
      /\ \A m \in pending[n][n] : m.type \in WithdrawType
  BY DEF IInv, TypeOK, InLog
<1>3. requests \subseteq pending[n][n] /\ expired \subseteq pending[n][n]
  BY DEF unconfirmed
<1>4. asked \subseteq Withdraw
  BY <1>2, <1>3 DEF Message, WithdrawType
<1>5. channel[n] = "open" => /\ \A m \in unconfirmed(n) : m.of \in asked
                             /\ \A m \in pending[n][n] : m.type = "WithdrawExpired" => m \in expired
  OBVIOUS
<1> HIDE DEF requests, expired, asked
<1>6. /\ asking' \in [Node -> SUBSET Withdraw] /\ expiring' \in [Node -> SUBSET Message]
      /\ up' \in [Node -> BOOLEAN] /\ asking'[n] = asked /\ expiring'[n] = expired
      /\ \A k \in Node : k # n => asking'[k] = asking[k] /\ expiring'[k] = expiring[k] /\ up'[k] = up[k]
  BY <1>1, <1>2, <1>3, <1>4 DEF TypeOK
<1>7. log' = log /\ wire' \subseteq log
  BY <1>1, <1>2, <1>3 DEF send, TypeOK
<1>8. TypeOK'
  BY <1>1, <1>2, <1>6, <1>7 DEF TypeOK
<1>9. Addressed' /\ InLog'
  <2>1. \A k \in Node : expiring'[k] \subseteq log
    BY <1>2, <1>3, <1>6 DEF IInv, InLog
  <2> QED
    BY <2>1, <1>1, <1>7 DEF IInv, Addressed, InLog
<1>10. NextIsSigned' /\ Fresh' /\ NonceUnique'
  BY <1>1, <1>7 DEF IInv, NextIsSigned, Fresh, NonceUnique, signing, own
<1>11. PendingIsSent'
  <2> SUFFICES ASSUME NEW k \in Node PROVE isSent(k)'
    BY DEF PendingIsSent, isSent
  <2>1. CASE k # n
    BY <2>1, <1>1, <1>6, SentSame DEF IInv
  <2>2. CASE k = n
    <3>1. unconfirmed(n)' = unconfirmed(n)
      BY <1>1 DEF unconfirmed, match
    <3> QED
      BY <2>2, <3>1, <1>1, <1>5, <1>6 DEF isSent
  <2> QED
    BY <2>1, <2>2
<1> QED
  BY <1>8, <1>9, <1>10, <1>11 DEF IInv

LEMMA channelCloseKeeps ==
  ASSUME IInv, NEW n \in Node, channelClose(n) \/ channelCloseFailure(n)
  PROVE  IInv'
<1>1. /\ channel' \in [Node -> {"open", "closing"}] /\ asking' \in [Node -> SUBSET Withdraw]
      /\ reopened \subseteq reopened' /\ reopened' \subseteq Node
      /\ \A k \in Node : k \in reopened' \/ (channel'[k] = "open" => channel[k] = "open")
      /\ \A k \in Node : channel'[k] = "open" => asking'[k] = asking[k]
      /\ UNCHANGED <<end, withdrawn, pending, job, expiring, up, wire, log>>
  <2>1. CASE channelClose(n)
    BY <2>1 DEF channelClose, network, IInv, TypeOK
  <2>2. CASE channelCloseFailure(n)
    BY <2>2 DEF channelCloseFailure, epics, network, IInv, TypeOK
  <2> QED
    BY <2>1, <2>2
<1>2. TypeOK'
  BY <1>1 DEF IInv, TypeOK
<1>3. Addressed' /\ InLog'
  BY <1>1 DEF IInv, Addressed, InLog
<1>4. NextIsSigned' /\ Fresh' /\ NonceUnique'
  <2>1. {} \in SUBSET signing(n) /\ log' \subseteq log \cup {} /\ \A k \in Node : own(k)'.nextNonce = own(k).nextNonce
    BY <1>1 DEF own
  <2> QED
    BY <2>1, <1>1, <1>2, NoncesKeep DEF IInv
<1>5. PendingIsSent'
  BY <1>1, SentSame DEF IInv, PendingIsSent, isSent
<1> QED
  BY <1>2, <1>3, <1>4, <1>5 DEF IInv

\* Steps that send again what was sent before
LEMMA ResendsKeep ==
  ASSUME IInv, NEW n \in Node,
         \/ \E w \in Withdraw : retryWithdrawRequest(n, w)
         \/ \E m \in wire : confirmAgain(n, m)
         \/ \E m \in expiring[n] : retryWithdrawExpired(n, m)
  PROVE  IInv'
<1>1. \A o \in Node : pending[n][o] \subseteq log
  BY DEF IInv, InLog
<1>2. ASSUME NEW w \in Withdraw, retryWithdrawRequest(n, w) PROVE IInv'
  BY <1>2, <1>1, ResendKeeps DEF retryWithdrawRequest, match
<1>3. ASSUME NEW m \in wire, confirmAgain(n, m) PROVE IInv'
  <2>1. m.from \in Node
    BY <1>3, PeerAssumption DEF confirmAgain
  <2>2. PICK c \in match(n, m.from, "WithdrawConfirmation", m.of) : send({c})
    BY <1>3 DEF confirmAgain
  <2>3. c \in log
    BY <2>1, <2>2, <1>1 DEF match
  <2> QED
    BY <2>2, <2>3, <1>3, ResendKeeps DEF confirmAgain
<1>4. ASSUME NEW m \in expiring[n], retryWithdrawExpired(n, m) PROVE IInv'
  <2>1. m \in log
    BY DEF IInv, InLog
  <2> QED
    BY <2>1, <1>4, ResendKeeps DEF retryWithdrawExpired
<1> QED
  BY <1>2, <1>3, <1>4

LEMMA NextInv == IInv /\ [Next]_vars => IInv'
<1> SUFFICES ASSUME IInv, [Next]_vars PROVE IInv'
  OBVIOUS
<1>1. ASSUME NEW n \in Node, NEW w \in Withdraw, RequesterNext(n, w) PROVE IInv'
  <2>1. CASE sendWithdrawRequest(n, w) \/ sendWithdrawExpired(n, w)
    BY <2>1, BeginsKeep
  <2>2. CASE retryWithdrawRequest(n, w)
    BY <2>2, ResendsKeep
  <2>3. CASE withdrawSendTx(n, w)
    BY <2>3, ElseKeeps DEF withdrawSendTx, network
  <2>4. CASE withdrawFailure(n, w)
    BY <2>4, ElseKeeps DEF withdrawFailure, network
  <2> QED
    BY <1>1, <2>1, <2>2, <2>3, <2>4 DEF RequesterNext
<1>2. ASSUME NEW n \in Node, SignedNext(n) PROVE IInv'
  BY <1>2, transferSignedKeeps, withdrawMessageRequestKeeps, withdrawExpireSuccessKeeps,
     acknowledgeExpiredKeeps, confirmKeeps DEF SignedNext
<1>3. ASSUME NEW n \in Node, ReceiveNext(n) PROVE IInv'
  BY <1>3, BeginsKeep, ResendsKeep, receiveWithdrawConfirmationKeeps DEF ReceiveNext
<1>4. ASSUME NEW n \in Node, NodeNext(n) PROVE IInv'
  <2>1. ASSUME NEW t \in Transfer, transferRequest(n, t) PROVE IInv'
    BY <2>1, ElseKeeps DEF transferRequest, network
  <2>2. ASSUME NEW t \in Transfer, sendTransferSigned(n, t) PROVE IInv'
    BY <2>2, BeginsKeep
  <2>3. ASSUME NEW w \in Withdraw, expires(n, w) PROVE IInv'
    BY <2>3, ElseKeeps DEF expires, epics, network
  <2>4. CASE retryConfirmation(n)
    BY <2>4, ElseKeeps DEF retryConfirmation, network
  <2>5. CASE signatureFails(n)
    BY <2>5, BeginsKeep
  <2>6. CASE crash(n)
    BY <2>6, StopKeeps DEF crash, network
  <2>7. CASE \E m \in expiring[n] : retryWithdrawExpired(n, m) \/ withdrawCompleted(n, m)
    BY <2>7, ResendsKeep, withdrawCompletedKeeps
  <2>8. CASE \E w \in Withdraw : RequesterNext(n, w) \/ channelWithdrawn(n, w)
    BY <2>8, <1>1, channelWithdrawnKeeps
  <2> QED
    BY <1>2, <1>3, <1>4, <2>1, <2>2, <2>3, <2>4, <2>5, <2>6, <2>7, <2>8, restartKeeps,
       channelCloseKeeps DEF NodeNext
<1>5. ASSUME NEW w \in Withdraw, setTotalWithdraw(w) PROVE IInv'
  BY <1>5, ElseKeeps DEF setTotalWithdraw, network
<1>6. ASSUME NEW w \in Withdraw, expiresSoon(w) PROVE IInv'
  BY <1>6, ElseKeeps DEF expiresSoon, epics, network
<1>7. CASE UNCHANGED vars
  BY <1>7, ElseKeeps DEF vars, store
<1> QED
  BY <1>4, <1>5, <1>6, <1>7 DEF Next

-----------------------------------------------------------------------------

\* In every reachable state the invariant holds
THEOREM Invariant == Spec => []IInv
BY InitInv, NextInv, PTL DEF Spec

\* No two different messages of a client have the same nonce, whether they are transfers, requests,
\* confirmations or expirations of withdraws: with any withdraws and transfers, signatures refused,
\* crashes between any two steps and channels that begin to close while a message is being signed.
\* Of a client of which a close failed it says nothing: the reducer ignored what it signed meanwhile
THEOREM NoncesAreUnique == Spec => []NonceUnique
<1>1. IInv => NonceUnique
  BY DEF IInv
<1> QED
  BY Invariant, <1>1, PTL

\* Requests without a confirmation, and expirations without a Processed, are being sent by any client that
\* runs and whose channel is open, after any restart too.  Of a client of which a close failed it says
\* nothing: what was being sent when it began to close isn't taken up again
THEOREM WhatIsOwedIsSent == Spec => []PendingIsSent
<1>1. IInv => PendingIsSent
  BY DEF IInv
<1> QED
  BY Invariant, <1>1, PTL

-----------------------------------------------------------------------------
(***************************************************************************)
(* Transfers don't spend what a partner was let withdraw                   *)
(***************************************************************************)

\* w was confirmed
confirmed(w) == \E c \in log : c.type = "WithdrawConfirmation" /\ c.of = w

\* n still knows that the end of o asked for w, or withdrew as much
kept(n, o, w) == match(n, o, "WithdrawRequest", w) # {} \/ Total[w] <= withdrawn[n][o]

ChainType ==
  /\ ready \in [Node -> SUBSET Withdraw] /\ sending \in [Node -> SUBSET Withdraw]
  /\ watching \in [Node -> SUBSET Withdraw] /\ crashes \in [Node -> Nat]
  /\ late \subseteq Withdraw /\ past \in [Node -> SUBSET late]
  /\ txs \subseteq Withdraw /\ mined \subseteq Withdraw

\* What is brought to the chain was confirmed, and is brought there by the one who asked for it
ByConfirmation ==
  /\ \A n \in Node : \A w \in ready[n] : confirmed(w)
  /\ \A w \in txs \cup mined : confirmed(w)
  /\ \A n \in Node : /\ \A v, w \in sending[n] : v = w /\ Requester[w] = n
                     /\ \A w \in watching[n] : Requester[w] = n

\* Unless it crashes, a requester knows the transactions of the withdraws it watches
Watched ==
  \A n \in Node :
     crashes[n] = 0 =>
       /\ up[n] \/ channel[n] # "open"
       /\ \A w \in watching[n] : w \notin mined /\ (w \in txs => w \in sending[n])

\* ... its request stays until it knows that it is mined, and it asks for one at a time
RequestKept ==
  \A n \in Node :
     crashes[n] = 0 =>
       /\ \A w \in txs \cup mined : Requester[w] = n => kept(n, n, w)
       /\ \A m \in signing(n) :
             m.type = "WithdrawRequest" => pending[n][n] = {} /\ m.of \notin txs \cup mined

\* ... and it lets expire only what can't be mined any more
NeverMined ==
  \A n \in Node :
     /\ \A m \in expiring[n] : m.type = "WithdrawExpired"
     /\ crashes[n] = 0 =>
          \A m \in log \cup job[n] :
             m.type = "WithdrawExpired" /\ m.from = n => m.of \in past[n] \ (txs \cup mined)

\* What is being acknowledged still is the next of its sender's
NextIsReceived ==
  \A n \in Node : \A m \in job[n] :
     /\ m.from = Peer[n] /\ m.type \in {"LockedTransfer", "WithdrawRequest"} => m.nonce = partner(n).nextNonce
     /\ m.type = "WithdrawConfirmation" =>
          \A r \in job[n] : r.type = "WithdrawRequest" =>
             m.of = r.of /\ Total[r.of] <= TotalWithdrawable(partner(n), own(n))

\* What a partner that didn't crash was confirmed, unless both failed to close
claimed(n) ==
  {w \in claims(n) : Requester[w] = Peer[n] /\ crashes[Peer[n]] = 0 /\ ~ {n, Peer[n]} \subseteq reopened}

\* n confirmed w while it was closing: the request is the next message it applies
asked(n, w) ==
  /\ channel[n] # "open" \/ n \in reopened
  /\ \E m \in log : /\ m.type = "WithdrawRequest" /\ m.of = w
                    /\ m.from = Peer[n] /\ m.nonce = partner(n).nextNonce

\* What was confirmed is kept, or will be before a transfer, and what is being acknowledged doesn't spend it
ClaimKept ==
  \A n \in Node : \A w \in claimed(n) :
     /\ kept(n, Peer[n], w) \/ asked(n, w)
     /\ \A m \in job[n] :
           m.from = Peer[n] /\ m.type = "LockedTransfer"
             => Amount[m.of] + Total[w] <= TotalWithdrawable(partner(n), own(n))

\* Requests have a largest total
Bounded ==
  \A n, o \in Node : \E x \in Nat : \A p \in pending[n][o] : p.type = "WithdrawRequest" => Total[p.of] <= x

CoveredInv ==
  /\ ChainType /\ ByConfirmation /\ Watched /\ RequestKept /\ NeverMined
  /\ NextIsReceived /\ ClaimKept /\ Bounded /\ WithdrawsCovered

Inv == IInv /\ CoveredInv

-----------------------------------------------------------------------------
(* What keeps its parts *)

LEMMA AmountsAre ==
  ASSUME TypeOK, NEW n \in Node
  PROVE  /\ TotalWithdrawable(partner(n), own(n)) \in Int
         /\ partner(n) = end[n][Peer[n]] /\ own(n) = end[n][n]
         /\ end[n] \in [Node -> ChannelEnd] /\ end[n][n] \in ChannelEnd /\ end[n][Peer[n]] \in ChannelEnd
<1>1. end[n] \in [Node -> ChannelEnd] /\ end[n][n] \in ChannelEnd /\ end[n][Peer[n]] \in ChannelEnd
  BY PeerAssumption DEF TypeOK
<1>2. \A e \in ChannelEnd : totalLocked[e.registered] \in Nat /\ e.transferred \in Nat /\ e.deposit \in Nat /\ e.locked \in Int
  BY TotalLockedAssumption DEF ChannelEnd
<1> QED
  BY <1>1, <1>2 DEF partner, own, TotalWithdrawable, Balance, Unlocked, Locked

\* Only the nonces of n's copies change
sameAmounts(n) ==
  \A o \in Node : /\ end'[n][o].deposit = end[n][o].deposit /\ end'[n][o].transferred = end[n][o].transferred
                  /\ end'[n][o].locked = end[n][o].locked /\ end'[n][o].registered = end[n][o].registered

LEMMA AmountsSame ==
  ASSUME NEW n \in Node, sameAmounts(n)
  PROVE  TotalWithdrawable(partner(n), own(n))' = TotalWithdrawable(partner(n), own(n))
BY PeerAssumption DEF sameAmounts, partner, own, TotalWithdrawable, Balance, Unlocked, Locked

LEMMA ReducerAmounts ==
  ASSUME TypeOK, NEW n \in Node, NEW S, withdrawReducer(n, S)
  PROVE  \A k \in Node : sameAmounts(k)
<1> DEFINE nonce(o) == IF \E m \in {m \in S : applies(n, m)} : m.from = o THEN end[n][o].nextNonce + 1 ELSE end[n][o].nextNonce
           e(o) == [end[n][o] EXCEPT !.nextNonce = nonce(o)]
<1>1. end' = [end EXCEPT ![n] = [o \in Node |-> e(o)]]
  BY DEF withdrawReducer
<1>2. \A o \in Node : end[n][o] \in ChannelEnd
  BY DEF TypeOK
<1> HIDE DEF nonce
<1>3. \A o \in Node : /\ e(o).deposit = end[n][o].deposit /\ e(o).transferred = end[n][o].transferred
                      /\ e(o).locked = end[n][o].locked /\ e(o).registered = end[n][o].registered
  BY <1>2 DEF ChannelEnd
<1> HIDE DEF e
<1>4. \A k, o \in Node : end'[k][o] = IF k = n THEN e(o) ELSE end[k][o]
  BY <1>1 DEF TypeOK
<1> QED
  BY <1>3, <1>4 DEF sameAmounts

LEMMA KeptGrows ==
  ASSUME NEW n \in Node, NEW o \in Node, pending[n][o] \subseteq pending'[n][o],
         withdrawn'[n][o] = withdrawn[n][o], NEW w \in Withdraw, kept(n, o, w)
  PROVE  kept(n, o, w)'
BY DEF kept, match

\* Nothing is brought to the chain
LEMMA ChainSame ==
  ASSUME ChainType, ByConfirmation, Watched, log \subseteq log',
         UNCHANGED <<ready, sending, watching, crashes, up, channel, late, past, txs, mined>>
  PROVE  ChainType' /\ ByConfirmation' /\ Watched'
<1>1. \A w : confirmed(w) => confirmed(w)'
  BY DEF confirmed
<1>2. ChainType' /\ Watched'
  BY DEF ChainType, Watched
<1>3. ByConfirmation'
  BY <1>1 DEF ByConfirmation
<1> QED
  BY <1>2, <1>3

LEMMA RequestSame ==
  ASSUME RequestKept, txs' \cup mined' \subseteq txs \cup mined,
         \A n \in Node : crashes'[n] = 0 =>
            /\ crashes[n] = 0
            /\ \A w \in txs \cup mined : Requester[w] = n /\ kept(n, n, w) => kept(n, n, w)'
            /\ \A m \in signing(n)' : m.type = "WithdrawRequest" => m \in signing(n) /\ pending'[n][n] \subseteq pending[n][n]
  PROVE  RequestKept'
BY DEF RequestKept

LEMMA NeverMinedSame ==
  ASSUME NeverMined, txs' \cup mined' \subseteq txs \cup mined,
         \A n \in Node : \A m \in expiring'[n] : m.type = "WithdrawExpired",
         \A n \in Node : crashes'[n] = 0 =>
            /\ crashes[n] = 0 /\ past[n] \subseteq past'[n]
            /\ \A m \in log' \cup job'[n] : m.type = "WithdrawExpired" /\ m.from = n => m \in log \cup job[n]
  PROVE  NeverMined'
BY DEF NeverMined

LEMMA ReceivedSame ==
  ASSUME NextIsReceived,
         \A n \in Node : job'[n] = {} \/ (job'[n] \subseteq job[n] /\ end'[n] = end[n])
  PROVE  NextIsReceived'
<1> SUFFICES ASSUME NEW n \in Node, NEW m \in job'[n]
             PROVE  /\ m.from = Peer[n] /\ m.type \in {"LockedTransfer", "WithdrawRequest"} => m.nonce = partner(n)'.nextNonce
                    /\ m.type = "WithdrawConfirmation" =>
                         \A r \in job'[n] : r.type = "WithdrawRequest" =>
                            m.of = r.of /\ Total[r.of] <= TotalWithdrawable(partner(n), own(n))'
  BY DEF NextIsReceived
<1>1. job'[n] \subseteq job[n] /\ end'[n] = end[n]
  OBVIOUS
<1>2. partner(n)' = partner(n) /\ TotalWithdrawable(partner(n), own(n))' = TotalWithdrawable(partner(n), own(n))
  BY <1>1 DEF partner, own, TotalWithdrawable, Balance, Unlocked, Locked
<1> QED
  BY <1>1, <1>2 DEF NextIsReceived

\* No confirmation is sent for the first time
LEMMA ClaimedSame ==
  ASSUME NEW n \in Node, mined' = mined, \A o \in Node : past[o] \subseteq past'[o],
         crashes'[Peer[n]] = 0 => crashes[Peer[n]] = 0, reopened \subseteq reopened',
         \A m \in log' : m.type = "WithdrawConfirmation" /\ m.from = n => m \in log
  PROVE  claimed(n)' \subseteq claimed(n)
BY DEF claimed, claims

\* The next message that a node with a failed close applies is the request it confirmed
LEMMA NextIsAsked ==
  ASSUME Inv, NEW n \in Node, channel[n] = "open", NEW w \in claimed(n), asked(n, w),
         NEW p \in log, p.from = Peer[n], p.nonce = partner(n).nextNonce
  PROVE  p.type = "WithdrawRequest" /\ p.of = w
<1>1. PICK m \in log : /\ m.type = "WithdrawRequest" /\ m.of = w
                       /\ m.from = Peer[n] /\ m.nonce = partner(n).nextNonce
  BY DEF asked
<1>2. n \in reopened /\ Peer[n] \notin reopened
  BY DEF asked, claimed
<1>3. m = p
  BY <1>1, <1>2 DEF Inv, IInv, NonceUnique
<1> QED
  BY <1>1, <1>3

LEMMA ClaimsSame ==
  ASSUME ClaimKept, WithdrawsCovered,
         \A n \in Node :
            /\ sameAmounts(n) /\ claimed(n)' \subseteq claimed(n)
            /\ \A w \in claimed(n)' : /\ kept(n, Peer[n], w) => kept(n, Peer[n], w)'
                                      /\ asked(n, w) => asked(n, w)'
            /\ \A m \in job'[n] : m.from = Peer[n] /\ m.type = "LockedTransfer" => m \in job[n]
  PROVE  ClaimKept' /\ WithdrawsCovered'
<1>1. \A n \in Node : TotalWithdrawable(partner(n), own(n))' = TotalWithdrawable(partner(n), own(n))
  BY AmountsSame
<1>2. ClaimKept'
  BY <1>1 DEF ClaimKept
<1>3. WithdrawsCovered'
  <2> SUFFICES ASSUME NEW n \in Node, NEW w \in claimed(n)'
               PROVE  Total[w] <= TotalWithdrawable(partner(n), own(n))'
    BY DEF WithdrawsCovered, claimed
  <2>1. w \in claimed(n)
    OBVIOUS
  <2> QED
    BY <1>1, <2>1 DEF WithdrawsCovered, claimed
<1> QED
  BY <1>2, <1>3

LEMMA BoundedSame ==
  ASSUME Bounded, \A n, o \in Node : pending'[n][o] \subseteq pending[n][o]
  PROVE  Bounded'
<1> SUFFICES ASSUME NEW n \in Node, NEW o \in Node
             PROVE  \E x \in Nat : \A p \in pending'[n][o] : p.type = "WithdrawRequest" => Total[p.of] <= x
  BY DEF Bounded
<1>1. PICK x \in Nat : \A p \in pending[n][o] : p.type = "WithdrawRequest" => Total[p.of] <= x
  BY DEF Bounded
<1> QED
  BY <1>1

-----------------------------------------------------------------------------
(* The parts are kept by each step *)

\* Only what is asked of the client, what waits for the chain and the clocks change
LEMMA ElseCovered ==
  ASSUME Inv, UNCHANGED <<store, job, sending, watching, expiring, crashes, up, log, txs, mined>>, ChainType',
         \A n \in Node : (\A w \in ready'[n] : confirmed(w)) /\ past[n] \subseteq past'[n]
  PROVE  CoveredInv'
<1>1. CoveredInv /\ UNCHANGED <<channel, reopened, end, withdrawn, pending>>
  BY DEF Inv, store
<1>2. ByConfirmation' /\ Watched'
  BY <1>1 DEF CoveredInv, ByConfirmation, Watched, confirmed
<1>3. RequestKept'
  BY <1>1 DEF CoveredInv, RequestKept, kept, match, signing
<1>4. NeverMined' /\ NextIsReceived'
  <2>1. NeverMined'
    BY <1>1, NeverMinedSame DEF CoveredInv, NeverMined
  <2>2. NextIsReceived'
    BY <1>1, ReceivedSame DEF CoveredInv
  <2> QED
    BY <2>1, <2>2
<1>5. ClaimKept' /\ WithdrawsCovered'
  <2>1. \A n \in Node : sameAmounts(n)
    BY <1>1 DEF sameAmounts
  <2>2. \A n \in Node : claimed(n)' \subseteq claimed(n)
    BY <1>1 DEF claimed, claims
  <2>3. \A n \in Node : \A w \in claimed(n) : kept(n, Peer[n], w) => kept(n, Peer[n], w)'
    BY <1>1 DEF kept, match
  <2>4. \A n \in Node : \A w : asked(n, w) => asked(n, w)'
    BY <1>1 DEF asked, partner
  <2> QED
    BY <1>1, <2>1, <2>2, <2>3, <2>4, ClaimsSame DEF CoveredInv
<1>6. Bounded'
  BY <1>1 DEF CoveredInv, Bounded
<1> QED
  BY <1>2, <1>3, <1>4, <1>5, <1>6 DEF CoveredInv

\* The concatMap begins
LEMMA BeginCovered ==
  ASSUME Inv, NEW n \in Node, NEW S \in SUBSET Message, begin(n, S),
         \A m \in S :
            /\ m.from = n /\ crashes[n] = 0 =>
                 /\ m.type = "WithdrawRequest" => pending[n][n] = {} /\ m.of \notin txs \cup mined
                 /\ m.type = "WithdrawExpired" => m.of \in past[n] \ (txs \cup mined)
            /\ m.from = Peer[n] =>
                 /\ m.type \in {"LockedTransfer", "WithdrawRequest"} => m.nonce = partner(n).nextNonce
                 /\ m.type = "LockedTransfer" =>
                      \A w \in claimed(n) : Amount[m.of] + Total[w] <= TotalWithdrawable(partner(n), own(n))
            /\ m.type = "WithdrawConfirmation" =>
                 \A r \in S : r.type = "WithdrawRequest" =>
                    m.of = r.of /\ Total[r.of] <= TotalWithdrawable(partner(n), own(n))
  PROVE  CoveredInv'
<1>1. /\ CoveredInv /\ job' = [job EXCEPT ![n] = S]
      /\ UNCHANGED <<channel, reopened, end, withdrawn, pending, log, late, past, txs, mined>>
      /\ UNCHANGED <<watching, expiring, ready, sending, up, crashes>>
  BY DEF begin, store, network, world, Inv
<1>2. job'[n] = S /\ \A k \in Node : k # n => job'[k] = job[k]
  BY <1>1 DEF Inv, IInv, TypeOK
<1>3. ChainType' /\ ByConfirmation' /\ Watched'
  BY <1>1, ChainSame DEF CoveredInv
<1>4. \A k \in Node : \A m \in job'[k] : m \in job[k] \/ (k = n /\ m \in S)
  BY <1>2
<1>5. RequestKept'
  <2>1. \A k, o \in Node : \A w : kept(k, o, w)' <=> kept(k, o, w)
    BY <1>1 DEF kept, match
  <2> QED
    BY <1>1, <1>4, <2>1 DEF CoveredInv, RequestKept, signing
<1>6. NeverMined'
  BY <1>1, <1>4 DEF CoveredInv, NeverMined
<1>7. \A k \in Node : /\ partner(k)' = partner(k) /\ claimed(k)' = claimed(k)
                      /\ TotalWithdrawable(partner(k), own(k))' = TotalWithdrawable(partner(k), own(k))
  BY <1>1 DEF partner, own, TotalWithdrawable, Balance, Unlocked, Locked, claimed, claims
<1>8. NextIsReceived'
  BY <1>1, <1>2, <1>7 DEF CoveredInv, NextIsReceived
<1>9. ClaimKept'
  <2>1. \A k \in Node : \A w : /\ kept(k, Peer[k], w)' <=> kept(k, Peer[k], w)
                               /\ asked(k, w)' <=> asked(k, w)
    BY <1>1, <1>7 DEF kept, match, asked
  <2> QED
    BY <1>1, <1>4, <1>7, <2>1 DEF CoveredInv, ClaimKept
<1>10. Bounded' /\ WithdrawsCovered'
  BY <1>1, <1>7 DEF CoveredInv, Bounded, WithdrawsCovered, claims
<1> QED
  BY <1>3, <1>5, <1>6, <1>8, <1>9, <1>10 DEF CoveredInv

\* A set of numbers with a bound has a largest one
LEMMA MaxIs ==
  ASSUME NEW S \in SUBSET Nat, S # {}, NEW b \in Nat, \A x \in S : x <= b
  PROVE  Max(S) \in S /\ \A x \in S : x <= Max(S)
<1> DEFINE T == {x \in Nat : \A y \in S : y <= x}
<1>1. T # {} /\ T \subseteq Nat
  OBVIOUS
<1>2. PICK x \in T : \A y \in T : ~(<<y, x>> \in OpToRel(<, Nat))
  <2> HIDE DEF T
  <2> QED
    BY <1>1, NatLessThanWellFounded, WFMin, Zenon
<1>3. \A y \in T : ~(y < x)
  BY <1>2 DEF OpToRel
<1>4. x \in S
  <2> SUFFICES ASSUME x \notin S PROVE FALSE
    OBVIOUS
  <2>1. \A y \in S : y < x
    OBVIOUS
  <2>2. x # 0
    <3>1. PICK y \in S : y < x /\ y \in Nat
      BY <2>1
    <3> QED
      BY <3>1
  <2>3. x - 1 \in Nat /\ \A y \in S : y <= x - 1
    BY <2>1, <2>2
  <2>4. x - 1 \in T /\ x - 1 < x
    BY <2>3
  <2> QED
    BY <2>4, <1>3
<1> QED
  BY <1>4 DEF Max

\* The capacity of a partner doesn't count what it still may withdraw
LEMMA PendingWithdrawIs ==
  ASSUME Inv, NEW n \in Node, NEW o \in Node, NEW w \in Withdraw, kept(n, o, w)
  PROVE  pendingWithdraw(n, o) \in Nat /\ Total[w] <= pendingWithdraw(n, o)
<1> DEFINE R == {q \in pending[n][o] : q.type = "WithdrawRequest"}
           S == {withdrawn[n][o]} \cup {Total[p.of] : p \in R}
<1>1. withdrawn[n][o] \in Nat /\ pending[n][o] \subseteq Message
  BY DEF Inv, IInv, TypeOK
<1>2. \A p \in R : p.of \in Withdraw /\ Total[p.of] \in Nat
  BY <1>1, WithdrawsAssumption DEF Message
<1>3. S \in SUBSET Nat /\ S # {}
  BY <1>1, <1>2
<1>4. PICK x \in Nat : \A p \in R : Total[p.of] <= x
  BY DEF Inv, CoveredInv, Bounded
<1>5. \A y \in S : y <= x + withdrawn[n][o]
  BY <1>1, <1>2, <1>4
<1>6. x + withdrawn[n][o] \in Nat
  BY <1>1
<1>7. \E y \in S : Total[w] <= y
  BY <1>1, WithdrawsAssumption DEF kept, match
<1> HIDE DEF S
<1>8. Max(S) \in S /\ \A y \in S : y <= Max(S)
  BY <1>3, <1>5, <1>6, MaxIs
<1>9. Total[w] <= Max(S) /\ Max(S) \in Nat
  <2>1. PICK y \in S : Total[w] <= y
    BY <1>7
  <2>2. y \in Nat /\ Max(S) \in Nat /\ y <= Max(S) /\ Total[w] \in Nat
    BY <1>3, <1>8, WithdrawsAssumption
  <2> QED
    BY <2>1, <2>2
<1> QED
  BY <1>9 DEF pendingWithdraw, S

LEMMA sendTransferSignedCovered ==
  ASSUME Inv, NEW n \in Node, NEW t \in Transfer, sendTransferSigned(n, t)
  PROVE  CoveredInv'
<1> DEFINE m == compose(n, "LockedTransfer", t)
<1>1. m \in Message /\ m.from = n /\ m.type = "LockedTransfer"
  BY ComposeIs DEF Inv, IInv
<1>2. begin(n, {m}) \/ begin(n, {})
  BY DEF sendTransferSigned
<1> HIDE DEF m
<1>3. Peer[n] # n
  BY PeerAssumption
<1> QED
  BY <1>1, <1>2, <1>3, BeginCovered

\* The first request, or the first after an earlier one is forgotten
LEMMA sendWithdrawRequestCovered ==
  ASSUME Inv, NEW n \in Node, NEW w \in Withdraw, sendWithdrawRequest(n, w)
  PROVE  CoveredInv'
<1> DEFINE m == compose(n, "WithdrawRequest", w)
<1>1. m \in Message /\ m.from = n /\ m.type = "WithdrawRequest" /\ m.of = w
  BY ComposeIs DEF Inv, IInv, WithdrawType
<1>2. begin(n, {m}) /\ pending[n][n] = {} /\ Total[w] > withdrawn[n][n] /\ Requester[w] = n
  BY DEF sendWithdrawRequest, withdrawChannel
<1> HIDE DEF m
<1>3. Peer[n] # n /\ Total[w] \in Nat /\ withdrawn[n][n] \in Nat
  BY PeerAssumption, WithdrawsAssumption DEF Inv, IInv, TypeOK
<1>4. ~kept(n, n, w)
  BY <1>2, <1>3 DEF kept, match
<1>5. crashes[n] = 0 => w \notin txs \cup mined
  BY <1>2, <1>4 DEF Inv, CoveredInv, RequestKept
<1> QED
  BY <1>1, <1>2, <1>3, <1>5, BeginCovered

\* A withdraw that is watched, and whose transaction isn't waited for, has none
LEMMA sendWithdrawExpiredCovered ==
  ASSUME Inv, NEW n \in Node, NEW w \in Withdraw, sendWithdrawExpired(n, w)
  PROVE  CoveredInv'
<1> DEFINE m == compose(n, "WithdrawExpired", w)
<1>1. m \in Message /\ m.from = n /\ m.type = "WithdrawExpired" /\ m.of = w
  BY ComposeIs DEF Inv, IInv, WithdrawType
<1>2. /\ begin(n, {m}) /\ channel[n] = "open" /\ Requester[w] = n
      /\ w \in watching[n] /\ w \in past[n] /\ w \notin sending[n]
  BY DEF sendWithdrawExpired, match, Inv, IInv, InLog
<1> HIDE DEF m
<1>3. crashes[n] = 0 => w \notin txs \cup mined
  BY <1>2 DEF Inv, CoveredInv, Watched
<1>4. Peer[n] # n
  BY PeerAssumption
<1> QED
  BY <1>1, <1>2, <1>3, <1>4, BeginCovered

\* What a transfer of the partner leaves covers what the partner may withdraw
LEMMA receiveTransferSignedCovered ==
  ASSUME Inv, NEW n \in Node, NEW m \in wire, receiveTransferSigned(n, m)
  PROVE  CoveredInv'
<1>1. /\ begin(n, {m}) /\ m.from = Peer[n] /\ m.type = "LockedTransfer" /\ channel[n] = "open"
      /\ m.nonce = partner(n).nextNonce
      /\ Amount[m.of] <= TotalWithdrawable(partner(n), own(n)) - pendingWithdraw(n, Peer[n])
  BY DEF receiveTransferSigned, Capacity
<1>2. m \in Message /\ Peer[n] # n /\ Peer[n] \in Node /\ TypeOK
  BY PeerAssumption DEF Inv, IInv, TypeOK
<1>3. Amount[m.of] \in Nat
  BY <1>1, <1>2, TransferAssumption DEF Message, WithdrawType
<1>4. \A w \in claimed(n) : Amount[m.of] + Total[w] <= TotalWithdrawable(partner(n), own(n))
  <2> SUFFICES ASSUME NEW w \in claimed(n)
               PROVE  Amount[m.of] + Total[w] <= TotalWithdrawable(partner(n), own(n))
    OBVIOUS
  <2>1. w \in Withdraw
    BY <1>2 DEF claimed, claims, Inv, CoveredInv, ChainType, IInv, TypeOK, Message, WithdrawType
  <2>2. kept(n, Peer[n], w)
    BY <1>1, NextIsAsked DEF Inv, IInv, TypeOK, CoveredInv, ClaimKept
  <2>3. pendingWithdraw(n, Peer[n]) \in Nat /\ Total[w] <= pendingWithdraw(n, Peer[n])
    BY <1>2, <2>1, <2>2, PendingWithdrawIs
  <2>4. TotalWithdrawable(partner(n), own(n)) \in Int /\ Total[w] \in Nat
    BY <1>2, <2>1, AmountsAre, WithdrawsAssumption
  <2> QED
    BY <1>1, <1>3, <2>3, <2>4
<1> QED
  BY <1>1, <1>2, <1>4, BeginCovered

LEMMA receiveWithdrawRequestCovered ==
  ASSUME Inv, NEW n \in Node, NEW m \in wire, receiveWithdrawRequest(n, m)
  PROVE  CoveredInv'
<1> DEFINE c == compose(n, "WithdrawConfirmation", m.of)
<1>1. /\ begin(n, {m, c}) /\ m.from = Peer[n] /\ m.type = "WithdrawRequest"
      /\ m.nonce = partner(n).nextNonce /\ Total[m.of] <= TotalWithdrawable(partner(n), own(n))
  BY DEF receiveWithdrawRequest
<1>2. m \in Message /\ Peer[n] # n /\ TypeOK
  BY PeerAssumption DEF Inv, IInv, TypeOK
<1>3. c \in Message /\ c.from = n /\ c.type = "WithdrawConfirmation" /\ c.of = m.of
  BY <1>1, <1>2, ComposeIs DEF Message, WithdrawType
<1> HIDE DEF c
<1> QED
  BY <1>1, <1>2, <1>3, BeginCovered

LEMMA BeginsCovered ==
  ASSUME Inv, NEW n \in Node,
         \/ \E t \in Transfer : sendTransferSigned(n, t)
         \/ \E w \in Withdraw : sendWithdrawRequest(n, w) \/ sendWithdrawExpired(n, w)
         \/ \E m \in wire : \/ receiveTransferSigned(n, m) \/ receiveWithdrawRequest(n, m)
                            \/ receiveWithdrawExpired(n, m)
         \/ signatureFails(n)
  PROVE  CoveredInv'
<1>1. ASSUME NEW m \in wire, receiveWithdrawExpired(n, m) PROVE CoveredInv'
  <2>1. begin(n, {m}) /\ m.from = Peer[n] /\ m.type = "WithdrawExpired" /\ Peer[n] # n /\ m \in Message
    BY <1>1, PeerAssumption DEF receiveWithdrawExpired, Inv, IInv, TypeOK
  <2> QED
    BY <2>1, BeginCovered
<1>2. CASE signatureFails(n)
  BY <1>2, BeginCovered DEF signatureFails
<1> QED
  BY <1>1, <1>2, sendTransferSignedCovered, sendWithdrawRequestCovered, sendWithdrawExpiredCovered,
     receiveTransferSignedCovered, receiveWithdrawRequestCovered

LEMMA BoundedReducer ==
  ASSUME TypeOK, Bounded, NEW n \in Node, NEW m \in Message, NEW c \in Message, withdrawReducer(n, {m, c})
  PROVE  Bounded'
<1> SUFFICES ASSUME NEW k \in Node, NEW o \in Node
             PROVE  \E x \in Nat : \A p \in pending'[k][o] : p.type = "WithdrawRequest" => Total[p.of] <= x
  BY DEF Bounded
<1>1. PICK x \in Nat : \A p \in pending[k][o] : p.type = "WithdrawRequest" => Total[p.of] <= x
  BY DEF Bounded
<1>2. \A p \in pending'[k][o] : p \in pending[k][o] \/ p = m \/ p = c
  BY ReducerIs
<1> DEFINE t(p) == IF p.type = "WithdrawRequest" THEN Total[p.of] ELSE 0
           y == x + t(m) + t(c)
<1>3. t(m) \in Nat /\ t(c) \in Nat
  BY WithdrawsAssumption DEF Message
<1>4. \A p \in pending'[k][o] : p.type = "WithdrawRequest" => Total[p.of] <= x \/ Total[p.of] = t(m) \/ Total[p.of] = t(c)
  BY <1>1, <1>2
<1>5. \A p \in pending'[k][o] : p.type = "WithdrawRequest" => Total[p.of] \in Nat
  <2>1. \A p \in pending'[k][o] : p \in Message
    <3>1. pending[k][o] \subseteq Message
      BY DEF TypeOK
    <3> QED
      BY <1>2, <3>1
  <2> QED
    BY <2>1, WithdrawsAssumption DEF Message
<1> HIDE DEF t
<1>6. y \in Nat /\ \A p \in pending'[k][o] : p.type = "WithdrawRequest" => Total[p.of] <= y
  BY <1>3, <1>4, <1>5
<1> QED
  BY <1>6

\* What n lets its partner withdraw is covered, and its request is applied with it, or is the next
covers(n, R, m) ==
  /\ Total[m.of] <= TotalWithdrawable(partner(n), own(n))
  /\ \E p \in R : /\ p \in log /\ p.type = "WithdrawRequest" /\ p.of = m.of
                  /\ p.from = Peer[n] /\ Requester[p.of] = Peer[n] /\ p.nonce = partner(n).nextNonce

\* What n signed or received is applied, and what it signed is sent
LEMMA AppliedCovered ==
  ASSUME Inv, NEW n \in Node, NEW R \in SUBSET Message, withdrawReducer(n, R), job' = [job EXCEPT ![n] = {}],
         log \subseteq log', UNCHANGED <<channel, reopened, withdrawn, sending, up, crashes, late, past, txs, mined>>,
         ChainType', Bounded',
         \A k \in Node : /\ \A w \in ready'[k] : confirmed(w)'
                         /\ \A w \in watching'[k] : w \in watching[k] \/ (Requester[w] = k /\ (crashes[k] = 0 => w \notin txs \cup mined))
                         /\ \A m \in expiring'[k] : m.type = "WithdrawExpired",
         \A m \in R : m.from = n \/ m \in log,
         \A m \in log' : m \in log \/ (m.from = n /\ m \in job[n]),
         \A m \in log' : m.type = "WithdrawConfirmation" /\ m \notin log => covers(n, R, m)
  PROVE  CoveredInv'
<1>1. CoveredInv /\ TypeOK /\ Peer[n] # n /\ Peer \in [Node -> Node]
  BY PeerAssumption DEF Inv, IInv
<1>2. job'[n] = {} /\ \A k \in Node : k # n => job'[k] = job[k]
  BY <1>1 DEF TypeOK
<1>3. /\ \A k \in Node : k # n => end'[k] = end[k] /\ pending'[k] = pending[k]
      /\ \A o \in Node : pending'[n][o] = pending[n][o] \cup {m \in R : applies(n, m) /\ Requester[m.of] = o}
  BY <1>1, ReducerIs
<1>4. \A k, o \in Node : pending[k][o] \subseteq pending'[k][o]
  BY <1>3
<1>5. \A k, o \in Node : \A w \in Withdraw : kept(k, o, w) => kept(k, o, w)'
  BY <1>4, KeptGrows
<1>6. ByConfirmation'
  <2>1. \A w : confirmed(w) => confirmed(w)'
    BY DEF confirmed
  <2> QED
    BY <1>1, <2>1 DEF CoveredInv, ByConfirmation
<1>7. Watched'
  BY <1>1 DEF CoveredInv, Watched
<1>8. RequestKept'
  <2>1. \A k \in Node : \A m \in signing(k)' : m \in signing(k) /\ pending'[k][k] \subseteq pending[k][k]
    BY <1>2, <1>3 DEF signing
  <2>2. \A k \in Node : \A w \in txs \cup mined : kept(k, k, w) => kept(k, k, w)'
    BY <1>1, <1>5 DEF CoveredInv, ChainType
  <2> QED
    BY <1>1, <2>1, <2>2, RequestSame DEF CoveredInv
<1>9. NeverMined'
  <2>1. \A k \in Node : \A m \in log' \cup job'[k] : m.from = k => m \in log \cup job[k]
    BY <1>2
  <2> QED
    BY <1>1, <2>1, NeverMinedSame DEF CoveredInv
<1>10. NextIsReceived'
  BY <1>1, <1>2, <1>3, ReceivedSame DEF CoveredInv
<1>11. \A k \in Node : TotalWithdrawable(partner(k), own(k))' = TotalWithdrawable(partner(k), own(k))
  BY <1>1, ReducerAmounts, AmountsSame
<1>12. /\ \A k \in Node : \/ partner(k).nextNonce' = partner(k).nextNonce
                          \/ /\ k = n /\ channel[n] = "open"
                             /\ \E p \in R : p \in log /\ p.from = Peer[n] /\ applies(n, p)
       /\ channel[n] # "open" => partner(n).nextNonce' = partner(n).nextNonce
  <2>1. \A o \in Node : end'[n][o].nextNonce = IF \E m \in R : applies(n, m) /\ m.from = o
                                                THEN end[n][o].nextNonce + 1 ELSE end[n][o].nextNonce
    BY <1>1, ReducerIs
  <2> QED
    BY <1>1, <1>3, <2>1 DEF partner, applies
<1>13. ASSUME NEW k \in Node, NEW w \in claimed(k)'
       PROVE  \/ w \in claimed(k) /\ (kept(k, Peer[k], w)' \/ asked(k, w)')
              \/ /\ k = n /\ Total[w] <= TotalWithdrawable(partner(n), own(n))
                 /\ kept(n, Peer[n], w)' \/ asked(n, w)'
  <2>1. Peer[k] \in Node
    BY <1>1
  <2>2. CASE w \in claimed(k) /\ kept(k, Peer[k], w)
    <3>1. w \in Withdraw
      BY <1>1, <2>2 DEF claimed, claims, CoveredInv, ChainType, TypeOK, Message, WithdrawType
    <3> QED
      BY <1>5, <2>1, <2>2, <3>1
  <2>3. CASE w \in claimed(k) /\ asked(k, w)
    <3>1. CASE partner(k).nextNonce' = partner(k).nextNonce
      <4>1. asked(k, w)'
        BY <2>3, <3>1 DEF asked
      <4> QED
        BY <2>3, <4>1
    <3>2. CASE partner(k).nextNonce' # partner(k).nextNonce
      <4>1. k = n /\ channel[n] = "open"
        BY <1>12, <3>2
      <4>2. PICK p \in R : p \in log /\ p.from = Peer[n] /\ applies(n, p)
        BY <1>12, <3>2
      <4>3. p.nonce = partner(n).nextNonce
        BY <4>2 DEF applies, partner
      <4>4. p.type = "WithdrawRequest" /\ p.of = w
        BY <2>3, <4>1, <4>2, <4>3, NextIsAsked
      <4>5. Requester[w] = Peer[n]
        BY <2>3, <4>1 DEF claimed
      <4>6. p \in pending'[n][Peer[n]]
        BY <1>3, <2>1, <4>1, <4>2, <4>4, <4>5
      <4>7. kept(k, Peer[k], w)'
        BY <4>1, <4>4, <4>6 DEF kept, match
      <4> QED
        BY <2>3, <4>7
    <3> QED
      BY <3>1, <3>2
  <2>4. CASE w \notin claimed(k)
    <3>1. PICK c \in log' : c.type = "WithdrawConfirmation" /\ c.from = k /\ c.of = w /\ c \notin log
      BY <2>4 DEF claimed, claims
    <3>2. k = n /\ Total[w] <= TotalWithdrawable(partner(n), own(n))
      BY <3>1 DEF covers
    <3>3. PICK p \in R : /\ p \in log /\ p.type = "WithdrawRequest" /\ p.of = w
                         /\ p.from = Peer[n] /\ Requester[p.of] = Peer[n] /\ p.nonce = partner(n).nextNonce
      BY <3>1 DEF covers
    <3>4. CASE channel[n] = "open"
      <4>1. applies(n, p)
        BY <3>3, <3>4 DEF applies, partner
      <4>2. p \in pending'[n][Peer[n]]
        BY <1>3, <2>1, <3>2, <3>3, <4>1
      <4>3. kept(n, Peer[n], w)'
        BY <3>3, <4>2 DEF kept, match
      <4> QED
        BY <3>2, <4>3
    <3>5. CASE channel[n] # "open"
      <4>1. partner(n).nextNonce' = partner(n).nextNonce
        BY <1>12, <3>5
      <4>2. asked(n, w)'
        BY <3>3, <3>5, <4>1 DEF asked
      <4> QED
        BY <3>2, <4>2
    <3> QED
      BY <3>4, <3>5
  <2> QED
    BY <1>1, <2>2, <2>3, <2>4 DEF CoveredInv, ClaimKept
<1>14. ClaimKept'
  <2> SUFFICES ASSUME NEW k \in Node, NEW w \in claimed(k)'
               PROVE  /\ kept(k, Peer[k], w)' \/ asked(k, w)'
                      /\ \A m \in job'[k] :
                            m.from = Peer[k] /\ m.type = "LockedTransfer"
                              => Amount[m.of] + Total[w] <= TotalWithdrawable(partner(k), own(k))'
    BY DEF ClaimKept
  <2>1. kept(k, Peer[k], w)' \/ asked(k, w)'
    BY <1>13
  <2>2. CASE w \in claimed(k)
    <3>1. job'[k] \subseteq job[k]
      BY <1>2
    <3> QED
      BY <1>1, <1>11, <2>1, <2>2, <3>1 DEF CoveredInv, ClaimKept
  <2>3. CASE w \notin claimed(k)
    BY <1>2, <1>13, <2>1, <2>3
  <2> QED
    BY <2>2, <2>3
<1>15. WithdrawsCovered'
  <2> SUFFICES ASSUME NEW k \in Node, NEW w \in claimed(k)'
               PROVE  Total[w] <= TotalWithdrawable(partner(k), own(k))'
    BY DEF WithdrawsCovered, claimed
  <2>1. CASE w \in claimed(k)
    BY <1>1, <1>11, <2>1 DEF CoveredInv, WithdrawsCovered, claimed
  <2> QED
    BY <1>11, <1>13, <2>1
<1> QED
  BY <1>6, <1>7, <1>8, <1>9, <1>10, <1>14, <1>15 DEF CoveredInv

LEMMA withdrawMessageRequestCovered ==
  ASSUME Inv, NEW n \in Node, NEW m \in job[n], withdrawMessageRequest(n, m)
  PROVE  CoveredInv'
<1> DEFINE S == {p \in {m} : applies(n, p)}
           ws == {p.of : p \in S}
<1>1. /\ m.from = n /\ m.type = "WithdrawRequest" /\ withdrawReducer(n, {m})
      /\ job' = [job EXCEPT ![n] = {}] /\ watching' = [watching EXCEPT ![n] = @ \cup ws] /\ send(S)
      /\ UNCHANGED <<channel, reopened, withdrawn, expiring, ready, sending, up, crashes, late, past, txs, mined>>
  BY DEF withdrawMessageRequest, world
<1>2. TypeOK /\ CoveredInv /\ m \in Message /\ m \in signing(n) /\ m.of \in Withdraw /\ {m} \in SUBSET Message
  BY <1>1 DEF Inv, IInv, TypeOK, signing, Message
<1>3. S \subseteq {m} /\ ws \subseteq {m.of} /\ log' = log \cup S
  BY <1>1 DEF send
<1> HIDE DEF S, ws
<1>4. /\ watching' \in [Node -> SUBSET Withdraw]
      /\ \A k \in Node : \A w \in watching'[k] : w \in watching[k] \/ (k = n /\ w = m.of)
      /\ Requester[m.of] = n /\ \A k \in Node : \A p \in expiring'[k] : p.type = "WithdrawExpired"
  BY <1>1, <1>2, <1>3 DEF CoveredInv, ChainType, NeverMined, Inv, IInv, Addressed, addressed
<1>5. crashes[n] = 0 => m.of \notin txs \cup mined
  BY <1>1, <1>2 DEF CoveredInv, RequestKept
<1>6. ChainType' /\ Bounded'
  <2>1. Bounded'
    <3>1. withdrawReducer(n, {m, m})
      BY <1>1
    <3> QED
      BY <1>2, <3>1, BoundedReducer DEF CoveredInv
  <2> QED
    BY <1>1, <1>2, <1>4, <2>1 DEF CoveredInv, ChainType
<1>7. \A k \in Node : \A w \in ready'[k] : confirmed(w)'
  BY <1>1, <1>2, <1>3 DEF CoveredInv, ByConfirmation, confirmed
<1>8. /\ \A k \in Node : /\ \A w \in watching'[k] :
                              w \in watching[k] \/ (Requester[w] = k /\ (crashes[k] = 0 => w \notin txs \cup mined))
                         /\ \A p \in expiring'[k] : p.type = "WithdrawExpired"
      /\ \A p \in log' : p \in log \/ (p = m /\ p.from = n /\ p \in job[n])
      /\ \A p \in log' : p.type = "WithdrawConfirmation" => p \in log
  BY <1>1, <1>3, <1>4, <1>5
<1> DEFINE R == {m}
<1>9. R \in SUBSET Message /\ withdrawReducer(n, R) /\ \A p \in R : p.from = n \/ p \in log
  BY <1>1, <1>2
<1> HIDE DEF R
<1>10. /\ job' = [job EXCEPT ![n] = {}] /\ log \subseteq log'
       /\ UNCHANGED <<channel, reopened, withdrawn, sending, up, crashes, late, past, txs, mined>>
       /\ \A p \in log' : p \in log \/ (p.from = n /\ p \in job[n])
       /\ \A p \in log' : p.type = "WithdrawConfirmation" /\ p \notin log => covers(n, R, p)
  BY <1>1, <1>3, <1>8
<1>11. \A k \in Node : /\ \A w \in ready'[k] : confirmed(w)'
                       /\ \A w \in watching'[k] : w \in watching[k] \/ (Requester[w] = k /\ (crashes[k] = 0 => w \notin txs \cup mined))
                       /\ \A p \in expiring'[k] : p.type = "WithdrawExpired"
  BY <1>7, <1>8
<1> QED
  BY <1>6, <1>9, <1>10, <1>11, AppliedCovered

LEMMA withdrawExpireSuccessCovered ==
  ASSUME Inv, NEW n \in Node, NEW m \in job[n], withdrawExpireSuccess(n, m)
  PROVE  CoveredInv'
<1>1. /\ m.from = n /\ m.type = "WithdrawExpired" /\ withdrawReducer(n, {m})
      /\ job' = [job EXCEPT ![n] = {}] /\ expiring' = [expiring EXCEPT ![n] = @ \cup {m}] /\ log' = log \cup {m}
      /\ UNCHANGED <<channel, reopened, withdrawn, watching, ready, sending, up, crashes, late, past, txs, mined>>
  BY DEF withdrawExpireSuccess, send, world
<1>2. TypeOK /\ CoveredInv /\ m \in Message /\ {m} \in SUBSET Message
  BY DEF Inv, IInv, TypeOK
<1>3. ChainType' /\ Bounded'
  <2>1. withdrawReducer(n, {m, m})
    BY <1>1
  <2>2. Bounded'
    BY <1>2, <2>1, BoundedReducer DEF CoveredInv
  <2> QED
    BY <1>1, <1>2, <2>2 DEF CoveredInv, ChainType
<1>4. \A k \in Node : \A w \in ready'[k] : confirmed(w)'
  BY <1>1, <1>2 DEF CoveredInv, ByConfirmation, confirmed
<1>5. \A k \in Node : \A p \in expiring'[k] : p.type = "WithdrawExpired"
  BY <1>1, <1>2 DEF CoveredInv, NeverMined, TypeOK
<1> QED
  BY <1>1, <1>2, <1>3, <1>4, <1>5, AppliedCovered

\* The request is applied with its confirmation, in a channel that is open
LEMMA confirmCovered ==
  ASSUME Inv, NEW n \in Node, confirm(n)
  PROVE  CoveredInv'
<1>1. PICK m \in job[n], c \in job[n] :
        /\ m.type = "WithdrawRequest" /\ c.type = "WithdrawConfirmation" /\ withdrawReducer(n, {m, c})
        /\ job' = [job EXCEPT ![n] = {}] /\ log' = log \cup {c}
        /\ UNCHANGED <<channel, reopened, withdrawn, watching, expiring, ready, sending, up, crashes, late, past, txs, mined>>
  BY DEF confirm, send, world
<1>2. /\ TypeOK /\ CoveredInv /\ m \in Message /\ c \in Message /\ c \in signing(n) /\ c.from = n
      /\ {m, c} \in SUBSET Message
  BY <1>1 DEF Inv, IInv, TypeOK, signing, NextIsSigned
<1>3. m \notin signing(n)
  BY <1>1, <1>2 DEF Inv, IInv, NextIsSigned
<1>4. m.from = Peer[n] /\ Requester[m.of] = Peer[n] /\ m \in log
  BY <1>1, <1>3 DEF signing, Inv, IInv, InLog, Addressed, addressed
<1>5. /\ c.of = m.of /\ Total[c.of] <= TotalWithdrawable(partner(n), own(n))
      /\ m.nonce = partner(n).nextNonce
  BY <1>1, <1>2, <1>4 DEF CoveredInv, NextIsReceived
<1>6. ChainType' /\ Bounded'
  BY <1>1, <1>2, BoundedReducer DEF CoveredInv, ChainType
<1>7. \A k \in Node : \A w \in ready'[k] : confirmed(w)'
  BY <1>1, <1>2 DEF CoveredInv, ByConfirmation, confirmed
<1> DEFINE R == {m, c}
<1>8. m \in R /\ R \in SUBSET Message /\ withdrawReducer(n, R) /\ \A p \in R : p.from = n \/ p \in log
  BY <1>1, <1>2, <1>4
<1> HIDE DEF R
<1>9. \A p \in log' : p.type = "WithdrawConfirmation" /\ p \notin log => covers(n, R, p)
  BY <1>1, <1>4, <1>5, <1>8 DEF covers
<1>10. /\ log \subseteq log' /\ \A p \in log' : p \in log \/ (p.from = n /\ p \in job[n])
       /\ \A k \in Node : /\ \A w \in watching'[k] : w \in watching[k]
                          /\ \A p \in expiring'[k] : p.type = "WithdrawExpired"
  BY <1>1, <1>2 DEF CoveredInv, NeverMined
<1>11. \A k \in Node : /\ \A w \in ready'[k] : confirmed(w)'
                       /\ \A w \in watching'[k] : w \in watching[k] \/ (Requester[w] = k /\ (crashes[k] = 0 => w \notin txs \cup mined))
                       /\ \A p \in expiring'[k] : p.type = "WithdrawExpired"
  BY <1>7, <1>10
<1> QED
  BY <1>1, <1>6, <1>8, <1>9, <1>10, <1>11, AppliedCovered

LEMMA receiveWithdrawConfirmationCovered ==
  ASSUME Inv, NEW n \in Node, NEW c \in wire, receiveWithdrawConfirmation(n, c)
  PROVE  CoveredInv'
<1>1. /\ c.type = "WithdrawConfirmation" /\ withdrawReducer(n, {c}) /\ job[n] = {}
      /\ ready' = [ready EXCEPT ![n] = @ \cup {c.of}]
      /\ UNCHANGED <<channel, reopened, withdrawn, job, watching, expiring, sending, up, crashes, log, late, past, txs, mined>>
  BY DEF receiveWithdrawConfirmation, idle, world
<1>2. TypeOK /\ CoveredInv /\ c \in Message /\ c \in log /\ {c} \in SUBSET Message /\ c.of \in Withdraw
  BY <1>1 DEF Inv, IInv, TypeOK, Message
<1>3. job' = [job EXCEPT ![n] = {}]
  BY <1>1, <1>2 DEF TypeOK
<1>4. ChainType' /\ Bounded'
  <2>1. withdrawReducer(n, {c, c})
    BY <1>1
  <2>2. Bounded'
    BY <1>2, <2>1, BoundedReducer DEF CoveredInv
  <2> QED
    BY <1>1, <1>2, <2>2 DEF CoveredInv, ChainType
<1>5. \A k \in Node : \A w \in ready'[k] : confirmed(w)'
  BY <1>1, <1>2 DEF CoveredInv, ByConfirmation, ChainType, confirmed
<1>6. \A k \in Node : \A p \in expiring'[k] : p.type = "WithdrawExpired"
  BY <1>1, <1>2 DEF CoveredInv, NeverMined
<1> DEFINE R == {c}
<1>7. R \in SUBSET Message /\ withdrawReducer(n, R) /\ \A p \in R : p.from = n \/ p \in log
  BY <1>1, <1>2
<1> HIDE DEF R
<1>8. /\ log \subseteq log'
      /\ UNCHANGED <<channel, reopened, withdrawn, sending, up, crashes, late, past, txs, mined>>
      /\ \A p \in log' : p \in log \/ (p.from = n /\ p \in job[n])
      /\ \A p \in log' : p.type = "WithdrawConfirmation" /\ p \notin log => covers(n, R, p)
  BY <1>1
<1>9. \A k \in Node : /\ \A w \in ready'[k] : confirmed(w)'
                      /\ \A w \in watching'[k] : w \in watching[k] \/ (Requester[w] = k /\ (crashes[k] = 0 => w \notin txs \cup mined))
                      /\ \A p \in expiring'[k] : p.type = "WithdrawExpired"
  BY <1>1, <1>5, <1>6
<1> QED
  BY <1>3, <1>4, <1>7, <1>8, <1>9, AppliedCovered

\* A withdraw whose expiration is acknowledged isn't claimed any more
LEMMA acknowledgeExpiredCovered ==
  ASSUME Inv, NEW n \in Node, NEW m \in job[n], acknowledgeExpired(n, m)
  PROVE  CoveredInv'
<1>1. /\ m.from = Peer[n] /\ m.type = "WithdrawExpired"
      /\ end' = [end EXCEPT ![n][m.from].nextNonce = IF applies(n, m) THEN @ + 1 ELSE @]
      /\ pending' = [pending EXCEPT ![n][m.from] = {p \in @ : channel[n] = "open" => p.of # m.of}]
      /\ job' = [job EXCEPT ![n] = {}]
      /\ UNCHANGED <<channel, reopened, withdrawn, watching, expiring, ready, sending, up, crashes, log>>
      /\ UNCHANGED <<late, past, txs, mined>>
  BY DEF acknowledgeExpired, world
<1>2. TypeOK /\ CoveredInv /\ m.from \in Node /\ m.from # n /\ m \in log
  BY <1>1, PeerAssumption DEF Inv, IInv, InLog
<1>3. job'[n] = {} /\ \A k \in Node : k # n => job'[k] = job[k]
  BY <1>1, <1>2 DEF TypeOK
<1>4. /\ pending'[n][m.from] = {p \in pending[n][m.from] : channel[n] = "open" => p.of # m.of}
      /\ \A k, o \in Node : k # n \/ o # m.from => pending'[k][o] = pending[k][o]
  BY <1>1, <1>2 DEF TypeOK
<1>5. \A k \in Node : sameAmounts(k) /\ (k # n => end'[k] = end[k])
  <2> DEFINE x == IF applies(n, m) THEN end[n][m.from].nextNonce + 1 ELSE end[n][m.from].nextNonce
             e == [end[n][m.from] EXCEPT !.nextNonce = x]
  <2>1. end[n][m.from] \in ChannelEnd
    BY <1>2 DEF TypeOK
  <2>2. end' = [end EXCEPT ![n][m.from] = e]
    BY <1>1, <1>2, <2>1 DEF ChannelEnd
  <2>3. /\ e.deposit = end[n][m.from].deposit /\ e.transferred = end[n][m.from].transferred
        /\ e.locked = end[n][m.from].locked /\ e.registered = end[n][m.from].registered
    BY <2>1 DEF ChannelEnd
  <2> HIDE DEF e
  <2>4. \A k, o \in Node : end'[k][o] = IF k = n /\ o = m.from THEN e ELSE end[k][o]
    BY <1>2, <2>2 DEF TypeOK
  <2>5. \A k \in Node : k # n => end'[k] = end[k]
    BY <1>2, <2>2 DEF TypeOK
  <2> QED
    BY <2>3, <2>4, <2>5 DEF sameAmounts
<1>6. ChainType' /\ ByConfirmation' /\ Watched'
  BY <1>1, <1>2, ChainSame DEF CoveredInv
<1>7. RequestKept'
  <2>1. \A k \in Node : pending'[k][k] = pending[k][k]
    BY <1>2, <1>4
  <2>2. \A k \in Node : \A w : kept(k, k, w) => kept(k, k, w)'
    BY <1>1, <2>1 DEF kept, match
  <2>3. \A k \in Node : signing(k)' \subseteq signing(k)
    BY <1>3 DEF signing
  <2> QED
    BY <1>1, <1>2, <2>1, <2>2, <2>3, RequestSame DEF CoveredInv
<1>8. NeverMined' /\ NextIsReceived'
  <2>1. NeverMined'
    BY <1>1, <1>2, <1>3, NeverMinedSame DEF CoveredInv, NeverMined
  <2>2. NextIsReceived'
    BY <1>2, <1>3, <1>5, ReceivedSame DEF CoveredInv
  <2> QED
    BY <2>1, <2>2
<1>9. ClaimKept' /\ WithdrawsCovered'
  <2>1. \A k \in Node : claimed(k)' \subseteq claimed(k)
    BY <1>1 DEF claimed, claims
  <2>2. m.of \notin claimed(n)
    BY <1>1, <1>2 DEF claimed, claims, CoveredInv, NeverMined
  <2>3. \A k \in Node : \A w \in claimed(k) : kept(k, Peer[k], w) => kept(k, Peer[k], w)'
    <3> SUFFICES ASSUME NEW k \in Node, NEW w \in claimed(k), kept(k, Peer[k], w)
                 PROVE  kept(k, Peer[k], w)'
      OBVIOUS
    <3>1. CASE k = n
      BY <1>1, <1>4, <2>2, <3>1 DEF kept, match
    <3>2. CASE k # n
      BY <1>1, <1>4, <3>2, PeerAssumption DEF kept, match
    <3> QED
      BY <3>1, <3>2
  <2>4. \A k \in Node : job'[k] \subseteq job[k]
    BY <1>3
  <2>5. \A k \in Node : \A w \in claimed(k) : asked(k, w) => asked(k, w)'
    <3> SUFFICES ASSUME NEW k \in Node, NEW w \in claimed(k), asked(k, w)
                 PROVE  asked(k, w)'
      OBVIOUS
    <3>1. CASE k = n
      <4>1. ~applies(n, m)
        BY <1>1, <1>2, <3>1, NextIsAsked DEF applies, partner
      <4>2. end'[n][Peer[n]].nextNonce = end[n][Peer[n]].nextNonce
        BY <1>1, <1>2, <4>1 DEF TypeOK, ChannelEnd
      <4> QED
        BY <1>1, <3>1, <4>2 DEF asked, partner
    <3>2. CASE k # n
      BY <1>1, <1>5, <3>2 DEF asked, partner
    <3> QED
      BY <3>1, <3>2
  <2> QED
    BY <1>1, <1>2, <1>5, <2>1, <2>3, <2>4, <2>5, ClaimsSame DEF CoveredInv
<1>10. Bounded'
  <2>1. \A k, o \in Node : pending'[k][o] \subseteq pending[k][o]
    BY <1>4
  <2> QED
    BY <1>2, <2>1, BoundedSame DEF CoveredInv
<1> QED
  BY <1>6, <1>7, <1>8, <1>9, <1>10 DEF CoveredInv

\* Messages are forgotten, but no request of a withdraw that n's reader counts on
LEMMA ForgetCovered ==
  ASSUME Inv, UNCHANGED <<channel, reopened, end, job, watching, ready, up, crashes, log, late, past, txs, mined>>,
         \A n, o \in Node : pending'[n][o] \subseteq pending[n][o],
         \A n \in Node : sending'[n] \subseteq sending[n] /\ sending[n] \subseteq sending'[n] \cup mined,
         sending' \in [Node -> SUBSET Withdraw],
         \A n \in Node : expiring'[n] \subseteq expiring[n],
         \A n \in Node : crashes[n] = 0 =>
            \A w \in txs \cup mined : Requester[w] = n /\ kept(n, n, w) => kept(n, n, w)',
         \A n \in Node : \A w \in claimed(n) : kept(n, Peer[n], w) => kept(n, Peer[n], w)'
  PROVE  CoveredInv'
<1>1. CoveredInv
  BY DEF Inv
<1>2. ChainType' /\ ByConfirmation'
  BY <1>1 DEF CoveredInv, ChainType, ByConfirmation, confirmed
<1>3. Watched'
  BY <1>1 DEF CoveredInv, Watched
<1>4. RequestKept'
  <2>1. \A k \in Node : signing(k)' = signing(k)
    BY DEF signing
  <2> QED
    BY <1>1, <2>1, RequestSame DEF CoveredInv
<1>5. NeverMined'
  BY <1>1, NeverMinedSame DEF CoveredInv, NeverMined
<1>6. NextIsReceived'
  BY <1>1, ReceivedSame DEF CoveredInv
<1>7. ClaimKept' /\ WithdrawsCovered'
  <2>1. \A k \in Node : sameAmounts(k) /\ claimed(k)' = claimed(k)
    BY DEF claimed, claims, sameAmounts
  <2>2. \A k \in Node : \A w : asked(k, w) => asked(k, w)'
    BY DEF asked, partner
  <2> QED
    BY <1>1, <2>1, <2>2, ClaimsSame DEF CoveredInv
<1>8. Bounded'
  BY <1>1, BoundedSame DEF CoveredInv
<1> QED
  BY <1>2, <1>3, <1>4, <1>5, <1>6, <1>7, <1>8 DEF CoveredInv

LEMMA withdrawCompletedCovered ==
  ASSUME Inv, NEW n \in Node, NEW m \in expiring[n], withdrawCompleted(n, m)
  PROVE  CoveredInv'
<1>1. /\ expiring' = [expiring EXCEPT ![n] = @ \ {m}]
      /\ pending' = [pending EXCEPT ![n][n] = {p \in @ : channel[n] = "open" => p.of # m.of}]
      /\ UNCHANGED <<channel, reopened, end, withdrawn, job, watching, ready, sending, up, crashes, log, late, past, txs, mined>>
  BY DEF withdrawCompleted, network, world
<1>2. TypeOK /\ CoveredInv /\ m \in log /\ m.type = "WithdrawExpired" /\ Requester[m.of] = m.from
  BY DEF Inv, IInv, InLog, CoveredInv, NeverMined, Addressed, addressed
<1>3. /\ pending'[n][n] = {p \in pending[n][n] : channel[n] = "open" => p.of # m.of}
      /\ \A k, o \in Node : k # n \/ o # n => pending'[k][o] = pending[k][o]
      /\ \A k \in Node : expiring'[k] \subseteq expiring[k]
  BY <1>1, <1>2 DEF TypeOK
<1>4. \A k, o \in Node : pending'[k][o] \subseteq pending[k][o]
  BY <1>3
<1>5. ASSUME NEW k \in Node, crashes[k] = 0, NEW w \in txs \cup mined, Requester[w] = k, kept(k, k, w)
      PROVE  kept(k, k, w)'
  <2>1. CASE k # n
    BY <1>1, <1>3, <1>5, <2>1 DEF kept, match
  <2>2. CASE k = n
    <3>1. w # m.of
      BY <1>2, <1>5, <2>2 DEF CoveredInv, NeverMined
    <3> QED
      BY <1>1, <1>3, <1>5, <2>2, <3>1 DEF kept, match
  <2> QED
    BY <2>1, <2>2
<1>6. \A k \in Node : \A w : kept(k, Peer[k], w) => kept(k, Peer[k], w)'
  <2> TAKE k \in Node
  <2>1. pending'[k][Peer[k]] = pending[k][Peer[k]]
    BY <1>3, PeerAssumption
  <2> QED
    BY <1>1, <2>1 DEF kept, match
<1>7. sending' \in [Node -> SUBSET Withdraw]
  BY <1>1, <1>2 DEF CoveredInv, ChainType
<1> QED
  BY <1>1, <1>3, <1>4, <1>5, <1>6, <1>7, ForgetCovered

LEMMA channelWithdrawnCovered ==
  ASSUME Inv, NEW n \in Node, NEW v \in Withdraw, channelWithdrawn(n, v)
  PROVE  CoveredInv'
<1> DEFINE q == Requester[v]
           counts == channel[n] = "open" /\ Total[v] > withdrawn[n][q]
<1>1. /\ v \in mined /\ withdrawn' = [withdrawn EXCEPT ![n][q] = IF counts THEN Total[v] ELSE @]
      /\ pending' = [pending EXCEPT ![n][q] = {p \in @ : counts => Total[p.of] > Total[v]}]
      /\ sending' = [sending EXCEPT ![n] = @ \ {v}]
      /\ UNCHANGED <<channel, reopened, end, job, watching, expiring, ready, up, crashes, log, late, past, txs, mined>>
  BY DEF channelWithdrawn, network, world
<1>2. TypeOK /\ CoveredInv /\ q \in Node /\ Total \in [Withdraw -> Nat]
  BY WithdrawsAssumption DEF Inv, IInv
<1> HIDE DEF q
<1>3. /\ pending'[n][q] = {p \in pending[n][q] : counts => Total[p.of] > Total[v]}
      /\ withdrawn'[n][q] = IF counts THEN Total[v] ELSE withdrawn[n][q]
      /\ \A k, o \in Node : k # n \/ o # q => pending'[k][o] = pending[k][o] /\ withdrawn'[k][o] = withdrawn[k][o]
  BY <1>1, <1>2 DEF TypeOK
<1>4. \A k, o \in Node : pending'[k][o] \subseteq pending[k][o]
  BY <1>3
<1>5. /\ sending' \in [Node -> SUBSET Withdraw]
      /\ \A k \in Node : sending'[k] \subseteq sending[k] /\ sending[k] \subseteq sending'[k] \cup mined
  BY <1>1, <1>2 DEF CoveredInv, ChainType
<1>6. \A k, o \in Node : \A w \in Withdraw : kept(k, o, w) => kept(k, o, w)'
  <2> SUFFICES ASSUME NEW k \in Node, NEW o \in Node, NEW w \in Withdraw, kept(k, o, w)
               PROVE  kept(k, o, w)'
    OBVIOUS
  <2>1. CASE k # n \/ o # q
    BY <1>3, <2>1 DEF kept, match
  <2>2. CASE k = n /\ o = q /\ ~counts
    BY <1>3, <2>2 DEF kept, match
  <2>3. CASE k = n /\ o = q /\ counts
    <3>1. Total[w] \in Nat /\ Total[v] \in Nat /\ withdrawn[n][q] \in Nat
      BY <1>2 DEF TypeOK
    <3>2. CASE Total[w] <= Total[v]
      BY <1>3, <2>3, <3>2 DEF kept
    <3>3. CASE Total[w] > Total[v]
      <4>1. ~(Total[w] <= withdrawn[n][q])
        BY <1>1, <2>3, <3>1, <3>3
      <4>2. PICK p \in match(n, q, "WithdrawRequest", w) : TRUE
        BY <2>3, <4>1 DEF kept
      <4>3. p \in pending'[n][q] /\ p.type = "WithdrawRequest" /\ p.of = w
        BY <1>3, <2>3, <3>3, <4>2 DEF match
      <4> QED
        BY <2>3, <4>3 DEF kept, match
    <3> QED
      BY <3>1, <3>2, <3>3
  <2> QED
    BY <2>1, <2>2, <2>3
<1>7. \A k \in Node : claimed(k) \subseteq Withdraw /\ Peer[k] \in Node
  BY <1>2, PeerAssumption DEF claimed, claims, CoveredInv, ChainType, TypeOK, Message, WithdrawType
<1>8. txs \cup mined \subseteq Withdraw
  BY <1>2 DEF CoveredInv, ChainType
<1>9. \A k \in Node : \A w \in txs \cup mined : kept(k, k, w) => kept(k, k, w)'
  BY <1>6, <1>8
<1>10. \A k \in Node : \A w \in claimed(k) : kept(k, Peer[k], w) => kept(k, Peer[k], w)'
  BY <1>6, <1>7
<1> QED
  BY <1>1, <1>4, <1>5, <1>9, <1>10, ForgetCovered

LEMMA withdrawSendTxCovered ==
  ASSUME Inv, NEW n \in Node, NEW w \in Withdraw, withdrawSendTx(n, w)
  PROVE  CoveredInv'
<1> DEFINE sends == channel[n] = "open" /\ match(n, n, "WithdrawRequest", w) # {} /\ Total[w] > withdrawn[n][n] /\ w \notin late
<1>1. /\ w \in ready[n] /\ sending[n] = {} /\ ready' = [ready EXCEPT ![n] = @ \ {w}]
      /\ sending' = [sending EXCEPT ![n] = IF sends THEN {w} ELSE {}]
      /\ txs' = IF sends THEN txs \cup {w} ELSE txs
      /\ UNCHANGED <<channel, reopened, end, withdrawn, pending, job, watching, expiring, up, crashes, log, late, past, mined>>
  BY DEF withdrawSendTx, store, network
<1>2. CoveredInv /\ TypeOK /\ Peer \in [Node -> Node] /\ \A k \in Node : Peer[k] # k
  BY PeerAssumption DEF Inv, IInv
<1>3. /\ ready' \in [Node -> SUBSET Withdraw] /\ sending' \in [Node -> SUBSET Withdraw]
      /\ \A k \in Node : ready'[k] \subseteq ready[k]
      /\ sending'[n] = IF sends THEN {w} ELSE {}
      /\ \A k \in Node : k # n => sending'[k] = sending[k]
  BY <1>1, <1>2 DEF CoveredInv, ChainType
<1>4. CASE ~sends
  <2>1. txs' = txs /\ \A k \in Node : sending'[k] = sending[k]
    BY <1>1, <1>3, <1>4
  <2>2. UNCHANGED store /\ sending' = sending
    BY <1>1, <1>2, <1>3, <2>1 DEF store, CoveredInv, ChainType
  <2>3. ChainType' /\ \A k \in Node : \A v \in ready'[k] : confirmed(v)
    BY <1>1, <1>2, <1>3, <2>1 DEF CoveredInv, ChainType, ByConfirmation
  <2> QED
    BY <1>1, <2>1, <2>2, <2>3, ElseCovered
<1>5. CASE sends
  <2>1. Requester[w] = n /\ txs' = txs \cup {w} /\ sending'[n] = {w} /\ pending[n][n] # {} /\ kept(n, n, w)
    BY <1>1, <1>3, <1>5 DEF match, kept, Inv, IInv, InLog
  <2>2. ChainType' /\ ByConfirmation'
    <3>1. ChainType'
      BY <1>1, <1>2, <1>3, <2>1 DEF CoveredInv, ChainType
    <3>2. \A v : confirmed(v)' <=> confirmed(v)
      BY <1>1 DEF confirmed
    <3>3. \A k \in Node : \A v, x \in sending'[k] : v = x /\ Requester[x] = k
      BY <1>2, <1>3, <2>1 DEF CoveredInv, ByConfirmation
    <3>4. \A x \in txs' \cup mined' : confirmed(x)'
      <4>1. confirmed(w) /\ \A x \in txs \cup mined : confirmed(x)
        BY <1>1, <1>2 DEF CoveredInv, ByConfirmation
      <4>2. \A x \in txs' \cup mined' : x \in txs \cup mined \/ x = w
        BY <1>1, <2>1
      <4> HIDE DEF confirmed
      <4> QED
        BY <3>2, <4>1, <4>2
    <3>5. \A k \in Node : (\A x \in ready'[k] : confirmed(x)') /\ \A x \in watching'[k] : Requester[x] = k
      BY <1>1, <1>2, <1>3, <3>2 DEF CoveredInv, ByConfirmation
    <3> QED
      BY <3>1, <3>3, <3>4, <3>5 DEF ByConfirmation
  <2>3. Watched'
    <3> SUFFICES ASSUME NEW k \in Node, crashes[k] = 0
                 PROVE  /\ up[k] \/ channel[k] # "open"
                        /\ \A v \in watching[k] : v \notin mined /\ (v \in txs' => v \in sending'[k])
      BY <1>1 DEF Watched
    <3>1. /\ up[k] \/ channel[k] # "open"
          /\ \A v \in watching[k] : v \notin mined /\ (v \in txs => v \in sending[k]) /\ Requester[v] = k
      BY <1>2 DEF CoveredInv, Watched, ByConfirmation
    <3> QED
      BY <1>1, <1>3, <2>1, <3>1
  <2>4. RequestKept'
    <3>1. \A k, o \in Node : \A v : kept(k, o, v)' <=> kept(k, o, v)
      BY <1>1 DEF kept, match
    <3>2. \A k \in Node : signing(k)' = signing(k) /\ \A m \in signing(k) : m.type = "WithdrawRequest" => Requester[m.of] = k
      BY <1>1 DEF signing, Inv, IInv, Addressed, addressed
    <3> SUFFICES ASSUME NEW k \in Node, crashes[k] = 0
                 PROVE  /\ \A v \in txs' \cup mined' : Requester[v] = k => kept(k, k, v)'
                        /\ \A m \in signing(k)' :
                              m.type = "WithdrawRequest" => pending'[k][k] = {} /\ m.of \notin txs' \cup mined'
      BY <1>1 DEF RequestKept
    <3>3. \A v \in txs \cup mined : Requester[v] = k => kept(k, k, v)
      BY <1>2 DEF CoveredInv, RequestKept
    <3>4. \A m \in signing(k) : m.type = "WithdrawRequest" => pending[k][k] = {} /\ m.of \notin txs \cup mined
      BY <1>2 DEF CoveredInv, RequestKept
    <3>5. \A m \in signing(k) : m.type = "WithdrawRequest" => m.of # w
      BY <2>1, <3>2, <3>4
    <3> QED
      BY <1>1, <2>1, <3>1, <3>2, <3>3, <3>4, <3>5
  <2>5. NeverMined'
    <3>1. \A k \in Node : past[k] \subseteq late
      BY <1>2 DEF CoveredInv, ChainType
    <3> QED
      BY <1>1, <1>2, <1>5, <2>1, <3>1 DEF CoveredInv, NeverMined
  <2>6. NextIsReceived'
    BY <1>1, <1>2, ReceivedSame DEF CoveredInv
  <2>7. ClaimKept' /\ WithdrawsCovered'
    <3>1. \A k \in Node : sameAmounts(k) /\ claimed(k)' = claimed(k)
      BY <1>1 DEF claimed, claims, sameAmounts
    <3>2. \A k \in Node : \A v : kept(k, Peer[k], v)' <=> kept(k, Peer[k], v)
      BY <1>1 DEF kept, match
    <3>3. \A k \in Node : \A v : asked(k, v) => asked(k, v)'
      BY <1>1 DEF asked, partner
    <3> QED
      BY <1>1, <1>2, <3>1, <3>2, <3>3, ClaimsSame DEF CoveredInv
  <2>8. Bounded'
    BY <1>1, <1>2 DEF CoveredInv, Bounded
  <2> QED
    BY <2>2, <2>3, <2>4, <2>5, <2>6, <2>7, <2>8 DEF CoveredInv
<1> QED
  BY <1>4, <1>5

\* A transaction is given up or mined: w leaves the mempool
LEMMA TxCovered ==
  ASSUME Inv, NEW w \in Withdraw, w \in txs, txs' = txs \ {w}, mined' \in {mined, mined \cup {w}},
         UNCHANGED <<store, job, expiring, ready, up, crashes, log, late, past>>,
         sending' \in [Node -> SUBSET Withdraw], watching' \in [Node -> SUBSET Withdraw],
         \A n \in Node : /\ sending'[n] \subseteq sending[n] /\ sending[n] \subseteq sending'[n] \cup {w}
                         /\ watching'[n] \subseteq watching[n],
         mined' # mined => /\ \A n \in Node : w \notin past[n]
                           /\ \A n \in Node : crashes[n] = 0 => w \notin watching'[n]
  PROVE  CoveredInv'
<1>1. CoveredInv /\ UNCHANGED <<channel, reopened, end, withdrawn, pending>>
  BY DEF Inv, store
<1>2. ChainType' /\ ByConfirmation'
  BY <1>1 DEF CoveredInv, ChainType, ByConfirmation, confirmed
<1>3. Watched'
  <2> SUFFICES ASSUME NEW n \in Node, crashes[n] = 0
               PROVE  /\ up[n] \/ channel[n] # "open"
                      /\ \A v \in watching'[n] : v \notin mined' /\ (v \in txs' => v \in sending'[n])
    BY <1>1 DEF Watched
  <2> QED
    BY <1>1 DEF CoveredInv, Watched
<1>4. txs' \cup mined' \subseteq txs \cup mined
  OBVIOUS
<1>5. RequestKept'
  <2>1. \A k \in Node : signing(k)' = signing(k)
    BY DEF signing
  <2>2. \A k \in Node : \A v : kept(k, k, v)' <=> kept(k, k, v)
    BY <1>1 DEF kept, match
  <2> QED
    BY <1>1, <1>4, <2>1, <2>2, RequestSame DEF CoveredInv
<1>6. NeverMined' /\ NextIsReceived'
  <2>1. NeverMined'
    BY <1>1, <1>4, NeverMinedSame DEF CoveredInv, NeverMined
  <2>2. NextIsReceived'
    BY <1>1, ReceivedSame DEF CoveredInv
  <2> QED
    BY <2>1, <2>2
<1>7. \A n \in Node : claimed(n)' \subseteq claimed(n)
  <2> SUFFICES ASSUME NEW n \in Node, NEW v \in claimed(n)' PROVE v \in claimed(n)
    OBVIOUS
  <2>1. CASE mined' = mined \/ v # w
    BY <1>1, <2>1 DEF claimed, claims
  <2>2. CASE mined' # mined /\ v = w
    <3>1. PICK c \in log : c.type = "WithdrawConfirmation" /\ c.of = w
      BY <1>1 DEF CoveredInv, ByConfirmation, confirmed
    <3>2. Requester[w] = Peer[c.from] /\ c.from \in Node /\ Requester[w] = Peer[n]
      BY <2>2, <3>1 DEF Inv, IInv, TypeOK, Addressed, addressed, Message, claimed
    <3>3. c.from = n
      <4>1. Peer[Peer[n]] = n /\ Peer[Peer[c.from]] = c.from
        BY <3>2, PeerAssumption
      <4> QED
        BY <3>2, <4>1
    <3> QED
      BY <1>1, <2>2, <3>1, <3>3 DEF claimed, claims
  <2> QED
    BY <2>1, <2>2
<1>8. ClaimKept' /\ WithdrawsCovered'
  <2>1. \A k \in Node : sameAmounts(k)
    BY <1>1 DEF sameAmounts
  <2>2. \A k \in Node : \A v : kept(k, Peer[k], v)' <=> kept(k, Peer[k], v)
    BY <1>1 DEF kept, match
  <2>3. \A k \in Node : \A v : asked(k, v) => asked(k, v)'
    BY <1>1 DEF asked, partner
  <2> QED
    BY <1>1, <1>7, <2>1, <2>2, <2>3, ClaimsSame DEF CoveredInv
<1>9. Bounded'
  BY <1>1 DEF CoveredInv, Bounded
<1> QED
  BY <1>2, <1>3, <1>5, <1>6, <1>8, <1>9 DEF CoveredInv

LEMMA withdrawFailureCovered ==
  ASSUME Inv, NEW n \in Node, NEW w \in Withdraw, withdrawFailure(n, w)
  PROVE  CoveredInv'
<1>1. /\ w \in sending[n] /\ w \in txs /\ txs' = txs \ {w} /\ sending' = [sending EXCEPT ![n] = {}]
      /\ UNCHANGED <<store, job, watching, expiring, ready, up, crashes, log, late, past, mined>>
  BY DEF withdrawFailure, network
<1>2. ChainType /\ sending[n] = {w}
  BY <1>1 DEF Inv, CoveredInv, ByConfirmation
<1>3. /\ sending' \in [Node -> SUBSET Withdraw] /\ watching' \in [Node -> SUBSET Withdraw]
      /\ \A k \in Node : /\ sending'[k] \subseteq sending[k] /\ sending[k] \subseteq sending'[k] \cup {w}
                         /\ watching'[k] \subseteq watching[k]
  BY <1>1, <1>2 DEF ChainType
<1> QED
  BY <1>1, <1>3, TxCovered

LEMMA setTotalWithdrawCovered ==
  ASSUME Inv, NEW w \in Withdraw, setTotalWithdraw(w)
  PROVE  CoveredInv'
<1>1. /\ w \in txs /\ txs' = txs \ {w} /\ mined' = mined \cup {w} /\ \A n \in Node : w \notin past[n]
      /\ \A v \in mined : Requester[v] = Requester[w] => Total[v] < Total[w]
      /\ watching' = [n \in Node |-> IF w \in sending[n] THEN watching[n] \ {w} ELSE watching[n]]
      /\ UNCHANGED <<store, job, expiring, ready, sending, up, crashes, log, late, past>>
  BY DEF setTotalWithdraw, network
<1>2. CoveredInv /\ ChainType /\ w \notin mined
  <2>1. Total[w] \in Nat
    BY WithdrawsAssumption
  <2> QED
    BY <1>1, <2>1 DEF Inv, CoveredInv
<1>3. /\ sending' \in [Node -> SUBSET Withdraw] /\ watching' \in [Node -> SUBSET Withdraw]
      /\ \A k \in Node : sending'[k] = sending[k] /\ watching'[k] \subseteq watching[k]
  BY <1>1, <1>2 DEF ChainType
<1>4. ASSUME NEW n \in Node, crashes[n] = 0 PROVE w \notin watching'[n]
  <2>1. CASE Requester[w] = n
    BY <1>1, <1>2, <1>4, <2>1 DEF CoveredInv, Watched
  <2>2. CASE Requester[w] # n
    BY <1>1, <1>2, <2>2 DEF CoveredInv, ByConfirmation
  <2> QED
    BY <2>1, <2>2
<1> QED
  BY <1>1, <1>3, <1>4, TxCovered

\* The client stops: it is killed, or its channel isn't open
LEMMA StopCovered ==
  ASSUME Inv, NEW n \in Node, stop(n), UNCHANGED <<store, log, late, past, txs, mined>>,
         crashes' \in [Node -> Nat], \A k \in Node : crashes[k] <= crashes'[k],
         crashes'[n] > 0 \/ channel[n] # "open"
  PROVE  CoveredInv'
<1>1. /\ job' = [job EXCEPT ![n] = {}] /\ watching' = [watching EXCEPT ![n] = {}]
      /\ expiring' = [expiring EXCEPT ![n] = {}] /\ ready' = [ready EXCEPT ![n] = {}]
      /\ sending' = [sending EXCEPT ![n] = {}] /\ up' = [up EXCEPT ![n] = FALSE]
      /\ UNCHANGED <<channel, reopened, end, withdrawn, pending>>
  BY DEF stop, store
<1>2. CoveredInv /\ TypeOK
  BY DEF Inv, IInv
<1>3. /\ \A k \in Node : /\ job'[k] \subseteq job[k] /\ watching'[k] \subseteq watching[k]
                         /\ expiring'[k] \subseteq expiring[k] /\ ready'[k] \subseteq ready[k]
                         /\ sending'[k] \subseteq sending[k]
      /\ \A k \in Node : k # n => sending'[k] = sending[k] /\ up'[k] = up[k]
      /\ watching' \in [Node -> SUBSET Withdraw] /\ ready' \in [Node -> SUBSET Withdraw]
      /\ sending' \in [Node -> SUBSET Withdraw]
  BY <1>1, <1>2 DEF CoveredInv, ChainType, TypeOK
<1>4. \A k \in Node : crashes'[k] = 0 => crashes[k] = 0
  BY <1>2 DEF CoveredInv, ChainType
<1>5. ChainType' /\ ByConfirmation'
  BY <1>1, <1>2, <1>3 DEF CoveredInv, ChainType, ByConfirmation, confirmed
<1>6. Watched'
  <2> SUFFICES ASSUME NEW k \in Node, crashes'[k] = 0
               PROVE  /\ up'[k] \/ channel[k] # "open"
                      /\ \A w \in watching'[k] : w \notin mined /\ (w \in txs => w \in sending'[k])
    BY <1>1 DEF Watched
  <2>1. CASE k = n
    BY <1>1, <1>2, <2>1 DEF CoveredInv, ChainType
  <2>2. CASE k # n
    BY <1>2, <1>3, <1>4, <2>2 DEF CoveredInv, Watched
  <2> QED
    BY <2>1, <2>2
<1>7. \A k \in Node : signing(k)' \subseteq signing(k)
  BY <1>3 DEF signing
<1>8. RequestKept'
  <2>1. \A k \in Node : \A v : kept(k, k, v)' <=> kept(k, k, v)
    BY <1>1 DEF kept, match
  <2> QED
    BY <1>1, <1>2, <1>4, <1>7, <2>1, RequestSame DEF CoveredInv
<1>9. NeverMined' /\ NextIsReceived'
  <2>1. NeverMined'
    BY <1>2, <1>3, <1>4, NeverMinedSame DEF CoveredInv, NeverMined
  <2>2. NextIsReceived'
    BY <1>1, <1>2, <1>3, ReceivedSame DEF CoveredInv
  <2> QED
    BY <2>1, <2>2
<1>10. ClaimKept' /\ WithdrawsCovered'
  <2>1. \A k \in Node : sameAmounts(k) /\ claimed(k)' \subseteq claimed(k)
    BY <1>1, <1>4, PeerAssumption DEF claimed, claims, sameAmounts
  <2>2. \A k \in Node : \A v : kept(k, Peer[k], v)' <=> kept(k, Peer[k], v)
    BY <1>1 DEF kept, match
  <2>3. \A k \in Node : \A v : asked(k, v) => asked(k, v)'
    BY <1>1 DEF asked, partner
  <2> QED
    BY <1>1, <1>2, <1>3, <2>1, <2>2, <2>3, ClaimsSame DEF CoveredInv
<1>11. Bounded'
  BY <1>1, <1>2 DEF CoveredInv, Bounded
<1> QED
  BY <1>5, <1>6, <1>8, <1>9, <1>10, <1>11 DEF CoveredInv

LEMMA crashCovered ==
  ASSUME Inv, NEW n \in Node, crash(n)
  PROVE  CoveredInv'
<1>1. /\ stop(n) /\ UNCHANGED <<store, log, late, past, txs, mined>>
      /\ crashes' = [crashes EXCEPT ![n] = @ + 1]
  BY DEF crash, network, world
<1>2. crashes \in [Node -> Nat]
  BY DEF Inv, CoveredInv, ChainType
<1>3. crashes' \in [Node -> Nat] /\ crashes'[n] > 0 /\ \A k \in Node : crashes[k] <= crashes'[k]
  BY <1>1, <1>2
<1> QED
  BY <1>1, <1>3, StopCovered

\* A transfer of the partner spends no more than what was left when it was accepted
LEMMA transferSignedCovered ==
  ASSUME Inv, NEW n \in Node, NEW m \in job[n], transferSigned(n, m)
  PROVE  CoveredInv'
<1>1. /\ m.type = "LockedTransfer" /\ transferEnvelopeReducer(n, m)
      /\ UNCHANGED <<channel, reopened, withdrawn, pending, crashes, late, past, txs, mined>>
  BY DEF transferSigned, world
<1>2. /\ TypeOK /\ CoveredInv /\ m \in Message /\ m.of \in Transfer /\ m.from \in Node /\ Peer[n] # n
      /\ m.from \in {n, Peer[n]} /\ Peer[n] \in Node
  BY <1>1, PeerAssumption DEF Inv, IInv, TypeOK, Message, WithdrawType, InLog
<1>3. CASE ~applies(n, m)
  <2>1. stop(n) /\ UNCHANGED <<store, log>>
    BY <1>1, <1>3 DEF transferEnvelopeReducer, store
  <2>2. m.nonce = end[n][m.from].nextNonce
    BY <1>1, <1>2 DEF Inv, IInv, CoveredInv, NextIsReceived, NextIsSigned, signing, own, partner
  <2>3. channel[n] # "open"
    BY <1>3, <2>2 DEF applies
  <2>4. crashes' \in [Node -> Nat] /\ \A k \in Node : crashes[k] <= crashes'[k]
    BY <1>1, <1>2 DEF CoveredInv, ChainType
  <2> QED
    BY <1>1, <2>1, <2>3, <2>4, StopCovered
<1>4. CASE applies(n, m)
  <2> DEFINE e == [end[n][m.from] EXCEPT !.locks = @ \cup {m.of}, !.locked = @ + Amount[m.of], !.nextNonce = @ + 1]
             S == IF m.from = n THEN {m} ELSE {}
  <2>1. /\ end' = [end EXCEPT ![n][m.from] = e] /\ job' = [job EXCEPT ![n] = {}] /\ send(S)
        /\ UNCHANGED <<watching, expiring, ready, sending, up>>
    BY <1>1, <1>4 DEF transferEnvelopeReducer
  <2>2. end[n][m.from] \in ChannelEnd /\ Amount[m.of] \in Nat /\ channel[n] = "open"
    BY <1>2, <1>4, TransferAssumption DEF TypeOK, applies
  <2>3. /\ e.deposit = end[n][m.from].deposit /\ e.transferred = end[n][m.from].transferred
        /\ e.registered = end[n][m.from].registered /\ e.locked = end[n][m.from].locked + Amount[m.of]
    BY <2>2 DEF ChannelEnd
  <2>4. S \subseteq {m} /\ log' = log \cup S
    BY <2>1 DEF send
  <2> HIDE DEF e, S
  <2>5. /\ end'[n][m.from] = e
        /\ \A k, o \in Node : k # n \/ o # m.from => end'[k][o] = end[k][o]
    BY <1>2, <2>1 DEF TypeOK
  <2>6. job'[n] = {} /\ \A k \in Node : k # n => job'[k] = job[k] /\ end'[k] = end[k]
    BY <1>2, <2>1 DEF TypeOK
  <2>7. ChainType' /\ ByConfirmation' /\ Watched'
    BY <1>1, <1>2, <2>1, <2>4, ChainSame DEF CoveredInv
  <2>8. \A k, o \in Node : \A v : kept(k, o, v)' <=> kept(k, o, v)
    BY <1>1 DEF kept, match
  <2>9. RequestKept'
    <3>1. \A k \in Node : signing(k)' \subseteq signing(k)
      BY <2>6 DEF signing
    <3> QED
      BY <1>1, <1>2, <2>8, <3>1, RequestSame DEF CoveredInv
  <2>10. NeverMined' /\ NextIsReceived'
    <3>1. \A k \in Node : \A p \in log' \cup job'[k] : p.type = "WithdrawExpired" => p \in log \cup job[k]
      BY <1>1, <2>4, <2>6
    <3>2. NeverMined'
      BY <1>1, <1>2, <2>1, <3>1, NeverMinedSame DEF CoveredInv, NeverMined
    <3>3. NextIsReceived'
      BY <1>2, <2>6, ReceivedSame DEF CoveredInv
    <3> QED
      BY <3>2, <3>3
  <2>11. \A k \in Node : claimed(k)' \subseteq claimed(k)
    BY <1>1, <2>4 DEF claimed, claims
  <2>12. \A k \in Node : \/ TotalWithdrawable(partner(k), own(k))' = TotalWithdrawable(partner(k), own(k))
                         \/ /\ k = n /\ m.from = Peer[n]
                            /\ TotalWithdrawable(partner(n), own(n))' = TotalWithdrawable(partner(n), own(n)) - Amount[m.of]
    <3> TAKE k \in Node
    <3>1. CASE k # n
      BY <2>6, <3>1 DEF partner, own, TotalWithdrawable, Balance, Unlocked, Locked
    <3>2. CASE k = n /\ m.from = n
      <4>1. end'[n][Peer[n]] = end[n][Peer[n]]
        BY <1>2, <2>5, <3>2
      <4> QED
        BY <2>3, <2>5, <3>2, <4>1 DEF partner, own, TotalWithdrawable, Balance, Unlocked, Locked
    <3>3. CASE k = n /\ m.from = Peer[n]
      <4>1. end'[n][n] = end[n][n]
        BY <1>2, <2>5, <3>3
      <4>2. end[n][n] \in ChannelEnd /\ end[n][Peer[n]] \in ChannelEnd
        BY <1>2, <2>2, <3>3 DEF TypeOK
      <4>3. \A x \in ChannelEnd : totalLocked[x.registered] \in Nat /\ x.transferred \in Nat /\ x.deposit \in Nat /\ x.locked \in Int
        BY TotalLockedAssumption DEF ChannelEnd
      <4>4. e.locked = end[n][Peer[n]].locked + Amount[m.of]
        BY <2>3, <3>3
      <4> QED
        BY <2>2, <2>3, <2>5, <3>3, <4>1, <4>2, <4>3, <4>4 DEF partner, own, TotalWithdrawable, Balance, Unlocked, Locked
    <3> QED
      BY <1>2, <3>1, <3>2, <3>3
  <2>13. ClaimKept'
    <3> SUFFICES ASSUME NEW k \in Node, NEW w \in claimed(k)'
                 PROVE  /\ kept(k, Peer[k], w)' \/ asked(k, w)'
                        /\ \A p \in job'[k] :
                              p.from = Peer[k] /\ p.type = "LockedTransfer"
                                => Amount[p.of] + Total[w] <= TotalWithdrawable(partner(k), own(k))'
      BY <1>1 DEF ClaimKept
    <3>1. Peer[k] \in Node /\ w \in claimed(k)
      BY <2>11, PeerAssumption
    <3>2. kept(k, Peer[k], w)' \/ asked(k, w)'
      <4>1. CASE kept(k, Peer[k], w)
        BY <2>8, <3>1, <4>1
      <4>2. CASE asked(k, w)
        <5>1. m.from = Peer[n] /\ k = n => FALSE
          <6>1. m.from = Peer[n] => m \in log
            BY <1>2 DEF Inv, IInv, InLog
          <6> QED
            BY <1>1, <1>4, <2>2, <3>1, <4>2, <6>1, NextIsAsked DEF applies, partner
        <5>2. end'[k][Peer[k]] = end[k][Peer[k]]
          BY <1>2, <2>5, <3>1, <5>1
        <5> QED
          BY <1>1, <2>4, <4>2, <5>2 DEF asked, partner
      <4> QED
        BY <1>2, <3>1, <4>1, <4>2 DEF CoveredInv, ClaimKept
    <3>3. CASE k = n
      BY <2>6, <3>2, <3>3
    <3>4. CASE k # n
      BY <1>2, <2>6, <2>12, <3>1, <3>2, <3>4 DEF CoveredInv, ClaimKept
    <3> QED
      BY <3>3, <3>4
  <2>14. WithdrawsCovered'
    <3> SUFFICES ASSUME NEW k \in Node, NEW w \in claimed(k)'
                 PROVE  Total[w] <= TotalWithdrawable(partner(k), own(k))'
      BY DEF WithdrawsCovered, claimed
    <3>1. w \in claimed(k)
      BY <2>11
    <3>2. Total[w] <= TotalWithdrawable(partner(k), own(k))
      BY <1>2, <3>1 DEF CoveredInv, WithdrawsCovered, claimed
    <3>3. CASE TotalWithdrawable(partner(k), own(k))' = TotalWithdrawable(partner(k), own(k))
      BY <3>2, <3>3
    <3>4. CASE /\ k = n /\ m.from = Peer[n]
               /\ TotalWithdrawable(partner(n), own(n))' = TotalWithdrawable(partner(n), own(n)) - Amount[m.of]
      <4>1. Amount[m.of] + Total[w] <= TotalWithdrawable(partner(n), own(n))
        BY <1>1, <1>2, <2>2, <3>1, <3>4 DEF CoveredInv, ClaimKept
      <4>2. TotalWithdrawable(partner(n), own(n)) \in Int
        BY <1>2, AmountsAre
      <4>3. w \in Withdraw
        BY <1>2, <3>1 DEF claimed, claims, CoveredInv, ChainType, TypeOK, Message, WithdrawType
      <4>4. Total[w] \in Nat
        BY <4>3, WithdrawsAssumption
      <4> QED
        BY <2>2, <3>4, <4>1, <4>2, <4>4
    <3> QED
      BY <2>12, <3>3, <3>4
  <2>15. Bounded'
    BY <1>1, <1>2 DEF CoveredInv, Bounded
  <2> QED
    BY <2>7, <2>9, <2>10, <2>13, <2>14, <2>15 DEF CoveredInv
<1> QED
  BY <1>3, <1>4

LEMMA restartCovered ==
  ASSUME Inv, NEW n \in Node, restart(n)
  PROVE  CoveredInv'
<1> DEFINE requests == IF channel[n] = "open" THEN unconfirmed(n) ELSE {}
           expired == IF channel[n] = "open"
                      THEN {m \in pending[n][n] : m.type = "WithdrawExpired"} ELSE {}
           again == {m.of : m \in requests}
<1>1. /\ ~up[n] /\ up' = [up EXCEPT ![n] = TRUE] /\ watching' = [watching EXCEPT ![n] = again]
      /\ expiring' = [expiring EXCEPT ![n] = expired] /\ send(requests \cup expired)
      /\ UNCHANGED <<channel, reopened, end, withdrawn, pending, job, ready, sending, crashes, late, past, txs, mined>>
  BY DEF restart, store, world
<1>2. /\ TypeOK /\ CoveredInv /\ pending[n][n] \subseteq log /\ pending[n][n] \subseteq Message
      /\ \A m \in pending[n][n] : m.type \in WithdrawType /\ Requester[m.of] = n
  BY DEF Inv, IInv, TypeOK, InLog
<1>3. requests \subseteq pending[n][n] /\ expired \subseteq pending[n][n] /\ \A m \in expired : m.type = "WithdrawExpired"
  BY DEF unconfirmed
<1>4. again \subseteq Withdraw /\ \A w \in again : Requester[w] = n
  BY <1>2, <1>3 DEF Message, WithdrawType
<1> HIDE DEF requests, expired, again
<1>5. log' = log
  BY <1>1, <1>2, <1>3 DEF send
<1>6. /\ watching' \in [Node -> SUBSET Withdraw] /\ watching'[n] = again /\ expiring'[n] = expired
      /\ \A k \in Node : k # n => watching'[k] = watching[k] /\ expiring'[k] = expiring[k] /\ up'[k] = up[k]
  BY <1>1, <1>2, <1>4 DEF CoveredInv, ChainType, TypeOK
<1>7. ChainType'
  BY <1>1, <1>2, <1>6 DEF CoveredInv, ChainType
<1>8. ByConfirmation'
  BY <1>1, <1>2, <1>4, <1>5, <1>6 DEF CoveredInv, ByConfirmation, confirmed
<1>9. Watched'
  <2>1. crashes[n] # 0 \/ (channel[n] # "open" /\ again = {})
    BY <1>1, <1>2 DEF CoveredInv, Watched, again, requests
  <2> QED
    BY <1>1, <1>2, <1>6, <2>1 DEF CoveredInv, Watched
<1>10. RequestKept'
  BY <1>1, <1>2 DEF CoveredInv, RequestKept, kept, match, signing
<1>11. NeverMined' /\ NextIsReceived'
  <2>1. NeverMined'
    BY <1>1, <1>2, <1>3, <1>5, <1>6, NeverMinedSame DEF CoveredInv, NeverMined
  <2>2. NextIsReceived'
    BY <1>1, <1>2, ReceivedSame DEF CoveredInv
  <2> QED
    BY <2>1, <2>2
<1>12. ClaimKept' /\ WithdrawsCovered'
  <2>1. \A k \in Node : sameAmounts(k) /\ claimed(k)' = claimed(k)
    BY <1>1, <1>5 DEF claimed, claims, sameAmounts
  <2>2. \A k \in Node : \A v : kept(k, Peer[k], v)' <=> kept(k, Peer[k], v)
    BY <1>1 DEF kept, match
  <2>3. \A k \in Node : \A v : asked(k, v) => asked(k, v)'
    BY <1>1, <1>5 DEF asked, partner
  <2> QED
    BY <1>1, <1>2, <2>1, <2>2, <2>3, ClaimsSame DEF CoveredInv
<1>13. Bounded'
  BY <1>1, <1>2 DEF CoveredInv, Bounded
<1> QED
  BY <1>7, <1>8, <1>9, <1>10, <1>11, <1>12, <1>13 DEF CoveredInv

LEMMA channelCloseCovered ==
  ASSUME Inv, NEW n \in Node, channelClose(n) \/ channelCloseFailure(n)
  PROVE  CoveredInv'
<1>1. /\ watching' \in [Node -> SUBSET Withdraw] /\ reopened \subseteq reopened'
      /\ \A k \in Node : watching'[k] \subseteq watching[k]
      /\ \A k \in Node : channel[k] # "open" \/ k \in reopened => channel'[k] # "open" \/ k \in reopened'
      /\ \A k \in Node : up[k] \/ channel[k] # "open" => up[k] \/ channel'[k] # "open"
      /\ UNCHANGED <<end, withdrawn, pending, job, expiring, ready, sending, up, crashes, log>>
      /\ UNCHANGED <<late, past, txs, mined>>
  <2>1. CASE channelClose(n)
    BY <2>1 DEF channelClose, network, world, Inv, IInv, TypeOK, CoveredInv, ChainType
  <2>2. CASE channelCloseFailure(n)
    BY <2>2 DEF channelCloseFailure, epics, network, world, Inv, IInv, TypeOK, CoveredInv, ChainType
  <2> QED
    BY <2>1, <2>2
<1>2. TypeOK /\ CoveredInv
  BY DEF Inv, IInv
<1>3. ChainType' /\ ByConfirmation' /\ Watched'
  BY <1>1, <1>2 DEF CoveredInv, ChainType, ByConfirmation, Watched, confirmed
<1>4. RequestKept'
  BY <1>1, <1>2 DEF CoveredInv, RequestKept, kept, match, signing
<1>5. NeverMined' /\ NextIsReceived'
  <2>1. NeverMined'
    BY <1>1, <1>2, NeverMinedSame DEF CoveredInv, NeverMined
  <2>2. NextIsReceived'
    BY <1>1, <1>2, ReceivedSame DEF CoveredInv
  <2> QED
    BY <2>1, <2>2
<1>6. ClaimKept' /\ WithdrawsCovered'
  <2>1. \A k \in Node : sameAmounts(k) /\ claimed(k)' \subseteq claimed(k)
    BY <1>1 DEF claimed, claims, sameAmounts
  <2>2. \A k \in Node : \A v : kept(k, Peer[k], v)' <=> kept(k, Peer[k], v)
    BY <1>1 DEF kept, match
  <2>3. \A k \in Node : \A v : asked(k, v) => asked(k, v)'
    BY <1>1 DEF asked, partner
  <2> QED
    BY <1>1, <1>2, <2>1, <2>2, <2>3, ClaimsSame DEF CoveredInv
<1>7. Bounded'
  BY <1>1, <1>2 DEF CoveredInv, Bounded
<1> QED
  BY <1>3, <1>4, <1>5, <1>6, <1>7 DEF CoveredInv

\* Requests, resends and clocks
LEMMA ElsesCovered ==
  ASSUME Inv, NEW n \in Node,
         \/ \E t \in Transfer : transferRequest(n, t)
         \/ \E w \in Withdraw : retryWithdrawRequest(n, w) \/ expires(n, w)
         \/ \E m \in wire : confirmAgain(n, m)
         \/ \E m \in expiring[n] : retryWithdrawExpired(n, m)
         \/ retryConfirmation(n)
  PROVE  CoveredInv'
<1>1. /\ ChainType /\ \A k \in Node : \A w \in ready[k] : confirmed(w)
      /\ \A k, o \in Node : pending[k][o] \subseteq log /\ pending[k][o] \subseteq Message
      /\ \A k \in Node : expiring[k] \subseteq log
  BY DEF Inv, IInv, TypeOK, InLog, CoveredInv, ByConfirmation
<1>2. ASSUME NEW S \in SUBSET log, send(S), UNCHANGED <<store, epics, world>> PROVE CoveredInv'
  <2>1. log' = log /\ UNCHANGED <<job, sending, watching, expiring, crashes, up, ready, late, past, txs, mined>>
    BY <1>2 DEF send, epics, world
  <2>2. ChainType'
    BY <1>1, <2>1 DEF ChainType
  <2> QED
    BY <1>1, <1>2, <2>1, <2>2, ElseCovered
<1>3. ASSUME NEW t \in Transfer, transferRequest(n, t) PROVE CoveredInv'
  <2>1. /\ UNCHANGED <<store, job, sending, watching, expiring, crashes, up, log>>
        /\ UNCHANGED <<ready, late, past, txs, mined>>
    BY <1>3 DEF transferRequest, network, world
  <2>2. ChainType'
    BY <1>1, <2>1 DEF ChainType
  <2> QED
    BY <1>1, <2>1, <2>2, ElseCovered
<1>4. ASSUME NEW w \in Withdraw, retryWithdrawRequest(n, w) PROVE CoveredInv'
  BY <1>4, <1>1, <1>2 DEF retryWithdrawRequest, match, epics, world
<1>5. ASSUME NEW w \in Withdraw, expires(n, w) PROVE CoveredInv'
  <2>1. /\ UNCHANGED <<store, job, sending, watching, expiring, crashes, up, log>>
        /\ UNCHANGED <<ready, late, txs, mined>> /\ w \in late /\ past' = [past EXCEPT ![n] = @ \cup {w}]
    BY <1>5 DEF expires, epics, network
  <2>2. ChainType' /\ \A k \in Node : past[k] \subseteq past'[k]
    BY <1>1, <2>1 DEF ChainType
  <2> QED
    BY <1>1, <2>1, <2>2, ElseCovered
<1>6. ASSUME NEW m \in wire, confirmAgain(n, m) PROVE CoveredInv'
  <2>1. m.from \in Node
    BY <1>6, PeerAssumption DEF confirmAgain
  <2>2. PICK c \in match(n, m.from, "WithdrawConfirmation", m.of) : send({c})
    BY <1>6 DEF confirmAgain
  <2>3. c \in log
    BY <1>1, <2>1, <2>2 DEF match
  <2> QED
    BY <1>2, <1>6, <2>2, <2>3 DEF confirmAgain
<1>7. ASSUME NEW m \in expiring[n], retryWithdrawExpired(n, m) PROVE CoveredInv'
  BY <1>7, <1>1, <1>2 DEF retryWithdrawExpired
<1>8. CASE retryConfirmation(n)
  <2>1. PICK c \in pending[n][n] : c.type = "WithdrawConfirmation" /\ ready' = [ready EXCEPT ![n] = @ \cup {c.of}]
    BY <1>8 DEF retryConfirmation
  <2>2. /\ UNCHANGED <<store, job, sending, watching, expiring, crashes, up, log>>
        /\ UNCHANGED <<late, past, txs, mined>>
    BY <1>8 DEF retryConfirmation, network, world
  <2>3. c \in log /\ c.of \in Withdraw /\ confirmed(c.of)
    BY <1>1, <2>1 DEF Message, confirmed
  <2>4. ChainType' /\ \A k \in Node : \A w \in ready'[k] : confirmed(w)
    BY <1>1, <2>1, <2>2, <2>3 DEF ChainType
  <2> QED
    BY <2>2, <2>4, ElseCovered
<1> QED
  BY <1>3, <1>4, <1>5, <1>6, <1>7, <1>8

LEMMA NextCovered == Inv /\ [Next]_vars => CoveredInv'
<1> SUFFICES ASSUME Inv, [Next]_vars PROVE CoveredInv'
  OBVIOUS
<1>1. ASSUME NEW n \in Node, NEW w \in Withdraw, RequesterNext(n, w) PROVE CoveredInv'
  BY <1>1, BeginsCovered, ElsesCovered, withdrawSendTxCovered, withdrawFailureCovered DEF RequesterNext
<1>2. ASSUME NEW n \in Node, SignedNext(n) PROVE CoveredInv'
  BY <1>2, transferSignedCovered, withdrawMessageRequestCovered, withdrawExpireSuccessCovered,
     acknowledgeExpiredCovered, confirmCovered DEF SignedNext
<1>3. ASSUME NEW n \in Node, ReceiveNext(n) PROVE CoveredInv'
  BY <1>3, BeginsCovered, ElsesCovered, receiveWithdrawConfirmationCovered DEF ReceiveNext
<1>4. ASSUME NEW n \in Node, NodeNext(n) PROVE CoveredInv'
  <2>1. CASE \E t \in Transfer : transferRequest(n, t) \/ sendTransferSigned(n, t)
    BY <2>1, BeginsCovered, ElsesCovered
  <2>2. CASE \E w \in Withdraw : RequesterNext(n, w) \/ channelWithdrawn(n, w) \/ expires(n, w)
    BY <2>2, <1>1, channelWithdrawnCovered, ElsesCovered
  <2>3. CASE \E m \in expiring[n] : retryWithdrawExpired(n, m) \/ withdrawCompleted(n, m)
    BY <2>3, ElsesCovered, withdrawCompletedCovered
  <2>4. CASE \/ retryConfirmation(n) \/ signatureFails(n) \/ crash(n) \/ restart(n)
             \/ channelClose(n) \/ channelCloseFailure(n)
    BY <2>4, BeginsCovered, ElsesCovered, crashCovered, restartCovered, channelCloseCovered
  <2> QED
    BY <1>2, <1>3, <1>4, <2>1, <2>2, <2>3, <2>4 DEF NodeNext
<1>5. ASSUME NEW w \in Withdraw, setTotalWithdraw(w) PROVE CoveredInv'
  BY <1>5, setTotalWithdrawCovered
<1>6. ASSUME NEW w \in Withdraw, expiresSoon(w) PROVE CoveredInv'
  <2>1. /\ UNCHANGED <<store, job, sending, watching, expiring, crashes, up, log>>
        /\ UNCHANGED <<ready, past, txs, mined>> /\ late' = late \cup {w}
    BY <1>6 DEF expiresSoon, epics, network
  <2>2. ChainType' /\ \A k \in Node : \A v \in ready[k] : confirmed(v)
    BY <2>1 DEF Inv, CoveredInv, ChainType, ByConfirmation
  <2> QED
    BY <2>1, <2>2, ElseCovered
<1>7. CASE UNCHANGED vars
  <2>1. /\ UNCHANGED <<store, job, sending, watching, expiring, crashes, up, log>>
        /\ UNCHANGED <<ready, late, past, txs, mined>>
    BY <1>7 DEF vars, store
  <2>2. ChainType' /\ \A k \in Node : \A v \in ready[k] : confirmed(v)
    BY <2>1 DEF Inv, CoveredInv, ChainType, ByConfirmation
  <2> QED
    BY <2>1, <2>2, ElseCovered
<1> QED
  BY <1>4, <1>5, <1>6, <1>7 DEF Next

LEMMA InitCovered == Init => CoveredInv
<1> SUFFICES ASSUME Init PROVE CoveredInv
  OBVIOUS
<1>1. ChainType /\ ByConfirmation /\ Watched
  BY DEF Init, ChainType, ByConfirmation, Watched
<1>2. RequestKept /\ NeverMined /\ NextIsReceived
  BY DEF Init, RequestKept, NeverMined, NextIsReceived, signing
<1>3. \A n \in Node : claims(n) = {}
  BY DEF Init, claims
<1>4. ClaimKept /\ WithdrawsCovered
  BY <1>3 DEF ClaimKept, WithdrawsCovered, claimed
<1>5. Bounded
  BY DEF Init, Bounded
<1> QED
  BY <1>1, <1>2, <1>4, <1>5 DEF CoveredInv

-----------------------------------------------------------------------------

\* What a client let its partner withdraw stays covered: whatever transfers arrive while a request is being
\* confirmed, a confirmation lost or sent again, a transaction mined or forgotten and an expiration
\* acknowledged, the partner's capacity never counts tokens the partner took or may still take on-chain,
\* unless the partner was restarted or both failed to close the channel
THEOREM WithdrawsAreCovered == Spec => []WithdrawsCovered
<1>1. Init => Inv
  BY InitInv, InitCovered DEF Inv
<1>2. Inv /\ [Next]_vars => Inv'
  BY NextInv, NextCovered DEF Inv
<1>3. Inv => WithdrawsCovered
  BY DEF Inv, CoveredInv
<1> QED
  BY <1>1, <1>2, <1>3, PTL DEF Spec

=============================================================================
