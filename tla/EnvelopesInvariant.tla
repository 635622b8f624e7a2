------------------------ MODULE EnvelopesInvariant ------------------------
(***************************************************************************)
(* The inductive invariant of Envelopes: why nonces are never reused and   *)
(* why the next message a node is owed is always valid.  It needs a closing*)
(* channel never to be opened again, i.e. ~CloseFails.                     *)
(***************************************************************************)
EXTENDS Envelopes

\* Whatever is stored, retried, delivered or being acknowledged was sent
InLog ==
  /\ wire \subseteq log
  /\ \A n \in Node : stored[n] \subseteq log /\ retry[n] \subseteq log
  /\ \A n \in Node : \A m \in job[n] : m.from = n \/ m \in log

\* A message that is being signed or acknowledged still is the next one of its
\* sender's end, and a message that is being signed is a new one
Pending ==
  \A n \in Node : \A m \in job[n] :
     /\ balanceProofFollows(end[n][m.from], m)
     /\ m.from = n => ~has(n, m.t, m.type)

\* The sums that balance proofs carry are those of their locks
LockSums == \A n \in Node : own(n).locked = totalLocked[own(n).locks]

\* The signer of a message has moved on, or its reducer ignored the message
\* because the channel was closing: then it signs nothing any more
Fresh ==
  \A m \in log :
     /\ 1 <= m.nonce
     /\ \/ m.nonce < own(m.from).nextNonce
        \/ /\ m.nonce = own(m.from).nextNonce
           /\ channel[m.from] # "open"
           /\ \A j \in job[m.from] : j.from # m.from

\* Every message was signed on top of the one before
Chained ==
  \A m \in log :
     \/ m.nonce = 1 /\ follows(emptyChannelEnd, m)
     \/ \E p \in log : p.from = m.from /\ m.nonce = p.nonce + 1 /\ follows(p, m)

IInv ==
  /\ TypeOK /\ InLog /\ Pending /\ LockSums /\ Fresh /\ Chained
  /\ NonceUnique /\ ViewAgreement

\* Why a node accepts no more than its partner owns, whether or not closing may
\* fail: what it accepts is measured against both ends when it arrives, and until
\* it is applied they only change in the partner's favour.  The locks of an own
\* end that are flagged registered are among those the node saw registered.
backed(n) ==
  /\ partner(n).locked = totalLocked[partner(n).locks]
  /\ own(n).registered \subseteq seen[n] \cap own(n).locks
  /\ \A m \in job[n] :
        /\ m.from = n =>
             m.transferred = own(n).transferred + (IF m.type = "Unlock" THEN Amount[m.t] ELSE 0)
        /\ m.from = Peer[n] =>
             /\ follows(partner(n), m)
             /\ m.type = "LockedTransfer" =>
                  expiredRegistered(n) \/ Amount[m.t] <= Capacity(partner(n), own(n), 0)

SolventInv == TypeOK /\ PartnerSolvent /\ \A n \in Node : backed(n)

=============================================================================
