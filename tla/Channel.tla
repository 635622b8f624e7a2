------------------------------ MODULE Channel ------------------------------
(***************************************************************************)
(* The data of a payment channel as one light client keeps it, and the     *)
(* pure functions on it.                                                   *)
(*                                                                         *)
(* A channel has two ends.  Every node stores its own copy of both, so the *)
(* state modules have end[n][m], "what n believes about m's end":          *)
(* end[n][n] is the source's channel.own and end[n][Peer[n]] is its        *)
(* channel.partner.                                                        *)
(*                                                                         *)
(* A ChannelEnd is abstracted to                                           *)
(*   deposit      the confirmed on-chain total deposit                     *)
(*   transferred  balanceProof.transferredAmount                           *)
(*   locked       balanceProof.lockedAmount                                *)
(*   locks        the transfers of the pending locks; the list and its     *)
(*                locksroot are compared as a set                          *)
(*   registered   the locks carrying the flag lock.registered              *)
(*   nextNonce    the nonce of the next message this end signs             *)
(* withdraw and pendingWithdraws belong to the withdraw protocol.          *)
(***************************************************************************)
EXTENDS Integers

CONSTANTS
  Node,        \* the light clients
  Peer,        \* Peer[n] is the node at the other end of n's channel
  Transfer,    \* transfers, named by their secrethash
  Payer,       \* Payer[t] is the node that locks, and unlocks, transfer t
  Amount,      \* Amount[t] is lock.amount (value plus fees)
  Deposit,     \* Deposit[n] is n's total deposit on-chain
  totalLocked  \* totalLocked[S] is the sum of the amounts of the locks in S

ASSUME PeerAssumption ==
  /\ Peer \in [Node -> Node]
  /\ \A n \in Node : Peer[n] # n /\ Peer[Peer[n]] = n

ASSUME TransferAssumption ==
  /\ Payer \in [Transfer -> Node]
  /\ Amount \in [Transfer -> Nat]

ASSUME DepositAssumption == Deposit \in [Node -> Nat]

\* totalLocked is a sum, stated by what adding one lock does to it
ASSUME TotalLockedAssumption ==
  /\ totalLocked \in [SUBSET Transfer -> Nat]
  /\ totalLocked[{}] = 0
  /\ \A S \in SUBSET Transfer : \A t \in Transfer \ S :
        totalLocked[S \cup {t}] = totalLocked[S] + Amount[t]

-----------------------------------------------------------------------------

ChannelEnd ==
  [deposit : Nat, transferred : Nat, locked : Int, locks : SUBSET Transfer,
   registered : SUBSET Transfer, nextNonce : Nat]

\* The end of a freshly opened channel
emptyChannelEnd ==
  [deposit |-> 0, transferred |-> 0, locked |-> 0, locks |-> {},
   registered |-> {}, nextNonce |-> 1]

-----------------------------------------------------------------------------
(***************************************************************************)
(* channelAmounts: what the balance proofs of both ends amount to          *)
(***************************************************************************)

\* own|partnerUnlocked: transferred, plus the locks claimable on-chain
Unlocked(e) == e.transferred + totalLocked[e.registered]

\* own|partnerLocked: the pending locks that are not claimable on-chain
Locked(e) == e.locked - totalLocked[e.registered]

\* own|partnerBalance: what this end received minus what it paid
Balance(e, other) == Unlocked(other) - Unlocked(e)

\* own|partnerTotalWithdrawable
TotalWithdrawable(e, other) == e.deposit + Balance(e, other) - Locked(e)

\* own|partnerCapacity: what the end may still lock, given the largest total
\* withdraw it has confirmed or asked for
Capacity(e, other, pendingWithdraw) == TotalWithdrawable(e, other) - pendingWithdraw

=============================================================================
