---------------------------- MODULE ChainProofs ----------------------------
(***************************************************************************)
(* What the chain is relied on for.  A secret is worth its payment: proof  *)
(* of SecretIsWorth, for paths of any length and whatever the clocks, the  *)
(* chain, and the other nodes do.  What is confirmed is final: proof of    *)
(* ConfirmedIsFinal, whatever blocks are replaced and in whatever order    *)
(* the client sees what.                                                   *)
(***************************************************************************)
EXTENDS Mediation, Lifecycle, FiniteSetTheorems, SequenceTheorems, WellFoundedInduction, TLAPS

-----------------------------------------------------------------------------
(***************************************************************************)
(* The inductive invariant                                                 *)
(***************************************************************************)

\* Nodes that are always there, and aren't the initiator
Steady == Node \ ({1} \cup Unreliable)

Types ==
  /\ now \in Nat /\ up \subseteq Node /\ mediating \subseteq Hop /\ closed \subseteq Hop
  /\ sent \in [Hop -> TransferState] /\ received \in [Hop -> TransferState]
  /\ registering \in [Node -> Nat] /\ registeredAt \in Nat /\ knownAt \in [Node -> Nat]

\* Who runs, and what happened before
Past ==
  /\ now >= 1 /\ Node \ Unreliable \subseteq up
  /\ registeredAt <= now
  /\ \A n \in Node : registering[n] <= now /\ knownAt[n] <= now

\* A lock is set up hop by hop, and a secret revealed by those who got theirs only
Forwarded ==
  /\ \A h \in Hop : msg("LockedTransfer", h) \in messages => sent[h].transfer
  /\ \A h \in Hop : received[h].transfer => sent[h].transfer
  /\ \A h \in Hop \ {1} : sent[h].transfer => received[h - 1].transfer
  /\ \A h \in mediating : received[h].transfer /\ h + 1 \in Mediator
  /\ \A h \in Hop : msg("SecretReveal", h) \in messages => received[h].transfer
  /\ msg("SecretRequest", 0) \in messages \/ msg("SecretToTarget", 0) \in messages => received[N - 1].transfer

\* What the payee of a lock knows is so
Informed ==
  /\ \A n \in Node \ {1} : knownAt[n] # 0 => received[n - 1].transfer /\ received[n - 1].secret
  /\ \A h \in Hop : received[h].secretRegistered => registeredAt # 0 /\ registeredAt < expiration
  /\ \A h \in Hop : received[h].channelClosed => h \in closed
  /\ \A h \in Hop : msg("LockExpired", h) \in messages \/ received[h].expired => now > expiration + httpTimeout

\* When a node that knows the secret registers it at the latest, and when that is mined
registersBy(n) == IF knownAt[n] > expiration - revealTimeout THEN knownAt[n] ELSE expiration - revealTimeout
minedBy(n) == registersBy(n) + mineDelay
waits(n) == knownAt[n] # 0 /\ n - 1 \notin closed /\ ~received[n - 1].unlock /\ minedBy(n) < expiration

\* A node that isn't paid registers the secret in time, and then sees it confirmed
Registers ==
  \A n \in Steady : waits(n) =>
    /\ now > registersBy(n) => registeredAt # 0 \/ registering[n] \in 1..registersBy(n)
    /\ registeredAt <= minedBy(n)
Mining == registeredAt = 0 => \A n \in Node : registering[n] # 0 => now <= registering[n] + mineDelay
Confirmed ==
  \A n \in Steady :
    knownAt[n] # 0 /\ registeredAt # 0 /\ registeredAt < expiration /\ knownAt[n] < now /\ registeredAt + confirmDelay < now
      => received[n - 1].secretRegistered

\* ... before its lock is given up
Kept ==
  \A n \in Steady : waits(n) /\ knewInTime(n) => ~received[n - 1].expired

WorthInv == Types /\ Past /\ Forwarded /\ Informed /\ Registers /\ Mining /\ Confirmed /\ Kept

-----------------------------------------------------------------------------
(***************************************************************************)
(* What a step changes                                                     *)
(***************************************************************************)

LEMMA HopsAre ==
  /\ N \in Nat /\ N >= 2 /\ 1 \in Node /\ N - 1 \in Hop /\ Hop \subseteq Node
  /\ \A h \in Hop : h + 1 \in Node /\ h + 1 # 1 /\ (h + 1) - 1 = h /\ h \in Nat
  /\ \A n \in Node \ {1} : n - 1 \in Hop /\ (n - 1) + 1 = n
  /\ \A n \in Mediator : n \in Hop /\ n - 1 \in Hop /\ n # 1 /\ n # N
  /\ {expiration, revealTimeout, httpTimeout, mineDelay, confirmDelay, MaxTime} \subseteq Nat
BY MediationAssumption DEF Node, Hop, Mediator

\* Nothing that was known or paid is taken back
Onwards(t, u) ==
  /\ (t.transfer => u.transfer) /\ (t.secret => u.secret) /\ (t.unlock => u.unlock)
LEMMA FieldsAre ==
  ASSUME NEW t \in TransferState
  PROVE  /\ Onwards(t, t)
         /\ LET u == [t EXCEPT !.transfer = TRUE]
            IN /\ u \in TransferState /\ Onwards(t, u) /\ u.transfer /\ u.secret = t.secret /\ u.unlock = t.unlock
               /\ u.expired = t.expired /\ u.secretRegistered = t.secretRegistered /\ u.channelClosed = t.channelClosed
         /\ LET u == [t EXCEPT !.secret = TRUE]
            IN /\ u \in TransferState /\ Onwards(t, u) /\ u.secret /\ u.transfer = t.transfer /\ u.unlock = t.unlock
               /\ u.expired = t.expired /\ u.secretRegistered = t.secretRegistered /\ u.channelClosed = t.channelClosed
         /\ LET u == [t EXCEPT !.unlock = TRUE]
            IN /\ u \in TransferState /\ Onwards(t, u) /\ u.unlock /\ u.transfer = t.transfer /\ u.secret = t.secret
               /\ u.expired = t.expired /\ u.secretRegistered = t.secretRegistered /\ u.channelClosed = t.channelClosed
         /\ LET u == [t EXCEPT !.expired = TRUE]
            IN /\ u \in TransferState /\ Onwards(t, u) /\ u.transfer = t.transfer /\ u.secret = t.secret
               /\ u.secretRegistered = t.secretRegistered /\ u.channelClosed = t.channelClosed
         /\ LET u == [t EXCEPT !.channelClosed = TRUE]
            IN /\ u \in TransferState /\ Onwards(t, u) /\ u.transfer = t.transfer /\ u.secret = t.secret
               /\ u.expired = t.expired /\ u.secretRegistered = t.secretRegistered
         /\ \A b \in BOOLEAN :
            LET u == [t EXCEPT !.secretRegistered = b]
            IN /\ u \in TransferState /\ Onwards(t, u) /\ u.transfer = t.transfer /\ u.secret = t.secret
               /\ u.expired = t.expired /\ u.channelClosed = t.channelClosed /\ u.secretRegistered = b
<1> USE DEF TransferState, Onwards
<1>1. Onwards(t, t)
  OBVIOUS
<1>2. LET u == [t EXCEPT !.transfer = TRUE]
      IN /\ u \in TransferState /\ Onwards(t, u) /\ u.transfer /\ u.secret = t.secret /\ u.unlock = t.unlock
         /\ u.expired = t.expired /\ u.secretRegistered = t.secretRegistered /\ u.channelClosed = t.channelClosed
  OBVIOUS
<1>3. LET u == [t EXCEPT !.secret = TRUE]
      IN /\ u \in TransferState /\ Onwards(t, u) /\ u.secret /\ u.transfer = t.transfer /\ u.unlock = t.unlock
         /\ u.expired = t.expired /\ u.secretRegistered = t.secretRegistered /\ u.channelClosed = t.channelClosed
  OBVIOUS
<1>4. LET u == [t EXCEPT !.unlock = TRUE]
      IN /\ u \in TransferState /\ Onwards(t, u) /\ u.unlock /\ u.transfer = t.transfer /\ u.secret = t.secret
         /\ u.expired = t.expired /\ u.secretRegistered = t.secretRegistered /\ u.channelClosed = t.channelClosed
  OBVIOUS
<1>5. LET u == [t EXCEPT !.expired = TRUE]
      IN /\ u \in TransferState /\ Onwards(t, u) /\ u.transfer = t.transfer /\ u.secret = t.secret
         /\ u.secretRegistered = t.secretRegistered /\ u.channelClosed = t.channelClosed
  OBVIOUS
<1>6. LET u == [t EXCEPT !.channelClosed = TRUE]
      IN /\ u \in TransferState /\ Onwards(t, u) /\ u.transfer = t.transfer /\ u.secret = t.secret
         /\ u.expired = t.expired /\ u.secretRegistered = t.secretRegistered
  OBVIOUS
<1>7. ASSUME NEW b \in BOOLEAN
      PROVE LET u == [t EXCEPT !.secretRegistered = b]
            IN /\ u \in TransferState /\ Onwards(t, u) /\ u.transfer = t.transfer /\ u.secret = t.secret
               /\ u.expired = t.expired /\ u.channelClosed = t.channelClosed /\ u.secretRegistered = b
  OBVIOUS
<1> QED
  BY <1>1, <1>2, <1>3, <1>4, <1>5, <1>6, <1>7

LEMMA SameIsOnwards == \A t \in TransferState : Onwards(t, t)
BY FieldsAre

LEMMA MessagesAre ==
  \A type1, type2, h1, h2 : msg(type1, h1) = msg(type2, h2) <=> type1 = type2 /\ h1 = h2
BY DEF msg

\* A step that takes no time: who sends and knows what afterwards
LaterTransfers ==
  /\ \A h \in Hop : Onwards(received[h], received'[h]) /\ (sent[h].transfer => sent'[h].transfer)
  /\ \A h \in Hop : received'[h].transfer => received[h].transfer \/ sent'[h].transfer
  /\ \A h \in Hop \ {1} : sent'[h].transfer => sent[h].transfer \/ received'[h - 1].transfer
  /\ \A h \in Hop : received'[h].expired =>
       received[h].expired \/ (msg("LockExpired", h) \in messages /\ ~received[h].secretRegistered)
  /\ \A h \in Hop : received'[h].channelClosed => received[h].channelClosed \/ h \in closed
  /\ \A h \in Hop : \/ received'[h].secretRegistered = received[h].secretRegistered
                    \/ /\ received'[h].secretRegistered = isConfirmed
                       /\ registeredAt # 0 /\ registeredAt < expiration
LaterMessages ==
  /\ \A h \in Hop : msg("LockedTransfer", h) \in messages' => msg("LockedTransfer", h) \in messages \/ sent'[h].transfer
  /\ \A h \in mediating' : h \in mediating \/ (received'[h].transfer /\ h + 1 \in Mediator)
  /\ \A h \in Hop : msg("SecretReveal", h) \in messages' => msg("SecretReveal", h) \in messages \/ received'[h].transfer
  /\ \A type \in {"SecretRequest", "SecretToTarget"} : msg(type, 0) \in messages' =>
       \/ \E t \in {"SecretRequest", "SecretToTarget"} : msg(t, 0) \in messages
       \/ received'[N - 1].transfer
  /\ \A h \in Hop : msg("LockExpired", h) \in messages' =>
       msg("LockExpired", h) \in messages \/ now > expiration + httpTimeout
LaterClocks ==
  /\ now' = now /\ up \cap (Node \ Unreliable) \subseteq up' /\ closed \subseteq closed'
  /\ registeredAt' = registeredAt \/ (registeredAt = 0 /\ registeredAt' = now)
  /\ \A n \in Node : registering'[n] = registering[n] \/ (registering[n] = 0 /\ registering'[n] = now)
  /\ \A n \in Node :
       \/ knownAt'[n] = knownAt[n]
       \/ /\ knownAt[n] = 0 /\ knownAt'[n] = now
          /\ n # 1 => received'[n - 1].transfer /\ received'[n - 1].secret
Later == LaterTransfers /\ LaterMessages /\ LaterClocks

LEMMA SameTransfers ==
  ASSUME Types, received' = received, sent' = sent
  PROVE  LaterTransfers
<1>1. \A h \in Hop : received[h] \in TransferState
  BY DEF Types
<1> QED
  BY <1>1, FieldsAre DEF LaterTransfers

LEMMA SameMessages ==
  ASSUME messages' = messages, mediating' \subseteq mediating
  PROVE  LaterMessages
BY DEF LaterMessages

LEMMA SameClocks ==
  ASSUME now' = now, up' = up, closed' = closed, registeredAt' = registeredAt, registering' = registering,
         knownAt' = knownAt
  PROVE  LaterClocks
BY DEF LaterClocks

LEMMA Learned ==
  ASSUME Types, NEW n \in Node, learns(n), now' = now, up' = up, unchangedChain,
         n # 1 => received'[n - 1].transfer /\ received'[n - 1].secret
  PROVE  knownAt' \in [Node -> Nat] /\ LaterClocks
<1>1. knownAt' \in [Node -> Nat]
  BY DEF Types, learns
<1>2. \A m \in Node : \/ knownAt'[m] = knownAt[m]
                      \/ m = n /\ knownAt[m] = 0 /\ knownAt'[m] = now
  BY DEF Types, learns
<1> QED
  BY <1>1, <1>2 DEF LaterClocks, unchangedChain

LEMMA SignedLater ==
  ASSUME WorthInv, NEW h \in Hop, receiveTransferSigned(h)
  PROVE  Types' /\ Later
<1> DEFINE u == [received[h] EXCEPT !.transfer = TRUE]
<1>1. Types /\ Forwarded
  BY DEF WorthInv
<1>2. received[h] \in TransferState /\ \A i \in Hop : received[i] \in TransferState
  BY <1>1 DEF Types
<1>3. received' = [received EXCEPT ![h] = u]
  BY DEF receiveTransferSigned
<1>4. /\ u \in TransferState /\ Onwards(received[h], u) /\ u.transfer /\ u.expired = received[h].expired
      /\ u.secretRegistered = received[h].secretRegistered /\ u.channelClosed = received[h].channelClosed
  BY <1>2, FieldsAre
<1> HIDE DEF u
<1>5. received' \in [Hop -> TransferState] /\ received'[h] = u /\ \A i \in Hop \ {h} : received'[i] = received[i]
  BY <1>1, <1>3, <1>4 DEF Types
<1>6. Types'
  BY <1>1, <1>5 DEF Types, receiveTransferSigned, unchangedChain, unchangedRest
<1>7. sent' = sent /\ sent[h].transfer
  BY <1>1 DEF receiveTransferSigned, Forwarded
<1>8. LaterTransfers
  <2>1. \A i \in Hop \ {h} : Onwards(received[i], received'[i])
    BY <1>2, <1>5, SameIsOnwards
  <2> QED
    BY <1>4, <1>5, <1>7, <2>1 DEF LaterTransfers
<1>9. LaterMessages
  <2>1. messages' \subseteq messages \cup (IF h + 1 = N THEN {msg("SecretRequest", 0)} ELSE {})
    BY DEF receiveTransferSigned
  <2>2. h + 1 = N => received'[N - 1].transfer
    BY <1>4, <1>5, HopsAre
  <2>3. mediating' \subseteq mediating \cup (IF h + 1 \in Mediator THEN {h} ELSE {})
    BY DEF receiveTransferSigned
  <2> QED
    BY <1>4, <1>5, <2>1, <2>2, <2>3, MessagesAre DEF LaterMessages
<1>10. LaterClocks
  BY SameClocks DEF receiveTransferSigned, unchangedChain, unchangedRest
<1> QED
  BY <1>6, <1>8, <1>9, <1>10 DEF Later

LEMMA MediateLater ==
  ASSUME WorthInv, NEW h \in Hop, transferMediate(h)
  PROVE  Types' /\ Later
<1>1. Types /\ Forwarded /\ h \in mediating /\ received[h].transfer
  BY DEF WorthInv, transferMediate, Forwarded
<1>2. /\ received' = received /\ mediating' \subseteq mediating /\ now' = now /\ up' = up /\ knownAt' = knownAt
      /\ registering' = registering /\ registeredAt' = registeredAt /\ closed' = closed
  BY DEF transferMediate, unchangedChain
<1>3. \A i \in Hop : Onwards(received[i], received'[i])
  BY <1>1, <1>2, SameIsOnwards DEF Types
<1>4. CASE sent' = sent /\ messages' = messages
  BY <1>1, <1>2, <1>4, SameTransfers, SameMessages, SameClocks DEF Types, Later
<1>5. CASE /\ h + 1 \in Hop
           /\ sent' = [sent EXCEPT ![h + 1].transfer = TRUE, ![h + 1].secret = received[h].secret]
           /\ messages' = messages \cup {msg("LockedTransfer", h + 1)}
  <2> DEFINE t == [sent[h + 1] EXCEPT !.transfer = TRUE]
             u == [t EXCEPT !.secret = received[h].secret]
  <2>1. t \in TransferState /\ t.transfer
      <3>1. sent[h + 1] \in TransferState
        BY <1>1, <1>5 DEF Types
      <3> QED
        BY <3>1, FieldsAre
  <2>2. received[h].secret \in BOOLEAN
    BY <1>1 DEF Types, TransferState
  <2>3. sent' = [sent EXCEPT ![h + 1] = u]
    BY <1>5
  <2> HIDE DEF t
  <2>4. u \in TransferState /\ u.transfer
    BY <2>1, <2>2 DEF TransferState
  <2> HIDE DEF u
  <2>5. sent' \in [Hop -> TransferState] /\ sent'[h + 1] = u /\ \A i \in Hop \ {h + 1} : sent'[i] = sent[i]
    BY <1>1, <1>5, <2>3, <2>4 DEF Types
  <2>6. Types'
    BY <1>1, <1>2, <2>5 DEF Types
  <2>7. received[(h + 1) - 1].transfer
    BY <1>1, HopsAre
  <2>8. LaterTransfers
    BY <1>1, <1>2, <1>3, <2>4, <2>5, <2>7 DEF LaterTransfers
  <2>9. LaterMessages
    BY <1>2, <1>5, <2>4, <2>5, MessagesAre DEF LaterMessages
  <2> QED
    BY <1>2, <2>6, <2>8, <2>9, SameClocks DEF Later
<1>6. h + 1 \in Hop
  BY <1>1, HopsAre DEF Forwarded
<1> QED
  BY <1>4, <1>5, <1>6 DEF transferMediate

LEMMA RevealLater ==
  ASSUME WorthInv, secretReveal
  PROVE  Types' /\ Later
<1>1. Types
  BY DEF WorthInv
<1>2. /\ received' = received /\ sent' = sent /\ mediating' = mediating /\ now' = now /\ up' = up /\ knownAt' = knownAt
      /\ registering' = registering /\ registeredAt' = registeredAt /\ closed' = closed
  BY DEF secretReveal, unchangedChain, unchangedRest
<1>3. LaterMessages
  <2>1. msg("SecretRequest", 0) \in messages /\ messages' \subseteq messages \cup {msg("SecretToTarget", 0)}
    BY DEF secretReveal
  <2> QED
    BY <1>2, <2>1, MessagesAre DEF LaterMessages
<1> QED
  BY <1>1, <1>2, <1>3, SameTransfers, SameClocks DEF Types, Later

LEMMA RevealedLater ==
  ASSUME WorthInv, NEW n \in Node, receiveSecretReveal(n)
  PROVE  Types' /\ Later
<1> DEFINE unlocks == n # N /\ canUnlock(sent[n])
           reveals == n # 1 /\ received[n - 1].transfer
<1>1. Types /\ Forwarded
  BY DEF WorthInv
<1>2. \A i \in Hop : received[i] \in TransferState /\ sent[i] \in TransferState
  BY <1>1 DEF Types
<1>3. /\ mediating' = mediating /\ now' = now /\ up' = up /\ learns(n) /\ unchangedChain
  BY DEF receiveSecretReveal, unchangedChain, unchangedRest
<1>4. received' = [h \in Hop |-> IF h + 1 = n /\ reveals THEN [received[h] EXCEPT !.secret = TRUE] ELSE received[h]]
  BY DEF receiveSecretReveal
<1>5. messages' \subseteq messages \cup {msg("Unlock", n)} \cup (IF reveals THEN {msg("SecretReveal", n - 1)} ELSE {})
  BY DEF receiveSecretReveal
<1>6. n # 1 => reveals
  <2>1. CASE n = N
    <3>1. msg("SecretToTarget", 0) \in messages
      BY <2>1 DEF receiveSecretReveal
    <3> QED
      BY <1>1, <2>1, <3>1 DEF Forwarded
  <2>2. CASE n # N
    <3>1. msg("SecretReveal", n) \in messages
      BY <2>2 DEF receiveSecretReveal
    <3>2. n \in Hop
      BY <2>2, HopsAre DEF Hop, Node
    <3> QED
      BY <1>1, <3>1, <3>2 DEF Forwarded
  <2> QED
    BY <2>1, <2>2
<1>7. \A h \in Hop : /\ received'[h] \in TransferState /\ Onwards(received[h], received'[h])
                     /\ received'[h].transfer = received[h].transfer /\ received'[h].expired = received[h].expired
                     /\ received'[h].secretRegistered = received[h].secretRegistered
                     /\ received'[h].channelClosed = received[h].channelClosed
                     /\ h + 1 = n /\ reveals => received'[h].secret
  BY <1>2, <1>4, FieldsAre
<1>8. received' \in [Hop -> TransferState]
  BY <1>4, <1>7
<1>9. sent' \in [Hop -> TransferState] /\ \A h \in Hop : sent'[h].transfer = sent[h].transfer
  <2> DEFINE t(h) == [sent[h] EXCEPT !.secret = TRUE]
             u(h) == [t(h) EXCEPT !.unlock = sent[h].unlock \/ unlocks]
  <2>1. sent' = [h \in Hop |-> IF h = n /\ sent[h].transfer THEN u(h) ELSE sent[h]]
    BY DEF receiveSecretReveal
  <2>2. \A h \in Hop : t(h) \in TransferState /\ t(h).transfer = sent[h].transfer
    BY <1>2, FieldsAre
  <2> HIDE DEF t
  <2>3. \A h \in Hop : u(h) \in TransferState /\ u(h).transfer = sent[h].transfer
    <3>1. \A h \in Hop : (sent[h].unlock \/ unlocks) \in BOOLEAN
      OBVIOUS
    <3>2. \A h \in Hop, b \in BOOLEAN :
            [t(h) EXCEPT !.unlock = b] \in TransferState /\ [t(h) EXCEPT !.unlock = b].transfer = sent[h].transfer
      BY <2>2 DEF TransferState
    <3> HIDE DEF unlocks
    <3> QED
      BY <3>1, <3>2
  <2> HIDE DEF u
  <2> QED
    BY <1>2, <2>1, <2>3
<1>10. n # 1 => n - 1 \in Hop /\ (n - 1) + 1 = n
  BY HopsAre
<1>11. n # 1 => received'[n - 1].transfer /\ received'[n - 1].secret
  BY <1>6, <1>7, <1>10
<1>12. knownAt' \in [Node -> Nat] /\ LaterClocks
  BY <1>1, <1>3, <1>11, Learned
<1>13. LaterTransfers
  BY <1>7, <1>9 DEF LaterTransfers
<1>14. LaterMessages
  BY <1>3, <1>5, <1>11, HopsAre, MessagesAre DEF LaterMessages
<1>15. Types'
  BY <1>1, <1>3, <1>8, <1>9, <1>12 DEF Types, unchangedChain
<1> QED
  BY <1>12, <1>13, <1>14, <1>15 DEF Later

LEMMA UnlockedLater ==
  ASSUME WorthInv, NEW h \in Hop, receiveTransferUnlocked(h)
  PROVE  Types' /\ Later
<1> DEFINE t == [received[h] EXCEPT !.unlock = TRUE]
           u == [t EXCEPT !.secret = TRUE]
<1>1. Types /\ received[h] \in TransferState /\ received[h].transfer
  BY DEF WorthInv, Types, receiveTransferUnlocked
<1>2. /\ t \in TransferState /\ Onwards(received[h], t) /\ t.transfer = received[h].transfer
      /\ t.expired = received[h].expired /\ t.unlock
      /\ t.secretRegistered = received[h].secretRegistered /\ t.channelClosed = received[h].channelClosed
  BY <1>1, FieldsAre
<1>3. received' = [received EXCEPT ![h] = u]
  BY DEF receiveTransferUnlocked
<1> HIDE DEF t
<1>4. /\ u \in TransferState /\ Onwards(t, u) /\ u.transfer = t.transfer /\ u.secret
      /\ u.expired = t.expired /\ u.secretRegistered = t.secretRegistered /\ u.channelClosed = t.channelClosed
  BY <1>2, FieldsAre
<1> HIDE DEF u
<1>5. received' \in [Hop -> TransferState] /\ received'[h] = u /\ \A i \in Hop \ {h} : received'[i] = received[i]
  BY <1>1, <1>3, <1>4 DEF Types
<1>6. \A i \in Hop \ {h} : Onwards(received[i], received'[i])
  <2>1. \A i \in Hop : received[i] \in TransferState
    BY <1>1 DEF Types
  <2> QED
    BY <1>5, <2>1, SameIsOnwards
<1>7. /\ sent' = sent /\ messages' \subseteq messages /\ mediating' = mediating /\ now' = now /\ up' = up
      /\ learns(h + 1) /\ unchangedChain
  BY DEF receiveTransferUnlocked, unchangedRest
<1>8. h + 1 \in Node /\ (h + 1) - 1 = h
  BY HopsAre
<1>9. knownAt' \in [Node -> Nat] /\ LaterClocks
  BY <1>1, <1>2, <1>4, <1>5, <1>7, <1>8, Learned
<1>10. LaterTransfers
  BY <1>2, <1>4, <1>5, <1>6, <1>7 DEF LaterTransfers, Onwards
<1>11. LaterMessages
  BY <1>7 DEF LaterMessages
<1> QED
  BY <1>1, <1>5, <1>7, <1>9, <1>10, <1>11 DEF Later, Types, unchangedChain

LEMMA ExpireLater ==
  ASSUME WorthInv, NEW h \in Hop, transferAutoExpire(h)
  PROVE  Types' /\ Later
<1> DEFINE u == [sent[h] EXCEPT !.expired = TRUE]
<1>1. Types /\ sent[h] \in TransferState
  BY DEF WorthInv, Types
<1>2. u \in TransferState /\ u.transfer = sent[h].transfer
  BY <1>1, FieldsAre
<1>3. sent' = [sent EXCEPT ![h] = u]
  BY DEF transferAutoExpire
<1> HIDE DEF u
<1>4. sent' \in [Hop -> TransferState] /\ \A i \in Hop : sent'[i].transfer = sent[i].transfer
  BY <1>1, <1>2, <1>3 DEF Types
<1>5. /\ received' = received /\ mediating' = mediating /\ now' = now /\ up' = up /\ knownAt' = knownAt
      /\ registering' = registering /\ registeredAt' = registeredAt /\ closed' = closed
      /\ messages' = messages \cup {msg("LockExpired", h)} /\ now >= expiration + 1 + httpTimeout
  BY DEF transferAutoExpire, unchangedChain, unchangedRest
<1>6. \A i \in Hop : Onwards(received[i], received'[i])
  <2>1. \A i \in Hop : received[i] \in TransferState
    BY <1>1 DEF Types
  <2> QED
    BY <1>5, <2>1, FieldsAre
<1>7. LaterTransfers
  BY <1>4, <1>5, <1>6 DEF LaterTransfers
<1>8. now > expiration + httpTimeout
  BY <1>1, <1>5, HopsAre DEF Types
<1>9. LaterMessages
  BY <1>5, <1>8, MessagesAre DEF LaterMessages
<1> QED
  BY <1>1, <1>4, <1>5, <1>7, <1>9, SameClocks DEF Later, Types

LEMMA ExpiredLater ==
  ASSUME WorthInv, NEW h \in Hop, receiveTransferExpired(h)
  PROVE  Types' /\ Later
<1> DEFINE u == [received[h] EXCEPT !.expired = TRUE]
<1>1. Types /\ received[h] \in TransferState /\ \A i \in Hop : received[i] \in TransferState
  BY DEF WorthInv, Types
<1>2. /\ u \in TransferState /\ Onwards(received[h], u) /\ u.transfer = received[h].transfer
      /\ u.secretRegistered = received[h].secretRegistered /\ u.channelClosed = received[h].channelClosed
  BY <1>1, FieldsAre
<1>3. received' = [received EXCEPT ![h] = u]
  BY DEF receiveTransferExpired
<1> HIDE DEF u
<1>4. received' \in [Hop -> TransferState] /\ received'[h] = u /\ \A i \in Hop \ {h} : received'[i] = received[i]
  BY <1>1, <1>2, <1>3 DEF Types
<1>5. /\ sent' = sent /\ mediating' = mediating /\ now' = now /\ up' = up /\ knownAt' = knownAt
      /\ registering' = registering /\ registeredAt' = registeredAt /\ closed' = closed
      /\ messages' \subseteq messages /\ msg("LockExpired", h) \in messages /\ ~received[h].secretRegistered
  BY DEF receiveTransferExpired, unchangedChain, unchangedRest
<1>6. \A i \in Hop \ {h} : Onwards(received[i], received'[i])
  BY <1>1, <1>4 DEF Onwards
<1>7. LaterTransfers
  BY <1>2, <1>4, <1>5, <1>6 DEF LaterTransfers
<1>8. LaterMessages
  BY <1>5 DEF LaterMessages
<1> QED
  BY <1>1, <1>4, <1>5, <1>7, <1>8, SameClocks DEF Later, Types

LEMMA RegisterLater ==
  ASSUME WorthInv, NEW n \in Node, transferAutoRegister(n) \/ registerSecret(n)
  PROVE  Types' /\ Later
<1>1. Types
  BY DEF WorthInv
<1>2. /\ received' = received /\ sent' = sent /\ mediating' = mediating /\ now' = now /\ up' = up
      /\ knownAt' = knownAt /\ closed' = closed /\ messages' = messages
  BY DEF transferAutoRegister, registerSecret, unchangedRest
<1>3. CASE transferAutoRegister(n)
  <2>1. registering' = [registering EXCEPT ![n] = now] /\ registeredAt' = registeredAt /\ registering[n] = 0
    BY <1>3 DEF transferAutoRegister, isInDanger
  <2>2. Types' /\ LaterClocks
    BY <1>1, <1>2, <2>1 DEF Types, LaterClocks
  <2> QED
    BY <1>1, <1>2, <2>2, SameTransfers, SameMessages DEF Later
<1>4. CASE registerSecret(n)
  <2>1. registering' = registering /\ registeredAt' = now /\ registeredAt = 0
    BY <1>4 DEF registerSecret
  <2>2. Types' /\ LaterClocks
    BY <1>1, <1>2, <2>1 DEF Types, LaterClocks
  <2> QED
    BY <1>1, <1>2, <2>2, SameTransfers, SameMessages DEF Later
<1> QED
  BY <1>3, <1>4

LEMMA SeenIs ==
  ASSUME NEW t \in TransferState
  PROVE  /\ seen(t) \in TransferState /\ Onwards(t, seen(t)) /\ seen(t).transfer = t.transfer
         /\ seen(t).expired = t.expired /\ seen(t).channelClosed = t.channelClosed
         /\ t.transfer /\ registeredAt < expiration => seen(t).secret /\ seen(t).secretRegistered = isConfirmed
         /\ ~(t.transfer /\ registeredAt < expiration) => seen(t) = t
<1> DEFINE u == [t EXCEPT !.secret = TRUE]
           v == [u EXCEPT !.secretRegistered = isConfirmed]
<1>1. isConfirmed \in BOOLEAN
  BY DEF isConfirmed
<1>2. seen(t) = IF t.transfer /\ registeredAt < expiration THEN v ELSE t
  BY DEF seen
<1>3. /\ u \in TransferState /\ Onwards(t, u) /\ u.secret /\ u.transfer = t.transfer
      /\ u.expired = t.expired /\ u.channelClosed = t.channelClosed
  BY FieldsAre
<1> HIDE DEF u
<1>4. /\ v \in TransferState /\ Onwards(u, v) /\ v.transfer = u.transfer /\ v.secret = u.secret
      /\ v.expired = u.expired /\ v.channelClosed = u.channelClosed /\ v.secretRegistered = isConfirmed
  <2>1. \A b \in BOOLEAN :
          LET w == [u EXCEPT !.secretRegistered = b]
          IN /\ w \in TransferState /\ Onwards(u, w) /\ w.transfer = u.transfer /\ w.secret = u.secret
             /\ w.expired = u.expired /\ w.channelClosed = u.channelClosed /\ w.secretRegistered = b
    BY <1>3, FieldsAre
  <2> QED
    BY <1>1, <2>1
<1> HIDE DEF v
<1>5. Onwards(t, t)
  BY FieldsAre
<1> QED
  BY <1>2, <1>3, <1>4, <1>5 DEF Onwards

LEMMA SeesLater ==
  ASSUME WorthInv, NEW n \in Node, transferSecretRegisterSuccess(n)
  PROVE  Types' /\ Later
<1>1. Types /\ Forwarded
  BY DEF WorthInv
<1>2. \A i \in Hop : received[i] \in TransferState /\ sent[i] \in TransferState
  BY <1>1 DEF Types
<1>3. /\ sent' = [h \in Hop |-> IF h = n THEN seen(sent[h]) ELSE sent[h]]
      /\ received' = [h \in Hop |-> IF h + 1 = n THEN seen(received[h]) ELSE received[h]]
      /\ mediating' = mediating /\ now' = now /\ up' = up /\ learns(n) /\ unchangedChain
  BY DEF transferSecretRegisterSuccess, unchangedRest
<1>4. registeredAt # 0 /\ registeredAt < expiration /\ (n # 1 => received[n - 1].transfer)
  <2>1. CASE n \in Hop /\ registeredAt # 0 /\ seen(sent[n]) # sent[n]
    BY <1>1, <1>2, <2>1, SeenIs DEF Forwarded
  <2>2. CASE n - 1 \in Hop /\ registeredAt # 0 /\ seen(received[n - 1]) # received[n - 1]
    BY <1>2, <2>2, SeenIs
  <2> QED
    BY <2>1, <2>2 DEF transferSecretRegisterSuccess, seesRegistered
<1>5. \A h \in Hop : /\ received'[h] \in TransferState /\ Onwards(received[h], received'[h])
                     /\ received'[h].transfer = received[h].transfer /\ received'[h].expired = received[h].expired
                     /\ received'[h].channelClosed = received[h].channelClosed
                     /\ \/ received'[h].secretRegistered = received[h].secretRegistered
                        \/ received'[h].secretRegistered = isConfirmed
                     /\ h + 1 = n /\ received[h].transfer => received'[h].secret
  <2> SUFFICES ASSUME NEW h \in Hop
               PROVE  /\ received'[h] \in TransferState /\ Onwards(received[h], received'[h])
                      /\ received'[h].transfer = received[h].transfer /\ received'[h].expired = received[h].expired
                      /\ received'[h].channelClosed = received[h].channelClosed
                      /\ \/ received'[h].secretRegistered = received[h].secretRegistered
                         \/ received'[h].secretRegistered = isConfirmed
                      /\ h + 1 = n /\ received[h].transfer => received'[h].secret
    OBVIOUS
  <2>1. CASE h + 1 # n
    <3>1. received'[h] = received[h]
      BY <1>3, <2>1
    <3> QED
      BY <1>2, <2>1, <3>1, FieldsAre
  <2>2. CASE h + 1 = n
    <3>1. received'[h] = seen(received[h])
      BY <1>3, <2>2
    <3>2. CASE received[h].transfer
      <4>1. received[h] \in TransferState
        BY <1>2
      <4>2. /\ received'[h] \in TransferState /\ Onwards(received[h], received'[h])
            /\ received'[h].transfer = received[h].transfer /\ received'[h].expired = received[h].expired
            /\ received'[h].channelClosed = received[h].channelClosed
        BY <3>1, <4>1, SeenIs
      <4>3. received'[h].secretRegistered = isConfirmed /\ received'[h].secret
        BY <1>4, <3>1, <3>2, <4>1, SeenIs
      <4> QED
        BY <4>2, <4>3
    <3>3. CASE ~received[h].transfer
      BY <1>2, <3>1, <3>3, SeenIs
    <3> QED
      BY <3>2, <3>3
  <2> QED
    BY <2>1, <2>2
<1>6. received' \in [Hop -> TransferState]
  BY <1>3, <1>5
<1>7. \A h \in Hop : sent'[h] \in TransferState /\ sent'[h].transfer = sent[h].transfer
  BY <1>2, <1>3, SeenIs
<1>8. sent' \in [Hop -> TransferState]
  BY <1>3, <1>7
<1>9. n # 1 => n - 1 \in Hop /\ (n - 1) + 1 = n
  BY HopsAre
<1>10. n # 1 => received'[n - 1].transfer /\ received'[n - 1].secret
  BY <1>4, <1>5, <1>9
<1>11. knownAt' \in [Node -> Nat] /\ LaterClocks
  BY <1>1, <1>3, <1>10, Learned
<1>12. LaterTransfers
  BY <1>4, <1>5, <1>7 DEF LaterTransfers
<1>13. LaterMessages
  <2>1. messages' \subseteq messages \cup (IF n - 1 \in Hop /\ received[n - 1].transfer
                                           THEN {msg("SecretReveal", n - 1)} ELSE {})
    BY DEF transferSecretRegisterSuccess
  <2> QED
    BY <1>3, <1>5, <2>1, MessagesAre DEF LaterMessages
<1> QED
  BY <1>1, <1>3, <1>6, <1>8, <1>11, <1>12, <1>13 DEF Later, Types, unchangedChain

LEMMA CloseLater ==
  ASSUME WorthInv, NEW h \in Hop, close(h) \/ channelCloseSuccess(h)
  PROVE  Types' /\ Later
<1>1. Types /\ \A i \in Hop : received[i] \in TransferState /\ sent[i] \in TransferState
  BY DEF WorthInv, Types
<1>2. /\ mediating' = mediating /\ now' = now /\ up' = up /\ knownAt' = knownAt /\ messages' = messages
      /\ registering' = registering /\ registeredAt' = registeredAt
  BY DEF close, channelCloseSuccess, unchangedRest, unchangedChain
<1>3. LaterMessages
  BY <1>2, SameMessages
<1>4. CASE close(h)
  <2>1. closed' = closed \cup {h} /\ received' = received /\ sent' = sent
    BY <1>4 DEF close
  <2>2. LaterClocks
    BY <1>2, <2>1 DEF LaterClocks
  <2> QED
    BY <1>1, <1>2, <1>3, <2>1, <2>2, SameTransfers DEF Later, Types
<1>5. CASE channelCloseSuccess(h)
  <2>1. closed' = closed /\ h \in closed
    BY <1>5 DEF channelCloseSuccess, unchangedChain
  <2>2. LaterClocks
    BY <1>2, <2>1, SameClocks
  <2>3. CASE sent' = [sent EXCEPT ![h].channelClosed = TRUE] /\ received' = received
    <3> DEFINE u == [sent[h] EXCEPT !.channelClosed = TRUE]
    <3>1. u \in TransferState /\ u.transfer = sent[h].transfer
      BY <1>1, FieldsAre
    <3>2. sent' = [sent EXCEPT ![h] = u]
      BY <2>3
    <3> HIDE DEF u
    <3>3. sent' \in [Hop -> TransferState] /\ \A i \in Hop : sent'[i].transfer = sent[i].transfer
      BY <1>1, <3>1, <3>2 DEF Types
    <3>4. \A i \in Hop : Onwards(received[i], received'[i])
      BY <1>1, <2>3, FieldsAre
    <3>5. LaterTransfers
      BY <2>3, <3>3, <3>4 DEF LaterTransfers
    <3> QED
      BY <1>1, <1>2, <1>3, <2>1, <2>2, <2>3, <3>3, <3>5 DEF Later, Types
  <2>4. CASE received' = [received EXCEPT ![h].channelClosed = TRUE] /\ sent' = sent
    <3> DEFINE u == [received[h] EXCEPT !.channelClosed = TRUE]
    <3>1. /\ u \in TransferState /\ Onwards(received[h], u) /\ u.transfer = received[h].transfer
          /\ u.expired = received[h].expired /\ u.secretRegistered = received[h].secretRegistered
      BY <1>1, FieldsAre
    <3>2. received' = [received EXCEPT ![h] = u]
      BY <2>4
    <3> HIDE DEF u
    <3>3. received' \in [Hop -> TransferState] /\ received'[h] = u /\ \A i \in Hop \ {h} : received'[i] = received[i]
      BY <1>1, <3>1, <3>2 DEF Types
    <3>4. \A i \in Hop \ {h} : Onwards(received[i], received'[i])
      BY <1>1, <3>3, SameIsOnwards
    <3>5. LaterTransfers
      BY <2>1, <2>4, <3>1, <3>3, <3>4 DEF LaterTransfers
    <3> QED
      BY <1>1, <1>2, <1>3, <2>1, <2>2, <2>4, <3>3, <3>5 DEF Later, Types
  <2> QED
    BY <1>5, <2>3, <2>4 DEF channelCloseSuccess
<1> QED
  BY <1>4, <1>5

\* Nodes that are restarted take the transfers that are pending up again
LEMMA RestartLater ==
  ASSUME WorthInv, NEW n \in Node, stop(n) \/ start(n)
  PROVE  Types' /\ Later
<1>1. Types
  BY DEF WorthInv
<1>2. /\ received' = received /\ sent' = sent /\ now' = now /\ knownAt' = knownAt /\ messages' = messages
      /\ registering' = registering /\ registeredAt' = registeredAt /\ closed' = closed
  BY DEF stop, start, unchangedChain
<1>3. CASE stop(n)
  <2>1. n \in Unreliable /\ up' = up \ {n} /\ mediating' = mediating \ {n - 1}
    BY <1>3 DEF stop
  <2>2. LaterClocks
    BY <1>2, <2>1 DEF LaterClocks
  <2>3. LaterMessages
    BY <1>2, <2>1, SameMessages
  <2> QED
    BY <1>1, <1>2, <2>1, <2>2, <2>3, SameTransfers DEF Later, Types
<1>4. CASE start(n)
  <2>1. up' = up \cup {n}
    BY <1>4 DEF start
  <2>2. \A h \in mediating' : h \in Hop /\ (h \in mediating \/ (received[h].transfer /\ h + 1 \in Mediator))
    BY <1>1, <1>4 DEF start, Types
  <2>3. LaterClocks
    BY <1>2, <2>1 DEF LaterClocks
  <2>4. LaterMessages
    BY <1>2, <2>2 DEF LaterMessages
  <2> QED
    BY <1>1, <1>2, <2>1, <2>2, <2>3, <2>4, SameTransfers DEF Later, Types
<1> QED
  BY <1>3, <1>4

-----------------------------------------------------------------------------
(***************************************************************************)
(* The invariant is inductive                                              *)
(***************************************************************************)

LEMMA LaterPast ==
  ASSUME Types, Past, Later
  PROVE  Past'
BY DEF Types, Past, Later, LaterClocks

LEMMA LaterForwarded ==
  ASSUME Types, Forwarded, Later
  PROVE  Forwarded'
<1> USE DEF Later, LaterTransfers, LaterMessages, Onwards
<1>1. \A h \in Hop : msg("LockedTransfer", h) \in messages' => sent'[h].transfer
  BY DEF Forwarded
<1>2. \A h \in Hop : received'[h].transfer => sent'[h].transfer
  BY DEF Forwarded
<1>3. \A h \in Hop \ {1} : sent'[h].transfer => received'[h - 1].transfer
  BY HopsAre DEF Forwarded
<1>4. \A h \in mediating' : received'[h].transfer /\ h + 1 \in Mediator
  BY DEF Forwarded, Types
<1>5. \A h \in Hop : msg("SecretReveal", h) \in messages' => received'[h].transfer
  BY DEF Forwarded
<1>6. ASSUME NEW type \in {"SecretRequest", "SecretToTarget"}, msg(type, 0) \in messages'
      PROVE  received'[N - 1].transfer
  <2>1. CASE \E t \in {"SecretRequest", "SecretToTarget"} : msg(t, 0) \in messages
    <3>1. msg("SecretRequest", 0) \in messages \/ msg("SecretToTarget", 0) \in messages
      BY <2>1
    <3>2. received[N - 1].transfer /\ N - 1 \in Hop
      BY <3>1, HopsAre DEF Forwarded
    <3> QED
      BY <3>2
  <2> QED
    BY <1>6, <2>1
<1> QED
  BY <1>1, <1>2, <1>3, <1>4, <1>5, <1>6 DEF Forwarded

LEMMA LaterInformed ==
  ASSUME Types, Informed, Later
  PROVE  Informed'
<1> USE DEF Later, LaterTransfers, LaterMessages, LaterClocks, Onwards
<1>1. ASSUME NEW n \in Node \ {1}, knownAt'[n] # 0
      PROVE  received'[n - 1].transfer /\ received'[n - 1].secret
  <2>1. n \in Node /\ n # 1 /\ n - 1 \in Hop
    BY HopsAre
  <2> QED
    BY <1>1, <2>1 DEF Informed
<1>2. ASSUME NEW h \in Hop, received'[h].secretRegistered
      PROVE  registeredAt' # 0 /\ registeredAt' < expiration
  BY <1>2 DEF Informed
<1>3. \A h \in Hop : received'[h].channelClosed => h \in closed'
  BY DEF Informed
<1>4. \A h \in Hop : msg("LockExpired", h) \in messages' \/ received'[h].expired => now' > expiration + httpTimeout
  BY DEF Informed
<1> QED
  BY <1>1, <1>2, <1>3, <1>4 DEF Informed

LEMMA LaterMining ==
  ASSUME Types, Mining, Later
  PROVE  Mining'
<1> SUFFICES ASSUME registeredAt' = 0, NEW n \in Node, registering'[n] # 0
             PROVE  now' <= registering'[n] + mineDelay
  BY DEF Mining
<1>1. registeredAt = 0 /\ now' = now /\ now \in Nat /\ mineDelay \in Nat
  BY HopsAre DEF Types, Later, LaterClocks
<1> QED
  BY <1>1 DEF Mining, Later, LaterClocks

\* When nodes register the secret, and when that is mined, in numbers
LEMMA TimesAre ==
  ASSUME Types, NEW n \in Node
  PROVE  /\ registersBy(n) \in Int /\ minedBy(n) \in Int /\ minedBy(n) = registersBy(n) + mineDelay
         /\ registersBy(n) >= knownAt[n] /\ registersBy(n) >= expiration - revealTimeout
         /\ registersBy(n) = knownAt[n] \/ registersBy(n) = expiration - revealTimeout
         /\ minedBy(n) >= registersBy(n)
         /\ knownAt[n] \in Nat /\ registering[n] \in Nat /\ now \in Nat /\ registeredAt \in Nat
BY HopsAre DEF Types, registersBy, minedBy

LEMMA LaterRegisters ==
  ASSUME Types, Past, Registers, Mining, Types', Later
  PROVE  Registers'
<1> SUFFICES ASSUME NEW n \in Steady, waits(n)'
             PROVE  /\ now' > registersBy(n)' => registeredAt' # 0 \/ registering'[n] \in 1..registersBy(n)'
                    /\ registeredAt' <= minedBy(n)'
  BY DEF Registers
<1>1. n \in Node /\ n # 1 /\ n - 1 \in Hop
  BY HopsAre DEF Steady
<1>2. /\ registersBy(n) \in Int /\ minedBy(n) \in Int /\ minedBy(n) = registersBy(n) + mineDelay
      /\ registering[n] \in Nat /\ now \in Nat /\ registeredAt \in Nat /\ mineDelay \in Nat
      /\ minedBy(n) >= registersBy(n)
  BY <1>1, TimesAre, HopsAre
<1>3. /\ now' = now /\ (registeredAt' = registeredAt \/ (registeredAt = 0 /\ registeredAt' = now))
      /\ registering'[n] = registering[n] \/ (registering[n] = 0 /\ registering'[n] = now)
      /\ knownAt'[n] = knownAt[n] \/ (knownAt[n] = 0 /\ knownAt'[n] = now)
      /\ closed \subseteq closed' /\ (received[n - 1].unlock => received'[n - 1].unlock)
  BY <1>1 DEF Later, LaterClocks, LaterTransfers, Onwards
<1>4. registeredAt <= now
  BY DEF Past
<1>5. CASE knownAt'[n] = knownAt[n]
  <2>1. registersBy(n)' = registersBy(n) /\ minedBy(n)' = minedBy(n)
    BY <1>5 DEF registersBy, minedBy
  <2>2. waits(n)
    BY <1>3, <1>5, <2>1 DEF waits
  <2>3. /\ now > registersBy(n) => registeredAt # 0 \/ registering[n] \in 1..registersBy(n)
        /\ registeredAt <= minedBy(n)
    BY <2>2 DEF Registers
  <2>4. now > registersBy(n) => registeredAt' # 0 \/ registering'[n] \in 1..registersBy(n)
    BY <1>2, <1>3, <2>3
  <2>5. registeredAt' <= minedBy(n)
    <3>1. CASE registeredAt' = registeredAt
      BY <2>3, <3>1
    <3>2. CASE registeredAt = 0 /\ registeredAt' = now
      <4>1. CASE now <= registersBy(n)
        BY <1>2, <3>2, <4>1
      <4>2. CASE now > registersBy(n)
        <5>1. registering[n] # 0 /\ registering[n] <= registersBy(n)
          BY <1>2, <2>3, <3>2, <4>2
        <5>2. now <= registering[n] + mineDelay
          BY <1>1, <3>2, <5>1 DEF Mining
        <5> QED
          BY <1>2, <3>2, <5>1, <5>2
      <4> QED
        BY <1>2, <4>1, <4>2
    <3> QED
      BY <1>3, <3>1, <3>2
  <2> QED
    BY <1>3, <2>1, <2>4, <2>5
<1>6. CASE knownAt[n] = 0 /\ knownAt'[n] = now
  <2>1. registersBy(n)' >= now /\ registersBy(n)' \in Int /\ minedBy(n)' \in Int /\ minedBy(n)' >= registersBy(n)'
    BY <1>2, <1>6, HopsAre DEF registersBy, minedBy
  <2> QED
    BY <1>2, <1>3, <1>4, <2>1
<1> QED
  BY <1>3, <1>5, <1>6

LEMMA LaterConfirmed ==
  ASSUME Types, Confirmed, Later
  PROVE  Confirmed'
<1> SUFFICES ASSUME NEW n \in Steady, knownAt'[n] # 0, registeredAt' # 0, registeredAt' < expiration,
                    knownAt'[n] < now', registeredAt' + confirmDelay < now'
             PROVE  received'[n - 1].secretRegistered
  BY DEF Confirmed
<1>1. n \in Node /\ n # 1 /\ n - 1 \in Hop /\ confirmDelay \in Nat /\ now \in Nat /\ registeredAt \in Nat
  BY HopsAre DEF Steady, Types
<1>2. now' = now /\ knownAt'[n] = knownAt[n] /\ registeredAt' = registeredAt
  BY <1>1 DEF Later, LaterClocks
<1>3. received[n - 1].secretRegistered /\ isConfirmed
  BY <1>1, <1>2 DEF Confirmed, isConfirmed
<1> QED
  BY <1>1, <1>3 DEF Later, LaterTransfers

\* A transaction has its time to be mined before the lock expires, and to be confirmed before the
\* lock is given up: what revealTimeout is for
Timely ==
  /\ mineDelay < revealTimeout /\ mineDelay + confirmDelay <= revealTimeout + httpTimeout
  /\ expiration <= MaxTime

\* After the expiration the secret is registered, if the lock isn't paid
LEMMA RegisteredInTime ==
  ASSUME Types, Registers, Mining, NEW n \in Steady, waits(n), now >= expiration
  PROVE  registeredAt # 0 /\ registeredAt <= minedBy(n) /\ registeredAt < expiration
<1>1. n \in Node
  BY DEF Steady
<1>2. /\ registersBy(n) \in Int /\ minedBy(n) = registersBy(n) + mineDelay /\ mineDelay \in Nat
      /\ registering[n] \in Nat /\ now \in Nat /\ registeredAt \in Nat /\ expiration \in Nat
  BY <1>1, TimesAre, HopsAre
<1>3. minedBy(n) < expiration /\ registersBy(n) < now
  BY <1>2 DEF waits
<1>4. /\ registeredAt # 0 \/ registering[n] \in 1..registersBy(n)
      /\ registeredAt <= minedBy(n)
  BY <1>3 DEF Registers
<1>5. registeredAt # 0
  <2> SUFFICES ASSUME registeredAt = 0 PROVE FALSE
    OBVIOUS
  <2>1. registering[n] # 0 /\ registering[n] <= registersBy(n)
    BY <1>2, <1>4
  <2>2. now <= registering[n] + mineDelay
    BY <1>1, <2>1 DEF Mining
  <2> QED
    BY <1>2, <1>3, <2>1, <2>2
<1> QED
  BY <1>2, <1>3, <1>4, <1>5

LEMMA LaterKept ==
  ASSUME Timely, WorthInv, Later, Types', Informed'
  PROVE  Kept'
<1> SUFFICES ASSUME NEW n \in Steady, waits(n)', knewInTime(n)', received'[n - 1].expired
             PROVE  FALSE
  BY DEF Kept
<1>1. Types /\ Registers /\ Mining /\ Confirmed /\ Kept
  BY DEF WorthInv
<1>2. n \in Node /\ n # 1 /\ n - 1 \in Hop
  BY HopsAre DEF Steady
<1>3. /\ now' = now /\ (knownAt'[n] = knownAt[n] \/ (knownAt[n] = 0 /\ knownAt'[n] = now))
      /\ closed \subseteq closed' /\ (received[n - 1].unlock => received'[n - 1].unlock)
      /\ received[n - 1].expired \/ ~received[n - 1].secretRegistered
  BY <1>2 DEF Later, LaterClocks, LaterTransfers, Onwards
<1>4. /\ registersBy(n) \in Int /\ minedBy(n) = registersBy(n) + mineDelay
      /\ registersBy(n) = knownAt[n] \/ registersBy(n) = expiration - revealTimeout
      /\ knownAt[n] \in Nat /\ now \in Nat /\ registeredAt \in Nat
      /\ expiration \in Nat /\ httpTimeout \in Nat /\ mineDelay \in Nat /\ confirmDelay \in Nat /\ revealTimeout \in Nat
  BY <1>1, <1>2, TimesAre, HopsAre
<1>5. now > expiration + httpTimeout
  BY <1>2, <1>3 DEF Informed
<1>6. /\ knownAt'[n] # 0 /\ knownAt'[n] + mineDelay < expiration
      /\ knownAt'[n] + mineDelay + confirmDelay <= expiration + httpTimeout
  BY DEF knewInTime
<1>7. knownAt'[n] = knownAt[n]
  BY <1>3, <1>4, <1>5, <1>6
<1>8. waits(n) /\ knewInTime(n)
  BY <1>3, <1>6, <1>7 DEF waits, knewInTime, minedBy, registersBy
<1>9. ~received[n - 1].secretRegistered
  BY <1>1, <1>3, <1>8 DEF Kept
<1>10. registeredAt # 0 /\ registeredAt <= minedBy(n) /\ registeredAt < expiration
  BY <1>1, <1>4, <1>5, <1>8, RegisteredInTime
<1>11. minedBy(n) + confirmDelay <= expiration + httpTimeout /\ minedBy(n) \in Int
  BY <1>4, <1>6, <1>7 DEF Timely
<1>12. knownAt[n] < now /\ registeredAt + confirmDelay < now /\ knownAt[n] # 0
  BY <1>4, <1>5, <1>6, <1>7, <1>10, <1>11
<1>13. received[n - 1].secretRegistered
  BY <1>1, <1>10, <1>12 DEF Confirmed
<1> QED
  BY <1>9, <1>13

LEMMA LaterInv ==
  ASSUME Timely, WorthInv, Later, Types'
  PROVE  WorthInv'
<1> USE DEF WorthInv
<1>1. Past'
  BY LaterPast
<1>2. Forwarded'
  BY LaterForwarded
<1>3. Informed'
  BY LaterInformed
<1>4. Registers'
  BY LaterRegisters
<1>5. Mining'
  BY LaterMining
<1>6. Confirmed'
  BY LaterConfirmed
<1>7. Kept'
  BY <1>3, LaterKept
<1> QED
  BY <1>1, <1>2, <1>3, <1>4, <1>5, <1>6, <1>7

\* Time goes on when nobody has anything to do at once
LEMMA TickInv ==
  ASSUME WorthInv, tick
  PROVE  WorthInv'
<1> USE DEF WorthInv
<1>1. /\ now' = now + 1 /\ ~isDue
      /\ up' = up /\ sent' = sent /\ received' = received /\ messages' = messages /\ mediating' = mediating
      /\ knownAt' = knownAt /\ registering' = registering /\ registeredAt' = registeredAt /\ closed' = closed
  BY DEF tick, unchangedChain
<1>2. now \in Nat /\ registeredAt \in Nat
  BY DEF Types
<1>3. Types' /\ Forwarded'
  BY <1>1 DEF Types, Forwarded
<1>4. Past'
  <2>1. \A n \in Node : registering[n] \in Nat /\ knownAt[n] \in Nat
    BY DEF Types
  <2> QED
    BY <1>1, <1>2, <2>1 DEF Past
<1>5. Informed'
  <2>1. expiration + httpTimeout \in Nat
    BY HopsAre
  <2> QED
    BY <1>1, <1>2, <2>1 DEF Informed
<1>6. Mining'
  <2> SUFFICES ASSUME registeredAt = 0, NEW n \in Node, registering[n] # 0
               PROVE  now + 1 <= registering[n] + mineDelay
    BY <1>1 DEF Mining
  <2>1. ~(registering[n] + mineDelay <= now)
    BY <1>1 DEF isDue
  <2>2. registering[n] \in Nat /\ mineDelay \in Nat
    BY HopsAre DEF Types
  <2> QED
    BY <1>2, <2>1, <2>2
<1>7. Registers'
  <2> SUFFICES ASSUME NEW n \in Steady, waits(n)
               PROVE  now + 1 > registersBy(n) => registeredAt # 0 \/ registering[n] \in 1..registersBy(n)
    BY <1>1 DEF Registers, waits, registersBy, minedBy
  <2> SUFFICES ASSUME now + 1 > registersBy(n), registeredAt = 0
               PROVE  registering[n] \in 1..registersBy(n)
    OBVIOUS
  <2>1. n \in Node /\ n # 1 /\ n - 1 \in Hop /\ n \in up
    BY HopsAre DEF Steady, Past
  <2>2. /\ registersBy(n) \in Int /\ minedBy(n) = registersBy(n) + mineDelay
        /\ registersBy(n) >= expiration - revealTimeout /\ registering[n] \in Nat
        /\ expiration \in Nat /\ mineDelay \in Nat /\ revealTimeout \in Nat /\ httpTimeout \in Nat
    BY <2>1, TimesAre, HopsAre
  <2>3. CASE now > registersBy(n)
    BY <2>3 DEF Registers
  <2>4. CASE now <= registersBy(n)
    <3>1. now = registersBy(n) /\ now < expiration /\ now >= expiration - revealTimeout
      BY <1>2, <2>2, <2>4 DEF waits
    <3>2. received[n - 1].transfer /\ received[n - 1].secret
      BY <2>1 DEF Informed, waits
    <3>3. ~received[n - 1].unlock /\ ~received[n - 1].secretRegistered /\ ~received[n - 1].channelClosed
      BY <2>1 DEF Informed, waits
    <3>4. ~received[n - 1].expired
      <4>1. ~(now > expiration + httpTimeout)
        BY <1>2, <2>2, <3>1
      <4> QED
        BY <2>1, <4>1 DEF Informed
    <3>5. ~isInDanger(n)
      BY <1>1, <2>1 DEF isDue
    <3>6. registering[n] # 0
      BY <3>1, <3>2, <3>3, <3>4, <3>5 DEF isInDanger
    <3>7. registering[n] <= now
      BY <2>1 DEF Past
    <3> QED
      BY <2>2, <3>1, <3>6, <3>7
  <2> QED
    BY <1>2, <2>2, <2>3, <2>4
<1>8. Confirmed'
  <2> SUFFICES ASSUME NEW n \in Steady, knownAt[n] # 0, registeredAt # 0, registeredAt < expiration,
                      registeredAt + confirmDelay < now + 1
               PROVE  received[n - 1].secretRegistered
    BY <1>1 DEF Confirmed
  <2>1. n \in Node /\ n # 1 /\ n - 1 \in Hop /\ n \in up /\ confirmDelay \in Nat
    BY HopsAre DEF Steady, Past
  <2>2. received[n - 1] \in TransferState /\ received[n - 1].transfer
    BY <2>1 DEF Types, Informed
  <2>3. ~seesRegistered(n)
    BY <1>1, <2>1 DEF isDue
  <2>4. seen(received[n - 1]) = received[n - 1]
    BY <2>1, <2>3 DEF seesRegistered
  <2>5. isConfirmed
    BY <1>2, <2>1 DEF isConfirmed
  <2> QED
    BY <2>2, <2>4, <2>5, SeenIs
<1>9. Kept'
  BY <1>1 DEF Kept, waits, knewInTime, minedBy, registersBy
<1> QED
  BY <1>3, <1>4, <1>5, <1>6, <1>7, <1>8, <1>9

LEMMA InitInv == Init => WorthInv
<1> SUFFICES ASSUME Init PROVE WorthInv
  OBVIOUS
<1> DEFINE t == [None EXCEPT !.transfer = TRUE]
           u == [t EXCEPT !.secret = TRUE]
<1>1. None \in TransferState /\ ~None.transfer /\ ~None.secretRegistered /\ ~None.channelClosed /\ ~None.expired
  BY DEF None, TransferState
<1>2. t \in TransferState /\ t.transfer
  BY <1>1, FieldsAre
<1>3. sent = [h \in Hop |-> IF h = 1 THEN u ELSE None] /\ received = [h \in Hop |-> None]
  BY DEF Init
<1> HIDE DEF t
<1>4. u \in TransferState /\ u.transfer
  BY <1>2 DEF TransferState
<1> HIDE DEF u
<1>5. /\ now = 1 /\ up = Node /\ messages = {msg("LockedTransfer", 1)} /\ mediating = {}
      /\ registering = [n \in Node |-> 0] /\ registeredAt = 0 /\ closed = {}
      /\ knownAt = [n \in Node |-> IF n = 1 THEN 1 ELSE 0]
  BY DEF Init
<1>6. Types
  BY <1>1, <1>3, <1>4, <1>5 DEF Types
<1>7. Past
  BY <1>5 DEF Past
<1>8. Forwarded
  BY <1>1, <1>3, <1>4, <1>5, HopsAre, MessagesAre DEF Forwarded
<1>9. Informed
  BY <1>1, <1>3, <1>5, HopsAre, MessagesAre DEF Informed
<1>10. Registers /\ Mining /\ Confirmed /\ Kept
  BY <1>5 DEF Registers, Mining, Confirmed, Kept, waits, Steady
<1> QED
  BY <1>6, <1>7, <1>8, <1>9, <1>10 DEF WorthInv

\* Every step keeps to it
LEMMA NextInv ==
  ASSUME Timely
  PROVE  WorthInv /\ [Next]_vars => WorthInv'
<1> SUFFICES ASSUME WorthInv, [Next]_vars PROVE WorthInv'
  OBVIOUS
<1>1. CASE Receive
  BY <1>1, RevealLater, RevealedLater, SignedLater, UnlockedLater, ExpiredLater, LaterInv DEF Receive
<1>2. CASE Chain
  BY <1>2, RegisterLater, SeesLater, LaterInv DEF Chain
<1>3. CASE \E h \in Hop : transferMediate(h) \/ transferAutoExpire(h) \/ close(h) \/ channelCloseSuccess(h)
  BY <1>3, MediateLater, ExpireLater, CloseLater, LaterInv
<1>4. CASE \E n \in Node : stop(n) \/ start(n)
  BY <1>4, RestartLater, LaterInv
<1>5. CASE tick
  BY <1>5, TickInv
<1>6. CASE UNCHANGED vars
  BY <1>6 DEF vars, WorthInv, Types, Past, Forwarded, Informed, Registers, Mining, Confirmed, Kept, waits, knewInTime,
     minedBy, registersBy
<1> QED
  BY <1>1, <1>2, <1>3, <1>4, <1>5, <1>6 DEF Next

\* Who knows a secret, when it was told and registered, and what is waited for (transfers/epics/secret.ts).
THEOREM Invariant == ASSUME Timely PROVE Spec => []WorthInv
<1>1. Init => WorthInv
  BY InitInv
<1>2. WorthInv /\ [Next]_vars => WorthInv'
  BY NextInv
<1> QED
  BY <1>1, <1>2, PTL DEF Spec

\* A secret is worth its payment: whoever knows it early enough is paid, on paths of any length, whatever
\* the payer and the others do, if revealTimeout is as long as transactions take (transferAutoRegisterEpic).
THEOREM SecretsAreWorthIt == ASSUME Timely PROVE Spec => []SecretIsWorth
<1>1. WorthInv => SecretIsWorth
  <2> SUFFICES ASSUME WorthInv, NEW n \in Node \ ({1} \cup Unreliable), now = MaxTime, received[n - 1].transfer,
                      knewInTime(n), n - 1 \notin closed, ~received[n - 1].unlock
               PROVE  isPaid(n - 1)
    BY DEF SecretIsWorth, isPaid
  <2>1. n \in Steady /\ n \in Node
    BY DEF Steady
  <2>2. /\ registersBy(n) = knownAt[n] \/ registersBy(n) = expiration - revealTimeout
        /\ minedBy(n) = registersBy(n) + mineDelay /\ now \in Nat /\ knownAt[n] \in Nat
        /\ expiration \in Nat /\ mineDelay \in Nat /\ revealTimeout \in Nat
    BY <2>1, TimesAre, HopsAre DEF WorthInv
  <2>3. waits(n)
    BY <2>2 DEF knewInTime, waits, Timely
  <2>4. now >= expiration
    BY HopsAre DEF Timely
  <2>5. registeredAt # 0 /\ registeredAt < expiration
    BY <2>1, <2>3, <2>4, RegisteredInTime DEF WorthInv
  <2>6. ~received[n - 1].expired
    BY <2>1, <2>3 DEF WorthInv, Kept
  <2> QED
    BY <2>5, <2>6 DEF isPaid, isClaimable
<1> QED
  BY Invariant, <1>1, PTL

-----------------------------------------------------------------------------
(***************************************************************************)
(* Lifecycle: the inductive invariant                                      *)
(***************************************************************************)

\* What has to do with a channel in the store
Seen == {"opened", "deposit", "closed", "settled", "coopSettled"}

Log ==
  [type : {"opened", "deposit", "closed", "updated", "settled", "coopSettled", "unlocked"},
   id : Id, who : Party, args : Amount \X Amount, block : Nat]

\* Transactions in blocks that no reorganisation reaches any more
finalTxs ==
  {txOf(chain[i]) : i \in {j \in DOMAIN chain : chain[j].block <= head - confirmationBlocks + 1}}

\* What is in the store comes from transactions of F
isBacked(c, old, F) ==
  /\ c.id # 0 => \E t \in F : t.type = "opened" /\ t.id = c.id
  /\ \A p \in Party : c.deposit[p] # 0 =>
       \E t \in F : t.type = "deposit" /\ t.id = c.id /\ t.who = p /\ t.args[1] = c.deposit[p]
  /\ c.closeParticipant # "nobody" =>
       \E t \in F : t.type = "closed" /\ t.id = c.id /\ t.who = c.closeParticipant
  /\ \A id \in old : \E t \in F : t.type \in {"settled", "coopSettled"} /\ t.id = id

\* Only a channel with an identifier has a state
isChannel(c) == c \in Channel /\ (c.state # "none" => c.id \in Id)

\* An action that waits for confirmations
isPending(a) == a \in Action /\ a.tx.type \in Seen

\* Stores in which everything that is confirmed comes from F
Store(F) ==
  {s \in [channel : Channel, oldChannels : SUBSET Id, pendingTxs : SUBSET Action, jobs : SUBSET Job] :
     /\ isChannel(s.channel) /\ \A a \in s.pendingTxs : isPending(a)
     /\ isBacked(s.channel, s.oldChannels, F)}

\* What comes from outside of the store
LifecycleTypes ==
  /\ scenario \in Scenarios /\ height \in Nat /\ blockNumber \in Int
  /\ chain \in Seq(Log) /\ mempool \in SUBSET Tx /\ reorgs \in Nat

\* The client is never ahead of the chain, whose logs are in the order of its blocks
Blocks ==
  /\ blockNumber <= head
  /\ \A i \in DOMAIN chain : chain[i].block <= height
  /\ \A i, j \in DOMAIN chain : i <= j => chain[i].block <= chain[j].block

\* The logs of an answer are still on the chain
Answers ==
  \A r \in response :
    /\ r.logs \in Seq(Log)
    /\ \A i \in DOMAIN r.logs : \E j \in DOMAIN chain : r.logs[i] = chain[j]

\* What the client takes for confirmed is final
Backed == current \in Store(finalTxs)

LifecycleInv == LifecycleTypes /\ Blocks /\ Answers /\ Backed

-----------------------------------------------------------------------------
(***************************************************************************)
(* Numbers, and functions that take step after step                        *)
(***************************************************************************)

\* A set of numbers has a smallest one
LEMMA Smallest ==
  ASSUME NEW T \in SUBSET Nat, T # {}
  PROVE  \E x \in T : \A y \in T : x <= y
<1>1. PICK x \in T : \A y \in T : ~(<<y, x>> \in OpToRel(<, Nat))
  BY NatLessThanWellFounded, WFMin, Zenon
<1>2. \A y \in T : ~(y < x)
  BY <1>1 DEF OpToRel
<1> QED
  BY <1>2

\* g takes n steps from v
iterates(g, n, v, next) == g[0] = v /\ \A i \in 1..n : g[i] = next[<<i, g[i - 1]>>]

LEMMA Iterates ==
  ASSUME NEW n \in Nat, NEW V, NEW v \in V, NEW next \in [(1..n) \X V -> V]
  PROVE  \E g \in [0..n -> V] : iterates(g, n, v, next)
<1> DEFINE Fails == {k \in 0..n : ~\E g \in [0..k -> V] : iterates(g, k, v, next)}
<1>1. n \in 0..n /\ Fails \in SUBSET Nat
  OBVIOUS
<1> SUFFICES ASSUME Fails # {} PROVE FALSE
  BY <1>1
<1>2. PICK k \in Fails : \A j \in Fails : k <= j
  BY <1>1, Smallest
<1>3. k # 0
  <2>1. [i \in 0..0 |-> v] \in [0..0 -> V] /\ iterates([i \in 0..0 |-> v], 0, v, next)
    BY DEF iterates
  <2> QED
    BY <2>1
<1>4. k \in 1..n /\ k - 1 \in 0..n /\ ~(k <= k - 1)
  BY <1>3
<1>5. PICK g \in [0..(k - 1) -> V] : iterates(g, k - 1, v, next)
  BY <1>2, <1>4
<1> DEFINE h == [i \in 0..k |-> IF i = k THEN next[<<k, g[k - 1]>>] ELSE g[i]]
<1>6. g[k - 1] \in V /\ next[<<k, g[k - 1]>>] \in V
  BY <1>4, <1>5
<1>7. h \in [0..k -> V]
  BY <1>4, <1>5, <1>6
<1>8. h[0] = v
  BY <1>4, <1>5 DEF iterates
<1>9. ASSUME NEW i \in 1..k PROVE h[i] = next[<<i, h[i - 1]>>]
  <2>1. CASE i = k
    <3>1. k - 1 \in 0..k /\ k \in 0..k /\ k - 1 # k
      BY <1>4
    <3> QED
      BY <2>1, <3>1
  <2>2. CASE i # k
    <3>1. i \in 1..(k - 1) /\ i - 1 \in 0..k /\ i - 1 # k /\ i \in 0..k
      BY <1>4, <2>2
    <3> QED
      BY <1>5, <2>2, <3>1 DEF iterates
  <2> QED
    BY <2>1, <2>2
<1> QED
  BY <1>7, <1>8, <1>9 DEF iterates

-----------------------------------------------------------------------------
(***************************************************************************)
(* What a reducer makes of an action                                       *)
(***************************************************************************)

LEMMA ChannelTypes ==
  ASSUME NEW c, isChannel(c)
  PROVE  /\ c.id \in {0} \cup Id /\ c.state \in State /\ c.openBlock \in Nat
         /\ c.deposit \in [Party -> Amount] /\ c.sent \in BalanceProof /\ c.received \in BalanceProof
         /\ c.closeBlock \in {NoBlock} \cup Nat /\ c.closeParticipant \in Party \cup {"nobody"}
  BY DEF isChannel, Channel

LEMMA ActionTypes ==
  ASSUME NEW a, isPending(a)
  PROVE  /\ a.tx \in Tx /\ a.tx.type \in Seen /\ a.tx.id \in Id /\ a.tx.who \in Party
         /\ a.tx.args[1] \in Amount /\ a.block \in Nat /\ a.locks \in BalanceProof
  BY DEF isPending, Action, Tx

LEMMA NoChannelIsFine ==
  /\ isChannel(NoChannel)
  /\ NoChannel.id = 0 /\ NoChannel.closeParticipant = "nobody"
  /\ \A p \in Party : NoChannel.deposit[p] = 0
<1>1. NoChannel \in Channel
  BY BlocksAssumption DEF NoChannel, Channel, State, Party, Amount, BalanceProof
<1>2. NoChannel.id = 0 /\ NoChannel.state = "none" /\ NoChannel.closeParticipant = "nobody"
      /\ \A p \in Party : NoChannel.deposit[p] = 0
  BY DEF NoChannel
<1> QED
  BY <1>1, <1>2 DEF isChannel

\* A channel that a reducer made of another one
keeps(c, after, old, F) ==
  /\ isChannel(after)
  /\ isBacked(after, IF c.id # 0 /\ after.id = 0 THEN old \cup {c.id} ELSE old, F)

LEMMA Opens ==
  ASSUME NEW F, NEW c, isChannel(c), NEW old \in SUBSET Id, isBacked(c, old, F),
         NEW a, isPending(a), NEW confirmed, confirmed = "true" => a.tx \in F,
         a.tx.type = "opened"
  PROVE  keeps(c, channelOpenSuccessReducer(c, a, confirmed), old, F)
<1> DEFINE after == [NoChannel EXCEPT !.id = a.tx.id, !.state = "open", !.openBlock = a.block]
<1>1. CASE channelOpenSuccessReducer(c, a, confirmed) = c
  BY <1>1 DEF keeps
<1>2. CASE confirmed = "true" /\ channelOpenSuccessReducer(c, a, confirmed) = after
  <2>1. a.tx.id \in Id /\ a.tx.id # 0 /\ a.block \in Nat
    BY ActionTypes, BlocksAssumption
  <2>2. after \in Channel /\ after.id = a.tx.id /\ after.closeParticipant = "nobody"
        /\ \A p \in Party : after.deposit[p] = 0
    BY <2>1, NoChannelIsFine DEF isChannel, Channel, State
  <2> HIDE DEF after
  <2>3. isBacked(after, old, F)
    BY <1>2, <2>2 DEF isBacked
  <2> QED
    BY <1>2, <2>1, <2>2, <2>3 DEF keeps, isChannel
<1> QED
  BY <1>1, <1>2 DEF channelOpenSuccessReducer

LEMMA Deposits ==
  ASSUME NEW F, NEW c, isChannel(c), NEW old \in SUBSET Id, isBacked(c, old, F),
         NEW a, isPending(a), NEW confirmed, confirmed = "true" => a.tx \in F,
         a.tx.type = "deposit"
  PROVE  keeps(c, channelUpdateOnchainBalance(c, a, confirmed), old, F)
<1> DEFINE after == [c EXCEPT !.deposit[a.tx.who] = a.tx.args[1]]
<1>1. CASE channelUpdateOnchainBalance(c, a, confirmed) = c
  BY <1>1 DEF keeps
<1>2. CASE confirmed = "true" /\ c.id = a.tx.id /\ channelUpdateOnchainBalance(c, a, confirmed) = after
  <2>1. a.tx.who \in Party /\ a.tx.args[1] \in Amount
    BY ActionTypes
  <2>2. /\ after \in Channel /\ after.id = c.id /\ after.state = c.state
        /\ after.closeParticipant = c.closeParticipant
        /\ after.deposit = [c.deposit EXCEPT ![a.tx.who] = a.tx.args[1]]
    BY <2>1 DEF isChannel, Channel
  <2> HIDE DEF after
  <2>3. \A p \in Party : after.deposit[p] = IF p = a.tx.who THEN a.tx.args[1] ELSE c.deposit[p]
    BY <2>1, <2>2, ChannelTypes
  <2>4. isBacked(after, old, F)
    BY <1>2, <2>2, <2>3 DEF isBacked
  <2> QED
    BY <1>2, <2>2, <2>4 DEF keeps, isChannel
<1> QED
  BY <1>1, <1>2 DEF channelUpdateOnchainBalance

LEMMA Closes ==
  ASSUME NEW F, NEW c, isChannel(c), NEW old \in SUBSET Id, isBacked(c, old, F),
         NEW a, isPending(a), NEW confirmed, confirmed = "true" => a.tx \in F,
         a.tx.type = "closed"
  PROVE  keeps(c, channelCloseSuccessReducer(c, a, confirmed), old, F)
<1> DEFINE closes == [c EXCEPT !.state = "closing"]
           isClosedNow == [c EXCEPT !.state = "closed", !.closeBlock = a.block, !.closeParticipant = a.tx.who]
<1>1. CASE channelCloseSuccessReducer(c, a, confirmed) = c
  BY <1>1 DEF keeps
<1>2. CASE c.id = a.tx.id /\ channelCloseSuccessReducer(c, a, confirmed) = closes
  <2>1. closes \in Channel /\ closes.id = c.id /\ closes.closeParticipant = c.closeParticipant
        /\ closes.deposit = c.deposit
    BY DEF isChannel, Channel, State
  <2> HIDE DEF closes
  <2> QED
    BY <1>2, <2>1, ActionTypes DEF keeps, isBacked, isChannel
<1>3. CASE confirmed = "true" /\ c.id = a.tx.id /\ channelCloseSuccessReducer(c, a, confirmed) = isClosedNow
  <2>1. /\ isClosedNow \in Channel /\ isClosedNow.id = c.id /\ isClosedNow.closeParticipant = a.tx.who
        /\ isClosedNow.deposit = c.deposit
    BY ActionTypes DEF isChannel, Channel, State
  <2> HIDE DEF isClosedNow
  <2> QED
    BY <1>3, <2>1, ActionTypes DEF keeps, isBacked, isChannel
<1> QED
  BY <1>1, <1>2, <1>3 DEF channelCloseSuccessReducer

LEMMA Settles ==
  ASSUME NEW F, NEW c, isChannel(c), NEW old \in SUBSET Id, isBacked(c, old, F),
         NEW a, isPending(a), NEW confirmed, confirmed = "true" => a.tx \in F,
         a.tx.type \in {"settled", "coopSettled"}
  PROVE  keeps(c, channelSettleSuccessReducer(c, a, confirmed), old, F)
<1> DEFINE settles == [c EXCEPT !.state = "settling", !.closeBlock = IF isClosed(c) THEN @ ELSE 0]
<1>1. CASE channelSettleSuccessReducer(c, a, confirmed) = c
  BY <1>1 DEF keeps
<1>2. CASE c.id = a.tx.id /\ channelSettleSuccessReducer(c, a, confirmed) = settles
  <2>1. settles \in Channel /\ settles.id = c.id /\ settles.closeParticipant = c.closeParticipant
        /\ settles.deposit = c.deposit
    BY DEF isChannel, Channel, State
  <2> HIDE DEF settles
  <2> QED
    BY <1>2, <2>1, ActionTypes DEF keeps, isBacked, isChannel
<1>3. CASE confirmed = "true" /\ c.id = a.tx.id /\ channelSettleSuccessReducer(c, a, confirmed) = NoChannel
  <2>1. a.tx.id # 0
    BY ActionTypes, BlocksAssumption
  <2>2. isBacked(NoChannel, old \cup {c.id}, F)
    BY <1>3, NoChannelIsFine DEF isBacked
  <2> QED
    BY <1>3, <2>1, <2>2, NoChannelIsFine DEF keeps
<1> QED
  BY <1>1, <1>2, <1>3 DEF channelSettleSuccessReducer

LEMMA Reduces ==
  ASSUME NEW F, NEW c, isChannel(c), NEW old \in SUBSET Id, isBacked(c, old, F),
         NEW a, isPending(a), NEW confirmed, confirmed = "true" => a.tx \in F
  PROVE  keeps(c, reduceChannel(c, a, confirmed), old, F)
<1>1. a.tx.type \in Seen
  BY ActionTypes
<1>2. CASE a.tx.type = "opened"
  BY <1>2, Opens DEF reduceChannel
<1>3. CASE a.tx.type = "deposit"
  BY <1>3, Deposits DEF reduceChannel
<1>4. CASE a.tx.type = "closed"
  BY <1>4, Closes DEF reduceChannel
<1>5. CASE a.tx.type \in {"settled", "coopSettled"}
  BY <1>5, Settles DEF reduceChannel
<1> QED
  BY <1>1, <1>2, <1>3, <1>4, <1>5 DEF Seen

LEMMA Dispatches ==
  ASSUME NEW F, NEW s \in Store(F), NEW a, isPending(a),
         NEW confirmed \in {"true", "false", "undefined"}, confirmed = "true" => a.tx \in F
  PROVE  dispatched(s, a, confirmed) \in Store(F)
<1> DEFINE after == reduceChannel(s.channel, a, confirmed)
           old == IF s.channel.id # 0 /\ after.id = 0
                  THEN s.oldChannels \cup {s.channel.id} ELSE s.oldChannels
           txs == pendingAfter(s.pendingTxs, a, confirmed)
           doing == {j \in s.jobs : ~givesUp(j, a)} \cup started(a, confirmed, after)
<1>1. /\ isChannel(s.channel) /\ s.oldChannels \in SUBSET Id /\ s.jobs \in SUBSET Job
      /\ s.pendingTxs \in SUBSET Action /\ \A x \in s.pendingTxs : isPending(x)
      /\ isBacked(s.channel, s.oldChannels, F)
  BY DEF Store
<1>2. keeps(s.channel, after, s.oldChannels, F)
  BY <1>1, Reduces
<1>3. isChannel(after) /\ after \in Channel /\ isBacked(after, old, F)
  BY <1>2 DEF keeps, isChannel
<1>4. old \in SUBSET Id
  <2>1. s.channel.id \in {0} \cup Id
    BY <1>1, ChannelTypes
  <2> HIDE DEF after
  <2> QED
    BY <1>1, <2>1
<1>5. txs \in SUBSET Action /\ \A x \in txs : isPending(x)
  BY <1>1 DEF pendingAfter, removeAction, isPending
<1>6. doing \in SUBSET Job
  <2>1. started(a, confirmed, after) \in SUBSET Job
    <3>1. a.tx.id \in Id /\ a.locks \in BalanceProof /\ 0 \in BalanceProof
      BY ActionTypes, BlocksAssumption DEF BalanceProof
    <3> HIDE DEF after
    <3>2. job("awaitBlock", a.tx.id, 0) \in Job /\ job("unlock", a.tx.id, a.locks) \in Job
      BY <3>1 DEF job, Job
    <3> QED
      BY <3>2 DEF started
  <2> QED
    BY <1>1, <2>1
<1>7. dispatched(s, a, confirmed) = [channel |-> after, oldChannels |-> old, pendingTxs |-> txs, jobs |-> doing]
  BY DEF dispatched
<1> HIDE DEF after, old, txs, doing
<1> QED
  BY <1>3, <1>4, <1>5, <1>6, <1>7 DEF Store

-----------------------------------------------------------------------------
(***************************************************************************)
(* ... and of the logs of an answer                                        *)
(***************************************************************************)

\* A log that is confirmed if the client says so
isSound(log, F) == log.block + confirmationBlocks <= blockNumber => txOf(log) \in F

LEMMA TxOfLog ==
  ASSUME NEW log \in Log
  PROVE  txOf(log) \in Tx /\ txOf(log).type = log.type /\ txOf(log).id = log.id
         /\ txOf(log).who = log.who /\ txOf(log).args = log.args
  BY DEF Log, Tx, txOf, tx

LEMMA Maps ==
  ASSUME NEW F, NEW s \in Store(F), NEW log \in Log, isSound(log, F)
  PROVE  mapChannelEventsToAction(s, log) \in Store(F)
<1> DEFINE locks == IF hasLocks(s.channel) THEN s.channel.received ELSE 0
           a == [tx |-> txOf(log), block |-> log.block, locks |-> locks]
           confirmed == IF log.block + confirmationBlocks <= blockNumber THEN "true" ELSE "undefined"
<1>1. CASE isKnown(s.channel, log)
  <2>1. log.type \in Seen
    <3>1. log.type \in Seen \cup {"updated", "unlocked"}
      BY DEF Log, Seen
    <3> QED
      BY <1>1, <3>1 DEF isKnown, Seen
  <2>2. locks \in BalanceProof /\ log.block \in Nat
    BY ChannelTypes, BlocksAssumption DEF Store, BalanceProof, Log
  <2>3. isPending(a)
    BY <2>1, <2>2, TxOfLog DEF isPending, Action
  <2>4. dispatched(s, a, confirmed) \in Store(F)
    BY <2>3, Dispatches DEF isSound
  <2>5. mapChannelEventsToAction(s, log) = dispatched(s, a, confirmed)
    BY <1>1 DEF mapChannelEventsToAction
  <2> QED
    BY <2>4, <2>5
<1>2. CASE ~isKnown(s.channel, log)
  BY <1>2 DEF mapChannelEventsToAction
<1> QED
  BY <1>1, <1>2

LEMMA LogsAreHandled ==
  ASSUME NEW F, NEW s \in Store(F), NEW events \in Seq(Log),
         \A i \in 1..Len(events) : isSound(events[i], F)
  PROVE  afterLogs(s, events) \in Store(F)
<1> DEFINE last == Len(events)
           step(h) == [n \in 0..last |-> IF n = 0 THEN s ELSE mapChannelEventsToAction(h[n - 1], events[n])]
           after == CHOOSE h : h = step(h)
           next == [x \in (1..last) \X Store(F) |-> mapChannelEventsToAction(x[2], events[x[1]])]
<1>1. last \in Nat /\ \A i \in 1..last : events[i] \in Log /\ isSound(events[i], F)
  BY LenProperties, ElementOfSeq
<1>2. next \in [(1..last) \X Store(F) -> Store(F)]
  BY <1>1, Maps
<1>3. PICK g \in [0..last -> Store(F)] : iterates(g, last, s, next)
  <2> HIDE DEF next, last
  <2> QED
    BY <1>1, <1>2, Iterates
<1>4. ASSUME NEW n \in 1..last PROVE g[n] = mapChannelEventsToAction(g[n - 1], events[n])
  <2>1. n - 1 \in 0..last
    BY <1>1
  <2>2. g[n - 1] \in Store(F)
    <3> HIDE DEF last
    <3> QED
      BY <1>3, <2>1
  <2>3. g[n] = next[<<n, g[n - 1]>>]
    BY <1>3 DEF iterates
  <2> QED
    BY <2>2, <2>3
<1>5. g = step(g)
  <2> SUFFICES ASSUME NEW n \in 0..last PROVE g[n] = step(g)[n]
    OBVIOUS
  <2>1. CASE n = 0
    BY <1>3, <2>1 DEF iterates
  <2>2. CASE n # 0
    <3>1. n \in 1..last
      BY <1>1, <2>2
    <3> QED
      BY <1>4, <2>2, <3>1
  <2> QED
    BY <2>1, <2>2
<1>6. after = step(after)
  BY <1>5
<1>7. afterLogs(s, events) = after[last]
  BY DEF afterLogs
<1> HIDE DEF after
<1>8. after[0] = s /\ \A n \in 1..last : after[n] = mapChannelEventsToAction(after[n - 1], events[n])
  <2>1. \A n \in 0..last : after[n] = step(after)[n]
    BY <1>6
  <2>2. 0 \in 0..last /\ \A n \in 1..last : n \in 0..last /\ n # 0
    BY <1>1
  <2> QED
    BY <2>1, <2>2
<1> DEFINE Wrong == {n \in 0..last : after[n] \notin Store(F)}
<1>9. Wrong = {}
  <2> SUFFICES ASSUME Wrong # {} PROVE FALSE
    OBVIOUS
  <2>1. Wrong \in SUBSET Nat
    BY <1>1
  <2>2. PICK n \in Wrong : \A m \in Wrong : n <= m
    <3> HIDE DEF Wrong
    <3> QED
      BY <2>1, Smallest
  <2>3. n \in 1..last /\ n - 1 \in 0..last /\ ~(n <= n - 1)
    BY <1>1, <1>8, <2>2
  <2>4. after[n - 1] \in Store(F)
    BY <2>2, <2>3
  <2> QED
    BY <1>1, <1>8, <2>2, <2>3, <2>4, Maps
<1> QED
  BY <1>1, <1>7, <1>9

-----------------------------------------------------------------------------
(***************************************************************************)
(* The chain                                                               *)
(***************************************************************************)

LEMMA Largest ==
  ASSUME NEW n \in Nat, NEW S \in SUBSET (0..n), S # {}
  PROVE  Max(S) \in S
<1> DEFINE T == {n - x : x \in S}
<1>1. T \in SUBSET Nat /\ T # {}
  <2>1. \A x \in S : n - x \in Nat
    OBVIOUS
  <2> QED
    BY <2>1
<1>2. PICK m \in T : \A k \in T : m <= k
  <2> HIDE DEF T
  <2> QED
    BY <1>1, Smallest
<1>3. PICK x \in S : m = n - x
  BY <1>2
<1>4. \A y \in S : x >= y
  <2> TAKE y \in S
  <2>1. m <= n - y
    BY <1>2
  <2> QED
    BY <1>3, <2>1
<1> QED
  BY <1>3, <1>4 DEF Max

LEMMA Interval ==
  ASSUME NEW n \in Nat
  PROVE  IsFiniteSet(1..n) /\ Cardinality(1..n) = n
<1>1. IsFiniteSet(1..n) /\ Cardinality(1..n) = IF 1 > n THEN 0 ELSE n - 1 + 1
  <2>1. 1 \in Int /\ n \in Int
    OBVIOUS
  <2> QED
    BY <2>1, FS_Interval, Zenon
<1>2. (IF 1 > n THEN 0 ELSE n - 1 + 1) = n
  OBVIOUS
<1> QED
  BY <1>1, <1>2

LEMMA ChainLogs ==
  ASSUME LifecycleTypes
  PROVE  Len(chain) \in Nat /\ DOMAIN chain = 1..Len(chain) /\ \A i \in DOMAIN chain : chain[i] \in Log
  BY LenProperties, ElementOfSeq DEF LifecycleTypes

LEMMA LogTypes ==
  ASSUME LifecycleTypes, NEW i \in DOMAIN chain
  PROVE  chain[i].block \in Nat /\ chain[i].args \in Amount \X Amount /\ txOf(chain[i]) \in Tx
  BY ChainLogs, TxOfLog DEF Log

LEMMA ProofTypes ==
  ASSUME LifecycleTypes, NEW id, NEW end
  PROVE  proof(id, end) \in Amount
<1> DEFINE I == {j \in logs(id, {"closed", "updated"}) : chain[j].who # end}
           S == {0} \cup {chain[i].args[1] : i \in I}
<1>1. \A i \in I : chain[i].args[1] \in Amount
  BY LogTypes DEF logs
<1>2. S \in SUBSET (0..MaxTransfers + 1) /\ S # {} /\ MaxTransfers + 1 \in Nat
  BY <1>1, BlocksAssumption DEF Amount
<1>3. proof(id, end) = Max(S)
  BY DEF proof
<1> HIDE DEF S
<1> QED
  BY <1>2, <1>3, Largest DEF Amount

LEMMA LogsBefore ==
  ASSUME LifecycleTypes, NEW block
  PROVE  logsBefore(block) \in 0..Len(chain)
<1> DEFINE S == {i \in DOMAIN chain : chain[i].block < block}
<1>1. S \in SUBSET (1..Len(chain)) /\ Len(chain) \in Nat
  BY ChainLogs
<1>2. IsFiniteSet(1..Len(chain)) /\ Cardinality(1..Len(chain)) = Len(chain)
  BY <1>1, Interval
<1>3. IsFiniteSet(S) /\ Cardinality(S) <= Len(chain)
  <2> HIDE DEF S
  <2> QED
    BY <1>1, <1>2, FS_Subset
<1>4. Cardinality(S) \in Nat
  <2> HIDE DEF S
  <2> QED
    BY <1>3, FS_CardinalityType
<1>5. logsBefore(block) = Cardinality(S)
  BY DEF logsBefore
<1> HIDE DEF S
<1> QED
  BY <1>1, <1>3, <1>4, <1>5

LEMMA LogsBeforeAreFirst ==
  ASSUME LifecycleTypes, Blocks, NEW block \in Int, NEW i \in DOMAIN chain
  PROVE  chain[i].block < block <=> i <= logsBefore(block)
<1> DEFINE S == {j \in DOMAIN chain : chain[j].block < block}
           Rest == (1..Len(chain)) \ S
<1>1. DOMAIN chain = 1..Len(chain) /\ Len(chain) \in Nat /\ \A j \in DOMAIN chain : chain[j].block \in Nat
  BY ChainLogs, LogTypes
<1>2. logsBefore(block) = Cardinality(S)
  BY DEF logsBefore
<1>3. CASE Rest = {}
  <2>1. S = 1..Len(chain)
    BY <1>1, <1>3
  <2>2. Cardinality(S) = Len(chain)
    BY <1>1, <2>1, Interval
  <2>3. i \in S /\ i <= Len(chain)
    BY <1>1, <2>1
  <2> QED
    BY <1>2, <2>2, <2>3
<1>4. CASE Rest # {}
  <2>1. Rest \in SUBSET Nat
    OBVIOUS
  <2>2. PICK m \in Rest : \A j \in Rest : m <= j
    <3> HIDE DEF Rest
    <3> QED
      BY <1>4, <2>1, Smallest
  <2>3. m \in 1..Len(chain) /\ ~(chain[m].block < block)
    BY <1>1
  <2>4. \A j \in 1..Len(chain) : j \in S <=> j <= m - 1
    <3> TAKE j \in 1..Len(chain)
    <3>1. CASE j <= m - 1
      BY <1>1, <2>2, <2>3, <3>1
    <3>2. CASE ~(j <= m - 1)
      <4>1. m <= j
        BY <2>3, <3>2
      <4>2. chain[m].block <= chain[j].block
        BY <1>1, <2>3, <4>1 DEF Blocks
      <4> QED
        BY <1>1, <2>3, <3>2, <4>2
    <3> QED
      BY <3>1, <3>2
  <2>5. S = 1..(m - 1)
    BY <1>1, <2>3, <2>4
  <2>6. Cardinality(S) = m - 1
    <3>1. m - 1 \in Nat
      BY <2>3
    <3> QED
      BY <2>5, <3>1, Interval
  <2> QED
    BY <1>1, <1>2, <2>4, <2>6
<1> QED
  BY <1>3, <1>4

\* An answer holds logs of the chain
LEMMA GetLogs ==
  ASSUME LifecycleTypes, NEW from, NEW to
  PROVE  /\ getLogs(from, to) \in Seq(Log)
         /\ \A i \in DOMAIN getLogs(from, to) : \E j \in DOMAIN chain : getLogs(from, to)[i] = chain[j]
<1> DEFINE m == logsBefore(from) + 1
           n == logsBefore(to + 1)
           s == SubSeq(chain, m, n)
<1>1. DOMAIN chain = 1..Len(chain) /\ Len(chain) \in Nat /\ \A j \in DOMAIN chain : chain[j] \in Log
  BY ChainLogs
<1>2. m \in Int /\ n \in Int /\ m >= 1 /\ n <= Len(chain)
  BY <1>1, LogsBefore
<1>3. getLogs(from, to) = s
  BY DEF getLogs
<1> HIDE DEF m, n
<1>4. \A i \in m..n : i \in DOMAIN chain /\ chain[i] \in Log
  BY <1>1, <1>2
<1>5. s \in Seq(Log) /\ Len(s) = (IF m <= n THEN n - m + 1 ELSE 0)
      /\ \A i \in 1..(n - m + 1) : s[i] = chain[m + i - 1]
  BY <1>2, <1>4, SubSeqProperties
<1> HIDE DEF s
<1>6. DOMAIN s = 1..Len(s)
  BY <1>5, LenProperties
<1>7. ASSUME NEW i \in DOMAIN s PROVE \E j \in DOMAIN chain : s[i] = chain[j]
  <2>1. i \in 1..(n - m + 1) /\ m + i - 1 \in m..n
    BY <1>2, <1>5, <1>6
  <2> QED
    BY <1>4, <1>5, <2>1
<1> QED
  BY <1>3, <1>5, <1>7

-----------------------------------------------------------------------------
(***************************************************************************)
(* What is confirmed stays confirmed                                       *)
(***************************************************************************)

LEMMA StoreGrows ==
  ASSUME NEW F, NEW G, F \subseteq G, NEW s \in Store(F)
  PROVE  s \in Store(G)
<1>1. isBacked(s.channel, s.oldChannels, G)
  <2>1. isBacked(s.channel, s.oldChannels, F)
    BY DEF Store
  <2> QED
    BY <2>1 DEF isBacked
<1> QED
  BY <1>1 DEF Store

LEMMA FinalGrows ==
  ASSUME LifecycleTypes, height' \in Int, height' >= height,
         \A i \in DOMAIN chain : chain[i].block <= head - confirmationBlocks + 1 =>
           i \in DOMAIN chain' /\ chain'[i] = chain[i]
  PROVE  finalTxs \subseteq finalTxs'
<1> SUFFICES ASSUME NEW t \in finalTxs PROVE t \in finalTxs'
  OBVIOUS
<1>1. PICK i \in DOMAIN chain : chain[i].block <= head - confirmationBlocks + 1 /\ t = txOf(chain[i])
  BY DEF finalTxs
<1>2. chain[i].block \in Nat /\ height \in Nat /\ confirmationBlocks \in Nat
  BY LogTypes, BlocksAssumption DEF LifecycleTypes
<1>3. i \in DOMAIN chain' /\ chain'[i] = chain[i] /\ chain'[i].block <= (head - confirmationBlocks + 1)'
  BY <1>1, <1>2 DEF head
<1>4. t = txOf(chain'[i])
  BY <1>1, <1>3
<1> QED
  BY <1>3, <1>4 DEF finalTxs, txOf, tx

LEMMA LogsAreSound ==
  ASSUME LifecycleInv, NEW i \in DOMAIN chain
  PROVE  isSound(chain[i], finalTxs)
<1>1. chain[i].block \in Nat /\ height \in Nat /\ confirmationBlocks \in Nat /\ blockNumber \in Int
  BY LogTypes, BlocksAssumption DEF LifecycleInv, LifecycleTypes
<1>2. blockNumber <= height - 1
  BY DEF LifecycleInv, Blocks, head
<1>3. chain[i].block + confirmationBlocks <= blockNumber => chain[i].block <= head - confirmationBlocks + 1
  <2> HAVE chain[i].block + confirmationBlocks <= blockNumber
  <2>1. chain[i].block <= height - 1 - confirmationBlocks + 1
    BY <1>1, <1>2
  <2> QED
    BY <2>1 DEF head
<1> QED
  BY <1>3 DEF isSound, finalTxs

\* A step of the client
LEMMA ChainStays ==
  ASSUME LifecycleInv, UNCHANGED <<scenario, height, chain, reorgs>>, mempool' \in SUBSET Tx,
         blockNumber' \in Int, blockNumber' <= head,
         \A r \in response' : r \in response, current' \in Store(finalTxs)
  PROVE  LifecycleInv'
<1>1. LifecycleTypes' /\ Blocks'
  BY DEF LifecycleInv, LifecycleTypes, Blocks, head
<1>2. Answers'
  BY DEF LifecycleInv, Answers
<1>3. finalTxs' = finalTxs
  BY DEF finalTxs, head, txOf, tx
<1> QED
  BY <1>1, <1>2, <1>3 DEF LifecycleInv, Backed

\* A step of the chain
LEMMA StoreStays ==
  ASSUME LifecycleInv, LifecycleTypes', Blocks', Answers', finalTxs \subseteq finalTxs',
         UNCHANGED <<channel, oldChannels, pendingTxs>>, jobs' \in SUBSET jobs
  PROVE  LifecycleInv'
<1>1. current' \in Store(finalTxs)
  BY DEF LifecycleInv, Backed, current, Store
<1>2. current' \in Store(finalTxs')
  BY <1>1, StoreGrows
<1> QED
  BY <1>2 DEF LifecycleInv, Backed

LEMMA Becomes ==
  ASSUME NEW F, NEW after \in Store(F), become(after)
  PROVE  current' \in Store(F)
<1>1. /\ channel' = after.channel /\ oldChannels' = after.oldChannels
      /\ pendingTxs' = after.pendingTxs /\ jobs' = after.jobs
  BY DEF become
<1> QED
  BY <1>1 DEF current, Store

\* The client does something that nothing on the chain has to confirm
LEMMA ChannelMoves ==
  ASSUME LifecycleInv, isChannel(channel'), channel'.id = channel.id, channel'.deposit = channel.deposit,
         channel'.closeParticipant = channel.closeParticipant,
         UNCHANGED <<oldChannels, pendingTxs>>, jobs' \in SUBSET Job
  PROVE  current' \in Store(finalTxs)
<1>1. /\ oldChannels \in SUBSET Id /\ pendingTxs \in SUBSET Action
      /\ \A a \in pendingTxs : isPending(a) /\ isBacked(channel, oldChannels, finalTxs)
  BY DEF LifecycleInv, Backed, current, Store
<1>2. isBacked(channel, oldChannels, finalTxs)
  BY DEF LifecycleInv, Backed, current, Store
<1>3. isBacked(channel', oldChannels', finalTxs)
  BY <1>2 DEF isBacked
<1>4. channel' \in Channel
  BY DEF isChannel
<1> QED
  BY <1>1, <1>3, <1>4 DEF current, Store

LEMMA StoreTypes ==
  ASSUME LifecycleInv
  PROVE  /\ isChannel(channel) /\ oldChannels \in SUBSET Id /\ jobs \in SUBSET Job
         /\ \A a \in pendingTxs : isPending(a)
  BY DEF LifecycleInv, Backed, current, Store

-----------------------------------------------------------------------------
(***************************************************************************)
(* Steps of the chain                                                      *)
(***************************************************************************)

LEMMA IncludedKeeps ==
  ASSUME LifecycleInv, NEW t \in Tx, included(t), mempool' \in SUBSET Tx, jobs' \in SUBSET jobs,
         UNCHANGED <<scenario, height, reorgs, store, response>>
  PROVE  LifecycleInv'
<1> DEFINE log == [type |-> t.type, id |-> t.id, who |-> t.who, args |-> t.args, block |-> height]
           n == Len(chain)
<1>1. height \in Nat /\ chain \in Seq(Log) /\ log \in Log
  BY DEF LifecycleInv, LifecycleTypes, Tx, Log
<1>2. n \in Nat /\ DOMAIN chain = 1..n /\ \A i \in 1..n : chain[i].block \in Nat /\ chain[i].block <= height
  BY ChainLogs, LogTypes DEF LifecycleInv, Blocks
<1>3. chain' = Append(chain, log)
  BY DEF included
<1>4. log.block = height
  OBVIOUS
<1> HIDE DEF log
<1>5. /\ chain' \in Seq(Log) /\ Len(chain') = n + 1
      /\ \A i \in 1..n : chain'[i] = chain[i]
      /\ chain'[n + 1] = log
  BY <1>1, <1>3, AppendProperties
<1> HIDE DEF n
<1>6. DOMAIN chain' = 1..(n + 1)
  BY <1>5, LenProperties
<1>7. \A i \in 1..(n + 1) : i \in 1..n \/ i = n + 1
  BY <1>2
<1>8. LifecycleTypes'
  BY <1>1, <1>5 DEF LifecycleInv, LifecycleTypes, store
<1>9. Blocks'
  <2>1. \A i \in DOMAIN chain' : chain'[i].block <= height'
    BY <1>1, <1>2, <1>4, <1>5, <1>6, <1>7
  <2>2. ASSUME NEW i \in DOMAIN chain', NEW j \in DOMAIN chain', i <= j
        PROVE  chain'[i].block <= chain'[j].block
    <3>1. CASE j = n + 1
      BY <1>4, <1>5, <2>1, <2>2, <3>1
    <3>2. CASE j # n + 1
      <4>1. i \in 1..n /\ j \in 1..n
        BY <1>2, <1>6, <2>2, <3>2
      <4> QED
        BY <1>2, <1>5, <2>2, <4>1 DEF LifecycleInv, Blocks
    <3> QED
      BY <3>1, <3>2
  <2> QED
    BY <2>1, <2>2 DEF LifecycleInv, Blocks, head, store
<1>10. finalTxs \subseteq finalTxs'
  <2>1. \A i \in DOMAIN chain : i \in DOMAIN chain' /\ chain'[i] = chain[i]
    BY <1>2, <1>5, <1>6
  <2>2. height' \in Int /\ height' >= height
    BY <1>1
  <2> QED
    BY <2>1, <2>2, FinalGrows DEF LifecycleInv
<1>11. Answers'
  BY <1>2, <1>5, <1>6 DEF LifecycleInv, Answers
<1> QED
  BY <1>8, <1>9, <1>10, <1>11, StoreStays DEF store

LEMMA MineKeeps ==
  ASSUME LifecycleInv, mine
  PROVE  LifecycleInv'
<1>1. PICK t \in mempool :
     /\ mempool' = mempool \ {t}
     /\ IF accepts(t)
        THEN /\ included(t)
             /\ jobs' = {j \in jobs : ~(t.who = "own" /\ j.name = jobOf(t) /\ j.id = t.id)}
        ELSE UNCHANGED <<chain, jobs>>
     /\ UNCHANGED <<scenario, height, reorgs, store, phase, scan, restarts>>
  BY DEF mine
<1>2. t \in Tx /\ mempool' \in SUBSET Tx /\ UNCHANGED <<store, response>>
  BY <1>1 DEF LifecycleInv, LifecycleTypes, scan
<1>3. CASE accepts(t)
  <2>1. included(t) /\ jobs' \in SUBSET jobs
    BY <1>1, <1>3
  <2> QED
    BY <1>1, <1>2, <2>1, IncludedKeeps
<1>4. CASE ~accepts(t)
  <2>1. UNCHANGED <<chain, jobs>>
    BY <1>1, <1>4
  <2>2. current' \in Store(finalTxs) /\ blockNumber' \in Int /\ blockNumber' <= head
    BY <1>2, <2>1 DEF store, current, LifecycleInv, Backed, LifecycleTypes, Blocks
  <2> QED
    BY <1>1, <1>2, <2>1, <2>2, ChainStays
<1> QED
  BY <1>3, <1>4

LEMMA PartnerKeeps ==
  ASSUME LifecycleInv, partnerTransacts
  PROVE  LifecycleInv'
<1>1. PICK t \in Tx : included(t) /\ UNCHANGED <<scenario, height, mempool, reorgs, store, phase, scan, jobs, restarts>>
  BY DEF partnerTransacts
<1> QED
  BY <1>1, IncludedKeeps DEF LifecycleInv, LifecycleTypes, scan

LEMMA NextBlockKeeps ==
  ASSUME LifecycleInv, nextBlock
  PROVE  LifecycleInv'
<1>1. height' = height + 1 /\ UNCHANGED <<scenario, chain, mempool, reorgs, store, jobs, response>>
  BY DEF nextBlock, scan
<1>2. height \in Nat /\ blockNumber \in Int /\ blockNumber <= height - 1
      /\ \A i \in DOMAIN chain : chain[i].block \in Nat /\ chain[i].block <= height
  BY LogTypes DEF LifecycleInv, LifecycleTypes, Blocks, head
<1>3. LifecycleTypes'
  BY <1>1, <1>2 DEF LifecycleInv, LifecycleTypes, store
<1>4. Blocks'
  BY <1>1, <1>2 DEF LifecycleInv, Blocks, head, store
<1>5. finalTxs \subseteq finalTxs'
  BY <1>1, <1>2, FinalGrows DEF LifecycleInv
<1>6. Answers'
  BY <1>1 DEF LifecycleInv, Answers
<1> QED
  BY <1>1, <1>3, <1>4, <1>5, <1>6, StoreStays DEF store

LEMMA ReorganiseKeeps ==
  ASSUME LifecycleInv, response = {}, reorganise
  PROVE  LifecycleInv'
<1>1. PICK h \in (head - confirmationBlocks + 2)..height :
     /\ chain' = SubSeq(chain, 1, logsBefore(h))
     /\ \E back \in SUBSET {txOf(chain[i]) : i \in {j \in DOMAIN chain : chain[j].block >= h}} :
          mempool' = mempool \cup back
     /\ reorgs' = reorgs + 1
     /\ UNCHANGED <<scenario, height, store, phase, scan, jobs, restarts>>
  BY DEF reorganise
<1> DEFINE n == logsBefore(h)
<1>2. height \in Nat /\ confirmationBlocks \in Nat /\ head \in Int
  BY BlocksAssumption DEF LifecycleInv, LifecycleTypes, head
<1>3. h \in Int /\ head - confirmationBlocks + 2 <= h
  BY <1>1, <1>2
<1>4. DOMAIN chain = 1..Len(chain) /\ Len(chain) \in Nat /\ n \in 0..Len(chain)
      /\ \A i \in 1..Len(chain) : chain[i] \in Log /\ chain[i].block \in Nat
  BY ChainLogs, LogsBefore, LogTypes DEF LifecycleInv
<1>5. chain' \in Seq(Log) /\ Len(chain') = n /\ \A i \in 1..n : chain'[i] = chain[i]
  <2>1. \A i \in 1..n : chain[i] \in Log
    BY <1>4
  <2>2. chain' = SubSeq(chain, 1, n)
    BY <1>1
  <2>3. 1 \in Int /\ n \in Int
    BY <1>4
  <2> HIDE DEF n
  <2>4. chain' \in Seq(Log) /\ Len(chain') = (IF 1 <= n THEN n - 1 + 1 ELSE 0)
        /\ \A i \in 1..(n - 1 + 1) : chain'[i] = chain[1 + i - 1]
    BY <2>1, <2>2, <2>3, SubSeqProperties
  <2>5. (IF 1 <= n THEN n - 1 + 1 ELSE 0) = n /\ n - 1 + 1 = n /\ \A i \in 1..n : 1 + i - 1 = i
    BY <1>4
  <2> QED
    BY <2>4, <2>5
<1>6. DOMAIN chain' = 1..n
  BY <1>5, LenProperties
<1>7. \A i \in DOMAIN chain : chain[i].block < h => i \in 1..n
  <2> TAKE i \in DOMAIN chain
  <2> HAVE chain[i].block < h
  <2>1. i <= n
    BY <1>3, LogsBeforeAreFirst DEF LifecycleInv
  <2> HIDE DEF n
  <2> QED
    BY <1>4, <2>1
<1> HIDE DEF n
<1>8. mempool' \in SUBSET Tx
  <2>1. \A i \in DOMAIN chain : txOf(chain[i]) \in Tx
    BY LogTypes DEF LifecycleInv
  <2> QED
    BY <1>1, <2>1 DEF LifecycleInv, LifecycleTypes
<1>9. LifecycleTypes'
  BY <1>1, <1>2, <1>5, <1>8 DEF LifecycleInv, LifecycleTypes, store
<1>10. Blocks'
  <2>1. \A i \in 1..n : i \in DOMAIN chain
    BY <1>4
  <2> QED
    BY <1>1, <1>5, <1>6, <2>1 DEF LifecycleInv, Blocks, head, store
<1>11. finalTxs \subseteq finalTxs'
  <2>1. \A i \in DOMAIN chain : chain[i].block <= head - confirmationBlocks + 1 => chain[i].block < h
    BY <1>2, <1>3, <1>4
  <2>2. height' \in Int /\ height' >= height
    BY <1>1, <1>2
  <2> QED
    BY <1>5, <1>6, <1>7, <2>1, <2>2, FinalGrows DEF LifecycleInv
<1>12. Answers'
  BY <1>1 DEF Answers, scan
<1> QED
  BY <1>1, <1>9, <1>10, <1>11, <1>12, StoreStays DEF store

-----------------------------------------------------------------------------
(***************************************************************************)
(* Steps of the client that follow the chain                               *)
(***************************************************************************)

LEMMA StartKeeps ==
  ASSUME LifecycleInv, startClient
  PROVE  LifecycleInv'
<1>1. blockNumber' = head /\ UNCHANGED <<chainVars, channel, oldChannels, pendingTxs, response, jobs>>
  BY DEF startClient
<1>2. head \in Int /\ mempool \in SUBSET Tx /\ current \in Store(finalTxs)
  BY DEF LifecycleInv, LifecycleTypes, Backed, head
<1> QED
  BY <1>1, <1>2, ChainStays DEF chainVars, current

LEMMA LogsKeep ==
  ASSUME LifecycleInv, NEW events \in Seq(Log), \A i \in DOMAIN events : \E j \in DOMAIN chain : events[i] = chain[j],
         become(afterLogs(current, events)), UNCHANGED <<chainVars, blockNumber>>,
         \A r \in response' : r \in response
  PROVE  LifecycleInv'
<1>1. \A i \in 1..Len(events) : isSound(events[i], finalTxs)
  <2>1. DOMAIN events = 1..Len(events)
    BY LenProperties
  <2> QED
    BY <2>1, LogsAreSound
<1>2. afterLogs(current, events) \in Store(finalTxs)
  BY <1>1, LogsAreHandled DEF LifecycleInv, Backed
<1>3. current' \in Store(finalTxs)
  BY <1>2, Becomes
<1>4. blockNumber \in Int /\ blockNumber <= head /\ mempool \in SUBSET Tx
  BY DEF LifecycleInv, LifecycleTypes, Blocks
<1> QED
  BY <1>3, <1>4, ChainStays DEF chainVars

LEMMA FetchPastKeeps ==
  ASSUME LifecycleInv, fetchPast
  PROVE  LifecycleInv'
<1>1. /\ become(afterLogs(current, getLogs(Head(blockQueue), blockNumber)))
      /\ UNCHANGED <<chainVars, blockNumber, response>>
  BY DEF fetchPast
<1> DEFINE events == getLogs(Head(blockQueue), blockNumber)
<1>2. events \in Seq(Log) /\ \A i \in DOMAIN events : \E j \in DOMAIN chain : events[i] = chain[j]
  BY GetLogs DEF LifecycleInv
<1> HIDE DEF events
<1>3. become(afterLogs(current, events))
  BY <1>1 DEF events
<1> QED
  BY <1>1, <1>2, <1>3, LogsKeep

LEMMA ReceiveLogsKeeps ==
  ASSUME LifecycleInv, receiveLogs
  PROVE  LifecycleInv'
<1>1. PICK r \in response :
     become(afterLogs(current, r.logs)) /\ response' = {} /\ UNCHANGED <<chainVars, blockNumber>>
  BY DEF receiveLogs
<1>2. r.logs \in Seq(Log) /\ \A i \in DOMAIN r.logs : \E j \in DOMAIN chain : r.logs[i] = chain[j]
  BY DEF LifecycleInv, Answers
<1> QED
  BY <1>1, <1>2, LogsKeep

LEMMA RequestLogsKeeps ==
  ASSUME LifecycleInv, requestLogs
  PROVE  LifecycleInv'
<1>1. /\ response' = {[to |-> blockNumber, logs |-> getLogs(Head(blockQueue), blockNumber)]}
      /\ UNCHANGED <<chainVars, store, jobs>>
  BY DEF requestLogs
<1> DEFINE events == getLogs(Head(blockQueue), blockNumber)
<1>2. events \in Seq(Log) /\ \A i \in DOMAIN events : \E j \in DOMAIN chain : events[i] = chain[j]
  BY GetLogs DEF LifecycleInv
<1>3. \A r \in response' : r.logs = events
  BY <1>1
<1> HIDE DEF events
<1>4. Answers'
  BY <1>1, <1>2, <1>3 DEF Answers, chainVars
<1>5. LifecycleTypes' /\ Blocks'
  BY <1>1 DEF LifecycleInv, LifecycleTypes, Blocks, head, chainVars, store
<1>6. finalTxs' = finalTxs /\ current' = current
  BY <1>1 DEF finalTxs, head, txOf, tx, current, chainVars, store
<1> QED
  BY <1>4, <1>5, <1>6 DEF LifecycleInv, Backed

LEMMA NewBlockKeeps ==
  ASSUME LifecycleInv, newBlock
  PROVE  LifecycleInv'
<1>1. /\ blockNumber' = head
      /\ jobs' = {j \in jobs : j.name # "awaitBlock"}
                  \cup {job("update", j.id, channel.received) :
                          j \in {x \in jobs : x.name = "awaitBlock" /\ mayUpdate(x)}}
      /\ UNCHANGED <<chainVars, channel, oldChannels, pendingTxs, response>>
  BY DEF newBlock, scan
<1>2. jobs' \in SUBSET Job
  <2>1. ASSUME NEW j \in jobs PROVE j \in Job /\ job("update", j.id, channel.received) \in Job
    <3>1. j \in Job /\ channel.received \in BalanceProof
      BY StoreTypes, ChannelTypes
    <3> QED
      BY <3>1 DEF job, Job
  <2> QED
    BY <1>1, <2>1
<1>3. current' \in Store(finalTxs)
  BY <1>1, <1>2, StoreTypes, ChannelMoves
<1>4. head \in Int /\ mempool \in SUBSET Tx
  BY DEF LifecycleInv, LifecycleTypes, head
<1> QED
  BY <1>1, <1>3, <1>4, ChainStays DEF chainVars

LEMMA ConfirmationKeeps ==
  ASSUME LifecycleInv, confirmation
  PROVE  LifecycleInv'
<1>1. PICK a \in pendingTxs :
     LET at == {i \in DOMAIN chain : txOf(chain[i]) = a.tx}
         deep == {i \in at : head - chain[i].block + 1 >= confirmationBlocks}
     IN /\ \/ \E i \in deep :
               become(dispatched(current, [a EXCEPT !.block = chain[i].block], "true"))
           \/ become(dispatched(current, a, "false"))
        /\ UNCHANGED <<chainVars, blockNumber, response>>
  BY DEF confirmation, scan
<1>2. isPending(a) /\ current \in Store(finalTxs)
  BY StoreTypes DEF LifecycleInv, Backed
<1>3. current' \in Store(finalTxs)
  <2>1. CASE become(dispatched(current, a, "false"))
    BY <1>2, <2>1, Dispatches, Becomes
  <2>2. ASSUME NEW i \in DOMAIN chain, txOf(chain[i]) = a.tx, head - chain[i].block + 1 >= confirmationBlocks,
               become(dispatched(current, [a EXCEPT !.block = chain[i].block], "true"))
        PROVE  current' \in Store(finalTxs)
    <3> DEFINE b == [a EXCEPT !.block = chain[i].block]
    <3>1. chain[i].block \in Nat /\ head \in Int /\ confirmationBlocks \in Int
      BY LogTypes, BlocksAssumption DEF LifecycleInv, LifecycleTypes, head
    <3>2. isPending(b) /\ b.tx = a.tx
      BY <1>2, <3>1 DEF isPending, Action
    <3>3. a.tx \in finalTxs
      <4>1. chain[i].block <= head - confirmationBlocks + 1
        BY <2>2, <3>1
      <4> QED
        BY <2>2, <4>1 DEF finalTxs
    <3> HIDE DEF b
    <3>4. dispatched(current, b, "true") \in Store(finalTxs)
      BY <1>2, <3>2, <3>3, Dispatches
    <3> QED
      BY <2>2, <3>4, Becomes DEF b
  <2> QED
    BY <1>1, <2>1, <2>2
<1>4. blockNumber \in Int /\ blockNumber <= head /\ mempool \in SUBSET Tx
  BY DEF LifecycleInv, LifecycleTypes, Blocks
<1> QED
  BY <1>1, <1>3, <1>4, ChainStays DEF chainVars

-----------------------------------------------------------------------------
(***************************************************************************)
(* Other steps of the client                                               *)
(***************************************************************************)

LEMMA JobTx ==
  ASSUME LifecycleTypes, NEW j \in Job, j.name # "awaitBlock"
  PROVE  txOfJob(j) \in Tx
<1>1. j.id \in Id /\ j.bp \in Amount /\ 0 \in Amount
  BY BlocksAssumption DEF Job, BalanceProof, Amount
<1>2. proof(j.id, "own") \in Amount /\ proof(j.id, "partner") \in Amount
  BY ProofTypes
<1>3. j.name \in {"open", "close", "update", "settle", "unlock"}
  BY DEF Job
<1>4. \A type \in {"opened", "closed", "updated", "settled", "unlocked"} : \A x, y \in Amount :
        tx(type, j.id, "own", x, y) \in Tx
  BY <1>1 DEF tx, Tx, Party
<1> QED
  BY <1>1, <1>2, <1>3, <1>4 DEF txOfJob

\* Only the channel, or the jobs, or the transactions that were sent
LEMMA ClientMoves ==
  ASSUME LifecycleInv, isChannel(channel'), channel'.id = channel.id, channel'.deposit = channel.deposit,
         channel'.closeParticipant = channel.closeParticipant, jobs' \in SUBSET Job, mempool' \in SUBSET Tx,
         UNCHANGED <<scenario, height, chain, reorgs, blockNumber, oldChannels, pendingTxs>>,
         \A r \in response' : r \in response
  PROVE  LifecycleInv'
<1>1. current' \in Store(finalTxs)
  BY ChannelMoves
<1>2. blockNumber \in Int /\ blockNumber <= head
  BY DEF LifecycleInv, LifecycleTypes, Blocks
<1> QED
  BY <1>1, <1>2, ChainStays

LEMMA TransactKeeps ==
  ASSUME LifecycleInv, transact
  PROVE  LifecycleInv'
<1>1. PICK j \in jobs :
     /\ j.name # "awaitBlock" /\ mempool' = mempool \cup {txOfJob(j)}
     /\ UNCHANGED <<scenario, height, chain, reorgs, store, response, jobs>>
  BY DEF transact, scan
<1>2. j \in Job /\ jobs \in SUBSET Job /\ isChannel(channel)
  BY StoreTypes
<1>3. mempool' \in SUBSET Tx
  BY <1>1, <1>2, JobTx DEF LifecycleInv, LifecycleTypes
<1> QED
  BY <1>1, <1>2, <1>3, ClientMoves DEF store

LEMMA GaveUpKeeps ==
  ASSUME LifecycleInv, gaveUp
  PROVE  LifecycleInv'
<1>1. jobs' \in SUBSET jobs /\ UNCHANGED <<chainVars, store, response>>
  BY DEF gaveUp, scan
<1>2. jobs \in SUBSET Job /\ isChannel(channel) /\ mempool \in SUBSET Tx
  BY StoreTypes DEF LifecycleInv, LifecycleTypes
<1> QED
  BY <1>1, <1>2, ClientMoves DEF store, chainVars

LEMMA OpenRequestKeeps ==
  ASSUME LifecycleInv, channelOpenRequest
  PROVE  LifecycleInv'
<1>1. PICK id \in Id : jobs' = jobs \cup {job("open", id, 0)} /\ UNCHANGED <<chainVars, store, response>>
  BY DEF channelOpenRequest, scan
<1>2. jobs \in SUBSET Job /\ isChannel(channel) /\ mempool \in SUBSET Tx
  BY StoreTypes DEF LifecycleInv, LifecycleTypes
<1>3. job("open", id, 0) \in Job
  BY BlocksAssumption DEF job, Job, BalanceProof
<1> QED
  BY <1>1, <1>2, <1>3, ClientMoves DEF store, chainVars

\* A channel in another state
LEMMA ChangesState ==
  ASSUME NEW c, isChannel(c), NEW state \in State, state # "none" => c.id \in Id
  PROVE  LET after == [c EXCEPT !.state = state]
         IN  isChannel(after) /\ after.id = c.id /\ after.deposit = c.deposit
             /\ after.closeParticipant = c.closeParticipant
  BY DEF isChannel, Channel

LEMMA CloseRequestKeeps ==
  ASSUME LifecycleInv, channelCloseRequest
  PROVE  LifecycleInv'
<1>1. /\ channel.state \in {"open", "closing"} /\ channel' = [channel EXCEPT !.state = "closing"]
      /\ jobs' = jobs \cup {job("close", channel.id, channel.received)}
      /\ UNCHANGED <<chainVars, blockNumber, oldChannels, pendingTxs, response>>
  BY DEF channelCloseRequest, scan
<1>2. jobs \in SUBSET Job /\ isChannel(channel) /\ mempool \in SUBSET Tx
  BY StoreTypes DEF LifecycleInv, LifecycleTypes
<1>3. channel.id \in Id /\ channel.received \in BalanceProof
  BY <1>1, <1>2, ChannelTypes DEF isChannel
<1>4. job("close", channel.id, channel.received) \in Job
  BY <1>3 DEF job, Job
<1>5. isChannel(channel') /\ channel'.id = channel.id /\ channel'.deposit = channel.deposit
      /\ channel'.closeParticipant = channel.closeParticipant
  BY <1>1, <1>2, <1>3, ChangesState DEF State
<1> QED
  BY <1>1, <1>2, <1>4, <1>5, ClientMoves DEF chainVars

LEMMA CloseFailureKeeps ==
  ASSUME LifecycleInv, channelCloseFailure
  PROVE  LifecycleInv'
<1>1. /\ jobs' \in SUBSET jobs
      /\ channel' = IF channel.state = "closing" THEN [channel EXCEPT !.state = "open"] ELSE channel
      /\ UNCHANGED <<chainVars, blockNumber, oldChannels, pendingTxs, response>>
  BY DEF channelCloseFailure, scan
<1>2. jobs \in SUBSET Job /\ isChannel(channel) /\ mempool \in SUBSET Tx
  BY StoreTypes DEF LifecycleInv, LifecycleTypes
<1>3. channel.state = "closing" => channel.id \in Id
  BY <1>2 DEF isChannel
<1>4. isChannel(channel') /\ channel'.id = channel.id /\ channel'.deposit = channel.deposit
      /\ channel'.closeParticipant = channel.closeParticipant
  BY <1>1, <1>2, <1>3, ChangesState DEF State
<1> QED
  BY <1>1, <1>2, <1>4, ClientMoves DEF chainVars

LEMMA SettleableKeeps ==
  ASSUME LifecycleInv, channelSettleable
  PROVE  LifecycleInv'
<1>1. /\ channel.state = "closed" /\ channel' = [channel EXCEPT !.state = "settleable"]
      /\ UNCHANGED <<chainVars, blockNumber, oldChannels, pendingTxs, response, jobs>>
  BY DEF channelSettleable, scan
<1>2. jobs \in SUBSET Job /\ isChannel(channel) /\ mempool \in SUBSET Tx
  BY StoreTypes DEF LifecycleInv, LifecycleTypes
<1>3. channel.id \in Id
  BY <1>1, <1>2 DEF isChannel
<1>4. isChannel(channel') /\ channel'.id = channel.id /\ channel'.deposit = channel.deposit
      /\ channel'.closeParticipant = channel.closeParticipant
  BY <1>1, <1>2, <1>3, ChangesState DEF State
<1> QED
  BY <1>1, <1>2, <1>4, ClientMoves DEF chainVars

LEMMA SettleRequestKeeps ==
  ASSUME LifecycleInv, settleChannel \/ channelAutoSettle
  PROVE  LifecycleInv'
<1>1. /\ channel.state \in {"settleable", "settling"} /\ channel' = [channel EXCEPT !.state = "settling"]
      /\ jobs' = jobs \cup {job("settle", channel.id, 0)}
      /\ UNCHANGED <<chainVars, blockNumber, oldChannels, pendingTxs, response>>
  BY DEF settleChannel, channelAutoSettle, channelSettleRequest, scan
<1>2. jobs \in SUBSET Job /\ isChannel(channel) /\ mempool \in SUBSET Tx
  BY StoreTypes DEF LifecycleInv, LifecycleTypes
<1>3. channel.id \in Id
  BY <1>1, <1>2 DEF isChannel
<1>4. job("settle", channel.id, 0) \in Job
  BY <1>3, BlocksAssumption DEF job, Job, BalanceProof
<1>5. isChannel(channel') /\ channel'.id = channel.id /\ channel'.deposit = channel.deposit
      /\ channel'.closeParticipant = channel.closeParticipant
  BY <1>1, <1>2, <1>3, ChangesState DEF State
<1> QED
  BY <1>1, <1>2, <1>4, <1>5, ClientMoves DEF chainVars

LEMMA CooperativeSettleKeeps ==
  ASSUME LifecycleInv, cooperativeSettle
  PROVE  LifecycleInv'
<1> DEFINE t == tx("coopSettled", channel.id, "own", channel.deposit["own"], channel.deposit["partner"])
<1>1. /\ channel.state = "open" /\ mempool' = mempool \cup {t}
      /\ UNCHANGED <<scenario, height, chain, reorgs, store, response, jobs>>
  BY DEF cooperativeSettle, scan
<1>2. jobs \in SUBSET Job /\ isChannel(channel) /\ mempool \in SUBSET Tx
  BY StoreTypes DEF LifecycleInv, LifecycleTypes
<1>3. t \in Tx
  <2>1. channel.id \in Id /\ channel.deposit["own"] \in Amount /\ channel.deposit["partner"] \in Amount
    BY <1>1, <1>2, ChannelTypes DEF isChannel, Party
  <2> QED
    BY <2>1 DEF tx, Tx, Party
<1> QED
  BY <1>1, <1>2, <1>3, ClientMoves DEF store

LEMMA TransferKeeps ==
  ASSUME LifecycleInv, transfer
  PROVE  LifecycleInv'
<1>1. /\ channel.state = "open"
      /\ \/ channel.sent < scenario.transfers /\ channel' = [channel EXCEPT !.sent = @ + 1]
         \/ channel.received < scenario.transfers /\ channel' = [channel EXCEPT !.received = @ + 1]
      /\ UNCHANGED <<chainVars, blockNumber, oldChannels, pendingTxs, response, jobs>>
  BY DEF transfer, scan
<1>2. jobs \in SUBSET Job /\ isChannel(channel) /\ mempool \in SUBSET Tx
  BY StoreTypes DEF LifecycleInv, LifecycleTypes
<1>3. scenario.transfers \in 0..MaxTransfers /\ MaxTransfers \in Nat
  BY BlocksAssumption DEF LifecycleInv, LifecycleTypes, Scenario
<1>4. channel.sent \in 0..MaxTransfers /\ channel.received \in 0..MaxTransfers
  BY <1>2, ChannelTypes DEF BalanceProof
<1>5. isChannel(channel') /\ channel'.id = channel.id /\ channel'.deposit = channel.deposit
      /\ channel'.closeParticipant = channel.closeParticipant
  BY <1>1, <1>2, <1>3, <1>4 DEF isChannel, Channel, BalanceProof
<1> QED
  BY <1>1, <1>2, <1>5, ClientMoves DEF chainVars

LEMMA IgnoredKeeps ==
  ASSUME LifecycleInv, messageIgnored
  PROVE  LifecycleInv'
<1>1. /\ channel' = [channel EXCEPT !.unstored = TRUE]
      /\ UNCHANGED <<chainVars, blockNumber, oldChannels, pendingTxs, response, jobs>>
  BY DEF messageIgnored, scan
<1>2. jobs \in SUBSET Job /\ isChannel(channel) /\ mempool \in SUBSET Tx
  BY StoreTypes DEF LifecycleInv, LifecycleTypes
<1>3. isChannel(channel') /\ channel'.id = channel.id /\ channel'.deposit = channel.deposit
      /\ channel'.closeParticipant = channel.closeParticipant
  BY <1>1, <1>2 DEF isChannel, Channel
<1> QED
  BY <1>1, <1>2, <1>3, ClientMoves DEF chainVars

LEMMA RestartKeeps ==
  ASSUME LifecycleInv, restart
  PROVE  LifecycleInv'
<1>1. response' = {} /\ jobs' = {} /\ UNCHANGED <<chainVars, store>>
  BY DEF restart
<1>2. isChannel(channel) /\ mempool \in SUBSET Tx
  BY StoreTypes DEF LifecycleInv, LifecycleTypes
<1> QED
  BY <1>1, <1>2, ClientMoves DEF chainVars, store

LEMMA StutterKeeps ==
  ASSUME LifecycleInv, UNCHANGED lifecycleVars
  PROVE  LifecycleInv'
<1>1. isChannel(channel) /\ mempool \in SUBSET Tx /\ jobs \in SUBSET Job
  BY StoreTypes DEF LifecycleInv, LifecycleTypes
<1> QED
  BY <1>1, ClientMoves DEF lifecycleVars, chainVars, store, scan

-----------------------------------------------------------------------------
(***************************************************************************)
(* The theorem                                                             *)
(***************************************************************************)

\* No block is replaced between an eth_getLogs and its answer
Undisturbed == \A s \in Scenarios : s.mayLag => s.reorgs = 0

LEMMA LifecycleInitInv ==
  ASSUME LifecycleInit
  PROVE  LifecycleInv
<1>1. /\ scenario \in Scenarios /\ height = 2 /\ chain = <<>> /\ mempool = {} /\ reorgs = 0 /\ blockNumber = 1
      /\ channel = NoChannel /\ oldChannels = {} /\ pendingTxs = {} /\ response = {} /\ jobs = {}
  BY DEF LifecycleInit
<1>2. chain \in Seq(Log) /\ DOMAIN chain = {}
  <2>1. chain \in Seq(Log) /\ Len(chain) = 0
    BY <1>1, EmptySeq
  <2> QED
    BY <2>1, LenProperties
<1>3. LifecycleTypes /\ Blocks /\ Answers
  BY <1>1, <1>2 DEF LifecycleTypes, Blocks, Answers, head
<1>4. isBacked(channel, oldChannels, finalTxs)
  BY <1>1, NoChannelIsFine DEF isBacked
<1>5. isChannel(channel) /\ channel \in Channel
  BY <1>1, NoChannelIsFine DEF isChannel
<1> QED
  BY <1>1, <1>3, <1>4, <1>5 DEF LifecycleInv, Backed, current, Store

LEMMA LifecycleNextInv ==
  ASSUME LifecycleInv, Undisturbed, [LifecycleNext]_lifecycleVars
  PROVE  LifecycleInv'
<1>1. CASE receiveLogs
  BY <1>1, ReceiveLogsKeeps
<1>2. CASE (response # {} => scenario.mayLag) /\ Environment
  <2>1. CASE mine \/ partnerTransacts \/ nextBlock
    BY <2>1, MineKeeps, PartnerKeeps, NextBlockKeeps
  <2>2. CASE reorganise
    <3>1. scenario \in Scenarios /\ reorgs \in Nat /\ reorgs < scenario.reorgs
      BY <2>2 DEF LifecycleInv, LifecycleTypes, reorganise
    <3>2. ~(scenario.reorgs = 0)
      BY <3>1
    <3>3. response = {}
      BY <1>2, <3>1, <3>2 DEF Undisturbed
    <3> QED
      BY <2>2, <3>3, ReorganiseKeeps
  <2> QED
    BY <1>2, <2>1, <2>2 DEF Environment
<1>3. CASE Client
  BY <1>3, StartKeeps, FetchPastKeeps, NewBlockKeeps, RequestLogsKeeps, ConfirmationKeeps, TransactKeeps,
     GaveUpKeeps, OpenRequestKeeps, CloseRequestKeeps, CloseFailureKeeps, SettleableKeeps,
     SettleRequestKeeps, CooperativeSettleKeeps, TransferKeeps, IgnoredKeeps, RestartKeeps DEF Client
<1>4. CASE UNCHANGED lifecycleVars
  BY <1>4, StutterKeeps
<1> QED
  BY <1>1, <1>2, <1>3, <1>4 DEF LifecycleNext

LEMMA InvIsEnough ==
  ASSUME LifecycleInv
  PROVE  ConfirmedIsFinal
<1>1. isBacked(channel, oldChannels, finalTxs)
  BY DEF LifecycleInv, Backed, current, Store
<1>2. ASSUME NEW t \in finalTxs
      PROVE  t.args[1] \in onChain(t.type, t.id, t.who) /\ t.args[1] \in onChain(t.type, t.id, "any")
  <2>1. PICK i \in DOMAIN chain : chain[i].block <= head - confirmationBlocks + 1 /\ t = txOf(chain[i])
    BY DEF finalTxs
  <2>2. chain[i] \in Log
    BY ChainLogs DEF LifecycleInv
  <2>3. t.type = chain[i].type /\ t.id = chain[i].id /\ t.who = chain[i].who /\ t.args = chain[i].args
    BY <2>1, <2>2, TxOfLog
  <2> QED
    BY <2>1, <2>3 DEF onChain, logs
<1>3. channel.id # 0 => onChain("opened", channel.id, "any") # {}
  BY <1>1, <1>2 DEF isBacked
<1>4. \A p \in Party : channel.deposit[p] # 0 => channel.deposit[p] \in onChain("deposit", channel.id, p)
  <2> TAKE p \in Party
  <2> HAVE channel.deposit[p] # 0
  <2>1. PICK t \in finalTxs : t.type = "deposit" /\ t.id = channel.id /\ t.who = p /\ t.args[1] = channel.deposit[p]
    BY <1>1 DEF isBacked
  <2> QED
    BY <1>2, <2>1
<1>5. channel.closeParticipant # "nobody" => onChain("closed", channel.id, channel.closeParticipant) # {}
  BY <1>1, <1>2 DEF isBacked
<1>6. \A id \in oldChannels : onChain("settled", id, "any") \cup onChain("coopSettled", id, "any") # {}
  <2> TAKE id \in oldChannels
  <2>1. PICK t \in finalTxs : t.type \in {"settled", "coopSettled"} /\ t.id = id
    BY <1>1 DEF isBacked
  <2> QED
    BY <1>2, <2>1
<1> QED
  BY <1>3, <1>4, <1>5, <1>6 DEF ConfirmedIsFinal

\* The inductive invariant always holds, as long as no block is replaced between an
\* eth_getLogs and its answer.
THEOREM LifecycleInvariant == ASSUME Undisturbed PROVE LifecycleSpec => []LifecycleInv
<1>1. LifecycleInit => LifecycleInv
  BY LifecycleInitInv
<1>2. LifecycleInv /\ [LifecycleNext]_lifecycleVars => LifecycleInv'
  BY LifecycleNextInv
<1> QED
  BY <1>1, <1>2, PTL DEF LifecycleSpec

\* Whatever the client takes for confirmed stays on the chain, for any number of
\* channels, confirmations, reorganisations and restarts (channels/epics/block.ts,
\* monitor.ts).
THEOREM ConfirmedStays == ASSUME Undisturbed PROVE LifecycleSpec => []ConfirmedIsFinal
<1>1. LifecycleInv => ConfirmedIsFinal
  BY InvIsEnough
<1> QED
  BY <1>1, LifecycleInvariant, PTL
=============================================================================
