-------------------------- MODULE MonitoringProofs --------------------------
(***************************************************************************)
(* What the user is told of deposits, and which reports of a channel are   *)
(* asked for: proofs about UserDeposit and Monitoring.                     *)
(***************************************************************************)
EXTENDS Monitoring, SequenceTheorems, TLAPS

-----------------------------------------------------------------------------
(***************************************************************************)
(* Deposits                                                                *)
(***************************************************************************)

Depth == confirmationBlocks + 1
Contract == [balance : Int, total : Nat, plan : Int, due : Int]
Outcome == {"pending", "outdated", "confirmed", "stopped"}
Pending == [is : {"deposit", "withdraw"}, total : Nat, balance : Int, age : 0..Depth]

\* The contract of the last blocks: the total deposit never goes down
Growing == \A i, j \in 1..Depth : i <= j => recent[i].total <= recent[j].total

\* A deposit that is sent is the first of the queue, and still is one
Sendable == depositStage = "sent" => queue # <<>> /\ first.total > contract.total

\* A mined deposit is in the block it was mined in and all later ones
Mined ==
  \A x \in confirming : x.is = "deposit" =>
     \A i \in 1..Depth : i >= Depth - x.age => recent[i].total >= x.total

DepositTypes ==
  /\ left \in Scenario
  /\ recent \in Seq(Contract) /\ Len(recent) = Depth
  /\ latest \in [balance : Int, total : Nat]
  /\ requests \in Seq([deposit : Nat, total : Nat, outcome : Outcome])
  /\ queue \in Seq(DOMAIN requests)
  /\ depositStage \in {"check", "sent"} /\ finalBalance \in Int
  /\ planning \in Int /\ withdrawing \in Int /\ before \in Int /\ nextCheck \in Int
  /\ confirming \subseteq Pending

DepositInv == DepositTypes /\ Growing /\ Sendable /\ Mined /\ SuccessIsDeposited

LEMMA DepthType == confirmationBlocks \in Nat /\ Depth \in Nat /\ Depth >= 1
BY UserDepositAssumption DEF Depth

\* The block before the first one is forgotten
LEMMA NextBlock ==
  ASSUME DepositTypes, Growing, NEW d \in Contract, contract.total <= d.total,
         recent' = Append(Tail(recent), d)
  PROVE  /\ recent' \in Seq(Contract) /\ Len(recent') = Depth /\ Growing' /\ contract' = d
         /\ \A i \in 1..Depth : recent[i].total <= recent'[i].total
         /\ \A i \in 1..(Depth - 1) : recent'[i] = recent[i + 1]
         /\ recent'[Depth] = d
<1>1. /\ recent \in Seq(Contract) /\ Len(recent) = Depth /\ Depth \in Nat /\ Depth >= 1
      /\ recent # <<>>
  BY DepthType DEF DepositTypes
<1>2. /\ Tail(recent) \in Seq(Contract) /\ Len(Tail(recent)) = Depth - 1
      /\ \A i \in 1..(Depth - 1) : Tail(recent)[i] = recent[i + 1]
  BY <1>1
<1>3. /\ recent' \in Seq(Contract) /\ Len(recent') = Depth /\ recent'[Depth] = d
      /\ \A i \in 1..(Depth - 1) : recent'[i] = recent[i + 1]
  BY <1>1, <1>2
<1>4. contract' = d /\ contract = recent[Depth]
  BY <1>1, <1>3 DEF contract, Last
<1>5. \A i \in 1..Depth : recent[i].total \in Nat /\ recent'[i].total \in Nat
  <2>1. \A i \in 1..Depth : recent[i] \in Contract /\ recent'[i] \in Contract
    BY <1>1, <1>3
  <2> QED
    BY <2>1 DEF Contract
<1>6. \A i \in 1..Depth : recent[i].total <= d.total
  <2> TAKE i \in 1..Depth
  <2>1. i <= Depth /\ Depth \in 1..Depth
    BY <1>1
  <2>2. recent[i].total <= recent[Depth].total
    BY <2>1 DEF Growing
  <2>3. recent[Depth].total <= d.total
    BY <1>4
  <2>4. d.total \in Nat /\ recent[i].total \in Nat /\ recent[Depth].total \in Nat
    BY <1>5, <2>1 DEF Contract
  <2> QED
    BY <2>2, <2>3, <2>4
<1>7. ASSUME NEW i \in 1..Depth, NEW j \in 1..Depth, i <= j
      PROVE  recent'[i].total <= recent'[j].total
  <2>1. CASE j = Depth
    <3>1. CASE i = Depth
      <4>1. \A n \in Nat : n <= n
        OBVIOUS
      <4>2. recent'[i].total \in Nat /\ i = j
        BY <1>5, <2>1, <3>1
      <4> QED
        BY <4>1, <4>2, Zenon
    <3>2. CASE i # Depth
      BY <1>1, <1>3, <1>6, <2>1, <3>2
    <3> QED
      BY <3>1, <3>2
  <2>2. CASE j # Depth
    <3>1. /\ i \in 1..(Depth - 1) /\ j \in 1..(Depth - 1) /\ i + 1 \in 1..Depth /\ j + 1 \in 1..Depth
          /\ i + 1 <= j + 1
      BY <1>1, <1>7, <2>2
    <3> QED
      BY <1>3, <3>1 DEF Growing
  <2> QED
    BY <2>1, <2>2
<1>8. ASSUME NEW i \in 1..Depth
      PROVE  recent[i].total <= recent'[i].total
  <2>1. CASE i = Depth
    BY <1>3, <1>6, <2>1
  <2>2. CASE i # Depth
    <3>1. i \in 1..(Depth - 1) /\ i + 1 \in 1..Depth /\ i <= i + 1
      BY <1>1, <2>2
    <3> QED
      BY <1>3, <3>1 DEF Growing
  <2> QED
    BY <2>1, <2>2
<1> QED
  BY <1>3, <1>4, <1>7, <1>8 DEF Growing

\* Deposits that were mined before stay mined, and so do new ones
LEMMA BlockKeeps ==
  ASSUME DepositTypes, Growing, Mined, NEW c \in Contract, contract.total <= c.total,
         NEW mined \in SUBSET Pending, \A x \in mined : x.age = 0 /\ x.total <= c.total, block(c, mined)
  PROVE  /\ recent' \in Seq(Contract) /\ Len(recent') = Depth /\ Growing'
         /\ contract'.total = c.total
         /\ \A i \in 1..Depth : recent[i].total <= recent'[i].total
         /\ confirming' \subseteq Pending /\ Mined' /\ nextCheck' \in Int
<1> DEFINE d == [c EXCEPT !.due = IF c.due = 0 THEN 0 ELSE c.due - 1]
           older(x) == [x EXCEPT !.age = min(x.age, confirmationBlocks) + 1]
<1>1. d \in Contract /\ d.total = c.total
  BY DEF Contract
<1>2. recent' = Append(Tail(recent), d)
  BY DEF block
<1> HIDE DEF d
<1>3. /\ recent' \in Seq(Contract) /\ Len(recent') = Depth /\ Growing' /\ contract' = d
      /\ \A i \in 1..Depth : recent[i].total <= recent'[i].total
      /\ \A i \in 1..(Depth - 1) : recent'[i] = recent[i + 1]
      /\ recent'[Depth] = d
  BY <1>1, <1>2, NextBlock
<1>4. confirming' = {older(x) : x \in confirming} \cup mined
  BY DEF block
<1>5. ASSUME NEW x \in confirming
      PROVE  /\ older(x) \in Pending /\ older(x).is = x.is /\ older(x).total = x.total
             /\ older(x).age <= x.age + 1
  <2>1. x \in Pending
    BY DEF DepositTypes
  <2>2. x.age \in Int /\ 0 <= x.age
    BY <2>1, DepthType DEF Pending
  <2> DEFINE a == min(x.age, confirmationBlocks) + 1
  <2>3. a \in 0..Depth /\ a <= x.age + 1
    BY <2>2, DepthType DEF min, Depth
  <2> HIDE DEF a
  <2>4. LET y == [x EXCEPT !.age = a]
        IN y \in Pending /\ y.is = x.is /\ y.total = x.total /\ y.age = a
    BY <2>1, <2>3 DEF Pending
  <2> QED
    BY <2>3, <2>4 DEF a
<1>6. confirming' \subseteq Pending
  BY <1>4, <1>5
<1>7. Mined'
  <2> SUFFICES ASSUME NEW y \in confirming', y.is = "deposit", NEW i \in 1..Depth, i >= Depth - y.age
               PROVE  recent'[i].total >= y.total
    BY DEF Mined
  <2>1. CASE y \in mined
    BY <1>1, <1>3, <2>1, DepthType DEF Pending
  <2>2. ASSUME NEW x \in confirming, y = older(x) PROVE recent'[i].total >= y.total
    <3>1. x.is = "deposit" /\ y.total = x.total /\ y.age <= x.age + 1 /\ x.age \in Int /\ y.age \in Int
          /\ x.total \in Nat
      BY <1>5, <2>2 DEF DepositTypes, Pending
    <3> HIDE DEF older
    <3>2. CASE i = Depth
      <4>1. Depth >= Depth - x.age
        BY DepthType DEF DepositTypes, Pending
      <4>2. recent[i].total >= x.total
        BY <3>1, <3>2, <4>1, DepthType DEF Mined
      <4>3. recent[i].total \in Nat /\ recent'[i].total \in Nat
        <5>1. recent[i] \in Contract /\ recent'[i] \in Contract
          BY <1>3 DEF DepositTypes
        <5> QED
          BY <5>1 DEF Contract
      <4> QED
        BY <1>3, <3>1, <4>2, <4>3
    <3>3. CASE i # Depth
      <4>1. i \in 1..(Depth - 1) /\ i + 1 \in 1..Depth /\ i + 1 >= Depth - x.age
        BY <3>1, <3>3, DepthType
      <4> QED
        BY <1>3, <3>1, <4>1 DEF Mined
    <3> QED
      BY <3>2, <3>3
  <2> QED
    BY <1>4, <2>1, <2>2
<1>8. nextCheck' \in Int
  BY DEF block, DepositTypes
<1> QED
  BY <1>1, <1>3, <1>6, <1>7, <1>8

\* Who is answered
LEMMA AnswerIs ==
  ASSUME DepositTypes, NEW total \in Nat, NEW outcome \in Outcome
  PROVE  /\ answer(total, outcome) \in Seq([deposit : Nat, total : Nat, outcome : Outcome])
         /\ DOMAIN answer(total, outcome) = DOMAIN requests
         /\ \A i \in DOMAIN requests :
               /\ answer(total, outcome)[i].total = requests[i].total
               /\ \/ answer(total, outcome)[i].outcome = requests[i].outcome
                  \/ answer(total, outcome)[i].outcome = outcome /\ requests[i].total = total
<1> DEFINE R == [deposit : Nat, total : Nat, outcome : Outcome]
           a == answer(total, outcome)
<1>1. requests \in Seq(R) /\ \A i \in DOMAIN requests : requests[i] \in R
  <2>1. requests \in Seq(R)
    BY DEF DepositTypes
  <2> HIDE DEF R
  <2> QED
    BY <2>1
<1>2. \A r \in R : /\ [r EXCEPT !.outcome = outcome] \in R
                   /\ [r EXCEPT !.outcome = outcome].total = r.total
                   /\ [r EXCEPT !.outcome = outcome].outcome = outcome
  OBVIOUS
<1>3. /\ a = [i \in DOMAIN requests |->
                IF requests[i].total = total /\ requests[i].outcome = "pending"
                THEN [requests[i] EXCEPT !.outcome = outcome] ELSE requests[i]]
  BY DEF answer
<1> HIDE DEF a
<1>4. DOMAIN a = 1..Len(requests) /\ Len(requests) \in Nat /\ DOMAIN requests = 1..Len(requests)
  BY <1>1, <1>3
<1>5. \A i \in 1..Len(requests) : a[i] \in R
  BY <1>1, <1>2, <1>3, <1>4
<1>6. a \in Seq(R)
  BY <1>3, <1>4, <1>5
<1>7. \A i \in DOMAIN requests :
         /\ a[i].total = requests[i].total
         /\ a[i].outcome = requests[i].outcome \/ (a[i].outcome = outcome /\ requests[i].total = total)
  BY <1>1, <1>2, <1>3
<1> QED
  BY <1>3, <1>6, <1>7 DEF a

Answers(requested) ==
  /\ requested \in Seq([deposit : Nat, total : Nat, outcome : Outcome])
  /\ DOMAIN requested = DOMAIN requests
  /\ \A i \in DOMAIN requests :
        /\ requested[i].total = requests[i].total
        /\ requested[i].outcome = "confirmed" =>
             \/ requests[i].outcome = "confirmed"
             \/ \A k \in 1..Depth : recent[k].total >= requests[i].total

LEMMA ContractIs ==
  ASSUME DepositTypes
  PROVE  /\ contract \in Contract /\ contract = recent[Depth] /\ contract.total \in Nat
         /\ Head(recent) = recent[1] /\ 1 \in 1..Depth
         /\ \A i \in 1..Depth : recent[i] \in Contract /\ recent[i].total \in Nat
<1>1. recent \in Seq(Contract) /\ Len(recent) = Depth /\ Depth \in Nat /\ Depth >= 1 /\ recent # <<>>
  BY DepthType DEF DepositTypes
<1>2. \A i \in 1..Depth : recent[i] \in Contract
  BY <1>1
<1>3. \A d \in Contract : d.total \in Nat
  BY DEF Contract
<1>4. contract = recent[Depth] /\ Head(recent) = recent[1]
  BY <1>1 DEF contract, Last
<1> QED
  BY <1>1, <1>2, <1>3, <1>4

\* Where answers are given, and blocks aren't
LEMMA AnsweredInv ==
  ASSUME DepositInv, Answers(requests'), recent' = recent,
         \A x \in confirming' : x \in confirming \/ (x \in Pending /\ x.is = "withdraw"),
         left' \in Scenario, latest' \in [balance : Int, total : Nat],
         queue' \in Seq(DOMAIN requests), depositStage' = "check" \/ (depositStage' = "sent" /\ queue' # <<>>
           /\ requests'[Head(queue')].total > contract.total),
         finalBalance' \in Int, planning' \in Int, withdrawing' \in Int, before' \in Int, nextCheck' \in Int
  PROVE  DepositInv'
<1> USE DEF DepositInv
<1>1. DepositTypes'
  BY DEF DepositTypes, Answers
<1>2. Growing' /\ Mined'
  BY DEF Growing, Mined
<1>3. Sendable'
  BY DEF Sendable, first, contract
<1>4. SuccessIsDeposited'
  <2> SUFFICES ASSUME NEW i \in DOMAIN requests, requests'[i].outcome = "confirmed"
               PROVE  Head(recent).total >= requests'[i].total
    BY DEF SuccessIsDeposited, Answers
  <2>1. CASE requests[i].outcome = "confirmed"
    BY <2>1 DEF SuccessIsDeposited, Answers
  <2>2. CASE \A k \in 1..Depth : recent[k].total >= requests[i].total
    BY <2>2, ContractIs DEF Answers
  <2> QED
    BY <2>1, <2>2 DEF Answers
<1> QED
  BY <1>1, <1>2, <1>3, <1>4

\* The same while a block is made
LEMMA BlockInv ==
  ASSUME DepositInv, NEW c \in Contract, contract.total <= c.total,
         NEW mined \in SUBSET Pending, \A x \in mined : x.age = 0 /\ x.total <= c.total, block(c, mined),
         left' \in Scenario, latest' = readContract(recent'[1]) \/ latest' = latest,
         requests' = requests, queue' \in Seq(DOMAIN requests),
         depositStage' = "check" \/ (depositStage' = depositStage /\ queue' = queue /\ c.total = contract.total),
         finalBalance' \in Int, planning' \in Int, withdrawing' \in Int, before' \in Int
  PROVE  DepositInv'
<1> USE DEF DepositInv
<1>1. /\ recent' \in Seq(Contract) /\ Len(recent') = Depth /\ Growing'
      /\ contract'.total = c.total
      /\ \A i \in 1..Depth : recent[i].total <= recent'[i].total
      /\ confirming' \subseteq Pending /\ Mined' /\ nextCheck' \in Int
  BY BlockKeeps
<1>2. Depth \in Nat /\ Depth >= 1 /\ 1 \in 1..Depth /\ recent'[1] \in Contract /\ Head(recent') = recent'[1]
  <2>1. Depth \in Nat /\ Depth >= 1
    BY DepthType
  <2>2. recent' # <<>>
    BY <1>1, <2>1
  <2> QED
    BY <1>1, <2>1, <2>2
<1>3. latest' \in [balance : Int, total : Nat]
  <2>1. latest \in [balance : Int, total : Nat]
    BY DEF DepositTypes
  <2>2. effective(recent'[1]) \in Int /\ recent'[1].total \in Nat
    BY <1>2 DEF effective, Contract
  <2>3. readContract(recent'[1]) \in [balance : Int, total : Nat]
    BY <2>1, <2>2 DEF readContract, know
  <2> QED
    BY <2>1, <2>3
<1>4. DepositTypes'
  BY <1>1, <1>3 DEF DepositTypes
<1>5. Sendable'
  <2> SUFFICES ASSUME depositStage' = "sent"
               PROVE  queue' # <<>> /\ requests'[Head(queue')].total > contract'.total
    BY DEF Sendable, first
  <2> QED
    BY <1>1 DEF Sendable, first
<1>6. SuccessIsDeposited'
  <2> SUFFICES ASSUME NEW i \in DOMAIN requests, requests[i].outcome = "confirmed"
               PROVE  recent'[1].total >= requests[i].total
    BY <1>2 DEF SuccessIsDeposited
  <2>1. recent[1].total >= requests[i].total
    BY ContractIs DEF SuccessIsDeposited
  <2>2. recent[1].total <= recent'[1].total
    BY <1>1, <1>2
  <2>3. requests[i].total \in Nat /\ recent[1].total \in Nat /\ recent'[1].total \in Nat
    <3> DEFINE R == [deposit : Nat, total : Nat, outcome : Outcome]
    <3>1. requests \in Seq(R)
      BY DEF DepositTypes
    <3> HIDE DEF R
    <3>3. requests[i] \in R
      BY <3>1
    <3>2. requests[i].total \in Nat
      BY <3>3 DEF R
    <3> QED
      BY <1>2, <3>2, ContractIs DEF Contract
  <2> QED
    BY <2>1, <2>2, <2>3
<1> QED
  BY <1>1, <1>4, <1>5, <1>6

LEMMA RequestsAre ==
  ASSUME DepositTypes
  PROVE  /\ DOMAIN requests = 1..Len(requests) /\ Len(requests) \in Nat
         /\ \A i \in DOMAIN requests :
               /\ requests[i] \in [deposit : Nat, total : Nat, outcome : Outcome]
               /\ requests[i].total \in Nat /\ requests[i].deposit \in Nat
         /\ queue # <<>> =>
               /\ Head(queue) \in DOMAIN requests /\ Tail(queue) \in Seq(DOMAIN requests)
               /\ first.total \in Nat /\ first.deposit \in Nat
<1> DEFINE R == [deposit : Nat, total : Nat, outcome : Outcome]
           D == DOMAIN requests
<1>1. requests \in Seq(R) /\ queue \in Seq(D)
  BY DEF DepositTypes
<1> HIDE DEF R
<1>2. \A i \in D : requests[i] \in R
  BY <1>1
<1>3. D = 1..Len(requests) /\ Len(requests) \in Nat
  BY <1>1
<1> HIDE DEF D
<1>4. queue # <<>> => Head(queue) \in D /\ Tail(queue) \in Seq(D)
  BY <1>1
<1>5. \A r \in R : r.total \in Nat /\ r.deposit \in Nat
  BY DEF R
<1> QED
  BY <1>2, <1>3, <1>4, <1>5 DEF D, R, first

\* Answers that aren't "confirmed" are always right
LEMMA AnswersAre ==
  ASSUME DepositTypes, NEW total \in Nat, NEW outcome \in Outcome,
         outcome = "confirmed" => \A k \in 1..Depth : recent[k].total >= total
  PROVE  Answers(answer(total, outcome))
BY AnswerIs DEF Answers

LEMMA SameAnswers ==
  ASSUME DepositTypes
  PROVE  Answers(requests)
BY DEF Answers, DepositTypes

\* What the scenario has left
LEMMA LeftIs ==
  ASSUME NEW s \in Scenario
  PROVE  /\ s.deposits \in Seq(Nat) /\ s.plans \in Nat /\ s.claims \in Nat /\ s.failures \in Nat
         /\ s.restarts \in Nat /\ s.transfers \in Nat /\ s.losses \in Nat
         /\ \A n \in Nat :
               /\ [s EXCEPT !.plans = n] \in Scenario /\ [s EXCEPT !.claims = n] \in Scenario
               /\ [s EXCEPT !.failures = n] \in Scenario /\ [s EXCEPT !.restarts = n] \in Scenario
               /\ [s EXCEPT !.transfers = n] \in Scenario /\ [s EXCEPT !.losses = n] \in Scenario
         /\ \A d \in Seq(Nat) : [s EXCEPT !.deposits = d] \in Scenario
<1> DEFINE Q == Seq(Nat)
           R == SUBSET {"ms", "pfs"}
<1>1. Scenario = [deposits : Q, plans : Nat, claims : Nat, failures : Nat, restarts : Nat, transfers : Nat,
                  losses : Nat, reporters : R]
  BY DEF Scenario
<1> HIDE DEF Q, R
<1>2. /\ s.deposits \in Q /\ s.plans \in Nat /\ s.claims \in Nat /\ s.failures \in Nat
      /\ s.restarts \in Nat /\ s.transfers \in Nat /\ s.losses \in Nat
      /\ \A n \in Nat :
            /\ [s EXCEPT !.plans = n] \in Scenario /\ [s EXCEPT !.claims = n] \in Scenario
            /\ [s EXCEPT !.failures = n] \in Scenario /\ [s EXCEPT !.restarts = n] \in Scenario
            /\ [s EXCEPT !.transfers = n] \in Scenario /\ [s EXCEPT !.losses = n] \in Scenario
      /\ \A d \in Q : [s EXCEPT !.deposits = d] \in Scenario
  BY <1>1
<1> QED
  BY <1>2 DEF Q

LEMMA DepositsKeep ==
  ASSUME DepositInv, depositToUDC \/ refuseDeposit \/ sendDeposit
  PROVE  DepositInv'
<1> USE DEF DepositInv
<1>1. ASSUME depositToUDC PROVE DepositInv'
  <2> DEFINE R == [deposit : Nat, total : Nat, outcome : Outcome]
             amount == Head(left.deposits)
             new == [deposit |-> amount, total |-> contract.total + amount, outcome |-> "pending"]
  <2>1. left \in Scenario /\ left.deposits \in Seq(Nat) /\ left.deposits # <<>>
    BY <1>1, LeftIs DEF depositToUDC, DepositTypes
  <2>2. amount \in Nat /\ Tail(left.deposits) \in Seq(Nat)
    BY <2>1
  <2>3. left' \in Scenario
    BY <1>1, <2>1, <2>2, LeftIs DEF depositToUDC
  <2>4. new \in R
    BY <2>2, ContractIs DEF Outcome
  <2>5. requests \in Seq(R) /\ requests' = Append(requests, new) /\ queue' = Append(queue, Len(requests) + 1)
    BY <1>1 DEF depositToUDC, DepositTypes
  <2> HIDE DEF R, new, amount
  <2>6. /\ requests' \in Seq(R) /\ Len(requests') = Len(requests) + 1 /\ Len(requests) \in Nat
        /\ DOMAIN requests' = 1..(Len(requests) + 1) /\ DOMAIN requests = 1..Len(requests)
        /\ \A i \in DOMAIN requests : requests'[i] = requests[i]
        /\ requests'[Len(requests) + 1] = new
    BY <2>4, <2>5
  <2>7. queue' \in Seq(DOMAIN requests') /\ (queue # <<>> => Head(queue') = Head(queue) /\ queue' # <<>>)
    <3> DEFINE D == DOMAIN requests
               E == DOMAIN requests'
    <3>1. D \subseteq E /\ Len(requests) + 1 \in E
      BY <2>6
    <3>2. queue \in Seq(D)
      BY DEF DepositTypes
    <3> HIDE DEF D, E
    <3>3. queue \in Seq(E)
      BY <3>1, <3>2
    <3> QED
      BY <2>5, <3>1, <3>3 DEF E
  <2>8. DepositTypes'
    BY <1>1, <2>3, <2>6, <2>7 DEF depositToUDC, DepositTypes, chainVars, withdrawVars, R
  <2>9. Growing' /\ Mined'
    BY <1>1 DEF depositToUDC, chainVars, Growing, Mined
  <2>10. Sendable'
    <3> SUFFICES ASSUME depositStage' = "sent"
                 PROVE  queue' # <<>> /\ requests'[Head(queue')].total > contract'.total
      BY DEF Sendable, first
    <3>1. depositStage = "sent" /\ contract' = contract
      BY <1>1 DEF depositToUDC, chainVars, contract
    <3>2. queue # <<>> /\ requests[Head(queue)].total > contract.total
      BY <3>1 DEF Sendable, first
    <3> QED
      BY <2>6, <2>7, <3>1, <3>2, RequestsAre
  <2>11. SuccessIsDeposited'
    <3> SUFFICES ASSUME NEW i \in DOMAIN requests', requests'[i].outcome = "confirmed"
                 PROVE  Head(recent).total >= requests'[i].total
      BY <1>1 DEF SuccessIsDeposited, depositToUDC, chainVars
    <3>1. i # Len(requests) + 1
      BY <2>6 DEF new
    <3>2. i \in DOMAIN requests
      BY <2>6, <3>1
    <3> QED
      BY <2>6, <3>2 DEF SuccessIsDeposited
  <2> QED
    BY <2>8, <2>9, <2>10, <2>11
<1>2. ASSUME refuseDeposit PROVE DepositInv'
  <2>1. Answers(requests')
    BY <1>2, AnswersAre, RequestsAre DEF refuseDeposit, Outcome
  <2>2. queue' \in Seq(DOMAIN requests) /\ depositStage' = "check"
    BY <1>2, RequestsAre DEF refuseDeposit
  <2> QED
    BY <1>2, <2>1, <2>2, AnsweredInv DEF refuseDeposit, chainVars, withdrawVars, DepositTypes
<1>3. ASSUME sendDeposit PROVE DepositInv'
  <2>1. Answers(requests') /\ requests' = requests /\ queue' = queue
    BY <1>3, SameAnswers DEF sendDeposit
  <2>2. latest.balance \in Int /\ finalBalance' \in Int
    <3>1. latest.balance \in Int
      BY DEF DepositTypes
    <3>2. finalBalance' = latest.balance + first.deposit /\ first.deposit \in Nat
      BY <1>3, RequestsAre DEF sendDeposit
    <3> QED
      BY <3>1, <3>2
  <2>3. depositStage' = "sent" /\ queue' # <<>> /\ requests'[Head(queue')].total > contract.total
    BY <1>3 DEF sendDeposit, first
  <2> QED
    BY <1>3, <2>1, <2>2, <2>3, AnsweredInv DEF sendDeposit, chainVars, withdrawVars, DepositTypes
<1> QED
  BY <1>1, <1>2, <1>3

LEMMA ContractEdits ==
  ASSUME NEW c \in Contract, NEW n \in Int
  PROVE  /\ [c EXCEPT !.balance = n] \in Contract /\ [c EXCEPT !.balance = n].total = c.total
         /\ [c EXCEPT !.balance = n, !.plan = 0] \in Contract /\ [c EXCEPT !.balance = n, !.plan = 0].total = c.total
         /\ \A k \in Int :
               [c EXCEPT !.plan = n, !.due = k] \in Contract /\ [c EXCEPT !.plan = n, !.due = k].total = c.total
         /\ \A t \in Nat :
               [c EXCEPT !.balance = n, !.total = t] \in Contract /\ [c EXCEPT !.balance = n, !.total = t].total = t
<1>1. \A e \in Contract, i \in Int :
         /\ [e EXCEPT !.balance = i] \in Contract /\ [e EXCEPT !.balance = i].total = e.total
         /\ [e EXCEPT !.plan = i] \in Contract /\ [e EXCEPT !.plan = i].total = e.total
         /\ [e EXCEPT !.due = i] \in Contract /\ [e EXCEPT !.due = i].total = e.total
  BY DEF Contract
<1>2. \A e \in Contract, t \in Nat : [e EXCEPT !.total = t] \in Contract /\ [e EXCEPT !.total = t].total = t
  BY DEF Contract
<1> DEFINE balanced == [c EXCEPT !.balance = n]
           planned == [c EXCEPT !.plan = n]
<1>3. /\ balanced \in Contract /\ balanced.total = c.total
      /\ planned \in Contract /\ planned.total = c.total
  BY <1>1
<1>4. [c EXCEPT !.balance = n, !.plan = 0] \in Contract /\ [c EXCEPT !.balance = n, !.plan = 0].total = c.total
  <2>1. [c EXCEPT !.balance = n, !.plan = 0] = [balanced EXCEPT !.plan = 0]
    OBVIOUS
  <2> HIDE DEF balanced
  <2>2. 0 \in Int
    OBVIOUS
  <2>3. [balanced EXCEPT !.plan = 0] \in Contract /\ [balanced EXCEPT !.plan = 0].total = c.total
    BY <1>1, <1>3, <2>2, Zenon
  <2> QED
    BY <2>1, <2>3, Zenon
<1>5. ASSUME NEW k \in Int
      PROVE  [c EXCEPT !.plan = n, !.due = k] \in Contract /\ [c EXCEPT !.plan = n, !.due = k].total = c.total
  <2>1. [c EXCEPT !.plan = n, !.due = k] = [planned EXCEPT !.due = k]
    OBVIOUS
  <2> HIDE DEF planned
  <2>3. [planned EXCEPT !.due = k] \in Contract /\ [planned EXCEPT !.due = k].total = c.total
    BY <1>1, <1>3, Zenon
  <2> QED
    BY <2>1, <2>3, Zenon
<1>6. ASSUME NEW t \in Nat
      PROVE  [c EXCEPT !.balance = n, !.total = t] \in Contract /\ [c EXCEPT !.balance = n, !.total = t].total = t
  <2>1. [c EXCEPT !.balance = n, !.total = t] = [balanced EXCEPT !.total = t]
    OBVIOUS
  <2> HIDE DEF balanced
  <2>3. [balanced EXCEPT !.total = t] \in Contract /\ [balanced EXCEPT !.total = t].total = t
    BY <1>2, <1>3, Zenon
  <2> QED
    BY <2>1, <2>3, Zenon
<1> HIDE DEF balanced, planned
<1> QED
  BY <1>3, <1>4, <1>5, <1>6, Zenon DEF balanced

LEMMA BlocksKeep ==
  ASSUME DepositInv, emptyBlock \/ unreadBlock \/ mineDeposit \/ minePlan \/ mineWithdraw \/ \E a \in Claim : claim(a)
  PROVE  DepositInv'
<1> USE DEF DepositInv
<1>c. contract \in Contract /\ contract.balance \in Int /\ contract.total \in Nat
  BY ContractIs DEF Contract
<1>e. \A x \in {} : x.age = 0 /\ x.total <= contract.total
  OBVIOUS
<1>t. /\ left \in Scenario /\ finalBalance \in Int /\ planning \in Int /\ withdrawing \in Int /\ before \in Int
      /\ queue \in Seq(DOMAIN requests) /\ {} \in SUBSET Pending /\ contract.total <= contract.total
  BY <1>c DEF DepositTypes
<1>f. /\ left.failures > 0 => [left EXCEPT !.failures = left.failures - 1] \in Scenario
      /\ left.claims > 0 => [left EXCEPT !.claims = left.claims - 1] \in Scenario
  <2>1. left.failures \in Nat /\ left.claims \in Nat
    BY <1>t, LeftIs
  <2>2. /\ left.failures > 0 => left.failures - 1 \in Nat
        /\ left.claims > 0 => left.claims - 1 \in Nat
    BY <2>1
  <2> QED
    BY <1>t, <2>2, LeftIs
<1>1. ASSUME emptyBlock PROVE DepositInv'
  BY <1>1, <1>c, <1>e, <1>t, BlockInv DEF emptyBlock, reads, depositVars, withdrawVars
<1>2. ASSUME unreadBlock PROVE DepositInv'
  BY <1>2, <1>c, <1>e, <1>t, <1>f, BlockInv DEF unreadBlock, cannotRead, depositVars, withdrawVars
<1>3. ASSUME mineDeposit PROVE DepositInv'
  <2>1. queue # <<>> /\ first.total > contract.total /\ first.total \in Nat /\ Tail(queue) \in Seq(DOMAIN requests)
    BY <1>3, RequestsAre DEF mineDeposit, Sendable
  <2>2. deposited \in Contract /\ deposited.total = first.total
    <3> DEFINE n == contract.balance + first.total - contract.total
    <3>1. n \in Int
      BY <1>c, <2>1
    <3>2. deposited = [contract EXCEPT !.balance = n, !.total = first.total]
      BY DEF deposited
    <3> HIDE DEF n
    <3> QED
      <4>1. \A t \in Nat : LET d == [contract EXCEPT !.balance = n, !.total = t] IN d \in Contract /\ d.total = t
        BY <1>c, <3>1, ContractEdits, Zenon
      <4> QED
        BY <2>1, <3>2, <4>1
  <2> DEFINE mined == pending("deposit", first.total, finalBalance)
  <2>3. mined \in SUBSET Pending /\ \A x \in mined : x.age = 0 /\ x.total <= first.total
    BY <1>t, <2>1, DepthType DEF pending, Pending
  <2>4. block(deposited, mined) /\ contract.total <= deposited.total
    BY <1>3, <1>c, <2>1, <2>2 DEF mineDeposit
  <2> HIDE DEF mined
  <2> QED
    BY <1>3, <1>t, <2>1, <2>2, <2>3, <2>4, BlockInv DEF mineDeposit, reads, withdrawVars
<1>4. ASSUME minePlan PROVE DepositInv'
  <2> DEFINE c == IF planning > contract.balance THEN contract
                  ELSE [contract EXCEPT !.plan = planning, !.due = withdrawTimeout + 1]
  <2>1. c \in Contract /\ c.total = contract.total
    <3>1. withdrawTimeout + 1 \in Int /\ 0 \in Nat
      BY UserDepositAssumption
    <3>2. LET e == [contract EXCEPT !.plan = planning, !.due = withdrawTimeout + 1]
          IN e \in Contract /\ e.total = contract.total
      <4>1. \A k \in Int : LET e == [contract EXCEPT !.plan = planning, !.due = k]
                            IN e \in Contract /\ e.total = contract.total
        BY <1>c, <1>t, ContractEdits, Zenon
      <4> QED
        BY <3>1, <4>1
    <3> QED
      BY <1>c, <3>2
  <2>2. block(c, {})
    BY <1>4 DEF minePlan
  <2> HIDE DEF c
  <2> QED
    BY <1>4, <1>c, <1>e, <1>t, <2>1, <2>2, BlockInv DEF minePlan, reads, depositVars
<1>5. ASSUME mineWithdraw PROVE DepositInv'
  <2> DEFINE n == contract.balance - min(withdrawing, contract.balance)
             c == IF canWithdraw THEN [contract EXCEPT !.balance = n, !.plan = 0] ELSE contract
  <2>1. n \in Int
    BY <1>c, <1>t DEF min
  <2>2. block(c, {})
    BY <1>5 DEF mineWithdraw
  <2> HIDE DEF n
  <2>3. c \in Contract /\ c.total = contract.total
    <3>1. LET e == [contract EXCEPT !.balance = n, !.plan = 0] IN e \in Contract /\ e.total = contract.total
      BY <1>c, <2>1, ContractEdits, Zenon
    <3> QED
      BY <1>c, <3>1
  <2> HIDE DEF c
  <2> QED
    BY <1>5, <1>c, <1>e, <1>t, <2>3, <2>2, BlockInv DEF mineWithdraw, reads, depositVars
<1>6. ASSUME NEW a \in Claim, claim(a) PROVE DepositInv'
  <2> DEFINE c == [contract EXCEPT !.balance = contract.balance - a]
  <2>1. a \in Int
    BY UserDepositAssumption
  <2>2. c \in Contract /\ c.total = contract.total
    <3>1. contract.balance - a \in Int
      BY <1>c, <2>1
    <3> QED
      BY <1>c, <3>1, ContractEdits, Zenon
  <2>3. block(c, {}) /\ left' \in Scenario
    BY <1>6, <1>f DEF claim
  <2> HIDE DEF c
  <2> QED
    BY <1>6, <1>c, <1>e, <1>t, <2>3, <2>2, BlockInv DEF claim, depositVars, withdrawVars
<1> QED
  BY <1>1, <1>2, <1>3, <1>4, <1>5, <1>6

LEMMA OthersKeep ==
  ASSUME DepositInv, planUDCWithdraw \/ check \/ sendWithdraw \/ seeWithdraw \/ Confirm
  PROVE  DepositInv'
<1> USE DEF DepositInv
<1>c. contract \in Contract /\ contract.balance \in Int /\ contract.plan \in Int /\ contract.due \in Int
  BY ContractIs DEF Contract
<1>t. /\ left \in Scenario /\ latest \in [balance : Int, total : Nat] /\ queue \in Seq(DOMAIN requests)
      /\ finalBalance \in Int /\ planning \in Int /\ withdrawing \in Int /\ before \in Int /\ nextCheck \in Int
      /\ withdrawTimeout \in Int /\ confirming \subseteq Pending
  BY UserDepositAssumption DEF DepositTypes
<1>s. depositStage = "check" \/ (depositStage = "sent" /\ queue # <<>> /\ requests[Head(queue)].total > contract.total)
  BY DEF Sendable, first, DepositTypes
<1>1. ASSUME planUDCWithdraw PROVE DepositInv'
  <2>1. left' \in Scenario
    <3>1. left.plans \in Nat /\ left.plans > 0
      BY <1>1, <1>t, LeftIs DEF planUDCWithdraw
    <3>2. left.plans - 1 \in Nat
      BY <3>1
    <3> QED
      BY <1>1, <1>t, <3>2, LeftIs DEF planUDCWithdraw
  <2>2. planning' \in Int
    BY <1>1 DEF planUDCWithdraw
  <2> QED
    BY <1>1, <1>t, <1>s, <2>1, <2>2, SameAnswers, AnsweredInv DEF planUDCWithdraw, chainVars, depositVars
<1>2. ASSUME check PROVE DepositInv'
  BY <1>2, <1>c, <1>t, <1>s, SameAnswers, AnsweredInv DEF check, depositVars
<1>3. ASSUME sendWithdraw PROVE DepositInv'
  BY <1>3, <1>c, <1>t, <1>s, SameAnswers, AnsweredInv DEF sendWithdraw, chainVars, depositVars
<1>4. ASSUME seeWithdraw PROVE DepositInv'
  <2>1. \A x \in pending("withdraw", 0, 0) : x \in Pending /\ x.is = "withdraw"
    BY DepthType DEF pending, Pending
  <2> QED
    BY <1>4, <1>t, <1>s, <2>1, SameAnswers, AnsweredInv DEF seeWithdraw, chainVars, depositVars
<1>5. ASSUME NEW x \in confirming, confirmDeposit(x) PROVE DepositInv'
  <2>1. x \in Pending /\ x.total \in Nat /\ x.balance \in Int /\ x.age \in Int
    BY <1>t DEF Pending
  <2>2. x.is = "deposit" /\ x.age >= Depth
    BY <1>5, <2>1, DepthType DEF confirmDeposit, isConfirmed, Depth
  <2>3. \A k \in 1..Depth : recent[k].total >= x.total
    <3> TAKE k \in 1..Depth
    <3>1. k >= Depth - x.age
      BY <2>1, <2>2, DepthType
    <3> QED
      BY <2>2, <3>1 DEF Mined
  <2>4. Answers(requests')
    BY <1>5, <2>1, <2>3, AnswersAre DEF confirmDeposit, Outcome
  <2>5. latest' \in [balance : Int, total : Nat]
    BY <1>5, <1>t, <2>1 DEF confirmDeposit, know
  <2>6. depositStage' = "check" \/ (depositStage' = "sent" /\ queue' # <<>> /\ requests'[Head(queue')].total > contract.total)
    BY <1>5, <1>s, <2>4, RequestsAre DEF confirmDeposit, Answers
  <2>7. \A y \in confirming' : y \in confirming
    BY <1>5 DEF confirmDeposit
  <2> QED
    BY <1>5, <1>t, <2>4, <2>5, <2>6, <2>7, AnsweredInv DEF confirmDeposit, withdrawVars
<1>6. ASSUME NEW x \in confirming, confirmWithdraw(x) PROVE DepositInv'
  <2>1. \A y \in confirming' : y \in confirming
    BY <1>6 DEF confirmWithdraw
  <2> QED
    BY <1>6, <1>t, <1>s, <2>1, SameAnswers, AnsweredInv DEF confirmWithdraw, chainVars, depositVars
<1> QED
  BY <1>1, <1>2, <1>3, <1>4, <1>5, <1>6 DEF Confirm

\* A restart forgets the queue; what was sent may be mined
LEMMA RestartKeeps ==
  ASSUME DepositInv, restartUserDeposit
  PROVE  DepositInv'
<1> USE DEF DepositInv
<1>1. left' \in Scenario
  <2>1. left \in Scenario /\ left.restarts \in Nat /\ left.restarts > 0
    BY LeftIs DEF restartUserDeposit, DepositTypes
  <2>2. left.restarts - 1 \in Nat
    BY <2>1
  <2> QED
    BY <2>1, <2>2, LeftIs DEF restartUserDeposit
<1>2. /\ recent' \in Seq(Contract) /\ Len(recent') = Depth /\ Growing'
      /\ \A i \in 1..Depth : recent[i].total <= recent'[i].total
  <2>1. CASE recent' = recent
    <3>1. \A n \in Nat : n <= n
      OBVIOUS
    <3>2. \A i \in 1..Depth : recent[i].total <= recent[i].total
      BY <3>1, ContractIs, Zenon
    <3> QED
      BY <2>1, <3>2 DEF DepositTypes, Growing
  <2>2. CASE depositStage = "sent" /\ recent' = Append(Tail(recent), deposited)
    <3>1. queue # <<>> /\ first.total > contract.total /\ first.total \in Nat
      BY <2>2, RequestsAre DEF Sendable
    <3> DEFINE n == contract.balance + first.total - contract.total
    <3>2. contract \in Contract /\ n \in Int
      BY <3>1, ContractIs DEF Contract
    <3>3. deposited = [contract EXCEPT !.balance = n, !.total = first.total]
      BY DEF deposited
    <3> HIDE DEF n
    <3>4. \A t \in Nat : LET d == [contract EXCEPT !.balance = n, !.total = t] IN d \in Contract /\ d.total = t
      BY <3>2, ContractEdits, Zenon
    <3>5. deposited \in Contract /\ deposited.total = first.total
      BY <3>1, <3>3, <3>4
    <3>6. contract.total <= deposited.total
      BY <3>1, <3>5, ContractIs
    <3> QED
      BY <2>2, <3>5, <3>6, NextBlock
  <2> QED
    BY <2>1, <2>2 DEF restartUserDeposit
<1>3. /\ requests' \in Seq([deposit : Nat, total : Nat, outcome : Outcome]) /\ DOMAIN requests' = DOMAIN requests
      /\ \A i \in DOMAIN requests : /\ requests'[i].total = requests[i].total
                                    /\ requests'[i].outcome = "confirmed" => requests[i].outcome = "confirmed"
  <2> DEFINE R == [deposit : Nat, total : Nat, outcome : Outcome]
  <2>1. \A r \in R : /\ [r EXCEPT !.outcome = "stopped"] \in R
                     /\ [r EXCEPT !.outcome = "stopped"].total = r.total
                     /\ [r EXCEPT !.outcome = "stopped"].outcome = "stopped"
    BY DEF Outcome
  <2>2. DOMAIN requests = 1..Len(requests) /\ Len(requests) \in Nat /\ \A i \in DOMAIN requests : requests[i] \in R
    BY RequestsAre
  <2>3. requests' = [i \in DOMAIN requests |->
                       IF requests[i].outcome = "pending" THEN [requests[i] EXCEPT !.outcome = "stopped"] ELSE requests[i]]
    BY DEF restartUserDeposit
  <2> HIDE DEF R
  <2>4. \A i \in DOMAIN requests : /\ requests'[i] \in R /\ requests'[i].total = requests[i].total
                                   /\ requests'[i].outcome = "confirmed" => requests[i].outcome = "confirmed"
    BY <2>1, <2>2, <2>3
  <2>5. requests' \in Seq(R)
    BY <2>2, <2>3, <2>4
  <2> QED
    BY <2>3, <2>4, <2>5 DEF R
<1>4. DepositTypes'
  BY <1>1, <1>2, <1>3 DEF restartUserDeposit, DepositTypes, Unknown
<1>5. Sendable'
  BY DEF Sendable, restartUserDeposit
<1>n. \A i \in 1..Depth : recent[i].total \in Nat /\ recent'[i].total \in Nat
  <2>1. \A i \in 1..Depth : recent'[i] \in Contract
    BY <1>2, DepthType
  <2> QED
    BY <2>1, ContractIs DEF Contract
<1>6. Mined'
  <2> SUFFICES ASSUME NEW x \in confirming, x.is = "deposit", NEW i \in 1..Depth, i >= Depth - x.age
               PROVE  recent'[i].total >= x.total
    BY DEF Mined, restartUserDeposit
  <2>1. recent[i].total >= x.total /\ x.total \in Nat
    BY DEF Mined, DepositTypes, Pending
  <2> QED
    BY <1>2, <1>n, <2>1
<1>7. SuccessIsDeposited'
  <2> SUFFICES ASSUME NEW i \in DOMAIN requests, requests'[i].outcome = "confirmed"
               PROVE  Head(recent').total >= requests'[i].total
    BY <1>3 DEF SuccessIsDeposited
  <2>1. recent[1].total >= requests[i].total /\ requests'[i].total = requests[i].total
    BY <1>3, ContractIs DEF SuccessIsDeposited
  <2>2. Head(recent') = recent'[1] /\ 1 \in 1..Depth
    BY <1>2, DepthType
  <2> QED
    BY <1>2, <1>n, <2>1, <2>2, RequestsAre
<1> QED
  BY <1>2, <1>4, <1>5, <1>6, <1>7

-----------------------------------------------------------------------------
(***************************************************************************)
(* Reports                                                                 *)
(***************************************************************************)

ChannelEnd == [nonce : Nat, locks : Int, unlocked : Int]
ChannelState == [open : BOOLEAN, own : ChannelEnd, partner : ChannelEnd]
Job == [channel : ChannelState, step : {"wait", "sign"}]

ReportTypes ==
  /\ channel \in ChannelState /\ held \in [Reporter -> ChannelState] /\ asked \in [Reporter -> ChannelState]
  /\ jobs \in [Reporter -> SUBSET Job]

\* One report is made at a time, of a channel later than the one of the last request, and what is held back is later still
InOrder(r) ==
  /\ \A j, k \in jobs[r] : j = k
  /\ time(asked[r]) <= time(channel)
  /\ \A j \in jobs[r] : time(asked[r]) <= time(j.channel) /\ time(j.channel) <= time(channel)
  /\ held[r] # Nothing =>
        /\ time(asked[r]) <= time(held[r]) /\ time(held[r]) <= time(channel)
        /\ \A j \in jobs[r] : time(j.channel) <= time(held[r])

ReportInv == ReportTypes /\ \A r \in Reporter : InOrder(r)

LEMMA TimesAre ==
  /\ \A c \in ChannelState : time(c) \in Nat
  /\ Nothing \in ChannelState
  /\ \A j \in Job : j.channel \in ChannelState /\ time(j.channel) \in Nat
  /\ \A n \in Nat : n <= n
<1>1. \A c \in ChannelState : time(c) \in Nat
  BY DEF ChannelState, ChannelEnd, time
<1>2. Nothing \in ChannelState
  BY DEF ChannelState, ChannelEnd, Nothing, End
<1>3. \A j \in Job : j.channel \in ChannelState
  BY DEF Job
<1>4. \A n \in Nat : n <= n
  OBVIOUS
<1> QED
  BY <1>1, <1>2, <1>3, <1>4

LEMMA StateIs ==
  ASSUME ReportTypes, NEW r \in Reporter
  PROVE  /\ held[r] \in ChannelState /\ asked[r] \in ChannelState /\ jobs[r] \subseteq Job
         /\ time(channel) \in Nat /\ time(held[r]) \in Nat /\ time(asked[r]) \in Nat
         /\ \A j \in jobs[r] : time(j.channel) \in Nat
BY TimesAre DEF ReportTypes

\* A report of the channel given, if one is made
LEMMA ReportIs ==
  ASSUME NEW c \in ChannelState, NEW r \in Reporter
  PROVE  /\ replacing(r, c) \in SUBSET Job
         /\ \A j \in replacing(r, c) : j.channel = c
         /\ \A j, k \in replacing(r, c) : j = k
BY DEF replacing, report, Job

\* The channel changes: what is held back is the channel now, or nothing as a report of it is made
LEMMA ChannelChanges ==
  ASSUME ReportInv, NEW c \in ChannelState, become(c), time(channel) <= time(c)
  PROVE  ReportInv' /\ asked' = asked
<1> USE DEF ReportInv
<1>1. /\ channel' = c /\ asked' = asked
      /\ held' = [r \in Reporter |-> holding(r, c)]
      /\ jobs' = [r \in Reporter |-> IF isReported(r, c) /\ ~begins(r, c) THEN replacing(r, c) ELSE jobs[r]]
  BY DEF become, serviceVars
<1>2. ReportTypes'
  <2>1. \A r \in Reporter : holding(r, c) \in ChannelState
    BY TimesAre, StateIs DEF holding
  <2>2. \A r \in Reporter :
           (IF isReported(r, c) /\ ~begins(r, c) THEN replacing(r, c) ELSE jobs[r]) \in SUBSET Job
    BY StateIs, ReportIs
  <2>3. held' \in [Reporter -> ChannelState]
    BY <1>1, <2>1
  <2>4. jobs' \in [Reporter -> SUBSET Job]
    BY <1>1, <2>2
  <2> QED
    BY <1>1, <2>3, <2>4 DEF ReportTypes
<1>3. ASSUME NEW r \in Reporter PROVE InOrder(r)'
  <2>1. /\ time(c) \in Nat /\ time(channel) \in Nat /\ time(asked[r]) \in Nat /\ time(held[r]) \in Nat
        /\ \A j \in jobs[r] : time(j.channel) \in Nat
    BY TimesAre, StateIs
  <2>2. InOrder(r)
    OBVIOUS
  <2>3. time(asked[r]) <= time(c)
    BY <2>1, <2>2 DEF InOrder
  <2>4. time(c) <= time(c)
    BY <2>1, TimesAre
  <2>5. CASE ~isReported(r, c)
    <3>1. held'[r] = held[r] /\ jobs'[r] = jobs[r]
      BY <1>1, <2>5 DEF holding
    <3>2. \A j \in jobs[r] : time(asked[r]) <= time(j.channel) /\ time(j.channel) <= time(c)
      BY <2>1, <2>2 DEF InOrder
    <3>3. held[r] # Nothing =>
             /\ time(asked[r]) <= time(held[r]) /\ time(held[r]) <= time(c)
             /\ \A j \in jobs[r] : time(j.channel) <= time(held[r])
      BY <2>1, <2>2 DEF InOrder
    <3> QED
      BY <1>1, <2>2, <2>3, <3>1, <3>2, <3>3 DEF InOrder, time
  <2>6. CASE isReported(r, c) /\ begins(r, c)
    <3>1. held'[r] = c /\ jobs'[r] = jobs[r]
      BY <1>1, <2>6 DEF holding
    <3>2. \A j \in jobs[r] : time(asked[r]) <= time(j.channel) /\ time(j.channel) <= time(c)
      BY <2>1, <2>2 DEF InOrder
    <3> QED
      BY <1>1, <2>2, <2>3, <2>4, <3>1, <3>2 DEF InOrder, time
  <2>7. CASE isReported(r, c) /\ ~begins(r, c)
    <3>1. held'[r] = Nothing /\ jobs'[r] = replacing(r, c)
      BY <1>1, <2>7 DEF holding
    <3>2. /\ \A j \in replacing(r, c) : j.channel = c
          /\ \A j, k \in replacing(r, c) : j = k
      BY ReportIs
    <3> QED
      BY <1>1, <2>3, <2>4, <3>1, <3>2 DEF InOrder, time
  <2> QED
    BY <2>5, <2>6, <2>7
<1> QED
  BY <1>1, <1>2, <1>3

\* A payment's step, or the channel is closed
LEMMA PaymentsKeep ==
  ASSUME ReportInv, closeChannel \/ \E side \in {"own", "partner"} : transfer(side) \/ endTransfer(side)
  PROVE  ReportInv' /\ asked' = asked
<1>1. channel \in ChannelState
  BY DEF ReportInv, ReportTypes
<1>2. ASSUME closeChannel PROVE ReportInv' /\ asked' = asked
  <2> DEFINE c == [channel EXCEPT !.open = FALSE]
  <2>1. c \in ChannelState /\ c.own = channel.own /\ c.partner = channel.partner
    BY <1>1 DEF ChannelState
  <2>2. become(c)
    BY <1>2 DEF closeChannel
  <2> HIDE DEF c
  <2>3. time(channel) <= time(c)
    BY <1>1, <2>1, TimesAre DEF time
  <2> QED
    BY <2>1, <2>2, <2>3, ChannelChanges
<1>3. ASSUME NEW side \in {"own", "partner"}, NEW locks \in Int, NEW unlocked \in Int,
             become([channel EXCEPT ![side] = changed(channel[side], locks, unlocked)])
      PROVE  ReportInv' /\ asked' = asked
  <2> DEFINE e == channel[side]
             f == changed(e, locks, unlocked)
             c == [channel EXCEPT ![side] = f]
  <2>1. e \in ChannelEnd
    BY <1>1 DEF ChannelState
  <2> HIDE DEF e
  <2>2. f \in ChannelEnd /\ f.nonce = e.nonce + 1
    <3> DEFINE n == e.nonce + 1
               l == e.locks + locks
               u == e.unlocked + unlocked
               numbered == [e EXCEPT !.nonce = n]
               locked == [numbered EXCEPT !.locks = l]
    <3>1. n \in Nat /\ l \in Int /\ u \in Int
      BY <2>1 DEF ChannelEnd
    <3>2. f = [locked EXCEPT !.unlocked = u]
      BY DEF changed
    <3> HIDE DEF n, l, u, f
    <3>3. numbered \in ChannelEnd /\ numbered.nonce = n
      BY <2>1, <3>1 DEF ChannelEnd
    <3> HIDE DEF numbered
    <3>4. locked \in ChannelEnd /\ locked.nonce = n
      BY <3>1, <3>3 DEF ChannelEnd
    <3> HIDE DEF locked
    <3>5. [locked EXCEPT !.unlocked = u] \in ChannelEnd /\ [locked EXCEPT !.unlocked = u].nonce = n
      BY <3>1, <3>4 DEF ChannelEnd
    <3> QED
      BY <3>2, <3>5 DEF n
  <2> HIDE DEF f
  <2>3. c \in ChannelState /\ c[side] = f /\ \A s \in {"own", "partner"} : s # side => c[s] = channel[s]
    BY <1>1, <2>2 DEF ChannelState
  <2> HIDE DEF c
  <2>4. time(channel) <= time(c)
    <3>1. /\ channel.own \in ChannelEnd /\ channel.partner \in ChannelEnd
      BY <1>1 DEF ChannelState
    <3>2. channel.own.nonce \in Nat /\ channel.partner.nonce \in Nat
      BY <3>1 DEF ChannelEnd
    <3>3. CASE side = "own"
      <4>1. c.own.nonce = channel.own.nonce + 1 /\ c.partner = channel.partner
        BY <2>2, <2>3, <3>3 DEF e
      <4> QED
        BY <3>2, <4>1 DEF time
    <3>4. CASE side = "partner"
      <4>1. c.partner.nonce = channel.partner.nonce + 1 /\ c.own = channel.own
        BY <2>2, <2>3, <3>4 DEF e
      <4> QED
        BY <3>2, <4>1 DEF time
    <3> QED
      BY <3>3, <3>4
  <2>5. become(c)
    BY <1>3 DEF c, f, e
  <2> QED
    BY <2>3, <2>4, <2>5, ChannelChanges
<1>4. ASSUME NEW side \in {"own", "partner"}, transfer(side) \/ endTransfer(side)
      PROVE  ReportInv' /\ asked' = asked
  <2>1. 0 \in Int /\ 1 \in Int /\ -1 \in Int /\ \A n \in 0..1 : n \in Int
    OBVIOUS
  <2>2. CASE transfer(side)
    BY <1>3, <2>1, <2>2 DEF transfer
  <2>3. CASE endTransfer(side)
    <3>1. PICK unlocked \in 0..1 : become([channel EXCEPT ![side] = changed(channel[side], -1, unlocked)])
      BY <2>3 DEF endTransfer
    <3> QED
      BY <1>3, <2>1, <3>1
  <2> QED
    BY <1>4, <2>2, <2>3
<1> QED
  BY <1>2, <1>4

\* A reporter's step changes the order of its own reports only, and asks for the only one that is made
LEMMA ReportsKeep ==
  ASSUME ReportInv, NEW r \in Reporter, Reports(r)
  PROVE  ReportInv' /\ \A s \in Reporter : time(asked'[s]) >= time(asked[s])
<1> USE DEF ReportInv
<1>1. /\ held \in [Reporter -> ChannelState] /\ asked \in [Reporter -> ChannelState]
      /\ jobs \in [Reporter -> SUBSET Job] /\ channel \in ChannelState /\ InOrder(r)
  BY DEF ReportTypes
<1>2. /\ time(channel) \in Nat /\ time(asked[r]) \in Nat /\ time(held[r]) \in Nat
      /\ \A j \in jobs[r] : time(j.channel) \in Nat /\ j \in Job
      /\ \A s \in Reporter : time(asked[s]) >= time(asked[s])
  BY StateIs
<1>3. ASSUME channel' = channel, \A s \in Reporter \ {r} : held'[s] = held[s] /\ jobs'[s] = jobs[s] /\ asked'[s] = asked[s],
             held' \in [Reporter -> ChannelState], asked' \in [Reporter -> ChannelState],
             jobs' \in [Reporter -> SUBSET Job], InOrder(r)'
      PROVE  ReportInv'
  <2>1. ASSUME NEW s \in Reporter \ {r} PROVE InOrder(s)'
    <3>1. InOrder(s) /\ held'[s] = held[s] /\ jobs'[s] = jobs[s] /\ asked'[s] = asked[s]
      BY <1>3
    <3> QED
      BY <1>3, <3>1 DEF InOrder, time
  <2> QED
    BY <1>1, <1>3, <2>1 DEF ReportTypes
<1>4. CASE timer(r)
  <2>1. /\ held[r] # Nothing /\ held' = [held EXCEPT ![r] = Nothing]
        /\ jobs' = [jobs EXCEPT ![r] = replacing(r, held[r])] /\ channel' = channel /\ asked' = asked
    BY <1>4 DEF timer, serviceVars
  <2>2. held[r] \in ChannelState
    BY <1>1
  <2>3. /\ replacing(r, held[r]) \in SUBSET Job
        /\ \A j \in replacing(r, held[r]) : j.channel = held[r]
        /\ \A j, k \in replacing(r, held[r]) : j = k
    BY <2>2, ReportIs
  <2>4. held' \in [Reporter -> ChannelState] /\ jobs' \in [Reporter -> SUBSET Job]
    BY <1>1, <2>1, <2>3, TimesAre
  <2>5. held'[r] = Nothing /\ jobs'[r] = replacing(r, held[r])
    BY <1>1, <2>1
  <2>6. InOrder(r)'
    BY <1>1, <2>1, <2>3, <2>5 DEF InOrder, time
  <2>7. \A s \in Reporter \ {r} : held'[s] = held[s] /\ jobs'[s] = jobs[s] /\ asked'[s] = asked[s]
    BY <1>1, <2>1
  <2> QED
    BY <1>1, <1>2, <1>3, <2>1, <2>4, <2>6, <2>7
<1>5. ASSUME NEW j \in jobs[r], take(r, j)
      PROVE  ReportInv' /\ \A s \in Reporter : time(asked'[s]) >= time(asked[s])
  <2> DEFINE k == [j EXCEPT !.step = "sign"]
  <2>1. /\ jobs' = [jobs EXCEPT ![r] = (jobs[r] \ {j}) \cup {k}]
        /\ held' = held /\ channel' = channel /\ asked' = asked
    BY <1>5 DEF take, serviceVars
  <2>2. k \in Job /\ k.channel = j.channel
    BY <1>2 DEF Job
  <2> HIDE DEF k
  <2>3. \A i \in jobs[r] : i = j
    BY <1>1 DEF InOrder
  <2>4. jobs'[r] = {k} /\ \A s \in Reporter \ {r} : jobs'[s] = jobs[s]
    BY <1>1, <2>1, <2>3
  <2>5. jobs' \in [Reporter -> SUBSET Job]
    BY <1>1, <2>1, <2>2
  <2>6. InOrder(r)'
    BY <1>1, <2>1, <2>2, <2>4 DEF InOrder, time
  <2> QED
    BY <1>1, <1>2, <1>3, <2>1, <2>4, <2>5, <2>6
<1>6. ASSUME NEW j \in jobs[r], messageServiceSend(r, j)
      PROVE  ReportInv' /\ \A s \in Reporter : time(asked'[s]) >= time(asked[s])
  <2>1. /\ jobs' = [jobs EXCEPT ![r] = jobs[r] \ {j}] /\ asked' = [asked EXCEPT ![r] = j.channel]
        /\ held' = held /\ channel' = channel
    BY <1>6 DEF messageServiceSend
  <2>2. \A i \in jobs[r] : i = j
    BY <1>1 DEF InOrder
  <2>3. jobs'[r] = {} /\ asked'[r] = j.channel
    BY <1>1, <2>1, <2>2
  <2>4. j.channel \in ChannelState
    BY <1>2, TimesAre
  <2>5. jobs' \in [Reporter -> SUBSET Job] /\ asked' \in [Reporter -> ChannelState]
    BY <1>1, <2>1, <2>4
  <2>6. InOrder(r)'
    BY <1>1, <2>1, <2>3 DEF InOrder, time
  <2>7. \A s \in Reporter \ {r} : jobs'[s] = jobs[s] /\ asked'[s] = asked[s]
    BY <1>1, <2>1
  <2>8. time(asked'[r]) >= time(asked[r])
    BY <1>1, <1>2, <2>3 DEF InOrder
  <2> QED
    BY <1>1, <1>2, <1>3, <2>1, <2>5, <2>6, <2>7, <2>8
<1>7. ASSUME NEW j \in jobs[r], signatureFails(r, j)
      PROVE  ReportInv' /\ \A s \in Reporter : time(asked'[s]) >= time(asked[s])
  <2>1. jobs' = [jobs EXCEPT ![r] = jobs[r] \ {j}] /\ held' = held /\ channel' = channel /\ asked' = asked
    BY <1>7 DEF signatureFails, loses
  <2>2. jobs'[r] = {} /\ \A s \in Reporter \ {r} : jobs'[s] = jobs[s]
    BY <1>1, <2>1 DEF InOrder
  <2>3. jobs' \in [Reporter -> SUBSET Job]
    BY <1>1, <2>1
  <2>4. InOrder(r)'
    BY <1>1, <2>1, <2>2 DEF InOrder, time
  <2> QED
    BY <1>1, <1>2, <1>3, <2>1, <2>2, <2>3, <2>4
<1>8. ASSUME NEW c \in sending[r], sendServiceMessage(r, c) \/ sendFails(r, c)
      PROVE  ReportInv' /\ \A s \in Reporter : time(asked'[s]) >= time(asked[s])
  <2>1. jobs' = jobs /\ held' = held /\ channel' = channel /\ asked' = asked
    BY <1>8 DEF sendServiceMessage, sendFails, loses
  <2>2. ReportInv'
    BY <2>1 DEF ReportTypes, InOrder, time
  <2> QED
    BY <1>2, <2>1, <2>2
<1> QED
  BY <1>4, <1>5, <1>6, <1>7, <1>8 DEF Reports

LEMMA RestartForgets ==
  ASSUME ReportInv, restart
  PROVE  ReportInv' /\ asked' = asked
<1>1. /\ held' = [r \in Reporter |-> Nothing] /\ jobs' = [r \in Reporter |-> {}]
      /\ channel' = channel /\ asked' = asked
  BY DEF restart
<1>2. ReportTypes'
  BY <1>1, TimesAre DEF ReportInv, ReportTypes
<1>3. ASSUME NEW r \in Reporter PROVE InOrder(r)'
  <2>1. InOrder(r) /\ held'[r] = Nothing /\ jobs'[r] = {}
    BY <1>1 DEF ReportInv
  <2> QED
    BY <1>1, <2>1 DEF InOrder, time
<1> QED
  BY <1>1, <1>2, <1>3 DEF ReportInv

-----------------------------------------------------------------------------

LEMMA InitInv == MonitoringInit => DepositInv /\ ReportInv
<1> SUFFICES ASSUME MonitoringInit PROVE DepositInv /\ ReportInv
  OBVIOUS
<1>1. DepositInv
  <2> DEFINE c == [balance |-> Start, total |-> Start, plan |-> 0, due |-> 0]
  <2>1. recent = [i \in 1..Depth |-> c] /\ c \in Contract /\ Depth \in Nat /\ Depth >= 1
    BY UserDepositAssumption, DepthType DEF MonitoringInit, Init, Contract, Depth
  <2>2. c.total \in Nat
    BY UserDepositAssumption
  <2> HIDE DEF c
  <2>3. recent \in Seq(Contract) /\ Len(recent) = Depth
    BY <2>1
  <2>4. \A n \in Nat : n <= n
    OBVIOUS
  <2>5. Growing
    <3>1. \A i \in 1..Depth : recent[i] = c
      BY <2>1
    <3> QED
      BY <2>2, <2>4, <3>1, Zenon DEF Growing
  <2>6. DepositTypes
    <3>1. left \in Scenario
      BY UserDepositAssumption DEF MonitoringInit, Init
    <3>2. latest \in [balance : Int, total : Nat] /\ nextCheck \in Int
      BY DEF MonitoringInit, Init, Unknown
    <3>3. /\ requests \in Seq([deposit : Nat, total : Nat, outcome : Outcome])
          /\ queue \in Seq(DOMAIN requests)
      <4>1. \A S : <<>> \in Seq(S)
        OBVIOUS
      <4> QED
        BY <4>1 DEF MonitoringInit, Init
    <3>4. /\ depositStage = "check" /\ finalBalance = 0 /\ planning = 0 /\ withdrawing = 0 /\ before = 0
          /\ confirming = {}
      BY DEF MonitoringInit, Init
    <3> QED
      BY <2>3, <3>1, <3>2, <3>3, <3>4 DEF DepositTypes
  <2> QED
    BY <2>5, <2>6 DEF MonitoringInit, Init, DepositInv, Sendable, Mined, SuccessIsDeposited
<1>2. ReportInv
  <2>1. channel = [open |-> TRUE, own |-> End, partner |-> End]
    BY DEF MonitoringInit, Nothing
  <2>2. channel \in ChannelState
    BY <2>1 DEF ChannelState, ChannelEnd, End
  <2>3. ReportTypes
    BY <2>2, TimesAre DEF MonitoringInit, ReportTypes
  <2>4. ASSUME NEW r \in Reporter PROVE InOrder(r)
    <3>1. held[r] = Nothing /\ jobs[r] = {} /\ asked[r] = Nothing
      BY DEF MonitoringInit
    <3>2. time(Nothing) = 0 /\ time(channel) = 0
      BY <2>1 DEF time, Nothing, End
    <3> QED
      BY <3>1, <3>2 DEF InOrder
  <2> QED
    BY <2>3, <2>4 DEF ReportInv
<1> QED
  BY <1>1, <1>2

\* The scenario is all that payments change of the deposits' variables
LEMMA ScenarioKeeps ==
  ASSUME DepositInv, left' \in Scenario, UNCHANGED <<chainVars, depositVars, withdrawVars, confirming>>
  PROVE  DepositInv'
<1> USE DEF chainVars, depositVars, withdrawVars, DepositInv
<1>1. DepositTypes'
  BY DEF DepositTypes
<1>2. Growing' /\ Mined'
  BY DEF Growing, Mined
<1>3. Sendable' /\ SuccessIsDeposited'
  BY DEF Sendable, first, contract, SuccessIsDeposited
<1> QED
  BY <1>1, <1>2, <1>3

LEMMA NextInv ==
  DepositInv /\ ReportInv /\ [MonitoringNext]_allVars
    => DepositInv' /\ ReportInv' /\ \A r \in Reporter : time(asked'[r]) >= time(asked[r])
<1> SUFFICES ASSUME DepositInv, ReportInv, [MonitoringNext]_allVars
             PROVE  DepositInv' /\ ReportInv' /\ \A r \in Reporter : time(asked'[r]) >= time(asked[r])
  OBVIOUS
<1>0. left \in Scenario /\ \A r \in Reporter : time(asked[r]) >= time(asked[r])
  BY StateIs DEF DepositInv, DepositTypes, ReportInv
<1>u. ASSUME UNCHANGED <<channel, held, jobs, asked>> PROVE ReportInv'
  BY <1>u DEF ReportInv, ReportTypes, InOrder, time
<1>1. ASSUME UserDepositNext, UNCHANGED <<channel, held, jobs, serviceVars, since>>
      PROVE  DepositInv' /\ ReportInv' /\ \A r \in Reporter : time(asked'[r]) >= time(asked[r])
  <2>1. DepositInv'
    BY <1>1, BlocksKeep, DepositsKeep, OthersKeep DEF UserDepositNext, Deposit, Withdraw
  <2> QED
    BY <1>0, <1>1, <1>u, <2>1 DEF serviceVars
<1>2. ASSUME restart
      PROVE  DepositInv' /\ ReportInv' /\ \A r \in Reporter : time(asked'[r]) >= time(asked[r])
  BY <1>0, <1>2, RestartForgets, RestartKeeps DEF restart
<1>3. ASSUME closeChannel \/ \E side \in {"own", "partner"} : transfer(side) \/ endTransfer(side)
      PROVE  DepositInv' /\ ReportInv' /\ \A r \in Reporter : time(asked'[r]) >= time(asked[r])
  <2>1. ReportInv' /\ asked' = asked
    BY <1>3, PaymentsKeep
  <2>2. left' \in Scenario
    <3>1. left.transfers \in Nat
      BY <1>0, LeftIs
    <3>2. happens => left' \in Scenario
      <4>1. happens => left.transfers - 1 \in Nat
        BY <3>1 DEF happens
      <4> QED
        BY <1>0, <4>1, LeftIs DEF happens
    <3> QED
      BY <1>0, <1>3, <3>2 DEF closeChannel, transfer, endTransfer
  <2>3. UNCHANGED <<chainVars, depositVars, withdrawVars, confirming>>
    BY <1>3 DEF closeChannel, transfer, endTransfer, become
  <2> QED
    BY <1>0, <2>1, <2>2, <2>3, ScenarioKeeps
<1>4. ASSUME NEW r \in Reporter, Reports(r)
      PROVE  DepositInv' /\ ReportInv' /\ \A s \in Reporter : time(asked'[s]) >= time(asked[s])
  <2>1. \/ UNCHANGED vars
        \/ left' \in Scenario /\ UNCHANGED <<chainVars, depositVars, withdrawVars, confirming>>
    <3>1. \A j \in jobs[r] : take(r, j) \/ messageServiceSend(r, j) => UNCHANGED vars
      BY DEF take, messageServiceSend
    <3>2. \A c \in sending[r] : sendServiceMessage(r, c) => UNCHANGED vars
      BY DEF sendServiceMessage
    <3>3. \A c : loses(r, c) => left' \in Scenario /\ UNCHANGED <<chainVars, depositVars, withdrawVars, confirming>>
      <4>1. left.losses \in Nat
        BY <1>0, LeftIs
      <4>2. left.losses > 0 => left.losses - 1 \in Nat
        BY <4>1
      <4> QED
        BY <1>0, <4>2, LeftIs DEF loses
    <3>4. timer(r) => UNCHANGED vars
      BY DEF timer
    <3> QED
      BY <1>4, <3>1, <3>2, <3>3, <3>4 DEF Reports, signatureFails, sendFails
  <2>2. DepositInv'
    BY <1>0, <2>1, ScenarioKeeps DEF vars
  <2> QED
    BY <1>4, <2>2, ReportsKeep
<1>5. ASSUME UNCHANGED allVars
      PROVE  DepositInv' /\ ReportInv' /\ \A r \in Reporter : time(asked'[r]) >= time(asked[r])
  <2>1. DepositInv'
    BY <1>0, <1>5, ScenarioKeeps DEF allVars, vars
  <2> QED
    BY <1>0, <1>5, <1>u, <2>1 DEF allVars, serviceVars
<1> QED
  BY <1>1, <1>2, <1>3, <1>4, <1>5 DEF MonitoringNext

\* Deposits keep to DepositInv, and reports to ReportInv, whatever happens (udc/epics, services/epics).
THEOREM Invariant == MonitoringSpec => [](DepositInv /\ ReportInv)
<1>1. DepositInv /\ ReportInv /\ [MonitoringNext]_allVars => (DepositInv /\ ReportInv)'
  BY NextInv
<1> QED
  BY InitInv, <1>1, PTL DEF MonitoringSpec

\* What the user is told is confirmed is in a block that is (asyncActionToPromise, confirmationEpic).
THEOREM SuccessIsOnChain == MonitoringSpec => []SuccessIsDeposited
<1>1. DepositInv => SuccessIsDeposited
  BY DEF DepositInv
<1> QED
  BY Invariant, <1>1, PTL

\* No report of a past state of a channel is asked for after one of a later state, whatever is held back,
\* waits for the deposit, or isn't signed (switchMap, debounce): it says nothing of the order in which
\* the requests are sent.
THEOREM RequestsAreInOrder == MonitoringSpec => AskedInOrder
<1>1. DepositInv /\ ReportInv /\ [MonitoringNext]_allVars
        => [\A r \in Reporter : time(asked'[r]) >= time(asked[r])]_allVars
  BY NextInv
<1>2. MonitoringSpec => [][MonitoringNext]_allVars
  BY PTL DEF MonitoringSpec
<1> QED
  BY Invariant, <1>1, <1>2, PTL DEF AskedInOrder

=============================================================================
