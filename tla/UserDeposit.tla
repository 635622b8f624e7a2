---------------------------- MODULE UserDeposit ----------------------------
(***************************************************************************)
(* The client's deposit in the UserDeposit contract: what it knows of it,  *)
(* deposits, and withdraws, which are planned first and carried out when   *)
(* they are due.                                                           *)
(*                                                                         *)
(* The contract, and what services and others do with it, are external.   *)
(* Time is counted in blocks.                                              *)
(***************************************************************************)
EXTENDS Integers, FiniteSets, Sequences, SequencesExt

CONSTANTS
  Start,              \* balance to begin with
  confirmationBlocks,
  withdrawTimeout,    \* between a plan and the withdraw
  Claim,              \* what services claim
  MaxDeposits,        \* of the user
  Scenarios           \* what happens: [deposits (a sequence of amounts), plans, claims, failures, restarts,
                      \* transfers, losses, reporters (see Monitoring)]

Scenario ==
  [deposits : Seq(Nat), plans : Nat, claims : Nat, failures : Nat, restarts : Nat, transfers : Nat,
   losses : Nat, reporters : SUBSET {"ms", "pfs"}]
ASSUME UserDepositAssumption ==
  /\ {Start, confirmationBlocks, MaxDeposits} \subseteq Nat /\ withdrawTimeout \in Nat \ {0} /\ Claim \subseteq Nat \ {0}
  /\ Scenarios \subseteq Scenario /\ \A s \in Scenarios : Len(s.deposits) <= MaxDeposits

VARIABLES
  left,         \* what is to come of the scenario
  recent,       \* the contract in the last blocks: [balance, total, plan, due]
  latest,       \* [balance, total] (latest$.udcDeposit)
  requests,     \* the user's deposits: [deposit, total, outcome]
  queue,        \* those not handled, by their index (concatMap)
  depositStage, finalBalance, \* how far the first one is, and what its success will say
  planning,     \* amount of the plan being sent, or 0
  autoStage, withdrawing, before, \* how far a withdraw is, its amount, and the balance when it began
  nextCheck,    \* blocks until the plan is looked at again (nextCheckAfter)
  confirming    \* pendingTxs: deposits and withdraws, with their age

depositVars == <<requests, queue, depositStage, finalBalance>>
withdrawVars == <<planning, autoStage, withdrawing, before>>
chainVars == <<recent, latest, nextCheck>>
vars == <<left, chainVars, depositVars, withdrawVars, confirming>>

Unknown == [balance |-> 99, total |-> 99]
contract == Last(recent)
effective(c) == IF c.plan > c.balance THEN 0 ELSE c.balance - c.plan
min(a, b) == IF a < b THEN a ELSE b

Init ==
  /\ left \in Scenarios
  /\ recent = [i \in 1..(confirmationBlocks + 1) |-> [balance |-> Start, total |-> Start, plan |-> 0, due |-> 0]]
  /\ latest = Unknown /\ nextCheck = 0
  /\ requests = <<>> /\ queue = <<>> /\ depositStage = "check" /\ finalBalance = 0
  /\ planning = 0 /\ autoStage = "idle" /\ withdrawing = 0 /\ before = 0
  /\ confirming = {}

-----------------------------------------------------------------------------
(* Blocks *)

\* What is known changes only if the balance does (monitorUdcBalanceEpic, getLatest$)
know(balance, total) == IF balance = latest.balance THEN latest ELSE [balance |-> balance, total |-> total]
readContract(c) == know(effective(c), c.total)

\* A block with that contract: its predecessor is read, or cannot be; transactions get older
block(c, mined) ==
  /\ recent' = Append(Tail(recent), [c EXCEPT !.due = IF @ = 0 THEN 0 ELSE @ - 1])
  /\ nextCheck' = IF nextCheck = 0 THEN 0 ELSE nextCheck - 1
  /\ confirming' = {[x EXCEPT !.age = min(@, confirmationBlocks) + 1] : x \in confirming} \cup mined
pending(type, total, balance) == {[is |-> type, total |-> total, balance |-> balance, age |-> 0]}
reads == latest' = readContract(recent'[1]) /\ UNCHANGED left
cannotRead == left.failures > 0 /\ left' = [left EXCEPT !.failures = @ - 1] /\ UNCHANGED latest

emptyBlock == block(contract, {}) /\ reads /\ UNCHANGED <<depositVars, withdrawVars>>
unreadBlock == block(contract, {}) /\ cannotRead /\ UNCHANGED <<depositVars, withdrawVars>>
\* What services take
claim(amount) ==
  /\ left.claims > 0 /\ amount <= contract.balance
  /\ block([contract EXCEPT !.balance = @ - amount], {})
  /\ left' = [left EXCEPT !.claims = @ - 1] /\ latest' = readContract(recent'[1])
  /\ UNCHANGED <<depositVars, withdrawVars>>

-----------------------------------------------------------------------------
(* Deposits *)

first == requests[Head(queue)]
\* The promises of a request are those of all with the same total (asyncActionToPromise)
answer(total, outcome) ==
  [i \in DOMAIN requests |->
     IF requests[i].total = total /\ requests[i].outcome = "pending" THEN [requests[i] EXCEPT !.outcome = outcome]
     ELSE requests[i]]

\* Raiden.depositToUDC
depositToUDC ==
  /\ left.deposits # <<>> /\ left' = [left EXCEPT !.deposits = Tail(@)]
  /\ LET deposit == Head(left.deposits)
     IN requests' = Append(requests, [deposit |-> deposit, total |-> contract.total + deposit, outcome |-> "pending"])
  /\ queue' = Append(queue, Len(requests) + 1)
  /\ UNCHANGED <<chainVars, depositStage, finalBalance, withdrawVars, confirming>>

\* makeUdcDeposit$, with the allowance there: a transaction that cannot be is tried again
isCurrent == latest.total + first.deposit = first.total
isOutdated == ~isCurrent
refuseDeposit ==
  /\ queue # <<>> /\ depositStage = "check" /\ isOutdated
  /\ requests' = answer(first.total, "outdated") /\ queue' = Tail(queue)
  /\ UNCHANGED <<left, chainVars, depositStage, finalBalance, withdrawVars, confirming>>
sendDeposit ==
  /\ queue # <<>> /\ depositStage = "check" /\ ~isOutdated /\ first.total > contract.total
  /\ depositStage' = "sent" /\ finalBalance' = latest.balance + first.deposit
  /\ UNCHANGED <<left, chainVars, requests, queue, withdrawVars, confirming>>
deposited == [contract EXCEPT !.balance = @ + first.total - contract.total, !.total = first.total]
\* Mutant of mineDeposit: what the user is told doesn't wait for confirmations
mineDepositConfirmed ==
  /\ depositStage = "sent" /\ depositStage' = "check" /\ queue' = Tail(queue)
  /\ block(deposited, pending("deposit", first.total, finalBalance)) /\ reads
  /\ requests' = answer(first.total, "confirmed")
  /\ UNCHANGED <<finalBalance, withdrawVars>>
mineDeposit ==
  /\ depositStage = "sent" /\ depositStage' = "check" /\ queue' = Tail(queue)
  /\ block(deposited, pending("deposit", first.total, finalBalance)) /\ reads
  /\ UNCHANGED <<requests, finalBalance, withdrawVars>>
\* checkPendingAction
isConfirmed(x, type) == x.is = type /\ x.age > confirmationBlocks
confirmDeposit(x) ==
  /\ isConfirmed(x, "deposit") /\ confirming' = confirming \ {x}
  /\ latest' = know(x.balance, x.total) /\ requests' = answer(x.total, "confirmed")
  /\ UNCHANGED <<left, recent, nextCheck, queue, depositStage, finalBalance, withdrawVars>>

-----------------------------------------------------------------------------
(* Withdraws *)

\* Raiden.planUDCWithdraw, udcWithdrawPlanRequestEpic: of all there is
planUDCWithdraw ==
  /\ left.plans > 0 /\ left' = [left EXCEPT !.plans = @ - 1]
  /\ planning = 0 /\ latest # Unknown /\ latest.balance \in 1..contract.balance /\ planning' = latest.balance
  /\ UNCHANGED <<chainVars, depositVars, autoStage, withdrawing, before, confirming>>
minePlan ==
  /\ planning # 0 /\ planning' = 0
  /\ block(IF planning > contract.balance THEN contract
           ELSE [contract EXCEPT !.plan = planning, !.due = withdrawTimeout + 1], {}) /\ reads
  /\ UNCHANGED <<depositVars, autoStage, withdrawing, before>>

\* udcAutoWithdrawEpic: without a plan, one made now isn't due earlier
isDue == contract.plan # 0 /\ contract.due = 0
\* Mutant of check: the plan isn't looked at again
checkOnce ==
  /\ autoStage = "idle" /\ nextCheck = 0
  /\ IF isDue THEN autoStage' = "send" /\ withdrawing' = contract.plan /\ UNCHANGED nextCheck
     ELSE autoStage' = "done" /\ UNCHANGED <<nextCheck, withdrawing>>
  /\ UNCHANGED <<left, recent, latest, depositVars, planning, before, confirming>>
check ==
  /\ autoStage = "idle" /\ nextCheck = 0
  /\ IF isDue THEN autoStage' = "send" /\ withdrawing' = contract.plan /\ UNCHANGED nextCheck
     ELSE /\ nextCheck' = IF contract.plan = 0 THEN withdrawTimeout ELSE contract.due
          /\ UNCHANGED <<autoStage, withdrawing>>
  /\ UNCHANGED <<left, recent, latest, depositVars, planning, before, confirming>>

\* udcWithdrawEpic: the balance is read first, and has to be smaller in the end
canWithdraw == isDue /\ withdrawing <= contract.plan
sendWithdraw ==
  /\ autoStage = "send"
  /\ IF contract.balance = 0 THEN autoStage' = "idle" /\ UNCHANGED before
     ELSE canWithdraw /\ autoStage' = "sent" /\ before' = contract.balance
  /\ UNCHANGED <<left, chainVars, depositVars, planning, withdrawing, confirming>>
mineWithdraw ==
  /\ autoStage = "sent"
  /\ IF canWithdraw
     THEN /\ block([contract EXCEPT !.balance = @ - min(withdrawing, @), !.plan = 0], {}) /\ autoStage' = "mined"
     ELSE block(contract, {}) /\ autoStage' = "idle"
  /\ reads /\ UNCHANGED <<depositVars, planning, withdrawing, before>>
seeWithdraw ==
  /\ autoStage = "mined" /\ contract.balance < before /\ autoStage' = "confirming"
  /\ confirming' = confirming \cup pending("withdraw", 0, 0)
  /\ UNCHANGED <<left, chainVars, depositVars, planning, withdrawing, before>>
\* dispatchAndWait$
confirmWithdraw(x) ==
  /\ isConfirmed(x, "withdraw") /\ confirming' = confirming \ {x}
  /\ autoStage' = IF autoStage = "confirming" THEN "idle" ELSE autoStage
  /\ UNCHANGED <<left, chainVars, depositVars, planning, withdrawing, before>>

\* Only pendingTxs stay; what was sent may still be mined
restartUserDeposit ==
  /\ left.restarts > 0 /\ left' = [left EXCEPT !.restarts = @ - 1]
  /\ recent' \in {recent} \cup IF depositStage = "sent" THEN {Append(Tail(recent), deposited)} ELSE {}
  /\ latest' = Unknown /\ nextCheck' = 0 /\ queue' = <<>> /\ depositStage' = "check" /\ finalBalance' = 0
  /\ planning' = 0 /\ autoStage' = "idle" /\ withdrawing' = 0 /\ before' = 0
  /\ requests' = [i \in DOMAIN requests |->
                    IF requests[i].outcome = "pending" THEN [requests[i] EXCEPT !.outcome = "stopped"] ELSE requests[i]]
  /\ UNCHANGED confirming

Deposit == refuseDeposit \/ sendDeposit \/ mineDeposit
Withdraw == minePlan \/ check \/ sendWithdraw \/ mineWithdraw \/ seeWithdraw
Confirm == \E x \in confirming : confirmDeposit(x) \/ confirmWithdraw(x)
UserDepositNext ==
  \/ emptyBlock \/ unreadBlock \/ depositToUDC \/ Deposit \/ planUDCWithdraw \/ Withdraw \/ Confirm
  \/ \E amount \in Claim : claim(amount)

Spec == Init /\ [][UserDepositNext \/ restartUserDeposit]_vars

-----------------------------------------------------------------------------
(* Properties *)

\* What the user is told is confirmed is in a block that is (asyncActionToPromise, confirmationEpic). It compares
\* totals: of two requests for the same total, one deposit in a block makes both right.
SuccessIsDeposited ==
  \A i \in DOMAIN requests : requests[i].outcome = "confirmed" => Head(recent).total >= requests[i].total

\* A withdraw is mined, but a deposit was too since its balance was read: the balance isn't smaller
isMissed == autoStage = "mined" /\ contract.balance >= before

\* A plan is carried out, unless there is nothing left (udcAutoWithdrawEpic): every block is too often to
\* look, and the next time may be too late. It isn't as long as the withdraw before it is missed: the
\* client looks for its smaller balance and for no other plan.
PlanIsWithdrawn == isDue ~> ~isDue \/ contract.balance = 0 \/ isMissed

=============================================================================
