----------------------------- MODULE Settlement -----------------------------
(***************************************************************************)
(* What the two clients of a channel promise each other about a transfer,  *)
(* whatever the transport, the chain, the clocks and crashes do: the payer *)
(* locks the amount, and then either pays it or takes it back, once; the   *)
(* payee comes to know the lock first and then the same outcome.           *)
(***************************************************************************)
CONSTANT Transfer

VARIABLES
  payer,  \* payer[t]: how far the payer went with transfer t
  payee   \* payee[t]: how far the payee followed

Outcome == {"paid", "returned"}
Stage == {"none", "locked"} \cup Outcome

TypeOK == payer \in [Transfer -> Stage] /\ payee \in [Transfer -> Stage]

Init ==
  /\ payer = [t \in Transfer |-> "none"]
  /\ payee = [t \in Transfer |-> "none"]

Lock(t) ==
  /\ payer[t] = "none"
  /\ payer' = [payer EXCEPT ![t] = "locked"]
  /\ UNCHANGED payee

Settle(t) ==
  /\ payer[t] = "locked"
  /\ \E outcome \in Outcome : payer' = [payer EXCEPT ![t] = outcome]
  /\ UNCHANGED payee

\* The payee learns of the lock
Accept(t) ==
  /\ payee[t] = "none" /\ payer[t] # "none"
  /\ payee' = [payee EXCEPT ![t] = "locked"]
  /\ UNCHANGED payer

\* The payee learns of the outcome
Follow(t) ==
  /\ payee[t] = "locked" /\ payer[t] \in Outcome
  /\ payee' = [payee EXCEPT ![t] = payer[t]]
  /\ UNCHANGED payer

Next == \E t \in Transfer : Lock(t) \/ Settle(t) \/ Accept(t) \/ Follow(t)

Spec == Init /\ [][Next]_<<payer, payee>>
=============================================================================
