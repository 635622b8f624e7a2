----------------------------- MODULE MCFunding -----------------------------
(***************************************************************************)
(* Small instances of Funding.                                             *)
(***************************************************************************)
EXTENDS Funding, TLC
CONSTANTS p, q, MaxUint

\* the default: the allowance is given once and for all
Unlimited == [minimumAllowance : {MaxUint}, openChannelWithDeposit : BOOLEAN]
\* what is needed is approved, on a contract without openChannelWithDeposit
Needed == [minimumAllowance : {0}, openChannelWithDeposit : {FALSE}]
UnlimitedOrNeeded == Unlimited \cup Needed

\* a channel opened twice, with a deposit in between; two that share tokens and allowance; one in
\* which its partner deposits, too
Opened == {(p :> <<1, 1, 2>> @@ q :> <<>>)}
Both == {(p :> <<1>> @@ q :> <<2>>), (p :> <<2>> @@ q :> <<2>>)}
Shared == {(p :> <<>> @@ q :> s) : s \in {<<1, 2>>, <<2, 1>>}}
Asked == Opened \cup Both \cup Shared
=============================================================================
