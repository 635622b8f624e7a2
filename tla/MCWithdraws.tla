---------------------------- MODULE MCWithdraws ----------------------------
(***************************************************************************)
(* Small instances of Withdraws: one channel between a and b, from which a *)
(* withdraws.                                                              *)
(***************************************************************************)
EXTENDS Withdraws, TLC

CONSTANTS a, b, t1, t2, w1

MCPeer == (a :> b) @@ (b :> a)

\* One transfer in each direction
MCPayer == (t1 :> a) @@ (t2 :> b)
MCAmount == (t1 :> 1) @@ (t2 :> 1)

\* a can pay its transfer or withdraw, not both
MCRequester == w1 :> a
MCTotal == w1 :> 1
MCDeposit == (a :> 1) @@ (b :> 1)

\* Only a has something to take up again
MCMaxCrash == (a :> 1) @@ (b :> 0)

MCtotalLocked ==
  [S \in SUBSET Transfer |-> MapThenSumSet(LAMBDA t : Amount[t], S)]
=============================================================================
