---------------------------- MODULE MCEnvelopes ----------------------------
(***************************************************************************)
(* Small instances of Envelopes: one channel between a and b.              *)
(***************************************************************************)
EXTENDS EnvelopesInvariant, TLC, FiniteSetsExt

CONSTANTS a, b, t1, t2

MCPeer == (a :> b) @@ (b :> a)

\* One transfer in each direction
OpposedPayer == (t1 :> a) @@ (t2 :> b)
EqualAmount == (t1 :> 1) @@ (t2 :> 1)

\* One transfer of a
OnePayer == t1 :> a
OneAmount == t1 :> 1

\* b can pay only what it was paid
PoorDeposit == (a :> 1) @@ (b :> 0)
RichDeposit == (a :> 3) @@ (b :> 0)

MCtotalLocked ==
  [S \in SUBSET Transfer |-> MapThenSumSet(LAMBDA t : Amount[t], S)]
=============================================================================
