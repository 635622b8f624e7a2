---------------------------- MODULE MCMediation ----------------------------
(***************************************************************************)
(* Small instances of Mediation.                                           *)
(***************************************************************************)
EXTENDS Mediation

channel(own, total) == [own |-> own, total |-> total]
feesOf(f, p, i, c) ==
  [flat |-> f, proportional |-> p, imbalance |-> i, cap |-> c]
paymentOf(amountIn, config, in, out, quick) ==
  [amount |-> amountIn, config |-> config, in |-> in, out |-> out, quick |-> quick]

\* every fee, of which the penalty would pay the payer, and capped
Slow == {paymentOf(17, feesOf(1, 2, 5, TRUE), channel(60, 200), channel(150, 200), FALSE)}

\* fees one by one and together, steep and flat penalties, capped or not ...
Schedules == {feesOf(0, 0, 0, TRUE), feesOf(3, 0, 0, TRUE), feesOf(0, 2, 0, TRUE)}
               \cup {feesOf(f, p, i, c) : f \in {0, 1}, p \in {0, 2}, i \in {2, 5}, c \in BOOLEAN}
\* ... of channels that get more or less balanced, or cross the middle, of round and of odd capacities,
\* with fewer units than points, and empty
Channels == {<<channel(60, 200), channel(150, 200)>>, <<channel(150, 200), channel(40, 200)>>,
             <<channel(90, 200), channel(110, 200)>>, <<channel(31, 97), channel(53, 61)>>,
             <<channel(0, 7), channel(9, 13)>>, <<channel(0, 97), channel(0, 50)>>}
Quick == {paymentOf(a, c, ch[1], ch[2], TRUE) : a \in {1, 2, 17, 40, 95}, c \in Schedules, ch \in Channels}
Usual == Slow \cup Quick
=============================================================================
