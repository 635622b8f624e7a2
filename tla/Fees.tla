-------------------------------- MODULE Fees --------------------------------
(***************************************************************************)
(* What a mediator keeps of an amount it forwards: the flat, proportional  *)
(* and imbalance fees of its two channels, and the search for the amount   *)
(* to send of which those fees are right.                                  *)
(*                                                                         *)
(* Amounts on the way are fractions of tokens: they are counted in units   *)
(* of 1/Unit tokens, and fees in units of 1/(Unit * Percent) tokens.       *)
(***************************************************************************)
EXTENDS Integers, Sequences

CONSTANTS
  Depth,            \* bound: halvings of an interval, beyond which it is taken as linear
  Points            \* NUM_DISCRETISATION_POINTS, 21 in the code

ASSUME FeesAssumption == Depth \in 0..12 /\ Points \in Nat \ {0, 1}

Unit == 2 ^ Depth
Percent == 100
Token == Unit * Percent

abs(x) == IF x < 0 THEN -x ELSE x
least(a, b) == IF a <= b THEN a ELSE b

\* toFixed(0, ROUND_HALF_EVEN) of a fraction with a positive denominator
round(num, den) ==
  LET q == num \div den
      r == 2 * (num % den)
  IN IF r < den \/ (r = den /\ q % 2 = 0) THEN q ELSE q + 1

\* config: [flat, proportional (%), imbalance (%), cap]: of a channel, except for cap.
\* A channel has a total capacity and an own one.

\* The points of the curve of penalties. The power b of the code is 1 for an
\* imbalance fee of 5% and 2 for one of 2.5%; both are steepest at a slope of 10%.
points(capacity) == least(Points, capacity + 1)
position(capacity, i) == IF i = points(capacity) - 1 THEN capacity ELSE round(capacity * i, points(capacity) - 1)
penalty(capacity, steep, x) ==
  LET d == abs(2 * x - capacity)
  IN IF steep THEN round(d, 20)
     ELSE round(d * d, 40 * capacity)

\* interpolateFunc at a point of fractions: beyond the ends, the first and the last stretch go on
stretch(capacity, x) ==
  LET last == points(capacity) - 2
      inside == {i \in 0..last : position(capacity, i) * Unit <= x /\ x < position(capacity, i + 1) * Unit}
  IN IF x < 0 THEN 0 ELSE IF inside = {} THEN last ELSE CHOOSE i \in inside : TRUE
interpolateBetween(capacity, steep, x0, x1, x) ==
  LET slope == penalty(capacity, steep, x1) - penalty(capacity, steep, x0)
  IN ((x - x0 * Unit) * slope * Percent) \div (x1 - x0) + penalty(capacity, steep, x0) * Token
interpolateOn(capacity, steep, i, x) ==
  interpolateBetween(capacity, steep, position(capacity, i), position(capacity, i + 1), x)
interpolate(capacity, steep, x) == interpolateOn(capacity, steep, stretch(capacity, x), x)

imbalance(config, channel, amount) ==
  IF config.imbalance = 0 \/ channel.total = 0 THEN 0
  ELSE interpolate(channel.total, config.imbalance = 5, channel.own * Unit + amount)
       - interpolate(channel.total, config.imbalance = 5, channel.own * Unit)

flatFee(config) == config.flat * Token
proportionalFee(config, amount) == abs(amount) * config.proportional

\* standardCalculator.channelFee: the sum of what each model takes
channelFee(config, channel, amount) ==
  flatFee(config) + proportionalFee(config, amount) + imbalance(config, channel, amount)

\* makeFeeFunctionFromAmountIn: what is left of amountIn when amountOut is forwarded
excess(config, channelIn, channelOut, amountIn, amountOut) ==
  channelFee(config, channelIn, amountIn * Unit) + channelFee(config, channelOut, -amountOut)
    - amountIn * Token + amountOut * Percent

\* ... and whether there is an amount at all
hasRoot(config, channelIn, channelOut, amountIn) ==
  /\ channelOut.own > 0
  /\ excess(config, channelIn, channelOut, amountIn, 0) < 0
  /\ excess(config, channelIn, channelOut, amountIn, channelOut.own * Unit) >= 0

\* Mutant of search: it goes on with the half that has no root
searchOther(f, b) ==
  LET isLinear(i) == f[i[1]] + f[i[2]] = 2 * f[(i[1] + i[2]) \div 2]
      halves(i, x) == IF f[x] < 0 THEN <<i[1], x>> ELSE <<x, i[2]>>
      next(i) == IF isLinear(i) THEN i ELSE halves(i, (i[1] + i[2]) \div 2)
      interval[n \in 0..Depth] == IF n = 0 THEN <<0, b>> ELSE next(interval[n - 1])
  IN interval[Depth]

\* The interval [a, b] is halved until the function f is linear in it
search(f, b) ==
  LET isLinear(i) == f[i[1]] + f[i[2]] = 2 * f[(i[1] + i[2]) \div 2]
      halves(i, x) == IF f[x] >= 0 THEN <<i[1], x>> ELSE <<x, i[2]>>
      next(i) == IF isLinear(i) THEN i ELSE halves(i, (i[1] + i[2]) \div 2)
      interval[n \in 0..Depth] == IF n = 0 THEN <<0, b>> ELSE next(interval[n - 1])
  IN interval[Depth]

\* amountIn minus the root of f in the interval i
minusRoot(f, i, amountIn) ==
  LET slope == (f[i[2]] - f[i[1]]) \div (i[2] - i[1])
  IN round((amountIn * Unit - i[1]) * slope + f[i[1]], Unit * slope)
feeOf(config, channelIn, channelOut, amountIn) ==
  LET found(f) == minusRoot(f, search(f, channelOut.own * Unit), amountIn)
  IN found([x \in Nat |-> excess(config, channelIn, channelOut, amountIn, x)])

\* Mutant of fee: a fee below zero is paid
feeUncapped(config, channelIn, channelOut, amountIn) == feeOf(config, channelIn, channelOut, amountIn)

fee(config, channelIn, channelOut, amountIn) ==
  LET f == feeOf(config, channelIn, channelOut, amountIn)
  IN IF config.cap /\ f < 0 THEN 0 ELSE f

\* decodeConfig of proportionalFee: half of the fee of a hop, for each of its channels, in
\* parts per million (the ratio p of a hop is p / (p + 2) of a channel)
perChannel(perHop) == round(perHop * 10000, perHop \div 100 + 20000)

=============================================================================
