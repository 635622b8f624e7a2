--------------------------- MODULE FundingProofs ---------------------------
(***************************************************************************)
(* However many openings and deposits of a channel are under way at once,  *)
(* no more is deposited than was asked for, and all of it if nothing fails.*)
(***************************************************************************)
EXTENDS Funding, TLAPS, WellFoundedInduction, SequenceTheorems

\* The sum of a function on the identifiers of requests
sum(f) == LET s[k \in 0..MaxRequests] == IF k = 0 THEN 0 ELSE s[k - 1] + f[k] IN s[MaxRequests]

\* What a set of requests asks for, by identifier and in all
amountsOf(S) == [id \in Id |-> IF \E r \in S : r.id = id THEN (CHOOSE r \in S : r.id = id).amount ELSE 0]
sumOf(S) == sum(amountsOf(S))

requestsOf(p) == {r \in Range(queue) : r.partner = p}
started(p) == {r \in requestsOf(p) : r.step # "queued"}
waiting(p) == {r \in requestsOf(p) : r.relative /\ r.step = "queued"}
initial(p) == {r \in requestsOf(p) : ~r.relative}
\* What was asked for without what waits to be added
due(p) == asked[p].open + asked[p].more - sumOf(waiting(p))

Types ==
  /\ config \in Configs
  /\ balance \in Nat /\ allowance \in Nat
  /\ contract \in [Partner -> [opened : BOOLEAN, own : Nat, partner : Nat]]
  /\ mempool \in Seq(Tx) /\ logs \in Seq(Log)
  /\ channels \in [Partner -> [known : BOOLEAN, own : Nat, partner : Nat]]
  /\ queue \in Seq(DepositRequest) /\ openings \subseteq OpenRequest
  /\ requests \in 0..MaxRequests /\ failed \subseteq Partner /\ plan \in [Partner -> Seq(Amount)]
  /\ asked \in [Partner -> [opens : Nat, open : Nat, more : Nat]]

\* Requests queue in the order in which they were made, and only the first one of a channel is handled
Sorted ==
  /\ \A i, j \in DOMAIN queue : i < j => queue[i].id < queue[j].id
  /\ \A i \in DOMAIN queue : queue[i].id <= requests
Serial ==
  \A r, s \in Range(queue) : r.partner = s.partner /\ r.id < s.id => s.step = "queued"

\* What is known of a deposit, or going to be, is what there is
OnChain ==
  \A p \in Partner :
     /\ ~contract[p].opened => contract[p].own = 0
     /\ channels[p].own <= contract[p].own
     /\ \A i \in DOMAIN logs : logs[i].partner = p /\ logs[i].participant = "own" => logs[i].total <= contract[p].own
     /\ \/ channels[p].own = contract[p].own
        \/ \E i \in DOMAIN logs : /\ logs[i].partner = p /\ logs[i].participant = "own" /\ logs[i].type = "deposit"
                                  /\ logs[i].total = contract[p].own
     /\ \A i \in DOMAIN logs :
           logs[i].partner = p /\ logs[i].participant = "partner" /\ logs[i].type = "deposit" => contract[p].partner > 0

\* No more than what is due is deposited, nor going to be
bounded(p) ==
  /\ sumOf(waiting(p)) <= asked[p].more
  /\ \A r \in initial(p) : r.amount <= asked[p].open /\ (r.step # "queued" => r.total = r.amount)
  /\ \A r \in started(p) : r.total <= due(p)
NoMore ==
  \A p \in Partner :
     /\ bounded(p)
     /\ contract[p].own <= due(p)
     /\ \A i \in DOMAIN mempool :
           mempool[i].partner = p /\ mempool[i].method # "approve" => mempool[i].value <= due(p)
     /\ \A o \in openings : o.partner = p => o.amount <= asked[p].open

\* ... nor less, if nothing failed and the partner deposits nothing
isFine(p) == p \notin failed /\ contract[p].partner = 0
reached(p) ==
  /\ asked[p].open <= channels[p].own \/ \E r \in initial(p) : r.amount = asked[p].open
  /\ asked[p].opens = 0 =>
       /\ asked[p].open = 0 /\ initial(p) = {}
       /\ ~channels[p].known => asked[p].more = 0 /\ requestsOf(p) = {}
  /\ asked[p].opens <= 1 =>
       /\ \A r \in initial(p) : /\ asked[p].more = sumOf(waiting(p))
                                /\ \A s \in requestsOf(p) : s = r \/ (s.relative /\ r.id < s.id)
       /\ initial(p) = {} =>
            /\ \A r \in started(p) : r.total >= due(p)
            /\ started(p) = {} => channels[p].own >= due(p)
NoLess == \A p \in Partner : isFine(p) => reached(p)

IInv == Types /\ Sorted /\ Serial /\ OnChain /\ NoMore /\ NoLess

-----------------------------------------------------------------------------
(* Sums *)

LEMMA Bounds == MaxRequests \in Nat /\ Id = 1..MaxRequests /\ Amount \subseteq Nat \ {0} /\ MaxUint256 \in Nat
BY FundingAssumption DEF Id

\* A set of numbers has a smallest one
LEMMA Smallest ==
  ASSUME NEW T \in SUBSET Nat, T # {}
  PROVE  \E x \in T : \A y \in T : x <= y
<1>1. PICK x \in T : \A y \in T : ~(<<y, x>> \in OpToRel(<, Nat))
  BY NatLessThanWellFounded, WFMin, Zenon
<1>2. \A y \in T : ~(y < x)
  BY <1>1 DEF OpToRel
<1> QED
  BY <1>2

\* s adds f up
adds(s, f, n) == s[0] = 0 /\ \A k \in 1..n : s[k] = s[k - 1] + f[k]

LEMMA AddsUp ==
  ASSUME NEW f \in [Id -> Nat]
  PROVE  \E s \in [0..MaxRequests -> Nat] : adds(s, f, MaxRequests)
<1> DEFINE N == MaxRequests
           Fails == {n \in 0..N : ~\E s \in [0..n -> Nat] : adds(s, f, n)}
<1>1. N \in Nat /\ Id = 1..N
  BY Bounds
<1>a. N \in 0..N /\ Fails \in SUBSET Nat
  BY <1>1
<1> SUFFICES ASSUME Fails # {} PROVE FALSE
  BY <1>a
<1>2. PICK n \in Fails : \A k \in Fails : n <= k
  <2> HIDE DEF Fails
  <2> QED
    BY <1>a, Smallest
<1>3. n # 0
  <2>1. [k \in 0..0 |-> 0] \in [0..0 -> Nat] /\ adds([k \in 0..0 |-> 0], f, 0)
    BY DEF adds
  <2> QED
    BY <2>1
<1>4. n \in 1..N /\ n - 1 \in 0..N /\ n - 1 \notin Fails
  <2>1. n \in 0..N
    OBVIOUS
  <2>2. n \in 1..N /\ n - 1 \in 0..N /\ ~(n <= n - 1)
    BY <1>1, <1>3, <2>1
  <2> HIDE DEF Fails
  <2> QED
    BY <1>2, <2>2
<1>5. PICK s \in [0..(n - 1) -> Nat] : adds(s, f, n - 1)
  BY <1>4
<1> DEFINE t == [k \in 0..n |-> IF k = n THEN s[n - 1] + f[n] ELSE s[k]]
<1>6. t \in [0..n -> Nat]
  BY <1>1, <1>4, <1>5
<1>7. adds(t, f, n)
  <2>1. t[0] = 0
    BY <1>1, <1>4, <1>5 DEF adds
  <2>2. ASSUME NEW k \in 1..n PROVE t[k] = t[k - 1] + f[k]
    <3>1. n \in Nat /\ k \in 0..n /\ k - 1 \in 0..n /\ k - 1 # n
      BY <1>1, <1>4
    <3>2. t[k - 1] = s[k - 1]
      BY <3>1
    <3>3. CASE k = n
      BY <3>1, <3>2, <3>3
    <3>4. CASE k # n
      <4>1. k \in 1..(n - 1)
        BY <3>1, <3>4
      <4>2. t[k] = s[k] /\ s[k] = s[k - 1] + f[k]
        BY <1>5, <3>1, <3>4, <4>1 DEF adds
      <4> QED
        BY <3>2, <4>2
    <3> QED
      BY <3>3, <3>4
  <2> QED
    BY <2>1, <2>2 DEF adds
<1> QED
  BY <1>2, <1>6, <1>7

LEMMA SumAdds ==
  ASSUME NEW f \in [Id -> Nat]
  PROVE  \E s \in [0..MaxRequests -> Nat] : adds(s, f, MaxRequests) /\ sum(f) = s[MaxRequests]
<1> DEFINE step(s) == [k \in 0..MaxRequests |-> IF k = 0 THEN 0 ELSE s[k - 1] + f[k]]
           s == CHOOSE s : s = step(s)
<1>1. MaxRequests \in Nat /\ Id = 1..MaxRequests
  BY Bounds
<1>2. PICK t \in [0..MaxRequests -> Nat] : adds(t, f, MaxRequests)
  BY AddsUp
<1>3. t = step(t)
  BY <1>1, <1>2 DEF adds
<1>4. s = step(s)
  BY <1>3
<1>5. sum(f) = s[MaxRequests]
  BY DEF sum
<1> HIDE DEF s
<1>6. adds(s, f, MaxRequests)
  BY <1>1, <1>4 DEF adds
<1>7. \A k \in 0..MaxRequests : s[k] = t[k]
  <2> DEFINE Differ == {k \in 0..MaxRequests : s[k] # t[k]}
  <2> SUFFICES ASSUME Differ # {} PROVE FALSE
    OBVIOUS
  <2>1. Differ \in SUBSET Nat
    BY <1>1
  <2>2. PICK k \in Differ : \A j \in Differ : k <= j
    BY <2>1, Smallest
  <2>3. k # 0
    BY <1>2, <1>6 DEF adds
  <2>4. k \in 1..MaxRequests /\ k - 1 \in 0..MaxRequests /\ k - 1 \notin Differ
    BY <1>1, <2>2, <2>3
  <2> QED
    BY <1>2, <1>6, <2>2, <2>4 DEF adds
<1>8. s \in [0..MaxRequests -> Nat]
  BY <1>4, <1>7
<1> QED
  BY <1>5, <1>6, <1>8

\* Another amount of one request changes the sum by their difference
LEMMA SumChanges ==
  ASSUME NEW f \in [Id -> Nat], NEW g \in [Id -> Nat], NEW id \in Id, \A k \in Id : k # id => f[k] = g[k]
  PROVE  sum(f) \in Nat /\ sum(g) \in Nat /\ sum(g) = sum(f) - f[id] + g[id]
<1>1. MaxRequests \in Nat /\ Id = 1..MaxRequests
  BY Bounds
<1>2. PICK s \in [0..MaxRequests -> Nat] : adds(s, f, MaxRequests) /\ sum(f) = s[MaxRequests]
  BY SumAdds
<1>3. PICK t \in [0..MaxRequests -> Nat] : adds(t, g, MaxRequests) /\ sum(g) = t[MaxRequests]
  BY SumAdds
<1> DEFINE agree(k) == t[k] = IF k < id THEN s[k] ELSE s[k] - f[id] + g[id]
           Differ == {k \in 0..MaxRequests : ~agree(k)}
<1>4. Differ = {}
  <2> SUFFICES ASSUME Differ # {} PROVE FALSE
    OBVIOUS
  <2>1. Differ \in SUBSET Nat
    BY <1>1
  <2>2. PICK k \in Differ : \A j \in Differ : k <= j
    BY <2>1, Smallest
  <2>3. k # 0
    BY <1>1, <1>2, <1>3 DEF adds
  <2>4. k \in 1..MaxRequests /\ k - 1 \in 0..MaxRequests /\ k - 1 \notin Differ
    <3>1. k \in 0..MaxRequests
      OBVIOUS
    <3>2. k \in 1..MaxRequests /\ k - 1 \in 0..MaxRequests /\ ~(k <= k - 1)
      BY <1>1, <2>3, <3>1
    <3> HIDE DEF Differ
    <3> QED
      BY <2>2, <3>2
  <2>5. t[k - 1] = IF k - 1 < id THEN s[k - 1] ELSE s[k - 1] - f[id] + g[id]
    BY <2>4
  <2>6. s[k] = s[k - 1] + f[k] /\ t[k] = t[k - 1] + g[k]
    BY <1>2, <1>3, <2>4 DEF adds
  <2>7. k # id => f[k] = g[k]
    BY <1>1, <2>4
  <2>8. /\ s[k] \in Nat /\ t[k] \in Nat /\ s[k - 1] \in Nat /\ t[k - 1] \in Nat
        /\ f[k] \in Nat /\ g[k] \in Nat /\ f[id] \in Nat /\ g[id] \in Nat /\ k \in Int /\ id \in Int
    BY <1>1, <1>2, <1>3, <2>4
  <2>9. agree(k)
    <3>1. CASE k < id
      BY <2>5, <2>6, <2>7, <2>8, <3>1
    <3>2. CASE k = id
      BY <2>5, <2>6, <2>7, <2>8, <3>2
    <3>3. CASE k > id
      <4>1. ~(k < id) /\ ~(k - 1 < id) /\ k # id
        BY <2>8, <3>3
      <4>2. t[k - 1] = s[k - 1] - f[id] + g[id] /\ f[k] = g[k]
        BY <2>5, <2>7, <4>1
      <4>3. t[k] = s[k] - f[id] + g[id]
        <5>1. t[k] = (s[k - 1] - f[id] + g[id]) + f[k]
          BY <2>6, <4>2
        <5>2. s[k] = s[k - 1] + f[k]
          BY <2>6
        <5> DEFINE a == s[k - 1] b == f[id] c == g[id] d == f[k]
        <5>3. a \in Nat /\ b \in Nat /\ c \in Nat /\ d \in Nat
          BY <2>8
        <5> HIDE DEF a, b, c, d
        <5>4. (a - b + c) + d = (a + d) - b + c
          BY <5>3
        <5> QED
          BY <5>1, <5>2, <5>4 DEF a, b, c, d
      <4> QED
        BY <4>1, <4>3
    <3> QED
      BY <2>8, <3>1, <3>2, <3>3
  <2> QED
    BY <2>2, <2>9
<1>5. agree(MaxRequests)
  <2>1. MaxRequests \in 0..MaxRequests
    BY <1>1
  <2> QED
    BY <1>4, <2>1
<1>6. ~(MaxRequests < id) /\ MaxRequests \in 0..MaxRequests /\ f[id] \in Nat /\ g[id] \in Nat
  BY <1>1
<1>7. s[MaxRequests] \in Nat /\ t[MaxRequests] \in Nat
  BY <1>2, <1>3, <1>6
<1> QED
  BY <1>2, <1>3, <1>5, <1>6, <1>7

LEMMA SumOfNothing ==
  ASSUME NEW f \in [Id -> Nat], \A k \in Id : f[k] = 0
  PROVE  sum(f) = 0
<1>1. MaxRequests \in Nat /\ Id = 1..MaxRequests
  BY Bounds
<1>2. PICK s \in [0..MaxRequests -> Nat] : adds(s, f, MaxRequests) /\ sum(f) = s[MaxRequests]
  BY SumAdds
<1> DEFINE More == {k \in 0..MaxRequests : s[k] # 0}
<1>3. More = {}
  <2> SUFFICES ASSUME More # {} PROVE FALSE
    OBVIOUS
  <2>1. More \in SUBSET Nat
    BY <1>1
  <2>2. PICK k \in More : \A j \in More : k <= j
    BY <2>1, Smallest
  <2>3. k \in 1..MaxRequests /\ k - 1 \in 0..MaxRequests /\ k - 1 \notin More
    BY <1>1, <1>2, <2>2 DEF adds
  <2> QED
    BY <1>1, <1>2, <2>2, <2>3 DEF adds
<1> QED
  BY <1>1, <1>2, <1>3

\* Requests with an identifier each
distinct(S) == \A r, s \in S : r.id = s.id => r = s

LEMMA AmountsOf ==
  ASSUME NEW S \in SUBSET DepositRequest, distinct(S)
  PROVE  /\ amountsOf(S) \in [Id -> Nat]
         /\ \A r \in S : amountsOf(S)[r.id] = r.amount
         /\ \A id \in Id : (\A r \in S : r.id # id) => amountsOf(S)[id] = 0
<1>1. \A r \in S : r.id \in Id /\ r.amount \in Nat
  BY DEF DepositRequest
<1>2. \A r \in S : (CHOOSE s \in S : s.id = r.id) = r
  BY DEF distinct
<1> QED
  BY <1>1, <1>2 DEF amountsOf

LEMMA SumOfNone ==
  /\ sumOf({}) = 0
  /\ \A S \in SUBSET DepositRequest : distinct(S) => sumOf(S) \in Nat
<1>1. distinct({})
  BY DEF distinct
<1>2. sumOf({}) = 0
  BY <1>1, AmountsOf, SumOfNothing DEF sumOf
<1>3. ASSUME NEW S \in SUBSET DepositRequest, distinct(S) PROVE sumOf(S) \in Nat
  <2>1. amountsOf(S) \in [Id -> Nat]
    BY <1>3, AmountsOf
  <2>2. PICK s \in [0..MaxRequests -> Nat] : sum(amountsOf(S)) = s[MaxRequests]
    BY <2>1, SumAdds
  <2> QED
    BY <2>2, Bounds DEF sumOf
<1> QED
  BY <1>2, <1>3

\* One request more
LEMMA SumOfMore ==
  ASSUME NEW S \in SUBSET DepositRequest, NEW r \in DepositRequest, r \notin S, distinct(S \cup {r})
  PROVE  sumOf(S \cup {r}) = sumOf(S) + r.amount
<1>1. distinct(S) /\ \A s \in S : s.id # r.id
  BY DEF distinct
<1>2. r.id \in Id /\ r.amount \in Nat /\ S \cup {r} \in SUBSET DepositRequest
  BY DEF DepositRequest
<1> DEFINE f == amountsOf(S) g == amountsOf(S \cup {r})
<1>3. f \in [Id -> Nat] /\ g \in [Id -> Nat] /\ f[r.id] = 0 /\ g[r.id] = r.amount
  BY <1>1, <1>2, AmountsOf
<1>4. ASSUME NEW k \in Id, k # r.id PROVE f[k] = g[k]
  <2>1. CASE \E s \in S : s.id = k
    <3>1. PICK s \in S : s.id = k
      BY <2>1
    <3>2. f[k] = s.amount
      BY <1>1, <3>1, AmountsOf
    <3>3. g[k] = s.amount
      BY <1>2, <3>1, AmountsOf
    <3> QED
      BY <3>2, <3>3
  <2>2. CASE \A s \in S : s.id # k
    <3>1. f[k] = 0
      BY <1>1, <2>2, AmountsOf
    <3>2. g[k] = 0
      BY <1>2, <1>4, <2>2, AmountsOf
    <3> QED
      BY <3>1, <3>2
  <2> QED
    BY <2>1, <2>2
<1> HIDE DEF f, g
<1>5. sum(f) \in Nat /\ sum(g) = sum(f) - f[r.id] + g[r.id]
  BY <1>2, <1>3, <1>4, SumChanges
<1> QED
  BY <1>2, <1>3, <1>5 DEF sumOf, f, g

-----------------------------------------------------------------------------
(* The queue *)

LEMMA RangeIs ==
  ASSUME NEW S, NEW q \in Seq(S)
  PROVE  /\ Len(q) \in Nat /\ DOMAIN q = 1..Len(q) /\ Range(q) = {q[j] : j \in 1..Len(q)} /\ Range(q) \subseteq S
         /\ \A j \in DOMAIN q : q[j] \in S /\ q[j] \in Range(q)
BY DEF Range

LEMMA RemoveAtIs ==
  ASSUME NEW S, NEW q \in Seq(S), NEW i \in DOMAIN q
  PROVE  /\ RemoveAt(q, i) \in Seq(S) /\ Len(RemoveAt(q, i)) = Len(q) - 1
         /\ \A j \in 1..(Len(q) - 1) : RemoveAt(q, i)[j] = IF j < i THEN q[j] ELSE q[j + 1]
<1> DEFINE a == SubSeq(q, 1, i - 1) b == SubSeq(q, i + 1, Len(q))
<1>1. Len(q) \in Nat /\ i \in 1..Len(q) /\ \A j \in 1..Len(q) : q[j] \in S
  BY RangeIs
<1>2. a \in Seq(S) /\ Len(a) = i - 1 /\ \A j \in 1..(i - 1) : a[j] = q[j]
  BY <1>1
<1>3. b \in Seq(S) /\ Len(b) = Len(q) - i /\ \A j \in 1..(Len(q) - i) : b[j] = q[i + j]
  BY <1>1
<1> HIDE DEF a, b
<1>4. a \o b \in Seq(S) /\ Len(a \o b) = Len(q) - 1
  BY <1>1, <1>2, <1>3
<1>5. ASSUME NEW j \in 1..(Len(q) - 1) PROVE (a \o b)[j] = IF j < i THEN q[j] ELSE q[j + 1]
  <2>1. CASE j < i
    BY <1>1, <1>2, <1>3, <2>1
  <2>2. CASE ~(j < i)
    <3>1. (a \o b)[j] = b[j - (i - 1)] /\ j - (i - 1) \in 1..(Len(q) - i)
      BY <1>1, <1>2, <1>3, <2>2, SMTT(30)
    <3>2. i + (j - (i - 1)) = j + 1
      BY <1>1
    <3> QED
      BY <1>3, <2>2, <3>1, <3>2
  <2> QED
    BY <2>1, <2>2
<1> QED
  BY <1>4, <1>5 DEF RemoveAt, a, b

\* Without the element at i
LEMMA RangeRemoved ==
  ASSUME NEW S, NEW q \in Seq(S), NEW i \in DOMAIN q, \A j \in DOMAIN q : q[j] = q[i] => j = i
  PROVE  Range(RemoveAt(q, i)) = Range(q) \ {q[i]}
<1> DEFINE r == RemoveAt(q, i)
<1>1. Len(q) \in Nat /\ i \in 1..Len(q) /\ DOMAIN q = 1..Len(q)
  BY RangeIs
<1>2. r \in Seq(S) /\ Len(r) = Len(q) - 1 /\ \A j \in 1..(Len(q) - 1) : r[j] = IF j < i THEN q[j] ELSE q[j + 1]
  BY RemoveAtIs
<1> HIDE DEF r
<1>3. Range(r) = {r[j] : j \in 1..(Len(q) - 1)} /\ Range(q) = {q[j] : j \in 1..Len(q)}
  BY <1>1, <1>2 DEF Range
<1>4. ASSUME NEW j \in 1..(Len(q) - 1) PROVE r[j] \in Range(q) \ {q[i]}
  BY <1>1, <1>2, <1>3, SMTT(30)
<1>5. ASSUME NEW k \in 1..Len(q), q[k] # q[i] PROVE q[k] \in Range(r)
  <2>1. k # i
    BY <1>5
  <2>2. CASE k < i
    <3>1. k \in 1..(Len(q) - 1) /\ r[k] = q[k]
      BY <1>1, <1>2, <2>2
    <3> QED
      BY <1>3, <3>1
  <2>3. CASE k > i
    <3>1. k - 1 \in 1..(Len(q) - 1) /\ ~(k - 1 < i) /\ (k - 1) + 1 = k
      BY <1>1, <2>3
    <3>2. r[k - 1] = q[k]
      BY <1>2, <3>1
    <3> QED
      BY <1>3, <3>1, <3>2
  <2> QED
    BY <1>1, <2>1, <2>2, <2>3
<1> QED
  BY <1>3, <1>4, <1>5 DEF r

LEMMA RequestsAre ==
  ASSUME IInv
  PROVE  /\ Len(queue) \in Nat /\ DOMAIN queue = 1..Len(queue) /\ distinct(Range(queue))
         /\ \A i \in DOMAIN queue : queue[i] \in DepositRequest /\ queue[i] \in Range(queue)
         /\ \A i, j \in DOMAIN queue : queue[i] = queue[j] => i = j
         /\ Range(queue) \subseteq DepositRequest
         /\ \A r \in Range(queue) : \E i \in DOMAIN queue : queue[i] = r
         /\ \A p : /\ requestsOf(p) \subseteq DepositRequest /\ distinct(requestsOf(p))
                   /\ waiting(p) \subseteq DepositRequest /\ distinct(waiting(p)) /\ sumOf(waiting(p)) \in Nat
<1>1. /\ Len(queue) \in Nat /\ DOMAIN queue = 1..Len(queue) /\ Range(queue) = {queue[j] : j \in 1..Len(queue)}
      /\ Range(queue) \subseteq DepositRequest /\ \A j \in DOMAIN queue : queue[j] \in DepositRequest /\ queue[j] \in Range(queue)
  BY RangeIs DEF IInv, Types
<1>2. ASSUME NEW i \in DOMAIN queue, NEW j \in DOMAIN queue, queue[i].id = queue[j].id PROVE i = j
  <2>1. queue[i].id \in Nat /\ queue[j].id \in Nat /\ i \in Int /\ j \in Int
    BY <1>1, Bounds, SMTT(30) DEF DepositRequest
  <2>2. ~(i < j) /\ ~(j < i)
    BY <1>2, <2>1 DEF IInv, Sorted
  <2> QED
    BY <2>1, <2>2
<1>3. distinct(Range(queue))
  BY <1>1, <1>2 DEF distinct
<1>4. ASSUME NEW p
      PROVE  /\ requestsOf(p) \subseteq DepositRequest /\ distinct(requestsOf(p))
             /\ waiting(p) \subseteq DepositRequest /\ distinct(waiting(p)) /\ sumOf(waiting(p)) \in Nat
  <2>1. /\ requestsOf(p) \subseteq DepositRequest /\ distinct(requestsOf(p))
        /\ waiting(p) \subseteq DepositRequest /\ distinct(waiting(p))
    BY <1>1, <1>3 DEF requestsOf, waiting, distinct
  <2> QED
    BY <2>1, SumOfNone
<1> QED
  BY <1>1, <1>2, <1>3, <1>4

\* Who is handled comes first
LEMMA HeadIsFirst ==
  ASSUME IInv, NEW i \in DOMAIN queue, isHead(i)
  PROVE  \A s \in requestsOf(queue[i].partner) : s = queue[i] \/ (queue[i].id < s.id /\ s.step = "queued")
<1> SUFFICES ASSUME NEW s \in requestsOf(queue[i].partner), s # queue[i]
             PROVE  queue[i].id < s.id /\ s.step = "queued"
  OBVIOUS
<1>1. PICK j \in DOMAIN queue : queue[j] = s /\ s.partner = queue[i].partner
  BY RequestsAre DEF requestsOf
<1>2. i \in Nat /\ j \in Nat /\ i # j /\ 1 <= j
  BY <1>1, RequestsAre
<1>3. ~(j < i)
  <2>1. ASSUME j < i PROVE FALSE
    <3>1. j \in 1..(i - 1)
      BY <1>2, <2>1
    <3> QED
      BY <1>1, <3>1 DEF isHead, sameGroup
  <2> QED
    BY <2>1
<1>4. queue[i].id < s.id
  BY <1>1, <1>2, <1>3 DEF IInv, Sorted
<1> QED
  BY <1>1, <1>4, RequestsAre DEF IInv, Serial

\* A request is removed
LEMMA Removed ==
  ASSUME IInv, NEW i \in DOMAIN queue, queue' = RemoveAt(queue, i), requests' = requests
  PROVE  /\ queue' \in Seq(DepositRequest) /\ Sorted' /\ Serial'
         /\ \A p : requestsOf(p)' = requestsOf(p) \ {queue[i]}
         /\ \A p : /\ p # queue[i].partner => requestsOf(p)' = requestsOf(p)
                   /\ sumOf(waiting(p))' \in Nat /\ sumOf(waiting(p))' <= sumOf(waiting(p))
                   /\ queue[i].step # "queued" => sumOf(waiting(p))' = sumOf(waiting(p))
<1>1. /\ queue' \in Seq(DepositRequest) /\ Len(queue') = Len(queue) - 1
      /\ \A j \in 1..(Len(queue) - 1) : queue'[j] = IF j < i THEN queue[j] ELSE queue[j + 1]
  BY RemoveAtIs DEF IInv, Types
<1>2. Range(queue)' = Range(queue) \ {queue[i]}
  BY RangeRemoved, RequestsAre DEF IInv, Types
<1>3. DOMAIN queue' = 1..(Len(queue) - 1) /\ Len(queue) \in Nat /\ i \in 1..Len(queue) /\ DOMAIN queue = 1..Len(queue)
  BY <1>1, RequestsAre
<1>4. Sorted'
  <2>1. ASSUME NEW j \in 1..(Len(queue) - 1), NEW k \in 1..(Len(queue) - 1), j < k PROVE queue'[j].id < queue'[k].id
    <3> DEFINE a == IF j < i THEN j ELSE j + 1 b == IF k < i THEN k ELSE k + 1
    <3>1. a \in DOMAIN queue /\ b \in DOMAIN queue /\ a < b
      BY <1>3, <2>1
    <3>2. queue'[j] = queue[a] /\ queue'[k] = queue[b]
      BY <1>1
    <3> QED
      BY <3>1, <3>2 DEF IInv, Sorted
  <2>2. ASSUME NEW j \in 1..(Len(queue) - 1) PROVE queue'[j].id <= requests
    <3> DEFINE a == IF j < i THEN j ELSE j + 1
    <3>1. a \in DOMAIN queue
      BY <1>3
    <3>2. queue'[j] = queue[a]
      BY <1>1
    <3> QED
      BY <3>1, <3>2 DEF IInv, Sorted
  <2> QED
    BY <1>3, <2>1, <2>2 DEF Sorted
<1>5. Serial'
  BY <1>2 DEF IInv, Serial
<1>6. \A p : requestsOf(p)' = requestsOf(p) \ {queue[i]}
  BY <1>2 DEF requestsOf
<1>7. ASSUME NEW p
      PROVE  /\ p # queue[i].partner => requestsOf(p)' = requestsOf(p)
             /\ sumOf(waiting(p))' \in Nat /\ sumOf(waiting(p))' <= sumOf(waiting(p))
             /\ queue[i].step # "queued" => sumOf(waiting(p))' = sumOf(waiting(p))
  <2> DEFINE W == waiting(p) r == queue[i]
  <2>1. W \subseteq DepositRequest /\ distinct(W) /\ sumOf(W) \in Nat /\ r \in DepositRequest /\ r.amount \in Nat
    BY RequestsAre DEF DepositRequest
  <2>2. waiting(p)' = W \ {r}
    BY <1>6 DEF waiting
  <2>3. sumOf(waiting(p))' = sumOf(W \ {r})
    BY <2>2 DEF sumOf, sum, amountsOf
  <2>4. CASE r \in W
    <3>1. W = (W \ {r}) \cup {r} /\ distinct(W \ {r})
      BY <2>1, <2>4 DEF distinct
    <3> DEFINE V == W \ {r}
    <3>2. V \in SUBSET DepositRequest /\ r \notin V /\ distinct(V \cup {r}) /\ W = V \cup {r} /\ distinct(V)
      BY <2>1, <3>1
    <3> HIDE DEF V, W
    <3>3. sumOf(W) = sumOf(V) + r.amount /\ sumOf(V) \in Nat
      BY <2>1, <3>2, SumOfMore, SumOfNone
    <3>4. sumOf(waiting(p))' = sumOf(V)
      BY <2>3 DEF V
    <3>5. r.step = "queued"
      BY <2>4 DEF W, waiting
    <3>6. p # queue[i].partner => requestsOf(p)' = requestsOf(p)
      BY <1>6 DEF requestsOf
    <3> QED
      BY <2>1, <3>3, <3>4, <3>5, <3>6 DEF W
  <2>5. CASE r \notin W
    <3>1. W \ {r} = W
      BY <2>5
    <3>2. p # queue[i].partner => requestsOf(p)' = requestsOf(p)
      BY <1>6 DEF requestsOf
    <3> QED
      BY <2>1, <2>3, <3>1, <3>2
  <2> QED
    BY <2>4, <2>5
<1> QED
  BY <1>1, <1>4, <1>5, <1>6, <1>7

\* A request goes on
LEMMA Replaced ==
  ASSUME IInv, NEW i \in DOMAIN queue, isHead(i), NEW s \in DepositRequest, queue' = [queue EXCEPT ![i] = s],
         s.id = queue[i].id, s.partner = queue[i].partner, s.relative = queue[i].relative,
         s.amount = queue[i].amount, s.step # "queued", requests' = requests
  PROVE  /\ queue' \in Seq(DepositRequest) /\ Sorted' /\ Serial'
         /\ \A p : p # queue[i].partner => requestsOf(p)' = requestsOf(p)
         /\ \A p : p = queue[i].partner => requestsOf(p)' = (requestsOf(p) \ {queue[i]}) \cup {s}
         /\ \A p : sumOf(waiting(p))' =
                      sumOf(waiting(p)) - (IF queue[i] \in waiting(p) THEN queue[i].amount ELSE 0)
<1> DEFINE r == queue[i]
<1>1. /\ queue' \in Seq(DepositRequest) /\ DOMAIN queue' = DOMAIN queue /\ DOMAIN queue = 1..Len(queue) /\ Len(queue) \in Nat
      /\ \A j \in DOMAIN queue : queue'[j] = IF j = i THEN s ELSE queue[j]
  BY RequestsAre DEF IInv, Types
<1>2. Range(queue') = (Range(queue) \ {r}) \cup {s}
  <2>1. Range(queue') = {queue'[j] : j \in DOMAIN queue} /\ Range(queue) = {queue[j] : j \in DOMAIN queue}
    BY <1>1 DEF Range
  <2>2. \A j \in DOMAIN queue : queue[j] = queue[i] => j = i
    BY RequestsAre
  <2>3. \A x \in Range(queue') : x \in (Range(queue) \ {r}) \cup {s}
    BY <1>1, <2>1, <2>2
  <2>4. \A x \in (Range(queue) \ {r}) \cup {s} : x \in Range(queue')
    BY <1>1, <2>1, <2>2
  <2> QED
    BY <2>3, <2>4
<1>3. Sorted'
  BY <1>1 DEF IInv, Sorted
<1>4. \A p : p # r.partner => requestsOf(p)' = requestsOf(p)
  BY <1>2 DEF requestsOf
<1>5. \A p : p = r.partner => requestsOf(p)' = (requestsOf(p) \ {r}) \cup {s}
  BY <1>2 DEF requestsOf
<1>6. Serial'
  <2>1. ASSUME NEW x \in Range(queue'), NEW y \in Range(queue'), x.partner = y.partner, x.id < y.id
        PROVE  y.step = "queued"
    <3>1. CASE x.partner = r.partner
      <4> DEFINE p == x.partner
      <4>1. x \in requestsOf(p)' /\ y \in requestsOf(p)'
        BY <2>1 DEF requestsOf
      <4>2. \A z \in requestsOf(p) : z = r \/ (r.id < z.id /\ z.step = "queued")
        BY <3>1, HeadIsFirst
      <4>3. x.id \in Nat /\ y.id \in Nat /\ s.id \in Nat
        <5>1. Range(queue') \subseteq DepositRequest
          BY <1>1, RangeIs
        <5>2. \A z \in DepositRequest : z.id \in Nat
          BY Bounds DEF DepositRequest
        <5> QED
          BY <2>1, <5>1, <5>2
      <4>4. y # s
        <5>1. x = s \/ s.id < x.id
          BY <1>5, <3>1, <4>1, <4>2
        <5> QED
          BY <2>1, <4>3, <5>1
      <4> QED
        BY <1>5, <3>1, <4>1, <4>2, <4>4
    <3>2. CASE x.partner # r.partner
      <4>1. x \in Range(queue) /\ y \in Range(queue)
        BY <1>2, <2>1, <3>2
      <4> QED
        BY <2>1, <4>1 DEF IInv, Serial
    <3> QED
      BY <3>1, <3>2
  <2> QED
    BY <2>1 DEF Serial
<1>7. ASSUME NEW p
      PROVE  sumOf(waiting(p))' = sumOf(waiting(p)) - (IF r \in waiting(p) THEN r.amount ELSE 0)
  <2> DEFINE W == waiting(p)
  <2>1. W \subseteq DepositRequest /\ distinct(W) /\ sumOf(W) \in Nat /\ r \in DepositRequest /\ r.amount \in Nat
    BY RequestsAre DEF DepositRequest
  <2>2. waiting(p)' = W \ {r}
    <3>1. CASE p = r.partner
      BY <1>5, <3>1 DEF waiting
    <3>2. CASE p # r.partner
      <4>1. requestsOf(p)' = requestsOf(p) /\ r \notin requestsOf(p)
        BY <1>4, <3>2 DEF requestsOf
      <4> QED
        BY <4>1 DEF waiting
    <3> QED
      BY <3>1, <3>2
  <2>3. sumOf(waiting(p))' = sumOf(W \ {r})
    BY <2>2 DEF sumOf, sum, amountsOf
  <2> DEFINE V == W \ {r}
  <2>4. V \in SUBSET DepositRequest /\ r \notin V /\ distinct(V) /\ sumOf(V) \in Nat
    <3>1. V \in SUBSET DepositRequest /\ r \notin V /\ distinct(V)
      BY <2>1 DEF distinct
    <3> QED
      BY <3>1, SumOfNone
  <2>5. r \in W => W = V \cup {r}
    OBVIOUS
  <2>6. r \notin W => W = V
    OBVIOUS
  <2>7. r \in W => sumOf(W) = sumOf(V) + r.amount
    <3> HIDE DEF V, W, r
    <3>1. ASSUME r \in W PROVE sumOf(W) = sumOf(V) + r.amount
      <4>1. distinct(V \cup {r}) /\ W = V \cup {r}
        BY <2>1, <2>5, <3>1
      <4> QED
        BY <2>1, <2>4, <4>1, SumOfMore
    <3> QED
      BY <3>1
  <2> HIDE DEF V, W, r
  <2>8. CASE r \in W
    <3>1. sumOf(V) = sumOf(W) - r.amount
      BY <2>1, <2>4, <2>7, <2>8
    <3> QED
      BY <2>3, <2>8, <3>1 DEF V, W
  <2>9. CASE r \notin W
    BY <2>1, <2>3, <2>6, <2>9 DEF V, W
  <2> QED
    BY <2>8, <2>9
<1> QED
  BY <1>1, <1>3, <1>4, <1>5, <1>6, <1>7

\* A request is made
LEMMA Appended ==
  ASSUME IInv, NEW s \in DepositRequest, queue' = Append(queue, s), s.id = requests + 1, requests' = requests + 1,
         s.step = "queued"
  PROVE  /\ queue' \in Seq(DepositRequest) /\ Sorted' /\ Serial'
         /\ \A p : p # s.partner => requestsOf(p)' = requestsOf(p)
         /\ requestsOf(s.partner)' = requestsOf(s.partner) \cup {s}
         /\ \A r \in Range(queue) : r.id < s.id
         /\ \A p : sumOf(waiting(p))' = sumOf(waiting(p)) + (IF p = s.partner /\ s.relative THEN s.amount ELSE 0)
<1>1. /\ queue' \in Seq(DepositRequest) /\ DOMAIN queue' = 1..(Len(queue) + 1) /\ DOMAIN queue = 1..Len(queue)
      /\ Len(queue) \in Nat /\ requests \in Nat
      /\ \A j \in 1..Len(queue) : queue'[j] = queue[j]
      /\ queue'[Len(queue) + 1] = s
  BY RequestsAre, AppendProperties, Bounds DEF IInv, Types
<1>2. Range(queue') = Range(queue) \cup {s}
  <2>1. Range(queue') = {queue'[j] : j \in 1..(Len(queue) + 1)} /\ Range(queue) = {queue[j] : j \in 1..Len(queue)}
    BY <1>1 DEF Range
  <2>2. \A x \in Range(queue') : x \in Range(queue) \cup {s}
    BY <1>1, <2>1
  <2>3. \A x \in Range(queue) \cup {s} : x \in Range(queue')
    BY <1>1, <2>1
  <2> QED
    BY <2>2, <2>3
<1>3. \A r \in Range(queue) : r.id < s.id /\ r.id \in Nat
  <2>1. \A j \in DOMAIN queue : queue[j].id <= requests /\ queue[j].id \in Nat
    BY RequestsAre, Bounds DEF IInv, Sorted, DepositRequest
  <2> QED
    BY <1>1, <2>1, RequestsAre
<1>4. Sorted'
  <2>1. ASSUME NEW j \in DOMAIN queue', NEW k \in DOMAIN queue', j < k PROVE queue'[j].id < queue'[k].id
    <3>1. j \in DOMAIN queue
      BY <1>1, <2>1
    <3>2. CASE k \in DOMAIN queue
      BY <1>1, <2>1, <3>1, <3>2 DEF IInv, Sorted
    <3>3. CASE k = Len(queue) + 1
      BY <1>1, <1>3, <3>1, <3>3, RequestsAre
    <3> QED
      BY <1>1, <3>2, <3>3
  <2>2. ASSUME NEW k \in DOMAIN queue' PROVE queue'[k].id <= requests'
    <3>1. CASE k \in DOMAIN queue
      BY <1>1, <1>3, <3>1, RequestsAre
    <3>2. CASE k = Len(queue) + 1
      BY <1>1, <3>2
    <3> QED
      BY <1>1, <3>1, <3>2
  <2> QED
    BY <2>1, <2>2 DEF Sorted
<1>5. Serial'
  BY <1>1, <1>2, <1>3 DEF IInv, Serial
<1>6. \A p : p # s.partner => requestsOf(p)' = requestsOf(p)
  BY <1>2 DEF requestsOf
<1>7. requestsOf(s.partner)' = requestsOf(s.partner) \cup {s}
  BY <1>2 DEF requestsOf
<1>8. ASSUME NEW p
      PROVE  sumOf(waiting(p))' = sumOf(waiting(p)) + (IF p = s.partner /\ s.relative THEN s.amount ELSE 0)
  <2> DEFINE W == waiting(p)
  <2>1. W \subseteq DepositRequest /\ distinct(W) /\ sumOf(W) \in Nat /\ W \subseteq Range(queue)
    BY RequestsAre DEF waiting, requestsOf
  <2>2. CASE p = s.partner /\ s.relative
    <3>1. waiting(p)' = W \cup {s}
      BY <1>7, <2>2 DEF waiting
    <3>2. s \notin W /\ distinct(W \cup {s})
      BY <1>3, <1>1, <2>1 DEF distinct
    <3>3. sumOf(waiting(p))' = sumOf(W \cup {s})
      BY <3>1 DEF sumOf, sum, amountsOf
    <3> HIDE DEF W
    <3>4. sumOf(W \cup {s}) = sumOf(W) + s.amount
      BY <2>1, <3>2, SumOfMore
    <3> QED
      BY <2>2, <3>3, <3>4 DEF W
  <2>3. CASE ~(p = s.partner /\ s.relative)
    <3>1. waiting(p)' = W
      BY <1>6, <1>7, <2>3 DEF waiting
    <3>2. sumOf(waiting(p))' = sumOf(W)
      BY <3>1 DEF sumOf, sum, amountsOf
    <3> QED
      BY <2>1, <2>3, <3>2
  <2> QED
    BY <2>2, <2>3
<1> QED
  BY <1>1, <1>3, <1>4, <1>5, <1>6, <1>7, <1>8

-----------------------------------------------------------------------------
(* What is due *)

LEMMA NumbersAre ==
  ASSUME IInv, NEW p \in Partner
  PROVE  /\ asked[p].open \in Nat /\ asked[p].more \in Nat /\ asked[p].opens \in Nat /\ sumOf(waiting(p)) \in Nat
         /\ due(p) = asked[p].open + asked[p].more - sumOf(waiting(p)) /\ due(p) \in Int
         /\ channels[p].own \in Nat /\ contract[p].own \in Nat /\ contract[p].partner \in Nat
         /\ channels[p].known \in BOOLEAN
         /\ \A r \in requestsOf(p) : r.amount \in Nat /\ r.total \in Nat /\ r.id \in Nat /\ r \in DepositRequest
<1>1. /\ asked[p].open \in Nat /\ asked[p].more \in Nat /\ asked[p].opens \in Nat
      /\ channels[p].own \in Nat /\ contract[p].own \in Nat /\ contract[p].partner \in Nat
      /\ channels[p].known \in BOOLEAN
  BY DEF IInv, Types
<1>2. sumOf(waiting(p)) \in Nat /\ requestsOf(p) \subseteq DepositRequest
  BY RequestsAre
<1>3. \A r \in DepositRequest : r.amount \in Nat /\ r.total \in Nat /\ r.id \in Nat
  BY Bounds DEF DepositRequest
<1> QED
  BY <1>1, <1>2, <1>3 DEF due

\* A channel none of whose requests change
LEMMA Untouched ==
  ASSUME IInv, NEW p \in Partner, requestsOf(p)' = requestsOf(p), asked'[p] = asked[p]
  PROVE  /\ bounded(p)' /\ due(p)' = due(p) /\ sumOf(waiting(p))' = sumOf(waiting(p))
         /\ channels' = channels /\ failed \subseteq failed' /\ contract'[p].partner >= contract[p].partner /\ isFine(p)'
              => reached(p)'
<1>1. waiting(p)' = waiting(p) /\ started(p)' = started(p) /\ initial(p)' = initial(p)
  BY DEF waiting, started, initial
<1>2. sumOf(waiting(p))' = sumOf(waiting(p))
  BY <1>1 DEF sumOf, sum, amountsOf
<1>3. due(p)' = due(p)
  BY <1>2 DEF due
<1>4. bounded(p)'
  BY <1>1, <1>2, <1>3 DEF IInv, NoMore, bounded
<1>5. ASSUME channels' = channels, failed \subseteq failed', contract'[p].partner >= contract[p].partner, isFine(p)'
      PROVE  reached(p)'
  <2>1. isFine(p)
    BY <1>5, NumbersAre DEF isFine
  <2>2. reached(p)
    BY <2>1 DEF IInv, NoLess
  <2> QED
    BY <1>1, <1>2, <1>3, <1>5, <2>2 DEF reached
<1> QED
  BY <1>2, <1>3, <1>4, <1>5

\* What happens to a request that isn't answered with success
sameRequest(r, s) ==
  s.id = r.id /\ s.partner = r.partner /\ s.relative = r.relative /\ s.amount = r.amount /\ s.step # "queued"
goesOn(i) ==
  /\ isHead(i) /\ queue[i].step # "queued"
  /\ \E s \in DepositRequest : sameRequest(queue[i], s) /\ s.total = queue[i].total /\ queue' = [queue EXCEPT ![i] = s]
starts(i) ==
  /\ isHead(i) /\ queue[i].step = "queued"
  /\ \E s \in DepositRequest : /\ sameRequest(queue[i], s) /\ s.total = totalDeposit(queue[i])
                               /\ queue' = [queue EXCEPT ![i] = s]
fails(i) == queue' = RemoveAt(queue, i) /\ queue[i].partner \in failed'

\* ... keeps all that is said of requests
kept ==
  /\ queue' \in Seq(DepositRequest) /\ Sorted' /\ Serial'
  /\ \A p \in Partner : /\ bounded(p)' /\ sumOf(waiting(p))' \in Nat /\ sumOf(waiting(p))' <= sumOf(waiting(p))
                        /\ isFine(p)' => reached(p)'
others == /\ asked' = asked /\ requests' = requests /\ channels' = channels /\ failed \subseteq failed'
          /\ \A p \in Partner : contract'[p].partner >= contract[p].partner

LEMMA FailsKeeps ==
  ASSUME IInv, others, NEW i \in DOMAIN queue, fails(i)
  PROVE  kept
<1>1. /\ queue' \in Seq(DepositRequest) /\ Sorted' /\ Serial'
      /\ \A p : requestsOf(p)' = requestsOf(p) \ {queue[i]}
      /\ \A p : /\ p # queue[i].partner => requestsOf(p)' = requestsOf(p)
                /\ sumOf(waiting(p))' \in Nat /\ sumOf(waiting(p))' <= sumOf(waiting(p))
  BY Removed DEF fails, others
<1>2. ASSUME NEW p \in Partner PROVE bounded(p)' /\ (isFine(p)' => reached(p)')
  <2>1. CASE p # queue[i].partner
    BY <1>1, <2>1, Untouched DEF others
  <2>2. CASE p = queue[i].partner
    <3>1. ~isFine(p)'
      BY <2>2 DEF isFine, fails
    <3>2. initial(p)' \subseteq initial(p) /\ started(p)' \subseteq started(p)
      BY <1>1 DEF initial, started
    <3>3. due(p)' = asked[p].open + asked[p].more - sumOf(waiting(p))'
      BY DEF due, others
    <3>4. due(p)' \in Int /\ due(p) <= due(p)'
      BY <1>1, <3>3, NumbersAre
    <3>5. \A r \in started(p)' : r.total <= due(p)'
      <4>1. \A r \in started(p) : r.total <= due(p) /\ r.total \in Nat
        BY NumbersAre DEF IInv, NoMore, bounded, started
      <4> QED
        BY <3>2, <3>4, <4>1, NumbersAre
    <3>6. sumOf(waiting(p))' <= asked'[p].more
      BY <1>1, NumbersAre DEF IInv, NoMore, bounded, others
    <3>7. \A r \in initial(p)' : r.amount <= asked'[p].open /\ (r.step # "queued" => r.total = r.amount)
      BY <3>2 DEF IInv, NoMore, bounded, others
    <3>8. bounded(p)'
      BY <3>5, <3>6, <3>7 DEF bounded
    <3> QED
      BY <3>1, <3>8
  <2> QED
    BY <2>1, <2>2
<1> QED
  BY <1>1, <1>2 DEF kept

LEMMA GoesOnKeeps ==
  ASSUME IInv, others, NEW i \in DOMAIN queue, goesOn(i)
  PROVE  kept
<1> DEFINE r == queue[i] q == queue[i].partner
<1>1. PICK s \in DepositRequest : sameRequest(r, s) /\ s.total = r.total /\ queue' = [queue EXCEPT ![i] = s]
  BY DEF goesOn
<1>2. isHead(i) /\ r.step # "queued" /\ r \in DepositRequest /\ r \in requestsOf(q)
  BY RequestsAre DEF goesOn, requestsOf
<1>3. /\ queue' \in Seq(DepositRequest) /\ Sorted' /\ Serial'
      /\ \A p : p # q => requestsOf(p)' = requestsOf(p)
      /\ \A p : p = q => requestsOf(p)' = (requestsOf(p) \ {r}) \cup {s}
      /\ \A p : sumOf(waiting(p))' = sumOf(waiting(p)) - (IF r \in waiting(p) THEN r.amount ELSE 0)
  BY <1>1, <1>2, Replaced DEF others, sameRequest
<1>4. \A p \in Partner : sumOf(waiting(p))' = sumOf(waiting(p)) /\ sumOf(waiting(p)) \in Nat
  <2>1. \A p : r \notin waiting(p)
    BY <1>2 DEF waiting
  <2> QED
    BY <1>3, <2>1, NumbersAre
<1>5. \A p \in Partner : due(p)' = due(p)
  BY <1>4 DEF due, others
<1>6. ASSUME NEW p \in Partner PROVE bounded(p)' /\ (isFine(p)' => reached(p)')
  <2>1. CASE p # q
    BY <1>3, <2>1, Untouched DEF others
  <2>2. CASE p = q
    <3>1. \A x \in initial(p)' : x \in initial(p) \/ (x = s /\ r \in initial(p))
      BY <1>1, <1>2, <1>3, <2>2 DEF initial, sameRequest
    <3>2. \A x \in started(p)' : x \in started(p) \/ (x = s /\ r \in started(p))
      BY <1>1, <1>2, <1>3, <2>2 DEF started, sameRequest
    <3>3. bounded(p)'
      <4>1. bounded(p)
        BY DEF IInv, NoMore
      <4>2. s.amount = r.amount /\ s.total = r.total /\ s.step # "queued"
        BY <1>1 DEF sameRequest
      <4> QED
        BY <1>2, <1>4, <1>5, <3>1, <3>2, <4>1, <4>2 DEF bounded, others
    <3>4. ASSUME isFine(p)' PROVE reached(p)'
      <4>1. reached(p)
        BY <3>4, NumbersAre DEF isFine, others, IInv, NoLess
      <4>2. asked' = asked /\ channels' = channels
        BY DEF others
      <4>3. /\ s.amount = r.amount /\ s.total = r.total /\ s.id = r.id /\ s.relative = r.relative /\ s.step # "queued"
            /\ s.partner = r.partner
        BY <1>1 DEF sameRequest
      <4>4. \A x \in initial(p) : x \in initial(p)' \/ (x = r /\ s \in initial(p)')
        BY <1>3, <2>2, <4>3 DEF initial
      <4>5. asked[p].open <= channels[p].own \/ \E x \in initial(p)' : x.amount = asked[p].open
        BY <4>1, <4>3, <4>4 DEF reached
      <4>6. initial(p)' = {} => initial(p) = {}
        BY <4>4
      <4>7. initial(p) = {} => initial(p)' = {}
        BY <3>1
      <4>8. requestsOf(p) # {} /\ started(p) # {} /\ r \in started(p)
        BY <1>2, <2>2 DEF started
      <4>9. asked[p].opens = 0 => /\ asked[p].open = 0 /\ initial(p)' = {}
                                  /\ channels[p].known
        BY <4>1, <4>7, <4>8 DEF reached
      <4>10. ASSUME asked[p].opens <= 1, NEW x \in initial(p)'
             PROVE  /\ asked[p].more = sumOf(waiting(p))
                    /\ \A y \in requestsOf(p)' : y = x \/ (y.relative /\ x.id < y.id)
        <5>1. PICK z \in initial(p) : x = z \/ (x = s /\ z = r)
          BY <3>1, <4>10
        <5>2. /\ asked[p].more = sumOf(waiting(p))
              /\ \A y \in requestsOf(p) : y = z \/ (y.relative /\ z.id < y.id)
          BY <4>1, <4>10 DEF reached
        <5>3. ASSUME NEW y \in requestsOf(p)', y # x PROVE y.relative /\ x.id < y.id
          <6>1. CASE y = s
            <7>1. x = z /\ z # r
              <8>1. x # s
                BY <5>3, <6>1
              <8>2. x \in requestsOf(p)'
                BY DEF initial
              <8> QED
                BY <1>3, <2>2, <5>1, <8>1, <8>2
            <7>2. r.relative /\ z.id < r.id
              BY <1>2, <2>2, <5>2, <7>1
            <7> QED
              BY <4>3, <6>1, <7>1, <7>2
          <6>2. CASE y # s
            <7>1. y \in requestsOf(p) /\ y # r
              BY <1>3, <2>2, <6>2
            <7>2. y # z
              BY <5>1, <5>3, <7>1
            <7> QED
              BY <4>3, <5>1, <5>2, <7>1, <7>2
          <6> QED
            BY <6>1, <6>2
        <5> QED
          BY <5>2, <5>3
      <4>11. ASSUME asked[p].opens <= 1, initial(p)' = {}
             PROVE  (\A x \in started(p)' : x.total >= due(p)) /\ started(p)' # {}
        <5>1. \A x \in started(p) : x.total >= due(p)
          BY <4>1, <4>6, <4>11 DEF reached
        <5>2. s \in started(p)'
          BY <1>3, <2>2, <4>3 DEF started
        <5> QED
          BY <3>2, <4>3, <5>1, <5>2
      <4> QED
        BY <1>4, <1>5, <4>2, <4>5, <4>9, <4>10, <4>11 DEF reached
    <3> QED
      BY <3>3, <3>4
  <2> QED
    BY <2>1, <2>2
<1>7. \A p \in Partner : sumOf(waiting(p))' \in Nat /\ sumOf(waiting(p))' <= sumOf(waiting(p))
  BY <1>4
<1> QED
  BY <1>3, <1>6, <1>7 DEF kept

\* A request starts from the deposit that is known, which no other request of the channel changes
LEMMA StartsKeeps ==
  ASSUME IInv, others, NEW i \in DOMAIN queue, starts(i)
  PROVE  kept
<1> DEFINE r == queue[i] q == queue[i].partner
<1>1. PICK s \in DepositRequest : sameRequest(r, s) /\ s.total = totalDeposit(r) /\ queue' = [queue EXCEPT ![i] = s]
  BY DEF starts
<1>2. isHead(i) /\ r.step = "queued" /\ r \in DepositRequest /\ r \in requestsOf(q)
  BY RequestsAre DEF starts, requestsOf
<1>3. /\ queue' \in Seq(DepositRequest) /\ Sorted' /\ Serial'
      /\ \A p : p # q => requestsOf(p)' = requestsOf(p)
      /\ \A p : p = q => requestsOf(p)' = (requestsOf(p) \ {r}) \cup {s}
      /\ \A p : sumOf(waiting(p))' = sumOf(waiting(p)) - (IF r \in waiting(p) THEN r.amount ELSE 0)
  BY <1>1, <1>2, Replaced DEF others, sameRequest
<1>4. \A y \in requestsOf(q) : y = r \/ (r.id < y.id /\ y.step = "queued")
  BY <1>2, HeadIsFirst
<1>5. /\ s.amount = r.amount /\ s.id = r.id /\ s.relative = r.relative /\ s.step # "queued"
      /\ s.partner = r.partner /\ s.total = totalDeposit(r)
  BY <1>1 DEF sameRequest
<1>6. ASSUME NEW p \in Partner
      PROVE  /\ bounded(p)' /\ (isFine(p)' => reached(p)')
             /\ sumOf(waiting(p))' \in Nat /\ sumOf(waiting(p))' <= sumOf(waiting(p))
  <2>1. CASE p # q
    BY <1>3, <2>1, Untouched, NumbersAre DEF others
  <2>2. CASE p = q
    <3>1. r.amount \in Nat /\ r.id \in Nat /\ sumOf(waiting(p)) \in Nat
      BY <1>2, <2>2, NumbersAre
    <3>2. /\ r.relative => sumOf(waiting(p))' = sumOf(waiting(p)) - r.amount
          /\ ~r.relative => sumOf(waiting(p))' = sumOf(waiting(p))
      <4>1. r \in waiting(p) <=> r.relative
        BY <1>2, <2>2 DEF waiting
      <4> QED
        BY <1>3, <3>1, <4>1
    <3>3. sumOf(waiting(p))' \in Nat
      <4>1. waiting(p)' \in SUBSET DepositRequest /\ distinct(waiting(p)')
        <5>1. requestsOf(p) \subseteq DepositRequest /\ distinct(requestsOf(p))
          BY RequestsAre
        <5>2. waiting(p)' \subseteq requestsOf(p)
          BY <1>3, <1>5, <2>2 DEF waiting
        <5> QED
          BY <5>1, <5>2 DEF distinct
      <4>2. sumOf(waiting(p)') \in Nat
        BY <4>1, SumOfNone
      <4> QED
        BY <4>2 DEF sumOf, sum, amountsOf
    <3>4. due(p)' = asked[p].open + asked[p].more - sumOf(waiting(p))'
      BY DEF due, others
    <3>5. due(p)' = due(p) + (IF r.relative THEN r.amount ELSE 0) /\ due(p) \in Int
      BY <3>1, <3>2, <3>4, NumbersAre
    <3>6. /\ r.relative => s.total = channels[p].own + r.amount
          /\ ~r.relative => s.total = r.amount
      BY <1>5, <2>2 DEF totalDeposit
    <3>7. channels[p].own <= due(p)
      <4>1. channels[p].own <= contract[p].own /\ contract[p].own <= due(p)
        BY DEF IInv, OnChain, NoMore
      <4> QED
        BY <3>5, <4>1, NumbersAre
    <3>8. \A x \in initial(p)' : x \in initial(p) \/ (x = s /\ r \in initial(p))
      BY <1>2, <1>3, <1>5, <2>2 DEF initial
    <3>9. started(p)' = {s} /\ started(p) = {}
      BY <1>2, <1>3, <1>4, <1>5, <2>2 DEF started
    <3>10. bounded(p)
      BY DEF IInv, NoMore
    <3>11. ~r.relative => s.total <= due(p)
      <4>1. ASSUME ~r.relative PROVE r.amount <= asked[p].open
        BY <1>2, <2>2, <3>10, <4>1 DEF bounded, initial
      <4>2. asked[p].open <= due(p)
        BY <3>10, NumbersAre DEF bounded
      <4> QED
        BY <3>1, <3>5, <3>6, <4>1, <4>2, NumbersAre
    <3>12. s.total <= due(p)'
      BY <3>1, <3>5, <3>6, <3>7, <3>11, NumbersAre
    <3>13. bounded(p)'
      <4>1. sumOf(waiting(p))' <= asked[p].more
        BY <3>1, <3>2, <3>3, <3>10, NumbersAre DEF bounded
      <4>2. \A x \in initial(p)' : x.amount <= asked[p].open /\ (x.step # "queued" => x.total = x.amount)
        <5>1. ASSUME r \in initial(p) PROVE s.amount <= asked[p].open /\ s.total = s.amount
          BY <1>5, <3>6, <3>10, <5>1 DEF bounded, initial
        <5> QED
          BY <3>8, <3>10, <5>1 DEF bounded
      <4> QED
        BY <3>9, <3>12, <4>1, <4>2 DEF bounded, others
    <3>14. ASSUME isFine(p)' PROVE reached(p)'
      <4>1. reached(p)
        BY <3>14, NumbersAre DEF isFine, others, IInv, NoLess
      <4>2. asked' = asked /\ channels' = channels
        BY DEF others
      <4>3. \A x \in initial(p) : x \in initial(p)' \/ (x = r /\ s \in initial(p)')
        BY <1>3, <1>5, <2>2 DEF initial
      <4>4. asked[p].open <= channels[p].own \/ \E x \in initial(p)' : x.amount = asked[p].open
        BY <1>5, <4>1, <4>3 DEF reached
      <4>5. asked[p].opens = 0 => asked[p].open = 0 /\ initial(p)' = {} /\ channels[p].known
        BY <1>2, <2>2, <3>8, <4>1 DEF reached
      <4>6. ASSUME asked[p].opens <= 1, NEW x \in initial(p)'
            PROVE  /\ asked[p].more = sumOf(waiting(p))'
                   /\ \A y \in requestsOf(p)' : y = x \/ (y.relative /\ x.id < y.id)
        <5>1. PICK z \in initial(p) : x = z \/ (x = s /\ z = r)
          BY <3>8, <4>6
        <5>2. /\ asked[p].more = sumOf(waiting(p)) /\ z.id \in Nat
              /\ \A y \in requestsOf(p) : y = z \/ (y.relative /\ z.id < y.id)
          BY <4>1, <4>6, NumbersAre DEF reached, initial
        <5>3. z = r
          <6>1. z \in requestsOf(p)
            BY DEF initial
          <6>2. r = z \/ z.id < r.id
            BY <1>2, <2>2, <5>2
          <6>3. z = r \/ r.id < z.id
            BY <1>4, <2>2, <6>1
          <6> QED
            BY <3>1, <5>2, <6>2, <6>3
        <5>4. x = s /\ ~r.relative
          <6>1. x # r
            <7>1. x \in requestsOf(p)' /\ r # s
              BY <1>2, <1>5 DEF initial
            <7> QED
              BY <1>3, <2>2, <7>1
          <6> QED
            BY <5>1, <5>3, <6>1 DEF initial
        <5>5. \A y \in requestsOf(p)' : y = s \/ (y.relative /\ s.id < y.id)
          BY <1>3, <1>5, <2>2, <5>2, <5>3
        <5> QED
          BY <3>2, <5>2, <5>4, <5>5
      <4>7. ASSUME asked[p].opens <= 1, initial(p)' = {} PROVE s.total >= due(p)'
        <5>1. initial(p) = {} /\ r.relative
          BY <1>2, <2>2, <4>3, <4>7 DEF initial
        <5>2. channels[p].own >= due(p)
          BY <3>9, <4>1, <4>7, <5>1 DEF reached
        <5> QED
          BY <3>1, <3>5, <3>6, <5>1, <5>2, NumbersAre
      <4> QED
        BY <3>9, <4>2, <4>4, <4>5, <4>6, <4>7 DEF reached
    <3>15. sumOf(waiting(p))' <= sumOf(waiting(p))
      BY <3>1, <3>2, <3>3
    <3> QED
      BY <3>3, <3>13, <3>14, <3>15
  <2> QED
    BY <2>1, <2>2
<1> QED
  BY <1>3, <1>6 DEF kept

LEMMA QueueKeeps ==
  ASSUME IInv, others, queue' = queue \/ \E i \in DOMAIN queue : goesOn(i) \/ starts(i) \/ fails(i)
  PROVE  kept
<1>1. CASE queue' = queue
  <2>1. queue' \in Seq(DepositRequest) /\ Sorted' /\ Serial'
    BY <1>1 DEF IInv, Types, Sorted, Serial, others
  <2>2. \A p : requestsOf(p)' = requestsOf(p)
    BY <1>1 DEF requestsOf
  <2>3. \A p \in Partner : /\ bounded(p)' /\ sumOf(waiting(p))' = sumOf(waiting(p)) /\ sumOf(waiting(p)) \in Nat
                           /\ isFine(p)' => reached(p)'
    BY <2>2, Untouched, NumbersAre DEF others
  <2>4. \A p \in Partner : sumOf(waiting(p))' \in Nat /\ sumOf(waiting(p))' <= sumOf(waiting(p))
    BY <2>3
  <2> QED
    BY <2>1, <2>3, <2>4 DEF kept
<1> QED
  BY <1>1, GoesOnKeeps, StartsKeeps, FailsKeeps

\* Nothing goes beyond what is due
withinDue ==
  \A p \in Partner :
     /\ contract'[p].own <= due(p)
     /\ \A i \in DOMAIN mempool' :
           mempool'[i].partner = p /\ mempool'[i].method # "approve" => mempool'[i].value <= due(p)
     /\ \A o \in openings' : o.partner = p => o.amount <= asked[p].open

LEMMA MoneyKept ==
  ASSUME IInv, others, kept, Types', OnChain', withinDue
  PROVE  IInv'
<1>1. ASSUME NEW p \in Partner
      PROVE  /\ bounded(p)' /\ contract'[p].own <= due(p)'
             /\ \A i \in DOMAIN mempool' :
                   mempool'[i].partner = p /\ mempool'[i].method # "approve" => mempool'[i].value <= due(p)'
             /\ \A o \in openings' : o.partner = p => o.amount <= asked'[p].open
  <2>1. due(p)' = asked[p].open + asked[p].more - sumOf(waiting(p))'
    BY DEF due, others
  <2>2. due(p) <= due(p)' /\ due(p)' \in Int /\ due(p) \in Int
    <3>1. /\ asked[p].open \in Nat /\ asked[p].more \in Nat /\ sumOf(waiting(p)) \in Nat
          /\ due(p) = asked[p].open + asked[p].more - sumOf(waiting(p))
      BY NumbersAre
    <3>2. sumOf(waiting(p))' \in Nat /\ sumOf(waiting(p))' <= sumOf(waiting(p))
      BY DEF kept
    <3> QED
      BY <2>1, <3>1, <3>2
  <2>3. contract'[p].own \in Nat /\ \A i \in DOMAIN mempool' : mempool'[i].value \in Nat
    <3>1. contract'[p].own \in Nat /\ mempool' \in Seq(Tx)
      BY DEF Types
    <3>2. \A i \in DOMAIN mempool' : mempool'[i] \in Tx
      BY <3>1, RangeIs
    <3> QED
      BY <3>1, <3>2 DEF Tx
  <2> QED
    BY <2>2, <2>3 DEF withinDue, kept, others
<1>2. NoMore'
  BY <1>1 DEF NoMore
<1>3. NoLess'
  BY DEF kept, NoLess
<1> QED
  BY <1>2, <1>3 DEF IInv, kept

\* Steps that leave the chain alone
LEMMA OffChain ==
  ASSUME IInv, UNCHANGED <<contract, logs, channels, asked, requests>>, failed \subseteq failed', Types',
         queue' = queue \/ \E i \in DOMAIN queue : goesOn(i) \/ starts(i) \/ fails(i),
         \A p \in Partner :
            /\ \A i \in DOMAIN mempool' :
                  mempool'[i].partner = p /\ mempool'[i].method # "approve" => mempool'[i].value <= due(p)
            /\ \A o \in openings' : o.partner = p => o.amount <= asked[p].open
  PROVE  IInv'
<1>1. others
  BY NumbersAre DEF others
<1>2. kept
  BY <1>1, QueueKeeps
<1>3. OnChain'
  BY DEF IInv, OnChain
<1>4. withinDue
  BY DEF withinDue, IInv, NoMore
<1> QED
  BY <1>1, <1>2, <1>3, <1>4, MoneyKept

-----------------------------------------------------------------------------
(* Requests that are handled *)

LEMMA DepositFails ==
  ASSUME IInv, NEW i \in DOMAIN queue, depositFails(i)
  PROVE  fails(i) /\ failed \subseteq failed' /\ failed' \subseteq Partner /\ queue' \in Seq(DepositRequest)
<1>1. queue[i].partner \in Partner
  BY RequestsAre DEF DepositRequest
<1>2. queue' \in Seq(DepositRequest)
  BY RemoveAtIs DEF depositFails, IInv, Types
<1> QED
  BY <1>1, <1>2 DEF depositFails, fails, IInv, Types

LEMMA channelDepositEpicKeeps ==
  ASSUME IInv, NEW i \in DOMAIN queue, channelDepositEpic(i)
  PROVE  IInv'
<1> DEFINE r == queue[i]
<1>1. /\ isHead(i) /\ r.step = "queued"
      /\ UNCHANGED <<config, balance, allowance, contract, mempool, logs, channels, openings, user>>
  BY DEF channelDepositEpic
<1>2. r \in DepositRequest /\ r.partner \in Partner /\ r.amount \in Nat
  BY RequestsAre DEF DepositRequest
<1>3. (fails(i) \/ starts(i)) /\ failed \subseteq failed' /\ failed' \subseteq Partner /\ queue' \in Seq(DepositRequest)
  <2>1. CASE depositFails(i)
    BY <2>1, DepositFails
  <2>2. CASE /\ deposit(r) > 0 /\ UNCHANGED failed
             /\ queue' = [queue EXCEPT ![i].step = "check", ![i].total = totalDeposit(r), ![i].deposit = deposit(r)]
    <3> DEFINE s == [r EXCEPT !.step = "check", !.total = totalDeposit(r), !.deposit = deposit(r)]
    <3>1. channels[r.partner].own \in Nat
      BY <1>2, NumbersAre
    <3>2. totalDeposit(r) \in Nat /\ deposit(r) \in Nat
      BY <1>2, <2>2, <3>1 DEF totalDeposit, deposit
    <3>3. s \in DepositRequest /\ s.total = totalDeposit(r)
      BY <1>2, <3>2 DEF DepositRequest, DepositStep
    <3>4. sameRequest(r, s)
      BY <1>2 DEF sameRequest, DepositRequest
    <3>5. queue' = [queue EXCEPT ![i] = s]
      BY <1>2, <2>2
    <3> HIDE DEF s
    <3>6. starts(i)
      BY <1>1, <3>3, <3>4, <3>5 DEF starts
    <3>7. queue' \in Seq(DepositRequest)
      BY <3>3, <3>5 DEF IInv, Types
    <3> QED
      BY <2>2, <3>6, <3>7 DEF IInv, Types
  <2>3. depositFails(i) \/ /\ ~(deposit(r) <= 0) /\ UNCHANGED failed
                           /\ queue' = [queue EXCEPT ![i].step = "check", ![i].total = totalDeposit(r), ![i].deposit = deposit(r)]
    BY DEF channelDepositEpic
  <2>4. deposit(r) \in Int
    BY <1>2, NumbersAre DEF deposit
  <2> QED
    BY <2>1, <2>2, <2>3, <2>4
<1>4. Types'
  BY <1>1, <1>3 DEF IInv, Types, user
<1> QED
  BY <1>1, <1>3, <1>4, OffChain DEF IInv, NoMore, user

LEMMA ensureApprovedBalanceKeeps ==
  ASSUME IInv, NEW i \in DOMAIN queue, ensureApprovedBalance(i)
  PROVE  IInv'
<1> DEFINE r == queue[i]
<1>1. /\ isHead(i) /\ r.step # "queued"
      /\ UNCHANGED <<config, balance, allowance, contract, mempool, logs, channels, openings, user>>
  BY DEF ensureApprovedBalance, handles, handled
<1>2. r \in DepositRequest
  BY RequestsAre
<1>3. (fails(i) \/ goesOn(i)) /\ failed \subseteq failed' /\ failed' \subseteq Partner /\ queue' \in Seq(DepositRequest)
  <2>1. CASE depositFails(i)
    BY <2>1, DepositFails
  <2>2. CASE ~depositFails(i)
    <3> DEFINE step == CASE allowance >= r.deposit -> "channelId"
                         [] allowance \in 1..(r.deposit - 1) -> "reset"
                         [] OTHER -> "approve"
               s == [r EXCEPT !.step = step]
    <3>1. queue' = [queue EXCEPT ![i].step = step] /\ UNCHANGED failed
      BY <2>2 DEF ensureApprovedBalance
    <3>2. step \in DepositStep /\ step # "queued"
      BY DEF DepositStep
    <3> HIDE DEF step
    <3>3. s \in DepositRequest /\ s.total = r.total /\ sameRequest(r, s)
      BY <1>2, <3>2 DEF DepositRequest, sameRequest
    <3>4. queue' = [queue EXCEPT ![i] = s]
      BY <3>1
    <3> HIDE DEF s
    <3>5. goesOn(i)
      BY <1>1, <3>3, <3>4 DEF goesOn
    <3>6. queue' \in Seq(DepositRequest)
      BY <3>3, <3>4 DEF IInv, Types
    <3> QED
      BY <3>1, <3>5, <3>6 DEF IInv, Types
  <2> QED
    BY <2>1, <2>2
<1>4. Types'
  BY <1>1, <1>3 DEF IInv, Types, user
<1> QED
  BY <1>1, <1>3, <1>4, OffChain DEF IInv, NoMore, user

\* One more transaction, within what is due
LEMMA TxAppended ==
  ASSUME IInv, NEW tx \in Tx, mempool' = Append(mempool, tx),
         tx.method # "approve" => tx.value <= due(tx.partner)
  PROVE  /\ mempool' \in Seq(Tx)
         /\ \A p \in Partner : \A i \in DOMAIN mempool' :
               mempool'[i].partner = p /\ mempool'[i].method # "approve" => mempool'[i].value <= due(p)
<1>1. mempool \in Seq(Tx)
  BY DEF IInv, Types
<1>2. /\ mempool' \in Seq(Tx) /\ DOMAIN mempool' = 1..(Len(mempool) + 1) /\ Len(mempool) \in Nat
      /\ \A i \in 1..Len(mempool) : mempool'[i] = mempool[i]
      /\ mempool'[Len(mempool) + 1] = tx /\ DOMAIN mempool = 1..Len(mempool)
  BY <1>1, AppendProperties
<1>3. ASSUME NEW p \in Partner, NEW i \in DOMAIN mempool', mempool'[i].partner = p, mempool'[i].method # "approve"
      PROVE  mempool'[i].value <= due(p)
  <2>1. CASE i \in DOMAIN mempool
    BY <1>2, <1>3, <2>1 DEF IInv, NoMore
  <2>2. CASE i = Len(mempool) + 1
    BY <1>2, <1>3, <2>2
  <2> QED
    BY <1>2, <2>1, <2>2
<1> QED
  BY <1>2, <1>3

LEMMA RetryDeposit ==
  ASSUME IInv, NEW i \in DOMAIN queue, isHead(i), queue[i].step # "queued", retryDeposit(i)
  PROVE  (fails(i) \/ goesOn(i)) /\ failed \subseteq failed' /\ failed' \subseteq Partner /\ queue' \in Seq(DepositRequest)
<1> DEFINE r == queue[i]
<1>1. r \in DepositRequest
  BY RequestsAre
<1>2. CASE depositFails(i)
  BY <1>2, DepositFails
<1>3. CASE r.retries # MaxRetries
  <2> DEFINE s == [r EXCEPT !.step = "check", !.retries = @ + 1]
  <2>1. queue' = [queue EXCEPT ![i].step = "check", ![i].retries = @ + 1] /\ UNCHANGED failed
    BY <1>3 DEF retryDeposit
  <2>2. r.retries + 1 \in 0..MaxRetries
    BY <1>1, <1>3, FundingAssumption DEF DepositRequest
  <2>3. s \in DepositRequest /\ s.total = r.total /\ sameRequest(r, s)
    BY <1>1, <2>2 DEF DepositRequest, DepositStep, sameRequest
  <2>4. queue' = [queue EXCEPT ![i] = s]
    BY <1>1, <2>1
  <2> HIDE DEF s
  <2>5. goesOn(i)
    BY <2>3, <2>4 DEF goesOn
  <2>6. queue' \in Seq(DepositRequest)
    BY <2>3, <2>4 DEF IInv, Types
  <2> QED
    BY <2>1, <2>5, <2>6 DEF IInv, Types
<1> QED
  BY <1>2, <1>3 DEF retryDeposit

LEMMA TxOfDeposit ==
  ASSUME IInv, NEW i \in DOMAIN queue, handles(i, DOMAIN sending)
  PROVE  /\ isHead(i) /\ queue[i].step # "queued" /\ queue[i].step \in {"reset", "approve", "channelId"}
         /\ txOf(queue[i]) \in Tx
         /\ txOf(queue[i]).method # "approve" => txOf(queue[i]).value <= due(txOf(queue[i]).partner)
<1> DEFINE r == queue[i]
<1>1. DOMAIN sending = {"reset", "approve", "channelId"}
  BY DEF sending
<1>2. isHead(i) /\ r.step # "queued" /\ r.step \in {"reset", "approve", "channelId"}
  BY <1>1 DEF handles, handled
<1>3. r \in DepositRequest /\ r.id \in Id /\ r.partner \in Partner /\ r.deposit \in Nat /\ r.total \in Nat
  BY RequestsAre DEF DepositRequest
<1>4. config.minimumAllowance \in Nat
  BY FundingAssumption, Bounds DEF IInv, Types
<1>5. CASE r.step = "reset"
  BY <1>2, <1>3, <1>5 DEF txOf, Tx
<1>6. CASE r.step = "approve"
  BY <1>2, <1>3, <1>4, <1>6 DEF txOf, Tx, max
<1>7. CASE r.step = "channelId"
  <2>1. r \in started(r.partner)
    BY <1>2, RequestsAre DEF started, requestsOf
  <2>2. r.total <= due(r.partner)
    BY <1>3, <2>1 DEF IInv, NoMore, bounded
  <2> QED
    BY <1>2, <1>3, <1>7, <2>2 DEF txOf, Tx
<1> QED
  BY <1>2, <1>5, <1>6, <1>7

LEMMA sendDepositKeeps ==
  ASSUME IInv, NEW i \in DOMAIN queue, sendDeposit(i)
  PROVE  IInv'
<1> DEFINE r == queue[i]
<1>1. UNCHANGED <<config, balance, allowance, contract, logs, channels, openings, user>>
  BY DEF sendDeposit
<1>2. /\ isHead(i) /\ r.step # "queued" /\ r.step \in {"reset", "approve", "channelId"} /\ txOf(r) \in Tx
      /\ txOf(r).method # "approve" => txOf(r).value <= due(txOf(r).partner)
      /\ r \in DepositRequest
  BY TxOfDeposit, RequestsAre DEF sendDeposit
<1>3. CASE isValid(txOf(r))
  <2> DEFINE s == [r EXCEPT !.step = sending[r.step]]
  <2>1. /\ mempool' = Append(mempool, txOf(r)) /\ UNCHANGED failed
        /\ queue' = [queue EXCEPT ![i].step = sending[@]]
    BY <1>3 DEF sendDeposit
  <2>2. sending[r.step] \in {"resetting", "approving", "depositing"}
    BY <1>2 DEF sending
  <2>3. s \in DepositRequest /\ s.total = r.total /\ sameRequest(r, s)
    BY <1>2, <2>2 DEF DepositRequest, DepositStep, sameRequest
  <2>4. queue' = [queue EXCEPT ![i] = s]
    BY <1>2, <2>1
  <2> HIDE DEF s
  <2>5. goesOn(i)
    BY <1>2, <2>3, <2>4 DEF goesOn
  <2>6. queue' \in Seq(DepositRequest)
    BY <2>3, <2>4 DEF IInv, Types
  <2>7. /\ mempool' \in Seq(Tx)
        /\ \A p \in Partner : \A j \in DOMAIN mempool' :
              mempool'[j].partner = p /\ mempool'[j].method # "approve" => mempool'[j].value <= due(p)
    BY <1>2, <2>1, TxAppended
  <2>8. Types'
    BY <1>1, <2>1, <2>6, <2>7 DEF IInv, Types, user
  <2> QED
    BY <1>1, <2>1, <2>5, <2>7, <2>8, OffChain DEF IInv, NoMore, user
<1>4. CASE ~isValid(txOf(r))
  <2>1. retryDeposit(i) /\ UNCHANGED mempool
    BY <1>4 DEF sendDeposit
  <2>2. (fails(i) \/ goesOn(i)) /\ failed \subseteq failed' /\ failed' \subseteq Partner /\ queue' \in Seq(DepositRequest)
    BY <1>2, <2>1, RetryDeposit
  <2>3. Types'
    BY <1>1, <2>1, <2>2 DEF IInv, Types, user
  <2> QED
    BY <1>1, <2>1, <2>2, <2>3, OffChain DEF IInv, NoMore, user
<1> QED
  BY <1>3, <1>4

-----------------------------------------------------------------------------
(* Openings *)

\* What is left of openings is what was there, at another step
fewer == \A o \in openings' : o \in OpenRequest /\ \E x \in openings : x.partner = o.partner /\ x.amount = o.amount

LEMMA OpenTypes ==
  ASSUME IInv, NEW o \in openings
  PROVE  /\ o \in OpenRequest /\ o.partner \in Partner /\ o.amount \in Nat /\ o.id \in Id
         /\ openTx(o) \in Tx /\ openTx(o).value <= due(openTx(o).partner)
         /\ \A step \in {"send", "sent", "confirming"} : [o EXCEPT !.step = step] \in OpenRequest
         /\ o.retries # MaxRetries => [o EXCEPT !.step = "send", !.retries = @ + 1] \in OpenRequest
<1>1. o \in OpenRequest /\ o.partner \in Partner /\ o.amount \in Nat /\ o.id \in Id
  BY DEF IInv, Types, OpenRequest
<1>2. openTx(o) \in Tx
  BY <1>1 DEF openTx, Tx
<1>3. o.amount <= asked[o.partner].open
  BY <1>1 DEF IInv, NoMore
<1>4. sumOf(waiting(o.partner)) <= asked[o.partner].more
  BY <1>1 DEF IInv, NoMore, bounded
<1>5. openTx(o).value <= due(openTx(o).partner)
  BY <1>1, <1>3, <1>4, NumbersAre DEF openTx
<1>6. \A step \in {"send", "sent", "confirming"} : [o EXCEPT !.step = step] \in OpenRequest
  BY <1>1 DEF OpenRequest
<1>7. o.retries # MaxRetries => [o EXCEPT !.step = "send", !.retries = @ + 1] \in OpenRequest
  <2>1. ASSUME o.retries # MaxRetries PROVE o.retries + 1 \in 0..MaxRetries
    BY <1>1, <2>1, FundingAssumption DEF OpenRequest
  <2> QED
    BY <1>1, <2>1 DEF OpenRequest
<1> QED
  BY <1>1, <1>2, <1>5, <1>6, <1>7

LEMMA FewerIs ==
  ASSUME IInv, fewer
  PROVE  openings' \subseteq OpenRequest /\ \A p \in Partner : \A o \in openings' : o.partner = p => o.amount <= asked[p].open
BY DEF fewer, IInv, NoMore

LEMMA OpenFails ==
  ASSUME IInv, NEW o \in openings, openFails(o)
  PROVE  /\ fewer /\ failed \subseteq failed' /\ failed' \subseteq Partner /\ queue' \in Seq(DepositRequest)
         /\ queue' = queue \/ \E i \in DOMAIN queue : fails(i)
<1>1. o \in OpenRequest /\ o.partner \in Partner
  BY OpenTypes
<1>2. fewer /\ failed \subseteq failed' /\ failed' \subseteq Partner /\ o.partner \in failed'
  BY <1>1 DEF openFails, fewer, IInv, Types
<1> DEFINE failing == {i \in handled : queue[i].partner = o.partner /\ ~channels[o.partner].known}
<1>3. queue' = IF failing = {} THEN queue ELSE RemoveAt(queue, CHOOSE i \in failing : TRUE)
  BY DEF openFails
<1>4. CASE failing = {}
  BY <1>2, <1>3, <1>4 DEF IInv, Types
<1>5. CASE failing # {}
  <2> DEFINE i == CHOOSE i \in failing : TRUE
  <2>1. i \in failing
    BY <1>5
  <2> HIDE DEF i
  <2>2. i \in DOMAIN queue /\ queue[i].partner = o.partner
    BY <2>1 DEF handled
  <2>3. queue' = RemoveAt(queue, i)
    BY <1>3, <1>5 DEF i
  <2>4. queue' \in Seq(DepositRequest)
    BY <2>2, <2>3, RemoveAtIs DEF IInv, Types
  <2> QED
    BY <1>2, <2>2, <2>3, <2>4 DEF fails
<1> QED
  BY <1>4, <1>5

LEMMA RetryOpen ==
  ASSUME IInv, NEW o \in openings, retryOpen(o)
  PROVE  /\ fewer /\ failed \subseteq failed' /\ failed' \subseteq Partner /\ queue' \in Seq(DepositRequest)
         /\ queue' = queue \/ \E i \in DOMAIN queue : fails(i)
<1>1. CASE openFails(o)
  BY <1>1, OpenFails
<1>2. CASE o.retries # MaxRetries
  <2> DEFINE s == [o EXCEPT !.step = "send", !.retries = @ + 1]
  <2>1. openings' = (openings \ {o}) \cup {s} /\ UNCHANGED <<queue, failed>>
    BY <1>2 DEF retryOpen
  <2>2. s \in OpenRequest /\ o \in OpenRequest
    BY <1>2, OpenTypes
  <2>3. s.partner = o.partner /\ s.amount = o.amount
    BY <2>2 DEF OpenRequest
  <2> HIDE DEF s
  <2>4. \A x \in openings : x \in OpenRequest
    BY DEF IInv, Types
  <2>5. fewer
    BY <2>1, <2>2, <2>3, <2>4 DEF fewer
  <2> QED
    BY <2>1, <2>5 DEF IInv, Types
<1> QED
  BY <1>1, <1>2 DEF retryOpen

LEMMA Advances ==
  ASSUME IInv, NEW o \in openings, NEW step \in {"send", "sent", "confirming"},
         openings' = (openings \ {o}) \cup {[o EXCEPT !.step = step]}
  PROVE  fewer
<1> DEFINE s == [o EXCEPT !.step = step]
<1>1. s \in OpenRequest /\ o \in OpenRequest
  BY OpenTypes
<1>2. s.partner = o.partner /\ s.amount = o.amount
  BY <1>1 DEF OpenRequest
<1>3. openings' = (openings \ {o}) \cup {s}
  OBVIOUS
<1> HIDE DEF s
<1>4. \A x \in openings : x \in OpenRequest
  BY DEF IInv, Types
<1> QED
  BY <1>1, <1>2, <1>3, <1>4 DEF fewer

LEMMA sendOpenKeeps ==
  ASSUME IInv, NEW o \in openings, sendOpen(o)
  PROVE  IInv'
<1>1. UNCHANGED <<config, balance, allowance, contract, logs, channels, user>>
  BY DEF sendOpen
<1>2. CASE isValid(openTx(o))
  <2>1. /\ mempool' = Append(mempool, openTx(o)) /\ UNCHANGED <<queue, failed>>
        /\ openings' = (openings \ {o}) \cup {[o EXCEPT !.step = "sent"]}
    BY <1>2 DEF sendOpen
  <2>2. fewer
    BY <2>1, Advances
  <2>3. openings' \subseteq OpenRequest /\ \A p \in Partner : \A x \in openings' : x.partner = p => x.amount <= asked[p].open
    BY <2>2, FewerIs
  <2>4. /\ mempool' \in Seq(Tx)
        /\ \A p \in Partner : \A j \in DOMAIN mempool' :
              mempool'[j].partner = p /\ mempool'[j].method # "approve" => mempool'[j].value <= due(p)
    BY <2>1, OpenTypes, TxAppended
  <2>5. Types'
    BY <1>1, <2>1, <2>3, <2>4 DEF IInv, Types, user
  <2> QED
    BY <1>1, <2>1, <2>3, <2>4, <2>5, OffChain DEF user
<1>3. CASE ~isValid(openTx(o))
  <2>1. retryOpen(o) /\ UNCHANGED mempool
    BY <1>3 DEF sendOpen
  <2>2. /\ fewer /\ failed \subseteq failed' /\ failed' \subseteq Partner /\ queue' \in Seq(DepositRequest)
        /\ queue' = queue \/ \E i \in DOMAIN queue : fails(i)
    BY <2>1, RetryOpen
  <2>3. openings' \subseteq OpenRequest /\ \A p \in Partner : \A x \in openings' : x.partner = p => x.amount <= asked[p].open
    BY <2>2, FewerIs
  <2>4. Types'
    BY <1>1, <2>1, <2>2, <2>3 DEF IInv, Types, user
  <2> QED
    BY <1>1, <2>1, <2>2, <2>3, <2>4, OffChain DEF IInv, NoMore, user
<1> QED
  BY <1>2, <1>3

-----------------------------------------------------------------------------
(* The chain *)

\* What a valid transaction does: a deposit of one channel grows to its value, which is logged
executed(tx) ==
  /\ balance' \in Nat /\ allowance' \in Nat /\ logs' \in Seq(Log)
  /\ contract' \in [Partner -> [opened : BOOLEAN, own : Nat, partner : Nat]]
  /\ \A p \in Partner :
        /\ contract'[p].partner = contract[p].partner
        /\ \/ contract'[p] = contract[p]
           \/ tx.method # "approve" /\ tx.partner = p /\ contract'[p].own = tx.value
  /\ OnChain'

\* One event more
LEMMA LogsAre ==
  ASSUME IInv, NEW es \in Seq(Log), logs' = logs \o es
  PROVE  /\ logs' \in Seq(Log)
         /\ \A i \in DOMAIN logs : i \in DOMAIN logs' /\ logs'[i] = logs[i]
         /\ \A i \in DOMAIN es : \E j \in DOMAIN logs' : logs'[j] = es[i]
         /\ \A i \in DOMAIN logs' : \/ i \in DOMAIN logs /\ logs'[i] = logs[i]
                                    \/ \E j \in DOMAIN es : logs'[i] = es[j]
<1>1. logs \in Seq(Log)
  BY DEF IInv, Types
<1>2. /\ logs' \in Seq(Log) /\ Len(logs') = Len(logs) + Len(es) /\ Len(logs) \in Nat /\ Len(es) \in Nat
      /\ DOMAIN logs = 1..Len(logs) /\ DOMAIN es = 1..Len(es) /\ DOMAIN logs' = 1..Len(logs')
  BY <1>1, ConcatProperties
<1>3. \A i \in 1..Len(logs') : logs'[i] = IF i <= Len(logs) THEN logs[i] ELSE es[i - Len(logs)]
  BY <1>1, <1>2, ConcatProperties
<1>4. ASSUME NEW i \in DOMAIN es PROVE \E j \in DOMAIN logs' : logs'[j] = es[i]
  <2>1. /\ i + Len(logs) \in 1..Len(logs') /\ ~(i + Len(logs) <= Len(logs)) /\ (i + Len(logs)) - Len(logs) = i
    BY <1>2
  <2>2. logs'[i + Len(logs)] = es[i]
    BY <1>3, <2>1
  <2> QED
    BY <1>2, <2>1, <2>2
<1>5. ASSUME NEW i \in DOMAIN logs'
      PROVE  \/ i \in DOMAIN logs /\ logs'[i] = logs[i]
             \/ \E j \in DOMAIN es : logs'[i] = es[j]
  <2>1. CASE i <= Len(logs)
    BY <1>2, <1>3, <2>1
  <2>2. CASE ~(i <= Len(logs))
    <3>1. i - Len(logs) \in DOMAIN es
      BY <1>2, <2>2
    <3> QED
      BY <1>2, <1>3, <2>2, <3>1
  <2> QED
    BY <2>1, <2>2
<1>6. \A i \in DOMAIN logs : i \in DOMAIN logs' /\ logs'[i] = logs[i]
  BY <1>2, <1>3
<1> QED
  BY <1>2, <1>4, <1>5, <1>6

LEMMA Executed ==
  ASSUME IInv, NEW tx \in Tx, isValid(tx), execute(tx), channels' = channels
  PROVE  executed(tx)
<1> DEFINE p == tx.partner
           event(type, total) == [type |-> type, partner |-> p, participant |-> "own", total |-> total]
<1>1. p \in Partner /\ tx.value \in Nat /\ tx.method \in {"approve", "openChannel", "setTotalDeposit"}
  BY DEF Tx
<1>2. /\ balance \in Nat /\ allowance \in Nat /\ contract[p] \in [opened : BOOLEAN, own : Nat, partner : Nat]
      /\ contract \in [Partner -> [opened : BOOLEAN, own : Nat, partner : Nat]]
  BY <1>1 DEF IInv, Types
<1>3. /\ spent(tx) \in Nat /\ spent(tx) <= balance /\ spent(tx) <= allowance
      /\ tx.method = "setTotalDeposit" => tx.value > contract[p].own /\ contract[p].opened
      /\ tx.method = "openChannel" => ~contract[p].opened
  <2>1. CASE tx.method = "approve"
    BY <1>1, <1>2, <2>1 DEF isValid, spent
  <2>2. CASE tx.method = "openChannel"
    BY <1>1, <1>2, <2>2 DEF isValid, spent
  <2>3. CASE tx.method = "setTotalDeposit"
    BY <1>1, <1>2, <2>3 DEF isValid, spent
  <2> QED
    BY <1>1, <2>1, <2>2, <2>3
<1>4. balance' \in Nat /\ allowance' \in Nat
  BY <1>1, <1>2, <1>3 DEF execute
<1>5. /\ tx.method = "approve" => contract' = contract
      /\ tx.method # "approve" => contract' = [contract EXCEPT ![p].opened = TRUE, ![p].own = tx.value]
  BY DEF execute
<1>6. /\ contract' \in [Partner -> [opened : BOOLEAN, own : Nat, partner : Nat]]
      /\ \A q \in Partner : contract'[q].partner = contract[q].partner /\ (q # p => contract'[q] = contract[q])
      /\ tx.method # "approve" => contract'[p].own = tx.value /\ contract'[p].opened
  <2>1. CASE tx.method = "approve"
    BY <1>2, <1>5, <2>1
  <2>2. CASE tx.method # "approve"
    <3> DEFINE c == [contract[p] EXCEPT !.opened = TRUE, !.own = tx.value]
    <3>1. contract' = [contract EXCEPT ![p] = c]
      BY <1>1, <1>2, <1>5, <2>2
    <3>2. /\ c \in [opened : BOOLEAN, own : Nat, partner : Nat]
          /\ c.partner = contract[p].partner /\ c.own = tx.value /\ c.opened
      BY <1>1, <1>2
    <3> HIDE DEF c
    <3> QED
      BY <1>1, <1>2, <3>1, <3>2
  <2> QED
    BY <2>1, <2>2
<1> DEFINE es == eventsOf(tx)
<1>7. /\ es \in Seq(Log)
      /\ \A i \in DOMAIN es : /\ es[i].partner = p /\ es[i].participant = "own"
                              /\ tx.method # "approve" /\ es[i].total <= tx.value
      /\ tx.method # "approve" /\ tx.value > 0 =>
            \E i \in DOMAIN es : es[i].type = "deposit" /\ es[i].total = tx.value
  <2>1. event("opened", 0) \in Log /\ event("opened", tx.value) \in Log /\ event("deposit", tx.value) \in Log
    BY <1>1 DEF Log
  <2>2. [event("opened", tx.value) EXCEPT !.total = 0] = event("opened", 0)
    OBVIOUS
  <2>3. CASE withDeposit(tx)
    <3>1. es = <<[event("opened", tx.value) EXCEPT !.total = 0], event("deposit", tx.value)>> /\ tx.method # "approve"
      BY <2>3 DEF eventsOf, withDeposit
    <3>2. es = <<event("opened", 0), event("deposit", tx.value)>>
      BY <2>2, <3>1
    <3>3. /\ event("deposit", tx.value).type = "deposit" /\ event("deposit", tx.value).total = tx.value
          /\ 0 <= tx.value /\ tx.value <= tx.value
      BY <1>1
    <3> QED
      BY <1>1, <2>1, <3>1, <3>2, <3>3
  <2>4. CASE tx.method = "openChannel" /\ ~withDeposit(tx)
    <3>1. es = <<event("opened", tx.value)>> /\ tx.method # "approve" /\ ~(tx.value > 0)
      BY <1>1, <2>4 DEF eventsOf, withDeposit
    <3> QED
      BY <1>1, <2>1, <3>1
  <2>5. CASE tx.method = "setTotalDeposit"
    <3>1. es = <<event("deposit", tx.value)>> /\ tx.method # "approve"
      BY <2>5 DEF eventsOf, withDeposit
    <3> QED
      BY <1>1, <2>1, <3>1
  <2>6. CASE tx.method = "approve"
    <3>1. es = <<>>
      BY <2>6 DEF eventsOf, withDeposit
    <3> QED
      BY <2>6, <3>1
  <2> QED
    BY <1>1, <2>3, <2>4, <2>5, <2>6
<1>8. logs' = logs \o es
  BY DEF execute
<1> HIDE DEF es
<1>9. /\ logs' \in Seq(Log)
      /\ \A i \in DOMAIN logs : i \in DOMAIN logs' /\ logs'[i] = logs[i]
      /\ \A i \in DOMAIN es : \E j \in DOMAIN logs' : logs'[j] = es[i]
      /\ \A i \in DOMAIN logs' : \/ i \in DOMAIN logs /\ logs'[i] = logs[i]
                                 \/ \E j \in DOMAIN es : logs'[i] = es[j]
  BY <1>7, <1>8, LogsAre
<1>10. ASSUME NEW q \in Partner
       PROVE  /\ ~contract'[q].opened => contract'[q].own = 0
              /\ channels'[q].own <= contract'[q].own
              /\ \A i \in DOMAIN logs' : logs'[i].partner = q /\ logs'[i].participant = "own" => logs'[i].total <= contract'[q].own
              /\ \/ channels'[q].own = contract'[q].own
                 \/ \E i \in DOMAIN logs' : /\ logs'[i].partner = q /\ logs'[i].participant = "own" /\ logs'[i].type = "deposit"
                                            /\ logs'[i].total = contract'[q].own
              /\ \A i \in DOMAIN logs' :
                    logs'[i].partner = q /\ logs'[i].participant = "partner" /\ logs'[i].type = "deposit"
                      => contract'[q].partner > 0
  <2>1. /\ ~contract[q].opened => contract[q].own = 0
        /\ channels[q].own <= contract[q].own
        /\ \A i \in DOMAIN logs : logs[i].partner = q /\ logs[i].participant = "own" => logs[i].total <= contract[q].own
        /\ \/ channels[q].own = contract[q].own
           \/ \E i \in DOMAIN logs : /\ logs[i].partner = q /\ logs[i].participant = "own" /\ logs[i].type = "deposit"
                                     /\ logs[i].total = contract[q].own
        /\ \A i \in DOMAIN logs :
              logs[i].partner = q /\ logs[i].participant = "partner" /\ logs[i].type = "deposit" => contract[q].partner > 0
    BY DEF IInv, OnChain
  <2>2. \A i \in DOMAIN logs' :
           logs'[i].partner = q /\ logs'[i].participant = "partner" /\ logs'[i].type = "deposit" => contract'[q].partner > 0
    <3>1. contract'[q].partner = contract[q].partner
      BY <1>6
    <3>2. ASSUME NEW i \in DOMAIN logs', logs'[i].participant = "partner" PROVE i \in DOMAIN logs /\ logs'[i] = logs[i]
      <4>1. ~\E j \in DOMAIN es : logs'[i] = es[j]
        BY <1>7, <3>2
      <4> QED
        BY <1>9, <4>1
    <3> QED
      BY <2>1, <3>1, <3>2
  <2>3. \A i \in DOMAIN logs : logs[i].total \in Nat
    <3>1. \A i \in DOMAIN logs : logs[i] \in Log
      BY RangeIs DEF IInv, Types
    <3> QED
      BY <3>1 DEF Log
  <2>4. channels[q].own \in Nat /\ contract[q].own \in Nat
    BY NumbersAre
  <2>5. CASE q # p \/ tx.method = "approve"
    <3>1. contract'[q] = contract[q]
      BY <1>5, <1>6, <2>5
    <3>2. \A i \in DOMAIN logs' : logs'[i].partner = q => i \in DOMAIN logs /\ logs'[i] = logs[i]
      BY <1>7, <1>9, <2>5
    <3> QED
      BY <1>9, <2>1, <2>2, <3>1, <3>2
  <2>6. CASE q = p /\ tx.method # "approve"
    <3>1. contract'[q].own = tx.value /\ contract'[q].opened /\ contract[q].own <= tx.value
      BY <1>1, <1>3, <1>6, <2>1, <2>4, <2>6
    <3>2. \A i \in DOMAIN logs' : logs'[i].partner = q /\ logs'[i].participant = "own" => logs'[i].total <= tx.value
      BY <1>1, <1>7, <1>9, <2>1, <2>3, <2>4, <3>1, SMTT(30)
    <3>3. channels[q].own <= tx.value
      BY <1>1, <2>1, <2>4, <3>1
    <3>4. CASE tx.value > 0
      <4>1. PICK i \in DOMAIN es : es[i].type = "deposit" /\ es[i].total = tx.value
        BY <1>7, <2>6, <3>4
      <4>2. PICK j \in DOMAIN logs' : logs'[j] = es[i]
        BY <1>9
      <4>3. logs'[j].partner = q /\ logs'[j].participant = "own"
        BY <1>7, <2>6, <4>2
      <4> QED
        BY <2>2, <3>1, <3>2, <3>3, <4>1, <4>2, <4>3
    <3>5. CASE ~(tx.value > 0)
      <4>1. tx.value = 0 /\ channels[q].own = 0
        BY <1>1, <2>4, <3>3, <3>5
      <4> QED
        BY <2>2, <3>1, <3>2, <4>1
    <3> QED
      BY <3>4, <3>5
  <2> QED
    BY <2>5, <2>6
<1>11. OnChain'
  BY <1>10 DEF OnChain
<1>12. \A q \in Partner : /\ contract'[q].partner = contract[q].partner
                          /\ \/ contract'[q] = contract[q]
                             \/ tx.method # "approve" /\ tx.partner = q /\ contract'[q].own = tx.value
  BY <1>5, <1>6
<1> QED
  BY <1>4, <1>6, <1>9, <1>11, <1>12 DEF executed

\* What a transaction that was mined does to the request that waits for it
LEMMA Answered ==
  ASSUME IInv, mine
  PROVE  /\ fewer /\ failed \subseteq failed' /\ failed' \subseteq Partner /\ queue' \in Seq(DepositRequest)
         /\ queue' = queue \/ \E i \in DOMAIN queue : goesOn(i) \/ fails(i)
<1> DEFINE tx == Head(mempool)
           r == {i \in DOMAIN queue : queue[i].id = tx.by /\ handles(i, DOMAIN mined)}
           o == {x \in openings : x.id = tx.by /\ x.step = "sent"}
           opened == tx.method = "openChannel" /\ o # {}
           deposited == tx.method # "openChannel" /\ r # {}
<1>1. /\ opened => LET x == CHOOSE x \in o : TRUE IN
                   IF isValid(tx)
                   THEN /\ openings' = (openings \ {x}) \cup {[x EXCEPT !.step = "confirming"]}
                        /\ UNCHANGED <<queue, failed>>
                   ELSE retryOpen(x)
      /\ deposited => LET i == CHOOSE i \in r : TRUE IN
                      /\ IF isValid(tx)
                         THEN queue' = [queue EXCEPT ![i].step = mined[@]] /\ UNCHANGED failed
                         ELSE retryDeposit(i)
                      /\ UNCHANGED openings
      /\ ~opened /\ ~deposited => UNCHANGED <<queue, openings, failed>>
  BY DEF mine
<1>2. openings' = openings => fewer
  BY DEF fewer, IInv, Types
<1>3. failed \subseteq Partner /\ queue \in Seq(DepositRequest)
  BY DEF IInv, Types
<1>4. CASE opened
  <2> DEFINE x == CHOOSE x \in o : TRUE
  <2>1. x \in openings
    BY <1>4
  <2>2. CASE isValid(tx)
    <3>1. openings' = (openings \ {x}) \cup {[x EXCEPT !.step = "confirming"]} /\ UNCHANGED <<queue, failed>>
      BY <1>1, <1>4, <2>2
    <3> HIDE DEF x
    <3>2. fewer
      BY <2>1, <3>1, Advances
    <3> QED
      BY <1>3, <3>1, <3>2
  <2>3. CASE ~isValid(tx)
    <3>1. retryOpen(x)
      BY <1>1, <1>4, <2>3
    <3> HIDE DEF x
    <3> QED
      BY <2>1, <3>1, RetryOpen
  <2> QED
    BY <2>2, <2>3
<1>5. CASE deposited
  <2> DEFINE i == CHOOSE i \in r : TRUE
  <2>1. /\ i \in DOMAIN queue /\ handles(i, DOMAIN mined) /\ openings' = openings
        /\ isValid(tx) => queue' = [queue EXCEPT ![i].step = mined[@]] /\ UNCHANGED failed
        /\ ~isValid(tx) => retryDeposit(i)
    BY <1>1, <1>5
  <2> HIDE DEF i
  <2>2. DOMAIN mined = {"resetting", "approving", "depositing"}
    BY DEF mined
  <2>3. isHead(i) /\ queue[i].step # "queued" /\ queue[i].step \in {"resetting", "approving", "depositing"}
    BY <2>1, <2>2 DEF handles, handled
  <2>4. CASE isValid(tx)
    <3> DEFINE s == [queue[i] EXCEPT !.step = mined[queue[i].step]]
    <3>1. mined[queue[i].step] \in {"approve", "channelId", "confirming"}
      BY <2>3 DEF mined
    <3>2. queue[i] \in DepositRequest
      BY <2>1, RequestsAre
    <3>3. s \in DepositRequest /\ s.total = queue[i].total /\ sameRequest(queue[i], s)
      BY <3>1, <3>2 DEF DepositRequest, DepositStep, sameRequest
    <3>4. queue' = [queue EXCEPT ![i] = s]
      BY <2>1, <2>4, <3>2
    <3> HIDE DEF s
    <3>5. goesOn(i)
      BY <2>3, <3>3, <3>4 DEF goesOn
    <3>6. queue' \in Seq(DepositRequest)
      <4> HIDE DEF r, o, opened, deposited, tx
      <4>1. i \in DOMAIN queue /\ s \in DepositRequest
        BY <2>1, <3>3
      <4> QED
        BY <1>3, <3>4, <4>1
    <3> QED
      BY <1>2, <1>3, <2>1, <2>4, <3>5, <3>6
  <2>5. CASE ~isValid(tx)
    BY <1>2, <2>1, <2>3, <2>5, RetryDeposit
  <2> QED
    BY <2>4, <2>5
<1>6. CASE ~opened /\ ~deposited
  BY <1>1, <1>2, <1>3, <1>6
<1> QED
  BY <1>4, <1>5, <1>6

LEMMA mineKeeps ==
  ASSUME IInv, mine
  PROVE  IInv'
<1> DEFINE tx == Head(mempool)
<1>1. /\ mempool # <<>> /\ mempool' = Tail(mempool) /\ UNCHANGED <<config, channels, user>>
      /\ isValid(tx) => execute(tx)
      /\ ~isValid(tx) => UNCHANGED <<balance, allowance, contract, logs>>
  BY DEF mine
<1>2. /\ mempool \in Seq(Tx) /\ Len(mempool) \in Nat /\ 1 \in DOMAIN mempool /\ tx = mempool[1] /\ tx \in Tx
      /\ mempool' \in Seq(Tx) /\ DOMAIN mempool = 1..Len(mempool) /\ DOMAIN mempool' = 1..(Len(mempool) - 1)
      /\ \A i \in DOMAIN mempool' : mempool'[i] = mempool[i + 1]
  <2>1. mempool \in Seq(Tx)
    BY DEF IInv, Types
  <2> QED
    BY <1>1, <2>1, HeadTailProperties
<1>3. tx.partner \in Partner
  BY <1>2 DEF Tx
<1>4. tx.method # "approve" => tx.value <= due(tx.partner)
  BY <1>2, <1>3 DEF IInv, NoMore
<1>5. \A p \in Partner : \A i \in DOMAIN mempool' :
         mempool'[i].partner = p /\ mempool'[i].method # "approve" => mempool'[i].value <= due(p)
  <2>1. \A i \in DOMAIN mempool' : i + 1 \in DOMAIN mempool
    BY <1>2
  <2> QED
    BY <1>2, <2>1 DEF IInv, NoMore
<1> HIDE DEF tx
<1>6. /\ balance' \in Nat /\ allowance' \in Nat /\ logs' \in Seq(Log)
      /\ contract' \in [Partner -> [opened : BOOLEAN, own : Nat, partner : Nat]]
      /\ OnChain' /\ \A p \in Partner : contract'[p].partner = contract[p].partner /\ contract'[p].own <= due(p)
  <2>1. \A p \in Partner : contract[p].own <= due(p)
    BY DEF IInv, NoMore
  <2>2. CASE isValid(tx)
    <3>1. executed(tx)
      BY <1>1, <1>2, <2>2, Executed
    <3> QED
      BY <1>4, <2>1, <3>1 DEF executed
  <2>3. CASE ~isValid(tx)
    BY <1>1, <2>1, <2>3 DEF IInv, Types, OnChain
  <2> QED
    BY <2>2, <2>3
<1>7. /\ fewer /\ failed \subseteq failed' /\ failed' \subseteq Partner /\ queue' \in Seq(DepositRequest)
      /\ queue' = queue \/ \E i \in DOMAIN queue : goesOn(i) \/ fails(i)
  BY Answered
<1>8. openings' \subseteq OpenRequest /\ \A p \in Partner : \A o \in openings' : o.partner = p => o.amount <= asked[p].open
  BY <1>7, FewerIs
<1>9. others
  BY <1>1, <1>6, <1>7, NumbersAre DEF others, user
<1>10. kept
  BY <1>7, <1>9, QueueKeeps
<1>11. withinDue
  BY <1>5, <1>6, <1>8 DEF withinDue
<1>12. Types'
  BY <1>1, <1>2, <1>6, <1>7, <1>8 DEF IInv, Types, user
<1> QED
  BY <1>6, <1>9, <1>10, <1>11, <1>12, MoneyKept

-----------------------------------------------------------------------------
(* Events *)

LEMMA openingSeenKeeps ==
  ASSUME IInv, NEW p \in Partner, openingSeen(p)
  PROVE  IInv'
<1>1. /\ openings' = {IF o.partner = p THEN [o EXCEPT !.step = "confirming"] ELSE o : o \in openings}
      /\ UNCHANGED <<config, balance, allowance, contract, mempool, logs, channels, queue, user, failed>>
  BY DEF openingSeen
<1>2. fewer
  <2>1. SUFFICES ASSUME NEW o \in openings
                 PROVE  LET s == IF o.partner = p THEN [o EXCEPT !.step = "confirming"] ELSE o
                        IN s \in OpenRequest /\ s.partner = o.partner /\ s.amount = o.amount
    BY <1>1 DEF fewer
  <2>2. o \in OpenRequest /\ [o EXCEPT !.step = "confirming"] \in OpenRequest
    BY OpenTypes
  <2> QED
    BY <2>2 DEF OpenRequest
<1>3. openings' \subseteq OpenRequest /\ \A q \in Partner : \A o \in openings' : o.partner = q => o.amount <= asked[q].open
  BY <1>2, FewerIs
<1>4. Types'
  BY <1>1, <1>3 DEF IInv, Types, user
<1> QED
  BY <1>1, <1>3, <1>4, OffChain DEF IInv, NoMore, user

LEMMA partnerOpensKeeps ==
  ASSUME IInv, NEW p \in Partner, partnerOpens(p)
  PROVE  IInv'
<1> DEFINE e == [type |-> "opened", partner |-> p, participant |-> "partner", total |-> 0]
<1>1. /\ contract' = [contract EXCEPT ![p].opened = TRUE] /\ logs' = Append(logs, e) /\ e \in Log
      /\ UNCHANGED <<config, balance, allowance, mempool, channels, queue, openings, user, failed>>
  BY DEF partnerOpens, Log
<1>2. /\ contract' \in [Partner -> [opened : BOOLEAN, own : Nat, partner : Nat]]
      /\ \A q \in Partner : /\ contract'[q].own = contract[q].own /\ contract'[q].partner = contract[q].partner
                            /\ contract[q].opened => contract'[q].opened
  BY <1>1 DEF IInv, Types
<1> HIDE DEF e
<1>3. /\ logs' \in Seq(Log) /\ DOMAIN logs = 1..Len(logs) /\ DOMAIN logs' = 1..(Len(logs) + 1) /\ Len(logs) \in Nat
      /\ \A i \in 1..Len(logs) : logs'[i] = logs[i]
      /\ logs'[Len(logs) + 1] = e
  <2>1. logs \in Seq(Log)
    BY DEF IInv, Types
  <2> QED
    BY <1>1, <2>1, AppendProperties
<1>4. \A i \in DOMAIN logs' : (i \in DOMAIN logs /\ logs'[i] = logs[i]) \/ logs'[i] = e
  BY <1>3
<1>5. \A i \in DOMAIN logs : i \in DOMAIN logs' /\ logs'[i] = logs[i]
  BY <1>3
<1>6. e.participant = "partner" /\ e.type = "opened"
  BY DEF e
<1>7. OnChain'
  <2> SUFFICES ASSUME NEW q \in Partner
               PROVE  /\ ~contract'[q].opened => contract'[q].own = 0
                      /\ channels'[q].own <= contract'[q].own
                      /\ \A i \in DOMAIN logs' : logs'[i].partner = q /\ logs'[i].participant = "own" => logs'[i].total <= contract'[q].own
                      /\ \/ channels'[q].own = contract'[q].own
                         \/ \E i \in DOMAIN logs' : /\ logs'[i].partner = q /\ logs'[i].participant = "own" /\ logs'[i].type = "deposit"
                                                    /\ logs'[i].total = contract'[q].own
                      /\ \A i \in DOMAIN logs' :
                            logs'[i].partner = q /\ logs'[i].participant = "partner" /\ logs'[i].type = "deposit"
                              => contract'[q].partner > 0
    BY DEF OnChain
  <2> QED
    BY <1>1, <1>2, <1>4, <1>5, <1>6, SMTT(30) DEF IInv, OnChain
<1>8. others
  BY <1>1, <1>2, NumbersAre DEF others, user
<1>9. kept
  BY <1>1, <1>8, QueueKeeps
<1>10. withinDue
  BY <1>1, <1>2 DEF withinDue, IInv, NoMore
<1>11. Types'
  BY <1>1, <1>2, <1>3 DEF IInv, Types, user
<1> QED
  BY <1>7, <1>8, <1>9, <1>10, <1>11, MoneyKept

LEMMA partnerDepositsKeeps ==
  ASSUME IInv, NEW p \in Partner, NEW amount \in Amount, partnerDeposits(p, amount)
  PROVE  IInv'
<1> DEFINE e == [type |-> "deposit", partner |-> p, participant |-> "partner", total |-> amount]
<1>1. /\ contract' = [contract EXCEPT ![p].partner = amount] /\ logs' = Append(logs, e) /\ contract[p].partner < amount
      /\ UNCHANGED <<config, balance, allowance, mempool, channels, queue, openings, user, failed>>
  BY DEF partnerDeposits
<1>2. amount \in Nat /\ amount > 0 /\ e \in Log
  BY Bounds DEF Log
<1>3. /\ contract' \in [Partner -> [opened : BOOLEAN, own : Nat, partner : Nat]]
      /\ \A q \in Partner : /\ contract'[q].own = contract[q].own /\ contract'[q].opened = contract[q].opened
                            /\ contract'[q].partner = IF q = p THEN amount ELSE contract[q].partner
  BY <1>1, <1>2 DEF IInv, Types
<1>4. \A q \in Partner : contract'[q].partner >= contract[q].partner /\ (contract[q].partner > 0 => contract'[q].partner > 0)
  <2> TAKE q \in Partner
  <2>1. contract[q].partner \in Nat
    BY NumbersAre
  <2> QED
    BY <1>1, <1>2, <1>3, <2>1
<1>5. e.participant = "partner" /\ e.partner = p
  OBVIOUS
<1> HIDE DEF e
<1>6. /\ logs' \in Seq(Log) /\ DOMAIN logs = 1..Len(logs) /\ DOMAIN logs' = 1..(Len(logs) + 1) /\ Len(logs) \in Nat
      /\ \A i \in 1..Len(logs) : logs'[i] = logs[i]
      /\ logs'[Len(logs) + 1] = e
  <2>1. logs \in Seq(Log)
    BY DEF IInv, Types
  <2> QED
    BY <1>1, <1>2, <2>1, AppendProperties
<1>7. \A i \in DOMAIN logs' : (i \in DOMAIN logs /\ logs'[i] = logs[i]) \/ logs'[i] = e
  BY <1>6
<1>8. \A i \in DOMAIN logs : i \in DOMAIN logs' /\ logs'[i] = logs[i]
  BY <1>6
<1>9. OnChain'
  <2> SUFFICES ASSUME NEW q \in Partner
               PROVE  /\ ~contract'[q].opened => contract'[q].own = 0
                      /\ channels'[q].own <= contract'[q].own
                      /\ \A i \in DOMAIN logs' : logs'[i].partner = q /\ logs'[i].participant = "own" => logs'[i].total <= contract'[q].own
                      /\ \/ channels'[q].own = contract'[q].own
                         \/ \E i \in DOMAIN logs' : /\ logs'[i].partner = q /\ logs'[i].participant = "own" /\ logs'[i].type = "deposit"
                                                    /\ logs'[i].total = contract'[q].own
                      /\ \A i \in DOMAIN logs' :
                            logs'[i].partner = q /\ logs'[i].participant = "partner" /\ logs'[i].type = "deposit"
                              => contract'[q].partner > 0
    BY DEF OnChain
  <2>1. q = p => contract'[q].partner > 0
    BY <1>2, <1>3
  <2>2. \A i \in DOMAIN logs' : logs'[i].participant = "own" => i \in DOMAIN logs /\ logs'[i] = logs[i]
    BY <1>5, <1>7
  <2>3. \A i \in DOMAIN logs' :
           logs'[i].partner = q /\ logs'[i].participant = "partner" /\ logs'[i].type = "deposit" => contract'[q].partner > 0
    BY <1>4, <1>5, <1>7, <2>1 DEF IInv, OnChain
  <2>4. contract'[q].own = contract[q].own /\ contract'[q].opened = contract[q].opened /\ channels' = channels
    BY <1>1, <1>3
  <2>5. \A i \in DOMAIN logs' : logs'[i].partner = q /\ logs'[i].participant = "own" => logs'[i].total <= contract'[q].own
    BY <2>2, <2>4 DEF IInv, OnChain
  <2>6. \/ channels'[q].own = contract'[q].own
        \/ \E i \in DOMAIN logs' : /\ logs'[i].partner = q /\ logs'[i].participant = "own" /\ logs'[i].type = "deposit"
                                   /\ logs'[i].total = contract'[q].own
    BY <1>8, <2>4 DEF IInv, OnChain
  <2> QED
    BY <2>3, <2>4, <2>5, <2>6 DEF IInv, OnChain
<1>10. others
  BY <1>1, <1>4, NumbersAre DEF others, user
<1>11. kept
  BY <1>1, <1>10, QueueKeeps
<1>12. withinDue
  BY <1>1, <1>3 DEF withinDue, IInv, NoMore
<1>13. Types'
  BY <1>1, <1>3, <1>6 DEF IInv, Types, user
<1> QED
  BY <1>9, <1>10, <1>11, <1>12, <1>13, MoneyKept

-----------------------------------------------------------------------------
(* The user *)

LEMMA RequestIs ==
  ASSUME IInv, NEW p \in Partner, NEW amount \in Amount, NEW relative \in BOOLEAN, requests < MaxRequests
  PROVE  LET s == request(p, relative, amount)
         IN /\ s \in DepositRequest /\ s.id = requests + 1 /\ s.partner = p /\ s.relative = relative
            /\ s.amount = amount /\ s.step = "queued" /\ amount \in Nat
<1>1. requests + 1 \in Id /\ amount \in Nat /\ 0 \in 0..MaxRetries
  BY Bounds, FundingAssumption DEF IInv, Types
<1> QED
  BY <1>1 DEF request, DepositRequest

\* A request of the user: what is due doesn't get less
LEMMA RequestKept ==
  ASSUME IInv, NEW p \in Partner, plan[p] # <<>>, plan' = [plan EXCEPT ![p] = Tail(@)],
         requests < MaxRequests, requests' = requests + 1,
         UNCHANGED <<config, balance, allowance, contract, mempool, logs, channels>>,
         failed' \subseteq Partner, queue' \in Seq(DepositRequest), Sorted', Serial', openings' \subseteq OpenRequest,
         asked' \in [Partner -> [opens : Nat, open : Nat, more : Nat]],
         \A q \in Partner : /\ bounded(q)' /\ due(q)' \in Int /\ due(q) <= due(q)'
                            /\ \A o \in openings' : o.partner = q => o.amount <= asked'[q].open
                            /\ isFine(q)' => reached(q)'
  PROVE  IInv'
<1>1. plan' \in [Partner -> Seq(Amount)]
  <2>1. plan \in [Partner -> Seq(Amount)] /\ plan[p] \in Seq(Amount)
    BY DEF IInv, Types
  <2>2. Tail(plan[p]) \in Seq(Amount)
    BY <2>1, HeadTailProperties
  <2> QED
    BY <2>1, <2>2
<1>2. requests' \in 0..MaxRequests
  BY Bounds DEF IInv, Types
<1>3. Types'
  BY <1>1, <1>2 DEF IInv, Types
<1>4. OnChain'
  BY DEF IInv, OnChain
<1>5. ASSUME NEW q \in Partner
      PROVE  /\ contract'[q].own <= due(q)'
             /\ \A i \in DOMAIN mempool' :
                   mempool'[i].partner = q /\ mempool'[i].method # "approve" => mempool'[i].value <= due(q)'
  <2>1. contract[q].own \in Nat /\ due(q) \in Int /\ due(q)' \in Int /\ due(q) <= due(q)'
    BY NumbersAre
  <2>2. \A i \in DOMAIN mempool : mempool[i].value \in Nat
    <3>1. mempool \in Seq(Tx)
      BY DEF IInv, Types
    <3>2. \A i \in DOMAIN mempool : mempool[i] \in Tx
      BY <3>1, RangeIs
    <3> QED
      BY <3>2 DEF Tx
  <2>3. contract[q].own <= due(q)
    BY DEF IInv, NoMore
  <2>4. \A i \in DOMAIN mempool : mempool[i].partner = q /\ mempool[i].method # "approve" => mempool[i].value <= due(q)
    BY DEF IInv, NoMore
  <2>5. contract[q].own <= due(q)'
    BY <2>1, <2>3
  <2>6. \A i \in DOMAIN mempool : mempool[i].partner = q /\ mempool[i].method # "approve" => mempool[i].value <= due(q)'
    BY <2>1, <2>2, <2>4, SMTT(30)
  <2> QED
    BY <2>5, <2>6
<1>6. NoMore'
  BY <1>5 DEF NoMore
<1>7. NoLess'
  BY DEF NoLess
<1> QED
  BY <1>3, <1>4, <1>6, <1>7 DEF IInv

LEMMA channelOpenRequestKeeps ==
  ASSUME IInv, NEW p \in Partner, NEW amount \in Amount, plan[p] # <<>>, channelOpenRequest(p, amount)
  PROVE  IInv'
<1> DEFINE s == request(p, FALSE, amount)
           o == [id |-> requests + 1, partner |-> p, step |-> "send", retries |-> 0,
                 amount |-> IF config.openChannelWithDeposit THEN amount ELSE 0]
<1>1. /\ requests < MaxRequests /\ requests' = requests + 1 /\ plan' = [plan EXCEPT ![p] = Tail(@)]
      /\ UNCHANGED <<config, balance, allowance, contract, mempool, logs, channels>>
  BY DEF channelOpenRequest
<1>2. CASE channels[p].known
  <2>1. failed' = failed \cup {p} /\ UNCHANGED <<openings, queue, asked>>
    BY <1>2 DEF channelOpenRequest
  <2>2. failed' \subseteq Partner /\ failed \subseteq failed' /\ queue' \in Seq(DepositRequest) /\ Serial'
    BY <2>1 DEF IInv, Types, Serial
  <2>3. Sorted'
    <3>1. \A i \in DOMAIN queue : queue[i].id \in Nat
      BY RequestsAre, Bounds DEF DepositRequest
    <3>2. requests \in Nat
      BY Bounds DEF IInv, Types
    <3>3. \A i \in DOMAIN queue : queue[i].id <= requests + 1
      BY <3>1, <3>2 DEF IInv, Sorted
    <3> QED
      BY <1>1, <2>1, <3>3 DEF IInv, Sorted
  <2>4. \A q : requestsOf(q)' = requestsOf(q)
    BY <2>1 DEF requestsOf
  <2>5. \A q \in Partner : contract'[q].partner >= contract[q].partner /\ due(q) \in Int
    BY <1>1, NumbersAre
  <2>6. \A q \in Partner : bounded(q)' /\ due(q)' \in Int /\ due(q) <= due(q)' /\ (isFine(q)' => reached(q)')
    BY <1>1, <2>1, <2>2, <2>4, <2>5, Untouched
  <2>7. /\ asked' \in [Partner -> [opens : Nat, open : Nat, more : Nat]] /\ openings' \subseteq OpenRequest
        /\ \A q \in Partner : \A x \in openings' : x.partner = q => x.amount <= asked'[q].open
    BY <2>1 DEF IInv, Types, NoMore
  <2> QED
    BY <1>1, <2>2, <2>3, <2>6, <2>7, RequestKept
<1>3. CASE ~channels[p].known
  <2>1. /\ openings' = openings \cup {o} /\ queue' = Append(queue, s) /\ UNCHANGED failed
        /\ asked' = [asked EXCEPT ![p].opens = @ + 1, ![p].open = max(@, amount)]
    BY <1>3 DEF channelOpenRequest
  <2>2. /\ s \in DepositRequest /\ s.id = requests + 1 /\ s.partner = p /\ s.relative = FALSE
        /\ s.amount = amount /\ s.step = "queued" /\ amount \in Nat
    BY <1>1, RequestIs
  <2>3. o \in OpenRequest /\ o.partner = p /\ o.amount \in Nat /\ o.amount <= amount
    <3>1. requests + 1 \in Id /\ 0 \in 0..MaxRetries
      BY <1>1, Bounds, FundingAssumption DEF IInv, Types
    <3> QED
      BY <2>2, <3>1 DEF OpenRequest
  <2> HIDE DEF s, o
  <2>4. /\ asked' \in [Partner -> [opens : Nat, open : Nat, more : Nat]]
        /\ \A q \in Partner : q # p => asked'[q] = asked[q]
        /\ asked'[p].opens = asked[p].opens + 1 /\ asked'[p].more = asked[p].more
        /\ asked'[p].open = max(asked[p].open, amount)
    <3>1. asked[p] \in [opens : Nat, open : Nat, more : Nat] /\ asked \in [Partner -> [opens : Nat, open : Nat, more : Nat]]
      BY DEF IInv, Types
    <3>2. max(asked[p].open, amount) \in Nat
      BY <2>2, <3>1 DEF max
    <3> DEFINE a == [asked[p] EXCEPT !.opens = @ + 1, !.open = max(@, amount)]
    <3>3. asked' = [asked EXCEPT ![p] = a]
      BY <2>1, <3>1
    <3>4. \A x \in [opens : Nat, open : Nat, more : Nat], n \in Nat, m \in Nat :
             LET y == [x EXCEPT !.opens = m, !.open = n]
             IN y \in [opens : Nat, open : Nat, more : Nat] /\ y.opens = m /\ y.open = n /\ y.more = x.more
      OBVIOUS
    <3>5. asked[p].opens + 1 \in Nat
      BY <3>1
    <3>6. /\ a \in [opens : Nat, open : Nat, more : Nat] /\ a.opens = asked[p].opens + 1 /\ a.more = asked[p].more
          /\ a.open = max(asked[p].open, amount)
      BY <3>1, <3>2, <3>4, <3>5
    <3> HIDE DEF a
    <3> QED
      BY <3>1, <3>3, <3>6
  <2>5. /\ queue' \in Seq(DepositRequest) /\ Sorted' /\ Serial'
        /\ \A q : q # p => requestsOf(q)' = requestsOf(q)
        /\ requestsOf(p)' = requestsOf(p) \cup {s}
        /\ \A q : sumOf(waiting(q))' = sumOf(waiting(q)) + (IF q = p /\ s.relative THEN s.amount ELSE 0)
    BY <1>1, <2>1, <2>2, Appended
  <2>6. /\ asked[p].open \in Nat /\ asked[p].more \in Nat /\ asked[p].opens \in Nat /\ sumOf(waiting(p)) \in Nat
        /\ due(p) = asked[p].open + asked[p].more - sumOf(waiting(p)) /\ due(p) \in Int
        /\ \A r \in requestsOf(p) : r.amount \in Nat /\ r.total \in Nat
    BY NumbersAre
  <2>7. sumOf(waiting(p))' = sumOf(waiting(p))
    BY <2>2, <2>5, <2>6
  <2>8. asked[p].open <= asked'[p].open /\ amount <= asked'[p].open /\ asked'[p].open \in Nat
    BY <2>2, <2>4, <2>6 DEF max
  <2>9. due(p)' \in Int /\ due(p) <= due(p)'
    <3>1. due(p)' = asked'[p].open + asked'[p].more - sumOf(waiting(p))'
      BY DEF due
    <3> QED
      BY <2>4, <2>6, <2>7, <2>8, <3>1
  <2>10. initial(p)' = initial(p) \cup {s} /\ started(p)' = started(p)
    BY <2>2, <2>5 DEF initial, started
  <2>11. bounded(p)'
    <3>1. /\ sumOf(waiting(p)) <= asked[p].more
          /\ \A r \in initial(p) : r.amount <= asked[p].open /\ (r.step # "queued" => r.total = r.amount)
          /\ \A r \in started(p) : r.total <= due(p)
      BY DEF IInv, NoMore, bounded
    <3>2. \A r \in initial(p)' : r.amount <= asked'[p].open /\ (r.step # "queued" => r.total = r.amount)
      <4>1. \A r \in initial(p) : r.amount <= asked'[p].open
        BY <2>6, <2>8, <3>1 DEF initial
      <4> QED
        BY <2>2, <2>8, <2>10, <3>1, <4>1
    <3>3. \A r \in started(p)' : r.total <= due(p)'
      BY <2>6, <2>9, <2>10, <3>1 DEF started
    <3>4. sumOf(waiting(p))' <= asked'[p].more
      BY <2>4, <2>7, <3>1
    <3> QED
      BY <3>2, <3>3, <3>4 DEF bounded
  <2>12. ASSUME isFine(p)' PROVE reached(p)'
    <3>1. reached(p) /\ channels' = channels
      BY <1>1, <2>1, <2>12 DEF isFine, IInv, NoLess
    <3>2. asked'[p].open <= channels'[p].own \/ \E r \in initial(p)' : r.amount = asked'[p].open
      <4>1. CASE asked'[p].open = amount
        BY <2>2, <2>10, <4>1
      <4>2. CASE asked'[p].open = asked[p].open
        BY <2>10, <3>1, <4>2 DEF reached
      <4> QED
        BY <2>4, <4>1, <4>2 DEF max
    <3>3. asked'[p].opens # 0
      BY <2>4, <2>6
    <3>4. ASSUME asked'[p].opens <= 1
          PROVE  /\ \A r \in initial(p)' : /\ asked'[p].more = sumOf(waiting(p))'
                                           /\ \A x \in requestsOf(p)' : x = r \/ (x.relative /\ r.id < x.id)
                 /\ initial(p)' # {}
      <4>1. asked[p].opens = 0
        BY <2>4, <2>6, <3>4
      <4>2. asked[p].more = 0 /\ requestsOf(p) = {} /\ initial(p) = {}
        BY <1>3, <3>1, <4>1 DEF reached
      <4>3. sumOf(waiting(p)) = 0
        BY <4>2, SumOfNone DEF waiting
      <4> QED
        BY <2>4, <2>5, <2>7, <2>10, <4>2, <4>3
    <3> QED
      BY <3>2, <3>3, <3>4 DEF reached
  <2>13. ASSUME NEW q \in Partner
         PROVE  /\ bounded(q)' /\ due(q)' \in Int /\ due(q) <= due(q)'
                /\ \A x \in openings' : x.partner = q => x.amount <= asked'[q].open
                /\ isFine(q)' => reached(q)'
    <3>1. contract'[q].partner >= contract[q].partner /\ due(q) \in Int
      BY <1>1, NumbersAre
    <3>2. \A x \in openings : x.partner = q => x.amount <= asked[q].open /\ x.amount \in Nat
      BY OpenTypes DEF IInv, NoMore
    <3>3. \A x \in openings' : x.partner = q => x.amount <= asked'[q].open
      <4>1. CASE q = p
        BY <2>1, <2>2, <2>3, <2>6, <2>8, <3>2, <4>1, SMTT(30)
      <4>2. CASE q # p
        BY <2>1, <2>3, <2>4, <3>2, <4>2
      <4> QED
        BY <4>1, <4>2
    <3>4. CASE q = p
      BY <2>9, <2>11, <2>12, <3>3, <3>4
    <3>5. CASE q # p
      BY <1>1, <2>1, <2>4, <2>5, <3>1, <3>3, <3>5, Untouched
    <3> QED
      BY <3>4, <3>5
  <2>14. openings' \subseteq OpenRequest /\ failed' \subseteq Partner
    BY <2>1, <2>3 DEF IInv, Types
  <2> QED
    BY <1>1, <2>4, <2>5, <2>13, <2>14, RequestKept
<1> QED
  BY <1>2, <1>3

LEMMA channelDepositRequestKeeps ==
  ASSUME IInv, NEW p \in Partner, NEW amount \in Amount, plan[p] # <<>>, channelDepositRequest(p, amount)
  PROVE  IInv'
<1> DEFINE s == request(p, TRUE, amount)
<1>1. /\ requests < MaxRequests /\ requests' = requests + 1 /\ plan' = [plan EXCEPT ![p] = Tail(@)]
      /\ UNCHANGED <<config, balance, allowance, contract, mempool, logs, channels, openings, failed>>
      /\ queue' = Append(queue, s) /\ asked' = [asked EXCEPT ![p].more = @ + amount]
  BY DEF channelDepositRequest
<1>2. channels[p].known \/ requestsOf(p) # {}
  BY RequestsAre DEF channelDepositRequest, requestsOf
<1>3. /\ s \in DepositRequest /\ s.id = requests + 1 /\ s.partner = p /\ s.relative = TRUE
      /\ s.amount = amount /\ s.step = "queued" /\ amount \in Nat
  BY <1>1, RequestIs
<1> HIDE DEF s
<1>4. /\ asked' \in [Partner -> [opens : Nat, open : Nat, more : Nat]]
      /\ \A q \in Partner : q # p => asked'[q] = asked[q]
      /\ asked'[p].opens = asked[p].opens /\ asked'[p].more = asked[p].more + amount /\ asked'[p].open = asked[p].open
  <2>1. asked[p] \in [opens : Nat, open : Nat, more : Nat] /\ asked \in [Partner -> [opens : Nat, open : Nat, more : Nat]]
    BY DEF IInv, Types
  <2>2. \A x \in [opens : Nat, open : Nat, more : Nat], n \in Nat :
           LET y == [x EXCEPT !.more = n]
           IN y \in [opens : Nat, open : Nat, more : Nat] /\ y.opens = x.opens /\ y.open = x.open /\ y.more = n
    OBVIOUS
  <2> DEFINE a == [asked[p] EXCEPT !.more = @ + amount]
  <2>3. asked' = [asked EXCEPT ![p] = a] /\ asked[p].more + amount \in Nat
    BY <1>1, <1>3, <2>1
  <2>4. /\ a \in [opens : Nat, open : Nat, more : Nat] /\ a.opens = asked[p].opens /\ a.open = asked[p].open
        /\ a.more = asked[p].more + amount
    BY <2>1, <2>2, <2>3
  <2> HIDE DEF a
  <2> QED
    BY <2>1, <2>3, <2>4
<1>5. /\ queue' \in Seq(DepositRequest) /\ Sorted' /\ Serial'
      /\ \A q : q # p => requestsOf(q)' = requestsOf(q)
      /\ requestsOf(p)' = requestsOf(p) \cup {s}
      /\ \A r \in Range(queue) : r.id < s.id
      /\ \A q : sumOf(waiting(q))' = sumOf(waiting(q)) + (IF q = p /\ s.relative THEN s.amount ELSE 0)
  BY <1>1, <1>3, Appended
<1>6. /\ asked[p].open \in Nat /\ asked[p].more \in Nat /\ asked[p].opens \in Nat /\ sumOf(waiting(p)) \in Nat
      /\ due(p) = asked[p].open + asked[p].more - sumOf(waiting(p)) /\ due(p) \in Int
  BY NumbersAre
<1>7. sumOf(waiting(p))' = sumOf(waiting(p)) + amount
  BY <1>3, <1>5
<1>8. due(p)' = due(p)
  <2>1. due(p)' = asked'[p].open + asked'[p].more - sumOf(waiting(p))'
    BY DEF due
  <2> QED
    BY <1>3, <1>4, <1>6, <1>7, <2>1
<1>9. initial(p)' = initial(p) /\ started(p)' = started(p) /\ initial(p) \subseteq Range(queue)
  BY <1>3, <1>5 DEF initial, started, requestsOf
<1>10. bounded(p)'
  BY <1>3, <1>4, <1>6, <1>7, <1>8, <1>9 DEF IInv, NoMore, bounded
<1>11. ASSUME isFine(p)' PROVE reached(p)'
  <2>1. reached(p) /\ channels' = channels
    BY <1>1, <1>11 DEF isFine, IInv, NoLess
  <2>2. asked'[p].open <= channels'[p].own \/ \E r \in initial(p)' : r.amount = asked'[p].open
    BY <1>4, <1>9, <2>1 DEF reached
  <2>3. asked'[p].opens = 0 => asked'[p].open = 0 /\ initial(p)' = {} /\ channels'[p].known
    BY <1>2, <1>4, <1>9, <2>1 DEF reached
  <2>4. ASSUME asked'[p].opens <= 1
        PROVE  /\ \A r \in initial(p)' : /\ asked'[p].more = sumOf(waiting(p))'
                                         /\ \A x \in requestsOf(p)' : x = r \/ (x.relative /\ r.id < x.id)
               /\ initial(p)' = {} =>
                    /\ \A r \in started(p)' : r.total >= due(p)'
                    /\ started(p)' = {} => channels'[p].own >= due(p)'
    BY <1>3, <1>4, <1>5, <1>7, <1>8, <1>9, <2>1, <2>4 DEF reached
  <2> QED
    BY <2>2, <2>3, <2>4 DEF reached
<1>12. ASSUME NEW q \in Partner
       PROVE  /\ bounded(q)' /\ due(q)' \in Int /\ due(q) <= due(q)'
              /\ \A x \in openings' : x.partner = q => x.amount <= asked'[q].open
              /\ isFine(q)' => reached(q)'
  <2>1. contract'[q].partner >= contract[q].partner /\ due(q) \in Int
    BY <1>1, NumbersAre
  <2>2. \A x \in openings' : x.partner = q => x.amount <= asked'[q].open
    BY <1>1, <1>4 DEF IInv, NoMore
  <2>3. CASE q = p
    BY <1>6, <1>8, <1>10, <1>11, <2>2, <2>3
  <2>4. CASE q # p
    BY <1>1, <1>4, <1>5, <2>1, <2>2, <2>4, Untouched
  <2> QED
    BY <2>3, <2>4
<1>13. openings' \subseteq OpenRequest /\ failed' \subseteq Partner
  BY <1>1 DEF IInv, Types
<1> QED
  BY <1>1, <1>4, <1>5, <1>12, <1>13, RequestKept

-----------------------------------------------------------------------------
(* Confirmations *)

\* What is left of the events, and what is known after the first one
confirmed ==
  /\ logs' \in Seq(Log) /\ channels' \in [Partner -> [known : BOOLEAN, own : Nat, partner : Nat]]
  /\ openings' \subseteq openings
  /\ UNCHANGED <<config, balance, allowance, contract, mempool, user, failed>>
  /\ \A p \in Partner : channels'[p].own >= channels[p].own /\ (channels[p].known => channels'[p].known)
  /\ OnChain'

\* ... and the request it ends, whose total is known by then if the partner deposits nothing
ends(i) ==
  /\ queue' = RemoveAt(queue, i) /\ isHead(i) /\ queue[i].step # "queued"
  /\ isFine(queue[i].partner) => channels'[queue[i].partner].own >= queue[i].total

LEMMA LogIs ==
  ASSUME IInv, logs # <<>>
  PROVE  LET log == Head(logs)
         IN /\ log \in Log /\ log.partner \in Partner /\ log.total \in Nat /\ 1 \in DOMAIN logs /\ log = logs[1]
            /\ Tail(logs) \in Seq(Log)
            /\ \A i \in DOMAIN Tail(logs) : i + 1 \in DOMAIN logs /\ Tail(logs)[i] = logs[i + 1]
            /\ \A i \in DOMAIN logs : i = 1 \/ (i - 1 \in DOMAIN Tail(logs) /\ logs[i] = Tail(logs)[i - 1])
<1>1. logs \in Seq(Log)
  BY DEF IInv, Types
<1>2. /\ Len(logs) \in Nat /\ DOMAIN logs = 1..Len(logs) /\ Len(logs) # 0 /\ Head(logs) = logs[1]
      /\ Tail(logs) \in Seq(Log) /\ DOMAIN Tail(logs) = 1..(Len(logs) - 1)
      /\ \A i \in 1..(Len(logs) - 1) : Tail(logs)[i] = logs[i + 1]
  BY <1>1, HeadTailProperties
<1>3. 1 \in DOMAIN logs /\ logs[1] \in Log
  BY <1>1, <1>2
<1>4. logs[1].partner \in Partner /\ logs[1].total \in Nat
  BY <1>3 DEF Log
<1>5. \A i \in DOMAIN Tail(logs) : i + 1 \in DOMAIN logs /\ Tail(logs)[i] = logs[i + 1]
  BY <1>2
<1>6. ASSUME NEW i \in DOMAIN logs, i # 1 PROVE i - 1 \in DOMAIN Tail(logs) /\ logs[i] = Tail(logs)[i - 1]
  <2>1. i - 1 \in 1..(Len(logs) - 1) /\ (i - 1) + 1 = i
    BY <1>2, <1>6
  <2> QED
    BY <1>2, <2>1
<1> QED
  BY <1>2, <1>3, <1>4, <1>5, <1>6

LEMMA Confirms ==
  ASSUME IInv, confirm
  PROVE  confirmed /\ (queue' = queue \/ \E i \in DOMAIN queue : ends(i))
<1> DEFINE log == Head(logs)
           chs == CASE log.type = "opened" -> [channels EXCEPT ![log.partner].known = TRUE]
                    [] log.type = "deposit" /\ log.participant = "own" ->
                         [channels EXCEPT ![log.partner].own = max(@, log.total)]
                    [] OTHER -> [channels EXCEPT ![log.partner].partner = max(@, log.total)]
           ended == endedBy(log, chs)
<1>1. /\ logs # <<>> /\ logs' = Tail(logs) /\ channels' = chs
      /\ openings' \subseteq openings
      /\ queue' = IF ended = {} THEN queue ELSE RemoveAt(queue, CHOOSE i \in ended : TRUE)
      /\ UNCHANGED <<config, balance, allowance, contract, mempool, user, failed>>
  BY DEF confirm
<1>2. /\ log \in Log /\ log.partner \in Partner /\ log.total \in Nat /\ 1 \in DOMAIN logs /\ log = logs[1]
      /\ logs' \in Seq(Log)
      /\ \A i \in DOMAIN logs' : i + 1 \in DOMAIN logs /\ logs'[i] = logs[i + 1]
      /\ \A i \in DOMAIN logs : i = 1 \/ (i - 1 \in DOMAIN logs' /\ logs[i] = logs'[i - 1])
  BY <1>1, LogIs
<1>3. log.type \in {"opened", "deposit"} /\ log.participant \in {"own", "partner"}
  BY <1>2 DEF Log
<1> HIDE DEF log
<1> DEFINE own == log.type = "deposit" /\ log.participant = "own"
<1>4. channels \in [Partner -> [known : BOOLEAN, own : Nat, partner : Nat]]
  BY DEF IInv, Types
<1>5. /\ chs \in [Partner -> [known : BOOLEAN, own : Nat, partner : Nat]]
      /\ \A p \in Partner : /\ channels[p].known => chs[p].known
                            /\ chs[p].own = IF own /\ p = log.partner THEN max(channels[p].own, log.total) ELSE channels[p].own
  <2> DEFINE c == channels[log.partner]
             Channel == [known : BOOLEAN, own : Nat, partner : Nat]
  <2>1. c \in Channel /\ c.own \in Nat /\ c.partner \in Nat
    BY <1>2, <1>4
  <2>2. max(c.own, log.total) \in Nat /\ max(c.partner, log.total) \in Nat
    BY <1>2, <2>1 DEF max
  <2>3. PICK d \in Channel : /\ chs = [channels EXCEPT ![log.partner] = d] /\ (c.known => d.known)
                             /\ d.own = IF own THEN max(c.own, log.total) ELSE c.own
    <3>0. \A x \in Channel, n \in Nat :
             /\ [x EXCEPT !.known = TRUE] \in Channel /\ [x EXCEPT !.own = n] \in Channel /\ [x EXCEPT !.partner = n] \in Channel
             /\ [x EXCEPT !.known = TRUE].own = x.own /\ [x EXCEPT !.known = TRUE].known
             /\ [x EXCEPT !.own = n].own = n /\ [x EXCEPT !.own = n].known = x.known
             /\ [x EXCEPT !.partner = n].own = x.own /\ [x EXCEPT !.partner = n].known = x.known
      OBVIOUS
    <3>1. CASE log.type = "opened"
      <4> DEFINE d == [c EXCEPT !.known = TRUE]
      <4>1. chs = [channels EXCEPT ![log.partner] = d]
        BY <1>2, <1>4, <3>1
      <4>2. d \in Channel /\ (c.known => d.known) /\ d.own = c.own
        BY <2>1, <3>0
      <4> HIDE DEF d
      <4> QED
        BY <3>1, <4>1, <4>2
    <3>2. CASE own
      <4> DEFINE d == [c EXCEPT !.own = max(c.own, log.total)]
      <4>1. chs = [channels EXCEPT ![log.partner] = d]
        BY <1>2, <1>4, <3>2
      <4>2. d \in Channel /\ (c.known => d.known) /\ d.own = max(c.own, log.total)
        BY <2>1, <2>2, <3>0
      <4> HIDE DEF d
      <4> QED
        BY <3>2, <4>1, <4>2
    <3>3. CASE log.type = "deposit" /\ log.participant = "partner"
      <4> DEFINE d == [c EXCEPT !.partner = max(c.partner, log.total)]
      <4>1. chs = [channels EXCEPT ![log.partner] = d]
        BY <1>2, <1>4, <3>3
      <4>2. d \in Channel /\ (c.known => d.known) /\ d.own = c.own
        BY <2>1, <2>2, <3>0
      <4> HIDE DEF d
      <4> QED
        BY <3>3, <4>1, <4>2
    <3> QED
      BY <1>3, <3>1, <3>2, <3>3
  <2> HIDE DEF chs
  <2> QED
    BY <1>2, <1>4, <2>3
<1> HIDE DEF chs
<1>6. ASSUME NEW p \in Partner
      PROVE  /\ channels[p].own \in Nat /\ channels'[p].own \in Nat /\ contract[p].own \in Nat
             /\ channels'[p].own >= channels[p].own /\ channels'[p].own <= contract[p].own
             /\ own /\ p = log.partner => channels'[p].own >= log.total
  <2>1. channels[p].own \in Nat /\ contract[p].own \in Nat /\ channels[p].own <= contract[p].own
    BY NumbersAre DEF IInv, OnChain
  <2>2. own /\ p = log.partner => log.total <= contract[p].own
    BY <1>2 DEF IInv, OnChain
  <2>3. channels'[p].own = IF own /\ p = log.partner THEN max(channels[p].own, log.total) ELSE channels[p].own
    BY <1>1, <1>5
  <2> QED
    BY <1>2, <2>1, <2>2, <2>3 DEF max
<1>7. OnChain'
  <2> SUFFICES ASSUME NEW p \in Partner
               PROVE  /\ ~contract'[p].opened => contract'[p].own = 0
                      /\ channels'[p].own <= contract'[p].own
                      /\ \A i \in DOMAIN logs' : logs'[i].partner = p /\ logs'[i].participant = "own" => logs'[i].total <= contract'[p].own
                      /\ \/ channels'[p].own = contract'[p].own
                         \/ \E i \in DOMAIN logs' : /\ logs'[i].partner = p /\ logs'[i].participant = "own" /\ logs'[i].type = "deposit"
                                                    /\ logs'[i].total = contract'[p].own
                      /\ \A i \in DOMAIN logs' :
                            logs'[i].partner = p /\ logs'[i].participant = "partner" /\ logs'[i].type = "deposit"
                              => contract'[p].partner > 0
    BY DEF OnChain
  <2>1. /\ ~contract[p].opened => contract[p].own = 0
        /\ \A i \in DOMAIN logs : logs[i].partner = p /\ logs[i].participant = "own" => logs[i].total <= contract[p].own
        /\ \/ channels[p].own = contract[p].own
           \/ \E i \in DOMAIN logs : /\ logs[i].partner = p /\ logs[i].participant = "own" /\ logs[i].type = "deposit"
                                     /\ logs[i].total = contract[p].own
        /\ \A i \in DOMAIN logs :
              logs[i].partner = p /\ logs[i].participant = "partner" /\ logs[i].type = "deposit" => contract[p].partner > 0
    BY DEF IInv, OnChain
  <2>2. contract' = contract
    BY <1>1
  <2>3. /\ \A i \in DOMAIN logs' : logs'[i].partner = p /\ logs'[i].participant = "own" => logs'[i].total <= contract[p].own
        /\ \A i \in DOMAIN logs' :
              logs'[i].partner = p /\ logs'[i].participant = "partner" /\ logs'[i].type = "deposit" => contract[p].partner > 0
    BY <1>2, <2>1
  <2>4. \/ channels'[p].own = contract[p].own
        \/ \E i \in DOMAIN logs' : /\ logs'[i].partner = p /\ logs'[i].participant = "own" /\ logs'[i].type = "deposit"
                                   /\ logs'[i].total = contract[p].own
    <3>1. CASE channels[p].own = contract[p].own
      BY <1>6, <3>1
    <3>2. ASSUME NEW i \in DOMAIN logs,
                 logs[i].partner = p /\ logs[i].participant = "own" /\ logs[i].type = "deposit" /\ logs[i].total = contract[p].own
          PROVE  \/ channels'[p].own = contract[p].own
                 \/ \E j \in DOMAIN logs' : /\ logs'[j].partner = p /\ logs'[j].participant = "own" /\ logs'[j].type = "deposit"
                                            /\ logs'[j].total = contract[p].own
      <4>1. CASE i = 1
        BY <1>2, <1>6, <3>2, <4>1
      <4>2. CASE i # 1
        BY <1>2, <3>2, <4>2
      <4> QED
        BY <4>1, <4>2
    <3> QED
      BY <2>1, <3>1, <3>2
  <2> QED
    BY <1>6, <2>1, <2>2, <2>3, <2>4
<1>8. confirmed
  BY <1>1, <1>2, <1>5, <1>6, <1>7 DEF confirmed
<1>9. ASSUME ended # {} PROVE \E i \in DOMAIN queue : ends(i)
  <2> DEFINE i == CHOOSE i \in ended : TRUE
  <2>1. i \in ended /\ queue' = RemoveAt(queue, i)
    BY <1>1, <1>9
  <2> HIDE DEF i
  <2>2. /\ i \in DOMAIN queue /\ isHead(i) /\ queue[i].step # "queued" /\ queue[i].partner = log.partner
        /\ \/ log.type = "deposit" /\ log.total >= queue[i].total
           \/ channels'[log.partner].own >= queue[i].total
    BY <1>1, <2>1 DEF endedBy, handled
  <2>3. ASSUME isFine(log.partner) PROVE channels'[log.partner].own >= queue[i].total
    <3>1. queue[i].total \in Nat
      BY <2>2, RequestsAre DEF DepositRequest
    <3>2. ASSUME log.type = "deposit", log.participant = "partner" PROVE FALSE
      <4>1. contract[log.partner].partner > 0
        BY <1>2, <3>2 DEF IInv, OnChain
      <4> QED
        BY <2>3, <4>1 DEF isFine
    <3>3. CASE log.type = "deposit" /\ log.total >= queue[i].total
      <4>1. own
        BY <1>3, <3>2, <3>3
      <4> QED
        BY <1>2, <1>6, <3>1, <3>3, <4>1
    <3> QED
      BY <2>2, <3>3
  <2> QED
    BY <2>1, <2>2, <2>3 DEF ends
<1>10. ended = {} => queue' = queue
  BY <1>1
<1> QED
  BY <1>8, <1>9, <1>10

\* A channel none of whose requests end
LEMMA StillReached ==
  ASSUME IInv, confirmed, NEW p \in Partner, requestsOf(p)' = requestsOf(p), isFine(p)'
  PROVE  reached(p)'
<1>1. waiting(p)' = waiting(p) /\ started(p)' = started(p) /\ initial(p)' = initial(p)
  BY DEF waiting, started, initial
<1>2. sumOf(waiting(p))' = sumOf(waiting(p)) /\ asked' = asked
  BY <1>1 DEF sumOf, sum, amountsOf, confirmed, user
<1>3. due(p)' = due(p)
  BY <1>2 DEF due
<1>4. reached(p)
  BY DEF IInv, NoLess, isFine, confirmed
<1>5. /\ channels[p].own \in Nat /\ channels'[p].own \in Nat /\ channels'[p].own >= channels[p].own
      /\ channels[p].known => channels'[p].known
      /\ asked[p].open \in Nat /\ due(p) \in Int
  BY NumbersAre DEF confirmed
<1>6. asked'[p].open <= channels'[p].own \/ \E r \in initial(p)' : r.amount = asked'[p].open
  BY <1>1, <1>2, <1>4, <1>5 DEF reached
<1>7. asked'[p].opens = 0 =>
        /\ asked'[p].open = 0 /\ initial(p)' = {}
        /\ ~channels'[p].known => asked'[p].more = 0 /\ requestsOf(p)' = {}
  BY <1>1, <1>2, <1>4, <1>5 DEF reached
<1>8. asked'[p].opens <= 1 =>
        /\ \A r \in initial(p)' : /\ asked'[p].more = sumOf(waiting(p))'
                                  /\ \A s \in requestsOf(p)' : s = r \/ (s.relative /\ r.id < s.id)
        /\ initial(p)' = {} =>
             /\ \A r \in started(p)' : r.total >= due(p)'
             /\ started(p)' = {} => channels'[p].own >= due(p)'
  BY <1>1, <1>2, <1>3, <1>4, <1>5 DEF reached
<1> QED
  BY <1>6, <1>7, <1>8 DEF reached

\* One that loses the request whose total is known
LEMMA ReachedThen ==
  ASSUME IInv, confirmed, NEW i \in DOMAIN queue, ends(i), isFine(queue[i].partner)
  PROVE  \A p \in Partner : p = queue[i].partner => reached(p)'
<1> SUFFICES ASSUME NEW p \in Partner, p = queue[i].partner PROVE reached(p)'
  OBVIOUS
<1> DEFINE r == queue[i]
<1>1. /\ requestsOf(p)' = requestsOf(p) \ {r}
      /\ sumOf(waiting(p))' = sumOf(waiting(p)) /\ asked' = asked
  BY Removed DEF ends, confirmed, user
<1>2. due(p)' = due(p)
  BY <1>1 DEF due
<1>3. /\ channels[p].own \in Nat /\ channels'[p].own \in Nat /\ channels'[p].own >= channels[p].own
      /\ channels[p].known => channels'[p].known
      /\ channels'[p].own >= r.total /\ r.step # "queued"
  BY NumbersAre DEF confirmed, ends
<1>4. r \in requestsOf(p) /\ r.total \in Nat /\ r.amount \in Nat
  BY RequestsAre DEF requestsOf, DepositRequest
<1>5. \A s \in requestsOf(p) : s = r \/ (r.id < s.id /\ s.step = "queued")
  BY HeadIsFirst DEF ends
<1>6. started(p) = {r} /\ started(p)' = {} /\ initial(p)' = initial(p) \ {r}
  BY <1>1, <1>3, <1>4, <1>5 DEF started, initial
<1>7. reached(p)
  BY DEF IInv, NoLess
<1>8. /\ asked[p].open \in Nat /\ asked[p].more \in Nat /\ due(p) = asked[p].open + asked[p].more - sumOf(waiting(p))
      /\ sumOf(waiting(p)) \in Nat
  BY NumbersAre
<1>9. r \in initial(p) => r.total = r.amount
  BY <1>3 DEF IInv, NoMore, bounded
<1>10. asked[p].open <= channels'[p].own \/ \E s \in initial(p)' : s.amount = asked[p].open
  <2>1. CASE asked[p].open <= channels[p].own
    BY <1>3, <1>8, <2>1
  <2>2. ASSUME NEW s \in initial(p), s.amount = asked[p].open
        PROVE  asked[p].open <= channels'[p].own \/ s \in initial(p)'
    BY <1>3, <1>6, <1>9, <2>2
  <2> QED
    BY <1>7, <2>1, <2>2 DEF reached
<1>11. asked[p].opens = 0 =>
         /\ asked[p].open = 0 /\ initial(p)' = {}
         /\ ~channels'[p].known => asked[p].more = 0 /\ requestsOf(p)' = {}
  BY <1>3, <1>4, <1>6, <1>7 DEF reached
<1>12. ASSUME asked[p].opens <= 1
       PROVE  /\ \A x \in initial(p)' : /\ asked[p].more = sumOf(waiting(p))'
                                        /\ \A s \in requestsOf(p)' : s = x \/ (s.relative /\ x.id < s.id)
              /\ initial(p)' = {} => channels'[p].own >= due(p)
  <2>1. ASSUME NEW x \in initial(p)'
        PROVE  /\ asked[p].more = sumOf(waiting(p))'
               /\ \A s \in requestsOf(p)' : s = x \/ (s.relative /\ x.id < s.id)
    BY <1>1, <1>6, <1>7, <1>12, <2>1 DEF reached
  <2>2. ASSUME initial(p)' = {} PROVE channels'[p].own >= due(p)
    <3>1. CASE initial(p) = {}
      <4>1. r.total >= due(p)
        BY <1>6, <1>7, <1>12, <3>1 DEF reached
      <4> QED
        BY <1>3, <1>4, <1>8, <4>1
    <3>2. CASE initial(p) # {}
      <4>1. asked[p].more = sumOf(waiting(p))
        BY <1>7, <1>12, <3>2 DEF reached
      <4>2. asked[p].open <= channels'[p].own
        BY <1>10, <2>2
      <4> QED
        BY <1>3, <1>8, <4>1, <4>2
    <3> QED
      BY <3>1, <3>2
  <2> QED
    BY <2>1, <2>2
<1> QED
  BY <1>1, <1>2, <1>6, <1>10, <1>11, <1>12 DEF reached

LEMMA confirmKeeps ==
  ASSUME IInv, confirm
  PROVE  IInv'
<1>1. /\ confirmed /\ (queue' = queue \/ \E i \in DOMAIN queue : ends(i))
  BY Confirms
<1>2. UNCHANGED <<config, balance, allowance, contract, mempool, user, failed>> /\ openings' \subseteq openings
  BY <1>1 DEF confirmed
<1>3. asked' = asked /\ requests' = requests
  BY <1>2 DEF user
<1>4. /\ queue' \in Seq(DepositRequest) /\ Sorted' /\ Serial'
      /\ \A p \in Partner : /\ requestsOf(p)' \subseteq requestsOf(p) /\ sumOf(waiting(p))' = sumOf(waiting(p))
                            /\ isFine(p) => reached(p)'
  <2>0. \A p : isFine(p)' <=> isFine(p)
    BY <1>2 DEF isFine
  <2>1. CASE queue' = queue
    <3>1. queue' \in Seq(DepositRequest) /\ Sorted' /\ Serial'
      BY <1>3, <2>1 DEF IInv, Types, Sorted, Serial
    <3>2. \A p : requestsOf(p)' = requestsOf(p) /\ waiting(p)' = waiting(p)
      BY <2>1 DEF requestsOf, waiting
    <3>3. ASSUME NEW p \in Partner PROVE sumOf(waiting(p))' = sumOf(waiting(p))
      <4>1. waiting(p)' = waiting(p)
        BY <3>2
      <4> QED
        BY <4>1 DEF sumOf, sum, amountsOf
    <3> QED
      BY <1>1, <2>0, <3>1, <3>2, <3>3, StillReached
  <2>2. ASSUME NEW i \in DOMAIN queue, ends(i)
        PROVE  /\ queue' \in Seq(DepositRequest) /\ Sorted' /\ Serial'
               /\ \A p \in Partner : /\ requestsOf(p)' \subseteq requestsOf(p) /\ sumOf(waiting(p))' = sumOf(waiting(p))
                                     /\ isFine(p) => reached(p)'
    <3>1. queue' = RemoveAt(queue, i) /\ queue[i].step # "queued"
      BY <2>2 DEF ends
    <3>2. /\ queue' \in Seq(DepositRequest) /\ Sorted' /\ Serial'
          /\ \A p : requestsOf(p)' = requestsOf(p) \ {queue[i]}
          /\ \A p : /\ p # queue[i].partner => requestsOf(p)' = requestsOf(p)
                    /\ sumOf(waiting(p))' = sumOf(waiting(p))
      BY <1>3, <3>1, Removed
    <3>3. ASSUME NEW p \in Partner, isFine(p) PROVE reached(p)'
      <4>1. CASE p = queue[i].partner
        BY <1>1, <2>2, <3>3, <4>1, ReachedThen
      <4>2. CASE p # queue[i].partner
        BY <1>1, <2>0, <3>2, <3>3, <4>2, StillReached
      <4> QED
        BY <4>1, <4>2
    <3> QED
      BY <3>2, <3>3
  <2> QED
    BY <1>1, <2>1, <2>2
<1>5. Types'
  BY <1>1, <1>2, <1>4 DEF IInv, Types, confirmed, user
<1>6. NoMore'
  <2> SUFFICES ASSUME NEW p \in Partner
               PROVE  /\ bounded(p)' /\ contract'[p].own <= due(p)'
                      /\ \A i \in DOMAIN mempool' :
                            mempool'[i].partner = p /\ mempool'[i].method # "approve" => mempool'[i].value <= due(p)'
                      /\ \A o \in openings' : o.partner = p => o.amount <= asked'[p].open
    BY DEF NoMore
  <2>1. due(p)' = due(p)
    BY <1>3, <1>4 DEF due
  <2>2. initial(p)' \subseteq initial(p) /\ started(p)' \subseteq started(p)
    BY <1>4 DEF initial, started
  <2>3. bounded(p)'
    BY <1>3, <1>4, <2>1, <2>2 DEF IInv, NoMore, bounded
  <2> QED
    BY <1>2, <1>3, <2>1, <2>3 DEF IInv, NoMore
<1>7. NoLess'
  <2>1. \A p : isFine(p)' <=> isFine(p)
    BY <1>2 DEF isFine
  <2> QED
    BY <1>4, <2>1 DEF NoLess
<1> QED
  BY <1>1, <1>4, <1>5, <1>6, <1>7 DEF IInv, confirmed

-----------------------------------------------------------------------------
LEMMA InitInv == Init => IInv
<1> SUFFICES ASSUME Init PROVE IInv
  OBVIOUS
<1>1. /\ config \in Configs /\ balance = Balance /\ allowance = 0
      /\ contract = [p \in Partner |-> [opened |-> FALSE, own |-> 0, partner |-> 0]]
      /\ channels = [p \in Partner |-> [known |-> FALSE, own |-> 0, partner |-> 0]]
      /\ mempool = <<>> /\ logs = <<>> /\ queue = <<>> /\ openings = {} /\ requests = 0 /\ plan \in Plans /\ failed = {}
      /\ asked = [p \in Partner |-> [opens |-> 0, open |-> 0, more |-> 0]]
  BY DEF Init
<1>2. Types
  BY <1>1, FundingAssumption DEF Types
<1>3. Range(queue) = {} /\ \A p : requestsOf(p) = {} /\ waiting(p) = {} /\ started(p) = {} /\ initial(p) = {}
  BY <1>1 DEF Range, requestsOf, waiting, started, initial
<1>4. Sorted /\ Serial
  BY <1>1, <1>3 DEF Sorted, Serial
<1>5. OnChain
  BY <1>1 DEF OnChain
<1>6. \A p \in Partner : due(p) = 0 /\ sumOf(waiting(p)) = 0
  <2> TAKE p \in Partner
  <2>1. sumOf(waiting(p)) = 0
    BY <1>3, SumOfNone, Zenon
  <2> QED
    BY <1>1, <2>1 DEF due
<1>7. NoMore
  BY <1>1, <1>3, <1>6 DEF NoMore, bounded
<1>8. NoLess
  BY <1>1, <1>3, <1>6 DEF NoLess, reached
<1> QED
  BY <1>2, <1>4, <1>5, <1>7, <1>8 DEF IInv

LEMMA NextInv == IInv /\ [Next]_vars => IInv'
<1> SUFFICES ASSUME IInv, [Next]_vars PROVE IInv'
  OBVIOUS
<1>1. ASSUME NEW i \in DOMAIN queue, channelDepositEpic(i) PROVE IInv'
  BY <1>1, channelDepositEpicKeeps
<1>2. ASSUME NEW p \in Partner, plan[p] # <<>>,
             channelOpenRequest(p, Head(plan[p])) \/ channelDepositRequest(p, Head(plan[p]))
      PROVE  IInv'
  <2>1. Head(plan[p]) \in Amount
    <3>1. plan[p] \in Seq(Amount)
      BY DEF IInv, Types
    <3> QED
      BY <1>2, <3>1, HeadTailProperties
  <2> QED
    BY <1>2, <2>1, channelOpenRequestKeeps, channelDepositRequestKeeps
<1>3. ASSUME NEW i \in DOMAIN queue, ensureApprovedBalance(i) \/ sendDeposit(i) PROVE IInv'
  BY <1>3, ensureApprovedBalanceKeeps, sendDepositKeeps
<1>4. ASSUME NEW o \in openings, sendOpen(o) PROVE IInv'
  BY <1>4, sendOpenKeeps
<1>5. CASE mine
  BY <1>5, mineKeeps
<1>6. CASE confirm
  BY <1>6, confirmKeeps
<1>7. ASSUME NEW p \in Partner, openingSeen(p) PROVE IInv'
  BY <1>7, openingSeenKeeps
<1>8. ASSUME NEW p \in Depositor, partnerOpens(p) \/ \E a \in Amount : partnerDeposits(p, a) PROVE IInv'
  <2>1. p \in Partner
    BY FundingAssumption
  <2> QED
    BY <1>8, <2>1, partnerOpensKeeps, partnerDepositsKeeps
<1>9. CASE UNCHANGED vars
  <2>1. Types'
    BY <1>9 DEF IInv, Types, vars, user
  <2>2. UNCHANGED <<contract, logs, channels, asked, requests, failed, queue, openings, mempool>>
    BY <1>9 DEF vars, user
  <2> QED
    BY <2>1, <2>2, OffChain DEF IInv, NoMore
<1> QED
  BY <1>1, <1>2, <1>3, <1>4, <1>5, <1>6, <1>7, <1>8, <1>9 DEF Next

THEOREM Invariant == Spec => []IInv
BY InitInv, NextInv, PTL DEF Spec

\* However many requests, retries and openings with a deposit are under way at once, no more is
\* deposited in a channel than its openings and deposits ask for.
THEOREM NoMoreThanAskedFor == Spec => []NoOverDeposit
<1>1. IInv => NoOverDeposit
  <2> SUFFICES ASSUME IInv, NEW p \in Partner PROVE contract[p].own <= asked[p].open + asked[p].more
    BY DEF NoOverDeposit
  <2>1. contract[p].own <= due(p)
    BY DEF IInv, NoMore
  <2> QED
    BY <2>1, NumbersAre
<1> QED
  BY <1>1, Invariant, PTL

\* When all requests of a channel were answered with success and its partner deposits nothing, all
\* that was asked for is deposited, and known.
THEOREM AllThatWasAskedFor == Spec => []ExactDeposit
<1>1. IInv => ExactDeposit
  <2> SUFFICES ASSUME IInv, NEW p \in Partner, isDone(p), p \notin failed, contract[p].partner = 0
               PROVE  /\ channels[p].own = contract[p].own
                      /\ contract[p].own >= asked[p].open
                      /\ asked[p].opens <= 1 => contract[p].own = asked[p].open + asked[p].more
    BY DEF ExactDeposit
  <2>1. channels[p].own = contract[p].own
    BY DEF IInv, OnChain, isDone
  <2>2. requestsOf(p) = {}
    BY RequestsAre DEF requestsOf, isDone
  <2>3. waiting(p) = {} /\ started(p) = {} /\ initial(p) = {}
    BY <2>2 DEF waiting, started, initial
  <2>4. due(p) = asked[p].open + asked[p].more
    <3>1. sumOf(waiting(p)) = 0
      BY <2>3, SumOfNone, Zenon
    <3> QED
      BY <3>1, NumbersAre
  <2>5. reached(p)
    BY DEF IInv, NoLess, isFine
  <2>6. contract[p].own >= asked[p].open
    BY <2>1, <2>3, <2>5, NumbersAre DEF reached
  <2>7. asked[p].opens <= 1 => channels[p].own >= due(p)
    BY <2>3, <2>5 DEF reached
  <2>8. contract[p].own <= due(p)
    BY DEF IInv, NoMore
  <2> QED
    BY <2>1, <2>4, <2>6, <2>7, <2>8, NumbersAre
<1> QED
  BY <1>1, Invariant, PTL

=============================================================================
