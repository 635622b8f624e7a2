------------------------- MODULE PathFindingProofs -------------------------
(***************************************************************************)
(* Whatever is lost, asked again or forgotten, a path finding service is   *)
(* paid once for each request, and refuses an IOU only for a reason, also  *)
(* while the views of the dApp are used; and a view asks for no more       *)
(* routes that are paid for than its visits and actions account for.       *)
(***************************************************************************)
EXTENDS Payments, TLAPS, WellFoundedInduction, FiniteSetTheorems

Amount == [Service -> Int]
Count == [Service -> Nat]

Asks(r) == r.pfs \in Service \cup {"any", "disabled"}
Requests(q) == q \in Seq(Range(q)) /\ \A r \in Range(q) : Asks(r)

TypeOK ==
  /\ scenario \in Scenarios /\ Requests(queue)
  /\ stage \in {"idle", "presence", "choose", "last", "ask", "validate"}
  /\ stage # "idle" => Asks(request)
  /\ pfs \in Service \cup {None} /\ iou \in Int
  /\ services \subseteq Service
  /\ ious \in Amount /\ stored \in Amount /\ owed \in Count
  /\ asked \in Count /\ refused \in Count /\ trouble \in Nat

\* The last IOU that was kept is no more than what its service accepted
KeptIsOwed ==
  \A s \in Service : /\ -1 <= ious[s] /\ ious[s] <= owed[s]
                     /\ -1 <= stored[s] /\ stored[s] <= owed[s]

\* An IOU is there for a service with a price, from when its amount is known
HasIou ==
  /\ stage \in {"idle", "presence", "choose"} => pfs = None
  /\ stage = "choose" => request.pfs # "disabled"
  /\ stage \in {"last", "ask"} => pfs \in Service
  /\ stage = "last" => price[pfs] # 0
  /\ stage \notin {"ask", "validate"} => iou = -1
  /\ stage \in {"ask", "validate"} => \/ iou = -1 /\ (pfs \in Service => price[pfs] = 0)
                                      \/ iou \in Nat /\ pfs \in Service /\ price[pfs] # 0

\* The request that goes on is one that its service may be paid for
Payable ==
  /\ stage = "last" => owed[pfs] + price[pfs] <= price[pfs] * asked[pfs]
  /\ stage = "ask" => iou <= price[pfs] * asked[pfs]

\* An IOU that wasn't refused was accepted
AnsweredIsOwed == stage = "validate" /\ iou # -1 /\ answer.is # "refused" => iou = owed[pfs]

\* The service refuses the next IOU it gets
refuses(s) ==
  /\ price[s] # 0
  /\ IF pfs = s /\ stage = "ask" THEN iou < owed[s] + price[s]
     ELSE ~(pfs = s /\ stage = "validate") /\ ious[s] # -1 /\ ious[s] < owed[s]

\* There is a reason for each refusal, and for the one that is to come
ReasonLeft ==
  \A s \in Service : refused[s] <= trouble /\ (refuses(s) => refused[s] + 1 <= trouble)

IInv ==
  /\ TypeOK /\ KeptIsOwed /\ HasIou /\ Payable /\ AnsweredIsOwed
  /\ PaidOncePerRequest /\ ReasonLeft

-----------------------------------------------------------------------------
(***************************************************************************)
(* Facts about amounts and choices                                         *)
(***************************************************************************)

\* One more request is one more price
LEMMA OneMore ==
  ASSUME NEW p \in Nat, NEW a \in Nat
  PROVE  /\ p * (a + 1) = p * a + p /\ p * a \in Nat /\ p * (a + 1) \in Nat
BY SMT

\* A sequence is one of its own elements
LEMMA SequenceOfRange ==
  ASSUME NEW S, NEW q \in Seq(S)
  PROVE  q \in Seq(Range(q)) /\ Range(q) \subseteq S
<1>1. q \in Seq(Range(q))
  BY DEF Range
<1>2. \A i \in DOMAIN q : q[i] \in S
  OBVIOUS
<1> QED
  BY <1>1, <1>2 DEF Range

\* Requests that wait come one after the other (pfsRequestEpic's concatMap)
LEMMA RequestsOf ==
  ASSUME NEW q \in Seq(Request)
  PROVE  Requests(q)
<1>1. \A r \in Request : Asks(r)
  BY DEF Request, Asks
<1> QED
  BY <1>1, SequenceOfRange DEF Requests

LEMMA FirstAndRest ==
  ASSUME NEW q, Requests(q), q # <<>>
  PROVE  Asks(Head(q)) /\ Requests(Tail(q))
<1> DEFINE S == Range(q)
<1>1. q \in Seq(S) /\ \A r \in S : Asks(r)
  BY DEF Requests
<1> HIDE DEF S
<1>2. Head(q) \in S /\ Tail(q) \in Seq(S)
  BY <1>1
<1>3. Tail(q) \in Seq(Range(Tail(q))) /\ Range(Tail(q)) \subseteq S
  BY <1>2, SequenceOfRange
<1> QED
  BY <1>1, <1>2, <1>3 DEF Requests

LEMMA MoreRequests ==
  ASSUME NEW q, NEW more, Requests(q), Requests(more)
  PROVE  Requests(q \o more)
<1> DEFINE S == Range(q) \cup Range(more)
<1>1. q \in Seq(S) /\ more \in Seq(S) /\ \A r \in S : Asks(r)
  BY DEF Requests
<1> HIDE DEF S
<1>2. q \o more \in Seq(S)
  BY <1>1
<1>3. q \o more \in Seq(Range(q \o more)) /\ Range(q \o more) \subseteq S
  BY <1>2, SequenceOfRange
<1> QED
  BY <1>1, <1>2, <1>3 DEF Requests

\* Only services are chosen (choosePfs$)
LEMMA CandidatesAreServices ==
  ASSUME TypeOK, HasIou, stage = "choose"
  PROVE  candidates \subseteq Service
<1>1. request.pfs \in Service \cup {"any"}
  BY DEF TypeOK, HasIou, Asks
<1>2. scenario.additional \in Seq(Service)
  BY ScenariosAssumption DEF TypeOK
<1>3. \A i \in DOMAIN scenario.additional : scenario.additional[i] \in Service
  BY <1>2
<1>4. CASE request.pfs # "any"
  BY <1>1, <1>4 DEF candidates
<1>5. CASE request.pfs = "any" /\ scenario.mode = "onlyAdditional"
  <2>1. candidates \subseteq {scenario.additional[i] : i \in DOMAIN scenario.additional}
    BY <1>5 DEF candidates, additional
  <2> QED
    BY <2>1, <1>3
<1>6. CASE request.pfs = "any" /\ scenario.mode # "onlyAdditional"
  <2>1. candidates \subseteq Range(scenario.additional) \cup services
    BY <1>6 DEF candidates, additional
  <2>2. Range(scenario.additional) \subseteq Service
    BY <1>3 DEF Range
  <2> QED
    BY <2>1, <2>2 DEF TypeOK
<1> QED
  BY <1>4, <1>5, <1>6

-----------------------------------------------------------------------------
(***************************************************************************)
(* The invariant is inductive                                              *)
(***************************************************************************)

LEMMA InitInv == Init => IInv
<1> SUFFICES ASSUME Init PROVE IInv
  OBVIOUS
<1>1. scenario \in Scenarios /\ services \subseteq Service /\ queue \in Seq(Request)
  BY ScenariosAssumption DEF Init
<1>5. Requests(queue)
  BY <1>1, RequestsOf
<1>2. TypeOK
  BY <1>1, <1>5, PathFindingAssumption DEF Init, TypeOK, Amount, Count
<1>3. KeptIsOwed /\ HasIou /\ Payable /\ AnsweredIsOwed
  BY DEF Init, KeptIsOwed, HasIou, Payable, AnsweredIsOwed
<1>4. PaidOncePerRequest /\ ReasonLeft
  BY PathFindingAssumption DEF Init, PaidOncePerRequest, ReasonLeft, refuses
<1> QED
  BY <1>2, <1>3, <1>4 DEF IInv

\* A step that leaves the request and the IOUs alone
LEMMA AsideKeeps ==
  ASSUME IInv, UNCHANGED <<scenario, queue, requestVars, ious, owed, asked, refused>>,
         stored' \in {stored, ious}, services' \subseteq Service,
         trouble' \in Nat, trouble <= trouble'
  PROVE  IInv'
<1>1. TypeOK' /\ KeptIsOwed' /\ PaidOncePerRequest'
  BY DEF IInv, TypeOK, KeptIsOwed, PaidOncePerRequest, requestVars, Amount
<1>2. HasIou' /\ Payable' /\ AnsweredIsOwed'
  BY DEF IInv, HasIou, Payable, AnsweredIsOwed, requestVars
<1>3. ReasonLeft'
  BY DEF IInv, TypeOK, ReasonLeft, refuses, requestVars, Count
<1> QED
  BY <1>1, <1>2, <1>3 DEF IInv

\* A request that ends before its service was asked
LEMMA FailsKeeps ==
  ASSUME IInv, NEW why, fails(why), stage \in {"presence", "choose"},
         UNCHANGED <<scenario, queue, ious, stored, services, serverVars, trouble>>
  PROVE  IInv'
<1> USE DEF fails, ends, serverVars
<1>1. TypeOK' /\ KeptIsOwed' /\ PaidOncePerRequest'
  BY DEF IInv, TypeOK, KeptIsOwed, PaidOncePerRequest, Amount, Count
<1>2. HasIou' /\ Payable' /\ AnsweredIsOwed'
  BY DEF HasIou, Payable, AnsweredIsOwed
<1>3. ReasonLeft'
  BY DEF IInv, TypeOK, ReasonLeft, refuses, Count
<1> QED
  BY <1>1, <1>2, <1>3 DEF IInv

LEMMA pathFindRequestKeeps == IInv /\ pathFindRequest => IInv'
<1> SUFFICES ASSUME IInv, pathFindRequest PROVE IInv'
  OBVIOUS
<1> USE DEF pathFindRequest, serverVars
<1>1. Asks(request') /\ Requests(queue')
  BY FirstAndRest DEF IInv, TypeOK
<1>2. TypeOK' /\ KeptIsOwed' /\ PaidOncePerRequest'
  BY <1>1 DEF IInv, TypeOK, KeptIsOwed, PaidOncePerRequest
<1>3. HasIou' /\ Payable' /\ AnsweredIsOwed'
  BY DEF IInv, HasIou, Payable, AnsweredIsOwed
<1>4. ReasonLeft'
  BY DEF IInv, ReasonLeft, refuses
<1> QED
  BY <1>2, <1>3, <1>4 DEF IInv

LEMMA getRouteKeeps == IInv /\ getRoute => IInv'
<1> SUFFICES ASSUME IInv, getRoute PROVE IInv'
  OBVIOUS
<1> USE DEF getRoute, serverVars
<1>1. CASE \E why \in {"no routes between nodes", "disabled"} : fails(why)
  BY <1>1, FailsKeeps
<1>2. CASE /\ \/ stage' = "validate"
              \/ stage' = "choose" /\ request.pfs # "disabled"
           /\ UNCHANGED <<request, pfs, iou>>
  <2>1. TypeOK' /\ KeptIsOwed' /\ PaidOncePerRequest'
    BY <1>2 DEF IInv, TypeOK, KeptIsOwed, PaidOncePerRequest
  <2>2. HasIou' /\ Payable' /\ AnsweredIsOwed'
    BY <1>2, PathFindingAssumption DEF IInv, HasIou, Payable, AnsweredIsOwed
  <2>3. ReasonLeft'
    BY <1>2, PathFindingAssumption DEF IInv, ReasonLeft, refuses, HasIou
  <2> QED
    BY <2>1, <2>2, <2>3 DEF IInv
<1> QED
  BY <1>1, <1>2 DEF isDisabled

LEMMA choosePfsKeeps == IInv /\ choosePfs => IInv'
<1> SUFFICES ASSUME IInv, choosePfs PROVE IInv'
  OBVIOUS
<1>1. CASE candidates = {}
  BY <1>1, FailsKeeps DEF choosePfs, serverVars
<1>2. CASE candidates # {}
  <2>1. PICK s \in candidates :
          /\ pfs' = s /\ asked' = [asked EXCEPT ![s] = @ + 1]
          /\ IF price[s] = 0 THEN stage' = "ask" /\ UNCHANGED iou
             ELSE IF ious[s] # -1 THEN stage' = "ask" /\ iou' = ious[s] + price[s]
             ELSE stage' = "last" /\ UNCHANGED iou
    BY <1>2 DEF choosePfs
  <2>2. UNCHANGED <<request, scenario, queue, ious, stored, services, owed, refused, trouble>>
    BY <1>2 DEF choosePfs
  <2>3. s \in Service
    BY CandidatesAreServices DEF choosePfs, IInv
  <2>4. stage = "choose" /\ iou = -1 /\ pfs = None
    BY DEF choosePfs, IInv, HasIou
  <2>5. /\ price \in Count /\ ious \in Amount /\ owed \in Count /\ asked \in Count
        /\ refused \in Count /\ trouble \in Nat
    BY PathFindingAssumption DEF IInv, TypeOK, Count
  <2>6. TypeOK'
    BY <2>1, <2>2, <2>3, <2>4, <2>5 DEF IInv, TypeOK, Amount, Count
  <2>7. KeptIsOwed' /\ AnsweredIsOwed'
    BY <2>1, <2>2 DEF IInv, KeptIsOwed, AnsweredIsOwed
  <2>8. HasIou'
    <3>1. ious[s] = -1 \/ ious[s] \in Nat
      BY <2>3, <2>5 DEF IInv, KeptIsOwed, Amount
    <3> QED
      BY <2>1, <2>3, <2>4, <2>5, <3>1 DEF HasIou, Count
  <2>9. owed[s] + price[s] <= price[s] * asked'[s]
    <3>1. price[s] * (asked[s] + 1) = price[s] * asked[s] + price[s] /\ price[s] * asked[s] \in Nat
      BY <2>3, <2>5, OneMore DEF Count
    <3>2. asked'[s] = asked[s] + 1 /\ owed[s] <= price[s] * asked[s]
      BY <2>1, <2>3, <2>5 DEF IInv, PaidOncePerRequest, Count
    <3>3. owed[s] \in Nat /\ price[s] \in Nat
      BY <2>3, <2>5 DEF Count
    <3> DEFINE all == price[s] * asked[s]
    <3> HIDE DEF all
    <3>4. price[s] * asked'[s] = all + price[s] /\ owed[s] <= all /\ all \in Nat
      BY <3>1, <3>2 DEF all
    <3> QED
      BY <3>3, <3>4
  <2>10. PaidOncePerRequest'
    <3> SUFFICES ASSUME NEW t \in Service PROVE owed[t] <= price[t] * asked'[t]
      BY <2>2 DEF PaidOncePerRequest
    <3>1. CASE t # s
      BY <2>1, <2>5, <3>1 DEF IInv, PaidOncePerRequest, Count
    <3>2. CASE t = s
      <4>1. price[s] * asked'[s] \in Nat /\ owed[s] \in Nat /\ price[s] \in Nat
        <5>1. asked'[s] \in Nat /\ price[s] \in Nat
          BY <2>1, <2>3, <2>5 DEF Count
        <5> QED
          BY <5>1, <2>3, <2>5, OneMore DEF Count
      <4> QED
        BY <2>9, <3>2, <4>1
    <3> QED
      BY <3>1, <3>2
  <2>11. Payable'
    <3>1. ious[s] <= owed[s] /\ ious[s] \in Int /\ owed[s] \in Nat /\ price[s] \in Nat
      BY <2>3, <2>5 DEF IInv, KeptIsOwed, Amount, Count
    <3>2. asked'[s] \in Nat /\ price[s] * asked'[s] \in Nat
      <4>1. asked'[s] \in Nat
        BY <2>1, <2>3, <2>5 DEF Count
      <4> QED
        BY <4>1, <3>1, OneMore
    <3> DEFINE all == price[s] * asked'[s]
    <3> HIDE DEF all
    <3>3. owed[s] + price[s] <= all /\ all \in Nat
      BY <2>9, <3>2 DEF all
    <3>4. CASE price[s] = 0
      <4>1. stage' = "ask" /\ iou' = -1
        BY <2>1, <2>4, <3>4
      <4> QED
        BY <4>1, <2>1, <3>3 DEF Payable, all
    <3>5. CASE price[s] # 0 /\ ious[s] # -1
      <4>1. stage' = "ask" /\ iou' = ious[s] + price[s]
        BY <2>1, <3>5
      <4>2. iou' <= all
        BY <4>1, <3>1, <3>3
      <4> QED
        BY <4>1, <4>2, <2>1 DEF Payable, all
    <3>6. CASE price[s] # 0 /\ ious[s] = -1
      <4>1. stage' = "last"
        BY <2>1, <3>6
      <4> QED
        BY <4>1, <2>1, <2>2, <3>3 DEF Payable, all
    <3> QED
      BY <3>4, <3>5, <3>6
  <2>12. ReasonLeft'
    <3> SUFFICES ASSUME NEW t \in Service, refuses(t)' PROVE refuses(t)
      BY <2>2, <2>5 DEF IInv, ReasonLeft, Count
    <3>1. /\ price[t] \in Nat /\ ious[t] \in Int /\ owed[t] \in Nat
      BY <2>5 DEF Amount, Count
    <3>2. CASE t # s
      BY <2>1, <2>2, <2>3, <2>4, <3>2, PathFindingAssumption DEF refuses
    <3>3. CASE t = s
      BY <2>1, <2>2, <2>4, <3>1, <3>3, PathFindingAssumption DEF refuses
    <3> QED
      BY <3>2, <3>3
  <2> QED
    BY <2>6, <2>7, <2>8, <2>10, <2>11, <2>12 DEF IInv
<1> QED
  BY <1>1, <1>2

LEMMA fetchLastIouKeeps == IInv /\ fetchLastIou => IInv'
<1> SUFFICES ASSUME IInv, fetchLastIou PROVE IInv'
  OBVIOUS
<1> USE DEF fetchLastIou, serverVars
<1>1. pfs \in Service /\ price[pfs] \in Nat \ {0} /\ owed[pfs] \in Nat
  BY PathFindingAssumption DEF IInv, HasIou, TypeOK, Count
<1>2. iou' \in Nat /\ iou' = owed[pfs] + price[pfs] /\ stage' = "ask"
  BY <1>1
<1>3. TypeOK' /\ KeptIsOwed' /\ PaidOncePerRequest'
  BY <1>2 DEF IInv, TypeOK, KeptIsOwed, PaidOncePerRequest
<1>4. AnsweredIsOwed' /\ Payable'
  BY DEF IInv, AnsweredIsOwed, Payable
<1>5. HasIou'
  BY <1>1, <1>2 DEF HasIou
<1>6. ReasonLeft'
  BY <1>1, <1>2 DEF IInv, TypeOK, ReasonLeft, refuses, Count
<1> QED
  BY <1>3, <1>4, <1>5, <1>6 DEF IInv

LEMMA requestPfsKeeps == IInv /\ requestPfs => IInv'
<1> SUFFICES ASSUME IInv, requestPfs PROVE IInv'
  OBVIOUS
<1>1. /\ stage = "ask" /\ process
      /\ UNCHANGED <<asked, scenario, queue, ious, stored, services>>
  BY DEF requestPfs
<1>2. \/ /\ stage' = "validate" /\ UNCHANGED <<request, pfs, iou, trouble>>
         /\ accepts \/ answer'.is = "refused"
      \/ trouble' = trouble + 1 /\ UNCHANGED <<request, stage, pfs, iou>>
      \/ /\ trouble' = trouble + 1
         /\ stage' = "idle" /\ pfs' = None /\ iou' = -1
  <2>1. CASE /\ answer' \in IF accepts THEN scenario.answers ELSE {[is |-> "refused", paths |-> <<>>]}
             /\ stage' = "validate" /\ UNCHANGED <<request, pfs, iou, outcome, trouble>>
    BY <2>1
  <2>2. CASE trouble' = trouble + 1 /\ UNCHANGED <<outcome, requestVars>>
    BY <2>2 DEF requestVars
  <2>3. CASE trouble' = trouble + 1 /\ fails("not decoded")
    BY <2>3 DEF fails, ends
  <2> QED
    BY <2>1, <2>2, <2>3 DEF requestPfs
<1>3. /\ pfs \in Service /\ price \in Count /\ owed \in Count /\ asked \in Count /\ refused \in Count
      /\ trouble \in Nat /\ iou \in Int /\ ious \in Amount /\ stored \in Amount
  BY <1>1, PathFindingAssumption DEF IInv, TypeOK, HasIou, Count
<1>4. \/ iou = -1 /\ price[pfs] = 0
      \/ iou \in Nat /\ price[pfs] # 0
  BY <1>1, <1>3 DEF IInv, HasIou
<1>5. price[pfs] \in Nat /\ owed[pfs] \in Nat /\ refused[pfs] \in Nat
  BY <1>3 DEF Count
\* What the service makes of the IOU
<1>6. /\ owed' \in Count /\ refused' \in Count
      /\ \A s \in Service : owed[s] <= owed'[s] /\ (s # pfs => owed'[s] = owed[s])
      /\ \A s \in Service : s # pfs => refused'[s] = refused[s]
      /\ refused'[pfs] <= trouble
      /\ owed' = owed \/ (iou # -1 /\ owed'[pfs] = iou)
      /\ accepts /\ iou # -1 => owed'[pfs] = iou
  <2>1. CASE accepts
    <3>1. owed' = [owed EXCEPT ![pfs] = IF iou = -1 THEN @ ELSE iou] /\ refused' = refused
      BY <1>1, <2>1 DEF process
    <3>2. iou = -1 \/ owed[pfs] + price[pfs] <= iou
      BY <1>4, <2>1 DEF accepts
    <3>3. /\ owed' \in Count /\ refused' \in Count
          /\ \A s \in Service : owed[s] <= owed'[s] /\ (s # pfs => owed'[s] = owed[s])
          /\ iou # -1 => owed'[pfs] = iou
          /\ iou = -1 => owed' = owed
      BY <3>1, <3>2, <1>3, <1>4, <1>5 DEF Count
    <3>4. \A s \in Service : (s # pfs => refused'[s] = refused[s]) /\ refused'[pfs] <= trouble
      BY <3>1, <1>3 DEF IInv, ReasonLeft
    <3> QED
      BY <3>3, <3>4, <1>3
  <2>2. CASE ~accepts
    <3>1. owed' = owed /\ refused' = [refused EXCEPT ![pfs] = @ + 1]
      BY <1>1, <2>2 DEF process
    <3>2. refuses(pfs)
      BY <1>1, <1>3, <1>5, <1>4, <2>2 DEF accepts, refuses
    <3>3. refused[pfs] + 1 <= trouble
      BY <3>2, <1>3 DEF IInv, ReasonLeft
    <3>4. owed' \in Count /\ refused' \in Count
      BY <3>1, <1>3 DEF Count
    <3>5. \A s \in Service : owed[s] <= owed'[s] /\ (s # pfs => owed'[s] = owed[s])
      BY <3>1, <1>3 DEF Count
    <3>6. \A s \in Service : (s # pfs => refused'[s] = refused[s]) /\ refused'[pfs] <= trouble
      BY <3>1, <3>3, <1>3 DEF Count
    <3> QED
      BY <3>4, <3>5, <3>6, <3>1, <1>3, <2>2
  <2> QED
    BY <2>1, <2>2
\* What comes of the request
<1>7. TypeOK'
  <2>1. TypeOK' <=> /\ stage' \in {"idle", "presence", "choose", "last", "ask", "validate"}
                    /\ stage' # "idle" => Asks(request')
                    /\ pfs' \in Service \cup {None} /\ iou' \in Int /\ trouble' \in Nat
    BY <1>1, <1>6 DEF IInv, TypeOK
  <2>2. Asks(request)
    BY <1>1 DEF IInv, TypeOK
  <2> QED
    BY <2>1, <2>2, <1>1, <1>2, <1>3
<1>8. KeptIsOwed'
  <2> SUFFICES ASSUME NEW s \in Service
               PROVE  -1 <= ious[s] /\ ious[s] <= owed'[s] /\ -1 <= stored[s] /\ stored[s] <= owed'[s]
    BY <1>1 DEF KeptIsOwed
  <2>1. ious[s] \in Int /\ stored[s] \in Int /\ owed[s] \in Int /\ owed'[s] \in Int /\ owed[s] <= owed'[s]
    BY <1>3, <1>6 DEF Amount, Count
  <2>2. -1 <= ious[s] /\ ious[s] <= owed[s] /\ -1 <= stored[s] /\ stored[s] <= owed[s]
    BY DEF IInv, KeptIsOwed
  <2> QED
    BY <2>1, <2>2
<1>9. HasIou' /\ Payable'
  BY <1>1, <1>2, <1>3, <1>4 DEF IInv, HasIou, Payable
<1>10. AnsweredIsOwed'
  BY <1>1, <1>2, <1>6 DEF AnsweredIsOwed
<1>11. PaidOncePerRequest'
  <2> SUFFICES ASSUME NEW s \in Service PROVE owed'[s] <= price[s] * asked[s]
    BY <1>1 DEF PaidOncePerRequest
  <2>1. CASE s # pfs \/ owed' = owed
    BY <2>1, <1>6 DEF IInv, PaidOncePerRequest
  <2>2. CASE s = pfs /\ owed'[pfs] = iou
    BY <2>2, <1>1 DEF IInv, Payable
  <2> QED
    BY <2>1, <2>2, <1>6
<1>12. ReasonLeft'
  <2> SUFFICES ASSUME NEW s \in Service
               PROVE  refused'[s] <= trouble' /\ (refuses(s)' => refused'[s] + 1 <= trouble')
    BY DEF ReasonLeft
  <2>1. trouble <= trouble' /\ trouble' \in Nat /\ refused[s] \in Nat /\ refused'[s] \in Nat
    BY <1>2, <1>3, <1>6 DEF Count
  <2>2. CASE s # pfs
    <3>1. refuses(s)' => refuses(s)
      BY <1>1, <1>2, <1>6, <2>2 DEF refuses
    <3>2. refused[s] <= trouble /\ (refuses(s) => refused[s] + 1 <= trouble)
      BY DEF IInv, ReasonLeft
    <3> QED
      BY <3>1, <3>2, <2>1, <2>2, <1>3, <1>6
  <2>3. CASE s = pfs /\ trouble' = trouble + 1
    BY <2>1, <2>3, <1>3, <1>6
  <2>4. CASE s = pfs /\ stage' = "validate" /\ pfs' = pfs /\ trouble' = trouble
    BY <2>4, <1>6 DEF refuses
  <2> QED
    BY <2>2, <2>3, <2>4, <1>2
<1> QED
  BY <1>7, <1>8, <1>9, <1>10, <1>11, <1>12 DEF IInv

LEMMA validateRouteKeeps == IInv /\ validateRoute => IInv'
<1> SUFFICES ASSUME IInv, validateRoute PROVE IInv'
  OBVIOUS
<1>1. /\ stage = "validate" /\ ious' = iouAfter
      /\ UNCHANGED <<scenario, queue, stored, services, owed, asked, refused, trouble>>
  BY DEF validateRoute, serverVars
<1>2. stage' = "idle" /\ pfs' = None /\ iou' = -1
  BY DEF validateRoute, fails, ends
<1>3. /\ \/ iou = -1 /\ (pfs \in Service => price[pfs] = 0)
         \/ iou \in Nat /\ pfs \in Service /\ price[pfs] # 0
      /\ ious \in Amount /\ owed \in Count /\ stored \in Amount
      /\ iou # -1 /\ answer.is # "refused" => iou = owed[pfs]
  BY <1>1 DEF IInv, HasIou, TypeOK, AnsweredIsOwed
<1>4. \A s \in Service : \/ ious'[s] = ious[s] /\ (s = pfs => price[s] = 0)
                         \/ s = pfs /\ ious'[s] \in {-1, owed[s]}
  <2>1. CASE iou = -1
    BY <1>1, <1>3, <2>1 DEF iouAfter
  <2>2. CASE iou # -1
    <3>1. ious' = [ious EXCEPT ![pfs] = IF answer.is = "refused" THEN -1 ELSE iou]
      BY <1>1, <2>2 DEF iouAfter
    <3> QED
      BY <3>1, <1>3, <2>2 DEF Amount
  <2> QED
    BY <2>1, <2>2
<1>5. ious' \in Amount
  BY <1>1, <1>3 DEF iouAfter, Amount
<1>6. TypeOK'
  BY <1>1, <1>2, <1>5 DEF IInv, TypeOK
<1>7. KeptIsOwed'
  <2> SUFFICES ASSUME NEW s \in Service PROVE -1 <= ious'[s] /\ ious'[s] <= owed[s]
    BY <1>1 DEF IInv, KeptIsOwed
  <2>1. owed[s] \in Nat
    BY <1>3 DEF Count
  <2> QED
    BY <1>4, <2>1 DEF IInv, KeptIsOwed
<1>8. HasIou' /\ Payable' /\ AnsweredIsOwed'
  BY <1>2 DEF HasIou, Payable, AnsweredIsOwed
<1>9. PaidOncePerRequest'
  BY <1>1 DEF IInv, PaidOncePerRequest
<1>10. ReasonLeft'
  <2> SUFFICES ASSUME NEW s \in Service, refuses(s)' PROVE refuses(s)
    BY <1>1 DEF IInv, ReasonLeft
  <2>1. price[s] # 0 /\ ious'[s] # -1 /\ ious'[s] < owed[s]
    BY <1>1, <1>2 DEF refuses
  <2>2. s # pfs /\ ious'[s] = ious[s]
    <3>1. owed[s] \in Nat
      BY <1>3 DEF Count
    <3> QED
      BY <1>4, <2>1, <3>1
  <2> QED
    BY <2>1, <2>2 DEF refuses
<1> QED
  BY <1>6, <1>7, <1>8, <1>9, <1>10 DEF IInv

LEMMA crashKeeps == IInv /\ crash => IInv'
<1> SUFFICES ASSUME IInv, crash PROVE IInv'
  OBVIOUS
<1> USE DEF crash, serverVars
<1>1. TypeOK' /\ KeptIsOwed' /\ PaidOncePerRequest'
  BY DEF IInv, TypeOK, KeptIsOwed, PaidOncePerRequest
<1>2. HasIou' /\ Payable' /\ AnsweredIsOwed'
  BY DEF HasIou, Payable, AnsweredIsOwed
<1>3. ReasonLeft'
  <2>1. \A s \in Service : refused[s] \in Nat /\ refused[s] <= trouble
    BY DEF IInv, TypeOK, Count, ReasonLeft
  <2> QED
    BY <2>1 DEF IInv, TypeOK, ReasonLeft
<1> QED
  BY <1>1, <1>2, <1>3 DEF IInv

\* noPresence, and what happens around the requests
LEMMA AroundKeeps ==
  ASSUME IInv, \/ noPresence \/ register \/ comeUp \/ save
               \/ \E s \in Service : expire(s) \/ goDown(s)
               \/ \E n \in Node : useChannel(n)
  PROVE  IInv'
<1>1. trouble \in Nat /\ scenario \in Scenarios /\ services \subseteq Service
  BY DEF IInv, TypeOK
<1>2. CASE noPresence
  BY <1>2, FailsKeeps DEF noPresence
<1>3. CASE register
  BY <1>1, <1>3, AsideKeeps, ScenariosAssumption DEF register, serverVars
<1>4. CASE comeUp
  BY <1>1, <1>4, AsideKeeps DEF comeUp, serverVars
<1>5. CASE save
  BY <1>1, <1>5, AsideKeeps DEF save, serverVars
<1>6. CASE \E s \in Service : expire(s)
  BY <1>1, <1>6, AsideKeeps DEF expire, serverVars
<1>7. CASE \E s \in Service : goDown(s)
  BY <1>1, <1>7, AsideKeeps DEF goDown, serverVars
<1>8. CASE \E n \in Node : useChannel(n)
  BY <1>1, <1>8, AsideKeeps DEF useChannel, serverVars
<1> QED
  BY <1>2, <1>3, <1>4, <1>5, <1>6, <1>7, <1>8

LEMMA NextInv == IInv /\ [Next]_vars => IInv'
<1> SUFFICES ASSUME IInv, [Next]_vars PROVE IInv'
  OBVIOUS
<1>1. CASE UNCHANGED vars
  BY <1>1, AsideKeeps DEF vars, serverVars, IInv, TypeOK
<1>2. CASE PathFind
  BY <1>2, pathFindRequestKeeps, getRouteKeeps, choosePfsKeeps, fetchLastIouKeeps, requestPfsKeeps,
     validateRouteKeeps DEF PathFind
<1>3. CASE Next /\ ~PathFind
  BY <1>3, AroundKeeps, crashKeeps DEF Next
<1> QED
  BY <1>1, <1>2, <1>3

-----------------------------------------------------------------------------
(***************************************************************************)
(* The views ask for routes, and leave the requests that go on alone       *)
(***************************************************************************)

Selected == Service \cup {None}
StepsOK(p) == p.is = "steps" /\ DOMAIN p = DOMAIN TransferSteps /\ p.pfs \in Selected /\ p.list \subseteq Service
QuickOK(p) == p.is = "quick" /\ DOMAIN p = DOMAIN QuickPay /\ p.pfs \in Selected
PageOK == page = Closed \/ StepsOK(page) \/ QuickOK(page)

PInv == IInv /\ PageOK

LEMMA NoRequests == Requests(<<>>)
<1>1. <<>> \in Seq(Request)
  OBVIOUS
<1> QED
  BY <1>1, RequestsOf

LEMMA askKeeps ==
  ASSUME IInv, NEW more, Requests(more), UNCHANGED clientVars, queue' = queue \o more
  PROVE  IInv'
<1> USE DEF clientVars, requestVars, serverVars
<1>1. Requests(queue')
  BY MoreRequests DEF IInv, TypeOK
<1>2. TypeOK' /\ KeptIsOwed' /\ PaidOncePerRequest'
  BY <1>1 DEF IInv, TypeOK, KeptIsOwed, PaidOncePerRequest
<1>3. HasIou' /\ Payable' /\ AnsweredIsOwed'
  BY DEF IInv, HasIou, Payable, AnsweredIsOwed
<1>4. ReasonLeft'
  BY DEF IInv, ReasonLeft, refuses
<1> QED
  BY <1>2, <1>3, <1>4 DEF IInv

LEMMA RequestFor ==
  ASSUME NEW s \in Service \cup {"any", "disabled"}, NEW paths
  PROVE  Requests(<<requestFor(s, paths)>>)
<1> DEFINE r == requestFor(s, paths)
<1>1. Asks(r)
  BY DEF Asks, requestFor
<1> HIDE DEF r
<1>2. <<r>> \in Seq({r})
  OBVIOUS
<1>3. <<r>> \in Seq(Range(<<r>>)) /\ Range(<<r>>) \subseteq {r}
  BY <1>2, SequenceOfRange
<1> QED
  BY <1>1, <1>3 DEF Requests, r

\* The services there are to select from are services (fetchServices)
LEMMA ServicesAreFetched ==
  ASSUME TypeOK
  PROVE  fetchServices \subseteq Service
<1>1. scenario.additional \in Seq(Service) /\ services \subseteq Service
  BY ScenariosAssumption DEF TypeOK
<1>2. Range(scenario.additional) \subseteq Service
  BY <1>1, SequenceOfRange
<1> QED
  BY <1>1, <1>2 DEF fetchServices, known, additional

\* A step of a view that asks for no more than what follows from its data
LEMMA showKeeps ==
  ASSUME IInv, NEW p, p = Closed \/ StepsOK(p) \/ QuickOK(p), page' = p,
         NEW more, Requests(more), ask(more)
  PROVE  PInv'
BY askKeeps DEF PInv, PageOK, ask

LEMMA handleStepKeeps ==
  ASSUME IInv, NEW p, StepsOK(p), handleStep(p)
  PROVE  PInv'
<1>1. CASE p.step = 1 /\ p.pfs # None /\ ~p.confirmed
  <2> DEFINE q == [p EXCEPT !.confirmed = TRUE, !.finding = TRUE]
  <2>1. page' = q /\ ask(<<requestFor(p.pfs, <<>>)>>)
    BY <1>1 DEF handleStep, show
  <2>2. StepsOK(q) /\ p.pfs \in Service
    BY <1>1 DEF StepsOK, Selected, TransferSteps
  <2> HIDE DEF q
  <2> QED
    BY <2>1, <2>2, RequestFor, showKeeps
<1>2. CASE ~(p.step = 1 /\ p.pfs # None /\ ~p.confirmed) /\ p.step = 3 /\ p.route # <<>>
  <2> DEFINE q == [p EXCEPT !.processing = TRUE, !.asking = @ + 1]
  <2>1. page' = q /\ ask(<<requestFor("any", p.route)>>)
    BY <1>2 DEF handleStep, show
  <2>2. StepsOK(q)
    BY DEF StepsOK, TransferSteps
  <2> HIDE DEF q
  <2> QED
    BY <2>1, <2>2, RequestFor, showKeeps
<1>3. CASE ~(p.step = 1 /\ p.pfs # None /\ ~p.confirmed) /\ ~(p.step = 3 /\ p.route # <<>>)
  <2>1. page' \in {p, [p EXCEPT !.step = 3]} /\ ask(<<>>)
    BY <1>3 DEF handleStep, shows, show
  <2>2. StepsOK(page')
    BY <2>1 DEF StepsOK, TransferSteps
  <2> QED
    BY <2>1, <2>2, NoRequests, showKeeps
<1> QED
  BY <1>1, <1>2, <1>3

LEMMA continueKeeps ==
  ASSUME IInv, NEW p, StepsOK(p), continue(p)
  PROVE  PInv'
<1>1. CASE p.awaits = "direct"
  <2>1. page' = [p EXCEPT !.waiting = @ + 1] /\ ask(<<>>)
    BY <1>1 DEF continue, shows, show
  <2>2. StepsOK(page')
    BY <2>1 DEF StepsOK, TransferSteps
  <2> QED
    BY <2>1, <2>2, NoRequests, showKeeps
<1>2. CASE p.awaits # "direct"
  BY <1>2, handleStepKeeps DEF continue
<1> QED
  BY <1>1, <1>2

LEMMA setPFSKeeps ==
  ASSUME IInv, NEW p, StepsOK(p), NEW s \in Selected, setPFS(p, s)
  PROVE  PInv'
<1> DEFINE selected == [p EXCEPT !.pfs = s]
<1>1. StepsOK(selected)
  BY DEF StepsOK, TransferSteps
<1>2. continue(selected) \/ (page' = selected /\ ask(<<>>))
  BY DEF setPFS, shows, show
<1> HIDE DEF selected
<1> QED
  BY <1>1, <1>2, continueKeeps, NoRequests, showKeeps

LEMMA StepsKeeps == PInv /\ Steps => PInv'
<1> SUFFICES ASSUME PInv, Steps PROVE PInv'
  OBVIOUS
<1>1. IInv /\ PageOK /\ page.is = "steps" /\ StepsOK(page)
  <2>1. page.is = "steps"
    BY DEF Steps, clickContinue, checkDirectRoute, listServices, stepsSettled, resume, nextStep, transferEnds,
           select, setRoute, isOpen
  <2> QED
    BY <2>1 DEF PInv, PageOK, StepsOK, QuickOK, Closed
<1>2. CASE clickContinue
  BY <1>1, <1>2, continueKeeps DEF clickContinue
<1>3. CASE checkDirectRoute
  <2>1. page' = [page EXCEPT !.awaits = "direct"] /\ ask(<<requestFor("disabled", <<>>)>>)
    BY <1>3 DEF checkDirectRoute, show
  <2>2. StepsOK(page')
    BY <1>1, <2>1 DEF StepsOK, TransferSteps
  <2> QED
    BY <1>1, <2>1, <2>2, RequestFor, showKeeps
<1>4. CASE listServices
  <2> DEFINE p == [page EXCEPT !.listed = TRUE, !.list = fetchServices]
  <2>1. fetchServices \subseteq Service
    BY <1>1, ServicesAreFetched DEF IInv
  <2>2. StepsOK(p) /\ p.list = fetchServices
    BY <1>1, <2>1 DEF StepsOK, TransferSteps
  <2>3. (page' = p /\ ask(<<>>)) \/ (\E s \in cheapest(p.list) : setPFS(p, s))
    BY <1>4 DEF listServices, shows, show
  <2> HIDE DEF p
  <2>4. CASE page' = p /\ ask(<<>>)
    BY <1>1, <2>2, <2>4, NoRequests, showKeeps
  <2>5. CASE \E s \in cheapest(p.list) : setPFS(p, s)
    <3>1. PICK s \in Selected : setPFS(p, s)
      BY <2>1, <2>2, <2>5 DEF cheapest, Selected
    <3> QED
      BY <1>1, <2>2, <3>1, setPFSKeeps
  <2> QED
    BY <2>3, <2>4, <2>5
<1>5. CASE stepsSettled
  <2>1. ask(<<>>)
    BY <1>5 DEF stepsSettled
  <2>2. StepsOK(page')
    BY <1>1, <1>5 DEF stepsSettled, StepsOK, TransferSteps
  <2> QED
    BY <1>1, <2>1, <2>2, NoRequests, showKeeps
<1>6. CASE resume
  <2> DEFINE p == [page EXCEPT !.waiting = @ - 1]
  <2>1. StepsOK(p)
    BY <1>1 DEF StepsOK, TransferSteps
  <2>2. handleStep(p) \/ (page' = page /\ ask(<<>>))
    BY <1>6 DEF resume, shows, show
  <2> HIDE DEF p
  <2> QED
    BY <1>1, <2>1, <2>2, handleStepKeeps, NoRequests, showKeeps
<1>7. CASE nextStep
  <2>1. page' = [page EXCEPT !.step = page.timer, !.timer = 0] /\ ask(<<>>)
    BY <1>7 DEF nextStep, shows, show
  <2>2. StepsOK(page')
    BY <1>1, <2>1 DEF StepsOK, TransferSteps
  <2> QED
    BY <1>1, <2>1, <2>2, NoRequests, showKeeps
<1>8. CASE transferEnds
  <2>1. page' \in {Closed, [page EXCEPT !.sending = @ - 1, !.error = TRUE]} /\ ask(<<>>)
    BY <1>8 DEF transferEnds, shows, show
  <2>2. page' = Closed \/ StepsOK(page')
    BY <1>1, <2>1 DEF StepsOK, TransferSteps
  <2> QED
    BY <1>1, <2>1, <2>2, NoRequests, showKeeps
<1>9. CASE \E s \in Selected : select(s)
  <2>1. PICK s \in Selected : setPFS(page, s)
    BY <1>9 DEF select
  <2> QED
    BY <1>1, <2>1, setPFSKeeps
<1>10. ASSUME NEW route, setRoute(route) PROVE PInv'
  <2>1. page' = [page EXCEPT !.route = route] /\ ask(<<>>)
    BY <1>10 DEF setRoute, shows, show
  <2>2. StepsOK(page')
    BY <1>1, <2>1 DEF StepsOK, TransferSteps
  <2> QED
    BY <1>1, <2>1, <2>2, NoRequests, showKeeps
<1> QED
  BY <1>2, <1>3, <1>4, <1>5, <1>6, <1>7, <1>8, <1>9, <1>10 DEF Steps, Selected

LEMMA QuickKeeps == PInv /\ Quick => PInv'
<1> SUFFICES ASSUME PInv, Quick PROVE PInv'
  OBVIOUS
<1>1. IInv /\ PageOK /\ page.is = "quick" /\ QuickOK(page)
  <2>1. page.is = "quick"
    BY DEF Quick, fetchCheapestPathfindingService, fetchCheapestMediationRoute, runAction, deposits, transferDeposited,
           quickSettled, actionEnds, isOpen
  <2> QED
    BY <2>1 DEF PInv, PageOK, StepsOK, QuickOK, Closed
<1>2. CASE fetchCheapestPathfindingService
  <2>1. fetchServices \subseteq Service
    BY <1>1, ServicesAreFetched DEF IInv
  <2>2. /\ ask(<<>>)
        /\ \/ page' = [page EXCEPT !.listed = TRUE]
           \/ \E s \in cheapest(fetchServices) : page' = [[page EXCEPT !.listed = TRUE] EXCEPT !.pfs = s]
    BY <1>2 DEF fetchCheapestPathfindingService, shows, show
  <2>3. QuickOK(page')
    BY <1>1, <2>1, <2>2 DEF QuickOK, QuickPay, cheapest, Selected
  <2> QED
    BY <1>1, <2>2, <2>3, NoRequests, showKeeps
<1>3. CASE fetchCheapestMediationRoute
  <2>1. page' = [page EXCEPT !.finding = TRUE, !.failed = FALSE] /\ ask(<<requestFor(page.pfs, <<>>)>>)
    BY <1>3 DEF fetchCheapestMediationRoute, show
  <2>2. QuickOK(page') /\ page.pfs \in Service
    BY <1>1, <1>3, <2>1 DEF fetchCheapestMediationRoute, QuickOK, QuickPay, Selected
  <2> QED
    BY <1>1, <2>1, <2>2, RequestFor, showKeeps
<1>4. CASE runAction
  <2>1. PICK phase, more :
          /\ page' = [page EXCEPT !.inProgress = TRUE, !.phase = phase, !.deposit = depositAmount] /\ ask(more)
          /\ more \in {<<requestFor("disabled", <<>>)>>, <<requestFor("any", page.route)>>, <<>>}
    BY <1>4 DEF runAction, starts
  <2>2. QuickOK(page')
    BY <1>1, <2>1 DEF QuickOK, QuickPay
  <2>3. Requests(more)
    BY <2>1, RequestFor, NoRequests
  <2> QED
    BY <1>1, <2>1, <2>2, <2>3, showKeeps
<1>5. CASE deposits
  <2>1. /\ page' \in {[page EXCEPT !.phase = "waiting"], [page EXCEPT !.phase = "failed"]}
        /\ \/ UNCHANGED <<clientVars, queue>>
           \/ ask(<<>>)
    BY <1>5 DEF deposits, shows, show
  <2>2. QuickOK(page')
    BY <1>1, <2>1 DEF QuickOK, QuickPay
  <2>3. UNCHANGED <<clientVars, queue>> => IInv'
    BY <1>1, AsideKeeps DEF clientVars, requestVars, serverVars, IInv, TypeOK
  <2> QED
    BY <1>1, <2>1, <2>2, <2>3, NoRequests, showKeeps DEF PInv, PageOK
<1>6. CASE transferDeposited
  <2>1. page' = [page EXCEPT !.phase = "asking"] /\ ask(<<requestFor("any", <<>>)>>)
    BY <1>6 DEF transferDeposited, show
  <2>2. QuickOK(page')
    BY <1>1, <2>1 DEF QuickOK, QuickPay
  <2> QED
    BY <1>1, <2>1, <2>2, RequestFor, showKeeps
<1>7. CASE quickSettled
  <2> DEFINE found == IF page.finding THEN fetched(page) ELSE page
  <2>1. QuickOK(found)
    BY <1>1 DEF QuickOK, QuickPay, fetched, decideOnActionComponent
  <2>2. \E phase, more : /\ page' = [found EXCEPT !.phase = phase] /\ ask(more)
                         /\ more \in {<<requestFor("any", settled.paths)>>, <<>>}
    BY <1>7 DEF quickSettled, shows, show
  <2> HIDE DEF found
  <2>3. PICK phase, more : /\ page' = [found EXCEPT !.phase = phase] /\ ask(more)
                           /\ more \in {<<requestFor("any", settled.paths)>>, <<>>}
    BY <2>2
  <2>4. QuickOK(page')
    BY <2>1, <2>3 DEF QuickOK, QuickPay
  <2>5. Requests(more)
    BY <2>3, RequestFor, NoRequests
  <2> QED
    BY <1>1, <2>3, <2>4, <2>5, showKeeps
<1>8. CASE actionEnds
  <2>1. page' \in {[page EXCEPT !.phase = "completed"], [page EXCEPT !.phase = "failed"]} /\ ask(<<>>)
    BY <1>8 DEF actionEnds, shows, show
  <2>2. QuickOK(page')
    BY <1>1, <2>1 DEF QuickOK, QuickPay
  <2> QED
    BY <1>1, <2>1, <2>2, NoRequests, showKeeps
<1> QED
  BY <1>2, <1>3, <1>4, <1>5, <1>6, <1>7, <1>8 DEF Quick

LEMMA PaymentsNextInv == PInv /\ [PaymentsNext]_paymentVars => PInv'
<1> SUFFICES ASSUME PInv, [PaymentsNext]_paymentVars PROVE PInv'
  OBVIOUS
<1>1. CASE UNCHANGED paymentVars
  BY <1>1, NextInv DEF paymentVars, viewVars, PInv, PageOK, StepsOK, QuickOK
<1>2. CASE client
  BY <1>2, NextInv DEF client, Next, PInv, PageOK, StepsOK, QuickOK
<1>3. CASE others
  BY <1>3, NextInv DEF others, viewVars, Next, PInv, PageOK, StepsOK, QuickOK
<1>4. CASE reload
  BY <1>4, NextInv DEF reload, Next, PInv, PageOK
<1>5. CASE open
  <2>1. page' \in {TransferSteps, decideOnActionComponent(QuickPay)} /\ ask(<<>>)
    BY <1>5 DEF open
  <2>2. StepsOK(TransferSteps)
    BY DEF StepsOK, TransferSteps, Selected
  <2>3. QuickOK(decideOnActionComponent(QuickPay))
    BY DEF QuickOK, QuickPay, Selected, decideOnActionComponent
  <2> QED
    BY <2>1, <2>2, <2>3, NoRequests, showKeeps DEF PInv
<1>6. CASE leave
  BY <1>6, NoRequests, showKeeps DEF leave, shows, show, PInv
<1> QED
  BY <1>1, <1>2, <1>3, <1>4, <1>5, <1>6, StepsKeeps, QuickKeeps DEF PaymentsNext

-----------------------------------------------------------------------------
(***************************************************************************)
(* How many requests all services get                                      *)
(***************************************************************************)

\* What a has for all services, as AskedOncePerVisit adds it up
total(a) ==
  LET sum[T \in SUBSET Service] ==
        IF T = {} THEN 0 ELSE LET s == CHOOSE s \in T : TRUE IN a[s] + sum[T \ {s}]
  IN sum[Service]
LEMMA TotalIs == MapThenSumSet(LAMBDA s : asked[s], Service) = total(asked)
BY DEF MapThenSumSet, MapThenFoldSet, total

\* A set of numbers has a smallest one
LEMMA Smallest ==
  ASSUME NEW T \in SUBSET Nat, T # {}
  PROVE  \E x \in T : \A y \in T : x <= y
<1>1. PICK x \in T : \A y \in T : ~(<<y, x>> \in OpToRel(<, Nat))
  BY NatLessThanWellFounded, WFMin, Zenon
<1>2. \A y \in T : ~(y < x)
  BY <1>1 DEF OpToRel
<1> QED
  BY <1>2

\* Of sets of services, too
LEMMA SmallestSet ==
  ASSUME IsFiniteSet(Service), NEW Sets \in SUBSET SUBSET Service, Sets # {}
  PROVE  \E T \in Sets : \A U \in Sets : Cardinality(T) <= Cardinality(U)
<1> DEFINE Sizes == {Cardinality(T) : T \in Sets}
<1>1. \A T \in Sets : Cardinality(T) \in Nat
  BY FS_Subset, FS_CardinalityType
<1>2. Sizes \in SUBSET Nat /\ Sizes # {}
  BY <1>1
<1> HIDE DEF Sizes
<1>3. PICK n \in Sizes : \A m \in Sizes : n <= m
  BY <1>2, Smallest
<1> QED
  BY <1>3 DEF Sizes

next(T) == CHOOSE s \in T : TRUE
\* g adds up what a has, for some sets of services
addsUp(g, a, Sets) == \A T \in Sets : g[T] = IF T = {} THEN 0 ELSE a[next(T)] + g[T \ {next(T)}]

LEMMA NextIs ==
  ASSUME IsFiniteSet(Service), NEW T \in SUBSET Service
  PROVE  /\ Cardinality(T) \in Nat /\ (Cardinality(T) = 0 <=> T = {})
         /\ T # {} => next(T) \in T /\ T \ {next(T)} \in SUBSET Service /\ Cardinality(T \ {next(T)}) = Cardinality(T) - 1
<1>1. IsFiniteSet(T)
  BY FS_Subset
<1>2. Cardinality(T) \in Nat /\ (Cardinality(T) = 0 <=> T = {})
  BY <1>1, FS_CardinalityType, FS_EmptySet
<1>3. T # {} => next(T) \in T
  BY DEF next
<1> QED
  BY <1>1, <1>2, <1>3, FS_RemoveElement

LEMMA SumsExist ==
  ASSUME IsFiniteSet(Service), NEW a \in Count
  PROVE  \E g \in [SUBSET Service -> Nat] : addsUp(g, a, SUBSET Service)
<1> DEFINE upTo(n) == {T \in SUBSET Service : Cardinality(T) <= n}
           Fails == {n \in Nat : ~\E g \in [upTo(n) -> Nat] : addsUp(g, a, upTo(n))}
<1>1. Fails = {}
  <2> SUFFICES ASSUME Fails # {} PROVE FALSE
    OBVIOUS
  <2>1. PICK n \in Fails : \A m \in Fails : n <= m
    <3>1. Fails \in SUBSET Nat
      OBVIOUS
    <3> HIDE DEF Fails
    <3> QED
      BY <3>1, Smallest
  <2>2. n # 0
    <3> SUFFICES ASSUME n = 0 PROVE FALSE
      OBVIOUS
    <3>1. ASSUME NEW T \in upTo(0) PROVE T = {}
      <4>1. T \in SUBSET Service /\ Cardinality(T) <= 0
        OBVIOUS
      <4>2. Cardinality(T) \in Nat /\ (Cardinality(T) = 0 => T = {})
        BY <4>1, NextIs
      <4> QED
        BY <4>1, <4>2
    <3>2. addsUp([T \in upTo(0) |-> 0], a, upTo(0)) /\ [T \in upTo(0) |-> 0] \in [upTo(0) -> Nat]
      BY <3>1 DEF addsUp
    <3> QED
      BY <3>2
  <2>3. n - 1 \in Nat /\ n - 1 \notin Fails
    <3>1. n \in Nat /\ n - 1 \in Nat /\ ~(n <= n - 1)
      BY <2>2
    <3> HIDE DEF Fails
    <3> QED
      BY <2>1, <3>1
  <2>4. PICK g \in [upTo(n - 1) -> Nat] : addsUp(g, a, upTo(n - 1))
    BY <2>3
  <2> DEFINE h == [T \in upTo(n) |-> IF T = {} THEN 0 ELSE a[next(T)] + g[T \ {next(T)}]]
  <2>5. \A T \in upTo(n) : T # {} => next(T) \in Service /\ T \ {next(T)} \in upTo(n - 1)
    BY NextIs, <2>3
  <2>6. h \in [upTo(n) -> Nat]
    BY <2>4, <2>5 DEF Count
  <2>7. \A T \in upTo(n - 1) : h[T] = g[T] /\ T \in upTo(n)
    <3>1. ASSUME NEW T \in upTo(n - 1) PROVE T \in upTo(n)
      <4>1. T \in SUBSET Service /\ Cardinality(T) <= n - 1
        OBVIOUS
      <4>2. Cardinality(T) \in Nat
        BY <4>1, NextIs
      <4> QED
        BY <2>3, <4>1, <4>2
    <3> QED
      BY <2>4, <3>1 DEF addsUp
  <2>8. addsUp(h, a, upTo(n))
    BY <2>5, <2>7 DEF addsUp
  <2> QED
    BY <2>6, <2>8
<1>2. PICK n \in Nat : n = Cardinality(Service)
  BY FS_CardinalityType
<1>3. upTo(n) = SUBSET Service
  BY <1>2, FS_Subset
<1>4. n \notin Fails
  BY <1>1
<1> QED
  BY <1>3, <1>4

LEMMA TotalAdds ==
  ASSUME IsFiniteSet(Service), NEW a \in Count
  PROVE  \E g \in [SUBSET Service -> Nat] : addsUp(g, a, SUBSET Service) /\ total(a) = g[Service]
<1> DEFINE step(g) == [T \in SUBSET Service |-> IF T = {} THEN 0 ELSE LET s == CHOOSE s \in T : TRUE IN a[s] + g[T \ {s}]]
           sum == CHOOSE g : g = step(g)
<1>1. PICK g \in [SUBSET Service -> Nat] : addsUp(g, a, SUBSET Service)
  BY SumsExist
<1>2. g = step(g)
  BY <1>1 DEF addsUp, next
<1>3. sum = step(sum)
  BY <1>2
<1>4. total(a) = sum[Service]
  BY DEF total
<1> HIDE DEF sum
<1>5. addsUp(sum, a, SUBSET Service) /\ DOMAIN sum = SUBSET Service /\ sum = [T \in DOMAIN sum |-> sum[T]]
  BY <1>3 DEF addsUp, next
<1> HIDE DEF step
<1>6. \A T \in SUBSET Service : sum[T] = g[T]
  <2> DEFINE Differ == {T \in SUBSET Service : sum[T] # g[T]}
  <2> SUFFICES ASSUME Differ # {} PROVE FALSE
    OBVIOUS
  <2>1. PICK T \in Differ : \A U \in Differ : Cardinality(T) <= Cardinality(U)
    <3>1. Differ \in SUBSET SUBSET Service
      OBVIOUS
    <3> HIDE DEF Differ
    <3> QED
      BY <3>1, SmallestSet
  <2>2. T # {}
    BY <1>1, <1>5 DEF addsUp
  <2> DEFINE U == T \ {next(T)}
  <2>3. U \in SUBSET Service /\ ~(Cardinality(T) <= Cardinality(U))
    BY <2>2, NextIs
  <2>4. sum[U] = g[U]
    BY <2>1, <2>3
  <2> QED
    BY <1>1, <1>5, <2>2, <2>4 DEF addsUp
<1>7. sum \in [SUBSET Service -> Nat]
  BY <1>1, <1>5, <1>6
<1> QED
  BY <1>4, <1>5, <1>7

\* One service more is asked
LEMMA TotalGrows ==
  ASSUME IsFiniteSet(Service), NEW a \in Count, NEW s \in Service
  PROVE  total(a) \in Nat /\ total([a EXCEPT ![s] = @ + 1]) = total(a) + 1
<1> DEFINE b == [a EXCEPT ![s] = @ + 1]
<1>1. b \in Count /\ b[s] = a[s] + 1 /\ a[s] \in Nat /\ \A t \in Service : t # s => b[t] = a[t]
  BY DEF Count
<1> HIDE DEF b
<1>2. PICK g \in [SUBSET Service -> Nat] : addsUp(g, a, SUBSET Service) /\ total(a) = g[Service]
  BY TotalAdds
<1>3. PICK h \in [SUBSET Service -> Nat] : addsUp(h, b, SUBSET Service) /\ total(b) = h[Service]
  BY <1>1, TotalAdds
<1> DEFINE agree(T) == h[T] = g[T] + (IF s \in T THEN 1 ELSE 0)
           Differ == {T \in SUBSET Service : ~agree(T)}
<1>4. Differ = {}
  <2> SUFFICES ASSUME Differ # {} PROVE FALSE
    OBVIOUS
  <2>1. PICK T \in Differ : \A U \in Differ : Cardinality(T) <= Cardinality(U)
    <3>1. Differ \in SUBSET SUBSET Service
      OBVIOUS
    <3> HIDE DEF Differ
    <3> QED
      BY <3>1, SmallestSet
  <2>2. T # {}
    <3>1. {} \in SUBSET Service /\ g[{}] = 0 /\ h[{}] = 0
      BY <1>2, <1>3 DEF addsUp
    <3>2. agree({})
      BY <3>1
    <3> QED
      BY <3>2
  <2> DEFINE U == T \ {next(T)}
  <2>3. next(T) \in T /\ U \in SUBSET Service /\ ~(Cardinality(T) <= Cardinality(U))
    BY <2>2, NextIs
  <2>4. h[U] = g[U] + (IF s \in U THEN 1 ELSE 0)
    BY <2>1, <2>3
  <2>5. h[T] = b[next(T)] + h[U] /\ g[T] = a[next(T)] + g[U]
    BY <1>2, <1>3, <2>2 DEF addsUp
  <2>6. next(T) \in Service /\ a[next(T)] \in Nat /\ g[U] \in Nat /\ g[T] \in Nat
    BY <2>3, <1>2 DEF Count
  <2>7. agree(T)
    <3>1. CASE next(T) = s
      <4>1. s \in T /\ s \notin U
        BY <2>3, <3>1
      <4> HIDE DEF U
      <4> QED
        BY <1>1, <2>4, <2>5, <2>6, <3>1, <4>1
    <3>2. CASE next(T) # s
      <4>1. s \in T <=> s \in U
        BY <3>2
      <4>2. b[next(T)] = a[next(T)]
        BY <1>1, <2>6, <3>2
      <4> HIDE DEF U
      <4> QED
        BY <2>4, <2>5, <2>6, <4>1, <4>2
    <3> QED
      BY <3>1, <3>2
  <2> QED
    BY <2>1, <2>7
<1>5. h[Service] = g[Service] + 1
  BY <1>4
<1> QED
  BY <1>2, <1>3, <1>5 DEF b

LEMMA TotalOfNothing ==
  ASSUME IsFiniteSet(Service)
  PROVE  total([s \in Service |-> 0]) = 0
<1> DEFINE a == [s \in Service |-> 0]
<1>1. a \in Count
  BY DEF Count
<1>2. PICK g \in [SUBSET Service -> Nat] : addsUp(g, a, SUBSET Service) /\ total(a) = g[Service]
  BY <1>1, TotalAdds
<1> DEFINE More == {T \in SUBSET Service : g[T] # 0}
<1>3. More = {}
  <2> SUFFICES ASSUME More # {} PROVE FALSE
    OBVIOUS
  <2>1. PICK T \in More : \A U \in More : Cardinality(T) <= Cardinality(U)
    <3>1. More \in SUBSET SUBSET Service
      OBVIOUS
    <3> HIDE DEF More
    <3> QED
      BY <3>1, SmallestSet
  <2>2. T # {}
    BY <1>2 DEF addsUp
  <2> DEFINE U == T \ {next(T)}
  <2>3. next(T) \in Service /\ U \in SUBSET Service /\ ~(Cardinality(T) <= Cardinality(U))
    <3>1. T \in SUBSET Service
      OBVIOUS
    <3>2. /\ Cardinality(T) \in Nat /\ Cardinality(U) = Cardinality(T) - 1
          /\ next(T) \in T /\ U \in SUBSET Service
      BY <2>2, <3>1, NextIs
    <3> QED
      BY <3>1, <3>2
  <2>4. g[U] = 0
    BY <2>1, <2>3
  <2> QED
    BY <1>2, <2>2, <2>3, <2>4 DEF addsUp
<1> QED
  BY <1>2, <1>3

-----------------------------------------------------------------------------
(***************************************************************************)
(* A view asks once for each time it is opened, and once for an action     *)
(***************************************************************************)

\* A service may be paid for a request without paths
pays(r) == r.paths = <<>> /\ r.pfs # "disabled"
paying(q) == {i \in DOMAIN q : pays(q[i])}
\* The request that goes on still has to choose one
choosing == IF stage = "choose" \/ (stage = "presence" /\ pays(request)) THEN 1 ELSE 0
\* How often a view goes on to ask for such a request
maySearch(p) == IF p.route = <<>> /\ ~p.finding /\ ~p.failed THEN 1 ELSE 0
mayAsk(p) ==
  IF p.is = "steps" THEN (IF p.confirmed THEN 0 ELSE 1)
  ELSE IF p.is = "quick" THEN maySearch(p) + (IF p.phase \in {"depositing", "waiting"} THEN 1 ELSE 0)
  ELSE 0

\* A mediated payment has a route
hasRoute(p) == p.is = "quick" /\ p.component = "MediatedTransferAction" => p.route # <<>>
\* Success comes with paths
isPath(o) == o.result = "success" => o.paths # <<>>

\* What services answer is one of three kinds
isAnswer(s, a) == s = "validate" => a.is \in {"paths", "no route", "refused"}

\* What is paid for, and what is still going to be, is covered by visits and actions
AskedInv ==
  /\ visits \in Nat /\ actions \in Nat
  /\ isPath(outcome) /\ isPath(settled) /\ hasRoute(page)
  /\ isAnswer(stage, answer)
  /\ scenario.view # None => total(asked) + Cardinality(paying(queue)) + choosing + mayAsk(page) <= visits + actions

LEMMA ServicesAreFinite == IsFiniteSet(Service)
BY PaymentsAssumption

LEMMA PayingIs ==
  ASSUME NEW q, Requests(q)
  PROVE  IsFiniteSet(paying(q)) /\ Cardinality(paying(q)) \in Nat
<1>1. q \in Seq(Range(q))
  BY DEF Requests
<1>2. Len(q) \in Nat /\ paying(q) \in SUBSET (1..Len(q))
  BY <1>1 DEF paying
<1>3. IsFiniteSet(1..Len(q))
  BY <1>2, FS_Interval
<1>4. IsFiniteSet(paying(q))
  BY <1>2, <1>3, FS_Subset
<1> QED
  BY <1>4, FS_CardinalityType

\* The first request is taken from the queue
LEMMA PayingRest ==
  ASSUME NEW q, Requests(q), q # <<>>
  PROVE  Cardinality(paying(Tail(q))) + (IF pays(Head(q)) THEN 1 ELSE 0) = Cardinality(paying(q))
<1> DEFINE S == paying(Tail(q))
           T == paying(q) \ {1}
           f == [i \in S |-> i + 1]
<1>1. q \in Seq(Range(q)) /\ Len(q) \in Nat /\ DOMAIN q = 1..Len(q) /\ Len(q) # 0 /\ Head(q) = q[1]
  BY DEF Requests
<1>2. /\ DOMAIN Tail(q) = 1..(Len(q) - 1) /\ \A i \in 1..(Len(q) - 1) : Tail(q)[i] = q[i + 1]
  BY <1>1
<1>3. \A i \in S : i \in Nat /\ i + 1 \in T
  BY <1>1, <1>2 DEF paying
<1>4. \A j \in T : j - 1 \in S /\ (j - 1) + 1 = j
  BY <1>1, <1>2 DEF paying
<1>5. f \in Bijection(S, T)
  <2>1. f \in [S -> T]
    BY <1>3
  <2>2. \A i, j \in S : f[i] = f[j] => i = j
    BY <1>3
  <2>3. \A j \in T : \E i \in S : f[i] = j
    BY <1>4
  <2> HIDE DEF f, S, T
  <2> QED
    BY <2>1, <2>2, <2>3 DEF Bijection, Injection, Surjection, IsInjective
<1>6. Requests(Tail(q))
  BY FirstAndRest
<1>7. IsFiniteSet(S) /\ IsFiniteSet(paying(q)) /\ Cardinality(paying(q)) \in Nat
  BY <1>6, PayingIs
<1>8. Cardinality(T) = Cardinality(S)
  <2>1. ExistsBijection(S, T)
    BY <1>5 DEF ExistsBijection
  <2> HIDE DEF S, T
  <2> QED
    BY <1>7, <2>1, FS_Bijection
<1>9. Cardinality(T) = IF 1 \in paying(q) THEN Cardinality(paying(q)) - 1 ELSE Cardinality(paying(q))
  BY <1>7, FS_RemoveElement
<1>10. 1 \in paying(q) <=> pays(Head(q))
  BY <1>1 DEF paying
<1> HIDE DEF S, T
<1> QED
  BY <1>7, <1>8, <1>9, <1>10 DEF S

\* A view makes one request, or none
asksFor(more) == IF more # <<>> /\ pays(more[1]) THEN 1 ELSE 0
LEMMA PayingMore ==
  ASSUME NEW q, Requests(q), NEW more, more = <<>> \/ \E r : more = <<r>>
  PROVE  Cardinality(paying(q \o more)) = Cardinality(paying(q)) + asksFor(more)
<1>1. q \in Seq(Range(q)) /\ Len(q) \in Nat /\ DOMAIN q = 1..Len(q)
  BY DEF Requests
<1>2. IsFiniteSet(paying(q)) /\ Cardinality(paying(q)) \in Nat
  BY PayingIs
<1>3. CASE more = <<>>
  <2>1. q \o more = q
    BY <1>1, <1>3
  <2> QED
    BY <1>2, <1>3, <2>1 DEF asksFor
<1>4. ASSUME NEW r, more = <<r>> PROVE Cardinality(paying(q \o more)) = Cardinality(paying(q)) + asksFor(more)
  <2> DEFINE n == Len(q) + 1
             S == Range(q) \cup {r}
  <2>1. q \in Seq(S) /\ <<r>> \in Seq(S)
    BY <1>1
  <2>2. DOMAIN (q \o <<r>>) = 1..n /\ (q \o <<r>>)[n] = r /\ \A i \in 1..Len(q) : (q \o <<r>>)[i] = q[i]
    <3> HIDE DEF S
    <3> QED
      BY <1>1, <2>1
  <2>3. n \notin paying(q) /\ \A i : i \in 1..n <=> i \in 1..Len(q) \/ i = n
    BY <1>1 DEF paying
  <2>4. paying(q \o more) = IF pays(r) THEN paying(q) \cup {n} ELSE paying(q)
    <3> HIDE DEF n
    <3> QED
      BY <1>1, <1>4, <2>2, <2>3 DEF paying
  <2>5. Cardinality(paying(q) \cup {n}) = Cardinality(paying(q)) + 1
    BY <1>2, <2>3, FS_AddElement
  <2>6. asksFor(more) = IF pays(r) THEN 1 ELSE 0
    BY <1>4 DEF asksFor
  <2> QED
    BY <1>2, <2>4, <2>5, <2>6
<1> QED
  BY <1>3, <1>4

LEMMA NumbersAre ==
  ASSUME IInv, AskedInv
  PROVE  /\ total(asked) \in Nat /\ Cardinality(paying(queue)) \in Nat /\ choosing \in 0..1 /\ mayAsk(page) \in 0..2
         /\ Requests(queue)
<1>1. Requests(queue) /\ asked \in Count
  BY DEF IInv, TypeOK
<1>2. PICK g \in [SUBSET Service -> Nat] : total(asked) = g[Service]
  BY <1>1, TotalAdds, ServicesAreFinite
<1> QED
  BY <1>1, <1>2, PayingIs DEF choosing, mayAsk, maySearch

\* What happens to a view and asks for no more than it may
LEMMA viewAsks ==
  ASSUME PInv, AskedInv, NEW more, more = <<>> \/ \E r : more = <<r>>, queue' = queue \o more,
         UNCHANGED <<scenario, asked, outcome, stage, request, answer, visits, actions>>,
         settled' \in {settled, NoOutcome, Resumed}, hasRoute(page'),
         asksFor(more) + mayAsk(page') <= mayAsk(page)
  PROVE  AskedInv'
<1>1. Cardinality(paying(queue))' = Cardinality(paying(queue)) + asksFor(more)
  BY NumbersAre, PayingMore DEF PInv
<1>2. choosing' = choosing /\ total(asked)' = total(asked)
  BY DEF choosing, total
<1>3. isPath(outcome)' /\ isPath(settled)' /\ hasRoute(page)'
  <2>1. isPath(outcome) /\ isPath(settled)
    BY DEF AskedInv
  <2>2. isPath(NoOutcome) /\ isPath(Resumed)
    BY DEF isPath, NoOutcome, Resumed
  <2>3. isPath(outcome') /\ isPath(settled')
    BY <2>1, <2>2
  <2> QED
    BY <2>3 DEF isPath, hasRoute
<1>4. mayAsk(page)' = mayAsk(page') /\ mayAsk(page') \in 0..2 /\ asksFor(more) \in 0..1
  BY DEF mayAsk, maySearch, asksFor
<1>5. scenario.view # None => total(asked)' + Cardinality(paying(queue))' + choosing' + mayAsk(page)' <= visits + actions
  <2> SUFFICES ASSUME scenario.view # None
               PROVE  total(asked)' + Cardinality(paying(queue))' + choosing' + mayAsk(page)' <= visits + actions
    OBVIOUS
  <2>1. /\ total(asked) + Cardinality(paying(queue)) + choosing + mayAsk(page) <= visits + actions
        /\ visits \in Nat /\ actions \in Nat
    BY DEF AskedInv
  <2>2. total(asked) \in Nat /\ Cardinality(paying(queue)) \in Nat /\ choosing \in 0..1 /\ mayAsk(page) \in 0..2
    BY NumbersAre DEF PInv
  <2>3. /\ Cardinality(paying(queue))' = Cardinality(paying(queue)) + asksFor(more) /\ total(asked)' = total(asked)
        /\ mayAsk(page)' = mayAsk(page') /\ mayAsk(page') \in 0..2 /\ asksFor(more) \in 0..1
        /\ choosing' = choosing /\ asksFor(more) + mayAsk(page') <= mayAsk(page)
    BY <1>1, <1>2, <1>4
  <2> QED
    BY <2>1, <2>2, <2>3, SMTT(30)
<1> QED
  BY <1>3, <1>5 DEF AskedInv

\* The ways in which a view asks
LEMMA asksNothing ==
  ASSUME PInv, AskedInv, ask(<<>>), UNCHANGED <<visits, actions>>, settled' \in {settled, NoOutcome, Resumed},
         hasRoute(page'), mayAsk(page') <= mayAsk(page)
  PROVE  AskedInv'
<1>1. asksFor(<<>>) + mayAsk(page') <= mayAsk(page)
  BY DEF asksFor, mayAsk, maySearch
<1> QED
  BY <1>1, viewAsks DEF ask, clientVars, requestVars, serverVars

LEMMA asksWith ==
  ASSUME PInv, AskedInv, NEW s, NEW paths, ask(<<requestFor(s, paths)>>), UNCHANGED <<visits, actions>>,
         settled' \in {settled, NoOutcome, Resumed}, hasRoute(page'),
         mayAsk(page') + (IF paths = <<>> /\ s # "disabled" THEN 1 ELSE 0) <= mayAsk(page)
  PROVE  AskedInv'
<1> DEFINE r == requestFor(s, paths)
<1>1. asksFor(<<r>>) = IF paths = <<>> /\ s # "disabled" THEN 1 ELSE 0
  <2>1. pays(r) <=> paths = <<>> /\ s # "disabled"
    BY DEF pays, requestFor
  <2> HIDE DEF r
  <2> QED
    BY <2>1 DEF asksFor
<1>2. asksFor(<<r>>) + mayAsk(page') <= mayAsk(page)
  BY <1>1 DEF mayAsk, maySearch
<1> HIDE DEF r
<1> QED
  BY <1>2, viewAsks DEF ask, clientVars, requestVars, serverVars, r

LEMMA stepsHaveNoRoute ==
  ASSUME NEW p, p.is # "quick"
  PROVE  hasRoute(p)
BY DEF hasRoute

\* show leaves what it doesn't name alone
LEMMA showIs ==
  ASSUME NEW p, show(p)
  PROVE  page' = p /\ settled' \in {NoOutcome, Resumed} /\ UNCHANGED <<visits, actions>>
BY DEF show

LEMMA handleStepAsks ==
  ASSUME PInv, AskedInv, NEW p, StepsOK(p), handleStep(p), mayAsk(p) = mayAsk(page)
  PROVE  AskedInv'
<1>1. CASE p.step = 1 /\ p.pfs # None /\ ~p.confirmed
  <2> DEFINE q == [p EXCEPT !.confirmed = TRUE, !.finding = TRUE]
  <2>1. show(q) /\ ask(<<requestFor(p.pfs, <<>>)>>)
    BY <1>1 DEF handleStep
  <2>2. q.is = "steps" /\ q.confirmed /\ p.is = "steps"
    BY DEF StepsOK, TransferSteps
  <2>3. mayAsk(q) = 0 /\ mayAsk(p) = 1
    BY <1>1, <2>2 DEF mayAsk
  <2>4. hasRoute(q)
    BY <2>2, stepsHaveNoRoute
  <2> HIDE DEF q
  <2> QED
    BY <2>1, <2>3, <2>4, showIs, asksWith
<1>2. CASE ~(p.step = 1 /\ p.pfs # None /\ ~p.confirmed) /\ p.step = 3 /\ p.route # <<>>
  <2> DEFINE q == [p EXCEPT !.processing = TRUE, !.asking = @ + 1]
  <2>1. show(q) /\ ask(<<requestFor("any", p.route)>>)
    BY <1>2 DEF handleStep
  <2>2. q.is = "steps" /\ q.confirmed = p.confirmed /\ p.is = "steps"
    BY DEF StepsOK, TransferSteps
  <2>3. mayAsk(q) = mayAsk(p) /\ mayAsk(p) \in 0..1
    BY <2>2 DEF mayAsk
  <2>4. hasRoute(q)
    BY <2>2, stepsHaveNoRoute
  <2> HIDE DEF q
  <2> QED
    BY <1>2, <2>1, <2>3, <2>4, showIs, asksWith
<1>3. CASE ~(p.step = 1 /\ p.pfs # None /\ ~p.confirmed) /\ ~(p.step = 3 /\ p.route # <<>>)
  <2>1. PICK q \in {p, [p EXCEPT !.step = 3]} : show(q) /\ ask(<<>>)
    BY <1>3 DEF handleStep, shows
  <2>2. q.is = "steps" /\ q.confirmed = p.confirmed /\ p.is = "steps"
    BY <2>1 DEF StepsOK, TransferSteps
  <2>3. mayAsk(q) = mayAsk(p) /\ mayAsk(p) \in 0..1
    BY <2>2 DEF mayAsk
  <2>4. hasRoute(q)
    BY <2>2, stepsHaveNoRoute
  <2> QED
    BY <2>1, <2>3, <2>4, showIs, asksNothing
<1> QED
  BY <1>1, <1>2, <1>3

\* A step of TransferSteps that changes something else
LEMMA stepShows ==
  ASSUME PInv, AskedInv, page.is = "steps", NEW p, p.is = "steps", p.confirmed = page.confirmed, show(p), ask(<<>>)
  PROVE  AskedInv'
<1>1. mayAsk(p) = mayAsk(page) /\ mayAsk(p) \in 0..1
  BY DEF mayAsk
<1> QED
  BY <1>1, showIs, stepsHaveNoRoute, asksNothing

LEMMA continueAsks ==
  ASSUME PInv, AskedInv, page.is = "steps", NEW p, StepsOK(p), p.confirmed = page.confirmed, continue(p)
  PROVE  AskedInv'
<1>1. p.is = "steps" /\ mayAsk(p) = mayAsk(page)
  BY DEF StepsOK, mayAsk
<1>2. CASE p.awaits = "direct"
  <2> DEFINE q == [p EXCEPT !.waiting = @ + 1]
  <2>1. show(q) /\ ask(<<>>)
    BY <1>2 DEF continue, shows
  <2>2. q.is = "steps" /\ q.confirmed = page.confirmed
    BY DEF StepsOK, TransferSteps
  <2> HIDE DEF q
  <2> QED
    BY <2>1, <2>2, stepShows
<1>3. CASE p.awaits # "direct"
  BY <1>1, <1>3, handleStepAsks DEF continue
<1> QED
  BY <1>2, <1>3

LEMMA setPFSAsks ==
  ASSUME PInv, AskedInv, page.is = "steps", NEW p, StepsOK(p), p.confirmed = page.confirmed, NEW s \in Selected, setPFS(p, s)
  PROVE  AskedInv'
<1> DEFINE selected == [p EXCEPT !.pfs = s]
<1>1. StepsOK(selected) /\ selected.is = "steps" /\ selected.confirmed = page.confirmed
  BY DEF StepsOK, TransferSteps
<1>2. continue(selected) \/ (show(selected) /\ ask(<<>>))
  BY DEF setPFS, shows
<1> HIDE DEF selected
<1> QED
  BY <1>1, <1>2, continueAsks, stepShows

LEMMA StepsAsk == PInv /\ AskedInv /\ Steps => AskedInv'
<1> SUFFICES ASSUME PInv, AskedInv, Steps PROVE AskedInv'
  OBVIOUS
<1>1. IInv /\ page.is = "steps" /\ StepsOK(page)
  <2>1. page.is = "steps"
    BY DEF Steps, clickContinue, checkDirectRoute, listServices, stepsSettled, resume, nextStep, transferEnds,
           select, setRoute, isOpen
  <2> QED
    BY <2>1 DEF PInv, PageOK, StepsOK, QuickOK, Closed
<1>2. CASE clickContinue
  BY <1>1, <1>2, continueAsks DEF clickContinue
<1>3. CASE checkDirectRoute
  <2> DEFINE p == [page EXCEPT !.awaits = "direct"]
  <2>1. show(p) /\ ask(<<requestFor("disabled", <<>>)>>)
    BY <1>3 DEF checkDirectRoute
  <2>2. p.is = "steps" /\ p.confirmed = page.confirmed
    BY <1>1 DEF StepsOK, TransferSteps
  <2>3. mayAsk(p) = mayAsk(page) /\ mayAsk(p) \in 0..1
    BY <1>1, <2>2 DEF mayAsk
  <2> HIDE DEF p
  <2> QED
    BY <2>1, <2>2, <2>3, showIs, stepsHaveNoRoute, asksWith
<1>4. CASE listServices
  <2> DEFINE p == [page EXCEPT !.listed = TRUE, !.list = fetchServices]
  <2>1. fetchServices \subseteq Service
    BY <1>1, ServicesAreFetched DEF IInv
  <2>2. StepsOK(p) /\ p.list = fetchServices /\ p.confirmed = page.confirmed /\ p.is = "steps"
    BY <1>1, <2>1 DEF StepsOK, TransferSteps
  <2>3. (show(p) /\ ask(<<>>)) \/ (\E s \in cheapest(p.list) : setPFS(p, s))
    BY <1>4 DEF listServices, shows
  <2> HIDE DEF p
  <2>4. CASE show(p) /\ ask(<<>>)
    BY <1>1, <2>2, <2>4, stepShows
  <2>5. CASE \E s \in cheapest(p.list) : setPFS(p, s)
    <3>1. PICK s \in Selected : setPFS(p, s)
      BY <2>1, <2>2, <2>5 DEF cheapest, Selected
    <3> QED
      BY <1>1, <2>2, <3>1, setPFSAsks
  <2> QED
    BY <2>3, <2>4, <2>5
<1>5. CASE stepsSettled
  <2>1. ask(<<>>) /\ settled' = Resumed /\ UNCHANGED <<visits, actions>>
    BY <1>5 DEF stepsSettled
  <2>2. page'.is = "steps" /\ page'.confirmed = page.confirmed
    BY <1>1, <1>5 DEF stepsSettled, StepsOK, TransferSteps
  <2>3. mayAsk(page') = mayAsk(page) /\ mayAsk(page') \in 0..1 /\ hasRoute(page')
    BY <1>1, <2>2, stepsHaveNoRoute DEF mayAsk
  <2> QED
    BY <2>1, <2>3, asksNothing
<1>6. CASE resume
  <2> DEFINE p == [page EXCEPT !.waiting = @ - 1]
  <2>1. StepsOK(p) /\ p.is = "steps" /\ p.confirmed = page.confirmed
    BY <1>1 DEF StepsOK, TransferSteps
  <2>2. handleStep(p) \/ (show(page) /\ ask(<<>>))
    BY <1>6 DEF resume, shows
  <2>3. mayAsk(p) = mayAsk(page)
    BY <1>1, <2>1 DEF mayAsk
  <2> HIDE DEF p
  <2> QED
    BY <1>1, <2>1, <2>2, <2>3, handleStepAsks, stepShows
<1>7. CASE nextStep
  <2> DEFINE p == [page EXCEPT !.step = page.timer, !.timer = 0]
  <2>1. show(p) /\ ask(<<>>)
    BY <1>7 DEF nextStep, shows
  <2>2. p.is = "steps" /\ p.confirmed = page.confirmed
    BY <1>1 DEF StepsOK, TransferSteps
  <2> HIDE DEF p
  <2> QED
    BY <1>1, <2>1, <2>2, stepShows
<1>8. CASE transferEnds
  <2> DEFINE p == [page EXCEPT !.sending = @ - 1, !.error = TRUE]
  <2>1. (show(Closed) \/ show(p)) /\ ask(<<>>)
    BY <1>8 DEF transferEnds, shows
  <2>2. p.is = "steps" /\ p.confirmed = page.confirmed
    BY <1>1 DEF StepsOK, TransferSteps
  <2>3. mayAsk(Closed) = 0 /\ mayAsk(page) \in 0..1 /\ hasRoute(Closed)
    BY <1>1 DEF mayAsk, Closed, hasRoute
  <2> HIDE DEF p
  <2>4. CASE show(Closed)
    BY <2>1, <2>3, <2>4, showIs, asksNothing
  <2> QED
    BY <1>1, <2>1, <2>2, <2>4, stepShows
<1>9. CASE \E s \in Selected : select(s)
  <2>1. PICK s \in Selected : setPFS(page, s)
    BY <1>9 DEF select
  <2> QED
    BY <1>1, <2>1, setPFSAsks
<1>10. ASSUME NEW route, setRoute(route) PROVE AskedInv'
  <2> DEFINE p == [page EXCEPT !.route = route]
  <2>1. show(p) /\ ask(<<>>)
    BY <1>10 DEF setRoute, shows
  <2>2. p.is = "steps" /\ p.confirmed = page.confirmed
    BY <1>1 DEF StepsOK, TransferSteps
  <2> HIDE DEF p
  <2> QED
    BY <1>1, <2>1, <2>2, stepShows
<1> QED
  BY <1>2, <1>3, <1>4, <1>5, <1>6, <1>7, <1>8, <1>9, <1>10 DEF Steps, Selected

\* A step of QuickPay
LEMMA quickShows ==
  ASSUME PInv, AskedInv, NEW p, show(p), ask(<<>>), hasRoute(p), mayAsk(p) <= mayAsk(page)
  PROVE  AskedInv'
BY showIs, asksNothing

LEMMA phaseAsks ==
  ASSUME NEW p, QuickOK(p), NEW phase
  PROVE  LET q == [p EXCEPT !.phase = phase]
         IN /\ q.is = "quick" /\ (hasRoute(p) => hasRoute(q))
            /\ mayAsk(p) = maySearch(p) + (IF p.phase \in {"depositing", "waiting"} THEN 1 ELSE 0)
            /\ mayAsk(q) = maySearch(p) + (IF phase \in {"depositing", "waiting"} THEN 1 ELSE 0)
            /\ maySearch(p) \in 0..1
<1> DEFINE q == [p EXCEPT !.phase = phase]
<1>1. /\ p.is = "quick" /\ q.is = "quick" /\ q.phase = phase /\ q.route = p.route /\ q.finding = p.finding
      /\ q.failed = p.failed /\ q.component = p.component
  BY DEF QuickOK, QuickPay
<1> HIDE DEF q
<1>2. q.is = "quick" /\ (hasRoute(p) => hasRoute(q)) /\ maySearch(q) = maySearch(p) /\ maySearch(p) \in 0..1
  BY <1>1 DEF hasRoute, maySearch
<1>3. /\ mayAsk(p) = maySearch(p) + (IF p.phase \in {"depositing", "waiting"} THEN 1 ELSE 0)
      /\ mayAsk(q) = maySearch(q) + (IF phase \in {"depositing", "waiting"} THEN 1 ELSE 0)
  BY <1>1 DEF mayAsk
<1> QED
  BY <1>2, <1>3 DEF q

\* An answer ends the search for a route
LEMMA fetchedAsks ==
  ASSUME QuickOK(page), hasRoute(page)
  PROVE  /\ QuickOK(fetched(page)) /\ hasRoute(fetched(page))
         /\ maySearch(fetched(page)) <= maySearch(page) /\ fetched(page).phase = page.phase
<1>1. CASE isFound
  <2> DEFINE p == [page EXCEPT !.finding = FALSE, !.route = <<Head(settled.paths)>>]
  <2>1. QuickOK(p) /\ p.route = <<Head(settled.paths)>> /\ p.phase = page.phase /\ p.component = page.component
    BY DEF QuickOK, QuickPay
  <2>2. p.route # <<>>
    BY <2>1
  <2>3. fetched(page) = decideOnActionComponent(p)
    BY <1>1 DEF fetched
  <2> HIDE DEF p
  <2>4. /\ decideOnActionComponent(p).route # <<>> /\ QuickOK(decideOnActionComponent(p))
        /\ decideOnActionComponent(p).phase = p.phase
    BY <2>1, <2>2 DEF decideOnActionComponent, QuickOK, QuickPay
  <2> QED
    BY <2>1, <2>3, <2>4 DEF hasRoute, maySearch
<1>2. CASE ~isFound
  <2>1. fetched(page) = [page EXCEPT !.finding = FALSE, !.failed = TRUE]
    BY <1>2 DEF fetched
  <2>2. /\ QuickOK(fetched(page)) /\ fetched(page).failed /\ fetched(page).phase = page.phase
        /\ fetched(page).route = page.route /\ fetched(page).component = page.component /\ page.is = "quick"
    BY <2>1 DEF QuickOK, QuickPay
  <2> QED
    BY <2>2 DEF hasRoute, maySearch
<1> QED
  BY <1>1, <1>2

LEMMA QuickAsks == PInv /\ AskedInv /\ Quick => AskedInv'
<1> SUFFICES ASSUME PInv, AskedInv, Quick PROVE AskedInv'
  OBVIOUS
<1>1. IInv /\ page.is = "quick" /\ QuickOK(page) /\ hasRoute(page)
  <2>1. page.is = "quick"
    BY DEF Quick, fetchCheapestPathfindingService, fetchCheapestMediationRoute, runAction, deposits, transferDeposited,
           quickSettled, actionEnds, isOpen
  <2>2. hasRoute(page)
    BY DEF AskedInv
  <2> QED
    BY <2>1, <2>2 DEF PInv, PageOK, StepsOK, QuickOK, Closed
<1>2. CASE fetchCheapestPathfindingService
  <2>1. /\ ask(<<>>)
        /\ \/ show([page EXCEPT !.listed = TRUE])
           \/ \E s \in cheapest(fetchServices) : show([[page EXCEPT !.listed = TRUE] EXCEPT !.pfs = s])
    BY <1>2 DEF fetchCheapestPathfindingService, shows
  <2>2. PICK p : /\ show(p) /\ p.is = "quick" /\ p.route = page.route /\ p.finding = page.finding /\ p.failed = page.failed
                 /\ p.component = page.component /\ p.phase = page.phase
    <3> DEFINE listed == [page EXCEPT !.listed = TRUE]
               selected(s) == [listed EXCEPT !.pfs = s]
               same(p) == /\ p.is = "quick" /\ p.route = page.route /\ p.finding = page.finding /\ p.failed = page.failed
                          /\ p.component = page.component /\ p.phase = page.phase
    <3>1. same(listed) /\ \A s : same(selected(s))
      BY <1>1 DEF QuickOK, QuickPay
    <3>2. show(listed) \/ \E s : show(selected(s))
      BY <2>1
    <3> HIDE DEF listed, selected
    <3> QED
      BY <3>1, <3>2
  <2>3. hasRoute(p) /\ mayAsk(p) <= mayAsk(page)
    BY <1>1, <2>2 DEF hasRoute, mayAsk, maySearch
  <2> QED
    BY <2>1, <2>2, <2>3, quickShows
<1>3. CASE fetchCheapestMediationRoute
  <2> DEFINE p == [page EXCEPT !.finding = TRUE, !.failed = FALSE]
  <2>1. show(p) /\ ask(<<requestFor(page.pfs, <<>>)>>) /\ showFetchMediationRouteButton
    BY <1>3 DEF fetchCheapestMediationRoute
  <2>2. /\ p.is = "quick" /\ p.route = page.route /\ p.finding /\ p.component = page.component /\ p.phase = page.phase
    BY <1>1 DEF QuickOK, QuickPay
  <2> HIDE DEF p
  <2>3. maySearch(page) = 1 /\ maySearch(p) = 0
    BY <2>1, <2>2 DEF showFetchMediationRouteButton, maySearch
  <2>4. hasRoute(p) /\ mayAsk(p) + 1 = mayAsk(page) /\ mayAsk(p) \in 0..2
    BY <1>1, <2>2, <2>3 DEF hasRoute, mayAsk
  <2> QED
    BY <2>1, <2>4, showIs, asksWith
<1>4. CASE transferDeposited
  <2> DEFINE p == [page EXCEPT !.phase = "asking"]
  <2>1. show(p) /\ ask(<<requestFor("any", <<>>)>>) /\ page.phase = "waiting"
    BY <1>4 DEF transferDeposited
  <2>2. hasRoute(p) /\ mayAsk(p) + 1 = mayAsk(page) /\ mayAsk(p) \in 0..2
    <3>1. /\ hasRoute(page) => hasRoute(p)
          /\ mayAsk(page) = maySearch(page) + (IF page.phase \in {"depositing", "waiting"} THEN 1 ELSE 0)
          /\ mayAsk(p) = maySearch(page) + 0
          /\ maySearch(page) \in 0..1
      BY <1>1, phaseAsks
    <3> HIDE DEF p
    <3> QED
      BY <1>1, <2>1, <3>1
  <2> HIDE DEF p
  <2> QED
    BY <2>1, <2>2, showIs, asksWith
<1>5. CASE deposits
  <2>1. PICK phase \in {"waiting", "failed"} :
          /\ show([page EXCEPT !.phase = phase]) /\ page.phase = "depositing"
          /\ ask(<<>>) \/ UNCHANGED <<clientVars, queue>>
    BY <1>5 DEF deposits, shows
  <2> DEFINE p == [page EXCEPT !.phase = phase]
  <2>2. hasRoute(p) /\ mayAsk(p) <= mayAsk(page) /\ mayAsk(p) \in 0..2
    <3>1. /\ hasRoute(page) => hasRoute(p)
          /\ mayAsk(page) = maySearch(page) + (IF page.phase \in {"depositing", "waiting"} THEN 1 ELSE 0)
          /\ mayAsk(p) = maySearch(page) + (IF phase \in {"depositing", "waiting"} THEN 1 ELSE 0)
          /\ maySearch(page) \in 0..1
      BY <1>1, phaseAsks
    <3> HIDE DEF p
    <3> QED
      BY <1>1, <2>1, <3>1
  <2> HIDE DEF p
  <2>3. queue' = queue \o <<>> /\ UNCHANGED clientVars
    <3>1. queue \in Seq(Range(queue))
      BY <1>1 DEF IInv, TypeOK, Requests
    <3> QED
      BY <2>1, <3>1 DEF ask
  <2>4. asksFor(<<>>) + mayAsk(p) <= mayAsk(page)
    BY <2>2 DEF asksFor
  <2>5. page' = p /\ settled' \in {NoOutcome, Resumed} /\ UNCHANGED <<visits, actions>>
    BY <2>1, showIs DEF p
  <2> QED
    BY <2>2, <2>3, <2>4, <2>5, viewAsks DEF clientVars, requestVars, serverVars
<1>6. CASE quickSettled
  <2> DEFINE found == IF page.finding THEN fetched(page) ELSE page
  <2>1. QuickOK(found) /\ hasRoute(found) /\ maySearch(found) <= maySearch(page) /\ found.phase = page.phase
    <3>1. maySearch(page) \in 0..1
      BY DEF maySearch
    <3> QED
      BY <1>1, <3>1, fetchedAsks
  <2>2. \/ page.phase = "direct" /\ isFound /\ show([found EXCEPT !.phase = "asking"]) /\ ask(<<requestFor("any", settled.paths)>>)
        \/ \E phase : /\ show([found EXCEPT !.phase = phase]) /\ ask(<<>>)
                      /\ phase \in {"sending", "failed"} \/ phase = found.phase
    BY <1>6 DEF quickSettled, shows
  <2> HIDE DEF found
  <2>3. mayAsk(page) = maySearch(page) + (IF page.phase \in {"depositing", "waiting"} THEN 1 ELSE 0)
        /\ maySearch(page) \in 0..1 /\ maySearch(found) \in 0..1
    BY <1>1 DEF mayAsk, maySearch
  <2>4. CASE page.phase = "direct" /\ isFound /\ show([found EXCEPT !.phase = "asking"]) /\ ask(<<requestFor("any", settled.paths)>>)
    <3> DEFINE p == [found EXCEPT !.phase = "asking"]
    <3>1. hasRoute(p) /\ mayAsk(p) = maySearch(found)
      BY <2>1, phaseAsks
    <3>2. settled.paths # <<>>
      BY <2>4 DEF isFound, AskedInv, isPath
    <3> HIDE DEF p
    <3>3. mayAsk(p) + 0 <= mayAsk(page)
      BY <2>1, <2>3, <2>4, <3>1
    <3> QED
      BY <2>4, <3>1, <3>2, <3>3, showIs, asksWith DEF p
  <2>5. ASSUME NEW phase, show([found EXCEPT !.phase = phase]), ask(<<>>), phase \in {"sending", "failed"} \/ phase = found.phase
        PROVE  AskedInv'
    <3> DEFINE p == [found EXCEPT !.phase = phase]
    <3>1. hasRoute(p) /\ mayAsk(p) = maySearch(found) + (IF phase \in {"depositing", "waiting"} THEN 1 ELSE 0)
      BY <2>1, phaseAsks
    <3> HIDE DEF p
    <3>2. mayAsk(p) <= mayAsk(page)
      BY <2>1, <2>3, <2>5, <3>1
    <3> QED
      BY <2>5, <3>1, <3>2, quickShows DEF p
  <2> QED
    BY <2>2, <2>4, <2>5
<1>7. CASE actionEnds
  <2>1. PICK phase \in {"completed", "failed"} : show([page EXCEPT !.phase = phase]) /\ page.phase = "sending" /\ ask(<<>>)
    BY <1>7 DEF actionEnds, shows
  <2>2. hasRoute([page EXCEPT !.phase = phase]) /\ mayAsk([page EXCEPT !.phase = phase]) <= mayAsk(page)
    BY <1>1, <2>1, phaseAsks
  <2> QED
    BY <2>1, <2>2, quickShows
<1>8. CASE runAction
  <2>1. PICK phase, more :
          /\ page' = [[page EXCEPT !.inProgress = TRUE, !.deposit = depositAmount] EXCEPT !.phase = phase] /\ ask(more)
          /\ more \in {<<requestFor("disabled", <<>>)>>, <<requestFor("any", page.route)>>, <<>>}
          /\ more = <<requestFor("any", page.route)>> => page.component = "MediatedTransferAction"
          /\ phase \in {"direct", "asking", "depositing"}
    <3> DEFINE then(phase) == [page EXCEPT !.inProgress = TRUE, !.phase = phase, !.deposit = depositAmount]
               goes(phase, more) == /\ page' = [[page EXCEPT !.inProgress = TRUE, !.deposit = depositAmount] EXCEPT !.phase = phase]
                                    /\ ask(more)
    <3>1. \A phase : then(phase) = [[page EXCEPT !.inProgress = TRUE, !.deposit = depositAmount] EXCEPT !.phase = phase]
      BY <1>1 DEF QuickOK, QuickPay
    <3>2. \A phase, more : starts(phase, more) => goes(phase, more)
      BY <3>1 DEF starts
    <3> HIDE DEF goes
    <3>3. \/ goes("direct", <<requestFor("disabled", <<>>)>>)
          \/ page.component = "MediatedTransferAction" /\ goes("asking", <<requestFor("any", page.route)>>)
          \/ goes("depositing", <<>>)
      BY <1>8, <3>2 DEF runAction
    <3>4. /\ <<requestFor("disabled", <<>>)>> # <<requestFor("any", page.route)>>
          /\ <<requestFor("any", page.route)>> # <<>>
      BY DEF requestFor
    <3>5. \E phase, more :
            /\ goes(phase, more)
            /\ more \in {<<requestFor("disabled", <<>>)>>, <<requestFor("any", page.route)>>, <<>>}
            /\ more = <<requestFor("any", page.route)>> => page.component = "MediatedTransferAction"
            /\ phase \in {"direct", "asking", "depositing"}
      BY <3>3, <3>4
    <3> QED
      BY <3>5 DEF goes
  <2>2. page.phase = "idle" /\ actions' = actions + 1 /\ UNCHANGED <<settled, visits>>
    BY <1>8 DEF runAction
  <2> DEFINE q == [page EXCEPT !.inProgress = TRUE, !.deposit = depositAmount]
  <2>3. /\ QuickOK(q) /\ q.route = page.route /\ q.finding = page.finding /\ q.failed = page.failed /\ q.is = page.is
        /\ q.component = page.component
    BY <1>1 DEF QuickOK, QuickPay
  <2> HIDE DEF q
  <2>4. hasRoute(q) /\ maySearch(q) = maySearch(page) /\ maySearch(page) \in 0..1
    BY <1>1, <2>3 DEF hasRoute, maySearch
  <2>5. hasRoute(page') /\ mayAsk(page') \in 0..2 /\ mayAsk(page') <= mayAsk(page) + 1
    <3>1. page' = [q EXCEPT !.phase = phase]
      BY <2>1 DEF q
    <3>2. /\ hasRoute(page')
          /\ mayAsk(page') = maySearch(q) + (IF phase \in {"depositing", "waiting"} THEN 1 ELSE 0)
      BY <2>3, <2>4, <3>1, phaseAsks
    <3>3. mayAsk(page) = maySearch(page) + 0
      BY <1>1, <2>2 DEF mayAsk
    <3> QED
      BY <2>4, <3>2, <3>3
  <2>6. asksFor(more) = 0 /\ (more = <<>> \/ \E r : more = <<r>>)
    <3>1. CASE more = <<>>
      BY <3>1 DEF asksFor
    <3>2. CASE more = <<requestFor("disabled", <<>>)>>
      BY <3>2 DEF asksFor, pays, requestFor
    <3>3. CASE more = <<requestFor("any", page.route)>>
      <4>1. page.route # <<>>
        BY <1>1, <2>1, <3>3 DEF hasRoute
      <4> QED
        BY <3>3, <4>1 DEF asksFor, pays, requestFor
    <3> QED
      BY <2>1, <3>1, <3>2, <3>3
  <2>7. Requests(queue) /\ queue' = queue \o more
    BY <1>1, <2>1 DEF IInv, TypeOK, ask
  <2>8. Cardinality(paying(queue))' = Cardinality(paying(queue))
    <3>1. Cardinality(paying(queue \o more)) = Cardinality(paying(queue)) + 0
      BY <2>6, <2>7, PayingMore
    <3> QED
      BY <1>1, <2>7, <3>1, NumbersAre
  <2>9. choosing' = choosing /\ total(asked)' = total(asked) /\ UNCHANGED <<scenario, outcome, stage, answer>>
    BY <2>1 DEF ask, clientVars, requestVars, serverVars, choosing, total
  <2>10. mayAsk(page)' = mayAsk(page')
    BY DEF mayAsk, maySearch
  <2>11. scenario.view # None => total(asked)' + Cardinality(paying(queue))' + choosing' + mayAsk(page)' <= visits + actions'
    <3> SUFFICES ASSUME scenario.view # None
                 PROVE  total(asked)' + Cardinality(paying(queue))' + choosing' + mayAsk(page)' <= visits + actions'
      OBVIOUS
    <3>1. /\ total(asked) + Cardinality(paying(queue)) + choosing + mayAsk(page) <= visits + actions
          /\ visits \in Nat /\ actions \in Nat
      BY DEF AskedInv
    <3>2. total(asked) \in Nat /\ Cardinality(paying(queue)) \in Nat /\ choosing \in 0..1 /\ mayAsk(page) \in 0..2
      BY <1>1, NumbersAre
    <3> QED
      BY <2>2, <2>5, <2>8, <2>9, <2>10, <3>1, <3>2
  <2>12. isPath(outcome)' /\ isPath(settled)' /\ hasRoute(page)' /\ visits' \in Nat /\ actions' \in Nat
    <3>1. isPath(outcome) /\ isPath(settled) /\ visits \in Nat /\ actions \in Nat
      BY DEF AskedInv
    <3>2. isPath(outcome') /\ isPath(settled') /\ visits' \in Nat /\ actions' \in Nat
      BY <2>2, <2>9, <3>1
    <3> QED
      BY <2>5, <3>2 DEF isPath, hasRoute
  <2>13. isAnswer(stage', answer')
    BY <2>9 DEF AskedInv
  <2> QED
    BY <2>2, <2>9, <2>11, <2>12, <2>13 DEF AskedInv
<1> QED
  BY <1>2, <1>3, <1>4, <1>5, <1>6, <1>7, <1>8 DEF Quick

\* A step of the client that asks no more services than it chooses
LEMMA clientAsks ==
  ASSUME PInv, AskedInv, page' \in {page, Closed}, UNCHANGED <<scenario, visits, actions>>,
         isPath(outcome'), settled' \in {settled, outcome', NoOutcome},
         Requests(queue'), asked' \in Count, total(asked') \in Nat, choosing' \in 0..1,
         isAnswer(stage', answer'),
         total(asked') + Cardinality(paying(queue')) + choosing' <= total(asked) + Cardinality(paying(queue)) + choosing
  PROVE  AskedInv'
<1>1. Cardinality(paying(queue')) \in Nat
  BY PayingIs
<1>2. hasRoute(page') /\ mayAsk(page') <= mayAsk(page) /\ mayAsk(page') \in 0..2 /\ mayAsk(page) \in 0..2
  <2>1. hasRoute(page) /\ hasRoute(Closed)
    BY DEF AskedInv, hasRoute, Closed
  <2>2. mayAsk(Closed) = 0
    BY DEF mayAsk, Closed
  <2>3. mayAsk(page) \in 0..2
    BY NumbersAre DEF PInv
  <2>4. CASE page' = page
    BY <2>1, <2>3, <2>4
  <2>5. CASE page' = Closed
    BY <2>1, <2>2, <2>3, <2>5
  <2> QED
    BY <2>4, <2>5
<1>3. isPath(outcome') /\ isPath(settled')
  <2>1. isPath(settled) /\ isPath(NoOutcome)
    BY DEF AskedInv, isPath, NoOutcome
  <2> QED
    BY <2>1
<1>4. /\ total(asked)' = total(asked') /\ Cardinality(paying(queue))' = Cardinality(paying(queue'))
      /\ mayAsk(page)' = mayAsk(page')
  BY DEF total, paying, mayAsk, maySearch
<1>7. hasRoute(page)' /\ isPath(outcome)' /\ isPath(settled)'
  BY <1>2, <1>3 DEF hasRoute, isPath
<1>5. scenario.view # None => total(asked)' + Cardinality(paying(queue))' + choosing' + mayAsk(page)' <= visits + actions
  <2> SUFFICES ASSUME scenario.view # None
               PROVE  total(asked)' + Cardinality(paying(queue))' + choosing' + mayAsk(page)' <= visits + actions
    OBVIOUS
  <2>1. /\ total(asked) + Cardinality(paying(queue)) + choosing + mayAsk(page) <= visits + actions
        /\ visits \in Nat /\ actions \in Nat
    BY DEF AskedInv
  <2>2. total(asked) \in Nat /\ Cardinality(paying(queue)) \in Nat /\ choosing \in 0..1
    BY NumbersAre DEF PInv
  <2>3. mayAsk(page') <= mayAsk(page) /\ mayAsk(page') \in 0..2 /\ mayAsk(page) \in 0..2
    BY <1>2
  <2>4. /\ total(asked') + Cardinality(paying(queue')) + choosing' <= total(asked) + Cardinality(paying(queue)) + choosing
        /\ total(asked') \in Nat /\ Cardinality(paying(queue')) \in Nat /\ choosing' \in 0..1
    BY <1>1
  <2> QED
    BY <1>4, <2>1, <2>2, <2>3, <2>4
<1>6. visits \in Nat /\ actions \in Nat
  BY DEF AskedInv
<1> QED
  BY <1>5, <1>6, <1>7 DEF AskedInv

\* ... and of what it may choose for, nothing more
LEMMA clientRests ==
  ASSUME PInv, AskedInv, page' \in {page, Closed}, UNCHANGED <<scenario, visits, actions, queue, asked>>,
         isPath(outcome'), settled' \in {settled, outcome', NoOutcome}, choosing' \in 0..1, choosing' <= choosing,
         isAnswer(stage', answer')
  PROVE  AskedInv'
<1>1. total(asked) \in Nat /\ Cardinality(paying(queue)) \in Nat /\ choosing \in 0..1 /\ Requests(queue) /\ asked \in Count
  BY NumbersAre DEF PInv, IInv, TypeOK
<1>2. total(asked') + Cardinality(paying(queue')) + choosing' <= total(asked) + Cardinality(paying(queue)) + choosing
  <2>1. total(asked') = total(asked) /\ Cardinality(paying(queue')) = Cardinality(paying(queue))
    OBVIOUS
  <2>2. total(asked) \in Nat /\ Cardinality(paying(queue)) \in Nat /\ choosing \in 0..1
    BY <1>1
  <2>3. choosing' \in 0..1 /\ choosing' <= choosing
    OBVIOUS
  <2> QED
    BY <2>1, <2>2, <2>3
<1> QED
  BY <1>1, <1>2, clientAsks

\* A request ends, or is dropped by a crash
LEMMA idleRests ==
  ASSUME PInv, AskedInv, page' \in {page, Closed}, UNCHANGED <<scenario, visits, actions, queue, asked>>,
         isPath(outcome'), settled' \in {settled, outcome', NoOutcome}, stage' = "idle"
  PROVE  AskedInv'
<1>1. choosing' = 0 /\ choosing \in 0..1
  BY DEF choosing
<1> QED
  BY <1>1, clientRests DEF isAnswer

LEMMA FailIsNoSuccess ==
  ASSUME NEW why, why # "success", fails(why)
  PROVE  isPath(outcome') /\ stage' = "idle"
BY DEF fails, ends, isPath

LEMMA PathFindAsks ==
  ASSUME PInv, AskedInv, PathFind \/ noPresence, UNCHANGED <<page, visits, actions>>, settled' \in {settled, outcome', NoOutcome}
  PROVE  AskedInv'
<1>1. IInv /\ isPath(outcome) /\ Requests(queue) /\ asked \in Count
  BY DEF PInv, AskedInv, IInv, TypeOK
<1>2. total(asked) \in Nat /\ Cardinality(paying(queue)) \in Nat /\ choosing \in 0..1
  BY NumbersAre DEF PInv
<1>3. CASE pathFindRequest
  <2>1. /\ stage = "idle" /\ queue # <<>> /\ request' = Head(queue) /\ queue' = Tail(queue) /\ stage' = "presence"
        /\ UNCHANGED <<scenario, outcome, asked, answer>>
    BY <1>3 DEF pathFindRequest, serverVars
  <2>2. choosing = 0 /\ choosing' = IF pays(Head(queue)) THEN 1 ELSE 0
    BY <2>1 DEF choosing
  <2>3. Cardinality(paying(Tail(queue))) + (IF pays(Head(queue)) THEN 1 ELSE 0) = Cardinality(paying(queue))
    BY <1>1, <2>1, PayingRest
  <2>4. Requests(queue')
    BY <1>1, <2>1, FirstAndRest
  <2>5. Cardinality(paying(queue')) \in Nat
    BY <2>4, PayingIs
  <2>6. total(asked') + Cardinality(paying(queue')) + choosing' <= total(asked) + Cardinality(paying(queue)) + choosing
    BY <1>2, <2>1, <2>2, <2>3, <2>5
  <2>7. choosing' \in 0..1 /\ isPath(outcome') /\ total(asked') \in Nat /\ asked' \in Count /\ stage' # "validate"
    BY <1>1, <1>2, <2>1, <2>2
  <2> QED
    BY <2>1, <2>4, <2>6, <2>7, clientAsks DEF isAnswer
<1>4. CASE getRoute
  <2>1. stage = "presence" /\ UNCHANGED <<scenario, queue, asked>>
    BY <1>4 DEF getRoute, serverVars
  <2>2. ASSUME NEW why \in {"no routes between nodes", "disabled"}, fails(why) PROVE AskedInv'
    <3>1. isPath(outcome') /\ stage' = "idle"
      BY <2>2, FailIsNoSuccess
    <3> QED
      BY <2>1, <3>1, idleRests
  <2>3. CASE stage' = "validate" /\ answer'.is = "paths" /\ UNCHANGED outcome
    <3>1. choosing' = 0
      BY <2>3 DEF choosing
    <3> QED
      BY <1>1, <1>2, <2>1, <2>3, <3>1, clientRests DEF isAnswer
  <2>4. CASE stage' = "choose" /\ ~withPaths /\ ~isDisabled /\ UNCHANGED <<request, outcome>>
    <3>1. choosing' = 1 /\ choosing = 1
      BY <2>1, <2>4 DEF choosing, pays, withPaths, isDisabled
    <3> QED
      BY <1>1, <2>1, <2>4, <3>1, clientRests DEF isAnswer
  <2>5. \/ fails("no routes between nodes") \/ fails("disabled")
        \/ stage' = "validate" /\ answer'.is = "paths" /\ UNCHANGED outcome
        \/ stage' = "choose" /\ ~withPaths /\ ~isDisabled /\ UNCHANGED <<request, outcome>>
    <3>1. \/ fails("no routes between nodes") \/ fails("disabled")
          \/ stage' = "validate" /\ UNCHANGED outcome /\ \E paths : answer' = [is |-> "paths", paths |-> paths]
          \/ stage' = "choose" /\ ~withPaths /\ ~isDisabled /\ UNCHANGED <<request, outcome>>
      BY <1>4, Zenon DEF getRoute
    <3>2. ASSUME NEW paths, answer' = [is |-> "paths", paths |-> paths] PROVE answer'.is = "paths"
      BY <3>2
    <3> QED
      BY <3>1, <3>2, Zenon
  <2> QED
    BY <2>2, <2>3, <2>4, <2>5
<1>5. CASE noPresence
  <2>1. fails("target offline") /\ UNCHANGED <<scenario, queue, asked>>
    BY <1>5 DEF noPresence, serverVars
  <2>2. isPath(outcome') /\ stage' = "idle"
    BY <2>1, FailIsNoSuccess
  <2> QED
    BY <2>1, <2>2, idleRests
<1>6. CASE choosePfs
  <2>1. stage = "choose" /\ UNCHANGED <<scenario, queue>>
    BY <1>6 DEF choosePfs
  <2>2. CASE fails("no service") /\ UNCHANGED asked
    <3>1. isPath(outcome') /\ stage' = "idle"
      BY <2>2, FailIsNoSuccess
    <3> QED
      BY <2>1, <2>2, <3>1, idleRests
  <2>3. ASSUME NEW s \in candidates, asked' = [asked EXCEPT ![s] = @ + 1], stage' \in {"ask", "last"}, UNCHANGED outcome
        PROVE  AskedInv'
    <3>1. s \in Service
      BY <1>1, <2>1, <2>3, CandidatesAreServices DEF IInv
    <3>2. total(asked') = total(asked) + 1
      BY <1>1, <2>3, <3>1, TotalGrows, ServicesAreFinite
    <3>3. choosing = 1 /\ choosing' = 0
      BY <2>1, <2>3 DEF choosing
    <3>4. asked' \in Count
      BY <1>1, <2>3, <3>1 DEF Count
    <3>5. total(asked') + Cardinality(paying(queue')) + choosing' <= total(asked) + Cardinality(paying(queue)) + choosing
      BY <1>2, <2>1, <3>2, <3>3
    <3>6. Requests(queue') /\ total(asked') \in Nat /\ choosing' \in 0..1 /\ isPath(outcome') /\ stage' # "validate"
      BY <1>1, <1>2, <2>1, <2>3, <3>2, <3>3
    <3> QED
      BY <2>1, <3>4, <3>5, <3>6, clientAsks DEF isAnswer
  <2> QED
    BY <1>6, <2>2, <2>3 DEF choosePfs
<1>7. CASE fetchLastIou
  <2>1. UNCHANGED <<scenario, queue, asked, outcome>> /\ stage = "last" /\ stage' = "ask"
    BY <1>7 DEF fetchLastIou, serverVars
  <2>2. choosing' = 0
    BY <2>1 DEF choosing
  <2> QED
    BY <1>1, <1>2, <2>1, <2>2, clientRests DEF isAnswer
<1>8. CASE requestPfs
  <2>1. UNCHANGED <<scenario, queue, asked>> /\ stage = "ask"
    BY <1>8 DEF requestPfs
  <2>2. CASE answer' \in scenario.answers \cup {[is |-> "refused", paths |-> <<>>]} /\ stage' = "validate" /\ UNCHANGED outcome
    <3>1. \A a \in scenario.answers : a.is \in {"paths", "no route", "refused"}
      BY <1>1, PaymentsAssumption DEF IInv, TypeOK
    <3> DEFINE refusal == [is |-> "refused", paths |-> <<>>]
    <3>2. refusal.is = "refused" /\ (answer' \in scenario.answers \/ answer' = refusal)
      BY <2>2
    <3>3. answer'.is \in {"paths", "no route", "refused"}
      <4> HIDE DEF refusal
      <4> QED
        BY <3>1, <3>2
    <3>4. choosing' = 0 /\ choosing' \in 0..1 /\ choosing' <= choosing /\ isPath(outcome')
      BY <1>1, <1>2, <2>2 DEF choosing
    <3> QED
      BY <2>1, <3>3, <3>4, clientRests DEF isAnswer
  <2>3. CASE UNCHANGED <<outcome, requestVars>>
    <3>1. choosing' = 0 /\ stage' # "validate"
      BY <2>1, <2>3 DEF choosing, requestVars
    <3>2. choosing' \in 0..1 /\ choosing' <= choosing /\ isPath(outcome')
      BY <1>1, <1>2, <2>3, <3>1
    <3> QED
      BY <2>1, <3>1, <3>2, clientRests DEF isAnswer
  <2>4. CASE fails("not decoded")
    <3>1. isPath(outcome') /\ stage' = "idle"
      BY <2>4, FailIsNoSuccess
    <3> QED
      BY <2>1, <3>1, idleRests
  <2> QED
    BY <1>8, <2>2, <2>3, <2>4 DEF requestPfs
<1>9. CASE validateRoute
  <2>1. UNCHANGED <<scenario, queue, asked>> /\ stage = "validate"
    BY <1>9 DEF validateRoute, serverVars
  <2>2. answer.is \in {"paths", "no route", "refused"}
    BY <2>1 DEF AskedInv, isAnswer
  <2>3. \/ \E why \in {"no route", "refused", "no valid path"} : fails(why)
        \/ \E paths : paths # <<>> /\ ends("success", paths)
    BY <1>9, <2>2 DEF validateRoute
  <2>4. isPath(outcome') /\ stage' = "idle"
    <3>1. ASSUME NEW why \in {"no route", "refused", "no valid path"}, fails(why) PROVE isPath(outcome') /\ stage' = "idle"
      BY <3>1, FailIsNoSuccess
    <3>2. ASSUME NEW paths, paths # <<>>, ends("success", paths) PROVE isPath(outcome') /\ stage' = "idle"
      BY <3>2 DEF ends, isPath
    <3> QED
      BY <2>3, <3>1, <3>2
  <2> QED
    BY <2>1, <2>4, idleRests
<1> QED
  BY <1>3, <1>4, <1>5, <1>6, <1>7, <1>8, <1>9 DEF PathFind

\* What happens around the requests has no part in it
LEMMA aroundAsks ==
  ASSUME PInv, AskedInv, UNCHANGED <<scenario, queue, request, stage, answer, outcome, asked, page, settled, visits, actions>>
  PROVE  AskedInv'
<1>1. choosing' = choosing /\ choosing \in 0..1
  BY DEF choosing
<1>2. isPath(outcome) /\ isAnswer(stage, answer)
  BY DEF AskedInv
<1>3. isPath(outcome') /\ isAnswer(stage', answer')
  BY <1>2
<1>4. choosing' \in 0..1 /\ choosing' <= choosing
  BY <1>1
<1> QED
  BY <1>3, <1>4, clientRests

LEMMA opensAsk ==
  ASSUME PInv, AskedInv, open
  PROVE  AskedInv'
<1>1. page = Closed /\ visits' = visits + 1 /\ UNCHANGED <<settled, actions>> /\ ask(<<>>)
  BY DEF open, isOpen, PInv, PageOK, StepsOK, QuickOK, Closed
<1>2. /\ mayAsk(page) = 0 /\ total(asked) \in Nat /\ Cardinality(paying(queue)) \in Nat /\ choosing \in 0..1
      /\ Requests(queue)
  BY <1>1, NumbersAre DEF PInv, mayAsk, Closed
<1>3. mayAsk(page') = 1 /\ hasRoute(page')
  <2>1. page' \in {TransferSteps, decideOnActionComponent(QuickPay)}
    BY DEF open
  <2>2. mayAsk(TransferSteps) = 1 /\ hasRoute(TransferSteps)
    BY DEF mayAsk, TransferSteps, hasRoute
  <2>3. mayAsk(decideOnActionComponent(QuickPay)) = 1 /\ hasRoute(decideOnActionComponent(QuickPay))
    BY DEF mayAsk, maySearch, QuickPay, hasRoute, decideOnActionComponent
  <2> QED
    BY <2>1, <2>2, <2>3
<1>4. queue' = queue
  <2>1. queue \in Seq(Range(queue))
    BY <1>2 DEF Requests
  <2> QED
    BY <1>1, <2>1 DEF ask
<1>5. UNCHANGED <<scenario, asked, outcome, stage, answer, choosing>>
  BY <1>1 DEF ask, clientVars, requestVars, serverVars, choosing
<1>6. /\ total(asked)' = total(asked) /\ Cardinality(paying(queue))' = Cardinality(paying(queue))
      /\ mayAsk(page)' = mayAsk(page')
  BY <1>4, <1>5 DEF total, paying, mayAsk, maySearch
<1>7. visits \in Nat /\ actions \in Nat /\ isPath(outcome) /\ isPath(settled)
      /\ isAnswer(stage, answer)
  BY DEF AskedInv
<1>8. scenario.view # None => total(asked)' + Cardinality(paying(queue))' + choosing' + mayAsk(page)' <= visits' + actions
  <2> SUFFICES ASSUME scenario.view # None
               PROVE  total(asked)' + Cardinality(paying(queue))' + choosing' + mayAsk(page)' <= visits' + actions
    OBVIOUS
  <2>1. /\ total(asked) + Cardinality(paying(queue)) + choosing + mayAsk(page) <= visits + actions
        /\ visits \in Nat /\ actions \in Nat
    BY DEF AskedInv
  <2>2. /\ mayAsk(page) = 0 /\ mayAsk(page') = 1 /\ total(asked) \in Nat /\ Cardinality(paying(queue)) \in Nat
        /\ choosing \in 0..1 /\ choosing' = choosing
    BY <1>2, <1>3, <1>5
  <2>3. visits' = visits + 1
    BY <1>1
  <2> QED
    BY <1>6, <2>1, <2>2, <2>3
<1>9. isPath(outcome)' /\ isPath(settled)' /\ hasRoute(page)'
  BY <1>1, <1>3, <1>5, <1>7 DEF isPath, hasRoute
<1>10. visits' \in Nat /\ actions' \in Nat /\ actions' = actions /\ UNCHANGED scenario
  BY <1>1, <1>5, <1>7
<1>11. isAnswer(stage', answer')
  BY <1>5, <1>7
<1> QED
  BY <1>8, <1>9, <1>10, <1>11 DEF AskedInv

LEMMA PaymentsNextAsks == PInv /\ AskedInv /\ [PaymentsNext]_paymentVars => AskedInv'
<1> SUFFICES ASSUME PInv, AskedInv, [PaymentsNext]_paymentVars PROVE AskedInv'
  OBVIOUS
<1>1. CASE UNCHANGED paymentVars
  BY <1>1, aroundAsks DEF paymentVars, vars, viewVars, requestVars, serverVars
<1>2. CASE client
  <2>1. UNCHANGED <<page, visits, actions>> /\ settled' \in {settled, outcome', NoOutcome} /\ (PathFind \/ noPresence)
    BY <1>2 DEF client
  <2> QED
    BY <2>1, PathFindAsks
<1>3. CASE others
  <2>1. UNCHANGED <<page, settled, visits, actions>>
    BY <1>3 DEF others, viewVars
  <2>2. UNCHANGED <<scenario, queue, request, stage, answer, outcome, asked>>
    BY <1>3 DEF others, register, comeUp, save, expire, goDown, useChannel, requestVars, serverVars
  <2> QED
    BY <2>1, <2>2, aroundAsks
<1>4. CASE reload
  <2>1. page' = Closed /\ UNCHANGED <<settled, visits, actions>> /\ crash
    BY <1>4 DEF reload
  <2>2. UNCHANGED <<scenario, queue, asked, outcome>> /\ stage' = "idle"
    BY <2>1 DEF crash, serverVars
  <2>3. isPath(outcome')
    BY <2>2 DEF AskedInv
  <2> QED
    BY <2>1, <2>2, <2>3, idleRests
<1>5. CASE open
  BY <1>5, opensAsk
<1>6. CASE leave
  <2>1. show(Closed) /\ ask(<<>>)
    BY <1>6 DEF leave, shows
  <2>2. hasRoute(Closed) /\ mayAsk(Closed) = 0 /\ mayAsk(page) \in 0..2
    BY DEF hasRoute, mayAsk, maySearch, Closed
  <2> QED
    BY <2>1, <2>2, showIs, asksNothing
<1> QED
  BY <1>1, <1>2, <1>3, <1>4, <1>5, <1>6, StepsAsk, QuickAsks DEF PaymentsNext

LEMMA PaymentsInitAsks == PaymentsInit => AskedInv
<1> SUFFICES ASSUME PaymentsInit PROVE AskedInv
  OBVIOUS
<1>1. Init /\ page = Closed /\ settled = NoOutcome /\ visits = 0 /\ actions = 0
  BY DEF PaymentsInit
<1>2. /\ scenario \in Scenarios /\ queue = scenario.requests /\ stage = "idle" /\ outcome = [result |-> "none", paths |-> <<>>]
      /\ asked = [s \in Service |-> 0]
  BY <1>1 DEF Init
<1>3. total(asked) = 0 /\ choosing = 0 /\ mayAsk(page) = 0 /\ hasRoute(page)
  BY <1>1, <1>2, TotalOfNothing, ServicesAreFinite DEF choosing, mayAsk, Closed, hasRoute
<1>4. isPath(outcome) /\ isPath(settled)
  BY <1>1, <1>2 DEF isPath, NoOutcome
<1>5. scenario.view # None => Cardinality(paying(queue)) = 0
  <2>1. scenario.view # None => queue = <<>>
    BY <1>2, PaymentsAssumption
  <2>2. paying(<<>>) = {}
    BY DEF paying
  <2> QED
    BY <2>1, <2>2, FS_EmptySet
<1> QED
  BY <1>1, <1>2, <1>3, <1>4, <1>5 DEF AskedInv, isAnswer


-----------------------------------------------------------------------------
\* The invariant holds in every state of PathFinding.
THEOREM Invariant == Spec => []IInv
<1> QED
  BY InitInv, NextInv, PTL DEF Spec

\* However many answers are lost, requests asked again and IOUs forgotten by a crash, and whatever the
\* prices are, no service is owed more than its price for each request it was chosen for.
THEOREM ServicesArePaidOnce == Spec => []PaidOncePerRequest
<1>1. IInv => PaidOncePerRequest
  BY DEF IInv
<1> QED
  BY <1>1, Invariant, PTL

\* A service never refuses more IOUs than answers were lost and crashes happened.
THEOREM RefusalsHaveReasons == Spec => []RefusedForAReason
<1>1. IInv => RefusedForAReason
  BY DEF IInv, ReasonLeft, RefusedForAReason
<1> QED
  BY <1>1, Invariant, PTL

\* The same holds while the views of the dApp are used: whatever the user clicks, leaves and opens again while routes are
\* looked for, no service is owed more than its price for each request it was chosen for.
THEOREM ViewsPayOnce == PaymentsSpec => []PaidOncePerRequest
<1>1. PaymentsInit => PInv
  BY InitInv DEF PaymentsInit, PInv, PageOK
<1>2. PInv => PaidOncePerRequest
  BY DEF PInv, IInv
<1> QED
  BY <1>1, <1>2, PaymentsNextInv, PTL DEF PaymentsSpec

\* Nor does a service refuse more IOUs of the views than answers were lost and pages loaded again.
THEOREM ViewsAreRefusedForAReason == PaymentsSpec => []RefusedForAReason
<1>1. PaymentsInit => PInv
  BY InitInv DEF PaymentsInit, PInv, PageOK
<1>2. PInv => RefusedForAReason
  BY DEF PInv, IInv, ReasonLeft, RefusedForAReason
<1> QED
  BY <1>1, <1>2, PaymentsNextInv, PTL DEF PaymentsSpec

\* However often routes are looked for, the user clicks, leaves and comes back, and however answers overlap, the services
\* paid for routes are no more than the visits of a view, and the actions that pay what they have deposited.
THEOREM ViewsAskOncePerVisit == PaymentsSpec => []AskedOncePerVisit
<1>1. PaymentsInit => PInv /\ AskedInv
  BY InitInv, PaymentsInitAsks DEF PaymentsInit, PInv, PageOK
<1>2. PInv /\ AskedInv /\ [PaymentsNext]_paymentVars => (PInv /\ AskedInv)'
  BY PaymentsNextInv, PaymentsNextAsks
<1>3. PInv /\ AskedInv => AskedOncePerVisit
  <2> SUFFICES ASSUME PInv, AskedInv, scenario.view # None PROVE total(asked) <= visits + actions
    BY TotalIs DEF AskedOncePerVisit
  <2>1. total(asked) \in Nat /\ Cardinality(paying(queue)) \in Nat /\ choosing \in 0..1 /\ mayAsk(page) \in 0..2
    BY NumbersAre DEF PInv
  <2>2. /\ total(asked) + Cardinality(paying(queue)) + choosing + mayAsk(page) <= visits + actions
        /\ visits \in Nat /\ actions \in Nat
    BY DEF AskedInv
  <2> QED
    BY <2>1, <2>2
<1> QED
  BY <1>1, <1>2, <1>3, PTL DEF PaymentsSpec

=============================================================================
