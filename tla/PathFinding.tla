---------------------------- MODULE PathFinding ----------------------------
(***************************************************************************)
(* Requests for paths: which service is asked, with which IOU it is paid,  *)
(* which of its paths are taken, and what is kept of the IOU.              *)
(*                                                                         *)
(* The services (their price, and the IOUs they accept), the network and   *)
(* the channels are external.                                              *)
(***************************************************************************)
EXTENDS Integers, FiniteSets, Sequences, SequencesExt

CONSTANTS
  Service,       \* services that know paths
  price,         \* of a service, for one request
  maxFee,        \* pfsMaxFee
  Node,
  mediates,      \* nodes that can mediate
  Scenarios,     \* see below
  margin, amountMargin, \* in percent, of a fee and of the value (pfsSafetyMargin)
  maxPaths,      \* pfsMaxPaths
  MaxTrouble     \* bound: answers lost, and crashes

\* A scenario is the requests, the mode ("auto", "onlyAdditional" or "disabled"), additional services,
\* the registered ones, and the answers a service may give. A request has the service it asks for, or
\* "any"; paths, or <<>>; and a value. An answer is [is, paths], of "paths", "no route" or "refused".
us == "us"
None == "none"
Path == [path : Seq(Node), fee : Int]
Request == [pfs : Service \cup {"any", "disabled"}, paths : Seq(Path), value : Nat, target : Node]

ASSUME PathFindingAssumption ==
  /\ us \in Node /\ mediates \subseteq Node /\ {"any", "disabled", None} \cap Service = {}
  /\ price \in [Service -> Nat] /\ {maxFee, margin, amountMargin, maxPaths, MaxTrouble} \subseteq Nat
ASSUME ScenariosAssumption ==
  \A s \in Scenarios :
     /\ s.requests \in Seq(Request) /\ s.additional \in Seq(Service) /\ s.registered \subseteq Service

VARIABLES
  scenario,
  queue,        \* requests to come (concatMap)
  request,      \* the one that goes on
  stage,        \* how far it is
  pfs, iou,     \* the service, and the amount of the IOU for it
  answer,       \* what was answered
  outcome,      \* [result, paths] of the last request
  ious,         \* state.iou: amounts, -1 if there is none
  stored,       \* ious in the database
  services,     \* state.services
  synced,       \* init$
  channel,      \* of a node: [open, capacity]
  down,         \* services that don't answer now
  owed,         \* of a service: the last IOU it accepted (external)
  asked,        \* requests it was chosen for (history)
  refused,      \* IOUs it refused (history)
  trouble       \* answers lost, and crashes

requestVars == <<request, stage, pfs, iou, answer>>
serverVars == <<owed, asked, refused>>
vars == <<scenario, queue, requestVars, outcome, ious, stored, services, synced, channel, down, serverVars, trouble>>

NoRequest == [pfs |-> None, paths |-> <<>>, value |-> 0, target |-> us]
NoAnswer == [is |-> "none", paths |-> <<>>]
Init ==
  /\ scenario \in Scenarios
  /\ queue = scenario.requests /\ request = NoRequest /\ stage = "idle" /\ pfs = None /\ iou = -1 /\ answer = NoAnswer
  /\ outcome = [result |-> "none", paths |-> <<>>]
  /\ ious = [s \in Service |-> -1] /\ stored = ious
  /\ services \in {{}, scenario.registered} /\ synced = FALSE
  /\ channel = scenario.channel /\ down = {}
  /\ owed = [s \in Service |-> 0] /\ asked = [s \in Service |-> 0] /\ refused = asked /\ trouble = 0

-----------------------------------------------------------------------------
(* The choice of a path *)

\* addFeeSafetyMargin: rounded up
roundUp(a, b) == -((-a) \div b)
absolute(n) == IF n < 0 THEN -n ELSE n
addFeeSafetyMargin(fee, value) ==
  IF fee = 0 THEN 0 ELSE fee + roundUp(absolute(fee) * margin + value * amountMargin, 100)
parsePfsResponse(paths, value) ==
  [i \in 1..(IF Len(paths) < maxPaths THEN Len(paths) ELSE maxPaths) |->
     [paths[i] EXCEPT !.fee = addFeeSafetyMargin(@, value)]]

channelCanRoute(c, value) == c.open /\ c.capacity >= value
recipient(p) == p.path[2]
\* partnerCanRoute: with the partner as the target, it needn't mediate
partnerCanRoute(partner, direct, value) ==
  channelCanRoute(channel[partner], value) /\ (direct \/ partner \in mediates)
isOurs(p) == Len(p.path) >= 2 /\ p.path[1] = us
hopsMediate(p) == \A i \in 3..(Len(p.path) - 1) : p.path[i] \in mediates

\* filterPaths$: the first path that can be used, and those that begin in the same way and cost no more;
\* a path refused invalidates its recipient
filterPaths(paths, r) ==
  LET isValid(p, taken, invalid) ==
        /\ isOurs(p) /\ recipient(p) \notin invalid
        /\ IF taken = <<>>
           THEN partnerCanRoute(recipient(p), recipient(p) = r.target, r.value) /\ hopsMediate(p)
           ELSE recipient(taken[1]) = recipient(p) /\ taken[1].fee >= p.fee
      filtered[i \in 0..Len(paths)] ==
        IF i = 0 THEN [taken |-> <<>>, invalid |-> {}]
        ELSE LET before == filtered[i - 1]
             IN IF isValid(paths[i], before.taken, before.invalid)
                THEN [before EXCEPT !.taken = Append(@, paths[i])]
                ELSE [before EXCEPT !.invalid = IF isOurs(paths[i]) THEN @ \cup {recipient(paths[i])} ELSE @]
  IN filtered[Len(paths)].taken

-----------------------------------------------------------------------------
(* Requests: one at a time *)

ends(result, paths) ==
  /\ outcome' = [result |-> result, paths |-> paths]
  /\ request' = NoRequest /\ stage' = "idle" /\ pfs' = None /\ iou' = -1 /\ answer' = NoAnswer
fails(why) == ends(why, <<>>)

pathFindRequest ==
  /\ stage = "idle" /\ queue # <<>>
  /\ request' = Head(queue) /\ queue' = Tail(queue) /\ stage' = "presence"
  /\ UNCHANGED <<scenario, pfs, iou, answer, outcome, ious, stored, services, synced, channel, down, serverVars, trouble>>

\* getRoute$, once the presence of the target is known
withPaths == request.paths # <<>>
isDirect == channelCanRoute(channel[request.target], request.value)
isDisabled == request.pfs = "disabled" \/ (request.pfs = "any" /\ scenario.mode = "disabled")
getRoute ==
  /\ stage = "presence"
  /\ IF ~\E n \in Node : channelCanRoute(channel[n], request.value)
     THEN fails("no routes between nodes")
     ELSE IF withPaths \/ isDirect
     THEN /\ answer' = [is |-> "paths", paths |-> IF withPaths THEN request.paths
                                                     ELSE <<[path |-> <<us, request.target>>, fee |-> 0]>>]
          /\ stage' = "validate" /\ UNCHANGED <<request, pfs, iou, outcome>>
     ELSE IF isDisabled THEN fails("disabled")
     ELSE stage' = "choose" /\ UNCHANGED <<request, pfs, iou, answer, outcome>>
  /\ UNCHANGED <<scenario, queue, ious, stored, services, synced, channel, down, serverVars, trouble>>
\* validateRouteTarget: the presence isn't there, or the target doesn't receive
noPresence ==
  /\ stage = "presence" /\ fails("target offline")
  /\ UNCHANGED <<scenario, queue, ious, stored, services, synced, channel, down, serverVars, trouble>>

\* pfsInfo, choosePfs$: the services that answer, and aren't too expensive; the cheapest of those of the
\* state, or the first of the additional ones; while none is known, until the state is synced
hasInfo(s) == s \notin down /\ price[s] <= maxFee
additional == scenario.additional
candidates ==
  IF request.pfs # "any" THEN {request.pfs}
  ELSE IF scenario.mode = "onlyAdditional"
       THEN {additional[i] : i \in {j \in DOMAIN additional : hasInfo(additional[j])
                                                 /\ \A k \in 1..(j - 1) : ~hasInfo(additional[k])}}
       ELSE LET informed == {s \in Range(additional) \cup services : hasInfo(s)}
            IN {s \in informed : \A t \in informed : price[s] <= price[t]}
\* Mutant of isWaiting: that the registry was read doesn't matter
isWaitingUnsynced == request.pfs = "any" /\ scenario.mode = "auto" /\ additional = <<>> /\ services = {}
isWaiting == request.pfs = "any" /\ scenario.mode = "auto" /\ additional = <<>> /\ services = {} /\ ~synced
choosePfs ==
  /\ stage = "choose" /\ ~isWaiting
  /\ IF candidates = {} THEN fails("no service") /\ UNCHANGED asked
     ELSE /\ \E s \in candidates :
               /\ pfs' = s /\ asked' = [asked EXCEPT ![s] = @ + 1]
               /\ IF price[s] = 0 THEN stage' = "ask" /\ UNCHANGED iou
                  ELSE IF ious[s] # -1 THEN stage' = "ask" /\ iou' = ious[s] + price[s]
                  ELSE stage' = "last" /\ UNCHANGED iou
          /\ UNCHANGED <<request, answer, outcome>>
  /\ UNCHANGED <<scenario, queue, ious, stored, services, synced, channel, down, owed, refused, trouble>>

\* Mutant of fetchLastIou: always a new one
fetchLastIouNew ==
  /\ stage = "last" /\ pfs \notin down
  /\ iou' = price[pfs] /\ stage' = "ask"
  /\ UNCHANGED <<scenario, queue, request, pfs, answer, outcome, ious, stored, services, synced, channel, down, serverVars, trouble>>
\* fetchLastIou$: a new one, if the service knows of none
fetchLastIou ==
  /\ stage = "last" /\ pfs \notin down
  /\ iou' = owed[pfs] + price[pfs] /\ stage' = "ask"
  /\ UNCHANGED <<scenario, queue, request, pfs, answer, outcome, ious, stored, services, synced, channel, down, serverVars, trouble>>

\* requestPfs$: asked again with the same IOU, as long as there is no answer
accepts == price[pfs] = 0 \/ iou >= owed[pfs] + price[pfs]
process ==
  IF accepts THEN /\ owed' = [owed EXCEPT ![pfs] = IF iou = -1 THEN @ ELSE iou]
                  /\ UNCHANGED refused
             ELSE refused' = [refused EXCEPT ![pfs] = @ + 1] /\ UNCHANGED owed
\* Mutant of requestPfs: asked again with another IOU
requestPfsAgain ==
  /\ stage = "ask" /\ pfs \notin down
  /\ process /\ UNCHANGED asked
  /\ \/ /\ answer' \in IF accepts THEN scenario.answers ELSE {[is |-> "refused", paths |-> <<>>]}
        /\ stage' = "validate" /\ UNCHANGED <<request, pfs, iou, outcome, trouble>>
     \/ /\ trouble < MaxTrouble /\ trouble' = trouble + 1
        /\ iou' = IF iou = -1 THEN iou ELSE iou + price[pfs]
        /\ UNCHANGED <<outcome, request, stage, pfs, answer>>
     \/ /\ trouble < MaxTrouble /\ trouble' = trouble + 1 /\ fails("not decoded")
  /\ UNCHANGED <<scenario, queue, ious, stored, services, synced, channel, down>>
requestPfs ==
  /\ stage = "ask" /\ pfs \notin down
  /\ process /\ UNCHANGED asked
  /\ \/ /\ answer' \in IF accepts THEN scenario.answers ELSE {[is |-> "refused", paths |-> <<>>]}
        /\ stage' = "validate" /\ UNCHANGED <<request, pfs, iou, outcome, trouble>>
     \/ /\ trouble < MaxTrouble /\ trouble' = trouble + 1 /\ UNCHANGED <<outcome, requestVars>>
     \/ /\ trouble < MaxTrouble /\ trouble' = trouble + 1 /\ fails("not decoded")
  /\ UNCHANGED <<scenario, queue, ious, stored, services, synced, channel, down>>

\* iouPersist, iouClear
iouAfter == IF iou = -1 THEN ious ELSE [ious EXCEPT ![pfs] = IF answer.is = "refused" THEN -1 ELSE iou]
\* validateRoute$: with the channels there are by now
validateRoute ==
  /\ stage = "validate"
  /\ ious' = iouAfter
  /\ IF answer.is # "paths" THEN fails(answer.is)
     ELSE LET paths == filterPaths(IF pfs = None THEN answer.paths ELSE parsePfsResponse(answer.paths, request.value), request)
          IN IF paths = <<>> THEN fails("no valid path") ELSE ends("success", paths)
  /\ UNCHANGED <<scenario, queue, stored, services, synced, channel, down, serverVars, trouble>>

-----------------------------------------------------------------------------
(* Around them *)

\* pfsServiceRegistryMonitorEpic: registrations are seen, and expire
register ==
  /\ ~synced /\ services' \in {services, scenario.registered} /\ synced' = TRUE
  /\ UNCHANGED <<scenario, queue, requestVars, outcome, ious, stored, channel, down, serverVars, trouble>>
expire(s) ==
  /\ s \in services /\ services' = services \ {s}
  /\ UNCHANGED <<scenario, queue, requestVars, outcome, ious, stored, synced, channel, down, serverVars, trouble>>
goDown(s) ==
  /\ down = {} /\ trouble < MaxTrouble /\ trouble' = trouble + 1 /\ down' = {s}
  /\ UNCHANGED <<scenario, queue, requestVars, outcome, ious, stored, services, synced, channel, serverVars>>
comeUp ==
  /\ down # {} /\ down' = {}
  /\ UNCHANGED <<scenario, queue, requestVars, outcome, ious, stored, services, synced, channel, serverVars, trouble>>
\* A channel is used, or closed (bound: one of them)
useChannel(n) ==
  /\ channel = scenario.channel /\ channel[n].open
  /\ channel' \in {[channel EXCEPT ![n].capacity = 0], [channel EXCEPT ![n].open = FALSE]}
  /\ UNCHANGED <<scenario, queue, requestVars, outcome, ious, stored, services, synced, down, serverVars, trouble>>
\* The state reaches the database some time later, or not
save ==
  /\ stored # ious /\ stored' = ious
  /\ UNCHANGED <<scenario, queue, requestVars, outcome, ious, services, synced, channel, down, serverVars, trouble>>
crash ==
  /\ trouble < MaxTrouble /\ trouble' = trouble + 1
  /\ ious' = stored /\ synced' = FALSE
  /\ request' = NoRequest /\ stage' = "idle" /\ pfs' = None /\ iou' = -1 /\ answer' = NoAnswer
  /\ UNCHANGED <<scenario, queue, outcome, stored, services, channel, down, serverVars>>

PathFind == pathFindRequest \/ getRoute \/ choosePfs \/ fetchLastIou \/ requestPfs \/ validateRoute
Next ==
  \/ PathFind \/ noPresence \/ register \/ comeUp \/ save \/ crash
  \/ \E s \in Service : expire(s) \/ goDown(s)
  \/ \E n \in Node : useChannel(n)

Spec == Init /\ [][Next]_vars

-----------------------------------------------------------------------------
(* Properties *)

\* A service is owed no more than its price for each request it was chosen for, whatever is lost, asked
\* again or forgotten (prepareNextIOU$, requestPfs$).
PaidOncePerRequest == \A s \in Service : owed[s] <= price[s] * asked[s]

\* When a service refuses an IOU, the next one it is given isn't refused for the same reason: there is an
\* answer lost, or a crash, for each of its refusals (shouldPersistIou, iouClear, fetchLastIou$).
RefusedForAReason == \A s \in Service : refused[s] <= trouble

=============================================================================
