------------------------------ MODULE Payments ------------------------------
(***************************************************************************)
(* The views of the dApp from which the user pays: TransferSteps, which    *)
(* looks for a direct route while the user selects a path finding service, *)
(* and QuickPay, which pays what a link asks for.  They ask the client for *)
(* routes (see PathFinding): what it answers goes to everybody who waits   *)
(* for routes to that target with that value.                              *)
(*                                                                         *)
(* Promises that are settled are looked at before anything else happens,   *)
(* in the order of the microtasks.  The payment itself (see Envelopes) and *)
(* deposits (see Funding) are external; the user's deposit in the UDC is   *)
(* enough to pay the service.                                              *)
(***************************************************************************)
EXTENDS PathFinding

CONSTANT MaxWaiting \* bound: clicks while the direct route is looked for

\* Scenarios also have a view, "steps", "quick" or None, with a payment, [value, target], and bounds: how often the view is
\* opened, and how often something goes wrong; it is the view that makes the requests
ASSUME PaymentsAssumption ==
  /\ MaxWaiting \in Nat /\ IsFiniteSet(Service)
  /\ \A s \in Scenarios :
        /\ s.visits \in Nat /\ s.troubles \in Nat /\ s.payment \in [value : Nat, target : Node]
        /\ s.view # None => s.requests = <<>>
        /\ \A a \in s.answers : a.is \in {"paths", "no route", "refused"}

VARIABLES
  page,     \* the view that is open
  settled,  \* routes that were found, or not, and that nobody has looked at yet
  visits, actions  \* views opened, and actions run by the user of QuickPay (history)

viewVars == <<page, settled, visits, actions>>
paymentVars == <<vars, viewVars>>

Closed == [is |-> "closed"]
NoOutcome == [result |-> "none", paths |-> <<>>]
Resumed == [result |-> "resumed", paths |-> <<>>] \* all that is left is to go on

\* The data of TransferSteps: what created waits for ("token", "direct" or nothing); the services and the one that is
\* selected; step, pfsFeesConfirmed, whether findRoutes goes on, routes and selectedRoute; the timer for a step; handleSteps
\* that wait; processingTransfer, transfers asked for, and sent; error
TransferSteps ==
  [is |-> "steps", awaits |-> "token", listed |-> FALSE, list |-> {}, pfs |-> None, step |-> 1, confirmed |-> FALSE,
   finding |-> FALSE, routes |-> <<>>, route |-> <<>>, timer |-> 0, waiting |-> 0,
   processing |-> FALSE, asking |-> 0, sending |-> 0, error |-> FALSE]
\* The data of QuickPay, and how far the action is that it runs, with its deposit
QuickPay ==
  [is |-> "quick", listed |-> FALSE, pfs |-> None, finding |-> FALSE, failed |-> FALSE, route |-> <<>>,
   component |-> None, inProgress |-> FALSE, phase |-> "idle", deposit |-> 0]

isOpen(view) == page.is = view /\ settled = NoOutcome
requestFor(service, paths) ==
  [pfs |-> service, paths |-> paths, value |-> scenario.payment.value, target |-> scenario.payment.target]
clientVars == <<scenario, requestVars, outcome, ious, stored, services, synced, down, serverVars, trouble>>
ask(requests) == queue' = queue \o requests /\ UNCHANGED <<clientVars, channel>>
show(p) == page' = p /\ settled' = (IF settled = Resumed /\ page.waiting > 1 THEN Resumed ELSE NoOutcome) /\ UNCHANGED <<visits, actions>>
shows(p) == show(p) /\ ask(<<>>)

\* Raiden.findPFS: rejected, unless there are services that answer
known == Range(additional) \cup (IF scenario.mode = "auto" THEN services ELSE {})
canFetch == synced \/ scenario.mode = "disabled"
fetchServices == IF scenario.mode = "disabled" THEN {} ELSE {s \in known : hasInfo(s)}
cheapest(S) == {s \in S : \A t \in S : price[s] <= price[t]}

-----------------------------------------------------------------------------
(* TransferSteps *)

\* handleStep, once the direct route was looked for: it asks the service, confirms the route, or transfers.
\* Mutant of handleStep: the fees are confirmed once the service has answered
handleStepLate(p) ==
  IF p.step = 1 /\ p.pfs # None /\ ~p.confirmed
  THEN show([p EXCEPT !.finding = TRUE]) /\ ask(<<requestFor(p.pfs, <<>>)>>)
  ELSE IF p.step = 2 /\ p.route # <<>> THEN shows([p EXCEPT !.step = 3])
  ELSE IF p.step = 3 /\ p.route # <<>>
  THEN show([p EXCEPT !.processing = TRUE, !.asking = @ + 1]) /\ ask(<<requestFor("any", p.route)>>)
  ELSE shows(p)
handleStep(p) ==
  IF p.step = 1 /\ p.pfs # None /\ ~p.confirmed
  THEN show([p EXCEPT !.confirmed = TRUE, !.finding = TRUE]) /\ ask(<<requestFor(p.pfs, <<>>)>>)
  ELSE IF p.step = 2 /\ p.route # <<>> THEN shows([p EXCEPT !.step = 3])
  ELSE IF p.step = 3 /\ p.route # <<>>
  THEN show([p EXCEPT !.processing = TRUE, !.asking = @ + 1]) /\ ask(<<requestFor("any", p.route)>>)
  ELSE shows(p)
\* It waits for checkDirectRoutePromise, if there is one
continue(p) ==
  IF p.awaits = "direct" THEN p.waiting < MaxWaiting /\ shows([p EXCEPT !.waiting = @ + 1]) ELSE handleStep(p)

\* setPFS: the only service, if it is free, is asked without a click
setPFS(p, s) ==
  LET selected == [p EXCEPT !.pfs = s] IN
  IF s # None /\ Cardinality(p.list) = 1 /\ price[s] = 0 THEN continue(selected) ELSE shows(selected)

isCovered == page.error \/ page.processing \/ (page.confirmed /\ page.step = 1) \* by a dialog
continueBtnEnabled ==
  CASE page.step = 1 -> page.pfs # None
    [] page.step = 2 -> page.route # <<>>
    [] page.step = 3 -> page.route # <<>> /\ ~page.processing
clickContinue == isOpen("steps") /\ ~isCovered /\ continueBtnEnabled /\ continue(page)

\* created: the token is known by now, and the direct route is looked for
checkDirectRoute ==
  /\ isOpen("steps") /\ page.awaits = "token"
  /\ show([page EXCEPT !.awaits = "direct"]) /\ ask(<<requestFor("disabled", <<>>)>>)
\* PathfindingServices, in step 1
listServices ==
  /\ isOpen("steps") /\ ~page.listed /\ page.step = 1 /\ canFetch
  /\ LET p == [page EXCEPT !.listed = TRUE, !.list = fetchServices]
     IN IF p.list = {} THEN shows(p) ELSE \E s \in cheapest(p.list) : setPFS(p, s)
select(s) ==
  /\ isOpen("steps") /\ ~isCovered /\ page.step = 1 /\ s \in (page.list \cup {None}) \ {page.pfs}
  /\ setPFS(page, s)
\* FindRoutes
setRoute(route) ==
  /\ isOpen("steps") /\ ~isCovered /\ page.step = 2
  /\ route \in {<<page.routes[i]>> : i \in DOMAIN page.routes} \cup {<<>>} /\ route # page.route
  /\ shows([page EXCEPT !.route = route])

\* What findRoutes, checkDirectRoute and transfers make of an answer
isFound == settled.result = "success"
stepsSettled ==
  /\ page.is = "steps" /\ settled \notin {NoOutcome, Resumed}
  /\ LET found == IF ~page.finding THEN page
                  ELSE IF isFound THEN [page EXCEPT !.routes = settled.paths, !.route = <<Head(settled.paths)>>]
                  ELSE [page EXCEPT !.error = TRUE]
         checked == IF page.awaits = "direct" /\ isFound THEN [found EXCEPT !.route = <<Head(settled.paths)>>, !.step = 3]
                    ELSE found
         onlySingleFreeRoute == Len(checked.routes) = 1 /\ checked.route # <<>> /\ checked.route[1].fee = 0
     IN page' = [checked EXCEPT
                   !.awaits = IF @ = "direct" THEN None ELSE @,
                   !.finding = FALSE, !.waiting = IF page.finding THEN @ + 1 ELSE @,
                   !.timer = IF ~page.finding THEN @ ELSE IF onlySingleFreeRoute THEN 3 ELSE 2,
                   !.asking = 0, !.sending = IF isFound THEN @ + page.asking ELSE @,
                   !.error = @ \/ (page.asking > 0 /\ ~isFound)]
  /\ settled' = Resumed /\ UNCHANGED <<visits, actions>> /\ ask(<<>>)
\* and then the handleSteps that waited, one after the other
resume ==
  /\ page.is = "steps" /\ settled = Resumed
  /\ IF page.waiting = 0 THEN shows(page)
     ELSE handleStep([page EXCEPT !.waiting = @ - 1])
nextStep ==
  /\ isOpen("steps") /\ page.timer # 0
  /\ shows([page EXCEPT !.step = page.timer, !.timer = 0])

\* Raiden.waitTransfer: a payment ends (external)
transferEnds ==
  /\ isOpen("steps") /\ page.sending > 0
  /\ \/ shows(Closed)
     \/ shows([page EXCEPT !.sending = @ - 1, !.error = TRUE])

-----------------------------------------------------------------------------
(* QuickPay *)

direct == channel[scenario.payment.target]
isEnough(c) == channelCanRoute(c, scenario.payment.value)
decideOnActionComponent(p) ==
  IF p.inProgress THEN p
  ELSE [p EXCEPT !.component = IF p.route # <<>> THEN "MediatedTransferAction"
                               ELSE IF isEnough(direct) THEN "DirectTransferAction"
                               ELSE IF direct.open THEN "ChannelDepositAndTransferAction"
                               ELSE "ChannelOpenAndTransferAction"]
depositAmount ==
  LET missing == scenario.payment.value - (IF direct.open THEN direct.capacity ELSE 0)
  IN CASE page.component = "ChannelDepositAndTransferAction" -> IF missing > 0 THEN missing ELSE 0
       [] page.component = "ChannelOpenAndTransferAction" -> scenario.payment.value
       [] OTHER -> 0

fetchCheapestPathfindingService ==
  /\ isOpen("quick") /\ ~page.listed /\ canFetch
  /\ LET p == [page EXCEPT !.listed = TRUE]
     IN IF fetchServices = {} THEN shows(p) ELSE \E s \in cheapest(fetchServices) : shows([p EXCEPT !.pfs = s])

mediationTransferIsPossible == (\E n \in Node : isEnough(channel[n])) /\ ~isEnough(direct)
\* Mutant of showFetchMediationRouteButton: after a failure too
showFetchMediationRouteButtonAgain == page.route = <<>> /\ ~page.finding
showFetchMediationRouteButton == page.route = <<>> /\ ~page.finding /\ ~page.failed
fetchCheapestMediationRoute ==
  /\ isOpen("quick") /\ page.phase = "idle" /\ mediationTransferIsPossible /\ showFetchMediationRouteButton /\ page.pfs # None
  /\ show([page EXCEPT !.finding = TRUE, !.failed = FALSE]) /\ ask(<<requestFor(page.pfs, <<>>)>>)

\* runAction, with the handleAction of the component
starts(phase, requests) ==
  /\ page' = [page EXCEPT !.inProgress = TRUE, !.phase = phase, !.deposit = depositAmount]
  /\ ask(requests)
runAction ==
  /\ isOpen("quick") /\ page.phase = "idle"
  /\ CASE page.component = "DirectTransferAction" -> starts("direct", <<requestFor("disabled", <<>>)>>)
       [] page.component = "MediatedTransferAction" -> starts("asking", <<requestFor("any", page.route)>>)
       [] OTHER -> starts("depositing", <<>>)
  /\ actions' = actions + 1 /\ UNCHANGED <<settled, visits>>
\* Raiden.openChannel, Raiden.deposit (external), and 3 seconds for the partner to see it
deposits ==
  /\ isOpen("quick") /\ page.phase = "depositing"
  /\ \/ /\ direct.open = (page.component = "ChannelDepositAndTransferAction")
        /\ channel' = [channel EXCEPT ![scenario.payment.target] =
                         [open |-> TRUE, capacity |-> page.deposit + IF @.open THEN @.capacity ELSE 0]]
        /\ show([page EXCEPT !.phase = "waiting"]) /\ UNCHANGED <<clientVars, queue>>
     \/ shows([page EXCEPT !.phase = "failed"])
transferDeposited ==
  /\ isOpen("quick") /\ page.phase = "waiting"
  /\ show([page EXCEPT !.phase = "asking"]) /\ ask(<<requestFor("any", <<>>)>>)

\* What the search for a route makes of an answer
\* Mutant of fetched: it is over when a route was found
fetchedRoute(p) ==
  IF isFound THEN decideOnActionComponent([p EXCEPT !.finding = FALSE, !.route = <<Head(settled.paths)>>])
  ELSE [p EXCEPT !.failed = TRUE]
fetched(p) ==
  IF isFound THEN decideOnActionComponent([p EXCEPT !.finding = FALSE, !.route = <<Head(settled.paths)>>])
  ELSE [p EXCEPT !.finding = FALSE, !.failed = TRUE]
\* and the action
quickSettled ==
  /\ page.is = "quick" /\ settled # NoOutcome
  /\ LET found == IF page.finding THEN fetched(page) ELSE page
     IN IF page.phase = "direct" /\ isFound
        THEN show([found EXCEPT !.phase = "asking"]) /\ ask(<<requestFor("any", settled.paths)>>)
        ELSE shows([found EXCEPT !.phase = IF @ \notin {"direct", "asking"} THEN @
                                           ELSE IF isFound THEN "sending" ELSE "failed"])
\* Raiden.waitTransfer: the payment ends (external)
actionEnds ==
  /\ isOpen("quick") /\ page.phase = "sending"
  /\ \E phase \in {"completed", "failed"} : shows([page EXCEPT !.phase = phase])

-----------------------------------------------------------------------------
(* Views are opened and left: when a payment has ended, when its dialog is dismissed, or when the user likes to *)

\* created, of either view
open ==
  /\ isOpen("closed") /\ scenario.view # None /\ visits < scenario.visits
  /\ page' = IF scenario.view = "steps" THEN TransferSteps ELSE decideOnActionComponent(QuickPay)
  /\ visits' = visits + 1 /\ UNCHANGED <<settled, actions>>
  /\ ask(<<>>)
leave == settled = NoOutcome /\ page # Closed /\ shows(Closed)

\* Promises to those who wait, which are settled when a request ends
isBounded == trouble' <= scenario.troubles
client ==
  /\ settled = NoOutcome /\ (PathFind \/ noPresence) /\ isBounded
  /\ settled' = IF stage' = "idle" /\ page # Closed THEN outcome' ELSE NoOutcome
  /\ UNCHANGED <<page, visits, actions>>
others ==
  /\ settled = NoOutcome
  /\ \/ register \/ comeUp \/ save \/ \E s \in Service : expire(s) \/ goDown(s)
     \/ \E n \in Node : useChannel(n)
  /\ isBounded /\ UNCHANGED viewVars
\* The page is loaded again (bound: no request of a view waits)
reload ==
  /\ settled = NoOutcome /\ crash /\ isBounded /\ (scenario.view = None \/ queue = <<>>)
  /\ page' = Closed /\ UNCHANGED <<settled, visits, actions>>

Steps ==
  \/ clickContinue \/ checkDirectRoute \/ listServices \/ stepsSettled \/ resume \/ nextStep \/ transferEnds
  \/ \E s \in Service \cup {None} : select(s)
  \/ \E i \in 0..maxPaths : setRoute(IF isOpen("steps") /\ i \in DOMAIN page.routes THEN <<page.routes[i]>> ELSE <<>>)
Quick ==
  \/ fetchCheapestPathfindingService \/ fetchCheapestMediationRoute \/ runAction \/ deposits \/ transferDeposited
  \/ quickSettled \/ actionEnds
PaymentsNext == client \/ others \/ reload \/ open \/ leave \/ Steps \/ Quick

PaymentsInit == Init /\ page = Closed /\ settled = NoOutcome /\ visits = 0 /\ actions = 0
PaymentsSpec == PaymentsInit /\ [][PaymentsNext]_paymentVars

\* The client goes on as in PathFinding; promises are looked at, and timers run
FairPayments ==
  /\ PaymentsSpec /\ WF_paymentVars(client \/ stepsSettled \/ resume \/ quickSettled \/ nextStep)
  /\ WF_paymentVars(settled = NoOutcome /\ (register \/ comeUp) /\ UNCHANGED viewVars)

-----------------------------------------------------------------------------
(* Properties *)

\* A visit of a view has no more than one service paid for routes, and no more than another one for an action that pays
\* what it has deposited: whatever is clicked while routes are looked for, and however they overlap (handleStep,
\* showFetchMediationRouteButton). It says nothing of the payment itself: two clicks may transfer twice.
AskedOncePerVisit ==
  scenario.view # None => MapThenSumSet(LAMBDA s : asked[s], Service) <= visits + actions

\* Every request for routes ends (pfsRequestEpic), as one that waits for a service stops all those after it, and so does every
\* search of a view: once the fees of the service are confirmed the stepper moves on, whether routes are found or not, and the
\* button that fetches a mediation route doesn't stay busy (handleStep, fetchCheapestMediationRoute).
isSearching == (page.is = "steps" /\ page.confirmed /\ page.step = 1) \/ (page.is = "quick" /\ page.finding)
EverySearchEnds == <>[](queue = <<>> /\ stage = "idle" /\ ~isSearching)
=============================================================================
