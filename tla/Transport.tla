----------------------------- MODULE Transport -----------------------------
(***************************************************************************)
(* The Matrix transport of a client: how it finds a server, how messages   *)
(* wait for the presence of their peer or for an open RTC channel, queue,  *)
(* and leave in batches, and how those that arrive are taken in, and       *)
(* acknowledged.                                                           *)
(*                                                                         *)
(* One client is modelled; its peers, servers and services are external.   *)
(***************************************************************************)
EXTENDS Integers, FiniteSets, Sequences, SequencesExt

CONSTANTS
  Peer,
  partners,         \* peers with a channel, known from the start
  lightClients,     \* peers that need no Delivered
  Scenarios,        \* what happens to the client, see below
  maxBatchSize,     \* 20 in the code
  maxSendRetries,   \* 3 in the code
  maxServiceSends,  \* 5 in the code
  cacheSize,        \* 32 in the code
  Down,             \* servers that don't answer
  MaxRtc            \* bound: RTC channels that open

NoServer == "none"

\* A scenario has the servers of the state, of the config and from lookups; the requests of other epics,
\* a messageSend.request with or without a userId; the number of messages to services; and the
\* events that arrive
Request == UNION {s.requests : s \in Scenarios}
ASSUME TransportAssumption ==
  /\ \A r \in Request : r.peer \in Peer /\ r.type \in {"text", "notice"} /\ r.user \in BOOLEAN
  /\ {maxBatchSize, cacheSize, maxServiceSends} \subseteq Nat \ {0}
  /\ {maxSendRetries, MaxRtc} \subseteq Nat
  /\ partners \subseteq Peer

VARIABLES
  candidates, lookup, matrix, server, synced, down,                     \* setting up
  toSend, waiting, stranded, queue, flushes, batch, retries, answers,    \* sending
  sent, order,                                                          \* what left, what was queued (history)
  services,                                                             \* service messages [toSend, asked, sending, answered]
  fetching, known, whitelisted, hasRtc, opened,                         \* peers
  incoming, held, received,                                             \* receiving
  toSign, cache, signed                                                 \* Delivered

setupVars == <<candidates, lookup, matrix, server, synced, down>>
sendVars == <<toSend, waiting, stranded, queue, flushes, batch, retries, answers, sent, order>>
peerVars == <<fetching, known, whitelisted, hasRtc, opened>>
receiveVars == <<incoming, held, received>>
signVars == <<toSign, cache, signed>>
transportVars == <<setupVars, sendVars, services, peerVars, receiveVars, signVars>>

-----------------------------------------------------------------------------
(* Setting up: initMatrixEpic *)

\* The order in which servers are tried: [server, stored], stored if with the credentials of the state
configured(s) ==
  (IF s.configured = s.stored THEN <<[server |-> s.stored, stored |-> TRUE]>> ELSE <<>>)
    \o <<[server |-> s.configured, stored |-> FALSE]>>
previous(s) == IF s.stored = NoServer THEN <<>> ELSE <<[server |-> s.stored, stored |-> TRUE]>>

TransportInit ==
  /\ \E s \in Scenarios :
       /\ candidates = IF s.configured # NoServer THEN configured(s) ELSE previous(s)
       /\ lookup = IF s.configured # NoServer THEN {} ELSE s.found
       /\ toSend = s.requests /\ incoming = s.events
       /\ services = [toSend |-> s.services, asked |-> 0, sending |-> 0, answered |-> 0]
  /\ matrix = "none" /\ server = NoServer /\ synced = FALSE /\ down = FALSE
  /\ waiting = [p \in Peer |-> <<>>] /\ stranded = {}
  /\ queue = <<>> /\ flushes = 0 /\ batch = <<>> /\ retries = 0
  /\ answers = [r \in Request |-> "none"] /\ sent = <<>> /\ order = <<>>
  /\ fetching = [p \in Peer |-> FALSE] /\ known = [p \in Peer |-> FALSE]
  /\ whitelisted = partners /\ hasRtc = [p \in Peer |-> FALSE] /\ opened = 0
  /\ held = <<>> /\ received = <<>>
  /\ toSign = <<>> /\ cache = <<>> /\ signed = <<>>

\* The server of a path finding service, and those of the lookup, once there is no other left
fetchServers ==
  /\ ~down /\ matrix = "none" /\ candidates = <<>> /\ lookup # {}
  /\ \E s \in lookup : /\ candidates' = <<[server |-> s, stored |-> FALSE]>>
                       /\ lookup' = lookup \ {s}
  /\ UNCHANGED <<matrix, server, synced, down, sendVars, services, peerVars, receiveVars, signVars>>

\* A login that fails is retried, and then given up. With stored credentials there is no login: what is
\* tried is setDisplayName, which fails if they are refused, and is retried as long as the server is down.
setupMatrixClient ==
  /\ ~down /\ matrix = "none" /\ candidates # <<>>
  /\ LET c == Head(candidates)
     IN \/ /\ c.server \notin Down
           /\ matrix' = "setup" /\ server' = c.server /\ UNCHANGED candidates
        \/ /\ c.server \notin Down \/ ~c.stored
           /\ candidates' = Tail(candidates) /\ UNCHANGED <<matrix, server>>
  /\ UNCHANGED <<lookup, synced, down, sendVars, services, peerVars, receiveVars, signVars>>
setupFails ==
  /\ ~down /\ matrix = "none" /\ candidates = <<>> /\ lookup = {}
  /\ down' = TRUE
  /\ UNCHANGED <<candidates, lookup, matrix, server, synced, sendVars, services, peerVars, receiveVars, signVars>>

\* startMatrixSync: the client is there for all epics once matrixSetup was seen, and goes online
\* when the client is synced
matrixSetup ==
  /\ ~down /\ matrix = "setup"
  /\ matrix' = "client"
  /\ UNCHANGED <<candidates, lookup, server, synced, down, sendVars, services, peerVars, receiveVars, signVars>>
startClient ==
  /\ ~down /\ matrix = "client" /\ synced
  /\ \/ matrix' = "online" /\ UNCHANGED down
     \/ down' = TRUE /\ UNCHANGED matrix
  /\ UNCHANGED <<candidates, lookup, server, synced, sendVars, services, peerVars, receiveVars, signVars>>
init ==
  /\ ~synced /\ synced' = TRUE
  /\ UNCHANGED <<candidates, lookup, matrix, server, down, sendVars, services, peerVars, receiveVars, signVars>>

-----------------------------------------------------------------------------
(* Sending to peers *)

answerAll(rs, a) == answers' = [r \in Request |-> IF r \in rs THEN a ELSE answers[r]]
enqueue(rs) ==
  /\ queue' = queue \o rs /\ order' = order \o rs
  /\ flushes' = flushes + Len(rs)

\* sendNowToRtc: sending may throw
sendNowToRtc(rs) ==
  \/ answerAll(rs, "success")
  \/ answerAll(rs, "failure")

\* matrixMessageSendEpic: texts go through the open channel; others wait for the presence of the
\* peer unless they come with a userId, with one request for all that wait
messageSendRequest(r) ==
  /\ ~down /\ r \in toSend
  /\ toSend' = toSend \ {r}
  /\ IF r.type = "text" /\ hasRtc[r.peer]
     THEN sendNowToRtc({r}) /\ UNCHANGED <<waiting, queue, order, flushes, fetching, whitelisted>>
     ELSE /\ answerAll({r}, "asked")
          /\ IF r.user THEN enqueue(<<r>>) /\ UNCHANGED <<waiting, fetching, whitelisted>>
             ELSE /\ waiting' = [waiting EXCEPT ![r.peer] = Append(@, r)]
                  /\ fetching' = [fetching EXCEPT ![r.peer] = TRUE]
                  /\ whitelisted' = whitelisted \cup {r.peer}
                  /\ UNCHANGED <<queue, order, flushes>>
  /\ UNCHANGED <<stranded, batch, retries, sent, known, hasRtc, opened>>
  /\ UNCHANGED <<setupVars, services, receiveVars, signVars>>

\* An RTC channel opens while texts wait: they go through it. With the first of them, the request for
\* the presence ends for everything that shares it (dispatchRequestAndGetResponse: finalize).
rtcOpen(p) ==
  /\ ~down /\ ~hasRtc[p] /\ opened < MaxRtc
  /\ hasRtc' = [hasRtc EXCEPT ![p] = TRUE] /\ opened' = opened + 1
  /\ LET texts == {r \in Range(waiting[p]) : r.type = "text"}
     IN IF texts = {} THEN UNCHANGED <<waiting, stranded, answers>>
        ELSE /\ sendNowToRtc(texts)
             /\ stranded' = stranded \cup (Range(waiting[p]) \ texts)
             /\ waiting' = [waiting EXCEPT ![p] = <<>>]
  /\ UNCHANGED <<toSend, queue, flushes, batch, retries, sent, order, fetching, known, whitelisted>>
  /\ UNCHANGED <<setupVars, services, receiveVars, signVars>>
rtcClose(p) ==
  /\ ~down /\ hasRtc[p] /\ hasRtc' = [hasRtc EXCEPT ![p] = FALSE]
  /\ UNCHANGED <<setupVars, sendVars, services, fetching, known, whitelisted, opened, receiveVars, signVars>>

\* Mutant of popMessages: the last ones first
popMessagesLast(q) == (IF Len(q) <= maxBatchSize THEN 1 ELSE Len(q) - maxBatchSize + 1)..Len(q)

\* popMessagesOfSameType: the positions in the queue that make the next batch
popMessages(q) ==
  LET pop[i \in 0..Len(q)] ==
        IF i = 0 THEN {}
        ELSE LET differs == \E j \in pop[i - 1] : q[j].peer = q[i].peer /\ q[j].type # q[i].type
             IN IF Cardinality(pop[i - 1]) < maxBatchSize /\ ~differs THEN pop[i - 1] \cup {i} ELSE pop[i - 1]
  IN pop[Len(q)]
pick(q, positions) ==
  LET add(i, rs) == IF i \in positions THEN Append(rs, q[i]) ELSE rs
      picked[i \in 0..Len(q)] == IF i = 0 THEN <<>> ELSE add(i, picked[i - 1])
  IN picked[Len(q)]

\* Mutant of sendBatchedToDevice: a flush is lost while another one goes on (exhaustMap)
sendBatchedToDeviceExhaust ==
  /\ ~down /\ flushes > 0 /\ batch = <<>>
  /\ LET popped == popMessages(queue)
     IN /\ batch' = pick(queue, popped)
        /\ queue' = pick(queue, DOMAIN queue \ popped)
        /\ flushes' = IF popped = {} THEN 0 ELSE 1
  /\ retries' = 0
  /\ UNCHANGED <<toSend, waiting, stranded, answers, sent, order>>
  /\ UNCHANGED <<setupVars, services, peerVars, receiveVars, signVars>>

\* sendBatchedToDevice: one flush for each message queued, one after the other
sendBatchedToDevice ==
  /\ ~down /\ flushes > 0 /\ batch = <<>>
  /\ LET popped == popMessages(queue)
     IN /\ batch' = pick(queue, popped)
        /\ queue' = pick(queue, DOMAIN queue \ popped)
        /\ flushes' = IF popped = {} THEN flushes - 1 ELSE flushes
  /\ retries' = 0
  /\ UNCHANGED <<toSend, waiting, stranded, answers, sent, order>>
  /\ UNCHANGED <<setupVars, services, peerVars, receiveVars, signVars>>

leaves(rs) == sent' = sent \o pick(rs, {i \in DOMAIN rs : rs[i] \notin Range(sent)})
flushed == batch' = <<>> /\ flushes' = flushes - 1 /\ UNCHANGED retries

\* flushQueueToDevice: what the server took may be answered with an error, too
sendToDevice ==
  /\ ~down /\ batch # <<>> /\ matrix \in {"client", "online"}
  /\ \/ answerAll(Range(batch), "success") /\ leaves(batch) /\ flushed
     \/ /\ leaves(batch) \/ UNCHANGED sent
        /\ \/ answerAll(Range(batch), "failure") /\ flushed
           \/ /\ retries < maxSendRetries /\ retries' = retries + 1
              /\ UNCHANGED <<answers, batch, flushes>>
  /\ UNCHANGED <<toSend, waiting, stranded, queue, order>>
  /\ UNCHANGED <<setupVars, services, peerVars, receiveVars, signVars>>

\* sendServiceMessage, for at most maxServiceSends messages at a time
messageServiceSendRequest ==
  /\ ~down /\ services.toSend > 0
  /\ services' = [services EXCEPT !.toSend = @ - 1, !.asked = @ + 1]
  /\ UNCHANGED <<setupVars, sendVars, peerVars, receiveVars, signVars>>
sendServiceMessage ==
  /\ ~down /\ synced /\ services.sending < maxServiceSends
  /\ services.answered + services.sending < services.asked
  /\ services' = [services EXCEPT !.sending = @ + 1]
  /\ UNCHANGED <<setupVars, sendVars, peerVars, receiveVars, signVars>>
serviceMessageSent ==
  /\ ~down /\ services.sending > 0 /\ matrix \in {"client", "online"}
  /\ services' = [services EXCEPT !.sending = @ - 1, !.answered = @ + 1]
  /\ UNCHANGED <<setupVars, sendVars, peerVars, receiveVars, signVars>>

-----------------------------------------------------------------------------
(* Receiving *)

\* deliveredEpic: light clients need no Delivered; messageReceived of the lines of an event
messageReceived(p, lines) ==
  /\ received' = received \o [i \in DOMAIN lines |-> [peer |-> p, line |-> lines[i]]]
  /\ toSign' = IF p \in lightClients THEN toSign ELSE toSign \o [i \in DOMAIN lines |-> lines[i].id]

\* matrixMessageReceivedEpic: an event of somebody whose presence isn't known waits for it
toDeviceEvent ==
  /\ ~down /\ matrix = "online" /\ incoming # <<>>
  /\ LET e == Head(incoming)
     IN IF known[e.peer] THEN messageReceived(e.peer, e.lines) /\ UNCHANGED <<held, fetching>>
        ELSE /\ held' = Append(held, e)
             /\ fetching' = [fetching EXCEPT ![e.peer] = @ \/ e.peer \in whitelisted]
             /\ UNCHANGED <<received, toSign>>
  /\ incoming' = Tail(incoming)
  /\ UNCHANGED <<setupVars, sendVars, services, known, whitelisted, hasRtc, opened, cache, signed>>

\* ... and is dropped if nobody is interested in its sender for some time
dropStranger ==
  /\ ~down /\ \E i \in DOMAIN held : held[i].peer \notin whitelisted /\ held' = RemoveAt(held, i)
  /\ UNCHANGED <<setupVars, sendVars, services, peerVars, incoming, received, signVars>>

\* matrixMonitorPresenceEpic: one request at a time for a peer; everything that waits gets its answer.
\* With an RTC channel, what is known of a peer is the answer.
heldOf(p) == SelectSeq(held, LAMBDA e : e.peer = p)
matrixPresenceSuccess(p) ==
  /\ ~down /\ fetching[p]
  /\ fetching' = [fetching EXCEPT ![p] = FALSE]
  /\ known' = [known EXCEPT ![p] = TRUE]
  /\ enqueue(waiting[p]) /\ waiting' = [waiting EXCEPT ![p] = <<>>]
  /\ messageReceived(p, FlattenSeq([i \in DOMAIN heldOf(p) |-> heldOf(p)[i].lines]))
  /\ held' = SelectSeq(held, LAMBDA e : e.peer # p)
  /\ UNCHANGED <<toSend, stranded, batch, retries, answers, sent, whitelisted, hasRtc, opened>>
  /\ UNCHANGED <<setupVars, services, incoming, cache, signed>>
matrixPresenceFailure(p) ==
  /\ ~down /\ fetching[p] /\ ~(known[p] /\ hasRtc[p])
  /\ fetching' = [fetching EXCEPT ![p] = FALSE]
  /\ answerAll(Range(waiting[p]), "failure") /\ waiting' = [waiting EXCEPT ![p] = <<>>]
  /\ held' = SelectSeq(held, LAMBDA e : e.peer # p)
  /\ UNCHANGED <<toSend, stranded, queue, flushes, batch, retries, sent, order, known, whitelisted, hasRtc, opened>>
  /\ UNCHANGED <<setupVars, services, incoming, received, signVars>>
\* LruCache: the last one is the one used last
bump(c, id) == Append(pick(c, {i \in DOMAIN c : c[i] # id}), id)
put(c, id) == IF Len(bump(c, id)) > cacheSize THEN Tail(bump(c, id)) ELSE bump(c, id)

\* Mutant of deliveredEpic: reading an entry doesn't make it the last one used
deliveredFifo ==
  /\ ~down /\ toSign # <<>>
  /\ LET id == Head(toSign)
     IN IF id \in Range(cache)
        THEN UNCHANGED cache /\ signed' = Append(signed, [id |-> id, new |-> FALSE]) /\ UNCHANGED down
        ELSE /\ cache' = put(cache, id) /\ signed' = Append(signed, [id |-> id, new |-> TRUE]) /\ UNCHANGED down
  /\ toSign' = Tail(toSign)
  /\ UNCHANGED <<candidates, lookup, matrix, server, synced, sendVars, services, peerVars, receiveVars>>

\* deliveredEpic: one after the other; one that was signed is sent again. A signature refused
\* is an error of the epic, which shuts the client down.
delivered ==
  /\ ~down /\ toSign # <<>>
  /\ LET id == Head(toSign)
     IN IF id \in Range(cache)
        THEN cache' = bump(cache, id) /\ signed' = Append(signed, [id |-> id, new |-> FALSE]) /\ UNCHANGED down
        ELSE \/ /\ cache' = put(cache, id) /\ signed' = Append(signed, [id |-> id, new |-> TRUE]) /\ UNCHANGED down
             \/ down' = TRUE /\ UNCHANGED <<cache, signed>>
  /\ toSign' = Tail(toSign)
  /\ UNCHANGED <<candidates, lookup, matrix, server, synced, sendVars, services, peerVars, receiveVars>>

Setup == fetchServers \/ setupMatrixClient \/ setupFails \/ matrixSetup \/ startClient \/ init
Presence == \E p \in Peer : matrixPresenceSuccess(p) \/ matrixPresenceFailure(p)
Services == sendServiceMessage \/ serviceMessageSent
TransportNext ==
  \/ Setup \/ Presence \/ Services
  \/ \E r \in Request : messageSendRequest(r)
  \/ \E p \in Peer : rtcOpen(p) \/ rtcClose(p)
  \/ sendBatchedToDevice \/ sendToDevice
  \/ messageServiceSendRequest
  \/ toDeviceEvent \/ dropStranger \/ delivered

TransportSpec == TransportInit /\ [][TransportNext]_transportVars

\* What was requested of servers and services is answered, and queues go on
FairTransportSpec ==
  /\ TransportSpec
  /\ WF_transportVars(Setup) /\ WF_transportVars(Services) /\ WF_transportVars(Presence)
  /\ WF_transportVars(sendBatchedToDevice) /\ WF_transportVars(sendToDevice)

-----------------------------------------------------------------------------
(* Properties *)

\* Messages of one type to one peer leave in the order in which they were queued, whatever else is in
\* the queue, and whatever fails (popMessagesOfSameType, flushQueueToDevice).
before(s, a, b) == \E i, j \in DOMAIN s : i < j /\ s[i] = a /\ s[j] = b
OrderKept ==
  \A a, b \in Range(sent) : a.peer = b.peer /\ a.type = b.type /\ before(sent, a, b) => before(order, a, b)

\* A Delivered is signed again only when cacheSize others were needed since (LruCache): by the
\* distance to the last use, not by what the cache contains.
isFresh(i) ==
  \A j \in 1..(i - 1) : signed[j].id = signed[i].id =>
     Cardinality({signed[k].id : k \in (j + 1)..(i - 1)} \ {signed[i].id}) >= cacheSize
SignedIfFresh == \A i \in DOMAIN signed : signed[i].new = isFresh(i)

\* Every request is answered (matrixMessageSendEpic, matrixMessageServiceSendEpic): the retries of the
\* layers above go on from there. One is not: a notice without a userId (the hangup of a call, webrtc.ts) that
\* waits for the presence of its peer along with texts, when an RTC channel opens for them.
EverySendAnswered ==
  /\ \A r \in Request :
       answers[r] = "asked" ~>
         (answers[r] # "asked" \/ down \/ (r.type = "notice" /\ ~r.user /\ r \in stranded))
  /\ (services.asked > 0) ~> (services.answered = services.asked \/ down)

=============================================================================
