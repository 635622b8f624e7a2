------------------------------- MODULE Calls -------------------------------
(***************************************************************************)
(* WebRTC calls between two clients: each may call the other, with         *)
(* retries, while it answers the other's calls; the first data channel     *)
(* that opens makes a client give up what it does in the other role.       *)
(*                                                                         *)
(* RTCPeerConnections and the browser's events are external; signalling    *)
(* messages keep their order (see Transport), but hangups, which wait for  *)
(* a presence.                                                             *)
(***************************************************************************)
EXTENDS Integers, Sequences, SequencesExt

CONSTANTS
  Id,           \* calls a client can have in the air
  maxRetries,   \* 5 in the code
  Starts        \* who wants to call first, and a bound on what happens from outside after that:
                \* failures, changes of capabilities, further wishes to call

Client == {"a", "b"}
other(c) == CHOOSE d \in Client : d # c
Role == {"caller", "callee"}
opposite(role) == CHOOSE r \in Role : r # role
Call == [from : Client, id : Id]
None == [from |-> "none"]

ASSUME CallsAssumption == maxRetries \in Nat /\ Starts \subseteq [callers : SUBSET Client, events : Nat]

VARIABLES
  pipe,         \* of a client in a role: [phase, call, retries]
  channels,     \* of a client: those open, the last one is the newest
  rtc,          \* the one messages are sent through (latest$.rtc)
  interest,     \* whether something asks for a call
  inbox,        \* signalling messages to a client
  hangups,      \* hangups on their way: [to, call]
  live,         \* <<client, call>>: connections not closed
  transport,    \* of a call: whether its caller has set the answer, it is up, has failed, or an answer was lost
  events        \* what may still happen from outside

vars == <<pipe, channels, rtc, interest, inbox, hangups, live, transport, events>>

Idle == [phase |-> "idle", call |-> None, retries |-> 0]
Init ==
  /\ pipe = [c \in Client |-> [r \in Role |-> Idle]]
  /\ channels = [c \in Client |-> <<>>] /\ rtc = [c \in Client |-> None]
  /\ \E s \in Starts : interest = [c \in Client |-> c \in s.callers] /\ events = s.events
  /\ inbox = [c \in Client |-> <<>>] /\ hangups = {}
  /\ live = {} /\ transport = [k \in Call |-> "new"]

phase(c, role) == pipe[c][role].phase
callOf(c, role) == pipe[c][role].call
happens == events > 0 /\ events' = events - 1
send(c, type, k) == inbox' = [inbox EXCEPT ![other(c)] = Append(@, [type |-> type, call |-> k])]
become(k, t) == transport' = [transport EXCEPT ![k] = t]
\* Of a call whose connections are closed nothing is left
forget == transport' = [k \in Call |-> IF \E c \in Client : <<c, k>> \in live' THEN transport[k] ELSE "new"]
isSignalled(k) == \E c \in Client : \E i \in DOMAIN inbox[c] : inbox[c][i].call = k
\* The names of calls are used again: only so many are in the air
isFree(k) ==
  /\ ~isSignalled(k) /\ \A c \in Client : <<c, k>> \notin live
  /\ \A h \in hangups : h.call # k

-----------------------------------------------------------------------------
(* The channels of a peer *)

\* mapChannelUpdateReset: a channel that was open is taken away; the peer learns of it
\* unless it is the peer who hung up, or who closed it
hangupFor(c, role, error) ==
  IF phase(c, role) = "open" /\ error \notin {"peer hung up", "channel closed"}
  THEN {[to |-> other(c), call |-> callOf(c, role)]} ELSE {}
without(seq, k) ==
  IF seq # <<>> /\ Last(seq) = k THEN Front(seq)
  ELSE IF k \in Range(seq) THEN RemoveAt(seq, CHOOSE i \in DOMAIN seq : seq[i] = k) ELSE seq
setChannelClosed(c, role) ==
  LET k == callOf(c, role)
      left == without(channels[c], k)
  IN IF phase(c, role) # "open" THEN UNCHANGED <<channels, rtc, interest>>
     ELSE /\ channels' = [channels EXCEPT ![c] = left]
          /\ IF Last(channels[c]) = k
             THEN /\ rtc' = [rtc EXCEPT ![c] = IF left = <<>> THEN None ELSE Last(left)]
                  /\ interest' = [interest EXCEPT ![c] = @ \/ left = <<>>]
             ELSE UNCHANGED <<rtc, interest>>

\* The connection of a call is closed by whoever has it last: before it was emitted, makeCalleeAnswer$ or
\* makeCallerObservable, and then makeDataChannelObservable
closed(c, role) == live \ {<<c, callOf(c, role)>>}

ends(c, role, next) ==
  /\ setChannelClosed(c, role)
  /\ pipe' = [pipe EXCEPT ![c][role] = next]
  /\ live' = closed(c, role)

\* manageCallerChannel: retryWhen; manageCalleeChannel: catchError
Delayed(c) == [phase |-> "delay", call |-> None, retries |-> pipe[c]["caller"].retries + 1]
fails(c, role) == ends(c, role, IF role = "caller" /\ pipe[c][role].retries < maxRetries THEN Delayed(c) ELSE Idle)

-----------------------------------------------------------------------------
(* Calling *)

\* getAddressOfInterest$: a message to send, a transfer received, a channel monitored
wants(c) ==
  /\ happens /\ ~interest[c] /\ phase(c, "caller") = "idle" /\ interest' = [interest EXCEPT ![c] = TRUE]
  /\ UNCHANGED <<pipe, channels, rtc, inbox, hangups, live, transport>>

asking(c, retries) == [pipe EXCEPT ![c]["caller"] = [phase |-> "asking", call |-> None, retries |-> retries]]
\* Mutant of call: an open channel makes no difference
callAnyway(c) ==
  /\ interest[c] /\ interest' = [interest EXCEPT ![c] = FALSE]
  /\ IF phase(c, "caller") = "idle" THEN pipe' = asking(c, 0) ELSE UNCHANGED pipe
  /\ UNCHANGED <<channels, rtc, inbox, hangups, live, transport, events>>

\* rtcConnectionManagerEpic: a call is ignored while a channel is open, or another call goes on
call(c) ==
  /\ interest[c] /\ interest' = [interest EXCEPT ![c] = FALSE]
  /\ IF channels[c] = <<>> /\ phase(c, "caller") = "idle" THEN pipe' = asking(c, 0) ELSE UNCHANGED pipe
  /\ UNCHANGED <<channels, rtc, inbox, hangups, live, transport, events>>
retry(c) ==
  /\ phase(c, "caller") = "delay"
  /\ pipe' = asking(c, pipe[c]["caller"].retries)
  /\ UNCHANGED <<channels, rtc, interest, inbox, hangups, live, transport, events>>

\* makeCallerCall$, makeCallerObservable: the offer is sent to a peer with the capability
offer(c) ==
  /\ phase(c, "caller") = "asking"
  /\ \E i \in Id : isFree([from |-> c, id |-> i])
  /\ LET k == [from |-> c, id |-> CHOOSE i \in Id : isFree([from |-> c, id |-> i])]
     IN /\ pipe' = [pipe EXCEPT ![c]["caller"].phase = "offered", ![c]["caller"].call = k]
        /\ live' = live \cup {<<c, k>>}
        /\ \/ send(c, "offer", k) /\ UNCHANGED events
           \/ happens /\ UNCHANGED inbox
  /\ UNCHANGED <<channels, rtc, interest, hangups, transport>>
noPresence(c) ==
  /\ phase(c, "caller") = "asking" /\ happens /\ fails(c, "caller")
  /\ forget /\ UNCHANGED <<inbox, hangups>>

\* makeOfferWaitAnswer: the time for the channel to open runs from the answer to messageSend.request,
\* whatever it is, or from the peer's answer
offerSent(c) ==
  /\ phase(c, "caller") = "offered"
  /\ pipe' = [pipe EXCEPT ![c]["caller"].phase = "opening"]
  /\ UNCHANGED <<channels, rtc, interest, inbox, hangups, live, transport, events>>
receiveAnswer(c) ==
  /\ inbox[c] # <<>> /\ Head(inbox[c]).type = "answer"
  /\ inbox' = [inbox EXCEPT ![c] = Tail(@)]
  /\ LET k == Head(inbox[c]).call
     IN IF callOf(c, "caller") = k /\ phase(c, "caller") \in {"offered", "opening"}
        THEN become(k, "answered") /\ pipe' = [pipe EXCEPT ![c]["caller"].phase = "opening"]
        ELSE UNCHANGED <<transport, pipe>>
  /\ UNCHANGED <<channels, rtc, interest, hangups, live, events>>

-----------------------------------------------------------------------------
(* Being called *)

\* manageCalleeChannel: a new offer takes the place of whatever came from the last one
receiveOffer(c) ==
  /\ inbox[c] # <<>> /\ Head(inbox[c]).type = "offer"
  /\ inbox' = [inbox EXCEPT ![c] = Tail(@)]
  /\ LET k == Head(inbox[c]).call
     IN /\ setChannelClosed(c, "callee") /\ hangups' = hangups \cup hangupFor(c, "callee", "none")
        /\ pipe' = [pipe EXCEPT ![c]["callee"] = [phase |-> "ringing", call |-> k, retries |-> 0]]
        /\ live' = closed(c, "callee") \cup {<<c, k>>}
  /\ forget /\ UNCHANGED events

\* makeCalleeAnswer$
answer(c) ==
  /\ phase(c, "callee") = "ringing"
  /\ pipe' = [pipe EXCEPT ![c]["callee"].phase = "answering"]
  /\ \/ send(c, "answer", callOf(c, "callee")) /\ UNCHANGED <<transport, events>>
     \/ happens /\ become(callOf(c, "callee"), "lost") /\ UNCHANGED inbox
  /\ UNCHANGED <<channels, rtc, interest, hangups, live>>
datachannel(c) ==
  /\ phase(c, "callee") = "answering" /\ transport[callOf(c, "callee")] = "up"
  /\ pipe' = [pipe EXCEPT ![c]["callee"].phase = "opening"]
  /\ UNCHANGED <<channels, rtc, interest, inbox, hangups, live, transport, events>>

-----------------------------------------------------------------------------
(* Data channels: makeDataChannelObservable *)

\* Mutant of open: the other role goes on
openBoth(c, role) ==
  /\ phase(c, role) = "opening" /\ transport[callOf(c, role)] = "up"
  /\ channels' = [channels EXCEPT ![c] = Append(@, callOf(c, role))]
  /\ rtc' = [rtc EXCEPT ![c] = callOf(c, role)]
  /\ pipe' = [pipe EXCEPT ![c][role].phase = "open"]
  /\ UNCHANGED <<interest, inbox, hangups, live, transport, events>>

\* Mutant of open: the connection of the other role isn't closed
openLeavesConnection(c, role) ==
  /\ phase(c, role) = "opening" /\ transport[callOf(c, role)] = "up" /\ phase(c, opposite(role)) # "open"
  /\ channels' = [channels EXCEPT ![c] = Append(@, callOf(c, role))]
  /\ rtc' = [rtc EXCEPT ![c] = callOf(c, role)]
  /\ pipe' = [pipe EXCEPT ![c][role].phase = "open", ![c][opposite(role)] = Idle]
  /\ UNCHANGED <<interest, inbox, hangups, live, transport, events>>
\* The channel is put, which ends the other role (takeUntil), whose channel, if any, is taken away
open(c, role) ==
  /\ phase(c, role) = "opening" /\ transport[callOf(c, role)] = "up"
  /\ LET k == callOf(c, role)
         loser == callOf(c, opposite(role))
         wasOpen == phase(c, opposite(role)) = "open"
     IN /\ channels' = [channels EXCEPT ![c] = IF wasOpen THEN without(Append(@, k), loser) ELSE Append(@, k)]
        /\ hangups' = IF wasOpen THEN hangups \cup {[to |-> other(c), call |-> loser]} ELSE hangups
        /\ rtc' = [rtc EXCEPT ![c] = k]
        /\ pipe' = [pipe EXCEPT ![c][role].phase = "open", ![c][opposite(role)] = Idle]
        /\ live' = closed(c, opposite(role))
  /\ forget /\ UNCHANGED <<interest, inbox, events>>

isListening(c, role) == phase(c, role) \in {"opening", "open"}
\* Events of the connection: it is closed at the other end, or it fails
peerClosed(c, role) ==
  /\ isListening(c, role)
  /\ \/ transport[callOf(c, role)] = "failed"
     \/ transport[callOf(c, role)] \in {"answered", "up"} /\ <<other(c), callOf(c, role)>> \notin live
  /\ fails(c, role)
  /\ \E error \in {"channel closed", "RTC: connection failed"} : hangups' = hangups \cup hangupFor(c, role, error)
  /\ forget /\ UNCHANGED <<inbox, events>>
\* Mutant of timesOut: the time runs from the answer
timesOutAnswered(c, role) ==
  /\ phase(c, role) = "opening" /\ transport[callOf(c, role)] \in {"answered", "up", "failed"}
  /\ fails(c, role)
  /\ forget /\ UNCHANGED <<inbox, hangups, events>>
\* timeoutFirst(httpTimeout): there is nobody at the other end, or it takes too long
timesOut(c, role) ==
  /\ phase(c, role) = "opening"
  /\ \/ transport[callOf(c, role)] \in {"failed", "lost"} /\ UNCHANGED events
     \/ <<other(c), callOf(c, role)>> \notin live /\ ~isSignalled(callOf(c, role)) /\ UNCHANGED events
     \/ happens
  /\ fails(c, role)
  /\ forget /\ UNCHANGED <<inbox, hangups>>
\* It isn't heard before the channel is listened to
hears(c, role, h) == isListening(c, role) /\ callOf(c, role) = h.call
receiveHangup(c, h) ==
  /\ h \in hangups /\ h.to = c /\ hangups' = hangups \ {h}
  /\ \/ \E role \in Role : hears(c, role, h) /\ fails(c, role)
     \/ /\ ~\E role \in Role : hears(c, role, h)
        /\ UNCHANGED <<channels, rtc, interest, pipe, live>>
  /\ forget /\ UNCHANGED <<inbox, events>>

\* Other capabilities: what was set up with the last ones, as caller, as callee or as both, ends
changeCaps(c) ==
  /\ happens
  /\ \E roles \in SUBSET {r \in Role : phase(c, r) \notin {"idle", "delay"}} :
       /\ \E role \in roles : /\ \A r \in roles : phase(c, r) = "open" => r = role
                              /\ setChannelClosed(c, role)
       /\ pipe' = [pipe EXCEPT ![c] = [r \in Role |-> IF r \in roles THEN Idle ELSE @[r]]]
       /\ live' = live \ {<<c, callOf(c, r)>> : r \in roles}
       /\ hangups' = hangups \cup UNION {hangupFor(c, r, "none") : r \in roles}
  /\ forget /\ UNCHANGED inbox

-----------------------------------------------------------------------------
(* The browsers *)
connect(k) ==
  /\ transport[k] = "answered" /\ {<<c, k>> : c \in Client} \subseteq live
  /\ become(k, "up")
  /\ UNCHANGED <<pipe, channels, rtc, interest, inbox, hangups, live, events>>
break(k) ==
  /\ transport[k] \in {"answered", "up"} /\ happens /\ become(k, "failed")
  /\ UNCHANGED <<pipe, channels, rtc, interest, inbox, hangups, live>>

Calling(c) == retry(c) \/ offer(c) \/ offerSent(c)
Receive(c) == receiveOffer(c) \/ receiveAnswer(c)
Events(c, role) == open(c, role) \/ peerClosed(c, role) \/ timesOut(c, role)
Next ==
  \/ \E c \in Client :
       \/ wants(c) \/ call(c) \/ Calling(c) \/ noPresence(c) \/ answer(c) \/ Receive(c)
       \/ datachannel(c) \/ changeCaps(c)
       \/ \E role \in Role : Events(c, role)
       \/ \E h \in hangups : receiveHangup(c, h)
  \/ \E k \in Call : connect(k) \/ break(k)

Spec == Init /\ [][Next]_vars

\* What is sent arrives, or fails; connections are made, and closings and delays are seen
FairSpec ==
  /\ Spec
  /\ \A c \in Client : /\ WF_vars(call(c)) /\ WF_vars(Calling(c)) /\ WF_vars(answer(c))
                       /\ WF_vars(Receive(c)) /\ WF_vars(datachannel(c))
                       /\ WF_vars(\E h \in hangups : receiveHangup(c, h))
                       /\ \A role \in Role : WF_vars(Events(c, role))
  /\ \A k \in Call : WF_vars(connect(k))

-----------------------------------------------------------------------------
(* Properties *)

\* Messages go through the newest channel, there is no other one, and it is open
\* (mapChannelUpdateReset, manageCallerChannel, manageCalleeChannel).
OneChannel ==
  \A c \in Client :
    /\ Len(channels[c]) <= 1
    /\ rtc[c] = IF channels[c] = <<>> THEN None ELSE Last(channels[c])
    /\ rtc[c] # None => <<c, rtc[c]>> \in live

\* Once two clients are connected and no other call is left, that stays so until the connection fails or
\* somebody's capabilities change (rtcConnectionManagerEpic: no calls while a channel is open).
Connected(k) == rtc["a"] = k /\ rtc["b"] = k
OnlyCall(k) ==
  /\ Connected(k)
  /\ \A c \in Client : inbox[c] = <<>> /\ \A role \in Role : callOf(c, role) = k \/ pipe[c][role] = Idle
ConnectionKept == [][\A k \in Call : OnlyCall(k) => OnlyCall(k)' \/ transport[k] = "failed" \/ events' # events]_vars

\* A call doesn't hang: it ends open, or fails (timeoutFirst).
CallsEnd ==
  \A c \in Client : phase(c, "caller") \in {"asking", "offered", "opening"} ~> phase(c, "caller") \in {"idle", "delay", "open"}

\* Two clients don't go on with different channels.
Disagree == rtc["a"] # rtc["b"] /\ rtc["a"] # None /\ rtc["b"] # None
Agreement == Disagree ~> ~Disagree

=============================================================================
