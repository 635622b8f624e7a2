-------------------------- MODULE TransportProofs --------------------------
(***************************************************************************)
(* Calls: a client never has two open data channels with a peer, however   *)
(* the calls of both race, fail and hang up; and what two clients agree on *)
(* isn't undone by a late message of the race.                             *)
(*                                                                         *)
(* Transport: messages of one type to one peer leave in the order in which *)
(* they were queued, and a Delivered is signed again only when forgotten.  *)
(***************************************************************************)
EXTENDS Calls, Transport, SequenceTheorems, FiniteSetTheorems, WellFoundedInduction, TLAPS

-----------------------------------------------------------------------------
(***************************************************************************)
(* Calls: what holds in every state                                        *)
(***************************************************************************)

Phase == {"idle", "asking", "offered", "ringing", "answering", "opening", "open", "delay"}
Pipe == [phase : Phase, call : Call \cup {None}, retries : Nat]
Message == [type : {"offer", "answer"}, call : Call]

TypeOK ==
  /\ pipe \in [Client -> [Role -> Pipe]]
  /\ channels \in [Client -> Seq(Call)] /\ rtc \in [Client -> Call \cup {None}]
  /\ inbox \in [Client -> Seq(Message)]
  /\ \A h \in hangups : h.to \in Client /\ h.call \in Call
  /\ events \in Nat

\* Who makes the call that a client has in a role
maker(c, role) == IF role = "caller" THEN c ELSE other(c)

\* Only a client's own calls are offered to its peer, once, and not again
offers(c) == {i \in 1..Len(inbox[c]) : inbox[c][i].type = "offer"}
OffersAreNew ==
  \A c \in Client : \A i \in offers(c) :
     /\ inbox[c][i].call.from = other(c)
     /\ <<c, inbox[c][i].call>> \notin live
     /\ \A j \in offers(c) : inbox[c][j].call = inbox[c][i].call => j = i

\* Who hung up has nothing more of the call, and won't be offered it
HangupsAreLast ==
  \A h \in hangups :
     /\ <<other(h.to), h.call>> \notin live
     /\ \A i \in offers(other(h.to)) : inbox[other(h.to)][i].call # h.call

\* The call of a role is one of its own, whose connection isn't closed
hasCall(p) == p.phase \notin {"idle", "asking", "delay"} => p.call # None
CallsAreLive ==
  \A c \in Client, role \in Role :
     /\ hasCall(pipe[c][role])
     /\ callOf(c, role) # None => callOf(c, role).from = maker(c, role) /\ <<c, callOf(c, role)>> \in live

\* Only the role that won has a channel, and messages go through it
OneOpen ==
  \A c \in Client :
     /\ \A role \in Role : phase(c, role) = "open" =>
          /\ phase(c, opposite(role)) # "open"
          /\ channels[c] = <<callOf(c, role)>> /\ rtc[c] = callOf(c, role)
     /\ (\A role \in Role : phase(c, role) # "open") => channels[c] = <<>> /\ rtc[c] = None

IInv == TypeOK /\ OffersAreNew /\ HangupsAreLast /\ CallsAreLive /\ OneOpen

-----------------------------------------------------------------------------
(***************************************************************************)
(* Facts about clients, roles and channels                                 *)
(***************************************************************************)

LEMMA OtherIs ==
  /\ other("a") = "b" /\ other("b") = "a"
  /\ \A c \in Client : other(c) \in Client /\ other(c) # c /\ other(other(c)) = c
<1>1. other("a") = "b" /\ other("b") = "a"
  BY DEF other, Client
<1> QED
  BY <1>1 DEF Client

LEMMA OppositeIs ==
  /\ opposite("caller") = "callee" /\ opposite("callee") = "caller"
  /\ \A r \in Role : opposite(r) \in Role /\ opposite(r) # r /\ \A q \in Role : q = r \/ q = opposite(r)
<1>1. opposite("caller") = "callee" /\ opposite("callee") = "caller"
  BY DEF opposite, Role
<1> QED
  BY <1>1 DEF Role

\* The only channel is taken away, or the older one of two (mapChannelUpdateReset)
LEMMA WithoutIs ==
  ASSUME NEW k, NEW l, k # l
  PROVE  without(<<k>>, k) = <<>> /\ without(Append(<<l>>, k), l) = <<k>>
<1>1. without(<<k>>, k) = <<>>
  BY DEF without, Last, Front
<1>2. without(Append(<<l>>, k), l) = <<k>>
  <2> DEFINE seq == Append(<<l>>, k)
  <2>1. Len(seq) = 2 /\ seq[1] = l /\ seq[2] = k /\ seq # <<>> /\ DOMAIN seq = 1..2
    OBVIOUS
  <2>2. Last(seq) # l /\ l \in Range(seq)
    BY <2>1 DEF Last, Range
  <2>3. (CHOOSE i \in DOMAIN seq : seq[i] = l) = 1
    BY <2>1
  <2>4. RemoveAt(seq, 1) = SubSeq(seq, 1, 0) \o SubSeq(seq, 2, 2)
    BY <2>1 DEF RemoveAt
  <2> HIDE DEF seq
  <2>5. seq \in Seq({k, l})
    BY DEF seq
  <2> DEFINE none == SubSeq(seq, 1, 0) one == SubSeq(seq, 2, 2)
  <2>6. none \in Seq({k, l}) /\ one \in Seq({k, l}) /\ Len(none) = 0 /\ Len(one) = 1 /\ one[1] = k
    BY <2>1, <2>5
  <2> HIDE DEF none, one
  <2>7. none \o one \in Seq({k, l}) /\ Len(none \o one) = 1 /\ (none \o one)[1] = k
    BY <2>6
  <2>8. none \o one = <<k>>
    <3>1. <<k>> \in Seq({k, l}) /\ Len(<<k>>) = 1 /\ <<k>>[1] = k
      OBVIOUS
    <3>2. \A i \in 1..Len(none \o one) : (none \o one)[i] = <<k>>[i]
      BY <2>7, <3>1
    <3> QED
      BY <2>7, <3>1, <3>2, SeqEqual
  <2>9. RemoveAt(seq, 1) = <<k>>
    BY <2>4, <2>8 DEF none, one
  <2> QED
    BY <2>2, <2>3, <2>9 DEF without, seq
<1> QED
  BY <1>1, <1>2

\* The calls of the two roles are different ones
LEMMA RolesDiffer ==
  ASSUME CallsAreLive, NEW c \in Client, NEW r \in Role, callOf(c, r) # None
  PROVE  callOf(c, opposite(r)) # callOf(c, r)
<1>1. callOf(c, r).from = maker(c, r)
  BY DEF CallsAreLive
<1>2. callOf(c, opposite(r)) # None => callOf(c, opposite(r)).from = maker(c, opposite(r))
  BY OppositeIs DEF CallsAreLive
<1>3. maker(c, r) # maker(c, opposite(r))
  BY OtherIs, OppositeIs DEF maker, Role
<1> QED
  BY <1>1, <1>2, <1>3

-----------------------------------------------------------------------------
(***************************************************************************)
(* What the steps have in common                                           *)
(***************************************************************************)

\* A role ends, or begins with a new call, and its channel is taken away
LEMMA EndsKeeps ==
  ASSUME IInv, NEW c \in Client, NEW role \in Role, NEW next \in Pipe,
         setChannelClosed(c, role) \/ (phase(c, role) # "open" /\ UNCHANGED <<channels, rtc>>),
         pipe' = [pipe EXCEPT ![c][role] = next],
         next.phase # "open", hasCall(next),
         closed(c, role) \subseteq live',
         next.call # None => next.call.from = maker(c, role) /\ <<c, next.call>> \in live'
  PROVE  /\ pipe' \in [Client -> [Role -> Pipe]] /\ channels' \in [Client -> Seq(Call)]
         /\ rtc' \in [Client -> Call \cup {None}]
         /\ CallsAreLive' /\ OneOpen'
<1>1. pipe \in [Client -> [Role -> Pipe]] /\ channels \in [Client -> Seq(Call)] /\ rtc \in [Client -> Call \cup {None}]
  BY DEF IInv, TypeOK
<1>2. /\ \A d \in Client, r \in Role : d # c \/ r # role => pipe'[d][r] = pipe[d][r]
      /\ pipe'[c][role] = next
      /\ pipe' \in [Client -> [Role -> Pipe]]
  BY <1>1
<1>3. /\ \A d \in Client : d # c => channels'[d] = channels[d] /\ rtc'[d] = rtc[d]
      /\ channels' \in [Client -> Seq(Call)] /\ rtc' \in [Client -> Call \cup {None}]
      /\ IF phase(c, role) = "open" THEN channels'[c] = <<>> /\ rtc'[c] = None
         ELSE channels'[c] = channels[c] /\ rtc'[c] = rtc[c]
  <2>1. CASE phase(c, role) # "open"
    BY <2>1, <1>1 DEF setChannelClosed
  <2>2. CASE phase(c, role) = "open"
    <3>1. channels[c] = <<callOf(c, role)>>
      BY <2>2 DEF IInv, OneOpen
    <3>2. without(channels[c], callOf(c, role)) = <<>> /\ Last(channels[c]) = callOf(c, role)
      BY <3>1 DEF without, Last, Front
    <3>3. channels' = [channels EXCEPT ![c] = <<>>] /\ rtc' = [rtc EXCEPT ![c] = None]
      BY <2>2, <3>2 DEF setChannelClosed
    <3> QED
      BY <2>2, <3>3, <1>1
  <2> QED
    BY <2>1, <2>2
<1>4. CallsAreLive'
  <2> SUFFICES ASSUME NEW d \in Client, NEW r \in Role
               PROVE  /\ hasCall(pipe'[d][r])
                      /\ pipe'[d][r].call # None => pipe'[d][r].call.from = maker(d, r) /\ <<d, pipe'[d][r].call>> \in live'
    BY DEF CallsAreLive, callOf
  <2>1. CASE d = c /\ r = role
    BY <2>1, <1>2
  <2>2. CASE d # c \/ r # role
    <3>1. pipe'[d][r] = pipe[d][r] /\ hasCall(pipe[d][r])
      BY <1>2, <2>2 DEF IInv, CallsAreLive
    <3>2. ASSUME pipe[d][r].call # None
          PROVE  pipe[d][r].call.from = maker(d, r) /\ <<d, pipe[d][r].call>> \in live
      BY <3>2 DEF IInv, CallsAreLive, callOf
    <3>3. ASSUME pipe[d][r].call # None PROVE <<d, pipe[d][r].call>> # <<c, callOf(c, role)>>
      <4>1. CASE d # c
        BY <4>1
      <4>2. CASE d = c /\ r # role
        <5>1. role = opposite(r)
          BY <4>2, OppositeIs
        <5>2. callOf(c, opposite(r)) # callOf(c, r)
          BY <3>3, <4>2, RolesDiffer DEF IInv, callOf
        <5> QED
          BY <5>1, <5>2, <4>2 DEF callOf
      <4> QED
        BY <4>1, <4>2, <2>2
    <3> QED
      BY <3>1, <3>2, <3>3 DEF closed
  <2> QED
    BY <2>1, <2>2
<1>5. OneOpen'
  <2> SUFFICES ASSUME NEW d \in Client
               PROVE  /\ \A r \in Role : pipe'[d][r].phase = "open" =>
                           /\ pipe'[d][opposite(r)].phase # "open"
                           /\ channels'[d] = <<pipe'[d][r].call>> /\ rtc'[d] = pipe'[d][r].call
                      /\ (\A r \in Role : pipe'[d][r].phase # "open") => channels'[d] = <<>> /\ rtc'[d] = None
    BY DEF OneOpen, phase, callOf
  <2>0. /\ \A r \in Role : pipe[d][r].phase = "open" =>
             /\ pipe[d][opposite(r)].phase # "open"
             /\ channels[d] = <<pipe[d][r].call>> /\ rtc[d] = pipe[d][r].call
        /\ (\A r \in Role : pipe[d][r].phase # "open") => channels[d] = <<>> /\ rtc[d] = None
    BY DEF IInv, OneOpen, phase, callOf
  <2>1. CASE d # c
    BY <2>0, <2>1, <1>2, <1>3, OppositeIs
  <2>2. CASE d = c /\ phase(c, role) = "open"
    BY <2>0, <2>2, <1>2, <1>3, OppositeIs DEF phase
  <2>3. CASE d = c /\ phase(c, role) # "open"
    BY <2>0, <2>3, <1>2, <1>3, OppositeIs DEF phase
  <2> QED
    BY <2>1, <2>2, <2>3
<1> QED
  BY <1>2, <1>3, <1>4, <1>5

\* Connections are closed, and those who close them hang up
LEMMA HangingUpKeeps ==
  ASSUME IInv, inbox' = inbox, live' \subseteq live,
         \A h \in hangups' : \/ h \in hangups
                             \/ /\ h.to \in Client /\ h.call \in Call
                                /\ <<other(h.to), h.call>> \in live \ live'
  PROVE  OffersAreNew' /\ HangupsAreLast' /\ \A h \in hangups' : h.to \in Client /\ h.call \in Call
<1>1. OffersAreNew'
  BY DEF IInv, OffersAreNew, offers
<1>2. \A h \in hangups' : h.to \in Client /\ h.call \in Call
  BY DEF IInv, TypeOK
<1>3. HangupsAreLast'
  <2> SUFFICES ASSUME NEW h \in hangups'
               PROVE  /\ <<other(h.to), h.call>> \notin live'
                      /\ \A i \in offers(other(h.to)) : inbox[other(h.to)][i].call # h.call
    BY DEF HangupsAreLast, offers
  <2>1. CASE h \in hangups
    BY <2>1 DEF IInv, HangupsAreLast
  <2>2. CASE h \notin hangups
    BY <2>2, <1>2, OtherIs DEF IInv, OffersAreNew
  <2> QED
    BY <2>1, <2>2
<1> QED
  BY <1>1, <1>2, <1>3

\* Whoever takes an open channel away closes its connection
LEMMA HangupFor ==
  ASSUME IInv, NEW c \in Client, NEW role \in Role, NEW error, NEW h \in hangupFor(c, role, error)
  PROVE  h.to \in Client /\ h.call \in Call /\ h.call = callOf(c, role) /\ other(h.to) = c /\ <<c, h.call>> \in live
<1>1. h = [to |-> other(c), call |-> callOf(c, role)] /\ phase(c, role) = "open"
  BY DEF hangupFor
<1>2. pipe[c][role] \in Pipe
  BY DEF IInv, TypeOK
<1>3. callOf(c, role) # None /\ callOf(c, role) \in Call
  BY <1>1, <1>2 DEF IInv, CallsAreLive, hasCall, phase, callOf, Pipe
<1>4. <<c, callOf(c, role)>> \in live
  BY <1>3 DEF IInv, CallsAreLive
<1> QED
  BY <1>1, <1>3, <1>4, OtherIs

\* A step of a role that neither opens nor ends it
LEMMA GoesOnKeeps ==
  ASSUME IInv, NEW c \in Client, NEW role \in Role, NEW next \in Pipe,
         pipe' = [pipe EXCEPT ![c][role] = next], UNCHANGED <<channels, rtc>>, live \subseteq live',
         phase(c, role) # "open", next.phase # "open", hasCall(next),
         next.call # None => next.call.from = maker(c, role) /\ <<c, next.call>> \in live'
  PROVE  /\ pipe' \in [Client -> [Role -> Pipe]] /\ channels' \in [Client -> Seq(Call)]
         /\ rtc' \in [Client -> Call \cup {None}]
         /\ CallsAreLive' /\ OneOpen'
BY EndsKeeps DEF closed

-----------------------------------------------------------------------------
(***************************************************************************)
(* The invariant is inductive                                              *)
(***************************************************************************)

LEMMA InitInv == Init => IInv
<1> SUFFICES ASSUME Init PROVE IInv
  OBVIOUS
<1>1. TypeOK
  <2>1. events \in Nat /\ Idle \in Pipe
    BY CallsAssumption DEF Init, Idle, Pipe, Phase
  <2> QED
    BY <2>1 DEF Init, TypeOK
<1>2. OffersAreNew /\ HangupsAreLast
  BY DEF Init, OffersAreNew, HangupsAreLast, offers
<1>3. CallsAreLive /\ OneOpen
  BY OppositeIs DEF Init, CallsAreLive, OneOpen, phase, callOf, hasCall, Idle
<1> QED
  BY <1>1, <1>2, <1>3 DEF IInv

\* Why a role ends
Error == {"none", "channel closed", "RTC: connection failed"}

\* A role ends, and its peer may be told
LEMMA OverKeeps ==
  ASSUME IInv, NEW c \in Client, NEW role \in Role, NEW next \in Pipe, ends(c, role, next),
         next.phase \in {"idle", "delay"}, next.call = None,
         inbox' = inbox, \/ hangups' \subseteq hangups
                         \/ \E error \in Error : hangups' = hangups \cup hangupFor(c, role, error),
         events' \in Nat
  PROVE  IInv'
<1>1. /\ setChannelClosed(c, role) /\ pipe' = [pipe EXCEPT ![c][role] = next]
      /\ live' = live \ {<<c, callOf(c, role)>>}
  BY DEF ends, closed
<1>2. /\ pipe' \in [Client -> [Role -> Pipe]] /\ channels' \in [Client -> Seq(Call)]
      /\ rtc' \in [Client -> Call \cup {None}]
      /\ CallsAreLive' /\ OneOpen'
  BY <1>1, EndsKeeps DEF closed, hasCall
<1>3. OffersAreNew' /\ HangupsAreLast' /\ \A h \in hangups' : h.to \in Client /\ h.call \in Call
  BY <1>1, HangupFor, HangingUpKeeps
<1> QED
  BY <1>2, <1>3 DEF IInv, TypeOK

LEMMA FailsKeeps ==
  ASSUME IInv, NEW c \in Client, NEW role \in Role, fails(c, role),
         inbox' = inbox, \/ hangups' \subseteq hangups
                         \/ \E error \in Error : hangups' = hangups \cup hangupFor(c, role, error),
         events' \in Nat
  PROVE  IInv'
<1>1. pipe[c]["caller"].retries \in Nat
  BY DEF IInv, TypeOK, Pipe, Role
<1>2. PICK next \in {Idle, Delayed(c)} : ends(c, role, next)
  BY DEF fails
<1>3. Idle \in Pipe /\ Delayed(c) \in Pipe
  BY <1>1 DEF Idle, Delayed, Pipe, Phase
<1>4. next \in Pipe /\ next.phase \in {"idle", "delay"} /\ next.call = None
  BY <1>2, <1>3 DEF Idle, Delayed
<1> QED
  BY <1>2, <1>4, OverKeeps

\* Steps of a caller before its channel opens
LEMMA CallerKeeps ==
  ASSUME IInv, NEW c \in Client, call(c) \/ retry(c) \/ offerSent(c)
  PROVE  IInv'
<1>1. UNCHANGED <<channels, rtc, inbox, hangups, live, events>>
  BY DEF call, retry, offerSent
<1>2. OffersAreNew' /\ HangupsAreLast' /\ \A h \in hangups' : h.to \in Client /\ h.call \in Call
  BY <1>1, HangingUpKeeps DEF IInv, TypeOK
<1>3. CASE pipe' = pipe
  BY <1>1, <1>2, <1>3 DEF IInv, TypeOK, CallsAreLive, OneOpen, phase, callOf
<1>4. CASE pipe' # pipe
  <2>1. pipe[c]["caller"] \in Pipe /\ pipe \in [Client -> [Role -> Pipe]] /\ "caller" \in Role
    BY DEF IInv, TypeOK, Role
  <2>2. /\ hasCall(pipe[c]["caller"])
        /\ callOf(c, "caller") # None => callOf(c, "caller").from = maker(c, "caller") /\ <<c, callOf(c, "caller")>> \in live
    BY <2>1 DEF IInv, CallsAreLive
  <2>3. PICK next \in Pipe : /\ pipe' = [pipe EXCEPT ![c]["caller"] = next]
                             /\ next.phase # "open" /\ hasCall(next) /\ phase(c, "caller") # "open"
                             /\ next.call # None => next.call = callOf(c, "caller")
    <3> DEFINE asks(r) == [phase |-> "asking", call |-> None, retries |-> r]
               opens == [pipe[c]["caller"] EXCEPT !.phase = "opening"]
    <3>1. \A r \in Nat : asks(r) \in Pipe /\ hasCall(asks(r)) /\ asks(r).phase # "open" /\ asks(r).call = None
      BY DEF Pipe, Phase, hasCall
    <3>2. CASE call(c)
      BY <3>1, <3>2, <1>4 DEF call, asking
    <3>3. CASE retry(c)
      <4>1. pipe[c]["caller"].retries \in Nat
        BY <2>1 DEF Pipe
      <4> QED
        BY <3>1, <3>3, <4>1 DEF retry, asking
    <3>4. CASE offerSent(c)
      <4>1. pipe' = [pipe EXCEPT ![c]["caller"] = opens] /\ phase(c, "caller") = "offered"
        BY <3>4, <2>1 DEF offerSent
      <4>2. opens \in Pipe /\ opens.phase = "opening" /\ opens.call = callOf(c, "caller")
        BY <2>1 DEF Pipe, Phase, callOf
      <4>3. hasCall(opens)
        BY <4>1, <4>2, <2>2 DEF hasCall, phase, callOf
      <4> QED
        BY <4>1, <4>2, <4>3
    <3> QED
      BY <3>2, <3>3, <3>4
  <2>4. /\ pipe' \in [Client -> [Role -> Pipe]] /\ channels' \in [Client -> Seq(Call)]
        /\ rtc' \in [Client -> Call \cup {None}]
        /\ CallsAreLive' /\ OneOpen'
    BY <2>1, <2>2, <2>3, <1>1, GoesOnKeeps
  <2> QED
    BY <1>1, <1>2, <2>4 DEF IInv, TypeOK
<1> QED
  BY <1>3, <1>4

LEMMA OfferKeeps ==
  ASSUME IInv, NEW c \in Client, offer(c)
  PROVE  IInv'
<1>1. PICK i \in Id : isFree([from |-> c, id |-> i])
  BY DEF offer
<1> DEFINE k == [from |-> c, id |-> CHOOSE j \in Id : isFree([from |-> c, id |-> j])]
           next == [pipe[c]["caller"] EXCEPT !.phase = "offered", !.call = k]
<1>2. isFree(k) /\ k \in Call /\ k.from = c /\ k # None
  BY <1>1 DEF Call, None
<1>3. /\ phase(c, "caller") = "asking"
      /\ pipe' = [pipe EXCEPT ![c]["caller"].phase = "offered", ![c]["caller"].call = k]
      /\ live' = live \cup {<<c, k>>}
      /\ send(c, "offer", k) \/ inbox' = inbox
      /\ UNCHANGED <<channels, rtc, hangups>> /\ (events' = events \/ happens)
  BY DEF offer
<1> HIDE DEF k
<1>4. /\ pipe \in [Client -> [Role -> Pipe]] /\ "caller" \in Role /\ pipe[c]["caller"] \in Pipe
      /\ inbox \in [Client -> Seq(Message)] /\ other(c) \in Client /\ other(c) # c
  BY OtherIs DEF IInv, TypeOK, Role
<1>5. /\ \A d \in Client : \A j \in 1..Len(inbox[d]) : inbox[d][j].call # k
      /\ \A d \in Client : <<d, k>> \notin live
      /\ \A h \in hangups : h.call # k
  <2>1. \A d \in Client : DOMAIN inbox[d] = 1..Len(inbox[d])
    BY <1>4
  <2> QED
    BY <1>2, <2>1 DEF isFree, isSignalled
<1>6. /\ pipe' \in [Client -> [Role -> Pipe]] /\ channels' \in [Client -> Seq(Call)]
      /\ rtc' \in [Client -> Call \cup {None}]
      /\ CallsAreLive' /\ OneOpen'
  <2>1. pipe' = [pipe EXCEPT ![c]["caller"] = next]
    BY <1>3, <1>4
  <2>2. next \in Pipe /\ next.phase = "offered" /\ next.call = k
    BY <1>2, <1>4 DEF Pipe, Phase
  <2> HIDE DEF next
  <2>3. hasCall(next) /\ next.call.from = maker(c, "caller") /\ <<c, next.call>> \in live' /\ phase(c, "caller") # "open"
    BY <2>2, <1>2, <1>3 DEF hasCall, maker
  <2> QED
    BY <2>1, <2>2, <2>3, <1>3, <1>4, GoesOnKeeps
<1>7. /\ inbox' \in [Client -> Seq(Message)]
      /\ \A d \in Client : d # other(c) => inbox'[d] = inbox[d]
      /\ \/ inbox'[other(c)] = inbox[other(c)]
         \/ inbox'[other(c)] = Append(inbox[other(c)], [type |-> "offer", call |-> k])
  <2>1. [type |-> "offer", call |-> k] \in Message
    BY <1>2 DEF Message
  <2>2. Append(inbox[other(c)], [type |-> "offer", call |-> k]) \in Seq(Message)
    BY <2>1, <1>4
  <2>3. CASE inbox' = inbox
    BY <2>3, <1>4
  <2>4. CASE inbox' = [inbox EXCEPT ![other(c)] = Append(inbox[other(c)], [type |-> "offer", call |-> k])]
    BY <2>2, <2>4, <1>4
  <2> QED
    BY <2>3, <2>4, <1>3 DEF send
<1>8. \A d \in Client : \A j \in offers(d)' : \/ j \in offers(d) /\ inbox'[d][j] = inbox[d][j]
                                              \/ /\ d = other(c) /\ j = Len(inbox[d]) + 1
                                                 /\ inbox'[d][j].call = k
  <2> TAKE d \in Client
  <2>1. CASE inbox'[d] = inbox[d]
    BY <2>1 DEF offers
  <2>2. CASE d = other(c) /\ inbox'[d] = Append(inbox[d], [type |-> "offer", call |-> k])
    BY <2>2, <1>4 DEF offers
  <2> QED
    BY <2>1, <2>2, <1>7
<1>9. \A d \in Client : \A j \in offers(d) : j \in 1..Len(inbox[d]) /\ inbox[d][j].call # k
  BY <1>5 DEF offers
<1>10. OffersAreNew'
  <2> SUFFICES ASSUME NEW d \in Client, NEW j \in offers(d)'
               PROVE  /\ inbox'[d][j].call.from = other(d)
                      /\ <<d, inbox'[d][j].call>> \notin live'
                      /\ \A l \in offers(d)' : inbox'[d][l].call = inbox'[d][j].call => l = j
    BY DEF OffersAreNew
  <2>1. CASE j \in offers(d) /\ inbox'[d][j] = inbox[d][j]
    BY <2>1, <1>3, <1>8, <1>9 DEF IInv, OffersAreNew
  <2>2. CASE d = other(c) /\ j = Len(inbox[d]) + 1 /\ inbox'[d][j].call = k
    BY <2>2, <1>2, <1>3, <1>4, <1>5, <1>8, <1>9, OtherIs
  <2> QED
    BY <2>1, <2>2, <1>8
<1>11. HangupsAreLast' /\ \A h \in hangups' : h.to \in Client /\ h.call \in Call
  <2> SUFFICES ASSUME NEW h \in hangups
               PROVE  /\ <<other(h.to), h.call>> \notin live'
                      /\ \A j \in offers(other(h.to))' : inbox'[other(h.to)][j].call # h.call
    BY <1>3 DEF HangupsAreLast, IInv, TypeOK
  <2>1. h.to \in Client /\ h.call # k /\ other(h.to) \in Client
    BY <1>5, OtherIs DEF IInv, TypeOK
  <2>2. <<other(h.to), h.call>> \notin live /\ \A j \in offers(other(h.to)) : inbox[other(h.to)][j].call # h.call
    BY DEF IInv, HangupsAreLast
  <2> QED
    BY <2>1, <2>2, <1>3, <1>8
<1>12. events' \in Nat
  BY <1>3 DEF happens, IInv, TypeOK
<1> QED
  BY <1>6, <1>7, <1>10, <1>11, <1>12 DEF IInv, TypeOK

\* What is left of the inbox when its first message is read
LEMMA TailKeeps ==
  ASSUME IInv, NEW c \in Client, inbox[c] # <<>>, inbox' = [inbox EXCEPT ![c] = Tail(@)]
  PROVE  /\ inbox' \in [Client -> Seq(Message)] /\ Head(inbox[c]) \in Message
         /\ \A d \in Client : d # c => inbox'[d] = inbox[d] /\ offers(d)' = offers(d)
         /\ \A j \in offers(c)' : j + 1 \in offers(c) /\ j \in Nat /\ j # 0 /\ inbox'[c][j] = inbox[c][j + 1]
         /\ Head(inbox[c]).type = "offer" => 1 \in offers(c) /\ inbox[c][1] = Head(inbox[c])
<1>1. inbox \in [Client -> Seq(Message)] /\ inbox[c] \in Seq(Message)
  BY DEF IInv, TypeOK
<1>2. inbox' \in [Client -> Seq(Message)] /\ Head(inbox[c]) \in Message /\ inbox'[c] = Tail(inbox[c])
  BY <1>1
<1>3. \A d \in Client : d # c => inbox'[d] = inbox[d] /\ offers(d)' = offers(d)
  BY <1>1 DEF offers
<1>4. \A j \in offers(c)' : j + 1 \in offers(c) /\ j \in Nat /\ j # 0 /\ inbox'[c][j] = inbox[c][j + 1]
  BY <1>1, <1>2 DEF offers
<1>5. Head(inbox[c]).type = "offer" => 1 \in offers(c) /\ inbox[c][1] = Head(inbox[c])
  BY <1>1 DEF offers
<1> QED
  BY <1>2, <1>3, <1>4, <1>5

LEMMA ReceiveOfferKeeps ==
  ASSUME IInv, NEW c \in Client, receiveOffer(c)
  PROVE  IInv'
<1> DEFINE k == Head(inbox[c]).call
           next == [phase |-> "ringing", call |-> k, retries |-> 0]
<1>1. /\ inbox[c] # <<>> /\ Head(inbox[c]).type = "offer" /\ inbox' = [inbox EXCEPT ![c] = Tail(@)]
      /\ setChannelClosed(c, "callee") /\ hangups' = hangups \cup hangupFor(c, "callee", "none")
      /\ pipe' = [pipe EXCEPT ![c]["callee"] = next]
      /\ live' = (live \ {<<c, callOf(c, "callee")>>}) \cup {<<c, k>>}
      /\ events' = events
  BY DEF receiveOffer, closed
<1>0. /\ inbox' \in [Client -> Seq(Message)] /\ Head(inbox[c]) \in Message
      /\ \A d \in Client : d # c => inbox'[d] = inbox[d] /\ offers(d)' = offers(d)
      /\ \A j \in offers(c)' : j + 1 \in offers(c) /\ j \in Nat /\ j # 0 /\ inbox'[c][j] = inbox[c][j + 1]
      /\ Head(inbox[c]).type = "offer" => 1 \in offers(c) /\ inbox[c][1] = Head(inbox[c])
  BY <1>1, TailKeeps
<1>2. /\ 1 \in offers(c) /\ inbox[c][1].call = k /\ k \in Call /\ k.from = other(c) /\ <<c, k>> \notin live
      /\ "callee" \in Role
  BY <1>1, <1>0 DEF Message, IInv, OffersAreNew, Role
<1>3. k # None /\ next \in Pipe /\ next.call = k /\ next.phase = "ringing" /\ k.from = maker(c, "callee")
  BY <1>2, OtherIs DEF Call, None, Client, Pipe, Phase, maker
<1> HIDE DEF k, next
<1>4. /\ pipe' \in [Client -> [Role -> Pipe]] /\ channels' \in [Client -> Seq(Call)]
      /\ rtc' \in [Client -> Call \cup {None}]
      /\ CallsAreLive' /\ OneOpen'
  BY <1>1, <1>2, <1>3, EndsKeeps DEF closed, hasCall
<1>5. \A j \in offers(c)' : inbox'[c][j].call # k /\ \E l \in offers(c) : l = j + 1 /\ inbox'[c][j] = inbox[c][l] /\ j \in Nat
  <2> TAKE j \in offers(c)'
  <2>1. j + 1 \in offers(c) /\ j + 1 # 1 /\ inbox'[c][j] = inbox[c][j + 1] /\ j \in Nat
    BY <1>0
  <2>2. inbox[c][j + 1].call # k
    BY <2>1, <1>2 DEF IInv, OffersAreNew
  <2> QED
    BY <2>1, <2>2
<1>6. OffersAreNew'
  <2> SUFFICES ASSUME NEW d \in Client, NEW j \in offers(d)'
               PROVE  /\ inbox'[d][j].call.from = other(d)
                      /\ <<d, inbox'[d][j].call>> \notin live'
                      /\ \A l \in offers(d)' : inbox'[d][l].call = inbox'[d][j].call => l = j
    BY DEF OffersAreNew
  <2>1. CASE d # c
    BY <2>1, <1>1, <1>0 DEF IInv, OffersAreNew
  <2>2. CASE d = c
    <3>1. PICK l \in offers(c) : l = j + 1 /\ inbox'[c][j] = inbox[c][l] /\ j \in Nat
      BY <2>2, <1>5
    <3>2. inbox[c][l].call.from = other(c) /\ <<c, inbox[c][l].call>> \notin live
      BY DEF IInv, OffersAreNew
    <3>3. ASSUME NEW i \in offers(c)', inbox'[c][i].call = inbox'[c][j].call PROVE i = j
      <4>1. PICK o \in offers(c) : o = i + 1 /\ inbox'[c][i] = inbox[c][o] /\ i \in Nat
        BY <1>5
      <4>2. o = l
        BY <4>1, <3>1, <3>3 DEF IInv, OffersAreNew
      <4> QED
        BY <4>1, <4>2, <3>1
    <3>4. inbox'[d][j].call.from = other(d)
      BY <2>2, <3>1, <3>2
    <3>5. <<d, inbox'[d][j].call>> \notin live'
      <4>1. inbox'[c][j].call # k
        BY <2>2, <1>5
      <4> QED
        BY <4>1, <2>2, <3>1, <3>2, <1>1
    <3> QED
      BY <2>2, <3>3, <3>4, <3>5
  <2> QED
    BY <2>1, <2>2
<1>7. ASSUME NEW h \in hangups'
      PROVE  h.to \in Client /\ h.call \in Call
  BY <1>1, <1>2, HangupFor DEF IInv, TypeOK
<1>8. HangupsAreLast'
  <2> SUFFICES ASSUME NEW h \in hangups'
               PROVE  /\ <<other(h.to), h.call>> \notin live'
                      /\ \A j \in offers(other(h.to))' : inbox'[other(h.to)][j].call # h.call
    BY DEF HangupsAreLast
  <2>1. other(h.to) \in Client
    BY <1>7, OtherIs
  <2>2. CASE h \in hangups
    <3>1. <<other(h.to), h.call>> \notin live /\ \A j \in offers(other(h.to)) : inbox[other(h.to)][j].call # h.call
      BY <2>2 DEF IInv, HangupsAreLast
    <3>2. <<other(h.to), h.call>> # <<c, k>>
      BY <3>1, <1>2
    <3>3. \A j \in offers(other(h.to))' : \E l \in offers(other(h.to)) : inbox'[other(h.to)][j] = inbox[other(h.to)][l]
      <4>1. CASE other(h.to) = c
        BY <4>1, <1>5
      <4>2. CASE other(h.to) # c
        BY <4>2, <2>1, <1>0
      <4> QED
        BY <4>1, <4>2
    <3> QED
      BY <3>1, <3>2, <3>3, <1>1
  <2>3. CASE h \in hangupFor(c, "callee", "none")
    <3>1. h.call = callOf(c, "callee") /\ other(h.to) = c /\ <<c, h.call>> \in live
      BY <2>3, <1>2, HangupFor
    <3>2. h.call # k
      BY <3>1, <1>2
    <3>3. <<c, h.call>> \notin live'
      BY <3>1, <3>2, <1>1
    <3>4. \A j \in offers(c)' : inbox'[c][j].call # h.call
      BY <3>1, <1>5 DEF IInv, OffersAreNew
    <3> QED
      BY <3>1, <3>3, <3>4
  <2> QED
    BY <2>2, <2>3, <1>1
<1>9. inbox' \in [Client -> Seq(Message)] /\ events' \in Nat
  BY <1>1, <1>0 DEF IInv, TypeOK
<1> QED
  BY <1>4, <1>6, <1>7, <1>8, <1>9 DEF IInv, TypeOK

\* No offer comes
LEMMA SameOffers ==
  ASSUME IInv, UNCHANGED <<hangups, live>>,
         \A d \in Client : \A j \in offers(d)' : \E l \in offers(d) : inbox'[d][j] = inbox[d][l]
  PROVE  HangupsAreLast' /\ \A h \in hangups' : h.to \in Client /\ h.call \in Call
<1> SUFFICES ASSUME NEW h \in hangups
             PROVE  /\ <<other(h.to), h.call>> \notin live
                    /\ \A j \in offers(other(h.to))' : inbox'[other(h.to)][j].call # h.call
                    /\ h.to \in Client /\ h.call \in Call
  BY DEF HangupsAreLast
<1>1. h.to \in Client /\ h.call \in Call /\ other(h.to) \in Client
  BY OtherIs DEF IInv, TypeOK
<1> QED
  BY <1>1 DEF IInv, HangupsAreLast

LEMMA AnswerKeeps ==
  ASSUME IInv, NEW c \in Client, answer(c) \/ datachannel(c) \/ receiveAnswer(c)
  PROVE  IInv'
<1> DEFINE goes(role, to) ==
             pipe' = [pipe EXCEPT ![c][role] = [pipe[c][role] EXCEPT !.phase = to]]
<1>1. /\ pipe \in [Client -> [Role -> Pipe]] /\ inbox \in [Client -> Seq(Message)] /\ events \in Nat
      /\ \A r \in Role : pipe[c][r] \in Pipe
      /\ other(c) \in Client /\ other(c) # c /\ "caller" \in Role /\ "callee" \in Role
  BY OtherIs DEF IInv, TypeOK, Role
<1>2. UNCHANGED <<channels, rtc, hangups, live>> /\ events' \in Nat
  BY <1>1 DEF answer, datachannel, receiveAnswer, happens
<1>3. \/ UNCHANGED pipe
      \/ \E role \in Role, to \in {"answering", "opening"} :
           phase(c, role) \in {"ringing", "answering", "offered", "opening"} /\ goes(role, to)
  <2>1. CASE answer(c)
    <3>1. goes("callee", "answering") /\ phase(c, "callee") = "ringing"
      BY <2>1, <1>1 DEF answer
    <3> QED
      BY <3>1, <1>1
  <2>2. CASE datachannel(c)
    <3>1. goes("callee", "opening") /\ phase(c, "callee") = "answering"
      BY <2>2, <1>1 DEF datachannel
    <3> QED
      BY <3>1, <1>1
  <2>3. CASE receiveAnswer(c)
    <3>1. \/ UNCHANGED pipe
          \/ goes("caller", "opening") /\ phase(c, "caller") \in {"offered", "opening"}
      BY <2>3, <1>1 DEF receiveAnswer
    <3> QED
      BY <3>1, <1>1
  <2> QED
    BY <2>1, <2>2, <2>3
<1>4. /\ pipe' \in [Client -> [Role -> Pipe]] /\ channels' \in [Client -> Seq(Call)]
      /\ rtc' \in [Client -> Call \cup {None}]
      /\ CallsAreLive' /\ OneOpen'
  <2>1. CASE UNCHANGED pipe
    BY <2>1, <1>2 DEF IInv, TypeOK, CallsAreLive, OneOpen, phase, callOf
  <2>2. ASSUME NEW role \in Role, NEW to \in {"answering", "opening"}, goes(role, to),
               phase(c, role) \in {"ringing", "answering", "offered", "opening"}
        PROVE  <1>4
    <3> DEFINE next == [pipe[c][role] EXCEPT !.phase = to]
    <3>1. next \in Pipe /\ next.phase = to /\ next.call = callOf(c, role)
      BY <1>1 DEF Pipe, Phase, callOf
    <3>2. pipe' = [pipe EXCEPT ![c][role] = next]
      BY <2>2
    <3> HIDE DEF next
    <3>3. /\ callOf(c, role) # None
          /\ callOf(c, role).from = maker(c, role) /\ <<c, callOf(c, role)>> \in live
      BY <2>2 DEF IInv, CallsAreLive, hasCall, phase, callOf
    <3> QED
      BY <3>1, <3>2, <3>3, <1>2, <2>2, GoesOnKeeps DEF hasCall
  <2> QED
    BY <1>3, <2>1, <2>2
<1>5. CASE answer(c) \/ datachannel(c)
  <2>1. \/ inbox' = inbox
        \/ \E m \in Message : m.type = "answer" /\ inbox' = [inbox EXCEPT ![other(c)] = Append(inbox[other(c)], m)]
    <3>1. CASE datachannel(c) \/ inbox' = inbox
      BY <3>1 DEF datachannel
    <3>2. CASE answer(c) /\ inbox' # inbox
      <4>1. pipe[c]["callee"] \in Pipe /\ callOf(c, "callee") # None
        BY <3>2, <1>1 DEF answer, IInv, CallsAreLive, hasCall, phase, callOf
      <4>2. [type |-> "answer", call |-> callOf(c, "callee")] \in Message
        BY <4>1 DEF Pipe, Message, callOf
      <4> QED
        BY <3>2, <4>2 DEF answer, send
    <3> QED
      BY <1>5, <3>1, <3>2
  <2>2. /\ inbox' \in [Client -> Seq(Message)]
        /\ \A d \in Client : offers(d)' = offers(d) /\ \A i \in offers(d) : inbox'[d][i] = inbox[d][i]
    <3>1. CASE inbox' = inbox
      BY <3>1, <1>1 DEF offers
    <3>2. ASSUME NEW m \in Message, m.type = "answer",
                 inbox' = [inbox EXCEPT ![other(c)] = Append(inbox[other(c)], m)]
          PROVE  <2>2
      <4>1. Append(inbox[other(c)], m) \in Seq(Message)
        BY <1>1
      <4>2. inbox' \in [Client -> Seq(Message)]
        BY <3>2, <4>1, <1>1
      <4>3. ASSUME NEW d \in Client
            PROVE  offers(d)' = offers(d) /\ \A i \in offers(d) : inbox'[d][i] = inbox[d][i]
        <5>1. CASE d # other(c)
          BY <5>1, <3>2, <1>1 DEF offers
        <5>2. CASE d = other(c)
          <6>1. inbox'[d] = Append(inbox[d], m) /\ inbox[d] \in Seq(Message)
            BY <5>2, <3>2, <1>1
          <6> QED
            BY <6>1, <3>2 DEF offers
        <5> QED
          BY <5>1, <5>2
      <4> QED
        BY <4>2, <4>3
    <3> QED
      BY <2>1, <3>1, <3>2
  <2>3. OffersAreNew'
    <3> SUFFICES ASSUME NEW d \in Client, NEW j \in offers(d)'
                 PROVE  /\ inbox'[d][j].call.from = other(d)
                        /\ <<d, inbox'[d][j].call>> \notin live
                        /\ \A l \in offers(d)' : inbox'[d][l].call = inbox'[d][j].call => l = j
      BY <1>2 DEF OffersAreNew
    <3>1. offers(d)' = offers(d) /\ \A i \in offers(d) : inbox'[d][i] = inbox[d][i]
      BY <2>2
    <3> QED
      BY <3>1 DEF IInv, OffersAreNew
  <2>4. HangupsAreLast' /\ \A h \in hangups' : h.to \in Client /\ h.call \in Call
    BY <2>2, <1>2, SameOffers
  <2> QED
    BY <1>2, <1>4, <2>2, <2>3, <2>4 DEF IInv, TypeOK
<1>6. CASE receiveAnswer(c)
  <2>1. /\ inbox' \in [Client -> Seq(Message)]
        /\ \A d \in Client : d # c => inbox'[d] = inbox[d] /\ offers(d)' = offers(d)
        /\ \A j \in offers(c)' : j + 1 \in offers(c) /\ j \in Nat /\ j # 0 /\ inbox'[c][j] = inbox[c][j + 1]
    BY <1>6, TailKeeps DEF receiveAnswer
  <2>2. OffersAreNew'
    <3> SUFFICES ASSUME NEW d \in Client, NEW j \in offers(d)'
                 PROVE  /\ inbox'[d][j].call.from = other(d)
                        /\ <<d, inbox'[d][j].call>> \notin live
                        /\ \A l \in offers(d)' : inbox'[d][l].call = inbox'[d][j].call => l = j
      BY <1>2 DEF OffersAreNew
    <3>1. CASE d # c
      BY <3>1, <2>1 DEF IInv, OffersAreNew
    <3>2. CASE d = c
      <4>1. j + 1 \in offers(c) /\ j \in Nat /\ inbox'[c][j] = inbox[c][j + 1]
        BY <3>2, <2>1
      <4>2. ASSUME NEW l \in offers(c)', inbox'[c][l].call = inbox'[c][j].call PROVE l = j
        <5>1. l + 1 \in offers(c) /\ l \in Nat /\ inbox'[c][l] = inbox[c][l + 1]
          BY <2>1
        <5>2. l + 1 = j + 1
          BY <4>1, <4>2, <5>1 DEF IInv, OffersAreNew
        <5> QED
          BY <4>1, <5>1, <5>2
      <4>3. inbox[c][j + 1].call.from = other(c) /\ <<c, inbox[c][j + 1].call>> \notin live
        BY <4>1 DEF IInv, OffersAreNew
      <4> QED
        BY <3>2, <4>1, <4>2, <4>3
    <3> QED
      BY <3>1, <3>2
  <2>3. HangupsAreLast' /\ \A h \in hangups' : h.to \in Client /\ h.call \in Call
    <3>1. \A d \in Client : \A j \in offers(d)' : \E l \in offers(d) : inbox'[d][j] = inbox[d][l]
      BY <2>1
    <3> QED
      BY <3>1, <1>2, SameOffers
  <2> QED
    BY <1>2, <1>4, <2>1, <2>2, <2>3 DEF IInv, TypeOK
<1> QED
  BY <1>5, <1>6

LEMMA OpenKeeps ==
  ASSUME IInv, NEW c \in Client, NEW role \in Role, open(c, role)
  PROVE  IInv'
<1> DEFINE k == callOf(c, role)
           opp == opposite(role)
           loser == callOf(c, opp)
<1>1. /\ phase(c, role) = "opening"
      /\ channels' = [channels EXCEPT ![c] = IF phase(c, opp) = "open" THEN without(Append(@, k), loser) ELSE Append(@, k)]
      /\ hangups' = IF phase(c, opp) = "open" THEN hangups \cup {[to |-> other(c), call |-> loser]} ELSE hangups
      /\ rtc' = [rtc EXCEPT ![c] = k]
      /\ pipe' = [pipe EXCEPT ![c][role].phase = "open", ![c][opp] = Idle]
      /\ live' = live \ {<<c, loser>>}
      /\ inbox' = inbox /\ events' = events
  BY DEF open, closed
<1>2. /\ pipe \in [Client -> [Role -> Pipe]] /\ channels \in [Client -> Seq(Call)] /\ rtc \in [Client -> Call \cup {None}]
      /\ opp \in Role /\ opp # role /\ \A r \in Role : r = role \/ r = opp
      /\ opposite(opp) = role
      /\ pipe[c][role] \in Pipe /\ pipe[c][opp] \in Pipe
  BY OppositeIs DEF IInv, TypeOK
<1>3. k # None /\ k \in Call /\ k.from = maker(c, role) /\ <<c, k>> \in live
  BY <1>1, <1>2 DEF IInv, CallsAreLive, hasCall, phase, callOf, Pipe
<1>4. loser # k
  BY <1>3, RolesDiffer DEF IInv
<1>5. Idle \in Pipe /\ Idle.phase = "idle" /\ Idle.call = None
  BY DEF Idle, Pipe, Phase
<1>6. /\ pipe' \in [Client -> [Role -> Pipe]]
      /\ pipe'[c][role].phase = "open" /\ pipe'[c][role].call = k /\ pipe'[c][opp] = Idle
      /\ \A d \in Client : d # c => pipe'[d] = pipe[d]
  <2> DEFINE nowOpen == [pipe[c][role] EXCEPT !.phase = "open"]
  <2>1. nowOpen \in Pipe /\ nowOpen.phase = "open" /\ nowOpen.call = k
    BY <1>2 DEF Pipe, Phase, callOf
  <2>2. pipe' = [pipe EXCEPT ![c] = [pipe[c] EXCEPT ![role] = nowOpen, ![opp] = Idle]]
    BY <1>1, <1>2
  <2> HIDE DEF nowOpen
  <2> QED
    BY <2>1, <2>2, <1>2, <1>5
<1>7. channels'[c] = <<k>> /\ channels' \in [Client -> Seq(Call)]
      /\ \A d \in Client : d # c => channels'[d] = channels[d]
  <2>1. CASE phase(c, opp) = "open"
    <3>1. channels[c] = <<loser>>
      BY <2>1, <1>2 DEF IInv, OneOpen
    <3>2. without(Append(<<loser>>, k), loser) = <<k>>
      BY <1>4, WithoutIs
    <3>3. channels' = [channels EXCEPT ![c] = <<k>>]
      BY <2>1, <3>1, <3>2, <1>1
    <3> QED
      BY <3>3, <1>2, <1>3
  <2>2. CASE phase(c, opp) # "open"
    <3>1. channels[c] = <<>>
      BY <2>2, <1>1, <1>2 DEF IInv, OneOpen
    <3>2. channels' = [channels EXCEPT ![c] = Append(<<>>, k)] /\ Append(<<>>, k) = <<k>>
      BY <2>2, <3>1, <1>1
    <3> QED
      BY <3>2, <1>2, <1>3
  <2> QED
    BY <2>1, <2>2
<1>8. rtc' \in [Client -> Call \cup {None}] /\ rtc'[c] = k /\ \A d \in Client : d # c => rtc'[d] = rtc[d]
  BY <1>1, <1>2, <1>3
<1>9. CallsAreLive'
  <2> SUFFICES ASSUME NEW d \in Client, NEW r \in Role
               PROVE  /\ hasCall(pipe'[d][r])
                      /\ pipe'[d][r].call # None => pipe'[d][r].call.from = maker(d, r) /\ <<d, pipe'[d][r].call>> \in live'
    BY DEF CallsAreLive, callOf
  <2>1. CASE d # c
    BY <2>1, <1>1, <1>6 DEF IInv, CallsAreLive, callOf
  <2>2. CASE d = c /\ r = role
    BY <2>2, <1>1, <1>3, <1>4, <1>6 DEF hasCall
  <2>3. CASE d = c /\ r = opp
    BY <2>3, <1>5, <1>6 DEF hasCall
  <2> QED
    BY <2>1, <2>2, <2>3, <1>2
<1>10. OneOpen'
  <2> SUFFICES ASSUME NEW d \in Client
               PROVE  /\ \A r \in Role : pipe'[d][r].phase = "open" =>
                           /\ pipe'[d][opposite(r)].phase # "open"
                           /\ channels'[d] = <<pipe'[d][r].call>> /\ rtc'[d] = pipe'[d][r].call
                      /\ (\A r \in Role : pipe'[d][r].phase # "open") => channels'[d] = <<>> /\ rtc'[d] = None
    BY DEF OneOpen, phase, callOf
  <2>0. /\ \A r \in Role : pipe[d][r].phase = "open" =>
             /\ pipe[d][opposite(r)].phase # "open"
             /\ channels[d] = <<pipe[d][r].call>> /\ rtc[d] = pipe[d][r].call
        /\ (\A r \in Role : pipe[d][r].phase # "open") => channels[d] = <<>> /\ rtc[d] = None
    BY DEF IInv, OneOpen, phase, callOf
  <2>1. CASE d # c
    BY <2>0, <2>1, <1>6, <1>7, <1>8
  <2>2. CASE d = c
    BY <2>2, <1>2, <1>5, <1>6, <1>7, <1>8
  <2> QED
    BY <2>1, <2>2
<1>11. ASSUME NEW h \in hangups', h \notin hangups
       PROVE  h.to \in Client /\ h.call \in Call /\ <<other(h.to), h.call>> \in live \ live'
  <2>1. h = [to |-> other(c), call |-> loser] /\ phase(c, opp) = "open"
    BY <1>1, <1>11
  <2>2. loser # None /\ loser \in Call /\ <<c, loser>> \in live
    BY <2>1, <1>2 DEF IInv, CallsAreLive, hasCall, phase, callOf, Pipe
  <2> QED
    BY <2>1, <2>2, <1>1, OtherIs
<1>12. OffersAreNew' /\ HangupsAreLast' /\ \A h \in hangups' : h.to \in Client /\ h.call \in Call
  BY <1>1, <1>11, HangingUpKeeps
<1> QED
  BY <1>1, <1>6, <1>7, <1>8, <1>9, <1>10, <1>12 DEF IInv, TypeOK

\* What was set up with other capabilities ends in one role or in both, of which one at most is open
LEMMA ChangeCapsKeeps ==
  ASSUME IInv, NEW c \in Client, changeCaps(c), events' \in Nat
  PROVE  IInv'
<1>0. PICK roles \in SUBSET Role :
        /\ \E role \in roles : /\ \A r \in roles : phase(c, r) = "open" => r = role
                               /\ setChannelClosed(c, role)
        /\ pipe' = [pipe EXCEPT ![c] = [r \in Role |-> IF r \in roles THEN Idle ELSE @[r]]]
        /\ live' = live \ {<<c, callOf(c, r)>> : r \in roles}
        /\ hangups' = hangups \cup UNION {hangupFor(c, r, "none") : r \in roles}
        /\ inbox' = inbox
  BY DEF changeCaps
<1>1. PICK role \in roles : /\ \A r \in roles : phase(c, r) = "open" => r = role
                            /\ setChannelClosed(c, role)
  BY <1>0
<1>2. pipe \in [Client -> [Role -> Pipe]] /\ channels \in [Client -> Seq(Call)] /\ rtc \in [Client -> Call \cup {None}]
  BY DEF IInv, TypeOK
<1>3. Idle \in Pipe /\ Idle.phase = "idle" /\ Idle.call = None
  BY DEF Idle, Pipe, Phase
<1>4. /\ \A d \in Client, r \in Role : d # c \/ r \notin roles => pipe'[d][r] = pipe[d][r]
      /\ \A r \in roles : pipe'[c][r] = Idle
      /\ pipe' \in [Client -> [Role -> Pipe]]
  BY <1>0, <1>2, <1>3
<1>5. /\ \A d \in Client : d # c => channels'[d] = channels[d] /\ rtc'[d] = rtc[d]
      /\ channels' \in [Client -> Seq(Call)] /\ rtc' \in [Client -> Call \cup {None}]
      /\ IF phase(c, role) = "open" THEN channels'[c] = <<>> /\ rtc'[c] = None
         ELSE channels'[c] = channels[c] /\ rtc'[c] = rtc[c]
  <2>1. CASE phase(c, role) # "open"
    BY <2>1, <1>1, <1>2 DEF setChannelClosed
  <2>2. CASE phase(c, role) = "open"
    <3>1. channels[c] = <<callOf(c, role)>>
      BY <2>2, <1>1 DEF IInv, OneOpen
    <3>2. without(channels[c], callOf(c, role)) = <<>> /\ Last(channels[c]) = callOf(c, role)
      BY <3>1 DEF without, Last, Front
    <3>3. channels' = [channels EXCEPT ![c] = <<>>] /\ rtc' = [rtc EXCEPT ![c] = None]
      BY <2>2, <3>2, <1>1 DEF setChannelClosed
    <3> QED
      BY <2>2, <3>3, <1>2
  <2> QED
    BY <2>1, <2>2
<1>6. CallsAreLive'
  <2> SUFFICES ASSUME NEW d \in Client, NEW r \in Role
               PROVE  /\ hasCall(pipe'[d][r])
                      /\ pipe'[d][r].call # None => pipe'[d][r].call.from = maker(d, r) /\ <<d, pipe'[d][r].call>> \in live'
    BY DEF CallsAreLive, callOf
  <2>1. CASE d = c /\ r \in roles
    BY <2>1, <1>3, <1>4 DEF hasCall
  <2>2. CASE d # c \/ r \notin roles
    <3>1. pipe'[d][r] = pipe[d][r] /\ hasCall(pipe[d][r])
      BY <1>4, <2>2 DEF IInv, CallsAreLive
    <3>2. ASSUME pipe[d][r].call # None
          PROVE  pipe[d][r].call.from = maker(d, r) /\ <<d, pipe[d][r].call>> \in live
      BY <3>2 DEF IInv, CallsAreLive, callOf
    <3>3. ASSUME pipe[d][r].call # None, NEW q \in roles PROVE <<d, pipe[d][r].call>> # <<c, callOf(c, q)>>
      <4>1. CASE d # c
        BY <4>1
      <4>2. CASE d = c /\ r \notin roles
        <5>1. q = opposite(r)
          BY <4>2, OppositeIs
        <5>2. callOf(c, opposite(r)) # callOf(c, r)
          BY <3>3, <4>2, RolesDiffer DEF IInv, callOf
        <5> QED
          BY <5>1, <5>2, <4>2 DEF callOf
      <4> QED
        BY <4>1, <4>2, <2>2
    <3> QED
      BY <3>1, <3>2, <3>3, <1>0
  <2> QED
    BY <2>1, <2>2
<1>7. OneOpen'
  <2> SUFFICES ASSUME NEW d \in Client
               PROVE  /\ \A r \in Role : pipe'[d][r].phase = "open" =>
                           /\ pipe'[d][opposite(r)].phase # "open"
                           /\ channels'[d] = <<pipe'[d][r].call>> /\ rtc'[d] = pipe'[d][r].call
                      /\ (\A r \in Role : pipe'[d][r].phase # "open") => channels'[d] = <<>> /\ rtc'[d] = None
    BY DEF OneOpen, phase, callOf
  <2>0. /\ \A r \in Role : pipe[d][r].phase = "open" =>
             /\ pipe[d][opposite(r)].phase # "open"
             /\ channels[d] = <<pipe[d][r].call>> /\ rtc[d] = pipe[d][r].call
        /\ (\A r \in Role : pipe[d][r].phase # "open") => channels[d] = <<>> /\ rtc[d] = None
    BY DEF IInv, OneOpen, phase, callOf
  <2>1. CASE d # c
    BY <2>0, <2>1, <1>4, <1>5, OppositeIs
  <2>2. CASE d = c /\ phase(c, role) = "open"
    <3>1. \A r \in Role : pipe'[c][r].phase # "open"
      <4> TAKE r \in Role
      <4>1. CASE r \in roles
        BY <4>1, <1>3, <1>4
      <4>2. CASE r \notin roles
        BY <4>2, <2>0, <2>2, <1>1, <1>4, OppositeIs DEF phase
      <4> QED
        BY <4>1, <4>2
    <3> QED
      BY <3>1, <2>2, <1>5
  <2>3. CASE d = c /\ phase(c, role) # "open"
    <3>1. \A r \in Role : \/ pipe'[c][r] = pipe[c][r]
                          \/ pipe'[c][r].phase # "open" /\ pipe[c][r].phase # "open"
      <4> TAKE r \in Role
      <4>1. CASE r \in roles
        BY <4>1, <2>3, <1>1, <1>3, <1>4 DEF phase
      <4>2. CASE r \notin roles
        <5>1. pipe'[c][r] = pipe[c][r]
          BY <4>2, <1>4
        <5> QED
          BY <5>1
      <4> QED
        BY <4>1, <4>2
    <3> QED
      BY <3>1, <2>0, <2>3, <1>5, OppositeIs
  <2> QED
    BY <2>1, <2>2, <2>3
<1>8. OffersAreNew' /\ HangupsAreLast' /\ \A h \in hangups' : h.to \in Client /\ h.call \in Call
  <2>1. ASSUME NEW h \in hangups', h \notin hangups
        PROVE  h.to \in Client /\ h.call \in Call /\ <<other(h.to), h.call>> \in live \ live'
    <3>1. PICK r \in roles : h \in hangupFor(c, r, "none")
      BY <1>0, <2>1
    <3> QED
      BY <3>1, <1>0, HangupFor
  <2> QED
    BY <2>1, <1>0, HangingUpKeeps
<1> QED
  BY <1>0, <1>4, <1>5, <1>6, <1>7, <1>8 DEF IInv, TypeOK

\* Steps that only end roles
LEMMA EndingKeeps ==
  ASSUME IInv, NEW c \in Client,
         \/ noPresence(c) \/ changeCaps(c)
         \/ \E role \in Role : peerClosed(c, role) \/ timesOut(c, role)
         \/ \E h \in hangups : receiveHangup(c, h)
  PROVE  IInv'
<1>1. events \in Nat /\ events' \in Nat
  <2>1. events \in Nat
    BY DEF IInv, TypeOK
  <2>2. events' = events \/ happens
    BY DEF noPresence, changeCaps, peerClosed, timesOut, receiveHangup
  <2> QED
    BY <2>1, <2>2 DEF happens
<1>2. CASE noPresence(c)
  <2>1. "caller" \in Role /\ fails(c, "caller") /\ inbox' = inbox /\ hangups' = hangups
    BY <1>2 DEF noPresence, Role
  <2> QED
    BY <2>1, <1>1, FailsKeeps
<1>3. CASE changeCaps(c)
  BY <1>1, <1>3, ChangeCapsKeeps
<1>4. ASSUME NEW role \in Role, peerClosed(c, role) PROVE IInv'
  <2>1. fails(c, role) /\ inbox' = inbox
        /\ \E error \in Error : hangups' = hangups \cup hangupFor(c, role, error)
    <3>1. PICK error \in {"channel closed", "RTC: connection failed"} : hangups' = hangups \cup hangupFor(c, role, error)
      BY <1>4 DEF peerClosed
    <3>2. error \in Error
      BY <3>1 DEF Error
    <3> QED
      BY <1>4, <3>1, <3>2 DEF peerClosed
  <2> QED
    BY <2>1, <1>1, FailsKeeps
<1>5. ASSUME NEW role \in Role, timesOut(c, role) PROVE IInv'
  <2>1. fails(c, role) /\ inbox' = inbox /\ hangups' = hangups
    BY <1>5 DEF timesOut
  <2> QED
    BY <2>1, <1>1, FailsKeeps
<1>6. ASSUME NEW h \in hangups, receiveHangup(c, h) PROVE IInv'
  <2>1. hangups' = hangups \ {h} /\ inbox' = inbox /\ events' = events
    BY <1>6 DEF receiveHangup
  <2>2. CASE \E role \in Role : fails(c, role)
    BY <2>1, <2>2, <1>1, FailsKeeps
  <2>3. CASE UNCHANGED <<channels, rtc, interest, pipe, live>>
    <3>1. OffersAreNew' /\ HangupsAreLast' /\ \A g \in hangups' : g.to \in Client /\ g.call \in Call
      BY <2>1, <2>3, HangingUpKeeps
    <3> QED
      BY <3>1, <2>1, <2>3 DEF IInv, TypeOK, CallsAreLive, OneOpen, phase, callOf
  <2> QED
    BY <1>6, <2>2, <2>3 DEF receiveHangup
<1> QED
  BY <1>2, <1>3, <1>4, <1>5, <1>6

\* Steps that change none of what the invariant speaks of
LEMMA ElseKeeps ==
  ASSUME IInv, UNCHANGED <<pipe, channels, rtc, inbox, hangups, live>>, events' \in Nat
  PROVE  IInv'
<1>1. OffersAreNew' /\ HangupsAreLast' /\ \A h \in hangups' : h.to \in Client /\ h.call \in Call
  BY HangingUpKeeps
<1> QED
  BY <1>1 DEF IInv, TypeOK, CallsAreLive, OneOpen, phase, callOf

LEMMA NextInv == IInv /\ [Next]_vars => IInv'
<1> SUFFICES ASSUME IInv, [Next]_vars PROVE IInv'
  OBVIOUS
<1>0. events \in Nat
  BY DEF IInv, TypeOK
<1>1. CASE UNCHANGED vars
  BY <1>1, <1>0, ElseKeeps DEF vars
<1>2. ASSUME NEW c \in Client, wants(c) PROVE IInv'
  BY <1>2, <1>0, ElseKeeps DEF wants, happens
<1>3. ASSUME NEW k \in Call, connect(k) \/ break(k) PROVE IInv'
  BY <1>3, <1>0, ElseKeeps DEF connect, break, happens
<1>4. ASSUME NEW c \in Client, call(c) \/ Calling(c) PROVE IInv'
  BY <1>4, CallerKeeps, OfferKeeps DEF Calling
<1>5. ASSUME NEW c \in Client, answer(c) \/ Receive(c) \/ datachannel(c) PROVE IInv'
  BY <1>5, AnswerKeeps, ReceiveOfferKeeps DEF Receive
<1>6. ASSUME NEW c \in Client, \/ noPresence(c) \/ changeCaps(c)
                               \/ \E role \in Role : Events(c, role)
                               \/ \E h \in hangups : receiveHangup(c, h)
      PROVE  IInv'
  BY <1>6, EndingKeeps, OpenKeeps DEF Events
<1> QED
  BY <1>1, <1>2, <1>3, <1>4, <1>5, <1>6 DEF Next

-----------------------------------------------------------------------------
\* The invariant holds in every state of Calls.
THEOREM Invariant == Spec => []IInv
<1> QED
  BY InitInv, NextInv, PTL DEF Spec

\* Whatever calls race, fail, are retried and hung up, a client has at most one open data channel with its
\* peer, sends through it, and its connection isn't closed.
THEOREM ThereIsOneChannel == Spec => []OneChannel
<1>1. IInv => OneChannel
  <2> SUFFICES ASSUME IInv, NEW c \in Client
               PROVE  /\ Len(channels[c]) <= 1
                      /\ rtc[c] = IF channels[c] = <<>> THEN None ELSE Last(channels[c])
                      /\ rtc[c] # None => <<c, rtc[c]>> \in live
    BY DEF OneChannel
  <2>1. CASE \E role \in Role : phase(c, role) = "open"
    <3>1. PICK role \in Role : phase(c, role) = "open"
      BY <2>1
    <3>2. channels[c] = <<callOf(c, role)>> /\ rtc[c] = callOf(c, role)
      BY <3>1 DEF IInv, OneOpen
    <3>3. rtc[c] # None => <<c, rtc[c]>> \in live
      BY <3>2 DEF IInv, CallsAreLive
    <3> QED
      BY <3>2, <3>3 DEF Last
  <2>2. CASE \A role \in Role : phase(c, role) # "open"
    BY <2>2 DEF IInv, OneOpen
  <2> QED
    BY <2>1, <2>2
<1> QED
  BY <1>1, Invariant, PTL

\* What the only call of two connected clients is like: nobody signals, and nothing else goes on
LEMMA ConnectedIs ==
  ASSUME IInv, NEW k \in Call, OnlyCall(k)
  PROVE  /\ \A c \in Client : /\ channels[c] # <<>> /\ inbox[c] = <<>> /\ <<c, k>> \in live
                              /\ \A r \in Role : \/ phase(c, r) = "open" /\ callOf(c, r) = k
                                                 \/ pipe[c][r] = Idle
         /\ \A h \in hangups : h.call # k
<1>1. k # None
  BY DEF Call, None, Client
<1>2. ASSUME NEW c \in Client
      PROVE  /\ channels[c] # <<>> /\ inbox[c] = <<>> /\ <<c, k>> \in live
             /\ \A r \in Role : \/ phase(c, r) = "open" /\ callOf(c, r) = k
                                \/ pipe[c][r] = Idle
  <2>1. rtc[c] = k /\ inbox[c] = <<>> /\ \A r \in Role : callOf(c, r) = k \/ pipe[c][r] = Idle
    BY DEF OnlyCall, Connected, Client
  <2>2. PICK role \in Role : phase(c, role) = "open"
    BY <2>1, <1>1 DEF IInv, OneOpen
  <2>3. callOf(c, role) = k /\ channels[c] = <<k>>
    BY <2>1, <2>2 DEF IInv, OneOpen
  <2>4. <<c, k>> \in live
    BY <2>3, <1>1 DEF IInv, CallsAreLive
  <2>5. pipe[c][opposite(role)] = Idle
    BY <2>1, <2>3, <1>1, OppositeIs, RolesDiffer DEF IInv
  <2> QED
    BY <2>1, <2>2, <2>3, <2>4, <2>5, OppositeIs
<1>3. ASSUME NEW h \in hangups PROVE h.call # k
  BY <1>2, OtherIs DEF IInv, TypeOK, HangupsAreLast
<1> QED
  BY <1>2, <1>3

\* Of the steps that are left when two clients are connected, only a failure and events from outside matter
LEMMA ConnectionStep ==
  ASSUME IInv, [Next]_vars, NEW k \in Call, OnlyCall(k), events' = events, transport[k] # "failed"
  PROVE  OnlyCall(k)'
<1>1. /\ \A c \in Client : /\ channels[c] # <<>> /\ inbox[c] = <<>> /\ <<c, k>> \in live
                           /\ \A r \in Role : \/ phase(c, r) = "open" /\ callOf(c, r) = k
                                              \/ pipe[c][r] = Idle
      /\ \A h \in hangups : h.call # k
  BY ConnectedIs
<1>2. \A c \in Client, r \in Role : phase(c, r) \in {"open", "idle"}
  <2> TAKE c \in Client, r \in Role
  <2>1. phase(c, r) = "open" \/ pipe[c][r] = Idle
    BY <1>1
  <2>2. pipe[c][r] = Idle => phase(c, r) = "idle"
    BY DEF phase, Idle
  <2> QED
    BY <2>1, <2>2
<1>3. ~happens
  BY DEF happens, IInv, TypeOK
<1>4. UNCHANGED <<pipe, rtc, inbox>> => OnlyCall(k)'
  BY DEF OnlyCall, Connected, callOf
<1>5. "caller" \in Role /\ "callee" \in Role
  BY DEF Role
<1>6. CASE UNCHANGED vars
  BY <1>4, <1>6 DEF vars
<1>7. ASSUME NEW c \in Client
      PROVE  /\ ~wants(c) /\ ~Calling(c) /\ ~noPresence(c) /\ ~answer(c) /\ ~Receive(c)
             /\ ~datachannel(c) /\ ~changeCaps(c)
  BY <1>1, <1>2, <1>3, <1>5
  DEF wants, Calling, retry, offer, offerSent, noPresence, answer, Receive, receiveOffer, receiveAnswer,
      datachannel, changeCaps
<1>8. ASSUME NEW c \in Client, call(c) PROVE UNCHANGED <<pipe, rtc, inbox>>
  BY <1>1, <1>8 DEF call
<1>9. ASSUME NEW c \in Client, NEW role \in Role PROVE ~Events(c, role)
  <2>1. ~open(c, role) /\ ~timesOut(c, role)
    BY <1>2 DEF open, timesOut
  <2>2. ~peerClosed(c, role)
    <3>1. CASE phase(c, role) = "open" /\ callOf(c, role) = k
      BY <3>1, <1>1, OtherIs DEF peerClosed
    <3>2. CASE pipe[c][role] = Idle
      BY <3>2 DEF peerClosed, isListening, phase, Idle
    <3> QED
      BY <3>1, <3>2, <1>1
  <2> QED
    BY <2>1, <2>2 DEF Events
<1>10. ASSUME NEW c \in Client, NEW h \in hangups, receiveHangup(c, h) PROVE UNCHANGED <<pipe, rtc, inbox>>
  <2>1. \A role \in Role : ~hears(c, role, h)
    <3> SUFFICES ASSUME NEW role \in Role, isListening(c, role) PROVE callOf(c, role) # h.call
      BY DEF hears
    <3>1. pipe[c][role] # Idle
      BY DEF isListening, phase, Idle
    <3> QED
      BY <1>1, <3>1
  <2> QED
    BY <2>1, <1>10 DEF receiveHangup
<1>11. ASSUME NEW j \in Call, connect(j) \/ break(j) PROVE UNCHANGED <<pipe, rtc, inbox>>
  BY <1>11 DEF connect, break
<1> QED
  BY <1>4, <1>6, <1>7, <1>8, <1>9, <1>10, <1>11 DEF Next

\* Two clients with one call, and nothing signalled, stay connected until the connection fails or something
\* happens from outside: no late hangup, answer or retry of the race between their calls undoes it.
THEOREM ConnectionsAreKept == Spec => ConnectionKept
<1>1. IInv /\ [Next]_vars =>
        [\A k \in Call : OnlyCall(k) => OnlyCall(k)' \/ transport[k] = "failed" \/ events' # events]_vars
  BY ConnectionStep
<1> QED
  BY <1>1, Invariant, PTL DEF Spec, ConnectionKept

-----------------------------------------------------------------------------
(***************************************************************************)
(* Transport: numbers, and functions that take step after step             *)
(***************************************************************************)

\* A set of numbers has a smallest one
LEMMA Smallest ==
  ASSUME NEW T \in SUBSET Nat, T # {}
  PROVE  \E x \in T : \A y \in T : x <= y
<1>1. PICK x \in T : \A y \in T : ~(<<y, x>> \in OpToRel(<, Nat))
  BY NatLessThanWellFounded, WFMin, Zenon
<1>2. \A y \in T : ~(y < x)
  BY <1>1 DEF OpToRel
<1> QED
  BY <1>2

\* g takes n steps from v
iterates(g, n, v, next) == g[0] = v /\ \A i \in 1..n : g[i] = next[<<i, g[i - 1]>>]

LEMMA Iterates ==
  ASSUME NEW n \in Nat, NEW V, NEW v \in V, NEW next \in [(1..n) \X V -> V]
  PROVE  \E g \in [0..n -> V] : iterates(g, n, v, next)
<1> DEFINE Fails == {k \in 0..n : ~\E g \in [0..k -> V] : iterates(g, k, v, next)}
<1>1. n \in 0..n /\ Fails \in SUBSET Nat
  OBVIOUS
<1> SUFFICES ASSUME Fails # {} PROVE FALSE
  BY <1>1
<1>2. PICK k \in Fails : \A j \in Fails : k <= j
  BY <1>1, Smallest
<1>3. k # 0
  <2>1. [i \in 0..0 |-> v] \in [0..0 -> V] /\ iterates([i \in 0..0 |-> v], 0, v, next)
    BY DEF iterates
  <2> QED
    BY <2>1
<1>4. k \in 1..n /\ k - 1 \in 0..n /\ ~(k <= k - 1)
  BY <1>3
<1>5. PICK g \in [0..(k - 1) -> V] : iterates(g, k - 1, v, next)
  BY <1>2, <1>4
<1> DEFINE h == [i \in 0..k |-> IF i = k THEN next[<<k, g[k - 1]>>] ELSE g[i]]
<1>6. g[k - 1] \in V /\ next[<<k, g[k - 1]>>] \in V
  BY <1>4, <1>5
<1>7. h \in [0..k -> V]
  BY <1>4, <1>5, <1>6
<1>8. h[0] = v
  BY <1>4, <1>5 DEF iterates
<1>9. ASSUME NEW i \in 1..k PROVE h[i] = next[<<i, h[i - 1]>>]
  <2>1. CASE i = k
    <3>1. k - 1 \in 0..k /\ k \in 0..k /\ k - 1 # k
      BY <1>4
    <3> QED
      BY <2>1, <3>1
  <2>2. CASE i # k
    <3>1. i \in 1..(k - 1) /\ i - 1 \in 0..k /\ i - 1 # k /\ i \in 0..k
      BY <1>4, <2>2
    <3> QED
      BY <1>5, <2>2, <3>1 DEF iterates
  <2> QED
    BY <2>1, <2>2
<1> QED
  BY <1>7, <1>8, <1>9 DEF iterates

-----------------------------------------------------------------------------
(***************************************************************************)
(* pick: what is picked keeps its order                                    *)
(***************************************************************************)

\* t has the elements of s at the positions P, in their order: f tells where each was
picks(t, s, P, f) ==
  /\ f \in [1..Len(t) -> P]
  /\ \A k \in 1..Len(t) : t[k] = s[f[k]]
  /\ \A k, l \in 1..Len(t) : k < l => f[k] < f[l]
  /\ \A i \in P : \E k \in 1..Len(t) : f[k] = i

LEMMA PickMore ==
  ASSUME NEW S, NEW s \in Seq(S), NEW P \in SUBSET (1..Len(s)), NEW i \in 1..Len(s), i \in P,
         NEW t \in Seq(S), NEW f, picks(t, s, P \cap (1..(i - 1)), f)
  PROVE  \E g : picks(Append(t, s[i]), s, P \cap (1..i), g)
<1> DEFINE n == Len(t)  u == Append(t, s[i])
           g == [k \in 1..(n + 1) |-> IF k = n + 1 THEN i ELSE f[k]]
<1>1. n \in Nat /\ Len(s) \in Nat /\ i \in Nat /\ s[i] \in S
  BY LenProperties, ElementOfSeq
<1>2. Len(u) = n + 1 /\ u[n + 1] = s[i] /\ \A k \in 1..n : u[k] = t[k]
  BY <1>1, AppendProperties
<1>3. \A k \in 1..n : f[k] \in P /\ f[k] \in 1..(i - 1)
  BY DEF picks
<1>4. g \in [1..(n + 1) -> P \cap (1..i)]
  <2> SUFFICES ASSUME NEW k \in 1..(n + 1) PROVE g[k] \in P /\ g[k] \in 1..i
    OBVIOUS
  <2>1. CASE k = n + 1
    BY <1>1, <2>1
  <2>2. CASE k # n + 1
    <3>1. k \in 1..n
      BY <1>1, <2>2
    <3>2. f[k] \in P /\ f[k] \in 1..i
      BY <1>1, <1>3, <3>1
    <3> QED
      BY <2>2, <3>2
  <2> QED
    BY <2>1, <2>2
<1>5. ASSUME NEW k \in 1..(n + 1) PROVE u[k] = s[g[k]]
  <2>1. CASE k = n + 1
    BY <1>2, <2>1
  <2>2. CASE k # n + 1
    <3>1. k \in 1..n
      BY <1>1, <2>2
    <3> QED
      BY <1>2, <2>2, <3>1 DEF picks
  <2> QED
    BY <2>1, <2>2
<1>6. ASSUME NEW k \in 1..(n + 1), NEW l \in 1..(n + 1), k < l PROVE g[k] < g[l]
  <2>1. k \in 1..n /\ k # n + 1
    BY <1>1, <1>6
  <2>2. CASE l = n + 1
    <3>1. f[k] \in 1..(i - 1)
      BY <1>3, <2>1
    <3>2. f[k] < i
      BY <1>1, <3>1
    <3> QED
      BY <2>1, <2>2, <3>2
  <2>3. CASE l # n + 1
    <3>1. l \in 1..n
      BY <1>1, <2>3
    <3> QED
      BY <1>6, <2>1, <2>3, <3>1 DEF picks
  <2> QED
    BY <2>2, <2>3
<1>7. ASSUME NEW j \in P \cap (1..i) PROVE \E k \in 1..(n + 1) : g[k] = j
  <2>1. CASE j = i
    BY <1>1, <2>1
  <2>2. CASE j # i
    <3>1. j \in P \cap (1..(i - 1))
      BY <1>1, <2>2
    <3>2. PICK k \in 1..n : f[k] = j
      BY <3>1 DEF picks
    <3>3. k \in 1..(n + 1) /\ k # n + 1
      BY <1>1
    <3> QED
      BY <3>2, <3>3
  <2> QED
    BY <2>1, <2>2
<1> HIDE DEF u, g
<1>8. picks(u, s, P \cap (1..i), g)
  BY <1>2, <1>4, <1>5, <1>6, <1>7 DEF picks
<1> QED
  BY <1>8 DEF u

LEMMA Picked ==
  ASSUME NEW S, NEW s \in Seq(S), NEW P \in SUBSET (1..Len(s))
  PROVE  pick(s, P) \in Seq(S) /\ \E f : picks(pick(s, P), s, P, f)
<1> DEFINE N == Len(s)
           step(h) == [i \in 0..N |-> IF i = 0 THEN <<>>
                                      ELSE IF i \in P THEN Append(h[i - 1], s[i]) ELSE h[i - 1]]
           picked == CHOOSE h : h = step(h)
           next == [x \in (1..N) \X Seq(S) |-> IF x[1] \in P THEN Append(x[2], s[x[1]]) ELSE x[2]]
<1>1. N \in Nat /\ \A i \in 1..N : s[i] \in S
  BY LenProperties, ElementOfSeq
<1>2. next \in [(1..N) \X Seq(S) -> Seq(S)]
  BY <1>1, AppendProperties
<1>3. <<>> \in Seq(S)
  BY EmptySeq
<1>4. PICK g \in [0..N -> Seq(S)] : iterates(g, N, <<>>, next)
  <2> HIDE DEF next, N
  <2> QED
    BY <1>1, <1>2, <1>3, Iterates
<1>5. ASSUME NEW i \in 1..N PROVE g[i] = IF i \in P THEN Append(g[i - 1], s[i]) ELSE g[i - 1]
  <2>1. i - 1 \in 0..N /\ g[i - 1] \in Seq(S)
    <3>1. i - 1 \in 0..N
      BY <1>1
    <3> HIDE DEF N
    <3> QED
      BY <1>4, <3>1
  <2>2. g[i] = next[<<i, g[i - 1]>>]
    BY <1>4 DEF iterates
  <2> QED
    BY <2>1, <2>2
<1>6. g = step(g)
  <2> SUFFICES ASSUME NEW i \in 0..N PROVE g[i] = step(g)[i]
    OBVIOUS
  <2>1. CASE i = 0
    BY <1>4, <2>1 DEF iterates
  <2>2. CASE i # 0
    <3>1. i \in 1..N
      BY <1>1, <2>2
    <3> QED
      BY <1>5, <2>2, <3>1
  <2> QED
    BY <2>1, <2>2
<1>7. picked = step(picked)
  BY <1>6
<1>8. pick(s, P) = picked[N]
  BY DEF pick
<1> HIDE DEF picked
<1>9. picked[0] = <<>> /\ \A i \in 1..N : picked[i] = IF i \in P THEN Append(picked[i - 1], s[i]) ELSE picked[i - 1]
  <2>1. \A i \in 0..N : picked[i] = step(picked)[i]
    BY <1>7
  <2>2. 0 \in 0..N /\ \A i \in 1..N : i \in 0..N /\ i # 0
    BY <1>1
  <2> QED
    BY <2>1, <2>2
<1> DEFINE right(i) == picked[i] \in Seq(S) /\ \E f : picks(picked[i], s, P \cap (1..i), f)
           Wrong == {i \in 0..N : ~right(i)}
<1>10. Wrong = {}
  <2> SUFFICES ASSUME Wrong # {} PROVE FALSE
    OBVIOUS
  <2>1. Wrong \in SUBSET Nat
    BY <1>1
  <2>2. PICK i \in Wrong : \A j \in Wrong : i <= j
    <3> HIDE DEF Wrong
    <3> QED
      BY <2>1, Smallest
  <2>3. i \in 0..N /\ ~right(i)
    OBVIOUS
  <2>4. i # 0
    <3> SUFFICES ASSUME i = 0 PROVE FALSE
      OBVIOUS
    <3>1. picks(<<>>, s, P \cap (1..0), <<>>)
      BY DEF picks
    <3> QED
      BY <1>3, <1>9, <2>3, <3>1
  <2>5. i \in 1..N /\ i - 1 \in 0..N /\ ~(i <= i - 1)
    BY <1>1, <2>3, <2>4
  <2>6. right(i - 1)
    BY <2>2, <2>5
  <2>7. PICK f : picks(picked[i - 1], s, P \cap (1..(i - 1)), f)
    BY <2>6
  <2>8. CASE i \in P
    <3>1. picked[i] = Append(picked[i - 1], s[i])
      BY <1>9, <2>5, <2>8
    <3>2. \E h : picks(Append(picked[i - 1], s[i]), s, P \cap (1..i), h)
      BY <2>5, <2>6, <2>7, <2>8, PickMore
    <3>3. picked[i] \in Seq(S)
      BY <1>1, <2>5, <2>6, <3>1, AppendProperties
    <3> QED
      BY <2>3, <3>1, <3>2, <3>3
  <2>9. CASE i \notin P
    <3>1. picked[i] = picked[i - 1]
      BY <1>9, <2>5, <2>9
    <3>2. P \cap (1..i) = P \cap (1..(i - 1))
      BY <1>1, <2>5, <2>9
    <3> QED
      BY <2>3, <2>6, <3>1, <3>2
  <2> QED
    BY <2>8, <2>9
<1>11. right(N)
  <2>1. N \in 0..N
    BY <1>1
  <2> HIDE DEF right
  <2> QED
    BY <1>10, <2>1
<1>12. P \cap (1..N) = P
  OBVIOUS
<1> QED
  BY <1>8, <1>11, <1>12

-----------------------------------------------------------------------------
(***************************************************************************)
(* popMessages: of those to one peer of one type, the first ones           *)
(***************************************************************************)

sameQueue(a, b) == a.peer = b.peer /\ a.type = b.type

\* P are those of the first n taken: what was left has a reason, which holds for those of its kind that follow
takes(q, n, P) ==
  /\ P \subseteq 1..n
  /\ \A i \in P, j \in (1..n) \ P : sameQueue(q[i], q[j]) => i < j
  /\ \A j \in (1..n) \ P :
       \/ ~(Cardinality(P) < maxBatchSize)
       \/ \E k \in P : q[k].peer = q[j].peer /\ q[k].type # q[j].type

differs(q, i, P) == \E k \in P : q[k].peer = q[i].peer /\ q[k].type # q[i].type

LEMMA TakeOne ==
  ASSUME NEW q, NEW n \in Nat, NEW P, takes(q, n, P), Cardinality(P) < maxBatchSize, ~differs(q, n + 1, P)
  PROVE  takes(q, n + 1, P \cup {n + 1})
<1> DEFINE Q == P \cup {n + 1}
<1>1. P \subseteq 1..n /\ Q \subseteq 1..(n + 1) /\ (1..(n + 1)) \ Q = (1..n) \ P
  BY DEF takes
<1>2. ASSUME NEW j \in (1..n) \ P PROVE differs(q, j, P)
  BY DEF takes, differs
<1>3. ASSUME NEW j \in (1..n) \ P PROVE ~sameQueue(q[n + 1], q[j])
  <2>1. PICK k \in P : q[k].peer = q[j].peer /\ q[k].type # q[j].type
    BY <1>2 DEF differs
  <2> QED
    BY <2>1 DEF differs, sameQueue
<1>4. ASSUME NEW i \in Q, NEW j \in (1..(n + 1)) \ Q, sameQueue(q[i], q[j]) PROVE i < j
  BY <1>1, <1>3, <1>4 DEF takes
<1>5. ASSUME NEW j \in (1..(n + 1)) \ Q
      PROVE  \E k \in Q : q[k].peer = q[j].peer /\ q[k].type # q[j].type
  BY <1>1, <1>2 DEF differs
<1> QED
  BY <1>1, <1>4, <1>5 DEF takes

LEMMA LeaveOne ==
  ASSUME NEW q, NEW n \in Nat, NEW P, takes(q, n, P), ~(Cardinality(P) < maxBatchSize) \/ differs(q, n + 1, P)
  PROVE  takes(q, n + 1, P)
<1>1. P \subseteq 1..n /\ (1..(n + 1)) \ P = ((1..n) \ P) \cup {n + 1}
  BY DEF takes
<1>2. ASSUME NEW i \in P, NEW j \in (1..(n + 1)) \ P, sameQueue(q[i], q[j]) PROVE i < j
  <2>1. CASE j = n + 1
    BY <1>1, <2>1
  <2>2. CASE j \in (1..n) \ P
    BY <1>2, <2>2 DEF takes
  <2> QED
    BY <1>1, <2>1, <2>2
<1>3. ASSUME NEW j \in (1..(n + 1)) \ P
      PROVE  \/ ~(Cardinality(P) < maxBatchSize)
             \/ \E k \in P : q[k].peer = q[j].peer /\ q[k].type # q[j].type
  <2>1. CASE j = n + 1
    BY <2>1 DEF differs
  <2>2. CASE j \in (1..n) \ P
    BY <2>2 DEF takes
  <2> QED
    BY <1>1, <2>1, <2>2
<1>4. P \subseteq 1..(n + 1)
  BY <1>1
<1> QED
  BY <1>2, <1>3, <1>4 DEF takes

LEMMA Popped ==
  ASSUME NEW S, NEW q \in Seq(S)
  PROVE  takes(q, Len(q), popMessages(q))
<1> DEFINE N == Len(q)
           takesNext(i, P) ==
             Cardinality(P) < maxBatchSize /\ ~\E j \in P : q[j].peer = q[i].peer /\ q[j].type # q[i].type
           step(h) == [i \in 0..N |-> IF i = 0 THEN {}
                                      ELSE IF takesNext(i, h[i - 1]) THEN h[i - 1] \cup {i} ELSE h[i - 1]]
           pop == CHOOSE h : h = step(h)
           next == [x \in (1..N) \X SUBSET (1..N) |-> IF takesNext(x[1], x[2]) THEN x[2] \cup {x[1]} ELSE x[2]]
<1>1. N \in Nat
  BY LenProperties
<1>2. next \in [(1..N) \X SUBSET (1..N) -> SUBSET (1..N)]
  <2> HIDE DEF N, takesNext
  <2> QED
    OBVIOUS
<1>3. PICK g \in [0..N -> SUBSET (1..N)] : iterates(g, N, {}, next)
  <2>1. {} \in SUBSET (1..N)
    OBVIOUS
  <2> HIDE DEF next, N
  <2> QED
    BY <1>1, <1>2, <2>1, Iterates
<1>4. ASSUME NEW i \in 1..N PROVE g[i] = IF takesNext(i, g[i - 1]) THEN g[i - 1] \cup {i} ELSE g[i - 1]
  <2>1. i - 1 \in 0..N /\ g[i - 1] \in SUBSET (1..N)
    <3>1. i - 1 \in 0..N
      BY <1>1
    <3> HIDE DEF N
    <3> QED
      BY <1>3, <3>1
  <2>2. g[i] = next[<<i, g[i - 1]>>]
    BY <1>3 DEF iterates
  <2> HIDE DEF takesNext, N
  <2> QED
    BY <2>1, <2>2
<1>5. g = step(g)
  <2> SUFFICES ASSUME NEW i \in 0..N PROVE g[i] = step(g)[i]
    OBVIOUS
  <2>1. CASE i = 0
    BY <1>3, <2>1 DEF iterates
  <2>2. CASE i # 0
    <3>1. i \in 1..N
      BY <1>1, <2>2
    <3> HIDE DEF takesNext
    <3> QED
      BY <1>4, <2>2, <3>1
  <2> QED
    BY <2>1, <2>2
<1>6. pop = step(pop)
  BY <1>5
<1>7. popMessages(q) = pop[N]
  BY DEF popMessages
<1> HIDE DEF pop, takesNext
<1>8. pop[0] = {} /\ \A i \in 1..N : pop[i] = IF takesNext(i, pop[i - 1]) THEN pop[i - 1] \cup {i} ELSE pop[i - 1]
  <2>1. \A i \in 0..N : pop[i] = step(pop)[i]
    BY <1>6
  <2>2. 0 \in 0..N /\ \A i \in 1..N : i \in 0..N /\ i # 0
    BY <1>1
  <2> QED
    BY <2>1, <2>2
<1> DEFINE Wrong == {i \in 0..N : ~takes(q, i, pop[i])}
<1>9. Wrong = {}
  <2> SUFFICES ASSUME Wrong # {} PROVE FALSE
    OBVIOUS
  <2>1. Wrong \in SUBSET Nat
    BY <1>1
  <2>2. PICK i \in Wrong : \A j \in Wrong : i <= j
    <3> HIDE DEF Wrong
    <3> QED
      BY <2>1, Smallest
  <2>3. i \in 0..N /\ ~takes(q, i, pop[i])
    OBVIOUS
  <2>4. i # 0
    BY <1>8, <2>3 DEF takes
  <2>5. i \in 1..N /\ i - 1 \in 0..N /\ ~(i <= i - 1) /\ i - 1 \in Nat /\ (i - 1) + 1 = i
    BY <1>1, <2>3, <2>4
  <2>6. takes(q, i - 1, pop[i - 1])
    BY <2>2, <2>5
  <2>7. CASE takesNext(i, pop[i - 1])
    <3>1. pop[i] = pop[i - 1] \cup {i}
      BY <1>8, <2>5, <2>7
    <3>2. Cardinality(pop[i - 1]) < maxBatchSize /\ ~differs(q, i, pop[i - 1])
      BY <2>7 DEF takesNext, differs
    <3>3. takes(q, (i - 1) + 1, pop[i - 1] \cup {(i - 1) + 1})
      BY <2>5, <2>6, <3>2, TakeOne
    <3> QED
      BY <2>3, <2>5, <3>1, <3>3
  <2>8. CASE ~takesNext(i, pop[i - 1])
    <3>1. pop[i] = pop[i - 1]
      BY <1>8, <2>5, <2>8
    <3>2. ~(Cardinality(pop[i - 1]) < maxBatchSize) \/ differs(q, i, pop[i - 1])
      BY <2>8 DEF takesNext, differs
    <3>3. takes(q, (i - 1) + 1, pop[i - 1])
      BY <2>5, <2>6, <3>2, LeaveOne
    <3> QED
      BY <2>3, <2>5, <3>1, <3>3
  <2> QED
    BY <2>7, <2>8
<1>10. takes(q, N, pop[N])
  <2>1. N \in 0..N
    BY <1>1
  <2> QED
    BY <1>9, <2>1
<1> QED
  BY <1>7, <1>10

-----------------------------------------------------------------------------
(***************************************************************************)
(* Messages of one type to one peer keep their order                       *)
(***************************************************************************)

QueuesOK ==
  /\ queue \in Seq(Request) /\ order \in Seq(Request)
  /\ batch \in Seq(Request) /\ sent \in Seq(Request)
  /\ waiting \in [Peer -> Seq(Request)]

\* What is in a queue or a batch is in order, and what left it earlier came first
QueueInOrder == \A i, j \in DOMAIN queue : i < j => before(order, queue[i], queue[j])
BatchInOrder == \A i, j \in DOMAIN batch : i < j => before(order, batch[i], batch[j])
BatchIsFirst == \A a \in Range(batch), b \in Range(queue) : sameQueue(a, b) => before(order, a, b)
SentIsFirst ==
  \A a \in Range(sent), b \in Range(queue) \cup (Range(batch) \ Range(sent)) : sameQueue(a, b) => before(order, a, b)
WasQueued == Range(queue) \cup Range(batch) \cup Range(sent) \subseteq Range(order)

OrderInv == QueuesOK /\ WasQueued /\ QueueInOrder /\ BatchInOrder /\ BatchIsFirst /\ SentIsFirst /\ OrderKept

LEMMA BeforeGrows ==
  ASSUME NEW S, NEW s \in Seq(S), NEW t \in Seq(S)
  PROVE  /\ Range(s \o t) = Range(s) \cup Range(t)
         /\ \A a, b : before(s, a, b) => before(s \o t, a, b)
         /\ \A a \in Range(s), b \in Range(t) : before(s \o t, a, b)
         /\ \A i, j \in DOMAIN t : i < j => before(s \o t, t[i], t[j])
<1> DEFINE n == Len(s)  m == Len(t)  u == s \o t
<1>1. n \in Nat /\ m \in Nat /\ DOMAIN s = 1..n /\ DOMAIN t = 1..m
  BY LenProperties
<1>2. DOMAIN u = 1..(n + m) /\ (\A i \in 1..n : u[i] = s[i]) /\ \A i \in 1..m : u[n + i] = t[i]
  <2>1. Len(u) = n + m /\ u \in Seq(S)
    BY ConcatProperties
  <2>2. DOMAIN u = 1..(n + m)
    BY <2>1, LenProperties
  <2>3. \A i \in 1..(n + m) : u[i] = IF i <= n THEN s[i] ELSE t[i - n]
    BY ConcatProperties
  <2> HIDE DEF u, n, m
  <2>4. ASSUME NEW i \in 1..m PROVE u[n + i] = t[i]
    <3>1. n + i \in 1..(n + m) /\ ~(n + i <= n) /\ (n + i) - n = i
      BY <1>1
    <3> QED
      BY <2>3, <3>1
  <2>5. ASSUME NEW i \in 1..n PROVE u[i] = s[i]
    <3>1. i \in 1..(n + m) /\ i <= n
      BY <1>1
    <3> QED
      BY <2>3, <3>1
  <2> QED
    BY <2>2, <2>4, <2>5
<1> HIDE DEF u, n, m
<1>3. /\ \A i \in 1..n : i \in 1..(n + m)
      /\ \A i \in 1..m : n + i \in 1..(n + m)
      /\ \A k \in 1..(n + m) : k \in 1..n \/ (k - n \in 1..m /\ k = n + (k - n))
      /\ \A i \in 1..n, j \in 1..m : i < n + j
      /\ \A i, j \in 1..m : i < j => n + i < n + j
  BY <1>1
<1>4. Range(u) = Range(s) \cup Range(t)
  <2>1. ASSUME NEW k \in 1..(n + m) PROVE u[k] \in Range(s) \cup Range(t)
    <3>1. CASE k \in 1..n
      BY <1>1, <1>2, <3>1 DEF Range
    <3>2. CASE k - n \in 1..m /\ k = n + (k - n)
      <4>1. u[k] = t[k - n]
        BY <1>2, <3>2
      <4> QED
        BY <1>1, <3>2, <4>1 DEF Range
    <3> QED
      BY <1>3, <3>1, <3>2
  <2>2. ASSUME NEW i \in 1..n PROVE s[i] \in Range(u)
    BY <1>2, <1>3 DEF Range
  <2>3. ASSUME NEW i \in 1..m PROVE t[i] \in Range(u)
    BY <1>2, <1>3 DEF Range
  <2>4. Range(u) \subseteq Range(s) \cup Range(t)
    BY <1>2, <2>1 DEF Range
  <2>5. Range(s) \subseteq Range(u) /\ Range(t) \subseteq Range(u)
    BY <1>1, <2>2, <2>3 DEF Range
  <2> QED
    BY <2>4, <2>5
<1>5. ASSUME NEW a, NEW b, before(s, a, b) PROVE before(u, a, b)
  <2>1. PICK i, j \in 1..n : i < j /\ s[i] = a /\ s[j] = b
    BY <1>1, <1>5 DEF before
  <2> QED
    BY <1>2, <1>3, <2>1 DEF before
<1>6. ASSUME NEW a \in Range(s), NEW b \in Range(t) PROVE before(u, a, b)
  <2>1. PICK i \in 1..n : s[i] = a
    BY <1>1 DEF Range
  <2>2. PICK j \in 1..m : t[j] = b
    BY <1>1 DEF Range
  <2>3. u[i] = a /\ u[n + j] = b /\ i < n + j /\ i \in DOMAIN u /\ n + j \in DOMAIN u
    BY <1>2, <1>3, <2>1, <2>2
  <2> QED
    BY <2>3 DEF before
<1>7. ASSUME NEW i \in DOMAIN t, NEW j \in DOMAIN t, i < j PROVE before(u, t[i], t[j])
  <2>1. u[n + i] = t[i] /\ u[n + j] = t[j] /\ n + i < n + j /\ n + i \in DOMAIN u /\ n + j \in DOMAIN u
    BY <1>1, <1>2, <1>3, <1>7
  <2> QED
    BY <2>1 DEF before
<1> QED
  BY <1>4, <1>5, <1>6, <1>7 DEF u

\* Where two elements of a concatenation may be
LEMMA BeforeInConcat ==
  ASSUME NEW S, NEW s \in Seq(S), NEW t \in Seq(S), NEW a, NEW b, before(s \o t, a, b)
  PROVE  \/ before(s, a, b)
         \/ a \in Range(s) /\ b \in Range(t)
         \/ \E i, j \in DOMAIN t : i < j /\ t[i] = a /\ t[j] = b
<1> DEFINE n == Len(s)  m == Len(t)  u == s \o t
<1>1. n \in Nat /\ m \in Nat /\ DOMAIN s = 1..n /\ DOMAIN t = 1..m
  BY LenProperties
<1>2. u \in Seq(S) /\ Len(u) = n + m /\ \A i \in 1..(n + m) : u[i] = IF i <= n THEN s[i] ELSE t[i - n]
  BY ConcatProperties
<1>3. DOMAIN u = 1..(n + m)
  BY <1>2, LenProperties
<1>4. PICK i, j \in 1..(n + m) : i < j /\ u[i] = a /\ u[j] = b
  BY <1>3 DEF before
<1> HIDE DEF u, n, m
<1>5. CASE j <= n
  <2>1. i \in 1..n /\ j \in 1..n /\ i <= n
    BY <1>1, <1>4, <1>5
  <2>2. s[i] = a /\ s[j] = b
    BY <1>2, <1>4, <1>5, <2>1
  <2> QED
    BY <1>1, <1>4, <2>1, <2>2 DEF before
<1>6. CASE i <= n /\ ~(j <= n)
  <2>1. i \in 1..n /\ j - n \in 1..m
    BY <1>1, <1>4, <1>6
  <2>2. s[i] = a /\ t[j - n] = b
    BY <1>2, <1>4, <1>6, <2>1
  <2> QED
    BY <1>1, <2>1, <2>2 DEF Range
<1>7. CASE ~(i <= n) /\ ~(j <= n)
  <2>1. i - n \in 1..m /\ j - n \in 1..m /\ i - n < j - n
    BY <1>1, <1>4, <1>7
  <2>2. t[i - n] = a /\ t[j - n] = b
    BY <1>2, <1>4, <1>7, <2>1
  <2> QED
    BY <1>1, <2>1, <2>2
<1>8. j <= n \/ (i <= n /\ ~(j <= n)) \/ (~(i <= n) /\ ~(j <= n))
  OBVIOUS
<1> QED
  BY <1>5, <1>6, <1>7, <1>8

LEMMA PickedInOrder ==
  ASSUME NEW S, NEW s \in Seq(S), NEW P \in SUBSET (DOMAIN s)
  PROVE  /\ pick(s, P) \in Seq(S) /\ Range(pick(s, P)) = {s[i] : i \in P}
         /\ \A k, l \in DOMAIN pick(s, P) : k < l =>
              \E i, j \in P : i < j /\ pick(s, P)[k] = s[i] /\ pick(s, P)[l] = s[j]
<1> DEFINE t == pick(s, P)
<1>1. DOMAIN s = 1..Len(s)
  BY LenProperties
<1>2. t \in Seq(S)
  BY <1>1, Picked
<1>3. PICK f : picks(t, s, P, f)
  BY <1>1, Picked
<1>4. DOMAIN t = 1..Len(t)
  BY <1>2, LenProperties
<1> HIDE DEF t
<1>5. \A k \in DOMAIN t : f[k] \in P /\ t[k] = s[f[k]]
  BY <1>3, <1>4 DEF picks
<1>6. Range(t) = {s[i] : i \in P}
  <2>1. \A i \in P : \E k \in DOMAIN t : t[k] = s[i]
    BY <1>3, <1>4 DEF picks
  <2> QED
    BY <1>5, <2>1 DEF Range
<1>7. \A k, l \in DOMAIN t : k < l => f[k] < f[l]
  BY <1>3, <1>4 DEF picks
<1> QED
  BY <1>2, <1>5, <1>6, <1>7 DEF t

LEMMA EnqueueKeepsOrder ==
  ASSUME OrderInv, NEW rs \in Seq(Request), queue' = queue \o rs, order' = order \o rs,
         UNCHANGED <<batch, sent>>, waiting' \in [Peer -> Seq(Request)]
  PROVE  OrderInv'
<1> USE DEF OrderInv, QueuesOK
<1>1. QueuesOK'
  BY ConcatProperties
<1>2. /\ Range(queue') = Range(queue) \cup Range(rs) /\ Range(order') = Range(order) \cup Range(rs)
      /\ \A a, b : before(order, a, b) => before(order', a, b)
      /\ \A a \in Range(order), b \in Range(rs) : before(order', a, b)
      /\ \A i, j \in DOMAIN rs : i < j => before(order', rs[i], rs[j])
  BY BeforeGrows
<1>3. WasQueued'
  BY <1>2 DEF WasQueued
<1>4. QueueInOrder'
  <2>0. ASSUME \A a, b : before(queue', a, b) => before(order', a, b)
        PROVE  QueueInOrder'
    <3> SUFFICES ASSUME NEW i \in DOMAIN queue', NEW j \in DOMAIN queue', i < j
                 PROVE  before(order', queue'[i], queue'[j])
      BY DEF QueueInOrder
    <3>1. before(queue', queue'[i], queue'[j])
      BY DEF before
    <3> QED
      BY <2>0, <3>1
  <2> SUFFICES ASSUME NEW a, NEW b, before(queue \o rs, a, b) PROVE before(order', a, b)
    BY <2>0
  <2>1. queue \in Seq(Request)
    OBVIOUS
  <2>2. \/ before(queue, a, b)
        \/ a \in Range(queue) /\ b \in Range(rs)
        \/ \E k, l \in DOMAIN rs : k < l /\ rs[k] = a /\ rs[l] = b
    BY <2>1, BeforeInConcat
  <2>3. CASE before(queue, a, b)
    <3>1. PICK k, l \in DOMAIN queue : k < l /\ queue[k] = a /\ queue[l] = b
      BY <2>3 DEF before
    <3>2. before(order, queue[k], queue[l])
      BY <3>1 DEF QueueInOrder
    <3> QED
      BY <1>2, <3>1, <3>2
  <2>4. CASE a \in Range(queue) /\ b \in Range(rs)
    BY <1>2, <2>4 DEF WasQueued
  <2>5. CASE \E k, l \in DOMAIN rs : k < l /\ rs[k] = a /\ rs[l] = b
    BY <1>2, <2>5
  <2> QED
    BY <2>2, <2>3, <2>4, <2>5
<1>5. BatchInOrder'
  BY <1>2 DEF BatchInOrder
<1>6. BatchIsFirst' /\ SentIsFirst'
  BY <1>2 DEF BatchIsFirst, SentIsFirst, WasQueued
<1>7. OrderKept'
  <2> SUFFICES ASSUME NEW a \in Range(sent), NEW b \in Range(sent),
                      a.peer = b.peer, a.type = b.type, before(sent, a, b)
               PROVE  before(order', a, b)
    BY DEF OrderKept
  <2> QED
    BY <1>2 DEF OrderKept
<1> QED
  BY <1>1, <1>3, <1>4, <1>5, <1>6, <1>7

LEMMA BatchKeepsOrder ==
  ASSUME OrderInv, sendBatchedToDevice
  PROVE  OrderInv'
<1> USE DEF OrderInv, QueuesOK
<1> DEFINE popped == popMessages(queue)  left == DOMAIN queue \ popped
<1>1. DOMAIN queue = 1..Len(queue) /\ popped \subseteq DOMAIN queue
  <2>1. DOMAIN queue = 1..Len(queue)
    BY LenProperties
  <2> QED
    BY <2>1, Popped DEF takes
<1>2. \A i \in popped, j \in left : sameQueue(queue[i], queue[j]) => i < j
  BY <1>1, Popped DEF takes
<1>3. /\ batch = <<>> /\ batch' = pick(queue, popped) /\ queue' = pick(queue, left)
      /\ UNCHANGED <<sent, order, waiting>>
  BY DEF sendBatchedToDevice
<1>a. popped \in SUBSET (DOMAIN queue) /\ left \in SUBSET (DOMAIN queue)
  BY <1>1
<1> HIDE DEF popped, left
<1>4. /\ batch' \in Seq(Request) /\ Range(batch') = {queue[i] : i \in popped}
      /\ \A k, l \in DOMAIN batch' : k < l =>
           \E i, j \in popped : i < j /\ batch'[k] = queue[i] /\ batch'[l] = queue[j]
  BY <1>3, <1>a, PickedInOrder
<1>5. /\ queue' \in Seq(Request) /\ Range(queue') = {queue[i] : i \in left}
      /\ \A k, l \in DOMAIN queue' : k < l =>
           \E i, j \in left : i < j /\ queue'[k] = queue[i] /\ queue'[l] = queue[j]
  BY <1>3, <1>a, PickedInOrder
<1>6. \A i \in DOMAIN queue : queue[i] \in Range(queue)
  BY DEF Range
<1>7. QueuesOK'
  BY <1>3, <1>4, <1>5
<1>8. WasQueued'
  BY <1>1, <1>3, <1>4, <1>5, <1>6, <1>a DEF WasQueued
<1>9. QueueInOrder' /\ BatchInOrder'
  BY <1>1, <1>3, <1>4, <1>5, <1>a DEF QueueInOrder, BatchInOrder
<1>10. BatchIsFirst'
  <2> SUFFICES ASSUME NEW a \in Range(batch'), NEW b \in Range(queue'), sameQueue(a, b)
               PROVE  before(order, a, b)
    BY <1>3 DEF BatchIsFirst
  <2>1. PICK i \in popped : queue[i] = a
    BY <1>4
  <2>2. PICK j \in left : queue[j] = b
    BY <1>5
  <2> QED
    BY <1>2, <1>a, <2>1, <2>2 DEF QueueInOrder
<1>11. SentIsFirst'
  BY <1>1, <1>3, <1>4, <1>5, <1>6, <1>a DEF SentIsFirst
<1>12. OrderKept'
  BY <1>3 DEF OrderKept
<1> QED
  BY <1>7, <1>8, <1>9, <1>10, <1>11, <1>12

\* The batch leaves, but for what the server took before
LEMMA LeavesInOrder ==
  ASSUME OrderInv, leaves(batch), UNCHANGED <<queue, order, waiting>>, batch' \in {batch, <<>>}
  PROVE  OrderInv'
<1> USE DEF OrderInv, QueuesOK
<1> DEFINE P == {i \in DOMAIN batch : batch[i] \notin Range(sent)}  new == pick(batch, P)
<1>1. /\ new \in Seq(Request) /\ Range(new) = {batch[i] : i \in P}
      /\ \A k, l \in DOMAIN new : k < l => \E i, j \in P : i < j /\ new[k] = batch[i] /\ new[l] = batch[j]
  <2>1. P \in SUBSET (DOMAIN batch)
    OBVIOUS
  <2> HIDE DEF P
  <2> QED
    BY <2>1, PickedInOrder
<1>2. sent' = sent \o new
  BY DEF leaves
<1>3. Range(new) = Range(batch) \ Range(sent)
  <2>1. \A i \in DOMAIN batch : i \in P <=> batch[i] \notin Range(sent)
    OBVIOUS
  <2>2. P \subseteq DOMAIN batch
    OBVIOUS
  <2>3. Range(batch) = {batch[i] : i \in DOMAIN batch}
    BY DEF Range
  <2> HIDE DEF new, P
  <2> QED
    BY <1>1, <2>1, <2>2, <2>3
<1> HIDE DEF new, P
<1>4. sent' \in Seq(Request) /\ Range(sent') = Range(sent) \cup Range(batch)
  <2>1. sent' \in Seq(Request)
    BY <1>1, <1>2, ConcatProperties
  <2>2. Range(sent') = Range(sent) \cup Range(new)
    BY <1>1, <1>2, BeforeGrows
  <2> QED
    BY <1>3, <2>1, <2>2
<1>5. Range(batch') \subseteq Range(batch)
  BY DEF Range
<1>6. QueuesOK' /\ WasQueued' /\ QueueInOrder' /\ BatchInOrder' /\ BatchIsFirst'
  <2>1. QueuesOK'
    BY <1>4, EmptySeq
  <2>2. WasQueued'
    BY <1>4, <1>5 DEF WasQueued
  <2>3. QueueInOrder' /\ BatchInOrder'
    BY DEF QueueInOrder, BatchInOrder
  <2>4. BatchIsFirst'
    BY <1>5 DEF BatchIsFirst
  <2> QED
    BY <2>1, <2>2, <2>3, <2>4
<1>7. SentIsFirst'
  <2> SUFFICES ASSUME NEW a \in Range(sent) \cup Range(batch), NEW b \in Range(queue), sameQueue(a, b)
               PROVE  before(order, a, b)
    BY <1>4, <1>5 DEF SentIsFirst
  <2> QED
    BY DEF SentIsFirst, BatchIsFirst
<1>8. OrderKept'
  <2> SUFFICES ASSUME NEW a, NEW b, sameQueue(a, b), before(sent', a, b)
               PROVE  before(order, a, b)
    BY DEF OrderKept, sameQueue
  <2>1. CASE before(sent, a, b)
    <3>1. a \in Range(sent) /\ b \in Range(sent)
      BY <2>1 DEF before, Range
    <3> QED
      BY <2>1, <3>1 DEF OrderKept, sameQueue
  <2>2. CASE a \in Range(sent) /\ b \in Range(new)
    BY <1>3, <2>2 DEF SentIsFirst
  <2>3. CASE \E i, j \in DOMAIN new : i < j /\ new[i] = a /\ new[j] = b
    <3>1. \E i, j \in P : i < j /\ a = batch[i] /\ b = batch[j]
      BY <1>1, <2>3
    <3> QED
      BY <3>1 DEF P, BatchInOrder
  <2> QED
    BY <1>1, <1>2, <2>1, <2>2, <2>3, BeforeInConcat
<1> QED
  BY <1>6, <1>7, <1>8

LEMMA WaitingKeepsOrder ==
  ASSUME OrderInv, UNCHANGED <<queue, order, batch, sent>>, waiting' \in [Peer -> Seq(Request)]
  PROVE  OrderInv'
BY DEF OrderInv, QueuesOK, WasQueued, QueueInOrder, BatchInOrder, BatchIsFirst, SentIsFirst, OrderKept

LEMMA MessagesAreQueued ==
  ASSUME OrderInv, NEW r \in Request, messageSendRequest(r)
  PROVE  OrderInv'
<1>1. r.peer \in Peer /\ waiting \in [Peer -> Seq(Request)]
  BY TransportAssumption DEF OrderInv, QueuesOK
<1>2. CASE UNCHANGED <<waiting, queue, order, batch, sent>>
  BY <1>1, <1>2, WaitingKeepsOrder
<1>3. CASE enqueue(<<r>>) /\ UNCHANGED <<waiting, batch, sent>>
  <2>1. <<r>> \in Seq(Request)
    OBVIOUS
  <2> QED
    BY <1>1, <1>3, <2>1, EnqueueKeepsOrder DEF enqueue
<1>4. CASE /\ waiting' = [waiting EXCEPT ![r.peer] = Append(@, r)]
           /\ UNCHANGED <<queue, order, batch, sent>>
  <2>1. waiting' \in [Peer -> Seq(Request)]
    BY <1>1, <1>4, AppendProperties
  <2> QED
    BY <1>4, <2>1, WaitingKeepsOrder
<1> QED
  BY <1>2, <1>3, <1>4 DEF messageSendRequest

LEMMA PresenceKeepsOrder ==
  ASSUME OrderInv, NEW p \in Peer, matrixPresenceSuccess(p) \/ matrixPresenceFailure(p) \/ rtcOpen(p)
  PROVE  OrderInv'
<1>1. waiting \in [Peer -> Seq(Request)] /\ waiting[p] \in Seq(Request)
  BY DEF OrderInv, QueuesOK
<1>2. waiting' = [waiting EXCEPT ![p] = <<>>] => waiting' \in [Peer -> Seq(Request)]
  BY <1>1, EmptySeq
<1>3. CASE matrixPresenceSuccess(p)
  BY <1>1, <1>2, <1>3, EnqueueKeepsOrder DEF matrixPresenceSuccess, enqueue
<1>4. CASE matrixPresenceFailure(p)
  BY <1>2, <1>4, WaitingKeepsOrder DEF matrixPresenceFailure
<1>5. CASE rtcOpen(p)
  BY <1>1, <1>2, <1>5, WaitingKeepsOrder DEF rtcOpen
<1> QED
  BY <1>3, <1>4, <1>5

LEMMA SendingKeepsOrder ==
  ASSUME OrderInv, sendToDevice
  PROVE  OrderInv'
<1>1. UNCHANGED <<queue, order, waiting>> /\ batch' \in {batch, <<>>} /\ (leaves(batch) \/ UNCHANGED sent)
  BY DEF sendToDevice, flushed
<1>2. CASE leaves(batch)
  BY <1>1, <1>2, LeavesInOrder
<1>3. CASE UNCHANGED sent
  <2>1. Range(batch') \subseteq Range(batch) /\ batch' \in Seq(Request)
    <3>1. CASE batch' = batch
      BY <3>1 DEF OrderInv, QueuesOK
    <3>2. CASE batch' = <<>>
      <4>1. Range(<<>>) = {}
        BY DEF Range
      <4> QED
        BY <3>2, <4>1, EmptySeq
    <3> QED
      BY <1>1, <3>1, <3>2
  <2>2. QueuesOK' /\ WasQueued' /\ QueueInOrder' /\ BatchInOrder'
    BY <1>1, <1>3, <2>1 DEF OrderInv, QueuesOK, WasQueued, QueueInOrder, BatchInOrder
  <2>3. BatchIsFirst' /\ SentIsFirst' /\ OrderKept'
    BY <1>1, <1>3, <2>1 DEF OrderInv, BatchIsFirst, SentIsFirst, OrderKept
  <2> QED
    BY <2>2, <2>3 DEF OrderInv
<1> QED
  BY <1>1, <1>2, <1>3

LEMMA StepKeepsOrder ==
  ASSUME OrderInv, [TransportNext]_transportVars
  PROVE  OrderInv'
<1>1. CASE UNCHANGED <<queue, order, batch, sent, waiting>>
  BY <1>1, WaitingKeepsOrder DEF OrderInv, QueuesOK
<1>2. CASE Setup
  BY <1>1, <1>2 DEF Setup, fetchServers, setupMatrixClient, setupFails, matrixSetup, startClient, init, sendVars
<1>3. CASE Presence
  BY <1>3, PresenceKeepsOrder DEF Presence
<1>4. CASE Services \/ messageServiceSendRequest
  BY <1>1, <1>4 DEF Services, messageServiceSendRequest, sendServiceMessage, serviceMessageSent, sendVars
<1>5. CASE \E r \in Request : messageSendRequest(r)
  BY <1>5, MessagesAreQueued
<1>6. ASSUME NEW p \in Peer, rtcOpen(p) \/ rtcClose(p) PROVE OrderInv'
  <2>1. CASE rtcOpen(p)
    BY <2>1, PresenceKeepsOrder
  <2>2. CASE rtcClose(p)
    BY <1>1, <2>2 DEF rtcClose, sendVars
  <2> QED
    BY <1>6, <2>1, <2>2
<1>7. CASE sendBatchedToDevice
  BY <1>7, BatchKeepsOrder
<1>8. CASE sendToDevice
  BY <1>8, SendingKeepsOrder
<1>9. CASE toDeviceEvent \/ dropStranger \/ delivered
  BY <1>1, <1>9 DEF toDeviceEvent, dropStranger, delivered, sendVars
<1>10. CASE UNCHANGED transportVars
  BY <1>1, <1>10 DEF transportVars, sendVars
<1> QED
  BY <1>2, <1>3, <1>4, <1>5, <1>6, <1>7, <1>8, <1>9, <1>10 DEF TransportNext

\* Messages of one type to one peer leave in the order in which they were queued.
THEOREM MessagesKeepOrder == TransportSpec => []OrderKept
<1>1. TransportInit => OrderInv
  <2> SUFFICES ASSUME TransportInit PROVE OrderInv
    OBVIOUS
  <2>1. queue = <<>> /\ order = <<>> /\ batch = <<>> /\ sent = <<>> /\ waiting = [p \in Peer |-> <<>>]
    BY DEF TransportInit
  <2>2. QueuesOK
    BY <2>1 DEF QueuesOK
  <2>3. \A x : x \notin Range(<<>>)
    BY DEF Range
  <2> QED
    BY <2>1, <2>2, <2>3 DEF OrderInv, WasQueued, QueueInOrder, BatchInOrder, BatchIsFirst, SentIsFirst, OrderKept
<1>2. OrderInv /\ [TransportNext]_transportVars => OrderInv'
  BY StepKeepsOrder
<1>3. OrderInv => OrderKept
  BY DEF OrderInv
<1> QED
  BY <1>1, <1>2, <1>3, PTL DEF TransportSpec

-----------------------------------------------------------------------------
(***************************************************************************)
(* A Delivered is signed again only when forgotten                         *)
(***************************************************************************)

\* What was signed or sent again, and what of it after the last time it was x
usedIn(ks) == {signed[k].id : k \in ks}
isAfter(k, x) == \A j \in DOMAIN signed : signed[j].id = x => j < k
usedAfter(x) == usedIn({k \in DOMAIN signed : isAfter(k, x)})

CacheOK ==
  /\ signed \in Seq(Range(signed)) /\ cache \in Seq(Range(cache))
  /\ Len(cache) <= cacheSize
  /\ \A i, j \in DOMAIN cache : cache[i] = cache[j] => i = j

\* After each entry of the cache those behind it were used, and after those forgotten cacheSize others
CacheIsRecent ==
  \A i \in DOMAIN cache :
     cache[i] \in usedIn(DOMAIN signed) /\ usedAfter(cache[i]) = {cache[l] : l \in (i + 1)..Len(cache)}
ForgottenAreOld ==
  \A x \in usedIn(DOMAIN signed) \ Range(cache) : Cardinality(usedAfter(x)) >= cacheSize

CacheInv == CacheOK /\ CacheIsRecent /\ ForgottenAreOld /\ SignedIfFresh

LEMMA SequenceDomain ==
  ASSUME NEW s, s \in Seq(Range(s))
  PROVE  Len(s) \in Nat /\ DOMAIN s = 1..Len(s) /\ \A i \in 1..Len(s) : s[i] \in Range(s)
BY LenProperties, ElementOfSeq

LEMMA AppendAny ==
  ASSUME NEW s, s \in Seq(Range(s)), NEW x
  PROVE  LET u == Append(s, x)
         IN /\ u \in Seq(Range(u)) /\ Range(u) = Range(s) \cup {x}
            /\ Len(u) = Len(s) + 1 /\ DOMAIN u = 1..(Len(s) + 1)
            /\ u[Len(s) + 1] = x /\ \A i \in 1..Len(s) : u[i] = s[i]
<1> DEFINE u == Append(s, x)  S == Range(s) \cup {x}
<1>1. s \in Seq(S) /\ x \in S
  BY SeqMonotonic
<1>2. u \in Seq(S) /\ Len(u) = Len(s) + 1 /\ u[Len(s) + 1] = x /\ \A i \in 1..Len(s) : u[i] = s[i]
  BY <1>1, AppendProperties
<1> HIDE DEF u
<1>3. u \in Seq(Range(u)) /\ DOMAIN u = 1..(Len(s) + 1)
  <2> HIDE DEF S
  <2> QED
    BY <1>2, SeqOfRange, LenProperties
<1>4. Range(u) = Range(s) \cup {x}
  <2>1. Len(s) \in Nat /\ DOMAIN s = 1..Len(s)
    BY SequenceDomain
  <2>2. 1..(Len(s) + 1) = (1..Len(s)) \cup {Len(s) + 1}
    BY <2>1
  <2>3. ASSUME NEW i \in DOMAIN u PROVE u[i] \in Range(s) \cup {x}
    BY <1>2, <1>3, <2>1, <2>2 DEF Range
  <2>4. ASSUME NEW i \in DOMAIN s PROVE s[i] \in Range(u)
    BY <1>2, <1>3, <2>1, <2>2 DEF Range
  <2>5. x \in Range(u)
    BY <1>2, <1>3, <2>2 DEF Range
  <2> QED
    BY <2>3, <2>4, <2>5 DEF Range
<1> QED
  BY <1>2, <1>3, <1>4 DEF u

LEMMA RangeIsFinite ==
  ASSUME NEW s, s \in Seq(Range(s))
  PROVE  /\ IsFiniteSet(Range(s))
         /\ (\A i, j \in DOMAIN s : s[i] = s[j] => i = j) => Cardinality(Range(s)) = Len(s)
<1>1. Len(s) \in Nat /\ DOMAIN s = 1..Len(s)
  BY SequenceDomain
<1>2. IsFiniteSet(1..Len(s)) /\ Cardinality(1..Len(s)) = Len(s)
  BY <1>1, FS_Interval
<1>3. s \in [1..Len(s) -> Range(s)]
  BY <1>1, SequenceDomain, LenProperties
<1>4. s \in Surjection(1..Len(s), Range(s))
  BY <1>1, <1>3 DEF Surjection, Range
<1>5. ASSUME \A i, j \in DOMAIN s : s[i] = s[j] => i = j
      PROVE  s \in Injection(1..Len(s), Range(s))
  BY <1>1, <1>3, <1>5 DEF Injection, IsInjective
<1> QED
  BY <1>2, <1>4, <1>5, FS_Surjection

LEMMA UsedIsFinite ==
  ASSUME CacheInv, NEW ks \in SUBSET (DOMAIN signed)
  PROVE  IsFiniteSet(usedIn(ks)) /\ usedIn(ks) \subseteq usedIn(DOMAIN signed)
<1> DEFINE n == Len(signed)  U == usedIn(DOMAIN signed)  h == [k \in 1..n |-> signed[k].id]
<1>1. n \in Nat /\ DOMAIN signed = 1..n
  BY SequenceDomain DEF CacheInv, CacheOK
<1>2. IsFiniteSet(1..n)
  BY <1>1, FS_Interval
<1>3. h \in Surjection(1..n, U)
  BY <1>1 DEF Surjection, usedIn
<1>4. IsFiniteSet(U)
  <2> HIDE DEF h, n, U
  <2> QED
    BY <1>2, <1>3, FS_Surjection
<1>5. usedIn(ks) \subseteq U
  BY DEF usedIn
<1> QED
  BY <1>4, <1>5, FS_Subset

\* A set of numbers up to n has a largest one
LEMMA Largest ==
  ASSUME NEW n \in Nat, NEW T \in SUBSET (1..n), T # {}
  PROVE  \E x \in T : \A y \in T : y <= x
<1> DEFINE R == {n - x : x \in T}
<1>1. R \in SUBSET Nat /\ R # {}
  <2>1. ASSUME NEW x \in T PROVE n - x \in Nat
    <3>1. x \in 1..n
      OBVIOUS
    <3> QED
      BY <3>1
  <2> QED
    BY <2>1
<1>2. PICK r \in R : \A q \in R : r <= q
  <2> HIDE DEF R
  <2> QED
    BY <1>1, Smallest
<1>3. PICK x \in T : r = n - x
  OBVIOUS
<1>4. ASSUME NEW y \in T PROVE y <= x
  <2>1. n - y \in R /\ y \in Int /\ x \in Int
    OBVIOUS
  <2>2. n - x <= n - y
    BY <1>2, <1>3, <2>1
  <2> QED
    BY <2>1, <2>2
<1> QED
  BY <1>4

\* One more is signed, or sent again
LEMMA OneMoreUse ==
  ASSUME CacheInv, NEW x, NEW new, signed' = Append(signed, [id |-> x, new |-> new])
  PROVE  /\ signed' \in Seq(Range(signed')) /\ usedIn(DOMAIN signed)' = usedIn(DOMAIN signed) \cup {x}
         /\ usedAfter(x)' = {}
         /\ \A y : y # x => usedAfter(y)' = usedAfter(y) \cup {x}
         /\ \A i \in DOMAIN signed : isFresh(i)' = isFresh(i) /\ signed'[i] = signed[i]
         /\ DOMAIN signed' = 1..(Len(signed) + 1) /\ signed'[Len(signed) + 1] = [id |-> x, new |-> new]
<1>0. PICK n \in Nat : n = Len(signed)
  BY SequenceDomain DEF CacheInv, CacheOK
<1>1. n \in Nat /\ DOMAIN signed = 1..n
  BY <1>0, SequenceDomain DEF CacheInv, CacheOK
<1>2. /\ signed' \in Seq(Range(signed')) /\ DOMAIN signed' = 1..(n + 1)
      /\ signed'[n + 1] = [id |-> x, new |-> new] /\ \A i \in 1..n : signed'[i] = signed[i]
  BY <1>0, AppendAny DEF CacheInv, CacheOK
<1>3. /\ 1..(n + 1) = (1..n) \cup {n + 1} /\ n + 1 \notin 1..n
      /\ (\A k \in 1..n : k < n + 1 /\ ~(n + 1 < k)) /\ ~(n + 1 < n + 1)
  BY <1>1
<1>4. usedIn(DOMAIN signed)' = usedIn(DOMAIN signed) \cup {x}
  BY <1>1, <1>2, <1>3 DEF usedIn
<1>5. usedAfter(x)' = {}
  <2> SUFFICES ASSUME NEW k \in DOMAIN signed' PROVE ~isAfter(k, x)'
    BY DEF usedAfter, usedIn
  <2>1. n + 1 \in DOMAIN signed' /\ signed'[n + 1].id = x /\ ~(n + 1 < k)
    BY <1>2, <1>3
  <2> QED
    BY <2>1 DEF isAfter
<1>6. ASSUME NEW y, y # x PROVE usedAfter(y)' = usedAfter(y) \cup {x}
  <2>0. signed'[n + 1].id = x
    BY <1>2
  <2>a. signed'[n + 1].id # y
    BY <1>6, <2>0
  <2>b. \A j \in 1..n : signed'[j].id = signed[j].id
    BY <1>2
  <2>1. ASSUME NEW k \in 1..n PROVE isAfter(k, y)' <=> isAfter(k, y)
    BY <1>1, <1>2, <1>3, <2>a, <2>b DEF isAfter
  <2>2. isAfter(n + 1, y)'
    BY <1>2, <1>3, <2>a, <2>b DEF isAfter
  <2>3. {k \in 1..(n + 1) : isAfter(k, y)'} = {k \in 1..n : isAfter(k, y)} \cup {n + 1}
    BY <1>3, <2>1, <2>2
  <2>4. usedAfter(y)' = {signed'[k].id : k \in {k \in 1..(n + 1) : isAfter(k, y)'}}
    BY <1>2 DEF usedAfter, usedIn
  <2>5. usedAfter(y) = {signed[k].id : k \in {k \in 1..n : isAfter(k, y)}}
    BY <1>1 DEF usedAfter, usedIn
  <2> QED
    BY <1>2, <2>3, <2>4, <2>5
<1>7. ASSUME NEW i \in 1..n PROVE isFresh(i)' = isFresh(i)
  <2>1. signed'[i] = signed[i] /\ \A j \in 1..(i - 1) : signed'[j] = signed[j] /\ j \in 1..n
    BY <1>1, <1>2
  <2>2. \A j \in 1..(i - 1) : \A k \in (j + 1)..(i - 1) : signed'[k] = signed[k]
    BY <1>1, <1>2
  <2>3. ASSUME NEW j \in 1..(i - 1)
        PROVE  {signed'[k].id : k \in (j + 1)..(i - 1)} = {signed[k].id : k \in (j + 1)..(i - 1)}
    BY <2>2
  <2> QED
    BY <2>1, <2>3 DEF isFresh
<1> QED
  BY <1>0, <1>1, <1>2, <1>4, <1>5, <1>6, <1>7

\* It has to be signed if it wasn't, or cacheSize others were used since
LEMMA FreshIfForgotten ==
  ASSUME CacheInv, NEW x, NEW new, signed' = Append(signed, [id |-> x, new |-> new])
  PROVE  \E m : m = Len(signed) + 1 /\
           (isFresh(m)' <=> (x \in usedIn(DOMAIN signed) => Cardinality(usedAfter(x)) >= cacheSize))
<1>0. PICK n \in Nat : n = Len(signed)
  BY SequenceDomain DEF CacheInv, CacheOK
<1>1. DOMAIN signed = 1..n
  BY <1>0, SequenceDomain DEF CacheInv, CacheOK
<1>2. signed'[n + 1] = [id |-> x, new |-> new] /\ \A i \in 1..n : signed'[i] = signed[i]
  BY <1>0, AppendAny DEF CacheInv, CacheOK
<1> DEFINE between(j) == usedIn((j + 1)..n) \ {x}
<1>3. isFresh(n + 1)' <=> \A j \in 1..n : signed[j].id = x => Cardinality(between(j)) >= cacheSize
  <2>1. (n + 1) - 1 = n /\ signed'[n + 1].id = x
    BY <1>0, <1>2
  <2>2. isFresh(n + 1)' <=> \A j \in 1..n : signed'[j].id = x =>
          Cardinality({signed'[k].id : k \in (j + 1)..n} \ {x}) >= cacheSize
    BY <2>1 DEF isFresh
  <2>3. ASSUME NEW j \in 1..n PROVE {signed'[k].id : k \in (j + 1)..n} = usedIn((j + 1)..n)
    <3>1. \A k \in (j + 1)..n : k \in 1..n
      OBVIOUS
    <3> QED
      BY <1>2, <3>1 DEF usedIn
  <2>4. \A j \in 1..n : signed'[j].id = signed[j].id
    BY <1>2
  <2> QED
    BY <2>2, <2>3, <2>4
<1>4. ASSUME NEW j \in 1..n PROVE IsFiniteSet(between(j)) /\ Cardinality(between(j)) \in Nat
  <2>1. (j + 1)..n \in SUBSET (DOMAIN signed)
    BY <1>1
  <2>2. IsFiniteSet(usedIn((j + 1)..n))
    BY <2>1, UsedIsFinite
  <2> QED
    BY <2>2, FS_RemoveElement, FS_CardinalityType
<1>5. ASSUME NEW j \in 1..n, signed[j].id = x PROVE usedAfter(x) \subseteq between(j)
  <2> SUFFICES ASSUME NEW k \in 1..n, isAfter(k, x) PROVE signed[k].id \in between(j)
    BY <1>1 DEF usedAfter, usedIn
  <2>1. k \in (j + 1)..n
    BY <1>1, <1>5 DEF isAfter
  <2>2. signed[k].id # x
    BY <1>1 DEF isAfter
  <2> QED
    BY <2>1, <2>2 DEF usedIn
<1>6. cacheSize \in Nat
  BY TransportAssumption
<1>7. CASE x \notin usedIn(DOMAIN signed)
  BY <1>0, <1>1, <1>3, <1>7 DEF usedIn
<1>8. CASE x \in usedIn(DOMAIN signed)
  <2> DEFINE uses == {j \in 1..n : signed[j].id = x}
  <2>1. uses # {} /\ uses \in SUBSET (1..n)
    BY <1>1, <1>8 DEF usedIn
  <2>2. PICK j \in uses : \A i \in uses : i <= j
    <3> HIDE DEF uses
    <3> QED
      BY <2>1, Largest
  <2>3. between(j) = usedAfter(x)
    <3>1. ASSUME NEW k \in (j + 1)..n, signed[k].id # x PROVE signed[k].id \in usedAfter(x)
      <4>1. k \in 1..n /\ j < k
        OBVIOUS
      <4>2. isAfter(k, x)
        BY <1>1, <2>2, <4>1 DEF isAfter
      <4> QED
        BY <1>1, <4>1, <4>2 DEF usedAfter, usedIn
    <3>2. between(j) \subseteq usedAfter(x)
      BY <3>1 DEF usedIn
    <3> QED
      BY <1>5, <2>2, <3>2
  <2>4. ASSUME Cardinality(usedAfter(x)) >= cacheSize, NEW i \in 1..n, signed[i].id = x
        PROVE  Cardinality(between(i)) >= cacheSize
    <3>1. usedAfter(x) \in SUBSET between(i)
      BY <1>5, <2>4
    <3>2. Cardinality(usedAfter(x)) <= Cardinality(between(i)) /\ Cardinality(usedAfter(x)) \in Nat
      <4> HIDE DEF between
      <4> QED
        BY <1>4, <3>1, FS_Subset, FS_CardinalityType
    <3>3. Cardinality(between(i)) \in Nat
      BY <1>4
    <3> HIDE DEF between
    <3> QED
      BY <1>6, <2>4, <3>2, <3>3
  <2>5. isFresh(n + 1)' <=> Cardinality(usedAfter(x)) >= cacheSize
    <3> HIDE DEF between
    <3> QED
      BY <1>3, <2>2, <2>3, <2>4
  <2> QED
    BY <1>0, <1>8, <2>5
<1> QED
  BY <1>7, <1>8

\* The cache with x at its end
LEMMA Bumped ==
  ASSUME CacheInv, NEW x, NEW c, c = bump(cache, x)
  PROVE  /\ c \in Seq(Range(c)) /\ Range(c) = Range(cache) \cup {x}
         /\ \A i, j \in DOMAIN c : c[i] = c[j] => i = j
         /\ Len(c) = IF x \in Range(cache) THEN Len(cache) ELSE Len(cache) + 1
         /\ Len(c) \in Nat /\ DOMAIN c = 1..Len(c) /\ Len(c) \in DOMAIN c /\ c[Len(c)] = x
         /\ \A k \in DOMAIN c : c[k] # x =>
              c[k] \in Range(cache) /\ usedAfter(c[k]) \cup {x} = {c[l] : l \in (k + 1)..Len(c)}
<1> DEFINE n == Len(cache)
           P == {i \in DOMAIN cache : cache[i] # x}
           t == pick(cache, P)
           m == Len(t)
           b == Append(t, x)
<1>1. n \in Nat /\ DOMAIN cache = 1..n /\ \A i, j \in 1..n : cache[i] = cache[j] => i = j
  BY SequenceDomain DEF CacheInv, CacheOK
<1>2. c = b
  BY DEF bump
<1>3. P \in SUBSET (1..n) /\ \A i \in 1..n : i \in P <=> cache[i] # x
  BY <1>1
<1> HIDE DEF P
<1>4. t \in Seq(Range(cache)) /\ \E f : picks(t, cache, P, f)
  BY <1>3, Picked DEF CacheInv, CacheOK
<1>5. PICK f : picks(t, cache, P, f)
  BY <1>4
<1>6. t \in Seq(Range(t)) /\ m \in Nat /\ DOMAIN t = 1..m
  BY <1>4, SeqOfRange, LenProperties
<1> HIDE DEF t
<1>7. /\ b \in Seq(Range(b)) /\ Len(b) = m + 1 /\ DOMAIN b = 1..(m + 1)
      /\ b[m + 1] = x /\ \A i \in 1..m : b[i] = t[i]
  BY <1>6, AppendAny
<1> HIDE DEF b, m, n
<1>8. \A k \in 1..m : f[k] \in P /\ f[k] \in 1..n /\ b[k] = cache[f[k]] /\ b[k] # x
  <2> SUFFICES ASSUME NEW k \in 1..m PROVE f[k] \in P /\ f[k] \in 1..n /\ b[k] = cache[f[k]] /\ b[k] # x
    OBVIOUS
  <2>1. f[k] \in P /\ t[k] = cache[f[k]]
    BY <1>5 DEF picks, m
  <2>2. f[k] \in 1..n /\ cache[f[k]] # x
    BY <1>3, <2>1
  <2> QED
    BY <1>7, <2>1, <2>2
<1>9. \A k, l \in 1..m : k < l => f[k] < f[l]
  BY <1>5 DEF picks, m
<1>10. \A i \in P : \E k \in 1..m : f[k] = i
  BY <1>5 DEF picks, m
<1>11. 1..(m + 1) = (1..m) \cup {m + 1} /\ m + 1 \notin 1..m
  BY <1>6
<1>12. Range(b) = Range(cache) \cup {x}
  <2>1. ASSUME NEW k \in 1..(m + 1) PROVE b[k] \in Range(cache) \cup {x}
    BY <1>1, <1>7, <1>8, <1>11 DEF Range
  <2>2. ASSUME NEW i \in 1..n PROVE cache[i] \in Range(b)
    <3>1. CASE i \in P
      BY <1>7, <1>8, <1>10, <1>11, <3>1 DEF Range
    <3>2. CASE i \notin P
      BY <1>3, <1>7, <1>11, <3>2 DEF Range
    <3> QED
      BY <3>1, <3>2
  <2>3. x \in Range(b)
    BY <1>7, <1>11 DEF Range
  <2> QED
    BY <1>1, <1>7, <2>1, <2>2, <2>3 DEF Range
<1>13. ASSUME NEW i \in 1..(m + 1), NEW j \in 1..(m + 1), b[i] = b[j] PROVE i = j
  <2>1. CASE i \in 1..m /\ j \in 1..m
    <3>1. f[i] = f[j] /\ f[i] \in Int
      BY <1>1, <1>8, <1>13, <2>1
    <3>2. ~(i < j) /\ ~(j < i)
      BY <1>9, <2>1, <3>1
    <3> QED
      BY <1>6, <2>1, <3>2
  <2> QED
    BY <1>7, <1>8, <1>11, <1>13, <2>1
<1>14. m + 1 = IF x \in Range(cache) THEN n ELSE n + 1
  <2>1. IsFiniteSet(Range(cache)) /\ Cardinality(Range(cache)) = n
    BY RangeIsFinite DEF CacheInv, CacheOK, n
  <2>2. Cardinality(Range(b)) = m + 1
    BY <1>7, <1>13, RangeIsFinite
  <2> QED
    BY <1>12, <2>1, <2>2, FS_AddElement
<1>15. ASSUME NEW k \in 1..m
       PROVE  b[k] \in Range(cache) /\ usedAfter(b[k]) \cup {x} = {b[l] : l \in (k + 1)..(m + 1)}
  <2>1. f[k] \in 1..n /\ b[k] = cache[f[k]]
    BY <1>8
  <2>2. usedAfter(b[k]) = {cache[i] : i \in (f[k] + 1)..n}
    BY <1>1, <2>1 DEF CacheInv, CacheIsRecent, n
  <2>3. ASSUME NEW i \in (f[k] + 1)..n PROVE \E l \in (k + 1)..(m + 1) : cache[i] = b[l]
    <3>1. i \in 1..n /\ f[k] < i /\ f[k] \in Int
      BY <1>1, <2>1
    <3>2. CASE i \in P
      <4>1. PICK l \in 1..m : f[l] = i
        BY <1>10, <3>2
      <4>2. ~(l < k) /\ l # k
        BY <1>9, <3>1, <4>1
      <4>3. l \in (k + 1)..(m + 1)
        BY <1>6, <4>2
      <4> QED
        BY <1>8, <4>1, <4>3
    <3>3. CASE i \notin P
      BY <1>3, <1>6, <1>7, <3>1, <3>3
    <3> QED
      BY <3>2, <3>3
  <2>4. ASSUME NEW l \in (k + 1)..(m + 1) PROVE b[l] = x \/ \E i \in (f[k] + 1)..n : b[l] = cache[i]
    <3>1. CASE l = m + 1
      BY <1>7, <3>1
    <3>2. CASE l # m + 1
      <4>1. l \in 1..m /\ k < l
        BY <1>6, <3>2
      <4>2. f[k] < f[l] /\ f[l] \in 1..n /\ b[l] = cache[f[l]]
        BY <1>8, <1>9, <4>1
      <4>3. f[l] \in (f[k] + 1)..n
        BY <1>1, <2>1, <4>2
      <4> QED
        BY <4>2, <4>3
    <3> QED
      BY <3>1, <3>2
  <2>5. m + 1 \in (k + 1)..(m + 1)
    BY <1>6
  <2>6. b[k] \in Range(cache)
    BY <1>1, <2>1 DEF Range
  <2> QED
    BY <1>7, <2>2, <2>3, <2>4, <2>5, <2>6
<1>16. ASSUME NEW k \in 1..(m + 1), b[k] # x PROVE k \in 1..m
  BY <1>7, <1>11, <1>16
<1>17. Len(b) = IF x \in Range(cache) THEN Len(cache) ELSE Len(cache) + 1
  BY <1>7, <1>14 DEF n
<1>18. Len(b) \in Nat /\ DOMAIN b = 1..Len(b) /\ Len(b) \in DOMAIN b /\ b[Len(b)] = x
  BY <1>6, <1>7, <1>11
<1>19. \A k \in DOMAIN b : b[k] # x =>
         b[k] \in Range(cache) /\ usedAfter(b[k]) \cup {x} = {b[l] : l \in (k + 1)..Len(b)}
  BY <1>7, <1>15, <1>16
<1>20. \A i, j \in DOMAIN b : b[i] = b[j] => i = j
  BY <1>7, <1>13
<1> QED
  BY <1>2, <1>7, <1>12, <1>17, <1>18, <1>19, <1>20

\* Once x is used, each entry of the cache with x at its end still is followed by what was used after it
LEMMA BumpedIsRecent ==
  ASSUME CacheInv, NEW x, NEW new, signed' = Append(signed, [id |-> x, new |-> new]), NEW b, b = bump(cache, x)
  PROVE  /\ \A k \in DOMAIN b : b[k] \in usedIn(DOMAIN signed)' /\ usedAfter(b[k])' = {b[l] : l \in (k + 1)..Len(b)}
         /\ \A z \in usedIn(DOMAIN signed)' \ Range(b) : Cardinality(usedAfter(z)') >= cacheSize
<1>1. /\ usedIn(DOMAIN signed)' = usedIn(DOMAIN signed) \cup {x} /\ usedAfter(x)' = {}
      /\ \A y : y # x => usedAfter(y)' = usedAfter(y) \cup {x}
  BY OneMoreUse
<1>2. /\ Range(b) = Range(cache) \cup {x} /\ Len(b) \in Nat /\ DOMAIN b = 1..Len(b)
      /\ \A i, j \in DOMAIN b : b[i] = b[j] => i = j
      /\ Len(b) \in DOMAIN b /\ b[Len(b)] = x
      /\ \A k \in DOMAIN b : b[k] # x =>
           b[k] \in Range(cache) /\ usedAfter(b[k]) \cup {x} = {b[l] : l \in (k + 1)..Len(b)}
  BY Bumped
<1>3. Range(cache) \subseteq usedIn(DOMAIN signed)
  BY DEF CacheInv, CacheIsRecent, Range
<1>4. ASSUME NEW k \in DOMAIN b
      PROVE  b[k] \in usedIn(DOMAIN signed)' /\ usedAfter(b[k])' = {b[l] : l \in (k + 1)..Len(b)}
  <2>1. CASE b[k] = x
    <3>1. k = Len(b)
      BY <1>2, <2>1
    <3>2. (k + 1)..Len(b) = {}
      BY <1>2, <3>1
    <3> QED
      BY <1>1, <2>1, <3>2
  <2>2. CASE b[k] # x
    BY <1>1, <1>2, <1>3, <2>2
  <2> QED
    BY <2>1, <2>2
<1>5. ASSUME NEW z \in usedIn(DOMAIN signed)' \ Range(b) PROVE Cardinality(usedAfter(z)') >= cacheSize
  <2>1. z # x /\ z \in usedIn(DOMAIN signed) \ Range(cache) /\ usedAfter(z)' = usedAfter(z) \cup {x}
    BY <1>1, <1>2
  <2>2. Cardinality(usedAfter(z)) >= cacheSize
    BY <2>1 DEF CacheInv, ForgottenAreOld
  <2>3. IsFiniteSet(usedAfter(z))
    BY UsedIsFinite DEF usedAfter
  <2>4. /\ Cardinality(usedAfter(z)) \in Nat
        /\ Cardinality(usedAfter(z) \cup {x}) \in {Cardinality(usedAfter(z)), Cardinality(usedAfter(z)) + 1}
    BY <2>3, FS_AddElement, FS_CardinalityType
  <2>5. cacheSize \in Nat
    BY TransportAssumption
  <2> QED
    BY <2>1, <2>2, <2>4, <2>5
<1> QED
  BY <1>4, <1>5

LEMMA SignedIsFresh ==
  ASSUME CacheInv, NEW x, signed' = Append(signed, [id |-> x, new |-> x \notin Range(cache)])
  PROVE  SignedIfFresh'
<1> DEFINE new == x \notin Range(cache)
<1>1. PICK m : m = Len(signed) + 1 /\
        (isFresh(m)' <=> (x \in usedIn(DOMAIN signed) => Cardinality(usedAfter(x)) >= cacheSize))
  BY FreshIfForgotten
<1>2. /\ \A i \in DOMAIN signed : isFresh(i)' = isFresh(i) /\ signed'[i] = signed[i]
      /\ DOMAIN signed' = 1..(Len(signed) + 1) /\ signed'[Len(signed) + 1] = [id |-> x, new |-> new]
  BY OneMoreUse
<1>3. Len(signed) \in Nat /\ DOMAIN signed = 1..Len(signed)
  BY SequenceDomain DEF CacheInv, CacheOK
<1>4. DOMAIN signed' = DOMAIN signed \cup {m}
  BY <1>1, <1>2, <1>3
<1>5. isFresh(m)' <=> x \notin Range(cache)
  <2>1. CASE x \notin Range(cache)
    BY <1>1, <2>1 DEF CacheInv, ForgottenAreOld
  <2>2. CASE x \in Range(cache)
    <3>1. PICK i \in DOMAIN cache : cache[i] = x
      BY <2>2 DEF Range
    <3>2. x \in usedIn(DOMAIN signed) /\ usedAfter(x) = {cache[l] : l \in (i + 1)..Len(cache)}
      BY <3>1 DEF CacheInv, CacheIsRecent
    <3>3. Len(cache) \in Nat /\ DOMAIN cache = 1..Len(cache) /\ Len(cache) <= cacheSize /\ cacheSize \in Nat
      BY SequenceDomain, TransportAssumption DEF CacheInv, CacheOK
    <3>4. ASSUME NEW l \in (i + 1)..Len(cache) PROVE cache[l] \in Range(cache) \ {x}
      <4>1. l \in DOMAIN cache /\ l # i
        BY <3>3
      <4> QED
        BY <3>1, <4>1 DEF CacheInv, CacheOK, Range
    <3>5. usedAfter(x) \in SUBSET (Range(cache) \ {x})
      BY <3>2, <3>4
    <3>6. IsFiniteSet(Range(cache)) /\ Cardinality(Range(cache)) = Len(cache)
      BY RangeIsFinite DEF CacheInv, CacheOK
    <3>7. IsFiniteSet(Range(cache) \ {x}) /\ Cardinality(Range(cache) \ {x}) = Len(cache) - 1
      BY <2>2, <3>6, FS_RemoveElement
    <3>8. Cardinality(usedAfter(x)) <= Len(cache) - 1 /\ Cardinality(usedAfter(x)) \in Nat
      BY <3>5, <3>7, FS_Subset, FS_CardinalityType
    <3>9. ~(Cardinality(usedAfter(x)) >= cacheSize)
      BY <3>3, <3>8
    <3> QED
      BY <1>1, <2>2, <3>2, <3>9
  <2> QED
    BY <2>1, <2>2
<1>6. signed'[m].new = isFresh(m)'
  <2>1. isFresh(m)' \in BOOLEAN
    BY DEF isFresh
  <2>2. signed'[m].new = (x \notin Range(cache))
    BY <1>1, <1>2
  <2> QED
    BY <1>5, <2>1, <2>2
<1>7. \A i \in DOMAIN signed : signed'[i].new = isFresh(i)'
  BY <1>2 DEF CacheInv, SignedIfFresh
<1> QED
  BY <1>4, <1>6, <1>7 DEF SignedIfFresh

LEMMA OneMoreKeepsCache ==
  ASSUME CacheInv, NEW x, signed' = Append(signed, [id |-> x, new |-> x \notin Range(cache)]),
         cache' = put(cache, x)
  PROVE  CacheInv'
<1>1. PICK b : b = bump(cache, x)
  OBVIOUS
<1>2. /\ b \in Seq(Range(b)) /\ \A i, j \in DOMAIN b : b[i] = b[j] => i = j
      /\ Len(b) \in Nat /\ DOMAIN b = 1..Len(b) /\ Len(b) <= Len(cache) + 1 /\ b[Len(b)] = x
  <2>1. Len(cache) \in Nat
    BY SequenceDomain DEF CacheInv, CacheOK
  <2> QED
    BY <1>1, <2>1, Bumped
<1>3. /\ \A k \in DOMAIN b : b[k] \in usedIn(DOMAIN signed)' /\ usedAfter(b[k])' = {b[l] : l \in (k + 1)..Len(b)}
      /\ \A z \in usedIn(DOMAIN signed)' \ Range(b) : Cardinality(usedAfter(z)') >= cacheSize
  BY <1>1, BumpedIsRecent
<1>4. signed' \in Seq(Range(signed'))
  BY OneMoreUse
<1>5. SignedIfFresh'
  BY SignedIsFresh
<1>6. cacheSize \in Nat /\ cacheSize # 0 /\ Len(cache) \in Nat /\ Len(cache) <= cacheSize
  BY SequenceDomain, TransportAssumption DEF CacheInv, CacheOK
<1>7. CASE ~(Len(b) > cacheSize)
  <2>1. cache' = b
    BY <1>1, <1>7 DEF put
  <2>2. CacheOK'
    BY <1>2, <1>4, <1>6, <1>7, <2>1 DEF CacheOK
  <2>3. CacheIsRecent' /\ ForgottenAreOld'
    BY <1>3, <2>1 DEF CacheIsRecent, ForgottenAreOld
  <2> QED
    BY <1>5, <2>2, <2>3 DEF CacheInv
<1>8. CASE Len(b) > cacheSize
  <2>1. PICK c : c = Tail(b)
    OBVIOUS
  <2>2. cache' = c
    BY <1>1, <1>8, <2>1 DEF put
  <2>3. Len(b) = cacheSize + 1 /\ b # <<>>
    <3>0. Len(b) \in Int /\ Len(cache) \in Int /\ cacheSize \in Int /\ Len(b) <= Len(cache) + 1
      BY <1>2, <1>6
    <3>1. Len(b) = cacheSize + 1
      BY <1>6, <1>8, <3>0
    <3>2. Len(<<>>) = 0
      BY EmptySeq
    <3> QED
      BY <1>6, <3>1, <3>2
  <2>4. /\ c \in Seq(Range(c)) /\ Len(c) = cacheSize /\ DOMAIN c = 1..cacheSize
        /\ \A i \in 1..cacheSize : c[i] = b[i + 1] /\ i + 1 \in DOMAIN b
    <3>1. c \in Seq(Range(b)) /\ Len(c) = cacheSize /\ \A i \in 1..cacheSize : c[i] = b[i + 1]
      BY <1>2, <1>6, <2>1, <2>3, HeadTailProperties
    <3>2. c \in Seq(Range(c)) /\ DOMAIN c = 1..cacheSize
      BY <3>1, SeqOfRange, LenProperties
    <3>3. \A i \in 1..cacheSize : i + 1 \in DOMAIN b
      BY <1>2, <1>6, <2>3
    <3> QED
      BY <3>1, <3>2, <3>3
  <2>5. \A i, j \in DOMAIN c : c[i] = c[j] => i = j
    <3> SUFFICES ASSUME NEW i \in 1..cacheSize, NEW j \in 1..cacheSize, c[i] = c[j] PROVE i = j
      BY <2>4
    <3>1. i + 1 = j + 1
      BY <1>2, <2>4
    <3> QED
      BY <3>1
  <2>6. ASSUME NEW i \in 0..cacheSize PROVE {b[l] : l \in (i + 2)..Len(b)} = {c[l] : l \in (i + 1)..Len(c)}
    <3>1. ASSUME NEW l \in (i + 2)..Len(b) PROVE l - 1 \in (i + 1)..Len(c) /\ b[l] = c[l - 1]
      <4>1. l - 1 \in (i + 1)..Len(c) /\ l - 1 \in 1..cacheSize /\ (l - 1) + 1 = l
        BY <1>6, <2>3, <2>4
      <4> QED
        BY <2>4, <4>1
    <3>2. ASSUME NEW l \in (i + 1)..Len(c) PROVE l + 1 \in (i + 2)..Len(b) /\ c[l] = b[l + 1]
      <4>1. l + 1 \in (i + 2)..Len(b) /\ l \in 1..cacheSize
        BY <1>6, <2>3, <2>4
      <4> QED
        BY <2>4, <4>1
    <3> QED
      BY <3>1, <3>2
  <2>7. CacheOK'
    BY <1>4, <1>6, <2>2, <2>4, <2>5 DEF CacheOK
  <2>8. CacheIsRecent'
    <3> SUFFICES ASSUME NEW i \in 1..cacheSize
                 PROVE  /\ c[i] \in usedIn(DOMAIN signed)'
                        /\ usedAfter(c[i])' = {c[l] : l \in (i + 1)..Len(c)}
      BY <2>2, <2>4 DEF CacheIsRecent
    <3>1. c[i] = b[i + 1] /\ i + 1 \in DOMAIN b /\ (i + 1) + 1 = i + 2 /\ i \in 0..cacheSize
      BY <2>4
    <3> QED
      BY <1>3, <2>6, <3>1
  <2>9. ForgottenAreOld'
    <3> SUFFICES ASSUME NEW z \in usedIn(DOMAIN signed)' \ Range(c) PROVE Cardinality(usedAfter(z)') >= cacheSize
      BY <2>2 DEF ForgottenAreOld
    <3>1. CASE z \notin Range(b)
      BY <1>3, <3>1
    <3>2. CASE z \in Range(b)
      <4>1. PICK k \in DOMAIN b : z = b[k]
        BY <3>2 DEF Range
      <4>2. k = 1
        <5> SUFFICES ASSUME k # 1 PROVE FALSE
          OBVIOUS
        <5>1. k - 1 \in 1..cacheSize /\ (k - 1) + 1 = k
          BY <1>2, <1>6, <2>3
        <5>2. c[k - 1] = z
          BY <2>4, <4>1, <5>1
        <5> QED
          BY <2>4, <5>1, <5>2 DEF Range
      <4>3. usedAfter(z)' = {c[l] : l \in 1..Len(c)}
        <5>1. 0 \in 0..cacheSize /\ 0 + 2 = k + 1 /\ 0 + 1 = 1
          BY <1>6, <4>2
        <5>2. usedAfter(z)' = {b[l] : l \in (k + 1)..Len(b)}
          BY <1>3, <4>1
        <5>3. {b[l] : l \in (0 + 2)..Len(b)} = {c[l] : l \in (0 + 1)..Len(c)}
          BY <2>6, <5>1
        <5> QED
          BY <5>1, <5>2, <5>3
      <4>4. usedAfter(z)' = Range(c)
        BY <2>4, <4>3 DEF Range
      <4>5. Cardinality(Range(c)) = cacheSize
        BY <2>4, <2>5, RangeIsFinite
      <4> QED
        BY <1>6, <4>4, <4>5
    <3> QED
      BY <3>1, <3>2
  <2> QED
    BY <1>5, <2>7, <2>8, <2>9 DEF CacheInv
<1> QED
  BY <1>7, <1>8

LEMMA CacheStays ==
  ASSUME CacheInv, UNCHANGED <<cache, signed>>
  PROVE  CacheInv'
<1>1. \A x : usedAfter(x)' = usedAfter(x)
  BY DEF usedAfter, usedIn, isAfter
<1>2. usedIn(DOMAIN signed)' = usedIn(DOMAIN signed)
  BY DEF usedIn
<1>3. \A i : isFresh(i)' = isFresh(i)
  BY DEF isFresh
<1>4. CacheOK' /\ CacheIsRecent' /\ ForgottenAreOld'
  BY <1>1, <1>2 DEF CacheInv, CacheOK, CacheIsRecent, ForgottenAreOld
<1> QED
  BY <1>3, <1>4 DEF CacheInv, SignedIfFresh

LEMMA DeliveredKeepsCache ==
  ASSUME CacheInv, delivered
  PROVE  CacheInv'
<1>1. PICK x : x = Head(toSign)
  OBVIOUS
<1>2. CASE UNCHANGED <<cache, signed>>
  BY <1>2, CacheStays
<1>3. CASE x \in Range(cache) /\ cache' = bump(cache, x) /\ signed' = Append(signed, [id |-> x, new |-> FALSE])
  <2>1. Len(bump(cache, x)) = Len(cache) /\ Len(cache) \in Nat /\ Len(cache) <= cacheSize /\ cacheSize \in Nat
    BY <1>3, Bumped, SequenceDomain, TransportAssumption DEF CacheInv, CacheOK
  <2>2. cache' = put(cache, x)
    BY <1>3, <2>1 DEF put
  <2>3. signed' = Append(signed, [id |-> x, new |-> x \notin Range(cache)])
    BY <1>3
  <2> QED
    BY <2>2, <2>3, OneMoreKeepsCache
<1>4. CASE x \notin Range(cache) /\ cache' = put(cache, x) /\ signed' = Append(signed, [id |-> x, new |-> TRUE])
  <2>1. signed' = Append(signed, [id |-> x, new |-> x \notin Range(cache)])
    BY <1>4
  <2> QED
    BY <1>4, <2>1, OneMoreKeepsCache
<1> QED
  BY <1>1, <1>2, <1>3, <1>4 DEF delivered

LEMMA StepKeepsCache ==
  ASSUME CacheInv, [TransportNext]_transportVars
  PROVE  CacheInv'
<1>1. CASE UNCHANGED <<cache, signed>>
  BY <1>1, CacheStays
<1>2. CASE Setup
  BY <1>1, <1>2 DEF Setup, fetchServers, setupMatrixClient, setupFails, matrixSetup, startClient, init, signVars
<1>3. CASE Presence
  BY <1>1, <1>3 DEF Presence, matrixPresenceSuccess, matrixPresenceFailure, signVars
<1>4. CASE Services \/ messageServiceSendRequest
  BY <1>1, <1>4 DEF Services, messageServiceSendRequest, sendServiceMessage, serviceMessageSent, signVars
<1>5. CASE \E r \in Request : messageSendRequest(r)
  BY <1>1, <1>5 DEF messageSendRequest, signVars
<1>6. CASE \E p \in Peer : rtcOpen(p) \/ rtcClose(p)
  BY <1>1, <1>6 DEF rtcOpen, rtcClose, signVars
<1>7. CASE sendBatchedToDevice \/ sendToDevice
  BY <1>1, <1>7 DEF sendBatchedToDevice, sendToDevice, signVars
<1>8. CASE toDeviceEvent \/ dropStranger
  BY <1>1, <1>8 DEF toDeviceEvent, dropStranger, signVars
<1>9. CASE delivered
  BY <1>9, DeliveredKeepsCache
<1>10. CASE UNCHANGED transportVars
  BY <1>1, <1>10 DEF transportVars, signVars
<1> QED
  BY <1>2, <1>3, <1>4, <1>5, <1>6, <1>7, <1>8, <1>9, <1>10 DEF TransportNext

\* A Delivered is signed again only when cacheSize others were needed since, and then it is.
THEOREM ForgottenIsSignedAgain == TransportSpec => []SignedIfFresh
<1>1. TransportInit => CacheInv
  <2> SUFFICES ASSUME TransportInit PROVE CacheInv
    OBVIOUS
  <2>1. cache = <<>> /\ signed = <<>> /\ cacheSize \in Nat
    BY TransportAssumption DEF TransportInit
  <2>2. <<>> \in Seq(Range(<<>>)) /\ Len(<<>>) = 0 /\ DOMAIN <<>> = {}
    BY EmptySeq
  <2>3. CacheOK
    BY <2>1, <2>2 DEF CacheOK
  <2> QED
    BY <2>1, <2>2, <2>3 DEF CacheInv, CacheIsRecent, ForgottenAreOld, SignedIfFresh, usedIn
<1>2. CacheInv /\ [TransportNext]_transportVars => CacheInv'
  BY StepKeepsCache
<1>3. CacheInv => SignedIfFresh
  BY DEF CacheInv
<1> QED
  BY <1>1, <1>2, <1>3, PTL DEF TransportSpec

=============================================================================
