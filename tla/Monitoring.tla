----------------------------- MODULE Monitoring -----------------------------
(***************************************************************************)
(* What services are told of a channel: monitoring services the last       *)
(* balance proof of the partner, if the deposit in UserDeposit can pay     *)
(* them, and path finding services its capacities.                         *)
(*                                                                         *)
(* Payments on the channel are those of Envelopes; here, they only change  *)
(* its ends.                                                               *)
(***************************************************************************)
EXTENDS UserDeposit

CONSTANT monitoringReward
ASSUME MonitoringAssumption == monitoringReward \in Nat \ {0}

Reporter == {"ms", "pfs"}

VARIABLES
  channel,      \* [open, own, partner]: an end has a nonce, locks, and what was unlocked
  held,         \* of a reporter: a channel that waits for more to happen (debounce), or Nothing
  jobs,         \* of a reporter: reports being made: [channel, step]
  asked,        \* of a reporter: the channel of its last messageServiceSend.request
  sending,      \* of a reporter: those of the requests that aren't answered
  told,         \* of a reporter: the latest channel services were told of, by its nonces
  lost,         \* of a reporter: those whose report wasn't signed or sent (history)
  since         \* the channel when the client started (history)

serviceVars == <<asked, sending, told, lost>>
allVars == <<vars, channel, held, jobs, serviceVars, since>>

End == [nonce |-> 0, locks |-> 0, unlocked |-> 0]
Nothing == [open |-> FALSE, own |-> End, partner |-> End]
MonitoringInit ==
  /\ Init /\ channel = [Nothing EXCEPT !.open = TRUE] /\ since = channel
  /\ held = [r \in Reporter |-> Nothing] /\ jobs = [r \in Reporter |-> {}]
  /\ asked = [r \in Reporter |-> Nothing] /\ told = [r \in Reporter |-> Nothing]
  /\ sending = [r \in Reporter |-> {}] /\ lost = [r \in Reporter |-> {}]

-----------------------------------------------------------------------------

\* makeMonitoringRequest$ gives up if there is nothing to lose
report(r, c) == IF r = "ms" /\ c.partner.unlocked = 0 THEN {} ELSE {[channel |-> c, step |-> "wait"]}
\* Mutant of replacing: the last report goes on
replacingNone(r, c) == jobs[r] \cup report(r, c)
\* switchMap: the last report is given up
replacing(r, c) == report(r, c)

\* What makes a reporter act, and what makes it wait: a transfer has begun
isReported(r, c) == IF r = "ms" THEN c.partner # channel.partner ELSE c.open /\ "pfs" \in left.reporters
begins(r, c) == c.partner.locks > channel.partner.locks \/ (r = "pfs" /\ c.own.locks > channel.own.locks)
\* Mutant of holding: what was held back stays
holdingOn(r, c) == IF isReported(r, c) /\ begins(r, c) THEN c ELSE held[r]
\* debounce: the last one counts
holding(r, c) == IF ~isReported(r, c) THEN held[r] ELSE IF begins(r, c) THEN c ELSE Nothing
become(c) ==
  /\ channel' = c
  /\ held' = [r \in Reporter |-> holding(r, c)]
  /\ jobs' = [r \in Reporter |-> IF isReported(r, c) /\ ~begins(r, c) THEN replacing(r, c) ELSE jobs[r]]
  /\ UNCHANGED <<chainVars, depositVars, withdrawVars, confirming, serviceVars, since>>

\* A message changes an end: a lock is added, unlocked, or expires
happens == left.transfers > 0 /\ left' = [left EXCEPT !.transfers = @ - 1]
changed(end, locks, unlocked) ==
  [end EXCEPT !.nonce = @ + 1, !.locks = @ + locks, !.unlocked = @ + unlocked]
transfer(side) ==
  /\ channel.open /\ happens
  /\ become([channel EXCEPT ![side] = changed(channel[side], 1, 0)])
endTransfer(side) ==
  /\ channel.open /\ channel[side].locks > 0 /\ UNCHANGED left
  /\ \E unlocked \in 0..1 : become([channel EXCEPT ![side] = changed(channel[side], -1, unlocked)])
closeChannel ==
  /\ channel.open /\ happens /\ become([channel EXCEPT !.open = FALSE])

\* Nothing more happened for httpTimeout
timer(r) ==
  /\ held[r] # Nothing /\ held' = [held EXCEPT ![r] = Nothing]
  /\ jobs' = [jobs EXCEPT ![r] = replacing(r, held[r])]
  /\ UNCHANGED <<vars, channel, serviceVars, since>>

\* The reward has to be set, and be there, or come; signing takes its time
canPay(r) == r = "ms" => "ms" \in left.reporters /\ latest.balance >= monitoringReward
take(r, j) ==
  /\ j \in jobs[r] /\ j.step = "wait" /\ canPay(r)
  /\ jobs' = [jobs EXCEPT ![r] = (@ \ {j}) \cup {[j EXCEPT !.step = "sign"]}]
  /\ UNCHANGED <<vars, channel, held, serviceVars, since>>
messageServiceSend(r, j) ==
  /\ j \in jobs[r] /\ j.step = "sign"
  /\ jobs' = [jobs EXCEPT ![r] = @ \ {j}]
  /\ asked' = [asked EXCEPT ![r] = j.channel] /\ sending' = [sending EXCEPT ![r] = @ \cup {j.channel}]
  /\ UNCHANGED <<vars, channel, held, told, lost, since>>

\* The signature is refused or fails: an error in the log is all that is left of the report
loses(r, c) ==
  /\ left.losses > 0 /\ left' = [left EXCEPT !.losses = @ - 1]
  /\ lost' = [lost EXCEPT ![r] = @ \cup {c}]
  /\ UNCHANGED <<chainVars, depositVars, withdrawVars, confirming, channel, held, asked, since>>
signatureFails(r, j) ==
  /\ j \in jobs[r] /\ j.step = "sign" /\ jobs' = [jobs EXCEPT ![r] = @ \ {j}]
  /\ loses(r, j.channel) /\ UNCHANGED <<sending, told>>

\* sendServiceMessage: several at a time, with lookups and retries, so that they arrive in any order, and
\* again; services keep to the highest nonces
time(c) == c.own.nonce + c.partner.nonce
arrives(r, c) == told' = [told EXCEPT ![r] = IF time(c) > time(@) THEN c ELSE @]
answered(r, c) == sending' = [sending EXCEPT ![r] = @ \ {c}]
sendServiceMessage(r, c) ==
  /\ c \in sending[r]
  /\ arrives(r, c) /\ (answered(r, c) \/ UNCHANGED sending)
  /\ UNCHANGED <<vars, channel, held, jobs, asked, lost, since>>
sendFails(r, c) ==
  /\ c \in sending[r] /\ answered(r, c)
  /\ loses(r, c) /\ UNCHANGED <<jobs, told>>

\* The first state of a channel isn't reported (pairwise)
restart ==
  /\ restartUserDeposit
  /\ held' = [r \in Reporter |-> Nothing] /\ jobs' = [r \in Reporter |-> {}] /\ since' = channel
  /\ sending' = [r \in Reporter |-> {}] /\ UNCHANGED <<channel, asked, told, lost>>

Reports(r) ==
  \/ timer(r)
  \/ \E j \in jobs[r] : take(r, j) \/ messageServiceSend(r, j) \/ signatureFails(r, j)
  \/ \E c \in sending[r] : sendServiceMessage(r, c) \/ sendFails(r, c)
MonitoringNext ==
  \/ UserDepositNext /\ UNCHANGED <<channel, held, jobs, serviceVars, since>>
  \/ restart \/ closeChannel
  \/ \E side \in {"own", "partner"} : transfer(side) \/ endTransfer(side)
  \/ \E r \in Reporter : Reports(r)

\* Blocks are made and read, transactions mined and confirmed, reports signed
MonitoringSpec ==
  /\ MonitoringInit /\ [][MonitoringNext]_allVars
  /\ WF_vars(emptyBlock) /\ WF_vars(Deposit) /\ WF_vars(Withdraw) /\ WF_vars(Confirm)
  /\ \A r \in Reporter : WF_allVars(Reports(r))

-----------------------------------------------------------------------------
(* Properties *)

\* No report of a past state of the channel is asked for after one of a later state: what took long to be
\* held back, paid for or signed is given up (switchMap, debounce). What services are told isn't as
\* orderly, as reports are sent side by side.
AskedInOrder == [][\A r \in Reporter : time(asked'[r]) >= time(asked[r])]_allVars

\* If the config has them, monitoring services get to know the last balance proof, if there is something
\* to lose, and the deposit pays for them; path finding services the last capacities; unless nothing has
\* changed since the client started, or just this report wasn't signed or sent: neither is tried again
\* before the next change (msMonitorRequestEpic, pfsCapacityUpdateEpic).
ServicesKnow ==
  <>[](/\ channel.partner # since.partner /\ channel.partner.unlocked > 0 /\ canPay("ms")
            => channel.partner \in {told["ms"].partner} \cup {c.partner : c \in lost["ms"]}
       /\ channel # since /\ channel.open /\ "pfs" \in left.reporters => channel \in {told["pfs"]} \cup lost["pfs"])

=============================================================================
