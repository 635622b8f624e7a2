---------------------------- MODULE MCLifecycle ----------------------------
(***************************************************************************)
(* Small instances of Lifecycle.                                           *)
(***************************************************************************)
EXTENDS Lifecycle

\* The client follows a channel that the partner opens and either side closes
following ==
  [settleTimeout |-> 1, height |-> 7, lag |-> 1, transfers |-> 0, reorgs |-> 0, restarts |-> 0,
   mayLag |-> FALSE, autoSettle |-> FALSE,
   own |-> {"closed"}, partner |-> {"opened", "deposit", "closed"},
   prompt |-> FALSE, closeFails |-> TRUE]

\* There is time to settle
settlement ==
  [settleTimeout |-> 5, height |-> 16, lag |-> 1, transfers |-> 1, reorgs |-> 0, restarts |-> 0,
   mayLag |-> FALSE, autoSettle |-> TRUE,
   own |-> {"opened", "closed"}, partner |-> {"closed"},
   prompt |-> TRUE, closeFails |-> FALSE]

\* A block is replaced; the client is killed, with blocks arriving during a request; a
\* channel is settled automatically; or by its user, alone or together
Usual ==
  {[following EXCEPT !.reorgs = 1],
   [following EXCEPT !.restarts = 1, !.lag = 2, !.mayLag = TRUE, !.own = {},
                     !.partner = {"opened", "deposit"}],
   settlement,
   [settlement EXCEPT !.autoSettle = FALSE, !.own = {"opened", "coopSettled", "settled"}]}
=============================================================================
