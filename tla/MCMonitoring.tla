---------------------------- MODULE MCMonitoring ----------------------------
(***************************************************************************)
(* Small instances of UserDeposit and Monitoring.                          *)
(***************************************************************************)
EXTENDS Monitoring

scenario(deposits, plans, claims, restarts, failures, transfers, losses, reporters) ==
  [deposits |-> deposits, plans |-> plans, claims |-> claims, restarts |-> restarts, failures |-> failures,
   transfers |-> transfers, losses |-> losses, reporters |-> reporters]
MS == {"ms"}
PFS == {"pfs"}
\* deposits, withdraws, and both; and payments, reported to one or both kinds of services, or not
Usual ==
  {scenario(<<3, 2, 3>>, 0, 1, 1, 1, 0, 0, {}), scenario(<<>>, 2, 1, 1, 1, 0, 0, {}),
   scenario(<<5>>, 2, 1, 0, 0, 0, 0, {}),
   scenario(<<2>>, 0, 1, 0, 0, 1, 1, Reporter),
   scenario(<<>>, 0, 0, 1, 0, 2, 1, MS), scenario(<<>>, 0, 0, 0, 0, 3, 0, MS),
   scenario(<<>>, 0, 0, 1, 0, 2, 0, PFS), scenario(<<>>, 0, 0, 0, 0, 2, 1, PFS)}
=============================================================================
