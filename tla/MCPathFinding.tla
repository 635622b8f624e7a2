--------------------------- MODULE MCPathFinding ---------------------------
(***************************************************************************)
(* Small instances of Payments, and so of PathFinding: requests as they    *)
(* come, and those of the views of the dApp.                               *)
(***************************************************************************)
EXTENDS Payments

request_(service, paths, value) == [pfs |-> service, paths |-> paths, value |-> value, target |-> "t"]
path(nodes, fee) == [path |-> nodes, fee |-> fee]
channels(capacity, toTarget) ==
  [n \in Node |-> [open |-> n \in {"m", "o", "t"}, capacity |-> IF n = "t" THEN toTarget ELSE capacity]]
scen(requests, mode, extra, registered, answers, toTarget) ==
  [requests |-> requests, mode |-> mode, additional |-> extra, registered |-> registered,
   answers |-> answers, channel |-> channels(2, toTarget),
   view |-> None, visits |-> 0, troubles |-> MaxTrouble, payment |-> [value |-> 2, target |-> "t"]]

\* what services answer: paths of several kinds; they serve the requests of a row
Found == <<path(<<us, "o", "x", "t">>, 1), path(<<us, "m", "t">>, 10), path(<<us, "m", "o", "t">>, 4),
           path(<<us, "o", "t">>, 3), path(<<us, "m", "o", "t">>, 20)>>
Prices == [s \in Service |-> IF s = "p" THEN 2 ELSE IF s = "r" THEN 5 ELSE 0]
Paying == <<request_("any", <<>>, 2), request_("any", <<>>, 1), request_("any", <<>>, 2)>>
Usual ==
  {scen(Paying, "auto", <<>>, {"p"}, {[is |-> "paths", paths |-> Found], [is |-> "no route", paths |-> <<>>]}, 0),
   scen(<<request_("any", <<>>, 2), request_("p", <<>>, 1)>>, "onlyAdditional", <<"r", "z", "p">>, {}, {[is |-> "paths", paths |-> Found]}, 0),
   scen(<<request_("any", <<>>, 2), request_("p", <<>>, 2), request_("disabled", <<>>, 2), request_("disabled", Found, 2)>>,
        "disabled", <<>>, {}, {[is |-> "paths", paths |-> Found]}, 1)}
Answers == {[is |-> "paths", paths |-> Found], [is |-> "no route", paths |-> <<>>]}
view(name, times, troubles, extra, registered, toTarget) ==
  [scen(<<>>, "auto", extra, registered, Answers, toTarget)
     EXCEPT !.view = name, !.visits = times, !.troubles = troubles]
Views == {view("steps", 2, 0, <<"z">>, {}, 0), view("quick", 1, 1, <<>>, {"p"}, 1)}
All == Usual \cup Views
=============================================================================
