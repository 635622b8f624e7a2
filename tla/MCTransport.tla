---------------------------- MODULE MCTransport ----------------------------
(***************************************************************************)
(* Small instances of Transport.                                           *)
(***************************************************************************)
EXTENDS Transport

request(id, peer, type, user) == [id |-> id, peer |-> peer, type |-> type, user |-> user]
\* texts, with and without a userId, around an answer, or around a hangup, which has none;
\* and with another peer
Texts == {request(1, "p", "text", FALSE), request(2, "p", "notice", TRUE), request(3, "p", "text", TRUE)}
Hangup == {request(1, "p", "text", FALSE), request(5, "p", "notice", FALSE), request(6, "p", "text", FALSE)}
Peers == {request(2, "p", "notice", TRUE), request(3, "p", "text", TRUE), request(4, "q", "text", TRUE)}
event(peer, first, ids) ==
  [peer |-> peer, lines |-> [i \in DOMAIN ids |-> [number |-> first + i, id |-> ids[i]]]]
scenario(stored, configuredServer, found, requests, toServices, events) ==
  [stored |-> stored, configured |-> configuredServer, found |-> found,
   requests |-> requests, services |-> toServices, events |-> events]

\* where to look for a server; what to send; a peer that repeats itself, with a stranger
Usual ==
  {scenario("s", NoServer, {"s", "t", "u"}, {}, 0, <<>>),
   scenario("s", "t", {}, {}, 0, <<>>),
   scenario(NoServer, "s", {}, Texts, 0, <<>>), scenario(NoServer, "s", {}, Hangup, 0, <<>>),
   scenario(NoServer, "s", {}, Peers, 0, <<>>),
   scenario(NoServer, "s", {}, {request(3, "p", "text", TRUE)}, 3, <<event("p", 0, <<1, 2>>)>>),
   scenario(NoServer, "s", {}, {request(1, "q", "text", FALSE)}, 0,
            <<event("p", 0, <<1, 2, 1, 3>>), event("q", 0, <<5>>), event("q", 1, <<6>>), event("p", 4, <<1, 2>>)>>)}
=============================================================================
