---------------------------- MODULE MCRetention ----------------------------
(* Two branches; a client with and without a login, one domain of each      *)
(* category, requests that are allowed, denied and refused by the server.   *)
EXTENDS Retention

CONSTANTS b1, b2, c1, c2, d1, d2, u1

Request(i, branch, client, user, domain, action, status, ms) ==
  [id |-> i, at |-> 0, branch |-> branch, client |-> client, user |-> user, domain |-> domain,
   action |-> action, status |-> status, hierarchy |-> "direct", ms |-> ms]

\* The archive, with one and with two requests; an archive changes no table, so
\* nothing is asked here. Midnight comes half-way.
Archiving ==
  [requests |-> << Request(1, b2, c1, None, d1, "denied", 403, 50),
                   Request(2, b1, c1, None, d2, "denied", 503, 400) >>,
   archive  |-> 2, purge |-> 1, fault |-> 0, first |-> 5, last |-> 10, asked |-> FALSE]
Failing == [Archiving EXCEPT !.requests = SubSeq(@, 1, 1), !.fault = 1, !.last = 11]

\* The tables, through two purges, through one that breaks off, and through none.
RollingUp ==
  [requests |-> << Request(1, b1, c1, None, d1, "denied", 407, None),
                   Request(2, b1, c1, None, d2, "denied", 503, 400) >>,
   archive  |-> 0, purge |-> 2, fault |-> 0, first |-> 0, last |-> 7, asked |-> TRUE]
Breaking ==
  [requests |-> << Request(2, b1, c1, None, d2, "denied", 503, 400),
                   Request(3, b2, c1, u1, None, "hit", 200, 90) >>,
   archive  |-> 0, purge |-> 1, fault |-> 1, first |-> 0, last |-> 7, asked |-> TRUE]
Browsing ==
  [requests |-> << Request(1, b1, c1, u1, d1, "miss", 200, 20),
                   Request(2, b1, c2, None, d2, "denied", 403, 20000),
                   Request(3, b2, c1, u1, d1, "denied", 503, 150),
                   Request(4, b1, c1, u1, d1, "hit", 200, 250) >>,
   archive  |-> 0, purge |-> 0, fault |-> 0, first |-> 0, last |-> 7, asked |-> TRUE]

MCScenarios     == {Archiving, Failing, RollingUp, Breaking, Browsing}
MCArchivingOnly == {[Failing EXCEPT !.fault = 0, !.first = 0, !.last = 5]}
MCBrought  == UNION {Range(s.requests) : s \in MCScenarios}
MCOrder    == <<b1, b2>>
MCCategory == [d \in {d1, d2} |-> IF d = d1 THEN "social" ELSE "uncategorized"]
MCLags     == {None, 2}
=============================================================================
