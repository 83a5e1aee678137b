------------------------------ MODULE MCNotices ------------------------------
(* One scenario for the pairing codes, one for the insights calls, and one   *)
(* for each kind of job.                                                     *)
EXTENDS Notices, TLC

CONSTANTS b1, b2, super, c1, u1, d1, d2, d3

Request(i, domain, action) ==
  [id |-> i, at |-> 0, branch |-> b1, client |-> c1, user |-> None, domain |-> domain,
   action |-> action, status |-> 200, hierarchy |-> "direct", ms |-> None]

Quiet    == [job |-> "none", ticks |-> 5, codes |-> 0, messages |-> 0, pages |-> 0,
             requests |-> << >>, lag |-> 0, provider |-> FALSE, exports |-> 0, purges |-> 0,
             faults |-> 0]
Pairing  == [Quiet EXCEPT !.ticks = 2, !.codes = 2, !.messages = 2, !.faults = 1]
Saving   == [Quiet EXCEPT !.ticks = 1, !.codes = 2, !.messages = 2, !.pages = 2]
Watch    == [Quiet EXCEPT !.job = "watch", !.ticks = 5, !.faults = 1,
                          !.requests = <<[Request(1, d1, "hit") EXCEPT !.branch = b2],
                                         [Request(2, d1, "hit") EXCEPT !.user = u1]>>]
Finding  == [Quiet EXCEPT !.ticks = 3, !.lag = 2, !.provider = TRUE, !.purges = 1, !.faults = 1,
                          !.requests = <<Request(1, d1, "denied"), Request(2, d2, "denied"),
                                         Request(3, d1, "denied")>>]
Limits(j) == [Quiet EXCEPT !.job = j, !.requests = <<Request(1, d1, "hit"), Request(2, d2, "miss"),
                                                     Request(3, d1, "hit")>>]
Crowding == [Quiet EXCEPT !.job = "uncategorized", !.ticks = 2,
                          !.requests = <<Request(1, d2, "hit"), Request(2, d3, "hit"),
                                         Request(3, d2, "hit"), Request(4, d3, "hit")>>]
Exported == [Quiet EXCEPT !.job = "exports", !.exports = 2, !.faults = 1]
Reporter == [Quiet EXCEPT !.job = "report", !.faults = 2]

MCFinding   == {Finding}
MCNotices   == {Pairing, Saving, Watch, Finding, Limits("quota"), Limits("minutes"), Crowding,
                Exported, Reporter}
MCSymmetry  == Permutations(Codes) \cup Permutations(Chats) \cup Permutations(Requests)
               \cup Permutations(Exports)
MCOrder     == <<b1, b2>>
MCCategory  == [d \in {d1, d2, d3} |-> IF d = d1 THEN "social" ELSE "uncategorized"]
MCSettings  == [b \in {b1, b2} |-> [sensitive |-> {"social"}, minutes |-> 2, quota |-> 2, requests |-> 2]]
MCRules     == {[kind |-> "rule1", branch |-> b1, scope |-> "client", metric |-> "blocked",
                 window |-> 2, threshold |-> 1],
                [kind |-> "rule2", branch |-> b1, scope |-> "branch", metric |-> "requests",
                 window |-> 2, threshold |-> 1]}
MCSpike     == [windows |-> 2, least |-> 1, minimum |-> 2, k |-> 1, multiplier |-> 1]
MCWatched   == {[type |-> "domain", value |-> d1, branch |-> None],
                [type |-> "domain", value |-> d1, branch |-> b1],
                [type |-> "user", value |-> u1, branch |-> b1]}
=============================================================================
