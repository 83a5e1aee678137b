--------------------------------- MODULE Pages ---------------------------------
(***************************************************************************)
(* The pages of the dashboard that put several queries together:           *)
(* Analytics (analytics_service, squid_ops_service), Blocked               *)
(* (blocked_analysis_service, block_filters), and those that read          *)
(* raw_events (event_query_service, domain_service, time_spent_service,    *)
(* client_service). Listings are sets or functions: their order and the    *)
(* cut to a page are left out, and so are byte columns.                    *)
(***************************************************************************)
EXTENDS Tables, Sequences
LOCAL INSTANCE SequencesExt

CONSTANTS
  Day,          \* Steps of the clock to the day.
  MaxBuckets,   \* CATEGORY_TREND_MAX_BUCKETS.
  Gap,          \* SESSION_GAP_MINUTES.
  Threshold,    \* uncategorized_domain_request_threshold.
  EventsCap     \* _EVENTS_COUNT_CAP.

ASSUME PagesAssumption ==
  Day \in Nat \ {0} /\ {MaxBuckets, Gap, Threshold, EventsCap} \subseteq Nat

-----------------------------------------------------------------------------
(* Series, without the bucket that is still filling.                        *)

At(groups, g) == IF g \in DOMAIN groups THEN groups[g] ELSE 0

Truncate(at, size) == at - (at % size)

\* A series that would be too long is made coarser.
Granularity(asked, since, until) ==
  IF asked = Hour /\ until - since > MaxBuckets * Hour THEN Day ELSE asked

\* Mutant of Filling: the bucket of now is shown as if it were full.
FillingLater(at, size, now) == Truncate(at, size) > Truncate(now, size)

\* _drop_in_progress_bucket.
Filling(at, size, now) == Truncate(at, size) >= Truncate(now, size)

Series(rows, keys, asked, since, until, now, Label(_), f) ==
  LET size == Granularity(asked, since, until) IN
  GroupBy(rows, {k \in keys : ~Filling(k.at, size, now)},
          LAMBDA k : <<Truncate(k.at, size), Label(k)>>, f)

CategoryTrend(tables, asked, since, until, scope, now) ==
  Series(tables.domain, InRange(tables.domain, since, until, scope), asked, since, until, now,
         LAMBDA k : Category[k.domain], "requests")

BranchTrend(tables, asked, since, until, scope, now, f) ==
  Series(tables.minute, InRange(tables.minute, since, until, scope), asked, since, until, now,
         LAMBDA k : k.branch, f)

ResultSeries(tables, size, since, until, scope, now) ==
  GroupBy(tables.code, {k \in InRange(tables.code, since, until, scope) : ~Filling(k.at, size, now)},
          LAMBDA k : <<Truncate(k.at, size), k.action>>, "requests")

\* get_result_codes' ratios are taken of these.
CodeTotals(tables, since, until, scope) ==
  LET groups == GroupBy(tables.code, InRange(tables.code, since, until, scope),
                        LAMBDA k : k.action, "requests")
  IN [hit |-> At(groups, "hit"), miss |-> At(groups, "miss"), denied |-> At(groups, "denied")]

\* get_activity_heatmap: hours of the day where the viewer is (weekdays are
\* left out), without empty cells.
Heatmap(tables, since, until, scope, shift, f) ==
  LET keys == {k \in InRange(tables.minute, since, until, scope) : tables.minute[k][f] > 0} IN
  GroupBy(tables.minute, keys, LAMBDA k : FloorHour((k.at + shift) % Day), f)

-----------------------------------------------------------------------------
(* Overview and branches.                                                   *)

ActiveClients(tables, since, until, scope) ==
  {r.row.client : r \in DOMAIN ClientRows(tables, since, until, scope)}

\* The same length of time, right before.
Before(since, until) == since - (until - since)

Period(tables, since, until, scope) ==
  [totals     |-> Summary(tables, since, until, scope),
   clients    |-> Cardinality(ActiveClients(tables, since, until, scope)),
   categories |-> Categories(tables, since, until, scope, "requests"),
   domains    |-> Domains(tables, since, until, scope, "requests")]

\* get_overview, where the minute that divides the periods belongs to both.
Overview(tables, since, until, scope) ==
  LET current  == Period(tables, since, until, scope)
      previous == Period(tables, Before(since, until), since, scope)
      In(p, c) == IF c \in DOMAIN p.categories THEN p.categories[c] ELSE 0
  IN [current |-> current, previous |-> previous,
      movers  |-> [c \in DOMAIN current.categories \cup DOMAIN previous.categories |->
                     <<In(current, c), In(previous, c)>>]]

BranchesInScope(scope) == IF scope = Unrestricted THEN Branches ELSE scope

BranchBreakdown(tables, since, until, scope) ==
  LET now    == BranchTotals(tables, since, until, scope, "requests")
      before == BranchTotals(tables, Before(since, until), since, scope, "requests")
  IN [b \in BranchesInScope(scope) |->
        [requests |-> At(now, b), previous |-> At(before, b),
         blocked  |-> At(BranchTotals(tables, since, until, scope, "blocked"), b),
         clients  |-> Cardinality({r.row.client : r \in
           {q \in DOMAIN ClientRows(tables, since, until, Unrestricted) : q.row.branch = b}})]]

\* get_branch_category_breakdown.
BranchCategories(tables, since, until, scope) ==
  GroupBy(tables.domain, InRange(tables.domain, since, until, scope),
          LAMBDA k : <<k.branch, Category[k.domain]>>, "requests")

BranchDomains(tables, since, until, scope, f) ==
  GroupBy(tables.domain, InRange(tables.domain, since, until, scope),
          LAMBDA k : <<k.branch, k.domain>>, f)

\* get_branch_top_blocked_domains.
BranchBlockedDomains(tables, since, until, scope) ==
  LET all == BranchDomains(tables, since, until, scope, "blocked") IN
  [g \in {h \in DOMAIN all : all[h] > 0} |-> all[g]]

\* get_branch_signals: domains to be categorised (zero is no threshold).
Uncategorized(tables, since, until, scope) ==
  LET all == BranchDomains(tables, since, until, scope, "requests") IN
  [b \in BranchesInScope(scope) |->
     Cardinality({g \in DOMAIN all : /\ g[1] = b
                                     /\ Threshold > 0 /\ all[g] >= Threshold
                                     /\ Category[g[2]] = "uncategorized"})]

-----------------------------------------------------------------------------
(* Traffic and cache: response times.                                       *)

Histogram(tables, since, until, scope) ==
  LET counts == GroupBy(tables.band, InRange(tables.band, since, until, scope),
                        LAMBDA k : k.band, "requests")
  IN [i \in DOMAIN Bands |-> At(counts, i)]

\* _percentile_from_hist, in whole milliseconds: the band in which the counts
\* reach the rank, and how far into it.
Rank(p, n) == (p * n + 99) \div 100

Percentile(hist, p) ==
  LET UpTo(i) == MapThenSumSet(LAMBDA j : hist[j], 1..i)
      n       == UpTo(Len(Bands))
      band    == Min({i \in DOMAIN Bands : UpTo(i) >= Rank(p, n)})
  IN IF n = 0 THEN 0
     ELSE IF band = Len(Bands) THEN Bands[band]
     ELSE Bands[band] + ((Bands[band + 1] - Bands[band]) * (Rank(p, n) - UpTo(band - 1)))
                          \div hist[band]

-----------------------------------------------------------------------------
(* Who is doing what: the list of a kind of actors, and one of them.        *)

OfKind(actor, kind) == kind \in {"all", actor[1]}

\* _mixed_actor_query, for the page, its counts and list_all_actors.
Actors(tables, since, until, scope, kind, blockedOnly) ==
  LET rows   == ClientRows(tables, since, until, scope)
      kept   == {r \in DOMAIN rows : Kept(rows, r) /\ OfKind(Actor(r), kind)}
      counts == GroupBy(rows, kept, Actor, "requests")
      blocks == GroupBy(rows, kept, Actor, "blocked")
  IN [a \in {b \in DOMAIN counts : blockedOnly => blocks[b] > 0} |-> counts[a]]

\* The actor is a login or an address.
IsActor(actor, user, client) == IF actor[1] = "user" THEN user = actor[2] ELSE client = actor[2]

ActorRows(tables, actor, since, until, scope) ==
  {r \in DOMAIN ClientRows(tables, since, until, scope) : IsActor(actor, r.row.user, r.row.client)}

\* _actor_domains.
ActorDomains(raw, actor, since, until, scope, blockedOnly) ==
  LET mine == {e \in raw : /\ IsActor(actor, e.user, e.client)
                           /\ since <= e.at /\ e.at <= until /\ BranchMatches(e.branch, scope)
                           /\ e.domain # None /\ (blockedOnly => Blocked(e))}
  IN [d \in {e.domain : e \in mine} |-> Cardinality({e \in mine : e.domain = d})]

ActorDetail(tables, raw, actor, since, until, scope) ==
  LET rows     == ClientRows(tables, since, until, scope)
      mine     == ActorRows(tables, actor, since, until, scope)
      byLogin  == InRange(tables.usercat, since, until, scope)
      byClient == InRange(tables.category, since, until, scope)
  IN [requests   |-> Sum(rows, mine, "requests"),
      blocked    |-> Sum(rows, mine, "blocked"),
      previous   |-> LET then == ClientRows(tables, Before(since, until), since, scope) IN
                     Sum(then, {r \in DOMAIN then : IsActor(actor, r.row.user, r.row.client)},
                         "requests"),
      seen       |-> {r.row.at : r \in mine},
      hourly     |-> GroupBy(rows, mine, LAMBDA r : FloorHour(r.row.at % Day), "requests"),
      categories |-> IF actor[1] = "user"
                     THEN GroupBy(tables.usercat, {k \in byLogin : k.user = actor[2]},
                                  LAMBDA k : k.category, "requests")
                     ELSE GroupBy(tables.category, {k \in byClient : k.client = actor[2]},
                                  LAMBDA k : k.category, "requests"),
      domains    |-> ActorDomains(raw, actor, since, until, scope, FALSE),
      denied     |-> ActorDomains(raw, actor, since, until, scope, TRUE)]

\* get_new_entities' other list.
NewUsers(tables, since, until, scope) ==
  LET rows == ClientRows(tables, 0, until, scope)
      Of(u) == {r.row.at : r \in {q \in DOMAIN rows : q.row.user = u}}
  IN {u \in {r.row.user : r \in DOMAIN rows} \ {None} : Min(Of(u)) >= since}

-----------------------------------------------------------------------------
(* The Blocked page. A filter lists what its terms match; None is no terms. *)

NoFilter == [include |-> None, exclude |-> {}, clients |-> None, users |-> None]

\* Terms on a login can ask for "no login" (-).
Passes(f, domain, client, user) ==
  /\ f.include # None => domain \in f.include
  /\ f.exclude # {} => domain \notin f.exclude \cup {None}
  /\ f.clients # None => client \in f.clients
  /\ f.users # None => user \in f.users

NeedsClientDetail(f) == f.clients # None \/ f.users # None

\* Mutant of PickTable: a filter by login is answered from the small table.
PickTableSmall(f, group, sort) ==
  IF f.clients # None \/ group \in {"client", "user"} \/ sort \in {"clients", "users"}
  THEN "blockedClient" ELSE "blockedDomain"

PickTable(f, group, sort) ==
  IF NeedsClientDetail(f) \/ group \in {"client", "user"} \/ sort \in {"clients", "users"}
  THEN "blockedClient" ELSE "blockedDomain"

\* _conditions: the range takes in the hour it begins in.
BlockedRows(tables, t, since, until, scope, f) ==
  {k \in InRange(tables[t], FloorHour(since), until, scope) :
     IF t = "blockedClient" THEN Passes(f, k.domain, k.client, k.user)
     ELSE Passes([f EXCEPT !.clients = None, !.users = None], k.domain, None, None)}

Measure(c, kind) ==
  CASE kind = "denied" -> c.denied
    [] kind = "auth"   -> c.auth
    [] OTHER           -> c.denied + c.auth

\* _distinct.
Distinct(tables, t, keys, column, kind) ==
  Cardinality({k[column] : k \in {r \in keys : Measure(tables[t][r], kind) > 0}} \ {None})

\* get_summary.
BlockedSummary(tables, since, until, scope, f, kind) ==
  LET t       == PickTable(f, "none", "none")
      rows    == BlockedRows(tables, t, since, until, scope, f)
      clients == BlockedRows(tables, "blockedClient", since, until, scope, f)
  IN [denied  |-> Sum(tables[t], rows, "denied"),
      auth    |-> Sum(tables[t], rows, "auth"),
      domains |-> Distinct(tables, t, rows, "domain", kind),
      clients |-> Distinct(tables, "blockedClient", clients, "client", kind),
      users   |-> Distinct(tables, "blockedClient", clients, "user", kind),
      series  |-> GroupBy(tables[t], rows, LAMBDA k : k.at, "denied")]

\* _groups: from one table, with the counts of clients and logins from the other.
Groups(tables, since, until, scope, f, group, kind, sort) ==
  LET t    == PickTable(f, group, sort)
      rows == BlockedRows(tables, t, since, until, scope, f)
      more == BlockedRows(tables, "blockedClient", since, until, scope, f)
      Of(keys, g) == {k \in keys : k[group] = g}
      Count(g) == MapThenSumSet(LAMBDA k : Measure(tables[t][k], kind), Of(rows, g))
  IN [g \in {h \in {k[group] : k \in rows} : Count(h) > 0} |->
        [denied  |-> Sum(tables[t], Of(rows, g), "denied"),
         auth    |-> Sum(tables[t], Of(rows, g), "auth"),
         domains |-> Distinct(tables, t, Of(rows, g), "domain", kind),
         clients |-> Distinct(tables, "blockedClient", Of(more, g), "client", kind),
         users   |-> Distinct(tables, "blockedClient", Of(more, g), "user", kind),
         first   |-> Min({k.at : k \in Of(rows, g)}),
         last    |-> Max({k.at : k \in Of(rows, g)})]]

-----------------------------------------------------------------------------
(* Pages that read raw_events.                                              *)

OfBlockKind(e, kind) ==
  CASE kind = "denied" -> e.status # 407
    [] kind = "auth"   -> e.status = 407
    [] OTHER           -> TRUE

\* build_event_conditions, for the Events and Requests pages, a client's
\* activity and the export.
Events(raw, since, until, scope, f, blockedOnly, kind) ==
  {e \in raw : /\ since <= e.at /\ e.at <= until
               /\ BranchMatches(e.branch, scope)
               /\ Passes(f, e.domain, e.client, e.user)
               /\ blockedOnly => Blocked(e) /\ OfBlockKind(e, kind)}

\* get_events counts no further than its cap.
EventsTotal(raw, since, until, scope, f, blockedOnly, kind) ==
  Min({EventsCap, Cardinality(Events(raw, since, until, scope, f, blockedOnly, kind))})

ClientActivity(raw, client, since, until, scope, blockedOnly) ==
  Events(raw, since, until, scope, [NoFilter EXCEPT !.clients = {client}], blockedOnly, "all")

DistinctDomains(raw, since, until, scope) ==
  {e.domain : e \in Events(raw, since, until, scope, NoFilter, FALSE, "all")} \ {None}

DomainSummary(raw, domain, since, until, scope) ==
  LET hits == Events(raw, since, until, scope, [NoFilter EXCEPT !.include = {domain}], FALSE, "all")
  IN [requests |-> Cardinality(hits),
      blocked  |-> Cardinality({e \in hits : Blocked(e)}),
      clients  |-> Cardinality({e.client : e \in hits})]

\* get_domain_clients: a row per client and branch.
DomainClients(raw, domain, since, until, scope) ==
  LET hits == Events(raw, since, until, scope, [NoFilter EXCEPT !.include = {domain}], FALSE, "all")
  IN [r \in {<<e.client, e.branch>> : e \in hits} |->
        Cardinality({e \in hits : <<e.client, e.branch>> = r})]

\* Mutant of SummarizeSessions: the gap is measured from the session's start.
SummarizeSessionsFromStart(times) ==
  LET Step(s, t) == IF t - s.start > Gap
                    THEN [s EXCEPT !.spent = @ + (s.end - s.start), !.count = @ + 1,
                                   !.start = t, !.end = t]
                    ELSE [s EXCEPT !.end = t]
      first == Min(times)
      last  == FoldLeft(Step, [spent |-> 0, count |-> 0, start |-> first, end |-> first],
                        SetToSortSeq(times, <))
  IN [spent |-> last.spent + (last.end - last.start), sessions |-> last.count + 1]

\* _summarize_sessions, one request after the other.
SummarizeSessions(times) ==
  LET Step(s, t) == IF t - s.end > Gap
                    THEN [s EXCEPT !.spent = @ + (s.end - s.start), !.count = @ + 1,
                                   !.start = t, !.end = t]
                    ELSE [s EXCEPT !.end = t]
      first == Min(times)
      last  == FoldLeft(Step, [spent |-> 0, count |-> 0, start |-> first, end |-> first],
                        SetToSortSeq(times, <))
  IN [spent |-> last.spent + (last.end - last.start), sessions |-> last.count + 1]

TimeSpent(raw, client, since, until, scope) ==
  LET mine == {e \in raw : /\ e.client = client /\ e.domain # None
                           /\ since <= e.at /\ e.at <= until /\ BranchMatches(e.branch, scope)}
  IN [d \in {e.domain : e \in mine} |-> SummarizeSessions({e.at : e \in {x \in mine : x.domain = d}})]

\* get_time_spent_by_category.
TimeByCategory(spent, field) ==
  [c \in {Category[d] : d \in DOMAIN spent} |->
     MapThenSumSet(LAMBDA d : spent[d][field], {d \in DOMAIN spent : Category[d] = c})]
=============================================================================
