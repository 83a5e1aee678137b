-------------------------------- MODULE Tables --------------------------------
(***************************************************************************)
(* The aggregate tables: which rows a flush adds an event to               *)
(* (app/services/aggregator.py, db_upsert.py), and the queries of the      *)
(* dashboard that read them (stats_service, client_service,                *)
(* analytics_service, squid_ops_service, blocked_analysis_service).        *)
(*                                                                         *)
(* A table is a function from the keys of its rows to their counters; byte *)
(* columns, labels and the order of a listing are left out. Minute and     *)
(* Hour are how many steps of the clock make one of them.                  *)
(***************************************************************************)
EXTENDS Scopes, Integers, FiniteSets, FiniteSetsExt

CONSTANTS
  Minute, Hour, \* Steps of the clock.
  None,         \* SQL's NULL: no domain, no login.
  Category      \* effective_category, for each domain.

ASSUME TablesAssumption == {Minute, Hour} \subseteq Nat \ {0} /\ Hour % Minute = 0

FloorHour(at) == at - (at % Hour)
FloorMinute(at) == at - (at % Minute)

-----------------------------------------------------------------------------
(* Events, and the rows they are counted in.                                *)

\* ParsedEvent.blocked: refused by the proxy, its login page, or the server.
Blocked(e) == e.action = "denied" \/ e.status \in {403, 407}

\* The key columns of each table besides the bucket and the branch: what an
\* upsert conflicts on. The columns of the response times (dur_lt_100 and so
\* on) are kept as a table of their own here, with the band as its key.
MinuteColumns  == [minute |-> {}, band |-> {"band"}]
OpsColumns     == [code |-> {"action"}, http |-> {"status"}, hierarchy |-> {"hierarchy"},
                   usercat |-> {"user", "category"}]
BlockedColumns == [blockedDomain |-> {"domain"}, blockedClient |-> {"domain", "client", "user"}]
TrafficColumns == [domain |-> {"domain"}, category |-> {"client", "category"},
                   client |-> {"client", "user"}]

Columns ==
  [t \in DOMAIN MinuteColumns \cup DOMAIN OpsColumns \cup DOMAIN BlockedColumns
         \cup DOMAIN TrafficColumns |->
     CASE t \in DOMAIN MinuteColumns  -> MinuteColumns[t]
       [] t \in DOMAIN OpsColumns     -> OpsColumns[t]
       [] t \in DOMAIN BlockedColumns -> BlockedColumns[t]
       [] t \in DOMAIN TrafficColumns -> TrafficColumns[t]]

\* _add_duration: the lower limits of the bands, in milliseconds.
Bands == <<0, 100, 300, 1000, 3000, 10000>>
Band(ms) == Max({i \in DOMAIN Bands : Bands[i] <= ms})

BlockedTables == DOMAIN BlockedColumns

CountedIn(t, e) ==
  /\ t \in {"domain", "category", "usercat"} \cup BlockedTables => e.domain # None
  /\ t \in BlockedTables => Blocked(e)
  /\ t = "band" => e.ms # None

Column(c, e) ==
  CASE c = "category" -> Category[e.domain]
    [] c = "band"     -> Band(e.ms)
    [] OTHER          -> e[c]

Key(t, e) ==
  [c \in Columns[t] \cup {"at", "branch"} |->
     IF c = "at" THEN (IF t \in BlockedTables THEN FloorHour(e.at) ELSE FloorMinute(e.at))
     ELSE Column(c, e)]

Figures == {"requests", "blocked", "allowed", "auth", "denied", "hit", "miss"}

\* The counters of the rows that a set of events adds up to.
Tally(events) ==
  LET Those(P(_)) == Cardinality({e \in events : P(e)}) IN
  [requests |-> Cardinality(events),
   blocked  |-> Those(Blocked),
   allowed  |-> Those(LAMBDA e : ~Blocked(e)),
   auth     |-> Those(LAMBDA e : Blocked(e) /\ e.status = 407),
   denied   |-> Those(LAMBDA e : Blocked(e) /\ e.status # 407),
   hit      |-> Those(LAMBDA e : e.action = "hit"),
   miss     |-> Those(LAMBDA e : e.action = "miss")]

\* _build_buckets.
Buckets(t, events) ==
  LET mine == {e \in events : CountedIn(t, e)} IN
  [k \in {Key(t, e) : e \in mine} |-> Tally({e \in mine : Key(t, e) = k})]

Plus(c, d) == [f \in DOMAIN c |-> c[f] + d[f]]

\* As if the conflict set the counters instead of adding to them.
UpsertSetting(rows, more) ==
  [k \in DOMAIN rows \cup DOMAIN more |-> IF k \in DOMAIN more THEN more[k] ELSE rows[k]]

\* bulk_upsert_sum: insert, or add to the row that is there.
Upsert(rows, more) ==
  [k \in DOMAIN rows \cup DOMAIN more |->
     IF k \notin DOMAIN more THEN rows[k]
     ELSE IF k \notin DOMAIN rows THEN more[k] ELSE Plus(rows[k], more[k])]

NoRows == [k \in {} |-> Tally({})]

Empty == [t \in DOMAIN Columns \cup {"hourly"} |-> NoRows]

\* What a flush adds to the tables.
CountInto(tables, events) ==
  [t \in DOMAIN tables |->
     IF t = "hourly" THEN tables[t] ELSE Upsert(tables[t], Buckets(t, events))]

-----------------------------------------------------------------------------
(* Rows are summed over a range of time, for a branch scope.                *)

Sum(rows, keys, f) == MapThenSumSet(LAMBDA k : rows[k][f], keys)

InRange(rows, since, until, scope) ==
  {k \in DOMAIN rows : since <= k.at /\ k.at <= until /\ BranchMatches(k.branch, scope)}

\* Totals by what Of makes of a key.
GroupBy(rows, keys, Of(_), f) ==
  [g \in {Of(k) : k \in keys} |-> Sum(rows, {k \in keys : Of(k) = g}, f)]

Total(groups) == MapThenSumSet(LAMBDA g : groups[g], DOMAIN groups)

\* stats_service.get_summary, and get_cache_efficiency: each counter is a column.
Summary(tables, since, until, scope) ==
  LET keys == InRange(tables.minute, since, until, scope) IN
  [f \in Figures |-> Sum(tables.minute, keys, f)]

\* stats_service.get_timeseries by the hour, and get_branch_trend.
Timeseries(tables, since, until, scope, f) ==
  GroupBy(tables.minute, InRange(tables.minute, since, until, scope),
          LAMBDA k : FloorHour(k.at), f)

\* analytics_service._branch_minute_totals.
BranchTotals(tables, since, until, scope, f) ==
  GroupBy(tables.minute, InRange(tables.minute, since, until, scope), LAMBDA k : k.branch, f)

\* stats_service.get_top_domains, without its limit.
Domains(tables, since, until, scope, f) ==
  GroupBy(tables.domain, InRange(tables.domain, since, until, scope), LAMBDA k : k.domain, f)

\* stats_service.get_usage_by_category.
Categories(tables, since, until, scope, f) ==
  GroupBy(tables.domain, InRange(tables.domain, since, until, scope),
          LAMBDA k : Category[k.domain], f)

\* squid_ops_service._top_category_per_actor's counts, by category.
ClientCategories(tables, since, until, scope) ==
  GroupBy(tables.category, InRange(tables.category, since, until, scope),
          LAMBDA k : k.category, "requests")

\* squid_ops_service.get_result_codes.
ResultCodes(tables, since, until, scope) ==
  GroupBy(tables.code, InRange(tables.code, since, until, scope),
          LAMBDA k : k.action, "requests")

\* A minute's requests with a response code, and what else was blocked in it.
StatusAt(tables, http, m, s) ==
  Sum(tables.http, {k \in http : k.at = m /\ k.status = s}, "requests")

OtherAt(tables, http, mins, m) ==
  Max({0, Sum(tables.minute, {k \in mins : k.at = m}, "blocked")
            - StatusAt(tables, http, m, 403) - StatusAt(tables, http, m, 407)})

\* squid_ops_service.get_denials: per minute, so that no minute's surplus
\* makes up for another's.
Denials(tables, since, until, scope) ==
  LET http    == InRange(tables.http, since, until, scope)
      mins    == InRange(tables.minute, since, until, scope)
      minutes == {k.at : k \in http \cup mins}
  IN [acl   |-> Total([m \in minutes |-> StatusAt(tables, http, m, 403)]),
      auth  |-> Total([m \in minutes |-> StatusAt(tables, http, m, 407)]),
      other |-> Total([m \in minutes |-> OtherAt(tables, http, mins, m)])]

-----------------------------------------------------------------------------
(* Clients: minute rows and, after the roll-up, hourly ones.                *)

\* client_bucket_rows: an hourly row belongs to a range that its hour overlaps.
ClientRows(tables, since, until, scope) ==
  LET minutes == InRange(tables.client, since, until, scope)
      hours   == {k \in DOMAIN tables.hourly : /\ k.at <= until /\ k.at > since - Hour
                                               /\ BranchMatches(k.branch, scope)}
      rows    == {[table |-> "client", row |-> k] : k \in minutes}
                 \cup {[table |-> "hourly", row |-> k] : k \in hours}
  IN [r \in rows |-> tables[r.table][r.row]]

\* client_service.list_clients, get_client_summary.
Clients(tables, since, until, scope, f) ==
  LET rows == ClientRows(tables, since, until, scope) IN
  GroupBy(rows, DOMAIN rows, LAMBDA r : <<r.row.client, r.row.user, r.row.branch>>, f)

\* _logged_in_ips.
LoggedIn(rows) == {r.row.client : r \in {q \in DOMAIN rows : q.row.user # None}}

\* _mixed_actor: a row counts for its login, else for its address, unless that
\* address is listed under a login.
Kept(rows, r) == r.row.user # None \/ r.row.client \notin LoggedIn(rows)
Actor(r) == IF r.row.user # None THEN <<"user", r.row.user>> ELSE <<"ip", r.row.client>>

\* get_actor_leaderboard, without limit or search.
Leaderboard(tables, since, until, scope) ==
  LET rows == ClientRows(tables, since, until, scope)
      kept == {r \in DOMAIN rows : Kept(rows, r)}
  IN [actors       |-> GroupBy(rows, kept, Actor, "requests"),
      unattributed |-> Sum(rows, {r \in DOMAIN rows : r.row.user = None
                                     /\ r.row.client \in LoggedIn(rows)}, "requests")]

\* get_new_entities: the clients whose first bucket is in the range.
NewClients(tables, since, until, scope) ==
  LET rows == ClientRows(tables, 0, until, scope)
      Of(c) == {r.row.at : r \in {q \in DOMAIN rows : q.row.client = c}}
  IN {c \in {r.row.client : r \in DOMAIN rows} : Min(Of(c)) >= since}
=============================================================================
