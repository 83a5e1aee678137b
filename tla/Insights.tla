------------------------------- MODULE Insights -------------------------------
(***************************************************************************)
(* What the statistical provider (app/insights/anomaly.py) finds in a      *)
(* window, the events that a flush has just stored, and what the monitors  *)
(* of quotas, category time and uncategorized domains find in the tables.  *)
(*                                                                         *)
(* The provider looks at rows that were committed before it is called      *)
(* (Aggregator.flush, _run_insights), those of its own window included. It *)
(* works in event time: `at` of an event is Squid's stamp, and lines that  *)
(* were held back (rsyslog's queue) are read late. Bytes are left out:     *)
(* quotas and rules count requests.                                        *)
(***************************************************************************)
EXTENDS Tables, Sequences

CONSTANTS
  Day,            \* 24 hours.
  RawDays,        \* RETENTION_DAYS_RAW_EVENTS.
  MaxSpread,      \* MAX_WINDOW_SPREAD.
  Cooldown,       \* STATISTICAL_ANOMALY_COOLDOWN.
  ReFlag,         \* _RE_FLAG_COOLDOWN_DAYS of uncategorized domains.
  Candidates,     \* _CANDIDATE_LIMIT: how many of them are looked at.
  Spike,          \* TRAFFIC_SPIKE_*: windows, least, minimum, k, multiplier.
  ClientLeast,    \* CLIENT_BLOCKED_MIN_REQUESTS.
  Settings,       \* AlertSettings of each branch: sensitive, minutes, quota, requests.
  Rules           \* AlertRule rows that are enabled.

\* The kinds that have a name; a rule's is custom_rule_ and its id.
NamedKinds == {"spike", "newBlocked", "ratio", "sensitive",
               "watchlist", "quota", "minutes", "uncategorized", "exports"}

ASSUME InsightsAssumption ==
  /\ {Day, RawDays, MaxSpread, Cooldown, ReFlag, Candidates, ClientLeast} \subseteq Nat
  /\ Spike \in [windows : Nat, least : Nat \ {0}, minimum : Nat, k : Nat, multiplier : Nat]
  /\ Settings \in [Branches -> [sensitive : SUBSET STRING, minutes : Nat, quota : Nat, requests : Nat]]
  /\ \A r \in Rules :
       /\ r.kind \notin NamedKinds /\ r.scope \in {"client", "domain", "branch"}
       /\ r.metric \in Figures /\ r.window \in Nat /\ r.threshold \in Int

VARIABLES
  clock,
  left,           \* What is left of the scenario: requests to come, faults, and so on.
  logged,         \* Every event so far.
  raw,            \* What raw_events was given, each with when it was stored.
  gone,           \* Those of its rows that a purge has deleted.
  tables,         \* The aggregate tables.
  window,         \* The events that the insights call under way looks at, if any.
  analyzed,       \* The windows so far: when their call ended, whether it failed, what it found.
  anomalies       \* AnomalyEvent rows.

traffic == <<logged, raw, tables>>

Unstored == logged \ DOMAIN raw

Spend(what) == left[what] > 0 /\ left' = [left EXCEPT ![what] = @ - 1]

-----------------------------------------------------------------------------
(* Traffic, and the flush that stores it.                                   *)

\* A line may come late, by any time up to the scenario's.
Log ==
  /\ left.requests # << >>
  /\ left' = [left EXCEPT !.requests = Tail(@)]
  /\ \E lag \in 0..left.lag :
       /\ lag <= clock
       /\ logged' = logged \cup {[Head(left.requests) EXCEPT !.at = clock - lag]}
  /\ UNCHANGED <<clock, raw, gone, tables, window, analyzed, anomalies>>

\* The next flush waits for the insights call of the last one.
Flush ==
  /\ Unstored # {} /\ window = {}
  /\ tables' = CountInto(tables, Unstored)
  /\ raw' = [e \in logged |-> IF e \in Unstored THEN clock ELSE raw[e]]
  /\ window' = IF left.provider THEN Unstored ELSE {}
  /\ UNCHANGED <<clock, left, logged, gone, analyzed, anomalies>>

\* The purge deletes raw rows past their time, a batch at a time.
PurgeRaw ==
  /\ Spend("purges")
  /\ \E batch \in SUBSET {e \in DOMAIN raw \ gone : e.at < clock - RawDays} :
       batch # {} /\ gone' = gone \cup batch
  /\ UNCHANGED <<clock, traffic, window, analyzed, anomalies>>

-----------------------------------------------------------------------------
(* The checks of a window's events, branch by branch.                       *)

\* AnomalyEvent: note is what only its description names.
Anomaly(kind, b, client, domain, at) ==
  [kind |-> kind, branch |-> b, client |-> client, domain |-> domain, note |-> None, at |-> at]

\* _recently_flagged and _already_flagged_today.
Flagged(a, cutoff) == \E old \in anomalies : [old EXCEPT !.at = a.at] = a /\ old.at >= cutoff

GeneratedAt(es) == Max({e.at : e \in es})
WindowStart(es) == Max({Min({e.at : e \in es}), GeneratedAt(es) - MaxSpread})

\* The k-th of the values of a function, from below.
Ranked(f, k) ==
  CHOOSE v \in {f[i] : i \in DOMAIN f} :
    /\ Cardinality({i \in DOMAIN f : f[i] < v}) < k
    /\ Cardinality({i \in DOMAIN f : f[i] <= v}) >= k

\* Twice the median: of an even number of values, the two in the middle.
TwiceMedian(f) ==
  LET n == Cardinality(DOMAIN f) IN
  IF n = 0 THEN 0 ELSE Ranked(f, (n + 1) \div 2) + Ranked(f, (n \div 2) + 1)

\* The bound is the greater of median + k * MAD and multiplier * median, four
\* times as large here.
TrafficSpike(es, b) ==
  LET earlier == {k \in DOMAIN tables.minute : k.branch = b /\ k.at < WindowStart(es)}
      latest  == {k \in earlier : Cardinality({j \in earlier : j.at > k.at}) < Spike.windows}
      history == [k \in latest |-> tables.minute[k].requests]
      median  == TwiceMedian(history)
      Off(k)  == IF 2 * history[k] > median THEN 2 * history[k] - median
                 ELSE median - 2 * history[k]
      mad     == TwiceMedian([k \in latest |-> Off(k)])
  IN IF /\ Cardinality(latest) >= Spike.least /\ Cardinality(es) >= Spike.minimum
        /\ median > 0
        /\ 4 * Cardinality(es) > Max({2 * median + Spike.k * mad, 2 * median * Spike.multiplier})
     THEN {Anomaly("spike", b, None, None, GeneratedAt(es))} ELSE {}

\* Known are the domains of rows whose minute began before the window did,
\* those that the window itself has added to included.
NewBlockedDomains(es, b) ==
  LET blocked == {e.domain : e \in {x \in es : Blocked(x)}} \ {None}
      known   == {k.domain : k \in {r \in DOMAIN tables.domain :
                                      r.branch = b /\ r.at < WindowStart(es)}}
  IN {Anomaly("newBlocked", b, None, d, GeneratedAt(es)) : d \in blocked \ known}

ClientsBlocked(es, b) ==
  LET Of(c) == {e \in es : e.client = c}
      Turned(c) == {e \in Of(c) : Blocked(e)}
  IN {Anomaly("ratio", b, c, None, GeneratedAt(es)) :
        c \in {d \in {e.client : e \in es} :
                 /\ Cardinality(Of(d)) >= ClientLeast
                 /\ 2 * Cardinality(Turned(d)) >= Cardinality(Of(d))}}

\* As if a visit in the same window were one before.
SensitiveVisitsByNow(es, b) ==
  LET pairs == {<<e.client, e.domain>> : e \in {x \in es :
                  x.domain # None /\ Category[x.domain] \in Settings[b].sensitive}}
      known == {<<e.client, e.domain>> : e \in {x \in DOMAIN raw \ gone :
                  x.branch = b /\ x.at < GeneratedAt(es)}}
  IN {Anomaly("sensitive", b, p[1], p[2], GeneratedAt(es)) : p \in pairs \ known}

\* Known are the visits that raw_events still has.
SensitiveVisits(es, b) ==
  LET pairs == {<<e.client, e.domain>> : e \in {x \in es :
                  x.domain # None /\ Category[x.domain] \in Settings[b].sensitive}}
      known == {<<e.client, e.domain>> : e \in {x \in DOMAIN raw \ gone :
                  x.branch = b /\ x.at < WindowStart(es)}}
  IN {Anomaly("sensitive", b, p[1], p[2], GeneratedAt(es)) : p \in pairs \ known}

\* What a rule sums, for each target that the window names.
RuleTargets(r, es) ==
  CASE r.scope = "client" -> {e.client : e \in es}
    [] r.scope = "domain" -> {e.domain : e \in es} \ {None}
    [] r.scope = "branch" -> {None}

SumMetric(r, target, now) ==
  LET t == CASE r.scope = "client" -> "client" [] r.scope = "domain" -> "domain"
             [] r.scope = "branch" -> "minute"
  IN Sum(tables[t], {k \in InRange(tables[t], now - r.window, now, {r.branch}) :
                       r.scope = "branch" \/ k[r.scope] = target}, r.metric)

CustomRules(es, b) ==
  UNION {{Anomaly(r.kind, b, IF r.scope = "client" THEN target ELSE None,
                  IF r.scope = "domain" THEN target ELSE None, GeneratedAt(es)) :
            target \in {t \in RuleTargets(r, es) : SumMetric(r, t, GeneratedAt(es)) > r.threshold}} :
         r \in {q \in Rules : q.branch = b}}

\* detect_anomalies. Only first visits have no cooldown.
DetectAnomalies(events) ==
  UNION {LET es    == {e \in events : e.branch = b}
             found == TrafficSpike(es, b) \cup NewBlockedDomains(es, b)
                      \cup ClientsBlocked(es, b) \cup CustomRules(es, b)
         IN {a \in found : ~Flagged(a, a.at - Cooldown)} \cup SensitiveVisits(es, b) :
         b \in {e.branch : e \in events}}

Analysis == [events |-> window, at |-> clock, failed |-> FALSE, found |-> {}]

Detect ==
  /\ window # {}
  /\ anomalies' = anomalies \cup DetectAnomalies(window)
  /\ analyzed' = Append(analyzed, [Analysis EXCEPT !.found = DetectAnomalies(window)])
  /\ window' = {}
  /\ UNCHANGED <<clock, left, traffic, gone>>

\* _run_insights: a provider that fails is logged, and its window skipped.
DetectFails ==
  /\ window # {}
  /\ Spend("faults")
  /\ analyzed' = Append(analyzed, [Analysis EXCEPT !.failed = TRUE])
  /\ window' = {}
  /\ UNCHANGED <<clock, traffic, gone, anomalies>>

\* A run of the process that ends takes the call with it.
DropWindow ==
  /\ window' = {}
  /\ analyzed' = IF window = {} THEN analyzed
                 ELSE Append(analyzed, [Analysis EXCEPT !.failed = TRUE])

-----------------------------------------------------------------------------
(* What the monitors find: a row for each client or domain past a limit. A  *)
(* limit of zero is none.                                                   *)

Recent(rows) == {k \in DOMAIN rows : k.at >= clock - Day}

\* As if the quota could be used up.
OverQuotaPast ==
  LET rows == Recent(tables.client)
      Used(p) == Sum(tables.client, {k \in rows : <<k.branch, k.client>> = p}, "requests")
  IN {Anomaly("quota", p[1], p[2], None, clock) :
        p \in {q \in {<<k.branch, k.client>> : k \in rows} :
                 LET quota == Settings[q[1]].quota IN quota > 0 /\ Used(q) > quota}}

\* QuotaMonitorJob.
OverQuota ==
  LET rows == Recent(tables.client)
      Used(p) == Sum(tables.client, {k \in rows : <<k.branch, k.client>> = p}, "requests")
  IN {Anomaly("quota", p[1], p[2], None, clock) :
        p \in {q \in {<<k.branch, k.client>> : k \in rows} :
                 LET quota == Settings[q[1]].quota IN quota > 0 /\ Used(q) >= quota}}

\* CategoryUsageMonitorJob: minutes with any category that is not exempt.
Exempt == {"work", "uncategorized"}

OverMinutes ==
  LET rows == {k \in Recent(tables.category) : k.category \notin Exempt}
      Minutes(p) == {k.at : k \in {r \in rows : <<r.branch, r.client>> = p}}
  IN {Anomaly("minutes", p[1], p[2], None, clock) :
        p \in {q \in {<<k.branch, k.client>> : k \in rows} :
                 LET most == Settings[q[1]].minutes IN
                 most > 0 /\ Cardinality(Minutes(q)) >= most}}

\* get_top_domains: the uncategorized domains of a branch with the most requests,
\* as many as its limit allows; the database breaks ties as it likes.
TopUncategorized(b, top) ==
  LET counts == Domains(tables, clock - Day, clock, {b}, "requests")
      found  == {d \in DOMAIN counts : Category[d] = "uncategorized"}
  IN /\ top \subseteq found
     /\ Cardinality(top) = Min({Candidates, Cardinality(found)})
     /\ \A d \in top, e \in found \ top : counts[d] >= counts[e]

\* UncategorizedDomainMonitorJob: those at the top that are past the threshold.
\* Who has been flagged keeps its place there.
OverRequests(tops) ==
  UNION {LET counts == Domains(tables, clock - Day, clock, {b}, "requests")
             most   == Settings[b].requests
         IN {Anomaly("uncategorized", b, None, d, clock) :
               d \in {c \in tops[b] : most > 0 /\ counts[c] >= most}} : b \in Branches}
=============================================================================
