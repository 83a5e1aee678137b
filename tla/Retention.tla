------------------------------ MODULE Retention ------------------------------
(***************************************************************************)
(* What becomes of stored data: the flush counts events into the tables    *)
(* and stores them, the retention job rolls client minutes up into hours   *)
(* and purges in several transactions (app/services/retention.py), and the *)
(* archive (archive_service, archive_scheduler) writes the raw rows to a   *)
(* file per branch before they go. The dashboard's queries (Tables) read   *)
(* what is left in between.                                                *)
(*                                                                         *)
(* A row of raw_events is the event itself, with its time; the tables hold *)
(* the minute or hour it falls in, and a range begins and ends anywhere.   *)
(* One retention run and one archive run may be under way at once.         *)
(***************************************************************************)
EXTENDS Pages

CONSTANTS
  Order,          \* effective_branches, as the archive walks them.
  Window,         \* The range an archive covers when no run was missed.
  MinInterval,    \* ARCHIVE_MIN_INTERVAL_SECONDS.
  Keep,           \* ARCHIVE_KEEP_DAYS.
  RollupAfter,    \* CLIENT_ROLLUP_AFTER_HOURS.
  Aggregates,     \* RETENTION_DAYS_AGGREGATES.
  Ops,            \* RETENTION_DAYS_OPS_AGGREGATES.
  RawDays,        \* The values of raw_events_days that an administrator sets.
  Lags,           \* Those of halt_purge_if_archive_lag_days, with None.
  Batch,          \* _RAW_EVENTS_DELETE_BATCH_SIZE.
  Scenarios,      \* Bounds on the behaviours explored: the requests to come, how many
                  \* runs and faults there are at most, the first and the last step,
                  \* and whether the dashboard is asked anything.
  Brought         \* The requests of the scenarios.

ASSUME RetentionAssumption ==
  /\ Batch \in Nat \ {0}
  /\ {Window, MinInterval, Keep, RollupAfter, Aggregates, Ops} \subseteq Nat
  /\ RawDays \subseteq Nat /\ RawDays # {} /\ None \in Lags
  /\ \A s \in Scenarios :
       /\ s \in [requests : Seq(Brought), archive : Nat, purge : Nat, fault : Nat,
                  first : Nat, last : Nat, asked : BOOLEAN]
       /\ \A i, j \in DOMAIN s.requests : s.requests[i].id = s.requests[j].id => i = j
  /\ \A r \in Brought : /\ {"id", "at", "branch", "client", "user"} \subseteq DOMAIN r
                        /\ r.branch \in Branches /\ r.client # None

ASSUME BranchesAssumption == IsFiniteSet(Branches)

VARIABLES
  clock,
  logged,         \* Every event so far, with the time it was logged at.
  pending,        \* Those that no flush has stored yet.
  raw,            \* raw_events.
  tables,         \* The aggregate tables.
  retention,      \* The retention run under way.
  archivedUntil,  \* ArchiveRun, by branch.
  archiving,      \* The archive run under way.
  files,          \* ARCHIVE_OUTPUT_DIR: name -> rows and mtime.
  past,           \* What happened to rows, and what was told of it.
  left            \* What is left of the scenario.

stored  == <<logged, pending, raw, tables>>
jobs    == <<retention, archiving>>
vars    == <<clock, stored, retention, archivedUntil, archiving,
             files, past, left>>

NoRun  == [pc |-> "idle"]
Never  == -1

Init ==
  /\ left \in Scenarios /\ clock = left.first
  /\ logged = {} /\ pending = {} /\ raw = {} /\ tables = Empty
  /\ retention = NoRun /\ archiving = NoRun
  /\ archivedUntil = [b \in Branches |-> Never]
  /\ files = [name \in {} |-> 0]
  /\ past = [told |-> {}, late |-> {}, unreported |-> {}, before |-> {},
             replaced |-> {}, expired |-> {}, uncounted |-> {}, purgedTo |-> 0]

-----------------------------------------------------------------------------
(* The traffic and the flush.                                               *)

Log ==
  /\ left.requests # << >>
  /\ left' = [left EXCEPT !.requests = Tail(@)]
  /\ LET e == [Head(left.requests) EXCEPT !.at = clock] IN
     /\ logged' = logged \cup {e}
     /\ pending' = pending \cup {e}
  /\ UNCHANGED <<clock, raw, tables, jobs, archivedUntil, files, past>>

\* The archive has read past an event that only now is stored.
Read(e) ==
  \/ e.at <= archivedUntil[e.branch]
  \/ archiving.pc = "commit" /\ Head(archiving.todo) = e.branch /\ e.at <= archiving.now

\* Aggregator.flush: everything that is buffered, in one transaction.
Flush ==
  /\ pending # {}
  /\ tables' = CountInto(tables, pending)
  /\ raw' = raw \cup pending
  /\ pending' = {}
  /\ past' = [past EXCEPT !.late = @ \cup {e \in pending : Read(e)}]
  /\ UNCHANGED <<clock, logged, jobs, archivedUntil, files, left>>

\* Time passes between the runs of the jobs: a run ends in the step it began.
Tick ==
  /\ clock < left.last
  /\ retention.pc = "idle" /\ archiving.pc = "idle"
  /\ clock' = clock + 1
  /\ UNCHANGED <<stored, jobs, archivedUntil, files, past, left>>

-----------------------------------------------------------------------------
(* The retention job.                                                       *)

Older(rows, cutoff) == {k \in DOMAIN rows : k.at < cutoff}
Without(rows, keys) == [k \in DOMAIN rows \ keys |-> rows[k]]

\* The run reads its settings, any that an administrator may have saved by now
\* (retention_settings_service), and the client minutes to roll up.
StartRetention ==
  /\ retention.pc = "idle"
  /\ left.purge > 0
  /\ left' = [left EXCEPT !.purge = @ - 1]
  /\ \E set \in [raw : RawDays, lag : Lags] :
       retention' = [pc  |-> "rollup", now |-> clock, set |-> set,
                   rows |-> [k \in Older(tables.client, clock - RollupAfter) |-> tables.client[k]],
                   branches |-> {}, purged |-> {}]
  /\ UNCHANGED <<clock, stored, archivedUntil, archiving, files, past>>

Hourly(k) == [k EXCEPT !.at = FloorHour(@)]

RolledUp(rows) ==
  [h \in {Hourly(k) : k \in DOMAIN rows} |->
     [f \in Figures |-> Sum(rows, {k \in DOMAIN rows : Hourly(k) = h}, f)]]

RawCutoff == retention.now - retention.set.raw

FindUnarchivedBranches == {b \in Branches : archivedUntil[b] < RawCutoff}

ArchivingTooFarBehind ==
  /\ retention.set.lag # None
  /\ \A b \in Branches : archivedUntil[b] = Never
                         \/ archivedUntil[b] < retention.now - retention.set.lag

\* As if the minutes stayed until the aggregates are purged.
RollupKeeping ==
  /\ retention.pc = "rollup"
  /\ tables' = [tables EXCEPT !.hourly = Upsert(@, RolledUp(retention.rows))]
  /\ retention' = [retention EXCEPT !.pc = IF ArchivingTooFarBehind THEN "tables" ELSE "raw",
                                    !.branches = FindUnarchivedBranches]
  /\ UNCHANGED <<clock, logged, pending, raw, archivedUntil, archiving, files, past, left>>

\* What was read is added to the hours; what is deleted is whatever is old by
\* now, unless there was nothing to roll up.
Rollup ==
  /\ retention.pc = "rollup"
  /\ LET rows == retention.rows
         gone == IF rows = NoRows THEN {}
                 ELSE Older(tables.client, retention.now - RollupAfter)
     IN /\ tables' = [tables EXCEPT !.hourly = Upsert(@, RolledUp(rows)),
                                    !.client = Without(@, gone)]
        /\ past' = [past EXCEPT !.uncounted = @ \cup
             {e \in logged \ pending : LET k == Key("client", e) IN
                /\ k \in gone
                /\ k \notin DOMAIN rows \/ tables.client[k] # rows[k]}]
  /\ retention' = [retention EXCEPT !.pc = IF ArchivingTooFarBehind THEN "tables" ELSE "raw",
                                    !.branches = FindUnarchivedBranches]
  /\ UNCHANGED <<clock, logged, pending, raw, archivedUntil, archiving,
                 files, left>>

\* One batch, of any rows that are old enough; a short batch is the last.
PurgeRaw ==
  /\ retention.pc = "raw"
  /\ LET old == {e \in raw : e.at < RawCutoff} IN
     \E batch \in SUBSET old :
       /\ Cardinality(batch) = IF Cardinality(old) < Batch THEN Cardinality(old) ELSE Batch
       /\ raw' = raw \ batch
       /\ retention' = [retention EXCEPT !.purged = @ \cup batch,
                          !.pc = IF Cardinality(batch) < Batch THEN "tables" ELSE "raw"]
  /\ UNCHANGED <<clock, logged, pending, tables, archivedUntil, archiving,
                 files, past, left>>

\* How long each table is kept.
KeptFor(t) ==
  CASE t \in {"minute", "band", "domain", "client", "category", "hourly"}   -> Aggregates
    [] t \in {"code", "http", "hierarchy", "usercat", "blockedDomain"}      -> Ops
    [] t = "blockedClient"                                                  -> retention.set.raw

\* The other tables in one transaction, then the warning about the raw rows, on
\* the health page (unarchived_branches) and by mail.
PurgeTables ==
  /\ retention.pc = "tables"
  /\ tables' = [t \in DOMAIN tables |->
                  Without(tables[t], Older(tables[t], retention.now - KeptFor(t)))]
  /\ past' = [past EXCEPT
       !.told = @ \cup {e \in retention.purged : e.branch \in retention.branches},
       !.purgedTo = IF RawCutoff > @ THEN RawCutoff ELSE @]
  /\ retention' = NoRun
  /\ UNCHANGED <<clock, logged, pending, raw, archivedUntil, archiving, files, left>>

-----------------------------------------------------------------------------
(* The archive.                                                             *)

IsDue == \E b \in Branches : archivedUntil[b] = Never \/ clock - archivedUntil[b] >= MinInterval

\* ArchiveScheduler.run when one is due, or scripts/archive_weekly_export.py.
StartArchive(byHand) ==
  /\ archiving.pc = "idle"
  /\ left.archive > 0
  /\ IsDue \/ byHand
  /\ left' = [left EXCEPT !.archive = @ - 1]
  /\ archiving' = [pc |-> "write", now |-> clock, todo |-> Order]
  /\ UNCHANGED <<clock, stored, retention, archivedUntil, files, past>>

\* As if a missed run were made up for by the window alone.
SinceWindow(b) == archiving.now - Window

Since(b) ==
  LET start == archiving.now - Window IN
  IF archivedUntil[b] # Never /\ archivedUntil[b] < start THEN archivedUntil[b] ELSE start

\* A file is named after its branch and two dates.
DayOf(at) == (at + Window * Day) \div Day
Name(b, since) == <<b, DayOf(since), DayOf(archiving.now)>>

RowsOf(name) == IF name \in DOMAIN files THEN files[name].rows ELSE {}
InFiles(fs) == UNION {fs[name].rows : name \in DOMAIN fs}

\* stream_csv into a temporary file for the next branch, and os.replace, which
\* takes the place of a file of the same name. Nothing reads the temporary file:
\* a run that fails before the rename has written nothing.
WriteBranch ==
  /\ archiving.pc = "write"
  /\ archiving.todo # << >>
  /\ LET b     == Head(archiving.todo)
         since == Since(b)
         name  == Name(b, since)
         rows  == {e \in raw : e.branch = b /\ since <= e.at /\ e.at <= archiving.now}
     IN
     /\ files' = [n \in DOMAIN files \cup {name} |->
                    IF n = name THEN [rows |-> rows, mtime |-> clock] ELSE files[n]]
     /\ past' = [past EXCEPT
          !.replaced = @ \cup (RowsOf(name) \ InFiles(files')),
          !.before = IF archivedUntil[b] # Never THEN @
                     ELSE @ \cup {e \in logged : e.branch = b /\ e.at < since}]
  /\ archiving' = [archiving EXCEPT !.pc = "commit"]
  /\ UNCHANGED <<clock, stored, retention, archivedUntil, left>>

\* As if the row held the time that the next run is due.
CommitRunDue ==
  /\ archiving.pc = "commit"
  /\ archivedUntil' = [archivedUntil EXCEPT ![Head(archiving.todo)] = archiving.now + MinInterval]
  /\ archiving' = [pc |-> "write", now |-> archiving.now, todo |-> Tail(archiving.todo)]
  /\ UNCHANGED <<clock, stored, retention, files, past, left>>

CommitRun ==
  /\ archiving.pc = "commit"
  /\ archivedUntil' = [archivedUntil EXCEPT ![Head(archiving.todo)] = archiving.now]
  /\ archiving' = [pc |-> "write", now |-> archiving.now, todo |-> Tail(archiving.todo)]
  /\ UNCHANGED <<clock, stored, retention, files, past, left>>

\* _purge_old_archives, when every branch is done.
EndArchive ==
  /\ archiving.pc = "write"
  /\ archiving.todo = << >>
  /\ LET kept == {n \in DOMAIN files : files[n].mtime >= clock - Keep} IN
     /\ files' = [n \in kept |-> files[n]]
     /\ past' = [past EXCEPT !.expired = @ \cup (InFiles(files) \ InFiles(files'))]
  /\ archiving' = NoRun
  /\ UNCHANGED <<clock, stored, retention, archivedUntil, left>>

-----------------------------------------------------------------------------
(* Failures: a run breaks off, its open transaction rolled back.            *)

BreakOff(r, a) ==
  /\ left.fault > 0
  /\ left' = [left EXCEPT !.fault = @ - 1]
  /\ retention' = IF r THEN NoRun ELSE retention
  /\ archiving' = IF a THEN NoRun ELSE archiving
  /\ past' = [past EXCEPT !.unreported = @ \cup
                IF r THEN retention.purged \cap {e \in logged : e.branch \in retention.branches}
                ELSE {}]
  /\ UNCHANGED <<clock, stored, archivedUntil, files>>

RetentionFails == retention.pc # "idle" /\ BreakOff(TRUE, FALSE)
ArchiveFails   == archiving.pc # "idle" /\ BreakOff(FALSE, TRUE)

\* The process ends, with both runs.
Crash ==
  /\ retention.pc # "idle" /\ archiving.pc # "idle"
  /\ BreakOff(TRUE, TRUE)

Next ==
  \/ Log \/ Flush \/ Tick
  \/ StartRetention \/ Rollup \/ PurgeRaw \/ PurgeTables
  \/ StartArchive(FALSE) \/ StartArchive(TRUE) \/ WriteBranch \/ CommitRun \/ EndArchive
  \/ RetentionFails \/ ArchiveFails \/ Crash

Spec == Init /\ [][Next]_vars

-----------------------------------------------------------------------------
(* Properties.                                                              *)

Counters == [Figures -> 0..Cardinality(logged)]

\* Tables hold counters, jobs hold what they read, and files hold events.
TypeOK ==
  /\ clock \in Nat
  /\ pending \subseteq logged /\ raw \subseteq logged /\ pending \cap raw = {}
  /\ DOMAIN tables = DOMAIN Empty
  /\ \A t \in DOMAIN tables : \A k \in DOMAIN tables[t] : tables[t][k] \in Counters
  /\ retention.pc \in {"idle", "rollup", "raw", "tables"}
  /\ archiving.pc \in {"idle", "write", "commit"}
  /\ archivedUntil \in [Branches -> {Never} \cup 0..clock]
  /\ InFiles(files) \subseteq logged \ pending

\* What was counted, by its time, and what the rows of a range are of: those
\* of the minutes that begin in it.
Counted(since, until, scope) ==
  {e \in logged \ pending : since <= e.at /\ e.at <= until /\ BranchMatches(e.branch, scope)}

CountedByMinute(since, until, scope) ==
  {e \in logged \ pending :
     since <= FloorMinute(e.at) /\ FloorMinute(e.at) <= until /\ BranchMatches(e.branch, scope)}

\* The questions put to the dashboard: up to now, from a time that the purge
\* leaves alone, and a range that has ended; none while nothing is stored,
\* while an archive is written, which changes no table, or in a scenario that
\* has no use for them.
Asked ==
  IF ~left.asked \/ archiving.pc # "idle" \/ logged = pending THEN {} ELSE
    [since : Max({0, clock - Aggregates})..clock, until : {clock},
     scope : {Unrestricted} \cup {{b} : b \in Branches}]
    \cup [since : {1}, until : {clock - 1}, scope : {Unrestricted}]

\* A page over the tables shows the one, a page over raw_events the other: only
\* they differ in the minute that the range begins in and the one it ends in.
SeenBy(ask) == CountedByMinute(ask.since, ask.until, ask.scope)
ReadBy(ask) == Counted(ask.since, ask.until, ask.scope)
Named(events) == {e \in events : e.domain # None}

\* The events in the hours that the Blocked page takes in.
SeenByHour(ask) ==
  Counted(FloorHour(ask.since), ask.until - (ask.until % Hour) + Hour - 1, ask.scope)

\* The tables that answer one question agree. For a range that the purge
\* leaves alone, the summary, the hourly series, the branches, the domains, the
\* categories, the result codes and the kinds of denial all add up to the same
\* events, those that a flush counted, whatever was rolled up, purged or
\* retried meanwhile; the two tables of the blocked page agree for as long as
\* the one by client is kept.
TablesAgree ==
  \A ask \in Asked :
    LET since == ask.since
        until == ask.until
        scope == ask.scope
        named == Cardinality(Named(SeenBy(ask)))
        true  == Tally(SeenBy(ask))
        hour  == Tally(Named(SeenByHour(ask)))
    IN
    /\ since >= clock - Aggregates =>
         /\ Summary(tables, since, until, scope) = true
         /\ Total(Timeseries(tables, since, until, scope, "requests")) = true.requests
         /\ Total(BranchTotals(tables, since, until, scope, "blocked")) = true.blocked
         /\ Total(Domains(tables, since, until, scope, "requests")) = named
         /\ Total(Categories(tables, since, until, scope, "requests")) = named
         /\ Total(ClientCategories(tables, since, until, scope)) = named
    /\ since >= clock - Ops =>
         /\ Total(ResultCodes(tables, since, until, scope)) = true.requests
         /\ since >= clock - Aggregates =>
              LET denials == Denials(tables, since, until, scope) IN
              denials.acl + denials.auth + denials.other = true.blocked
    /\ FloorHour(since) >= clock - Ops =>
         LET page == BlockedSummary(tables, since, until, scope, NoFilter, "all")
             byClient == [NoFilter EXCEPT !.clients = {e.client : e \in logged}]
         IN
         /\ <<page.denied, page.auth>> = <<hour.denied, hour.auth>>
         /\ FloorHour(since) >= past.purgedTo =>
              page = BlockedSummary(tables, since, until, scope, byClient, "all")

\* Series leave out what is still filling, and nothing else.
SeriesAgree(ask) ==
  LET since == ask.since
      until == ask.until
      scope == ask.scope
      done  == {e \in SeenBy(ask) :
                   FloorMinute(e.at) < Truncate(clock, Granularity(Hour, since, until))}
      trend == CategoryTrend(tables, Hour, since, until, scope, clock)
  IN /\ Total(trend) = Cardinality(Named(done))
     /\ Total(BranchTrend(tables, Hour, since, until, scope, clock, "blocked")) = Tally(done).blocked
     /\ Total(Heatmap(tables, since, until, scope, 1, "blocked")) = Tally(SeenBy(ask)).blocked
     /\ Total(Heatmap(tables, since, until, scope, 0, "requests")) = Cardinality(SeenBy(ask))

\* The result codes have their figures, and a series of their own.
CodesAgree(ask) ==
  LET since == ask.since
      until == ask.until
      scope == ask.scope
      size  == Granularity(Hour, since, until)
      codes == CodeTotals(tables, since, until, scope)
      true  == Tally(SeenBy(ask))
      done  == {e \in SeenBy(ask) : FloorMinute(e.at) < Truncate(clock, size)}
  IN /\ <<codes.hit, codes.miss>> = <<true.hit, true.miss>>
     /\ Total(ResultSeries(tables, size, since, until, scope, clock)) = Cardinality(done)

\* A percentile has that share of the samples below it and the rest above, as
\* far as their bands tell.
PercentilesFit(ask) ==
  LET hist  == Histogram(tables, ask.since, ask.until, ask.scope)
      timed == {e \in SeenBy(ask) : e.ms # None}
      Below(v) == {e \in timed : Bands[Band(e.ms)] <= v}
      Above(v) == {e \in timed : Band(e.ms) = Len(Bands) \/ Bands[Band(e.ms) + 1] >= v}
  IN \A p \in {50, 95, 99} :
       LET v == Percentile(hist, p) IN
       /\ 100 * Cardinality(Below(v)) >= p * Cardinality(timed)
       /\ 100 * Cardinality(Above(v)) >= (100 - p) * Cardinality(timed)
       /\ Percentile(hist, 50) <= v /\ v <= Percentile(hist, 99)

\* The branches add up to the overview, and the period before to its range.
BranchesAgree(ask) ==
  LET since    == ask.since
      until    == ask.until
      scope    == ask.scope
      branches == BranchesInScope(scope)
      rows     == BranchBreakdown(tables, since, until, scope)
      whole    == Overview(tables, since, until, scope)
      tagged   == Uncategorized(tables, since, until, scope)
      labels   == {d \in {e.domain : e \in Named(SeenBy(ask))} : Category[d] = "uncategorized"}
  IN /\ Sum(rows, branches, "requests") = whole.current.totals.requests
     /\ Sum(rows, branches, "blocked")  = whole.current.totals.blocked
     /\ Sum(rows, branches, "clients") >= whole.current.clients
     /\ Total(BranchCategories(tables, since, until, scope)) = Cardinality(Named(SeenBy(ask)))
     /\ Total(BranchBlockedDomains(tables, since, until, scope)) = Tally(Named(SeenBy(ask))).blocked
     /\ Threshold = 1 => /\ Total(tagged) >= Cardinality(labels)
                         /\ \A b \in branches : tagged[b] <= Cardinality(labels)
     /\ Before(since, until) >= clock - Aggregates =>
          LET earlier == CountedByMinute(Before(since, until), since, scope) IN
          /\ whole.previous.totals = Tally(earlier)
          /\ Sum(rows, branches, "previous") = Cardinality(earlier)
          /\ \A c \in DOMAIN whole.movers :
               whole.movers[c] = <<Cardinality({e \in Named(SeenBy(ask)) : Category[e.domain] = c}),
                                   Cardinality({e \in Named(earlier) : Category[e.domain] = c})>>

\* Who opens an actor of the list sees the number he came from.
ActorsAgree(ask) ==
  LET since == ask.since
      until == ask.until
      scope == ask.scope
      Listed(kind) == Actors(tables, since, until, scope, kind, FALSE)
      Of(actor, events) == {e \in events : IsActor(actor, e.user, e.client)}
  IN /\ Total(Listed("all")) = Total(Listed("user")) + Total(Listed("ip"))
     /\ Listed("all") = Leaderboard(tables, since, until, scope).actors
     /\ \A actor \in DOMAIN Listed("all") :
          LET detail == ActorDetail(tables, raw, actor, since, until, scope) IN
          /\ detail.requests = Listed("all")[actor]
          /\ Total(detail.hourly) = detail.requests
          /\ detail.blocked > 0 <=>
               actor \in DOMAIN Actors(tables, since, until, scope, "all", TRUE)
          /\ since >= clock - Ops =>
               Total(detail.categories) = Cardinality(Named(Of(actor, SeenBy(ask))))
          /\ ReadBy(ask) \subseteq raw =>
               /\ Total(detail.domains) = Cardinality(Named(Of(actor, ReadBy(ask))))
               /\ Total(detail.denied) = Tally(Named(Of(actor, ReadBy(ask)))).blocked

\* The Blocked page's filters mean the same on its analysis, whichever table
\* answers, and on its requests (block_filters docstring), which leave out what
\* the analysis shows of the hours that the range begins and ends in.
FiltersAgree(ask, f) ==
  LET since == ask.since
      until == ask.until
      scope == ask.scope
      page  == BlockedSummary(tables, since, until, scope, f, "denied")
      By(group, sort) == Groups(tables, since, until, scope, f, group, "denied", sort)
      Requests(kind) == Cardinality(Named(Events(raw, since, until, scope, f, TRUE, kind)))
      around == Tally({e \in Named(SeenByHour(ask) \ ReadBy(ask)) :
                         Passes(f, e.domain, e.client, e.user)})
  IN /\ \A group \in {"domain", "branch", "client", "user"} :
          LET found == By(group, "requests") IN
          /\ page.denied = MapThenSumSet(LAMBDA g : found[g].denied, DOMAIN found)
          /\ found = By(group, "clients")
          /\ group # "user" => \A g \in DOMAIN found : found[g].clients > 0
     /\ page.domains = Cardinality(DOMAIN By("domain", "requests"))
     /\ page.clients = Cardinality(DOMAIN By("client", "requests"))
     /\ page.denied = Total(page.series)
     /\ ReadBy(ask) \subseteq raw =>
          <<page.denied, page.auth>> = <<Requests("denied") + around.denied,
                                         Requests("auth") + around.auth>>

\* The pages that read raw_events agree with the tables, but for the requests
\* that only one of the two takes in at either end of the range, and the time
\* spent is the length of the visits without the gaps.
DetailAgrees(ask) ==
  LET since == ask.since
      until == ask.until
      scope == ask.scope
      first == ReadBy(ask) \ SeenBy(ask)
      last  == SeenBy(ask) \ ReadBy(ask)
      Shows(shown, counted, P(_)) ==
        shown + Cardinality({e \in last : P(e)}) = counted + Cardinality({e \in first : P(e)})
      pageDomains == DistinctDomains(raw, since, until, scope)
      requests    == Domains(tables, since, until, scope, "requests")
      blocked     == Domains(tables, since, until, scope, "blocked")
      spent(c) == TimeSpent(raw, c, since, until, scope)
      Times(c, d) == {e.at : e \in {x \in ReadBy(ask) : x.client = c /\ x.domain = d}}
      Gaps(times) == {g \in times \X times :
                        g[2] - g[1] > Gap /\ ~\E m \in times : g[1] < m /\ m < g[2]}
  IN /\ pageDomains \cup {e.domain : e \in Named(last)}
          = DOMAIN requests \cup {e.domain : e \in Named(first)}
     /\ EventsTotal(raw, since, until, scope, NoFilter, FALSE, "all") =
          Min({EventsCap, Summary(tables, since, until, scope).requests
                            + Cardinality(first) - Cardinality(last)})
     /\ \A d \in pageDomains :
          LET page == DomainSummary(raw, d, since, until, scope)
              rows == DomainClients(raw, d, since, until, scope)
          IN /\ Shows(page.requests, At(requests, d), LAMBDA e : e.domain = d)
             /\ Shows(page.blocked, At(blocked, d), LAMBDA e : e.domain = d /\ Blocked(e))
             /\ page.requests = Total(rows) /\ page.clients <= Cardinality(DOMAIN rows)
     /\ \A c \in {e.client : e \in ReadBy(ask)} :
          /\ Cardinality(ClientActivity(raw, c, since, until, scope, TRUE)) =
               Tally({e \in ReadBy(ask) : e.client = c}).blocked
          /\ \A d \in DOMAIN spent(c) :
               LET times == Times(c, d) IN
               spent(c)[d] = [spent    |-> Max(times) - Min(times) -
                                             MapThenSumSet(LAMBDA g : g[2] - g[1], Gaps(times)),
                              sessions |-> 1 + Cardinality(Gaps(times))]
          /\ Total(TimeByCategory(spent(c), "sessions")) =
               MapThenSumSet(LAMBDA d : spent(c)[d].sessions, DOMAIN spent(c))

Filters == {NoFilter} \cup {[NoFilter EXCEPT !.users = {u}] : u \in {e.user : e \in logged}}
           \cup {[NoFilter EXCEPT !.exclude = {d}] : d \in {e.domain : e \in logged} \ {None}}

\* What is split in several ways adds up: a series to its range, less what is
\* still in the bucket that fills, the heatmap to all of it in whatever zone, the
\* branches to the overview, and whoever opens an actor sees the number he came
\* from; for as long as the tables are kept, and in the midst of a run.
PagesAddUp ==
  \A ask \in Asked :
    /\ ask.since >= clock - Aggregates =>
         SeriesAgree(ask) /\ BranchesAgree(ask) /\ ActorsAgree(ask)
    /\ ask.since >= clock - Ops => CodesAgree(ask)

\* Every table and every page tells one truth of the events that were counted
\* (analytics_service, stats_service, squid_ops_service), with a flush, the
\* roll-up or the purge at any step.
OneTruth == TablesAgree /\ PagesAddUp

\* Between the runs and flushes, the percentiles, the Blocked page and the pages
\* that read single requests agree with the other pages and with each other,
\* each for as long as its tables are kept.
AtRest == retention.pc = "idle" /\ pending = {}

PagesAgree ==
  AtRest => \A ask \in Asked :
    /\ ask.since >= clock - Aggregates =>
         /\ PercentilesFit(ask)
         /\ ReadBy(ask) \subseteq raw => DetailAgrees(ask)
    /\ FloorHour(ask.since) >= clock - Ops /\ FloorHour(ask.since) >= past.purgedTo =>
         \A f \in Filters : FiltersAgree(ask, f)

\* The roll-up neither loses a client's requests nor counts them twice: what
\* the clients of a range add up to is at least the range and at most the hours
\* around it, except for rows that a flush added to between the roll-up's read
\* and its delete. The leaderboard splits the same sum over logins and
\* addresses, and a client is new in whole hours just when it is.
RolledUpOnce ==
  \A ask \in Asked :
    FloorHour(ask.since) >= clock - Aggregates =>
      LET since == ask.since
          until == ask.until
          scope == ask.scope
          sum   == Total(Clients(tables, since, until, scope, "requests"))
          board == Leaderboard(tables, since, until, scope)
          New(c) == {e[c] : e \in Counted(0, until, scope)}
                      \ ({e[c] : e \in Counted(0, since - 1, scope)} \cup {None})
      IN
      /\ sum >= Cardinality(CountedByMinute(since, until, scope) \ past.uncounted)
      /\ sum <= Cardinality(Counted(since - Hour + 1, until + Hour - 1, scope))
      /\ Total(board.actors) + board.unattributed = sum
      /\ since % Hour = 0 /\ until = clock /\ past.uncounted = {} /\ clock <= Aggregates =>
           /\ NewClients(tables, since, until, scope) = New("client")
           /\ NewUsers(tables, since, until, scope) = New("user")

Gone == logged \ (pending \cup raw \cup (IF retention.pc = "idle" THEN {} ELSE retention.purged))

\* No request's detail is purged unseen: it is in an archive that is still
\* kept, or the run that purged it said so. What can still slip through is
\* named: rows stored after the archive had read past them, rows older than
\* the first archive's window, a run that broke off before it reported,
\* archives overwritten by a later run, and archives past their keep_days.
PurgedIsArchivedOrTold ==
  Gone \subseteq InFiles(files) \cup past.told \cup past.late \cup past.before
                 \cup past.unreported \cup past.replaced \cup past.expired

\* Archived rows stay in the archive directory for keep_days (archive_service
\* docstring: only files older than keep_days are deleted).
ArchivedIsKept == past.replaced \subseteq InFiles(files) \cup past.expired
=============================================================================
