# Verification of the Squid dashboard backend

TLA+ models of the parts of the backend (`backend/app`) whose correctness depends on
interleavings, failures and restarts, model-checked with TLC, with theorems checked by TLAPS.
Paths below are relative to `src/`; `services/`, `api/`, `core/` and `models/` stand for the
directories under `src/backend/app/`.

## 1. Inventory

The backend is one asyncio process in front of a database (SQLite or PostgreSQL). What runs
concurrently are its tasks (they interleave at every `await`), the worker threads that read
logs, the requests, and outside of it Squid, logrotate and the clients.

| Component | State | Operations | Interacts with | What makes it hard | What makes it correct |
|---|---|---|---|---|---|
| Log tailers `services/log_tailer.py` | open file, offset, partial line; last snapshot; state file | poll, checkpoint, stop, reopen | reads the logs; calls `on_event` for every line; checkpointed by the aggregator | rotation of two kinds between any two steps; read in a thread, dispatch on the loop; restart from an older position | no readable line is skipped, none is delivered twice in one life |
| Ring buffer `services/event_store.py` | bounded deque, id counter | append, events_since | filled by tailers, read by aggregator and API | silent eviction | ids without gaps; an overflow is noticeable |
| Aggregator `services/aggregator.py` | `_last_flushed_id`, flush under way | flush, stop | ring buffer, database, `on_flush_committed` | awaits inside flush; commit whose answer is lost; cancellation | everything taken is written, or taken again |
| Process `main.py` | tasks | start, shutdown | all | order of the shutdown; crash anywhere | a position on disk never runs ahead of the database |
| Export jobs `services/export_job_service.py`, `api/routes/export.py` | rows, files, detached tasks, `_cancel_requested` | create, run, cancel, download, delete, purge, reconcile | retention job, export settings, audit log | rows and files change in different transactions; count before create; late cancel; failed last commit | rows and files agree; every job ends; the limit |
| Live feed `services/ws_manager.py`, `api/routes/ws.py` | connections, pending batch, flag, flush tasks | broadcast, flush, connect, disconnect, re-authorise | fed by the tailers' callback; reads the account | several flush tasks at once; slow or failing sends; a scope that changes | nothing is missed; order; a connection whose account changed is closed |
| Tables `services/aggregator.py`, `db_upsert.py` and the pages that read them | the aggregate tables, raw rows | count a batch; the queries of every page | retention, archive | minute and hour tables side by side; two tables that answer one page | every page tells the same truth |
| Retention and archiving `services/retention.py`, `archive_service.py` | raw rows, aggregates, `archived_until`, files | roll-up, purge, archive | database, each other | decision and deletion in different transactions; runs that break off; file names | nothing is purged that is neither archived nor told of; each minute row is rolled up once |
| Sessions, login `api/routes/auth.py`, `session_service.py`, `totp_service.py`, `core/security.py` | refresh tokens, `token_version`, recovery codes, challenges, throttle | sign in, refresh, sign out, revoke, second factor | users | concurrent refreshes, revocations, guesses | one live token per session; a session that was ended stays over |
| Users, audit `services/user_service.py`, `audit_service.py` | users, hash chain | role, scope, permissions, activity, creation; record, verify | sessions | concurrent transactions, stale objects | a super administrator remains; nobody hands on more than he has; the chain verifies |
| Insights `insights/anomaly.py` | anomaly rows | six findings per flush | tables that the flush has just filled | history that contains the present; late events | what is a first is found, and nothing twice within a cooldown |
| Interval jobs, monitors, reports, Telegram | last run, cooldowns, codes, offset | run, raise, mail, pair | database, e-mail, Telegram | late and failed runs; restart between sending and recording; replayed messages | nothing is overlooked for longer than promised; no period is skipped; a code pairs once |
| Parsing, categories, configuration, frontend, deployment | none of their own | pure functions, presentation | - | - | - |

`PROJECT.json` lists every component with its status, and the hazards found in the code, each
at its line, with the properties that cover it.

## 2. Plan

Done, in this order, the most important behaviour first:

1. **Ingest**: `AccessLog`, `LogTailer`, `RingBuffer`, `Aggregator`, composed in `Ingest`.
2. **ExportJobs**, without share links.
3. **SignIn**, which implements the abstract `SessionChain`.
4. **Tables**, **Pages**, **Retention**: what is stored, what is read of it, what becomes of it.
5. **LiveFeed**, on `Scopes`.
6. **Accounts**, on `Scopes`: the last super administrator, escalation, the audit chain.
7. **Insights** and **Notices**, on `Tables`: findings, monitors, reports, pairing.

Considered and not done: an abstract specification of a line's life (unread, in memory, stored, written
off) that `Ingest` implements. A crash takes a stored line back to unread and a truncation makes an
unread one lost, so that nearly every step between its states would be allowed; what such a specification
could say is said by `Accounted`, `CountedOncePerLife` and `SkipsOnlyTheUnreadable`, which are theorems.

The modules declare their parameters as CONSTANTS with named, weak assumptions, have one action
per operation and declare nothing `RECURSIVE`.

## 3. Ingest

```
  AccessLog            LogTailer                RingBuffer        Aggregator
  Squid, logrotate --> poll (thread) --dispatch--> deque --flush--> database
                          ^   snapshot                               |
                          |      +---- state file <-- checkpoint ----+
```

**`LogLines`, `AccessLog`.** A line is a pair (source, number). Text is a stream of half-lines,
so that a read can end inside a line. A file is a contiguous piece of that stream. The actions
are Squid writing to the file it holds open, logrotate renaming, creating or replacing the file,
Squid reopening it, and copytruncate. This module is the environment: it is modelled from what
`log_tailer.py` observes through `stat`, `open` and `read`.

**`LogTailer`.** `handle` is `(_inode, tell(), _partial)`, `readState` is `_last_read_state`,
`persisted` the state file. `PollRead` is the whole of `_poll_once_sync` with a file at the path:
open or resume, detect either rotation, drain, read, split. It leaves its `result` for `Snapshot`,
which `Ingest!Dispatch` joins with the appends to the ring buffer, because the dispatch loop of
`poll_once` does not await. Between the two everything else may happen. `PollMissing`,
`PollRaises`, `CheckpointAll` and `CloseTailer` are the other paths. `consumed`, `persistedAt` and
`skipped` are history variables.

**`RingBuffer`, `Aggregator`.** `flush()` is split at its awaits: `FlushBegin` (take the batch),
`FlushCommit` (the database commits), `FlushDone` (move `_last_flushed_id`), `FlushEnd` (after
`_run_insights`); `FlushRaises` before or after the commit. A dozen tables updated in one
transaction by the same sums become `db`, the number of times each line is counted: the upsert
*adds* on conflict, so writing a batch twice counts it twice, contrary to the remark "the upsert
is idempotent" in `main.py:197`.

**`Ingest`.** Composition as in `main.py`: `FinishFlush` includes `on_flush_committed`, that is
the checkpoint of all tailers, some of whose state files may not be writable. `Shutdown`,
`StopTailer`, `StopAggregator`, `FinalFlush`, `Stopped` follow `lifespan`: tailers side by side,
then the aggregator; `CancelFlush` is the 10 s timeout of `Aggregator.stop`. `Crash` can happen
at any time. `lost` records, per cause, the lines that left memory unwritten; it is defined by
set difference from what is stored, not by the property.

Abstracted: decoding, `tell()` cookies, blank and unparsable lines, excluded clients, the delay of
polls and back-off, exceptions from `on_event` (an append does not raise), the isolation of rows
that PostgreSQL refuses, the rewriting of an unchanged state file. A worker thread that outlives
the 5 s stop timeout is not followed further, as the process is about to exit.

Properties:

| Property | Says | Would break if |
|---|---|---|
| `Accounted` | every line moved past is stored, pending, or on record as skipped or lost | a batch evicted or rolled back were forgotten; the state file were trusted too far |
| `CountedOncePerLife` | a line is counted at most (1 + crashes + faults - n)(1 + n) times, n of the faults being lost answers to a commit | polls or flushes overlapped |
| `SkipsOnlyTheUnreadable` | a poll passes over a line only if no reachable file holds it, at the first start, or after a truncation that `stat` cannot show | the partial line were not saved with the offset |
| `OverflowIsNoticed` | no unflushed event is evicted without `events_likely_lost` | the backlog were counted from what is left |
| `CleanStopLosesNothing` | a graceful stop without an error loses nothing | the aggregator stopped before the last tailer |
| `EventuallyHandled` | every complete line is stored or written off in the end | an exception ended the flush task |

The bound of `CountedOncePerLife` is a product for a reason the runs showed: after a crash or a
failed checkpoint the line may be in the buffer several times, and a commit whose answer is lost
counts each of these copies again. `1 + crashes + faults`, as one would expect, is exceeded from the second fault
on.

Runs: `ingest` has one source with two files, a truncation, two lines (four half-lines, enough
for a line across a rotation and a line after it), a buffer of two entries, so that one more event
overflows and a line can be in it twice, one crash and stop, and two faults. `ingest_shared` has two sources with one line
each; what they share is the buffer, the aggregator and the shutdown, and two lines suffice to
overflow it; it checks the shutdown and the liveness.
A second crash or fault starts from a state the first one leaves, which `Init` and the runs
already cover; larger buffers only delay the overflow.

Fairness: weak fairness of polling, dispatching, the steps of flush, stopping and starting, since
the event loop runs ready tasks and the unit files restart the process; of the environment only that
a line that was begun is ended and a rotation that was begun is completed. None of faults, crashes
or writing.

## 4. Export jobs

**`ExportJobs`.** `status` and `path` are the row's columns, `disk` the job's files, `task` the
place of `run_job` (after its loop the status it is about to commit), `left` the chunks still to
come, `cancels` the set `_cancel_requested`. An action ends where the code awaits the database:
`CheckLimit` / `CreateJob` / `StartTask` are the POST route; `RunBegin` / `Running` / `Checkpoint` /
`Complete` / `Settle` are `run_job`, with `RunFails`, `RunningFails` and `SettleFails` for what may
raise where; `AskCancel` / `Cancel` the cancel route, which decides on a row it read earlier;
`Admit` / `Record` / `Open` / `Served` / `Cleanup` / `DeleteCommit` a download and its background
task; `PurgeRead` / `PurgeCommit` the part of the retention job that concerns jobs, where files go
before rows; `Start` is `reconcile_orphaned_jobs`.

A failed query leaves `broken`: PostgreSQL then refuses the rest of the transaction, SQLite does
not, and both outcomes are modelled. Formats are not distinguished (an xlsx job has no raw file on
disk until it is complete), neither are filters, checksums and branches; share links are not
modelled except that a download by link is a reader too. `downloaded_at` is left out here: it feeds only
the monitor of undownloaded exports, which section 9 models. How many chunks an export will have is
chosen at its start, none included: an xlsx export of no rows never enters the loop in which the flag is
looked at. `FileResponse` is external: it does not notice a client that hangs up, so that the background
task runs whether anybody received the file or not. `Served` is that end of a response, and `answered` has the
jobs of which one has ended.

Properties: `ListedFileExists` and `NoFileForgotten` relate rows to files in both directions,
`GoneOnlyIfAnswered` says that the file of a finished job stays until a response that sent it has ended,
`CancelInTime` that a cancellation before the start or with a chunk still to write wins, `EventuallySettled` that a job ends unless the commit saying so failed. The exceptions they name
are real: a purge takes jobs that still run, and a deletion can break off after the unlink. That
somebody has received a file that is gone is not claimed: it does not hold (section 10).

Runs: `export_jobs` has one job, two readers, up to two chunks (a cancellation before, between and after
the looks at the flag, and an export without any), one restart and two errors, under fairness; jobs share no state except
the count of active ones, about which `LimitExceededByRaceOnly` is proved: requests that count
before either creates its job can exceed the limit together (the comment at `core/config.py:204`
knows no such exception), and nothing else can. Fairness: weak fairness of the task's steps, of the purge's commit and of the restart.

## 5. Live feed

**`Scopes`** has the branch scopes (`None`, unrestricted, is `{All}`), `resolve_branch`, the roles
and the permission catalogue reduced to two permissions that tell the roles apart.

**`LiveFeed`** is one account with several connections. A connection goes through its ticket
(`IssueTicket`, `TicketExpires`, `Handshake`), is registered (`Register`), and ends because the client
leaves, because the periodic check finds the account changed (`Reauthorize`), or because the check
itself raises (`CheckFails`): then the exception is raised again before `disconnect()`, and the feed
keeps a connection that nobody serves. `Broadcast` is `broadcast_nowait` with its two ways of
scheduling; `Flush` is `_flush_pending` up to its first await, `Send` one send with a return, an error
or a time-out (with the message gone out or not), `FlushEnds` the dropping of the dead connections.

`NothingMissed` and `InOrderUnlessOverlapped` are about the batch and the flag that callback and flush
tasks share; `SilentOnlyAfterFailure` about the only way an open connection goes quiet; and
`InvalidatedIsClosed`, under weak fairness of the periodic check (a timer loop in `ws.py`), that a
connection does not outlive its account's `token_version`. That fairness is all that is assumed.

Run `live_feed`: two connections, two tasks, two events with a batch of two (a full batch, a
timed one and the empty one that a full batch leaves behind), one change of the account between a
restricted and an unrestricted scope.

## 6. Sign-in

**`SignIn`** is one account. A request is a record that moves from statement to statement: the
password and the throttle (`LoginBegin`, `Password`), the challenge and its attempts (`VerifyBegin`,
`WrongCode`, `RightCode`), the recovery code that is looked up and marked in two statements
(`FindCode`, `MarkCode`, `MarkCodeLost`), the rotation (`RefreshBegin`, `Claim`, `Rotate`) with the
detection of reuse (a token that is not valid, or a wrong secret for one that is), sign-out, every operation that ends sessions (`EndBegin`: two UPDATEs, each with
a snapshot and a wait for rows: `Scan`, `Update`), the changes of the row (`RowBegin`) and of the
second factor (`TotpSetup`, `TotpConfirm`, `TotpRemove`), and `Commit`. The statements follow
PostgreSQL's READ COMMITTED: an UPDATE finds what was committed when it began, waits for locked rows
and looks again; an UPDATE of a loaded object writes the columns that were assigned.

**`SessionChain`** is what a session promises whatever the tokens behind it: it starts once, lives,
and once ended never lives again. `SignIn` implements it under the mapping `Status` (live when it has
a token that is not revoked, dead when it has only revoked ones); this is `SessionsAreChains`.

`OneLiveToken` and `EndedIsOver` say that no overlap of refreshes and revocations leaves two live
tokens or a live session that was to end. What an operation is to end (`doomed`) is settled by what it reads
first: for a sign-out by the SELECT of its token. The exception is recorded in `outrun` when a rotation
replaces a token that the last update has already picked: a sign-out revokes the row it loaded, so that a
session rotated between its SELECT and its UPDATE survives it; the other operations update twice, and only
a session rotated while the second UPDATE waits for it survives. A sign-in under way opens a session that
nobody set out to end. `SingleUse`,
`GuessesBounded` and `EnabledIsConfirmed` cover what is checked in one statement and written in
another; the history variable `raced` names the overlap in which they fail.

Run `sign_in`: three requests, two at a time, four tokens, two recovery codes, thresholds of one (the
first wrong answer is the last one allowed). Two requests at a time suffice for every pair of
operations to overlap at every statement; the third is what follows them. What more requests would
add is covered by the proofs for the three session properties.

## 7. Accounts and audit

**`Accounts`** has every operation of `user_service.py` on the columns that decide who may do what.
A request loads the actor and the target and checks them (`Begin`), flushes its UPDATE and stamps its
audit entry (`Flush`, where it waits for the row), reads the latest entry's hash (`Link`) and commits
(`Commit`), writing the columns that differ from what it loaded. An audit entry's stamp stands for its
hash.

`SuperadminRemains`, `SuperadminUnlimited`, `NoEscalation` and `ChainHolds` each hold unless two
requests overlapped in a particular way, which `raced` records when the second one begins. That
they can overlap is in the code: nothing locks the rows that `_keep_a_superadmin` counts. One
overlap is less obvious than two demotions: a request that makes an administrator an auditor has
loaded him before another promotes him, and commits after he, as the second super administrator, has
demoted the first. So every request that assigns a role below super administrator counts
(`Demotes`).

Run `accounts`: two super administrators, a restricted administrator without one permission, an
account to create; three requests, two at a time.

## 8. Stored data

**`Tables`** says which rows of which aggregate tables one event is counted in (`CountInto`, the
flush's upserts, with byte columns left out) and gives the queries of the services that read them; a
table is a function from keys to counters. **`Pages`** composes these into the pages: series
without the bucket that is filling, heatmap, overview with its previous period, branches, actors,
percentiles, the Blocked page with its choice between two tables, the pages on raw rows, visits and
their length. The minute that divides the overview's two periods is counted in both
(`analytics_service.py`, inclusive bounds on either side); the model follows the code there.
**`Retention`** runs the flush, the retention job transaction by transaction (`Rollup`, `PurgeRaw` in
batches, `PurgeTables`), the archive branch by branch with its file names (`StartArchive`,
`WriteBranch`, `CommitRun`, `EndArchive`) and their breaking off.

`OneTruth` compares, at every step, the sums of all tables (`TablesAgree`) and what a page splits into
buckets, branches, categories, actors or codes (`PagesAddUp`) with the counted events of the minutes that
begin in its range (`SeenBy`), less the bucket that fills; `PagesAgree`, at rest, percentiles, the Blocked
page's filters and the pages on raw rows with the other pages; `RolledUpOnce` that hours and minutes of clients neither lose
nor double; `PurgedIsArchivedOrTold` that what is purged is in an archive or was reported, with every
other way out named (stored after the archive had passed, older than the first archive's window, a run
that broke off, overwritten, expired).

A raw row has the time of its event, a row of a table the minute it falls in (`FloorMinute`,
`aggregator.py:282`), and `resolve_range` rounds nothing (`schemas/common.py:23,67`): a range may begin and
end within a minute. Pages over tables then leave out the first, partial minute that pages over raw rows
show, and show what the last one has after the range's end. `ReadBy` is what the one kind shows, `SeenBy`
the other, and `PagesAgree` states that the pages differ by exactly these requests (`first`, `last`) and no
others. That they agree outright holds only for ranges of whole minutes.

Runs: `data` has a minute of two steps of the clock, an hour of two minutes, a day of two hours, and ranges that
begin and end at any step. Its scenarios are `Archiving` (two archive runs and a purge over two requests),
`Failing` (the same over one, with a failure or crash anywhere), `RollingUp` (two retention runs over requests
denied by authentication and by the server), `Breaking` (one run that fails or dies anywhere) and `Browsing`
(four requests, no run). The first two take five and six steps and pass midnight, so that file names differ in
their dates and the row that says how far a branch is archived falls behind the window; an archive changes no table, so
that the dashboard is asked nothing there (`asked`, a bound). The others take seven, and the pages are asked in every
state. `archive_overwritten` has a day of four and no failures. Batches of
two are smaller than what is purged; the roll-up age, the aggregate ages and the raw age differ,
so that each is reached alone.

## 9. Notices

**`Insights`** is the statistical provider's six findings on the window a flush has stored,
with events that are stored later than they happened, and what the monitors of quotas, category time and
uncategorized domains find in the tables. **`Notices`** adds the interval job's loop with its jitter
and late runs, the watch list with its look-back, undownloaded exports, reports mailed one branch
after the other and noted at the end, and the pairing of a chat: codes asked for by concurrent
requests, sent to a bot, polled with an offset that a restart forgets.

A watch entry is for a domain, a client or a user (names are in lower case here, as the query makes
them), of one branch or of any; one of any branch is filed under "default" (`Default`), which is also the
branch of a deployment that has but one. Anomalies are a set: two rows that agree in everything, time
included, are one here. `gone` has the raw rows that retention has deleted, batch by batch (`PurgeRaw`); only the
look for earlier visits reads them. The watch list and the settings do not change during a run.
The monitor of uncategorized domains looks at the `Candidates` (20 in the code) with the most requests only,
the domains it has flagged before among them (`TopUncategorized`).

`SeenInTime` says what is told in time and not twice (watched targets, a domain's first block, first
visits to a sensitive category), `LimitsAreHeld` that whoever is past a quota, a time limit or a rule's threshold
is flagged, `ReportsCoverAllTime` and `PairedByItsCode` what is mailed and paired; each with its
exceptions: a failure longer than the look-back; a domain asked for earlier in
the minute in which the window starts; a visit whose earlier rows are past their retention, which is new again; an
entry for any branch beside one for "default" on the same target, which file rows that look alike
(`FiledTwice`); a domain when as many others as are looked at have at least as many requests
(`Crowded`): as flagged domains keep their places, the 21st past the limit is not flagged until one of them
falls back or is given a category; a settings page saved over a pairing. One scenario for each
kind of job keeps the instance small, which is sound as each job is a task with rows of its own.

Runs: `alerts` has a scenario each for pairing, the settings page, exports waiting to be fetched, reports (at most
five ticks, two codes, two messages, two exports, one or two failures), the watch list (two entries
on one domain, one of them for any branch and both filed under the same one, and one on a user), the insights
calls (lines that are late, a failure, one purge), and each monitor: up to four requests and five ticks, with a
look-back of three, so that a run can come too late for it, raw rows kept for two, and one
candidate for two uncategorized domains. Without any one of the exceptions `FiledTwice`, `Crowded` and that for
rows past their retention, the run finds a violation.

## 10. Where code and documents disagree

| Run | Statement | What the run shows |
|---|---|---|
| `crash_loses` | `log_tailer.py:48-52`: after a crash events are double-counted, not dropped | read during the awaits of a flush, checkpointed by it, then a crash: dropped |
| `export_stuck` | `tests/test_export_jobs.py:252-279`: FAILED after a failure in mid-stream | a failed query aborts the transaction; the row stays RUNNING |
| `archive_overwritten` | `archive_service.py:28`: only files older than `keep_days` are deleted | a second run on one day replaces the first one's file, which covers more |
| `first_block_missed` | `frontend/src/i18n/locales/en.ts:172`, `tests/test_insights_anomaly.py:226`: the first block of a domain is flagged | the flush has already stored the request itself, and its minute began before the window |

Each of these runs checks that statement alone and is expected to find it violated. Three more
divergences are stated without a run: `ARCHITECTURE.md:387-389` promises that the old file is drained
after a rotation, while a poll between the rename and the creation of the new file closes it unread
(`SkipsOnlyTheUnreadable` names the case); requests that count together exceed the limit of
active exports (`LimitExceededByRaceOnly`); and `export_job_service.py:256-258` says that the file is deleted
"only after the file has already been fully streamed to the client", `README.md:556` when it is "successfully
downloaded", while the background task also runs after a response whose client has hung up
(`GoneOnlyIfAnswered` says no more than that a response has ended).

## 11. Proofs

`IngestProofs` proves for all sources, lines, files, truncations, capacities, crashes, stops and
faults (from the named assumptions of the modules only):

- `TypeCorrect`, `BufferIsConsecutive`, `NothingDisappears` (`Accounted`), `OverflowNoticed`.

They follow from one inductive invariant, `IInv`:

- `TypeOK`;
- `LogInv`: Squid writes at the end of the file it holds (`top[writer] = written`), and every file
  has `base <= top <= written`. Needed to know that what a poll reads is a list of lines;
- `RingConsecutive`: without it "evicted" and "id too old" are different things;
- `PollInv`: while a poll's result waits for the dispatch, every line between the present position
  and the one it will move to is among its events or its skipped lines. This carries `Accounted`
  over the gap between the thread's read and the dispatch;
- `BatchInv`: a flush under way has a batch, whose ids are newer than `_last_flushed_id` and still
  in the buffer unless evicted; the buffer holds nothing between the two that the batch misses; and
  in phase "committed" each of its events is counted;
- `Accounted` itself, which is not inductive alone: a dispatch needs `PollInv`, a commit `BatchInv`,
  an eviction `RingConsecutive`.

`Init => IInv` is `InitIInv`; one lemma per group of actions proves the step, `NextIInv` puts them
together, and `Invariance` is the temporal conclusion. `OverflowNoticed` is an action property: an
eviction of an id above `_last_flushed_id` makes the backlog exceed the buffer by `RingConsecutive`.

On top of `IInv` the same module proves:

- `CountedOnce`. A line is counted again only if it comes to lie in the buffer again, which takes a
  tailer that starts over from its state file, or if its batch is written again. `CopiesInv` bounds
  the copies of a line (in the buffer, in the hands of a flush, counted) by the crashes and faults so
  far; a lost answer to a commit doubles at most the copies there are, hence the product.
  `AheadInv` carries it over a poll: of a line that can still be read, from the present position or
  from the state file, there is one copy less than would be too many. Both need
  `TailersInv` (a stopped tailer is closed, an open one is where its snapshot says unless a poll
  is waiting for its dispatch, and a poll returns each line once), `Disjoint` (no line ends in two
  files) and `BatchOrder`;
- `CleanStop`. `FinalInv`: what the final flush has in hand (or, if nothing failed, behind
  it) is all there is in the buffer. `AtInv`: no state file is ahead of its tailer, and no poll goes
  back;
- `NothingReadableSkipped`, the action property `SkipsOnlyTheUnreadable`. `PartialInv`: what is held in
  memory of a line is nothing, half of it, or garbled. A line that a poll passes over and that is in a
  file it reads then ends behind the place where it reads on, so that it is among the lines read
  unless its first half is missing, which is `JoinedMidLine` or, by `AtInv`, `CutUnseen`.

`ExportProofs` proves, for all limits, jobs, requests, readers, chunks, crashes and faults (from
`ExportAssumption` only):

- `TypeCorrect`, `ListedFilesExist`, `NoFilesForgotten`, `DeletedOnlyIfAnswered`, `CancelledInTime`
  and `LimitExceededByRaceOnly`.

The first five follow from its `IInv`, which adds to the properties what rows, files, tasks and
callers know of each other:

- `DownInv`, `UnusedInv`: nothing goes on while the process is down or under a number not yet given;
- `RequestInv`: a request that has created its job but not its task finds the row PENDING or purged,
  and is the only one that holds the job;
- `TaskInv`: a task's row is active or was purged, and its place says which files there are. It is
  what makes the last commit agree with the disk;
- `PathInv`: only a DONE job lists a file, and has no other;
- `PurgeInv`, `ReaderInv`: a job somebody purges or downloads is over (no task, no request, not
  active), unless it is on record as overtaken. It is what keeps two deleters and a writer apart;
- `CancelInv`: a cancellation in time is in `cancels` for as long as the job will look at it, and
  it will: the job has not begun, or has a chunk left to write. `CancelInTime` alone does not exclude a task about to commit DONE.

There is one lemma per action (`CheckLimitStep` ... `StartStep`), with a step per conjunct the action
can disturb; `InitIInv`, `NextIInv` and `Invariance` put them together. `LimitExceededByRaceOnly`
is an induction of its own on top of `IInv`: `CheckLimit` finds fewer than `MaxConcurrent` active jobs,
`CreateJob` exchanges an admission for an active job, and no other step adds either; the last
needs `TaskInv`, since `Running` writes RUNNING over whatever the row says.

`SignInProofs` proves, for any number of requests, tokens, codes and attempts (from
`SignInAssumption` only):

- `TypeCorrect`, `OneTokenLives`, `EndedStaysOver`, and `Refinement`: `SignIn` implements
  `SessionChain`.

The invariant is `TypeOK /\ SessionInv`. `OneLiveToken` alone is not inductive, since a rotation
revokes in one statement and commits later; `SessionInv` says what requests have in hand:

- `TokenInv`: a session starts with the token of its own number, has at most one that is not revoked,
  and none once it has ended;
- `Apart`: the row locks, no row is revoked by two requests;
- `Held`: what a request has revoked is still live as committed, because of its lock;
- `Stages`: which of its fields a request has filled at which point;
- `Dooms`: no token of a session that is to end escapes, unless outrun. Its last statement has found every
  live one, and it commits with all of them revoked.

One lemma per action shows `TypeOK`, one per kind of step `SessionInv`. For the refinement, every step
leaves `Status` alone (`Goto` and all that writes no token), starts one session (`Open`), or ends some
(`Commit`); a rotation exchanges one live token for another and is a stutter.

The same module proves `OnceIsEnough`, `GuessesStayBounded` and `FactorIsConfirmed`. `GuardInv` says what
the requests under way may still do:

- `StagesInv`: where the requests of each kind can be, and which of them may change the second factor;
- `OnceInv`: unless raced, a challenge that is live or being answered has opened no session, and a
  code that is unused or about to be marked has not been accepted;
- `PasswordLimit`, `CodeLimit`: what was checked and what is about to be is at most the threshold less one
  plus the number of requests, as each of them was let in below the threshold;
- `FactorInv`: an operation on the second factor that is alone has read what still is, and turns it
  on only for the secret it has read.

`AccountsProofs` proves, for any number of accounts and requests (from `AccountsAssumption` and
`Bootstrapped`: the first start creates a super administrator):

- `TypeCorrect`, `OneSuperadminStays`, `SuperadminsUnlimited`, `NobodyEscalates`, `AuditIsAChain`.

First every operation is shown to begin alike (`Sound`): with a row that was checked, and within the
reach of the actor. Its invariant then adds:

- `Requests`: a request's account exists, or nobody else can create it any more;
- `RowLocks`: of two writers of one row one changes nothing;
- `Superadmins`: without a race at most one request lowers anybody, and a super administrator other
  than its target remains. `SuperadminRemains` alone would not survive that request's commit;
- `RowsSeen`: without a race what a request loaded is still what is committed;
- `Stamps`: without a race there is one writer, later than all entries and linked to the latest.

There is a lemma for each of `BegunInv`, `RefusedInv`, `FlushInv`, `LinkInv` and `CommitInv`.

`LiveFeedProofs` proves, for any number of connections, flush tasks and events (from the module's assumptions
only):

- `TypeCorrect`, `NoEventMissed`, `SilenceIsFailure`, `ReceivedInOrder`.

`FeedInv` adds to the properties:

- `ConnInv`: the feed knows a connection only behind its handshake, and owes it nothing before;
- `TaskInv`: the flag promises a task that sleeps, and only a failed send makes a task count a connection dead;
- `OwedInv`: each event that is owed to an open connection was received, is pending and sure to be taken
  (`WillBeTaken`: a task sleeps or is about to take the batch), or is in the batch of a
  task that has still to send to this connection.

For the order, `NewestInv` bounds all events by the newest, and `OrderInv` says that without an overlap
one task sends at most, and that what was received, its batch and what is pending follow each other.

`NoticesProofs` proves, for all intervals, look-backs, limits, codes, messages, requests and failures
(from `TablesAssumption`, `InsightsAssumption` and `NoticesAssumption`):

- `TypeCorrect`, `PairsByItsCode`, `CoversAllTime`, `ToldInTime`, `LimitsHeld`.

Its invariant, `NoticesInv`, consists of one part per concern, each preserved by lemmas of its own:

- `PairInv`. `AskingInv`: all codes of a target that a request knew of and that may still work are in its list
  to be ended; hence `CodesInv`: a code that a later one's request knew of is used up or over. `RedeemedInv`
  and `ChatInv` keep which message paired whom. Replayed messages find their code used;
- `ReportInv`. `MailingInv`: a run under way starts where the last noted one ended, and each branch has its mail or is
  still to get it. Without it nothing connects `lastSent` with the period being mailed;
- `DataInv`: the rows of the tables are those of the stored events, no anomaly is dated in the
  future. The lemmas `CountIntoFacts` and `KeyFacts` say what a flush adds;
- `WatchInv`: every hit stored before the monitor's last run is noted. A hit first seen now
  was therefore stored after that run, which bounds how long it can have been out of view; one in view has a
  row in the table (`HitIsActive`), so that its target is alerted on or in its cooldown;
- `ApartInv`: a watched target's rows are no later than its `last_alerted_at`, so that two of them are too
  close only if another target files alike (`FiledTwice`); the other kinds look at the rows themselves (`NotFlagged`);
- `FirstInv`: what is stored was in a window or is in the present one, and a domain that has a
  row for a first block was in a window. So a first in the present window is unknown to the tables and not flagged yet,
  up to the exceptions the property names; `GoneInv`: what a purge has deleted was past its time, so that a visit
  that is not known any more is as old;
- `RowsInv`: the tables that are summed up are `Buckets` of all stored events, as the aggregates are not purged here. A monitor
  sums the rows of whole minutes, so what it finds is at least the requests of the last day but for the day's
  first minute (`QuotaFound`, `MinutesFound`, `RequestsFound`, `RuleFound`), and whoever is past a limit
  by the requests themselves is past it by the rows (`FlagHolds`). For a domain that is not among the
  candidates, all candidates have at least as many requests (`CountsAre`), which is `Crowded`.

`RetentionProofs` proves, for all intervals, branches, events, scenarios, runs and failures (from
`RetentionAssumption`, which says of a scenario's requests that they have a time and a known
branch, and `BranchesAssumption`, that there are finitely many branches):

- `TypeCorrect`, `NothingPurgedUnseen`, `UnnamedIsArchived`, `TablesTellOneTruth` (`OneTruth`) and
  `ClientsRolledUpOnce` (`RolledUpOnce`).

`PurgedIsArchivedOrTold` is about what is gone when a run has ended, and a run decides first and deletes
later, in other transactions, while an archive may be under way. `KeptInv` adds:

- `PurgedInv`: a branch that the run does not warn of is archived past the cutoff of the raw rows, and stays
  so; what the run has purged so far is saved (in a file or on record as one of the exceptions), or
  its branch is going to be told;
- `PassedInv`: an event in store that the archive has read past is saved or being purged. It makes
  the decision good for the rows the run finds later, a flush behind the archive included;
- `BaseInv`: events have a time and a branch, no archive reaches beyond the present, and the archive's run
  ends at the time at which it began.

What the tables hold is `DataInv`, over the events that a flush has counted:

- `TablesInv`: each table is `Buckets` of a set of them, which misses only events whose row is older than
  the table is kept. The set is existential: which rows a purge took depends on when it ran;
- `ClientsInv`: a client's event is in the minute rows or in the hourly rows, never in both; what is in
  neither is older than the aggregates are kept or came between a roll-up's read and its delete
  (`past.uncounted`), and what a roll-up has read is still in the minutes. Without the last part a roll-up
  could add to the hours what another step has taken from the minutes;
- `IdInv`, `TimeInv`, `StoredInv`: events are told apart, a run ends at the time at which it began.

`TablesAgree` then says that a sum over rows, grouped in whichever way, is the number of the events of the range. The
proof also confirms the comment in `get_denials`: in each minute 403 and 407 are at most what was blocked, so
that its `max(0, ...)` never cuts anything off.

`PagesAddUp` needs no further invariant. `Shows` says that some rows are those of some events under a key,
`Grouped` that a page's groups are sums of such rows, and `Counts` that each group is then the
number of its events; what a page adds up follows from `ShowsGroups`. The bucket that is filling is cut
by the same test on a row's minute and on an event's time (`Truncate` is monotonic), and a zone's heatmap
puts every row into one cell whatever the zone is. A minute lies within one hour (`MinuteInHour`), which is all
that is used of its length.

`TablesProofs` holds the facts on finite sums, tallies and upserts that both modules rest on: a sum over a
union, by groups, by the fibres of a function; the tally of a union is the sum of the tallies; `Upsert` of the
buckets of two sets is the buckets of their union. They need an induction over finite sets; as the library's
induction theorems are out of reach, a smallest set that refutes the claim is taken (`SmallestSet`) and
shown to have a smaller one inside. The same device gives the value of `MapThenSumSet` (`SumIs`).

Only model-checked:

- the liveness properties (`EventuallyHandled`, `EventuallySettled`, `InvalidatedIsClosed`), which are out
  of the prover's reach here;
- `PagesAgree` of `Retention`: percentiles are found by a scan over bands and visits by a fold over sorted
  times, which would need an induction over data; the filters of the Blocked page enumerate combinations.

## 12. Not modelled

- Configuration, categories (string rules and an import), the rendering of reports and exports, the
  health and policy pages, the frontend and deployment: static values, pure functions, presentation.
- The parsing of a line of text, byte columns, the order of listings and the cut to a page or to
  the largest N: the properties do not tell them apart, except for the candidates of the monitor of
  uncategorized domains, whose cut is modelled.
- Share links, re-authentication of single operations, revocation of one session by id, rate limits
  per network address: more readers and guards of the kinds that are modelled.
- The isolation of rows that PostgreSQL refuses during a flush; expired refresh tokens and system
  events that the last retention transaction deletes too; an archive script beside the scheduler.
- The detached first run of interval jobs that may overlap the loop's first interval, and the
  delivery of alerts to their recipients.

## 13. Files

| File | Contents |
|---|---|
| `LogLines`, `AccessLog`, `RingBuffer`, `LogTailer`, `Aggregator`, `Ingest` | the ingest pipeline |
| `ExportJobs` | background exports |
| `Scopes` | branch scopes, roles and permissions |
| `LiveFeed` | the WebSocket feed |
| `SessionChain`, `SignIn` | what a session promises; sign-in, tokens and what ends them |
| `Accounts` | who may change which account; the audit chain |
| `Tables`, `Pages`, `Retention` | the aggregate tables, the pages, roll-up, purge and archive |
| `Insights`, `Notices` | findings; monitors, reports and Telegram codes |
| `MC*` and `*.cfg` | instances for TLC |
| `TablesProofs`, `IngestProofs`, `ExportProofs`, `SignInProofs`, `AccountsProofs`, `LiveFeedProofs`, `NoticesProofs`, `RetentionProofs` | theorems |
| `PROJECT.json` | components, runs, mutants, source map, findings, hazards, theorems |

Operators preceded by "As if" or "Mutant of X" are faulty variants of the next one or of X; nothing refers to them. Replacing X
by one of them makes the property named in `PROJECT.json` fail, which shows that the property
depends on that code.
