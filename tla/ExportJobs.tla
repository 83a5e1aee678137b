------------------------------ MODULE ExportJobs ------------------------------
(***************************************************************************)
(* Background exports: POST /export/jobs creates a row and a detached task *)
(* that writes the result file; the job can be cancelled, downloaded,      *)
(* purged by the retention job or deleted after its download; at start the *)
(* jobs of the previous process are reconciled                             *)
(* (app/services/export_job_service.py, app/api/routes/export.py).         *)
(*                                                                         *)
(* Every await on the database is a point where everything else may run:   *)
(* an action below ends at one.  The data is abstracted away, also the     *)
(* difference between formats: a job writes a raw file, checks for         *)
(* cancellation after every chunk, and zips it; only an xlsx export of no  *)
(* rows has no chunk at all.                                               *)
(***************************************************************************)
EXTENDS Integers, FiniteSets

CONSTANTS
  MaxConcurrent,  \* EXPORT_JOB_MAX_CONCURRENT.
  Requests,       \* Concurrent POST /export/jobs requests.
  Readers,        \* Concurrent downloads, with a login or by share link.
  MaxJob,         \* Jobs ever created.  Bounds the model.
  MaxChunk,       \* Chunks of a result file.  Bounds the model.
  MaxCrash,       \* Ends of the process.  Bounds the model.
  MaxFault        \* Database and I/O errors.  Bounds the model.

ASSUME ExportAssumption ==
  /\ MaxConcurrent \in Nat \ {0}
  /\ IsFiniteSet(Requests) /\ Requests # {}
  /\ MaxJob \in Nat /\ MaxChunk \in Nat \ {0}
  /\ MaxCrash \in Nat /\ MaxFault \in Nat

VARIABLES
  (* The database and the export directory. *)
  status,       \* The row's status, NoRow if there is none.
  path,         \* Its file_path is set.
  disk,         \* The job's files: "raw" and "zip".
  mode,         \* The cleanup mode in the export settings.
  (* The process. *)
  up,
  task,         \* Where run_job is.
  left,         \* Chunks it has left to write, or will have.
  broken,       \* Its transaction was aborted by a failed statement.
  cancels,      \* _cancel_requested.
  asking,       \* Cancel requests that have read an active row.
  request,      \* A POST request: Idle, Admitted, or the job it created.
  reader,       \* A download: where it is, and of which job.
  purging,      \* The jobs the retention job is deleting, until it commits.
  (* History. *)
  created,      \* Jobs created; they are numbered in that order.
  inTime,       \* Jobs cancelled before their last look at cancels.
  stuck,        \* Jobs that a failed commit left without a task.
  interrupted,  \* Jobs whose deletion failed after the file was gone.
  overtaken,    \* Jobs the purge found still active.
  answered,     \* Jobs of which a response with the file has ended, received or not.
  crashes, faults

storeVars   == <<status, path, disk>>
taskVars    == <<task, left, broken>>
requestVars == <<request, created>>
historyVars == <<inTime, stuck, interrupted, overtaken, answered>>

vars == <<storeVars, taskVars, requestVars, historyVars,
          mode, up, cancels, asking, reader, purging, crashes, faults>>

Jobs     == 1..MaxJob
Idle     == 0
Admitted == -1
NoRow    == "none"
Away     == [at |-> "idle", job |-> 0]

\* _ACTIVE_STATUSES
Active(j) == status[j] \in {"PENDING", "RUNNING"}

StoreTypeOK ==
  /\ status \in [Jobs -> {NoRow, "PENDING", "RUNNING", "DONE", "FAILED", "CANCELLED"}]
  /\ path \in [Jobs -> BOOLEAN]
  /\ disk \in [Jobs -> SUBSET {"raw", "zip"}]
  /\ mode \in {"TIME_BASED", "AFTER_DOWNLOAD"}

TaskTypeOK ==
  /\ up \in BOOLEAN
  /\ task \in [Jobs -> {"none", "queued", "toRun", "writing", "DONE", "FAILED", "CANCELLED"}]
  /\ left \in [Jobs -> 0..MaxChunk]
  /\ broken \in SUBSET Jobs
  /\ cancels \in SUBSET Jobs
  /\ asking \in SUBSET Jobs

CallTypeOK ==
  /\ request \in [Requests -> Jobs \cup {Idle, Admitted}]
  /\ reader \in [Readers ->
       [at : {"idle", "recording", "opening", "serving", "cleanup", "deleting"},
        job : Jobs \cup {0}]]
  /\ purging \in SUBSET Jobs

HistoryTypeOK ==
  /\ created \in 0..MaxJob
  /\ inTime \in SUBSET Jobs /\ stuck \in SUBSET Jobs /\ interrupted \in SUBSET Jobs
  /\ overtaken \in SUBSET Jobs /\ answered \in SUBSET Jobs
  /\ crashes \in 0..MaxCrash
  /\ faults \in 0..MaxFault

TypeOK == StoreTypeOK /\ TaskTypeOK /\ CallTypeOK /\ HistoryTypeOK

Init ==
  /\ status = [j \in Jobs |-> NoRow]
  /\ path = [j \in Jobs |-> FALSE]
  /\ disk = [j \in Jobs |-> {}]
  /\ mode = "TIME_BASED"
  /\ up = TRUE
  /\ task = [j \in Jobs |-> "none"]
  /\ left = [j \in Jobs |-> 0]
  /\ broken = {}
  /\ cancels = {}
  /\ asking = {}
  /\ request = [q \in Requests |-> Idle]
  /\ reader = [r \in Readers |-> Away]
  /\ purging = {}
  /\ created = 0
  /\ inTime = {} /\ stuck = {} /\ interrupted = {} /\ overtaken = {}
  /\ answered = {}
  /\ crashes = 0
  /\ faults = 0

Fault == faults < MaxFault /\ faults' = faults + 1

-----------------------------------------------------------------------------
(* Creating a job.                                                         *)

\* count_active_jobs() and, in the same breath, every other reason to refuse.
CheckLimit(q) ==
  /\ up
  /\ request[q] = Idle
  /\ Cardinality({j \in Jobs : Active(j)}) < MaxConcurrent
  /\ request' = [request EXCEPT ![q] = Admitted]
  /\ UNCHANGED <<storeVars, taskVars, historyVars, created>>
  /\ UNCHANGED <<mode, up, cancels, asking, reader, purging, crashes, faults>>

\* create_job() commits the row and its audit entry.
CreateJob(q) ==
  /\ request[q] = Admitted
  /\ created < MaxJob
  /\ created' = created + 1
  /\ status' = [status EXCEPT ![created + 1] = "PENDING"]
  /\ request' = [request EXCEPT ![q] = created + 1]
  /\ UNCHANGED <<path, disk, taskVars, historyVars>>
  /\ UNCHANGED <<mode, up, cancels, asking, reader, purging, crashes, faults>>

CreateFails(q) ==
  /\ request[q] = Admitted
  /\ Fault
  /\ request' = [request EXCEPT ![q] = Idle]
  /\ UNCHANGED <<storeVars, taskVars, historyVars, created>>
  /\ UNCHANGED <<mode, up, cancels, asking, reader, purging, crashes>>

\* The row is refreshed, then start() makes the task.
StartTask(q) ==
  /\ request[q] \in Jobs
  /\ status[request[q]] # NoRow
  /\ task' = [task EXCEPT ![request[q]] = "queued"]
  /\ request' = [request EXCEPT ![q] = Idle]
  /\ UNCHANGED <<storeVars, left, broken, historyVars, created>>
  /\ UNCHANGED <<mode, up, cancels, asking, reader, purging, crashes, faults>>

\* The refresh raises: the row stands, but start() is never reached.
RefreshFails(q) ==
  /\ request[q] \in Jobs
  /\ IF status[request[q]] = NoRow THEN UNCHANGED faults ELSE Fault
  /\ request' = [request EXCEPT ![q] = Idle]
  /\ stuck' = stuck \cup {request[q]}
  /\ UNCHANGED <<storeVars, taskVars, created, inTime, interrupted, overtaken, answered>>
  /\ UNCHANGED <<mode, up, cancels, asking, reader, purging, crashes>>

-----------------------------------------------------------------------------
(* run_job().                                                              *)

\* It ends without having changed the row.
Abandon(j) == task' = [task EXCEPT ![j] = "none"]

\* The row is loaded; it may have been purged, or cancelled already. How many
\* chunks the range will fill is settled here, so as to tell what is ahead; an
\* xlsx export of no rows has none (write_xlsx_rows yields once per batch).
RunBegin(j) ==
  /\ task[j] = "queued"
  /\ task' = [task EXCEPT ![j] =
       CASE status[j] = NoRow -> "none"
         [] status[j] # NoRow /\ j \in cancels -> "CANCELLED"
         [] OTHER -> "toRun"]
  /\ cancels' = IF status[j] # NoRow THEN cancels \ {j} ELSE cancels
  /\ \E n \in 0..MaxChunk :
       left' = IF status[j] # NoRow /\ j \notin cancels THEN [left EXCEPT ![j] = n] ELSE left
  /\ UNCHANGED <<storeVars, broken, requestVars, historyVars>>
  /\ UNCHANGED <<mode, up, asking, reader, purging, crashes, faults>>

\* The row is RUNNING and the raw file is opened.
Running(j) ==
  /\ task[j] = "toRun"
  /\ status[j] # NoRow
  /\ status' = [status EXCEPT ![j] = "RUNNING"]
  /\ task' = [task EXCEPT ![j] = "writing"]
  /\ disk' = [disk EXCEPT ![j] = @ \cup {"raw"}]
  /\ UNCHANGED <<path, left, broken, requestVars, historyVars>>
  /\ UNCHANGED <<mode, up, cancels, asking, reader, purging, crashes, faults>>

\* Loading the row or committing RUNNING raises, outside of the try block.
RunningFails(j) ==
  /\ task[j] \in {"queued", "toRun"}
  /\ IF task[j] = "toRun" /\ status[j] = NoRow THEN UNCHANGED faults ELSE Fault
  /\ Abandon(j)
  /\ left' = [left EXCEPT ![j] = 0]
  /\ stuck' = stuck \cup {j}
  /\ UNCHANGED <<storeVars, broken, requestVars, inTime, interrupted, overtaken, answered>>
  /\ UNCHANGED <<mode, up, cancels, asking, reader, purging, crashes>>

\* Mutant of Checkpoint: a cancelled job leaves its file.
CheckpointLeavesFile(j) ==
  /\ task[j] = "writing"
  /\ left[j] > 0
  /\ IF j \in cancels
       THEN /\ task' = [task EXCEPT ![j] = "CANCELLED"]
            /\ left' = [left EXCEPT ![j] = 0]
            /\ cancels' = cancels \ {j}
            /\ UNCHANGED disk
       ELSE /\ left' = [left EXCEPT ![j] = @ - 1]
            /\ UNCHANGED <<disk, task, cancels>>
  /\ UNCHANGED <<status, path, broken, requestVars, historyVars>>
  /\ UNCHANGED <<mode, up, asking, reader, purging, crashes, faults>>

\* Mutant of Checkpoint: cancellation is looked at before the job runs only.
CheckpointWithoutCheck(j) ==
  /\ task[j] = "writing"
  /\ left[j] > 0
  /\ left' = [left EXCEPT ![j] = @ - 1]
  /\ UNCHANGED <<storeVars, task, broken, requestVars, historyVars>>
  /\ UNCHANGED <<mode, up, cancels, asking, reader, purging, crashes, faults>>

\* Mutant of Checkpoint: the end of the stream is missed by one.
CheckpointPastEnd(j) ==
  /\ task[j] = "writing"
  /\ left' = [left EXCEPT ![j] = @ - 1]
  /\ UNCHANGED <<storeVars, task, broken, requestVars, historyVars>>
  /\ UNCHANGED <<mode, up, cancels, asking, reader, purging, crashes, faults>>

\* A chunk is written; then cancellation is looked at.
Checkpoint(j) ==
  /\ task[j] = "writing"
  /\ left[j] > 0
  /\ IF j \in cancels
       THEN /\ task' = [task EXCEPT ![j] = "CANCELLED"]
            /\ disk' = [disk EXCEPT ![j] = {}]
            /\ left' = [left EXCEPT ![j] = 0]
            /\ cancels' = cancels \ {j}
       ELSE /\ left' = [left EXCEPT ![j] = @ - 1]
            /\ UNCHANGED <<disk, task, cancels>>
  /\ UNCHANGED <<status, path, broken, requestVars, historyVars>>
  /\ UNCHANGED <<mode, up, asking, reader, purging, crashes, faults>>

\* The stream is at its end: the zip replaces the raw file, and nobody looks at
\* cancels any more.
Complete(j) ==
  /\ task[j] = "writing"
  /\ left[j] = 0
  /\ task' = [task EXCEPT ![j] = "DONE"]
  /\ disk' = [disk EXCEPT ![j] = {"zip"}]
  /\ cancels' = cancels \ {j}
  /\ UNCHANGED <<status, path, left, broken, requestVars, historyVars>>
  /\ UNCHANGED <<mode, up, asking, reader, purging, crashes, faults>>

\* Mutant of RunFails: nothing catches the exception.
RunFailsUncaught(j) ==
  /\ task[j] = "writing"
  /\ Fault
  /\ Abandon(j)
  /\ disk' = [disk EXCEPT ![j] = {}]
  /\ cancels' = cancels \ {j}
  /\ UNCHANGED <<status, path, left, broken, requestVars, historyVars>>
  /\ UNCHANGED <<mode, up, asking, reader, purging, crashes>>

\* The try block raises: an I/O error, a failed query, or a progress commit that
\* finds the row purged.  After a failed query PostgreSQL refuses every further
\* statement of the transaction, and nobody rolls it back; SQLite does not mind.
RunFails(j) ==
  /\ task[j] = "writing"
  /\ IF status[j] = NoRow THEN UNCHANGED faults ELSE Fault
  /\ task' = [task EXCEPT ![j] = "FAILED"]
  /\ broken' \in {broken, broken \cup {j}}
  /\ disk' = [disk EXCEPT ![j] = {}]
  /\ left' = [left EXCEPT ![j] = 0]
  /\ cancels' = cancels \ {j}
  /\ UNCHANGED <<status, path, requestVars, historyVars>>
  /\ UNCHANGED <<mode, up, asking, reader, purging, crashes>>

Settling(j) == task[j] \in {"DONE", "FAILED", "CANCELLED"}

\* The last commit.  On a purged row it raises, which changes nothing.
Settle(j) ==
  /\ Settling(j)
  /\ j \notin broken
  /\ Abandon(j)
  /\ IF status[j] = NoRow
       THEN UNCHANGED <<status, path>>
       ELSE /\ status' = [status EXCEPT ![j] = task[j]]
            /\ path' = [path EXCEPT ![j] = task[j] = "DONE"]
  /\ UNCHANGED <<disk, left, broken, requestVars, historyVars>>
  /\ UNCHANGED <<mode, up, cancels, asking, reader, purging, crashes, faults>>

\* The last commit raises, and there is nothing around it that would notice.
SettleFails(j) ==
  /\ Settling(j)
  /\ IF j \in broken THEN UNCHANGED faults ELSE Fault
  /\ Abandon(j)
  /\ broken' = broken \ {j}
  /\ stuck' = stuck \cup {j}
  /\ UNCHANGED <<storeVars, left, requestVars, inTime, interrupted, overtaken, answered>>
  /\ UNCHANGED <<mode, up, cancels, asking, reader, purging, crashes>>

-----------------------------------------------------------------------------
(* Cancelling.                                                             *)

\* POST .../cancel reads the row and finds the job active ...
AskCancel(j) ==
  /\ up
  /\ Active(j)
  /\ asking' = asking \cup {j}
  /\ UNCHANGED <<storeVars, taskVars, requestVars, historyVars>>
  /\ UNCHANGED <<mode, up, cancels, reader, purging, crashes, faults>>

\* run_job will look at cancels again: before it runs, or after a chunk.
CheckAhead(j) ==
  \/ \E q \in Requests : request[q] = j
  \/ task[j] = "queued"
  \/ task[j] \in {"toRun", "writing"} /\ left[j] > 0

\* ... and, by the time it goes on, the job may have moved on.
Cancel(j) ==
  /\ j \in asking
  /\ asking' = asking \ {j}
  /\ cancels' = cancels \cup {j}
  /\ inTime' = IF CheckAhead(j) THEN inTime \cup {j} ELSE inTime
  /\ UNCHANGED <<storeVars, taskVars, requestVars, stuck, interrupted, overtaken, answered>>
  /\ UNCHANGED <<mode, up, reader, purging, crashes, faults>>

-----------------------------------------------------------------------------
(* Downloading.                                                            *)

Move(r, at) == reader' = [reader EXCEPT ![r].at = at]

Leave(r) == reader' = [reader EXCEPT ![r] = Away]

\* GET .../download finds the job done and its file listed.
Admit(r, j) ==
  /\ up
  /\ reader[r] = Away
  /\ status[j] = "DONE" /\ path[j]
  /\ reader' = [reader EXCEPT ![r] = [at |-> "recording", job |-> j]]
  /\ UNCHANGED <<storeVars, taskVars, requestVars, historyVars>>
  /\ UNCHANGED <<mode, up, cancels, asking, purging, crashes, faults>>

\* record_download() commits the audit entry and downloaded_at.
Record(r) ==
  /\ reader[r].at = "recording"
  /\ Move(r, "opening")
  /\ UNCHANGED <<storeVars, taskVars, requestVars, historyVars>>
  /\ UNCHANGED <<mode, up, cancels, asking, purging, crashes, faults>>

\* It raises, or the row it would update was purged.
RecordFails(r) ==
  /\ reader[r].at = "recording"
  /\ IF status[reader[r].job] = NoRow THEN UNCHANGED faults ELSE Fault
  /\ Leave(r)
  /\ UNCHANGED <<storeVars, taskVars, requestVars, historyVars>>
  /\ UNCHANGED <<mode, up, cancels, asking, purging, crashes>>

\* FileResponse opens the file, which may be gone since the row was read.
Open(r) ==
  /\ reader[r].at = "opening"
  /\ IF "zip" \in disk[reader[r].job] THEN Move(r, "serving") ELSE Leave(r)
  /\ UNCHANGED <<storeVars, taskVars, requestVars, historyVars>>
  /\ UNCHANGED <<mode, up, cancels, asking, purging, crashes, faults>>

\* The response ends and its background task runs: FileResponse does not notice
\* whether the client has hung up or has asked for a part of the file only.
Served(r) ==
  /\ reader[r].at = "serving"
  /\ Move(r, "cleanup")
  /\ answered' = answered \cup {reader[r].job}
  /\ UNCHANGED <<storeVars, taskVars, requestVars, inTime, stuck, interrupted, overtaken>>
  /\ UNCHANGED <<mode, up, cancels, asking, purging, crashes, faults>>

\* Mutant of Cleanup: the deletion does not wait for the response to end.
CleanupEarly(r) ==
  LET j == reader[r].job
  IN  /\ reader[r].at \in {"serving", "cleanup"}
      /\ IF mode = "AFTER_DOWNLOAD" /\ status[j] # NoRow /\ path[j]
           THEN disk' = [disk EXCEPT ![j] = @ \ {"zip"}] /\ Move(r, "deleting")
           ELSE UNCHANGED disk /\ Leave(r)
      /\ UNCHANGED <<status, path, taskVars, requestVars, historyVars>>
      /\ UNCHANGED <<mode, up, cancels, asking, purging, crashes, faults>>

\* delete_file_if_after_download_mode() reads the settings and the row afresh and
\* unlinks the file before it commits that there is none.
Cleanup(r) ==
  LET j == reader[r].job
  IN  /\ reader[r].at = "cleanup"
      /\ IF mode = "AFTER_DOWNLOAD" /\ status[j] # NoRow /\ path[j]
           THEN disk' = [disk EXCEPT ![j] = @ \ {"zip"}] /\ Move(r, "deleting")
           ELSE UNCHANGED disk /\ Leave(r)
      /\ UNCHANGED <<status, path, taskVars, requestVars, historyVars>>
      /\ UNCHANGED <<mode, up, cancels, asking, purging, crashes, faults>>

DeleteCommit(r) ==
  /\ reader[r].at = "deleting"
  /\ path' = [path EXCEPT ![reader[r].job] = FALSE]
  /\ Leave(r)
  /\ UNCHANGED <<status, disk, taskVars, requestVars, historyVars>>
  /\ UNCHANGED <<mode, up, cancels, asking, purging, crashes, faults>>

DeleteFails(r) ==
  /\ reader[r].at = "deleting"
  /\ Fault
  /\ interrupted' = interrupted \cup {reader[r].job}
  /\ Leave(r)
  /\ UNCHANGED <<storeVars, taskVars, requestVars, inTime, stuck, overtaken, answered>>
  /\ UNCHANGED <<mode, up, cancels, asking, purging, crashes>>

-----------------------------------------------------------------------------
(* Purging, and the settings.                                              *)

SetMode ==
  /\ up
  /\ mode' \in {"TIME_BASED", "AFTER_DOWNLOAD"} \ {mode}
  /\ UNCHANGED <<storeVars, taskVars, requestVars, historyVars>>
  /\ UNCHANGED <<up, cancels, asking, reader, purging, crashes, faults>>

\* purge_old_jobs(): the rows older than the cutoff, whatever their status; their
\* files are unlinked, the deletion of the rows waits for the caller's commit.
PurgeRead ==
  /\ up
  /\ purging = {}
  /\ mode = "TIME_BASED"
  /\ \E newest \in Jobs :
       LET old == {j \in 1..newest : status[j] # NoRow}
       IN  /\ old # {}
           /\ purging' = old
           /\ disk' = [j \in Jobs |-> IF j \in old /\ path[j] THEN disk[j] \ {"zip"} ELSE disk[j]]
           /\ overtaken' = overtaken \cup {j \in old : Active(j)}
  /\ UNCHANGED <<status, path, taskVars, requestVars, inTime, stuck, interrupted, answered>>
  /\ UNCHANGED <<mode, up, cancels, asking, reader, crashes, faults>>

PurgeCommit ==
  /\ purging # {}
  /\ status' = [j \in Jobs |-> IF j \in purging THEN NoRow ELSE status[j]]
  /\ path' = [j \in Jobs |-> IF j \in purging THEN FALSE ELSE path[j]]
  /\ purging' = {}
  /\ answered' = answered \ purging
  /\ interrupted' = interrupted \ purging
  /\ UNCHANGED <<disk, taskVars, requestVars, inTime, stuck, overtaken>>
  /\ UNCHANGED <<mode, up, cancels, asking, reader, crashes, faults>>

\* The retention job's transaction does not commit, for whatever reason.
PurgeFails ==
  /\ purging # {}
  /\ Fault
  /\ interrupted' = interrupted \cup purging
  /\ purging' = {}
  /\ UNCHANGED <<storeVars, taskVars, requestVars, inTime, stuck, overtaken, answered>>
  /\ UNCHANGED <<mode, up, cancels, asking, reader, crashes>>

-----------------------------------------------------------------------------
(* The process.                                                            *)

\* The jobs whose file is unlinked and whose row does not say so yet.
Deleting == purging \cup {reader[r].job : r \in {r \in Readers : reader[r].at = "deleting"}}

\* The process ends, by a crash or by a stop, which does not wait for exports.
\* It may end while a zip is being written.
Crash ==
  /\ up
  /\ crashes < MaxCrash
  /\ crashes' = crashes + 1
  /\ up' = FALSE
  /\ \E zipping \in SUBSET {j \in Jobs : task[j] = "writing" /\ left[j] = 0} :
       disk' = [j \in Jobs |-> IF j \in zipping THEN disk[j] \cup {"zip"} ELSE disk[j]]
  /\ task' = [j \in Jobs |-> "none"]
  /\ left' = [j \in Jobs |-> 0]
  /\ broken' = {}
  /\ cancels' = {}
  /\ asking' = {}
  /\ request' = [q \in Requests |-> Idle]
  /\ reader' = [r \in Readers |-> Away]
  /\ interrupted' = interrupted \cup Deleting
  /\ purging' = {}
  /\ UNCHANGED <<status, path, mode, created, inTime, stuck, overtaken, answered, faults>>

\* Mutant of Start: the query forgets to select the active jobs.
StartUnselective ==
  /\ ~up
  /\ up' = TRUE
  /\ status' = [j \in Jobs |-> IF Active(j) THEN "FAILED" ELSE status[j]]
  /\ disk' = [j \in Jobs |-> {}]
  /\ stuck' = {}
  /\ UNCHANGED <<path, taskVars, requestVars, inTime, interrupted, overtaken, answered>>
  /\ UNCHANGED <<mode, cancels, asking, reader, purging, crashes, faults>>

\* reconcile_orphaned_jobs(), before the first request.
Start ==
  /\ ~up
  /\ up' = TRUE
  /\ status' = [j \in Jobs |-> IF Active(j) THEN "FAILED" ELSE status[j]]
  /\ disk' = [j \in Jobs |-> IF Active(j) THEN {} ELSE disk[j]]
  /\ stuck' = {}
  /\ UNCHANGED <<path, taskVars, requestVars, inTime, interrupted, overtaken, answered>>
  /\ UNCHANGED <<mode, cancels, asking, reader, purging, crashes, faults>>

Next ==
  \/ \E q \in Requests :
       CheckLimit(q) \/ CreateJob(q) \/ CreateFails(q) \/ StartTask(q) \/ RefreshFails(q)
  \/ \E j \in Jobs :
       \/ RunBegin(j) \/ Running(j) \/ RunningFails(j)
       \/ Checkpoint(j) \/ Complete(j) \/ RunFails(j) \/ Settle(j) \/ SettleFails(j)
       \/ AskCancel(j) \/ Cancel(j)
       \/ \E r \in Readers : Admit(r, j)
  \/ \E r \in Readers :
       \/ Record(r) \/ RecordFails(r) \/ Open(r) \/ Served(r)
       \/ Cleanup(r) \/ DeleteCommit(r) \/ DeleteFails(r)
  \/ SetMode \/ PurgeRead \/ PurgeCommit \/ PurgeFails
  \/ Crash \/ Start

Spec == Init /\ [][Next]_vars

\* The event loop runs its tasks, and a supervisor restarts the process.  No
\* request, download, purge or fault has to happen.
Fairness ==
  /\ \A q \in Requests : WF_vars(StartTask(q) \/ RefreshFails(q))
  /\ \A j \in Jobs :
       /\ WF_vars(RunBegin(j))
       /\ WF_vars(Running(j) \/ RunningFails(j))
       /\ WF_vars(Checkpoint(j))
       /\ WF_vars(Complete(j))
       /\ WF_vars(Settle(j) \/ SettleFails(j))
  /\ WF_vars(PurgeCommit)
  /\ WF_vars(Start)

FairSpec == Spec /\ Fairness

-----------------------------------------------------------------------------
(* Properties.                                                             *)

\* The limit on active jobs is exceeded at most by the requests that were let in
\* together: a request counts before an await and creates its job after it.
LimitUpToRace ==
  Cardinality({j \in Jobs : Active(j)}) + Cardinality({q \in Requests : request[q] = Admitted})
    <= MaxConcurrent + Cardinality(Requests) - 1

\* A file the list offers for download is there, unless it is being deleted or
\* its deletion broke off after the unlink: no job's end, no restart and no
\* deletion of another job takes it away.
ListedFileExists ==
  \A j \in Jobs : path[j] => "zip" \in disk[j] \/ j \in Deleting \cup interrupted

\* No file is left behind that nothing will ever delete: its row lists it, its
\* job is active (and will be finished or reconciled), or the purge removed the
\* row of a job that was still running.
NoFileForgotten ==
  \A j \in Jobs : disk[j] # {} => path[j] \/ Active(j) \/ j \in overtaken

\* A finished job keeps its file until a response that sent it has ended, while
\* others may still be reading it, asking for it or changing the mode. Excepted
\* are the purge, which takes the file before its row, and a purge rolled back.
GoneOnlyIfAnswered ==
  \A j \in Jobs :
    status[j] = "DONE" /\ "zip" \notin disk[j] => j \in answered \cup purging \cup interrupted

\* A job cancelled before it began, or while it still had a chunk to write,
\* never becomes DONE.
CancelInTime == \A j \in inTime : status[j] # "DONE"

\* Every job ends, unless a commit failed that would have said so.
EventuallySettled ==
  \A j \in Jobs : Active(j) ~> (~Active(j) \/ j \in stuck)

-----------------------------------------------------------------------------
(* What the documentation says and the code does not keep.                 *)

\* tests/test_export_jobs.py:252-279: a job that raises in mid-stream is FAILED
\* afterwards.
MidStreamFailureIsMarked ==
  [][\A j \in Jobs :
       task[j] = "FAILED" /\ task'[j] = "none" /\ up' => status'[j] \in {"FAILED", NoRow}]_vars
=============================================================================
