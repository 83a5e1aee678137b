---------------------------- MODULE ExportProofs ----------------------------
(* Theorems about ExportJobs, for every number of jobs, requests, readers,  *)
(* chunks, crashes and faults, and every limit.                             *)
EXTENDS ExportJobs, TLAPS, FiniteSetTheorems

-----------------------------------------------------------------------------
(* The inductive invariant.                                                *)

\* Nothing goes on while the process is down.
DownInv ==
  ~up => /\ \A j \in Jobs : task[j] = "none"
         /\ \A q \in Requests : request[q] = Idle
         /\ \A r \in Readers : reader[r] = Away
         /\ purging = {}

\* A number that has not been given to a job yet.
Unused(j) ==
  /\ status[j] = NoRow /\ task[j] = "none" /\ disk[j] = {} /\ ~path[j]
  /\ j \notin purging /\ j \notin inTime

UnusedInv == \A j \in Jobs : j > created => Unused(j)

\* What the request that made a job knows of it before the task exists; no two
\* requests hold the same job.
RequestInv ==
  /\ \A q \in Requests, j \in Jobs : request[q] = j =>
       /\ j <= created
       /\ status[j] \in {"PENDING", NoRow}
       /\ task[j] = "none"
       /\ disk[j] = {}
  /\ \A q1, q2 \in Requests : request[q1] \in Jobs /\ request[q1] = request[q2] => q1 = q2

\* The row and the files of a job whose task runs.
TaskInv ==
  \A j \in Jobs : task[j] # "none" =>
    /\ j <= created
    /\ Active(j) \/ status[j] = NoRow
    /\ status[j] = NoRow => j \in overtaken
    /\ task[j] \in {"queued", "toRun", "FAILED", "CANCELLED"} => disk[j] = {}
    /\ task[j] = "DONE" => disk[j] = {"zip"}

\* Only a finished job lists a file, and it has no other.
PathInv == \A j \in Jobs : path[j] => status[j] = "DONE" /\ disk[j] \subseteq {"zip"}

\* Nobody works on the job, and nobody will.
Over(j) ==
  /\ j \in 1..created
  /\ ~Active(j)
  /\ task[j] = "none"
  /\ \A q \in Requests : request[q] # j

PurgeInv == \A j \in purging : j \in overtaken \/ (Over(j) /\ disk[j] = {})

ReaderInv ==
  \A r \in Readers : reader[r].at # "idle" =>
    /\ reader[r].job \in Jobs
    /\ Over(reader[r].job)
    /\ reader[r].at = "deleting" => disk[reader[r].job] = {}
    /\ reader[r].at \in {"cleanup", "deleting"} =>
         reader[r].job \in answered \/ status[reader[r].job] = NoRow

\* A cancellation in time is pending until the job looks at it.
CancelInv ==
  \A j \in inTime :
    /\ status[j] # "DONE"
    /\ task[j] # "DONE"
    /\ task[j] \in {"toRun", "writing"} => left[j] > 0
    /\ CheckAhead(j) => j \in cancels

IInv ==
  /\ StoreTypeOK /\ TaskTypeOK /\ CallTypeOK /\ HistoryTypeOK
  /\ DownInv /\ UnusedInv /\ RequestInv /\ TaskInv /\ PathInv
  /\ PurgeInv /\ ReaderInv /\ CancelInv
  /\ ListedFileExists /\ NoFileForgotten /\ GoneOnlyIfAnswered

-----------------------------------------------------------------------------
(* The steps.  Conjuncts whose variables an action leaves alone come last.  *)

(* Creating a job. *)

\* A request that is let in holds no job yet.
LEMMA CheckLimitStep ==
  ASSUME IInv, NEW q \in Requests, CheckLimit(q)
  PROVE  IInv'
<1>1. CallTypeOK'
  BY DEF IInv, CallTypeOK, CheckLimit
<1>2. DownInv'
  BY DEF IInv, DownInv, CheckLimit
<1>3. RequestInv'
  BY DEF IInv, RequestInv, CheckLimit, storeVars, taskVars, Jobs, Admitted
<1>4. PurgeInv'
  BY DEF IInv, PurgeInv, Over, CheckLimit, storeVars, taskVars, historyVars, Admitted,
       Active
<1>5. ReaderInv'
  BY DEF IInv, ReaderInv, Over, CheckLimit, storeVars, taskVars, historyVars, Admitted,
       Active
<1>6. CancelInv'
  BY DEF IInv, HistoryTypeOK, CancelInv, CheckLimit, storeVars, taskVars, historyVars,
       Jobs, Admitted, CheckAhead
<1>7. StoreTypeOK' /\ TaskTypeOK' /\ HistoryTypeOK'
  BY DEF IInv, StoreTypeOK, TaskTypeOK, HistoryTypeOK, CheckLimit, storeVars, taskVars,
       historyVars
<1>8. UnusedInv' /\ TaskInv' /\ PathInv' /\ ListedFileExists' /\ NoFileForgotten' /\
     GoneOnlyIfAnswered'
  BY DEF IInv, UnusedInv, TaskInv, PathInv, ListedFileExists, NoFileForgotten,
       GoneOnlyIfAnswered, Unused, CheckLimit, storeVars, taskVars, historyVars, Active,
       Deleting
<1> QED BY <1>1, <1>2, <1>3, <1>4, <1>5, <1>6, <1>7, <1>8 DEF IInv

\* The new job is a number that nobody has used: UnusedInv.
LEMMA CreateJobStep ==
  ASSUME IInv, NEW q \in Requests, CreateJob(q)
  PROVE  IInv'
<1>1. StoreTypeOK'
  BY DEF IInv, StoreTypeOK, HistoryTypeOK, CreateJob, Jobs
<1>2. CallTypeOK'
  BY ExportAssumption DEF IInv, CallTypeOK, HistoryTypeOK, CreateJob, Jobs
<1>3. HistoryTypeOK'
  BY ExportAssumption DEF IInv, HistoryTypeOK, CreateJob, historyVars
<1>4. DownInv'
  BY DEF IInv, DownInv, CreateJob, Idle, Admitted
<1>5. UnusedInv'
  BY DEF IInv, HistoryTypeOK, UnusedInv, Unused, CreateJob, taskVars, historyVars, Jobs
<1>6. RequestInv'
  BY DEF IInv, StoreTypeOK, HistoryTypeOK, UnusedInv, RequestInv, Unused, CreateJob,
       taskVars, Jobs
<1>7. TaskInv'
  BY ExportAssumption DEF IInv, HistoryTypeOK, TaskInv, CreateJob, taskVars, historyVars,
       Jobs, Active
<1>8. PathInv'
  BY DEF IInv, HistoryTypeOK, UnusedInv, PathInv, Unused, CreateJob
<1>9. PurgeInv'
  BY DEF IInv, HistoryTypeOK, PurgeInv, Over, CreateJob, taskVars, historyVars, Active
<1>10. ReaderInv'
  BY DEF IInv, HistoryTypeOK, ReaderInv, Over, CreateJob, taskVars, historyVars, Active
<1>11. CancelInv'
  <2>1. \A i \in inTime : i \in Jobs /\ i # created + 1
    BY DEF IInv, HistoryTypeOK, UnusedInv, Unused, CreateJob, Jobs
  <2>2. \A i \in Jobs : i # created + 1 => status'[i] = status[i]
    BY DEF IInv, StoreTypeOK, CreateJob
  <2>3. \A i \in inTime : CheckAhead(i)' => CheckAhead(i)
    BY <2>1 DEF IInv, CallTypeOK, CreateJob, CheckAhead, taskVars
  <2>4. UNCHANGED <<inTime, task, left, cancels>>
    BY DEF CreateJob, taskVars, historyVars
  <2> QED BY <2>1, <2>2, <2>3, <2>4 DEF IInv, CancelInv
<1>12. NoFileForgotten'
  BY DEF IInv, NoFileForgotten, CreateJob, historyVars, Active
<1>13. GoneOnlyIfAnswered'
  BY DEF IInv, GoneOnlyIfAnswered, CreateJob, historyVars
<1>14. TaskTypeOK'
  BY DEF IInv, TaskTypeOK, CreateJob, taskVars
<1>15. ListedFileExists'
  BY DEF IInv, ListedFileExists, CreateJob, historyVars, Deleting
<1> QED BY <1>1, <1>2, <1>3, <1>4, <1>5, <1>6, <1>7, <1>8, <1>9, <1>10, <1>11, <1>12,
     <1>13, <1>14, <1>15 DEF IInv

\* The request gives its admission back.
LEMMA CreateFailsStep ==
  ASSUME IInv, NEW q \in Requests, CreateFails(q)
  PROVE  IInv'
<1>1. CallTypeOK'
  BY DEF IInv, CallTypeOK, CreateFails
<1>2. HistoryTypeOK'
  BY ExportAssumption DEF IInv, HistoryTypeOK, CreateFails, historyVars, Fault
<1>3. DownInv'
  BY DEF IInv, DownInv, CreateFails, Idle, Admitted
<1>4. RequestInv'
  BY DEF IInv, RequestInv, CreateFails, storeVars, taskVars, Jobs, Idle
<1>5. PurgeInv'
  BY DEF IInv, PurgeInv, Over, CreateFails, storeVars, taskVars, historyVars, Idle, Active
<1>6. ReaderInv'
  BY DEF IInv, ReaderInv, Over, CreateFails, storeVars, taskVars, historyVars, Idle, Active
<1>7. CancelInv'
  BY DEF IInv, HistoryTypeOK, CancelInv, CreateFails, storeVars, taskVars, historyVars,
       Jobs, Idle, CheckAhead
<1>8. StoreTypeOK' /\ TaskTypeOK'
  BY DEF IInv, StoreTypeOK, TaskTypeOK, CreateFails, storeVars, taskVars
<1>9. UnusedInv' /\ TaskInv' /\ PathInv' /\ ListedFileExists' /\ NoFileForgotten' /\
     GoneOnlyIfAnswered'
  BY DEF IInv, UnusedInv, TaskInv, PathInv, ListedFileExists, NoFileForgotten,
       GoneOnlyIfAnswered, Unused, CreateFails, storeVars, taskVars, historyVars, Active,
       Deleting
<1> QED BY <1>1, <1>2, <1>3, <1>4, <1>5, <1>6, <1>7, <1>8, <1>9 DEF IInv

\* By RequestInv the row is PENDING, and no other request holds the job.
LEMMA StartTaskStep ==
  ASSUME IInv, NEW q \in Requests, StartTask(q)
  PROVE  IInv'
<1>1. TaskTypeOK'
  BY DEF IInv, TaskTypeOK, StartTask
<1>2. CallTypeOK'
  BY DEF IInv, CallTypeOK, StartTask
<1>3. DownInv'
  BY DEF IInv, DownInv, StartTask, Jobs, Idle
<1>4. UnusedInv'
  BY DEF IInv, UnusedInv, Unused, StartTask, storeVars, historyVars
<1>5. RequestInv'
  BY DEF IInv, CallTypeOK, RequestInv, StartTask, storeVars, Jobs, Idle
<1>6. TaskInv'
  BY DEF IInv, RequestInv, TaskInv, StartTask, storeVars, historyVars, Active
<1>7. PurgeInv'
  BY DEF IInv, PurgeInv, Over, StartTask, storeVars, historyVars, Idle, Active
<1>8. ReaderInv'
  BY DEF IInv, ReaderInv, Over, StartTask, storeVars, historyVars, Idle, Active
<1>9. CancelInv'
  BY DEF IInv, HistoryTypeOK, CancelInv, StartTask, storeVars, historyVars, Jobs, Idle,
       CheckAhead
<1>10. StoreTypeOK' /\ HistoryTypeOK'
  BY DEF IInv, StoreTypeOK, HistoryTypeOK, StartTask, storeVars, historyVars
<1>11. PathInv' /\ ListedFileExists' /\ NoFileForgotten' /\ GoneOnlyIfAnswered'
  BY DEF IInv, PathInv, ListedFileExists, NoFileForgotten, GoneOnlyIfAnswered, StartTask,
       storeVars, historyVars, Active, Deleting
<1> QED BY <1>1, <1>2, <1>3, <1>4, <1>5, <1>6, <1>7, <1>8, <1>9, <1>10, <1>11 DEF IInv

\* The row stays PENDING without a task.
LEMMA RefreshFailsStep ==
  ASSUME IInv, NEW q \in Requests, RefreshFails(q)
  PROVE  IInv'
<1>1. CallTypeOK'
  BY DEF IInv, CallTypeOK, RefreshFails
<1>2. HistoryTypeOK'
  <2>1. faults' \in 0..MaxFault
    BY ExportAssumption DEF IInv, HistoryTypeOK, RefreshFails, Fault
  <2>2. stuck' \in SUBSET Jobs
    BY DEF IInv, HistoryTypeOK, RefreshFails
  <2>3. UNCHANGED <<created, inTime, interrupted, overtaken, answered, crashes>>
    BY DEF RefreshFails
  <2> QED BY <2>1, <2>2, <2>3 DEF IInv, HistoryTypeOK
<1>3. DownInv'
  BY DEF IInv, DownInv, RefreshFails, Jobs, Idle
<1>4. RequestInv'
  BY DEF IInv, RequestInv, RefreshFails, storeVars, taskVars, Jobs, Idle
<1>5. PurgeInv'
  BY DEF IInv, PurgeInv, Over, RefreshFails, storeVars, taskVars, Idle, Active
<1>6. ReaderInv'
  BY DEF IInv, ReaderInv, Over, RefreshFails, storeVars, taskVars, Idle, Active
<1>7. CancelInv'
  BY DEF IInv, HistoryTypeOK, CancelInv, RefreshFails, storeVars, taskVars, Jobs, Idle,
       CheckAhead
<1>8. StoreTypeOK' /\ TaskTypeOK'
  BY DEF IInv, StoreTypeOK, TaskTypeOK, RefreshFails, storeVars, taskVars
<1>9. UnusedInv' /\ TaskInv' /\ PathInv' /\ ListedFileExists' /\ NoFileForgotten' /\
     GoneOnlyIfAnswered'
  BY DEF IInv, UnusedInv, TaskInv, PathInv, ListedFileExists, NoFileForgotten,
       GoneOnlyIfAnswered, Unused, RefreshFails, storeVars, taskVars, Active, Deleting
<1> QED BY <1>1, <1>2, <1>3, <1>4, <1>5, <1>6, <1>7, <1>8, <1>9 DEF IInv

(* run_job. *)

\* A pending cancellation leaves cancels, but the task remembers it.
LEMMA RunBeginStep ==
  ASSUME IInv, NEW j \in Jobs, RunBegin(j)
  PROVE  IInv'
<1>1. TaskTypeOK'
  <2>1. left' \in [Jobs -> 0..MaxChunk]
    BY DEF IInv, TaskTypeOK, RunBegin
  <2>2. task' \in [Jobs -> {"none", "queued", "toRun", "writing", "DONE", "FAILED", "CANCELLED"}]
    BY DEF IInv, TaskTypeOK, RunBegin
  <2>3. cancels' \in SUBSET Jobs /\ UNCHANGED <<up, broken, asking>>
    BY DEF IInv, TaskTypeOK, RunBegin
  <2> QED BY <2>1, <2>2, <2>3 DEF TaskTypeOK, IInv
<1>2. DownInv'
  BY DEF IInv, DownInv, RunBegin
<1>3. UnusedInv'
  BY DEF IInv, UnusedInv, Unused, RunBegin, storeVars, requestVars, historyVars
<1>4. RequestInv'
  BY DEF IInv, RequestInv, RunBegin, storeVars, requestVars
<1>5. TaskInv'
  BY DEF IInv, TaskInv, RunBegin, storeVars, requestVars, historyVars, Active
<1>6. PurgeInv'
  BY DEF IInv, PurgeInv, Over, RunBegin, storeVars, requestVars, historyVars, Active
<1>7. ReaderInv'
  BY DEF IInv, ReaderInv, Over, RunBegin, storeVars, requestVars, historyVars, Active
<1>8. CancelInv'
  BY DEF IInv, TaskTypeOK, RequestInv, CancelInv, RunBegin, storeVars, requestVars,
       historyVars, CheckAhead
<1>9. StoreTypeOK' /\ CallTypeOK' /\ HistoryTypeOK'
  BY DEF IInv, StoreTypeOK, CallTypeOK, HistoryTypeOK, RunBegin, storeVars, requestVars,
       historyVars
<1>10. PathInv' /\ ListedFileExists' /\ NoFileForgotten' /\ GoneOnlyIfAnswered'
  BY DEF IInv, PathInv, ListedFileExists, NoFileForgotten, GoneOnlyIfAnswered, RunBegin,
       storeVars, historyVars, Active, Deleting
<1> QED BY <1>1, <1>2, <1>3, <1>4, <1>5, <1>6, <1>7, <1>8, <1>9, <1>10 DEF IInv

\* A job that starts to write lists no file yet: PathInv.
LEMMA RunningStep ==
  ASSUME IInv, NEW j \in Jobs, Running(j)
  PROVE  IInv'
<1>1. StoreTypeOK'
  BY DEF IInv, StoreTypeOK, Running
<1>2. TaskTypeOK'
  BY DEF IInv, TaskTypeOK, Running
<1>3. DownInv'
  BY DEF IInv, DownInv, Running
<1>4. UnusedInv'
  BY DEF IInv, UnusedInv, Unused, Running, requestVars, historyVars
<1>5. RequestInv'
  BY DEF IInv, RequestInv, Running, requestVars
<1>6. TaskInv'
  BY DEF IInv, TaskTypeOK, TaskInv, Running, requestVars, historyVars, NoRow, Active
<1>7. PathInv'
  BY DEF IInv, TaskInv, PathInv, Running, Active
<1>8. PurgeInv'
  BY DEF IInv, PurgeInv, Over, Running, requestVars, historyVars, Active
<1>9. ReaderInv'
  BY DEF IInv, ReaderInv, Over, Running, requestVars, historyVars, Active
<1>10. CancelInv'
  BY DEF IInv, TaskTypeOK, CancelInv, Running, requestVars, historyVars, CheckAhead
<1>11. ListedFileExists'
  BY DEF IInv, ListedFileExists, Running, historyVars, Deleting
<1>12. NoFileForgotten'
  BY DEF IInv, StoreTypeOK, NoFileForgotten, Running, historyVars, Active
<1>13. GoneOnlyIfAnswered'
  BY DEF IInv, StoreTypeOK, GoneOnlyIfAnswered, Running, historyVars
<1>14. CallTypeOK' /\ HistoryTypeOK'
  BY DEF IInv, CallTypeOK, HistoryTypeOK, Running, requestVars, historyVars
<1> QED BY <1>1, <1>2, <1>3, <1>4, <1>5, <1>6, <1>7, <1>8, <1>9, <1>10, <1>11, <1>12,
     <1>13, <1>14 DEF IInv

\* The task ends before it has written a file.
LEMMA RunningFailsStep ==
  ASSUME IInv, NEW j \in Jobs, RunningFails(j)
  PROVE  IInv'
<1>1. TaskTypeOK'
  BY ExportAssumption DEF IInv, TaskTypeOK, RunningFails, Abandon
<1>2. HistoryTypeOK'
  BY ExportAssumption DEF IInv, HistoryTypeOK, RunningFails, requestVars, Fault
<1>3. DownInv'
  BY DEF IInv, DownInv, RunningFails
<1>4. UnusedInv'
  BY DEF IInv, UnusedInv, Unused, RunningFails, storeVars, requestVars, Abandon
<1>5. RequestInv'
  BY DEF IInv, RequestInv, RunningFails, storeVars, requestVars, Abandon
<1>6. TaskInv'
  BY DEF IInv, TaskInv, RunningFails, storeVars, requestVars, Active, Abandon
<1>7. PurgeInv'
  BY DEF IInv, PurgeInv, Over, RunningFails, storeVars, requestVars, Active, Abandon
<1>8. ReaderInv'
  BY DEF IInv, ReaderInv, Over, RunningFails, storeVars, requestVars, Active, Abandon
<1>9. CancelInv'
  <2>1. \A i \in Jobs : CheckAhead(i)' => i # j /\ CheckAhead(i)
    BY DEF IInv, TaskTypeOK, RequestInv, RunningFails, requestVars, Abandon, CheckAhead
  <2>2. \A i \in Jobs : i # j => task'[i] = task[i] /\ left'[i] = left[i]
    BY DEF IInv, TaskTypeOK, RunningFails, Abandon
  <2>3. task'[j] = "none" /\ inTime \in SUBSET Jobs
    BY DEF IInv, TaskTypeOK, HistoryTypeOK, RunningFails, Abandon
  <2>4. UNCHANGED <<inTime, status, cancels>>
    BY DEF RunningFails, storeVars
  <2> QED BY <2>1, <2>2, <2>3, <2>4 DEF IInv, CancelInv
<1>10. StoreTypeOK' /\ CallTypeOK'
  BY DEF IInv, StoreTypeOK, CallTypeOK, RunningFails, storeVars, requestVars
<1>11. PathInv' /\ ListedFileExists' /\ NoFileForgotten' /\ GoneOnlyIfAnswered'
  BY DEF IInv, PathInv, ListedFileExists, NoFileForgotten, GoneOnlyIfAnswered, RunningFails,
       storeVars, Active, Deleting
<1> QED BY <1>1, <1>2, <1>3, <1>4, <1>5, <1>6, <1>7, <1>8, <1>9, <1>10, <1>11 DEF IInv

\* A cancelled task removes its files; one that goes on was not cancelled in time.
LEMMA CheckpointStep ==
  ASSUME IInv, NEW j \in Jobs, Checkpoint(j)
  PROVE  IInv'
<1>1. StoreTypeOK'
  BY DEF IInv, StoreTypeOK, Checkpoint
<1>2. TaskTypeOK'
  <2>1. left[j] \in 0..MaxChunk /\ left[j] > 0
    BY DEF IInv, TaskTypeOK, Checkpoint
  <2>2. 0 \in 0..MaxChunk /\ left[j] - 1 \in 0..MaxChunk
    BY <2>1, ExportAssumption
  <2>3. left' \in [Jobs -> 0..MaxChunk]
    BY <2>2 DEF IInv, TaskTypeOK, Checkpoint
  <2>4. task' \in [Jobs -> {"none", "queued", "toRun", "writing", "DONE", "FAILED", "CANCELLED"}]
    BY DEF IInv, TaskTypeOK, Checkpoint
  <2>5. cancels' \in SUBSET Jobs /\ UNCHANGED <<up, broken, asking>>
    BY DEF IInv, TaskTypeOK, Checkpoint
  <2> QED BY <2>3, <2>4, <2>5 DEF IInv, TaskTypeOK
<1>3. DownInv'
  BY DEF IInv, DownInv, Checkpoint
<1>4. UnusedInv'
  BY DEF IInv, StoreTypeOK, TaskTypeOK, UnusedInv, Unused, Checkpoint, requestVars,
       historyVars
<1>5. RequestInv'
  BY DEF IInv, StoreTypeOK, TaskTypeOK, RequestInv, Checkpoint, requestVars
<1>6. TaskInv'
  BY DEF IInv, StoreTypeOK, TaskTypeOK, TaskInv, Checkpoint, requestVars, historyVars,
       Active
<1>7. PathInv'
  BY DEF IInv, StoreTypeOK, PathInv, Checkpoint
<1>8. PurgeInv'
  BY DEF IInv, StoreTypeOK, TaskTypeOK, CallTypeOK, PurgeInv, Over, Checkpoint,
       requestVars, historyVars, Active
<1>9. ReaderInv'
  BY DEF IInv, StoreTypeOK, TaskTypeOK, ReaderInv, Over, Checkpoint, requestVars,
       historyVars, Active
<1>10. CancelInv'
  BY DEF IInv, TaskTypeOK, HistoryTypeOK, RequestInv, CancelInv, Checkpoint, requestVars,
       historyVars, CheckAhead
<1>11. ListedFileExists'
  BY DEF IInv, StoreTypeOK, TaskInv, PathInv, ListedFileExists, Checkpoint, historyVars,
       NoRow, Active, Deleting
<1>12. NoFileForgotten'
  BY DEF IInv, StoreTypeOK, NoFileForgotten, Checkpoint, historyVars, Active
<1>13. CallTypeOK' /\ HistoryTypeOK'
  BY DEF IInv, CallTypeOK, HistoryTypeOK, Checkpoint, requestVars, historyVars
<1>14. GoneOnlyIfAnswered'
  BY DEF IInv, StoreTypeOK, TaskInv, GoneOnlyIfAnswered, Checkpoint, historyVars, Active, NoRow
<1> QED BY <1>1, <1>2, <1>3, <1>4, <1>5, <1>6, <1>7, <1>8, <1>9, <1>10, <1>11, <1>12,
     <1>13, <1>14 DEF IInv

\* No cancellation in time is pending when nothing is left to write: CancelInv.
LEMMA CompleteStep ==
  ASSUME IInv, NEW j \in Jobs, Complete(j)
  PROVE  IInv'
<1>1. StoreTypeOK'
  BY DEF IInv, StoreTypeOK, Complete
<1>2. TaskTypeOK'
  BY DEF IInv, TaskTypeOK, Complete
<1>3. DownInv'
  BY DEF IInv, DownInv, Complete
<1>4. UnusedInv'
  <2>1. \A i \in Jobs : i > created => i # j
    BY DEF IInv, UnusedInv, Unused, Complete
  <2>2. \A i \in Jobs : i # j => task'[i] = task[i] /\ disk'[i] = disk[i]
    BY DEF IInv, StoreTypeOK, TaskTypeOK, Complete
  <2>3. UNCHANGED <<created, status, path, purging, inTime>>
    BY DEF Complete, requestVars, historyVars
  <2> QED BY <2>1, <2>2, <2>3 DEF IInv, UnusedInv, Unused
<1>5. RequestInv'
  BY DEF IInv, RequestInv, Complete, requestVars
<1>6. TaskInv'
  BY DEF IInv, StoreTypeOK, TaskInv, Complete, requestVars, historyVars, Active
<1>7. PathInv'
  BY DEF IInv, PathInv, Complete
<1>8. PurgeInv'
  BY DEF IInv, PurgeInv, Over, Complete, requestVars, historyVars, Active
<1>9. ReaderInv'
  BY DEF IInv, ReaderInv, Over, Complete, requestVars, historyVars, Active
<1>10. CancelInv'
  BY DEF IInv, CancelInv, Complete, requestVars, historyVars, CheckAhead
<1>11. ListedFileExists'
  BY DEF IInv, ListedFileExists, Complete, historyVars, Deleting
<1>12. NoFileForgotten'
  BY DEF IInv, TaskInv, NoFileForgotten, Complete, historyVars, Active
<1>13. CallTypeOK' /\ HistoryTypeOK'
  BY DEF IInv, CallTypeOK, HistoryTypeOK, Complete, requestVars, historyVars
<1>14. GoneOnlyIfAnswered'
  BY DEF IInv, StoreTypeOK, TaskInv, GoneOnlyIfAnswered, Complete, historyVars, Active, NoRow
<1> QED BY <1>1, <1>2, <1>3, <1>4, <1>5, <1>6, <1>7, <1>8, <1>9, <1>10, <1>11, <1>12,
     <1>13, <1>14 DEF IInv

\* A failed task removes its files.
LEMMA RunFailsStep ==
  ASSUME IInv, NEW j \in Jobs, RunFails(j)
  PROVE  IInv'
<1>1. StoreTypeOK'
  BY DEF IInv, StoreTypeOK, RunFails
<1>2. TaskTypeOK'
  BY ExportAssumption DEF IInv, TaskTypeOK, RunFails
<1>3. HistoryTypeOK'
  BY ExportAssumption DEF IInv, HistoryTypeOK, RunFails, requestVars, historyVars, Fault
<1>4. DownInv'
  BY DEF IInv, DownInv, RunFails
<1>5. UnusedInv'
  BY DEF IInv, UnusedInv, Unused, RunFails, requestVars, historyVars
<1>6. RequestInv'
  BY DEF IInv, RequestInv, RunFails, requestVars
<1>7. TaskInv'
  BY DEF IInv, StoreTypeOK, TaskInv, RunFails, requestVars, historyVars, Active
<1>8. PathInv'
  BY DEF IInv, PathInv, RunFails
<1>9. PurgeInv'
  BY DEF IInv, PurgeInv, Over, RunFails, requestVars, historyVars, Active
<1>10. ReaderInv'
  BY DEF IInv, ReaderInv, Over, RunFails, requestVars, historyVars, Active
<1>11. CancelInv'
  BY DEF IInv, TaskTypeOK, RequestInv, CancelInv, RunFails, requestVars, historyVars,
       CheckAhead
<1>12. ListedFileExists'
  BY DEF IInv, TaskInv, PathInv, ListedFileExists, RunFails, historyVars, NoRow, Active,
       Deleting
<1>13. NoFileForgotten'
  BY DEF IInv, NoFileForgotten, RunFails, historyVars, Active
<1>14. CallTypeOK'
  BY DEF IInv, CallTypeOK, RunFails, requestVars
<1>15. GoneOnlyIfAnswered'
  BY DEF IInv, StoreTypeOK, TaskInv, GoneOnlyIfAnswered, RunFails, historyVars, Active, NoRow
<1> QED BY <1>1, <1>2, <1>3, <1>4, <1>5, <1>6, <1>7, <1>8, <1>9, <1>10, <1>11, <1>12,
     <1>13, <1>14, <1>15 DEF IInv

\* By TaskInv the files are what the committed status says of them.
LEMMA SettleStep ==
  ASSUME IInv, NEW j \in Jobs, Settle(j)
  PROVE  IInv'
<1>1. StoreTypeOK'
  <2>1. CASE status[j] = NoRow
    BY <2>1 DEF IInv, StoreTypeOK, Settle
  <2>2. CASE status[j] # NoRow
    <3>1. /\ task[j] \in {"DONE", "FAILED", "CANCELLED"}
          /\ status' = [status EXCEPT ![j] = task[j]]
          /\ path' = [path EXCEPT ![j] = (task[j] = "DONE")]
          /\ UNCHANGED <<disk, mode>>
      BY <2>2 DEF Settle, Settling
    <3>2. path' \in [Jobs -> BOOLEAN]
      BY <3>1 DEF IInv, StoreTypeOK
    <3>3. status' \in [Jobs -> {NoRow, "PENDING", "RUNNING", "DONE", "FAILED", "CANCELLED"}]
      BY <3>1 DEF IInv, StoreTypeOK
    <3> QED BY <3>1, <3>2, <3>3 DEF IInv, StoreTypeOK
  <2> QED BY <2>1, <2>2
<1>2. TaskTypeOK'
  BY DEF IInv, TaskTypeOK, Settle, Abandon
<1>3. DownInv'
  BY DEF IInv, DownInv, Settle, Settling
<1>4. UnusedInv'
  BY DEF IInv, StoreTypeOK, UnusedInv, Unused, Settle, requestVars, historyVars, Abandon
<1>5. RequestInv'
  <2>1. \A q \in Requests : request[q] # j
    BY DEF IInv, RequestInv, Settle, Settling
  <2>2. \A i \in Jobs : i # j => status'[i] = status[i] /\ task'[i] = task[i]
    BY DEF IInv, StoreTypeOK, TaskTypeOK, Settle, Abandon
  <2>3. UNCHANGED <<created, request, disk>>
    BY DEF Settle, requestVars
  <2> QED BY <2>1, <2>2, <2>3 DEF IInv, RequestInv
<1>6. TaskInv'
  BY DEF IInv, StoreTypeOK, TaskTypeOK, TaskInv, Settle, requestVars, historyVars, Active,
       Abandon
<1>7. PathInv'
  BY DEF IInv, StoreTypeOK, UnusedInv, TaskInv, PathInv, PurgeInv, ListedFileExists,
       NoFileForgotten, Settle, Active, Settling
<1>8. PurgeInv'
  BY DEF IInv, StoreTypeOK, CallTypeOK, PurgeInv, Over, Settle, requestVars, historyVars,
       Active, Abandon
<1>9. ReaderInv'
  BY DEF IInv, StoreTypeOK, ReaderInv, Over, Settle, requestVars, historyVars, Active,
       Abandon
<1>10. CancelInv'
  BY DEF IInv, StoreTypeOK, HistoryTypeOK, CancelInv, Settle, requestVars, historyVars,
       Abandon, CheckAhead
<1>11. ListedFileExists'
  BY DEF IInv, StoreTypeOK, TaskInv, ListedFileExists, Settle, historyVars, Deleting
<1>12. NoFileForgotten'
  BY DEF IInv, StoreTypeOK, TaskTypeOK, DownInv, TaskInv, NoFileForgotten, Settle,
       historyVars, Active, Settling
<1>13. GoneOnlyIfAnswered'
  BY DEF IInv, StoreTypeOK, TaskInv, GoneOnlyIfAnswered, Settle, Settling, historyVars
<1>14. CallTypeOK' /\ HistoryTypeOK'
  BY DEF IInv, CallTypeOK, HistoryTypeOK, Settle, requestVars, historyVars
<1> QED BY <1>1, <1>2, <1>3, <1>4, <1>5, <1>6, <1>7, <1>8, <1>9, <1>10, <1>11, <1>12,
     <1>13, <1>14 DEF IInv

\* The files of the job stay under its active or purged row.
LEMMA SettleFailsStep ==
  ASSUME IInv, NEW j \in Jobs, SettleFails(j)
  PROVE  IInv'
<1>1. TaskTypeOK'
  BY DEF IInv, TaskTypeOK, SettleFails, Abandon
<1>2. HistoryTypeOK'
  BY ExportAssumption DEF IInv, HistoryTypeOK, SettleFails, requestVars, Fault
<1>3. DownInv'
  BY DEF IInv, DownInv, SettleFails, Settling
<1>4. UnusedInv'
  BY DEF IInv, UnusedInv, Unused, SettleFails, storeVars, requestVars, Abandon
<1>5. RequestInv'
  BY DEF IInv, RequestInv, SettleFails, storeVars, requestVars, Abandon
<1>6. TaskInv'
  BY DEF IInv, TaskInv, SettleFails, storeVars, requestVars, Active, Abandon
<1>7. PurgeInv'
  BY DEF IInv, PurgeInv, Over, SettleFails, storeVars, requestVars, Active, Abandon
<1>8. ReaderInv'
  BY DEF IInv, ReaderInv, Over, SettleFails, storeVars, requestVars, Active, Abandon
<1>9. CancelInv'
  BY DEF IInv, CancelInv, SettleFails, storeVars, requestVars, Abandon, CheckAhead
<1>10. StoreTypeOK' /\ CallTypeOK'
  BY DEF IInv, StoreTypeOK, CallTypeOK, SettleFails, storeVars, requestVars
<1>11. PathInv' /\ ListedFileExists' /\ NoFileForgotten' /\ GoneOnlyIfAnswered'
  BY DEF IInv, PathInv, ListedFileExists, NoFileForgotten, GoneOnlyIfAnswered, SettleFails,
       storeVars, Active, Deleting
<1> QED BY <1>1, <1>2, <1>3, <1>4, <1>5, <1>6, <1>7, <1>8, <1>9, <1>10, <1>11 DEF IInv

(* Cancelling. *)

\* Reading the row changes none of the invariant's variables but asking.
LEMMA AskCancelStep ==
  ASSUME IInv, NEW j \in Jobs, AskCancel(j)
  PROVE  IInv'
<1>1. TaskTypeOK'
  BY DEF IInv, TaskTypeOK, AskCancel, taskVars
<1>2. StoreTypeOK' /\ CallTypeOK' /\ HistoryTypeOK'
  BY DEF IInv, StoreTypeOK, CallTypeOK, HistoryTypeOK, AskCancel, storeVars, requestVars,
       historyVars
<1>3. DownInv' /\ UnusedInv' /\ RequestInv' /\ TaskInv' /\ PathInv' /\ PurgeInv' /\
     ReaderInv' /\ CancelInv' /\ ListedFileExists' /\ NoFileForgotten' /\ GoneOnlyIfAnswered'
  BY DEF IInv, DownInv, UnusedInv, RequestInv, TaskInv, PathInv, PurgeInv, ReaderInv,
       CancelInv, ListedFileExists, NoFileForgotten, GoneOnlyIfAnswered, Unused, Over,
       AskCancel, storeVars, taskVars, requestVars, historyVars, Active, CheckAhead,
       Deleting
<1> QED BY <1>1, <1>2, <1>3 DEF IInv

\* A job that will look at cancels again is not DONE, and finds itself there.
LEMMA CancelStep ==
  ASSUME IInv, NEW j \in Jobs, Cancel(j)
  PROVE  IInv'
<1>1. TaskTypeOK'
  BY DEF IInv, TaskTypeOK, Cancel, taskVars
<1>2. HistoryTypeOK'
  BY DEF IInv, HistoryTypeOK, Cancel, requestVars
<1>3. UnusedInv'
  BY DEF IInv, HistoryTypeOK, UnusedInv, RequestInv, Unused, Cancel, storeVars, taskVars,
       requestVars, Jobs, CheckAhead
<1>4. CancelInv'
  BY DEF IInv, RequestInv, TaskInv, CancelInv, Cancel, storeVars, taskVars, requestVars,
       NoRow, Active, CheckAhead
<1>5. StoreTypeOK' /\ CallTypeOK'
  BY DEF IInv, StoreTypeOK, CallTypeOK, Cancel, storeVars, requestVars
<1>6. DownInv' /\ RequestInv' /\ TaskInv' /\ PathInv' /\ PurgeInv' /\ ReaderInv' /\
     ListedFileExists' /\ NoFileForgotten' /\ GoneOnlyIfAnswered'
  BY DEF IInv, DownInv, RequestInv, TaskInv, PathInv, PurgeInv, ReaderInv,
       ListedFileExists, NoFileForgotten, GoneOnlyIfAnswered, Over, Cancel, storeVars,
       taskVars, requestVars, Active, Deleting
<1> QED BY <1>1, <1>2, <1>3, <1>4, <1>5, <1>6 DEF IInv

(* Downloading. *)

\* A job that is done is over: TaskInv and RequestInv.
LEMMA AdmitStep ==
  ASSUME IInv, NEW r \in Readers, NEW j \in Jobs, Admit(r, j)
  PROVE  IInv'
<1>1. CallTypeOK'
  BY DEF IInv, CallTypeOK, Admit, requestVars
<1>2. DownInv'
  BY DEF IInv, DownInv, Admit
<1>3. ReaderInv'
  <2>1. Over(j)
    BY ExportAssumption DEF IInv, HistoryTypeOK, UnusedInv, Unused, RequestInv, TaskInv,
         Admit, Over, Active, Jobs, NoRow
  <2>2. reader' = [reader EXCEPT ![r] = [at |-> "recording", job |-> j]]
    BY DEF Admit
  <2>3. UNCHANGED <<status, task, request, created, disk, answered>>
    BY DEF Admit, storeVars, taskVars, requestVars, historyVars
  <2>4. Over(j)' /\ \A i \in Jobs : Over(i)' <=> Over(i)
    BY <2>1, <2>3 DEF Over, Active
  <2>5. \A s \in Readers : s # r => reader'[s] = reader[s]
    BY <2>2 DEF IInv, CallTypeOK
  <2>6. reader'[r] = [at |-> "recording", job |-> j]
    BY <2>2 DEF IInv, CallTypeOK
  <2> QED BY <2>3, <2>4, <2>5, <2>6 DEF IInv, ReaderInv
<1>4. ListedFileExists'
  BY DEF IInv, ListedFileExists, Admit, storeVars, historyVars, Away, Deleting
<1>5. StoreTypeOK' /\ TaskTypeOK' /\ HistoryTypeOK'
  BY DEF IInv, StoreTypeOK, TaskTypeOK, HistoryTypeOK, Admit, storeVars, taskVars,
       requestVars, historyVars
<1>6. UnusedInv' /\ RequestInv' /\ TaskInv' /\ PathInv' /\ PurgeInv' /\ CancelInv' /\
     NoFileForgotten' /\ GoneOnlyIfAnswered'
  BY DEF IInv, UnusedInv, RequestInv, TaskInv, PathInv, PurgeInv, CancelInv,
       NoFileForgotten, GoneOnlyIfAnswered, Unused, Over, Admit, storeVars, taskVars,
       requestVars, historyVars, Active, CheckAhead
<1> QED BY <1>1, <1>2, <1>3, <1>4, <1>5, <1>6 DEF IInv

\* Only the reader moves on.
LEMMA RecordStep ==
  ASSUME IInv, NEW r \in Readers, Record(r)
  PROVE  IInv'
<1>1. CallTypeOK'
  BY DEF IInv, CallTypeOK, Record, requestVars, Move
<1>2. DownInv'
  BY DEF IInv, DownInv, Record, Away
<1>3. ReaderInv'
  BY DEF IInv, ReaderInv, Over, Record, storeVars, taskVars, requestVars, historyVars,
       Active, Move
<1>4. ListedFileExists'
  BY DEF IInv, ListedFileExists, Record, storeVars, historyVars, Move, Deleting
<1>5. StoreTypeOK' /\ TaskTypeOK' /\ HistoryTypeOK'
  BY DEF IInv, StoreTypeOK, TaskTypeOK, HistoryTypeOK, DownInv, PurgeInv, Record,
       storeVars, taskVars, requestVars, historyVars
<1>6. UnusedInv' /\ RequestInv' /\ TaskInv' /\ PathInv' /\ PurgeInv' /\ CancelInv' /\
     NoFileForgotten' /\ GoneOnlyIfAnswered'
  BY DEF IInv, UnusedInv, RequestInv, TaskInv, PathInv, PurgeInv, CancelInv,
       NoFileForgotten, GoneOnlyIfAnswered, Unused, Over, Record, storeVars, taskVars,
       requestVars, historyVars, Active, CheckAhead
<1> QED BY <1>1, <1>2, <1>3, <1>4, <1>5, <1>6 DEF IInv

\* The reader leaves before it has touched the file.
LEMMA RecordFailsStep ==
  ASSUME IInv, NEW r \in Readers, RecordFails(r)
  PROVE  IInv'
<1>1. CallTypeOK'
  BY DEF IInv, CallTypeOK, RecordFails, requestVars, Away, Leave
<1>2. HistoryTypeOK'
  BY ExportAssumption DEF IInv, HistoryTypeOK, RecordFails, requestVars, historyVars, Fault
<1>3. DownInv'
  BY DEF IInv, DownInv, RecordFails, Away
<1>4. ReaderInv'
  BY DEF IInv, ReaderInv, Over, RecordFails, storeVars, taskVars, requestVars, historyVars,
       Away, Active, Leave
<1>5. ListedFileExists'
  BY DEF IInv, ListedFileExists, RecordFails, storeVars, historyVars, Leave, Deleting
<1>6. StoreTypeOK' /\ TaskTypeOK'
  BY DEF IInv, StoreTypeOK, TaskTypeOK, RecordFails, storeVars, taskVars
<1>7. UnusedInv' /\ RequestInv' /\ TaskInv' /\ PathInv' /\ PurgeInv' /\ CancelInv' /\
     NoFileForgotten' /\ GoneOnlyIfAnswered'
  BY DEF IInv, UnusedInv, RequestInv, TaskInv, PathInv, PurgeInv, CancelInv,
       NoFileForgotten, GoneOnlyIfAnswered, Unused, Over, RecordFails, storeVars, taskVars,
       requestVars, historyVars, Active, CheckAhead
<1> QED BY <1>1, <1>2, <1>3, <1>4, <1>5, <1>6, <1>7 DEF IInv

\* The reader goes on, or leaves without the file.
LEMMA OpenStep ==
  ASSUME IInv, NEW r \in Readers, Open(r)
  PROVE  IInv'
<1>1. CallTypeOK'
  BY DEF IInv, CallTypeOK, Open, requestVars, Away, Move, Leave
<1>2. DownInv'
  BY DEF IInv, DownInv, Open, Away
<1>3. ReaderInv'
  BY DEF IInv, TaskTypeOK, CallTypeOK, HistoryTypeOK, ReaderInv, Over, Open, storeVars,
       taskVars, requestVars, historyVars, Away, Active, Move, Leave
<1>4. ListedFileExists'
  BY DEF IInv, CallTypeOK, ListedFileExists, Open, storeVars, historyVars, Move, Leave,
       Deleting
<1>5. StoreTypeOK' /\ TaskTypeOK' /\ HistoryTypeOK'
  BY DEF IInv, StoreTypeOK, TaskTypeOK, HistoryTypeOK, DownInv, Open, storeVars, taskVars,
       requestVars, historyVars
<1>6. UnusedInv' /\ RequestInv' /\ TaskInv' /\ PathInv' /\ PurgeInv' /\ CancelInv' /\
     NoFileForgotten' /\ GoneOnlyIfAnswered'
  BY DEF IInv, UnusedInv, RequestInv, TaskInv, PathInv, PurgeInv, CancelInv,
       NoFileForgotten, GoneOnlyIfAnswered, Unused, Over, Open, storeVars, taskVars,
       requestVars, historyVars, Active, CheckAhead
<1> QED BY <1>1, <1>2, <1>3, <1>4, <1>5, <1>6 DEF IInv

\* The job counts as answered before its reader may delete the file.
LEMMA ServedStep ==
  ASSUME IInv, NEW r \in Readers, Served(r)
  PROVE  IInv'
<1>1. CallTypeOK'
  BY DEF IInv, CallTypeOK, Served, requestVars, Move
<1>2. HistoryTypeOK'
  BY DEF IInv, HistoryTypeOK, ReaderInv, Served, requestVars
<1>3. DownInv'
  BY DEF IInv, DownInv, Served, Away
<1>4. ReaderInv'
  BY DEF IInv, ReaderInv, Over, Served, storeVars, taskVars, requestVars, Active, Move
<1>5. ListedFileExists'
  BY DEF IInv, ListedFileExists, Served, storeVars, Move, Deleting
<1>6. GoneOnlyIfAnswered'
  BY DEF IInv, GoneOnlyIfAnswered, Served, storeVars
<1>7. StoreTypeOK' /\ TaskTypeOK'
  BY DEF IInv, StoreTypeOK, TaskTypeOK, Served, storeVars, taskVars
<1>8. UnusedInv' /\ RequestInv' /\ TaskInv' /\ PathInv' /\ PurgeInv' /\ CancelInv' /\
     NoFileForgotten'
  BY DEF IInv, UnusedInv, RequestInv, TaskInv, PathInv, PurgeInv, CancelInv,
       NoFileForgotten, Unused, Over, Served, storeVars, taskVars, requestVars, Active,
       CheckAhead
<1> QED BY <1>1, <1>2, <1>3, <1>4, <1>5, <1>6, <1>7, <1>8 DEF IInv

\* The job is over, and no other job's file is touched.
LEMMA CleanupStep ==
  ASSUME IInv, NEW r \in Readers, Cleanup(r)
  PROVE  IInv'
<1> DEFINE j == reader[r].job
<1>1. /\ reader[r].at = "cleanup" /\ j \in Jobs /\ Over(j)
      /\ j \in answered \/ status[j] = NoRow
  BY DEF IInv, ReaderInv, Cleanup
<1>2. /\ UNCHANGED <<status, path, task, left, broken, request, created>>
      /\ UNCHANGED <<inTime, stuck, interrupted, overtaken, answered>>
      /\ UNCHANGED <<mode, up, cancels, asking, purging, crashes, faults>>
  BY DEF Cleanup, taskVars, requestVars, historyVars
<1>3. \A s \in Readers : s # r => reader'[s] = reader[s]
  BY DEF IInv, CallTypeOK, Cleanup, Move, Leave
<1>4. \A i \in Jobs : Over(i)' <=> Over(i)
  BY <1>2 DEF Over, Active
<1>5. up
  BY <1>1 DEF IInv, DownInv, Away
<1>6. CASE mode = "AFTER_DOWNLOAD" /\ status[j] # NoRow /\ path[j]
  <2>1. /\ disk' = [disk EXCEPT ![j] = @ \ {"zip"}]
        /\ reader' = [reader EXCEPT ![r].at = "deleting"]
    BY <1>6 DEF Cleanup, Move
  <2>2. reader'[r] = [at |-> "deleting", job |-> j]
    BY <2>1 DEF IInv, CallTypeOK
  <2>3. disk'[j] = {} /\ \A i \in Jobs : i # j => disk'[i] = disk[i]
    BY <1>1, <1>6, <2>1 DEF IInv, StoreTypeOK, PathInv
  <2>4. j \in Deleting'
    BY <2>2 DEF Deleting
  <2>5. \A i \in Deleting : i \in Deleting'
    BY <1>1, <1>2, <1>3 DEF Deleting
  <2>6. StoreTypeOK' /\ TaskTypeOK' /\ CallTypeOK' /\ HistoryTypeOK'
    BY <1>1, <1>2, <2>1 DEF IInv, StoreTypeOK, TaskTypeOK, CallTypeOK, HistoryTypeOK
  <2>7. DownInv'
    BY <1>2, <1>5 DEF DownInv
  <2>8. UnusedInv'
    BY <1>2, <2>3 DEF IInv, UnusedInv, Unused
  <2>9. RequestInv'
    BY <1>2, <2>3 DEF IInv, RequestInv
  <2>10. TaskInv'
    BY <1>1, <1>2, <2>3 DEF IInv, TaskInv, Over, Active
  <2>11. PathInv'
    BY <1>2, <2>3 DEF IInv, PathInv
  <2>12. PurgeInv'
    BY <1>2, <1>4, <2>3 DEF IInv, PurgeInv, CallTypeOK
  <2>13. ReaderInv'
    BY <1>1, <1>2, <1>3, <1>4, <2>2, <2>3 DEF IInv, ReaderInv
  <2>14. CancelInv' /\ GoneOnlyIfAnswered'
    BY <1>1, <1>2, <1>6, <2>3 DEF IInv, CancelInv, CheckAhead, GoneOnlyIfAnswered
  <2>15. ListedFileExists'
    BY <1>2, <2>3, <2>4, <2>5 DEF IInv, ListedFileExists
  <2>16. NoFileForgotten'
    BY <1>2, <2>3 DEF IInv, NoFileForgotten, Active
  <2> QED BY <2>6, <2>7, <2>8, <2>9, <2>10, <2>11, <2>12, <2>13, <2>14, <2>15, <2>16 DEF IInv
<1>7. CASE ~(mode = "AFTER_DOWNLOAD" /\ status[j] # NoRow /\ path[j])
  <2>1. disk' = disk /\ reader' = [reader EXCEPT ![r] = Away]
    BY <1>7 DEF Cleanup, Leave
  <2>2. reader'[r] = Away
    BY <2>1 DEF IInv, CallTypeOK
  <2>3. \A i \in Deleting : i \in Deleting'
    BY <1>1, <1>2, <1>3 DEF Deleting
  <2>4. StoreTypeOK' /\ TaskTypeOK' /\ CallTypeOK' /\ HistoryTypeOK'
    BY <1>2, <2>1 DEF IInv, StoreTypeOK, TaskTypeOK, CallTypeOK, HistoryTypeOK, Away
  <2>5. DownInv'
    BY <1>2, <1>5 DEF DownInv
  <2>6. ReaderInv'
    BY <1>2, <1>3, <1>4, <2>1, <2>2 DEF IInv, ReaderInv, Away
  <2>7. PurgeInv'
    BY <1>2, <1>4, <2>1 DEF IInv, PurgeInv, CallTypeOK
  <2>8. ListedFileExists'
    BY <1>2, <2>1, <2>3 DEF IInv, ListedFileExists
  <2>9. UnusedInv' /\ RequestInv' /\ TaskInv' /\ PathInv'
    BY <1>2, <2>1 DEF IInv, UnusedInv, Unused, RequestInv, TaskInv, PathInv, Active
  <2>10. CancelInv' /\ NoFileForgotten' /\ GoneOnlyIfAnswered'
    BY <1>2, <2>1 DEF IInv, CancelInv, CheckAhead, NoFileForgotten, GoneOnlyIfAnswered, Active
  <2> QED BY <2>4, <2>5, <2>6, <2>7, <2>8, <2>9, <2>10 DEF IInv
<1> QED BY <1>6, <1>7

\* The file was gone before the row says so: ReaderInv.
LEMMA DeleteCommitStep ==
  ASSUME IInv, NEW r \in Readers, DeleteCommit(r)
  PROVE  IInv'
<1>1. StoreTypeOK'
  BY DEF IInv, StoreTypeOK, ReaderInv, DeleteCommit
<1>2. CallTypeOK'
  BY DEF IInv, CallTypeOK, DeleteCommit, requestVars, Away, Leave
<1>3. DownInv'
  BY DEF IInv, DownInv, DeleteCommit, Away
<1>4. UnusedInv'
  BY DEF IInv, UnusedInv, Unused, DeleteCommit, taskVars, requestVars, historyVars
<1>5. PathInv'
  BY DEF IInv, PathInv, DeleteCommit
<1>6. ReaderInv'
  BY DEF IInv, ReaderInv, Over, DeleteCommit, taskVars, requestVars, historyVars, Away,
       Active, Leave
<1>7. ListedFileExists'
  BY DEF IInv, StoreTypeOK, ListedFileExists, DeleteCommit, historyVars, Leave, Deleting
<1>8. NoFileForgotten'
  BY DEF IInv, ReaderInv, NoFileForgotten, DeleteCommit, historyVars, Active
<1>9. GoneOnlyIfAnswered'
  BY DEF IInv, ReaderInv, GoneOnlyIfAnswered, DeleteCommit, historyVars, NoRow
<1>10. TaskTypeOK' /\ HistoryTypeOK'
  BY DEF IInv, TaskTypeOK, HistoryTypeOK, DeleteCommit, taskVars, requestVars, historyVars
<1>11. RequestInv' /\ TaskInv' /\ PurgeInv' /\ CancelInv'
  BY DEF IInv, RequestInv, TaskInv, PurgeInv, CancelInv, Over, DeleteCommit, taskVars,
       requestVars, historyVars, Active, CheckAhead
<1> QED BY <1>1, <1>2, <1>3, <1>4, <1>5, <1>6, <1>7, <1>8, <1>9, <1>10, <1>11 DEF IInv

\* The job's deletion is on record as interrupted.
LEMMA DeleteFailsStep ==
  ASSUME IInv, NEW r \in Readers, DeleteFails(r)
  PROVE  IInv'
<1>1. CallTypeOK'
  BY DEF IInv, CallTypeOK, DeleteFails, requestVars, Away, Leave
<1>2. HistoryTypeOK'
  <2>1. faults' \in 0..MaxFault
    BY ExportAssumption DEF IInv, HistoryTypeOK, DeleteFails, Fault
  <2>2. interrupted' \in SUBSET Jobs
    BY DEF IInv, HistoryTypeOK, ReaderInv, DeleteFails
  <2>3. UNCHANGED <<created, inTime, stuck, overtaken, answered, crashes>>
    BY DEF DeleteFails, requestVars
  <2> QED BY <2>1, <2>2, <2>3 DEF IInv, HistoryTypeOK
<1>3. DownInv'
  BY DEF IInv, DownInv, DeleteFails, Away
<1>4. ReaderInv'
  BY DEF IInv, ReaderInv, Over, DeleteFails, storeVars, taskVars, requestVars, Away,
       Active, Leave
<1>5. ListedFileExists'
  BY DEF IInv, ListedFileExists, DeleteFails, storeVars, Leave, Deleting
<1>6. StoreTypeOK' /\ TaskTypeOK'
  BY DEF IInv, StoreTypeOK, TaskTypeOK, DeleteFails, storeVars, taskVars
<1>7. UnusedInv' /\ RequestInv' /\ TaskInv' /\ PathInv' /\ PurgeInv' /\ CancelInv' /\
     NoFileForgotten' /\ GoneOnlyIfAnswered'
  BY DEF IInv, UnusedInv, RequestInv, TaskInv, PathInv, PurgeInv, CancelInv,
       NoFileForgotten, GoneOnlyIfAnswered, Unused, Over, DeleteFails, storeVars, taskVars,
       requestVars, Active, CheckAhead
<1> QED BY <1>1, <1>2, <1>3, <1>4, <1>5, <1>6, <1>7 DEF IInv

(* Purging and the process. *)

\* The mode only decides what later steps do.
LEMMA SetModeStep ==
  ASSUME IInv, SetMode
  PROVE  IInv'
<1>1. StoreTypeOK'
  BY DEF IInv, StoreTypeOK, SetMode, storeVars
<1>2. TaskTypeOK' /\ CallTypeOK' /\ HistoryTypeOK'
  BY DEF IInv, TaskTypeOK, CallTypeOK, HistoryTypeOK, SetMode, taskVars, requestVars,
       historyVars
<1>3. DownInv' /\ UnusedInv' /\ RequestInv' /\ TaskInv' /\ PathInv' /\ PurgeInv' /\
     ReaderInv' /\ CancelInv' /\ ListedFileExists' /\ NoFileForgotten' /\ GoneOnlyIfAnswered'
  BY DEF IInv, DownInv, UnusedInv, RequestInv, TaskInv, PathInv, PurgeInv, ReaderInv,
       CancelInv, ListedFileExists, NoFileForgotten, GoneOnlyIfAnswered, Unused, Over,
       SetMode, storeVars, taskVars, requestVars, historyVars, Active, CheckAhead, Deleting
<1> QED BY <1>1, <1>2, <1>3 DEF IInv

\* A purged job is over, or on record as overtaken.
LEMMA PurgeReadStep ==
  ASSUME IInv, PurgeRead
  PROVE  IInv'
<1>1. StoreTypeOK'
  BY DEF IInv, StoreTypeOK, PurgeRead
<1>2. CallTypeOK'
  BY ExportAssumption DEF IInv, CallTypeOK, PurgeRead, requestVars, Jobs
<1>3. HistoryTypeOK'
  <2>a. PICK newest \in Jobs :
          overtaken' = overtaken \cup {j \in {i \in 1..newest : status[i] # NoRow} : Active(j)}
    BY DEF PurgeRead
  <2>b. 1..newest \subseteq Jobs
    BY ExportAssumption DEF Jobs
  <2>1. overtaken' \in SUBSET Jobs
    BY <2>a, <2>b DEF IInv, HistoryTypeOK
  <2>2. UNCHANGED <<created, inTime, stuck, interrupted, answered, crashes, faults>>
    BY DEF PurgeRead, requestVars
  <2> QED BY <2>1, <2>2 DEF IInv, HistoryTypeOK
<1>4. DownInv'
  BY DEF IInv, DownInv, PurgeRead
<1>5. UnusedInv'
  BY DEF IInv, UnusedInv, Unused, PurgeRead, taskVars, requestVars
<1>6. RequestInv'
  BY DEF IInv, RequestInv, PurgeRead, taskVars, requestVars
<1>7. TaskInv'
  BY DEF IInv, TaskInv, PathInv, PurgeRead, taskVars, requestVars, Active
<1>8. PathInv'
  BY DEF IInv, PathInv, PurgeRead
<1>9. PurgeInv'
  BY ExportAssumption DEF IInv, HistoryTypeOK, UnusedInv, RequestInv, TaskInv, PathInv,
       PurgeInv, NoFileForgotten, Unused, Over, PurgeRead, taskVars, requestVars, Jobs,
       Active
<1>10. ReaderInv'
  BY DEF IInv, ReaderInv, Over, PurgeRead, taskVars, requestVars, Active
<1>11. ListedFileExists'
  BY DEF IInv, ListedFileExists, PurgeRead, Deleting
<1>12. NoFileForgotten'
  BY DEF IInv, NoFileForgotten, PurgeRead, Active
<1>13. TaskTypeOK'
  BY DEF IInv, TaskTypeOK, PurgeRead, taskVars
<1>14. CancelInv' /\ GoneOnlyIfAnswered'
  BY DEF IInv, StoreTypeOK, CancelInv, GoneOnlyIfAnswered, PurgeRead, taskVars, requestVars,
       CheckAhead
<1> QED BY <1>1, <1>2, <1>3, <1>4, <1>5, <1>6, <1>7, <1>8, <1>9, <1>10, <1>11, <1>12,
     <1>13, <1>14 DEF IInv

\* A row that goes leaves no file behind, unless its job was overtaken.
LEMMA PurgeCommitStep ==
  ASSUME IInv, PurgeCommit
  PROVE  IInv'
<1>1. StoreTypeOK'
  <2>1. status' \in [Jobs -> {NoRow, "PENDING", "RUNNING", "DONE", "FAILED", "CANCELLED"}]
    BY DEF IInv, StoreTypeOK, PurgeCommit
  <2>2. path' \in [Jobs -> BOOLEAN]
    BY DEF IInv, StoreTypeOK, PurgeCommit
  <2>3. UNCHANGED <<disk, mode>>
    BY DEF PurgeCommit
  <2> QED BY <2>1, <2>2, <2>3 DEF IInv, StoreTypeOK
<1>2. CallTypeOK'
  BY DEF IInv, CallTypeOK, PurgeCommit, requestVars
<1>3. HistoryTypeOK'
  BY DEF IInv, CallTypeOK, HistoryTypeOK, PurgeCommit, requestVars
<1>4. DownInv'
  BY DEF IInv, DownInv, PurgeCommit
<1>5. UnusedInv'
  BY DEF IInv, UnusedInv, Unused, PurgeCommit, taskVars, requestVars
<1>6. RequestInv'
  BY DEF IInv, RequestInv, PurgeCommit, taskVars, requestVars
<1>7. TaskInv'
  BY DEF IInv, TaskInv, PurgeInv, Over, PurgeCommit, taskVars, requestVars, Active
<1>8. PathInv'
  BY DEF IInv, PathInv, PurgeCommit
<1>9. PurgeInv'
  BY DEF IInv, PurgeInv, PurgeCommit
<1>10. ReaderInv'
  BY DEF IInv, ReaderInv, Over, PurgeCommit, taskVars, requestVars, NoRow, Active
<1>11. CancelInv'
  BY DEF IInv, HistoryTypeOK, CancelInv, PurgeCommit, taskVars, requestVars, NoRow,
       CheckAhead
<1>12. ListedFileExists'
  BY DEF IInv, ListedFileExists, PurgeCommit, Deleting
<1>13. NoFileForgotten'
  BY DEF IInv, PurgeInv, NoFileForgotten, PurgeCommit, Active
<1>14. GoneOnlyIfAnswered'
  BY DEF IInv, GoneOnlyIfAnswered, PurgeCommit, NoRow
<1>15. TaskTypeOK'
  BY DEF IInv, TaskTypeOK, PurgeCommit, taskVars
<1> QED BY <1>1, <1>2, <1>3, <1>4, <1>5, <1>6, <1>7, <1>8, <1>9, <1>10, <1>11, <1>12,
     <1>13, <1>14, <1>15 DEF IInv

\* The purge is on record as interrupted.
LEMMA PurgeFailsStep ==
  ASSUME IInv, PurgeFails
  PROVE  IInv'
<1>1. CallTypeOK'
  BY DEF IInv, CallTypeOK, PurgeFails, requestVars
<1>2. HistoryTypeOK'
  BY ExportAssumption DEF IInv, CallTypeOK, HistoryTypeOK, PurgeFails, requestVars, Fault
<1>3. DownInv'
  BY DEF IInv, DownInv, PurgeFails
<1>4. UnusedInv'
  BY DEF IInv, UnusedInv, Unused, PurgeFails, storeVars, taskVars, requestVars
<1>5. PurgeInv'
  BY DEF IInv, PurgeInv, PurgeFails
<1>6. ListedFileExists'
  BY DEF IInv, ListedFileExists, PurgeFails, storeVars, Deleting
<1>7. StoreTypeOK' /\ TaskTypeOK'
  BY DEF IInv, StoreTypeOK, TaskTypeOK, PurgeFails, storeVars, taskVars
<1>8. RequestInv' /\ TaskInv' /\ PathInv' /\ ReaderInv' /\ CancelInv' /\ NoFileForgotten'
     /\ GoneOnlyIfAnswered'
  BY DEF IInv, RequestInv, TaskInv, PathInv, ReaderInv, CancelInv, NoFileForgotten,
       GoneOnlyIfAnswered, Over, PurgeFails, storeVars, taskVars, requestVars, Active,
       CheckAhead
<1> QED BY <1>1, <1>2, <1>3, <1>4, <1>5, <1>6, <1>7, <1>8 DEF IInv

\* A zip that was being written belongs to an active job or one overtaken by a purge.
LEMMA CrashStep ==
  ASSUME IInv, Crash
  PROVE  IInv'
<1>1. StoreTypeOK'
  BY DEF IInv, StoreTypeOK, Crash
<1>2. TaskTypeOK'
  <2>1. /\ up' = FALSE
        /\ task' = [i \in Jobs |-> "none"]
        /\ left' = [i \in Jobs |-> 0]
        /\ broken' = {} /\ cancels' = {} /\ asking' = {}
    BY DEF Crash
  <2>2. 0 \in 0..MaxChunk
    BY ExportAssumption
  <2> QED BY <2>1, <2>2 DEF TaskTypeOK
<1>3. CallTypeOK'
  BY DEF IInv, CallTypeOK, Crash, Away
<1>4. HistoryTypeOK'
  <2>1. crashes' \in 0..MaxCrash
    BY ExportAssumption DEF IInv, HistoryTypeOK, Crash
  <2>2. Deleting \in SUBSET Jobs
    BY DEF IInv, CallTypeOK, ReaderInv, Deleting
  <2>3. interrupted' = interrupted \cup Deleting
    BY DEF Crash
  <2>4. UNCHANGED <<created, inTime, stuck, overtaken, answered, faults>>
    BY DEF Crash
  <2> QED BY <2>1, <2>2, <2>3, <2>4 DEF IInv, HistoryTypeOK
<1>5. DownInv'
  BY DEF IInv, DownInv, Crash
<1>6. UnusedInv'
  BY DEF IInv, UnusedInv, Unused, Crash
<1>7. RequestInv'
  BY DEF IInv, RequestInv, Crash, Jobs, Idle
<1>8. TaskInv'
  BY DEF IInv, TaskInv, Crash
<1>9. PathInv'
  BY DEF IInv, PathInv, Crash
<1>10. PurgeInv'
  BY DEF IInv, PurgeInv, Crash
<1>11. ReaderInv'
  BY DEF IInv, ReaderInv, Crash, Away
<1>12. CancelInv'
  BY DEF IInv, CallTypeOK, HistoryTypeOK, CancelInv, Crash, Jobs, Idle, CheckAhead
<1>13. ListedFileExists'
  BY DEF IInv, ListedFileExists, Crash
<1>14. NoFileForgotten'
  BY DEF IInv, TaskInv, NoFileForgotten, Crash, Active
<1>15. GoneOnlyIfAnswered'
  BY DEF IInv, StoreTypeOK, GoneOnlyIfAnswered, Crash, Deleting
<1> QED BY <1>1, <1>2, <1>3, <1>4, <1>5, <1>6, <1>7, <1>8, <1>9, <1>10, <1>11, <1>12,
     <1>13, <1>14, <1>15 DEF IInv

\* Reconciling touches only jobs that were active, and those list no file.
LEMMA StartStep ==
  ASSUME IInv, Start
  PROVE  IInv'
<1>1. StoreTypeOK'
  BY DEF IInv, StoreTypeOK, Start
<1>2. TaskTypeOK'
  BY DEF IInv, TaskTypeOK, Start, taskVars
<1>3. HistoryTypeOK'
  BY DEF IInv, HistoryTypeOK, Start, requestVars
<1>4. DownInv'
  BY DEF IInv, DownInv, Start
<1>5. UnusedInv'
  BY DEF IInv, UnusedInv, Unused, Start, taskVars, requestVars, NoRow, Active
<1>6. RequestInv'
  BY DEF IInv, DownInv, RequestInv, Start, requestVars, Jobs, Idle
<1>7. TaskInv'
  BY DEF IInv, DownInv, TaskInv, Start, taskVars
<1>8. PathInv'
  BY DEF IInv, PathInv, Start, Active
<1>9. PurgeInv'
  BY DEF IInv, CallTypeOK, PurgeInv, Over, Start, taskVars, requestVars, Active
<1>10. ReaderInv'
  BY DEF IInv, ReaderInv, Over, Start, taskVars, requestVars, Active
<1>11. CancelInv'
  BY DEF IInv, HistoryTypeOK, CancelInv, Start, taskVars, requestVars, CheckAhead
<1>12. ListedFileExists'
  BY DEF IInv, PathInv, ListedFileExists, Start, Active, Deleting
<1>13. NoFileForgotten'
  BY DEF IInv, NoFileForgotten, Start
<1>14. GoneOnlyIfAnswered'
  BY DEF IInv, StoreTypeOK, GoneOnlyIfAnswered, Start, Active
<1>15. CallTypeOK'
  BY DEF IInv, CallTypeOK, Start, requestVars
<1> QED BY <1>1, <1>2, <1>3, <1>4, <1>5, <1>6, <1>7, <1>8, <1>9, <1>10, <1>11, <1>12,
     <1>13, <1>14, <1>15 DEF IInv

-----------------------------------------------------------------------------
(* The invariant.                                                          *)

\* No job exists at first.
LEMMA InitIInv == Init => IInv
<1> SUFFICES ASSUME Init PROVE IInv
  OBVIOUS
<1>1. StoreTypeOK /\ TaskTypeOK /\ CallTypeOK /\ HistoryTypeOK
  BY ExportAssumption
     DEF Init, StoreTypeOK, TaskTypeOK, CallTypeOK, HistoryTypeOK, Jobs, NoRow, Idle, Away
<1>2. DownInv /\ UnusedInv /\ RequestInv /\ TaskInv /\ PathInv /\ PurgeInv /\ ReaderInv /\ CancelInv
  BY DEF Init, DownInv, UnusedInv, Unused, RequestInv, TaskInv, PathInv, PurgeInv, ReaderInv,
         CancelInv, Jobs, Idle, Away
<1>3. ListedFileExists /\ NoFileForgotten /\ GoneOnlyIfAnswered
  BY DEF Init, ListedFileExists, NoFileForgotten, GoneOnlyIfAnswered, NoRow
<1> QED BY <1>1, <1>2, <1>3 DEF IInv

\* No step of the program breaks the invariant.
LEMMA NextIInv == IInv /\ [Next]_vars => IInv'
<1> SUFFICES ASSUME IInv, [Next]_vars PROVE IInv'
  OBVIOUS
<1>1. ASSUME NEW q \in Requests,
             CheckLimit(q) \/ CreateJob(q) \/ CreateFails(q) \/ StartTask(q) \/ RefreshFails(q)
      PROVE  IInv'
  BY <1>1, CheckLimitStep, CreateJobStep, CreateFailsStep, StartTaskStep, RefreshFailsStep
<1>2. ASSUME NEW j \in Jobs,
             \/ RunBegin(j) \/ Running(j) \/ RunningFails(j)
             \/ Checkpoint(j) \/ Complete(j) \/ RunFails(j) \/ Settle(j) \/ SettleFails(j)
      PROVE  IInv'
  BY <1>2, RunBeginStep, RunningStep, RunningFailsStep, CheckpointStep, CompleteStep,
     RunFailsStep, SettleStep, SettleFailsStep
<1>3. ASSUME NEW j \in Jobs, AskCancel(j) \/ Cancel(j) PROVE IInv'
  BY <1>3, AskCancelStep, CancelStep
<1>4. ASSUME NEW r \in Readers, NEW j \in Jobs, Admit(r, j) PROVE IInv'
  BY <1>4, AdmitStep
<1>5. ASSUME NEW r \in Readers,
             \/ Record(r) \/ RecordFails(r) \/ Open(r) \/ Served(r)
             \/ Cleanup(r) \/ DeleteCommit(r) \/ DeleteFails(r)
      PROVE  IInv'
  BY <1>5, RecordStep, RecordFailsStep, OpenStep, ServedStep, CleanupStep,
     DeleteCommitStep, DeleteFailsStep
<1>6. ASSUME SetMode \/ PurgeRead \/ PurgeCommit \/ PurgeFails \/ Crash \/ Start PROVE IInv'
  BY <1>6, SetModeStep, PurgeReadStep, PurgeCommitStep, PurgeFailsStep, CrashStep, StartStep
<1>7. CASE UNCHANGED vars
  <2>1. /\ UNCHANGED <<status, path, disk, task, left, broken, request, created>>
        /\ UNCHANGED <<inTime, stuck, interrupted, overtaken, answered>>
        /\ UNCHANGED <<mode, up, cancels, asking, reader, purging, crashes, faults>>
    BY <1>7 DEF vars, storeVars, taskVars, requestVars, historyVars
  <2>2. StoreTypeOK' /\ TaskTypeOK' /\ CallTypeOK' /\ HistoryTypeOK'
    BY <2>1 DEF IInv, StoreTypeOK, TaskTypeOK, CallTypeOK, HistoryTypeOK
  <2>3. DownInv' /\ UnusedInv' /\ RequestInv' /\ TaskInv' /\ PathInv'
    BY <2>1 DEF IInv, DownInv, UnusedInv, Unused, RequestInv, TaskInv, PathInv, Active
  <2>4. PurgeInv' /\ ReaderInv' /\ CancelInv'
    BY <2>1 DEF IInv, PurgeInv, ReaderInv, CancelInv, CheckAhead, Over, Active
  <2>5. ListedFileExists' /\ NoFileForgotten' /\ GoneOnlyIfAnswered'
    BY <2>1 DEF IInv, ListedFileExists, Deleting, NoFileForgotten, GoneOnlyIfAnswered, Active
  <2> QED BY <2>2, <2>3, <2>4, <2>5 DEF IInv
<1> QED BY <1>1, <1>2, <1>3, <1>4, <1>5, <1>6, <1>7 DEF Next

\* The inductive invariant holds in every state the program reaches.
THEOREM Invariance == Spec => []IInv
BY InitIInv, NextIInv, PTL DEF Spec

\* Every variable keeps its type.
THEOREM TypeCorrect == Spec => []TypeOK
<1>1. IInv => TypeOK
  BY DEF IInv, TypeOK
<1> QED BY <1>1, Invariance, PTL

\* A file the list offers is there, unless its deletion is under way or broke off:
\* no end of a job, restart, or deletion of another job takes it away.
THEOREM ListedFilesExist == Spec => []ListedFileExists
<1>1. IInv => ListedFileExists
  BY DEF IInv
<1> QED BY <1>1, Invariance, PTL

\* No file outlives its job unnoticed, except that of a job purged while it ran.
THEOREM NoFilesForgotten == Spec => []NoFileForgotten
<1>1. IInv => NoFileForgotten
  BY DEF IInv
<1> QED BY <1>1, Invariance, PTL

\* A finished job keeps its file until a response that sent it has ended, unless
\* the purge took it; whether anybody received it is another question.
THEOREM DeletedOnlyIfAnswered == Spec => []GoneOnlyIfAnswered
<1>1. IInv => GoneOnlyIfAnswered
  BY DEF IInv
<1> QED BY <1>1, Invariance, PTL

\* A cancellation that comes before the last look at the flag prevails, whatever
\* fails or restarts after it; an export without a chunk looks once, at its start.
THEOREM CancelledInTime == Spec => []CancelInTime
<1>1. IInv => CancelInTime
  BY DEF IInv, CancelInv, CancelInTime
<1> QED BY <1>1, Invariance, PTL

-----------------------------------------------------------------------------
(* The limit on active jobs.                                               *)

ActiveJobs == {j \in Jobs : Active(j)}

AdmittedRequests == {q \in Requests : request[q] = Admitted}

\* There are finitely many of both, and of each no more than there could be.
LEMMA Finitely ==
  /\ IsFiniteSet(Jobs) /\ IsFiniteSet(Requests)
  /\ Cardinality(Requests) \in Nat \ {0}
  /\ \A S \in SUBSET Jobs : IsFiniteSet(S) /\ Cardinality(S) \in Nat
  /\ \A S \in SUBSET Requests :
       IsFiniteSet(S) /\ Cardinality(S) \in Nat /\ Cardinality(S) <= Cardinality(Requests)
<1>1. IsFiniteSet(Jobs)
  BY ExportAssumption, FS_Interval DEF Jobs
<1>2. IsFiniteSet(Requests) /\ Cardinality(Requests) \in Nat \ {0}
  BY ExportAssumption, FS_CardinalityType, FS_EmptySet
<1>3. \A S \in SUBSET Jobs : IsFiniteSet(S) /\ Cardinality(S) \in Nat
  BY <1>1, FS_Subset, FS_CardinalityType
<1>4. \A S \in SUBSET Requests :
        IsFiniteSet(S) /\ Cardinality(S) \in Nat /\ Cardinality(S) <= Cardinality(Requests)
  BY <1>2, FS_Subset, FS_CardinalityType
<1> QED BY <1>1, <1>2, <1>3, <1>4

\* A set has at most one element more than a set it adds at most one to.
LEMMA AtMostOneMore ==
  ASSUME NEW S, NEW x, IsFiniteSet(S), NEW T \in SUBSET (S \cup {x})
  PROVE  Cardinality(T) <= Cardinality(S) + 1
<1>1. IsFiniteSet(S \cup {x}) /\ Cardinality(S) \in Nat
  BY FS_AddElement, FS_CardinalityType
<1>2. Cardinality(S \cup {x}) = IF x \in S THEN Cardinality(S) ELSE Cardinality(S) + 1
  BY FS_AddElement
<1>3. IsFiniteSet(T) /\ Cardinality(T) <= Cardinality(S \cup {x})
  BY <1>1, FS_Subset
<1>4. Cardinality(T) \in Nat
  BY <1>3, FS_CardinalityType
<1> QED BY <1>1, <1>2, <1>3, <1>4

\* A step that neither activates a job nor lets a request in keeps the limit.
LEMMA FewerKeepLimit ==
  ASSUME LimitUpToRace,
         ActiveJobs' \subseteq ActiveJobs, AdmittedRequests' \subseteq AdmittedRequests
  PROVE  LimitUpToRace'
<1>1. /\ ActiveJobs \in SUBSET Jobs /\ ActiveJobs' \in SUBSET Jobs
      /\ AdmittedRequests \in SUBSET Requests /\ AdmittedRequests' \in SUBSET Requests
  BY DEF ActiveJobs, AdmittedRequests
<1>2. Cardinality(ActiveJobs') <= Cardinality(ActiveJobs)
  BY <1>1, Finitely, FS_Subset
<1>3. Cardinality(AdmittedRequests') <= Cardinality(AdmittedRequests)
  BY <1>1, Finitely, FS_Subset
<1>4. /\ Cardinality(ActiveJobs) \in Nat /\ Cardinality(ActiveJobs') \in Nat
      /\ Cardinality(AdmittedRequests) \in Nat /\ Cardinality(AdmittedRequests') \in Nat
      /\ Cardinality(Requests) \in Nat
  BY <1>1, Finitely
<1>5. Cardinality(ActiveJobs) + Cardinality(AdmittedRequests)
        <= MaxConcurrent + Cardinality(Requests) - 1
  BY DEF LimitUpToRace, ActiveJobs, AdmittedRequests
<1>6. Cardinality(ActiveJobs') + Cardinality(AdmittedRequests')
        <= MaxConcurrent + Cardinality(Requests) - 1
  BY <1>2, <1>3, <1>4, <1>5, ExportAssumption
<1> QED BY <1>6 DEF LimitUpToRace, ActiveJobs, AdmittedRequests

\* A request is let in while at most MaxConcurrent - 1 jobs are active, however
\* many requests are let in already.
LEMMA CheckLimitKeepsLimit ==
  ASSUME IInv, NEW q \in Requests, CheckLimit(q)
  PROVE  LimitUpToRace'
<1>1. Cardinality(ActiveJobs) < MaxConcurrent
  BY DEF CheckLimit, ActiveJobs
<1>2. ActiveJobs' = ActiveJobs
  BY DEF CheckLimit, storeVars, ActiveJobs, Active
<1>3. ActiveJobs \in SUBSET Jobs /\ AdmittedRequests' \in SUBSET Requests
  BY DEF ActiveJobs, AdmittedRequests
<1>4. /\ Cardinality(ActiveJobs) \in Nat
      /\ Cardinality(AdmittedRequests') \in Nat
      /\ Cardinality(AdmittedRequests') <= Cardinality(Requests)
      /\ Cardinality(Requests) \in Nat
  BY <1>3, Finitely
<1>5. Cardinality(ActiveJobs') + Cardinality(AdmittedRequests')
        <= MaxConcurrent + Cardinality(Requests) - 1
  BY <1>1, <1>2, <1>4, ExportAssumption
<1> QED BY <1>5 DEF LimitUpToRace, ActiveJobs, AdmittedRequests

\* Creating the job turns the admission into an active job.
LEMMA CreateJobKeepsLimit ==
  ASSUME IInv, LimitUpToRace, NEW q \in Requests, CreateJob(q)
  PROVE  LimitUpToRace'
<1>1. /\ request[q] = Admitted
      /\ status' = [status EXCEPT ![created + 1] = "PENDING"]
      /\ request' = [request EXCEPT ![q] = created + 1]
      /\ created \in Nat
  BY ExportAssumption DEF CreateJob, IInv, HistoryTypeOK
<1>2. ActiveJobs' \in SUBSET (ActiveJobs \cup {created + 1})
  BY <1>1 DEF IInv, StoreTypeOK, ActiveJobs, Active
<1>3. AdmittedRequests' = AdmittedRequests \ {q} /\ q \in AdmittedRequests
  BY <1>1 DEF IInv, CallTypeOK, AdmittedRequests, Admitted
<1>4. /\ ActiveJobs \in SUBSET Jobs /\ ActiveJobs' \in SUBSET Jobs
      /\ AdmittedRequests \in SUBSET Requests
  BY DEF ActiveJobs, AdmittedRequests
<1>5. /\ IsFiniteSet(ActiveJobs) /\ Cardinality(ActiveJobs) \in Nat
      /\ Cardinality(ActiveJobs') \in Nat
      /\ IsFiniteSet(AdmittedRequests) /\ Cardinality(AdmittedRequests) \in Nat
      /\ Cardinality(Requests) \in Nat
  BY <1>4, Finitely
<1>6. Cardinality(ActiveJobs') <= Cardinality(ActiveJobs) + 1
  BY <1>2, <1>5, AtMostOneMore
<1>7. Cardinality(AdmittedRequests') = Cardinality(AdmittedRequests) - 1
  BY <1>3, <1>5, FS_RemoveElement
<1>8. Cardinality(ActiveJobs) + Cardinality(AdmittedRequests)
        <= MaxConcurrent + Cardinality(Requests) - 1
  BY DEF LimitUpToRace, ActiveJobs, AdmittedRequests
<1>9. Cardinality(ActiveJobs') + Cardinality(AdmittedRequests')
        <= MaxConcurrent + Cardinality(Requests) - 1
  BY <1>5, <1>6, <1>7, <1>8, ExportAssumption
<1> QED BY <1>9 DEF LimitUpToRace, ActiveJobs, AdmittedRequests

\* No other step activates a job or lets a request in.
LEMMA OthersKeepLimit ==
  ASSUME IInv, [Next]_vars,
         \A q \in Requests : ~CheckLimit(q) /\ ~CreateJob(q)
  PROVE  ActiveJobs' \subseteq ActiveJobs /\ AdmittedRequests' \subseteq AdmittedRequests
<1>1. ASSUME NEW q \in Requests, CreateFails(q) \/ StartTask(q) \/ RefreshFails(q)
      PROVE  ActiveJobs' \subseteq ActiveJobs /\ AdmittedRequests' \subseteq AdmittedRequests
  <2>1. request' = [request EXCEPT ![q] = Idle] /\ status' = status
    BY <1>1 DEF CreateFails, StartTask, RefreshFails, storeVars
  <2> QED BY <2>1 DEF IInv, CallTypeOK, ActiveJobs, AdmittedRequests, Active, Idle, Admitted
<1>2. ASSUME NEW j \in Jobs, Running(j) \/ Settle(j)
      PROVE  ActiveJobs' \subseteq ActiveJobs /\ AdmittedRequests' \subseteq AdmittedRequests
  <2>1. request' = request
    BY <1>2 DEF Running, Settle, requestVars
  <2>2. CASE Running(j)
    <3>1. Active(j) /\ status' = [status EXCEPT ![j] = "RUNNING"]
      BY <2>2 DEF IInv, TaskInv, Running
    <3> QED BY <2>1, <3>1 DEF IInv, StoreTypeOK, ActiveJobs, AdmittedRequests, Active
  <2>3. CASE Settle(j)
    <3>1. \/ status' = status
          \/ /\ status' = [status EXCEPT ![j] = task[j]]
             /\ task[j] \in {"DONE", "FAILED", "CANCELLED"}
      BY <2>3 DEF Settle, Settling
    <3> QED BY <2>1, <3>1 DEF IInv, StoreTypeOK, ActiveJobs, AdmittedRequests, Active
  <2> QED BY <1>2, <2>2, <2>3
<1>3. ASSUME NEW j \in Jobs,
             \/ RunBegin(j) \/ RunningFails(j) \/ Checkpoint(j) \/ Complete(j)
             \/ RunFails(j) \/ SettleFails(j) \/ AskCancel(j) \/ Cancel(j)
             \/ \E r \in Readers : Admit(r, j)
      PROVE  UNCHANGED <<status, request>>
  BY <1>3 DEF RunBegin, RunningFails, Checkpoint, Complete, RunFails, SettleFails, AskCancel,
       Cancel, Admit, storeVars, requestVars
<1>4. ASSUME NEW r \in Readers,
             \/ Record(r) \/ RecordFails(r) \/ Open(r) \/ Served(r)
             \/ Cleanup(r) \/ DeleteCommit(r) \/ DeleteFails(r)
      PROVE  UNCHANGED <<status, request>>
  BY <1>4 DEF Record, RecordFails, Open, Served, Cleanup, DeleteCommit, DeleteFails,
       storeVars, requestVars
<1>5. ASSUME SetMode \/ PurgeRead \/ PurgeFails \/ UNCHANGED vars
      PROVE  UNCHANGED <<status, request>>
  BY <1>5 DEF SetMode, PurgeRead, PurgeFails, vars, storeVars, requestVars
<1>6. ASSUME UNCHANGED <<status, request>>
      PROVE  ActiveJobs' \subseteq ActiveJobs /\ AdmittedRequests' \subseteq AdmittedRequests
  BY <1>6 DEF ActiveJobs, AdmittedRequests, Active
<1>7. ASSUME PurgeCommit \/ Crash \/ Start
      PROVE  ActiveJobs' \subseteq ActiveJobs /\ AdmittedRequests' \subseteq AdmittedRequests
  <2>1. AdmittedRequests' \subseteq AdmittedRequests
    <3>1. request' = request \/ request' = [q \in Requests |-> Idle]
      BY <1>7 DEF PurgeCommit, Crash, Start, requestVars
    <3> QED BY <3>1 DEF AdmittedRequests, Idle, Admitted
  <2>2. \A j \in Jobs : status'[j] \in {status[j], NoRow, "FAILED"}
    BY <1>7 DEF PurgeCommit, Crash, Start
  <2> QED BY <2>1, <2>2 DEF ActiveJobs, Active, NoRow
<1> QED BY <1>1, <1>2, <1>3, <1>4, <1>5, <1>6, <1>7 DEF Next

\* Concurrent requests exceed the limit by at most their number less one.
THEOREM LimitExceededByRaceOnly == Spec => []LimitUpToRace
<1>1. Init => LimitUpToRace
  <2> SUFFICES ASSUME Init PROVE LimitUpToRace
    OBVIOUS
  <2>1. {j \in Jobs : Active(j)} = {} /\ {q \in Requests : request[q] = Admitted} = {}
    BY DEF Init, Active, NoRow, Idle, Admitted
  <2>2. Cardinality({}) = 0
    BY FS_EmptySet
  <2> QED BY <2>1, <2>2, Finitely, ExportAssumption DEF LimitUpToRace
<1>2. IInv /\ LimitUpToRace /\ [Next]_vars => LimitUpToRace'
  <2> SUFFICES ASSUME IInv, LimitUpToRace, [Next]_vars PROVE LimitUpToRace'
    OBVIOUS
  <2>1. CASE \E q \in Requests : CheckLimit(q)
    BY <2>1, CheckLimitKeepsLimit
  <2>2. CASE \E q \in Requests : CreateJob(q)
    BY <2>2, CreateJobKeepsLimit
  <2>3. CASE \A q \in Requests : ~CheckLimit(q) /\ ~CreateJob(q)
    BY <2>3, OthersKeepLimit, FewerKeepLimit
  <2> QED BY <2>1, <2>2, <2>3
<1> QED BY <1>1, <1>2, Invariance, PTL DEF Spec
=============================================================================
