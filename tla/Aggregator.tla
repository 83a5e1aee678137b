------------------------------ MODULE Aggregator ------------------------------
(***************************************************************************)
(* The aggregator (app/services/aggregator.py): a task that, every         *)
(* AGGREGATION_INTERVAL_SECONDS, writes the buffered events it has not     *)
(* written yet to the database in one transaction.  flush() awaits between *)
(* taking its batch and committing it, between the commit and what it does *)
(* when back from it, and after that: the rest of the process runs in all  *)
(* three gaps.                                                             *)
(*                                                                         *)
(* The dozen aggregate tables are sums over the same events, upserted in   *)
(* the transaction that inserts the raw rows; they are abstracted to the   *)
(* number of times each line has been counted.                             *)
(***************************************************************************)
EXTENDS RingBuffer, FiniteSets

VARIABLES
  phase,        \* Where flush() is: "idle", "writing", "committed" (and not back
                \* from it), "insights" (_run_insights, after all the rest).
  batch,        \* The events it took from the buffer.
  lastFlushedId,\* _last_flushed_id.
  db            \* How often each line is counted in the database.

aggregatorVars == <<phase, batch, lastFlushedId, db>>

AggregatorTypeOK ==
  /\ phase \in {"idle", "writing", "committed", "insights"}
  /\ batch \in Seq(StoredEvent)
  /\ lastFlushedId \in Nat
  /\ db \in [Lines -> Nat]

AggregatorInit ==
  /\ phase = "idle"
  /\ batch = <<>>
  /\ lastFlushedId = 0
  /\ db = [line \in Lines |-> 0]

-----------------------------------------------------------------------------

\* events_likely_lost: by id arithmetic there should be more to write than the
\* buffer holds.
BacklogSize == IF latestId > lastFlushedId THEN latestId - lastFlushedId ELSE 0

\* Mutant of EventsLikelyLost: counting what events_since() still returns.
LikelyLostByCount == Len(EventsSince(lastFlushedId)) > Len(buffer)

EventsLikelyLost == BacklogSize > Len(buffer)

Occurrences(events, line) == Cardinality({i \in 1..Len(events) : events[i].event = line})

\* Mutant of FlushBegin: the events count as flushed as soon as they are taken.
FlushBeginEager ==
  /\ phase = "idle"
  /\ EventsSince(lastFlushedId) # <<>>
  /\ batch' = EventsSince(lastFlushedId)
  /\ phase' = "writing"
  /\ lastFlushedId' = latestId
  /\ UNCHANGED db

\* flush() up to its first await.  Nothing happens when there is nothing new.
FlushBegin ==
  /\ phase = "idle"
  /\ EventsSince(lastFlushedId) # <<>>
  /\ batch' = EventsSince(lastFlushedId)
  /\ phase' = "writing"
  /\ UNCHANGED <<lastFlushedId, db>>

\* The database commits the transaction.
FlushCommit ==
  /\ phase = "writing"
  /\ db' = [line \in Lines |-> db[line] + Occurrences(batch, line)]
  /\ phase' = "committed"
  /\ UNCHANGED <<batch, lastFlushedId>>

\* Mutant of FlushDone: the flush forgets to move on.
FlushDoneInPlace ==
  /\ phase = "committed"
  /\ phase' = "insights"
  /\ batch' = <<>>
  /\ UNCHANGED <<lastFlushedId, db>>

\* flush() back from the transaction: only now are the events behind it.
FlushDone ==
  /\ phase = "committed"
  /\ lastFlushedId' = batch[Len(batch)].id
  /\ phase' = "insights"
  /\ batch' = <<>>
  /\ UNCHANGED db

\* The insights providers are done, or one raised, which makes no difference.
FlushEnd ==
  /\ phase = "insights"
  /\ phase' = "idle"
  /\ UNCHANGED <<batch, lastFlushedId, db>>

\* Mutant of FlushRaises: nobody catches the exception and the task ends.
FlushRaisesUncaught ==
  /\ phase \in {"writing", "committed"}
  /\ phase' = "dead"
  /\ batch' = <<>>
  /\ UNCHANGED <<lastFlushedId, db>>

\* flush() raises, before the commit (rolled back) or after it (the answer to
\* the commit is lost, or closing the session fails).  Either way it is caught
\* and the next interval takes the same events again.
FlushRaises ==
  /\ phase \in {"writing", "committed"}
  /\ phase' = "idle"
  /\ batch' = <<>>
  /\ UNCHANGED <<lastFlushedId, db>>

\* A restarted process counts from 0 again; the database stays.
LoseAggregator ==
  /\ phase' = "idle"
  /\ batch' = <<>>
  /\ lastFlushedId' = 0
  /\ UNCHANGED db
=============================================================================
