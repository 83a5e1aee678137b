-------------------------------- MODULE Ingest --------------------------------
(***************************************************************************)
(* From access log to database: the tailers, the ring buffer and the       *)
(* aggregator in one process, wired as app/main.py wires them, with the    *)
(* process crashing, stopping gracefully and starting again, and the log   *)
(* being written and rotated meanwhile.                                    *)
(***************************************************************************)
EXTENDS LogTailer, Aggregator

CONSTANTS
  MaxCrash,     \* Crashes.  Bounds the model.
  MaxStop,      \* Graceful stops.  Bounds the model.
  MaxFault      \* Raised exceptions and expired timeouts.  Bounds the model.

VARIABLES
  mode,         \* The process: "down", "up", "stopping" (its tailers),
                \* "closing" (the aggregator), "final" (its last flush).
  running,      \* The sources whose tailer task has not been stopped.
  lost,         \* History: lines dropped by the buffer, a crash or a stop.
  crashes, stops, faults

ASSUME IngestBoundsAssumption ==
  /\ MaxCrash \in Nat /\ MaxStop \in Nat /\ MaxFault \in Nat

processVars == <<mode, running, crashes, stops, faults>>

vars == <<logVars, tailerVars, ringVars, aggregatorVars, processVars, lost>>

Causes == {"overflow", "crash", "stop"}

TypeOK ==
  /\ LogTypeOK
  /\ TailerTypeOK
  /\ RingTypeOK
  /\ AggregatorTypeOK
  /\ mode \in {"down", "up", "stopping", "closing", "final"}
  /\ running \in SUBSET Sources
  /\ lost \in [Causes -> SUBSET Lines]
  /\ crashes \in 0..MaxCrash
  /\ stops \in 0..MaxStop
  /\ faults \in 0..MaxFault

Init ==
  /\ LogInit
  /\ TailerInit
  /\ RingInit
  /\ AggregatorInit
  /\ mode = "down"
  /\ running = {}
  /\ lost = [c \in Causes |-> {}]
  /\ crashes = 0
  /\ stops = 0
  /\ faults = 0

-----------------------------------------------------------------------------

Fault == faults < MaxFault /\ faults' = faults + 1

Lose(cause, lines) == lost' = [lost EXCEPT ![cause] = @ \cup lines]

\* Events that leave memory without having been written: not yet flushed, and
\* not in the hands of the flush under way.
Unflushed(entries) ==
  {n.event : n \in {n \in entries :
     n.id > lastFlushedId /\ \A i \in 1..Len(batch) : batch[i] # n}}

Log(s) ==
  /\ LogNext(s)
  /\ UNCHANGED <<tailerVars, ringVars, aggregatorVars, processVars, lost>>

-----------------------------------------------------------------------------
(* Polling.  A tailer told to stop ends the poll it is in and begins none. *)

Read(s) ==
  /\ mode = "up"
  /\ PollRead(s)
  /\ UNCHANGED <<logVars, ringVars, aggregatorVars, processVars, lost>>

Missing(s) ==
  /\ mode = "up"
  /\ PollMissing(s)
  /\ UNCHANGED <<logVars, ringVars, aggregatorVars, processVars, lost>>

Raise(s) ==
  /\ mode = "up"
  /\ Fault
  /\ PollRaises(s)
  /\ UNCHANGED <<logVars, ringVars, aggregatorVars, mode, running, crashes, stops, lost>>

\* The dispatch loop of poll_once() with main.py's _handle_new_event as
\* on_event, then the snapshot: no await in between.
Dispatch(s) ==
  /\ s \in running
  /\ polling[s]
  /\ AppendAll(result[s].events)
  /\ Lose("overflow", Unflushed(EvictedBy(result[s].events)))
  /\ Snapshot(s)
  /\ UNCHANGED <<logVars, aggregatorVars, processVars>>

-----------------------------------------------------------------------------
(* Flushing.                                                               *)

BeginFlush ==
  /\ mode \in {"up", "stopping"}
  /\ FlushBegin
  /\ UNCHANGED <<logVars, tailerVars, ringVars, processVars, lost>>

CommitFlush ==
  /\ FlushCommit
  /\ UNCHANGED <<logVars, tailerVars, ringVars, processVars, lost>>

\* _last_flushed_id moves on and on_flush_committed checkpoints every tailer;
\* a state file that cannot be written is skipped.
FinishFlush ==
  /\ FlushDone
  /\ \E S \in SUBSET Sources :
       /\ IF S = Sources THEN UNCHANGED faults ELSE Fault
       /\ CheckpointAll(S)
  /\ UNCHANGED <<logVars, handle, polling, result, readState, consumed, skipped>>
  /\ UNCHANGED <<ringVars, mode, running, crashes, stops, lost>>

EndFlush ==
  /\ FlushEnd
  /\ UNCHANGED <<logVars, tailerVars, ringVars, processVars, lost>>

\* Of a batch that was rolled back, what the buffer evicted meanwhile is gone.
FailFlush ==
  /\ Fault
  /\ FlushRaises
  /\ IF phase = "committed"
       THEN UNCHANGED lost
       ELSE Lose("overflow", {batch[i].event : i \in
                   {i \in 1..Len(batch) : batch[i].id <= latestId - Len(buffer)}})
  /\ UNCHANGED <<logVars, tailerVars, ringVars, mode, running, crashes, stops>>

-----------------------------------------------------------------------------
(* The process.                                                            *)

Start ==
  /\ mode = "down"
  /\ mode' = "up"
  /\ running' = Sources
  /\ UNCHANGED <<logVars, tailerVars, ringVars, aggregatorVars, crashes, stops, faults, lost>>

\* What the state file says is behind the tailer and is nowhere to be found.
Unaccounted ==
  {line \in Lines :
     /\ 2 * line[2] <= persistedAt[line[1]]
     /\ db[line] = 0
     /\ line \notin skipped
     /\ \A c \in Causes : line \notin lost[c]}

\* Memory is gone; the database, the state files and the logs stay.
Exit(cause) ==
  /\ mode' = "down"
  /\ running' = {}
  /\ LoseTailers
  /\ LoseAggregator
  /\ buffer' = <<>>
  /\ latestId' = 0
  /\ Lose(cause, Unaccounted)
  /\ UNCHANGED logVars

Crash ==
  /\ mode # "down"
  /\ crashes < MaxCrash
  /\ crashes' = crashes + 1
  /\ Exit("crash")
  /\ UNCHANGED <<stops, faults>>

\* Graceful shutdown, in main.py's order: every tailer, then the aggregator.
Shutdown ==
  /\ mode = "up"
  /\ stops < MaxStop
  /\ stops' = stops + 1
  /\ mode' = "stopping"
  /\ UNCHANGED <<logVars, tailerVars, ringVars, aggregatorVars, running, crashes, faults, lost>>

StopTailer(s) ==
  /\ mode = "stopping"
  /\ s \in running
  /\ running' = running \ {s}
  /\ \E S \in SUBSET {s} :
       /\ IF polling[s] \/ S = {} THEN Fault ELSE UNCHANGED faults
       /\ CloseTailer(s, S)
  /\ UNCHANGED <<logVars, ringVars, aggregatorVars, mode, crashes, stops, lost>>

\* Mutant of StopAggregator: the aggregator is stopped beside the tailers.
StopAggregatorEarly ==
  /\ mode = "stopping"
  /\ running # Sources
  /\ mode' = "closing"
  /\ UNCHANGED <<logVars, tailerVars, ringVars, aggregatorVars>>
  /\ UNCHANGED <<running, crashes, stops, faults, lost>>

StopAggregator ==
  /\ mode = "stopping"
  /\ running = {}
  /\ mode' = "closing"
  /\ UNCHANGED <<logVars, tailerVars, ringVars, aggregatorVars>>
  /\ UNCHANGED <<running, crashes, stops, faults, lost>>

\* A flush already under way ends first; then comes the final one.
FinalFlush ==
  /\ mode = "closing"
  /\ phase = "idle"
  /\ mode' = "final"
  /\ FlushBegin \/ (EventsSince(lastFlushedId) = <<>> /\ UNCHANGED aggregatorVars)
  /\ UNCHANGED <<logVars, tailerVars, ringVars, running, crashes, stops, faults, lost>>

Stopped ==
  /\ mode = "final"
  /\ phase = "idle"
  /\ Exit("stop")
  /\ UNCHANGED <<crashes, stops, faults>>

\* The aggregator does not end within stop()'s 10 s and is cancelled, in its
\* final flush or in the one before it.
CancelFlush ==
  /\ mode \in {"closing", "final"}
  /\ phase # "idle"
  /\ Fault
  /\ Exit("stop")
  /\ UNCHANGED <<crashes, stops>>

Next ==
  \/ \E s \in Sources :
       \/ Log(s)
       \/ Read(s) \/ Missing(s) \/ Raise(s) \/ Dispatch(s)
       \/ StopTailer(s)
  \/ BeginFlush \/ CommitFlush \/ FinishFlush \/ EndFlush \/ FailFlush
  \/ Start \/ Crash \/ Shutdown \/ StopAggregator \/ FinalFlush
  \/ Stopped \/ CancelFlush

Spec == Init /\ [][Next]_vars

\* The event loop keeps running its tasks and a supervisor restarts the process.
\* Outside, a rotation that began is completed and so is a line that was begun.
\* Nothing is assumed of crashes and faults, nor that anything more is written.
Fairness ==
  /\ \A s \in Sources :
       /\ WF_vars(Read(s))
       /\ WF_vars(Dispatch(s))
       /\ WF_vars(StopTailer(s))
       /\ WF_vars(written[s] % 2 = 1 /\ Write(s) /\ Log(s))
       /\ WF_vars(Create(s) /\ Log(s))
       /\ WF_vars(Reopen(s) /\ Log(s))
  /\ WF_vars(BeginFlush) /\ WF_vars(CommitFlush) /\ WF_vars(FinishFlush) /\ WF_vars(EndFlush)
  /\ WF_vars(Start) /\ WF_vars(StopAggregator) /\ WF_vars(FinalFlush)
  /\ WF_vars(Stopped)

FairSpec == Spec /\ Fairness

-----------------------------------------------------------------------------
(* Properties.                                                             *)

Stored(line) == db[line] > 0

\* In memory, and due to be written by this or a later flush.
Pending(line) ==
  \/ \E i \in 1..Len(buffer) :
       buffer[i].event = line /\ buffer[i].id > lastFlushedId
  \/ \E i \in 1..Len(batch) : batch[i].event = line

WrittenOff(line) == line \in skipped \/ \E c \in Causes : line \in lost[c]

\* Every line a tailer has moved past is in the database, on its way there, or
\* on record as skipped or lost.  Nothing disappears in between: not while a
\* flush holds a batch the buffer has evicted, not when it is rolled back, not
\* when the position is taken from a state file.
Accounted ==
  \A s \in Sources, l \in 1..MaxLine :
    2 * l <= consumed[s] =>
      Stored(<<s, l>>) \/ Pending(<<s, l>>) \/ WrittenOff(<<s, l>>)

\* The buffer numbers its entries without gaps (see RingBuffer).
BufferConsecutive == RingConsecutive

\* A line is counted again only after a crash or an exception: polls never read
\* a line twice, a flush never takes an event the previous one committed, and a
\* graceful stop and start resumes exactly behind what was written.  A crash or
\* a failed poll or checkpoint may have the line read once more; n of the faults
\* are commits whose answer was lost, and each may count every copy once more.
CountedOncePerLife ==
  \A line \in Lines : \E n \in 0..faults :
    db[line] <= (1 + crashes + faults - n) * (1 + n)

\* A graceful stop without an exception or an expired timeout leaves nothing
\* read but unwritten: tailers first, aggregator last, final flush at the end.
CleanStopLosesNothing == faults = 0 => lost["stop"] = {}

\* The line's first half lies before the point where tailing began.
JoinedMidLine(s, l) ==
  LET h == IF handle[s] = Closed THEN persisted[s] ELSE handle[s]
  IN  h # Closed /\ h.partial = 0 /\ base[s][h.inode] + h.off = 2 * l - 1

\* The file being read was truncated without the tailer being able to see it:
\* it has grown past the old offset since, or is no longer at the path.  The
\* position, or the partial line in memory, then belongs to text that is gone.
CutUnseen(s) ==
  LET h == IF handle[s] = Closed THEN persisted[s] ELSE handle[s]
      at == IF handle[s] = Closed THEN persistedAt[s] ELSE consumed[s]
  IN  /\ h # Closed
      /\ base[s][h.inode] + h.off # at \/ h.partial \notin {0, at}
      /\ h.inode = path[s] => h.off <= Size(s, path[s])

\* A poll passes over a line only if no file it can reach holds it any more.
\* The exceptions are the documented one, what stood in the log before the
\* first run, and a truncation that cannot be seen.  In particular a line read
\* in two halves, by two polls or by two runs of the process, is not skipped.
SkipsOnlyTheUnreadable ==
  [][\A s \in Sources : ~polling[s] /\ polling'[s] =>
       \A l \in 1..MaxLine : <<s, l>> \in result'[s].skip =>
         \/ ~InFile(s, path[s], l) /\ ~InFile(s, handle[s].inode, l)
         \/ handle[s] = Closed /\ persisted[s] = Closed
         \/ JoinedMidLine(s, l)
         \/ CutUnseen(s)]_vars

\* No event leaves the buffer unwritten without events_likely_lost turning true
\* (ARCHITECTURE.md: "observable instead of a silent data loss").
OverflowIsNoticed ==
  [][lost'["overflow"] # lost["overflow"] => EventsLikelyLost']_vars

\* Every complete line is, in the end, counted or written off.
EventuallyHandled ==
  \A s \in Sources, l \in 1..MaxLine :
    Complete(s, l) ~> (Stored(<<s, l>>) \/ WrittenOff(<<s, l>>))

-----------------------------------------------------------------------------
(* What the documentation says and the code does not keep.                 *)

\* log_tailer.py:48-52: after a crash events are "read again and double-counted
\* on restart, not silently dropped".
CrashLosesNothing == lost["crash"] = {}
=============================================================================
