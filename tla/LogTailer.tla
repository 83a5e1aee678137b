------------------------------ MODULE LogTailer ------------------------------
(***************************************************************************)
(* The log tailers (app/services/log_tailer.py), one per source.           *)
(*                                                                         *)
(* A poll has two halves: a worker thread stats, opens, reads and parses   *)
(* (_poll_once_sync), then the event loop hands the parsed events on and   *)
(* snapshots the read position (the rest of poll_once).  Everything else   *)
(* on the event loop may run between the two.  checkpoint() writes the     *)
(* snapshot, not the live position, to the state file.                     *)
(*                                                                         *)
(* Text is abstracted to the half-lines of AccessLog: the partial line a   *)
(* tailer holds in memory is 0 (none), the stream position of the half it  *)
(* has read, or Garbled for halves of different lines run together.  A     *)
(* record put together from two different lines does not parse and yields  *)
(* no event.                                                               *)
(***************************************************************************)
EXTENDS AccessLog, Sequences

VARIABLES
  handle,       \* (_inode, _fh.tell(), _partial), or Closed while _fh is None.
  polling,      \* The worker thread is done; its result is not dispatched yet.
  result,       \* What the worker thread returned.
  readState,    \* _last_read_state, Closed for None.
  persisted,    \* The state file, Closed if there is none.
  consumed,     \* History: stream position up to which lines were handed on.
  persistedAt,  \* History: `consumed` when the state file was last written.
  skipped       \* History: lines moved past without handing them on.

tailerVars ==
  <<handle, polling, result, readState, persisted, consumed, persistedAt, skipped>>

Garbled == -1
Closed  == [inode |-> NoFile, off |-> 0, partial |-> 0]
Nothing == [events |-> <<>>, skip |-> {}, at |-> 0]

Position ==
  [inode : Inodes \cup {NoFile}, off : 0..2 * MaxLine, partial : -1..2 * MaxLine]

PollResult ==
  [events : Seq(Lines), skip : SUBSET Lines, at : 0..2 * MaxLine]

TailerTypeOK ==
  /\ handle \in [Sources -> Position]
  /\ polling \in [Sources -> BOOLEAN]
  /\ result \in [Sources -> PollResult]
  /\ readState \in [Sources -> Position]
  /\ persisted \in [Sources -> Position]
  /\ consumed \in [Sources -> 0..2 * MaxLine]
  /\ persistedAt \in [Sources -> 0..2 * MaxLine]
  /\ skipped \in SUBSET Lines

TailerInit ==
  /\ handle = [s \in Sources |-> Closed]
  /\ polling = [s \in Sources |-> FALSE]
  /\ result = [s \in Sources |-> Nothing]
  /\ readState = [s \in Sources |-> Closed]
  /\ persisted = [s \in Sources |-> Closed]
  /\ consumed = [s \in Sources |-> 0]
  /\ persistedAt = [s \in Sources |-> 0]
  /\ skipped = {}

-----------------------------------------------------------------------------
(* Splitting what was read into lines (_flush_complete_lines).             *)

\* The first line that reading on from position a completes as a record that
\* parses, given the partial line p in memory.  A tail without its head, or a
\* head glued to something else, spoils the record it completes.
FirstWhole(a, p) ==
  IF a % 2 = 1
    THEN (a + 1) \div 2 + (IF p = a THEN 0 ELSE 1)
    ELSE a \div 2 + (IF p = 0 THEN 1 ELSE 2)

\* The events in positions a+1 .. b, in order.
LinesRead(s, a, b, p) ==
  LET first == FirstWhole(a, p)
      last  == b \div 2
  IN  IF first <= last THEN [i \in 1..last - first + 1 |-> <<s, first + i - 1>>]
                       ELSE <<>>

\* The partial line left over.
PartialAfter(a, b, p) ==
  CASE b <= a                         -> p
    [] b > a /\ b % 2 = 0             -> 0
    [] b > a /\ b % 2 = 1 /\ b = a + 1 /\ p # 0 -> Garbled
    [] OTHER                          -> b

-----------------------------------------------------------------------------
(* One poll.                                                               *)

\* Mutant of OpenInitial: only the offset is taken from the state file.
OpenWithoutPartial(s) ==
  CASE persisted[s].inode = path[s] ->
         [inode |-> path[s], off |-> persisted[s].off, partial |-> 0]
    [] persisted[s] = Closed ->
         [inode |-> path[s], off |-> Size(s, path[s]), partial |-> 0]
    [] OTHER ->
         [inode |-> path[s], off |-> 0, partial |-> 0]

\* _open_initial(): resume in the same file, start over in another one, or, on
\* the very first run, skip what is already there.
OpenInitial(s) ==
  CASE persisted[s].inode = path[s] -> persisted[s]
    [] persisted[s] = Closed ->
         [inode |-> path[s], off |-> Size(s, path[s]), partial |-> 0]
    [] OTHER ->
         [inode |-> path[s], off |-> 0, partial |-> 0]

Opened(s) == IF handle[s].inode = NoFile THEN OpenInitial(s) ELSE handle[s]

\* A different inode stands at the path: create rotation.
Rotated(s) == Opened(s).inode # path[s]

\* The file is shorter than what was read of it: copytruncate rotation.
Shrunk(s) == ~Rotated(s) /\ Size(s, path[s]) < Opened(s).off

\* Where reading the file at the path begins.
ReadFrom(s) ==
  IF Rotated(s) \/ Shrunk(s)
    THEN [inode |-> path[s], off |-> 0, partial |-> 0]
    ELSE Opened(s)

\* What is still unread in the old file when a rotation is noticed.
Drained(s) ==
  LET h == Opened(s)
  IN  IF Rotated(s)
        THEN LinesRead(s, base[s][h.inode] + h.off, top[s][h.inode], h.partial)
        ELSE <<>>

EventsRead(s) ==
  LET h == ReadFrom(s)
  IN  Drained(s) \o LinesRead(s, base[s][path[s]] + h.off, top[s][path[s]], h.partial)

Later(m, n) == IF m >= n THEN m ELSE n

\* How far the stream is accounted for after this poll.
ReadUpTo(s) ==
  LET drainedTo == IF Rotated(s) THEN top[s][Opened(s).inode] ELSE 0
  IN  Later(consumed[s], Later(drainedTo, top[s][path[s]]))

\* The lines this poll passes over for good.
PassedOver(s) ==
  {line \in Lines :
     /\ line[1] = s
     /\ consumed[s] < 2 * line[2] /\ 2 * line[2] <= ReadUpTo(s)
     /\ \A i \in 1..Len(EventsRead(s)) : EventsRead(s)[i] # line}

\* _poll_once_sync() with a file at the path.
PollRead(s) ==
  /\ ~polling[s]
  /\ path[s] # NoFile
  /\ LET h == ReadFrom(s)
         a == base[s][path[s]] + h.off
         b == top[s][path[s]]
     IN  handle' = [handle EXCEPT ![s] =
           [inode |-> path[s], off |-> Size(s, path[s]),
            partial |-> PartialAfter(a, b, h.partial)]]
  /\ result' = [result EXCEPT ![s] =
       [events |-> EventsRead(s), skip |-> PassedOver(s), at |-> ReadUpTo(s)]]
  /\ polling' = [polling EXCEPT ![s] = TRUE]
  /\ UNCHANGED <<readState, persisted, consumed, persistedAt, skipped>>

\* _poll_once_sync() without one: the handle is closed, nothing is dispatched.
PollMissing(s) ==
  /\ ~polling[s]
  /\ path[s] = NoFile
  /\ handle[s] # Closed
  /\ handle' = [handle EXCEPT ![s] = Closed]
  /\ UNCHANGED <<polling, result, readState, persisted, consumed, persistedAt, skipped>>

\* _poll_once_sync() raises (a permission, an I/O error, the new file gone
\* again after the old one was drained): what it had read is dropped with the
\* handle.
PollRaises(s) ==
  /\ ~polling[s]
  /\ handle[s] # Closed
  /\ handle' = [handle EXCEPT ![s] = Closed]
  /\ UNCHANGED <<polling, result, readState, persisted, consumed, persistedAt, skipped>>

\* Back on the event loop: every event goes to on_event (the ring buffer, see
\* Ingest), then the position is snapshotted.
Snapshot(s) ==
  /\ polling[s]
  /\ readState' = [readState EXCEPT ![s] = handle[s]]
  /\ consumed' = [consumed EXCEPT ![s] = result[s].at]
  /\ skipped' = skipped \cup result[s].skip
  /\ polling' = [polling EXCEPT ![s] = FALSE]
  /\ result' = [result EXCEPT ![s] = Nothing]
  /\ UNCHANGED <<handle, persisted, persistedAt>>

-----------------------------------------------------------------------------

\* checkpoint() of the tailers in S; the others' state file could not be
\* written, which is logged and forgotten.
CheckpointAll(S) ==
  /\ persisted' = [s \in Sources |->
       IF s \in S /\ readState[s] # Closed THEN readState[s] ELSE persisted[s]]
  /\ persistedAt' = [s \in Sources |->
       IF s \in S /\ readState[s] # Closed THEN consumed[s] ELSE persistedAt[s]]

\* The end of stop(): checkpoint, then close.  A poll that outlasts the 5 s
\* timeout is cancelled, and its result dropped.  S is {s}, or {} if the state
\* file could not be written.
CloseTailer(s, S) ==
  /\ CheckpointAll(S)
  /\ handle' = [handle EXCEPT ![s] = Closed]
  /\ polling' = [polling EXCEPT ![s] = FALSE]
  /\ result' = [result EXCEPT ![s] = Nothing]
  /\ UNCHANGED <<readState, consumed, skipped>>

\* The process is gone; the state file is what is left of a tailer.
LoseTailers ==
  /\ handle' = [s \in Sources |-> Closed]
  /\ polling' = [s \in Sources |-> FALSE]
  /\ result' = [s \in Sources |-> Nothing]
  /\ readState' = [s \in Sources |-> Closed]
  /\ consumed' = persistedAt
  /\ UNCHANGED <<persisted, persistedAt, skipped>>
=============================================================================
