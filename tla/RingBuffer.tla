------------------------------ MODULE RingBuffer ------------------------------
(***************************************************************************)
(* The in-memory buffer of recent events (app/services/event_store.py): a  *)
(* deque with a maximum length whose append silently evicts the oldest     *)
(* entry, and a counter that numbers the entries from 1.                   *)
(***************************************************************************)
EXTENDS LogLines, Sequences

CONSTANTS
  Capacity      \* RING_BUFFER_MAX_EVENTS.

ASSUME CapacityAssumption == Capacity \in Nat \ {0}

VARIABLES
  buffer,       \* The deque, oldest entry first.
  latestId      \* The last id handed out, 0 before the first.

ringVars == <<buffer, latestId>>

StoredEvent == [id : Nat \ {0}, event : Lines]

RingTypeOK ==
  /\ buffer \in Seq(StoredEvent)
  /\ latestId \in Nat

RingInit ==
  /\ buffer = <<>>
  /\ latestId = 0

-----------------------------------------------------------------------------

\* Mutant of Numbered: itertools.count() without its start.
NumberedFromZero(events) ==
  [i \in 1..Len(events) |-> [id |-> latestId + i - 1, event |-> events[i]]]

\* The entries made for a list of events, numbered on from the last id.
Numbered(events) ==
  [i \in 1..Len(events) |-> [id |-> latestId + i, event |-> events[i]]]

\* Entries a deque with maxlen = Capacity drops and keeps, of a longer list.
Overrun(entries) == IF Len(entries) > Capacity THEN Len(entries) - Capacity ELSE 0

Keep(entries) == SubSeq(entries, Overrun(entries) + 1, Len(entries))

\* The entries that appending a list of events pushes out of the buffer.
EvictedBy(events) ==
  LET entries == buffer \o Numbered(events)
  IN  {entries[i] : i \in 1..Overrun(entries)}

\* append() once per event, in order: nothing else runs in between, because the
\* tailer's dispatch loop never awaits.
AppendAll(events) ==
  /\ buffer' = Keep(buffer \o Numbered(events))
  /\ latestId' = latestId + Len(events)

\* events_since(): walk back from the newest entry while its id is above lastId.
FirstNewer(lastId) ==
  CHOOSE i \in 1..Len(buffer) + 1 :
    /\ \A j \in i..Len(buffer) : buffer[j].id > lastId
    /\ i > 1 => buffer[i - 1].id <= lastId

EventsSince(lastId) == SubSeq(buffer, FirstNewer(lastId), Len(buffer))

-----------------------------------------------------------------------------

\* The entries are numbered without gaps up to latestId and never exceed the
\* capacity: what events_since(), which stops at the first old id, and
\* backlog_size, which subtracts ids, rely on.
RingConsecutive ==
  /\ Len(buffer) <= Capacity
  /\ Len(buffer) <= latestId
  /\ \A i \in 1..Len(buffer) : buffer[i].id = latestId - Len(buffer) + i
=============================================================================
