----------------------------- MODULE IngestProofs -----------------------------
(***************************************************************************)
(* Proofs about Ingest, for every number of sources, lines, rotations,     *)
(* crashes, stops and faults and every capacity of the ring buffer.        *)
(* Nothing disappears unrecorded; then how often a line can be counted,    *)
(* that a clean stop loses nothing, and what a poll may pass over.         *)
(***************************************************************************)
EXTENDS Ingest, TLAPS, SequenceTheorems, FiniteSetTheorems

-----------------------------------------------------------------------------
(* The log files.                                                          *)

\* The writer's file ends where the stream ends, and no file ends before it
\* begins.
LogInv ==
  \A s \in Sources :
    /\ top[s][writer[s]] = written[s]
    /\ \A i \in Inodes : base[s][i] <= top[s][i] /\ top[s][i] <= written[s]

\* The log is well formed at the start.
LEMMA LogInitInv == Init => LogTypeOK /\ LogInv
  BY LogBoundsAssumption, SourcesAssumption
  DEF Init, LogInit, LogTypeOK, LogInv, Inodes, NoFile

\* Writing, renaming, replacing and truncating keep it well formed.
LEMMA LogStepInv ==
  ASSUME LogTypeOK, LogInv, NEW s \in Sources, LogNext(s)
  PROVE  LogTypeOK' /\ LogInv'
<1> USE SourcesAssumption
<1>w. /\ written[s] \in 0..2 * MaxLine
      /\ writer[s] \in Inodes
      /\ path[s] \in Inodes \cup {NoFile}
      /\ base \in [Sources -> [Inodes -> 0..2 * MaxLine]]
      /\ top \in [Sources -> [Inodes -> 0..2 * MaxLine]]
  BY DEF LogTypeOK
<1>c. created[s] \in Inodes
  BY DEF LogTypeOK
<1>1. CASE Write(s)
  <2>1. written[s] + 1 \in 0..2 * MaxLine
    BY <1>1, <1>w DEF Write
  <2>2. /\ top' \in [Sources -> [Inodes -> 0..2 * MaxLine]]
        /\ \A t \in Sources, j \in Inodes :
             top'[t][j] = IF t = s /\ j = writer[s] THEN written[s] + 1 ELSE top[t][j]
    BY <1>1, <1>w, <2>1 DEF Write
  <2>3. LogTypeOK'
    BY <1>1, <2>1, <2>2 DEF Write, LogTypeOK
  <2>4. LogInv'
    BY <1>1, <1>w, <2>1, <2>2 DEF Write, LogInv, LogTypeOK
  <2> QED BY <2>3, <2>4
<1>2. CASE Rename(s)
  BY <1>2 DEF Rename, LogInv, LogTypeOK, NoFile
<1>3. CASE NewFile(s)
  <2> DEFINE i == created[s] + 1
  <2>0. created[s] < MaxInode
    BY <1>3 DEF NewFile
  <2>1. i \in Inodes
    BY <2>0, <1>c, LogBoundsAssumption DEF Inodes
  <2>2. /\ top' \in [Sources -> [Inodes -> 0..2 * MaxLine]]
        /\ \A t \in Sources, j \in Inodes :
             top'[t][j] = IF t = s /\ j = i THEN written[s] ELSE top[t][j]
    BY <1>3, <1>w, <2>1 DEF NewFile
  <2>3. /\ base' \in [Sources -> [Inodes -> 0..2 * MaxLine]]
        /\ \A t \in Sources, j \in Inodes :
             base'[t][j] = IF t = s /\ j = i THEN written[s] ELSE base[t][j]
    BY <1>3, <1>w, <2>1 DEF NewFile
  <2>4. LogTypeOK'
    BY <1>3, <2>1, <2>2, <2>3 DEF NewFile, LogTypeOK
  <2>5. LogInv'
    BY <1>3, <1>w, <2>1, <2>2, <2>3 DEF NewFile, LogInv, LogTypeOK
  <2> QED BY <2>4, <2>5
<1>4. CASE Reopen(s)
  <2>1. path[s] \in Inodes
    BY <1>4, <1>w DEF Reopen
  <2>2. /\ top' \in [Sources -> [Inodes -> 0..2 * MaxLine]]
        /\ \A t \in Sources, j \in Inodes :
             top'[t][j] = IF t = s /\ j = path[s] THEN written[s] ELSE top[t][j]
    BY <1>4, <1>w, <2>1 DEF Reopen
  <2>3. /\ base' \in [Sources -> [Inodes -> 0..2 * MaxLine]]
        /\ \A t \in Sources, j \in Inodes :
             base'[t][j] = IF t = s /\ j = path[s] THEN written[s] ELSE base[t][j]
    BY <1>4, <1>w, <2>1 DEF Reopen
  <2>4. LogTypeOK'
    BY <1>4, <2>1, <2>2, <2>3 DEF Reopen, LogTypeOK
  <2>5. LogInv'
    BY <1>4, <1>w, <2>1, <2>2, <2>3 DEF Reopen, LogInv, LogTypeOK
  <2> QED BY <2>4, <2>5
<1>5. CASE Truncate(s)
  <2>1. path[s] \in Inodes /\ path[s] = writer[s]
    BY <1>5, <1>w DEF Truncate
  <2>2. /\ base' \in [Sources -> [Inodes -> 0..2 * MaxLine]]
        /\ \A t \in Sources, j \in Inodes :
             base'[t][j] = IF t = s /\ j = path[s] THEN written[s] ELSE base[t][j]
    BY <1>5, <1>w, <2>1 DEF Truncate
  <2>3. truncated' \in [Sources -> 0..MaxTruncate]
    BY <1>5, LogBoundsAssumption DEF Truncate, LogTypeOK
  <2>4. LogTypeOK'
    BY <1>5, <2>2, <2>3 DEF Truncate, LogTypeOK
  <2>5. LogInv'
    BY <1>5, <1>w, <2>1, <2>2 DEF Truncate, LogInv, LogTypeOK
  <2> QED BY <2>4, <2>5
<1>6. QED
  BY <1>1, <1>2, <1>3, <1>4, <1>5 DEF LogNext, Create, Replace

-----------------------------------------------------------------------------
(* Sequences: what the buffer holds after a dispatch.                      *)

\* Numbering a list gives as many entries, each with the next id.
LEMMA NumberedEntries ==
  ASSUME RingTypeOK, NEW events \in Seq(Lines)
  PROVE  /\ Numbered(events) \in Seq(StoredEvent)
         /\ Len(Numbered(events)) = Len(events)
         /\ \A i \in 1..Len(events) :
              /\ Numbered(events)[i].id = latestId + i
              /\ Numbered(events)[i].event = events[i]
<1>1. \A i \in 1..Len(events) :
        [id |-> latestId + i, event |-> events[i]] \in StoredEvent
  BY DEF RingTypeOK, StoredEvent
<1>2. QED
  BY <1>1 DEF Numbered

\* The entries of the buffer followed by the new ones: the old ones keep their
\* place and all are numbered without a gap.
LEMMA AllEntries ==
  ASSUME RingTypeOK, RingConsecutive, NEW events \in Seq(Lines),
         NEW entries, entries = buffer \o Numbered(events)
  PROVE  /\ entries \in Seq(StoredEvent)
         /\ Len(entries) = Len(buffer) + Len(events)
         /\ \A i \in 1..Len(buffer) : entries[i] = buffer[i]
         /\ \A i \in 1..Len(events) : entries[Len(buffer) + i].event = events[i]
         /\ \A i \in 1..Len(entries) : entries[i].id = latestId - Len(buffer) + i
<1>1. /\ Numbered(events) \in Seq(StoredEvent)
      /\ Len(Numbered(events)) = Len(events)
      /\ \A i \in 1..Len(events) :
           /\ Numbered(events)[i].id = latestId + i
           /\ Numbered(events)[i].event = events[i]
  BY NumberedEntries
<1>2. buffer \in Seq(StoredEvent) /\ latestId \in Nat
  BY DEF RingTypeOK
<1>3. /\ entries \in Seq(StoredEvent)
      /\ Len(entries) = Len(buffer) + Len(events)
      /\ \A i \in 1..Len(entries) :
           entries[i] = IF i <= Len(buffer) THEN buffer[i]
                                            ELSE Numbered(events)[i - Len(buffer)]
  <2> DEFINE new == Numbered(events)
  <2> HIDE DEF new
  <2>1. new \in Seq(StoredEvent) /\ Len(new) = Len(events)
    BY <1>1 DEF new
  <2>2. /\ buffer \o new \in Seq(StoredEvent)
        /\ Len(buffer \o new) = Len(buffer) + Len(new)
        /\ \A i \in 1..Len(buffer) + Len(new) :
             (buffer \o new)[i] = IF i <= Len(buffer) THEN buffer[i] ELSE new[i - Len(buffer)]
    BY <1>2, <2>1, ConcatProperties
  <2> QED BY <2>1, <2>2 DEF new
<1>4. Len(buffer) \in Nat /\ Len(events) \in Nat
  BY <1>2
<1>5. \A i \in 1..Len(buffer) : entries[i] = buffer[i]
  BY <1>3, <1>4
<1>6. \A i \in 1..Len(events) : entries[Len(buffer) + i].event = events[i]
  BY <1>1, <1>3, <1>4
<1>7. ASSUME NEW i \in 1..Len(entries)
      PROVE  entries[i].id = latestId - Len(buffer) + i
  <2>1. CASE i <= Len(buffer)
    BY <1>5, <1>4, <2>1 DEF RingConsecutive
  <2>2. CASE i > Len(buffer)
    <3>1. i - Len(buffer) \in 1..Len(events)
      BY <1>3, <1>4, <2>2
    <3>2. entries[i].id = latestId + (i - Len(buffer))
      BY <1>1, <1>3, <1>4, <2>2, <3>1
    <3> QED BY <3>2, <1>2, <1>4
  <2> QED BY <2>1, <2>2, <1>3, <1>4
<1> QED BY <1>3, <1>5, <1>6, <1>7

\* A full buffer drops its oldest entries and keeps the rest in order.
LEMMA KeepEntries ==
  ASSUME NEW entries \in Seq(StoredEvent)
  PROVE  /\ Overrun(entries) \in 0..Len(entries)
         /\ Keep(entries) \in Seq(StoredEvent)
         /\ Len(Keep(entries)) = Len(entries) - Overrun(entries)
         /\ Len(Keep(entries)) <= Capacity
         /\ Overrun(entries) > 0 => Len(Keep(entries)) = Capacity
         /\ \A i \in 1..Len(Keep(entries)) :
              Keep(entries)[i] = entries[Overrun(entries) + i]
<1>1. /\ Overrun(entries) \in 0..Len(entries)
      /\ Len(entries) - Overrun(entries) <= Capacity
      /\ Overrun(entries) > 0 => Len(entries) - Overrun(entries) = Capacity
  BY CapacityAssumption DEF Overrun
<1>2. /\ Keep(entries) \in Seq(StoredEvent)
      /\ Len(Keep(entries)) = Len(entries) - Overrun(entries)
      /\ \A i \in 1..Len(Keep(entries)) :
           Keep(entries)[i] = entries[Overrun(entries) + i]
  BY <1>1, SubSeqProperties DEF Keep
<1> QED BY <1>1, <1>2

\* After a dispatch, the buffer holds consecutive ids again, the entries it kept
\* are where their ids say, and the ones it dropped are below them.
LEMMA AppendAllRing ==
  ASSUME RingTypeOK, RingConsecutive, NEW events \in Seq(Lines), AppendAll(events)
  PROVE  /\ RingTypeOK'
         /\ RingConsecutive'
         /\ latestId' = latestId + Len(events)
         /\ latestId - Len(buffer) <= latestId' - Len(buffer')
         /\ \A n \in EvictedBy(events) : n.id <= latestId' - Len(buffer')
         /\ \A i \in 1..Len(buffer) :
              \/ buffer[i] \in EvictedBy(events)
              \/ \E j \in 1..Len(buffer') : buffer'[j] = buffer[i]
         /\ \A j \in 1..Len(buffer') :
              \/ buffer'[j].id > latestId
              \/ \E i \in 1..Len(buffer) : buffer[i] = buffer'[j]
         /\ \A i \in 1..Len(events) :
              \E n \in EvictedBy(events) \cup {buffer'[j] : j \in 1..Len(buffer')} :
                n.event = events[i] /\ n.id > latestId
<1> DEFINE entries == buffer \o Numbered(events)
           k == Overrun(entries)
<1>1. /\ entries \in Seq(StoredEvent)
      /\ Len(entries) = Len(buffer) + Len(events)
      /\ \A i \in 1..Len(buffer) : entries[i] = buffer[i]
      /\ \A i \in 1..Len(events) : entries[Len(buffer) + i].event = events[i]
      /\ \A i \in 1..Len(entries) : entries[i].id = latestId - Len(buffer) + i
  BY AllEntries
<1>2. /\ latestId \in Nat /\ Len(buffer) \in Nat /\ Len(events) \in Nat
      /\ Len(buffer) <= latestId
  BY DEF RingTypeOK, RingConsecutive
<1>3. latestId' = latestId + Len(events) /\ buffer' = Keep(entries)
  BY DEF AppendAll
<1>4. /\ k \in 0..Len(entries)
      /\ buffer' \in Seq(StoredEvent)
      /\ Len(buffer') = Len(entries) - k
      /\ Len(buffer') <= Capacity
      /\ \A j \in 1..Len(buffer') : buffer'[j] = entries[k + j]
  BY <1>1, <1>3, KeepEntries
<1>a. latestId - Len(buffer) <= latestId' - Len(buffer')
  BY <1>1, <1>2, <1>3, <1>4
<1> HIDE DEF k
<1>5. EvictedBy(events) = {entries[i] : i \in 1..k}
  BY DEF EvictedBy, k
<1> HIDE DEF entries
<1>6. RingTypeOK' /\ RingConsecutive'
  <2>1. RingTypeOK'
    BY <1>2, <1>3, <1>4 DEF RingTypeOK
  <2>2. \A j \in 1..Len(buffer') : buffer'[j].id = latestId' - Len(buffer') + j
    BY <1>1, <1>2, <1>3, <1>4
  <2>3. Len(buffer') <= latestId'
    BY <1>1, <1>2, <1>3, <1>4
  <2> QED BY <1>4, <2>1, <2>2, <2>3 DEF RingConsecutive
<1>7. \A n \in EvictedBy(events) : n.id <= latestId' - Len(buffer')
  BY <1>1, <1>2, <1>3, <1>4, <1>5
<1>8. \A i \in 1..Len(entries) :
        \/ entries[i] \in EvictedBy(events)
        \/ \E j \in 1..Len(buffer') : buffer'[j] = entries[i]
  <2> TAKE i \in 1..Len(entries)
  <2>1. CASE i <= k
    BY <1>4, <1>5, <2>1
  <2>2. CASE i > k
    <3>1. i - k \in 1..Len(buffer') /\ k + (i - k) = i
      BY <1>1, <1>2, <1>4, <2>2
    <3>2. buffer'[i - k] = entries[i]
      BY <3>1, <1>4
    <3> QED BY <3>1, <3>2
  <2> QED BY <2>1, <2>2, <1>4
<1>9. \A i \in 1..Len(buffer) :
        \/ buffer[i] \in EvictedBy(events)
        \/ \E j \in 1..Len(buffer') : buffer'[j] = buffer[i]
  BY <1>1, <1>2, <1>8
<1>10. \A j \in 1..Len(buffer') :
         \/ buffer'[j].id > latestId
         \/ \E i \in 1..Len(buffer) : buffer[i] = buffer'[j]
  <2> TAKE j \in 1..Len(buffer')
  <2>1. k + j \in 1..Len(entries) /\ buffer'[j] = entries[k + j]
    BY <1>1, <1>2, <1>4
  <2>2. CASE k + j <= Len(buffer)
    <3>1. k + j \in 1..Len(buffer)
      BY <2>1, <2>2, <1>2
    <3> QED BY <2>1, <3>1, <1>1
  <2>3. CASE k + j > Len(buffer)
    BY <2>1, <2>3, <1>1, <1>2, <1>4
  <2> QED BY <2>1, <2>2, <2>3, <1>2, <1>4
<1>11. \A i \in 1..Len(events) :
         \E n \in EvictedBy(events) \cup {buffer'[j] : j \in 1..Len(buffer')} :
           n.event = events[i] /\ n.id > latestId
  <2> TAKE i \in 1..Len(events)
  <2>1. Len(buffer) + i \in 1..Len(entries)
    BY <1>1, <1>2
  <2>2. /\ entries[Len(buffer) + i].event = events[i]
        /\ entries[Len(buffer) + i].id > latestId
    BY <2>1, <1>1, <1>2
  <2>3. entries[Len(buffer) + i] \in
          EvictedBy(events) \cup {buffer'[j] : j \in 1..Len(buffer')}
    BY <2>1, <1>8
  <2> QED BY <2>2, <2>3
<1> QED BY <1>3, <1>a, <1>6, <1>7, <1>9, <1>10, <1>11

\* events_since() returns exactly the entries of the buffer above the id.
LEMMA EventsSinceEntries ==
  ASSUME RingTypeOK, RingConsecutive, NEW lastId \in Nat
  PROVE  /\ EventsSince(lastId) \in Seq(StoredEvent)
         /\ Len(EventsSince(lastId)) <= Len(buffer)
         /\ \A i \in 1..Len(EventsSince(lastId)) :
              EventsSince(lastId)[i] = buffer[Len(buffer) - Len(EventsSince(lastId)) + i]
         /\ \A i \in 1..Len(EventsSince(lastId)) :
              /\ EventsSince(lastId)[i].id > lastId
              /\ \E j \in 1..Len(buffer) : buffer[j] = EventsSince(lastId)[i]
         /\ \A j \in 1..Len(buffer) : buffer[j].id > lastId =>
              \E i \in 1..Len(EventsSince(lastId)) : EventsSince(lastId)[i] = buffer[j]
<1> DEFINE n == Len(buffer)
           d == latestId - n
           f == FirstNewer(lastId)
<1>1. n \in Nat /\ d \in Nat /\ \A j \in 1..n : buffer[j].id = d + j
  BY DEF RingTypeOK, RingConsecutive
<1>2. \E i \in 1..n + 1 :
        /\ \A j \in i..n : buffer[j].id > lastId
        /\ i > 1 => buffer[i - 1].id <= lastId
  <2>1. CASE lastId <= d
    BY <1>1, <2>1
  <2>2. CASE lastId > d /\ lastId <= d + n
    <3>1. lastId - d + 1 \in 1..n + 1
      BY <1>1, <2>2
    <3>2. \A j \in lastId - d + 1..n : buffer[j].id > lastId
      BY <1>1, <2>2
    <3>3. buffer[(lastId - d + 1) - 1].id <= lastId
      BY <1>1, <2>2
    <3> QED BY <3>1, <3>2, <3>3
  <2>3. CASE lastId > d + n
    <3>1. n + 1 > 1 => buffer[n + 1 - 1].id <= lastId
      BY <1>1, <2>3
    <3> QED BY <1>1, <3>1
  <2> QED BY <2>1, <2>2, <2>3, <1>1
<1>3. /\ f \in 1..n + 1
      /\ \A j \in f..n : buffer[j].id > lastId
      /\ f > 1 => buffer[f - 1].id <= lastId
  BY <1>2 DEF FirstNewer
<1> HIDE DEF f
<1>4. \A j \in f..n : buffer[j] \in StoredEvent
  BY <1>1, <1>3 DEF RingTypeOK
<1>5. /\ EventsSince(lastId) \in Seq(StoredEvent)
      /\ Len(EventsSince(lastId)) = n - f + 1
      /\ \A i \in 1..n - f + 1 : EventsSince(lastId)[i] = buffer[f + i - 1]
  <2>1. f \in Int /\ n \in Int /\ (f <= n \/ f = n + 1)
    BY <1>1, <1>3
  <2>2. /\ SubSeq(buffer, f, n) \in Seq(StoredEvent)
        /\ Len(SubSeq(buffer, f, n)) = IF f <= n THEN n - f + 1 ELSE 0
        /\ \A i \in 1..n - f + 1 : SubSeq(buffer, f, n)[i] = buffer[f + i - 1]
    BY <1>4, <2>1, SubSeqProperties
  <2> QED BY <2>1, <2>2 DEF EventsSince, f
<1>6. \A i \in 1..Len(EventsSince(lastId)) :
        /\ EventsSince(lastId)[i].id > lastId
        /\ \E j \in 1..n : buffer[j] = EventsSince(lastId)[i]
  <2> TAKE i \in 1..Len(EventsSince(lastId))
  <2>1. f + i - 1 \in f..n /\ f + i - 1 \in 1..n
    BY <1>1, <1>3, <1>5
  <2> QED BY <2>1, <1>3, <1>5
<1>7. \A j \in 1..n : buffer[j].id > lastId =>
        \E i \in 1..Len(EventsSince(lastId)) : EventsSince(lastId)[i] = buffer[j]
  <2> SUFFICES ASSUME NEW j \in 1..n, buffer[j].id > lastId
               PROVE  \E i \in 1..Len(EventsSince(lastId)) :
                        EventsSince(lastId)[i] = buffer[j]
    OBVIOUS
  <2>1. j >= f
    <3>1. CASE f > 1
      <4>1. f - 1 \in 1..n
        BY <1>1, <1>3, <3>1
      <4>2. d + f - 1 <= lastId
        BY <1>1, <1>3, <3>1, <4>1
      <4>3. d + j > lastId
        BY <1>1
      <4> QED BY <4>2, <4>3, <1>1, <1>3
    <3>2. CASE f = 1
      BY <3>2
    <3> QED BY <3>1, <3>2, <1>3
  <2>2. j - f + 1 \in 1..n - f + 1 /\ f + (j - f + 1) - 1 = j
    BY <1>1, <1>3, <2>1
  <2> QED BY <2>2, <1>5
<1>8. Len(EventsSince(lastId)) <= n
  BY <1>1, <1>3, <1>5
<1>9. ASSUME NEW i \in 1..Len(EventsSince(lastId))
      PROVE  EventsSince(lastId)[i] = buffer[n - Len(EventsSince(lastId)) + i]
  <2>1. f + i - 1 = n - Len(EventsSince(lastId)) + i
    BY <1>1, <1>3, <1>5
  <2> QED BY <2>1, <1>5
<1> QED BY <1>5, <1>6, <1>7, <1>8, <1>9

-----------------------------------------------------------------------------
(* What a poll returns.                                                    *)

\* Reading any part of a file gives a list of lines.
LEMMA LinesReadType ==
  ASSUME NEW s \in Sources, NEW a \in Nat, NEW b \in 0..2 * MaxLine, NEW p \in Int
  PROVE  LinesRead(s, a, b, p) \in Seq(Lines)
<1> DEFINE first == FirstWhole(a, p)
           last  == b \div 2
<1>1. first \in Nat /\ first >= 1
  BY DEF FirstWhole
<1>2. last \in Nat /\ last <= MaxLine
  BY SourcesAssumption
<1> HIDE DEF first, last
<1>3. CASE first <= last
  <2>1. last - first + 1 \in Nat
    BY <1>1, <1>2, <1>3
  <2>2. \A i \in 1..last - first + 1 : <<s, first + i - 1>> \in Lines
    BY <1>1, <1>2, <1>3, SourcesAssumption DEF Lines
  <2>3. LinesRead(s, a, b, p) = [i \in 1..last - first + 1 |-> <<s, first + i - 1>>]
    BY <1>3 DEF LinesRead, first, last
  <2> QED BY <2>1, <2>2, <2>3
<1>4. CASE ~(first <= last)
  <2>1. LinesRead(s, a, b, p) = <<>>
    BY <1>4 DEF LinesRead, first, last
  <2> QED BY <2>1
<1> QED BY <1>3, <1>4

\* What a tailer holds open, or opens, is a position in a file of its source.
LEMMA OpenedType ==
  ASSUME LogTypeOK, LogInv, TailerTypeOK, NEW s \in Sources, path[s] # NoFile
  PROVE  Opened(s) \in Position /\ Opened(s).inode \in Inodes
<1>1. path[s] \in Inodes
  BY DEF LogTypeOK
<1>2. /\ top[s][path[s]] \in 0..2 * MaxLine
      /\ base[s][path[s]] \in 0..2 * MaxLine
      /\ base[s][path[s]] <= top[s][path[s]]
  BY <1>1 DEF LogTypeOK, LogInv
<1>3. Size(s, path[s]) \in 0..2 * MaxLine /\ 0 \in 0..2 * MaxLine
  BY <1>2, SourcesAssumption DEF Size
<1>4. 0 \in -1..2 * MaxLine
  BY SourcesAssumption
<1>5. handle[s] \in Position /\ persisted[s] \in Position
  BY DEF TailerTypeOK
<1>6. OpenInitial(s) \in Position /\ OpenInitial(s).inode \in Inodes
  BY <1>1, <1>3, <1>4, <1>5 DEF OpenInitial, Position
<1> QED BY <1>5, <1>6 DEF Opened, Position

\* The partial line left over is a position, Garbled or nothing.
LEMMA PartialAfterType ==
  ASSUME NEW a \in Nat, NEW b \in 0..2 * MaxLine, NEW p \in -1..2 * MaxLine
  PROVE  PartialAfter(a, b, p) \in -1..2 * MaxLine
  BY SourcesAssumption DEF PartialAfter, Garbled

\* A poll returns events of its source and a position, and remembers where it is.
LEMMA PollReadType ==
  ASSUME LogTypeOK, LogInv, TailerTypeOK, NEW s \in Sources, PollRead(s)
  PROVE  /\ handle' \in [Sources -> Position]
         /\ EventsRead(s) \in Seq(Lines)
         /\ ReadUpTo(s) \in 0..2 * MaxLine
         /\ result' \in [Sources -> PollResult]
<1> DEFINE h == ReadFrom(s)
           a == base[s][path[s]] + h.off
           b == top[s][path[s]]
           o == Opened(s)
<1>1. path[s] # NoFile /\ path[s] \in Inodes
  BY DEF LogTypeOK, PollRead
<1>2. o \in Position /\ o.inode \in Inodes
  BY <1>1, OpenedType
<1>3. \A i \in Inodes : /\ top[s][i] \in 0..2 * MaxLine
                        /\ base[s][i] \in 0..2 * MaxLine
                        /\ base[s][i] <= top[s][i]
  BY DEF LogTypeOK, LogInv
<1> HIDE DEF o
<1>4. 0 \in 0..2 * MaxLine /\ 0 \in -1..2 * MaxLine
  BY SourcesAssumption
<1>5. h \in Position
  BY <1>1, <1>2, <1>4 DEF ReadFrom, Position, o
<1>6. a \in Nat /\ b \in 0..2 * MaxLine /\ h.off \in Nat /\ h.partial \in -1..2 * MaxLine
  <2>1. h.off \in 0..2 * MaxLine /\ h.partial \in -1..2 * MaxLine
    BY <1>5 DEF Position
  <2> QED BY <2>1, <1>1, <1>3
<1> HIDE DEF h
<1>7. PartialAfter(a, b, h.partial) \in -1..2 * MaxLine
  <2> HIDE DEF a, b
  <2> QED BY <1>6, PartialAfterType
<1>8. Size(s, path[s]) \in 0..2 * MaxLine
  BY <1>1, <1>3, SourcesAssumption DEF Size
<1>9. handle' \in [Sources -> Position]
  <2>1. [inode |-> path[s], off |-> Size(s, path[s]),
         partial |-> PartialAfter(a, b, h.partial)] \in Position
    BY <1>1, <1>7, <1>8 DEF Position
  <2>2. handle' = [handle EXCEPT ![s] =
          [inode |-> path[s], off |-> Size(s, path[s]),
           partial |-> PartialAfter(a, b, h.partial)]]
    BY DEF PollRead, h
  <2> QED BY <2>1, <2>2 DEF TailerTypeOK
<1>10. LinesRead(s, a, b, h.partial) \in Seq(Lines)
  <2>1. h.partial \in Int
    BY <1>6
  <2> HIDE DEF a, b
  <2> QED BY <1>6, <2>1, LinesReadType
<1>11. Drained(s) \in Seq(Lines)
  <2>1. o.off \in 0..2 * MaxLine /\ o.partial \in -1..2 * MaxLine
    BY <1>2 DEF Position
  <2>2. /\ base[s][o.inode] + o.off \in Nat
        /\ top[s][o.inode] \in 0..2 * MaxLine
        /\ o.partial \in Int
    BY <1>2, <1>3, <2>1
  <2>3. LinesRead(s, base[s][o.inode] + o.off, top[s][o.inode], o.partial) \in Seq(Lines)
    BY <2>2, LinesReadType
  <2> QED BY <2>3 DEF Drained, o
<1>12. EventsRead(s) \in Seq(Lines)
  BY <1>10, <1>11, ConcatProperties DEF EventsRead, h
<1>13. ReadUpTo(s) \in 0..2 * MaxLine
  <2>1. consumed[s] \in 0..2 * MaxLine
    BY DEF TailerTypeOK
  <2>2. /\ top[s][o.inode] \in 0..2 * MaxLine
        /\ top[s][path[s]] \in 0..2 * MaxLine
    BY <1>1, <1>2, <1>3
  <2> QED BY <2>1, <2>2, <1>4 DEF ReadUpTo, Later, o
<1>14. PassedOver(s) \in SUBSET Lines
  BY DEF PassedOver
<1>15. result' \in [Sources -> PollResult]
  <2>1. [events |-> EventsRead(s), skip |-> PassedOver(s), at |-> ReadUpTo(s)] \in PollResult
    BY <1>12, <1>13, <1>14 DEF PollResult
  <2>2. result' = [result EXCEPT ![s] =
          [events |-> EventsRead(s), skip |-> PassedOver(s), at |-> ReadUpTo(s)]]
    BY DEF PollRead
  <2> QED BY <2>1, <2>2 DEF TailerTypeOK
<1> QED BY <1>9, <1>12, <1>13, <1>15

-----------------------------------------------------------------------------
(* The inductive invariant.                                                *)

\* A poll that is not dispatched yet returns or passes over every line between
\* where the tailer was and where it is now.
PollInv ==
  \A s \in Sources : polling[s] =>
    \A l \in 1..MaxLine :
      consumed[s] < 2 * l /\ 2 * l <= result[s].at =>
        \/ <<s, l>> \in result[s].skip
        \/ \E i \in 1..Len(result[s].events) : result[s].events[i] = <<s, l>>

\* The batch of a flush lies just behind _last_flushed_id: whatever of it the
\* buffer still can hold it does hold, nothing in between is missing from it,
\* and once it is committed it is in the database.
BatchInv ==
  /\ phase \in {"writing", "committed"} <=> batch # <<>>
  /\ lastFlushedId <= latestId
  /\ \A i \in 1..Len(batch) :
       /\ lastFlushedId < batch[i].id
       /\ batch[i].id <= latestId
       /\ batch[i].id > latestId - Len(buffer) =>
            \E j \in 1..Len(buffer) : buffer[j] = batch[i]
  /\ batch # <<>> =>
       \A j \in 1..Len(buffer) :
         lastFlushedId < buffer[j].id /\ buffer[j].id <= batch[Len(batch)].id =>
           \E i \in 1..Len(batch) : batch[i] = buffer[j]
  /\ phase = "committed" =>
       \A i \in 1..Len(batch) : Stored(batch[i].event)

IInv ==
  /\ TypeOK
  /\ LogInv
  /\ RingConsecutive
  /\ PollInv
  /\ BatchInv
  /\ Accounted

\* It holds before the process is first started.
LEMMA InitIInv == Init => IInv
<1> SUFFICES ASSUME Init PROVE IInv
  OBVIOUS
<1> USE SourcesAssumption, LogBoundsAssumption, IngestBoundsAssumption
<1>1. LogTypeOK /\ LogInv
  BY LogInitInv
<1>2. Closed \in Position /\ Nothing \in PollResult
  BY DEF Closed, Nothing, Position, PollResult
<1>3. TailerTypeOK
  BY <1>2 DEF Init, TailerInit, TailerTypeOK
<1>4. RingTypeOK /\ AggregatorTypeOK
  BY DEF Init, RingInit, RingTypeOK, AggregatorInit, AggregatorTypeOK
<1>5. TypeOK
  BY <1>1, <1>3, <1>4 DEF Init, TypeOK
<1>6. RingConsecutive
  BY CapacityAssumption DEF Init, RingInit, RingConsecutive
<1>7. PollInv
  BY DEF Init, TailerInit, PollInv
<1>8. BatchInv
  BY DEF Init, RingInit, AggregatorInit, BatchInv
<1>9. Accounted
  BY DEF Init, TailerInit, Accounted
<1> QED BY <1>1, <1>5, <1>6, <1>7, <1>8, <1>9 DEF IInv

\* What neither memory nor the database sees disturbs no batch.
LEMMA SameBatch ==
  ASSUME BatchInv, UNCHANGED <<ringVars, aggregatorVars>>
  PROVE  BatchInv'
<1>1. UNCHANGED <<buffer, latestId, phase, batch, lastFlushedId, db>>
  BY DEF ringVars, aggregatorVars
<1> QED BY <1>1 DEF BatchInv, Stored

\* ... and no account.
LEMMA SameAccounts ==
  ASSUME Accounted, UNCHANGED <<consumed, skipped, ringVars, aggregatorVars, lost>>
  PROVE  Accounted'
<1>1. UNCHANGED <<consumed, skipped, buffer, batch, lastFlushedId, db, lost>>
  BY DEF ringVars, aggregatorVars
<1>2. \A line : /\ Stored(line)' <=> Stored(line)
                /\ Pending(line)' <=> Pending(line)
                /\ WrittenOff(line)' <=> WrittenOff(line)
  BY <1>1 DEF Stored, Pending, WrittenOff
<1> QED BY <1>1, <1>2 DEF Accounted

\* Whatever happens to the log happens outside.
LEMMA LogInvariant ==
  ASSUME IInv, NEW s \in Sources, Log(s)
  PROVE  IInv'
<1>1. LogTypeOK' /\ LogInv'
  BY LogStepInv DEF IInv, TypeOK, Log
<1> USE DEF IInv, Log, tailerVars, ringVars, aggregatorVars, processVars
<1>2. TypeOK'
  BY <1>1 DEF TypeOK, TailerTypeOK, RingTypeOK, AggregatorTypeOK
<1>3. RingConsecutive' /\ PollInv'
  BY DEF RingConsecutive, PollInv
<1>4. BatchInv'
  BY SameBatch
<1>5. Accounted'
  BY SameAccounts
<1> QED BY <1>1, <1>2, <1>3, <1>4, <1>5

\* A poll hands nothing on yet.
LEMMA ReadInvariant ==
  ASSUME IInv, NEW s \in Sources, Read(s)
  PROVE  IInv'
<1>1. PollRead(s)
  BY DEF Read
<1>2. /\ handle' \in [Sources -> Position]
      /\ EventsRead(s) \in Seq(Lines)
      /\ ReadUpTo(s) \in 0..2 * MaxLine
      /\ result' \in [Sources -> PollResult]
  BY <1>1, PollReadType DEF IInv, TypeOK
<1>3. TailerTypeOK'
  BY <1>1, <1>2 DEF IInv, TypeOK, TailerTypeOK, PollRead
<1>4. TypeOK'
  BY <1>3 DEF IInv, TypeOK, Read, logVars, ringVars, aggregatorVars, processVars,
              LogTypeOK, RingTypeOK, AggregatorTypeOK
<1>5. /\ LogInv' /\ RingConsecutive' /\ BatchInv' /\ Accounted'
  <2>1. UNCHANGED <<logVars, consumed, skipped, ringVars, aggregatorVars, lost>>
    BY <1>1 DEF Read, PollRead
  <2>2. LogInv' /\ RingConsecutive'
    BY <2>1 DEF IInv, logVars, ringVars, LogInv, RingConsecutive
  <2> QED BY <2>1, <2>2, SameBatch, SameAccounts DEF IInv
<1>6. PollInv'
  <2> SUFFICES ASSUME NEW t \in Sources, polling'[t], NEW l \in 1..MaxLine,
                      consumed'[t] < 2 * l, 2 * l <= result'[t].at
               PROVE  \/ <<t, l>> \in result'[t].skip
                      \/ \E i \in 1..Len(result'[t].events) : result'[t].events[i] = <<t, l>>
    BY DEF PollInv
  <2>0. consumed' = consumed
    BY <1>1 DEF PollRead
  <2>1. CASE t # s
    <3>1. polling[t] /\ result'[t] = result[t]
      BY <1>1, <2>1 DEF PollRead, IInv, TypeOK, TailerTypeOK
    <3> QED BY <2>0, <3>1 DEF IInv, PollInv
  <2>2. CASE t = s
    <3>1. result'[s] = [events |-> EventsRead(s), skip |-> PassedOver(s), at |-> ReadUpTo(s)]
      BY <1>1 DEF PollRead, IInv, TypeOK, TailerTypeOK
    <3>2. <<s, l>> \in Lines
      BY DEF Lines
    <3>3. consumed[s] < 2 * l /\ 2 * l <= ReadUpTo(s)
      BY <2>0, <2>2, <3>1
    <3>4. \/ <<s, l>> \in PassedOver(s)
          \/ \E i \in 1..Len(EventsRead(s)) : EventsRead(s)[i] = <<s, l>>
      BY <3>2, <3>3 DEF PassedOver
    <3> QED BY <2>2, <3>1, <3>4
  <2> QED BY <2>1, <2>2
<1> QED BY <1>4, <1>5, <1>6 DEF IInv

\* Closing the file changes nothing that was read.
LEMMA CloseInvariant ==
  ASSUME IInv, NEW s \in Sources, Missing(s) \/ Raise(s)
  PROVE  IInv'
<1>1. /\ handle' = [handle EXCEPT ![s] = Closed]
      /\ UNCHANGED <<polling, result, readState, persisted, consumed, persistedAt, skipped>>
      /\ UNCHANGED <<logVars, ringVars, aggregatorVars, mode, running, crashes, stops, lost>>
  BY DEF Missing, Raise, PollMissing, PollRaises, processVars
<1>2. faults' \in 0..MaxFault
  BY IngestBoundsAssumption DEF Missing, Raise, Fault, processVars, IInv, TypeOK
<1>3. Closed \in Position
  BY SourcesAssumption DEF Closed, Position
<1>4. TypeOK'
  BY <1>1, <1>2, <1>3 DEF IInv, TypeOK, logVars, ringVars, aggregatorVars,
              LogTypeOK, TailerTypeOK, RingTypeOK, AggregatorTypeOK
<1>5. LogInv' /\ RingConsecutive' /\ PollInv' /\ BatchInv' /\ Accounted'
  <2>1. LogInv' /\ RingConsecutive' /\ PollInv'
    BY <1>1 DEF IInv, logVars, ringVars, LogInv, RingConsecutive, PollInv
  <2> QED BY <1>1, <2>1, SameBatch, SameAccounts DEF IInv
<1> QED BY <1>4, <1>5 DEF IInv

\* Dispatching moves the tailer on and every line it moves past into the buffer,
\* or to where it is written off; what the buffer drops for it is in the hands
\* of a flush or on record as lost.
LEMMA DispatchInvariant ==
  ASSUME IInv, NEW s \in Sources, Dispatch(s)
  PROVE  IInv'
<1> DEFINE events == result[s].events
<1>1. /\ polling[s] /\ AppendAll(events) /\ Snapshot(s)
      /\ lost' = [lost EXCEPT !["overflow"] = @ \cup Unflushed(EvictedBy(events))]
      /\ UNCHANGED <<logVars, aggregatorVars, processVars>>
  BY DEF Dispatch, Lose
<1>2. result[s] \in PollResult /\ events \in Seq(Lines)
  BY DEF IInv, TypeOK, TailerTypeOK, PollResult
<1>3. /\ RingTypeOK /\ RingConsecutive /\ latestId \in Nat /\ lastFlushedId \in Nat
      /\ Len(buffer) \in Nat
  BY DEF IInv, TypeOK, RingTypeOK, AggregatorTypeOK
<1>4. /\ RingTypeOK'
      /\ RingConsecutive'
      /\ latestId' = latestId + Len(events)
      /\ latestId - Len(buffer) <= latestId' - Len(buffer')
      /\ \A n \in EvictedBy(events) : n.id <= latestId' - Len(buffer')
      /\ \A i \in 1..Len(buffer) :
           \/ buffer[i] \in EvictedBy(events)
           \/ \E j \in 1..Len(buffer') : buffer'[j] = buffer[i]
      /\ \A j \in 1..Len(buffer') :
           \/ buffer'[j].id > latestId
           \/ \E i \in 1..Len(buffer) : buffer[i] = buffer'[j]
      /\ \A i \in 1..Len(events) :
           \E n \in EvictedBy(events) \cup {buffer'[j] : j \in 1..Len(buffer')} :
             n.event = events[i] /\ n.id > latestId
  BY <1>1, <1>2, <1>3, AppendAllRing
<1>e. EvictedBy(events) \in SUBSET StoredEvent
  <2> DEFINE entries == buffer \o Numbered(events)
  <2>1. entries \in Seq(StoredEvent)
    BY <1>2, <1>3, AllEntries
  <2> HIDE DEF entries
  <2>2. \A i \in 1..Overrun(entries) : entries[i] \in StoredEvent
    BY <2>1, KeepEntries
  <2> QED BY <2>2 DEF EvictedBy, entries
<1>b. \A j \in 1..Len(buffer') : buffer'[j].id \in Nat
  <2>1. \A j \in 1..Len(buffer') : buffer'[j] \in StoredEvent
    BY <1>4 DEF RingTypeOK
  <2> QED BY <2>1 DEF StoredEvent
<1>5. Unflushed(EvictedBy(events)) \in SUBSET Lines
  BY <1>e DEF Unflushed, StoredEvent
<1> HIDE DEF events
<1>6. TailerTypeOK'
  <2>1. handle[s] \in Position /\ result[s].at \in 0..2 * MaxLine /\ result[s].skip \in SUBSET Lines
    BY <1>2 DEF IInv, TypeOK, TailerTypeOK, PollResult
  <2>2. Nothing \in PollResult
    BY SourcesAssumption DEF Nothing, PollResult
  <2> QED BY <1>1, <2>1, <2>2 DEF IInv, TypeOK, TailerTypeOK, Snapshot
<1>7. TypeOK'
  BY <1>1, <1>4, <1>5, <1>6 DEF IInv, TypeOK, logVars, aggregatorVars, processVars,
       LogTypeOK, AggregatorTypeOK
<1>8. LogInv'
  BY <1>1 DEF IInv, logVars, LogInv
<1>9. PollInv'
  BY <1>1 DEF IInv, TypeOK, TailerTypeOK, PollInv, Snapshot
<1>10. BatchInv'
  <2>1. lastFlushedId <= latestId /\ latestId <= latestId' /\ latestId' \in Nat
    BY <1>2, <1>3, <1>4 DEF IInv, BatchInv
  <2>2. UNCHANGED <<phase, batch, lastFlushedId, db>>
    BY <1>1 DEF aggregatorVars
  <2>3. \A i \in 1..Len(batch) : batch[i].id \in Nat
    <3>1. \A i \in 1..Len(batch) : batch[i] \in StoredEvent
      BY DEF IInv, TypeOK, AggregatorTypeOK
    <3> QED BY <3>1 DEF StoredEvent
  <2>4. ASSUME NEW i \in 1..Len(batch), batch[i].id > latestId' - Len(buffer')
        PROVE  \E j \in 1..Len(buffer') : buffer'[j] = batch[i]
    <3>1. batch[i].id > latestId - Len(buffer) /\ batch[i] \notin EvictedBy(events)
      BY <1>3, <1>4, <2>1, <2>3, <2>4 DEF RingTypeOK
    <3>2. PICK j \in 1..Len(buffer) : buffer[j] = batch[i]
      BY <3>1 DEF IInv, BatchInv
    <3> QED BY <1>4, <3>1, <3>2
  <2>5. ASSUME batch # <<>>,
               NEW j \in 1..Len(buffer'),
               lastFlushedId < buffer'[j].id, buffer'[j].id <= batch[Len(batch)].id
        PROVE  \E i \in 1..Len(batch) : batch[i] = buffer'[j]
    <3>1. Len(batch) \in 1..Len(batch) /\ batch[Len(batch)].id <= latestId
      BY <2>5 DEF IInv, BatchInv, TypeOK, AggregatorTypeOK
    <3>2. buffer'[j].id \in Nat
      BY <1>b
    <3>a. batch[Len(batch)].id \in Nat
      BY <2>3, <3>1
    <3>b. ~(buffer'[j].id > latestId)
      BY <1>3, <2>5, <3>1, <3>2, <3>a
    <3>c. \/ buffer'[j].id > latestId
          \/ \E i \in 1..Len(buffer) : buffer[i] = buffer'[j]
      BY <1>4
    <3>3. PICK m \in 1..Len(buffer) : buffer[m] = buffer'[j]
      BY <3>b, <3>c
    <3> QED BY <2>5, <3>3 DEF IInv, BatchInv
  <2>6. /\ phase \in {"writing", "committed"} <=> batch # <<>>
        /\ \A i \in 1..Len(batch) : lastFlushedId < batch[i].id /\ batch[i].id <= latestId'
        /\ phase = "committed" => \A i \in 1..Len(batch) : db[batch[i].event] > 0
    BY <1>3, <2>1, <2>3 DEF IInv, BatchInv, Stored
  <2>7. lastFlushedId <= latestId'
    BY <1>3, <2>1
  <2> QED BY <2>2, <2>4, <2>5, <2>6, <2>7 DEF BatchInv, Stored
<1>11. Accounted'
  <2>u. UNCHANGED <<phase, batch, lastFlushedId, db>>
    BY <1>1 DEF aggregatorVars
  \* What is evicted is written off or in the hands of the flush.
  <2>0. ASSUME NEW n \in EvictedBy(events), n.id > lastFlushedId
        PROVE  \/ n.event \in lost'["overflow"]
               \/ \E i \in 1..Len(batch) : batch[i].event = n.event
    <3>1. lost'["overflow"] = lost["overflow"] \cup Unflushed(EvictedBy(events))
      BY <1>1 DEF IInv, TypeOK, Causes
    <3>2. CASE \A i \in 1..Len(batch) : batch[i] # n
      BY <2>0, <3>1, <3>2 DEF Unflushed
    <3>3. CASE \E i \in 1..Len(batch) : batch[i] = n
      BY <3>3
    <3> QED BY <3>2, <3>3
  \* An entry that was in the buffer or is new is still pending or written off.
  <2>1. ASSUME NEW n \in EvictedBy(events) \cup {buffer'[j] : j \in 1..Len(buffer')},
               n.id > lastFlushedId
        PROVE  Pending(n.event)' \/ WrittenOff(n.event)'
    <3>1. CASE n \in EvictedBy(events)
      BY <2>0, <2>1, <2>u, <3>1 DEF Pending, WrittenOff, Causes
    <3>2. CASE n \in {buffer'[j] : j \in 1..Len(buffer')}
      BY <2>1, <2>u, <3>2 DEF Pending
    <3> QED BY <2>1, <3>1, <3>2
  <2>2. \A line \in Lines : Pending(line) => Pending(line)' \/ WrittenOff(line)'
    <3> SUFFICES ASSUME NEW line \in Lines, Pending(line)
                 PROVE  Pending(line)' \/ WrittenOff(line)'
      OBVIOUS
    <3>1. CASE \E i \in 1..Len(batch) : batch[i].event = line
      BY <2>u, <3>1 DEF Pending
    <3>2. CASE \E i \in 1..Len(buffer) : buffer[i].event = line /\ buffer[i].id > lastFlushedId
      BY <1>4, <2>1, <3>2
    <3> QED BY <3>1, <3>2 DEF Pending
  <2>3. \A line \in Lines : WrittenOff(line) => WrittenOff(line)'
    BY <1>1 DEF WrittenOff, Snapshot, IInv, TypeOK, Causes
  <2>4. \A line \in Lines : Stored(line) => Stored(line)'
    BY <2>u DEF Stored
  <2>5. ASSUME NEW line, NEW i \in 1..Len(events), events[i] = line
        PROVE  Pending(line)' \/ WrittenOff(line)'
    <3>1. PICK n \in EvictedBy(events) \cup {buffer'[j] : j \in 1..Len(buffer')} :
            n.event = line /\ n.id > latestId
      BY <1>4, <2>5
    <3>2. n.id \in Nat
      BY <1>e, <1>b DEF StoredEvent
    <3>3. n.id > lastFlushedId
      BY <1>3, <3>1, <3>2 DEF IInv, BatchInv
    <3> QED BY <2>1, <3>1, <3>3
  <2> SUFFICES ASSUME NEW t \in Sources, NEW l \in 1..MaxLine, 2 * l <= consumed'[t]
               PROVE  Stored(<<t, l>>)' \/ Pending(<<t, l>>)' \/ WrittenOff(<<t, l>>)'
    BY DEF Accounted
  <2>6. <<t, l>> \in Lines
    BY DEF Lines
  <2>7. CASE 2 * l <= consumed[t]
    <3>1. Stored(<<t, l>>) \/ Pending(<<t, l>>) \/ WrittenOff(<<t, l>>)
      BY <2>7 DEF IInv, Accounted
    <3> QED BY <2>2, <2>3, <2>4, <2>6, <3>1
  <2>8. CASE ~(2 * l <= consumed[t])
    <3>1. t = s /\ consumed'[t] = result[t].at
      BY <1>1, <2>8 DEF Snapshot, IInv, TypeOK, TailerTypeOK
    <3>2. consumed[t] \in Int /\ result[t].at \in Int
      BY <1>2, <3>1 DEF IInv, TypeOK, TailerTypeOK, PollResult
    <3>a. consumed[s] < 2 * l /\ 2 * l <= result[s].at
      BY <2>8, <3>1, <3>2
    <3>3. \/ <<s, l>> \in result[s].skip
          \/ \E i \in 1..Len(events) : events[i] = <<s, l>>
      BY <1>1, <3>a DEF IInv, PollInv, events
    <3>4. CASE <<s, l>> \in result[s].skip
      BY <1>1, <3>1, <3>4 DEF WrittenOff, Snapshot
    <3>5. CASE \E i \in 1..Len(events) : events[i] = <<s, l>>
      BY <2>5, <3>1, <3>5
    <3> QED BY <3>3, <3>4, <3>5
  <2> QED BY <2>7, <2>8
<1> QED BY <1>4, <1>7, <1>8, <1>9, <1>10, <1>11 DEF IInv

\* A flush takes everything that is in the buffer and not flushed yet.
LEMMA FlushBeginInvariant ==
  ASSUME TypeOK, RingConsecutive, BatchInv, Accounted, FlushBegin,
         UNCHANGED <<ringVars, consumed, skipped, lost>>
  PROVE  AggregatorTypeOK' /\ BatchInv' /\ Accounted'
<1>1. /\ phase = "idle" /\ phase' = "writing"
      /\ batch' = EventsSince(lastFlushedId) /\ batch' # <<>>
      /\ UNCHANGED <<lastFlushedId, db, buffer, latestId, consumed, skipped, lost>>
  BY DEF FlushBegin, ringVars
<1>2. /\ RingTypeOK /\ lastFlushedId \in Nat /\ latestId \in Nat /\ Len(buffer) \in Nat
  BY DEF TypeOK, RingTypeOK, AggregatorTypeOK
<1>3. /\ batch' \in Seq(StoredEvent)
      /\ \A i \in 1..Len(batch') :
           /\ batch'[i].id > lastFlushedId
           /\ \E j \in 1..Len(buffer) : buffer[j] = batch'[i]
      /\ \A j \in 1..Len(buffer) : buffer[j].id > lastFlushedId =>
           \E i \in 1..Len(batch') : batch'[i] = buffer[j]
  BY <1>1, <1>2, EventsSinceEntries
<1>4. \A j \in 1..Len(buffer) : buffer[j].id \in Nat /\ buffer[j].id <= latestId
  BY <1>2 DEF RingConsecutive
<1>5. AggregatorTypeOK'
  BY <1>1, <1>3 DEF TypeOK, AggregatorTypeOK
<1>6. BatchInv'
  <2>1. \A i \in 1..Len(batch') :
          /\ lastFlushedId < batch'[i].id
          /\ batch'[i].id <= latestId
          /\ \E j \in 1..Len(buffer) : buffer[j] = batch'[i]
    <3> TAKE i \in 1..Len(batch')
    <3>1. PICK j \in 1..Len(buffer) : buffer[j] = batch'[i]
      BY <1>3
    <3>2. batch'[i].id \in Nat /\ batch'[i].id <= latestId
      BY <1>4, <3>1
    <3> QED BY <1>2, <1>3, <3>1, <3>2
  <2>2. \A j \in 1..Len(buffer) : lastFlushedId < buffer[j].id =>
          \E i \in 1..Len(batch') : batch'[i] = buffer[j]
    BY <1>2, <1>3, <1>4
  <2>3. lastFlushedId <= latestId
    BY DEF BatchInv
  <2> QED BY <1>1, <2>1, <2>2, <2>3 DEF BatchInv
<1>7. Accounted'
  <2>1. batch = <<>>
    BY <1>1 DEF BatchInv
  <2>2. \A line : Pending(line) => Pending(line)'
    BY <1>1, <2>1 DEF Pending
  <2>3. \A line : (Stored(line)' <=> Stored(line)) /\ (WrittenOff(line)' <=> WrittenOff(line))
    BY <1>1 DEF Stored, WrittenOff
  <2> QED BY <1>1, <2>2, <2>3 DEF Accounted
<1> QED BY <1>5, <1>6, <1>7

\* Beginning a flush, at its time or as the last one.
LEMMA BeginInvariant ==
  ASSUME IInv, BeginFlush \/ FinalFlush
  PROVE  IInv'
<1>1. /\ UNCHANGED <<logVars, tailerVars, ringVars, running, crashes, stops, faults, lost>>
      /\ mode' \in {"up", "stopping", "final"}
  BY DEF BeginFlush, FinalFlush, processVars
<1>2. UNCHANGED <<ringVars, consumed, skipped, lost>>
  BY <1>1 DEF tailerVars
<1>3. AggregatorTypeOK' /\ BatchInv' /\ Accounted'
  <2>1. CASE FlushBegin
    BY <1>2, <2>1, FlushBeginInvariant DEF IInv
  <2>2. CASE UNCHANGED aggregatorVars
    BY <1>2, <2>2, SameBatch, SameAccounts DEF IInv, TypeOK, AggregatorTypeOK, aggregatorVars
  <2> QED BY <2>1, <2>2 DEF BeginFlush, FinalFlush
<1>4. TypeOK'
  BY <1>1, <1>3 DEF IInv, TypeOK, logVars, tailerVars, ringVars,
              LogTypeOK, TailerTypeOK, RingTypeOK
<1>5. LogInv' /\ RingConsecutive' /\ PollInv'
  BY <1>1 DEF IInv, logVars, tailerVars, ringVars, LogInv, RingConsecutive, PollInv
<1> QED BY <1>3, <1>4, <1>5 DEF IInv

\* A line that occurs is counted at least once.
LEMMA OccursOnce ==
  ASSUME NEW events \in Seq(StoredEvent), NEW line
  PROVE  /\ Occurrences(events, line) \in Nat
         /\ \A i \in 1..Len(events) : events[i].event = line => Occurrences(events, line) > 0
<1> DEFINE where == {i \in 1..Len(events) : events[i].event = line}
<1>1. IsFiniteSet(1..Len(events))
  BY FS_Interval
<1>2. IsFiniteSet(where)
  BY <1>1, FS_Subset
<1>3. Cardinality(where) \in Nat
  BY <1>2, FS_CardinalityType
<1>4. ASSUME NEW i \in where PROVE Cardinality(where) > 0
  <2> HIDE DEF where
  <2>1. where # {}
    BY <1>4
  <2>2. Cardinality(where) # 0
    BY <1>2, <2>1, FS_EmptySet
  <2> QED BY <1>3, <2>2
<1> QED BY <1>3, <1>4 DEF Occurrences

\* The commit puts the whole batch into the database.
LEMMA CommitInvariant ==
  ASSUME IInv, CommitFlush
  PROVE  IInv'
<1>1. /\ phase = "writing" /\ phase' = "committed"
      /\ db' = [line \in Lines |-> db[line] + Occurrences(batch, line)]
      /\ UNCHANGED <<batch, lastFlushedId, logVars, tailerVars, ringVars, processVars, lost>>
  BY DEF CommitFlush, FlushCommit
<1>2. batch \in Seq(StoredEvent) /\ db \in [Lines -> Nat]
  BY DEF IInv, TypeOK, AggregatorTypeOK
<1>3. \A line \in Lines :
        /\ db'[line] \in Nat
        /\ db'[line] >= db[line]
        /\ (\E i \in 1..Len(batch) : batch[i].event = line) => db'[line] > 0
  <2> TAKE line \in Lines
  <2>1. /\ Occurrences(batch, line) \in Nat
        /\ (\E i \in 1..Len(batch) : batch[i].event = line) => Occurrences(batch, line) > 0
    BY <1>2, OccursOnce
  <2>2. db'[line] = db[line] + Occurrences(batch, line) /\ db[line] \in Nat
    BY <1>1, <1>2
  <2> QED BY <2>1, <2>2
<1>4. TypeOK'
  <2>1. db' \in [Lines -> Nat]
    BY <1>1, <1>3
  <2> QED BY <1>1, <2>1 DEF IInv, TypeOK, logVars, tailerVars, ringVars, processVars,
                LogTypeOK, TailerTypeOK, RingTypeOK, AggregatorTypeOK
<1>5. LogInv' /\ RingConsecutive' /\ PollInv'
  BY <1>1 DEF IInv, logVars, tailerVars, ringVars, LogInv, RingConsecutive, PollInv
<1>6. \A i \in 1..Len(batch) : batch[i].event \in Lines
  <2>1. \A i \in 1..Len(batch) : batch[i] \in StoredEvent
    BY <1>2
  <2> QED BY <2>1 DEF StoredEvent
<1>u. UNCHANGED <<batch, lastFlushedId, buffer, latestId, consumed, skipped, lost>>
  BY <1>1 DEF ringVars, tailerVars
<1>7. BatchInv'
  <2>1. \A i \in 1..Len(batch) : db'[batch[i].event] > 0
    BY <1>3, <1>6
  <2>2. /\ batch # <<>>
        /\ lastFlushedId <= latestId
        /\ \A i \in 1..Len(batch) :
             /\ lastFlushedId < batch[i].id
             /\ batch[i].id <= latestId
             /\ batch[i].id > latestId - Len(buffer) =>
                  \E j \in 1..Len(buffer) : buffer[j] = batch[i]
        /\ \A j \in 1..Len(buffer) :
             lastFlushedId < buffer[j].id /\ buffer[j].id <= batch[Len(batch)].id =>
               \E i \in 1..Len(batch) : batch[i] = buffer[j]
    BY <1>1 DEF IInv, BatchInv
  <2> QED BY <1>1, <1>u, <2>1, <2>2 DEF BatchInv, Stored
<1>8. Accounted'
  <2>1. \A line : /\ Pending(line)' <=> Pending(line)
                  /\ WrittenOff(line)' <=> WrittenOff(line)
    BY <1>u DEF Pending, WrittenOff
  <2>2. \A line \in Lines : Stored(line) => Stored(line)'
    BY <1>2, <1>3 DEF Stored
  <2>3. \A s \in Sources, l \in 1..MaxLine : <<s, l>> \in Lines
    BY DEF Lines
  <2> QED BY <1>u, <2>1, <2>2, <2>3 DEF IInv, Accounted
<1> QED BY <1>4, <1>5, <1>7, <1>8 DEF IInv

\* A checkpoint writes positions of the right type.
LEMMA CheckpointType ==
  ASSUME TailerTypeOK, NEW S \in SUBSET Sources, CheckpointAll(S)
  PROVE  /\ persisted' \in [Sources -> Position]
         /\ persistedAt' \in [Sources -> 0..2 * MaxLine]
  BY DEF CheckpointAll, TailerTypeOK

\* Fault keeps the counter of faults within its bound.
LEMMA FaultType ==
  ASSUME faults \in 0..MaxFault, Fault \/ UNCHANGED faults
  PROVE  faults' \in 0..MaxFault
  BY IngestBoundsAssumption DEF Fault

\* Moving past the batch leaves pending what is above it: below, everything the
\* buffer still holds was in the batch, and the batch is in the database.
LEMMA FinishInvariant ==
  ASSUME IInv, FinishFlush
  PROVE  IInv'
<1>1. PICK S \in SUBSET Sources : /\ IF S = Sources THEN UNCHANGED faults ELSE Fault
                                  /\ CheckpointAll(S)
  BY DEF FinishFlush
<1>2. /\ phase = "committed" /\ phase' = "insights"
      /\ lastFlushedId' = batch[Len(batch)].id /\ batch' = <<>>
      /\ UNCHANGED <<db, logVars, handle, polling, result, readState, consumed, skipped>>
      /\ UNCHANGED <<ringVars, mode, running, crashes, stops, lost>>
  BY DEF FinishFlush, FlushDone
<1>3. /\ batch # <<>> /\ batch \in Seq(StoredEvent)
      /\ latestId \in Nat /\ lastFlushedId \in Nat /\ db \in [Lines -> Nat]
  BY <1>2 DEF IInv, BatchInv, TypeOK, RingTypeOK, AggregatorTypeOK
<1>4. Len(batch) \in 1..Len(batch)
  BY <1>3
<1>5. /\ lastFlushedId' \in Nat
      /\ lastFlushedId < lastFlushedId'
      /\ lastFlushedId' <= latestId
  <2>1. batch[Len(batch)] \in StoredEvent
    BY <1>3, <1>4
  <2>2. batch[Len(batch)].id \in Nat
    BY <2>1 DEF StoredEvent
  <2> QED BY <1>2, <1>4, <2>2 DEF IInv, BatchInv
<1>6. TypeOK'
  <2>1. TailerTypeOK'
    BY <1>1, <1>2, CheckpointType DEF IInv, TypeOK, TailerTypeOK
  <2>2. faults' \in 0..MaxFault
    BY <1>1, FaultType DEF IInv, TypeOK
  <2>3. AggregatorTypeOK'
    BY <1>2, <1>3, <1>5 DEF IInv, TypeOK, AggregatorTypeOK
  <2> QED BY <1>2, <2>1, <2>2, <2>3 DEF IInv, TypeOK, logVars, ringVars, LogTypeOK, RingTypeOK
<1>7. LogInv' /\ RingConsecutive' /\ PollInv'
  BY <1>2 DEF IInv, logVars, ringVars, LogInv, RingConsecutive, PollInv
<1>8. BatchInv'
  <2>1. UNCHANGED <<buffer, latestId>>
    BY <1>2 DEF ringVars
  <2> QED BY <1>2, <1>5, <2>1 DEF BatchInv
<1>9. Accounted'
  <2> SUFFICES ASSUME NEW s \in Sources, NEW l \in 1..MaxLine, 2 * l <= consumed'[s]
               PROVE  Stored(<<s, l>>)' \/ Pending(<<s, l>>)' \/ WrittenOff(<<s, l>>)'
    BY DEF Accounted
  <2>1. Stored(<<s, l>>) \/ Pending(<<s, l>>) \/ WrittenOff(<<s, l>>)
    BY <1>2 DEF IInv, Accounted
  <2>2. CASE Stored(<<s, l>>)
    BY <1>2, <2>2 DEF Stored
  <2>3. CASE WrittenOff(<<s, l>>)
    BY <1>2, <2>3 DEF WrittenOff
  <2>4. CASE \E i \in 1..Len(batch) : batch[i].event = <<s, l>>
    BY <1>2, <2>4 DEF IInv, BatchInv, Stored
  <2>5. CASE \E j \in 1..Len(buffer) :
               buffer[j].event = <<s, l>> /\ buffer[j].id > lastFlushedId
    <3>1. PICK j \in 1..Len(buffer) :
            buffer[j].event = <<s, l>> /\ buffer[j].id > lastFlushedId
      BY <2>5
    <3>2. buffer[j].id \in Nat
      <4>1. buffer[j] \in StoredEvent
        BY DEF IInv, TypeOK, RingTypeOK
      <4> QED BY <4>1 DEF StoredEvent
    <3>3. CASE buffer[j].id <= lastFlushedId'
      <4>1. \E i \in 1..Len(batch) : batch[i] = buffer[j]
        BY <1>2, <1>3, <3>1, <3>2, <3>3 DEF IInv, BatchInv
      <4> QED BY <2>4, <3>1, <4>1
    <3>4. CASE buffer[j].id > lastFlushedId'
      BY <1>2, <3>1, <3>4 DEF Pending, ringVars
    <3> QED BY <1>5, <3>2, <3>3, <3>4
  <2> QED BY <2>1, <2>2, <2>3, <2>4, <2>5 DEF Pending
<1> QED BY <1>6, <1>7, <1>8, <1>9 DEF IInv

\* The end of a flush changes nothing else.
LEMMA EndInvariant ==
  ASSUME IInv, EndFlush
  PROVE  IInv'
<1>1. /\ phase = "insights" /\ phase' = "idle"
      /\ UNCHANGED <<batch, lastFlushedId, db, logVars, tailerVars, ringVars, processVars, lost>>
  BY DEF EndFlush, FlushEnd
<1>2. TypeOK'
  BY <1>1 DEF IInv, TypeOK, logVars, tailerVars, ringVars, processVars,
              LogTypeOK, TailerTypeOK, RingTypeOK, AggregatorTypeOK
<1>3. LogInv' /\ RingConsecutive' /\ PollInv'
  BY <1>1 DEF IInv, logVars, tailerVars, ringVars, LogInv, RingConsecutive, PollInv
<1>u. UNCHANGED <<batch, lastFlushedId, db, buffer, latestId, consumed, skipped, lost>>
  BY <1>1 DEF ringVars, tailerVars
<1>4. BatchInv'
  BY <1>1, <1>u DEF IInv, BatchInv, Stored
<1>5. Accounted'
  <2>1. \A line : /\ Stored(line)' <=> Stored(line)
                  /\ Pending(line)' <=> Pending(line)
                  /\ WrittenOff(line)' <=> WrittenOff(line)
    BY <1>u DEF Stored, Pending, WrittenOff
  <2> QED BY <1>u, <2>1 DEF IInv, Accounted
<1> QED BY <1>2, <1>3, <1>4, <1>5 DEF IInv

\* A flush that raises gives its batch back to the buffer; what the buffer has
\* dropped meanwhile is on record as lost.
LEMMA FailInvariant ==
  ASSUME IInv, FailFlush
  PROVE  IInv'
<1> DEFINE gone == {batch[i].event : i \in
                      {i \in 1..Len(batch) : batch[i].id <= latestId - Len(buffer)}}
<1>1. /\ phase \in {"writing", "committed"} /\ phase' = "idle" /\ batch' = <<>> /\ Fault
      /\ IF phase = "committed" THEN UNCHANGED lost
                                ELSE lost' = [lost EXCEPT !["overflow"] = @ \cup gone]
      /\ UNCHANGED <<lastFlushedId, db, logVars, tailerVars, ringVars>>
      /\ UNCHANGED <<mode, running, crashes, stops>>
  BY DEF FailFlush, FlushRaises, Lose
<1>2. \A i \in 1..Len(batch) : batch[i] \in StoredEvent
  BY DEF IInv, TypeOK, AggregatorTypeOK
<1>3. gone \in SUBSET Lines
  BY <1>2 DEF StoredEvent
<1>4. \A i \in 1..Len(batch) : batch[i].id <= latestId - Len(buffer) =>
        batch[i].event \in gone
  OBVIOUS
<1> HIDE DEF gone
<1>5. TypeOK'
  <2>1. faults' \in 0..MaxFault
    BY <1>1, FaultType DEF IInv, TypeOK
  <2>2. lost' \in [Causes -> SUBSET Lines]
    BY <1>1, <1>3 DEF IInv, TypeOK
  <2>3. AggregatorTypeOK'
    BY <1>1 DEF IInv, TypeOK, AggregatorTypeOK
  <2> QED BY <1>1, <2>1, <2>2, <2>3 DEF IInv, TypeOK, logVars, tailerVars, ringVars,
             LogTypeOK, TailerTypeOK, RingTypeOK
<1>6. LogInv' /\ RingConsecutive' /\ PollInv'
  BY <1>1 DEF IInv, logVars, tailerVars, ringVars, LogInv, RingConsecutive, PollInv
<1>7. BatchInv'
  BY <1>1 DEF IInv, BatchInv, ringVars
<1>8. Accounted'
  <2> SUFFICES ASSUME NEW s \in Sources, NEW l \in 1..MaxLine, 2 * l <= consumed'[s]
               PROVE  Stored(<<s, l>>)' \/ Pending(<<s, l>>)' \/ WrittenOff(<<s, l>>)'
    BY DEF Accounted
  <2>u. UNCHANGED <<lastFlushedId, db, buffer, latestId, consumed, skipped>>
    BY <1>1 DEF ringVars, tailerVars
  <2>1. Stored(<<s, l>>) \/ Pending(<<s, l>>) \/ WrittenOff(<<s, l>>)
    BY <2>u DEF IInv, Accounted
  <2>2. CASE Stored(<<s, l>>)
    BY <2>u, <2>2 DEF Stored
  <2>3. CASE WrittenOff(<<s, l>>)
    BY <1>1, <2>u, <2>3 DEF WrittenOff, IInv, TypeOK, Causes
  <2>4. CASE \E j \in 1..Len(buffer) :
               buffer[j].event = <<s, l>> /\ buffer[j].id > lastFlushedId
    BY <2>u, <2>4 DEF Pending
  <2>5. CASE \E i \in 1..Len(batch) : batch[i].event = <<s, l>>
    <3>1. PICK i \in 1..Len(batch) : batch[i].event = <<s, l>>
      BY <2>5
    <3>2. CASE phase = "committed"
      BY <2>u, <3>1, <3>2 DEF IInv, BatchInv, Stored
    <3>3. CASE phase # "committed" /\ batch[i].id <= latestId - Len(buffer)
      <4>1. <<s, l>> \in lost'["overflow"]
        BY <1>1, <1>4, <3>1, <3>3 DEF IInv, TypeOK, Causes
      <4> QED BY <4>1 DEF WrittenOff, Causes
    <3>4. CASE phase # "committed" /\ ~(batch[i].id <= latestId - Len(buffer))
      <4>1. batch[i].id \in Nat /\ latestId \in Nat /\ Len(buffer) \in Nat
        BY <1>2 DEF StoredEvent, IInv, TypeOK, RingTypeOK
      <4>2. \E j \in 1..Len(buffer) : buffer[j] = batch[i]
        BY <3>4, <4>1 DEF IInv, BatchInv
      <4>3. batch[i].id > lastFlushedId
        BY <4>1 DEF IInv, BatchInv, TypeOK, AggregatorTypeOK
      <4> QED BY <2>4, <3>1, <4>2, <4>3
    <3> QED BY <3>2, <3>3, <3>4
  <2> QED BY <2>1, <2>2, <2>3, <2>4, <2>5 DEF Pending
<1> QED BY <1>5, <1>6, <1>7, <1>8 DEF IInv

\* Starting, being told to stop, and the aggregator's turn to stop.
LEMMA ModeInvariant ==
  ASSUME IInv, Start \/ Shutdown \/ StopAggregator
  PROVE  IInv'
<1>1. /\ UNCHANGED <<logVars, tailerVars, ringVars, aggregatorVars, crashes, faults, lost>>
      /\ mode' \in {"up", "stopping", "closing"}
      /\ running' \in SUBSET Sources
      /\ stops' \in 0..MaxStop
  BY IngestBoundsAssumption DEF Start, Shutdown, StopAggregator, IInv, TypeOK
<1>2. TypeOK'
  BY <1>1 DEF IInv, TypeOK, logVars, tailerVars, ringVars, aggregatorVars,
              LogTypeOK, TailerTypeOK, RingTypeOK, AggregatorTypeOK
<1>3. LogInv' /\ RingConsecutive' /\ PollInv'
  BY <1>1 DEF IInv, logVars, tailerVars, ringVars, LogInv, RingConsecutive, PollInv
<1>4. UNCHANGED <<consumed, skipped>>
  BY <1>1 DEF tailerVars
<1> QED BY <1>1, <1>2, <1>3, <1>4, SameBatch, SameAccounts DEF IInv

\* A stopped tailer gives up at most a poll it had not dispatched.
LEMMA StopTailerInvariant ==
  ASSUME IInv, NEW s \in Sources, StopTailer(s)
  PROVE  IInv'
<1>1. PICK S \in SUBSET {s} : /\ IF polling[s] \/ S = {} THEN Fault ELSE UNCHANGED faults
                              /\ CloseTailer(s, S)
  BY DEF StopTailer
<1>2. /\ CheckpointAll(S)
      /\ handle' = [handle EXCEPT ![s] = Closed]
      /\ polling' = [polling EXCEPT ![s] = FALSE]
      /\ result' = [result EXCEPT ![s] = Nothing]
      /\ running' = running \ {s}
      /\ UNCHANGED <<readState, consumed, skipped>>
      /\ UNCHANGED <<logVars, ringVars, aggregatorVars, mode, crashes, stops, lost>>
  BY <1>1 DEF StopTailer, CloseTailer
<1>3. TypeOK'
  <2>1. Closed \in Position /\ Nothing \in PollResult
    BY SourcesAssumption DEF Closed, Nothing, Position, PollResult
  <2>2. /\ persisted' \in [Sources -> Position]
        /\ persistedAt' \in [Sources -> 0..2 * MaxLine]
    BY <1>2, CheckpointType DEF IInv, TypeOK
  <2>3. TailerTypeOK'
    BY <1>2, <2>1, <2>2 DEF IInv, TypeOK, TailerTypeOK
  <2>4. faults' \in 0..MaxFault
    BY <1>1, FaultType DEF IInv, TypeOK
  <2> QED BY <1>2, <2>3, <2>4 DEF IInv, TypeOK, logVars, ringVars, aggregatorVars,
             LogTypeOK, RingTypeOK, AggregatorTypeOK
<1>4. LogInv' /\ RingConsecutive'
  BY <1>2 DEF IInv, logVars, ringVars, LogInv, RingConsecutive
<1>5. PollInv'
  BY <1>2 DEF IInv, TypeOK, TailerTypeOK, PollInv
<1> QED BY <1>2, <1>3, <1>4, <1>5, SameBatch, SameAccounts DEF IInv

\* What the process loses when it ends is exactly what the state files claim and
\* nobody has.
LEMMA ExitInvariant ==
  ASSUME IInv, NEW cause \in Causes, Exit(cause),
         crashes' \in 0..MaxCrash, stops' \in 0..MaxStop, faults' \in 0..MaxFault
  PROVE  IInv'
<1>1. /\ mode' = "down" /\ running' = {} /\ buffer' = <<>> /\ latestId' = 0
      /\ phase' = "idle" /\ batch' = <<>> /\ lastFlushedId' = 0
      /\ lost' = [lost EXCEPT ![cause] = @ \cup Unaccounted]
      /\ polling' = [s \in Sources |-> FALSE]
      /\ consumed' = persistedAt
      /\ UNCHANGED <<logVars, db, persisted, persistedAt, skipped>>
  BY DEF Exit, LoseTailers, LoseAggregator, Lose
<1>2. TypeOK'
  <2>1. Closed \in Position /\ Nothing \in PollResult
    BY SourcesAssumption DEF Closed, Nothing, Position, PollResult
  <2>2. TailerTypeOK'
    BY <2>1 DEF IInv, TypeOK, TailerTypeOK, Exit, LoseTailers
  <2>3. RingTypeOK' /\ AggregatorTypeOK'
    BY <1>1 DEF IInv, TypeOK, RingTypeOK, AggregatorTypeOK
  <2>4. Unaccounted \in SUBSET Lines
    BY DEF Unaccounted
  <2>5. lost' \in [Causes -> SUBSET Lines]
    BY <1>1, <2>4 DEF IInv, TypeOK
  <2> QED BY <1>1, <2>2, <2>3, <2>5 DEF IInv, TypeOK, logVars, LogTypeOK
<1>3. LogInv'
  BY <1>1 DEF IInv, logVars, LogInv
<1>4. RingConsecutive'
  BY <1>1, CapacityAssumption DEF RingConsecutive
<1>5. PollInv'
  BY <1>1 DEF PollInv
<1>6. BatchInv'
  BY <1>1 DEF BatchInv
<1>7. Accounted'
  <2> SUFFICES ASSUME NEW s \in Sources, NEW l \in 1..MaxLine, 2 * l <= persistedAt[s]
               PROVE  Stored(<<s, l>>)' \/ WrittenOff(<<s, l>>)'
    BY <1>1 DEF Accounted
  <2>1. <<s, l>> \in Lines
    BY DEF Lines
  <2>2. db[<<s, l>>] \in Nat
    BY <2>1 DEF IInv, TypeOK, AggregatorTypeOK
  <2>3. /\ Unaccounted \subseteq lost'[cause]
        /\ \A c \in Causes : lost[c] \subseteq lost'[c]
    BY <1>1 DEF IInv, TypeOK
  <2>4. CASE <<s, l>> \in Unaccounted
    BY <2>3, <2>4 DEF WrittenOff
  <2>5. CASE <<s, l>> \notin Unaccounted
    <3>1. \/ db[<<s, l>>] # 0
          \/ <<s, l>> \in skipped
          \/ \E c \in Causes : <<s, l>> \in lost[c]
      BY <2>1, <2>5 DEF Unaccounted
    <3> QED BY <1>1, <2>2, <2>3, <3>1 DEF Stored, WrittenOff
  <2> QED BY <2>4, <2>5
<1> QED BY <1>2, <1>3, <1>4, <1>5, <1>6, <1>7 DEF IInv

\* Crashing, stopping and being cut short all end the process.
LEMMA EndOfProcessInvariant ==
  ASSUME IInv, Crash \/ Stopped \/ CancelFlush
  PROVE  IInv'
<1>1. crashes \in 0..MaxCrash /\ stops \in 0..MaxStop /\ faults \in 0..MaxFault
  BY DEF IInv, TypeOK
<1>2. "crash" \in Causes /\ "stop" \in Causes
  BY DEF Causes
<1>3. CASE Crash
  <2>1. crashes' \in 0..MaxCrash /\ UNCHANGED <<stops, faults>> /\ Exit("crash")
    BY <1>1, <1>3, IngestBoundsAssumption DEF Crash
  <2> QED BY <1>1, <1>2, <2>1, ExitInvariant
<1>4. CASE Stopped
  <2>1. UNCHANGED <<crashes, stops, faults>> /\ Exit("stop")
    BY <1>4 DEF Stopped
  <2> QED BY <1>1, <1>2, <2>1, ExitInvariant
<1>5. CASE CancelFlush
  <2>1. UNCHANGED <<crashes, stops>> /\ Fault /\ Exit("stop")
    BY <1>5 DEF CancelFlush
  <2>2. faults' \in 0..MaxFault
    BY <1>1, <2>1, FaultType
  <2> QED BY <1>1, <1>2, <2>1, <2>2, ExitInvariant
<1> QED BY <1>3, <1>4, <1>5

\* The inductive step.
LEMMA NextIInv == IInv /\ [Next]_vars => IInv'
<1> SUFFICES ASSUME IInv, [Next]_vars PROVE IInv'
  OBVIOUS
<1>1. ASSUME NEW s \in Sources, Log(s) PROVE IInv'
  BY <1>1, LogInvariant
<1>2. ASSUME NEW s \in Sources, Read(s) PROVE IInv'
  BY <1>2, ReadInvariant
<1>3. ASSUME NEW s \in Sources, Missing(s) \/ Raise(s) PROVE IInv'
  BY <1>3, CloseInvariant
<1>4. ASSUME NEW s \in Sources, Dispatch(s) PROVE IInv'
  BY <1>4, DispatchInvariant
<1>5. ASSUME NEW s \in Sources, StopTailer(s) PROVE IInv'
  BY <1>5, StopTailerInvariant
<1>6. CASE BeginFlush \/ FinalFlush
  BY <1>6, BeginInvariant
<1>7. CASE CommitFlush
  BY <1>7, CommitInvariant
<1>8. CASE FinishFlush
  BY <1>8, FinishInvariant
<1>9. CASE EndFlush
  BY <1>9, EndInvariant
<1>10. CASE FailFlush
  BY <1>10, FailInvariant
<1>11. CASE Start \/ Shutdown \/ StopAggregator
  BY <1>11, ModeInvariant
<1>12. CASE Crash \/ Stopped \/ CancelFlush
  BY <1>12, EndOfProcessInvariant
<1>13. CASE UNCHANGED vars
  <2>1. UNCHANGED <<logVars, tailerVars, ringVars, aggregatorVars, processVars, lost>>
    BY <1>13 DEF vars
  <2>2. UNCHANGED <<consumed, skipped, ringVars, aggregatorVars, lost>>
    BY <2>1 DEF tailerVars
  <2>3. BatchInv' /\ Accounted'
    BY <2>2, SameBatch, SameAccounts DEF IInv
  <2>4. TypeOK'
    BY <2>1 DEF IInv, TypeOK, logVars, tailerVars, ringVars, aggregatorVars, processVars,
       LogTypeOK, TailerTypeOK, RingTypeOK, AggregatorTypeOK
  <2>5. LogInv' /\ RingConsecutive' /\ PollInv'
    BY <2>1 DEF IInv, logVars, tailerVars, ringVars, LogInv, RingConsecutive, PollInv
  <2> QED BY <2>3, <2>4, <2>5 DEF IInv
<1> QED BY <1>1, <1>2, <1>3, <1>4, <1>5, <1>6, <1>7, <1>8, <1>9, <1>10, <1>11, <1>12, <1>13
        DEF Next

-----------------------------------------------------------------------------
(* The theorems.                                                           *)

\* The inductive invariant holds throughout.
THEOREM Invariance == Spec => []IInv
  BY InitIInv, NextIInv, PTL DEF Spec

\* Every variable has its type, whatever is read, rotated, flushed and restarted.
THEOREM TypeCorrect == Spec => []TypeOK
<1>1. IInv => TypeOK
  BY DEF IInv
<1> QED BY <1>1, Invariance, PTL

\* The ring buffer is numbered without gaps and never above its capacity.
THEOREM BufferIsConsecutive == Spec => []BufferConsecutive
<1>1. IInv => BufferConsecutive
  BY DEF IInv, BufferConsecutive
<1> QED BY <1>1, Invariance, PTL

\* No line a tailer has moved past disappears without being stored, pending or
\* on record, for any capacity of the buffer and any interleaving.
THEOREM NothingDisappears == Spec => []Accounted
<1>1. IInv => Accounted
  BY DEF IInv
<1> QED BY <1>1, Invariance, PTL

\* A step that drops unflushed events leaves more ids behind _last_flushed_id
\* than the buffer has entries, which is what events_likely_lost looks at.
LEMMA OverflowStep ==
  ASSUME IInv, [Next]_vars, lost'["overflow"] # lost["overflow"]
  PROVE  EventsLikelyLost'
<1> USE DEF Causes
<1>0. /\ latestId \in Nat /\ lastFlushedId \in Nat /\ Len(buffer) \in Nat
      /\ lost \in [Causes -> SUBSET Lines]
      /\ RingTypeOK /\ RingConsecutive
      /\ \A i \in 1..Len(batch) : batch[i] \in StoredEvent
  BY DEF IInv, TypeOK, RingTypeOK, AggregatorTypeOK
<1>1. ASSUME NEW s \in Sources, Dispatch(s) PROVE EventsLikelyLost'
  <2> DEFINE events == result[s].events
  <2>1. /\ AppendAll(events)
        /\ lost' = [lost EXCEPT !["overflow"] = @ \cup Unflushed(EvictedBy(events))]
        /\ lastFlushedId' = lastFlushedId
    BY <1>1 DEF Dispatch, Lose, aggregatorVars
  <2>2. events \in Seq(Lines)
    BY DEF IInv, TypeOK, TailerTypeOK, PollResult
  <2>3. /\ RingTypeOK' /\ RingConsecutive'
        /\ \A n \in EvictedBy(events) : n.id <= latestId' - Len(buffer')
    BY <1>0, <2>1, <2>2, AppendAllRing
  <2>4. Unflushed(EvictedBy(events)) # {}
    BY <1>0, <2>1
  <2>5. PICK n \in EvictedBy(events) : n.id > lastFlushedId
    BY <2>4 DEF Unflushed
  <2>e. n.id \in Nat
    <3> DEFINE entries == buffer \o Numbered(events)
    <3>1. entries \in Seq(StoredEvent)
      BY <1>0, <2>2, AllEntries
    <3> HIDE DEF entries
    <3>2. \A i \in 1..Overrun(entries) : entries[i] \in StoredEvent
      BY <3>1, KeepEntries
    <3>3. n \in StoredEvent
      BY <3>2 DEF EvictedBy, entries
    <3> QED BY <3>3 DEF StoredEvent
  <2>6. latestId' \in Nat /\ Len(buffer') \in Nat
    BY <2>3 DEF RingTypeOK
  <2>7. latestId' > lastFlushedId' /\ latestId' - lastFlushedId' > Len(buffer')
    BY <1>0, <2>1, <2>3, <2>5, <2>e, <2>6
  <2> QED BY <2>7 DEF EventsLikelyLost, BacklogSize
<1>2. CASE FailFlush
  <2>1. /\ UNCHANGED <<lastFlushedId, buffer, latestId>>
        /\ phase # "committed"
        /\ lost' = [lost EXCEPT !["overflow"] = @ \cup {batch[i].event : i \in
                      {i \in 1..Len(batch) : batch[i].id <= latestId - Len(buffer)}}]
    BY <1>2 DEF FailFlush, FlushRaises, Lose, ringVars
  <2>2. {i \in 1..Len(batch) : batch[i].id <= latestId - Len(buffer)} # {}
    BY <1>0, <2>1
  <2>3. PICK i \in 1..Len(batch) : batch[i].id <= latestId - Len(buffer)
    BY <2>2
  <2>4. batch[i].id \in Nat /\ lastFlushedId < batch[i].id
    BY <1>0 DEF StoredEvent, IInv, BatchInv
  <2>5. latestId > lastFlushedId /\ latestId - lastFlushedId > Len(buffer)
    BY <1>0, <2>3, <2>4
  <2> QED BY <2>1, <2>5 DEF EventsLikelyLost, BacklogSize
<1>3. CASE Crash \/ Stopped \/ CancelFlush
  <2>1. PICK cause \in {"crash", "stop"} : lost' = [lost EXCEPT ![cause] = @ \cup Unaccounted]
    BY <1>3 DEF Crash, Stopped, CancelFlush, Exit, Lose
  <2> QED BY <1>0, <2>1
<1>4. UNCHANGED lost \/ FailFlush \/ Crash \/ Stopped \/ CancelFlush
        \/ \E s \in Sources : Dispatch(s)
  BY DEF Next, vars, Log, Read, Missing, Raise, StopTailer, BeginFlush, CommitFlush,
         FinishFlush, EndFlush, Start, Shutdown, StopAggregator, FinalFlush
<1> QED BY <1>1, <1>2, <1>3, <1>4

\* No event leaves the buffer unwritten without events_likely_lost turning true
\* in the same step, for any capacity.
THEOREM OverflowNoticed == Spec => OverflowIsNoticed
<1>1. IInv /\ [Next]_vars =>
        [lost'["overflow"] # lost["overflow"] => EventsLikelyLost']_vars
  BY OverflowStep
<1> QED BY <1>1, Invariance, PTL DEF Spec, OverflowIsNoticed

-----------------------------------------------------------------------------
(* The inductive invariant.                                                *)

\* The ids under which a line is in memory, in the buffer or in the hands of a
\* flush, and of those the ones that are still to be committed.
Copies(line) ==
  {n \in 1..latestId :
     \/ \E j \in 1..Len(buffer) : buffer[j].id = n /\ buffer[j].event = line
     \/ \E i \in 1..Len(batch) : batch[i].id = n /\ batch[i].event = line}

Edge == IF phase = "committed" THEN batch[Len(batch)].id ELSE lastFlushedId

Due(line) == {n \in Copies(line) : n > Edge}

\* 1 if the line was read and is not dispatched yet, else 0.
InHand(line) ==
  IF polling[line[1]] /\ \E i \in 1..Len(result[line[1]].events) :
                           result[line[1]].events[i] = line
    THEN 1 ELSE 0

\* Of f faults n are commits whose answer was lost; the others and the crashes
\* are why a line was read again.  So there are at most 1 + crashes + f - n
\* copies of it, and each counts at most 1 + n times.
Fits(copies, count, c, f) ==
  \E n \in 0..f : /\ copies <= 1 + c + f - n
                  /\ count <= (1 + c + f - n) * (1 + n)

\* A line could be read `more` times and still not be counted too often.
Within(line, more) ==
  Fits(Cardinality(Copies(line)) + InHand(line) + more,
       db[line] + Cardinality(Due(line)) + InHand(line) + more, crashes, faults)

\* Line l can be read by a tailer that resumes at a position: it is not written
\* yet, or stands behind the position in the file at the path, or anywhere in it
\* if that is another file or was cut off before the position.
Reach(s, pos, l) ==
  \/ 2 * l > written[s]
  \/ /\ pos # Closed /\ path[s] # NoFile
     /\ base[s][path[s]] < 2 * l /\ 2 * l <= top[s][path[s]]
     /\ pos.inode = path[s] /\ pos.off <= Size(s, path[s]) =>
          base[s][path[s]] + pos.off < 2 * l

\* Line l is left to read in a file that is not at the path any more.
Drainable(s, pos, l) ==
  /\ pos.inode \notin {NoFile, path[s]}
  /\ base[s][pos.inode] + pos.off < 2 * l
  /\ 2 * l <= top[s][pos.inode]

\* No line ends in two files.
Disjoint ==
  \A s \in Sources, i, j \in Inodes, l \in 1..MaxLine :
    i # j => ~(/\ base[s][i] < 2 * l /\ 2 * l <= top[s][i]
               /\ base[s][j] < 2 * l /\ 2 * l <= top[s][j])

\* A batch is in the order of its ids.
BatchOrder ==
  \A i \in 1..Len(batch) : batch[i].id = batch[Len(batch)].id - Len(batch) + i

\* A stopped tailer is closed.  An open one is where its snapshot says, unless it
\* has read on and not dispatched, and a poll returns each line once.
TailersInv ==
  /\ mode = "up" => running = Sources
  /\ mode \in {"closing", "final"} => running = {}
  /\ \A s \in Sources :
       /\ handle[s] # Closed => handle[s].inode # NoFile /\ s \in running
       /\ handle[s] # Closed /\ ~polling[s] => readState[s] = handle[s]
       /\ polling[s] => \A i, j \in 1..Len(result[s].events) :
            /\ result[s].events[i][1] = s
            /\ result[s].events[i] = result[s].events[j] => i = j

CopiesInv == \A line \in Lines : Within(line, 0)

\* Of what can be read there is one copy less than would be too many.
AheadInv ==
  \A s \in Sources, l \in 1..MaxLine :
    /\ handle[s] # Closed /\ (Reach(s, handle[s], l) \/ Drainable(s, handle[s], l))
         => Within(<<s, l>>, 1)
    /\ handle[s] = Closed /\ (Reach(s, persisted[s], l) \/ Reach(s, readState[s], l))
         => Within(<<s, l>>, 1)

CountInv == IInv /\ Disjoint /\ BatchOrder /\ TailersInv /\ CopiesInv /\ AheadInv

-----------------------------------------------------------------------------
(* Counting.                                                               *)

\* Fewer copies and fewer counts fit all the more.
LEMMA FitsLess ==
  ASSUME NEW e \in Nat, NEW d \in Nat, NEW e2 \in Nat, NEW d2 \in Nat,
         NEW c \in Nat, NEW f \in Nat, e2 <= e, d2 <= d, Fits(e, d, c, f)
  PROVE  Fits(e2, d2, c, f)
<1>1. PICK n \in 0..f : e <= 1 + c + f - n /\ d <= (1 + c + f - n) * (1 + n)
  BY DEF Fits
<1> DEFINE p == (1 + c + f - n) * (1 + n)
<1>2. p \in Int
  OBVIOUS
<1>3. d2 <= p
  <2> HIDE DEF p
  <2> QED BY <1>1, <1>2 DEF p
<1>4. e2 <= 1 + c + f - n
  BY <1>1
<1> QED BY <1>3, <1>4 DEF Fits

\* A crash or a fault that has a line read again explains one more of each.
LEMMA FitsRead ==
  ASSUME NEW e \in Nat, NEW d \in Nat, NEW c \in Nat, NEW f \in Nat,
         NEW c2 \in Nat, NEW f2 \in Nat, c2 + f2 = c + f + 1, f <= f2, Fits(e, d, c, f)
  PROVE  Fits(e + 1, d + 1, c2, f2)
<1>1. PICK n \in 0..f : e <= 1 + c + f - n /\ d <= (1 + c + f - n) * (1 + n)
  BY DEF Fits
<1> DEFINE q == 1 + c + f - n
<1>2. 1 + c2 + f2 - n = q + 1 /\ q \in Nat /\ n \in 0..f2
  OBVIOUS
<1>3. (q + 1) * (1 + n) = q * (1 + n) + (1 + n)
  BY <1>2
<1>4. q * (1 + n) \in Int
  BY <1>2
<1>5. d + 1 <= (q + 1) * (1 + n)
  <2>1. d <= q * (1 + n)
    BY <1>1
  <2> DEFINE p == q * (1 + n)
  <2>2. p \in Int /\ d <= p /\ (q + 1) * (1 + n) = p + (1 + n)
    BY <2>1, <1>3, <1>4
  <2> HIDE DEF p, q
  <2> QED BY <2>2
<1>6. e + 1 <= q + 1
  BY <1>1, <1>2
<1> QED BY <1>2, <1>5, <1>6 DEF Fits

\* A commit whose answer was lost may count every copy once more.
LEMMA FitsCommit ==
  ASSUME NEW e \in Nat, NEW d \in Nat, NEW d2 \in Nat, NEW c \in Nat, NEW f \in Nat,
         d2 <= d + e, Fits(e, d, c, f)
  PROVE  Fits(e, d2, c, f + 1)
<1>1. PICK n \in 0..f : e <= 1 + c + f - n /\ d <= (1 + c + f - n) * (1 + n)
  BY DEF Fits
<1> DEFINE q == 1 + c + f - n
<1>2. 1 + c + (f + 1) - (n + 1) = q /\ q \in Nat /\ n + 1 \in 0..f + 1
  OBVIOUS
<1>3. q * (1 + (n + 1)) = q * (1 + n) + q
  BY <1>2
<1>4. q * (1 + n) \in Int
  BY <1>2
<1>5. d2 <= q * (1 + (n + 1))
  <2> DEFINE p == q * (1 + n)
  <2>2. p \in Int /\ d <= p /\ q * (1 + (n + 1)) = p + q /\ e <= q
    BY <1>1, <1>3, <1>4
  <2> HIDE DEF p, q
  <2> QED BY <1>2, <2>2
<1>6. e <= q
  BY <1>1
<1> HIDE DEF q
<1> QED BY <1>2, <1>5, <1>6 DEF Fits

\* What fits is counted no more often than CountedOncePerLife says.
LEMMA FitsBound ==
  ASSUME NEW e \in Nat, NEW d \in Nat, NEW d2 \in Nat, NEW c \in Nat, NEW f \in Nat,
         d2 <= d, Fits(e, d, c, f)
  PROVE  \E n \in 0..f : d2 <= (1 + c + f - n) * (1 + n)
  BY FitsLess DEF Fits

\* The copies of a line are finitely many, and so are those still due.
LEMMA CopiesFinite ==
  ASSUME latestId \in Nat, NEW line
  PROVE  /\ IsFiniteSet(Copies(line)) /\ IsFiniteSet(Due(line))
         /\ Cardinality(Copies(line)) \in Nat /\ Cardinality(Due(line)) \in Nat
         /\ Cardinality(Due(line)) <= Cardinality(Copies(line))
<1>1. IsFiniteSet(1..latestId)
  BY FS_Interval
<1>2. Copies(line) \subseteq 1..latestId /\ Due(line) \subseteq Copies(line)
  BY DEF Copies, Due
<1>3. IsFiniteSet(Copies(line))
  BY <1>1, <1>2, FS_Subset
<1>4. IsFiniteSet(Due(line)) /\ Cardinality(Due(line)) <= Cardinality(Copies(line))
  BY <1>2, <1>3, FS_Subset
<1> QED BY <1>3, <1>4, FS_CardinalityType

\* The terms that Within is about are numbers.
LEMMA WithinType ==
  ASSUME TypeOK, NEW line \in Lines
  PROVE  /\ Cardinality(Copies(line)) \in Nat /\ Cardinality(Due(line)) \in Nat
         /\ IsFiniteSet(Copies(line)) /\ IsFiniteSet(Due(line))
         /\ Cardinality(Due(line)) <= Cardinality(Copies(line))
         /\ InHand(line) \in 0..1 /\ db[line] \in Nat
         /\ crashes \in Nat /\ faults \in Nat
<1>1. latestId \in Nat /\ db[line] \in Nat /\ crashes \in Nat /\ faults \in Nat
  BY IngestBoundsAssumption DEF TypeOK, RingTypeOK, AggregatorTypeOK
<1>2. InHand(line) \in 0..1
  BY DEF InHand
<1> QED BY <1>1, <1>2, CopiesFinite

\* A step that adds no copy, no count and no read leaves every line as it was,
\* and if it is a fault or a crash, every line may be read once more.
LEMMA WithinKept ==
  ASSUME TypeOK, TypeOK', NEW line \in Lines, NEW more \in 0..1,
         Copies(line)' \subseteq Copies(line),
         db'[line] + Cardinality(Due(line)') <= db[line] + Cardinality(Due(line)),
         InHand(line)' <= InHand(line), Within(line, more)
  PROVE  /\ UNCHANGED <<crashes, faults>> => Within(line, more)'
         /\ crashes' + faults' = crashes + faults + 1 /\ faults <= faults' =>
              Within(line, more)' /\ Within(line, more + 1)'
<1> DEFINE e == Cardinality(Copies(line)) + InHand(line)
           d == db[line] + Cardinality(Due(line)) + InHand(line)
<1>1. /\ Cardinality(Copies(line)) \in Nat /\ Cardinality(Due(line)) \in Nat
      /\ IsFiniteSet(Copies(line))
      /\ InHand(line) \in 0..1 /\ db[line] \in Nat /\ crashes \in Nat /\ faults \in Nat
  BY WithinType
<1>2. /\ Cardinality(Copies(line)') \in Nat /\ Cardinality(Due(line)') \in Nat
      /\ InHand(line)' \in 0..1 /\ db'[line] \in Nat /\ crashes' \in Nat /\ faults' \in Nat
  <2>1. latestId' \in Nat /\ db'[line] \in Nat /\ crashes' \in Nat /\ faults' \in Nat
    BY IngestBoundsAssumption DEF TypeOK, RingTypeOK, AggregatorTypeOK
  <2>2. IsFiniteSet(1..latestId')
    BY <2>1, FS_Interval
  <2>3. Copies(line)' \subseteq 1..latestId' /\ Due(line)' \subseteq Copies(line)'
    BY DEF Copies, Due
  <2>4. IsFiniteSet(Copies(line)') /\ IsFiniteSet(Due(line)')
    BY <2>2, <2>3, FS_Subset
  <2>5. InHand(line)' \in 0..1
    BY DEF InHand
  <2> QED BY <2>1, <2>4, <2>5, FS_CardinalityType
<1>3. Cardinality(Copies(line)') <= Cardinality(Copies(line))
  BY <1>1, FS_Subset
<1>4. /\ e \in Nat /\ d \in Nat /\ e' \in Nat /\ d' \in Nat /\ e' <= e /\ d' <= d
  BY <1>1, <1>2, <1>3
<1>5. /\ \A m : Within(line, m) <=> Fits(e + m, d + m, crashes, faults)
      /\ \A m : Within(line, m)' <=> Fits(e' + m, d' + m, crashes', faults')
  BY DEF Within
<1> HIDE DEF e, d
<1>6. ASSUME UNCHANGED <<crashes, faults>> PROVE Within(line, more)'
  <2>1. /\ e + more \in Nat /\ d + more \in Nat /\ e' + more \in Nat /\ d' + more \in Nat
        /\ e' + more <= e + more /\ d' + more <= d + more
    BY <1>4
  <2>2. Fits(e' + more, d' + more, crashes, faults)
    BY <1>1, <1>5, <2>1, FitsLess
  <2> QED BY <1>5, <1>6, <2>2
<1>7. ASSUME crashes' + faults' = crashes + faults + 1, faults <= faults'
      PROVE  Within(line, more)' /\ Within(line, more + 1)'
  <2>1. /\ e + more \in Nat /\ d + more \in Nat
        /\ e + more + 1 \in Nat /\ d + more + 1 \in Nat
        /\ \A m \in {more, more + 1} :
             /\ e' + m \in Nat /\ d' + m \in Nat
             /\ e' + m <= e + more + 1 /\ d' + m <= d + more + 1
    BY <1>4
  <2>2. Fits(e + more + 1, d + more + 1, crashes', faults')
    BY <1>1, <1>2, <1>5, <1>7, <2>1, FitsRead
  <2>3. \A m \in {more, more + 1} : Fits(e' + m, d' + m, crashes', faults')
    <3> TAKE m \in {more, more + 1}
    <3>1. /\ e' + m \in Nat /\ d' + m \in Nat
          /\ e' + m <= e + more + 1 /\ d' + m <= d + more + 1
      BY <2>1
    <3>2. crashes' \in Nat /\ faults' \in Nat /\ e + more + 1 \in Nat /\ d + more + 1 \in Nat
      BY <1>2, <2>1
    <3> QED BY <2>2, <3>1, <3>2, FitsLess
  <2> QED BY <1>5, <2>3
<1> QED BY <1>6, <1>7

-----------------------------------------------------------------------------
(* The log.                                                                *)

\* No write, rotation or truncation puts a line where a tailer could read it
\* that could not be read before.
LEMMA LogAhead ==
  ASSUME LogTypeOK, LogInv, Disjoint, NEW s \in Sources, LogNext(s)
  PROVE  /\ Disjoint'
         /\ \A t \in Sources, pos \in Position, l \in 1..MaxLine :
              /\ Reach(t, pos, l)' => Reach(t, pos, l)
              /\ Drainable(t, pos, l)' => Drainable(t, pos, l) \/ Reach(t, pos, l)
<1> USE SourcesAssumption
<1>w. /\ \A t \in Sources : /\ written[t] \in Nat /\ path[t] \in Inodes \cup {NoFile}
                            /\ writer[t] \in Inodes
      /\ \A t \in Sources, i \in Inodes : base[t][i] \in Nat /\ top[t][i] \in Nat
      /\ base \in [Sources -> [Inodes -> 0..2 * MaxLine]]
      /\ top \in [Sources -> [Inodes -> 0..2 * MaxLine]]
  BY DEF LogTypeOK
<1>l. /\ \A t \in Sources : top[t][writer[t]] = written[t]
      /\ \A t \in Sources, i \in Inodes : base[t][i] <= top[t][i] /\ top[t][i] <= written[t]
  BY DEF LogInv
<1>n. NoFile \notin Inodes
  BY DEF NoFile, Inodes
<1>p. \A pos \in Position : /\ pos.off \in Nat /\ pos.inode \in Inodes \cup {NoFile}
                            /\ pos.inode # NoFile => pos # Closed
  BY DEF Position, Closed
<1>1. CASE Write(s)
  <2>1. /\ \A t \in Sources, j \in Inodes :
             top'[t][j] = IF t = s /\ j = writer[s] THEN written[s] + 1 ELSE top[t][j]
        /\ \A t \in Sources : written'[t] = IF t = s THEN written[s] + 1 ELSE written[t]
        /\ UNCHANGED <<base, path, writer>>
    BY <1>1, <1>w DEF Write, LogTypeOK
  <2>2. Disjoint'
    BY <2>1, <1>w, <1>l DEF Disjoint
  <2>3. ASSUME NEW t \in Sources, NEW pos \in Position, NEW l \in 1..MaxLine, Reach(t, pos, l)'
        PROVE  Reach(t, pos, l)
    BY <2>1, <2>3, <1>w, <1>l, <1>n, <1>p DEF Reach, Size
  <2>4. ASSUME NEW t \in Sources, NEW pos \in Position, NEW l \in 1..MaxLine,
               Drainable(t, pos, l)'
        PROVE  Drainable(t, pos, l) \/ Reach(t, pos, l)
    BY <2>1, <2>4, <1>w, <1>l, <1>n, <1>p DEF Drainable, Reach
  <2> QED BY <2>2, <2>3, <2>4
<1>2. CASE Rename(s)
  <2>1. /\ UNCHANGED <<written, base, top>>
        /\ \A t \in Sources : path'[t] = IF t = s THEN NoFile ELSE path[t]
    BY <1>2 DEF Rename, LogTypeOK
  <2>2. Disjoint'
    BY <2>1 DEF Disjoint
  <2>3. ASSUME NEW t \in Sources, NEW pos \in Position, NEW l \in 1..MaxLine, Reach(t, pos, l)'
        PROVE  Reach(t, pos, l)
    BY <2>1, <2>3 DEF Reach, Size
  <2>4. ASSUME NEW t \in Sources, NEW pos \in Position, NEW l \in 1..MaxLine,
               Drainable(t, pos, l)'
        PROVE  Drainable(t, pos, l) \/ Reach(t, pos, l)
    BY <2>1, <2>4, <1>w, <1>l, <1>n, <1>p DEF Drainable, Reach, Size
  <2> QED BY <2>2, <2>3, <2>4
<1>3. CASE NewFile(s)
  <2> DEFINE i == created[s] + 1
  <2>c. created[s] \in Inodes
    BY DEF LogTypeOK
  <2>0. i \in Inodes
    BY <1>3, <2>c, LogBoundsAssumption DEF NewFile, Inodes
  <2>1. /\ \A t \in Sources, j \in Inodes :
             /\ top'[t][j] = IF t = s /\ j = i THEN written[s] ELSE top[t][j]
             /\ base'[t][j] = IF t = s /\ j = i THEN written[s] ELSE base[t][j]
        /\ \A t \in Sources : path'[t] = IF t = s THEN i ELSE path[t]
        /\ UNCHANGED <<written, writer>>
    BY <1>3, <1>w, <2>0 DEF NewFile, LogTypeOK
  <2> HIDE DEF i
  <2>2. Disjoint'
    BY <2>0, <2>1, <1>w, <1>l DEF Disjoint
  <2>3. ASSUME NEW t \in Sources, NEW pos \in Position, NEW l \in 1..MaxLine, Reach(t, pos, l)'
        PROVE  Reach(t, pos, l)
    BY <2>0, <2>1, <2>3, <1>w, <1>n, <1>p DEF Reach, Size
  <2>4. ASSUME NEW t \in Sources, NEW pos \in Position, NEW l \in 1..MaxLine,
               Drainable(t, pos, l)'
        PROVE  Drainable(t, pos, l) \/ Reach(t, pos, l)
    BY <2>0, <2>1, <2>4, <1>w, <1>l, <1>n, <1>p DEF Drainable, Reach, Size
  <2> QED BY <2>2, <2>3, <2>4
<1>4. CASE Reopen(s)
  <2>0. path[s] \in Inodes
    BY <1>4, <1>w DEF Reopen
  <2>1. /\ \A t \in Sources, j \in Inodes :
             /\ top'[t][j] = IF t = s /\ j = path[s] THEN written[s] ELSE top[t][j]
             /\ base'[t][j] = IF t = s /\ j = path[s] THEN written[s] ELSE base[t][j]
        /\ UNCHANGED <<written, path>>
    BY <1>4, <1>w, <2>0 DEF Reopen
  <2>2. Disjoint'
    BY <2>0, <2>1, <1>w, <1>l DEF Disjoint
  <2>3. ASSUME NEW t \in Sources, NEW pos \in Position, NEW l \in 1..MaxLine, Reach(t, pos, l)'
        PROVE  Reach(t, pos, l)
    BY <2>0, <2>1, <2>3, <1>w, <1>n, <1>p DEF Reach, Size
  <2>4. ASSUME NEW t \in Sources, NEW pos \in Position, NEW l \in 1..MaxLine,
               Drainable(t, pos, l)'
        PROVE  Drainable(t, pos, l)
    BY <2>0, <2>1, <2>4, <1>w, <1>n, <1>p DEF Drainable
  <2> QED BY <2>2, <2>3, <2>4
<1>5. CASE Truncate(s)
  <2>0. path[s] \in Inodes /\ path[s] = writer[s]
    BY <1>5, <1>w DEF Truncate
  <2>1. /\ \A t \in Sources, j \in Inodes :
             base'[t][j] = IF t = s /\ j = path[s] THEN written[s] ELSE base[t][j]
        /\ UNCHANGED <<written, path, top>>
    BY <1>5, <1>w, <2>0 DEF Truncate
  <2>2. Disjoint'
    BY <2>0, <2>1, <1>w, <1>l DEF Disjoint
  <2>3. ASSUME NEW t \in Sources, NEW pos \in Position, NEW l \in 1..MaxLine, Reach(t, pos, l)'
        PROVE  Reach(t, pos, l)
    BY <2>0, <2>1, <2>3, <1>w, <1>l, <1>n, <1>p DEF Reach, Size
  <2>4. ASSUME NEW t \in Sources, NEW pos \in Position, NEW l \in 1..MaxLine,
               Drainable(t, pos, l)'
        PROVE  Drainable(t, pos, l)
    BY <2>0, <2>1, <2>4, <1>w, <1>n, <1>p DEF Drainable
  <2> QED BY <2>2, <2>3, <2>4
<1> QED BY <1>1, <1>2, <1>3, <1>4, <1>5 DEF LogNext, Create, Replace

\* What leaves memory and its account alone leaves every line within its bounds.
LEMMA SameWithin ==
  ASSUME UNCHANGED <<ringVars, aggregatorVars, polling, result, crashes, faults>>
  PROVE  \A line, more : Within(line, more)' <=> Within(line, more)
<1>1. UNCHANGED <<buffer, latestId, phase, batch, lastFlushedId, db>>
  BY DEF ringVars, aggregatorVars
<1>2. ASSUME NEW line PROVE /\ Copies(line)' = Copies(line) /\ Due(line)' = Due(line)
                            /\ InHand(line)' = InHand(line) /\ db'[line] = db[line]
  BY <1>1 DEF Copies, Due, Edge, InHand
<1> QED BY <1>2 DEF Within

\* The log does what it likes; nothing becomes readable twice.
LEMMA LogCounts ==
  ASSUME CountInv, NEW s \in Sources, Log(s)
  PROVE  CountInv'
<1>1. IInv'
  BY LogInvariant DEF CountInv
<1>2. /\ Disjoint'
      /\ \A t \in Sources, pos \in Position, l \in 1..MaxLine :
           /\ Reach(t, pos, l)' => Reach(t, pos, l)
           /\ Drainable(t, pos, l)' => Drainable(t, pos, l) \/ Reach(t, pos, l)
  BY LogAhead DEF CountInv, IInv, TypeOK, Log
<1>3. /\ UNCHANGED <<ringVars, aggregatorVars, tailerVars, processVars>>
      /\ UNCHANGED <<handle, polling, result, readState, persisted, batch>>
      /\ UNCHANGED <<mode, running, crashes, faults>>
  BY DEF Log, tailerVars, aggregatorVars, processVars
<1>4. \A line, more : Within(line, more)' <=> Within(line, more)
  BY <1>3, SameWithin
<1>5. BatchOrder' /\ TailersInv' /\ CopiesInv'
  BY <1>3, <1>4 DEF CountInv, BatchOrder, TailersInv, CopiesInv
<1>6. AheadInv'
  <2>1. \A t \in Sources : handle[t] \in Position /\ persisted[t] \in Position
                           /\ readState[t] \in Position
    BY DEF CountInv, IInv, TypeOK, TailerTypeOK
  <2> SUFFICES ASSUME NEW t \in Sources, NEW l \in 1..MaxLine
               PROVE  /\ handle'[t] # Closed /\ (Reach(t, handle[t], l)' \/ Drainable(t, handle[t], l)')
                           => Within(<<t, l>>, 1)'
                      /\ handle'[t] = Closed /\ (Reach(t, persisted[t], l)' \/ Reach(t, readState[t], l)')
                           => Within(<<t, l>>, 1)'
    BY DEF AheadInv
  <2>2. handle'[t] = handle[t] /\ persisted'[t] = persisted[t] /\ readState'[t] = readState[t]
    BY <1>3
  <2>3. /\ \A pos \in Position : Reach(t, pos, l)' => Reach(t, pos, l)
        /\ \A pos \in Position : Drainable(t, pos, l)' => Drainable(t, pos, l) \/ Reach(t, pos, l)
    BY <1>2
  <2>4. /\ \A pos : pos = handle[t] =>
             /\ Reach(t, handle[t], l)' <=> Reach(t, pos, l)'
             /\ Drainable(t, handle[t], l)' <=> Drainable(t, pos, l)'
        /\ \A pos : pos = persisted[t] => (Reach(t, persisted[t], l)' <=> Reach(t, pos, l)')
        /\ \A pos : pos = readState[t] => (Reach(t, readState[t], l)' <=> Reach(t, pos, l)')
    BY <2>2 DEF Reach, Drainable
  <2>5. /\ Reach(t, handle[t], l)' => Reach(t, handle[t], l)
        /\ Drainable(t, handle[t], l)' => Drainable(t, handle[t], l) \/ Reach(t, handle[t], l)
        /\ Reach(t, persisted[t], l)' => Reach(t, persisted[t], l)
        /\ Reach(t, readState[t], l)' => Reach(t, readState[t], l)
    BY <2>1, <2>3, <2>4
  <2>6. Within(<<t, l>>, 1)' <=> Within(<<t, l>>, 1)
    BY <1>4
  <2>7. /\ handle[t] # Closed /\ (Reach(t, handle[t], l) \/ Drainable(t, handle[t], l))
             => Within(<<t, l>>, 1)
        /\ handle[t] = Closed /\ (Reach(t, persisted[t], l) \/ Reach(t, readState[t], l))
             => Within(<<t, l>>, 1)
    BY DEF CountInv, AheadInv
  <2> QED BY <2>2, <2>5, <2>6, <2>7
<1> QED BY <1>1, <1>2, <1>5, <1>6 DEF CountInv

-----------------------------------------------------------------------------
(* Reading.                                                                *)

\* Reading a part of a file gives each line that ends there at most once.
LEMMA LinesReadOnce ==
  ASSUME NEW s \in Sources, NEW a \in Nat, NEW b \in 0..2 * MaxLine, NEW p \in Int
  PROVE  /\ \A i \in 1..Len(LinesRead(s, a, b, p)) : \E l \in 1..MaxLine :
              LinesRead(s, a, b, p)[i] = <<s, l>> /\ a < 2 * l /\ 2 * l <= b
         /\ \A i, j \in 1..Len(LinesRead(s, a, b, p)) :
              LinesRead(s, a, b, p)[i] = LinesRead(s, a, b, p)[j] => i = j
<1> DEFINE first == FirstWhole(a, p)
           last  == b \div 2
           lines == LinesRead(s, a, b, p)
<1>1. first \in Nat /\ first >= 1 /\ a < 2 * first
  BY DEF FirstWhole
<1>2. last \in Nat /\ last <= MaxLine /\ 2 * last <= b
  BY SourcesAssumption
<1>d. lines = IF first <= last THEN [i \in 1..last - first + 1 |-> <<s, first + i - 1>>]
                               ELSE <<>>
  BY DEF LinesRead
<1> HIDE DEF first, last, lines
<1>3. CASE first <= last
  <2>1. last - first + 1 \in Nat
    BY <1>1, <1>2, <1>3
  <2>2. lines = [i \in 1..last - first + 1 |-> <<s, first + i - 1>>]
    BY <1>3, <1>d
  <2>3. Len(lines) = last - first + 1
    BY <2>1, <2>2
  <2>4. \A i \in 1..Len(lines) : lines[i] = <<s, first + i - 1>>
    BY <2>2, <2>3
  <2>5. \A i \in 1..Len(lines) : first + i - 1 \in 1..MaxLine
                                 /\ a < 2 * (first + i - 1) /\ 2 * (first + i - 1) <= b
    <3> TAKE i \in 1..Len(lines)
    <3> DEFINE m == first + i - 1
    <3>1. m \in Nat /\ first <= m /\ m <= last
      BY <1>1, <1>2, <2>1, <2>3
    <3> HIDE DEF m
    <3>2. m \in 1..MaxLine /\ a < 2 * m /\ 2 * m <= b
      BY <1>1, <1>2, <3>1, SourcesAssumption
    <3> QED BY <3>2 DEF m
  <2>6. \A i, j \in 1..Len(lines) : lines[i] = lines[j] => i = j
    BY <1>1, <2>4, <2>3, <2>1
  <2>7. \A i \in 1..Len(lines) : \E l \in 1..MaxLine :
          lines[i] = <<s, l>> /\ a < 2 * l /\ 2 * l <= b
    BY <2>4, <2>5
  <2> QED BY <2>6, <2>7 DEF lines
<1>4. CASE ~(first <= last)
  BY <1>4, <1>d DEF lines
<1> QED BY <1>3, <1>4

\* A poll reads only what could be read from where the tailer is, or resumes,
\* and each line once, for a line ends in one file.
LEMMA PollLines ==
  ASSUME TypeOK, LogInv, Disjoint, TailersInv, NEW s \in Sources, PollRead(s)
  PROVE  /\ \A i \in 1..Len(EventsRead(s)) : \E l \in 1..MaxLine :
              /\ EventsRead(s)[i] = <<s, l>> /\ 2 * l <= written[s]
              /\ IF handle[s] = Closed THEN Reach(s, persisted[s], l)
                 ELSE Reach(s, handle[s], l) \/ Drainable(s, handle[s], l)
         /\ \A i, j \in 1..Len(EventsRead(s)) :
              EventsRead(s)[i] = EventsRead(s)[j] => i = j
<1> DEFINE h == ReadFrom(s)
           o == Opened(s)
           a == base[s][path[s]] + h.off
           b == top[s][path[s]]
           new == LinesRead(s, a, b, h.partial)
           old == Drained(s)
<1>0. LogTypeOK /\ TailerTypeOK
  BY DEF TypeOK
<1>1. path[s] # NoFile /\ path[s] \in Inodes
  BY <1>0 DEF LogTypeOK, PollRead
<1>2. o \in Position /\ o.inode \in Inodes
  BY <1>0, <1>1, OpenedType
<1>3. \A i \in Inodes : /\ top[s][i] \in 0..2 * MaxLine
                        /\ base[s][i] \in 0..2 * MaxLine
                        /\ base[s][i] <= top[s][i] /\ top[s][i] <= written[s]
  BY <1>0 DEF LogTypeOK, LogInv
<1>w. written[s] \in Nat
  BY <1>0 DEF LogTypeOK
<1>4. 0 \in 0..2 * MaxLine /\ 0 \in -1..2 * MaxLine
  BY SourcesAssumption
<1>h. h = IF Rotated(s) \/ Shrunk(s) THEN [inode |-> path[s], off |-> 0, partial |-> 0]
                                     ELSE o
  BY DEF ReadFrom
<1>r. Rotated(s) <=> o.inode # path[s]
  BY DEF Rotated
<1>k. Shrunk(s) <=> o.inode = path[s] /\ Size(s, path[s]) < o.off
  BY DEF Shrunk, Rotated
<1>q. old = IF Rotated(s)
              THEN LinesRead(s, base[s][o.inode] + o.off, top[s][o.inode], o.partial)
              ELSE <<>>
  BY DEF Drained
<1>e. EventsRead(s) = old \o new
  BY DEF EventsRead
<1>u. o = IF handle[s].inode = NoFile THEN OpenInitial(s) ELSE handle[s]
  BY DEF Opened
<1>t. /\ handle[s] # Closed => handle[s].inode # NoFile
      /\ handle[s] \in Position /\ persisted[s] \in Position
      /\ Closed.inode = NoFile
  BY <1>0 DEF TailersInv, TailerTypeOK, Closed
<1> HIDE DEF o, h
<1>5. h \in Position /\ o.off \in Nat /\ o.partial \in Int
      /\ h.off \in Nat /\ h.partial \in Int
  BY <1>1, <1>2, <1>4, <1>h DEF Position
<1>6. /\ new \in Seq(Lines)
      /\ \A i \in 1..Len(new) : \E l \in 1..MaxLine :
           new[i] = <<s, l>> /\ a < 2 * l /\ 2 * l <= b
      /\ \A i, j \in 1..Len(new) : new[i] = new[j] => i = j
  <2>1. a \in Nat /\ b \in 0..2 * MaxLine
    BY <1>1, <1>3, <1>5
  <2> HIDE DEF a, b
  <2> QED BY <1>5, <2>1, LinesReadOnce, LinesReadType
<1>7. /\ old \in Seq(Lines)
      /\ \A i \in 1..Len(old) : \E l \in 1..MaxLine :
           /\ old[i] = <<s, l>> /\ Rotated(s)
           /\ base[s][o.inode] + o.off < 2 * l /\ 2 * l <= top[s][o.inode]
      /\ \A i, j \in 1..Len(old) : old[i] = old[j] => i = j
  <2> DEFINE c == base[s][o.inode] + o.off
             d == top[s][o.inode]
  <2>1. c \in Nat /\ d \in 0..2 * MaxLine
    BY <1>2, <1>3, <1>5
  <2>2. CASE Rotated(s)
    <3>1. old = LinesRead(s, c, d, o.partial)
      BY <1>q, <2>2
    <3> HIDE DEF c, d, old
    <3>2. /\ old \in Seq(Lines)
          /\ \A i \in 1..Len(old) : \E l \in 1..MaxLine :
               old[i] = <<s, l>> /\ c < 2 * l /\ 2 * l <= d
          /\ \A i, j \in 1..Len(old) : old[i] = old[j] => i = j
      BY <1>5, <2>1, <3>1, LinesReadOnce, LinesReadType
    <3> QED BY <2>2, <3>2 DEF c, d
  <2>3. CASE ~Rotated(s)
    <3>1. old = <<>>
      BY <1>q, <2>3
    <3> HIDE DEF old
    <3> QED BY <3>1
  <2> QED BY <2>2, <2>3
\* Where the lines of the file at the path can be reached from.
<1>8. ASSUME NEW l \in 1..MaxLine, a < 2 * l, 2 * l <= b
      PROVE  /\ base[s][path[s]] < 2 * l
             /\ IF handle[s] = Closed THEN Reach(s, persisted[s], l)
                                      ELSE Reach(s, handle[s], l)
  <2>1. base[s][path[s]] < 2 * l /\ 2 * l <= top[s][path[s]]
    BY <1>1, <1>3, <1>5, <1>8
  <2>2. o.inode = path[s] /\ o.off <= Size(s, path[s]) => base[s][path[s]] + o.off < 2 * l
    <3>1. ~(Size(s, path[s]) < o.off) <=> o.off <= Size(s, path[s])
      BY <1>1, <1>3, <1>5 DEF Size
    <3> QED BY <3>1, <1>8, <1>h, <1>k, <1>r
  <2>3. CASE handle[s] # Closed
    <3>1. o = handle[s]
      BY <1>t, <1>u, <2>3
    <3> QED BY <1>1, <2>1, <2>2, <2>3, <3>1 DEF Reach
  <2>4. CASE handle[s] = Closed
    <3>1. o = OpenInitial(s)
      BY <1>t, <1>u, <2>4
    <3>2. CASE persisted[s].inode = path[s]
      <4>1. o = persisted[s] /\ persisted[s] # Closed
        BY <1>1, <1>t, <3>1, <3>2 DEF OpenInitial
      <4> QED BY <1>1, <2>1, <2>2, <2>4, <4>1 DEF Reach
    <3>3. CASE persisted[s].inode # path[s] /\ persisted[s] = Closed
      <4>1. o = [inode |-> path[s], off |-> Size(s, path[s]), partial |-> 0]
        BY <3>1, <3>3 DEF OpenInitial
      <4>2. o.inode = path[s] /\ o.off = Size(s, path[s])
        BY <4>1
      <4>3. base[s][path[s]] + Size(s, path[s]) = top[s][path[s]]
        BY <1>1, <1>3 DEF Size
      <4>4. Size(s, path[s]) \in Int
        BY <1>1, <1>3 DEF Size
      <4> QED BY <2>1, <2>2, <4>2, <4>3, <4>4, <1>1, <1>3
    <3>4. CASE persisted[s].inode # path[s] /\ persisted[s] # Closed
      BY <1>1, <2>1, <2>4, <3>4 DEF Reach
    <3> QED BY <3>2, <3>3, <3>4
  <2> QED BY <2>1, <2>3, <2>4
\* ... and those of the file that is being given up.
<1>9. ASSUME NEW l \in 1..MaxLine, Rotated(s),
             base[s][o.inode] + o.off < 2 * l, 2 * l <= top[s][o.inode]
      PROVE  handle[s] # Closed /\ Drainable(s, handle[s], l)
  <2>1. handle[s] # Closed
    <3> SUFFICES ASSUME handle[s] = Closed PROVE o.inode = path[s]
      BY <1>9, <1>r
    <3>1. o = OpenInitial(s)
      BY <1>t, <1>u
    <3> QED BY <3>1 DEF OpenInitial
  <2>2. o = handle[s]
    BY <1>t, <1>u, <2>1
  <2> QED BY <1>9, <1>r, <1>t, <2>1, <2>2 DEF Drainable
<1> HIDE DEF old, new
<1>10. /\ Len(old) \in Nat /\ Len(new) \in Nat
       /\ Len(EventsRead(s)) = Len(old) + Len(new)
       /\ \A i \in 1..Len(EventsRead(s)) :
            EventsRead(s)[i] = IF i <= Len(old) THEN old[i] ELSE new[i - Len(old)]
  BY <1>6, <1>7, <1>e, ConcatProperties
<1>11. \A i \in 1..Len(EventsRead(s)) :
         \/ i \in 1..Len(old) /\ EventsRead(s)[i] = old[i]
         \/ i - Len(old) \in 1..Len(new) /\ EventsRead(s)[i] = new[i - Len(old)]
  BY <1>10
<1>12. \A i \in 1..Len(old), j \in 1..Len(new) : old[i] # new[j]
  <2> SUFFICES ASSUME NEW i \in 1..Len(old), NEW j \in 1..Len(new), old[i] = new[j]
               PROVE  FALSE
    OBVIOUS
  <2>1. PICK l \in 1..MaxLine : /\ old[i] = <<s, l>> /\ Rotated(s)
                                /\ base[s][o.inode] + o.off < 2 * l
                                /\ 2 * l <= top[s][o.inode]
    BY <1>7
  <2>2. PICK m \in 1..MaxLine : new[j] = <<s, m>> /\ a < 2 * m /\ 2 * m <= b
    BY <1>6
  <2>3. l = m
    <3>1. <<s, l>> = <<s, m>>
      BY <2>1, <2>2
    <3> QED BY <3>1
  <2>4. base[s][o.inode] < 2 * l
    BY <1>2, <1>3, <1>5, <2>1
  <2>5. base[s][path[s]] < 2 * l /\ 2 * l <= top[s][path[s]]
    BY <1>8, <2>2, <2>3
  <2> QED BY <1>1, <1>2, <1>r, <2>1, <2>4, <2>5 DEF Disjoint
<1>13. ASSUME NEW i \in 1..Len(EventsRead(s))
       PROVE  \E l \in 1..MaxLine :
                /\ EventsRead(s)[i] = <<s, l>> /\ 2 * l <= written[s]
                /\ IF handle[s] = Closed THEN Reach(s, persisted[s], l)
                   ELSE Reach(s, handle[s], l) \/ Drainable(s, handle[s], l)
  <2>1. CASE i \in 1..Len(old) /\ EventsRead(s)[i] = old[i]
    <3>1. PICK l \in 1..MaxLine : /\ old[i] = <<s, l>> /\ Rotated(s)
                                  /\ base[s][o.inode] + o.off < 2 * l
                                  /\ 2 * l <= top[s][o.inode]
      BY <1>7, <2>1
    <3>2. 2 * l <= written[s]
      BY <1>2, <1>3, <1>w, <3>1
    <3> QED BY <1>9, <2>1, <3>1, <3>2
  <2>2. CASE i - Len(old) \in 1..Len(new) /\ EventsRead(s)[i] = new[i - Len(old)]
    <3>1. PICK l \in 1..MaxLine : new[i - Len(old)] = <<s, l>> /\ a < 2 * l /\ 2 * l <= b
      BY <1>6, <2>2
    <3>2. 2 * l <= written[s]
      BY <1>1, <1>3, <1>w, <3>1
    <3> QED BY <1>8, <2>2, <3>1, <3>2
  <2> QED BY <1>11, <2>1, <2>2
<1>14. ASSUME NEW i \in 1..Len(EventsRead(s)), NEW j \in 1..Len(EventsRead(s)),
              EventsRead(s)[i] = EventsRead(s)[j]
       PROVE  i = j
  <2>1. CASE i \in 1..Len(old) /\ EventsRead(s)[i] = old[i]
             /\ j \in 1..Len(old) /\ EventsRead(s)[j] = old[j]
    BY <1>7, <1>14, <2>1
  <2>2. CASE i - Len(old) \in 1..Len(new) /\ EventsRead(s)[i] = new[i - Len(old)]
             /\ j - Len(old) \in 1..Len(new) /\ EventsRead(s)[j] = new[j - Len(old)]
    <3>1. i - Len(old) = j - Len(old)
      BY <1>6, <1>14, <2>2
    <3> QED BY <3>1, <1>10
  <2> QED BY <1>11, <1>12, <1>14, <2>1, <2>2
<1> QED BY <1>13, <1>14

\* A line that is read could be, so one more copy of it is within the bounds;
\* afterwards only what is yet to be written can be read.
LEMMA ReadCounts ==
  ASSUME CountInv, NEW s \in Sources, Read(s)
  PROVE  CountInv'
<1>1. IInv'
  BY ReadInvariant DEF CountInv
<1>2. /\ mode = "up" /\ PollRead(s) /\ ~polling[s] /\ path[s] # NoFile
      /\ polling' = [polling EXCEPT ![s] = TRUE]
      /\ UNCHANGED <<logVars, ringVars, aggregatorVars, processVars>>
      /\ UNCHANGED <<readState, persisted>>
  BY DEF Read, PollRead
<1>3. /\ UNCHANGED <<written, base, top, path, buffer, latestId, phase, batch, lastFlushedId, db>>
      /\ UNCHANGED <<mode, running, crashes, faults>>
  BY <1>2 DEF logVars, ringVars, aggregatorVars, processVars
<1>t. TypeOK /\ TailerTypeOK /\ LogTypeOK /\ LogInv
  BY DEF CountInv, IInv, TypeOK
<1>4. /\ handle'[s].inode = path[s] /\ handle'[s].off = Size(s, path[s])
      /\ result'[s].events = EventsRead(s)
      /\ \A t \in Sources \ {s} : /\ handle'[t] = handle[t] /\ result'[t] = result[t]
                                  /\ polling'[t] = polling[t]
      /\ polling'[s]
  BY <1>2, <1>t DEF PollRead, TailerTypeOK
<1>5. /\ \A i \in 1..Len(EventsRead(s)) : \E l \in 1..MaxLine :
           /\ EventsRead(s)[i] = <<s, l>> /\ 2 * l <= written[s]
           /\ IF handle[s] = Closed THEN Reach(s, persisted[s], l)
              ELSE Reach(s, handle[s], l) \/ Drainable(s, handle[s], l)
      /\ \A i, j \in 1..Len(EventsRead(s)) :
           EventsRead(s)[i] = EventsRead(s)[j] => i = j
  BY <1>2, <1>t, PollLines DEF CountInv
<1>6. Disjoint' /\ BatchOrder'
  BY <1>3 DEF CountInv, Disjoint, BatchOrder
<1>7. TailersInv'
  <2>1. running = Sources
    BY <1>2 DEF CountInv, TailersInv
  <2>2. \A i, j \in 1..Len(EventsRead(s)) :
          /\ EventsRead(s)[i][1] = s
          /\ EventsRead(s)[i] = EventsRead(s)[j] => i = j
    BY <1>5
  <2>3. ASSUME NEW t \in Sources
        PROVE  /\ handle'[t] # Closed => handle'[t].inode # NoFile /\ t \in running'
               /\ handle'[t] # Closed /\ ~polling'[t] => readState'[t] = handle'[t]
               /\ polling'[t] => \A i, j \in 1..Len(result'[t].events) :
                    /\ result'[t].events[i][1] = t
                    /\ result'[t].events[i] = result'[t].events[j] => i = j
    <3>1. CASE t = s
      BY <1>2, <1>3, <1>4, <2>1, <2>2, <3>1
    <3>2. CASE t # s
      BY <1>2, <1>3, <1>4, <3>2 DEF CountInv, TailersInv
    <3> QED BY <3>1, <3>2
  <2>4. (mode' = "up" => running' = Sources) /\ (mode' \in {"closing", "final"} => running' = {})
    BY <1>3 DEF CountInv, TailersInv
  <2> QED BY <2>3, <2>4 DEF TailersInv
<1>8. ASSUME NEW line PROVE Copies(line)' = Copies(line) /\ Due(line)' = Due(line)
                            /\ db'[line] = db[line]
  BY <1>3 DEF Copies, Due, Edge
\* Lines that were not read just now.
<1>9. ASSUME NEW line \in Lines, \A i \in 1..Len(EventsRead(s)) : EventsRead(s)[i] # line,
             NEW more \in 0..1, Within(line, more)
      PROVE  Within(line, more)'
  <2>1. line[1] \in Sources
    BY DEF Lines
  <2>2. InHand(line)' <= InHand(line)
    <3>1. CASE line[1] = s
      <4>1. InHand(line)' = 0
        BY <1>4, <1>9, <3>1 DEF InHand
      <4> QED BY <4>1 DEF InHand
    <3>2. CASE line[1] # s
      BY <1>4, <2>1, <3>2 DEF InHand
    <3> QED BY <3>1, <3>2
  <2>3. /\ TypeOK' /\ UNCHANGED <<crashes, faults>>
    BY <1>1, <1>3 DEF IInv
  <2>4. /\ Copies(line)' \subseteq Copies(line)
        /\ db'[line] + Cardinality(Due(line)') <= db[line] + Cardinality(Due(line))
    BY <1>8, <1>t, WithinType
  <2> QED BY <1>t, <1>9, <2>2, <2>3, <2>4, WithinKept
\* Lines that were.
<1>10. ASSUME NEW line \in Lines, NEW i \in 1..Len(EventsRead(s)), EventsRead(s)[i] = line
       PROVE  Within(line, 0)'
  <2>1. PICK l \in 1..MaxLine :
          /\ line = <<s, l>> /\ 2 * l <= written[s]
          /\ IF handle[s] = Closed THEN Reach(s, persisted[s], l)
             ELSE Reach(s, handle[s], l) \/ Drainable(s, handle[s], l)
    BY <1>5, <1>10
  <2>2. Within(line, 1)
    BY <2>1 DEF CountInv, AheadInv
  <2>3. InHand(line) = 0 /\ InHand(line)' = 1
    BY <1>2, <1>4, <1>10, <2>1 DEF InHand
  <2>5. /\ Copies(line)' = Copies(line) /\ Due(line)' = Due(line) /\ db'[line] = db[line]
        /\ UNCHANGED <<crashes, faults>>
    BY <1>3, <1>8
  <2>6. /\ Cardinality(Copies(line)) \in Nat /\ Cardinality(Due(line)) \in Nat
        /\ db[line] \in Nat
    BY <1>t, WithinType
  <2>7. Within(line, 0)'
    <3>1. /\ Cardinality(Copies(line)) + 0 + 1 = Cardinality(Copies(line)) + 1 + 0
          /\ db[line] + Cardinality(Due(line)) + 0 + 1 = db[line] + Cardinality(Due(line)) + 1 + 0
      BY <2>6
    <3>2. Fits(Cardinality(Copies(line)) + 0 + 1, db[line] + Cardinality(Due(line)) + 0 + 1,
               crashes, faults)
      BY <2>2, <2>3 DEF Within
    <3> QED BY <2>3, <2>5, <3>1, <3>2 DEF Within
  <2> QED BY <2>7
<1>11. CopiesInv'
  <2> SUFFICES ASSUME NEW line \in Lines PROVE Within(line, 0)'
    BY DEF CopiesInv
  <2>1. CASE \E i \in 1..Len(EventsRead(s)) : EventsRead(s)[i] = line
    BY <1>10, <2>1
  <2>2. CASE \A i \in 1..Len(EventsRead(s)) : EventsRead(s)[i] # line
    <3>1. Within(line, 0)
      BY DEF CountInv, CopiesInv
    <3> QED BY <1>9, <2>2, <3>1
  <2> QED BY <2>1, <2>2
<1>12. AheadInv'
  <2> SUFFICES ASSUME NEW t \in Sources, NEW l \in 1..MaxLine
               PROVE  /\ handle'[t] # Closed /\ (Reach(t, handle[t], l)' \/ Drainable(t, handle[t], l)')
                           => Within(<<t, l>>, 1)'
                      /\ handle'[t] = Closed /\ (Reach(t, persisted[t], l)' \/ Reach(t, readState[t], l)')
                           => Within(<<t, l>>, 1)'
    BY DEF AheadInv
  <2>0. <<t, l>> \in Lines
    BY DEF Lines
  <2>1. CASE t # s
    <3>1. \A i \in 1..Len(EventsRead(s)) : EventsRead(s)[i] # <<t, l>>
      BY <1>5, <2>1
    <3>2. Within(<<t, l>>, 1) => Within(<<t, l>>, 1)'
      BY <1>9, <2>0, <3>1
    <3>3. /\ handle'[t] = handle[t] /\ persisted'[t] = persisted[t] /\ readState'[t] = readState[t]
          /\ UNCHANGED <<written, path, base, top>>
      BY <1>2, <1>3, <1>4, <2>1
    <3>4. /\ Reach(t, handle[t], l)' <=> Reach(t, handle[t], l)
          /\ Drainable(t, handle[t], l)' <=> Drainable(t, handle[t], l)
          /\ Reach(t, persisted[t], l)' <=> Reach(t, persisted[t], l)
          /\ Reach(t, readState[t], l)' <=> Reach(t, readState[t], l)
      BY <3>3 DEF Reach, Drainable, Size
    <3>5. /\ handle[t] # Closed /\ (Reach(t, handle[t], l) \/ Drainable(t, handle[t], l))
               => Within(<<t, l>>, 1)
          /\ handle[t] = Closed /\ (Reach(t, persisted[t], l) \/ Reach(t, readState[t], l))
               => Within(<<t, l>>, 1)
      BY DEF CountInv, AheadInv
    <3> QED BY <3>2, <3>3, <3>4, <3>5
  <2>2. CASE t = s
    <3>1. handle'[s] # Closed
      BY <1>2, <1>4 DEF Closed
    <3>2. ~Drainable(s, handle[s], l)'
      BY <1>3, <1>4 DEF Drainable
    <3>3. Reach(s, handle[s], l)' => 2 * l > written[s]
      <4>1. path[s] \in Inodes
        BY <1>2, <1>t DEF LogTypeOK
      <4>2. base[s][path[s]] \in Nat /\ top[s][path[s]] \in Nat
            /\ base[s][path[s]] <= top[s][path[s]]
        BY <4>1, <1>t DEF LogTypeOK, LogInv
      <4> QED BY <1>3, <1>4, <4>2 DEF Reach, Size
    <3>4. ASSUME 2 * l > written[s] PROVE Within(<<s, l>>, 1)'
      <4>1. Within(<<s, l>>, 1)
        BY <3>4 DEF CountInv, AheadInv, Reach
      <4>2. \A i \in 1..Len(EventsRead(s)) : EventsRead(s)[i] # <<s, l>>
        <5> SUFFICES ASSUME NEW i \in 1..Len(EventsRead(s)), EventsRead(s)[i] = <<s, l>>
                     PROVE  FALSE
          OBVIOUS
        <5>1. PICK m \in 1..MaxLine : EventsRead(s)[i] = <<s, m>> /\ 2 * m <= written[s]
          BY <1>5
        <5>2. written[s] \in Nat
          BY <1>t DEF LogTypeOK
        <5> QED BY <3>4, <5>1, <5>2
      <4> QED BY <1>9, <2>0, <2>2, <4>1, <4>2
    <3> QED BY <2>2, <3>1, <3>2, <3>3, <3>4
  <2> QED BY <2>1, <2>2
<1> QED BY <1>1, <1>6, <1>7, <1>11, <1>12 DEF CountInv

-----------------------------------------------------------------------------
(* Closing, starting and stopping.                                         *)

\* While the log stands still, so does what can be read from a position.
LEMMA SameReach ==
  ASSUME UNCHANGED <<written, path, base, top>>, NEW t, NEW l, NEW pos
  PROVE  /\ Reach(t, pos, l)' <=> Reach(t, pos, l)
         /\ Drainable(t, pos, l)' <=> Drainable(t, pos, l)
  BY DEF Reach, Drainable, Size

\* A tailer whose positions stay where they are, of whose lines there are no
\* more than before, reads none too often.
LEMMA SameTailerAhead ==
  ASSUME CountInv, UNCHANGED logVars, NEW t \in Sources, NEW l \in 1..MaxLine,
         handle'[t] = handle[t], persisted'[t] = persisted[t], readState'[t] = readState[t],
         Within(<<t, l>>, 1) => Within(<<t, l>>, 1)'
  PROVE  /\ handle'[t] # Closed /\ (Reach(t, handle[t], l)' \/ Drainable(t, handle[t], l)')
              => Within(<<t, l>>, 1)'
         /\ handle'[t] = Closed /\ (Reach(t, persisted[t], l)' \/ Reach(t, readState[t], l)')
              => Within(<<t, l>>, 1)'
<1>1. UNCHANGED <<written, path, base, top>>
  BY DEF logVars
<1>2. /\ Reach(t, handle[t], l)' <=> Reach(t, handle[t], l)
      /\ Drainable(t, handle[t], l)' <=> Drainable(t, handle[t], l)
      /\ Reach(t, persisted[t], l)' <=> Reach(t, persisted[t], l)
      /\ Reach(t, readState[t], l)' <=> Reach(t, readState[t], l)
  BY <1>1 DEF Reach, Drainable, Size
<1>3. /\ handle[t] # Closed /\ (Reach(t, handle[t], l) \/ Drainable(t, handle[t], l))
           => Within(<<t, l>>, 1)
      /\ handle[t] = Closed /\ (Reach(t, persisted[t], l) \/ Reach(t, readState[t], l))
           => Within(<<t, l>>, 1)
  BY DEF CountInv, AheadInv
<1> QED BY <1>2, <1>3

\* A fault or a crash that touches no line has each be read once more.
LEMMA FaultWithin ==
  ASSUME CountInv, TypeOK', UNCHANGED <<buffer, latestId, phase, batch, lastFlushedId, db>>,
         \A s \in Sources : polling'[s] => polling[s] /\ result'[s] = result[s],
         crashes' + faults' = crashes + faults + 1, faults <= faults', NEW line \in Lines
  PROVE  Within(line, 0)' /\ Within(line, 1)'
<1>1. TypeOK /\ Within(line, 0)
  BY DEF CountInv, IInv, CopiesInv
<1>2. Copies(line)' = Copies(line) /\ Due(line)' = Due(line) /\ db'[line] = db[line]
  BY DEF Copies, Due, Edge
<1>3. line[1] \in Sources
  BY DEF Lines
<1>4. InHand(line)' <= InHand(line)
  <2>1. InHand(line)' = 1 => InHand(line) = 1
    BY <1>3 DEF InHand
  <2>2. InHand(line)' \in {0, 1} /\ InHand(line) \in {0, 1}
    BY DEF InHand
  <2> QED BY <2>1, <2>2
<1>5. db'[line] + Cardinality(Due(line)') <= db[line] + Cardinality(Due(line))
  BY <1>1, <1>2, WithinType
<1> QED BY <1>1, <1>2, <1>4, <1>5, WithinKept

\* When the file is gone from the path, nothing of it can be read again.
LEMMA MissingCounts ==
  ASSUME CountInv, NEW s \in Sources, Missing(s)
  PROVE  CountInv'
<1>1. IInv'
  BY CloseInvariant DEF CountInv
<1>2. /\ path[s] = NoFile /\ handle[s] # Closed
      /\ handle' = [handle EXCEPT ![s] = Closed]
      /\ UNCHANGED <<polling, result, readState, persisted>>
      /\ UNCHANGED <<logVars, ringVars, aggregatorVars, mode, running, crashes, faults>>
  BY DEF Missing, PollMissing, processVars
<1>3. UNCHANGED <<written, base, top, path, batch>>
  BY <1>2 DEF logVars, aggregatorVars
<1>4. \A line, more : Within(line, more)' <=> Within(line, more)
  BY <1>2, SameWithin
<1>h. /\ handle'[s] = Closed
      /\ \A t \in Sources \ {s} : handle'[t] = handle[t]
  BY <1>2 DEF CountInv, IInv, TypeOK, TailerTypeOK
<1>5. Disjoint' /\ BatchOrder' /\ CopiesInv'
  BY <1>3, <1>4 DEF CountInv, Disjoint, BatchOrder, CopiesInv
<1>6. TailersInv'
  BY <1>2, <1>h DEF CountInv, TailersInv
<1>7. AheadInv'
  <2> SUFFICES ASSUME NEW t \in Sources, NEW l \in 1..MaxLine
               PROVE  /\ handle'[t] # Closed /\ (Reach(t, handle[t], l)' \/ Drainable(t, handle[t], l)')
                           => Within(<<t, l>>, 1)'
                      /\ handle'[t] = Closed /\ (Reach(t, persisted[t], l)' \/ Reach(t, readState[t], l)')
                           => Within(<<t, l>>, 1)'
    BY DEF AheadInv
  <2>1. CASE t # s
    <3>1. /\ handle'[t] = handle[t] /\ persisted'[t] = persisted[t] /\ readState'[t] = readState[t]
          /\ UNCHANGED logVars
          /\ Within(<<t, l>>, 1) => Within(<<t, l>>, 1)'
      BY <1>2, <1>4, <1>h, <2>1
    <3> QED BY <3>1, SameTailerAhead
  <2>2. CASE t = s
    <3>1. Reach(s, persisted[s], l)' \/ Reach(s, readState[s], l)' => 2 * l > written[s]
      BY <1>2, <1>3 DEF Reach
    <3>2. 2 * l > written[s] => Within(<<s, l>>, 1)
      BY <1>2 DEF CountInv, AheadInv, Reach
    <3> QED BY <1>4, <1>h, <2>2, <3>1, <3>2
  <2> QED BY <2>1, <2>2
<1> QED BY <1>1, <1>5, <1>6, <1>7 DEF CountInv

\* A poll that fails may have what was read since the last checkpoint be read
\* again, once.
LEMMA RaiseCounts ==
  ASSUME CountInv, NEW s \in Sources, Raise(s)
  PROVE  CountInv'
<1>1. IInv'
  BY CloseInvariant DEF CountInv
<1>2. /\ handle' = [handle EXCEPT ![s] = Closed]
      /\ faults' = faults + 1
      /\ UNCHANGED <<polling, result, readState, persisted>>
      /\ UNCHANGED <<logVars, ringVars, aggregatorVars, mode, running, crashes>>
  BY DEF Raise, PollRaises, Fault
<1>3. /\ UNCHANGED <<written, base, top, path>>
      /\ UNCHANGED <<buffer, latestId, phase, batch, lastFlushedId, db>>
  BY <1>2 DEF logVars, ringVars, aggregatorVars
<1>h. /\ handle'[s] = Closed
      /\ \A t \in Sources \ {s} : handle'[t] = handle[t]
  BY <1>2 DEF CountInv, IInv, TypeOK, TailerTypeOK
<1>4. \A line \in Lines : Within(line, 0)' /\ Within(line, 1)'
  <2>1. crashes \in Int /\ faults \in Int
    BY DEF CountInv, IInv, TypeOK
  <2>2. crashes' + faults' = crashes + faults + 1 /\ faults <= faults' /\ TypeOK'
    BY <1>1, <1>2, <2>1 DEF IInv
  <2>3. \A t \in Sources : polling'[t] => polling[t] /\ result'[t] = result[t]
    BY <1>2
  <2> QED BY <1>3, <2>2, <2>3, FaultWithin
<1>5. Disjoint' /\ BatchOrder' /\ CopiesInv'
  BY <1>3, <1>4 DEF CountInv, Disjoint, BatchOrder, CopiesInv
<1>6. TailersInv'
  BY <1>2, <1>h DEF CountInv, TailersInv
<1>7. AheadInv'
  BY <1>4 DEF AheadInv, Lines
<1> QED BY <1>1, <1>5, <1>6, <1>7 DEF CountInv

\* Starting, being told to stop, the aggregator's turn to stop, and the end of a
\* flush move nothing.
LEMMA ModeCounts ==
  ASSUME CountInv, Start \/ Shutdown \/ StopAggregator \/ EndFlush
  PROVE  CountInv'
<1>1. IInv'
  BY ModeInvariant, EndInvariant DEF CountInv
<1>2. /\ UNCHANGED <<logVars, tailerVars, ringVars, crashes, faults>>
      /\ UNCHANGED <<batch, lastFlushedId, db>>
      /\ phase = "committed" <=> phase' = "committed"
  BY DEF Start, Shutdown, StopAggregator, EndFlush, FlushEnd, aggregatorVars, processVars
<1>3. /\ UNCHANGED <<written, base, top, path, buffer, latestId>>
      /\ UNCHANGED <<handle, polling, result, readState, persisted>>
  BY <1>2 DEF logVars, ringVars, tailerVars
<1>4. \A line, more : Within(line, more)' <=> Within(line, more)
  <2>1. ASSUME NEW line PROVE /\ Copies(line)' = Copies(line) /\ Due(line)' = Due(line)
                              /\ InHand(line)' = InHand(line) /\ db'[line] = db[line]
    BY <1>2, <1>3 DEF Copies, Due, Edge, InHand
  <2> QED BY <1>2, <2>1 DEF Within
<1>5. Disjoint' /\ BatchOrder' /\ CopiesInv'
  BY <1>2, <1>3, <1>4 DEF CountInv, Disjoint, BatchOrder, CopiesInv
<1>6. TailersInv'
  <2>1. CASE Start
    BY <1>3, <2>1 DEF Start, CountInv, TailersInv
  <2>2. CASE Shutdown
    BY <1>3, <2>2 DEF Shutdown, CountInv, TailersInv
  <2>3. CASE StopAggregator
    BY <1>3, <2>3 DEF StopAggregator, CountInv, TailersInv
  <2>4. CASE EndFlush
    BY <1>3, <2>4 DEF EndFlush, processVars, CountInv, TailersInv
  <2> QED BY <2>1, <2>2, <2>3, <2>4
<1>7. AheadInv'
  <2> SUFFICES ASSUME NEW t \in Sources, NEW l \in 1..MaxLine
               PROVE  /\ handle'[t] # Closed /\ (Reach(t, handle[t], l)' \/ Drainable(t, handle[t], l)')
                           => Within(<<t, l>>, 1)'
                      /\ handle'[t] = Closed /\ (Reach(t, persisted[t], l)' \/ Reach(t, readState[t], l)')
                           => Within(<<t, l>>, 1)'
    BY DEF AheadInv
  <2> QED BY <1>2, <1>3, <1>4, SameTailerAhead
<1> QED BY <1>1, <1>5, <1>6, <1>7 DEF CountInv

\* A tailer that stops leaves its snapshot behind, which is where it was; if that
\* cannot be written, or a poll is cut short, a fault explains what is read again.
LEMMA StopTailerCounts ==
  ASSUME CountInv, NEW s \in Sources, StopTailer(s)
  PROVE  CountInv'
<1>1. IInv'
  BY StopTailerInvariant DEF CountInv
<1>2. PICK S \in SUBSET {s} : /\ IF polling[s] \/ S = {} THEN Fault ELSE UNCHANGED faults
                              /\ CloseTailer(s, S)
  BY DEF StopTailer
<1>t. TypeOK /\ TailerTypeOK
  BY DEF CountInv, IInv, TypeOK
<1>3. /\ mode = "stopping"
      /\ running' = running \ {s}
      /\ UNCHANGED <<readState, logVars, ringVars, aggregatorVars, mode, crashes>>
  BY <1>2 DEF StopTailer, CloseTailer
<1>4. /\ UNCHANGED <<written, base, top, path>>
      /\ UNCHANGED <<buffer, latestId, phase, batch, lastFlushedId, db>>
  BY <1>3 DEF logVars, ringVars, aggregatorVars
<1>5. /\ handle'[s] = Closed /\ ~polling'[s]
      /\ persisted'[s] = IF s \in S /\ readState[s] # Closed THEN readState[s] ELSE persisted[s]
      /\ \A t \in Sources \ {s} : /\ handle'[t] = handle[t] /\ polling'[t] = polling[t]
                                  /\ result'[t] = result[t] /\ persisted'[t] = persisted[t]
  BY <1>2, <1>t DEF CloseTailer, CheckpointAll, TailerTypeOK
<1>6. Disjoint' /\ BatchOrder'
  BY <1>4 DEF CountInv, Disjoint, BatchOrder
<1>7. TailersInv'
  BY <1>3, <1>5 DEF CountInv, TailersInv
<1>8. CASE Fault
  <2>1. crashes \in Int /\ faults \in Int
    BY <1>t DEF TypeOK
  <2>2. crashes' + faults' = crashes + faults + 1 /\ faults <= faults' /\ TypeOK'
    BY <1>1, <1>3, <1>8, <2>1 DEF IInv, Fault
  <2>3. \A t \in Sources : polling'[t] => polling[t] /\ result'[t] = result[t]
    BY <1>5
  <2>4. \A line \in Lines : Within(line, 0)' /\ Within(line, 1)'
    BY <1>4, <2>2, <2>3, FaultWithin
  <2>5. CopiesInv' /\ AheadInv'
    BY <2>4 DEF CopiesInv, AheadInv, Lines
  <2> QED BY <1>1, <1>6, <1>7, <2>5 DEF CountInv
<1>9. CASE ~polling[s] /\ S # {} /\ UNCHANGED faults
  <2>1. s \in S
    BY <1>2, <1>9
  <2>2. ASSUME NEW line \in Lines, NEW more PROVE Within(line, more)' <=> Within(line, more)
    <3>1. line[1] \in Sources
      BY DEF Lines
    <3>2. InHand(line)' = InHand(line)
      BY <1>5, <1>9, <3>1 DEF InHand
    <3>3. Copies(line)' = Copies(line) /\ Due(line)' = Due(line) /\ db'[line] = db[line]
      BY <1>4 DEF Copies, Due, Edge
    <3> QED BY <1>3, <1>9, <3>2, <3>3 DEF Within
  <2>3. CopiesInv'
    BY <2>2 DEF CountInv, CopiesInv
  <2>4. AheadInv'
    <3> SUFFICES ASSUME NEW t \in Sources, NEW l \in 1..MaxLine
                 PROVE  /\ handle'[t] # Closed /\ (Reach(t, handle[t], l)' \/ Drainable(t, handle[t], l)')
                             => Within(<<t, l>>, 1)'
                        /\ handle'[t] = Closed /\ (Reach(t, persisted[t], l)' \/ Reach(t, readState[t], l)')
                             => Within(<<t, l>>, 1)'
      BY DEF AheadInv
    <3>0. <<t, l>> \in Lines
      BY DEF Lines
    <3>1. CASE t # s
      <4>1. /\ handle'[t] = handle[t] /\ persisted'[t] = persisted[t] /\ readState'[t] = readState[t]
            /\ UNCHANGED logVars
            /\ Within(<<t, l>>, 1) => Within(<<t, l>>, 1)'
        BY <1>3, <1>5, <2>2, <3>0, <3>1
      <4> QED BY <4>1, SameTailerAhead
    <3>2. CASE t = s
      <4>1. \/ persisted'[s] = readState[s] /\ readState[s] # Closed
            \/ persisted'[s] = persisted[s] /\ readState[s] = Closed
        BY <1>5, <2>1
      <4>2. Reach(s, readState[s], l)' <=> Reach(s, readState[s], l)
        BY <1>3, <1>4 DEF Reach, Size
      <4>3. Reach(s, persisted[s], l)' => Reach(s, readState[s], l) \/ Reach(s, persisted[s], l)
        BY <1>4, <4>1 DEF Reach, Size
      <4>4. handle[s] # Closed => readState[s] = handle[s]
        BY <1>9 DEF CountInv, TailersInv
      <4>5. /\ handle[s] # Closed /\ Reach(s, handle[s], l) => Within(<<s, l>>, 1)
            /\ handle[s] = Closed /\ (Reach(s, persisted[s], l) \/ Reach(s, readState[s], l))
                 => Within(<<s, l>>, 1)
        BY DEF CountInv, AheadInv
      <4>6. handle[s] # Closed /\ Reach(s, persisted[s], l)' => Reach(s, handle[s], l)
        BY <1>4, <4>1, <4>4 DEF Reach, Size
      <4>7. handle[s] # Closed /\ Reach(s, readState[s], l)' => Reach(s, handle[s], l)
        BY <1>3, <1>4, <4>4 DEF Reach, Size
      <4>8. Reach(s, persisted[s], l)' \/ Reach(s, readState[s], l)' => Within(<<s, l>>, 1)
        BY <4>2, <4>3, <4>5, <4>6, <4>7
      <4> QED BY <1>5, <2>2, <3>0, <3>2, <4>8
    <3> QED BY <3>1, <3>2
  <2> QED BY <1>1, <1>6, <1>7, <2>3, <2>4 DEF CountInv
<1> QED BY <1>2, <1>8, <1>9

\* With the process all copies in memory are gone.
LEMMA ExitWithin ==
  ASSUME CountInv, TypeOK', NEW cause, Exit(cause), NEW line \in Lines
  PROVE  /\ UNCHANGED <<crashes, faults>> =>
              Within(line, 0)' /\ (Within(line, 1) => Within(line, 1)')
         /\ crashes' + faults' = crashes + faults + 1 /\ faults <= faults' =>
              Within(line, 0)' /\ Within(line, 1)'
<1>1. TypeOK /\ Within(line, 0)
  BY DEF CountInv, IInv, CopiesInv
<1>2. /\ buffer' = <<>> /\ batch' = <<>> /\ db' = db
      /\ polling' = [s \in Sources |-> FALSE]
  BY DEF Exit, LoseTailers, LoseAggregator
<1>3. Copies(line)' = {} /\ Due(line)' = {}
  BY <1>2 DEF Copies, Due
<1>4. InHand(line)' = 0
  <2>1. line[1] \in Sources
    BY DEF Lines
  <2> QED BY <1>2, <2>1 DEF InHand
<1>5. /\ Copies(line)' \subseteq Copies(line)
      /\ InHand(line)' <= InHand(line)
      /\ db'[line] + Cardinality(Due(line)') <= db[line] + Cardinality(Due(line))
  <2>1. /\ Cardinality(Due(line)) \in Nat /\ db[line] \in Nat /\ InHand(line) \in 0..1
    BY <1>1, WithinType
  <2>2. Cardinality(Due(line)') = 0
    BY <1>3, FS_EmptySet
  <2> QED BY <1>2, <1>3, <1>4, <2>1, <2>2
<1>6. UNCHANGED <<crashes, faults>> =>
        Within(line, 0)' /\ (Within(line, 1) => Within(line, 1)')
  BY <1>1, <1>5, WithinKept
<1>7. crashes' + faults' = crashes + faults + 1 /\ faults <= faults' =>
        Within(line, 0)' /\ Within(line, 1)'
  <2>1. 0 \in 0..1 /\ 0 + 1 = 1
    OBVIOUS
  <2> QED BY <1>1, <1>5, <2>1, WithinKept
<1> QED BY <1>6, <1>7

\* A crash or an expired timeout explains that lines are read again; after a
\* clean stop none is, for the tailers were closed before.
LEMMA EndCounts ==
  ASSUME CountInv, Crash \/ Stopped \/ CancelFlush
  PROVE  CountInv'
<1>1. IInv'
  BY EndOfProcessInvariant DEF CountInv
<1>2. PICK cause : Exit(cause)
  BY DEF Crash, Stopped, CancelFlush
<1>3. /\ mode' = "down" /\ running' = {} /\ UNCHANGED <<logVars, persisted>>
      /\ handle' = [s \in Sources |-> Closed] /\ polling' = [s \in Sources |-> FALSE]
      /\ readState' = [s \in Sources |-> Closed]
      /\ batch' = <<>>
  BY <1>2 DEF Exit, LoseTailers, LoseAggregator
<1>4. UNCHANGED <<written, base, top, path>>
  BY <1>3 DEF logVars
<1>5. Disjoint' /\ BatchOrder'
  BY <1>3, <1>4 DEF CountInv, Disjoint, BatchOrder
<1>6. TailersInv'
  BY <1>3 DEF TailersInv
<1>7. CASE Crash \/ CancelFlush
  <2>1. crashes \in Int /\ faults \in Int
    BY DEF CountInv, IInv, TypeOK
  <2>2. crashes' + faults' = crashes + faults + 1 /\ faults <= faults'
    BY <1>7, <2>1 DEF Crash, CancelFlush, Fault
  <2>3. \A line \in Lines : Within(line, 0)' /\ Within(line, 1)'
    BY <1>1, <1>2, <2>2, ExitWithin DEF IInv
  <2>4. CopiesInv' /\ AheadInv'
    BY <2>3 DEF CopiesInv, AheadInv, Lines
  <2> QED BY <1>1, <1>5, <1>6, <2>4 DEF CountInv
<1>8. CASE Stopped
  <2>1. UNCHANGED <<crashes, faults>> /\ mode = "final"
    BY <1>8 DEF Stopped
  <2>2. \A line \in Lines : Within(line, 0)' /\ (Within(line, 1) => Within(line, 1)')
    BY <1>1, <1>2, <2>1, ExitWithin DEF IInv
  <2>3. CopiesInv'
    BY <2>2 DEF CopiesInv
  <2>4. AheadInv'
    <3> SUFFICES ASSUME NEW t \in Sources, NEW l \in 1..MaxLine,
                        Reach(t, persisted[t], l)' \/ Reach(t, readState[t], l)'
                 PROVE  Within(<<t, l>>, 1)'
      BY <1>3 DEF AheadInv
    <3>1. handle[t] = Closed
      BY <2>1 DEF CountInv, TailersInv
    <3>2. Reach(t, readState[t], l)' => 2 * l > written[t]
      BY <1>3, <1>4 DEF Reach
    <3>3. Reach(t, persisted[t], l)' => Reach(t, persisted[t], l)
      BY <1>3, <1>4 DEF Reach, Size
    <3>4. Reach(t, persisted[t], l)
      BY <3>2, <3>3 DEF Reach
    <3>5. Within(<<t, l>>, 1)
      BY <3>1, <3>4 DEF CountInv, AheadInv
    <3>6. <<t, l>> \in Lines
      BY DEF Lines
    <3> QED BY <2>2, <3>5, <3>6
  <2> QED BY <1>1, <1>5, <1>6, <2>3, <2>4 DEF CountInv
<1> QED BY <1>7, <1>8

-----------------------------------------------------------------------------
(* Dispatching and flushing.                                               *)

LEMMA AddToBoth ==
  ASSUME NEW x \in Nat, NEW y \in Nat, x <= y, NEW m \in 0..1
  PROVE  x + m \in Nat /\ y + m \in Nat /\ x + m <= y + m
  OBVIOUS

\* A step that trades reads in hand for copies in the buffer, or copies due for
\* counts, leaves every line within its bounds.
LEMMA WithinTraded ==
  ASSUME TypeOK, TypeOK', NEW line \in Lines, NEW more \in 0..1,
         Cardinality(Copies(line)') + InHand(line)' <= Cardinality(Copies(line)) + InHand(line),
         db'[line] + Cardinality(Due(line)') + InHand(line)'
           <= db[line] + Cardinality(Due(line)) + InHand(line),
         UNCHANGED <<crashes, faults>>, Within(line, more)
  PROVE  Within(line, more)'
<1> DEFINE e == Cardinality(Copies(line)) + InHand(line)
           d == db[line] + Cardinality(Due(line)) + InHand(line)
<1>1. /\ Cardinality(Copies(line)) \in Nat /\ Cardinality(Due(line)) \in Nat
      /\ InHand(line) \in 0..1 /\ db[line] \in Nat /\ crashes \in Nat /\ faults \in Nat
  BY WithinType
<1>2. /\ Cardinality(Copies(line)') \in Nat /\ Cardinality(Due(line)') \in Nat
      /\ InHand(line)' \in 0..1 /\ db'[line] \in Nat
  <2>1. latestId' \in Nat /\ db'[line] \in Nat
    BY DEF TypeOK, RingTypeOK, AggregatorTypeOK
  <2>0. 1 \in Int /\ latestId' \in Int
    BY <2>1
  <2>2. IsFiniteSet(1..latestId')
    BY <2>0, FS_Interval
  <2>3. Copies(line)' \subseteq 1..latestId' /\ Due(line)' \subseteq Copies(line)'
    BY DEF Copies, Due
  <2>4. IsFiniteSet(Copies(line)') /\ IsFiniteSet(Due(line)')
    BY <2>2, <2>3, FS_Subset
  <2>5. InHand(line)' \in 0..1
    BY DEF InHand
  <2> QED BY <2>1, <2>4, <2>5, FS_CardinalityType
<1>4. e \in Nat /\ d \in Nat /\ e' \in Nat /\ d' \in Nat /\ e' <= e /\ d' <= d
  BY <1>1, <1>2
<1>5. /\ \A m : Within(line, m) <=> Fits(e + m, d + m, crashes, faults)
      /\ \A m : Within(line, m)' <=> Fits(e' + m, d' + m, crashes', faults')
  BY DEF Within
<1> HIDE DEF e, d
<1>6. /\ e + more \in Nat /\ d + more \in Nat /\ e' + more \in Nat /\ d' + more \in Nat
      /\ e' + more <= e + more /\ d' + more <= d + more
  BY <1>4, AddToBoth
<1>7. Fits(e' + more, d' + more, crashes, faults)
  BY <1>1, <1>5, <1>6, FitsLess
<1> QED BY <1>5, <1>7

\* Dispatching puts into the buffer one copy of each line that was in hand.
LEMMA DispatchCopies ==
  ASSUME IInv, TailersInv, NEW s \in Sources, Dispatch(s), NEW line \in Lines
  PROVE  \E new : /\ IsFiniteSet(new) /\ Cardinality(new) \in Nat
                  /\ Cardinality(new) + InHand(line)' <= InHand(line)
                  /\ Copies(line)' \subseteq (Copies(line) \cup new)
                  /\ Due(line)' \subseteq (Due(line) \cup new)
<1> DEFINE events == result[s].events
           entries == buffer \o Numbered(events)
           k == Overrun(entries)
           new == {latestId + i : i \in {i \in 1..Len(events) : events[i] = line}}
<1>1. /\ polling[s] /\ AppendAll(events) /\ Snapshot(s) /\ UNCHANGED aggregatorVars
  BY DEF Dispatch
<1>2. /\ RingTypeOK /\ events \in Seq(Lines) /\ latestId \in Nat /\ Len(buffer) \in Nat
      /\ Len(events) \in Nat /\ Len(buffer) <= latestId
      /\ TailerTypeOK
  BY DEF IInv, TypeOK, TailerTypeOK, PollResult, RingTypeOK, RingConsecutive
<1>c. RingConsecutive
  BY DEF IInv
<1> HIDE DEF events
<1>3. /\ entries \in Seq(StoredEvent)
      /\ Len(entries) = Len(buffer) + Len(events)
      /\ \A i \in 1..Len(buffer) : entries[i] = buffer[i]
      /\ \A i \in 1..Len(events) : entries[Len(buffer) + i].event = events[i]
      /\ \A i \in 1..Len(entries) : entries[i].id = latestId - Len(buffer) + i
  BY <1>2, <1>c, AllEntries
<1>4. /\ buffer' = Keep(entries) /\ latestId' = latestId + Len(events)
      /\ UNCHANGED <<phase, batch, lastFlushedId, db>>
  BY <1>1 DEF AppendAll, aggregatorVars
<1>5. /\ k \in 0..Len(entries) /\ Len(buffer') = Len(entries) - k
      /\ \A j \in 1..Len(buffer') : buffer'[j] = entries[k + j]
  BY <1>3, <1>4, KeepEntries
<1> HIDE DEF entries, k
<1>6. \A j \in 1..Len(buffer') :
        \/ \E i \in 1..Len(buffer) : buffer'[j] = buffer[i]
        \/ \E i \in 1..Len(events) : buffer'[j].id = latestId + i /\ buffer'[j].event = events[i]
  <2> TAKE j \in 1..Len(buffer')
  <2>0. Len(entries) \in Nat /\ k \in Nat /\ k <= Len(entries) /\ Len(buffer') = Len(entries) - k
    BY <1>2, <1>3, <1>5
  <2>1. k + j \in 1..Len(entries) /\ buffer'[j] = entries[k + j]
    BY <2>0, <1>5
  <2>2. CASE k + j <= Len(buffer)
    <3>1. k + j \in 1..Len(buffer)
      BY <2>1, <2>2, <1>2
    <3> QED BY <2>1, <3>1, <1>3
  <2>3. CASE k + j > Len(buffer)
    <3> DEFINE m == k + j
               i == m - Len(buffer)
    <3>0. m \in Int /\ m > Len(buffer) /\ m <= Len(buffer) + Len(events)
      BY <2>1, <2>3, <1>2, <1>3
    <3> HIDE DEF m
    <3>1. i \in 1..Len(events) /\ Len(buffer) + i = m
      BY <3>0, <1>2
    <3>2. latestId - Len(buffer) + m = latestId + i
      BY <1>2, <3>0
    <3>m. m \in 1..Len(entries) /\ buffer'[j] = entries[m]
      BY <2>1 DEF m
    <3>3. entries[m].event = events[i] /\ entries[m].id = latestId + i
      BY <1>3, <3>1, <3>2, <3>m
    <3> QED BY <3>1, <3>3, <3>m
  <2> QED BY <2>1, <2>2, <2>3, <1>2, <1>5
<1>7. Copies(line)' \subseteq Copies(line) \cup new
  <2> SUFFICES ASSUME NEW n \in Copies(line)' PROVE n \in Copies(line) \cup new
    OBVIOUS
  <2>1. n \in 1..latestId' /\ \/ \E j \in 1..Len(buffer') : buffer'[j].id = n /\ buffer'[j].event = line
                              \/ \E i \in 1..Len(batch) : batch[i].id = n /\ batch[i].event = line
    BY <1>4 DEF Copies
  <2>2. CASE \E j \in 1..Len(buffer') : buffer'[j].id = n /\ buffer'[j].event = line
    <3>1. PICK j \in 1..Len(buffer') : buffer'[j].id = n /\ buffer'[j].event = line
      BY <2>2
    <3>2. CASE \E i \in 1..Len(buffer) : buffer'[j] = buffer[i]
      <4>1. PICK i \in 1..Len(buffer) : buffer'[j] = buffer[i]
        BY <3>2
      <4>2. buffer[i].id \in 1..latestId
        BY <1>2 DEF IInv, RingConsecutive
      <4> QED BY <3>1, <4>1, <4>2 DEF Copies
    <3>3. CASE \E i \in 1..Len(events) : buffer'[j].id = latestId + i /\ buffer'[j].event = events[i]
      BY <3>1, <3>3
    <3> QED BY <1>6, <3>2, <3>3
  <2>3. CASE \E i \in 1..Len(batch) : batch[i].id = n /\ batch[i].event = line
    <3>1. PICK i \in 1..Len(batch) : batch[i].id = n /\ batch[i].event = line
      BY <2>3
    <3>2. n \in 1..latestId
      BY <1>2, <2>1, <3>1 DEF IInv, BatchInv
    <3> QED BY <3>1, <3>2 DEF Copies
  <2> QED BY <2>1, <2>2, <2>3
<1>8. Due(line)' \subseteq Due(line) \cup new
  BY <1>4, <1>7 DEF Due, Edge
<1>s. line[1] \in Sources
  BY DEF Lines
<1>p. ~polling'[s] /\ \A t \in Sources \ {s} : polling'[t] = polling[t] /\ result'[t] = result[t]
  BY <1>1, <1>2 DEF Snapshot, TailerTypeOK
<1>9. CASE \E i \in 1..Len(events) : events[i] = line
  <2>1. PICK i \in 1..Len(events) : events[i] = line
    BY <1>9
  <2>2. line[1] = s /\ \A j \in 1..Len(events) : events[j] = line => j = i
    BY <1>1, <2>1 DEF TailersInv, events
  <2>3. new = {latestId + i}
    BY <2>1, <2>2
  <2>4. IsFiniteSet(new) /\ Cardinality(new) = 1
    BY <2>3, FS_Singleton
  <2>5. InHand(line) = 1 /\ InHand(line)' = 0
    BY <1>1, <1>9, <1>p, <2>2 DEF InHand, events
  <2>6. Cardinality(new) + InHand(line)' <= InHand(line)
    BY <2>4, <2>5
  <2> HIDE DEF new
  <2> QED BY <1>7, <1>8, <2>4, <2>6
<1>10. CASE ~\E i \in 1..Len(events) : events[i] = line
  <2>1. new = {}
    BY <1>10
  <2>2. IsFiniteSet(new) /\ Cardinality(new) = 0
    BY <2>1, FS_EmptySet
  <2>3. InHand(line)' = InHand(line)
    BY <1>1, <1>10, <1>p, <1>s DEF InHand, events
  <2>4. InHand(line) \in 0..1
    BY DEF InHand
  <2>5. Cardinality(new) + InHand(line)' <= InHand(line)
    BY <2>2, <2>3, <2>4
  <2> HIDE DEF new
  <2> QED BY <1>7, <1>8, <2>2, <2>5
<1> QED BY <1>9, <1>10

\* What is dispatched was in hand, so no line comes closer to its bounds.
LEMMA DispatchCounts ==
  ASSUME CountInv, NEW s \in Sources, Dispatch(s)
  PROVE  CountInv'
<1>1. IInv'
  BY DispatchInvariant DEF CountInv
<1>t. TypeOK /\ TailerTypeOK /\ TypeOK'
  BY <1>1 DEF CountInv, IInv, TypeOK
<1>2. /\ readState' = [readState EXCEPT ![s] = handle[s]]
      /\ polling' = [polling EXCEPT ![s] = FALSE]
      /\ result' = [result EXCEPT ![s] = Nothing]
      /\ UNCHANGED <<handle, persisted, logVars, aggregatorVars, processVars>>
  BY DEF Dispatch, Snapshot
<1>3. /\ UNCHANGED <<written, base, top, path, phase, batch, lastFlushedId, db>>
      /\ UNCHANGED <<mode, running, crashes, faults>>
  BY <1>2 DEF logVars, aggregatorVars, processVars
<1>4. ASSUME NEW line \in Lines, NEW more \in 0..1, Within(line, more)
      PROVE  Within(line, more)'
  <2>1. PICK new : /\ IsFiniteSet(new) /\ Cardinality(new) \in Nat
                   /\ Cardinality(new) + InHand(line)' <= InHand(line)
                   /\ Copies(line)' \subseteq (Copies(line) \cup new)
                   /\ Due(line)' \subseteq (Due(line) \cup new)
    BY DispatchCopies DEF CountInv
  <2>2. /\ Cardinality(Copies(line)) \in Nat /\ Cardinality(Due(line)) \in Nat
        /\ IsFiniteSet(Copies(line)) /\ IsFiniteSet(Due(line))
        /\ InHand(line) \in 0..1 /\ db[line] \in Nat
    BY <1>t, WithinType
  <2>h. InHand(line)' \in 0..1
    BY DEF InHand
  <2>3. ASSUME NEW S, NEW T, IsFiniteSet(S), Cardinality(S) \in Nat, T \subseteq (S \cup new)
        PROVE  Cardinality(T) \in Nat /\ Cardinality(T) <= Cardinality(S) + Cardinality(new)
    <3>1. /\ IsFiniteSet(S \cup new)
          /\ Cardinality(S \cup new) = Cardinality(S) + Cardinality(new) - Cardinality(S \cap new)
      BY <2>1, <2>3, FS_Union
    <3>2. IsFiniteSet(S \cap new)
      BY <2>3, FS_Subset
    <3>3. IsFiniteSet(T) /\ Cardinality(T) <= Cardinality(S \cup new)
      BY <2>3, <3>1, FS_Subset
    <3>4. Cardinality(S \cap new) \in Nat /\ Cardinality(T) \in Nat /\ Cardinality(S \cup new) \in Nat
      BY <3>1, <3>2, <3>3, FS_CardinalityType
    <3> QED BY <2>1, <2>3, <3>1, <3>3, <3>4
  <2>4. /\ Cardinality(Copies(line)') \in Nat
        /\ Cardinality(Copies(line)') <= Cardinality(Copies(line)) + Cardinality(new)
    BY <2>1, <2>2, <2>3
  <2>5. /\ Cardinality(Due(line)') \in Nat
        /\ Cardinality(Due(line)') <= Cardinality(Due(line)) + Cardinality(new)
    BY <2>1, <2>2, <2>3
  <2>6. /\ Cardinality(Copies(line)') + InHand(line)' <= Cardinality(Copies(line)) + InHand(line)
        /\ db'[line] + Cardinality(Due(line)') + InHand(line)'
             <= db[line] + Cardinality(Due(line)) + InHand(line)
    BY <1>3, <2>1, <2>2, <2>h, <2>4, <2>5
  <2> QED BY <1>3, <1>4, <1>t, <2>6, WithinTraded
<1>5. Disjoint' /\ BatchOrder'
  BY <1>3 DEF CountInv, Disjoint, BatchOrder
<1>6. CopiesInv'
  BY <1>4 DEF CountInv, CopiesInv
<1>7. TailersInv'
  BY <1>2, <1>3, <1>t DEF CountInv, TailersInv, TailerTypeOK
<1>8. AheadInv'
  <2> SUFFICES ASSUME NEW t \in Sources, NEW l \in 1..MaxLine
               PROVE  /\ handle'[t] # Closed /\ (Reach(t, handle[t], l)' \/ Drainable(t, handle[t], l)')
                           => Within(<<t, l>>, 1)'
                      /\ handle'[t] = Closed /\ (Reach(t, persisted[t], l)' \/ Reach(t, readState[t], l)')
                           => Within(<<t, l>>, 1)'
    BY DEF AheadInv
  <2>0. Within(<<t, l>>, 1) => Within(<<t, l>>, 1)'
    BY <1>4 DEF Lines
  <2>1. /\ handle'[t] = handle[t] /\ persisted'[t] = persisted[t]
        /\ readState'[t] = readState[t] \/ readState'[t] = handle[t]
    BY <1>2, <1>t DEF TailerTypeOK
  <2>2. /\ Reach(t, handle[t], l)' <=> Reach(t, handle[t], l)
        /\ Drainable(t, handle[t], l)' <=> Drainable(t, handle[t], l)
        /\ Reach(t, persisted[t], l)' <=> Reach(t, persisted[t], l)
    BY <1>3, <2>1 DEF Reach, Drainable, Size
  <2>3. handle[t] = Closed /\ Reach(t, readState[t], l)' =>
          Reach(t, readState[t], l) \/ Reach(t, persisted[t], l)
    BY <1>3, <2>1 DEF Reach, Size
  <2>4. /\ handle[t] # Closed /\ (Reach(t, handle[t], l) \/ Drainable(t, handle[t], l))
             => Within(<<t, l>>, 1)
        /\ handle[t] = Closed /\ (Reach(t, persisted[t], l) \/ Reach(t, readState[t], l))
             => Within(<<t, l>>, 1)
    BY DEF CountInv, AheadInv
  <2> QED BY <2>0, <2>1, <2>2, <2>3, <2>4
<1> QED BY <1>1, <1>5, <1>6, <1>7, <1>8 DEF CountInv

-----------------------------------------------------------------------------
(* Flushing.                                                               *)

\* A batch is the end of the buffer, in order.
LEMMA EventsSinceOrder ==
  ASSUME RingTypeOK, RingConsecutive, NEW lastId \in Nat, EventsSince(lastId) # <<>>
  PROVE  /\ \A i \in 1..Len(EventsSince(lastId)) :
              EventsSince(lastId)[i].id = latestId - Len(EventsSince(lastId)) + i
         /\ EventsSince(lastId)[Len(EventsSince(lastId))].id = latestId
<1> DEFINE new == EventsSince(lastId)
           n == Len(buffer)
<1>1. /\ new \in Seq(StoredEvent) /\ Len(new) <= n
      /\ \A i \in 1..Len(new) : new[i] = buffer[n - Len(new) + i]
  BY EventsSinceEntries
<1>2. n \in Nat /\ latestId \in Nat /\ \A j \in 1..n : buffer[j].id = latestId - n + j
  BY DEF RingTypeOK, RingConsecutive
<1>3. new # <<>>
  OBVIOUS
<1> HIDE DEF new, n
<1>4. Len(new) \in Nat /\ Len(new) # 0
  BY <1>1, <1>3
<1>5. ASSUME NEW i \in 1..Len(new) PROVE new[i].id = latestId - Len(new) + i
  <2>1. n - Len(new) + i \in 1..n
    BY <1>1, <1>2, <1>4
  <2>2. new[i].id = latestId - n + (n - Len(new) + i)
    BY <1>1, <1>2, <2>1
  <2> QED BY <1>2, <1>4, <2>2
<1>6. new[Len(new)].id = latestId
  <2>1. Len(new) \in 1..Len(new)
    BY <1>4
  <2>2. new[Len(new)].id = latestId - Len(new) + Len(new)
    BY <1>5, <2>1
  <2> QED BY <1>2, <1>4, <2>2
<1> QED BY <1>5, <1>6 DEF new

\* What a flush takes stays in the buffer for now; no copy is added.
LEMMA BeginCounts ==
  ASSUME CountInv, BeginFlush \/ FinalFlush
  PROVE  CountInv'
<1>1. IInv'
  BY BeginInvariant DEF CountInv
<1>2. /\ UNCHANGED <<logVars, tailerVars, ringVars, running, crashes, faults>>
      /\ mode' = mode \/ (mode = "closing" /\ mode' = "final")
      /\ FlushBegin \/ UNCHANGED aggregatorVars
  BY DEF BeginFlush, FinalFlush, processVars
<1>3. /\ UNCHANGED <<written, base, top, path, buffer, latestId>>
      /\ UNCHANGED <<handle, polling, result, readState, persisted>>
  BY <1>2 DEF logVars, ringVars, tailerVars
<1>4. Disjoint'
  BY <1>3 DEF CountInv, Disjoint
<1>5. TailersInv'
  BY <1>2, <1>3 DEF CountInv, TailersInv
<1>6. CASE FlushBegin
  <2>1. /\ phase = "idle" /\ phase' = "writing"
        /\ batch' = EventsSince(lastFlushedId) /\ batch' # <<>>
        /\ UNCHANGED <<lastFlushedId, db>>
    BY <1>6 DEF FlushBegin
  <2>2. /\ RingTypeOK /\ RingConsecutive /\ lastFlushedId \in Nat /\ latestId \in Nat
        /\ batch = <<>>
    BY <2>1 DEF CountInv, IInv, TypeOK, AggregatorTypeOK, RingTypeOK, BatchInv
  <2>3. \A i \in 1..Len(batch') : \E j \in 1..Len(buffer) : buffer[j] = batch'[i]
    BY <2>1, <2>2, EventsSinceEntries
  <2>4. BatchOrder'
    <3>1. /\ \A i \in 1..Len(batch') : batch'[i].id = latestId - Len(batch') + i
          /\ batch'[Len(batch')].id = latestId
      BY <2>1, <2>2, EventsSinceOrder
    <3> QED BY <3>1 DEF BatchOrder
  <2>5. \A line, more : Within(line, more)' <=> Within(line, more)
    <3> SUFFICES ASSUME NEW line PROVE \A more : Within(line, more)' <=> Within(line, more)
      OBVIOUS
    <3>1. Copies(line)' = Copies(line)
      BY <1>3, <2>2, <2>3 DEF Copies
    <3>2. Due(line)' = Due(line)
      BY <2>1, <3>1 DEF Due, Edge
    <3>3. InHand(line)' = InHand(line)
      BY <1>3 DEF InHand
    <3> QED BY <1>2, <2>1, <3>1, <3>2, <3>3 DEF Within
  <2>6. CopiesInv'
    BY <2>5 DEF CountInv, CopiesInv
  <2>7. AheadInv'
    <3> SUFFICES ASSUME NEW t \in Sources, NEW l \in 1..MaxLine
                 PROVE  /\ handle'[t] # Closed /\ (Reach(t, handle[t], l)' \/ Drainable(t, handle[t], l)')
                             => Within(<<t, l>>, 1)'
                        /\ handle'[t] = Closed /\ (Reach(t, persisted[t], l)' \/ Reach(t, readState[t], l)')
                             => Within(<<t, l>>, 1)'
      BY DEF AheadInv
    <3> QED BY <1>2, <1>3, <2>5, SameTailerAhead
  <2> QED BY <1>1, <1>4, <1>5, <2>4, <2>6, <2>7 DEF CountInv
<1>7. CASE UNCHANGED aggregatorVars
  <2>1. \A line, more : Within(line, more)' <=> Within(line, more)
    BY <1>2, <1>3, <1>7, SameWithin
  <2>2. BatchOrder' /\ CopiesInv'
    BY <1>7, <2>1 DEF CountInv, BatchOrder, CopiesInv, aggregatorVars
  <2>3. AheadInv'
    <3> SUFFICES ASSUME NEW t \in Sources, NEW l \in 1..MaxLine
                 PROVE  /\ handle'[t] # Closed /\ (Reach(t, handle[t], l)' \/ Drainable(t, handle[t], l)')
                             => Within(<<t, l>>, 1)'
                        /\ handle'[t] = Closed /\ (Reach(t, persisted[t], l)' \/ Reach(t, readState[t], l)')
                             => Within(<<t, l>>, 1)'
      BY DEF AheadInv
    <3> QED BY <1>2, <1>3, <2>1, SameTailerAhead
  <2> QED BY <1>1, <1>4, <1>5, <2>2, <2>3 DEF CountInv
<1> QED BY <1>2, <1>6, <1>7

\* The ids of a line's copies in the batch; the batch counts each once.
LEMMA BatchCopies ==
  ASSUME TypeOK, BatchInv, BatchOrder, batch # <<>>, NEW line
  PROVE  \E ids : /\ IsFiniteSet(ids)
                  /\ Occurrences(batch, line) <= Cardinality(ids)
                  /\ ids \subseteq Copies(line)
                  /\ \A n \in ids : n > lastFlushedId /\ n <= batch[Len(batch)].id
<1> DEFINE where == {i \in 1..Len(batch) : batch[i].event = line}
           ids == {batch[i].id : i \in where}
           f == [i \in where |-> batch[i].id]
<1>1. /\ latestId \in Nat /\ Len(batch) \in Nat /\ Len(batch) # 0 /\ lastFlushedId \in Nat
      /\ \A i \in 1..Len(batch) : batch[i].id \in Nat \ {0}
  <2>1. /\ latestId \in Nat /\ lastFlushedId \in Nat /\ batch \in Seq(StoredEvent)
    BY DEF TypeOK, RingTypeOK, AggregatorTypeOK
  <2>2. \A i \in 1..Len(batch) : batch[i] \in StoredEvent
    BY <2>1
  <2> QED BY <2>1, <2>2 DEF StoredEvent
<1>2. /\ Len(batch) \in 1..Len(batch)
      /\ \A i \in 1..Len(batch) : /\ batch[i].id = batch[Len(batch)].id - Len(batch) + i
                                  /\ lastFlushedId < batch[i].id /\ batch[i].id <= latestId
  BY <1>1 DEF BatchOrder, BatchInv
<1>3. \A i, j \in where : batch[i].id = batch[j].id => i = j
  <2> SUFFICES ASSUME NEW i \in 1..Len(batch), NEW j \in 1..Len(batch), batch[i].id = batch[j].id
               PROVE  i = j
    OBVIOUS
  <2> DEFINE last == batch[Len(batch)].id
  <2>1. last \in Nat
    BY <1>1, <1>2
  <2>2. last - Len(batch) + i = last - Len(batch) + j
    BY <1>2
  <2> HIDE DEF last
  <2> QED BY <1>1, <2>1, <2>2
<1>4. ids \subseteq Copies(line)
  BY <1>1, <1>2 DEF Copies
<1>5. \A n \in ids : n > lastFlushedId /\ n <= batch[Len(batch)].id
  <2> SUFFICES ASSUME NEW i \in 1..Len(batch)
               PROVE  batch[i].id > lastFlushedId /\ batch[i].id <= batch[Len(batch)].id
    OBVIOUS
  <2>1. batch[i].id \in Nat /\ batch[Len(batch)].id \in Nat
    BY <1>1, <1>2
  <2> QED BY <1>1, <1>2, <2>1
<1>6. IsFiniteSet(ids)
  <2>1. IsFiniteSet(Copies(line))
    BY <1>1, CopiesFinite
  <2> QED BY <1>4, <2>1, FS_Subset
<1>7. f \in Injection(where, ids)
  <2>1. f \in [where -> ids]
    OBVIOUS
  <2>2. \A i, j \in where : f[i] = f[j] => i = j
    BY <1>3
  <2> HIDE DEF f, ids, where
  <2> QED BY <2>1, <2>2 DEF Injection, IsInjective
<1>8. Cardinality(where) <= Cardinality(ids)
  <2> HIDE DEF f, ids, where
  <2> QED BY <1>6, <1>7, FS_Injection
<1>9. Occurrences(batch, line) = Cardinality(where)
  BY DEF Occurrences
<1> HIDE DEF ids, where
<1> QED BY <1>4, <1>5, <1>6, <1>8, <1>9

\* The commit turns copies that were due into counts.
LEMMA CommitCounts ==
  ASSUME CountInv, CommitFlush
  PROVE  CountInv'
<1>1. IInv'
  BY CommitInvariant DEF CountInv
<1>t. TypeOK /\ TypeOK' /\ BatchInv /\ BatchOrder
  BY <1>1 DEF CountInv, IInv
<1>2. /\ phase = "writing" /\ phase' = "committed"
      /\ db' = [line \in Lines |-> db[line] + Occurrences(batch, line)]
      /\ UNCHANGED <<batch, lastFlushedId, logVars, tailerVars, ringVars, processVars>>
  BY DEF CommitFlush, FlushCommit
<1>3. /\ UNCHANGED <<written, base, top, path, buffer, latestId>>
      /\ UNCHANGED <<handle, polling, result, readState, persisted>>
      /\ UNCHANGED <<mode, running, crashes, faults>>
  BY <1>2 DEF logVars, ringVars, tailerVars, processVars
<1>b. batch # <<>> /\ lastFlushedId \in Nat /\ latestId \in Nat
  BY <1>2, <1>t DEF BatchInv, TypeOK, AggregatorTypeOK, RingTypeOK
<1>4. ASSUME NEW line \in Lines, NEW more \in 0..1, Within(line, more)
      PROVE  Within(line, more)'
  <2>1. Copies(line)' = Copies(line) /\ InHand(line)' = InHand(line)
    BY <1>2, <1>3 DEF Copies, InHand
  <2>2. PICK ids : /\ IsFiniteSet(ids)
                   /\ Occurrences(batch, line) <= Cardinality(ids)
                   /\ ids \subseteq Copies(line)
                   /\ \A n \in ids : n > lastFlushedId /\ n <= batch[Len(batch)].id
    BY <1>b, <1>t, BatchCopies
  <2> DEFINE last == batch[Len(batch)].id
             later == Due(line)'
  <2>l. last \in Nat /\ lastFlushedId < last
    <3>1. batch \in Seq(StoredEvent)
      BY <1>t DEF TypeOK, AggregatorTypeOK
    <3>2. Len(batch) \in 1..Len(batch)
      BY <1>b, <3>1
    <3>3. batch[Len(batch)] \in StoredEvent /\ lastFlushedId < batch[Len(batch)].id
      BY <1>t, <3>1, <3>2 DEF BatchInv
    <3> QED BY <3>3 DEF StoredEvent
  <2>3. /\ Due(line) = {n \in Copies(line) : n > lastFlushedId}
        /\ later = {n \in Copies(line) : n > last}
    BY <1>2, <2>1 DEF Due, Edge
  <2>4. Copies(line) \subseteq Nat
    BY <1>b DEF Copies
  <2> HIDE DEF last, later
  <2>5. /\ later \cup ids \subseteq Due(line)
        /\ later \cap ids = {}
    <3>1. \A n \in ids : n \in Nat /\ n <= last /\ n \in Due(line)
      BY <2>2, <2>3, <2>4 DEF last
    <3>2. \A n \in later : n \in Nat /\ n > last /\ n \in Due(line)
      BY <1>b, <2>3, <2>4, <2>l
    <3>3. \A n \in later : n \notin ids
      BY <2>l, <3>1, <3>2
    <3> QED BY <3>1, <3>2, <3>3
  <2>6. /\ Cardinality(Copies(line)) \in Nat /\ Cardinality(Due(line)) \in Nat
        /\ IsFiniteSet(Due(line)) /\ InHand(line) \in 0..1 /\ db[line] \in Nat
    BY <1>t, WithinType
  <2>7. IsFiniteSet(later)
    BY <2>5, <2>6, FS_Subset
  <2>8. Cardinality(later) + Cardinality(ids) <= Cardinality(Due(line))
    <3>1. /\ IsFiniteSet(later \cup ids)
          /\ Cardinality(later \cup ids) =
               Cardinality(later) + Cardinality(ids) - Cardinality(later \cap ids)
      BY <2>2, <2>7, FS_Union
    <3>2. Cardinality(later \cap ids) = 0
      BY <2>5, FS_EmptySet
    <3>3. Cardinality(later \cup ids) <= Cardinality(Due(line))
      BY <2>5, <2>6, FS_Subset
    <3>4. Cardinality(later) \in Nat /\ Cardinality(ids) \in Nat
      BY <2>2, <2>7, FS_CardinalityType
    <3> QED BY <3>1, <3>2, <3>3, <3>4
  <2>9. Cardinality(later) \in Nat /\ Cardinality(ids) \in Nat /\ Occurrences(batch, line) \in Nat
    <3>1. batch \in Seq(StoredEvent)
      BY <1>t DEF TypeOK, AggregatorTypeOK
    <3> QED BY <2>2, <2>7, <3>1, FS_CardinalityType, OccursOnce
  <2>10. db'[line] = db[line] + Occurrences(batch, line)
    BY <1>2
  <2>11. db'[line] + Cardinality(later) + InHand(line)
           <= db[line] + Cardinality(Due(line)) + InHand(line)
    BY <2>2, <2>6, <2>8, <2>9, <2>10
  <2>12. /\ Cardinality(Copies(line)') + InHand(line)' <= Cardinality(Copies(line)) + InHand(line)
         /\ db'[line] + Cardinality(Due(line)') + InHand(line)'
              <= db[line] + Cardinality(Due(line)) + InHand(line)
    BY <2>1, <2>6, <2>11 DEF later
  <2> QED BY <1>3, <1>4, <1>t, <2>12, WithinTraded
<1>5. Disjoint' /\ BatchOrder' /\ TailersInv'
  BY <1>2, <1>3 DEF CountInv, Disjoint, BatchOrder, TailersInv
<1>6. CopiesInv'
  BY <1>4 DEF CountInv, CopiesInv
<1>7. AheadInv'
  <2> SUFFICES ASSUME NEW t \in Sources, NEW l \in 1..MaxLine
               PROVE  /\ handle'[t] # Closed /\ (Reach(t, handle[t], l)' \/ Drainable(t, handle[t], l)')
                           => Within(<<t, l>>, 1)'
                      /\ handle'[t] = Closed /\ (Reach(t, persisted[t], l)' \/ Reach(t, readState[t], l)')
                           => Within(<<t, l>>, 1)'
    BY DEF AheadInv
  <2>1. Within(<<t, l>>, 1) => Within(<<t, l>>, 1)'
    BY <1>4 DEF Lines
  <2> QED BY <1>2, <1>3, <2>1, SameTailerAhead
<1> QED BY <1>1, <1>5, <1>6, <1>7 DEF CountInv

\* A flush that is back forgets its batch; tailers resume from their snapshots
\* or from where they would have.
LEMMA FinishCounts ==
  ASSUME CountInv, FinishFlush
  PROVE  CountInv'
<1>1. IInv'
  BY FinishInvariant DEF CountInv
<1>t. TypeOK /\ TypeOK'
  BY <1>1 DEF CountInv, IInv
<1>2. PICK S \in SUBSET Sources :
        /\ IF S = Sources THEN UNCHANGED faults ELSE Fault
        /\ CheckpointAll(S)
  BY DEF FinishFlush
<1>3. /\ phase = "committed" /\ phase' = "insights" /\ batch' = <<>>
      /\ lastFlushedId' = batch[Len(batch)].id /\ UNCHANGED db
      /\ UNCHANGED <<logVars, handle, polling, result, readState>>
      /\ UNCHANGED <<ringVars, mode, running, crashes>>
  BY DEF FinishFlush, FlushDone
<1>4. UNCHANGED <<written, base, top, path, buffer, latestId>>
  BY <1>3 DEF logVars, ringVars
<1>5. ASSUME NEW line \in Lines, NEW more \in 0..1, Within(line, more)
      PROVE  Within(line, more)'
  <2>1. Copies(line)' \subseteq Copies(line) /\ InHand(line)' = InHand(line)
    BY <1>3, <1>4 DEF Copies, InHand
  <2>2. Due(line)' \subseteq Due(line)
    BY <1>3, <2>1 DEF Due, Edge
  <2>3. /\ Cardinality(Due(line)) \in Nat /\ InHand(line) \in 0..1 /\ db[line] \in Nat
        /\ IsFiniteSet(Due(line)) /\ crashes \in Nat /\ faults \in Nat
    BY <1>t, WithinType
  <2>4. Cardinality(Due(line)') <= Cardinality(Due(line)) /\ Cardinality(Due(line)') \in Nat
    BY <2>2, <2>3, FS_Subset, FS_CardinalityType
  <2>5. db'[line] + Cardinality(Due(line)') <= db[line] + Cardinality(Due(line))
    BY <1>3, <2>3, <2>4
  <2>6. \/ UNCHANGED <<crashes, faults>>
        \/ crashes' + faults' = crashes + faults + 1 /\ faults <= faults'
    BY <1>2, <1>3, <2>3 DEF Fault
  <2>7. InHand(line)' <= InHand(line)
    BY <2>1, <2>3
  <2> QED BY <1>5, <1>t, <2>1, <2>5, <2>6, <2>7, WithinKept
<1>6. Disjoint' /\ BatchOrder' /\ TailersInv'
  BY <1>3, <1>4 DEF CountInv, Disjoint, BatchOrder, TailersInv
<1>7. CopiesInv'
  BY <1>5 DEF CountInv, CopiesInv
<1>8. AheadInv'
  <2> SUFFICES ASSUME NEW t \in Sources, NEW l \in 1..MaxLine
               PROVE  /\ handle'[t] # Closed /\ (Reach(t, handle[t], l)' \/ Drainable(t, handle[t], l)')
                           => Within(<<t, l>>, 1)'
                      /\ handle'[t] = Closed /\ (Reach(t, persisted[t], l)' \/ Reach(t, readState[t], l)')
                           => Within(<<t, l>>, 1)'
    BY DEF AheadInv
  <2>0. Within(<<t, l>>, 1) => Within(<<t, l>>, 1)'
    BY <1>5 DEF Lines
  <2>1. /\ handle'[t] = handle[t] /\ readState'[t] = readState[t]
        /\ persisted'[t] = persisted[t] \/ persisted'[t] = readState[t]
    BY <1>2, <1>3 DEF CheckpointAll
  <2>2. /\ Reach(t, handle[t], l)' <=> Reach(t, handle[t], l)
        /\ Drainable(t, handle[t], l)' <=> Drainable(t, handle[t], l)
        /\ Reach(t, readState[t], l)' <=> Reach(t, readState[t], l)
    BY <1>4, <2>1 DEF Reach, Drainable, Size
  <2>3. Reach(t, persisted[t], l)' => Reach(t, readState[t], l) \/ Reach(t, persisted[t], l)
    BY <1>4, <2>1 DEF Reach, Size
  <2>4. /\ handle[t] # Closed /\ (Reach(t, handle[t], l) \/ Drainable(t, handle[t], l))
             => Within(<<t, l>>, 1)
        /\ handle[t] = Closed /\ (Reach(t, persisted[t], l) \/ Reach(t, readState[t], l))
             => Within(<<t, l>>, 1)
    BY DEF CountInv, AheadInv
  <2> QED BY <2>0, <2>1, <2>2, <2>3, <2>4
<1> QED BY <1>1, <1>6, <1>7, <1>8 DEF CountInv

\* A flush that raises may have committed, and then each copy it had, and the
\* buffer still has, counts once more.
LEMMA FailCounts ==
  ASSUME CountInv, FailFlush
  PROVE  CountInv'
<1>1. IInv'
  BY FailInvariant DEF CountInv
<1>t. TypeOK /\ TypeOK'
  BY <1>1 DEF CountInv, IInv
<1>2. /\ phase' = "idle" /\ batch' = <<>> /\ faults' = faults + 1
      /\ UNCHANGED <<lastFlushedId, db, logVars, tailerVars, ringVars>>
      /\ UNCHANGED <<mode, running, crashes>>
  BY DEF FailFlush, FlushRaises, Fault
<1>3. /\ UNCHANGED <<written, base, top, path, buffer, latestId>>
      /\ UNCHANGED <<handle, polling, result, readState, persisted>>
  BY <1>2 DEF logVars, ringVars, tailerVars
<1>4. ASSUME NEW line \in Lines, NEW more \in 0..1, Within(line, more)
      PROVE  Within(line, more)'
  <2>1. Copies(line)' \subseteq Copies(line) /\ InHand(line)' = InHand(line)
    BY <1>2, <1>3 DEF Copies, InHand
  <2>2. Due(line)' \subseteq Copies(line)
    BY <2>1 DEF Due
  <2>3. /\ Cardinality(Copies(line)) \in Nat /\ IsFiniteSet(Copies(line))
        /\ Cardinality(Due(line)) \in Nat /\ InHand(line) \in 0..1 /\ db[line] \in Nat
        /\ crashes \in Nat /\ faults \in Nat
    BY <1>t, WithinType
  <2>4. /\ Cardinality(Copies(line)') <= Cardinality(Copies(line))
        /\ Cardinality(Due(line)') <= Cardinality(Copies(line))
        /\ Cardinality(Copies(line)') \in Nat /\ Cardinality(Due(line)') \in Nat
    BY <2>1, <2>2, <2>3, FS_Subset, FS_CardinalityType
  <2> DEFINE e == Cardinality(Copies(line)) + InHand(line) + more
             d == db[line] + Cardinality(Due(line)) + InHand(line) + more
             e2 == Cardinality(Copies(line)') + InHand(line) + more
             d2 == db[line] + Cardinality(Due(line)') + InHand(line) + more
  <2>5. e \in Nat /\ d \in Nat /\ e2 \in Nat /\ d2 \in Nat /\ e2 <= e /\ d2 <= d + e
    BY <2>3, <2>4
  <2>6. Fits(e, d, crashes, faults)
    BY <1>4 DEF Within
  <2>7. Within(line, more)' <=> Fits(e2, d2, crashes, faults + 1)
    BY <1>2, <2>1 DEF Within
  <2> HIDE DEF e, d, e2, d2
  <2>8. Fits(e, d2, crashes, faults + 1)
    BY <2>3, <2>5, <2>6, FitsCommit
  <2>9. Fits(e2, d2, crashes, faults + 1)
    <3>1. faults + 1 \in Nat /\ d2 <= d2
      BY <2>3, <2>5
    <3> QED BY <2>3, <2>5, <2>8, <3>1, FitsLess
  <2> QED BY <2>7, <2>9
<1>5. Disjoint' /\ BatchOrder' /\ TailersInv'
  BY <1>2, <1>3 DEF CountInv, Disjoint, BatchOrder, TailersInv
<1>6. CopiesInv'
  BY <1>4 DEF CountInv, CopiesInv
<1>7. AheadInv'
  <2> SUFFICES ASSUME NEW t \in Sources, NEW l \in 1..MaxLine
               PROVE  /\ handle'[t] # Closed /\ (Reach(t, handle[t], l)' \/ Drainable(t, handle[t], l)')
                           => Within(<<t, l>>, 1)'
                      /\ handle'[t] = Closed /\ (Reach(t, persisted[t], l)' \/ Reach(t, readState[t], l)')
                           => Within(<<t, l>>, 1)'
    BY DEF AheadInv
  <2>1. Within(<<t, l>>, 1) => Within(<<t, l>>, 1)'
    BY <1>4 DEF Lines
  <2> QED BY <1>2, <1>3, <2>1, SameTailerAhead
<1> QED BY <1>1, <1>5, <1>6, <1>7 DEF CountInv

-----------------------------------------------------------------------------
(* The first theorem.                                                      *)

\* Before the first start nothing is read and everything is still to come.
LEMMA InitCountInv == Init => CountInv
<1> SUFFICES ASSUME Init PROVE CountInv
  OBVIOUS
<1>1. IInv
  BY InitIInv
<1>2. /\ handle = [s \in Sources |-> Closed] /\ polling = [s \in Sources |-> FALSE]
      /\ buffer = <<>> /\ latestId = 0 /\ batch = <<>> /\ mode = "down"
      /\ db = [line \in Lines |-> 0] /\ crashes = 0 /\ faults = 0
      /\ base = [s \in Sources |-> [i \in Inodes |-> 0]]
      /\ top = [s \in Sources |-> [i \in Inodes |-> 0]]
  BY DEF Init, LogInit, TailerInit, RingInit, AggregatorInit
<1>3. Disjoint
  BY <1>2 DEF Disjoint
<1>4. BatchOrder
  BY <1>2 DEF BatchOrder
<1>5. TailersInv
  BY <1>2 DEF TailersInv
<1>6. ASSUME NEW line \in Lines PROVE Within(line, 0) /\ Within(line, 1)
  <2>1. Copies(line) = {} /\ Due(line) = {}
    BY <1>2 DEF Copies, Due
  <2>2. Cardinality(Copies(line)) = 0 /\ Cardinality(Due(line)) = 0
    BY <2>1, FS_EmptySet
  <2>3. InHand(line) = 0 /\ db[line] = 0
    BY <1>2 DEF InHand, Lines
  <2>4. Fits(0 + 0 + 0, 0 + 0 + 0 + 0, 0, 0) /\ Fits(0 + 0 + 1, 0 + 0 + 0 + 1, 0, 0)
    <3>1. 0 \in 0..0 /\ 0 + 0 + 0 <= 1 + 0 + 0 - 0 /\ 0 + 0 + 1 <= 1 + 0 + 0 - 0
      OBVIOUS
    <3>2. (1 + 0 + 0 - 0) * (1 + 0) = 1
      OBVIOUS
    <3> QED BY <3>1, <3>2 DEF Fits
  <2> QED BY <1>2, <2>2, <2>3, <2>4 DEF Within
<1>7. CopiesInv
  BY <1>6 DEF CopiesInv
<1>8. AheadInv
  BY <1>6 DEF AheadInv, Lines
<1> QED BY <1>1, <1>3, <1>4, <1>5, <1>7, <1>8 DEF CountInv

\* Every step keeps the invariant.
LEMMA NextCountInv == CountInv /\ [Next]_vars => CountInv'
<1> SUFFICES ASSUME CountInv, [Next]_vars PROVE CountInv'
  OBVIOUS
<1>1. ASSUME NEW s \in Sources, Log(s) PROVE CountInv'
  BY <1>1, LogCounts
<1>2. ASSUME NEW s \in Sources, Read(s) PROVE CountInv'
  BY <1>2, ReadCounts
<1>3. ASSUME NEW s \in Sources, Missing(s) PROVE CountInv'
  BY <1>3, MissingCounts
<1>4. ASSUME NEW s \in Sources, Raise(s) PROVE CountInv'
  BY <1>4, RaiseCounts
<1>5. ASSUME NEW s \in Sources, Dispatch(s) PROVE CountInv'
  BY <1>5, DispatchCounts
<1>6. ASSUME NEW s \in Sources, StopTailer(s) PROVE CountInv'
  BY <1>6, StopTailerCounts
<1>7. CASE BeginFlush \/ FinalFlush
  BY <1>7, BeginCounts
<1>8. CASE CommitFlush
  BY <1>8, CommitCounts
<1>9. CASE FinishFlush
  BY <1>9, FinishCounts
<1>10. CASE FailFlush
  BY <1>10, FailCounts
<1>11. CASE Start \/ Shutdown \/ StopAggregator \/ EndFlush
  BY <1>11, ModeCounts
<1>12. CASE Crash \/ Stopped \/ CancelFlush
  BY <1>12, EndCounts
<1>13. CASE UNCHANGED vars
  <2>1. UNCHANGED <<logVars, tailerVars, ringVars, aggregatorVars, processVars>>
    BY <1>13 DEF vars
  <2>2. /\ UNCHANGED <<written, path, base, top, handle, polling, result, readState>>
        /\ UNCHANGED <<persisted, batch, mode, running, crashes, faults>>
    BY <2>1 DEF logVars, tailerVars, aggregatorVars, processVars
  <2>3. \A line, more : Within(line, more)' <=> Within(line, more)
    BY <2>1, <2>2, SameWithin
  <2>4. IInv'
    BY NextIInv DEF CountInv
  <2>5. Disjoint' /\ BatchOrder' /\ TailersInv'
    BY <2>2 DEF CountInv, Disjoint, BatchOrder, TailersInv
  <2>6. CopiesInv'
    BY <2>3 DEF CountInv, CopiesInv
  <2>7. ASSUME NEW s \in Sources, NEW l \in 1..MaxLine
        PROVE  /\ handle'[s] # Closed /\ (Reach(s, handle[s], l)' \/ Drainable(s, handle[s], l)')
                    => Within(<<s, l>>, 1)'
               /\ handle'[s] = Closed /\ (Reach(s, persisted[s], l)' \/ Reach(s, readState[s], l)')
                    => Within(<<s, l>>, 1)'
    <3>1. UNCHANGED logVars /\ (Within(<<s, l>>, 1) => Within(<<s, l>>, 1)')
      BY <2>1, <2>3
    <3> QED BY <2>2, <3>1, SameTailerAhead
  <2>8. AheadInv'
    BY <2>7 DEF AheadInv
  <2> QED BY <2>4, <2>5, <2>6, <2>8 DEF CountInv
<1> QED BY <1>1, <1>2, <1>3, <1>4, <1>5, <1>6, <1>7, <1>8, <1>9, <1>10, <1>11, <1>12, <1>13
        DEF Next

\* The inductive invariant holds throughout.
THEOREM CopiesExplained == Spec => []CountInv
  BY InitCountInv, NextCountInv, PTL DEF Spec

\* What there is of a line bounds how often it is counted.
LEMMA CountInvBound == CountInv => CountedOncePerLife
<1> SUFFICES ASSUME CountInv, NEW line \in Lines
             PROVE  \E n \in 0..faults : db[line] <= (1 + crashes + faults - n) * (1 + n)
  BY DEF CountedOncePerLife
<1> DEFINE e == Cardinality(Copies(line)) + InHand(line) + 0
           d == db[line] + Cardinality(Due(line)) + InHand(line) + 0
<1>1. /\ Cardinality(Copies(line)) \in Nat /\ Cardinality(Due(line)) \in Nat
      /\ InHand(line) \in 0..1 /\ db[line] \in Nat /\ crashes \in Nat /\ faults \in Nat
  BY WithinType DEF CountInv, IInv
<1>2. Fits(e, d, crashes, faults)
  BY DEF CountInv, CopiesInv, Within
<1>3. e \in Nat /\ d \in Nat /\ db[line] <= d
  BY <1>1
<1> HIDE DEF e, d
<1> QED BY <1>1, <1>2, <1>3, FitsBound

\* Polls, flushes, graceful stops and restarts never count a line twice; crashes,
\* failed polls and checkpoints and commits whose answer is lost do, and no more
\* often than CountedOncePerLife says, for any number of each.
THEOREM CountedOnce == Spec => []CountedOncePerLife
  BY CopiesExplained, CountInvBound, PTL

-----------------------------------------------------------------------------
(* The second theorem.                                                     *)

\* No state file is ahead of its tailer, and no poll goes back.
AtInv ==
  \A s \in Sources : /\ persistedAt[s] <= consumed[s]
                     /\ polling[s] => consumed[s] <= result[s].at

\* What a final flush has in hand, or unless something failed has behind it, is
\* all there is in the buffer.
FinalInv ==
  mode = "final" =>
    /\ phase \in {"writing", "committed"} =>
         \A j \in 1..Len(buffer) : buffer[j].id <= batch[Len(batch)].id
    /\ phase \in {"idle", "insights"} /\ faults = 0 =>
         \A j \in 1..Len(buffer) : buffer[j].id <= lastFlushedId

CleanInv == AtInv /\ FinalInv /\ CleanStopLosesNothing

\* Nothing is read or flushed before the first start.
LEMMA InitCleanInv == Init => CleanInv
  BY SourcesAssumption DEF Init, TailerInit, AtInv, FinalInv, CleanInv,
     CleanStopLosesNothing, Causes

\* Polls and the end of a poll only move positions forward.
LEMMA PollClean ==
  ASSUME CountInv, CleanInv, NEW s \in Sources,
         Read(s) \/ Missing(s) \/ Raise(s) \/ Dispatch(s)
  PROVE  CleanInv'
<1>0. /\ consumed \in [Sources -> 0..2 * MaxLine] /\ persistedAt \in [Sources -> 0..2 * MaxLine]
      /\ polling \in [Sources -> BOOLEAN] /\ result \in [Sources -> PollResult]
      /\ lost \in [Causes -> SUBSET Lines] /\ faults \in Nat
  BY IngestBoundsAssumption DEF CountInv, IInv, TypeOK, TailerTypeOK
<1>1. mode' = mode /\ mode # "final"
  BY DEF Read, Missing, Raise, Dispatch, processVars, CountInv, TailersInv
<1>2. FinalInv'
  BY <1>1 DEF FinalInv
<1>3. AtInv'
  <2>1. CASE Read(s)
    <3>1. /\ polling' = [polling EXCEPT ![s] = TRUE]
          /\ result' = [result EXCEPT ![s] =
               [events |-> EventsRead(s), skip |-> PassedOver(s), at |-> ReadUpTo(s)]]
          /\ UNCHANGED <<consumed, persistedAt>>
      BY <2>1 DEF Read, PollRead
    <3>2. ReadUpTo(s) \in 0..2 * MaxLine
      BY <2>1, PollReadType DEF Read, CountInv, IInv, TypeOK
    <3>3. consumed[s] <= ReadUpTo(s)
      <4> DEFINE top2 == Later(IF Rotated(s) THEN top[s][Opened(s).inode] ELSE 0, top[s][path[s]])
      <4>1. ReadUpTo(s) = Later(consumed[s], top2)
        BY DEF ReadUpTo
      <4> HIDE DEF top2
      <4>2. CASE consumed[s] >= top2
        BY <1>0, <4>1, <4>2 DEF Later
      <4>3. CASE ~(consumed[s] >= top2)
        <5>1. ReadUpTo(s) = top2
          BY <4>1, <4>3 DEF Later
        <5>2. top2 \in Int /\ consumed[s] \in Int
          BY <1>0, <3>2, <5>1
        <5> QED BY <4>3, <5>1, <5>2
      <4> QED BY <4>2, <4>3
    <3> QED BY <1>0, <3>1, <3>3 DEF CleanInv, AtInv
  <2>2. CASE Missing(s) \/ Raise(s)
    BY <2>2 DEF Missing, Raise, PollMissing, PollRaises, CleanInv, AtInv
  <2>3. CASE Dispatch(s)
    <3>1. /\ consumed' = [consumed EXCEPT ![s] = result[s].at]
          /\ polling' = [polling EXCEPT ![s] = FALSE]
          /\ result' = [result EXCEPT ![s] = Nothing]
          /\ UNCHANGED persistedAt /\ polling[s]
      BY <2>3 DEF Dispatch, Snapshot
    <3>2. result[s].at \in Nat
      BY <1>0, SourcesAssumption DEF PollResult
    <3> QED BY <1>0, <3>1, <3>2 DEF CleanInv, AtInv
  <2> QED BY <2>1, <2>2, <2>3
<1>4. lost'["stop"] = lost["stop"] /\ (faults' = 0 => faults = 0)
  BY <1>0 DEF Read, Missing, Raise, Dispatch, Lose, Fault, processVars, Causes
<1> QED BY <1>2, <1>3, <1>4 DEF CleanInv, CleanStopLosesNothing

\* So do stopping a tailer and the log, and they are no flushes.
LEMMA StopClean ==
  ASSUME CountInv, CleanInv, NEW s \in Sources, Log(s) \/ StopTailer(s)
  PROVE  CleanInv'
<1>0. /\ consumed \in [Sources -> 0..2 * MaxLine] /\ persistedAt \in [Sources -> 0..2 * MaxLine]
      /\ polling \in [Sources -> BOOLEAN] /\ result \in [Sources -> PollResult]
      /\ faults \in Nat
  BY IngestBoundsAssumption DEF CountInv, IInv, TypeOK, TailerTypeOK
<1>1. CASE Log(s)
  BY <1>1 DEF Log, tailerVars, ringVars, aggregatorVars, processVars,
     CleanInv, AtInv, FinalInv, CleanStopLosesNothing
<1>2. CASE StopTailer(s)
  <2>1. PICK S \in SUBSET {s} : CloseTailer(s, S)
    BY <1>2 DEF StopTailer
  <2>2. /\ persistedAt' = [t \in Sources |->
             IF t \in S /\ readState[t] # Closed THEN consumed[t] ELSE persistedAt[t]]
        /\ polling' = [polling EXCEPT ![s] = FALSE]
        /\ result' = [result EXCEPT ![s] = Nothing]
        /\ UNCHANGED consumed
    BY <2>1 DEF CloseTailer, CheckpointAll
  <2>3. AtInv'
    BY <1>0, <2>2 DEF CleanInv, AtInv
  <2>4. /\ mode' = mode /\ mode # "final" /\ lost' = lost
        /\ faults' = 0 => faults = 0
    BY <1>0, <1>2 DEF StopTailer, Fault
  <2> QED BY <2>3, <2>4 DEF CleanInv, FinalInv, CleanStopLosesNothing
<1> QED BY <1>1, <1>2

\* The final flush takes all there is, or finds it written.
LEMMA BeginClean ==
  ASSUME CountInv, CleanInv, BeginFlush \/ FinalFlush
  PROVE  CleanInv'
<1>0. RingTypeOK /\ RingConsecutive /\ lastFlushedId \in Nat
  BY DEF CountInv, IInv, TypeOK, AggregatorTypeOK
<1>1. UNCHANGED <<logVars, tailerVars, ringVars, faults, lost>>
  BY DEF BeginFlush, FinalFlush, processVars
<1>2. UNCHANGED <<buffer, latestId, persistedAt, consumed, polling, result>>
  BY <1>1 DEF ringVars, tailerVars
<1>3. FinalInv'
  <2>1. CASE BeginFlush
    BY <2>1 DEF BeginFlush, processVars, FinalInv
  <2>2. CASE FinalFlush /\ FlushBegin
    <3>1. /\ EventsSince(lastFlushedId) # <<>>
          /\ batch' = EventsSince(lastFlushedId)
          /\ phase' = "writing"
      BY <2>2 DEF FlushBegin
    <3>2. batch'[Len(batch')].id = latestId
      BY <1>0, <3>1, EventsSinceOrder
    <3>3. \A j \in 1..Len(buffer) : buffer[j].id <= latestId
      BY <1>0 DEF RingTypeOK, RingConsecutive
    <3> QED BY <1>2, <3>1, <3>2, <3>3 DEF FinalInv
  <2>3. CASE FinalFlush /\ ~FlushBegin
    <3>1. /\ EventsSince(lastFlushedId) = <<>> /\ phase' = "idle"
          /\ lastFlushedId' = lastFlushedId
      BY <2>3 DEF FinalFlush, aggregatorVars
    <3>2. \A j \in 1..Len(buffer) : ~(buffer[j].id > lastFlushedId)
      BY <1>0, <3>1, EventsSinceEntries
    <3>3. \A j \in 1..Len(buffer) : buffer[j].id \in Nat
      <4>1. \A j \in 1..Len(buffer) : buffer[j] \in StoredEvent
        BY <1>0 DEF RingTypeOK
      <4> QED BY <4>1 DEF StoredEvent
    <3> QED BY <1>0, <1>2, <3>1, <3>2, <3>3 DEF FinalInv
  <2> QED BY <2>1, <2>2, <2>3
<1> QED BY <1>1, <1>2, <1>3 DEF CleanInv, AtInv, CleanStopLosesNothing

\* A flush that succeeds leaves nothing behind it, and one that fails is a fault.
LEMMA FlushClean ==
  ASSUME CountInv, CleanInv, CommitFlush \/ FinishFlush \/ EndFlush \/ FailFlush
  PROVE  CleanInv'
<1>0. /\ consumed \in [Sources -> 0..2 * MaxLine] /\ persistedAt \in [Sources -> 0..2 * MaxLine]
      /\ lost \in [Causes -> SUBSET Lines] /\ faults \in Nat
  BY IngestBoundsAssumption DEF CountInv, IInv, TypeOK, TailerTypeOK
<1>1. CASE CommitFlush
  BY <1>1 DEF CommitFlush, FlushCommit, tailerVars, ringVars, processVars,
     CleanInv, AtInv, FinalInv, CleanStopLosesNothing
<1>2. CASE FinishFlush
  <2>1. PICK S \in SUBSET Sources :
          /\ IF S = Sources THEN UNCHANGED faults ELSE Fault
          /\ CheckpointAll(S)
    BY <1>2 DEF FinishFlush
  <2>2. /\ phase = "committed" /\ phase' = "insights" /\ lastFlushedId' = batch[Len(batch)].id
        /\ UNCHANGED <<consumed, polling, result, buffer, mode, lost>>
    BY <1>2 DEF FinishFlush, FlushDone, ringVars
  <2>3. AtInv'
    <3>1. persistedAt' = [t \in Sources |->
            IF t \in S /\ readState[t] # Closed THEN consumed[t] ELSE persistedAt[t]]
      BY <2>1 DEF CheckpointAll
    <3> QED BY <1>0, <2>2, <3>1 DEF CleanInv, AtInv
  <2>4. faults' = 0 => faults = 0
    BY <1>0, <2>1 DEF Fault
  <2>5. FinalInv'
    BY <2>2 DEF CleanInv, FinalInv
  <2> QED BY <2>2, <2>3, <2>4, <2>5 DEF CleanInv, CleanStopLosesNothing
<1>3. CASE EndFlush
  BY <1>3 DEF EndFlush, FlushEnd, tailerVars, ringVars, processVars,
     CleanInv, AtInv, FinalInv, CleanStopLosesNothing
<1>4. CASE FailFlush
  <2>1. /\ phase' = "idle" /\ faults' # 0
        /\ UNCHANGED <<consumed, persistedAt, polling, result>>
    BY <1>0, <1>4 DEF FailFlush, Fault, FlushRaises, tailerVars
  <2> QED BY <2>1 DEF CleanInv, AtInv, FinalInv, CleanStopLosesNothing
<1> QED BY <1>1, <1>2, <1>3, <1>4

\* A stop behind a final flush finds every line a state file covers on record.
LEMMA ExitClean ==
  ASSUME CountInv, CleanInv, Crash \/ Stopped \/ CancelFlush
  PROVE  CleanInv'
<1>0. /\ consumed \in [Sources -> 0..2 * MaxLine] /\ persistedAt \in [Sources -> 0..2 * MaxLine]
      /\ lost \in [Causes -> SUBSET Lines] /\ faults \in Nat
      /\ db \in [Lines -> Nat] /\ lastFlushedId \in Nat /\ RingTypeOK
  BY IngestBoundsAssumption DEF CountInv, IInv, TypeOK, TailerTypeOK, AggregatorTypeOK
<1>1. PICK cause \in {"crash", "stop"} : Exit(cause)
  BY DEF Crash, Stopped, CancelFlush
<1>2. /\ mode' = "down" /\ consumed' = persistedAt /\ persistedAt' = persistedAt
      /\ polling' = [s \in Sources |-> FALSE]
      /\ lost' = [lost EXCEPT ![cause] = @ \cup Unaccounted]
  BY <1>1 DEF Exit, LoseTailers, Lose
<1>3. AtInv' /\ FinalInv'
  BY <1>0, <1>2 DEF AtInv, FinalInv
<1>4. CleanStopLosesNothing'
  <2>1. CASE Crash
    <3>1. lost' = [lost EXCEPT !["crash"] = @ \cup Unaccounted] /\ faults' = faults
      BY <2>1 DEF Crash, Exit, Lose
    <3> QED BY <1>0, <3>1 DEF CleanInv, CleanStopLosesNothing, Causes
  <2>2. CASE CancelFlush
    <3>1. faults' # 0
      BY <1>0, <2>2 DEF CancelFlush, Fault
    <3> QED BY <3>1 DEF CleanStopLosesNothing
  <2>3. CASE Stopped
    <3> SUFFICES ASSUME faults = 0 PROVE lost'["stop"] = {}
      BY <2>3 DEF Stopped, CleanStopLosesNothing
    <3>1. mode = "final" /\ phase = "idle" /\ lost' = [lost EXCEPT !["stop"] = @ \cup Unaccounted]
      BY <2>3 DEF Stopped, Exit, Lose
    <3>2. batch = <<>>
      BY <3>1 DEF CountInv, IInv, BatchInv
    <3>3. \A j \in 1..Len(buffer) : buffer[j].id <= lastFlushedId /\ buffer[j].id \in Nat
      <4>1. \A j \in 1..Len(buffer) : buffer[j] \in StoredEvent
        BY <1>0 DEF RingTypeOK
      <4>2. \A j \in 1..Len(buffer) : buffer[j].id \in Nat
        BY <4>1 DEF StoredEvent
      <4> QED BY <3>1, <4>2 DEF CleanInv, FinalInv
    <3>4. ASSUME NEW line \in Unaccounted PROVE FALSE
      <4>1. PICK s \in Sources, l \in 1..MaxLine : line = <<s, l>>
        BY DEF Unaccounted, Lines
      <4>2. 2 * l <= persistedAt[s] /\ db[line] = 0 /\ ~WrittenOff(line)
        BY <4>1 DEF Unaccounted, WrittenOff
      <4>3. 2 * l <= consumed[s]
        BY <1>0, <4>2, SourcesAssumption DEF CleanInv, AtInv
      <4>4. Stored(line) \/ Pending(line)
        BY <4>1, <4>2, <4>3 DEF CountInv, IInv, Accounted
      <4>5. ~Stored(line)
        BY <4>2 DEF Stored
      <4>6. ~Pending(line)
        BY <1>0, <3>2, <3>3 DEF Pending
      <4> QED BY <4>4, <4>5, <4>6
    <3>5. lost["stop"] = {}
      BY DEF CleanInv, CleanStopLosesNothing
    <3> QED BY <1>0, <3>1, <3>4, <3>5 DEF Causes
  <2> QED BY <2>1, <2>2, <2>3
<1> QED BY <1>3, <1>4 DEF CleanInv

\* Every step keeps it.
LEMMA NextCleanInv == CountInv /\ CleanInv /\ [Next]_vars => CleanInv'
<1> SUFFICES ASSUME CountInv, CleanInv, [Next]_vars PROVE CleanInv'
  OBVIOUS
<1>1. ASSUME NEW s \in Sources, Log(s) \/ StopTailer(s) PROVE CleanInv'
  BY <1>1, StopClean
<1>2. ASSUME NEW s \in Sources, Read(s) \/ Missing(s) \/ Raise(s) \/ Dispatch(s)
      PROVE CleanInv'
  BY <1>2, PollClean
<1>3. CASE BeginFlush \/ FinalFlush
  BY <1>3, BeginClean
<1>4. CASE CommitFlush \/ FinishFlush \/ EndFlush \/ FailFlush
  BY <1>4, FlushClean
<1>5. CASE Start \/ Shutdown \/ StopAggregator
  <2>1. /\ mode' # "final"
        /\ UNCHANGED <<tailerVars, faults, lost>>
    BY <1>5 DEF Start, Shutdown, StopAggregator
  <2> QED BY <2>1 DEF tailerVars, CleanInv, AtInv, FinalInv, CleanStopLosesNothing
<1>6. CASE Crash \/ Stopped \/ CancelFlush
  BY <1>6, ExitClean
<1>7. CASE UNCHANGED vars
  BY <1>7 DEF vars, tailerVars, ringVars, aggregatorVars, processVars,
     CleanInv, AtInv, FinalInv, CleanStopLosesNothing
<1> QED BY <1>1, <1>2, <1>3, <1>4, <1>5, <1>6, <1>7 DEF Next

\* A graceful stop without an exception or an expired timeout leaves nothing read
\* but unwritten, whatever is in memory when it begins: the tailers end first and
\* the final flush takes all that is left.
THEOREM CleanStop == Spec => []CleanStopLosesNothing
<1>1. Init => CountInv /\ CleanInv
  BY InitCountInv, InitCleanInv
<1>2. CountInv /\ CleanInv /\ [Next]_vars => (CountInv /\ CleanInv)'
  BY NextCountInv, NextCleanInv
<1>3. CountInv /\ CleanInv => CleanStopLosesNothing
  BY DEF CleanInv
<1> QED BY <1>1, <1>2, <1>3, PTL DEF Spec
-----------------------------------------------------------------------------
(* The third theorem.                                                      *)

\* What is left of a line in memory is nothing, half a line, or garbled.
Halfway(pos) == pos.partial \in {0, Garbled} \/ pos.partial % 2 = 1

PartialInv ==
  \A s \in Sources : Halfway(handle[s]) /\ Halfway(readState[s]) /\ Halfway(persisted[s])

\* A poll stops between lines or in the middle of one.
LEMMA PollHalf ==
  ASSUME TypeOK, LogInv, PartialInv, NEW s \in Sources, PollRead(s)
  PROVE  Halfway(handle'[s])
<1> DEFINE h == ReadFrom(s)
           a == base[s][path[s]] + h.off
           b == top[s][path[s]]
<1>1. path[s] # NoFile /\ path[s] \in Inodes /\ handle \in [Sources -> Position]
  BY DEF PollRead, TypeOK, LogTypeOK, TailerTypeOK
<1>2. h.off \in Nat /\ base[s][path[s]] \in Nat /\ b \in Nat
  <2>1. Opened(s) \in Position
    BY <1>1, OpenedType DEF TypeOK
  <2> QED BY <1>1, <2>1 DEF ReadFrom, Position, TypeOK, LogTypeOK
<1>3. Halfway(h)
  <2>1. Halfway([inode |-> path[s], off |-> 0, partial |-> 0])
        /\ Halfway([inode |-> path[s], off |-> Size(s, path[s]), partial |-> 0])
    BY DEF Halfway
  <2>2. Halfway(OpenInitial(s))
    BY <2>1 DEF OpenInitial, PartialInv
  <2>3. Halfway(Opened(s))
    BY <2>2 DEF Opened, PartialInv
  <2> QED BY <2>1, <2>3 DEF ReadFrom
<1>4. handle'[s].partial = PartialAfter(a, b, h.partial)
  BY <1>1 DEF PollRead
<1>5. a \in Nat
  BY <1>2
<1> HIDE DEF a, b, h
<1>6. PartialAfter(a, b, h.partial) \in {0, Garbled, h.partial}
      \/ PartialAfter(a, b, h.partial) % 2 = 1
  BY <1>2, <1>5 DEF PartialAfter
<1> QED BY <1>3, <1>4, <1>6 DEF Halfway

\* The invariant at the start and after every step.
LEMMA InitPartialInv == Init => PartialInv
<1>1. Halfway(Closed)
  BY DEF Halfway, Closed
<1> QED BY <1>1 DEF Init, TailerInit, PartialInv

LEMMA NextPartialInv == CountInv /\ PartialInv /\ [Next]_vars => PartialInv'
<1> SUFFICES ASSUME CountInv, PartialInv, [Next]_vars PROVE PartialInv'
  OBVIOUS
<1>0. /\ TypeOK /\ LogInv /\ handle \in [Sources -> Position]
      /\ readState \in [Sources -> Position] /\ persisted \in [Sources -> Position]
  BY DEF CountInv, IInv, TypeOK, TailerTypeOK
<1>c. Halfway(Closed)
  BY DEF Halfway, Closed
<1>1. ASSUME NEW s \in Sources, Read(s) PROVE PartialInv'
  <2>1. PollRead(s)
    BY <1>1 DEF Read
  <2>2. Halfway(handle'[s])
    BY <1>0, <2>1, PollHalf
  <2>3. /\ UNCHANGED <<readState, persisted>>
        /\ \A t \in Sources : t # s => handle'[t] = handle[t]
    BY <1>0, <2>1 DEF PollRead
  <2>4. \A t \in Sources : Halfway(handle'[t])
    BY <2>2, <2>3 DEF PartialInv
  <2> QED BY <2>3, <2>4 DEF PartialInv
<1>2. ASSUME NEW s \in Sources, Missing(s) \/ Raise(s) PROVE PartialInv'
  <2>1. handle' = [handle EXCEPT ![s] = Closed] /\ UNCHANGED <<readState, persisted>>
    BY <1>2 DEF Missing, Raise, PollMissing, PollRaises
  <2> QED BY <1>0, <1>c, <2>1 DEF PartialInv
<1>3. ASSUME NEW s \in Sources, Dispatch(s) PROVE PartialInv'
  <2>1. readState' = [readState EXCEPT ![s] = handle[s]] /\ UNCHANGED <<handle, persisted>>
    BY <1>3 DEF Dispatch, Snapshot
  <2> QED BY <1>0, <2>1 DEF PartialInv
<1>4. ASSUME NEW S \in SUBSET Sources, CheckpointAll(S)
      PROVE  \A s \in Sources : Halfway(persisted'[s])
  BY <1>4 DEF CheckpointAll, PartialInv
<1>5. ASSUME NEW s \in Sources, StopTailer(s) PROVE PartialInv'
  <2>1. PICK S \in SUBSET {s} : CloseTailer(s, S)
    BY <1>5 DEF StopTailer
  <2>2. \A t \in Sources : Halfway(persisted'[t])
    BY <1>4, <2>1 DEF CloseTailer
  <2>3. handle' = [handle EXCEPT ![s] = Closed] /\ UNCHANGED readState
    BY <2>1 DEF CloseTailer
  <2> QED BY <1>0, <1>c, <2>2, <2>3 DEF PartialInv
<1>6. CASE FinishFlush
  <2>1. (\E S \in SUBSET Sources : CheckpointAll(S)) /\ UNCHANGED <<handle, readState>>
    BY <1>6 DEF FinishFlush
  <2> QED BY <1>4, <2>1 DEF PartialInv
<1>7. CASE Crash \/ Stopped \/ CancelFlush
  <2>1. LoseTailers
    BY <1>7 DEF Crash, Stopped, CancelFlush, Exit
  <2> QED BY <1>c, <2>1 DEF LoseTailers, PartialInv
<1>8. CASE UNCHANGED <<handle, readState, persisted>>
  BY <1>8 DEF PartialInv
<1>9. \/ UNCHANGED <<handle, readState, persisted>> \/ FinishFlush \/ Crash \/ Stopped \/ CancelFlush
      \/ \E s \in Sources : Read(s) \/ Missing(s) \/ Raise(s) \/ Dispatch(s) \/ StopTailer(s)
  BY DEF Next, vars, tailerVars, Log, BeginFlush, CommitFlush, EndFlush, FailFlush, Start,
     Shutdown, StopAggregator, FinalFlush
<1> QED BY <1>1, <1>2, <1>3, <1>5, <1>6, <1>7, <1>8, <1>9

\* Reading on from a position gives every line that ends behind it in the file,
\* but for the one whose first half was not read.
LEMMA LinesReadAll ==
  ASSUME NEW s \in Sources, NEW a \in Nat, NEW b \in 0..2 * MaxLine, NEW p \in Int,
         NEW l \in 1..MaxLine, a < 2 * l, 2 * l <= b,
         p = 0 \/ (p = a /\ a % 2 = 1), p = 0 => 2 * l # a + 1
  PROVE  \E i \in 1..Len(LinesRead(s, a, b, p)) : LinesRead(s, a, b, p)[i] = <<s, l>>
<1> DEFINE first == FirstWhole(a, p)
           last  == b \div 2
           lines == LinesRead(s, a, b, p)
<1>1. first \in Nat /\ first >= 1 /\ first <= l
  <2>1. CASE a % 2 = 1
    BY <2>1 DEF FirstWhole
  <2>2. CASE a % 2 # 1
    BY <2>2 DEF FirstWhole
  <2> QED BY <2>1, <2>2
<1>2. last \in Nat /\ l <= last
  BY SourcesAssumption
<1>3. lines = IF first <= last THEN [i \in 1..last - first + 1 |-> <<s, first + i - 1>>]
                               ELSE <<>>
  BY DEF LinesRead
<1> HIDE DEF first, last, lines
<1>4. lines = [i \in 1..last - first + 1 |-> <<s, first + i - 1>>] /\ last - first + 1 \in Nat
  BY <1>1, <1>2, <1>3
<1>5. Len(lines) = last - first + 1 /\ l - first + 1 \in 1..last - first + 1
  BY <1>1, <1>2, <1>4
<1>6. lines[l - first + 1] = <<s, first + (l - first + 1) - 1>>
  BY <1>4, <1>5
<1>7. first + (l - first + 1) - 1 = l
  BY <1>1
<1> QED BY <1>5, <1>6, <1>7 DEF lines

\* A poll that passes over a line found it in no file it can reach, unless the
\* tailer starts for the first time, joins in the middle of it, or reads a file
\* that was cut without its notice.
LEMMA SkipStep ==
  ASSUME CountInv, AtInv, PartialInv, NEW s \in Sources, Read(s), NEW l \in 1..MaxLine,
         <<s, l>> \in result'[s].skip, ~(handle[s] = Closed /\ persisted[s] = Closed),
         ~JoinedMidLine(s, l), ~CutUnseen(s)
  PROVE  ~InFile(s, path[s], l) /\ ~InFile(s, handle[s].inode, l)
<1> DEFINE h == IF handle[s] = Closed THEN persisted[s] ELSE handle[s]
           at == IF handle[s] = Closed THEN persistedAt[s] ELSE consumed[s]
           old == Drained(s)
           new == LinesRead(s, base[s][path[s]] + ReadFrom(s).off, top[s][path[s]],
                            ReadFrom(s).partial)
<1>t. /\ TypeOK /\ TailerTypeOK /\ LogTypeOK /\ LogInv /\ PollRead(s)
      /\ result \in [Sources -> PollResult]
  BY DEF CountInv, IInv, TypeOK, TailerTypeOK, Read
<1>p. path[s] # NoFile /\ path[s] \in Inodes
  BY <1>t DEF PollRead, LogTypeOK
<1>o. Opened(s) \in Position /\ Opened(s).inode \in Inodes
  BY <1>t, <1>p, OpenedType
<1>f. \A i \in Inodes : /\ top[s][i] \in 0..2 * MaxLine /\ base[s][i] \in 0..2 * MaxLine
                        /\ base[s][i] <= top[s][i]
  BY <1>t DEF LogTypeOK, LogInv
<1>h. /\ h \in Position /\ Halfway(h) /\ h # Closed
      /\ handle[s] # Closed => handle[s].inode # NoFile
      /\ at \in Nat /\ at <= consumed[s] /\ consumed[s] \in Nat
  BY <1>t, SourcesAssumption
  DEF TailerTypeOK, PartialInv, AtInv, CountInv, TailersInv
<1>1. /\ <<s, l>> \in PassedOver(s)
      /\ consumed[s] < 2 * l
      /\ \A i \in 1..Len(EventsRead(s)) : EventsRead(s)[i] # <<s, l>>
  BY <1>t DEF PollRead, PassedOver
<1>2. old \in Seq(Lines) /\ new \in Seq(Lines) /\ EventsRead(s) = old \o new
  <2>1. new \in Seq(Lines)
    <3>1. ReadFrom(s).off \in Nat /\ ReadFrom(s).partial \in Int
      BY <1>o, SourcesAssumption DEF ReadFrom, Position
    <3>2. base[s][path[s]] + ReadFrom(s).off \in Nat
      BY <1>p, <1>f, <3>1
    <3> QED BY <1>p, <1>f, <3>1, <3>2, LinesReadType
  <2>2. old \in Seq(Lines)
    <3>1. Opened(s).off \in Nat /\ Opened(s).partial \in Int
      BY <1>o, SourcesAssumption DEF Position
    <3>2. base[s][Opened(s).inode] + Opened(s).off \in Nat
      BY <1>o, <1>f, <3>1
    <3>3. LinesRead(s, base[s][Opened(s).inode] + Opened(s).off, top[s][Opened(s).inode],
                    Opened(s).partial) \in Seq(Lines)
      BY <1>o, <1>f, <3>1, <3>2, LinesReadType
    <3> QED BY <3>3 DEF Drained
  <2> QED BY <2>1, <2>2 DEF EventsRead
<1>3. /\ \A i \in 1..Len(old) : old[i] # <<s, l>>
      /\ \A i \in 1..Len(new) : new[i] # <<s, l>>
  <2> HIDE DEF old, new
  <2>1. \A i \in 1..Len(old) : i \in 1..Len(EventsRead(s)) /\ EventsRead(s)[i] = old[i]
    BY <1>2, ConcatProperties
  <2>2. \A i \in 1..Len(new) : /\ Len(old) + i \in 1..Len(EventsRead(s))
                               /\ EventsRead(s)[Len(old) + i] = new[i]
    <3> TAKE i \in 1..Len(new)
    <3>1. /\ Len(old) + i \in 1..Len(old) + Len(new) /\ ~(Len(old) + i <= Len(old))
          /\ (Len(old) + i) - Len(old) = i
      BY <1>2
    <3> QED BY <1>2, <3>1, ConcatProperties
  <2> QED BY <1>1, <2>1, <2>2
<1> HIDE DEF new, old
<1>4. \/ base[s][h.inode] + h.off = at /\ h.partial \in {0, at}
      \/ h.inode = path[s] /\ ~(h.off <= Size(s, path[s]))
  BY <1>h DEF CutUnseen
<1>5. ~(h.partial = 0 /\ base[s][h.inode] + h.off = 2 * l - 1)
  BY <1>h DEF JoinedMidLine
<1>j. ASSUME h.inode \in Inodes, base[s][h.inode] + h.off = at, h.partial \in {0, at}
      PROVE  /\ base[s][h.inode] + h.off \in Nat /\ h.partial \in Int
             /\ base[s][h.inode] + h.off < 2 * l
             /\ \/ h.partial = 0
                \/ h.partial = base[s][h.inode] + h.off /\ (base[s][h.inode] + h.off) % 2 = 1
             /\ h.partial = 0 => 2 * l # base[s][h.inode] + h.off + 1
  <2> HIDE DEF h, at
  <2>1. at < 2 * l
    BY <1>h, <1>1
  <2>2. h.partial = 0 => 2 * l # at + 1
    BY <1>5, <1>j, <1>h
  <2>3. h.partial # 0 => at % 2 = 1
    BY <1>h, <1>j DEF Halfway, Garbled
  <2> QED BY <1>h, <1>j, <2>1, <2>2, <2>3
<1>6. ASSUME InFile(s, path[s], l) PROVE FALSE
  <2> DEFINE a == base[s][path[s]] + ReadFrom(s).off
             b == top[s][path[s]]
             q == ReadFrom(s).partial
  <2>1. base[s][path[s]] < 2 * l - 1 /\ 2 * l <= b
    BY <1>6 DEF InFile
  <2>2. a \in Nat /\ q \in Int /\ a < 2 * l /\ (q = 0 \/ (q = a /\ a % 2 = 1))
        /\ (q = 0 => 2 * l # a + 1)
    <3>1. CASE \/ Rotated(s) \/ Shrunk(s)
               \/ handle[s] = Closed /\ persisted[s].inode # path[s]
      <4>1. ReadFrom(s).off = 0 /\ q = 0
        BY <3>1, <1>h DEF ReadFrom, Opened, OpenInitial, Closed
      <4>2. a = base[s][path[s]] /\ a \in Nat
        BY <4>1, <1>p, <1>f
      <4> QED BY <4>1, <4>2, <2>1
    <3>2. CASE /\ ~Rotated(s) /\ ~Shrunk(s)
               /\ handle[s] = Closed => persisted[s].inode = path[s]
      <4>1. ReadFrom(s) = Opened(s) /\ Opened(s).inode = path[s]
            /\ ~(Size(s, path[s]) < Opened(s).off)
        BY <3>2 DEF ReadFrom, Rotated, Shrunk
      <4>2. Opened(s) = h
        <5>1. CASE handle[s] # Closed
          BY <5>1, <1>h DEF Opened
        <5>2. CASE handle[s] = Closed
          <6>1. Opened(s) = OpenInitial(s) /\ h = persisted[s]
            BY <5>2 DEF Opened, Closed
          <6> QED BY <3>2, <5>2, <6>1 DEF OpenInitial
        <5> QED BY <5>1, <5>2
      <4>3. h.inode = path[s] /\ ReadFrom(s) = h /\ h.off <= Size(s, path[s])
        BY <4>1, <4>2, <1>h, <1>p, <1>f DEF Position, Size
      <4>4. base[s][h.inode] + h.off = at /\ h.partial \in {0, at}
        BY <1>4, <4>3
      <4> QED BY <1>j, <4>3, <4>4, <1>p
    <3> QED BY <3>1, <3>2
  <2>3. b \in 0..2 * MaxLine
    BY <1>p, <1>f
  <2> HIDE DEF a, b, q
  <2>4. \E i \in 1..Len(LinesRead(s, a, b, q)) : LinesRead(s, a, b, q)[i] = <<s, l>>
    BY <2>1, <2>2, <2>3, LinesReadAll
  <2> QED BY <2>4, <1>3 DEF new, a, b, q
<1>7. ASSUME InFile(s, handle[s].inode, l) PROVE FALSE
  <2>1. handle[s] # Closed /\ h = handle[s] /\ Opened(s) = h /\ h.inode \in Inodes
    BY <1>7, <1>o, <1>h DEF InFile, Opened, Closed
  <2>2. h.inode # path[s]
    BY <1>6, <1>7, <2>1
  <2>3. base[s][h.inode] + h.off = at /\ h.partial \in {0, at}
    BY <1>4, <2>2
  <2> DEFINE a == base[s][h.inode] + h.off
             b == top[s][h.inode]
             q == h.partial
  <2>4. a \in Nat /\ q \in Int /\ a < 2 * l /\ (q = 0 \/ (q = a /\ a % 2 = 1))
        /\ (q = 0 => 2 * l # a + 1)
    BY <1>j, <2>1, <2>3
  <2>5. 2 * l <= b /\ b \in 0..2 * MaxLine
    BY <1>7, <2>1, <1>f DEF InFile
  <2>6. old = LinesRead(s, a, b, q)
    BY <2>1, <2>2 DEF old, Drained, Rotated
  <2> HIDE DEF a, b, q
  <2>7. \E i \in 1..Len(LinesRead(s, a, b, q)) : LinesRead(s, a, b, q)[i] = <<s, l>>
    BY <2>4, <2>5, LinesReadAll
  <2> QED BY <2>6, <2>7, <1>3
<1> QED BY <1>6, <1>7

\* Only a poll takes up lines to skip.
LEMMA OnlyReads ==
  ASSUME TypeOK, [Next]_vars, NEW s \in Sources, ~polling[s], polling'[s]
  PROVE  Read(s)
<1>0. polling \in [Sources -> BOOLEAN]
  BY DEF TypeOK, TailerTypeOK
<1>1. ASSUME NEW t \in Sources, Read(t) PROVE t = s
  BY <1>0, <1>1 DEF Read, PollRead
<1>2. ASSUME NEW t \in Sources, Missing(t) \/ Raise(t) \/ Dispatch(t) \/ StopTailer(t)
      PROVE  FALSE
  BY <1>0, <1>2 DEF Missing, PollMissing, Raise, PollRaises, Dispatch, Snapshot, StopTailer,
     CloseTailer
<1>3. CASE Crash \/ Stopped \/ CancelFlush
  BY <1>3 DEF Crash, Stopped, CancelFlush, Exit, LoseTailers
<1>4. \/ UNCHANGED polling \/ Crash \/ Stopped \/ CancelFlush
      \/ \E t \in Sources : Read(t) \/ Missing(t) \/ Raise(t) \/ Dispatch(t) \/ StopTailer(t)
  BY DEF Next, vars, tailerVars, Log, BeginFlush, CommitFlush, FinishFlush, EndFlush, FailFlush,
     Start, Shutdown, StopAggregator, FinalFlush
<1> QED BY <1>1, <1>2, <1>3, <1>4

\* No readable line is skipped, however the log is written and rotated, and
\* wherever polls, crashes and restarts cut a line in two.
THEOREM NothingReadableSkipped == Spec => SkipsOnlyTheUnreadable
<1>1. Init => CountInv /\ CleanInv /\ PartialInv
  BY InitCountInv, InitCleanInv, InitPartialInv
<1>2. CountInv /\ CleanInv /\ PartialInv /\ [Next]_vars => (CountInv /\ CleanInv /\ PartialInv)'
  BY NextCountInv, NextCleanInv, NextPartialInv
<1> DEFINE Skips == \A s \in Sources : ~polling[s] /\ polling'[s] =>
       \A l \in 1..MaxLine : <<s, l>> \in result'[s].skip =>
         \/ ~InFile(s, path[s], l) /\ ~InFile(s, handle[s].inode, l)
         \/ handle[s] = Closed /\ persisted[s] = Closed
         \/ JoinedMidLine(s, l)
         \/ CutUnseen(s)
<1>3. CountInv /\ CleanInv /\ PartialInv /\ [Next]_vars => [Skips]_vars
  <2> SUFFICES ASSUME CountInv, CleanInv, PartialInv, [Next]_vars PROVE Skips
    OBVIOUS
  <2>1. TypeOK /\ AtInv
    BY DEF CountInv, IInv, CleanInv
  <2> QED BY <2>1, OnlyReads, SkipStep
<1> QED BY <1>1, <1>2, <1>3, PTL DEF Spec, SkipsOnlyTheUnreadable
=============================================================================
