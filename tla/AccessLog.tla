------------------------------ MODULE AccessLog ------------------------------
(***************************************************************************)
(* The environment of the log tailers: Squid (or rsyslog) writing access   *)
(* logs, and logrotate moving or truncating them.  None of this is code of *)
(* the repository; it is modelled from what log_tailer.py observes of it   *)
(* (os.stat, open, read) and from the two rotation strategies its module   *)
(* docstring names.                                                        *)
(*                                                                         *)
(* The text a source writes is one stream of half-lines.  Line l is the    *)
(* pair of positions 2l-1 (its beginning) and 2l (its end, with the "\n"), *)
(* so a read can stop in the middle of a line.  Every file holds one       *)
(* contiguous piece of that stream, the positions base+1 .. top, and the   *)
(* byte offset o in a file is the stream position base+o.                  *)
(***************************************************************************)
EXTENDS LogLines

CONSTANTS
  MaxInode,     \* Files ever created at one path.  Bounds the model.
  MaxTruncate   \* copytruncate rotations of one path.  Bounds the model.

ASSUME LogBoundsAssumption ==
  /\ MaxInode \in Nat \ {0}
  /\ MaxTruncate \in Nat

VARIABLES
  written,      \* Half-lines written so far, by source.
  base,         \* Stream position at which file i of a source begins.
  top,          \* Stream position at which it ends.
  path,         \* The inode at the configured path, NoFile if there is none.
  writer,       \* The inode the writing process holds open.
  created,      \* Inodes handed out so far, by source.
  truncated     \* Truncations so far, by source.

logVars == <<written, base, top, path, writer, created, truncated>>

NoFile == 0
Inodes == 1..MaxInode

Size(s, i) == top[s][i] - base[s][i]

\* Line l of source s is complete in the log.
Complete(s, l) == 2 * l <= written[s]

\* Line l of source s stands, whole, in file i.
InFile(s, i, l) == i # NoFile /\ base[s][i] < 2 * l - 1 /\ 2 * l <= top[s][i]

LogTypeOK ==
  /\ written \in [Sources -> 0..2 * MaxLine]
  /\ base \in [Sources -> [Inodes -> 0..2 * MaxLine]]
  /\ top \in [Sources -> [Inodes -> 0..2 * MaxLine]]
  /\ path \in [Sources -> Inodes \cup {NoFile}]
  /\ writer \in [Sources -> Inodes]
  /\ created \in [Sources -> Inodes]
  /\ truncated \in [Sources -> 0..MaxTruncate]

LogInit ==
  /\ written = [s \in Sources |-> 0]
  /\ base = [s \in Sources |-> [i \in Inodes |-> 0]]
  /\ top = [s \in Sources |-> [i \in Inodes |-> 0]]
  /\ path = [s \in Sources |-> 1]
  /\ writer = [s \in Sources |-> 1]
  /\ created = [s \in Sources |-> 1]
  /\ truncated = [s \in Sources |-> 0]

-----------------------------------------------------------------------------

\* Squid appends the next half-line to the file it holds open, whatever name
\* that file has by now.
Write(s) ==
  /\ written[s] < 2 * MaxLine
  /\ written' = [written EXCEPT ![s] = @ + 1]
  /\ top' = [top EXCEPT ![s][writer[s]] = written[s] + 1]
  /\ UNCHANGED <<base, path, writer, created, truncated>>

\* "create" rotation, first half: the file is renamed or removed.
Rename(s) ==
  /\ path[s] # NoFile
  /\ created[s] < MaxInode
  /\ path' = [path EXCEPT ![s] = NoFile]
  /\ UNCHANGED <<written, base, top, writer, created, truncated>>

\* An empty file appears at the path, under an inode never used before.
NewFile(s) ==
  /\ created[s] < MaxInode
  /\ LET i == created[s] + 1
     IN  /\ path' = [path EXCEPT ![s] = i]
         /\ created' = [created EXCEPT ![s] = i]
         /\ base' = [base EXCEPT ![s][i] = written[s]]
         /\ top' = [top EXCEPT ![s][i] = written[s]]
  /\ UNCHANGED <<written, writer, truncated>>

\* "create" rotation, second half: the new file, after a while without one.
Create(s) == path[s] = NoFile /\ NewFile(s)

\* The two halves at once, as a tailer that polls every 0.75 s mostly sees them.
Replace(s) == path[s] # NoFile /\ NewFile(s)

\* Squid is told to reopen its log (squid -k rotate) and does so between lines;
\* the new file is still empty, so its content begins here.
Reopen(s) ==
  /\ path[s] \notin {NoFile, writer[s]}
  /\ written[s] % 2 = 0
  /\ writer' = [writer EXCEPT ![s] = path[s]]
  /\ base' = [base EXCEPT ![s][path[s]] = written[s]]
  /\ top' = [top EXCEPT ![s][path[s]] = written[s]]
  /\ UNCHANGED <<written, path, created, truncated>>

\* "copytruncate" rotation: the file keeps its inode and loses its content,
\* possibly in the middle of a line.
Truncate(s) ==
  /\ truncated[s] < MaxTruncate
  /\ path[s] = writer[s]
  /\ Size(s, path[s]) > 0
  /\ base' = [base EXCEPT ![s][path[s]] = written[s]]
  /\ truncated' = [truncated EXCEPT ![s] = @ + 1]
  /\ UNCHANGED <<written, top, path, writer, created>>

LogNext(s) ==
  \/ Write(s)
  \/ Rename(s)
  \/ Create(s)
  \/ Replace(s)
  \/ Reopen(s)
  \/ Truncate(s)
=============================================================================
