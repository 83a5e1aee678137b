---------------------------- MODULE LiveFeedProofs ----------------------------
(***************************************************************************)
(* Proofs about LiveFeed: what is buffered for a connection reaches it or  *)
(* is on its way, in order while no two flushes overlap, and a connection  *)
(* goes silent only after a failed send.  They hold for every number of    *)
(* connections, flush tasks, events and changes of the account, and every  *)
(* size of a batch.                                                        *)
(***************************************************************************)
EXTENDS LiveFeed, FiniteSetTheorems, TLAPS

-----------------------------------------------------------------------------
(* The inductive invariants.                                               *)

\* A connection has used up its ticket, and the feed knows it, if at all, only
\* behind the handshake.  Before that it is owed nothing.
ConnInv ==
  \A c \in Conns :
    /\ socket[c] # "none" => ticket[c].state = "gone"
    /\ socket[c] \in {"none", "accepting"} => ~Registered(c) /\ owed[c] = {}

\* The flag promises a task, and the dead are those with a failed send.
TaskInv ==
  /\ scheduled => \E t \in Tasks : task[t].state = "sleeping"
  /\ \A t \in Tasks : task[t].dead \subseteq failed

\* An event on its way to connection c, or there.
Reaches(e, c) ==
  \/ \E i \in 1..Len(received[c]) : e \in received[c][i]
  \/ WillBeTaken /\ e \in pending
  \/ \E t \in Sending : c \in task[t].rest /\ e \in task[t].batch

\* What a connection is owed is one event, of its scope, that reaches it.
OwedInv ==
  \A c \in Conns : socket[c] = "open" /\ c \notin failed =>
    \A id \in owed[c] :
      \E e \in Event : e.id = id /\ BranchMatches(e.branch, Scope(c)) /\ Reaches(e, c)

FeedInv == TypeOK /\ ConnInv /\ TaskInv /\ OwedInv /\ SilentOnlyAfterFailure

Below(E, F) == \A e \in E, f \in F : e.id < f.id

\* No event is newer than the newest.
NewestInv ==
  /\ \A e \in pending : e.id <= lastEvent
  /\ \A t \in Tasks : \A e \in task[t].batch : e.id <= lastEvent
  /\ \A c \in Conns : \A i \in 1..Len(received[c]) :
       \A e \in received[c][i] : e.id <= lastEvent

\* While no two flushes overlap there is at most one, and what is received, its
\* batch where that is still to be sent, and what is pending follow each other.
OrderInv ==
  ~overlapped =>
    /\ \A t, u \in Sending : t = u
    /\ \A t \in Sending : Below(task[t].batch, pending)
    /\ \A c \in Conns : \A i \in 1..Len(received[c]) :
         /\ Below(received[c][i], pending)
         /\ \A t \in Sending : c \in task[t].rest => Below(received[c][i], task[t].batch)
         /\ \A j \in 1..Len(received[c]) : i < j => Below(received[c][i], received[c][j])

-----------------------------------------------------------------------------
(* Types.                                                                  *)

LEMMA BranchScopes == Unrestricted \in BranchScope
  BY DEF BranchScope

TaskType ==
  [state : {"none", "sleeping", "ready", "sending"},
   batch : SUBSET Event, rest : SUBSET Conns, dead : SUBSET Conns]

LEMMA IdleType == Idle \in TaskType
  BY DEF Idle, TaskType

LEMMA InitTypeOK == Init => TypeOK
<1> SUFFICES ASSUME Init PROVE TypeOK
  OBVIOUS
<1>1. account \in [scope : BranchScope, tv : Nat]
  BY FeedAssumption DEF Init
<1>2. ticket \in [Conns -> [state : {"none", "issued", "gone"}, scope : BranchScope, tv : Nat]]
  BY BranchScopes DEF Init, NoTicket
<1>3. task \in [Tasks -> TaskType]
  BY IdleType DEF Init
<1>4. lastEvent \in 0..MaxEvent
  BY FeedAssumption DEF Init
<1>5. received \in [Conns -> Seq(SUBSET Event)]
  BY DEF Init
<1> QED BY <1>1, <1>2, <1>3, <1>4, <1>5 DEF Init, TypeOK, TaskType

\* Connections keep their types.
LEMMA ConnectionType ==
  ASSUME TypeOK, NEW c \in Conns,
         \/ IssueTicket(c) \/ TicketExpires(c) \/ Handshake(c)
         \/ Register(c) \/ ClientLeaves(c) \/ Reauthorize(c) \/ CheckFails(c) \/ Leave(c)
  PROVE  TypeOK'
<1>2. CASE IssueTicket(c)
  BY <1>2 DEF IssueTicket, TypeOK, batchVars, history
<1>3. CASE TicketExpires(c)
  BY <1>3, BranchScopes DEF TicketExpires, NoTicket, TypeOK, batchVars, history
<1>4. CASE Handshake(c)
  <2>1. /\ ticket' = [ticket EXCEPT ![c].state = "gone"]
        /\ socket' = [socket EXCEPT ![c] = "accepting"]
        /\ UNCHANGED <<account, connections, seat, batchVars, history>>
    BY <1>4 DEF Handshake
  <2>2. ticket' \in [Conns -> [state : {"none", "issued", "gone"}, scope : BranchScope, tv : Nat]]
    <3>1. ticket \in [Conns -> [state : {"none", "issued", "gone"}, scope : BranchScope, tv : Nat]]
      BY DEF TypeOK
    <3>2. [ticket[c] EXCEPT !.state = "gone"]
            \in [state : {"none", "issued", "gone"}, scope : BranchScope, tv : Nat]
      BY <3>1
    <3> DEFINE new == [ticket[c] EXCEPT !.state = "gone"]
    <3>3. ticket' = [ticket EXCEPT ![c] = new]
      BY <2>1, <3>1
    <3> HIDE DEF new
    <3> QED BY <3>1, <3>2, <3>3 DEF new
  <2>3. socket' \in [Conns -> {"none", "accepting", "open", "closed", "ended"}]
    BY <2>1 DEF TypeOK
  <2> QED BY <2>1, <2>2, <2>3 DEF TypeOK, batchVars, history
<1>5. CASE Register(c)
  <2>1. Cardinality({d \in Conns : seat[d] > 0}) \in Nat
    <3>1. IsFiniteSet(Conns)
      BY FeedAssumption, FS_Interval DEF Conns
    <3>2. IsFiniteSet({d \in Conns : seat[d] > 0})
      BY <3>1, FS_Subset
    <3> QED BY <3>2, FS_CardinalityType
  <2> QED BY <1>5, <2>1 DEF Register, TypeOK, batchVars, history
<1>6. CASE ClientLeaves(c) \/ Reauthorize(c)
  <2>1. PICK new \in {"closed", "none"} : socket' = [socket EXCEPT ![c] = new]
    BY <1>6 DEF ClientLeaves, Reauthorize
  <2>2. UNCHANGED <<account, ticket, connections, seat, batchVars, history>>
    BY <1>6 DEF ClientLeaves, Reauthorize
  <2>3. socket' \in [Conns -> {"none", "accepting", "open", "closed", "ended"}]
    BY <2>1 DEF TypeOK
  <2> QED BY <2>2, <2>3 DEF TypeOK, batchVars, history
<1>7. CASE CheckFails(c) \/ Leave(c)
  <2>1. /\ socket' = [socket EXCEPT ![c] = "ended"]
        /\ connections' \in {connections, connections \ {c}}
        /\ received' = [received EXCEPT ![c] = <<>>]
        /\ owed' = [owed EXCEPT ![c] = {}]
        /\ UNCHANGED <<account, ticket, seat, batchVars, failed, overlapped>>
    BY <1>7 DEF CheckFails, Leave
  <2>2. received' \in [Conns -> Seq(SUBSET Event)]
    BY <2>1 DEF TypeOK
  <2>3. connections' \in SUBSET Conns
    BY <2>1 DEF TypeOK
  <2> QED BY <2>1, <2>2, <2>3 DEF TypeOK, batchVars
<1> QED BY <1>2, <1>3, <1>4, <1>5, <1>6, <1>7

\* Scheduling creates at most one task, and the flag is set only with one that
\* sleeps.
LEMMA Scheduled ==
  ASSUME TypeOK, NEW full \in BOOLEAN, Schedule(full)
  PROVE  \/ UNCHANGED <<task, scheduled>> /\ scheduled
         \/ \E t \in Tasks :
              /\ task[t].state = "none"
              /\ \/ task' = [task EXCEPT ![t].state = "ready"] /\ UNCHANGED scheduled
                 \/ task' = [task EXCEPT ![t].state = "sleeping"] /\ scheduled'
<1>1. CASE full
  <2>1. Create("ready") /\ scheduled' = scheduled
    BY <1>1 DEF Schedule
  <2> QED BY <2>1 DEF Create, Free
<1>2. CASE ~full /\ scheduled
  BY <1>2 DEF Schedule
<1>3. CASE ~full /\ ~scheduled
  BY <1>3 DEF Schedule, Create, Free
<1> QED BY <1>1, <1>2, <1>3

LEMMA BroadcastType ==
  ASSUME TypeOK, NEW branch \in Branches, Broadcast(branch)
  PROVE  TypeOK'
<1>1. /\ lastEvent' = lastEvent + 1 /\ lastEvent' \in 0..MaxEvent
      /\ UNCHANGED <<account, connVars, received, failed, overlapped>>
  BY FeedAssumption DEF Broadcast, TypeOK
<1>2. CASE connections = {}
  BY <1>1, <1>2 DEF Broadcast, TypeOK, connVars
<1>3. CASE connections # {}
  <2> DEFINE e == [id |-> lastEvent', branch |-> branch]
             full == Cardinality(pending') >= BatchLimit
  <2>1. /\ pending' = pending \cup {e} /\ Schedule(full)
        /\ owed' = [c \in Conns |->
             owed[c] \cup IF Registered(c) /\ BranchMatches(branch, Scope(c)) THEN {e.id} ELSE {}]
    BY <1>3 DEF Broadcast
  <2>2. lastEvent' \in 1..MaxEvent
    BY <1>1 DEF TypeOK
  <2>3. pending' \in SUBSET Event
    BY <2>1, <2>2 DEF TypeOK, Event
  <2>4. owed' \in [Conns -> SUBSET (1..MaxEvent)]
    BY <2>1, <2>2 DEF TypeOK
  <2>5. task' \in [Tasks -> TaskType] /\ scheduled' \in BOOLEAN
    <3>1. full \in BOOLEAN
      OBVIOUS
    <3> HIDE DEF full
    <3>2. \/ UNCHANGED <<task, scheduled>> /\ scheduled
          \/ \E t \in Tasks :
               \/ task' = [task EXCEPT ![t].state = "ready"] /\ UNCHANGED scheduled
               \/ task' = [task EXCEPT ![t].state = "sleeping"] /\ scheduled'
      BY <2>1, <3>1, Scheduled
    <3>s. scheduled' \in BOOLEAN
      BY <3>2 DEF TypeOK
    <3>3. task \in [Tasks -> TaskType] /\ scheduled \in BOOLEAN
      BY DEF TypeOK, TaskType
    <3> QED BY <3>2, <3>3, <3>s DEF TaskType
  <2> QED BY <1>1, <2>3, <2>4, <2>5 DEF TypeOK, TaskType, connVars
<1> QED BY <1>2, <1>3

LEMMA FlushType ==
  ASSUME TypeOK, NEW t \in Tasks, Flush(t) \/ Send(t) \/ FlushEnds(t)
  PROVE  TypeOK'
<1>1. CASE Flush(t)
  <2>1. task' \in [Tasks -> TaskType]
    <3>1. task \in [Tasks -> TaskType] /\ pending \in SUBSET Event /\ connections \in SUBSET Conns
      BY DEF TypeOK, TaskType
    <3>2. CASE pending = {}
      BY <1>1, <3>1, <3>2, IdleType DEF Flush
    <3>3. CASE pending # {}
      BY <1>1, <3>1, <3>3 DEF Flush, TaskType
    <3> QED BY <3>2, <3>3
  <2> QED BY <1>1, <2>1 DEF Flush, TypeOK, TaskType, connVars
<1>2. CASE Send(t)
  <2>1. PICK c \in Wanting(t) :
          \/ Delivered(t, c) /\ SentTo(t, c, {}) /\ UNCHANGED failed
          \/ /\ Delivered(t, c) \/ UNCHANGED received
             /\ SentTo(t, c, {c})
             /\ failed' = failed \cup {c}
    BY <1>2 DEF Send
  <2>2. c \in Conns /\ Wanting(t) \in SUBSET Conns
    BY DEF Wanting, TypeOK
  <2>3. Slice(task[t].batch, c) \in SUBSET Event
    BY DEF Slice, TypeOK
  <2>4. received' \in [Conns -> Seq(SUBSET Event)]
    <3>1. Append(received[c], Slice(task[t].batch, c)) \in Seq(SUBSET Event)
      BY <2>2, <2>3 DEF TypeOK
    <3> QED BY <2>1, <2>2, <3>1 DEF Delivered, TypeOK
  <2>5. task' \in [Tasks -> TaskType]
    <3>1. task \in [Tasks -> TaskType]
      BY DEF TypeOK, TaskType
    <3>2. \E dead \in SUBSET Conns : task' =
            [task EXCEPT ![t].rest = Wanting(t) \ {c}, ![t].dead = @ \cup dead]
      BY <2>1, <2>2 DEF SentTo
    <3>3. Wanting(t) \ {c} \in SUBSET Conns
      BY <2>2
    <3>4. PICK dead \in SUBSET Conns : task' =
            [task EXCEPT ![t].rest = Wanting(t) \ {c}, ![t].dead = @ \cup dead]
      BY <3>2
    <3> DEFINE rest == Wanting(t) \ {c}
               new == [task[t] EXCEPT !.rest = rest, !.dead = @ \cup dead]
    <3>5. task' = [task EXCEPT ![t] = new]
      BY <3>1, <3>4
    <3>6. rest \in SUBSET Conns
      BY <3>3
    <3> HIDE DEF rest
    <3>7. new \in TaskType
      BY <3>1, <3>6 DEF TaskType
    <3> HIDE DEF new
    <3> QED BY <3>1, <3>5, <3>7
  <2> QED BY <1>2, <2>1, <2>2, <2>4, <2>5 DEF Send, TypeOK, TaskType, connVars
<1>3. CASE FlushEnds(t)
  BY <1>3 DEF FlushEnds, TypeOK, Idle, history
<1> QED BY <1>1, <1>2, <1>3

LEMMA NextTypeOK == TypeOK /\ [Next]_vars => TypeOK'
<1> SUFFICES ASSUME TypeOK, [Next]_vars PROVE TypeOK'
  OBVIOUS
<1>1. CASE Invalidate
  <2>1. account' \in [scope : BranchScope, tv : Nat]
    <3>1. PICK scope \in FeedScopes : account' = [account EXCEPT !.scope = scope, !.tv = @ + 1]
      BY <1>1 DEF Invalidate
    <3>2. scope \in BranchScope /\ account \in [scope : BranchScope, tv : Nat]
      BY FeedAssumption DEF TypeOK
    <3>3. account' = [account EXCEPT !.scope = scope, !.tv = account.tv + 1]
      BY <3>1
    <3>4. account.tv + 1 \in Nat
      BY <3>2
    <3> DEFINE tv == account.tv + 1
    <3> HIDE DEF tv
    <3> QED BY <3>2, <3>3, <3>4 DEF tv
  <2> QED BY <1>1, <2>1 DEF Invalidate, TypeOK, connVars, batchVars, history
<1>2. ASSUME NEW c \in Conns,
             \/ IssueTicket(c) \/ TicketExpires(c) \/ Handshake(c) \/ Register(c)
             \/ ClientLeaves(c) \/ Reauthorize(c) \/ CheckFails(c) \/ Leave(c)
      PROVE  TypeOK'
  BY <1>2, ConnectionType
<1>3. ASSUME NEW branch \in Branches, Broadcast(branch) PROVE TypeOK'
  BY <1>3, BroadcastType
<1>4. ASSUME NEW t \in Tasks, Flush(t) \/ Send(t) \/ FlushEnds(t) PROVE TypeOK'
  BY <1>4, FlushType
<1>5. CASE UNCHANGED vars
  BY <1>5 DEF vars, TypeOK
<1> QED BY <1>1, <1>2, <1>3, <1>4, <1>5 DEF Next

-----------------------------------------------------------------------------
(* Nothing is missed, and nobody dropped who did not fail.                 *)

LEMMA InitFeedInv == Init => FeedInv
<1> SUFFICES ASSUME Init PROVE FeedInv
  OBVIOUS
<1>1. TypeOK
  BY InitTypeOK
<1>2. /\ socket = [c \in Conns |-> "none"] /\ connections = {} /\ scheduled = FALSE
      /\ task = [t \in Tasks |-> Idle] /\ owed = [c \in Conns |-> {}]
  BY DEF Init
<1>3. ConnInv /\ TaskInv /\ OwedInv /\ SilentOnlyAfterFailure
  BY <1>2 DEF ConnInv, TaskInv, OwedInv, SilentOnlyAfterFailure, Registered, Idle
<1> QED BY <1>1, <1>3 DEF FeedInv

\* What happens to connections outside the feed leaves what is owed alone.
LEMMA QuietOwed ==
  ASSUME OwedInv, UNCHANGED <<pending, task, failed>>,
         \A c \in Conns : socket'[c] = "open" =>
           \/ owed'[c] = {}
           \/ /\ socket[c] = "open" /\ Scope(c)' = Scope(c)
              /\ owed'[c] = owed[c] /\ received'[c] = received[c]
  PROVE  OwedInv'
<1> SUFFICES ASSUME NEW c \in Conns, socket'[c] = "open", c \notin failed, NEW id \in owed'[c]
             PROVE  \E e \in Event : e.id = id /\ BranchMatches(e.branch, Scope(c)') /\ Reaches(e, c)'
  BY DEF OwedInv
<1>1. /\ socket[c] = "open" /\ Scope(c)' = Scope(c)
      /\ id \in owed[c] /\ received'[c] = received[c]
  OBVIOUS
<1>2. PICK e \in Event : e.id = id /\ BranchMatches(e.branch, Scope(c)) /\ Reaches(e, c)
  BY <1>1 DEF OwedInv
<1>3. Reaches(e, c)'
  BY <1>1, <1>2 DEF Reaches, WillBeTaken, Sending
<1> QED BY <1>1, <1>2, <1>3

\* Nobody is registered, owed anything or dropped by what happens to a ticket,
\* to a handshake and to the account.
LEMMA ConnectionInvariant ==
  ASSUME FeedInv, NEW c \in Conns,
         \/ IssueTicket(c) \/ TicketExpires(c) \/ Handshake(c) \/ ClientLeaves(c)
         \/ Reauthorize(c) \/ Register(c) \/ CheckFails(c) \/ Leave(c)
  PROVE  FeedInv'
<1>1. TypeOK'
  BY ConnectionType DEF FeedInv
<1>2. /\ ticket \in [Conns -> [state : {"none", "issued", "gone"}, scope : BranchScope, tv : Nat]]
      /\ socket \in [Conns -> {"none", "accepting", "open", "closed", "ended"}]
      /\ received \in [Conns -> Seq(SUBSET Event)]
      /\ owed \in [Conns -> SUBSET (1..MaxEvent)]
  BY DEF FeedInv, TypeOK
<1>3. UNCHANGED <<pending, scheduled, task, failed>>
  BY DEF IssueTicket, TicketExpires, Handshake, ClientLeaves, Reauthorize, Register,
         CheckFails, Leave, batchVars, history
<1>4. TaskInv'
  BY <1>3 DEF FeedInv, TaskInv
<1>5. CASE IssueTicket(c) \/ TicketExpires(c)
  <2>1. /\ UNCHANGED <<socket, connections, received, owed>>
        /\ ticket[c].state # "gone"
        /\ \A d \in Conns \ {c} : ticket'[d] = ticket[d]
    BY <1>2, <1>5 DEF IssueTicket, TicketExpires, history
  <2>2. socket[c] = "none"
    BY <2>1 DEF FeedInv, ConnInv
  <2>3. ConnInv' /\ SilentOnlyAfterFailure'
    BY <1>3, <2>1, <2>2 DEF FeedInv, ConnInv, SilentOnlyAfterFailure, Registered
  <2>4. OwedInv'
    BY <1>3, <2>1, <2>2, QuietOwed DEF FeedInv, Scope
  <2> QED BY <1>1, <1>4, <2>3, <2>4 DEF FeedInv
<1>6. CASE Handshake(c)
  <2>1. /\ UNCHANGED <<connections, received, owed>>
        /\ socket' = [socket EXCEPT ![c] = "accepting"]
        /\ ticket[c].state = "issued"
        /\ ticket'[c].state = "gone"
        /\ \A d \in Conns \ {c} : ticket'[d] = ticket[d]
    BY <1>2, <1>6 DEF Handshake, history
  <2>2. socket[c] = "none"
    BY <2>1 DEF FeedInv, ConnInv
  <2>3. ConnInv' /\ SilentOnlyAfterFailure'
    BY <1>2, <1>3, <2>1, <2>2 DEF FeedInv, ConnInv, SilentOnlyAfterFailure, Registered
  <2>4. OwedInv'
    BY <1>2, <1>3, <2>1, <2>2, QuietOwed DEF FeedInv, Scope
  <2> QED BY <1>1, <1>4, <2>3, <2>4 DEF FeedInv
<1>7. CASE ClientLeaves(c) \/ Reauthorize(c)
  <2>1. /\ UNCHANGED <<ticket, connections, received, owed>>
        /\ \A d \in Conns \ {c} : socket'[d] = socket[d]
        /\ \/ socket'[c] = "closed" /\ socket[c] = "open"
           \/ socket'[c] = "none" /\ socket[c] = "accepting"
    BY <1>2, <1>7 DEF ClientLeaves, Reauthorize, history
  <2>2. ConnInv' /\ SilentOnlyAfterFailure'
    BY <1>3, <2>1 DEF FeedInv, ConnInv, SilentOnlyAfterFailure, Registered
  <2>3. OwedInv'
    BY <1>3, <2>1, QuietOwed DEF FeedInv, Scope
  <2> QED BY <1>1, <1>4, <2>2, <2>3 DEF FeedInv
<1>8. CASE Register(c)
  <2>1. /\ UNCHANGED <<ticket, received, owed>>
        /\ socket' = [socket EXCEPT ![c] = "open"] /\ socket[c] = "accepting"
        /\ connections' = connections \cup {c}
    BY <1>8 DEF Register, history
  <2>2. owed'[c] = {}
    BY <2>1 DEF FeedInv, ConnInv
  <2>3. ConnInv' /\ SilentOnlyAfterFailure'
    BY <1>2, <1>3, <2>1 DEF FeedInv, ConnInv, SilentOnlyAfterFailure, Registered
  <2>4. OwedInv'
    BY <1>2, <1>3, <2>1, <2>2, QuietOwed DEF FeedInv, Scope
  <2> QED BY <1>1, <1>4, <2>3, <2>4 DEF FeedInv
<1>9. CASE CheckFails(c) \/ Leave(c)
  <2>1. /\ UNCHANGED ticket
        /\ socket' = [socket EXCEPT ![c] = "ended"] /\ socket[c] \in {"open", "closed"}
        /\ connections' \in {connections, connections \ {c}}
        /\ received' = [received EXCEPT ![c] = <<>>]
        /\ owed' = [owed EXCEPT ![c] = {}]
    BY <1>9 DEF CheckFails, Leave
  <2>2. ConnInv' /\ SilentOnlyAfterFailure'
    BY <1>2, <1>3, <2>1 DEF FeedInv, ConnInv, SilentOnlyAfterFailure, Registered
  <2>3. OwedInv'
    BY <1>2, <1>3, <2>1, QuietOwed DEF FeedInv, Scope
  <2> QED BY <1>1, <1>4, <2>2, <2>3 DEF FeedInv
<1> QED BY <1>5, <1>6, <1>7, <1>8, <1>9

\* An event is buffered only with a task to take it, and tasks that are sending
\* stay as they are.
LEMMA BroadcastInvariant ==
  ASSUME FeedInv, NEW branch \in Branches, Broadcast(branch)
  PROVE  FeedInv'
<1>1. TypeOK'
  BY BroadcastType DEF FeedInv
<1>2. UNCHANGED <<ticket, socket, connections, received, failed>>
  BY DEF Broadcast, connVars
<1>3. SilentOnlyAfterFailure'
  BY <1>2 DEF FeedInv, SilentOnlyAfterFailure, Registered
<1>4. CASE connections = {}
  <2>1. UNCHANGED <<pending, scheduled, task, owed>>
    BY <1>4 DEF Broadcast
  <2>2. ConnInv' /\ TaskInv'
    BY <1>2, <2>1 DEF FeedInv, ConnInv, TaskInv, Registered
  <2>3. OwedInv'
    BY <1>2, <2>1, QuietOwed DEF FeedInv, Scope
  <2> QED BY <1>1, <1>3, <2>2, <2>3 DEF FeedInv
<1>5. CASE connections # {}
  <2> DEFINE full == Cardinality(pending') >= BatchLimit
  <2>0. PICK e : e = [id |-> lastEvent', branch |-> branch]
    OBVIOUS
  <2>1. /\ pending' = pending \cup {e} /\ Schedule(full)
        /\ owed' = [c \in Conns |->
             owed[c] \cup IF Registered(c) /\ BranchMatches(branch, Scope(c)) THEN {e.id} ELSE {}]
    BY <1>5, <2>0 DEF Broadcast
  <2>2. e \in Event
    <3>1. e \in pending'
      BY <2>1
    <3> QED BY <1>1, <3>1 DEF TypeOK
  <2>3. full \in BOOLEAN
    OBVIOUS
  <2> HIDE DEF full
  <2>4. \/ UNCHANGED <<task, scheduled>> /\ scheduled
        \/ \E t \in Tasks :
             /\ task[t].state = "none"
             /\ \/ task' = [task EXCEPT ![t].state = "ready"] /\ UNCHANGED scheduled
                \/ task' = [task EXCEPT ![t].state = "sleeping"] /\ scheduled'
    BY <2>1, <2>3, Scheduled DEF FeedInv
  <2>5. task \in [Tasks -> TaskType]
    BY DEF FeedInv, TypeOK, TaskType
  <2>6. /\ WillBeTaken'
        /\ \A t \in Sending : t \in Sending' /\ task'[t] = task[t]
        /\ TaskInv'
    <3>1. CASE UNCHANGED <<task, scheduled>> /\ scheduled
      BY <1>2, <3>1 DEF FeedInv, TaskInv, WillBeTaken, Sending
    <3>2. ASSUME NEW t \in Tasks, NEW state \in {"ready", "sleeping"},
                 task[t].state = "none", task' = [task EXCEPT ![t].state = state],
                 scheduled' => scheduled \/ state = "sleeping"
          PROVE  <2>6!1 /\ <2>6!2 /\ <2>6!3
      <4>1. /\ task'[t].state = state /\ task'[t].dead = task[t].dead
            /\ \A u \in Tasks \ {t} : task'[u] = task[u]
        BY <2>5, <3>2 DEF TaskType
      <4>2. TaskInv'
        BY <1>2, <3>2, <4>1 DEF FeedInv, TaskInv
      <4>3. WillBeTaken'
        BY <4>1 DEF WillBeTaken
      <4>4. \A u \in Sending : u \in Sending' /\ task'[u] = task[u]
        BY <3>2, <4>1 DEF Sending
      <4> QED BY <4>2, <4>3, <4>4
    <3> QED BY <2>4, <3>1, <3>2
  <2>7. ConnInv'
    BY <1>2, <2>1 DEF FeedInv, ConnInv, Registered
  <2>8. ASSUME NEW c \in Conns, socket'[c] = "open", c \notin failed', NEW id \in owed'[c]
        PROVE  \E f \in Event :
                 f.id = id /\ BranchMatches(f.branch, Scope(c)') /\ Reaches(f, c)'
    <3>1. socket[c] = "open" /\ c \notin failed /\ Scope(c)' = Scope(c)
      BY <1>2, <2>8 DEF Scope
    <3>2. CASE id \in owed[c]
      <4>1. PICK f \in Event : f.id = id /\ BranchMatches(f.branch, Scope(c)) /\ Reaches(f, c)
        BY <3>1, <3>2 DEF FeedInv, OwedInv
      <4>2. Reaches(f, c)'
        BY <1>2, <2>1, <2>6, <4>1 DEF Reaches
      <4> QED BY <3>1, <4>1, <4>2
    <3>3. CASE id \notin owed[c]
      <4>1. id = e.id /\ BranchMatches(branch, Scope(c))
        BY <2>1, <2>8, <3>3
      <4>b. e.branch = branch
        BY <2>0
      <4>2. Reaches(e, c)'
        BY <2>1, <2>6 DEF Reaches
      <4> QED BY <2>2, <3>1, <4>1, <4>b, <4>2
    <3> QED BY <3>2, <3>3
  <2>9. OwedInv'
    BY <2>8 DEF OwedInv
  <2> QED BY <1>1, <1>3, <2>6, <2>7, <2>9 DEF FeedInv
<1> QED BY <1>4, <1>5

\* A flush hands what is pending to a task that sends it to every connection an
\* open one is among.
LEMMA FlushInvariant ==
  ASSUME FeedInv, NEW t \in Tasks, Flush(t)
  PROVE  FeedInv'
<1>1. TypeOK'
  BY FlushType DEF FeedInv
<1>2. /\ UNCHANGED <<ticket, socket, connections, received, owed, failed>>
      /\ task[t].state \in {"sleeping", "ready"} /\ scheduled' = FALSE /\ pending' = {}
  BY DEF Flush, connVars
<1>3. task \in [Tasks -> TaskType]
  BY DEF FeedInv, TypeOK, TaskType
<1>4. /\ \A u \in Tasks \ {t} : task'[u] = task[u]
      /\ pending = {} => task'[t] = Idle
      /\ pending # {} => /\ task'[t].state = "sending" /\ task'[t].dead = task[t].dead
                         /\ task'[t].batch = pending /\ task'[t].rest = connections
  BY <1>3 DEF Flush, TaskType
<1>5. ConnInv' /\ SilentOnlyAfterFailure'
  BY <1>2 DEF FeedInv, ConnInv, SilentOnlyAfterFailure, Registered
<1>6. TaskInv'
  BY <1>2, <1>4 DEF FeedInv, TaskInv, Idle
<1>7. ASSUME NEW c \in Conns, socket'[c] = "open", c \notin failed', NEW id \in owed'[c]
      PROVE  \E e \in Event : e.id = id /\ BranchMatches(e.branch, Scope(c)') /\ Reaches(e, c)'
  <2>1. socket[c] = "open" /\ c \notin failed /\ Scope(c)' = Scope(c) /\ id \in owed[c]
    BY <1>2, <1>7 DEF Scope
  <2>2. PICK e \in Event : e.id = id /\ BranchMatches(e.branch, Scope(c)) /\ Reaches(e, c)
    BY <2>1 DEF FeedInv, OwedInv
  <2>3. CASE \E i \in 1..Len(received[c]) : e \in received[c][i]
    BY <1>2, <2>1, <2>2, <2>3 DEF Reaches
  <2>4. CASE e \in pending
    <3>1. c \in connections
      BY <2>1 DEF FeedInv, SilentOnlyAfterFailure, Registered
    <3>2. Reaches(e, c)'
      BY <1>4, <2>4, <3>1 DEF Reaches, Sending
    <3> QED BY <2>1, <2>2, <3>2
  <2>5. CASE \E u \in Sending : c \in task[u].rest /\ e \in task[u].batch
    <3>1. Reaches(e, c)'
      BY <1>2, <1>4, <2>5 DEF Reaches, Sending
    <3> QED BY <2>1, <2>2, <3>1
  <2> QED BY <2>2, <2>3, <2>4, <2>5 DEF Reaches
<1>8. OwedInv'
  BY <1>7 DEF OwedInv
<1> QED BY <1>1, <1>5, <1>6, <1>8 DEF FeedInv

\* A send gives one connection all the batch has for it, or it failed; those the
\* batch has nothing for are owed nothing of it.
LEMMA SendInvariant ==
  ASSUME FeedInv, NEW t \in Tasks, Send(t)
  PROVE  FeedInv'
<1>1. TypeOK'
  BY FlushType DEF FeedInv
<1>2. /\ UNCHANGED <<ticket, socket, connections, pending, scheduled, owed>>
      /\ task[t].state = "sending"
  BY DEF Send, connVars
<1>3. task \in [Tasks -> TaskType] /\ received \in [Conns -> Seq(SUBSET Event)]
  BY DEF FeedInv, TypeOK, TaskType
<1>a. PICK c \in Wanting(t) :
        \/ Delivered(t, c) /\ SentTo(t, c, {}) /\ UNCHANGED failed
        \/ /\ Delivered(t, c) \/ UNCHANGED received
           /\ SentTo(t, c, {c})
           /\ failed' = failed \cup {c}
  BY DEF Send
<1>4. PICK dead :
        /\ dead \subseteq {c}
        /\ Delivered(t, c) \/ (dead = {c} /\ UNCHANGED received)
        /\ SentTo(t, c, dead)
        /\ failed' = failed \cup dead
  <2>1. CASE Delivered(t, c) /\ SentTo(t, c, {}) /\ UNCHANGED failed
    <3>1. failed' = failed \cup {} /\ {} \subseteq {c}
      BY <2>1
    <3> QED BY <2>1, <3>1
  <2>2. CASE /\ Delivered(t, c) \/ UNCHANGED received
             /\ SentTo(t, c, {c}) /\ failed' = failed \cup {c}
    <3>1. {c} \subseteq {c}
      OBVIOUS
    <3> QED BY <2>2, <3>1
  <2> QED BY <1>a, <2>1, <2>2, Zenon
<1>5. c \in Conns /\ Wanting(t) \in SUBSET Conns
  BY <1>3 DEF Wanting, TaskType
<1>6. /\ \A u \in Tasks \ {t} : task'[u] = task[u]
      /\ task'[t].state = "sending" /\ task'[t].batch = task[t].batch
      /\ task'[t].rest = Wanting(t) \ {c} /\ task'[t].dead = task[t].dead \cup dead
  BY <1>2, <1>3, <1>4 DEF SentTo, TaskType
<1>7. ASSUME NEW d \in Conns, NEW i \in 1..Len(received[d])
      PROVE  i \in 1..Len(received'[d]) /\ received'[d][i] = received[d][i]
  <2>1. CASE UNCHANGED received
    BY <2>1
  <2>2. CASE Delivered(t, c) /\ d # c
    BY <1>3, <1>5, <2>2 DEF Delivered
  <2>3. CASE Delivered(t, c) /\ d = c
    <3> DEFINE part == Slice(task[t].batch, c)
    <3>1. received'[c] = Append(received[c], part)
      BY <1>3, <1>5, <2>3 DEF Delivered
    <3>2. part \in SUBSET Event
      BY <1>3 DEF Slice, TaskType
    <3> HIDE DEF part
    <3> QED BY <1>3, <1>5, <2>3, <3>1, <3>2
  <2> QED BY <1>4, <2>1, <2>2, <2>3
<1>8. ConnInv' /\ SilentOnlyAfterFailure'
  BY <1>2, <1>4 DEF FeedInv, ConnInv, SilentOnlyAfterFailure, Registered
<1>9. TaskInv'
  BY <1>2, <1>4, <1>6 DEF FeedInv, TaskInv
<1>10. ASSUME NEW d \in Conns, socket'[d] = "open", d \notin failed', NEW id \in owed'[d]
       PROVE  \E e \in Event : e.id = id /\ BranchMatches(e.branch, Scope(d)') /\ Reaches(e, d)'
  <2>1. socket[d] = "open" /\ d \notin failed /\ Scope(d)' = Scope(d) /\ id \in owed[d]
    BY <1>2, <1>4, <1>10 DEF Scope
  <2>2. PICK e \in Event : e.id = id /\ BranchMatches(e.branch, Scope(d)) /\ Reaches(e, d)
    BY <2>1 DEF FeedInv, OwedInv
  <2> SUFFICES Reaches(e, d)'
    BY <2>1, <2>2
  <2>3. CASE \E i \in 1..Len(received[d]) : e \in received[d][i]
    BY <1>7, <2>3 DEF Reaches
  <2>4. CASE WillBeTaken /\ e \in pending
    <3>1. WillBeTaken'
      BY <1>2, <1>6, <2>4 DEF WillBeTaken
    <3> QED BY <1>2, <2>4, <3>1 DEF Reaches
  <2>5. ASSUME NEW u \in Sending, d \in task[u].rest, e \in task[u].batch PROVE Reaches(e, d)'
    <3>1. CASE u # t
      BY <1>6, <2>5, <3>1 DEF Reaches, Sending
    <3>2. CASE u = t
      <4>1. e \in Slice(task[t].batch, d) /\ d \in Wanting(t)
        BY <2>2, <2>5, <3>2 DEF Slice, Wanting
      <4>2. CASE d # c
        BY <1>6, <2>5, <3>2, <4>1, <4>2 DEF Reaches, Sending
      <4>3. CASE d = c
        <5>1. Delivered(t, c)
          BY <1>4, <1>10, <4>3
        <5> DEFINE part == Slice(task[t].batch, c)
        <5>2. received'[c] = Append(received[c], part) /\ e \in part
          BY <1>3, <1>5, <4>1, <4>3, <5>1 DEF Delivered
        <5>3. part \in SUBSET Event
          BY <1>3 DEF Slice, TaskType
        <5> HIDE DEF part
        <5>4. /\ Len(received[c]) + 1 \in 1..Len(received'[c])
              /\ received'[c][Len(received[c]) + 1] = part
          BY <1>3, <1>5, <5>2, <5>3
        <5> QED BY <4>3, <5>2, <5>4 DEF Reaches
      <4> QED BY <4>2, <4>3
    <3> QED BY <3>1, <3>2
  <2> QED BY <2>2, <2>3, <2>4, <2>5 DEF Reaches
<1>11. OwedInv'
  BY <1>10 DEF OwedInv
<1> QED BY <1>1, <1>8, <1>9, <1>11 DEF FeedInv

\* A flush ends when nobody is left that the batch has something for, and drops
\* only connections that failed.
LEMMA FlushEndsInvariant ==
  ASSUME FeedInv, NEW t \in Tasks, FlushEnds(t)
  PROVE  FeedInv'
<1>1. TypeOK'
  BY FlushType DEF FeedInv
<1>2. /\ UNCHANGED <<ticket, socket, pending, scheduled, received, owed, failed>>
      /\ connections' = connections \ task[t].dead
      /\ task[t].state = "sending" /\ Wanting(t) = {}
  BY DEF FlushEnds, history
<1>3. task \in [Tasks -> TaskType] /\ task' = [task EXCEPT ![t] = Idle]
  BY DEF FeedInv, TypeOK, TaskType, FlushEnds
<1>4. /\ \A u \in Tasks \ {t} : task'[u] = task[u]
      /\ task'[t] = Idle
  BY <1>3
<1>5. ConnInv' /\ SilentOnlyAfterFailure'
  BY <1>2 DEF FeedInv, ConnInv, TaskInv, SilentOnlyAfterFailure, Registered
<1>6. TaskInv'
  BY <1>2, <1>4 DEF FeedInv, TaskInv, Idle
<1>7. ASSUME NEW d \in Conns, socket'[d] = "open", d \notin failed', NEW id \in owed'[d]
      PROVE  \E e \in Event : e.id = id /\ BranchMatches(e.branch, Scope(d)') /\ Reaches(e, d)'
  <2>1. socket[d] = "open" /\ d \notin failed /\ Scope(d)' = Scope(d) /\ id \in owed[d]
    BY <1>2, <1>7 DEF Scope
  <2>2. PICK e \in Event : e.id = id /\ BranchMatches(e.branch, Scope(d)) /\ Reaches(e, d)
    BY <2>1 DEF FeedInv, OwedInv
  <2>3. \A u \in Sending : d \in task[u].rest /\ e \in task[u].batch => u # t
    BY <1>2, <2>2 DEF Wanting, Slice
  <2>4. WillBeTaken => WillBeTaken'
    BY <1>2, <1>4 DEF WillBeTaken
  <2>5. Reaches(e, d)'
    BY <1>2, <1>4, <2>2, <2>3, <2>4 DEF Reaches, Sending
  <2> QED BY <2>1, <2>2, <2>5
<1>8. OwedInv'
  BY <1>7 DEF OwedInv
<1> QED BY <1>1, <1>5, <1>6, <1>8 DEF FeedInv

LEMMA NextFeedInv == FeedInv /\ [Next]_vars => FeedInv'
<1> SUFFICES ASSUME FeedInv, [Next]_vars PROVE FeedInv'
  OBVIOUS
<1>1. CASE Invalidate \/ UNCHANGED vars
  <2>1. /\ UNCHANGED <<ticket, socket, connections, pending, scheduled, task>>
        /\ UNCHANGED <<received, owed, failed>>
    BY <1>1 DEF Invalidate, vars, connVars, batchVars, history
  <2>2. TypeOK'
    BY NextTypeOK DEF FeedInv
  <2>3. ConnInv' /\ TaskInv' /\ SilentOnlyAfterFailure'
    BY <2>1 DEF FeedInv, ConnInv, TaskInv, SilentOnlyAfterFailure, Registered
  <2>4. OwedInv'
    BY <2>1, QuietOwed DEF FeedInv, Scope
  <2> QED BY <2>2, <2>3, <2>4 DEF FeedInv
<1>2. ASSUME NEW c \in Conns,
             \/ IssueTicket(c) \/ TicketExpires(c) \/ Handshake(c) \/ Register(c)
             \/ ClientLeaves(c) \/ Reauthorize(c) \/ CheckFails(c) \/ Leave(c)
      PROVE  FeedInv'
  BY <1>2, ConnectionInvariant
<1>3. ASSUME NEW branch \in Branches, Broadcast(branch) PROVE FeedInv'
  BY <1>3, BroadcastInvariant
<1>4. ASSUME NEW t \in Tasks, Flush(t) \/ Send(t) \/ FlushEnds(t) PROVE FeedInv'
  BY <1>4, FlushInvariant, SendInvariant, FlushEndsInvariant
<1> QED BY <1>1, <1>2, <1>3, <1>4 DEF Next

-----------------------------------------------------------------------------
(* In order, while no two flushes overlap.                                 *)

\* The numbers the events carry.
LEMMA EventIds ==
  ASSUME TypeOK
  PROVE  /\ \A e \in pending : e.id \in Nat
         /\ \A t \in Tasks : \A e \in task[t].batch : e.id \in Nat
         /\ \A c \in Conns : \A i \in 1..Len(received[c]) :
              received[c][i] \subseteq Event /\ \A e \in received[c][i] : e.id \in Nat
         /\ lastEvent \in Nat
<1>1. \A e \in Event : e.id \in Nat
  BY DEF Event
<1>2. \A t \in Tasks : task[t].batch \subseteq Event
  BY DEF TypeOK
<1>3. \A c \in Conns : \A i \in 1..Len(received[c]) : received[c][i] \subseteq Event
  <2> TAKE c \in Conns
  <2>1. received[c] \in Seq(SUBSET Event)
    BY DEF TypeOK
  <2> QED BY <2>1
<1> QED BY <1>1, <1>2, <1>3 DEF TypeOK

LEMMA InitOrderInv == Init => NewestInv /\ OrderInv
  BY DEF Init, NewestInv, OrderInv, Below, Sending, Idle

\* Nothing that happens to connections and to the account puts events out of order.
LEMMA QuietOrder ==
  ASSUME NewestInv, OrderInv, UNCHANGED <<pending, task, lastEvent, overlapped>>,
         \A c \in Conns : received'[c] = received[c] \/ received'[c] = <<>>
  PROVE  NewestInv' /\ OrderInv'
<1>1. /\ UNCHANGED Sending
      /\ \A E, F : Below(E, F)' <=> Below(E, F)
  BY DEF Sending, Below
<1>2. NewestInv'
  BY DEF NewestInv
<1>3. ASSUME ~overlapped', NEW c \in Conns, NEW i \in 1..Len(received'[c])
      PROVE  /\ Below(received'[c][i], pending)
             /\ \A t \in Sending : c \in task[t].rest => Below(received'[c][i], task[t].batch)
             /\ \A j \in 1..Len(received'[c]) : i < j => Below(received'[c][i], received'[c][j])
  <2>1. received'[c] = received[c]
    BY <1>3
  <2> QED BY <1>3, <2>1 DEF OrderInv
<1>4. OrderInv'
  BY <1>1, <1>3 DEF OrderInv, Below, Sending
<1> QED BY <1>2, <1>4

\* A new event has a new number.
LEMMA BroadcastOrder ==
  ASSUME FeedInv, NewestInv, OrderInv, NEW branch \in Branches, Broadcast(branch)
  PROVE  NewestInv' /\ OrderInv'
<1>1. /\ lastEvent' = lastEvent + 1
      /\ UNCHANGED <<received, overlapped>>
  BY DEF Broadcast
<1>2. /\ \A e \in pending : e.id \in Nat
      /\ \A t \in Tasks : \A e \in task[t].batch : e.id \in Nat
      /\ \A c \in Conns : \A i \in 1..Len(received[c]) : \A e \in received[c][i] : e.id \in Nat
      /\ lastEvent \in Nat
  BY EventIds DEF FeedInv
<1>3. /\ \A t \in Tasks : task'[t].batch = task[t].batch /\ task'[t].rest = task[t].rest
      /\ Sending' = Sending
  <2>1. CASE connections = {}
    BY <2>1 DEF Broadcast, Sending
  <2>2. CASE connections # {}
    <3> DEFINE full == Cardinality(pending') >= BatchLimit
    <3>1. Schedule(full) /\ full \in BOOLEAN
      BY <2>2 DEF Broadcast
    <3> HIDE DEF full
    <3>2. \/ UNCHANGED <<task, scheduled>>
          \/ \E t \in Tasks, state \in {"ready", "sleeping"} :
               task[t].state = "none" /\ task' = [task EXCEPT ![t].state = state]
      BY <3>1, Scheduled DEF FeedInv
    <3>3. task \in [Tasks -> TaskType]
      BY DEF FeedInv, TypeOK, TaskType
    <3> QED BY <3>2, <3>3 DEF TaskType, Sending
  <2> QED BY <2>1, <2>2
<1>4. \A e \in pending' : e \in pending \/ e.id = lastEvent + 1
  BY <1>1 DEF Broadcast
<1>5. NewestInv'
  BY <1>1, <1>2, <1>3, <1>4 DEF NewestInv
<1>6. ASSUME ~overlapped, NEW t \in Sending PROVE Below(task'[t].batch, pending')
  BY <1>2, <1>3, <1>4, <1>6 DEF NewestInv, OrderInv, Below, Sending
<1>7. ASSUME ~overlapped, NEW c \in Conns, NEW i \in 1..Len(received[c])
      PROVE  Below(received[c][i], pending')
  BY <1>2, <1>4, <1>7 DEF NewestInv, OrderInv, Below
<1>8. OrderInv'
  BY <1>1, <1>3, <1>6, <1>7 DEF OrderInv, Below, Sending
<1> QED BY <1>5, <1>8

\* The batch of a flush is what was pending, behind all that was received.
LEMMA FlushOrder ==
  ASSUME FeedInv, NewestInv, OrderInv, NEW t \in Tasks, Flush(t)
  PROVE  NewestInv' /\ OrderInv'
<1>1. /\ UNCHANGED <<lastEvent, received>> /\ pending' = {}
      /\ task[t].state \in {"sleeping", "ready"}
      /\ overlapped' = (overlapped \/ (pending # {} /\ Sending # {}))
  BY DEF Flush
<1>2. task \in [Tasks -> TaskType]
  BY DEF FeedInv, TypeOK, TaskType
<1>3. /\ \A u \in Tasks \ {t} : task'[u] = task[u]
      /\ pending = {} => task'[t] = Idle
      /\ pending # {} => task'[t].state = "sending" /\ task'[t].batch = pending
  BY <1>2 DEF Flush, TaskType
<1>4. NewestInv'
  BY <1>1, <1>3 DEF NewestInv, Idle
<1>5. CASE pending = {}
  <2>1. Sending' = Sending /\ \A u \in Sending : task'[u] = task[u]
    BY <1>1, <1>3, <1>5 DEF Sending, Idle
  <2>2. OrderInv'
    BY <1>1, <1>5, <2>1 DEF OrderInv, Below, Sending
  <2> QED BY <1>4, <2>2
<1>6. CASE pending # {} /\ ~overlapped'
  <2>1. ~overlapped /\ Sending = {}
    BY <1>1, <1>6
  <2>2. Sending' = {t} /\ task'[t].batch = pending
    BY <1>3, <1>6, <2>1 DEF Sending
  <2>3. \A c \in Conns : \A i \in 1..Len(received[c]) :
          /\ Below(received[c][i], pending)
          /\ \A j \in 1..Len(received[c]) : i < j => Below(received[c][i], received[c][j])
    BY <2>1 DEF OrderInv
  <2>4. OrderInv'
    BY <1>1, <2>2, <2>3 DEF OrderInv, Below
  <2> QED BY <1>4, <2>4
<1>7. CASE overlapped'
  BY <1>4, <1>7 DEF OrderInv
<1> QED BY <1>5, <1>6, <1>7

\* A part of the batch is received once, behind what was.
LEMMA SendOrder ==
  ASSUME FeedInv, NewestInv, OrderInv, NEW t \in Tasks, Send(t)
  PROVE  NewestInv' /\ OrderInv'
<1>1. /\ UNCHANGED <<lastEvent, pending, overlapped>>
      /\ task[t].state = "sending"
  BY DEF Send
<1>2. task \in [Tasks -> TaskType] /\ received \in [Conns -> Seq(SUBSET Event)]
  BY DEF FeedInv, TypeOK, TaskType
<1>3. PICK c \in Wanting(t) :
        /\ Delivered(t, c) \/ UNCHANGED received
        /\ SentTo(t, c, {}) \/ SentTo(t, c, {c})
  BY DEF Send
<1>4. c \in Conns /\ c \in task[t].rest
  BY <1>2, <1>3 DEF Wanting, TaskType
<1>5. /\ \A u \in Tasks : task'[u].state = task[u].state /\ task'[u].batch = task[u].batch
      /\ \A u \in Tasks : task'[u].rest \subseteq task[u].rest
      /\ c \notin task'[t].rest
  <2>1. PICK dead : SentTo(t, c, dead)
    BY <1>3
  <2>2. /\ \A u \in Tasks \ {t} : task'[u] = task[u]
        /\ task'[t].state = task[t].state /\ task'[t].batch = task[t].batch
        /\ task'[t].rest = Wanting(t) \ {c}
    BY <1>2, <2>1 DEF SentTo, TaskType
  <2> QED BY <2>2 DEF Wanting
<1>6. Sending' = Sending /\ t \in Sending
  BY <1>1, <1>5 DEF Sending
<1>7. CASE UNCHANGED received
  BY <1>1, <1>5, <1>6, <1>7 DEF NewestInv, OrderInv, Below, Sending
<1>8. CASE Delivered(t, c)
  <2> DEFINE part == Slice(task[t].batch, c)
             n == Len(received[c])
  <2>1. /\ received'[c] = Append(received[c], part)
        /\ \A d \in Conns \ {c} : received'[d] = received[d]
    BY <1>2, <1>4, <1>8 DEF Delivered
  <2>2. part \subseteq task[t].batch /\ part \in SUBSET Event
    BY <1>2 DEF Slice, TaskType
  <2> HIDE DEF part
  <2>3. /\ n \in Nat /\ Len(received'[c]) = n + 1 /\ received'[c][n + 1] = part
        /\ \A i \in 1..n : received'[c][i] = received[c][i]
    BY <1>2, <1>4, <2>1, <2>2
  <2>4. \A i \in 1..n + 1 : i \in 1..n \/ i = n + 1
    BY <2>3
  <2> HIDE DEF n
  <2>5. NewestInv'
    <3>1. ASSUME NEW d \in Conns, NEW i \in 1..Len(received'[d]), NEW e \in received'[d][i]
          PROVE  e.id <= lastEvent
      <4>1. CASE d # c
        BY <2>1, <3>1, <4>1 DEF NewestInv
      <4>2. CASE d = c /\ i \in 1..n
        BY <2>3, <3>1, <4>2 DEF NewestInv, n
      <4>3. CASE d = c /\ i = n + 1
        BY <2>2, <2>3, <3>1, <4>3 DEF NewestInv
      <4> QED BY <2>3, <2>4, <4>1, <4>2, <4>3
    <3> QED BY <1>1, <1>5, <3>1 DEF NewestInv
  <2>6. ASSUME ~overlapped PROVE OrderInv'
    <3>1. /\ \A u, v \in Sending : u = v
          /\ \A u \in Sending : Below(task[u].batch, pending)
          /\ \A d \in Conns : \A i \in 1..Len(received[d]) :
               /\ Below(received[d][i], pending)
               /\ \A u \in Sending : d \in task[u].rest => Below(received[d][i], task[u].batch)
               /\ \A j \in 1..Len(received[d]) : i < j => Below(received[d][i], received[d][j])
      BY <2>6 DEF OrderInv
    <3>2. Below(part, pending)
      BY <1>6, <2>2, <3>1 DEF Below
    <3>3. \A u \in Sending : c \notin task'[u].rest
      BY <1>5, <1>6, <3>1
    <3>4. \A i \in 1..n : Below(received[c][i], part)
      BY <1>4, <1>6, <2>2, <3>1 DEF Below, n
    <3>5. ASSUME NEW d \in Conns, NEW i \in 1..Len(received'[d])
          PROVE  /\ Below(received'[d][i], pending)
                 /\ \A u \in Sending : d \in task'[u].rest => Below(received'[d][i], task[u].batch)
                 /\ \A j \in 1..Len(received'[d]) : i < j => Below(received'[d][i], received'[d][j])
      <4>1. CASE d # c
        BY <1>5, <2>1, <3>1, <3>5, <4>1 DEF Sending
      <4>2. CASE d = c /\ i \in 1..n
        <5>1. received'[c][i] = received[c][i]
          BY <2>3, <4>2
        <5>2. ASSUME NEW j \in 1..n + 1, i < j PROVE Below(received'[c][i], received'[c][j])
          BY <2>3, <2>4, <3>1, <3>4, <4>2, <5>1, <5>2 DEF n
        <5> QED BY <2>3, <3>1, <3>3, <4>2, <5>1, <5>2 DEF n
      <4>3. CASE d = c /\ i = n + 1
        BY <2>3, <3>2, <3>3, <4>3
      <4> QED BY <2>3, <2>4, <3>5, <4>1, <4>2, <4>3
    <3> QED BY <1>1, <1>5, <1>6, <3>1, <3>5 DEF OrderInv, Below, Sending
  <2> QED BY <1>1, <2>5, <2>6 DEF OrderInv
<1> QED BY <1>3, <1>7, <1>8

\* A flush that ends leaves one fewer.
LEMMA FlushEndsOrder ==
  ASSUME FeedInv, NewestInv, OrderInv, NEW t \in Tasks, FlushEnds(t)
  PROVE  NewestInv' /\ OrderInv'
<1>1. UNCHANGED <<lastEvent, pending, overlapped, received>>
  BY DEF FlushEnds, history
<1>2. /\ \A u \in Tasks \ {t} : task'[u] = task[u]
      /\ task'[t] = Idle
  BY DEF FlushEnds, FeedInv, TypeOK
<1>3. Sending' \subseteq Sending /\ \A u \in Sending' : task'[u] = task[u]
  BY <1>2 DEF Sending, Idle
<1>4. NewestInv'
  BY <1>1, <1>2 DEF NewestInv, Idle
<1>5. OrderInv'
  BY <1>1, <1>3 DEF OrderInv, Below, Sending
<1> QED BY <1>4, <1>5

LEMMA NextOrderInv ==
  FeedInv /\ NewestInv /\ OrderInv /\ [Next]_vars => NewestInv' /\ OrderInv'
<1> SUFFICES ASSUME FeedInv, NewestInv, OrderInv, [Next]_vars PROVE NewestInv' /\ OrderInv'
  OBVIOUS
<1>1. CASE Invalidate \/ UNCHANGED vars
  <2>1. UNCHANGED <<pending, task, lastEvent, overlapped, received>>
    BY <1>1 DEF Invalidate, vars, batchVars, history
  <2> QED BY <2>1, QuietOrder
<1>2. ASSUME NEW c \in Conns,
             \/ IssueTicket(c) \/ TicketExpires(c) \/ Handshake(c) \/ Register(c)
             \/ ClientLeaves(c) \/ Reauthorize(c) \/ CheckFails(c) \/ Leave(c)
      PROVE  NewestInv' /\ OrderInv'
  <2>1. /\ UNCHANGED <<pending, task, lastEvent, overlapped>>
        /\ received' = received \/ received' = [received EXCEPT ![c] = <<>>]
    BY <1>2 DEF IssueTicket, TicketExpires, Handshake, Register, ClientLeaves, Reauthorize,
       CheckFails, Leave, batchVars, history
  <2>2. \A d \in Conns : received'[d] = received[d] \/ received'[d] = <<>>
    BY <2>1 DEF FeedInv, TypeOK
  <2> QED BY <2>1, <2>2, QuietOrder
<1>3. ASSUME NEW branch \in Branches, Broadcast(branch) PROVE NewestInv' /\ OrderInv'
  BY <1>3, BroadcastOrder
<1>4. ASSUME NEW t \in Tasks, Flush(t) \/ Send(t) \/ FlushEnds(t) PROVE NewestInv' /\ OrderInv'
  BY <1>4, FlushOrder, SendOrder, FlushEndsOrder
<1> QED BY <1>1, <1>2, <1>3, <1>4 DEF Next

-----------------------------------------------------------------------------
(* The theorems.                                                           *)

\* The inductive invariant holds throughout.
THEOREM Invariance == Spec => []FeedInv
  BY InitFeedInv, NextFeedInv, PTL DEF Spec

\* Every variable has its type.
THEOREM TypeCorrect == Spec => []TypeOK
<1>1. FeedInv => TypeOK
  BY DEF FeedInv
<1> QED BY <1>1, Invariance, PTL

\* An event buffered for a connection whose scope it lies in reaches it or is on
\* its way, unless a send to it failed, whatever tasks overlap.
THEOREM NoEventMissed == Spec => []NothingMissed
<1>1. FeedInv => NothingMissed
  <2> SUFFICES ASSUME FeedInv, NEW c \in Conns, socket[c] = "open", c \notin failed,
                      NEW id \in owed[c]
               PROVE  \/ \E i \in 1..Len(received[c]) : \E e \in received[c][i] : e.id = id
                      \/ WillBeTaken /\ \E e \in pending : e.id = id
                      \/ \E t \in Sending : /\ c \in task[t].rest
                                            /\ \E e \in task[t].batch : e.id = id
    BY DEF NothingMissed
  <2>1. PICK e \in Event : e.id = id /\ Reaches(e, c)
    BY DEF FeedInv, OwedInv
  <2> QED BY <2>1 DEF Reaches
<1> QED BY <1>1, Invariance, PTL

\* The feed drops an open connection only after a send to it failed.
THEOREM SilenceIsFailure == Spec => []SilentOnlyAfterFailure
<1>1. FeedInv => SilentOnlyAfterFailure
  BY DEF FeedInv
<1> QED BY <1>1, Invariance, PTL

\* A connection receives the events in order and none twice, however many tasks
\* there are, as long as no two were sending at once.
THEOREM ReceivedInOrder == Spec => []InOrderUnlessOverlapped
<1>1. Init => FeedInv /\ NewestInv /\ OrderInv
  BY InitFeedInv, InitOrderInv
<1>2. FeedInv /\ NewestInv /\ OrderInv /\ [Next]_vars => (FeedInv /\ NewestInv /\ OrderInv)'
  BY NextFeedInv, NextOrderInv
<1>3. FeedInv /\ NewestInv /\ OrderInv => InOrderUnlessOverlapped
  BY DEF OrderInv, InOrderUnlessOverlapped, Below
<1> QED BY <1>1, <1>2, <1>3, PTL DEF Spec
=============================================================================
