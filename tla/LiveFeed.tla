------------------------------- MODULE LiveFeed -------------------------------
(***************************************************************************)
(* The live feed: tickets (core/security.py, WsTicketStore), the           *)
(* connections and their periodic check (api/routes/ws.py), and the        *)
(* batching of events to them (services/ws_manager.py).                    *)
(*                                                                         *)
(* The tasks interleave at every await: a flush waits for each send in     *)
(* turn, so that several flushes may be under way, while clients come and  *)
(* go and the account behind the connections is changed.                   *)
(*                                                                         *)
(* A batch is a list in the order its events were appended, which is that  *)
(* of their ids: it is represented by the set of its events.               *)
(***************************************************************************)
EXTENDS Scopes, Sequences, FiniteSets

CONSTANTS
  FeedScopes,   \* The scopes the account may be given.
  MaxConn,      \* Connections one account opens, each with a ticket of its own.
  MaxTask,      \* Bounds the flush tasks that exist at once.
  BatchLimit,   \* MAX_BATCH_SIZE.
  MaxEvent,     \* Bounds the events of the model.
  MaxChange     \* Bounds the changes to the account.

ASSUME FeedAssumption ==
  /\ FeedScopes \subseteq BranchScope
  /\ BatchLimit \in Nat \ {0}
  /\ MaxConn \in Nat
  /\ MaxTask \in Nat
  /\ MaxEvent \in Nat
  /\ MaxChange \in Nat

VARIABLES
  account,      \* What the feed reads of the user row: scope, token_version.
  ticket,       \* Per connection: its ticket, and the identity it carries.
  socket,       \* Per connection: how far ws_live is with it.
  connections,  \* The keys of _connections.
  seat,         \* Per connection: its place in the dict, 0 before it has one.
  pending,      \* _pending, the events of the next batch.
  scheduled,    \* _flush_scheduled.
  task,         \* The flush tasks.
  lastEvent,    \* The id of the newest event.
  received,     \* History: what reached each connection.
  owed,         \* History: buffered while the connection was registered.
  failed,       \* History: connections with a send that raised.
  overlapped    \* History: two flushes were sending at once.

connVars    == <<ticket, socket, connections, seat>>
batchVars   == <<pending, scheduled, task, lastEvent>>
history     == <<received, owed, failed, overlapped>>
vars        == <<account, ticket, socket, connections, seat, pending, scheduled, task,
                 lastEvent, received, owed, failed, overlapped>>

Conns  == 1..MaxConn
Tasks  == 1..MaxTask
Event  == [id : 1..MaxEvent, branch : Branches]
Idle   == [state |-> "none", batch |-> {}, rest |-> {}, dead |-> {}]
NoTicket == [state |-> "none", scope |-> Unrestricted, tv |-> 0]

Registered(c) == c \in connections
Scope(c)      == ticket[c].scope
Sending       == {t \in Tasks : task[t].state = "sending"}

\* The part of a batch a connection is sent.
Slice(batch, c) == {e \in batch : BranchMatches(e.branch, Scope(c))}

Init ==
  /\ account \in [scope : FeedScopes, tv : {1}]
  /\ ticket = [c \in Conns |-> NoTicket]
  /\ socket = [c \in Conns |-> "none"]
  /\ connections = {}
  /\ seat = [c \in Conns |-> 0]
  /\ pending = {}
  /\ scheduled = FALSE
  /\ task = [t \in Tasks |-> Idle]
  /\ lastEvent = 0
  /\ received = [c \in Conns |-> <<>>]
  /\ owed = [c \in Conns |-> {}]
  /\ failed = {}
  /\ overlapped = FALSE

-----------------------------------------------------------------------------
(* The account, changed by user_service in transactions of its own.        *)

\* Role, branches, permissions, password reset or deactivation: token_version
\* moves. (update_expiry changes nothing the feed reads.)
Invalidate ==
  /\ account.tv <= MaxChange
  /\ \E scope \in FeedScopes :
       account' = [account EXCEPT !.scope = scope, !.tv = @ + 1]
  /\ UNCHANGED <<connVars, batchVars, history>>

-----------------------------------------------------------------------------
(* One connection: ticket, handshake, check, end.                          *)

\* Mutant of IssueTicket: an unrestricted account's ticket names no branch.
IssueTicketUnscoped(c) ==
  /\ ticket[c].state = "none"
  /\ ticket' = [ticket EXCEPT ![c] = [state |-> "issued", tv |-> account.tv,
                                      scope |-> account.scope \cap Branches]]
  /\ UNCHANGED <<account, socket, connections, seat, batchVars, history>>

\* POST /ws-ticket. Connections are numbered in the order of their tickets.
IssueTicket(c) ==
  /\ ticket[c].state = "none"
  /\ \A d \in 1..(c - 1) : ticket[d].state # "none"
  /\ ticket' = [ticket EXCEPT ![c] = [state |-> "issued", scope |-> account.scope,
                                      tv |-> account.tv]]
  /\ UNCHANGED <<account, socket, connections, seat, batchVars, history>>

\* After ttl_seconds the ticket is worth nothing, swept or not; the client
\* may ask for another.
TicketExpires(c) ==
  /\ ticket[c].state = "issued"
  /\ ticket' = [ticket EXCEPT ![c] = NoTicket]
  /\ UNCHANGED <<account, socket, connections, seat, batchVars, history>>

\* consume() pops the ticket; the handshake is then accepted.
Handshake(c) ==
  /\ ticket[c].state = "issued"
  /\ ticket' = [ticket EXCEPT ![c].state = "gone"]
  /\ socket' = [socket EXCEPT ![c] = "accepting"]
  /\ UNCHANGED <<account, connections, seat, batchVars, history>>

\* The second half of connect(): from here on the feed includes it.
Register(c) ==
  /\ socket[c] = "accepting"
  /\ socket' = [socket EXCEPT ![c] = "open"]
  /\ connections' = connections \cup {c}
  /\ seat' = [seat EXCEPT ![c] = Cardinality({d \in Conns : seat[d] > 0}) + 1]
  /\ UNCHANGED <<account, ticket, batchVars, history>>

\* The client goes away; _drain_incoming notices if it runs by then.
ClientLeaves(c) ==
  /\ socket[c] \in {"accepting", "open"}
  /\ socket' = [socket EXCEPT ![c] = IF socket[c] = "open" THEN "closed" ELSE "none"]
  /\ UNCHANGED <<account, ticket, connections, seat, batchVars, history>>

\* Mutant of Revoked: the scope alone is compared.
RevokedByScope(c) == account.scope # Scope(c)

\* What _reauthorize_periodically asks of the user row.
Revoked(c) == account.scope # Scope(c) \/ account.tv # ticket[c].tv

Reauthorize(c) ==
  /\ socket[c] = "open"
  /\ Revoked(c)
  /\ socket' = [socket EXCEPT ![c] = "closed"]
  /\ UNCHANGED <<account, ticket, connections, seat, batchVars, history>>

\* Mutant of Leave: connections are known by their user.
LeaveWithOthers(c) ==
  /\ socket[c] = "closed"
  /\ socket' = [socket EXCEPT ![c] = "ended"]
  /\ connections' = {}
  /\ received' = [received EXCEPT ![c] = <<>>]
  /\ owed' = [owed EXCEPT ![c] = {}]
  /\ UNCHANGED <<account, ticket, seat, batchVars, failed, overlapped>>

\* The finally block of ws_live. Its history is forgotten with it.
Leave(c) ==
  /\ socket[c] = "closed"
  /\ socket' = [socket EXCEPT ![c] = "ended"]
  /\ connections' = connections \ {c}
  /\ received' = [received EXCEPT ![c] = <<>>]
  /\ owed' = [owed EXCEPT ![c] = {}]
  /\ UNCHANGED <<account, ticket, seat, batchVars, failed, overlapped>>

\* The check itself fails, on the database: its exception is raised again in
\* the finally block, before disconnect(), and the feed keeps the connection
\* until a send to it fails.
CheckFails(c) ==
  /\ socket[c] = "open"
  /\ socket' = [socket EXCEPT ![c] = "ended"]
  /\ received' = [received EXCEPT ![c] = <<>>]
  /\ owed' = [owed EXCEPT ![c] = {}]
  /\ UNCHANGED <<account, ticket, connections, seat, batchVars, failed, overlapped>>

-----------------------------------------------------------------------------
(* Batching.                                                                *)

Free == {t \in Tasks : task[t].state = "none"}

Create(state) ==
  \E t \in Free : /\ \A u \in Free : t <= u
                 /\ task' = [task EXCEPT ![t].state = state]

\* A full batch is flushed at once, and again for every event added before
\* that task runs; otherwise one task waits BATCH_WINDOW_SECONDS.
Schedule(full) ==
  \/ full /\ Create("ready") /\ UNCHANGED scheduled
  \/ ~full /\ scheduled /\ UNCHANGED <<task, scheduled>>
  \/ ~full /\ ~scheduled /\ Create("sleeping") /\ scheduled' = TRUE

\* broadcast_nowait: without a connection the event is not buffered.
Broadcast(branch) ==
  /\ lastEvent < MaxEvent
  /\ lastEvent' = lastEvent + 1
  /\ IF connections = {} THEN UNCHANGED <<pending, scheduled, task, owed>>
     ELSE LET e == [id |-> lastEvent', branch |-> branch] IN
          /\ pending' = pending \cup {e}
          /\ Schedule(Cardinality(pending') >= BatchLimit)
          /\ owed' = [c \in Conns |->
               owed[c] \cup IF Registered(c) /\ BranchMatches(branch, Scope(c))
                              THEN {e.id} ELSE {}]
  /\ UNCHANGED <<account, connVars, received, failed, overlapped>>

\* Mutant of Flush: the batch is emptied once it has been sent.
FlushKeepingPending(t) ==
  /\ task[t].state \in {"sleeping", "ready"}
  /\ scheduled' = FALSE
  /\ IF pending = {}
     THEN task' = [task EXCEPT ![t] = Idle]
     ELSE task' = [task EXCEPT ![t].state = "sending", ![t].batch = pending,
                               ![t].rest = connections]
  /\ overlapped' = (overlapped \/ (pending # {} /\ Sending # {}))
  /\ UNCHANGED <<account, connVars, pending, lastEvent, received, owed, failed>>

\* Mutant of Flush: the flag is reset by no one.
FlushKeepingFlag(t) ==
  /\ task[t].state \in {"sleeping", "ready"}
  /\ pending' = {}
  /\ IF pending = {}
     THEN task' = [task EXCEPT ![t] = Idle]
     ELSE task' = [task EXCEPT ![t].state = "sending", ![t].batch = pending,
                               ![t].rest = connections]
  /\ overlapped' = (overlapped \/ (pending # {} /\ Sending # {}))
  /\ UNCHANGED <<account, connVars, scheduled, lastEvent, received, owed, failed>>

\* _flush_pending up to its first await: take the batch, and the list of
\* connections it will go through.
Flush(t) ==
  /\ task[t].state \in {"sleeping", "ready"}
  /\ scheduled' = FALSE
  /\ pending' = {}
  /\ IF pending = {}
     THEN task' = [task EXCEPT ![t] = Idle]
     ELSE task' = [task EXCEPT ![t].state = "sending", ![t].batch = pending,
                               ![t].rest = connections]
  /\ overlapped' = (overlapped \/ (pending # {} /\ Sending # {}))
  /\ UNCHANGED <<account, connVars, lastEvent, received, owed, failed>>

\* Connections left to send to, without those the batch has nothing for.
Wanting(t) == {c \in task[t].rest : Slice(task[t].batch, c) # {}}

Delivered(t, c) ==
  /\ socket[c] = "open"
  /\ received' = [received EXCEPT ![c] = Append(@, Slice(task[t].batch, c))]

SentTo(t, c, dead) ==
  task' = [task EXCEPT ![t].rest = Wanting(t) \ {c}, ![t].dead = @ \cup dead]

\* One send_json, to the next in the order of the dict: it returns, it raises, or
\* it is cut off after SEND_TIMEOUT_SECONDS with the message gone out or not.
Send(t) ==
  /\ task[t].state = "sending"
  /\ \E c \in Wanting(t) :
       /\ \A d \in Wanting(t) : seat[c] <= seat[d]
       /\ \/ Delivered(t, c) /\ SentTo(t, c, {}) /\ UNCHANGED failed
          \/ /\ Delivered(t, c) \/ UNCHANGED received
             /\ SentTo(t, c, {c})
             /\ failed' = failed \cup {c}
  /\ UNCHANGED <<account, connVars, pending, scheduled, lastEvent, owed, overlapped>>

\* Mutant of FlushEnds: the buffer is emptied after the sends.
FlushEndsClearing(t) ==
  /\ task[t].state = "sending"
  /\ Wanting(t) = {}
  /\ connections' = connections \ task[t].dead
  /\ task' = [task EXCEPT ![t] = Idle]
  /\ pending' = {}
  /\ UNCHANGED <<account, ticket, socket, seat, scheduled, lastEvent, history>>

\* The dead connections are dropped after the loop. Their sockets are left
\* to ws_live, which is told nothing.
FlushEnds(t) ==
  /\ task[t].state = "sending"
  /\ Wanting(t) = {}
  /\ connections' = connections \ task[t].dead
  /\ task' = [task EXCEPT ![t] = Idle]
  /\ UNCHANGED <<account, ticket, socket, seat, pending, scheduled, lastEvent, history>>

-----------------------------------------------------------------------------

Next ==
  \/ Invalidate
  \/ \E c \in Conns :
       \/ IssueTicket(c) \/ TicketExpires(c) \/ Handshake(c) \/ Register(c)
       \/ ClientLeaves(c) \/ Reauthorize(c) \/ CheckFails(c) \/ Leave(c)
  \/ \E branch \in Branches : Broadcast(branch)
  \/ \E t \in Tasks : Flush(t) \/ Send(t) \/ FlushEnds(t)

Spec == Init /\ [][Next]_vars

\* The check of an open connection runs every REAUTH_INTERVAL_SECONDS.
\* Clients, flushes and the account owe nothing.
FairSpec == Spec /\ \A c \in Conns : WF_vars(Reauthorize(c))

-----------------------------------------------------------------------------
(* Properties.                                                              *)

TypeOK ==
  /\ account \in [scope : BranchScope, tv : Nat]
  /\ ticket \in [Conns -> [state : {"none", "issued", "gone"}, scope : BranchScope,
                           tv : Nat]]
  /\ socket \in [Conns -> {"none", "accepting", "open", "closed", "ended"}]
  /\ connections \in SUBSET Conns
  /\ seat \in [Conns -> Nat]
  /\ pending \in SUBSET Event
  /\ scheduled \in BOOLEAN
  /\ task \in [Tasks -> [state : {"none", "sleeping", "ready", "sending"},
                         batch : SUBSET Event, rest : SUBSET Conns, dead : SUBSET Conns]]
  /\ lastEvent \in 0..MaxEvent
  /\ received \in [Conns -> Seq(SUBSET Event)]
  /\ owed \in [Conns -> SUBSET (1..MaxEvent)]
  /\ failed \subseteq Conns
  /\ overlapped \in BOOLEAN

\* A task exists that will take what is buffered.
WillBeTaken == \E t \in Tasks : task[t].state \in {"sleeping", "ready"}

\* An event buffered while a connection was registered and in whose scope it
\* lies is received by it, or waits for a flush that will come, or is still to
\* be sent to it, unless the connection ended or had a send that failed
\* (ws_manager.broadcast_nowait, _flush_pending resetting flag and batch).
NothingMissed ==
  \A c \in Conns : socket[c] = "open" /\ c \notin failed =>
    \A id \in owed[c] :
      \/ \E i \in 1..Len(received[c]) : \E e \in received[c][i] : e.id = id
      \/ WillBeTaken /\ \E e \in pending : e.id = id
      \/ \E t \in Sending : /\ c \in task[t].rest
                            /\ \E e \in task[t].batch : e.id = id

\* A connection receives the batches in the order of their ids, no event in two, as
\* long as no two flushes were sending at the same time: the code orders
\* nothing between tasks (ws_manager._flush_pending).
InOrderUnlessOverlapped ==
  overlapped \/ \A c \in Conns : \A i, j \in 1..Len(received[c]) : i < j =>
                  \A e \in received[c][i], f \in received[c][j] : e.id < f.id

\* A client whose socket is open and that the feed has dropped had a send that
\* failed: nothing else makes an open connection go silent (ws.ws_live,
\* ws_manager.disconnect).
SilentOnlyAfterFailure ==
  \A c \in Conns : socket[c] = "open" /\ ~Registered(c) => c \in failed

\* A connection whose account was invalidated, or moved to other branches, is
\* closed in the end (ws._reauthorize_periodically).
InvalidatedIsClosed ==
  \A c \in Conns :
    (socket[c] = "open" /\ account.tv # ticket[c].tv) ~> (socket[c] # "open")
=============================================================================
