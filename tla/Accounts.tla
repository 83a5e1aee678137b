------------------------------- MODULE Accounts -------------------------------
(***************************************************************************)
(* The accounts and who may change them (app/services/user_service.py,     *)
(* api/routes/users.py, api/deps.py), and the hash chain of the audit log  *)
(* that every change is written to (services/audit_service.py).            *)
(*                                                                         *)
(* Requests run side by side, each in one transaction: it loads the actor  *)
(* and the target and checks them, flushes its change (here it waits for   *)
(* the row), stamps its audit entry, links it to the latest one, commits.  *)
(* An UPDATE writes the columns that differ from what was loaded.          *)
(***************************************************************************)
EXTENDS Scopes, FiniteSets

CONSTANTS
  Slots,        \* Requests that can be under way at once.
  MaxRequest,   \* Bounds the requests of the model.
  Users,        \* Every account that exists or may be created.
  FirstRows,    \* The accounts the model starts with, and the absent ones.
  Asked,        \* Branch restrictions that are asked for (Unrestricted: none).
  Grants        \* Permission sets that are asked for (RoleDefault: none).

VARIABLES
  users,      \* The users rows, as committed.
  audit,      \* The audit_log rows, as committed.
  clock,      \* Time, as entries are stamped with it.
  req,        \* The requests under way.
  served,     \* Requests begun.
  raced       \* History: what overlapping requests have put at risk.

vars == <<users, audit, clock, req, served, raced>>

Ends   == {"never", "later", "past"}
Row    == [role : Roles \cup {"absent"}, scope : BranchScope, perms : Stored, ends : Ends,
           active : BOOLEAN, tv : Nat, must : BOOLEAN]
Absent == [role |-> "absent", scope |-> Unrestricted, perms |-> RoleDefault,
           ends |-> "never", active |-> FALSE, tv |-> 0, must |-> FALSE]

\* A super administrator has no restriction, no end date, every permission.
Unlimited(row) == [row EXCEPT !.scope = Unrestricted, !.perms = RoleDefault, !.ends = "never"]

ASSUME AccountsAssumption ==
  /\ Slots \subseteq Nat /\ MaxRequest \in Nat
  /\ Users \subseteq Nat \ {0}
  /\ FirstRows \in [Users -> Row]
  /\ Asked \subseteq BranchScope /\ Grants \subseteq Stored

\* There is a super administrator, as the first start creates one.
ASSUME Bootstrapped ==
  /\ \E u \in Users : FirstRows[u].role = "superadmin" /\ FirstRows[u].active
  /\ \A u \in Users : FirstRows[u].role = "superadmin" => FirstRows[u] = Unlimited(FirstRows[u])
  /\ \A u \in Users : FirstRows[u].role = "absent" => FirstRows[u] = Absent

\* An audit entry: its time (which stands for its hash), the hash it is linked
\* to, and whose view it records if it records one.
Entry == [at : Nat, prev : Nat, viewer : Users \cup {0}]

NoReq == [op |-> "none", pc |-> "none", me |-> Absent, target |-> 0, seen |-> Absent,
          want |-> Absent, at |-> 0, prev |-> 0]
Request == [op : {"none", "change", "create", "view"},
            pc : {"none", "flush", "link", "commit"}, me : Row, target : Users \cup {0},
            seen : Row, want : Row, at : Nat, prev : Nat]

Init ==
  /\ users = FirstRows
  /\ audit = {}
  /\ clock = 0
  /\ req = [r \in Slots |-> NoReq]
  /\ served = 0
  /\ raced = [superadmins |-> FALSE, chain |-> FALSE, rows |-> {}]

-----------------------------------------------------------------------------
(* Who may do what.                                                         *)

\* get_current_user, for an actor with a live session.
Admitted(row) == row.active /\ row.ends # "past" /\ ~row.must

Superadmin(row) == row.role = "superadmin"
Administers(row) == Admitted(row) /\ row.role \in {"superadmin", "admin"}

\* _require_manageable.
Manageable(row, me) ==
  /\ row.role # "absent"
  /\ ScopeWithin(row.scope, me.scope)
  /\ Superadmin(me) \/ row.role = "viewer"

Holds(row) == Effective(row.role, row.perms)

\* Mutant of Grantable: an administrator may grant anything.
GrantableAny(perms, role, me) == TRUE

\* _check_grantable.
Grantable(perms, role, me) == Effective(role, perms) \subseteq Holds(me)

\* _keep_a_superadmin: what it counts.
OtherSuperadmins(u) == {v \in Users \ {u} : Superadmin(users[v]) /\ users[v].active}

KeepsASuperadmin(u) ==
  Superadmin(users[u]) /\ users[u].active => OtherSuperadmins(u) # {}

-----------------------------------------------------------------------------
(* A request loads and checks.                                              *)

\* An account is given a role below super administrator (which takes the role of
\* super administrator from one who is promoted meanwhile), or is taken out of use.
Demotes(old, new) ==
  \/ old.role # "absent" /\ new.role \notin {old.role, "superadmin"}
  \/ old.active /\ ~new.active

\* What the requests under way make of another one: two of them take something
\* away, or both change one account.
Risks(r, u, old, new) ==
  LET others == {o \in Slots \ {r} : req[o].op # "none"} IN
  [raced EXCEPT
     !.superadmins = @ \/ (Demotes(old, new) /\ \E o \in others : Demotes(req[o].seen, req[o].want)),
     !.rows = @ \cup {x \in {u} : \E o \in others : req[o].target = u}]

\* The next request goes to the first free slot.
Free(r) ==
  /\ served < MaxRequest
  /\ req[r].op = "none" /\ \A o \in Slots : o < r => req[o].op # "none"

Begin(r, op, actor, u, row) ==
  /\ Free(r)
  /\ served' = served + 1
  /\ req' = [req EXCEPT ![r] = [NoReq EXCEPT !.op = op, !.pc = "flush", !.target = u,
               !.me = users[actor], !.seen = users[u], !.want = row]]
  /\ raced' = Risks(r, u, users[u], row)
  /\ UNCHANGED <<users, audit, clock>>

Change(r, actor, u, row) == row # users[u] /\ Begin(r, "change", actor, u, row)

\* Mutant of Promoted: the role alone is changed.
PromotedBare(row, role) == [row EXCEPT !.role = role, !.tv = @ + 1]

Promoted(row, role) ==
  LET new == [row EXCEPT !.role = role, !.tv = @ + 1] IN
  IF role = "superadmin" THEN Unlimited(new) ELSE new

UpdateRole(r, actor, u, role) ==
  /\ Administers(users[actor]) /\ Superadmin(users[actor])
  /\ u # actor /\ users[u].role \notin {"absent", role}
  /\ role # "superadmin" => KeepsASuperadmin(u)
  /\ Change(r, actor, u, Promoted(users[u], role))

\* The operations on the accounts an actor manages, other than his own.
Manages(actor, u) ==
  /\ Administers(users[actor])
  /\ Manageable(users[u], users[actor])
  /\ u # actor

\* Mutant of UpdateBranches: the refusal is taken for a scope.
UpdateBranchesUnchecked(r, actor, u, asked) ==
  /\ Manages(actor, u) /\ ~Superadmin(users[u])
  /\ Change(r, actor, u, [users[u] EXCEPT
       !.scope = EnforceActorBranches(asked, users[actor].scope), !.tv = @ + 1])

UpdateBranches(r, actor, u, asked) ==
  /\ Manages(actor, u) /\ ~Superadmin(users[u])
  /\ LET scope == EnforceActorBranches(asked, users[actor].scope) IN
       /\ scope \notin {Refused, users[u].scope}
       /\ Change(r, actor, u, [users[u] EXCEPT !.scope = scope, !.tv = @ + 1])

UpdatePermissions(r, actor, u, perms) ==
  /\ Manages(actor, u) /\ ~Superadmin(users[u])
  /\ Grantable(perms, users[u].role, users[actor])
  /\ perms # users[u].perms
  /\ Change(r, actor, u, [users[u] EXCEPT !.perms = perms, !.tv = @ + 1])

UpdateExpiry(r, actor, u, ends) ==
  /\ Manages(actor, u)
  /\ Superadmin(users[u]) => ends = "never"
  /\ Change(r, actor, u, [users[u] EXCEPT !.ends = ends])

ResetPassword(r, actor, u) ==
  /\ Manages(actor, u)
  /\ Change(r, actor, u, [users[u] EXCEPT !.must = TRUE, !.tv = @ + 1])

\* Mutant of SetActive: it is open to oneself like record_unlock, and only
\* an activation is checked.
SetActiveSwapped(r, actor, u, active) ==
  /\ Administers(users[actor]) /\ Manageable(users[u], users[actor])
  /\ active => KeepsASuperadmin(u)
  /\ Change(r, actor, u, [users[u] EXCEPT !.active = active])

SetActive(r, actor, u, active) ==
  /\ Manages(actor, u)
  /\ ~active => KeepsASuperadmin(u)
  /\ users[u].active # active
  /\ Change(r, actor, u, [users[u] EXCEPT !.active = active,
                                          !.tv = IF active THEN @ ELSE @ + 1])

\* update_profile, record_unlock, revoke_sessions and reset_totp change nothing
\* of the row that is modelled here; the first three one may do to oneself.
Annotate(r, actor, u) ==
  /\ Administers(users[actor])
  /\ Manageable(users[u], users[actor])
  /\ Begin(r, "change", actor, u, users[u])

\* With a temporary password, too (get_current_user_pending_ok).
ChangeOwnPassword(r, actor) ==
  /\ users[actor].active /\ users[actor].ends # "past"
  /\ Begin(r, "change", actor, actor, [users[actor] EXCEPT !.must = FALSE])

CreateUser(r, actor, u, role, asked, perms) ==
  /\ Administers(users[actor])
  /\ users[u].role = "absent"
  /\ Superadmin(users[actor]) \/ role = "viewer"
  /\ LET scope == EnforceActorBranches(asked, users[actor].scope)
         row   == [Absent EXCEPT !.role = role, !.active = TRUE, !.tv = 1, !.must = TRUE]
     IN IF role = "superadmin"
        THEN asked = Unrestricted /\ Begin(r, "create", actor, u, row)
        ELSE /\ scope # Refused
             /\ Grantable(perms, role, users[actor])
             /\ Begin(r, "create", actor, u, [row EXCEPT !.scope = scope, !.perms = perms])

\* record_read_access: an identical view within the window is not logged again
\* (the model is shorter than the window).
View(r, actor) ==
  /\ Admitted(users[actor])
  /\ ~\E e \in audit : e.viewer = actor
  /\ Begin(r, "view", actor, actor, users[actor])

-----------------------------------------------------------------------------
(* A request writes.                                                        *)

RowHeld(r) == \E o \in Slots \ {r} : /\ req[o].pc \in {"link", "commit"}
                                     /\ req[o].target = req[r].target
                                     /\ req[o].want # req[o].seen

Writing == {o \in Slots : req[o].pc \in {"link", "commit"}}

\* Autoflush in audit_service.record, which then stamps the entry. Creating a
\* name that is taken by now is refused by the database.
Flush(r) ==
  /\ req[r].pc = "flush"
  /\ req[r].want = req[r].seen \/ ~RowHeld(r)
  /\ IF req[r].op = "create" /\ users[req[r].target].role # "absent"
     THEN req' = [req EXCEPT ![r] = NoReq] /\ UNCHANGED <<clock, raced>>
     ELSE /\ clock' = clock + 1
          /\ req' = [req EXCEPT ![r].pc = "link", ![r].at = clock']
          /\ raced' = [raced EXCEPT !.chain = @ \/ Writing # {}]
  /\ UNCHANGED <<users, audit, served>>

\* Mutant of LatestEntry: views are left out of the chain.
LatestEntryOfChanges ==
  LET changes == {e \in audit : e.viewer = 0} IN
  IF changes = {} THEN {0}
  ELSE {e.at : e \in {f \in changes : \A g \in changes : g.at <= f.at}}

\* _latest_entry_hash, as the set of what it may return.
LatestEntry ==
  IF audit = {} THEN {0} ELSE {e.at : e \in {f \in audit : \A g \in audit : g.at <= f.at}}

Link(r) ==
  /\ req[r].pc = "link"
  /\ \E prev \in LatestEntry : req' = [req EXCEPT ![r].pc = "commit", ![r].prev = prev]
  /\ UNCHANGED <<users, audit, clock, served, raced>>

Written(q) == [c \in DOMAIN q.seen |-> IF q.want[c] # q.seen[c] THEN q.want[c]
                                       ELSE users[q.target][c]]

Commit(r) ==
  /\ req[r].pc = "commit"
  /\ users' = [users EXCEPT ![req[r].target] = Written(req[r])]
  /\ audit' = audit \cup {[at |-> req[r].at, prev |-> req[r].prev,
                           viewer |-> IF req[r].op = "view" THEN req[r].target ELSE 0]}
  /\ req' = [req EXCEPT ![r] = NoReq]
  /\ UNCHANGED <<clock, served, raced>>

-----------------------------------------------------------------------------

Next ==
  \E r \in Slots :
    \/ /\ Free(r)
       /\ \E a, u \in Users :
         \/ \E role \in Roles : UpdateRole(r, a, u, role)
         \/ \E asked \in Asked : UpdateBranches(r, a, u, asked)
         \/ \E perms \in Grants : UpdatePermissions(r, a, u, perms)
         \/ \E ends \in Ends : UpdateExpiry(r, a, u, ends)
         \/ ResetPassword(r, a, u)
         \/ \E active \in BOOLEAN : SetActive(r, a, u, active)
         \/ Annotate(r, a, u)
         \/ \E role \in Roles, asked \in Asked, perms \in Grants :
              CreateUser(r, a, u, role, asked, perms)
    \/ \E a \in Users : ChangeOwnPassword(r, a) \/ View(r, a)
    \/ Flush(r) \/ Link(r) \/ Commit(r)

Spec == Init /\ [][Next]_vars

-----------------------------------------------------------------------------
(* Properties.                                                              *)

TypeOK ==
  /\ users \in [Users -> Row]
  /\ audit \subseteq Entry
  /\ clock \in Nat
  /\ req \in [Slots -> Request]
  /\ served \in 0..MaxRequest
  /\ raced \in [superadmins : BOOLEAN, chain : BOOLEAN, rows : SUBSET Users]

\* An active super administrator remains, unless two requests that lower a role
\* or deactivate someone were under way together: each then counts before the
\* other commits, or lowers one who was no super administrator when it looked
\* (user_service._keep_a_superadmin).
SuperadminRemains ==
  raced.superadmins \/ \E u \in Users : Superadmin(users[u]) /\ users[u].active

\* A super administrator is unrestricted, without an end date and with every
\* permission, unless the account was changed by two requests at once
\* (user_service.update_role, update_branches, update_expiry).
SuperadminUnlimited ==
  \A u \in Users \ raced.rows : Superadmin(users[u]) => users[u] = Unlimited(users[u])

\* What an administrator who is not a super administrator changes is a viewer's
\* account and stays one, and gains no permission and no branch beyond his own
\* (unless another request changes it meanwhile): user_service's checks together.
WithinReach(q) ==
  LET old == users[q.target]
      new == Written(q)
  IN q.me # Absent /\ ~Superadmin(q.me) /\ q.target \notin raced.rows /\ new # old =>
       \/ new = [old EXCEPT !.must = FALSE]
       \/ /\ {old.role, new.role} \subseteq {"viewer", "absent"}
          /\ Holds(new) \subseteq Holds(old) \cup Holds(q.me)
          /\ ScopeWithin(new.scope, q.me.scope)

NoEscalation == \A r \in Slots : req[r].pc = "commit" => WithinReach(req[r])

\* verify_chain finds every entry linked to the one before it, unless two
\* entries were being written at once (audit_service._latest_entry_hash).
ChainHolds ==
  raced.chain \/
  \A e \in audit : LET earlier == {f \in audit : f.at < e.at} IN
    IF earlier = {} THEN e.prev = 0
    ELSE \E f \in earlier : e.prev = f.at /\ \A g \in earlier : g.at <= f.at
=============================================================================
