--------------------------- MODULE AccountsProofs ---------------------------
(* Theorems about Accounts, for any number of requests and accounts.        *)
EXTENDS Accounts, TLAPS

-----------------------------------------------------------------------------
(* The operations, as what every request begins with.                       *)

\* How far an actor who is not a super administrator changes an account.
Reaches(me, old, new) ==
  ~Superadmin(me) /\ new # old =>
    \/ new = [old EXCEPT !.must = FALSE]
    \/ /\ {old.role, new.role} \subseteq {"viewer", "absent"}
       /\ Holds(new) \subseteq Holds(old) \cup Holds(me)
       /\ ScopeWithin(new.scope, me.scope)

Sound(op, a, u, row) ==
  /\ row \in Row /\ row.role # "absent"
  /\ users[u].role = "absent" <=> op = "create"
  /\ Demotes(users[u], row) => KeepsASuperadmin(u)
  /\ (Superadmin(users[u]) => users[u] = Unlimited(users[u]))
       => (Superadmin(row) => row = Unlimited(row))
  /\ Reaches(users[a], users[u], row)

Begun(r) ==
  \E op \in {"change", "create", "view"}, a, u \in Users, row \in Row :
    Begin(r, op, a, u, row) /\ Sound(op, a, u, row)

RowsOK ==
  /\ users \in [Users -> Row]
  /\ \A u \in Users : users[u].role = "absent" => users[u] = Absent

LEMMA Defaults ==
  /\ Unrestricted \in BranchScope
  /\ RoleDefault \in Stored
BY DEF BranchScope, Stored

LEMMA AbsentRow == Absent \in Row
BY Defaults DEF Absent, Row, Ends

LEMMA NoReqType == NoReq \in Request
BY AbsentRow DEF NoReq, Request

LEMMA Within ==
  ASSUME NEW asked \in BranchScope, NEW own \in BranchScope,
         EnforceActorBranches(asked, own) # Refused
  PROVE  /\ EnforceActorBranches(asked, own) \in BranchScope
         /\ ScopeWithin(EnforceActorBranches(asked, own), own)
BY DEF EnforceActorBranches, ResolveBranch, ScopeWithin, Refused

LEMMA NotAbsent ==
  ASSUME RowsOK, NEW u \in Users, users[u].active
  PROVE  users[u].role # "absent"
BY DEF RowsOK, Absent

LEMMA NextVersion ==
  ASSUME RowsOK, NEW u \in Users
  PROVE  users[u] \in Row /\ users[u].tv + 1 \in Nat
BY DEF RowsOK, Row

LEMMA UpdateRoleBegins ==
  ASSUME RowsOK, NEW r \in Slots, NEW a \in Users, NEW u \in Users, NEW role \in Roles,
         UpdateRole(r, a, u, role)
  PROVE  Begun(r)
<1> DEFINE row == Promoted(users[u], role)
<1>1. row \in Row /\ row.role = role
  BY Defaults, NextVersion DEF Promoted, Unlimited, Row, Ends
<1>2. role # "absent"
  BY DEF Roles
<1>3. Demotes(users[u], row) => KeepsASuperadmin(u)
  BY <1>1 DEF UpdateRole, Demotes, Promoted, Unlimited, RowsOK, Row
<1>4. Superadmin(row) => row = Unlimited(row)
  BY <1>1 DEF Superadmin, Promoted, Unlimited, RowsOK, Row
<1>5. Superadmin(users[a])
  BY DEF UpdateRole
<1>6. Sound("change", a, u, row)
  BY <1>1, <1>2, <1>3, <1>4, <1>5 DEF Sound, Reaches, UpdateRole
<1> QED BY <1>1, <1>6 DEF Begun, UpdateRole, Change

\* What an actor manages is his to change, when it stays an account of its kind.
LEMMA ManagedBegins ==
  ASSUME RowsOK, NEW r \in Slots, NEW a \in Users, NEW u \in Users,
         Manageable(users[u], users[a]),
         NEW row \in Row, row.role = users[u].role, row.scope = users[u].scope,
         row.perms = users[u].perms, Superadmin(row) => row.ends \in {users[u].ends, "never"},
         users[u].active /\ ~row.active => KeepsASuperadmin(u),
         Begin(r, "change", a, u, row)
  PROVE  Begun(r)
<1>1. users[u].role # "absent"
  BY DEF Manageable
<1>2. Demotes(users[u], row) => KeepsASuperadmin(u)
  BY DEF Demotes
<1>3. ASSUME Superadmin(users[u]) => users[u] = Unlimited(users[u]), Superadmin(row)
      PROVE  row = Unlimited(row)
  <2>1. /\ users[u].scope = Unrestricted /\ users[u].perms = RoleDefault /\ users[u].ends = "never"
    BY <1>3 DEF Superadmin, Unlimited, RowsOK, Row
  <2> QED BY <1>3, <2>1 DEF Unlimited, Row
<1>4. Reaches(users[a], users[u], row)
  BY DEF Reaches, Manageable, Holds
<1>5. Sound("change", a, u, row)
  BY <1>1, <1>2, <1>3, <1>4 DEF Sound
<1> QED BY <1>5 DEF Begun

LEMMA UpdateBranchesBegins ==
  ASSUME RowsOK, NEW r \in Slots, NEW a \in Users, NEW u \in Users, NEW asked \in Asked,
         UpdateBranches(r, a, u, asked)
  PROVE  Begun(r)
<1> DEFINE scope == EnforceActorBranches(asked, users[a].scope)
           row == [users[u] EXCEPT !.scope = scope, !.tv = @ + 1]
<1>1. scope # Refused /\ Manageable(users[u], users[a]) /\ ~Superadmin(users[u])
      /\ Begin(r, "change", a, u, row)
  BY DEF UpdateBranches, Change, Manages
<1>2. scope \in BranchScope /\ ScopeWithin(scope, users[a].scope)
  BY <1>1, Within, AccountsAssumption DEF RowsOK, Row
<1>3. row \in Row /\ row.role = users[u].role /\ row.scope = scope
      /\ row.perms = users[u].perms /\ row.active = users[u].active
  BY <1>2, NextVersion DEF Row
<1>4. ~Demotes(users[u], row) /\ ~Superadmin(row)
  BY <1>1, <1>3 DEF Demotes, Superadmin
<1>5. Reaches(users[a], users[u], row)
  BY <1>1, <1>2, <1>3 DEF Reaches, Manageable, Holds
<1>6. Sound("change", a, u, row)
  BY <1>1, <1>3, <1>4, <1>5 DEF Sound, Manageable
<1> QED BY <1>1, <1>3, <1>6 DEF Begun

LEMMA UpdatePermissionsBegins ==
  ASSUME RowsOK, NEW r \in Slots, NEW a \in Users, NEW u \in Users, NEW perms \in Grants,
         UpdatePermissions(r, a, u, perms)
  PROVE  Begun(r)
<1> DEFINE row == [users[u] EXCEPT !.perms = perms, !.tv = @ + 1]
<1>1. Grantable(perms, users[u].role, users[a]) /\ Manageable(users[u], users[a])
      /\ ~Superadmin(users[u]) /\ Begin(r, "change", a, u, row)
  BY DEF UpdatePermissions, Change, Manages
<1>2. row \in Row /\ row.role = users[u].role /\ row.scope = users[u].scope
      /\ row.perms = perms /\ row.active = users[u].active
  BY AccountsAssumption, NextVersion DEF Row
<1>3. ~Demotes(users[u], row) /\ ~Superadmin(row)
  BY <1>1, <1>2 DEF Demotes, Superadmin
<1>4. Reaches(users[a], users[u], row)
  BY <1>1, <1>2 DEF Reaches, Manageable, Holds, Grantable
<1>5. Sound("change", a, u, row)
  BY <1>1, <1>2, <1>3, <1>4 DEF Sound, Manageable
<1> QED BY <1>1, <1>2, <1>5 DEF Begun

LEMMA UpdateExpiryBegins ==
  ASSUME RowsOK, NEW r \in Slots, NEW a \in Users, NEW u \in Users, NEW ends \in Ends,
         UpdateExpiry(r, a, u, ends)
  PROVE  Begun(r)
<1> DEFINE row == [users[u] EXCEPT !.ends = ends]
<1>1. row \in Row /\ row.role = users[u].role /\ row.scope = users[u].scope
      /\ row.perms = users[u].perms /\ row.active = users[u].active
  BY DEF RowsOK, Row
<1>2. Superadmin(row) => row.ends = "never"
  BY <1>1 DEF UpdateExpiry, Superadmin, RowsOK, Row
<1> QED BY <1>1, <1>2, ManagedBegins DEF UpdateExpiry, Change, Manages

LEMMA ResetPasswordBegins ==
  ASSUME RowsOK, NEW r \in Slots, NEW a \in Users, NEW u \in Users, ResetPassword(r, a, u)
  PROVE  Begun(r)
<1> DEFINE row == [users[u] EXCEPT !.must = TRUE, !.tv = @ + 1]
<1>1. row \in Row /\ row.role = users[u].role /\ row.scope = users[u].scope
      /\ row.perms = users[u].perms /\ row.active = users[u].active /\ row.ends = users[u].ends
  BY NextVersion DEF Row
<1> QED BY <1>1, ManagedBegins DEF ResetPassword, Change, Manages

LEMMA SetActiveBegins ==
  ASSUME RowsOK, NEW r \in Slots, NEW a \in Users, NEW u \in Users, NEW active \in BOOLEAN,
         SetActive(r, a, u, active)
  PROVE  Begun(r)
<1> DEFINE row == [users[u] EXCEPT !.active = active, !.tv = IF active THEN @ ELSE @ + 1]
<1>1. row \in Row /\ row.role = users[u].role /\ row.scope = users[u].scope
      /\ row.perms = users[u].perms /\ row.active = active /\ row.ends = users[u].ends
  BY NextVersion DEF Row
<1> QED BY <1>1, ManagedBegins DEF SetActive, Change, Manages

LEMMA AnnotateBegins ==
  ASSUME RowsOK, NEW r \in Slots, NEW a \in Users, NEW u \in Users, Annotate(r, a, u)
  PROVE  Begun(r)
<1>1. users[u] \in Row
  BY DEF RowsOK
<1> QED BY <1>1, ManagedBegins DEF Annotate

LEMMA ChangeOwnPasswordBegins ==
  ASSUME RowsOK, NEW r \in Slots, NEW a \in Users, ChangeOwnPassword(r, a)
  PROVE  Begun(r)
<1> DEFINE row == [users[a] EXCEPT !.must = FALSE]
<1>1. row \in Row /\ row.role = users[a].role /\ row.active = users[a].active
  BY DEF RowsOK, Row
<1>2. users[a].role # "absent"
  BY NotAbsent DEF ChangeOwnPassword
<1>3. ~Demotes(users[a], row)
  BY <1>1 DEF Demotes
<1>4. (Superadmin(users[a]) => users[a] = Unlimited(users[a]))
        => (Superadmin(row) => row = Unlimited(row))
  BY <1>1 DEF Superadmin, Unlimited, RowsOK, Row
<1>5. Sound("change", a, a, row)
  BY <1>1, <1>2, <1>3, <1>4 DEF Sound, Reaches
<1> QED BY <1>1, <1>5 DEF Begun, ChangeOwnPassword

LEMMA ViewBegins ==
  ASSUME RowsOK, NEW r \in Slots, NEW a \in Users, View(r, a)
  PROVE  Begun(r)
<1>1. users[a] \in Row /\ users[a].role # "absent"
  BY NotAbsent DEF View, Admitted, RowsOK
<1>2. ~Demotes(users[a], users[a])
  BY <1>1 DEF Demotes
<1>3. Sound("view", a, a, users[a])
  BY <1>1, <1>2 DEF Sound, Reaches
<1> QED BY <1>1, <1>3 DEF Begun, View

LEMMA CreateUserBegins ==
  ASSUME RowsOK, NEW r \in Slots, NEW a \in Users, NEW u \in Users, NEW role \in Roles,
         NEW asked \in Asked, NEW perms \in Grants, CreateUser(r, a, u, role, asked, perms)
  PROVE  Begun(r)
<1> DEFINE scope == EnforceActorBranches(asked, users[a].scope)
           row == [Absent EXCEPT !.role = role, !.active = TRUE, !.tv = 1, !.must = TRUE]
           granted == [row EXCEPT !.scope = scope, !.perms = perms]
<1>1. users[u].role = "absent" /\ ~users[u].active
  BY DEF CreateUser, RowsOK, Absent
<1>2. row \in Row /\ row.role = role /\ row.active
  BY AbsentRow DEF Row, Absent
<1>3. role # "absent"
  BY DEF Roles
<1>4. CASE role = "superadmin"
  <2>1. Begin(r, "create", a, u, row) /\ Superadmin(users[a])
    BY <1>4 DEF CreateUser
  <2>2. row = Unlimited(row)
    <3>1. row.scope = Unrestricted /\ row.perms = RoleDefault /\ row.ends = "never"
      BY DEF Absent
    <3> HIDE DEF row
    <3> QED BY <1>2, <3>1 DEF Unlimited, Row
  <2>3. ~Demotes(users[u], row)
    BY <1>1, <1>2 DEF Demotes
  <2>4. Sound("create", a, u, row)
    BY <1>1, <1>2, <1>3, <2>1, <2>2, <2>3 DEF Sound, Reaches
  <2> QED BY <1>2, <2>1, <2>4 DEF Begun
<1>5. CASE role # "superadmin"
  <2>1. /\ Begin(r, "create", a, u, granted) /\ scope # Refused
        /\ Grantable(perms, role, users[a]) /\ (Superadmin(users[a]) \/ role = "viewer")
    BY <1>5 DEF CreateUser
  <2>2. scope \in BranchScope /\ ScopeWithin(scope, users[a].scope)
    BY <2>1, Within, AccountsAssumption DEF RowsOK, Row
  <2>3. granted \in Row /\ granted.role = role /\ granted.active
        /\ granted.scope = scope /\ granted.perms = perms
    BY <1>2, <2>2, AccountsAssumption DEF Row
  <2>4. ~Demotes(users[u], granted) /\ ~Superadmin(granted)
    BY <1>1, <1>5, <2>3 DEF Demotes, Superadmin
  <2>5. Reaches(users[a], users[u], granted)
    BY <1>1, <2>1, <2>2, <2>3 DEF Reaches, Holds, Grantable
  <2>6. Sound("create", a, u, granted)
    BY <1>1, <1>3, <2>3, <2>4, <2>5 DEF Sound
  <2> QED BY <2>1, <2>3, <2>6 DEF Begun
<1> QED BY <1>4, <1>5

LEMMA Steps ==
  ASSUME RowsOK, Next
  PROVE  \E r \in Slots : Begun(r) \/ Flush(r) \/ Link(r) \/ Commit(r)
BY UpdateRoleBegins, UpdateBranchesBegins, UpdatePermissionsBegins, UpdateExpiryBegins,
   ResetPasswordBegins, SetActiveBegins, AnnotateBegins, ChangeOwnPasswordBegins,
   ViewBegins, CreateUserBegins DEF Next

-----------------------------------------------------------------------------
(* The inductive invariant.                                                 *)

Busy(r)   == req[r].op # "none"
Lowers(r) == Demotes(req[r].seen, req[r].want)

AbsentRows == \A u \in Users : users[u].role = "absent" => users[u] = Absent

\* A request is of an account that is there, or that nobody else creates once
\* the request holds its row.
RequestOK(r) ==
  /\ req[r].op = "none" => req[r] = NoReq
  /\ Busy(r) => /\ req[r].pc # "none" /\ req[r].target \in Users
                /\ req[r].want.role # "absent"
                /\ req[r].op = "create" <=> req[r].seen.role = "absent"
                /\ Reaches(req[r].me, req[r].seen, req[r].want)
  /\ req[r].op \notin {"none", "create"} => users[req[r].target].role # "absent"
  /\ req[r].op = "create" /\ r \in Writing => users[req[r].target].role = "absent"

Requests == \A r \in Slots : RequestOK(r)

\* Of two writers of one row, one changes nothing.
RowLocks ==
  \A r, o \in Writing :
    r # o /\ req[r].target = req[o].target =>
      req[r].want = req[r].seen \/ req[o].want = req[o].seen

\* Alone, a request that lowers an account leaves another super administrator.
Superadmins ==
  raced.superadmins \/
    /\ \E u \in Users : Superadmin(users[u]) /\ users[u].active
    /\ \A r \in Slots : Lowers(r) =>
         /\ \A o \in Slots : Lowers(o) => o = r
         /\ OtherSuperadmins(req[r].target) # {}

\* Alone, a request has seen the row it writes.
RowsSeen ==
  \A u \in Users \ raced.rows :
    /\ Superadmin(users[u]) => users[u] = Unlimited(users[u])
    /\ \A r \in Slots : req[r].target = u =>
         /\ req[r].seen = users[u]
         /\ Superadmin(req[r].want) => req[r].want = Unlimited(req[r].want)
         /\ \A o \in Slots : req[o].target = u => o = r

\* Alone, a writer has an entry later than all others, linked to the latest.
Stamps ==
  /\ \A e \in audit : e.at <= clock
  /\ \A r \in Writing : req[r].at <= clock
  /\ raced.chain \/
       \A r \in Writing :
         /\ \A o \in Writing : o = r
         /\ \A e \in audit : e.at < req[r].at
         /\ req[r].pc = "commit" => req[r].prev \in LatestEntry

Inv == /\ TypeOK /\ AbsentRows /\ Requests /\ RowLocks
       /\ Superadmins /\ RowsSeen /\ Stamps /\ ChainHolds

LEMMA InitInv == Init => Inv
<1> SUFFICES ASSUME Init PROVE Inv
  OBVIOUS
<1> USE DEF Init
<1>1. TypeOK
  BY NoReqType, AccountsAssumption DEF TypeOK
<1>2. AbsentRows
  BY Bootstrapped DEF AbsentRows
<1>3. Writing = {} /\ \A r \in Slots : req[r] = NoReq /\ ~Lowers(r) /\ ~Busy(r)
  BY DEF Writing, NoReq, Lowers, Demotes, Busy, Absent
<1>4. Requests /\ RowLocks
  BY <1>3 DEF Requests, RequestOK, RowLocks, NoReq
<1>5. Superadmins
  BY <1>3, Bootstrapped DEF Superadmins, Superadmin
<1>6. RowsSeen
  BY <1>3, Bootstrapped, AccountsAssumption DEF RowsSeen, Superadmin, NoReq
<1>7. Stamps /\ ChainHolds
  BY <1>3 DEF Stamps, ChainHolds
<1> QED BY <1>1, <1>2, <1>4, <1>5, <1>6, <1>7 DEF Inv

-----------------------------------------------------------------------------
(* A request begins.                                                        *)

LEMMA BegunRequest ==
  ASSUME Inv, NEW r \in Slots, Begun(r)
  PROVE  /\ ~Busy(r) /\ served \in Nat /\ served < MaxRequest /\ served' = served + 1
         /\ UNCHANGED <<users, audit, clock>>
         /\ \E q \in Request, u \in Users :
              /\ req' = [req EXCEPT ![r] = q] /\ raced' = Risks(r, u, q.seen, q.want)
              /\ q.op # "none" /\ q.pc = "flush" /\ q.target = u /\ q.seen = users[u]
              /\ q.want.role # "absent" /\ (q.op = "create" <=> q.seen.role = "absent")
              /\ Reaches(q.me, q.seen, q.want)
              /\ Demotes(q.seen, q.want) => KeepsASuperadmin(u)
              /\ (Superadmin(users[u]) => users[u] = Unlimited(users[u]))
                   => (Superadmin(q.want) => q.want = Unlimited(q.want))
<1>1. PICK op \in {"change", "create", "view"}, a \in Users, u \in Users, row \in Row :
        Begin(r, op, a, u, row) /\ Sound(op, a, u, row)
  BY DEF Begun
<1> DEFINE q == [NoReq EXCEPT !.op = op, !.pc = "flush", !.target = u,
                   !.me = users[a], !.seen = users[u], !.want = row]
<1>2. /\ q \in Request /\ q.op = op /\ q.pc = "flush" /\ q.target = u
      /\ q.me = users[a] /\ q.seen = users[u] /\ q.want = row
  BY NoReqType DEF Inv, TypeOK, NoReq, Request
<1>3. req' = [req EXCEPT ![r] = q] /\ raced' = Risks(r, u, q.seen, q.want)
  BY <1>1, <1>2 DEF Begin
<1>4. /\ ~Busy(r) /\ served \in Nat /\ served < MaxRequest /\ served' = served + 1
      /\ UNCHANGED <<users, audit, clock>>
  BY <1>1, AccountsAssumption DEF Begin, Free, Busy, Inv, TypeOK
<1>5. /\ q.op # "none" /\ q.want.role # "absent" /\ (q.op = "create" <=> q.seen.role = "absent")
      /\ Reaches(q.me, q.seen, q.want)
      /\ Demotes(q.seen, q.want) => KeepsASuperadmin(u)
      /\ (Superadmin(users[u]) => users[u] = Unlimited(users[u]))
           => (Superadmin(q.want) => q.want = Unlimited(q.want))
  BY <1>1, <1>2 DEF Sound
<1> HIDE DEF q
<1> QED BY <1>2, <1>3, <1>4, <1>5

LEMMA BegunInv ==
  ASSUME Inv, NEW r \in Slots, Begun(r)
  PROVE  Inv'
<1> PICK q \in Request, u \in Users :
      /\ req' = [req EXCEPT ![r] = q] /\ raced' = Risks(r, u, q.seen, q.want)
      /\ q.op # "none" /\ q.pc = "flush" /\ q.target = u /\ q.seen = users[u]
      /\ q.want.role # "absent" /\ (q.op = "create" <=> q.seen.role = "absent")
      /\ Reaches(q.me, q.seen, q.want)
      /\ Demotes(q.seen, q.want) => KeepsASuperadmin(u)
      /\ (Superadmin(users[u]) => users[u] = Unlimited(users[u]))
           => (Superadmin(q.want) => q.want = Unlimited(q.want))
  BY BegunRequest
<1>1. /\ ~Busy(r) /\ served \in Nat /\ served < MaxRequest /\ served' = served + 1
      /\ UNCHANGED <<users, audit, clock>>
  BY BegunRequest
<1>2. TypeOK /\ req[r] = NoReq
  BY <1>1 DEF Inv, Requests, RequestOK, Busy
<1>3. req'[r] = q /\ \A o \in Slots \ {r} : req'[o] = req[o]
  BY <1>2 DEF TypeOK
<1>4. Writing' = Writing
  BY <1>2, <1>3 DEF Writing, NoReq
<1>5. /\ raced'.chain = raced.chain
      /\ raced.superadmins => raced'.superadmins
      /\ \A o \in Slots \ {r} : Busy(o) /\ Lowers(o) /\ Demotes(q.seen, q.want)
           => raced'.superadmins
      /\ raced.rows \subseteq raced'.rows
      /\ \A o \in Slots \ {r} : Busy(o) /\ req[o].target = u => u \in raced'.rows
      /\ raced' \in [superadmins : BOOLEAN, chain : BOOLEAN, rows : SUBSET Users]
  BY <1>2 DEF Risks, Busy, Lowers, TypeOK
<1>6. TypeOK'
  BY <1>1, <1>2, <1>5, AccountsAssumption DEF TypeOK
<1>7. AbsentRows'
  BY <1>1 DEF Inv, AbsentRows
<1>8. Requests'
  <2> SUFFICES ASSUME NEW o \in Slots PROVE RequestOK(o)'
    BY DEF Requests
  <2>1. CASE o = r
    BY <1>1, <1>3, <2>1 DEF RequestOK, Busy, Writing
  <2>2. CASE o # r
    BY <1>1, <1>3, <1>4, <2>2 DEF Inv, Requests, RequestOK, Busy
  <2> QED BY <2>1, <2>2
<1>9. RowLocks'
  BY <1>2, <1>3, <1>4 DEF Inv, RowLocks, Writing, NoReq
<1>10. \A o \in Slots \ {r} : (Lowers(o)' <=> Lowers(o)) /\ (Lowers(o) => Busy(o))
  BY <1>3 DEF Lowers, Inv, Requests, RequestOK, Busy, NoReq, Demotes, Absent
<1>11. Superadmins'
  <2> SUFFICES ASSUME ~raced'.superadmins PROVE Superadmins'
    BY DEF Superadmins
  <2>1. \E v \in Users : Superadmin(users[v]) /\ users[v].active
    BY <1>5 DEF Inv, Superadmins
  <2>2. ASSUME NEW o \in Slots, Lowers(o)'
        PROVE  /\ \A p \in Slots : Lowers(p)' => p = o
               /\ OtherSuperadmins(req'[o].target) # {}
    <3>1. CASE o = r
      <4>1. Demotes(q.seen, q.want)
        BY <1>3, <2>2, <3>1 DEF Lowers
      <4>2. \A p \in Slots \ {r} : ~Lowers(p)'
        BY <1>5, <1>10, <4>1
      <4>3. KeepsASuperadmin(u)
        BY <4>1
      <4>4. OtherSuperadmins(u) # {}
        BY <2>1, <4>3 DEF KeepsASuperadmin, OtherSuperadmins
      <4> QED BY <1>3, <3>1, <4>2, <4>4
    <3>2. CASE o # r
      <4>1. Lowers(o) /\ Busy(o)
        BY <1>10, <2>2, <3>2
      <4>2. ~Lowers(r)'
        BY <1>3, <1>5, <3>2, <4>1 DEF Lowers
      <4>3. /\ \A p \in Slots : Lowers(p) => p = o
            /\ OtherSuperadmins(req[o].target) # {}
        BY <1>5, <4>1 DEF Inv, Superadmins
      <4> QED BY <1>3, <1>10, <3>2, <4>2, <4>3
    <3> QED BY <3>1, <3>2
  <2> QED BY <1>1, <2>1, <2>2 DEF Superadmins, OtherSuperadmins
<1>12. RowsSeen'
  <2> SUFFICES ASSUME NEW v \in Users, v \notin raced'.rows
               PROVE  /\ Superadmin(users[v]) => users[v] = Unlimited(users[v])
                      /\ \A o \in Slots : req'[o].target = v =>
                           /\ req'[o].seen = users[v]
                           /\ Superadmin(req'[o].want) => req'[o].want = Unlimited(req'[o].want)
                           /\ \A p \in Slots : req'[p].target = v => p = o
    BY <1>1 DEF RowsSeen
  <2>1. /\ Superadmin(users[v]) => users[v] = Unlimited(users[v])
        /\ \A o \in Slots : req[o].target = v =>
             /\ req[o].seen = users[v]
             /\ Superadmin(req[o].want) => req[o].want = Unlimited(req[o].want)
             /\ \A p \in Slots : req[p].target = v => p = o
    BY <1>5 DEF Inv, RowsSeen
  <2>2. \A o \in Slots : req[o].target = v => Busy(o)
    BY AccountsAssumption DEF Inv, Requests, RequestOK, Busy, NoReq
  <2>3. CASE v = u
    BY <1>3, <1>5, <2>1, <2>2, <2>3
  <2>4. CASE v # u
    BY <1>3, <2>1, <2>4
  <2> QED BY <2>3, <2>4
<1>13. Stamps'
  <2>1. \A o \in Writing : o \in Slots \ {r} /\ req'[o] = req[o]
    BY <1>2, <1>3 DEF Writing, NoReq
  <2>2. LatestEntry' = LatestEntry
    BY <1>1 DEF LatestEntry
  <2> QED BY <1>1, <1>4, <1>5, <2>1, <2>2 DEF Inv, Stamps
<1>14. ChainHolds'
  BY <1>1, <1>5 DEF Inv, ChainHolds
<1> QED BY <1>6, <1>7, <1>8, <1>9, <1>11, <1>12, <1>13, <1>14 DEF Inv

-----------------------------------------------------------------------------
(* A request writes.                                                        *)

\* A request that ends without a change.
LEMMA RefusedInv ==
  ASSUME Inv, NEW r \in Slots, r \notin Writing, req' = [req EXCEPT ![r] = NoReq],
         UNCHANGED <<users, audit, clock, served, raced>>
  PROVE  Inv'
<1>1. TypeOK
  BY DEF Inv
<1>2. req'[r] = NoReq /\ \A o \in Slots \ {r} : req'[o] = req[o]
  BY <1>1 DEF TypeOK
<1>3. Writing' = Writing /\ \A o \in Writing : o \in Slots \ {r}
  BY <1>2 DEF Writing, NoReq
<1>4. ~Lowers(r)' /\ \A o \in Slots \ {r} : Lowers(o)' <=> Lowers(o)
  BY <1>2 DEF Lowers, Demotes, NoReq, Absent
<1>5. TypeOK'
  BY <1>1, NoReqType DEF TypeOK
<1>6. AbsentRows' /\ ChainHolds'
  BY DEF Inv, AbsentRows, ChainHolds
<1>7. Requests'
  <2> SUFFICES ASSUME NEW o \in Slots PROVE RequestOK(o)'
    BY DEF Requests
  <2>1. CASE o = r
    BY <1>2, <2>1 DEF RequestOK, Busy, NoReq
  <2>2. CASE o # r
    BY <1>2, <1>3, <2>2 DEF Inv, Requests, RequestOK, Busy
  <2> QED BY <2>1, <2>2
<1>8. RowLocks'
  BY <1>2, <1>3 DEF Inv, RowLocks
<1>9. Superadmins'
  BY <1>2, <1>4 DEF Inv, Superadmins, OtherSuperadmins
<1>10. RowsSeen'
  <2>1. \A u \in Users, o \in Slots : req'[o].target = u => o # r /\ req'[o] = req[o]
    BY <1>2, AccountsAssumption DEF NoReq
  <2> QED BY <2>1 DEF Inv, RowsSeen
<1>11. Stamps'
  <2>1. LatestEntry' = LatestEntry
    BY DEF LatestEntry
  <2> QED BY <1>2, <1>3, <2>1 DEF Inv, Stamps
<1> QED BY <1>5, <1>6, <1>7, <1>8, <1>9, <1>10, <1>11 DEF Inv

\* A request that goes on to its next stage.
LEMMA GoesOn ==
  ASSUME Inv, NEW r \in Slots, Busy(r), NEW q \in Request, req' = [req EXCEPT ![r] = q],
         q.pc \in {"link", "commit"}, q.op = req[r].op, q.me = req[r].me,
         q.target = req[r].target, q.seen = req[r].seen, q.want = req[r].want,
         r \in Writing \/ q.want = q.seen \/ ~RowHeld(r),
         q.op = "create" => users[q.target].role = "absent",
         UNCHANGED <<users, audit, served>>, clock' \in Nat,
         raced' \in [superadmins : BOOLEAN, chain : BOOLEAN, rows : SUBSET Users],
         raced'.superadmins = raced.superadmins, raced'.rows = raced.rows,
         raced.chain => raced'.chain, Stamps'
  PROVE  Inv'
<1>1. TypeOK
  BY DEF Inv
<1>2. req'[r] = q /\ \A o \in Slots \ {r} : req'[o] = req[o]
  BY <1>1 DEF TypeOK
<1>3. Writing' = Writing \cup {r}
  BY <1>2 DEF Writing
<1>4. \A o \in Slots : /\ Lowers(o)' <=> Lowers(o)
                       /\ req'[o].target = req[o].target
                       /\ req'[o].seen = req[o].seen
                       /\ req'[o].want = req[o].want
  BY <1>2 DEF Lowers
<1>5. TypeOK'
  BY <1>1 DEF TypeOK
<1>6. AbsentRows' /\ ChainHolds'
  BY DEF Inv, AbsentRows, ChainHolds
<1>7. Requests'
  <2> SUFFICES ASSUME NEW o \in Slots PROVE RequestOK(o)'
    BY DEF Requests
  <2>1. CASE o = r
    BY <1>2, <2>1 DEF Inv, Requests, RequestOK, Busy
  <2>2. CASE o # r
    BY <1>2, <1>3, <2>2 DEF Inv, Requests, RequestOK, Busy
  <2> QED BY <2>1, <2>2
<1>8. RowLocks'
  BY <1>3, <1>4 DEF Inv, RowLocks, RowHeld, Writing
<1>9. Superadmins'
  BY <1>4 DEF Inv, Superadmins, OtherSuperadmins
<1>10. RowsSeen'
  BY <1>4 DEF Inv, RowsSeen
<1> QED BY <1>5, <1>6, <1>7, <1>8, <1>9, <1>10 DEF Inv

LEMMA FlushInv ==
  ASSUME Inv, NEW r \in Slots, Flush(r)
  PROVE  Inv'
<1>1. TypeOK
  BY DEF Inv
<1>2. req[r].pc = "flush" /\ Busy(r) /\ r \notin Writing
  BY DEF Flush, Inv, Requests, RequestOK, Busy, NoReq, Writing
<1>3. CASE req[r].op = "create" /\ users[req[r].target].role # "absent"
  BY <1>2, <1>3, RefusedInv DEF Flush
<1>4. CASE ~(req[r].op = "create" /\ users[req[r].target].role # "absent")
  <2> DEFINE q == [req[r] EXCEPT !.pc = "link", !.at = clock + 1]
  <2>1. /\ clock' = clock + 1 /\ clock' \in Nat /\ clock \in Nat
        /\ raced' = [raced EXCEPT !.chain = @ \/ Writing # {}]
        /\ UNCHANGED <<users, audit, served>>
        /\ q.want = q.seen \/ ~RowHeld(r)
    BY <1>1, <1>4 DEF Flush, TypeOK
  <2>2. /\ q \in Request /\ q.pc = "link" /\ q.at = clock + 1 /\ q.op = req[r].op
        /\ q.me = req[r].me /\ q.target = req[r].target /\ q.seen = req[r].seen
        /\ q.want = req[r].want
    BY <1>1, <2>1 DEF TypeOK, Request
  <2>3. req' = [req EXCEPT ![r] = q]
    BY <1>1, <1>4, <2>1 DEF Flush, TypeOK
  <2> HIDE DEF q
  <2>4. req'[r] = q /\ \A o \in Slots \ {r} : req'[o] = req[o]
    BY <1>1, <2>3 DEF TypeOK
  <2>5. Writing' = Writing \cup {r}
    BY <2>2, <2>4 DEF Writing
  <2>6. raced'.chain \/ (~raced.chain /\ Writing = {})
    BY <1>1, <2>1 DEF TypeOK
  <2>7. \A e \in audit : e.at \in Nat /\ e.at <= clock
    BY <1>1 DEF Inv, TypeOK, Entry, Stamps
  <2>8. \A o \in Writing : o # r /\ req[o].at \in Nat /\ req[o].at <= clock
    BY <1>1, <1>2 DEF Inv, TypeOK, Request, Stamps, Writing
  <2>9. Stamps'
    <3>1. \A e \in audit' : e.at <= clock' /\ e.at < req'[r].at
      BY <2>1, <2>2, <2>4, <2>7
    <3>2. \A o \in Writing' : req'[o].at <= clock'
      BY <2>1, <2>2, <2>4, <2>5, <2>8 DEF Writing
    <3>3. raced'.chain \/ Writing' = {r}
      BY <2>5, <2>6
    <3> QED BY <2>2, <2>4, <3>1, <3>2, <3>3 DEF Stamps
  <2>10. /\ raced' \in [superadmins : BOOLEAN, chain : BOOLEAN, rows : SUBSET Users]
         /\ raced'.superadmins = raced.superadmins /\ raced'.rows = raced.rows
         /\ raced.chain => raced'.chain
    BY <1>1, <2>1 DEF TypeOK
  <2> QED BY <1>2, <1>4, <2>1, <2>2, <2>3, <2>9, <2>10, GoesOn
<1> QED BY <1>3, <1>4

LEMMA LinkInv ==
  ASSUME Inv, NEW r \in Slots, Link(r)
  PROVE  Inv'
<1>1. TypeOK
  BY DEF Inv
<1>2. req[r].pc = "link" /\ Busy(r) /\ r \in Writing
  BY DEF Link, Inv, Requests, RequestOK, Busy, NoReq, Writing
<1>3. PICK prev \in LatestEntry : req' = [req EXCEPT ![r].pc = "commit", ![r].prev = prev]
  BY DEF Link
<1>4. prev \in Nat
  BY <1>1 DEF LatestEntry, TypeOK, Entry
<1> DEFINE q == [req[r] EXCEPT !.pc = "commit", !.prev = prev]
<1>5. /\ q \in Request /\ q.pc = "commit" /\ q.prev = prev /\ q.at = req[r].at
      /\ q.op = req[r].op /\ q.me = req[r].me /\ q.target = req[r].target
      /\ q.seen = req[r].seen /\ q.want = req[r].want
  BY <1>1, <1>4 DEF TypeOK, Request
<1>6. req' = [req EXCEPT ![r] = q] /\ UNCHANGED <<users, audit, clock, served, raced>>
  BY <1>1, <1>3 DEF Link, TypeOK
<1> HIDE DEF q
<1>7. req'[r] = q /\ \A o \in Slots \ {r} : req'[o] = req[o]
  BY <1>1, <1>6 DEF TypeOK
<1>8. Writing' = Writing
  BY <1>2, <1>5, <1>7 DEF Writing
<1>9. LatestEntry' = LatestEntry
  BY <1>6 DEF LatestEntry
<1>10. Stamps'
  <2>1. \A o \in Writing : /\ req'[o].at = req[o].at
                           /\ o # r => req'[o] = req[o]
    BY <1>5, <1>7 DEF Writing
  <2> QED BY <1>2, <1>5, <1>6, <1>7, <1>8, <1>9, <2>1 DEF Inv, Stamps
<1>11. q.op = "create" => users[q.target].role = "absent"
  BY <1>2, <1>5 DEF Inv, Requests, RequestOK
<1> QED BY <1>1, <1>2, <1>5, <1>6, <1>10, <1>11, GoesOn DEF TypeOK

-----------------------------------------------------------------------------
(* A request commits.                                                       *)

\* What a commit writes, component by component.
LEMMA WrittenRow ==
  ASSUME TypeOK, NEW q \in Request, q.target \in Users
  PROVE  /\ Written(q) \in Row
         /\ Written(q).role = IF q.want.role # q.seen.role THEN q.want.role
                              ELSE users[q.target].role
         /\ Written(q).active = IF q.want.active # q.seen.active THEN q.want.active
                                ELSE users[q.target].active
         /\ q.seen = users[q.target] => Written(q) = q.want
         /\ q.seen = q.want => Written(q) = users[q.target]
<1>1. q.seen \in Row /\ q.want \in Row /\ users[q.target] \in Row
  BY DEF TypeOK, Request
<1>2. DOMAIN q.seen = {"role", "scope", "perms", "ends", "active", "tv", "must"}
  BY <1>1 DEF Row
<1>3. Written(q) = [role   |-> IF q.want.role # q.seen.role THEN q.want.role
                               ELSE users[q.target].role,
                    scope  |-> IF q.want.scope # q.seen.scope THEN q.want.scope
                               ELSE users[q.target].scope,
                    perms  |-> IF q.want.perms # q.seen.perms THEN q.want.perms
                               ELSE users[q.target].perms,
                    ends   |-> IF q.want.ends # q.seen.ends THEN q.want.ends
                               ELSE users[q.target].ends,
                    active |-> IF q.want.active # q.seen.active THEN q.want.active
                               ELSE users[q.target].active,
                    tv     |-> IF q.want.tv # q.seen.tv THEN q.want.tv
                               ELSE users[q.target].tv,
                    must   |-> IF q.want.must # q.seen.must THEN q.want.must
                               ELSE users[q.target].must]
  BY <1>2 DEF Written
<1>4. Written(q) \in Row
  BY <1>1, <1>3 DEF Row
<1>5. q.seen = users[q.target] => Written(q) = q.want
  BY <1>1, <1>3 DEF Row
<1>6. q.seen = q.want => Written(q) = users[q.target]
  BY <1>1, <1>3 DEF Row
<1> QED BY <1>3, <1>4, <1>5, <1>6

LEMMA CommitChain ==
  ASSUME Inv, NEW r \in Writing, req[r].pc = "commit",
         NEW e, e.at = req[r].at, e.prev = req[r].prev, audit' = audit \cup {e},
         Writing' = Writing \ {r}, clock' = clock, raced' = raced,
         \A o \in Writing' : req'[o] = req[o]
  PROVE  Stamps' /\ ChainHolds'
<1>1. \A f \in audit' : f.at <= clock'
  BY DEF Inv, Stamps
<1>2. \A o \in Writing' : req'[o].at <= clock'
  BY DEF Inv, Stamps
<1>3. ASSUME ~raced.chain
      PROVE  Writing' = {} /\ ChainHolds'
  <2>1. \A o \in Writing : o = r
    BY <1>3 DEF Inv, Stamps
  <2>2. \A f \in audit : f.at < e.at
    BY <1>3 DEF Inv, Stamps
  <2>3. e.prev \in LatestEntry
    BY <1>3 DEF Inv, Stamps
  <2>4. e.at \in Nat /\ \A f \in audit : f.at \in Nat
    BY DEF Inv, TypeOK, Entry, Request, Writing
  <2> DEFINE Linked(g, all) ==
        LET earlier == {f \in all : f.at < g.at} IN
        IF earlier = {} THEN g.prev = 0
        ELSE \E f \in earlier : g.prev = f.at /\ \A h \in earlier : h.at <= f.at
  <2>5. \A g \in audit : Linked(g, audit)
    BY <1>3 DEF Inv, ChainHolds
  <2>6. ASSUME NEW g \in audit PROVE Linked(g, audit')
    <3>1. {f \in audit' : f.at < g.at} = {f \in audit : f.at < g.at}
      BY <2>2, <2>4
    <3> QED BY <2>5, <3>1
  <2>7. Linked(e, audit')
    <3>1. {f \in audit' : f.at < e.at} = audit
      BY <2>2, <2>4
    <3>2. IF audit = {} THEN e.prev = 0
          ELSE \E f \in audit : e.prev = f.at /\ \A h \in audit : h.at <= f.at
      BY <2>3 DEF LatestEntry
    <3> QED BY <3>1, <3>2
  <2>8. \A g \in audit' : Linked(g, audit')
    BY <2>6, <2>7
  <2> QED BY <2>1, <2>8 DEF ChainHolds
<1> QED BY <1>1, <1>2, <1>3 DEF Stamps, ChainHolds

LEMMA CommitInv ==
  ASSUME Inv, NEW r \in Slots, Commit(r)
  PROVE  Inv'
<1> DEFINE q == req[r]
           u == req[r].target
           w == Written(req[r])
<1>1. TypeOK
  BY DEF Inv
<1>2. q.pc = "commit" /\ r \in Writing /\ Busy(r) /\ q \in Request /\ RequestOK(r)
  BY <1>1 DEF Commit, Writing, Inv, Requests, RequestOK, Busy, NoReq, TypeOK
<1>3. u \in Users
  BY <1>2 DEF RequestOK
<1>4. /\ users' = [users EXCEPT ![u] = w] /\ req' = [req EXCEPT ![r] = NoReq]
      /\ UNCHANGED <<clock, served, raced>>
  BY DEF Commit
<1>5. users'[u] = w /\ \A v \in Users \ {u} : users'[v] = users[v]
  BY <1>1, <1>3, <1>4 DEF TypeOK
<1>6. req'[r] = NoReq /\ \A o \in Slots \ {r} : req'[o] = req[o]
  BY <1>1, <1>4 DEF TypeOK
<1>7. Writing' = Writing \ {r}
  BY <1>6 DEF Writing, NoReq
<1>8. /\ w \in Row
      /\ w.role = IF q.want.role # q.seen.role THEN q.want.role ELSE users[u].role
      /\ w.active = IF q.want.active # q.seen.active THEN q.want.active ELSE users[u].active
      /\ q.seen = users[u] => w = q.want
      /\ q.seen = q.want => w = users[u]
  BY <1>1, <1>2, <1>3, WrittenRow
<1> HIDE DEF w
<1>9. w.role # "absent"
  BY <1>2, <1>8 DEF RequestOK, Busy
<1> DEFINE entry == [at |-> q.at, prev |-> q.prev,
                     viewer |-> IF q.op = "view" THEN q.target ELSE 0]
<1>10. /\ audit' = audit \cup {entry} /\ entry \in Entry
       /\ entry.at = q.at /\ entry.prev = q.prev
  BY <1>2, <1>3 DEF Commit, Entry, Request
<1> HIDE DEF entry
<1>11. TypeOK'
  BY <1>1, <1>4, <1>8, <1>10, NoReqType DEF TypeOK
<1>12. AbsentRows'
  BY <1>5, <1>9 DEF Inv, AbsentRows
<1>13. Requests'
  <2> SUFFICES ASSUME NEW o \in Slots PROVE RequestOK(o)'
    BY DEF Requests
  <2>1. CASE o = r
    BY <1>6, <2>1 DEF RequestOK, Busy, NoReq
  <2>2. CASE o # r /\ req[o].op = "none"
    BY <1>6, <2>2 DEF Inv, Requests, RequestOK, Busy
  <2>3. CASE o # r /\ req[o].op # "none"
    <3>1. RequestOK(o) /\ req'[o] = req[o] /\ req[o].target \in Users
      BY <1>6, <2>3 DEF Inv, Requests, RequestOK, Busy
    <3>2. req[o].op # "create" => users'[req[o].target].role # "absent"
      BY <1>5, <1>9, <2>3, <3>1 DEF RequestOK
    <3>3. ASSUME req[o].op = "create", o \in Writing
          PROVE  users'[req[o].target].role = "absent"
      <4>1. users[req[o].target].role = "absent" /\ req[o].want # req[o].seen
        BY <2>3, <3>1, <3>3 DEF RequestOK, Busy
      <4>2. req[o].target = u => FALSE
        <5> SUFFICES ASSUME req[o].target = u PROVE FALSE
          OBVIOUS
        <5>1. q.op = "create"
          BY <1>2, <4>1 DEF RequestOK, Busy
        <5>2. q.want # q.seen
          BY <1>2, <5>1 DEF RequestOK, Busy
        <5> QED BY <1>2, <2>3, <3>3, <4>1, <5>2 DEF Inv, RowLocks
      <4> QED BY <1>5, <3>1, <4>1, <4>2
    <3> QED BY <1>7, <2>3, <3>1, <3>2, <3>3 DEF RequestOK, Busy
  <2> QED BY <2>1, <2>2, <2>3
<1>14. RowLocks'
  BY <1>6, <1>7 DEF Inv, RowLocks, Writing
<1>15. ~Lowers(r)' /\ \A o \in Slots \ {r} : Lowers(o)' <=> Lowers(o)
  BY <1>6 DEF Lowers, Demotes, NoReq, Absent
<1>16. Superadmins'
  <2> SUFFICES ASSUME ~raced.superadmins PROVE Superadmins'
    BY <1>4 DEF Superadmins
  <2>1. /\ \E v \in Users : Superadmin(users[v]) /\ users[v].active
        /\ \A o \in Slots : Lowers(o) =>
             /\ \A p \in Slots : Lowers(p) => p = o
             /\ OtherSuperadmins(req[o].target) # {}
    BY DEF Inv, Superadmins
  <2>2. CASE Lowers(r)
    <3>1. PICK v \in Users \ {u} : Superadmin(users[v]) /\ users[v].active
      BY <2>1, <2>2 DEF OtherSuperadmins
    <3>2. Superadmin(users'[v]) /\ users'[v].active
      BY <1>5, <3>1
    <3>3. \A o \in Slots : ~Lowers(o)'
      BY <1>15, <2>1, <2>2
    <3> QED BY <3>2, <3>3 DEF Superadmins
  <2>3. CASE ~Lowers(r)
    <3>1. ASSUME Superadmin(users[u]), users[u].active
          PROVE  Superadmin(w) /\ w.active
      <4>1. q.seen.role # "absent"
        BY <1>2, <3>1 DEF RequestOK, Busy, Superadmin
      <4>2. q.want.role \in {q.seen.role, "superadmin"}
        BY <2>3, <4>1 DEF Lowers, Demotes
      <4>3. q.want.active = q.seen.active \/ q.want.active
        BY <1>2, <2>3 DEF Lowers, Demotes, Request, Row
      <4> QED BY <1>8, <3>1, <4>2, <4>3 DEF Superadmin
    <3>2. \A v \in Users : Superadmin(users[v]) /\ users[v].active
             => Superadmin(users'[v]) /\ users'[v].active
      BY <1>5, <3>1
    <3>3. \A x \in Users : OtherSuperadmins(x) \subseteq OtherSuperadmins(x)'
      BY <3>2 DEF OtherSuperadmins
    <3>4. \A o \in Slots \ {r} : Lowers(o) => req[o].target \in Users
      BY DEF Inv, Requests, RequestOK, Busy, Lowers, Demotes, NoReq, Absent
    <3> QED BY <1>6, <1>15, <2>1, <3>2, <3>3, <3>4 DEF Superadmins, OtherSuperadmins
  <2> QED BY <2>2, <2>3
<1>17. RowsSeen'
  <2> SUFFICES ASSUME NEW v \in Users, v \notin raced.rows
               PROVE  /\ Superadmin(users'[v]) => users'[v] = Unlimited(users'[v])
                      /\ \A o \in Slots : req'[o].target = v =>
                           /\ req'[o].seen = users'[v]
                           /\ Superadmin(req'[o].want) => req'[o].want = Unlimited(req'[o].want)
                           /\ \A p \in Slots : req'[p].target = v => p = o
    BY <1>4 DEF RowsSeen
  <2>1. /\ Superadmin(users[v]) => users[v] = Unlimited(users[v])
        /\ \A o \in Slots : req[o].target = v =>
             /\ req[o].seen = users[v]
             /\ Superadmin(req[o].want) => req[o].want = Unlimited(req[o].want)
             /\ \A p \in Slots : req[p].target = v => p = o
    BY DEF Inv, RowsSeen
  <2>2. \A o \in Slots : req'[o].target = v => o # r /\ req'[o] = req[o]
    BY <1>6, AccountsAssumption DEF NoReq
  <2>3. CASE v = u
    <3>1. w = q.want
      BY <1>8, <2>1, <2>3
    <3>2. \A o \in Slots : req'[o].target # v
      BY <2>1, <2>2, <2>3
    <3> QED BY <1>5, <2>1, <2>3, <3>1, <3>2
  <2>4. CASE v # u
    BY <1>5, <2>1, <2>2, <2>4
  <2> QED BY <2>3, <2>4
<1>18. Stamps' /\ ChainHolds'
  <2>1. \A o \in Writing' : req'[o] = req[o]
    BY <1>6, <1>7 DEF Writing
  <2> QED BY <1>2, <1>4, <1>7, <1>10, <2>1, CommitChain
<1> QED BY <1>11, <1>12, <1>13, <1>14, <1>16, <1>17, <1>18 DEF Inv

-----------------------------------------------------------------------------
(* The theorems.                                                            *)

LEMMA StutterInv ==
  ASSUME Inv, UNCHANGED vars
  PROVE  Inv'
<1> USE DEF vars
<1>1. TypeOK'
  BY DEF Inv, TypeOK
<1>2. AbsentRows' /\ RowsSeen' /\ ChainHolds'
  BY DEF Inv, AbsentRows, RowsSeen, ChainHolds
<1>3. Writing' = Writing /\ LatestEntry' = LatestEntry
  BY DEF Writing, LatestEntry
<1>4. Requests' /\ RowLocks' /\ Stamps'
  BY <1>3 DEF Inv, Requests, RequestOK, Busy, RowLocks, Stamps
<1>5. Superadmins'
  BY DEF Inv, Superadmins, Lowers, OtherSuperadmins
<1> QED BY <1>1, <1>2, <1>4, <1>5 DEF Inv

LEMMA StepInv == Inv /\ [Next]_vars => Inv'
<1> SUFFICES ASSUME Inv, [Next]_vars PROVE Inv'
  OBVIOUS
<1>1. CASE Next
  <2>1. RowsOK
    BY DEF RowsOK, Inv, TypeOK, AbsentRows
  <2> QED BY <1>1, <2>1, Steps, BegunInv, FlushInv, LinkInv, CommitInv
<1>2. CASE UNCHANGED vars
  BY <1>2, StutterInv
<1> QED BY <1>1, <1>2

LEMMA InvAlways == Spec => []Inv
BY InitInv, StepInv, PTL DEF Spec

\* The rows, the audit log and the requests stay of their types
\* (models/user.py, services/audit_service.py).
THEOREM TypeCorrect == Spec => []TypeOK
BY InvAlways, PTL DEF Inv

\* An active super administrator remains, unless two requests that lower a role
\* or deactivate an account overlapped (user_service._keep_a_superadmin).
THEOREM OneSuperadminStays == Spec => []SuperadminRemains
<1>1. Inv => SuperadminRemains
  BY DEF Inv, Superadmins, SuperadminRemains
<1> QED BY <1>1, InvAlways, PTL

\* A super administrator stays unlimited, unless two requests changed the account
\* at once (user_service.update_role, update_branches, update_expiry).
THEOREM SuperadminsUnlimited == Spec => []SuperadminUnlimited
<1>1. Inv => SuperadminUnlimited
  BY DEF Inv, RowsSeen, SuperadminUnlimited
<1> QED BY <1>1, InvAlways, PTL

\* An administrator hands on no permission and no branch he does not have, and
\* changes viewers' accounts only (user_service's checks, up to the commit).
THEOREM NobodyEscalates == Spec => []NoEscalation
<1>1. ASSUME Inv PROVE NoEscalation
  <2> SUFFICES ASSUME NEW r \in Slots, req[r].pc = "commit", req[r].target \notin raced.rows
               PROVE  WithinReach(req[r])
    BY DEF NoEscalation, WithinReach
  <2>1. /\ Busy(r) /\ req[r].target \in Users /\ req[r] \in Request
        /\ Reaches(req[r].me, req[r].seen, req[r].want)
    BY <1>1 DEF Inv, TypeOK, Requests, RequestOK, Busy, NoReq
  <2>2. req[r].seen = users[req[r].target]
    BY <1>1, <2>1 DEF Inv, RowsSeen
  <2>3. Written(req[r]) = req[r].want
    BY <1>1, <2>1, <2>2, WrittenRow DEF Inv
  <2> QED BY <2>1, <2>2, <2>3 DEF WithinReach, Reaches
<1> QED BY <1>1, InvAlways, PTL

\* The audit log is one chain, unless two entries were being written at once
\* (audit_service.record, _latest_entry_hash; what verify_chain looks for).
THEOREM AuditIsAChain == Spec => []ChainHolds
BY InvAlways, PTL DEF Inv
=============================================================================
