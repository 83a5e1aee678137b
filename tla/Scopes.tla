-------------------------------- MODULE Scopes --------------------------------
(***************************************************************************)
(* What an account may see and hand on: branch scopes                      *)
(* (app/core/branch_scope.py, api/deps.resolve_branch), roles and feature  *)
(* permissions (app/core/permissions.py, models/user.py).                  *)
(***************************************************************************)
EXTENDS Naturals

CONSTANTS
  Branches,     \* The branch tags of the configured log sources.
  All           \* Stands for None, "unrestricted".

ASSUME ScopeAssumption == All \notin Branches

\* None becomes {All}; an account limited to no branch does not exist.
Unrestricted == {All}
Limited      == (SUBSET Branches) \ {{}}
BranchScope  == Limited \cup {Unrestricted}

\* An empty request for branches means no restriction.
Normalized(branches) == IF branches = {} THEN Unrestricted ELSE branches

BranchMatches(branch, scope) == scope = Unrestricted \/ branch \in scope

ScopeWithin(inner, outer) ==
  \/ outer = Unrestricted
  \/ inner # Unrestricted /\ inner \subseteq outer

\* Refused is the 403 of an account that asks past its scope.
Refused == {}

\* The scope a read is answered with: what was asked for, or all one has.
ResolveBranch(asked, own) ==
  IF asked = Unrestricted THEN own
  ELSE IF ScopeWithin(asked, own) THEN asked ELSE Refused

\* The scope an administrator may grant: the same rule, on whole scopes.
EnforceActorBranches(requested, own) == ResolveBranch(requested, own)

-----------------------------------------------------------------------------

Roles == {"superadmin", "admin", "auditor", "viewer"}

\* The catalogue, reduced to one permission that only administrators have by
\* default, one that auditors have too.
Permissions == {"raw_export", "export"}

\* User.permissions: an explicit set, or None for what the role grants.
RoleDefault == {"role default"}
Stored      == (SUBSET Permissions) \cup {RoleDefault}

RoleDefaults(role) ==
  CASE role \in {"superadmin", "admin"} -> Permissions
    [] role = "auditor"                 -> {"export"}
    [] OTHER                            -> {}

Effective(role, stored) ==
  IF role = "superadmin" \/ stored = RoleDefault THEN RoleDefaults(role) ELSE stored
=============================================================================
