------------------------------ MODULE MCAccounts ------------------------------
(* An instance of Accounts for TLC: two super administrators, an            *)
(* administrator of one branch without one permission, and one account to   *)
(* create; three requests, two at a time.                                   *)
EXTENDS Accounts
CONSTANTS b1, b2

Row0(role, scope) == [role |-> role, scope |-> scope, perms |-> RoleDefault,
                      ends |-> "never", active |-> TRUE, tv |-> 1, must |-> FALSE]
MCRows == <<Row0("superadmin", Unrestricted), Row0("superadmin", Unrestricted),
            [Row0("admin", {b1}) EXCEPT !.perms = {"export"}], Absent>>
MCAsked == {Unrestricted, {b2}}
MCGrants == {{"raw_export"}}
=============================================================================
