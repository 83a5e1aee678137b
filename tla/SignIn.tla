-------------------------------- MODULE SignIn --------------------------------
(***************************************************************************)
(* One account: signing in with a password and a code, the sessions this   *)
(* opens, their rotating refresh tokens, and everything that ends them     *)
(* (app/api/routes/auth.py, services/session_service.py,                   *)
(* services/totp_service.py, the stores of core/security.py, and the       *)
(* operations of services/user_service.py that touch a user's sessions).   *)
(*                                                                         *)
(* Requests run side by side, each in a transaction of its own. A request  *)
(* is advanced from one statement or commit to the next. As in PostgreSQL  *)
(* (READ COMMITTED) a statement sees what was committed when it started,   *)
(* waits for the rows another transaction has changed, and then looks at   *)
(* those rows again; an UPDATE of a loaded object writes the columns that  *)
(* differ from what was loaded.                                            *)
(***************************************************************************)
EXTENDS Naturals, FiniteSets, FiniteSetsExt

CONSTANTS
  Slots,        \* Requests that can be under way at once.
  MaxRequest,   \* Bounds the requests of the model.
  MaxToken,     \* Bounds the refresh tokens.
  Codes,        \* Recovery codes that can ever be issued.
  MaxAttempts,  \* MfaChallengeStore.MAX_ATTEMPTS.
  Threshold     \* LoginThrottle.failure_threshold.

ASSUME SignInAssumption ==
  /\ Slots \subseteq Nat
  /\ IsFiniteSet(Slots)
  /\ Codes \subseteq Nat \ {0} /\ Codes # {} /\ IsFiniteSet(Codes)
  /\ MaxRequest \in Nat
  /\ MaxToken \in Nat \ {0}
  /\ MaxAttempts \in Nat \ {0}
  /\ Threshold \in Nat \ {0}

VARIABLES
  account,      \* The user row, as far as sign-in reads it.
  tokens,       \* The refresh_tokens rows, as committed.
  access,       \* Per session: the token_version of its newest access token.
  recovery,     \* The recovery codes, as committed.
  challenge,    \* MfaChallengeStore: one challenge, and its failures.
  throttle,     \* LoginThrottle: the entry of this account.
  req,          \* The requests under way.
  served,       \* Requests begun.
  ended,        \* History: sessions that an operation was to end, and has committed.
  outrun,       \* History: those of them a rotation carried past its last update.
  count,        \* History: wrong passwords since the throttle last relented,
                \* wrong codes and sign-ins of the challenge, uses of the codes.
  confirmed,    \* History: the secret a code was confirmed for.
  raced         \* History: operations that overlapped with their like.

vars == <<account, tokens, access, recovery, challenge, throttle, req, served,
          ended, outrun, count, confirmed, raced>>

TokenIds == 1..MaxToken
Sessions == TokenIds        \* A session has the id of its first token.
NoToken  == [session |-> 0, revoked |-> FALSE, expired |-> FALSE]

\* expired: past expires_at. hash and secret: which password, which secret.
FirstRow == [tv |-> 1, active |-> TRUE, expired |-> FALSE, must |-> FALSE,
             hash |-> 1, secret |-> 0, enabled |-> FALSE]
Account  == [tv : Nat, active : BOOLEAN, expired : BOOLEAN, must : BOOLEAN,
             hash : Nat, secret : Nat, enabled : BOOLEAN]
Usable(row) == row.active /\ ~row.expired

\* A request: where it is, the user row as loaded and as it is to be, the
\* session it comes from, its cookie's token, its recovery code, the rows its
\* statement has found, those it has revoked and not committed, the sessions it
\* is to end, and those rotated too late for it.
NoReq == [op |-> "none", pc |-> "none", seen |-> FirstRow, want |-> FirstRow,
          own |-> 0, tok |-> 0, code |-> 0, found |-> {}, write |-> {}, doomed |-> {}, outrun |-> {}]

Request == [op : {"none", "login", "verify", "refresh", "logout", "end", "row", "totp"},
            pc : {"none", "password", "code", "mark", "open", "claim", "rotate", "scan",
                  "first", "second", "store", "commit"},
            seen : Account, want : Account, own : Sessions \cup {0},
            tok : TokenIds \cup {0}, code : Codes \cup {0},
            found : SUBSET TokenIds, write : SUBSET TokenIds, doomed : SUBSET Sessions,
            outrun : SUBSET Sessions]

Init ==
  \E totp \in BOOLEAN :
    /\ account = [FirstRow EXCEPT !.secret = IF totp THEN 1 ELSE 0, !.enabled = totp]
    /\ tokens = [t \in TokenIds |-> [NoToken EXCEPT !.session = IF t = 1 THEN 1 ELSE 0]]
    /\ access = [s \in Sessions |-> IF s = 1 THEN 1 ELSE 0]
    /\ recovery = [c \in Codes |-> IF totp /\ c = Min(Codes) THEN "unused" ELSE "none"]
    /\ challenge \in [state : IF totp THEN {"none", "live"} ELSE {"none"}, failures : {0}]
    /\ throttle = [failures |-> 0, rested |-> TRUE]
    /\ req = [r \in Slots |-> NoReq]
    /\ served = 0
    /\ ended = {} /\ outrun = {}
    /\ count = [passwords |-> 0, guesses |-> 0, signIns |-> 0, uses |-> [c \in Codes |-> 0]]
    /\ confirmed = account.secret
    /\ raced = {}

-----------------------------------------------------------------------------
(* Sessions, access tokens, rows and their locks.                           *)

LiveTokens(s) == {t \in TokenIds : tokens[t].session = s /\ ~tokens[t].revoked}
Valid(t)      == ~tokens[t].revoked /\ ~tokens[t].expired

\* deps._authenticate, for a request of session s.
Authenticated(s) ==
  /\ access[s] = account.tv
  /\ Usable(account)
  /\ \E t \in LiveTokens(s) : ~tokens[t].expired

\* get_current_user: also no temporary password.
Admitted(s) == Authenticated(s) /\ ~account.must

\* Rows another transaction has changed and not yet committed.
TokenHeld(t, r) == \E o \in Slots \ {r} : t \in req[o].write
Flushed(q)      == q.pc \in {"first", "second", "commit"}
RowHeld(r)      == \E o \in Slots \ {r} : Flushed(req[o]) /\ req[o].want # req[o].seen
RowFree(r)      == req[r].want = req[r].seen \/ ~RowHeld(r)

\* The columns an UPDATE of the loaded row writes.
Written(q) == [c \in DOMAIN account |-> IF q.want[c] # q.seen[c] THEN q.want[c]
                                                                ELSE account[c]]

Arrive(r, q) ==
  /\ req[r].op = "none" /\ \A o \in Slots : o < r => req[o].op # "none"
  /\ served < MaxRequest
  /\ served' = served + 1
  /\ req' = [req EXCEPT ![r] = q]

Goto(r, pc) == req' = [req EXCEPT ![r].pc = pc]
Done(r)     == req' = [req EXCEPT ![r] = NoReq]

\* Operations that are under way together with one of their kind.
Racing(r, kind) ==
  raced' = raced \cup {k \in {kind} : \E o \in Slots \ {r} : req[o].op = kind}

-----------------------------------------------------------------------------
(* Password, throttle, code.                                                *)

AllowAttempt == throttle.failures < Threshold \/ throttle.rested

\* Mutant of RecordFailure: the failures are not trimmed to the window.
RecordFailureUntrimmed ==
  /\ throttle' = [failures |-> throttle.failures + 1, rested |-> FALSE]
  /\ count' = [count EXCEPT !.passwords = @ + 1]

RecordFailure ==
  /\ throttle' = [failures |-> IF throttle.failures < Threshold THEN throttle.failures + 1
                                                               ELSE Threshold,
                  rested |-> FALSE]
  /\ count' = [count EXCEPT !.passwords = @ + 1]

NoFailures == [failures |-> 0, rested |-> TRUE]

RecordSuccess ==
  /\ throttle' = NoFailures
  /\ count' = [count EXCEPT !.passwords = 0]

\* Time: the throttled interval passes, or the window of the failures.
Relent ==
  /\ throttle.failures > 0
  /\ \E n \in {0, throttle.failures} : throttle' = [failures |-> n, rested |-> TRUE]
  /\ throttle' # throttle
  /\ count' = [count EXCEPT !.passwords = 0]
  /\ UNCHANGED <<account, tokens, access, recovery, challenge, req, served, ended, outrun,
                 confirmed, raced>>

LoginBegin(r) ==
  /\ AllowAttempt
  /\ Arrive(r, [NoReq EXCEPT !.op = "login", !.pc = "password"])
  /\ UNCHANGED <<account, tokens, access, recovery, challenge, throttle, ended, outrun, count,
                 confirmed, raced>>

\* The model follows one challenge at a time.
ChallengeFree == challenge.state # "live" /\ \A o \in Slots : req[o].pc \notin {"code", "mark"}

\* The user has been read. A right password, with the second factor on, is
\* answered with a challenge, else with a session.
Password(r, right) ==
  /\ req[r].pc = "password"
  /\ IF right THEN throttle' = NoFailures ELSE RecordFailure
  /\ \/ /\ ~right \/ ~Usable(account) \/ (account.enabled /\ ~ChallengeFree)
        /\ right => count' = [count EXCEPT !.passwords = 0]
        /\ Done(r)
        /\ UNCHANGED challenge
     \/ /\ right /\ Usable(account) /\ account.enabled /\ ChallengeFree
        /\ challenge' = [state |-> "live", failures |-> 0]
        /\ count' = [count EXCEPT !.passwords = 0, !.guesses = 0, !.signIns = 0]
        /\ Done(r)
     \/ /\ right /\ Usable(account) /\ ~account.enabled
        /\ req' = [req EXCEPT ![r].pc = "open", ![r].seen = account]
        /\ count' = [count EXCEPT !.passwords = 0]
        /\ UNCHANGED challenge
  /\ UNCHANGED <<account, tokens, access, recovery, served, ended, outrun, confirmed, raced>>

ChallengeExpires ==
  /\ challenge.state = "live"
  /\ challenge' = [challenge EXCEPT !.state = "gone"]
  /\ UNCHANGED <<account, tokens, access, recovery, throttle, req, served, ended, outrun, count,
                 confirmed, raced>>

\* verify-mfa: peek, then the user row.
VerifyBegin(r) ==
  /\ challenge.state = "live"
  /\ account.enabled /\ Usable(account)
  /\ Arrive(r, [NoReq EXCEPT !.op = "verify", !.pc = "code", !.seen = account])
  /\ Racing(r, "verify")
  /\ UNCHANGED <<account, tokens, access, recovery, challenge, throttle, ended, outrun, count,
                 confirmed>>

\* Mutant of FailuresAllowed: the last attempt is given away.
FailuresAllowedLate(c) ==
  [failures |-> c.failures + 1,
   state |-> IF c.failures + 1 > MaxAttempts THEN "gone" ELSE c.state]

\* MfaChallengeStore.record_failure, for a challenge that is still there.
FailuresAllowed(c) ==
  [failures |-> c.failures + 1,
   state |-> IF c.failures + 1 >= MaxAttempts THEN "gone" ELSE c.state]

WrongCode(r) ==
  /\ req[r].pc = "code"
  /\ challenge' = IF challenge.state = "live" THEN FailuresAllowed(challenge) ELSE challenge
  /\ count' = [count EXCEPT !.guesses = @ + 1]
  /\ Done(r)
  /\ UNCHANGED <<account, tokens, access, recovery, throttle, served, ended, outrun, confirmed,
                 raced>>

\* consume(), whose answer verify_mfa does not look at.
Consumed(c) == [c EXCEPT !.state = "gone"]

RightCode(r) ==
  /\ req[r].pc = "code"
  /\ challenge' = Consumed(challenge)
  /\ count' = [count EXCEPT !.signIns = @ + 1]
  /\ Goto(r, "open")
  /\ UNCHANGED <<account, tokens, access, recovery, throttle, served, ended, outrun, confirmed,
                 raced>>

\* A recovery code: selected as unused now, marked used later.
FindCode(r, c) ==
  /\ req[r].pc = "code"
  /\ recovery[c] = "unused"
  /\ req' = [req EXCEPT ![r].pc = "mark", ![r].code = c]
  /\ UNCHANGED <<account, tokens, access, recovery, challenge, throttle, served, ended, outrun,
                 count, confirmed, raced>>

\* Mutant of MarkCode: the update does not reach the code.
MarkCodeLost(r) ==
  /\ req[r].pc = "mark"
  /\ challenge' = Consumed(challenge)
  /\ count' = [count EXCEPT !.signIns = @ + 1, !.uses[req[r].code] = @ + 1]
  /\ Goto(r, "open")
  /\ UNCHANGED <<account, tokens, access, recovery, throttle, served, ended, outrun, confirmed,
                 raced>>

\* Marked by its id, whatever it has become, and committed.
MarkCode(r) ==
  /\ req[r].pc = "mark"
  /\ recovery' = [recovery EXCEPT ![req[r].code] = IF @ = "unused" THEN "used" ELSE @]
  /\ challenge' = Consumed(challenge)
  /\ count' = [count EXCEPT !.signIns = @ + 1, !.uses[req[r].code] = @ + 1]
  /\ Goto(r, "open")
  /\ UNCHANGED <<account, tokens, access, throttle, served, ended, outrun, confirmed, raced>>

\* The next token that has not been given out.
Fresh == {t \in TokenIds : /\ tokens[t].session = 0
                           /\ \A u \in 1..(t - 1) : tokens[u].session # 0}

\* _complete_login: last_login_at and a new session, with the row as it was
\* when the request loaded it.
Open(r) ==
  /\ req[r].pc = "open"
  /\ ~RowHeld(r)
  /\ \E t \in Fresh :
       /\ tokens' = [tokens EXCEPT ![t].session = t]
       /\ access' = [access EXCEPT ![t] = req[r].seen.tv]
  /\ Done(r)
  /\ UNCHANGED <<account, recovery, challenge, throttle, served, ended, outrun, count, confirmed,
                 raced>>

-----------------------------------------------------------------------------
(* Refresh and sign-out, with a cookie the client may have kept.            *)

TokenExpires(t) ==
  /\ tokens[t].session # 0 /\ ~tokens[t].expired
  /\ tokens' = [tokens EXCEPT ![t].expired = TRUE]
  /\ UNCHANGED <<account, access, recovery, challenge, throttle, req, served, ended, outrun,
                 count, confirmed, raced>>

\* A token that is no longer valid, or comes with a wrong secret, is taken for a
\* stolen one.
RefreshBegin(r, t, secret) ==
  /\ tokens[t].session # 0
  /\ Arrive(r, [NoReq EXCEPT !.op = "refresh", !.tok = t,
                             !.pc = IF Valid(t) /\ secret THEN "claim" ELSE "scan"])
  /\ UNCHANGED <<account, tokens, access, recovery, challenge, throttle, ended, outrun, count,
                 confirmed, raced>>

\* Mutant of Claim: what was read is relied on.
ClaimUnconditional(r) ==
  /\ req[r].pc = "claim"
  /\ ~TokenHeld(req[r].tok, r)
  /\ req' = [req EXCEPT ![r].pc = IF Usable(account) THEN "rotate" ELSE "commit",
                        ![r].seen = account, ![r].want = account,
                        ![r].write = {req[r].tok}]
  /\ UNCHANGED <<account, tokens, access, recovery, challenge, throttle, served, ended, outrun,
                 count, confirmed, raced>>

\* UPDATE ... WHERE jti = ... AND NOT revoked, then the user row.
Claim(r) ==
  /\ req[r].pc = "claim"
  /\ ~TokenHeld(req[r].tok, r)
  /\ \/ /\ tokens[req[r].tok].revoked
        /\ Done(r)
     \/ /\ ~tokens[req[r].tok].revoked
        /\ req' = [req EXCEPT ![r].pc = IF Usable(account) THEN "rotate" ELSE "commit",
                              ![r].seen = account, ![r].want = account,
                              ![r].write = {req[r].tok}]
  /\ UNCHANGED <<account, tokens, access, recovery, challenge, throttle, served, ended, outrun,
                 count, confirmed, raced>>

\* Its last update has its rows, but has not written them: a logout's writes the
\* token it loaded, the others start their last one after an earlier one.
LastUpdate(q) == q.pc = "second" \/ (q.pc = "first" /\ q.op = "logout")

\* The next token of the session, and the commit. A statement that waits for
\* this transaction started before the new row was there.
Rotate(r) ==
  /\ req[r].pc = "rotate"
  /\ LET old == req[r].tok
         s   == tokens[old].session
     IN /\ \E t \in Fresh :
             tokens' = [tokens EXCEPT ![old].revoked = TRUE, ![t].session = s]
        /\ access' = [access EXCEPT ![s] = req[r].seen.tv]
        /\ req' = [o \in Slots |->
             IF o = r THEN NoReq
             ELSE IF LastUpdate(req[o]) /\ old \in req[o].found
                  THEN [req[o] EXCEPT !.outrun = @ \cup {s}] ELSE req[o]]
  /\ UNCHANGED <<account, recovery, challenge, throttle, served, ended, outrun, count, confirmed,
                 raced>>

\* logout loads the row, whose session it is to end; the update follows, if there
\* is anything to change.
LogoutBegin(r, t) ==
  /\ tokens[t].session # 0 /\ ~tokens[t].revoked
  /\ Arrive(r, [NoReq EXCEPT !.op = "logout", !.pc = "first", !.found = {t},
                             !.doomed = {tokens[t].session}])
  /\ UNCHANGED <<account, tokens, access, recovery, challenge, throttle, ended, outrun, count,
                 confirmed, raced>>

-----------------------------------------------------------------------------
(* Operations that end sessions: reset_password, set_active(False),         *)
(* revoke_sessions of user_service and of the account itself, and           *)
(* change_own_password. own = 0: an administrator asks.                     *)

EndBegin(r, op, own, row) ==
  /\ Arrive(r, [NoReq EXCEPT !.op = op, !.pc = "scan", !.own = own,
                             !.seen = account, !.want = row])
  /\ UNCHANGED <<account, tokens, access, recovery, challenge, ended, outrun, confirmed, raced>>

ResetPassword(r) ==
  /\ EndBegin(r, "end", 0, [account EXCEPT !.hash = @ + 1, !.must = TRUE, !.tv = @ + 1])
  /\ UNCHANGED <<throttle, count>>

Deactivate(r) ==
  /\ account.active
  /\ EndBegin(r, "end", 0, [account EXCEPT !.active = FALSE, !.tv = @ + 1])
  /\ UNCHANGED <<throttle, count>>

RevokeSessions(r, own) ==
  /\ own # 0 => Admitted(own)
  /\ EndBegin(r, "end", own, account)
  /\ UNCHANGED <<throttle, count>>

\* The current password is checked under the throttle first.
ChangeOwnPassword(r, own) ==
  /\ Authenticated(own)
  /\ AllowAttempt
  /\ EndBegin(r, "end", own, [account EXCEPT !.hash = @ + 1, !.must = FALSE])
  /\ RecordSuccess

OwnPasswordWrong(own) ==
  /\ Authenticated(own)
  /\ AllowAttempt
  /\ served < MaxRequest /\ \E r \in Slots : req[r].op = "none"
  /\ served' = served + 1
  /\ RecordFailure
  /\ UNCHANGED <<account, tokens, access, recovery, challenge, req, ended, outrun, confirmed,
                 raced>>

\* The rows an UPDATE of session_service.revoke would change now.
Matching(q) == {t \in TokenIds : /\ tokens[t].session \notin {0, q.own}
                                 /\ ~tokens[t].revoked}

\* Mutant of NextScan: one update, and the commit.
NextScanNone == "commit"

\* After the update of the live rows a second one, for expired leftovers.
NextScan == "second"

\* A statement starts: the user row is flushed, and the rows are found. The
\* handling of a stolen token has only the second kind of statement.
Scan(r) ==
  /\ req[r].pc = "scan"
  /\ RowFree(r)
  /\ LET found == IF req[r].op = "refresh" THEN Matching(req[r])
                  ELSE {t \in Matching(req[r]) : ~tokens[t].expired}
     IN req' = [req EXCEPT ![r].pc = IF req[r].op = "refresh" THEN "second" ELSE "first",
                           ![r].found = found,
                           ![r].doomed = {tokens[t].session : t \in found}]
  /\ UNCHANGED <<account, tokens, access, recovery, challenge, throttle, served, ended, outrun,
                 count, confirmed, raced>>

\* The statement has its rows: those it found that are still not revoked. The
\* next statement starts, if there is one.
Update(r) ==
  /\ req[r].pc \in {"first", "second"}
  /\ \A t \in req[r].found : ~TokenHeld(t, r)
  /\ LET write == req[r].write \cup {t \in req[r].found : ~tokens[t].revoked}
         next  == IF req[r].pc = "first" /\ req[r].op = "end" THEN NextScan ELSE "commit"
     IN req' = [req EXCEPT
          ![r].pc = next,
          ![r].write = write,
          ![r].found = IF next = "second" THEN Matching(req[r]) \ write ELSE {}]
  /\ UNCHANGED <<account, tokens, access, recovery, challenge, throttle, served, ended, outrun,
                 count, confirmed, raced>>

-----------------------------------------------------------------------------
(* Operations on the user row alone.                                        *)

RowBegin(r, op, row) ==
  /\ row # account
  /\ Arrive(r, [NoReq EXCEPT !.op = op, !.pc = "store", !.seen = account, !.want = row])
  /\ UNCHANGED <<account, tokens, access, recovery, challenge, throttle, ended, outrun, count,
                 confirmed>>

\* set_active(True) clears the throttle once it has committed; here it leaves
\* it, as a throttle that has relented is among the states.
Activate(r) == RowBegin(r, "row", [account EXCEPT !.active = TRUE]) /\ UNCHANGED raced

\* update_role, update_branches, update_permissions; and update_expiry, which
\* leaves token_version alone.
Grant(r) == RowBegin(r, "row", [account EXCEPT !.tv = @ + 1]) /\ UNCHANGED raced
SetExpiry(r) == RowBegin(r, "row", [account EXCEPT !.expired = ~@]) /\ UNCHANGED raced

\* Mutant of TotpConfirm: a second factor that is on may be confirmed again.
TotpConfirmAny(r, own) ==
  /\ Admitted(own)
  /\ RowBegin(r, "totp", [account EXCEPT !.enabled = TRUE, !.secret = served + 2])
  /\ Racing(r, "totp")

\* begin_setup: every call replaces a secret that is not confirmed.
TotpSetup(r, own) ==
  /\ Admitted(own) /\ ~account.enabled
  /\ RowBegin(r, "totp", [account EXCEPT !.secret = served + 2])
  /\ Racing(r, "totp")

\* confirm_setup, with the right code for the secret that was loaded.
TotpConfirm(r, own) ==
  /\ Admitted(own) /\ ~account.enabled /\ account.secret # 0
  /\ RowBegin(r, "totp", [account EXCEPT !.enabled = TRUE])
  /\ Racing(r, "totp")

\* disable, by the owner with the password, or an administrator's reset_totp.
TotpRemove(r) ==
  /\ account.enabled \/ account.secret # 0
  /\ RowBegin(r, "totp", [account EXCEPT !.enabled = FALSE, !.secret = 0])
  /\ Racing(r, "totp")

Store(r) ==
  /\ req[r].pc = "store"
  /\ RowFree(r)
  /\ Goto(r, "commit")
  /\ UNCHANGED <<account, tokens, access, recovery, challenge, throttle, served, ended, outrun,
                 count, confirmed, raced>>

\* The codes after a confirmation (one new one), and after a removal.
NextCode(c) == recovery[c] = "none" /\ \A d \in Codes : d < c => recovery[d] # "none"
Issued  == [c \in Codes |-> IF NextCode(c) THEN "unused" ELSE recovery[c]]
Deleted == [c \in Codes |-> IF recovery[c] = "none" THEN "none" ELSE "deleted"]

Commit(r) ==
  /\ req[r].pc = "commit"
  /\ LET q == req[r] IN
       /\ account' = Written(q)
       /\ tokens' = [t \in TokenIds |->
            IF t \in q.write THEN [tokens[t] EXCEPT !.revoked = TRUE] ELSE tokens[t]]
       /\ recovery' = IF q.op # "totp" THEN recovery
                       ELSE IF q.want.enabled THEN Issued
                       ELSE IF q.want.secret = 0 THEN Deleted ELSE recovery
       /\ confirmed' = IF q.op = "totp" /\ q.want.enabled THEN q.seen.secret ELSE confirmed
       /\ ended' = ended \cup q.doomed
       /\ outrun' = (outrun \ q.doomed) \cup (q.doomed \cap q.outrun)
  /\ Done(r)
  /\ UNCHANGED <<access, challenge, throttle, served, count, raced>>

-----------------------------------------------------------------------------

Next ==
  \/ Relent \/ ChallengeExpires
  \/ \E t \in TokenIds : TokenExpires(t)
  \/ \E s \in Sessions : OwnPasswordWrong(s)
  \/ \E r \in Slots :
       \/ LoginBegin(r) \/ (\E right \in BOOLEAN : Password(r, right))
       \/ VerifyBegin(r) \/ WrongCode(r) \/ RightCode(r) \/ MarkCode(r) \/ Open(r)
       \/ \E c \in Codes : FindCode(r, c)
       \/ \E t \in TokenIds : LogoutBegin(r, t) \/ \E secret \in BOOLEAN : RefreshBegin(r, t, secret)
       \/ Claim(r) \/ Rotate(r) \/ Scan(r) \/ Update(r) \/ Store(r) \/ Commit(r)
       \/ ResetPassword(r) \/ Deactivate(r) \/ Activate(r) \/ Grant(r) \/ SetExpiry(r)
       \/ \E s \in Sessions \cup {0} : RevokeSessions(r, s)
       \/ \E s \in Sessions : \/ ChangeOwnPassword(r, s) \/ TotpSetup(r, s)
                              \/ TotpConfirm(r, s)
       \/ TotpRemove(r)

Spec == Init /\ [][Next]_vars

-----------------------------------------------------------------------------
(* Properties.                                                              *)

RowTypeOK ==
  /\ account \in Account
  /\ tokens \in [TokenIds -> [session : Sessions \cup {0}, revoked : BOOLEAN,
                              expired : BOOLEAN]]
  /\ access \in [Sessions -> Nat]
  /\ recovery \in [Codes -> {"none", "unused", "used", "deleted"}]

StoreTypeOK ==
  /\ challenge \in [state : {"none", "live", "gone"}, failures : Nat]
  /\ throttle \in [failures : 0..Threshold, rested : BOOLEAN]

RequestTypeOK ==
  /\ req \in [Slots -> Request]
  /\ served \in 0..MaxRequest

HistoryTypeOK ==
  /\ ended \subseteq Sessions /\ outrun \subseteq ended
  /\ count \in [passwords : Nat, guesses : Nat, signIns : Nat, uses : [Codes -> Nat]]
  /\ confirmed \in Nat
  /\ raced \subseteq {"verify", "totp"}

TypeOK == RowTypeOK /\ StoreTypeOK /\ RequestTypeOK /\ HistoryTypeOK

\* Two requests with the same cookie never both mint a token from it: a session
\* has at most one token that is not revoked (auth.refresh, "Rotate atomically").
OneLiveToken == \A s \in Sessions : Cardinality(LiveTokens(s)) <= 1

\* What a session is to one who holds its cookies.
Status ==
  [s \in Sessions |-> IF LiveTokens(s) # {} THEN "live"
                      ELSE IF \E t \in TokenIds : tokens[t].session = s THEN "dead"
                      ELSE "none"]

Chain == INSTANCE SessionChain WITH status <- Status

\* A session starts once and, ended by whatever operation, never lives again,
\* whichever refresh, sign-out or revocation is still under way.
SessionsAreChains == Chain!Spec

\* A session that was live when an operation set out to end it is over once
\* that has committed, rotated in between or not. Excepted, as outrun, is a
\* session whose token is replaced after the last of the operation's updates has
\* picked its rows: for a logout, which updates the row it loaded, any rotation
\* in between (auth.logout); else one that this update waits for
\* (session_service.revoke; auth.refresh on reuse). A sign-in under way opens a
\* session that nobody set out to end.
EndedIsOver == \A s \in ended \ outrun : LiveTokens(s) = {}

\* A challenge opens one session and a recovery code is accepted once, unless
\* two verifications of the challenge were under way together (auth.verify_mfa,
\* totp_service.verify_login_code).
SingleUse ==
  "verify" \in raced \/ (count.signIns <= 1 /\ \A c \in Codes : count.uses[c] <= 1)

\* Guesses that run side by side exceed the limits by at most their number less
\* one (LoginThrottle, MfaChallengeStore).
GuessesBounded ==
  /\ count.passwords <= Threshold + Cardinality(Slots) - 1
  /\ count.guesses <= MaxAttempts + Cardinality(Slots) - 1

\* The second factor is on only with a secret that a code was confirmed for,
\* unless two operations on it were under way together (totp_service).
EnabledIsConfirmed == "totp" \in raced \/ (account.enabled => account.secret = confirmed)
=============================================================================
