---------------------------- MODULE SignInProofs ----------------------------
(* Theorems about SignIn, for any number of requests, tokens, codes and     *)
(* attempts: what tokens reach, and what the challenges, the codes, the     *)
(* throttle and the second factor let pass.                                 *)
EXTENDS SignIn, TLAPS, FiniteSetTheorems

-----------------------------------------------------------------------------
(* Types.                                                                   *)

LEMMA FirstRowType == FirstRow \in Account
BY DEF FirstRow, Account

LEMMA NoReqType == NoReq \in Request
BY FirstRowType DEF NoReq, Request

LEMMA ArriveType ==
  ASSUME TypeOK, NEW r \in Slots, NEW q \in Request, Arrive(r, q)
  PROVE  RequestTypeOK'
BY SignInAssumption DEF Arrive, TypeOK, RequestTypeOK

\* What a step does to the request it advances.
LEMMA AdvanceType ==
  ASSUME TypeOK, NEW r \in Slots, NEW q \in Request,
         req' = [req EXCEPT ![r] = q], UNCHANGED served
  PROVE  RequestTypeOK'
BY DEF TypeOK, RequestTypeOK

LEMMA GotoType ==
  ASSUME TypeOK, NEW r \in Slots, NEW pc \in {"open", "commit"}, Goto(r, pc), UNCHANGED served
  PROVE  RequestTypeOK'
<1>1. [req[r] EXCEPT !.pc = pc] \in Request
  BY DEF TypeOK, RequestTypeOK, Request
<1>2. req' = [req EXCEPT ![r] = [req[r] EXCEPT !.pc = pc]]
  BY DEF Goto
<1> QED BY <1>1, <1>2, AdvanceType

LEMMA DoneType ==
  ASSUME TypeOK, NEW r \in Slots, Done(r), UNCHANGED served
  PROVE  RequestTypeOK'
BY NoReqType, AdvanceType DEF Done

LEMMA RelentType ==
  ASSUME TypeOK, Relent
  PROVE  TypeOK'
<1>1. RowTypeOK'
  BY DEF TypeOK, RowTypeOK, Relent
<1>2. StoreTypeOK'
  BY SignInAssumption DEF TypeOK, StoreTypeOK, Relent
<1>3. RequestTypeOK'
  BY DEF TypeOK, RequestTypeOK, Relent
<1>4. HistoryTypeOK'
  BY DEF TypeOK, HistoryTypeOK, Relent
<1> QED BY <1>1, <1>2, <1>3, <1>4 DEF TypeOK

LEMMA ChallengeExpiresType ==
  ASSUME TypeOK, ChallengeExpires
  PROVE  TypeOK'
<1>1. RowTypeOK'
  BY DEF TypeOK, RowTypeOK, ChallengeExpires
<1>2. StoreTypeOK'
  BY SignInAssumption DEF TypeOK, StoreTypeOK, ChallengeExpires
<1>3. RequestTypeOK'
  BY DEF TypeOK, RequestTypeOK, ChallengeExpires
<1>4. HistoryTypeOK'
  BY DEF TypeOK, HistoryTypeOK, ChallengeExpires
<1> QED BY <1>1, <1>2, <1>3, <1>4 DEF TypeOK

LEMMA TokenExpiresType ==
  ASSUME TypeOK, NEW t \in TokenIds, TokenExpires(t)
  PROVE  TypeOK'
<1>1. RowTypeOK'
  BY DEF TypeOK, RowTypeOK, TokenExpires
<1>2. StoreTypeOK'
  BY SignInAssumption DEF TypeOK, StoreTypeOK, TokenExpires
<1>3. RequestTypeOK'
  BY DEF TypeOK, RequestTypeOK, TokenExpires
<1>4. HistoryTypeOK'
  BY DEF TypeOK, HistoryTypeOK, TokenExpires
<1> QED BY <1>1, <1>2, <1>3, <1>4 DEF TypeOK

LEMMA OwnPasswordWrongType ==
  ASSUME TypeOK, NEW s \in Sessions, OwnPasswordWrong(s)
  PROVE  TypeOK'
<1>1. RowTypeOK'
  BY DEF TypeOK, RowTypeOK, OwnPasswordWrong, RecordFailure
<1>2. StoreTypeOK'
  BY SignInAssumption DEF TypeOK, StoreTypeOK, OwnPasswordWrong, RecordFailure
<1>3. RequestTypeOK'
  BY SignInAssumption DEF TypeOK, RequestTypeOK, OwnPasswordWrong
<1>4. HistoryTypeOK'
  BY DEF TypeOK, HistoryTypeOK, OwnPasswordWrong, RecordFailure
<1> QED BY <1>1, <1>2, <1>3, <1>4 DEF TypeOK

LEMMA LoginBeginType ==
  ASSUME TypeOK, NEW r \in Slots, LoginBegin(r)
  PROVE  TypeOK'
<1>1. RowTypeOK'
  BY DEF TypeOK, RowTypeOK, LoginBegin
<1>2. StoreTypeOK'
  BY SignInAssumption DEF TypeOK, StoreTypeOK, LoginBegin
<1>3. RequestTypeOK'
  <2>1. [NoReq EXCEPT !.op = "login", !.pc = "password"] \in Request
    BY NoReqType, FirstRowType DEF NoReq, Request
  <2> QED BY <2>1, ArriveType DEF LoginBegin
<1>4. HistoryTypeOK'
  BY DEF TypeOK, HistoryTypeOK, LoginBegin
<1> QED BY <1>1, <1>2, <1>3, <1>4 DEF TypeOK

LEMMA VerifyBeginType ==
  ASSUME TypeOK, NEW r \in Slots, VerifyBegin(r)
  PROVE  TypeOK'
<1>1. RowTypeOK'
  BY DEF TypeOK, RowTypeOK, VerifyBegin, Racing
<1>2. StoreTypeOK'
  BY SignInAssumption DEF TypeOK, StoreTypeOK, VerifyBegin, Racing
<1>3. RequestTypeOK'
  <2>1. account \in Account
    BY DEF TypeOK, RowTypeOK
  <2>3. [NoReq EXCEPT !.op = "verify", !.pc = "code", !.seen = account] \in Request
    BY <2>1, NoReqType DEF NoReq, Request
  <2> QED BY <2>3, ArriveType DEF VerifyBegin
<1>4. HistoryTypeOK'
  BY DEF TypeOK, HistoryTypeOK, VerifyBegin, Racing
<1> QED BY <1>1, <1>2, <1>3, <1>4 DEF TypeOK

LEMMA PasswordType ==
  ASSUME TypeOK, NEW r \in Slots, NEW right \in BOOLEAN, Password(r, right)
  PROVE  TypeOK'
<1>1. RowTypeOK'
  BY DEF TypeOK, RowTypeOK, Password
<1>2. StoreTypeOK'
  <2>1. throttle' \in [failures : 0..Threshold, rested : BOOLEAN]
    <3>1. CASE right
      <4>1. throttle' = NoFailures
        BY <3>1 DEF Password
      <4> QED BY <4>1, SignInAssumption DEF NoFailures
    <3>2. CASE ~right
      <4>1. RecordFailure
        BY <3>2 DEF Password
      <4> QED BY <4>1, SignInAssumption DEF RecordFailure, TypeOK, StoreTypeOK
    <3> QED BY <3>1, <3>2
  <2>2. challenge' \in [state : {"none", "live", "gone"}, failures : Nat]
    BY DEF Password, TypeOK, StoreTypeOK
  <2> QED BY <2>1, <2>2 DEF StoreTypeOK
<1>3. RequestTypeOK'
  <2>1. CASE Done(r)
    BY <2>1, DoneType DEF Password
  <2>2. CASE req' = [req EXCEPT ![r].pc = "open", ![r].seen = account]
    <3>1. account \in Account /\ req[r] \in Request
      BY DEF TypeOK, RowTypeOK, RequestTypeOK
    <3>2. [req[r] EXCEPT !.pc = "open", !.seen = account] \in Request
      BY <3>1 DEF Request
    <3>3. req' = [req EXCEPT ![r] = [req[r] EXCEPT !.pc = "open", !.seen = account]]
      BY <2>2, <3>1 DEF TypeOK, RequestTypeOK
    <3>4. UNCHANGED served
      BY DEF Password
    <3> QED BY <3>2, <3>3, <3>4, AdvanceType
  <2> QED BY <2>1, <2>2 DEF Password
<1>4. HistoryTypeOK'
  <2>1. count' \in [passwords : Nat, guesses : Nat, signIns : Nat, uses : [Codes -> Nat]]
    <3>1. CASE right
      <4>1. \/ count' = [count EXCEPT !.passwords = 0]
            \/ count' = [count EXCEPT !.passwords = 0, !.guesses = 0, !.signIns = 0]
        BY <3>1 DEF Password
      <4>2. CASE count' = [count EXCEPT !.passwords = 0]
        BY <4>2 DEF TypeOK, HistoryTypeOK
      <4>3. CASE count' = [count EXCEPT !.passwords = 0, !.guesses = 0, !.signIns = 0]
        BY <4>3 DEF TypeOK, HistoryTypeOK
      <4> QED BY <4>1, <4>2, <4>3
    <3>2. CASE ~right
      <4>1. count' = [count EXCEPT !.passwords = @ + 1]
        BY <3>2 DEF Password, RecordFailure
      <4> QED BY <4>1 DEF TypeOK, HistoryTypeOK
    <3> QED BY <3>1, <3>2
  <2> QED BY <2>1 DEF Password, TypeOK, HistoryTypeOK
<1> QED BY <1>1, <1>2, <1>3, <1>4 DEF TypeOK

LEMMA WrongCodeType ==
  ASSUME TypeOK, NEW r \in Slots, WrongCode(r)
  PROVE  TypeOK'
<1>1. RowTypeOK'
  BY DEF TypeOK, RowTypeOK, WrongCode, FailuresAllowed
<1>2. StoreTypeOK'
  BY SignInAssumption DEF TypeOK, StoreTypeOK, WrongCode, FailuresAllowed
<1>3. RequestTypeOK'
  BY DoneType DEF WrongCode
<1>4. HistoryTypeOK'
  BY DEF TypeOK, HistoryTypeOK, WrongCode, FailuresAllowed
<1> QED BY <1>1, <1>2, <1>3, <1>4 DEF TypeOK

LEMMA RightCodeType ==
  ASSUME TypeOK, NEW r \in Slots, RightCode(r)
  PROVE  TypeOK'
<1>1. RowTypeOK'
  BY DEF TypeOK, RowTypeOK, RightCode, Consumed
<1>2. StoreTypeOK'
  BY SignInAssumption DEF TypeOK, StoreTypeOK, RightCode, Consumed
<1>3. RequestTypeOK'
  BY GotoType DEF RightCode
<1>4. HistoryTypeOK'
  BY DEF TypeOK, HistoryTypeOK, RightCode, Consumed
<1> QED BY <1>1, <1>2, <1>3, <1>4 DEF TypeOK

LEMMA FindCodeType ==
  ASSUME TypeOK, NEW r \in Slots, NEW c \in Codes, FindCode(r, c)
  PROVE  TypeOK'
<1>1. RowTypeOK'
  BY DEF TypeOK, RowTypeOK, FindCode
<1>2. StoreTypeOK'
  BY SignInAssumption DEF TypeOK, StoreTypeOK, FindCode
<1>3. RequestTypeOK'
  <2>1. [req[r] EXCEPT !.pc = "mark", !.code = c] \in Request
    <3>1. req[r] \in Request
      BY DEF TypeOK, RequestTypeOK
    <3> QED BY <3>1 DEF Request
  <2> QED BY <2>1, AdvanceType DEF FindCode
<1>4. HistoryTypeOK'
  BY DEF TypeOK, HistoryTypeOK, FindCode
<1> QED BY <1>1, <1>2, <1>3, <1>4 DEF TypeOK

LEMMA MarkCodeType ==
  ASSUME TypeOK, NEW r \in Slots, MarkCode(r)
  PROVE  TypeOK'
<1>1. RowTypeOK'
  <2>1. \A c \in Codes : recovery'[c] = recovery[c] \/ recovery'[c] = "used"
    BY DEF MarkCode, TypeOK, RowTypeOK
  <2>2. DOMAIN recovery' = Codes /\ recovery' = [c \in Codes |-> recovery'[c]]
    BY DEF MarkCode, TypeOK, RowTypeOK
  <2> QED BY <2>1, <2>2 DEF MarkCode, TypeOK, RowTypeOK
<1>2. StoreTypeOK'
  BY SignInAssumption DEF TypeOK, StoreTypeOK, MarkCode, Consumed
<1>3. RequestTypeOK'
  BY GotoType DEF MarkCode
<1>4. HistoryTypeOK'
  <2>1. count'.uses \in [Codes -> Nat]
    <3>1. count.uses \in [Codes -> Nat]
      BY DEF TypeOK, HistoryTypeOK
    <3>2. count'.uses = [count.uses EXCEPT ![req[r].code] = @ + 1]
      BY DEF MarkCode, TypeOK, HistoryTypeOK
    <3>3. \A c \in Codes : count.uses[c] \in Nat /\ count.uses[c] + 1 \in Nat
      BY <3>1
    <3>4. \A c \in Codes : count'.uses[c] \in {count.uses[c], count.uses[c] + 1}
      BY <3>1, <3>2
    <3>5. DOMAIN count'.uses = Codes /\ count'.uses = [c \in Codes |-> count'.uses[c]]
      BY <3>1, <3>2
    <3> QED BY <3>3, <3>4, <3>5
  <2>2. count' = [passwords |-> count.passwords, guesses |-> count.guesses,
                  signIns |-> count.signIns + 1, uses |-> count'.uses]
    BY DEF MarkCode, TypeOK, HistoryTypeOK
  <2> QED BY <2>1, <2>2 DEF MarkCode, TypeOK, HistoryTypeOK
<1> QED BY <1>1, <1>2, <1>3, <1>4 DEF TypeOK

LEMMA OpenType ==
  ASSUME TypeOK, NEW r \in Slots, Open(r)
  PROVE  TypeOK'
<1>1. RowTypeOK'
  <2>1. PICK t \in Fresh : /\ tokens' = [tokens EXCEPT ![t].session = t]
                            /\ access' = [access EXCEPT ![t] = req[r].seen.tv]
    BY DEF Open
  <2>2. t \in TokenIds /\ t \in Sessions
    BY DEF Fresh, Sessions
  <2>3. req[r].seen.tv \in Nat
    BY DEF TypeOK, RequestTypeOK, Request, Account
  <2> QED BY <2>1, <2>2, <2>3 DEF Open, TypeOK, RowTypeOK
<1>2. StoreTypeOK'
  BY SignInAssumption DEF TypeOK, StoreTypeOK, Open
<1>3. RequestTypeOK'
  BY DoneType DEF Open
<1>4. HistoryTypeOK'
  BY DEF TypeOK, HistoryTypeOK, Open
<1> QED BY <1>1, <1>2, <1>3, <1>4 DEF TypeOK

LEMMA RefreshBeginType ==
  ASSUME TypeOK, NEW r \in Slots, NEW t \in TokenIds, NEW secret \in BOOLEAN,
         RefreshBegin(r, t, secret)
  PROVE  TypeOK'
<1>1. RowTypeOK'
  BY DEF TypeOK, RowTypeOK, RefreshBegin
<1>2. StoreTypeOK'
  BY SignInAssumption DEF TypeOK, StoreTypeOK, RefreshBegin
<1>3. RequestTypeOK'
  <2>1. [NoReq EXCEPT !.op = "refresh", !.tok = t,
                    !.pc = IF Valid(t) /\ secret THEN "claim" ELSE "scan"] \in Request
    BY NoReqType, FirstRowType DEF NoReq, Request
  <2> QED BY <2>1, ArriveType DEF RefreshBegin
<1>4. HistoryTypeOK'
  BY DEF TypeOK, HistoryTypeOK, RefreshBegin
<1> QED BY <1>1, <1>2, <1>3, <1>4 DEF TypeOK

LEMMA LogoutBeginType ==
  ASSUME TypeOK, NEW r \in Slots, NEW t \in TokenIds, LogoutBegin(r, t)
  PROVE  TypeOK'
<1>1. RowTypeOK'
  BY DEF TypeOK, RowTypeOK, LogoutBegin
<1>2. StoreTypeOK'
  BY SignInAssumption DEF TypeOK, StoreTypeOK, LogoutBegin
<1>3. RequestTypeOK'
  <2>1. tokens[t].session \in Sessions
    BY DEF LogoutBegin, TypeOK, RowTypeOK
  <2>2. [NoReq EXCEPT !.op = "logout", !.pc = "first", !.found = {t},
                      !.doomed = {tokens[t].session}] \in Request
    BY <2>1, NoReqType, FirstRowType DEF NoReq, Request
  <2> QED BY <2>2, ArriveType DEF LogoutBegin
<1>4. HistoryTypeOK'
  BY DEF TypeOK, HistoryTypeOK, LogoutBegin
<1> QED BY <1>1, <1>2, <1>3, <1>4 DEF TypeOK

LEMMA ClaimType ==
  ASSUME TypeOK, NEW r \in Slots, req[r].tok \in TokenIds, Claim(r)
  PROVE  TypeOK'
<1>1. RowTypeOK'
  BY DEF TypeOK, RowTypeOK, Claim
<1>2. StoreTypeOK'
  BY SignInAssumption DEF TypeOK, StoreTypeOK, Claim
<1>3. RequestTypeOK'
  <2> DEFINE q == [req[r] EXCEPT !.pc = IF Usable(account) THEN "rotate" ELSE "commit",
                                 !.seen = account, !.want = account, !.write = {req[r].tok}]
  <2>1. CASE Done(r)
    BY <2>1, DoneType DEF Claim
  <2>2. CASE req' = [req EXCEPT ![r].pc = IF Usable(account) THEN "rotate" ELSE "commit",
                                ![r].seen = account, ![r].want = account,
                                ![r].write = {req[r].tok}]
    <3>1. account \in Account /\ req[r] \in Request
      BY DEF TypeOK, RowTypeOK, RequestTypeOK
    <3>2. q \in Request
      BY <3>1 DEF Request
    <3>3. req' = [req EXCEPT ![r] = q]
      BY <2>2
    <3>4. UNCHANGED served
      BY DEF Claim
    <3> QED BY <3>2, <3>3, <3>4, AdvanceType
  <2> QED BY <2>1, <2>2 DEF Claim
<1>4. HistoryTypeOK'
  BY DEF TypeOK, HistoryTypeOK, Claim
<1> QED BY <1>1, <1>2, <1>3, <1>4 DEF TypeOK

LEMMA RotateType ==
  ASSUME TypeOK, NEW r \in Slots, req[r].tok \in TokenIds, tokens[req[r].tok].session # 0,
         Rotate(r)
  PROVE  TypeOK'
<1>1. RowTypeOK'
  <2>1. PICK t \in Fresh : tokens' = [tokens EXCEPT ![req[r].tok].revoked = TRUE,
                                                 ![t].session = tokens[req[r].tok].session]
    BY DEF Rotate
  <2>2. t \in TokenIds /\ req[r].tok \in TokenIds
    BY DEF Fresh
  <2>3. req[r].seen.tv \in Nat
    BY DEF TypeOK, RequestTypeOK, Request, Account
  <2>4. tokens[req[r].tok].session \in Sessions \cup {0}
    BY DEF TypeOK, RowTypeOK
  <2> DEFINE Token == [session : Sessions \cup {0}, revoked : BOOLEAN, expired : BOOLEAN]
  <2>5. tokens' \in [TokenIds -> Token]
    <3>1. tokens \in [TokenIds -> Token]
      BY DEF TypeOK, RowTypeOK
    <3>2. [tokens EXCEPT ![req[r].tok].revoked = TRUE] \in [TokenIds -> Token]
      BY <2>2, <3>1
    <3> QED BY <2>1, <2>2, <2>4, <3>2
  <2>6. access' \in [Sessions -> Nat]
    BY <2>3 DEF Rotate, TypeOK, RowTypeOK
  <2> QED BY <2>5, <2>6 DEF Rotate, TypeOK, RowTypeOK
<1>2. StoreTypeOK'
  BY SignInAssumption DEF TypeOK, StoreTypeOK, Rotate
<1>3. RequestTypeOK'
  <2> DEFINE s == tokens[req[r].tok].session
  <2>a. s \in Sessions
    BY DEF TypeOK, RowTypeOK
  <2>1. \A o \in Slots : req[o] \in Request
                         /\ [req[o] EXCEPT !.outrun = @ \cup {s}] \in Request
    BY <2>a DEF TypeOK, RequestTypeOK, Request
  <2>2. req' \in [Slots -> Request]
    BY <2>1, NoReqType DEF Rotate
  <2> QED BY <2>2 DEF Rotate, TypeOK, RequestTypeOK
<1>4. HistoryTypeOK'
  BY DEF TypeOK, HistoryTypeOK, Rotate
<1> QED BY <1>1, <1>2, <1>3, <1>4 DEF TypeOK

LEMMA ScanType ==
  ASSUME TypeOK, NEW r \in Slots, Scan(r)
  PROVE  TypeOK'
<1>1. RowTypeOK'
  BY DEF TypeOK, RowTypeOK, Scan
<1>2. StoreTypeOK'
  BY SignInAssumption DEF TypeOK, StoreTypeOK, Scan
<1>3. RequestTypeOK'
  <2> DEFINE found == IF req[r].op = "refresh" THEN Matching(req[r])
                      ELSE {t \in Matching(req[r]) : ~tokens[t].expired}
             q == [req[r] EXCEPT !.pc = IF req[r].op = "refresh" THEN "second" ELSE "first",
                                 !.found = found, !.doomed = {tokens[t].session : t \in found}]
  <2>1. found \in SUBSET TokenIds
    BY DEF Matching
  <2>2. {tokens[t].session : t \in found} \in SUBSET Sessions
    BY DEF Matching, TypeOK, RowTypeOK
  <2>3. q \in Request
    <3>1. req[r] \in Request
      BY DEF TypeOK, RequestTypeOK
    <3> HIDE DEF found
    <3> QED BY <2>1, <2>2, <3>1 DEF Request
  <2>4. req' = [req EXCEPT ![r] = q]
    BY DEF Scan
  <2> QED BY <2>3, <2>4, AdvanceType DEF Scan
<1>4. HistoryTypeOK'
  BY DEF TypeOK, HistoryTypeOK, Scan
<1> QED BY <1>1, <1>2, <1>3, <1>4 DEF TypeOK

LEMMA UpdateType ==
  ASSUME TypeOK, NEW r \in Slots, Update(r)
  PROVE  TypeOK'
<1>1. RowTypeOK'
  BY DEF TypeOK, RowTypeOK, Update
<1>2. StoreTypeOK'
  BY SignInAssumption DEF TypeOK, StoreTypeOK, Update
<1>3. RequestTypeOK'
  <2> DEFINE write == req[r].write \cup {t \in req[r].found : ~tokens[t].revoked}
             next  == IF req[r].pc = "first" /\ req[r].op = "end" THEN NextScan ELSE "commit"
             found == IF next = "second" THEN Matching(req[r]) \ write ELSE {}
             q == [req[r] EXCEPT !.pc = next, !.write = write, !.found = found]
  <2>1. write \in SUBSET TokenIds /\ found \in SUBSET TokenIds
    BY DEF Matching, TypeOK, RequestTypeOK, Request
  <2>2. next \in {"second", "commit"}
    BY DEF NextScan
  <2>3. req' = [req EXCEPT ![r] = q]
    BY DEF Update
  <2> HIDE DEF write, next, found
  <2>4. q \in Request
    <3>1. req[r] \in Request
      BY DEF TypeOK, RequestTypeOK
    <3> QED BY <2>1, <2>2, <3>1 DEF Request
  <2> QED BY <2>3, <2>4, AdvanceType DEF Update
<1>4. HistoryTypeOK'
  BY DEF TypeOK, HistoryTypeOK, Update
<1> QED BY <1>1, <1>2, <1>3, <1>4 DEF TypeOK

LEMMA StoreType ==
  ASSUME TypeOK, NEW r \in Slots, Store(r)
  PROVE  TypeOK'
<1>1. RowTypeOK'
  BY DEF TypeOK, RowTypeOK, Store
<1>2. StoreTypeOK'
  BY SignInAssumption DEF TypeOK, StoreTypeOK, Store
<1>3. RequestTypeOK'
  BY GotoType DEF Store
<1>4. HistoryTypeOK'
  BY DEF TypeOK, HistoryTypeOK, Store
<1> QED BY <1>1, <1>2, <1>3, <1>4 DEF TypeOK

\* A column is written from one of two rows.
LEMMA WrittenType ==
  ASSUME TypeOK, NEW q \in Request
  PROVE  Written(q) \in Account
<1>1. account \in Account /\ q.want \in Account /\ q.seen \in Account
  BY DEF TypeOK, RowTypeOK, Request
<1>2. DOMAIN account = {"tv", "active", "expired", "must", "hash", "secret", "enabled"}
  BY <1>1 DEF Account
<1> QED BY <1>1, <1>2 DEF Written, Account

LEMMA CommitType ==
  ASSUME TypeOK, NEW r \in Slots, Commit(r)
  PROVE  TypeOK'
<1>1. RowTypeOK'
  <2>1. account' \in Account
    BY WrittenType DEF Commit, TypeOK, RequestTypeOK
  <2>2. tokens' \in [TokenIds -> [session : Sessions \cup {0}, revoked : BOOLEAN,
                                 expired : BOOLEAN]]
    BY DEF Commit, TypeOK, RowTypeOK
  <2>3. recovery' \in [Codes -> {"none", "unused", "used", "deleted"}]
    <3>1. recovery \in [Codes -> {"none", "unused", "used", "deleted"}]
      BY DEF TypeOK, RowTypeOK
    <3>2. /\ Issued \in [Codes -> {"none", "unused", "used", "deleted"}]
          /\ Deleted \in [Codes -> {"none", "unused", "used", "deleted"}]
      BY <3>1 DEF Issued, Deleted
    <3> QED BY <3>1, <3>2 DEF Commit
  <2>4. access' \in [Sessions -> Nat]
    BY DEF Commit, TypeOK, RowTypeOK
  <2> QED BY <2>1, <2>2, <2>3, <2>4 DEF RowTypeOK
<1>2. StoreTypeOK'
  BY SignInAssumption DEF TypeOK, StoreTypeOK, Commit
<1>3. RequestTypeOK'
  BY DoneType DEF Commit
<1>4. HistoryTypeOK'
  <2>1. req[r] \in Request
    BY DEF TypeOK, RequestTypeOK
  <2>2. ended' \subseteq Sessions /\ outrun' \subseteq ended'
    BY <2>1 DEF Commit, TypeOK, HistoryTypeOK, Request
  <2>3. confirmed' \in Nat
    BY <2>1 DEF Commit, TypeOK, HistoryTypeOK, Request, Account
  <2> QED BY <2>2, <2>3 DEF Commit, TypeOK, HistoryTypeOK
<1> QED BY <1>1, <1>2, <1>3, <1>4 DEF TypeOK

LEMMA EndBeginType ==
  ASSUME TypeOK, NEW r \in Slots, NEW op \in {"end"}, NEW own \in Sessions \cup {0},
         NEW row \in Account, EndBegin(r, op, own, row)
  PROVE  RequestTypeOK'
<1>1. account \in Account
  BY DEF TypeOK, RowTypeOK
<1>2. [NoReq EXCEPT !.op = op, !.pc = "scan", !.own = own, !.seen = account, !.want = row]
        \in Request
  BY <1>1, NoReqType DEF NoReq, Request
<1> QED BY <1>2, ArriveType DEF EndBegin

LEMMA RowBeginType ==
  ASSUME TypeOK, NEW r \in Slots, NEW op \in {"row", "totp"}, NEW row \in Account,
         RowBegin(r, op, row)
  PROVE  RequestTypeOK'
<1>1. account \in Account
  BY DEF TypeOK, RowTypeOK
<1>2. [NoReq EXCEPT !.op = op, !.pc = "store", !.seen = account, !.want = row] \in Request
  BY <1>1, NoReqType DEF NoReq, Request
<1> QED BY <1>2, ArriveType DEF RowBegin

LEMMA ResetPasswordType ==
  ASSUME TypeOK, NEW r \in Slots, ResetPassword(r)
  PROVE  TypeOK'
<1>1. RowTypeOK'
  BY DEF TypeOK, RowTypeOK, ResetPassword, EndBegin
<1>2. StoreTypeOK'
  BY SignInAssumption DEF TypeOK, StoreTypeOK, ResetPassword, EndBegin
<1>3. RequestTypeOK'
  <2>1. account \in Account
    BY DEF TypeOK, RowTypeOK
  <2>2. account.tv + 1 \in Nat /\ account.hash + 1 \in Nat
    BY <2>1 DEF Account
  <2>3. [account EXCEPT !.hash = account.hash + 1, !.must = TRUE, !.tv = account.tv + 1] \in Account
    BY <2>1, <2>2, ZenonT(40) DEF Account
  <2>4. [account EXCEPT !.hash = @ + 1, !.must = TRUE, !.tv = @ + 1] \in Account
    BY <2>1, <2>3, SMTT(40) DEF Account
  <2> QED BY <2>4, EndBeginType DEF ResetPassword
<1>4. HistoryTypeOK'
  BY DEF TypeOK, HistoryTypeOK, ResetPassword, EndBegin
<1> QED BY <1>1, <1>2, <1>3, <1>4 DEF TypeOK

LEMMA DeactivateType ==
  ASSUME TypeOK, NEW r \in Slots, Deactivate(r)
  PROVE  TypeOK'
<1>1. RowTypeOK'
  BY DEF TypeOK, RowTypeOK, Deactivate, EndBegin
<1>2. StoreTypeOK'
  BY SignInAssumption DEF TypeOK, StoreTypeOK, Deactivate, EndBegin
<1>3. RequestTypeOK'
  <2>1. account \in Account
    BY DEF TypeOK, RowTypeOK
  <2>2. account.tv + 1 \in Nat /\ account.hash + 1 \in Nat
    BY <2>1 DEF Account
  <2>3. [account EXCEPT !.active = FALSE, !.tv = account.tv + 1] \in Account
    BY <2>1, <2>2, ZenonT(40) DEF Account
  <2>4. [account EXCEPT !.active = FALSE, !.tv = @ + 1] \in Account
    BY <2>1, <2>3, SMTT(40) DEF Account
  <2> QED BY <2>4, EndBeginType DEF Deactivate
<1>4. HistoryTypeOK'
  BY DEF TypeOK, HistoryTypeOK, Deactivate, EndBegin
<1> QED BY <1>1, <1>2, <1>3, <1>4 DEF TypeOK

LEMMA RevokeSessionsType ==
  ASSUME TypeOK, NEW r \in Slots, NEW own \in Sessions \cup {0}, RevokeSessions(r, own)
  PROVE  TypeOK'
<1>1. RowTypeOK'
  BY DEF TypeOK, RowTypeOK, RevokeSessions, EndBegin
<1>2. StoreTypeOK'
  BY SignInAssumption DEF TypeOK, StoreTypeOK, RevokeSessions, EndBegin
<1>3. RequestTypeOK'
  <2>1. account \in Account
    BY DEF TypeOK, RowTypeOK
  <2>2. account.tv + 1 \in Nat /\ account.hash + 1 \in Nat
    BY <2>1 DEF Account
  <2>3. account \in Account
    BY <2>1, <2>2, ZenonT(40) DEF Account
  <2>4. account \in Account
    BY <2>1, <2>3, SMTT(40) DEF Account
  <2> QED BY <2>4, EndBeginType DEF RevokeSessions
<1>4. HistoryTypeOK'
  BY DEF TypeOK, HistoryTypeOK, RevokeSessions, EndBegin
<1> QED BY <1>1, <1>2, <1>3, <1>4 DEF TypeOK

LEMMA ChangeOwnPasswordType ==
  ASSUME TypeOK, NEW r \in Slots, NEW own \in Sessions, ChangeOwnPassword(r, own)
  PROVE  TypeOK'
<1>1. RowTypeOK'
  BY DEF TypeOK, RowTypeOK, ChangeOwnPassword, EndBegin, RecordSuccess, NoFailures
<1>2. StoreTypeOK'
  BY SignInAssumption DEF TypeOK, StoreTypeOK, ChangeOwnPassword, EndBegin, RecordSuccess, NoFailures
<1>3. RequestTypeOK'
  <2>1. account \in Account
    BY DEF TypeOK, RowTypeOK
  <2>2. account.tv + 1 \in Nat /\ account.hash + 1 \in Nat
    BY <2>1 DEF Account
  <2>3. [account EXCEPT !.hash = account.hash + 1, !.must = FALSE] \in Account
    BY <2>1, <2>2, ZenonT(40) DEF Account
  <2>4. [account EXCEPT !.hash = @ + 1, !.must = FALSE] \in Account
    BY <2>1, <2>3, SMTT(40) DEF Account
  <2> QED BY <2>4, EndBeginType DEF ChangeOwnPassword
<1>4. HistoryTypeOK'
  BY DEF TypeOK, HistoryTypeOK, ChangeOwnPassword, EndBegin, RecordSuccess, NoFailures
<1> QED BY <1>1, <1>2, <1>3, <1>4 DEF TypeOK

LEMMA ActivateType ==
  ASSUME TypeOK, NEW r \in Slots, Activate(r)
  PROVE  TypeOK'
<1>1. RowTypeOK'
  BY DEF TypeOK, RowTypeOK, Activate, RowBegin
<1>2. StoreTypeOK'
  BY SignInAssumption DEF TypeOK, StoreTypeOK, Activate, RowBegin
<1>3. RequestTypeOK'
  <2>1. [account EXCEPT !.active = TRUE] \in Account
    BY DEF TypeOK, RowTypeOK, Account
  <2> QED BY <2>1, RowBeginType DEF Activate
<1>4. HistoryTypeOK'
  BY DEF TypeOK, HistoryTypeOK, Activate, RowBegin
<1> QED BY <1>1, <1>2, <1>3, <1>4 DEF TypeOK

LEMMA GrantType ==
  ASSUME TypeOK, NEW r \in Slots, Grant(r)
  PROVE  TypeOK'
<1>1. RowTypeOK'
  BY DEF TypeOK, RowTypeOK, Grant, RowBegin
<1>2. StoreTypeOK'
  BY SignInAssumption DEF TypeOK, StoreTypeOK, Grant, RowBegin
<1>3. RequestTypeOK'
  <2>1. [account EXCEPT !.tv = @ + 1] \in Account
    BY DEF TypeOK, RowTypeOK, Account
  <2> QED BY <2>1, RowBeginType DEF Grant
<1>4. HistoryTypeOK'
  BY DEF TypeOK, HistoryTypeOK, Grant, RowBegin
<1> QED BY <1>1, <1>2, <1>3, <1>4 DEF TypeOK

LEMMA SetExpiryType ==
  ASSUME TypeOK, NEW r \in Slots, SetExpiry(r)
  PROVE  TypeOK'
<1>1. RowTypeOK'
  BY DEF TypeOK, RowTypeOK, SetExpiry, RowBegin
<1>2. StoreTypeOK'
  BY SignInAssumption DEF TypeOK, StoreTypeOK, SetExpiry, RowBegin
<1>3. RequestTypeOK'
  <2>1. [account EXCEPT !.expired = ~@] \in Account
    BY DEF TypeOK, RowTypeOK, Account
  <2> QED BY <2>1, RowBeginType DEF SetExpiry
<1>4. HistoryTypeOK'
  BY DEF TypeOK, HistoryTypeOK, SetExpiry, RowBegin
<1> QED BY <1>1, <1>2, <1>3, <1>4 DEF TypeOK

LEMMA TotpSetupType ==
  ASSUME TypeOK, NEW r \in Slots, NEW own \in Sessions, TotpSetup(r, own)
  PROVE  TypeOK'
<1>1. RowTypeOK'
  BY DEF TypeOK, RowTypeOK, TotpSetup, RowBegin, Racing
<1>2. StoreTypeOK'
  BY SignInAssumption DEF TypeOK, StoreTypeOK, TotpSetup, RowBegin, Racing
<1>3. RequestTypeOK'
  <2>1. [account EXCEPT !.secret = served + 2] \in Account
    BY SignInAssumption DEF TypeOK, RowTypeOK, RequestTypeOK, Account
  <2> QED BY <2>1, RowBeginType DEF TotpSetup
<1>4. HistoryTypeOK'
  BY DEF TypeOK, HistoryTypeOK, TotpSetup, RowBegin, Racing
<1> QED BY <1>1, <1>2, <1>3, <1>4 DEF TypeOK

LEMMA TotpConfirmType ==
  ASSUME TypeOK, NEW r \in Slots, NEW own \in Sessions, TotpConfirm(r, own)
  PROVE  TypeOK'
<1>1. RowTypeOK'
  BY DEF TypeOK, RowTypeOK, TotpConfirm, RowBegin, Racing
<1>2. StoreTypeOK'
  BY SignInAssumption DEF TypeOK, StoreTypeOK, TotpConfirm, RowBegin, Racing
<1>3. RequestTypeOK'
  <2>1. [account EXCEPT !.enabled = TRUE] \in Account
    BY DEF TypeOK, RowTypeOK, Account
  <2> QED BY <2>1, RowBeginType DEF TotpConfirm
<1>4. HistoryTypeOK'
  BY DEF TypeOK, HistoryTypeOK, TotpConfirm, RowBegin, Racing
<1> QED BY <1>1, <1>2, <1>3, <1>4 DEF TypeOK

LEMMA TotpRemoveType ==
  ASSUME TypeOK, NEW r \in Slots, TotpRemove(r)
  PROVE  TypeOK'
<1>1. RowTypeOK'
  BY DEF TypeOK, RowTypeOK, TotpRemove, RowBegin, Racing
<1>2. StoreTypeOK'
  BY SignInAssumption DEF TypeOK, StoreTypeOK, TotpRemove, RowBegin, Racing
<1>3. RequestTypeOK'
  <2>1. [account EXCEPT !.enabled = FALSE, !.secret = 0] \in Account
    BY DEF TypeOK, RowTypeOK, Account
  <2> QED BY <2>1, RowBeginType DEF TotpRemove
<1>4. HistoryTypeOK'
  BY DEF TypeOK, HistoryTypeOK, TotpRemove, RowBegin, Racing
<1> QED BY <1>1, <1>2, <1>3, <1>4 DEF TypeOK

-----------------------------------------------------------------------------
(* The inductive invariant of the sessions.                                 *)

\* Rows that a request has revoked without having committed yet.
Held(q) == \A t \in q.write : tokens[t].session # 0 /\ ~tokens[t].revoked

\* What a request has at hand at each of its points.
Stages(q) ==
  /\ q.write # {} => q.pc \in {"rotate", "second", "commit"}
  /\ q.doomed # {} => q.pc \in {"first", "second", "commit"}
  /\ q.pc \in {"claim", "rotate"} =>
       q.tok \in TokenIds /\ tokens[q.tok].session # 0 /\ q.doomed = {}
  /\ q.pc = "rotate" => q.write = {q.tok}
  /\ q.pc = "scan" => q.op \in {"refresh", "end"}
  /\ q.pc = "first" => q.op \in {"end", "logout"}
  /\ q.op = "logout" => q.own = 0 /\ q.pc # "second"
  /\ \A t \in q.found : tokens[t].session # 0

\* No token of a session that is to end escapes, unless it is outrun: its last
\* statement has found the live one, and it commits with that one revoked.
Dooms(q) ==
  \A s \in q.doomed :
    /\ s # q.own
    /\ tokens[s].session = s
    /\ LastUpdate(q) /\ s \notin q.outrun => LiveTokens(s) \subseteq q.found \cup q.write
    /\ q.pc = "commit" /\ s \notin q.outrun => LiveTokens(s) \subseteq q.write

RequestInv(q) == Held(q) /\ Stages(q) /\ Dooms(q)

\* The row locks: no row is revoked by two requests.
Apart == \A r, o \in Slots : r # o => req[r].write \cap req[o].write = {}

\* A session starts with the token of its own number; it has at most one token
\* that is not revoked, and none once it has ended without being outrun.
TokenInv ==
  /\ \A t \in TokenIds : IF tokens[t].session = 0 THEN ~tokens[t].revoked
                         ELSE tokens[tokens[t].session].session = tokens[t].session
  /\ \A t, u \in TokenIds :
       /\ tokens[t].session = tokens[u].session /\ tokens[t].session # 0
       /\ ~tokens[t].revoked /\ ~tokens[u].revoked
       => t = u
  /\ \A s \in ended : tokens[s].session = s
  /\ \A s \in ended \ outrun : LiveTokens(s) = {}

SessionInv == TokenInv /\ Apart /\ \A r \in Slots : RequestInv(req[r])

-----------------------------------------------------------------------------
(* Its preservation, by steps that leave the tokens alone.                  *)

LEMMA SameInv ==
  ASSUME SessionInv, UNCHANGED <<tokens, ended, outrun, req>>
  PROVE  SessionInv'
BY DEF SessionInv, TokenInv, Apart, RequestInv, Held, Stages, Dooms, LiveTokens

LEMMA AdvanceInv ==
  ASSUME TypeOK, SessionInv, NEW r \in Slots, NEW q,
         req' = [req EXCEPT ![r] = q], UNCHANGED <<tokens, ended, outrun>>,
         RequestInv(q), \A o \in Slots \ {r} : q.write \cap req[o].write = {}
  PROVE  SessionInv'
<1>1. \A o \in Slots : req'[o] = IF o = r THEN q ELSE req[o]
  BY DEF TypeOK, RequestTypeOK
<1>2. TokenInv'
  BY DEF SessionInv, TokenInv, LiveTokens
<1>3. Apart'
  BY <1>1 DEF SessionInv, Apart
<1>4. ASSUME NEW o \in Slots
      PROVE  RequestInv(req[o])'
  <2>1. RequestInv(req'[o])
    BY <1>1 DEF SessionInv
  <2> QED BY <2>1 DEF RequestInv, Held, Stages, Dooms, LiveTokens
<1> QED BY <1>2, <1>3, <1>4 DEF SessionInv

\* Most requests have revoked nothing and are not about to.
LEMMA QuietInv ==
  ASSUME TypeOK, SessionInv, NEW r \in Slots, NEW q,
         req' = [req EXCEPT ![r] = q], UNCHANGED <<tokens, ended, outrun>>,
         q.write = {}, q.doomed = {}, q.pc \notin {"claim", "rotate", "second"},
         q.pc = "scan" => q.op \in {"refresh", "end"},
         q.pc = "first" => q.op \in {"end", "logout"}, q.op = "logout" => q.own = 0,
         \A t \in q.found : tokens[t].session # 0
  PROVE  SessionInv'
<1>1. RequestInv(q)
  BY DEF RequestInv, Held, Stages, Dooms
<1>2. \A o \in Slots \ {r} : q.write \cap req[o].write = {}
  OBVIOUS
<1> QED BY <1>1, <1>2, AdvanceInv

LEMMA DoneInv ==
  ASSUME TypeOK, SessionInv, NEW r \in Slots, Done(r), UNCHANGED <<tokens, ended, outrun>>
  PROVE  SessionInv'
<1>1. /\ NoReq.write = {} /\ NoReq.doomed = {} /\ NoReq.found = {}
      /\ NoReq.pc = "none" /\ NoReq.op = "none"
  BY DEF NoReq
<1> QED BY <1>1, QuietInv DEF Done

\* A request that has revoked nothing goes on, but not to revoke.
LEMMA MoveInv ==
  ASSUME TypeOK, SessionInv, NEW r \in Slots, NEW q,
         req' = [req EXCEPT ![r] = q], UNCHANGED <<tokens, ended, outrun>>,
         req[r].pc \in {"password", "code", "mark", "store"},
         q.pc \in {"code", "mark", "open", "commit"},
         q.write = req[r].write, q.doomed = req[r].doomed, q.found = req[r].found,
         q.op = req[r].op, q.own = req[r].own
  PROVE  SessionInv'
<1>1. RequestInv(req[r])
  BY DEF SessionInv
<1>2. q.write = {} /\ q.doomed = {}
  BY <1>1 DEF RequestInv, Stages
<1>3. q.op = "logout" => q.own = 0
  BY <1>1 DEF RequestInv, Stages
<1>4. \A t \in q.found : tokens[t].session # 0
  BY <1>1 DEF RequestInv, Stages
<1> QED BY <1>2, <1>3, <1>4, QuietInv

LEMMA ArriveInv ==
  ASSUME TypeOK, SessionInv, NEW r \in Slots, NEW q, Arrive(r, q), UNCHANGED <<tokens, ended, outrun>>,
         q.write = {}, q.doomed = {}, q.own \in Sessions \cup {0},
         q.pc \notin {"claim", "rotate", "second"},
         q.pc = "scan" => q.op \in {"refresh", "end"},
         q.pc = "first" => q.op \in {"end", "logout"}, q.op = "logout" => q.own = 0,
         \A t \in q.found : tokens[t].session # 0
  PROVE  SessionInv'
BY QuietInv DEF Arrive

LEMMA RelentInv ==
  ASSUME TypeOK, SessionInv, Relent
  PROVE  SessionInv'
BY SameInv DEF Relent

LEMMA ChallengeExpiresInv ==
  ASSUME TypeOK, SessionInv, ChallengeExpires
  PROVE  SessionInv'
BY SameInv DEF ChallengeExpires

LEMMA OwnPasswordWrongInv ==
  ASSUME TypeOK, SessionInv, NEW s \in Sessions, OwnPasswordWrong(s)
  PROVE  SessionInv'
BY SameInv DEF OwnPasswordWrong

LEMMA LoginBeginInv ==
  ASSUME TypeOK, SessionInv, NEW r \in Slots, LoginBegin(r)
  PROVE  SessionInv'
<1> DEFINE q == [NoReq EXCEPT !.op = "login", !.pc = "password"]
<1>1. /\ q.write = {} /\ q.doomed = {} /\ q.own \in Sessions \cup {0}
      /\ q.pc \notin {"claim", "rotate", "second"}
      /\ q.pc = "scan" => q.op \in {"refresh", "end"}
      /\ q.pc = "first" => q.op \in {"end", "logout"}
      /\ q.op = "logout" => q.own = 0
      /\ \A t \in q.found : tokens[t].session # 0
  BY DEF NoReq
<1>2. Arrive(r, q) /\ UNCHANGED <<tokens, ended, outrun>>
  BY DEF LoginBegin
<1> HIDE DEF q
<1> QED BY <1>1, <1>2, ArriveInv

LEMMA VerifyBeginInv ==
  ASSUME TypeOK, SessionInv, NEW r \in Slots, VerifyBegin(r)
  PROVE  SessionInv'
<1> DEFINE q == [NoReq EXCEPT !.op = "verify", !.pc = "code", !.seen = account]
<1>1. /\ q.write = {} /\ q.doomed = {} /\ q.own \in Sessions \cup {0}
      /\ q.pc \notin {"claim", "rotate", "second"}
      /\ q.pc = "scan" => q.op \in {"refresh", "end"}
      /\ q.pc = "first" => q.op \in {"end", "logout"}
      /\ q.op = "logout" => q.own = 0
      /\ \A t \in q.found : tokens[t].session # 0
  BY DEF NoReq
<1>2. Arrive(r, q) /\ UNCHANGED <<tokens, ended, outrun>>
  BY DEF VerifyBegin
<1> HIDE DEF q
<1> QED BY <1>1, <1>2, ArriveInv

\* The token it has loaded is the one token of its session that is not revoked.
LEMMA LogoutBeginInv ==
  ASSUME TypeOK, SessionInv, NEW r \in Slots, NEW u \in TokenIds, LogoutBegin(r, u)
  PROVE  SessionInv'
<1> DEFINE s == tokens[u].session
           q == [NoReq EXCEPT !.op = "logout", !.pc = "first", !.found = {u}, !.doomed = {s}]
<1>1. /\ req' = [req EXCEPT ![r] = q] /\ UNCHANGED <<tokens, ended, outrun>>
      /\ s # 0 /\ ~tokens[u].revoked
  BY DEF LogoutBegin, Arrive
<1>2. /\ q.write = {} /\ q.doomed = {s} /\ q.own = 0
      /\ q.pc = "first" /\ q.op = "logout" /\ q.found = {u}
  BY DEF NoReq
<1>3. tokens[s].session = s /\ LiveTokens(s) \subseteq {u}
  BY <1>1 DEF LiveTokens, SessionInv, TokenInv
<1> HIDE DEF q
<1>4. RequestInv(q)
  BY <1>1, <1>2, <1>3 DEF RequestInv, Held, Stages, Dooms
<1> QED BY <1>1, <1>2, <1>4, AdvanceInv

LEMMA RefreshBeginInv ==
  ASSUME TypeOK, SessionInv, NEW r \in Slots, NEW u \in TokenIds, NEW secret \in BOOLEAN,
         RefreshBegin(r, u, secret)
  PROVE  SessionInv'
<1> DEFINE q == [NoReq EXCEPT !.op = "refresh", !.tok = u,
                              !.pc = IF Valid(u) /\ secret THEN "claim" ELSE "scan"]
<1>1. /\ req' = [req EXCEPT ![r] = q] /\ UNCHANGED <<tokens, ended, outrun>>
      /\ tokens[u].session # 0
  BY DEF RefreshBegin, Arrive
<1>2. /\ q.write = {} /\ q.doomed = {} /\ q.found = {} /\ q.tok = u
      /\ q.pc \in {"claim", "scan"} /\ q.op = "refresh"
  BY DEF NoReq
<1> HIDE DEF q
<1>3. RequestInv(q)
  BY <1>1, <1>2 DEF RequestInv, Held, Stages, Dooms
<1> QED BY <1>1, <1>2, <1>3, AdvanceInv

LEMMA EndBeginInv ==
  ASSUME TypeOK, SessionInv, NEW r \in Slots, NEW own \in Sessions \cup {0},
         NEW row, EndBegin(r, "end", own, row), UNCHANGED <<tokens, ended, outrun>>
  PROVE  SessionInv'
<1> DEFINE q == [NoReq EXCEPT !.op = "end", !.pc = "scan", !.own = own,
                              !.seen = account, !.want = row]
<1>1. Arrive(r, q)
  BY DEF EndBegin
<1>2. /\ q.write = {} /\ q.doomed = {} /\ q.found = {} /\ q.own = own
      /\ q.pc = "scan" /\ q.op = "end"
  BY DEF NoReq
<1> HIDE DEF q
<1> QED BY <1>1, <1>2, ArriveInv

LEMMA RowBeginInv ==
  ASSUME TypeOK, SessionInv, NEW r \in Slots, NEW op \in {"row", "totp"}, NEW row,
         RowBegin(r, op, row), UNCHANGED <<tokens, ended, outrun>>
  PROVE  SessionInv'
<1> DEFINE q == [NoReq EXCEPT !.op = op, !.pc = "store", !.seen = account, !.want = row]
<1>1. Arrive(r, q)
  BY DEF RowBegin
<1>2. /\ q.write = {} /\ q.doomed = {} /\ q.found = {} /\ q.own = 0
      /\ q.pc = "store" /\ q.op = op
  BY DEF NoReq
<1> HIDE DEF q
<1> QED BY <1>1, <1>2, ArriveInv

LEMMA PasswordInv ==
  ASSUME TypeOK, SessionInv, NEW r \in Slots, NEW right \in BOOLEAN, Password(r, right)
  PROVE  SessionInv'
<1>1. UNCHANGED <<tokens, ended, outrun>> /\ req[r].pc = "password"
  BY DEF Password
<1>2. CASE Done(r)
  BY <1>1, <1>2, DoneInv
<1>3. CASE req' = [req EXCEPT ![r].pc = "open", ![r].seen = account]
  <2> DEFINE q == [req[r] EXCEPT !.pc = "open", !.seen = account]
  <2>1. /\ q.pc = "open" /\ q.write = req[r].write /\ q.doomed = req[r].doomed
        /\ q.found = req[r].found /\ q.op = req[r].op /\ q.own = req[r].own
    BY DEF TypeOK, RequestTypeOK, Request
  <2>2. req' = [req EXCEPT ![r] = q]
    BY <1>3
  <2> HIDE DEF q
  <2> QED BY <1>1, <2>1, <2>2, MoveInv
<1> QED BY <1>2, <1>3 DEF Password

LEMMA WrongCodeInv ==
  ASSUME TypeOK, SessionInv, NEW r \in Slots, WrongCode(r)
  PROVE  SessionInv'
BY DoneInv DEF WrongCode

LEMMA RightCodeInv ==
  ASSUME TypeOK, SessionInv, NEW r \in Slots, RightCode(r)
  PROVE  SessionInv'
<1> DEFINE q == [req[r] EXCEPT !.pc = "open"]
<1>1. UNCHANGED <<tokens, ended, outrun>> /\ req[r].pc = "code"
  BY DEF RightCode
<1>2. /\ q.pc = "open" /\ q.write = req[r].write /\ q.doomed = req[r].doomed
      /\ q.found = req[r].found /\ q.op = req[r].op /\ q.own = req[r].own
  BY DEF TypeOK, RequestTypeOK, Request
<1>3. req' = [req EXCEPT ![r] = q]
  BY DEF RightCode, Goto
<1> HIDE DEF q
<1> QED BY <1>1, <1>2, <1>3, MoveInv

LEMMA MarkCodeInv ==
  ASSUME TypeOK, SessionInv, NEW r \in Slots, MarkCode(r)
  PROVE  SessionInv'
<1> DEFINE q == [req[r] EXCEPT !.pc = "open"]
<1>1. UNCHANGED <<tokens, ended, outrun>> /\ req[r].pc = "mark"
  BY DEF MarkCode
<1>2. /\ q.pc = "open" /\ q.write = req[r].write /\ q.doomed = req[r].doomed
      /\ q.found = req[r].found /\ q.op = req[r].op /\ q.own = req[r].own
  BY DEF TypeOK, RequestTypeOK, Request
<1>3. req' = [req EXCEPT ![r] = q]
  BY DEF MarkCode, Goto
<1> HIDE DEF q
<1> QED BY <1>1, <1>2, <1>3, MoveInv

LEMMA FindCodeInv ==
  ASSUME TypeOK, SessionInv, NEW r \in Slots, NEW c \in Codes, FindCode(r, c)
  PROVE  SessionInv'
<1> DEFINE q == [req[r] EXCEPT !.pc = "mark", !.code = c]
<1>1. UNCHANGED <<tokens, ended, outrun>> /\ req[r].pc = "code"
  BY DEF FindCode
<1>2. /\ q.pc = "mark" /\ q.write = req[r].write /\ q.doomed = req[r].doomed
      /\ q.found = req[r].found /\ q.op = req[r].op /\ q.own = req[r].own
  BY DEF TypeOK, RequestTypeOK, Request
<1>3. req' = [req EXCEPT ![r] = q]
  BY DEF FindCode
<1> HIDE DEF q
<1> QED BY <1>1, <1>2, <1>3, MoveInv

LEMMA StoreInv ==
  ASSUME TypeOK, SessionInv, NEW r \in Slots, Store(r)
  PROVE  SessionInv'
<1> DEFINE q == [req[r] EXCEPT !.pc = "commit"]
<1>1. UNCHANGED <<tokens, ended, outrun>> /\ req[r].pc = "store"
  BY DEF Store
<1>2. /\ q.pc = "commit" /\ q.write = req[r].write /\ q.doomed = req[r].doomed
      /\ q.found = req[r].found /\ q.op = req[r].op /\ q.own = req[r].own
  BY DEF TypeOK, RequestTypeOK, Request
<1>3. req' = [req EXCEPT ![r] = q]
  BY DEF Store, Goto
<1> HIDE DEF q
<1> QED BY <1>1, <1>2, <1>3, MoveInv

LEMMA ClaimInv ==
  ASSUME TypeOK, SessionInv, NEW r \in Slots, Claim(r)
  PROVE  SessionInv'
<1>1. /\ req[r].pc = "claim" /\ UNCHANGED <<tokens, ended, outrun>> /\ ~TokenHeld(req[r].tok, r)
  BY DEF Claim
<1>2. req[r].tok \in TokenIds /\ tokens[req[r].tok].session # 0 /\ req[r].doomed = {}
  BY <1>1 DEF SessionInv, RequestInv, Stages
<1>3. CASE Done(r)
  BY <1>1, <1>3, DoneInv
<1>4. CASE /\ ~tokens[req[r].tok].revoked
           /\ req' = [req EXCEPT ![r].pc = IF Usable(account) THEN "rotate" ELSE "commit",
                                 ![r].seen = account, ![r].want = account,
                                 ![r].write = {req[r].tok}]
  <2> DEFINE q == [req[r] EXCEPT !.pc = IF Usable(account) THEN "rotate" ELSE "commit",
                                 !.seen = account, !.want = account, !.write = {req[r].tok}]
  <2>1. /\ q.pc \in {"rotate", "commit"} /\ q.write = {req[r].tok} /\ q.doomed = req[r].doomed
        /\ q.tok = req[r].tok /\ q.found = req[r].found
        /\ q.op = req[r].op /\ q.own = req[r].own
    BY DEF TypeOK, RequestTypeOK, Request
  <2>2. req' = [req EXCEPT ![r] = q]
    BY <1>4
  <2> HIDE DEF q
  <2>3. RequestInv(req[r])
    BY DEF SessionInv
  <2>4. Held(q)
    BY <1>2, <1>4, <2>1 DEF Held
  <2>5. Stages(q)
    BY <1>1, <1>2, <2>1, <2>3 DEF RequestInv, Stages
  <2>6. Dooms(q)
    BY <1>2, <2>1 DEF Dooms
  <2>7. \A o \in Slots \ {r} : q.write \cap req[o].write = {}
    BY <1>1, <2>1 DEF TokenHeld
  <2> QED BY <1>1, <2>2, <2>4, <2>5, <2>6, <2>7, AdvanceInv DEF RequestInv
<1> QED BY <1>3, <1>4 DEF Claim

LEMMA ScanInv ==
  ASSUME TypeOK, SessionInv, NEW r \in Slots, Scan(r)
  PROVE  SessionInv'
<1> DEFINE found == IF req[r].op = "refresh" THEN Matching(req[r])
                    ELSE {t \in Matching(req[r]) : ~tokens[t].expired}
           doomed == {tokens[t].session : t \in found}
           q == [req[r] EXCEPT !.pc = IF req[r].op = "refresh" THEN "second" ELSE "first",
                               !.found = found, !.doomed = doomed]
<1>1. RequestInv(req[r]) /\ req[r].pc = "scan" /\ UNCHANGED <<tokens, ended, outrun>>
  BY DEF Scan, SessionInv
<1>2. req' = [req EXCEPT ![r] = q]
  BY DEF Scan
<1>3. /\ q.pc = IF req[r].op = "refresh" THEN "second" ELSE "first"
      /\ q.found = found /\ q.doomed = doomed
      /\ q.write = req[r].write /\ q.op = req[r].op /\ q.own = req[r].own
  BY DEF TypeOK, RequestTypeOK, Request
<1>4. found \subseteq TokenIds /\ \A t \in found : tokens[t].session \notin {0, req[r].own}
  BY DEF Matching
<1>5. req[r].op = "refresh" => found = Matching(req[r])
  OBVIOUS
<1> HIDE DEF q, found
<1>6. q.write = {}
  BY <1>1, <1>3 DEF RequestInv, Stages
<1>7. req[r].op \in {"refresh", "end"}
  BY <1>1 DEF RequestInv, Stages
<1>8. Stages(q)
  BY <1>3, <1>4, <1>6, <1>7 DEF Stages
<1>9. ASSUME NEW s \in doomed
      PROVE  /\ s # req[r].own
             /\ tokens[s].session = s
             /\ req[r].op = "refresh" => LiveTokens(s) \subseteq found
  <2>1. PICK t \in found : s = tokens[t].session
    OBVIOUS
  <2>2. s \notin {0, req[r].own} /\ tokens[s].session = s
    BY <1>4, <2>1 DEF SessionInv, TokenInv
  <2>3. req[r].op = "refresh" => LiveTokens(s) \subseteq found
    BY <1>5, <2>2 DEF LiveTokens, Matching
  <2> QED BY <2>2, <2>3
<1>10. Dooms(q)
  BY <1>3, <1>7, <1>9 DEF Dooms, LastUpdate
<1>11. Held(q)
  BY <1>6 DEF Held
<1> QED BY <1>1, <1>2, <1>6, <1>8, <1>10, <1>11, AdvanceInv DEF RequestInv

LEMMA UpdateInv ==
  ASSUME TypeOK, SessionInv, NEW r \in Slots, Update(r)
  PROVE  SessionInv'
<1> DEFINE write == req[r].write \cup {t \in req[r].found : ~tokens[t].revoked}
           next  == IF req[r].pc = "first" /\ req[r].op = "end" THEN NextScan ELSE "commit"
           found == IF next = "second" THEN Matching(req[r]) \ write ELSE {}
           q == [req[r] EXCEPT !.pc = next, !.write = write, !.found = found]
<1>1. /\ RequestInv(req[r]) /\ req[r].pc \in {"first", "second"}
      /\ UNCHANGED <<tokens, ended, outrun>>
      /\ \A t \in req[r].found : ~TokenHeld(t, r)
  BY DEF Update, SessionInv
<1>2. req' = [req EXCEPT ![r] = q]
  BY DEF Update
<1>3. /\ q.pc = next /\ q.write = write /\ q.found = found /\ q.doomed = req[r].doomed
      /\ q.op = req[r].op /\ q.own = req[r].own /\ q.outrun = req[r].outrun
  BY DEF TypeOK, RequestTypeOK, Request
<1>4. /\ next \in {"second", "commit"}
      /\ next = "second" <=> req[r].pc = "first" /\ req[r].op = "end"
      /\ next = "second" => found = Matching(req[r]) \ write
      /\ next = "commit" => found = {}
  BY DEF NextScan
<1>5. write \subseteq TokenIds /\ \A t \in write : tokens[t].session # 0 /\ ~tokens[t].revoked
  BY <1>1 DEF RequestInv, Held, Stages, TypeOK, RequestTypeOK, Request
<1>6. \A t \in req[r].found : ~tokens[t].revoked => t \in write
  OBVIOUS
<1>7. \A o \in Slots \ {r} : write \cap req[o].write = {}
  BY <1>1 DEF TokenHeld, SessionInv, Apart
<1> HIDE DEF q, write, next, found
<1>8. Held(q)
  BY <1>3, <1>5 DEF Held
<1>9. Stages(q)
  <2>1. \A t \in found : tokens[t].session # 0
    BY <1>4 DEF Matching
  <2>2. q.op = "logout" => q.own = 0 /\ next # "second"
    BY <1>1, <1>3, <1>4 DEF RequestInv, Stages
  <2> QED BY <1>3, <1>4, <2>1, <2>2 DEF Stages
<1>10. Dooms(q)
  <2> SUFFICES ASSUME NEW s \in q.doomed
               PROVE  /\ s # q.own
                      /\ tokens[s].session = s
                      /\ LastUpdate(q) /\ s \notin q.outrun =>
                           LiveTokens(s) \subseteq q.found \cup q.write
                      /\ q.pc = "commit" /\ s \notin q.outrun => LiveTokens(s) \subseteq q.write
    BY DEF Dooms
  <2>1. /\ s \in req[r].doomed /\ s # req[r].own /\ tokens[s].session = s
        /\ LastUpdate(req[r]) /\ s \notin req[r].outrun =>
             LiveTokens(s) \subseteq req[r].found \cup req[r].write
    BY <1>1, <1>3 DEF RequestInv, Dooms
  <2>2. s # 0
    BY <2>1 DEF TypeOK, RequestTypeOK, Request, Sessions, TokenIds
  <2>3. next = "second" => LiveTokens(s) \subseteq found \cup write
    BY <1>4, <2>1, <2>2 DEF LiveTokens, Matching
  <2>4. next = "commit" => LastUpdate(req[r])
    BY <1>1, <1>4 DEF RequestInv, Stages, LastUpdate
  <2>5. req[r].write \subseteq write
    BY DEF write
  <2>6. next = "commit" /\ s \notin req[r].outrun => LiveTokens(s) \subseteq write
    BY <1>6, <2>1, <2>4, <2>5 DEF LiveTokens
  <2>7. LastUpdate(q) => next = "second"
    BY <1>3, <1>4 DEF LastUpdate
  <2> QED BY <1>3, <1>4, <2>1, <2>3, <2>6, <2>7
<1> QED BY <1>1, <1>2, <1>3, <1>7, <1>8, <1>9, <1>10, AdvanceInv DEF RequestInv

-----------------------------------------------------------------------------
(* Its preservation by the steps that change tokens.                        *)

LEMMA TokenExpiresInv ==
  ASSUME TypeOK, SessionInv, NEW u \in TokenIds, TokenExpires(u)
  PROVE  SessionInv'
<1>1. \A t \in TokenIds : /\ tokens'[t].session = tokens[t].session
                          /\ tokens'[t].revoked = tokens[t].revoked
  BY DEF TokenExpires, TypeOK, RowTypeOK
<1>2. UNCHANGED <<req, ended, outrun>>
  BY DEF TokenExpires
<1>3. \A s \in Sessions : LiveTokens(s)' = LiveTokens(s)
  BY <1>1 DEF LiveTokens
<1>4. /\ \A t \in TokenIds : tokens[t].session \in TokenIds \cup {0}
      /\ ended \subseteq Sessions
  BY DEF TypeOK, RowTypeOK, HistoryTypeOK, Sessions
<1>5. TokenInv'
  BY <1>1, <1>2, <1>3, <1>4 DEF SessionInv, TokenInv, Sessions
<1>6. Apart'
  BY <1>2 DEF SessionInv, Apart
<1>7. ASSUME NEW r \in Slots
      PROVE  RequestInv(req[r])'
  <2>1. /\ RequestInv(req[r]) /\ req[r].found \subseteq TokenIds
        /\ req[r].write \subseteq TokenIds /\ req[r].doomed \subseteq Sessions
    BY DEF SessionInv, TypeOK, RequestTypeOK, Request
  <2>2. Held(req[r])'
    BY <1>1, <1>2, <2>1 DEF RequestInv, Held
  <2>3. Stages(req[r])'
    BY <1>1, <1>2, <2>1 DEF RequestInv, Stages
  <2>4. Dooms(req[r])'
    BY <1>1, <1>2, <1>3, <2>1 DEF RequestInv, Dooms, LastUpdate, Sessions
  <2> QED BY <2>2, <2>3, <2>4 DEF RequestInv
<1> QED BY <1>5, <1>6, <1>7 DEF SessionInv

\* A session of its own number: nobody knows it yet.
LEMMA OpenInv ==
  ASSUME TypeOK, SessionInv, NEW r \in Slots, Open(r)
  PROVE  SessionInv'
<1>1. PICK n \in Fresh : tokens' = [tokens EXCEPT ![n].session = n]
  BY DEF Open
<1>2. n \in TokenIds /\ n # 0 /\ tokens[n].session = 0 /\ ~tokens[n].revoked
  BY DEF Fresh, TokenIds, SessionInv, TokenInv
<1>3. \A t \in TokenIds : /\ tokens'[t].session = IF t = n THEN n ELSE tokens[t].session
                          /\ tokens'[t].revoked = tokens[t].revoked
  BY <1>1, <1>2 DEF TypeOK, RowTypeOK
<1>4. \A t \in TokenIds : tokens[t].session \in TokenIds \cup {0} /\ tokens[t].session # n
  BY <1>2 DEF TypeOK, RowTypeOK, Sessions, SessionInv, TokenInv
<1>5. \A s \in Sessions \ {n} : LiveTokens(s)' = LiveTokens(s)
  BY <1>2, <1>3 DEF LiveTokens, Sessions, TokenIds
<1>6. /\ req' = [req EXCEPT ![r] = NoReq] /\ UNCHANGED <<ended, outrun>>
      /\ \A o \in Slots : req'[o] = IF o = r THEN NoReq ELSE req[o]
  BY DEF Open, Done, TypeOK, RequestTypeOK
<1>7. ended \subseteq Sessions \ {n}
  BY <1>2 DEF TypeOK, HistoryTypeOK, SessionInv, TokenInv
<1>8. TokenInv'
  <2>1. \A t \in TokenIds : IF tokens[t].session = 0 THEN ~tokens[t].revoked
                            ELSE tokens[tokens[t].session].session = tokens[t].session
    BY DEF SessionInv, TokenInv
  <2>2. \A t \in TokenIds : IF tokens'[t].session = 0 THEN ~tokens'[t].revoked
                            ELSE tokens'[tokens'[t].session].session = tokens'[t].session
    BY <1>2, <1>3, <1>4, <2>1
  <2>3. \A t, u \in TokenIds :
          /\ tokens[t].session = tokens[u].session /\ tokens[t].session # 0
          /\ ~tokens[t].revoked /\ ~tokens[u].revoked
          => t = u
    BY DEF SessionInv, TokenInv
  <2>4. \A t, u \in TokenIds :
          /\ tokens'[t].session = tokens'[u].session /\ tokens'[t].session # 0
          /\ ~tokens'[t].revoked /\ ~tokens'[u].revoked
          => t = u
    BY <1>2, <1>3, <1>4, <2>3
  <2>5. /\ \A s \in ended : tokens'[s].session = s
        /\ \A s \in ended \ outrun : LiveTokens(s)' = {}
    BY <1>3, <1>5, <1>7 DEF SessionInv, TokenInv, Sessions
  <2> QED BY <1>6, <2>2, <2>4, <2>5 DEF TokenInv
<1>9. Apart'
  BY <1>6 DEF SessionInv, Apart, NoReq
<1>10. ASSUME NEW o \in Slots
       PROVE  RequestInv(req[o])'
  <2>1. CASE o = r
    <3>1. req'[o] = NoReq
      BY <1>6, <2>1
    <3> QED BY <3>1 DEF RequestInv, Held, Stages, Dooms, NoReq
  <2>2. CASE o # r
    <3>1. /\ RequestInv(req[o]) /\ req'[o] = req[o] /\ req[o].found \subseteq TokenIds
          /\ req[o].write \subseteq TokenIds /\ req[o].doomed \subseteq Sessions
      BY <1>6, <2>2 DEF SessionInv, TypeOK, RequestTypeOK, Request
    <3>2. Held(req[o])'
      BY <1>2, <1>3, <3>1 DEF RequestInv, Held
    <3>3. Stages(req[o])'
      BY <1>2, <1>3, <3>1 DEF RequestInv, Stages
    <3>4. req[o].doomed \subseteq Sessions \ {n}
      BY <1>2, <3>1 DEF RequestInv, Dooms
    <3>5. Dooms(req[o])'
      BY <1>3, <1>5, <3>1, <3>4 DEF RequestInv, Dooms, LastUpdate, Sessions
    <3> QED BY <3>2, <3>3, <3>5 DEF RequestInv
  <2> QED BY <2>1, <2>2
<1> QED BY <1>8, <1>9, <1>10 DEF SessionInv

\* The session stays live, by its next token. A request that commits next still
\* reaches what it is to end: of this session only a statement that has not
\* started does.
LEMMA RotateInv ==
  ASSUME TypeOK, SessionInv, NEW r \in Slots, Rotate(r)
  PROVE  SessionInv'
<1> DEFINE old == req[r].tok
           s   == tokens[old].session
<1>1. PICK n \in Fresh : tokens' = [tokens EXCEPT ![old].revoked = TRUE, ![n].session = s]
  BY DEF Rotate
<1>2. req[r].pc = "rotate" /\ RequestInv(req[r])
  BY DEF Rotate, SessionInv
<1>3. /\ old \in TokenIds /\ s # 0 /\ ~tokens[old].revoked /\ req[r].write = {old}
      /\ tokens[s].session = s /\ s \in Sessions
  BY <1>2 DEF RequestInv, Held, Stages, TypeOK, RowTypeOK, SessionInv, TokenInv
<1>4. n \in TokenIds /\ n # old /\ tokens[n].session = 0 /\ ~tokens[n].revoked
  BY <1>3 DEF Fresh, SessionInv, TokenInv
<1>5. \A t \in TokenIds :
        /\ tokens'[t].session = IF t = n THEN s ELSE tokens[t].session
        /\ tokens'[t].revoked = IF t = old THEN TRUE ELSE tokens[t].revoked
  BY <1>1, <1>3, <1>4 DEF TypeOK, RowTypeOK
<1> HIDE DEF old, s
<1>6. \A x \in Sessions \ {s} : LiveTokens(x)' = LiveTokens(x)
  <2> SUFFICES ASSUME NEW x \in Sessions \ {s}
               PROVE  LiveTokens(x)' = LiveTokens(x)
    OBVIOUS
  <2>1. x # 0 /\ tokens[old].session # x
    BY DEF Sessions, TokenIds, s
  <2> QED BY <1>3, <1>4, <1>5, <2>1 DEF LiveTokens
<1>7. old \in LiveTokens(s)
  BY <1>3 DEF LiveTokens, s
<1>8. \A t \in TokenIds : tokens[t].session \in TokenIds \cup {0} /\ tokens[t].session # n
  BY <1>4 DEF TypeOK, RowTypeOK, Sessions, SessionInv, TokenInv, TokenIds
<1>9. /\ UNCHANGED <<ended, outrun>> /\ ended \subseteq Sessions \ {n} /\ s \notin ended \ outrun
  BY <1>4, <1>7 DEF Rotate, TypeOK, HistoryTypeOK, SessionInv, TokenInv, Sessions, TokenIds
<1>10. TokenInv'
  <2>1. \A t \in TokenIds : IF tokens[t].session = 0 THEN ~tokens[t].revoked
                            ELSE tokens[tokens[t].session].session = tokens[t].session
    BY DEF SessionInv, TokenInv
  <2>2. \A t \in TokenIds : IF tokens'[t].session = 0 THEN ~tokens'[t].revoked
                            ELSE tokens'[tokens'[t].session].session = tokens'[t].session
    <3> SUFFICES ASSUME NEW t \in TokenIds
                 PROVE  IF tokens'[t].session = 0 THEN ~tokens'[t].revoked
                        ELSE tokens'[tokens'[t].session].session = tokens'[t].session
      OBVIOUS
    <3>1. s # n /\ s \in TokenIds /\ tokens'[s].session = s
      BY <1>3, <1>4, <1>5 DEF Sessions
    <3>2. CASE t = n
      BY <1>3, <1>5, <3>1, <3>2
    <3>3. CASE t # n /\ tokens[t].session = 0
      <4>1. t # old
        BY <1>3, <3>3 DEF s
      <4> QED BY <1>5, <2>1, <3>3, <4>1
    <3>4. CASE t # n /\ tokens[t].session # 0
      <4>1. tokens[t].session \in TokenIds \ {n} /\ tokens'[t].session = tokens[t].session
        BY <1>5, <1>8, <3>4
      <4>2. tokens'[tokens[t].session].session = tokens[tokens[t].session].session
        BY <1>5, <4>1
      <4> QED BY <2>1, <3>4, <4>1, <4>2
    <3> QED BY <3>2, <3>3, <3>4
  <2>3. \A t, u \in TokenIds :
          /\ tokens[t].session = tokens[u].session /\ tokens[t].session # 0
          /\ ~tokens[t].revoked /\ ~tokens[u].revoked
          => t = u
    BY DEF SessionInv, TokenInv
  <2>4. \A t, u \in TokenIds :
          /\ tokens'[t].session = tokens'[u].session /\ tokens'[t].session # 0
          /\ ~tokens'[t].revoked /\ ~tokens'[u].revoked
          => t = u
    <3>1. \A t \in TokenIds \ {n} : tokens[t].session = s /\ ~tokens[t].revoked => t = old
      BY <1>3, <2>3 DEF s
    <3> QED BY <1>3, <1>4, <1>5, <2>3, <3>1
  <2>5. /\ \A x \in ended : tokens'[x].session = x
        /\ \A x \in ended \ outrun : LiveTokens(x)' = {}
    BY <1>5, <1>6, <1>9 DEF SessionInv, TokenInv, Sessions
  <2> QED BY <1>9, <2>2, <2>4, <2>5 DEF TokenInv
<1>11. \A o \in Slots :
         req'[o] = IF o = r THEN NoReq
                   ELSE IF LastUpdate(req[o]) /\ old \in req[o].found
                        THEN [req[o] EXCEPT !.outrun = @ \cup {s}] ELSE req[o]
  BY DEF Rotate, old, s
<1>12. ASSUME NEW o \in Slots, o # r
       PROVE  /\ req'[o].pc = req[o].pc /\ req'[o].op = req[o].op /\ req'[o].own = req[o].own
              /\ req'[o].tok = req[o].tok /\ req'[o].found = req[o].found
              /\ req'[o].write = req[o].write /\ req'[o].doomed = req[o].doomed
              /\ req[o].outrun \subseteq req'[o].outrun
              /\ LastUpdate(req[o]) /\ old \in req[o].found => s \in req'[o].outrun
  <2>1. req[o] \in Request
    BY DEF TypeOK, RequestTypeOK
  <2>2. CASE LastUpdate(req[o]) /\ old \in req[o].found
    <3>1. req'[o] = [req[o] EXCEPT !.outrun = @ \cup {s}]
      BY <1>11, <1>12, <2>2
    <3> QED BY <2>1, <3>1 DEF Request
  <2>3. CASE ~(LastUpdate(req[o]) /\ old \in req[o].found)
    <3>1. req'[o] = req[o]
      BY <1>11, <1>12, <2>3
    <3> QED BY <2>3, <3>1
  <2> QED BY <2>2, <2>3
<1>13. req'[r] = NoReq
  BY <1>11
<1>14. Apart'
  BY <1>12, <1>13 DEF SessionInv, Apart, NoReq
<1>15. ASSUME NEW o \in Slots
       PROVE  RequestInv(req[o])'
  <2>1. CASE o = r
    BY <1>13, <2>1 DEF RequestInv, Held, Stages, Dooms, NoReq
  <2>2. CASE o # r
    <3>1. /\ RequestInv(req[o]) /\ req[o].found \subseteq TokenIds
          /\ req[o].write \subseteq TokenIds /\ req[o].doomed \subseteq Sessions
      BY DEF SessionInv, TypeOK, RequestTypeOK, Request
    <3>2. old \notin req[o].write
      BY <1>3, <2>2 DEF SessionInv, Apart
    <3>3. Held(req[o])'
      BY <1>4, <1>5, <1>12, <2>2, <3>1, <3>2 DEF RequestInv, Held
    <3>4. Stages(req[o])'
      <4>1. req[o].pc \in {"claim", "rotate"} =>
              req[o].tok \in TokenIds /\ tokens'[req[o].tok].session # 0
        BY <1>3, <1>4, <1>5, <3>1 DEF RequestInv, Stages
      <4>2. \A t \in req[o].found : tokens'[t].session # 0
        BY <1>3, <1>4, <1>5, <3>1 DEF RequestInv, Stages
      <4> QED BY <1>12, <2>2, <3>1, <4>1, <4>2 DEF RequestInv, Stages
    <3>5. Dooms(req[o])'
      <4>a. LastUpdate(req[o])' <=> LastUpdate(req[o])
        BY <1>12, <2>2 DEF LastUpdate
      <4> SUFFICES ASSUME NEW x \in req[o].doomed
                   PROVE  /\ x # req[o].own
                          /\ tokens'[x].session = x
                          /\ LastUpdate(req[o]) /\ x \notin req'[o].outrun =>
                               LiveTokens(x)' \subseteq req[o].found \cup req[o].write
                          /\ req[o].pc = "commit" /\ x \notin req'[o].outrun =>
                               LiveTokens(x)' \subseteq req[o].write
        BY <1>12, <2>2, <4>a DEF Dooms
      <4>1. x \in Sessions /\ (x \notin req'[o].outrun => x \notin req[o].outrun)
        BY <1>12, <2>2, <3>1
      <4>2. /\ x # req[o].own /\ tokens[x].session = x
            /\ LastUpdate(req[o]) /\ x \notin req[o].outrun =>
                 LiveTokens(x) \subseteq req[o].found \cup req[o].write
            /\ req[o].pc = "commit" /\ x \notin req[o].outrun =>
                 LiveTokens(x) \subseteq req[o].write
        BY <3>1, <4>1 DEF RequestInv, Dooms
      <4>3. tokens'[x].session = x
        BY <1>3, <1>5, <1>8, <4>1, <4>2 DEF Sessions
      <4>4. CASE x = s
        <5>1. ~(req[o].pc = "commit" /\ x \notin req'[o].outrun)
          BY <1>7, <3>2, <4>1, <4>2, <4>4
        <5>2. ~(LastUpdate(req[o]) /\ x \notin req'[o].outrun)
          BY <1>7, <1>12, <2>2, <3>2, <4>1, <4>2, <4>4
        <5> QED BY <4>2, <4>3, <5>1, <5>2
      <4>5. CASE x # s
        <5>1. LiveTokens(x)' = LiveTokens(x)
          BY <1>6, <4>1, <4>5
        <5> QED BY <4>1, <4>2, <4>3, <5>1
      <4> QED BY <4>4, <4>5
    <3> QED BY <3>3, <3>4, <3>5 DEF RequestInv
  <2> QED BY <2>1, <2>2
<1> QED BY <1>10, <1>14, <1>15 DEF SessionInv

LEMMA CommitInv ==
  ASSUME TypeOK, SessionInv, NEW r \in Slots, Commit(r)
  PROVE  SessionInv'
<1>1. RequestInv(req[r]) /\ req[r].pc = "commit"
  BY DEF Commit, SessionInv
<1>2. \A t \in TokenIds : /\ tokens'[t].session = tokens[t].session
                          /\ tokens'[t].revoked = (tokens[t].revoked \/ t \in req[r].write)
  BY DEF Commit, TypeOK, RowTypeOK
<1>3. \A s \in Sessions : LiveTokens(s)' = LiveTokens(s) \ req[r].write
  BY <1>2 DEF LiveTokens
<1>4. /\ \A t \in TokenIds : tokens[t].session \in TokenIds \cup {0}
      /\ ended \subseteq Sessions /\ req[r].doomed \subseteq Sessions
  BY DEF TypeOK, RowTypeOK, RequestTypeOK, HistoryTypeOK, Request, Sessions
<1>5. /\ ended' = ended \cup req[r].doomed
      /\ outrun' = (outrun \ req[r].doomed) \cup (req[r].doomed \cap req[r].outrun)
      /\ \A o \in Slots : req'[o] = IF o = r THEN NoReq ELSE req[o]
  BY DEF Commit, Done, TypeOK, RequestTypeOK
<1>6. TokenInv'
  <2>1. \A t \in TokenIds : IF tokens'[t].session = 0 THEN ~tokens'[t].revoked
                            ELSE tokens'[tokens'[t].session].session = tokens'[t].session
    <3> SUFFICES ASSUME NEW t \in TokenIds
                 PROVE  IF tokens'[t].session = 0 THEN ~tokens'[t].revoked
                        ELSE tokens'[tokens'[t].session].session = tokens'[t].session
      OBVIOUS
    <3>1. IF tokens[t].session = 0 THEN ~tokens[t].revoked
          ELSE tokens[tokens[t].session].session = tokens[t].session
      BY DEF SessionInv, TokenInv
    <3>2. CASE tokens[t].session = 0
      BY <1>1, <1>2, <3>1, <3>2 DEF RequestInv, Held
    <3>3. CASE tokens[t].session # 0
      BY <1>2, <1>4, <3>1, <3>3
    <3> QED BY <3>2, <3>3
  <2>2. \A t, u \in TokenIds :
          /\ tokens'[t].session = tokens'[u].session /\ tokens'[t].session # 0
          /\ ~tokens'[t].revoked /\ ~tokens'[u].revoked
          => t = u
    BY <1>2 DEF SessionInv, TokenInv
  <2>3. ASSUME NEW s \in ended'
        PROVE  tokens'[s].session = s /\ (s \notin outrun' => LiveTokens(s)' = {})
    <3>1. s \in Sessions /\ tokens[s].session = s
      BY <1>1, <1>4, <1>5 DEF RequestInv, Dooms, SessionInv, TokenInv
    <3>2. s \notin outrun' => LiveTokens(s) \subseteq req[r].write
      BY <1>1, <1>4, <1>5 DEF RequestInv, Dooms, SessionInv, TokenInv
    <3> QED BY <1>2, <1>3, <3>1, <3>2 DEF Sessions
  <2> QED BY <2>1, <2>2, <2>3 DEF TokenInv
<1>7. Apart'
  BY <1>5 DEF SessionInv, Apart, NoReq
<1>8. ASSUME NEW o \in Slots
      PROVE  RequestInv(req[o])'
  <2>1. CASE o = r
    <3>1. req'[o] = NoReq
      BY <1>5, <2>1
    <3> QED BY <3>1 DEF RequestInv, Held, Stages, Dooms, NoReq
  <2>2. CASE o # r
    <3>1. /\ RequestInv(req[o]) /\ req'[o] = req[o] /\ req[o].found \subseteq TokenIds
          /\ req[o].write \subseteq TokenIds /\ req[o].doomed \subseteq Sessions
      BY <1>5, <2>2 DEF SessionInv, TypeOK, RequestTypeOK, Request
    <3>2. req[o].write \cap req[r].write = {}
      BY <2>2 DEF SessionInv, Apart
    <3>3. Held(req[o])'
      BY <1>2, <3>1, <3>2 DEF RequestInv, Held
    <3>4. Stages(req[o])'
      BY <1>2, <3>1 DEF RequestInv, Stages
    <3>5. Dooms(req[o])'
      BY <1>2, <1>3, <3>1 DEF RequestInv, Dooms, LastUpdate, Sessions
    <3> QED BY <3>3, <3>4, <3>5 DEF RequestInv
  <2> QED BY <2>1, <2>2
<1> QED BY <1>6, <1>7, <1>8 DEF SessionInv

-----------------------------------------------------------------------------
(* The invariant.                                                           *)

Inv == TypeOK /\ SessionInv

LEMMA InitInv == Init => Inv
<1> SUFFICES ASSUME Init PROVE Inv
  OBVIOUS
<1>1. 1 \in TokenIds
  BY SignInAssumption DEF TokenIds
<1>2. RowTypeOK
  <2>1. PICK totp \in BOOLEAN :
          /\ account = [FirstRow EXCEPT !.secret = IF totp THEN 1 ELSE 0, !.enabled = totp]
          /\ recovery = [c \in Codes |-> IF totp /\ c = Min(Codes) THEN "unused" ELSE "none"]
    BY DEF Init
  <2>2. account \in Account
    BY <2>1 DEF FirstRow, Account
  <2>3. recovery \in [Codes -> {"none", "unused", "used", "deleted"}]
    BY <2>1
  <2>4. tokens \in [TokenIds -> [session : Sessions \cup {0}, revoked : BOOLEAN,
                                expired : BOOLEAN]]
    <3>1. tokens = [t \in TokenIds |-> [NoToken EXCEPT !.session = IF t = 1 THEN 1 ELSE 0]]
      BY DEF Init
    <3> QED BY <1>1, <3>1 DEF NoToken, Sessions
  <2>5. access \in [Sessions -> Nat]
    BY DEF Init
  <2> QED BY <2>2, <2>3, <2>4, <2>5 DEF RowTypeOK
<1>3. StoreTypeOK
  BY SignInAssumption DEF Init, StoreTypeOK
<1>4. RequestTypeOK
  BY NoReqType, SignInAssumption DEF Init, RequestTypeOK
<1>5. HistoryTypeOK
  BY DEF Init, HistoryTypeOK, FirstRow
<1>6. \A t \in TokenIds : tokens[t].session = (IF t = 1 THEN 1 ELSE 0) /\ ~tokens[t].revoked
  BY DEF Init, NoToken
<1>7. (\A r \in Slots : req[r] = NoReq) /\ ended = {} /\ outrun = {}
  BY DEF Init
<1>8. TokenInv
  BY <1>1, <1>6 DEF TokenInv, Init
<1>9. Apart /\ \A r \in Slots : RequestInv(req[r])
  BY <1>7 DEF Apart, RequestInv, Held, Stages, Dooms, NoReq
<1> QED BY <1>2, <1>3, <1>4, <1>5, <1>8, <1>9 DEF Inv, TypeOK, SessionInv

LEMMA NextInv == Inv /\ [Next]_vars => Inv'
<1> SUFFICES ASSUME Inv, [Next]_vars PROVE Inv'
  OBVIOUS
<1> USE DEF Inv
<1>1. CASE Relent
  BY <1>1, RelentType, RelentInv
<1>2. CASE ChallengeExpires
  BY <1>2, ChallengeExpiresType, ChallengeExpiresInv
<1>3. CASE \E t \in TokenIds : TokenExpires(t)
  BY <1>3, TokenExpiresType, TokenExpiresInv
<1>4. CASE \E s \in Sessions : OwnPasswordWrong(s)
  BY <1>4, OwnPasswordWrongType, OwnPasswordWrongInv
<1>5. CASE \E r \in Slots : LoginBegin(r)
  BY <1>5, LoginBeginType, LoginBeginInv
<1>6. CASE \E r \in Slots : VerifyBegin(r)
  BY <1>6, VerifyBeginType, VerifyBeginInv
<1>7. CASE \E r \in Slots : WrongCode(r)
  BY <1>7, WrongCodeType, WrongCodeInv
<1>8. CASE \E r \in Slots : RightCode(r)
  BY <1>8, RightCodeType, RightCodeInv
<1>9. CASE \E r \in Slots : MarkCode(r)
  BY <1>9, MarkCodeType, MarkCodeInv
<1>10. CASE \E r \in Slots : Open(r)
  BY <1>10, OpenType, OpenInv
<1>11. CASE \E r \in Slots : Scan(r)
  BY <1>11, ScanType, ScanInv
<1>12. CASE \E r \in Slots : Store(r)
  BY <1>12, StoreType, StoreInv
<1>13. CASE \E r \in Slots : Commit(r)
  BY <1>13, CommitType, CommitInv
<1>14. CASE \E r \in Slots, right \in BOOLEAN : Password(r, right)
  BY <1>14, PasswordType, PasswordInv
<1>15. CASE \E r \in Slots, c \in Codes : FindCode(r, c)
  BY <1>15, FindCodeType, FindCodeInv
<1>16. CASE \E r \in Slots, t \in TokenIds, secret \in BOOLEAN : RefreshBegin(r, t, secret)
  BY <1>16, RefreshBeginType, RefreshBeginInv
<1>17. CASE \E r \in Slots, t \in TokenIds : LogoutBegin(r, t)
  BY <1>17, LogoutBeginType, LogoutBeginInv
<1>18. CASE \E r \in Slots : Claim(r)
  <2> SUFFICES ASSUME NEW r \in Slots, Claim(r) PROVE Inv'
    BY <1>18
  <2>1. req[r].tok \in TokenIds
    BY DEF Claim, SessionInv, RequestInv, Stages
  <2> QED BY <2>1, ClaimType, ClaimInv
<1>19. CASE \E r \in Slots : Rotate(r)
  <2> SUFFICES ASSUME NEW r \in Slots, Rotate(r) PROVE Inv'
    BY <1>19
  <2>1. req[r].tok \in TokenIds /\ tokens[req[r].tok].session # 0
    BY DEF Rotate, SessionInv, RequestInv, Stages
  <2> QED BY <2>1, RotateType, RotateInv
<1>20. CASE \E r \in Slots : Update(r)
  BY <1>20, UpdateType, UpdateInv
<1>21. CASE \E r \in Slots : ResetPassword(r)
  BY <1>21, ResetPasswordType, EndBeginInv DEF ResetPassword, EndBegin
<1>22. CASE \E r \in Slots : Deactivate(r)
  BY <1>22, DeactivateType, EndBeginInv DEF Deactivate, EndBegin
<1>23. CASE \E r \in Slots, own \in Sessions \cup {0} : RevokeSessions(r, own)
  BY <1>23, RevokeSessionsType, EndBeginInv DEF RevokeSessions, EndBegin
<1>24. CASE \E r \in Slots, own \in Sessions : ChangeOwnPassword(r, own)
  BY <1>24, ChangeOwnPasswordType, EndBeginInv DEF ChangeOwnPassword, EndBegin
<1>25. CASE \E r \in Slots : Activate(r)
  BY <1>25, ActivateType, RowBeginInv DEF Activate, RowBegin
<1>26. CASE \E r \in Slots : Grant(r)
  BY <1>26, GrantType, RowBeginInv DEF Grant, RowBegin
<1>27. CASE \E r \in Slots : SetExpiry(r)
  BY <1>27, SetExpiryType, RowBeginInv DEF SetExpiry, RowBegin
<1>28. CASE \E r \in Slots : TotpRemove(r)
  BY <1>28, TotpRemoveType, RowBeginInv DEF TotpRemove, RowBegin
<1>29. CASE \E r \in Slots, own \in Sessions : TotpSetup(r, own)
  BY <1>29, TotpSetupType, RowBeginInv DEF TotpSetup, RowBegin
<1>30. CASE \E r \in Slots, own \in Sessions : TotpConfirm(r, own)
  BY <1>30, TotpConfirmType, RowBeginInv DEF TotpConfirm, RowBegin
<1>31. CASE UNCHANGED vars
  <2>1. TypeOK'
    BY <1>31 DEF vars, TypeOK, RowTypeOK, StoreTypeOK, RequestTypeOK, HistoryTypeOK
  <2> QED BY <1>31, <2>1, SameInv DEF vars
<1> QED
  BY <1>1, <1>2, <1>3, <1>4, <1>5, <1>6, <1>7, <1>8, <1>9, <1>10, <1>11, <1>12, <1>13,
     <1>14, <1>15, <1>16, <1>17, <1>18, <1>19, <1>20, <1>21, <1>22, <1>23, <1>24, <1>25,
     <1>26, <1>27, <1>28, <1>29, <1>30, <1>31
  DEF Next

\* The inductive invariant holds of every reachable state.
THEOREM Invariance == Spec => []Inv
BY InitInv, NextInv, PTL DEF Spec

\* Every variable keeps its type.
THEOREM TypeCorrect == Spec => []TypeOK
<1>1. Inv => TypeOK
  BY DEF Inv
<1> QED BY <1>1, Invariance, PTL

\* However many refreshes, sign-outs and revocations overlap, a session has at
\* most one token that is not revoked: no cookie is rotated into two.
THEOREM OneTokenLives == Spec => []OneLiveToken
<1>1. Inv => OneLiveToken
  <2> SUFFICES ASSUME Inv, NEW s \in Sessions
               PROVE  Cardinality(LiveTokens(s)) <= 1
    BY DEF OneLiveToken
  <2>1. s # 0
    BY DEF Sessions, TokenIds
  <2>2. CASE LiveTokens(s) = {}
    BY <2>2, FS_EmptySet
  <2>3. CASE LiveTokens(s) # {}
    <3>1. PICK t : t \in LiveTokens(s)
      BY <2>3
    <3>2. ASSUME NEW u \in LiveTokens(s) PROVE u = t
      BY <2>1, <3>1 DEF LiveTokens, Inv, SessionInv, TokenInv
    <3>3. LiveTokens(s) = {t}
      BY <3>1, <3>2
    <3>4. Cardinality({t}) = 1
      BY FS_Singleton
    <3> QED BY <3>3, <3>4
  <2> QED BY <2>2, <2>3
<1> QED BY <1>1, Invariance, PTL

\* What an operation was to end is over once it has committed, whatever else is
\* under way, unless a rotation replaced the session's token after the last of
\* its updates had picked its rows (for a logout: after it had loaded its row).
THEOREM EndedStaysOver == Spec => []EndedIsOver
<1>1. Inv => EndedIsOver
  BY DEF Inv, SessionInv, TokenInv, EndedIsOver
<1> QED BY <1>1, Invariance, PTL

-----------------------------------------------------------------------------
(* The sessions as chains.                                                  *)

\* Most steps show nothing of themselves in a session's status.
LEMMA SameStatus ==
  ASSUME \A t \in TokenIds : /\ tokens'[t].session = tokens[t].session
                             /\ tokens'[t].revoked = tokens[t].revoked
  PROVE  UNCHANGED Status
<1>1. \A s \in Sessions : LiveTokens(s)' = LiveTokens(s)
  BY DEF LiveTokens
<1>2. \A s \in Sessions : Status'[s] = Status[s]
  BY <1>1 DEF Status
<1> QED BY <1>2 DEF Status

LEMMA OpenStarts ==
  ASSUME Inv, NEW r \in Slots, Open(r)
  PROVE  Chain!Next
<1>1. PICK n \in Fresh : tokens' = [tokens EXCEPT ![n].session = n]
  BY DEF Open
<1>2. n \in Sessions /\ n \in TokenIds /\ n # 0 /\ tokens[n].session = 0 /\ ~tokens[n].revoked
  BY DEF Fresh, Sessions, TokenIds, Inv, SessionInv, TokenInv
<1>3. \A t \in TokenIds : /\ tokens'[t].session = IF t = n THEN n ELSE tokens[t].session
                          /\ tokens'[t].revoked = tokens[t].revoked
  BY <1>1, <1>2 DEF Inv, TypeOK, RowTypeOK
<1>4. \A t \in TokenIds : tokens[t].session # n
  BY <1>2 DEF Inv, TypeOK, RowTypeOK, Sessions, SessionInv, TokenInv
<1>5. Status[n] = "none"
  BY <1>2, <1>4 DEF Status, LiveTokens
<1>6. Status'[n] = "live"
  <2>1. n \in LiveTokens(n)'
    BY <1>2, <1>3 DEF LiveTokens
  <2> QED BY <1>2, <2>1 DEF Status
<1>7. \A s \in Sessions \ {n} : Status'[s] = Status[s]
  <2> SUFFICES ASSUME NEW s \in Sessions \ {n} PROVE Status'[s] = Status[s]
    OBVIOUS
  <2>1. \A t \in TokenIds : tokens'[t].session = s <=> tokens[t].session = s
    BY <1>2, <1>3 DEF Sessions, TokenIds
  <2>2. LiveTokens(s)' = LiveTokens(s)
    BY <1>3, <2>1 DEF LiveTokens
  <2> QED BY <2>1, <2>2 DEF Status
<1>8. Status' = [Status EXCEPT ![n] = "live"]
  <2>1. Status = [s \in Sessions |-> Status[s]] /\ Status' = [s \in Sessions |-> Status'[s]]
    BY DEF Status
  <2> QED BY <1>6, <1>7, <2>1
<1> QED BY <1>2, <1>5, <1>8 DEF Chain!Next, Chain!Start

\* A rotation shows nothing: the session lives by the next token.
LEMMA RotateHides ==
  ASSUME Inv, NEW r \in Slots, Rotate(r)
  PROVE  UNCHANGED Status
<1> DEFINE old == req[r].tok
           x   == tokens[old].session
<1>1. PICK n \in Fresh : tokens' = [tokens EXCEPT ![old].revoked = TRUE, ![n].session = x]
  BY DEF Rotate
<1>2. /\ old \in TokenIds /\ x # 0 /\ ~tokens[old].revoked /\ x \in Sessions
  BY DEF Rotate, Inv, SessionInv, RequestInv, Held, Stages, TypeOK, RowTypeOK
<1>3. n \in TokenIds /\ n # old /\ tokens[n].session = 0 /\ ~tokens[n].revoked
  BY <1>2 DEF Fresh, Inv, SessionInv, TokenInv
<1>4. \A t \in TokenIds :
        /\ tokens'[t].session = IF t = n THEN x ELSE tokens[t].session
        /\ tokens'[t].revoked = IF t = old THEN TRUE ELSE tokens[t].revoked
  BY <1>1, <1>2, <1>3 DEF Inv, TypeOK, RowTypeOK
<1> SUFFICES ASSUME NEW s \in Sessions PROVE Status'[s] = Status[s]
  BY DEF Status
<1>5. CASE s = x
  <2>1. old \in LiveTokens(s) /\ n \in LiveTokens(s)'
    BY <1>2, <1>3, <1>4, <1>5 DEF LiveTokens
  <2> QED BY <2>1 DEF Status
<1>6. CASE s # x
  <2> HIDE DEF x, old
  <2>1. s # 0
    BY DEF Sessions, TokenIds
  <2>2. tokens[old].session = x
    BY DEF x
  <2>3. \A t \in TokenIds : tokens'[t].session = s <=> tokens[t].session = s
    BY <1>3, <1>4, <1>6, <2>1
  <2>4. LiveTokens(s)' = LiveTokens(s)
    BY <1>4, <1>6, <2>2, <2>3 DEF LiveTokens
  <2> QED BY <2>3, <2>4 DEF Status
<1> QED BY <1>5, <1>6

\* A commit ends the sessions of the tokens it revokes, one token each.
LEMMA CommitEnds ==
  ASSUME Inv, NEW r \in Slots, Commit(r)
  PROVE  Chain!Next
<1> DEFINE S == {tokens[t].session : t \in req[r].write}
<1>1. /\ req[r].write \subseteq TokenIds
      /\ \A t \in req[r].write : tokens[t].session # 0 /\ ~tokens[t].revoked
  BY DEF Inv, SessionInv, RequestInv, Held, TypeOK, RequestTypeOK, Request
<1>2. S \subseteq Sessions
  BY <1>1 DEF Inv, TypeOK, RowTypeOK
<1>3. \A t \in TokenIds : /\ tokens'[t].session = tokens[t].session
                          /\ tokens'[t].revoked = (tokens[t].revoked \/ t \in req[r].write)
  BY DEF Commit, Inv, TypeOK, RowTypeOK
<1>4. \A s \in Sessions : LiveTokens(s)' = LiveTokens(s) \ req[r].write
  BY <1>3 DEF LiveTokens
<1>5. ASSUME NEW s \in S
      PROVE  Status[s] = "live" /\ Status'[s] = "dead"
  <2>1. PICK t \in req[r].write : tokens[t].session = s
    OBVIOUS
  <2>2. /\ t \in LiveTokens(s) /\ s \in Sessions /\ s # 0
    BY <1>1, <1>2, <2>1 DEF LiveTokens
  <2>3. LiveTokens(s)' = {}
    <3>1. ASSUME NEW u \in LiveTokens(s) PROVE u = t
      BY <2>2 DEF LiveTokens, Inv, SessionInv, TokenInv
    <3> QED BY <1>4, <2>2, <3>1
  <2>4. t \in TokenIds /\ tokens'[t].session = s
    BY <1>1, <1>3, <2>1
  <2> QED BY <2>2, <2>3, <2>4 DEF Status
<1>6. ASSUME NEW s \in Sessions \ S
      PROVE  Status'[s] = Status[s]
  <2>1. LiveTokens(s)' = LiveTokens(s)
    BY <1>4 DEF LiveTokens
  <2> QED BY <1>3, <2>1 DEF Status
<1>7. Status' = [s \in Sessions |-> IF s \in S THEN "dead" ELSE Status[s]]
  <2>1. Status' = [s \in Sessions |-> Status'[s]]
    BY DEF Status
  <2> QED BY <1>5, <1>6, <2>1
<1> HIDE DEF S
<1> QED BY <1>2, <1>5, <1>7 DEF Chain!Next, Chain!End

\* The sign-in implements the chain of sessions: every session starts at most
\* once and, ended, stays so, whichever requests are under way.
THEOREM Refinement == Spec => SessionsAreChains
<1>1. Init => Chain!Init
  <2> SUFFICES ASSUME Init PROVE Chain!Init
    OBVIOUS
  <2>1. \A t \in TokenIds : ~tokens[t].revoked
    BY DEF Init, NoToken
  <2>2. \A s \in Sessions : Status[s] \in {"none", "live"}
    BY <2>1 DEF Status, LiveTokens
  <2> QED BY <2>2 DEF Chain!Init, Status
<1>2. Inv /\ [Next]_vars => [Chain!Next]_Status
  <2> SUFFICES ASSUME Inv, [Next]_vars PROVE Chain!Next \/ UNCHANGED Status
    OBVIOUS
  <2>1. CASE \E r \in Slots : Open(r)
    BY <2>1, OpenStarts
  <2>2. CASE \E r \in Slots : Rotate(r)
    BY <2>2, RotateHides
  <2>3. CASE \E r \in Slots : Commit(r)
    BY <2>3, CommitEnds
  <2>4. CASE \E t \in TokenIds : TokenExpires(t)
    BY <2>4, SameStatus DEF TokenExpires, Inv, TypeOK, RowTypeOK
  <2>5. UNCHANGED tokens => UNCHANGED Status
    BY SameStatus
  <2>6. CASE \/ Relent \/ ChallengeExpires \/ (\E s \in Sessions : OwnPasswordWrong(s))
             \/ UNCHANGED vars
    BY <2>5, <2>6 DEF Relent, ChallengeExpires, OwnPasswordWrong, vars
  <2>7. CASE \E r \in Slots :
               \/ LoginBegin(r) \/ (\E right \in BOOLEAN : Password(r, right))
               \/ VerifyBegin(r) \/ WrongCode(r) \/ RightCode(r) \/ MarkCode(r)
               \/ (\E c \in Codes : FindCode(r, c))
               \/ (\E t \in TokenIds : LogoutBegin(r, t) \/ \E secret \in BOOLEAN : RefreshBegin(r, t, secret))
               \/ Claim(r) \/ Scan(r) \/ Update(r) \/ Store(r)
    BY <2>5, <2>7 DEF LoginBegin, Password, VerifyBegin, WrongCode, RightCode, MarkCode,
                      FindCode, RefreshBegin, LogoutBegin, Claim, Scan, Update, Store
  <2>8. CASE \E r \in Slots :
               \/ ResetPassword(r) \/ Deactivate(r) \/ Activate(r) \/ Grant(r) \/ SetExpiry(r)
               \/ (\E s \in Sessions \cup {0} : RevokeSessions(r, s))
               \/ (\E s \in Sessions : \/ ChangeOwnPassword(r, s) \/ TotpSetup(r, s)
                                      \/ TotpConfirm(r, s))
               \/ TotpRemove(r)
    BY <2>5, <2>8 DEF ResetPassword, Deactivate, Activate, Grant, SetExpiry, RevokeSessions,
                      ChangeOwnPassword, TotpSetup, TotpConfirm, TotpRemove, EndBegin, RowBegin
  <2> QED BY <2>1, <2>2, <2>3, <2>4, <2>6, <2>7, <2>8 DEF Next
<1> QED BY <1>1, <1>2, Invariance, PTL DEF Spec, SessionsAreChains, Chain!Spec

-----------------------------------------------------------------------------
(* The inductive invariant of the challenges, the codes, the guesses and    *)
(* the second factor.                                                       *)

Answering(q) == q.pc \in {"code", "mark"}
At(pc) == {r \in Slots : req[r].pc = pc}
Alone(kind) == \A r, o \in Slots : req[r].op = kind /\ req[o].op = kind => r = o

\* Where the requests of a kind can be, and which of them may change the second
\* factor: a request that waits to commit writes it only to set it.
Whereabouts(q) ==
  /\ q.op = "none" => q.pc = "none"
  /\ Answering(q) => q.op = "verify"
  /\ q.op = "verify" => q.pc \in {"code", "mark", "open"}
  /\ q.op = "totp" => q.pc \in {"store", "commit"}
  /\ q.op # "totp" /\ q.pc \notin {"password", "code", "mark", "open"} =>
       q.want.enabled = q.seen.enabled /\ q.want.secret = q.seen.secret

StagesInv == \A r \in Slots : Whereabouts(req[r])

\* An operation on the second factor that is alone has read what still is, and
\* turns it on only for the secret it has read.
FactorInv ==
  "totp" \notin raced =>
    /\ Alone("totp")
    /\ account.enabled => account.secret = confirmed
    /\ \A r \in Slots : req[r].op = "totp" =>
         /\ req[r].seen.enabled = account.enabled
         /\ req[r].seen.secret = account.secret
         /\ req[r].want.enabled => req[r].want.secret = req[r].seen.secret

\* A challenge that is live, or being answered, has opened no session; a code
\* that is unused, or about to be marked, has not been accepted.
OnceInv ==
  "verify" \notin raced =>
    /\ Alone("verify")
    /\ count.signIns <= 1
    /\ challenge.state = "live" => count.signIns = 0
    /\ \A r \in Slots : Answering(req[r]) => count.signIns = 0
    /\ \A c \in Codes : /\ count.uses[c] <= 1
                        /\ recovery[c] \in {"none", "unused"} => count.uses[c] = 0
    /\ \A r \in Slots : req[r].pc = "mark" =>
         /\ req[r].code \in Codes /\ recovery[req[r].code] # "none"
         /\ count.uses[req[r].code] = 0

\* Below the threshold the throttle has seen every wrong password, and each
\* request that may still bring one was let in below it.
PasswordLimit ==
  /\ throttle.failures < Threshold => count.passwords <= throttle.failures
  /\ throttle.rested => count.passwords = 0
  /\ count.passwords + Cardinality(At("password")) <= Threshold - 1 + Cardinality(Slots)

\* The same of the challenge and its wrong codes.
CodeLimit ==
  /\ challenge.state = "live" => /\ count.guesses = challenge.failures
                                 /\ challenge.failures < MaxAttempts
  /\ count.guesses + Cardinality(At("code")) <= MaxAttempts - 1 + Cardinality(Slots)

GuardInv == StagesInv /\ FactorInv /\ OnceInv /\ PasswordLimit /\ CodeLimit

-----------------------------------------------------------------------------
(* A step moves one request, to q; of the others these invariants see the   *)
(* same.                                                                    *)

SameView(p, q) == /\ p.op = q.op /\ p.pc = q.pc /\ p.code = q.code
                  /\ p.seen = q.seen /\ p.want = q.want

Moves(r, q) == /\ req'[r] = q
               /\ \A o \in Slots \ {r} : SameView(req[o], req'[o])

LEMMA AdvanceMoves ==
  ASSUME TypeOK, NEW r \in Slots, NEW q, req' = [req EXCEPT ![r] = q]
  PROVE  Moves(r, q)
BY DEF Moves, SameView, TypeOK, RequestTypeOK

LEMMA ArriveMoves ==
  ASSUME TypeOK, NEW r \in Slots, NEW q, Arrive(r, q)
  PROVE  Moves(r, q) /\ req[r].op = "none"
BY AdvanceMoves DEF Arrive

LEMMA StagesMove ==
  ASSUME StagesInv, NEW r \in Slots, NEW q, Moves(r, q), Whereabouts(q)
  PROVE  StagesInv'
BY DEF StagesInv, Moves, SameView, Whereabouts, Answering

LEMMA FactorMove ==
  ASSUME FactorInv, NEW r \in Slots, NEW q, Moves(r, q),
         account'.enabled = account.enabled, account'.secret = account.secret,
         confirmed' = confirmed, raced \subseteq raced',
         q.op = "totp" => /\ req[r].op = "totp"
                          /\ q.seen = req[r].seen /\ q.want = req[r].want
  PROVE  FactorInv'
BY DEF FactorInv, Alone, Moves, SameView

LEMMA OnceMove ==
  ASSUME OnceInv, NEW r \in Slots, NEW q, Moves(r, q), recovery' = recovery,
         count'.signIns = count.signIns, count'.uses = count.uses,
         challenge'.state = "live" => challenge.state = "live", raced \subseteq raced',
         q.op = "verify" => req[r].op = "verify",
         Answering(q) => Answering(req[r]),
         q.pc = "mark" => \/ req[r].pc = "mark" /\ q.code = req[r].code
                          \/ q.code \in Codes /\ recovery[q.code] = "unused"
  PROVE  OnceInv'
<1> SUFFICES ASSUME "verify" \notin raced' PROVE OnceInv'
  BY DEF OnceInv
<1>1. "verify" \notin raced
  OBVIOUS
<1>2. Alone("verify")'
  BY <1>1 DEF OnceInv, Alone, Moves, SameView
<1>3. /\ count'.signIns <= 1
      /\ challenge'.state = "live" => count'.signIns = 0
      /\ \A o \in Slots : Answering(req'[o]) => count'.signIns = 0
  BY <1>1 DEF OnceInv, Moves, SameView, Answering
<1>4. \A c \in Codes : /\ count'.uses[c] <= 1
                       /\ recovery'[c] \in {"none", "unused"} => count'.uses[c] = 0
  BY <1>1 DEF OnceInv
<1>5. \A o \in Slots : req'[o].pc = "mark" =>
         /\ req'[o].code \in Codes /\ recovery'[req'[o].code] # "none"
         /\ count'.uses[req'[o].code] = 0
  BY <1>1 DEF OnceInv, Moves, SameView
<1> QED BY <1>2, <1>3, <1>4, <1>5 DEF OnceInv

LEMMA AtType ==
  ASSUME NEW pc
  PROVE  /\ IsFiniteSet(At(pc)) /\ Cardinality(At(pc)) \in Nat
         /\ Cardinality(Slots) \in Nat /\ Cardinality(At(pc)) <= Cardinality(Slots)
BY SignInAssumption, FS_Subset, FS_CardinalityType DEF At

LEMMA AtFree ==
  ASSUME NEW pc, NEW r \in Slots, req[r].pc # pc
  PROVE  Cardinality(At(pc)) <= Cardinality(Slots) - 1
<1>1. At(pc) \subseteq Slots \ {r}
  BY DEF At
<1>2. IsFiniteSet(Slots \ {r}) /\ Cardinality(Slots \ {r}) = Cardinality(Slots) - 1
  BY SignInAssumption, FS_RemoveElement
<1> QED BY <1>1, <1>2, FS_Subset, AtType

\* The requests at a point after a move, to another point or from it.
LEMMA AtMove ==
  ASSUME NEW pc, NEW r \in Slots, NEW q, Moves(r, q)
  PROVE  /\ Cardinality(At(pc))' \in Nat /\ Cardinality(At(pc))' <= Cardinality(Slots)
         /\ q.pc # pc => Cardinality(At(pc))' <= Cardinality(At(pc))
         /\ q.pc = req[r].pc => Cardinality(At(pc))' = Cardinality(At(pc))
         /\ q.pc # pc /\ req[r].pc = pc => Cardinality(At(pc))' = Cardinality(At(pc)) - 1
<1>1. At(pc)' = IF q.pc = pc THEN At(pc) \cup {r} ELSE At(pc) \ {r}
  BY DEF At, Moves, SameView
<1>2. /\ IsFiniteSet(At(pc)) /\ At(pc) \subseteq Slots /\ At(pc)' \subseteq Slots
      /\ Cardinality(At(pc)) \in Nat
  BY <1>1, AtType DEF At
<1>3. IsFiniteSet(At(pc)') /\ Cardinality(At(pc)') <= Cardinality(Slots)
  BY <1>2, SignInAssumption, FS_Subset
<1>4. Cardinality(At(pc) \ {r}) = IF r \in At(pc) THEN Cardinality(At(pc)) - 1
                                  ELSE Cardinality(At(pc))
  BY <1>2, FS_RemoveElement
<1>5. r \in At(pc) <=> req[r].pc = pc
  BY DEF At
<1>6. Cardinality(At(pc)') \in Nat
  BY <1>3, FS_CardinalityType
<1>7. q.pc = req[r].pc => At(pc)' = At(pc)
  BY <1>1, <1>5
<1> QED BY <1>1, <1>2, <1>3, <1>4, <1>5, <1>6, <1>7

LEMMA PasswordMove ==
  ASSUME TypeOK, PasswordLimit, NEW r \in Slots, NEW q, Moves(r, q),
         throttle' = throttle, count'.passwords = count.passwords,
         q.pc = "password" => req[r].pc = "password"
  PROVE  PasswordLimit'
<1>1. Cardinality(At("password"))' <= Cardinality(At("password"))
  BY AtMove, AtType
<1>2. Cardinality(At("password"))' \in Nat
  BY AtMove
<1>3. count.passwords \in Nat
  BY DEF TypeOK, HistoryTypeOK
<1> QED BY <1>1, <1>2, <1>3, AtType, SignInAssumption DEF PasswordLimit

LEMMA CodeMove ==
  ASSUME TypeOK, CodeLimit, NEW r \in Slots, NEW q, Moves(r, q),
         challenge'.failures = challenge.failures,
         challenge'.state = "live" => challenge.state = "live",
         count'.guesses = count.guesses, q.pc = "code" => req[r].pc = "code"
  PROVE  CodeLimit'
<1>1. Cardinality(At("code"))' <= Cardinality(At("code"))
  BY AtMove, AtType
<1>2. Cardinality(At("code"))' \in Nat
  BY AtMove
<1>3. count.guesses \in Nat
  BY DEF TypeOK, HistoryTypeOK
<1> QED BY <1>1, <1>2, <1>3, AtType, SignInAssumption DEF CodeLimit

-----------------------------------------------------------------------------
(* Steps that leave the account, the stores and the counts alone.           *)

LEMMA QuietMove ==
  ASSUME TypeOK, GuardInv, NEW r \in Slots, NEW q, Moves(r, q),
         UNCHANGED <<account, recovery, challenge, throttle, count, confirmed, raced>>,
         Whereabouts(q), q.pc \notin {"password", "code", "mark"},
         q.op = "verify" => req[r].op = "verify",
         q.op = "totp" => /\ req[r].op = "totp"
                          /\ q.seen = req[r].seen /\ q.want = req[r].want
  PROVE  GuardInv'
<1>1. ~Answering(q)
  BY DEF Answering
<1>2. StagesInv'
  BY StagesMove DEF GuardInv
<1>3. FactorInv'
  BY FactorMove DEF GuardInv
<1>4. OnceInv'
  BY <1>1, OnceMove DEF GuardInv
<1>5. PasswordLimit'
  BY PasswordMove DEF GuardInv
<1>6. CodeLimit'
  BY CodeMove DEF GuardInv
<1> QED BY <1>2, <1>3, <1>4, <1>5, <1>6 DEF GuardInv

LEMMA NoReqView ==
  /\ NoReq.op = "none" /\ NoReq.pc = "none" /\ NoReq.seen = FirstRow /\ NoReq.want = FirstRow
  /\ Whereabouts(NoReq)
BY DEF NoReq, Whereabouts, Answering

LEMMA DoneMoves ==
  ASSUME TypeOK, NEW r \in Slots, Done(r)
  PROVE  Moves(r, NoReq)
BY AdvanceMoves DEF Done

LEMMA DoneGuard ==
  ASSUME TypeOK, GuardInv, NEW r \in Slots, Moves(r, NoReq),
         UNCHANGED <<account, recovery, challenge, throttle, count, confirmed, raced>>
  PROVE  GuardInv'
BY NoReqView, QuietMove

\* A request on tokens and sessions begins: it writes no column of the second
\* factor.
LEMMA ArriveGuard ==
  ASSUME TypeOK, GuardInv, NEW r \in Slots, NEW q, Arrive(r, q),
         UNCHANGED <<account, recovery, challenge, throttle, count, confirmed, raced>>,
         q.op \in {"refresh", "logout", "end", "row"},
         q.pc \in {"claim", "scan", "first", "store"},
         q.want.enabled = q.seen.enabled, q.want.secret = q.seen.secret
  PROVE  GuardInv'
<1>1. Whereabouts(q)
  BY DEF Whereabouts, Answering
<1> QED BY <1>1, ArriveMoves, QuietMove

\* A request goes on to another point at which it holds the row.
LEMMA StageGuard ==
  ASSUME TypeOK, GuardInv, NEW r \in Slots, NEW q, Moves(r, q),
         UNCHANGED <<account, recovery, challenge, throttle, count, confirmed, raced>>,
         req[r].pc \in {"scan", "first", "second"}, q.pc \in {"first", "second", "commit"},
         q.op = req[r].op, q.seen = req[r].seen, q.want = req[r].want
  PROVE  GuardInv'
<1>1. Whereabouts(req[r])
  BY DEF GuardInv, StagesInv
<1>2. Whereabouts(q)
  BY <1>1 DEF Whereabouts, Answering
<1> QED BY <1>2, QuietMove

LEMMA TokenExpiresGuard ==
  ASSUME GuardInv, NEW t \in TokenIds, TokenExpires(t)
  PROVE  GuardInv'
BY DEF TokenExpires, GuardInv, StagesInv, FactorInv, OnceInv, PasswordLimit, CodeLimit, At, Alone

LEMMA RefreshBeginGuard ==
  ASSUME TypeOK, GuardInv, NEW r \in Slots, NEW t \in TokenIds, NEW secret \in BOOLEAN,
         RefreshBegin(r, t, secret)
  PROVE  GuardInv'
<1> DEFINE q == [NoReq EXCEPT !.op = "refresh", !.tok = t,
                              !.pc = IF Valid(t) /\ secret THEN "claim" ELSE "scan"]
<1>1. /\ q.op = "refresh" /\ q.pc \in {"claim", "scan"}
      /\ q.want = FirstRow /\ q.seen = FirstRow
  BY DEF NoReq
<1>2. Arrive(r, q)
  BY DEF RefreshBegin
<1> HIDE DEF q
<1> QED BY <1>1, <1>2, ArriveGuard DEF RefreshBegin

LEMMA LogoutBeginGuard ==
  ASSUME TypeOK, GuardInv, NEW r \in Slots, NEW t \in TokenIds, LogoutBegin(r, t)
  PROVE  GuardInv'
<1> DEFINE q == [NoReq EXCEPT !.op = "logout", !.pc = "first", !.found = {t},
                              !.doomed = {tokens[t].session}]
<1>1. q.op = "logout" /\ q.pc = "first" /\ q.want = FirstRow /\ q.seen = FirstRow
  BY DEF NoReq
<1>2. Arrive(r, q)
  BY DEF LogoutBegin
<1> HIDE DEF q
<1> QED BY <1>1, <1>2, ArriveGuard DEF LogoutBegin

LEMMA OpenGuard ==
  ASSUME TypeOK, GuardInv, NEW r \in Slots, Open(r)
  PROVE  GuardInv'
BY DoneMoves, DoneGuard DEF Open

LEMMA ClaimGuard ==
  ASSUME TypeOK, GuardInv, NEW r \in Slots, Claim(r)
  PROVE  GuardInv'
<1> DEFINE q == [req[r] EXCEPT !.pc = IF Usable(account) THEN "rotate" ELSE "commit",
                               !.seen = account, !.want = account, !.write = {req[r].tok}]
<1>1. CASE Done(r)
  BY <1>1, DoneMoves, DoneGuard DEF Claim
<1>2. CASE req' = [req EXCEPT ![r].pc = IF Usable(account) THEN "rotate" ELSE "commit",
                              ![r].seen = account, ![r].want = account,
                              ![r].write = {req[r].tok}]
  <2>1. req' = [req EXCEPT ![r] = q]
    BY <1>2
  <2>2. /\ q.op = req[r].op /\ q.pc \in {"rotate", "commit"}
        /\ q.seen = account /\ q.want = account
    BY DEF TypeOK, RequestTypeOK, Request
  <2>3. req[r].op \notin {"none", "verify", "totp"}
    BY DEF Claim, GuardInv, StagesInv, Whereabouts
  <2> HIDE DEF q
  <2>4. Whereabouts(q)
    BY <2>2, <2>3 DEF Whereabouts, Answering
  <2>5. Moves(r, q)
    BY <2>1, AdvanceMoves
  <2> QED BY <2>2, <2>3, <2>4, <2>5, QuietMove DEF Claim
<1> QED BY <1>1, <1>2 DEF Claim

LEMMA RotateGuard ==
  ASSUME TypeOK, GuardInv, NEW r \in Slots, Rotate(r)
  PROVE  GuardInv'
<1>1. \A o \in Slots \ {r} : \/ req'[o] = req[o]
                             \/ \E d : req'[o] = [req[o] EXCEPT !.outrun = d]
  BY DEF Rotate
<1>2. \A o \in Slots \ {r} : SameView(req[o], req'[o])
  BY <1>1 DEF SameView, TypeOK, RequestTypeOK, Request
<1>3. req'[r] = NoReq
  BY DEF Rotate
<1> QED BY <1>2, <1>3, DoneGuard DEF Rotate, Moves

LEMMA ScanGuard ==
  ASSUME TypeOK, GuardInv, NEW r \in Slots, Scan(r)
  PROVE  GuardInv'
<1>1. PICK f, d : req' = [req EXCEPT ![r].pc = IF req[r].op = "refresh" THEN "second"
                                              ELSE "first",
                                     ![r].found = f, ![r].doomed = d]
  BY DEF Scan
<1> DEFINE q == [req[r] EXCEPT !.pc = IF req[r].op = "refresh" THEN "second" ELSE "first",
                               !.found = f, !.doomed = d]
<1>2. /\ q.op = req[r].op /\ q.seen = req[r].seen /\ q.want = req[r].want
      /\ q.pc \in {"first", "second"}
  BY DEF TypeOK, RequestTypeOK, Request
<1>3. Moves(r, q)
  BY <1>1, AdvanceMoves
<1> HIDE DEF q
<1> QED BY <1>2, <1>3, StageGuard DEF Scan

LEMMA UpdateGuard ==
  ASSUME TypeOK, GuardInv, NEW r \in Slots, Update(r)
  PROVE  GuardInv'
<1> DEFINE write == req[r].write \cup {t \in req[r].found : ~tokens[t].revoked}
           next  == IF req[r].pc = "first" /\ req[r].op = "end" THEN NextScan ELSE "commit"
           found == IF next = "second" THEN Matching(req[r]) \ write ELSE {}
           q == [req[r] EXCEPT !.pc = next, !.write = write, !.found = found]
<1>1. req' = [req EXCEPT ![r] = q]
  BY DEF Update
<1>2. next \in {"second", "commit"}
  BY DEF NextScan
<1> HIDE DEF write, next, found
<1>3. q.op = req[r].op /\ q.seen = req[r].seen /\ q.want = req[r].want /\ q.pc = next
  BY DEF TypeOK, RequestTypeOK, Request
<1> HIDE DEF q
<1> QED BY <1>1, <1>2, <1>3, AdvanceMoves, StageGuard DEF Update

LEMMA StoreGuard ==
  ASSUME TypeOK, GuardInv, NEW r \in Slots, Store(r)
  PROVE  GuardInv'
<1> DEFINE q == [req[r] EXCEPT !.pc = "commit"]
<1>1. q.op = req[r].op /\ q.seen = req[r].seen /\ q.want = req[r].want /\ q.pc = "commit"
  BY DEF TypeOK, RequestTypeOK, Request
<1>2. Moves(r, q)
  BY AdvanceMoves DEF Store, Goto
<1>3. Whereabouts(req[r]) /\ req[r].pc = "store"
  BY DEF GuardInv, StagesInv, Store
<1> HIDE DEF q
<1>4. Whereabouts(q)
  BY <1>1, <1>3 DEF Whereabouts, Answering
<1> QED BY <1>1, <1>2, <1>4, QuietMove DEF Store

LEMMA EndBeginGuard ==
  ASSUME TypeOK, GuardInv, NEW r \in Slots, NEW own, NEW row, EndBegin(r, "end", own, row),
         UNCHANGED <<throttle, count>>,
         row.enabled = account.enabled, row.secret = account.secret
  PROVE  GuardInv'
<1> DEFINE q == [NoReq EXCEPT !.op = "end", !.pc = "scan", !.own = own,
                              !.seen = account, !.want = row]
<1>1. q.op = "end" /\ q.pc = "scan" /\ q.want = row /\ q.seen = account
  BY DEF NoReq
<1>2. Arrive(r, q)
  BY DEF EndBegin
<1> HIDE DEF q
<1> QED BY <1>1, <1>2, ArriveGuard DEF EndBegin

LEMMA RowBeginGuard ==
  ASSUME TypeOK, GuardInv, NEW r \in Slots, NEW row, RowBegin(r, "row", row),
         UNCHANGED raced, row.enabled = account.enabled, row.secret = account.secret
  PROVE  GuardInv'
<1> DEFINE q == [NoReq EXCEPT !.op = "row", !.pc = "store", !.seen = account, !.want = row]
<1>1. q.op = "row" /\ q.pc = "store" /\ q.want = row /\ q.seen = account
  BY DEF NoReq
<1>2. Arrive(r, q)
  BY DEF RowBegin
<1> HIDE DEF q
<1> QED BY <1>1, <1>2, ArriveGuard DEF RowBegin

LEMMA AdministratorGuard ==
  ASSUME TypeOK, GuardInv, NEW r \in Slots,
         \/ ResetPassword(r) \/ Deactivate(r) \/ Activate(r) \/ Grant(r) \/ SetExpiry(r)
         \/ \E s \in Sessions \cup {0} : RevokeSessions(r, s)
  PROVE  GuardInv'
<1>1. account \in Account
  BY DEF TypeOK, RowTypeOK
<1>2. CASE ResetPassword(r)
  BY <1>1, <1>2, EndBeginGuard DEF ResetPassword, Account
<1>3. CASE Deactivate(r)
  BY <1>1, <1>3, EndBeginGuard DEF Deactivate, Account
<1>4. CASE Activate(r)
  BY <1>1, <1>4, RowBeginGuard DEF Activate, Account
<1>5. CASE Grant(r)
  BY <1>1, <1>5, RowBeginGuard DEF Grant, Account
<1>6. CASE SetExpiry(r)
  BY <1>1, <1>6, RowBeginGuard DEF SetExpiry, Account
<1>7. CASE \E s \in Sessions \cup {0} : RevokeSessions(r, s)
  BY <1>7, EndBeginGuard DEF RevokeSessions
<1> QED BY <1>2, <1>3, <1>4, <1>5, <1>6, <1>7

-----------------------------------------------------------------------------
(* Steps of the throttle, the challenge and the codes.                      *)

LEMMA RelentGuard ==
  ASSUME TypeOK, GuardInv, Relent
  PROVE  GuardInv'
<1>1. /\ count'.passwords = 0 /\ count'.guesses = count.guesses
      /\ count'.signIns = count.signIns /\ count'.uses = count.uses
  BY DEF Relent, TypeOK, HistoryTypeOK
<1>2. StagesInv' /\ FactorInv' /\ OnceInv'
  BY <1>1 DEF Relent, GuardInv, StagesInv, FactorInv, OnceInv, Alone
<1>3. PasswordLimit'
  <2>1. throttle'.failures \in Nat
    BY SignInAssumption DEF Relent, TypeOK, StoreTypeOK
  <2>2. At("password")' = At("password")
    BY DEF At, Relent
  <2>3. count.passwords \in Nat
    BY DEF TypeOK, HistoryTypeOK
  <2> QED BY <1>1, <2>1, <2>2, <2>3, AtType, SignInAssumption DEF GuardInv, PasswordLimit
<1>4. CodeLimit'
  BY <1>1 DEF Relent, GuardInv, CodeLimit, At
<1> QED BY <1>2, <1>3, <1>4 DEF GuardInv

LEMMA ChallengeExpiresGuard ==
  ASSUME TypeOK, GuardInv, ChallengeExpires
  PROVE  GuardInv'
<1>1. challenge'.state = "gone"
  BY DEF ChallengeExpires, TypeOK, StoreTypeOK
<1> QED BY <1>1 DEF ChallengeExpires, GuardInv, StagesInv, FactorInv, OnceInv, PasswordLimit,
                    CodeLimit, At, Alone

\* A wrong password under the throttle, with another request that waits or none.
LEMMA FailurePassword ==
  ASSUME TypeOK, PasswordLimit, RecordFailure,
         Cardinality(At("password"))' \in Nat,
         count.passwords + 1 + Cardinality(At("password"))' <= Threshold - 1 + Cardinality(Slots)
  PROVE  PasswordLimit'
<1>1. count'.passwords = count.passwords + 1 /\ count.passwords \in Nat
  BY DEF RecordFailure, TypeOK, HistoryTypeOK
<1>2. /\ throttle'.failures = IF throttle.failures < Threshold THEN throttle.failures + 1
                                                              ELSE Threshold
      /\ throttle'.rested = FALSE /\ throttle.failures \in 0..Threshold
  BY DEF RecordFailure, TypeOK, StoreTypeOK
<1>3. throttle'.failures < Threshold => count'.passwords <= throttle'.failures
  BY <1>1, <1>2, SignInAssumption DEF PasswordLimit
<1> QED BY <1>1, <1>2, <1>3 DEF PasswordLimit

LEMMA SuccessPassword ==
  ASSUME TypeOK, throttle' = NoFailures, count'.passwords = 0,
         Cardinality(At("password"))' \in Nat,
         Cardinality(At("password"))' <= Cardinality(Slots)
  PROVE  PasswordLimit'
BY SignInAssumption, AtType DEF PasswordLimit, NoFailures

\* Who is let in by the throttle finds fewer wrong passwords than the threshold.
LEMMA AllowedPasswords ==
  ASSUME TypeOK, PasswordLimit, AllowAttempt
  PROVE  count.passwords <= Threshold - 1
<1>1. count.passwords \in Nat /\ throttle.failures \in Nat
  BY SignInAssumption DEF TypeOK, HistoryTypeOK, StoreTypeOK
<1> QED BY <1>1, SignInAssumption DEF PasswordLimit, AllowAttempt

LEMMA OwnPasswordWrongGuard ==
  ASSUME TypeOK, GuardInv, NEW s \in Sessions, OwnPasswordWrong(s)
  PROVE  GuardInv'
<1>1. /\ count'.guesses = count.guesses
      /\ count'.signIns = count.signIns /\ count'.uses = count.uses
  BY DEF OwnPasswordWrong, RecordFailure, TypeOK, HistoryTypeOK
<1>2. StagesInv' /\ FactorInv' /\ OnceInv'
  BY <1>1 DEF OwnPasswordWrong, GuardInv, StagesInv, FactorInv, OnceInv, Alone
<1>3. PasswordLimit'
  <2>1. PICK r \in Slots : req[r].op = "none"
    BY DEF OwnPasswordWrong
  <2>2. req[r].pc # "password"
    BY <2>1 DEF GuardInv, StagesInv, Whereabouts
  <2>3. Cardinality(At("password")) <= Cardinality(Slots) - 1
    BY <2>2, AtFree
  <2>4. At("password")' = At("password")
    BY DEF At, OwnPasswordWrong
  <2>5. count.passwords <= Threshold - 1 /\ count.passwords \in Nat
    BY AllowedPasswords DEF OwnPasswordWrong, GuardInv, TypeOK, HistoryTypeOK
  <2>6. count.passwords + 1 + Cardinality(At("password"))' <= Threshold - 1 + Cardinality(Slots)
    BY <2>3, <2>4, <2>5, AtType, SignInAssumption
  <2> QED BY <2>4, <2>6, AtType, FailurePassword DEF OwnPasswordWrong, GuardInv
<1>4. CodeLimit'
  BY <1>1 DEF OwnPasswordWrong, GuardInv, CodeLimit, At
<1> QED BY <1>2, <1>3, <1>4 DEF GuardInv

LEMMA LoginBeginGuard ==
  ASSUME TypeOK, GuardInv, NEW r \in Slots, LoginBegin(r)
  PROVE  GuardInv'
<1> DEFINE q == [NoReq EXCEPT !.op = "login", !.pc = "password"]
<1>1. q.op = "login" /\ q.pc = "password"
  BY DEF NoReq
<1>2. Moves(r, q)
  BY ArriveMoves DEF LoginBegin
<1> HIDE DEF q
<1>3. Whereabouts(q) /\ ~Answering(q)
  BY <1>1 DEF Whereabouts, Answering
<1>4. StagesInv' /\ FactorInv' /\ OnceInv' /\ CodeLimit'
  BY <1>1, <1>2, <1>3, StagesMove, FactorMove, OnceMove, CodeMove DEF LoginBegin, GuardInv
<1>5. PasswordLimit'
  <2>1. count.passwords <= Threshold - 1 /\ count.passwords \in Nat
    BY AllowedPasswords DEF LoginBegin, GuardInv, TypeOK, HistoryTypeOK
  <2>2. Cardinality(At("password"))' \in Nat /\ Cardinality(At("password"))' <= Cardinality(Slots)
    BY <1>2, AtMove
  <2> QED BY <2>1, <2>2, AtType, SignInAssumption DEF LoginBegin, GuardInv, PasswordLimit
<1> QED BY <1>4, <1>5 DEF GuardInv

LEMMA ChangeOwnPasswordGuard ==
  ASSUME TypeOK, GuardInv, NEW r \in Slots, NEW own \in Sessions, ChangeOwnPassword(r, own)
  PROVE  GuardInv'
<1> DEFINE row == [account EXCEPT !.hash = @ + 1, !.must = FALSE]
           q == [NoReq EXCEPT !.op = "end", !.pc = "scan", !.own = own,
                              !.seen = account, !.want = row]
<1>1. /\ q.op = "end" /\ q.pc = "scan" /\ q.seen = account
      /\ q.want.enabled = account.enabled /\ q.want.secret = account.secret
  BY DEF NoReq, TypeOK, RowTypeOK, Account
<1>2. Moves(r, q)
  BY ArriveMoves DEF ChangeOwnPassword, EndBegin
<1>3. /\ count'.passwords = 0 /\ throttle' = NoFailures /\ count'.guesses = count.guesses
      /\ count'.signIns = count.signIns /\ count'.uses = count.uses
  BY DEF ChangeOwnPassword, RecordSuccess, TypeOK, HistoryTypeOK
<1>4. UNCHANGED <<account, recovery, challenge, confirmed, raced>>
  BY DEF ChangeOwnPassword, EndBegin
<1> HIDE DEF q
<1>5. Whereabouts(q) /\ ~Answering(q)
  BY <1>1 DEF Whereabouts, Answering
<1>6. StagesInv' /\ FactorInv' /\ CodeLimit'
  BY <1>1, <1>2, <1>3, <1>4, <1>5, StagesMove, FactorMove, CodeMove DEF GuardInv
<1>7. OnceInv'
  BY <1>1, <1>2, <1>3, <1>4, <1>5, OnceMove DEF GuardInv
<1>8. PasswordLimit'
  BY <1>2, <1>3, AtMove, SuccessPassword
<1> QED BY <1>6, <1>7, <1>8 DEF GuardInv
\* The password of a waiting request has been checked: what each outcome does
\* to the counts.
LEMMA PasswordPasswords ==
  ASSUME TypeOK, GuardInv, NEW r \in Slots, NEW right \in BOOLEAN, Password(r, right),
         NEW q, Moves(r, q), q.pc # "password"
  PROVE  PasswordLimit'
<1>1. req[r].pc = "password"
  BY DEF Password
<1>2. /\ Cardinality(At("password"))' = Cardinality(At("password")) - 1
      /\ Cardinality(At("password"))' \in Nat
      /\ Cardinality(At("password"))' <= Cardinality(Slots)
  BY <1>1, AtMove
<1>3. CASE right
  <2>1. count'.passwords = 0
    BY <1>3 DEF Password, TypeOK, HistoryTypeOK
  <2>2. throttle' = NoFailures
    BY <1>3 DEF Password
  <2> QED BY <1>2, <2>1, <2>2, SuccessPassword
<1>4. CASE ~right
  <2>1. RecordFailure
    BY <1>4 DEF Password
  <2>2. count.passwords \in Nat
    BY DEF TypeOK, HistoryTypeOK
  <2>3. count.passwords + 1 + Cardinality(At("password"))' <= Threshold - 1 + Cardinality(Slots)
    BY <1>2, <2>2, AtType, SignInAssumption DEF GuardInv, PasswordLimit
  <2> QED BY <1>2, <2>1, <2>3, FailurePassword DEF GuardInv
<1> QED BY <1>3, <1>4

LEMMA PasswordGuard ==
  ASSUME TypeOK, GuardInv, NEW r \in Slots, NEW right \in BOOLEAN, Password(r, right)
  PROVE  GuardInv'
<1>1. req[r].pc = "password" /\ Whereabouts(req[r])
  BY DEF Password, GuardInv, StagesInv
<1>2. UNCHANGED <<account, recovery, confirmed, raced>>
  BY DEF Password
<1>3. CASE ~right \/ ~Usable(account) \/ (account.enabled /\ ~ChallengeFree)
  <2>1. Done(r) /\ UNCHANGED challenge
    BY <1>3 DEF Password
  <2>2. Moves(r, NoReq)
    BY <2>1, DoneMoves
  <2>3. /\ count'.guesses = count.guesses
        /\ count'.signIns = count.signIns /\ count'.uses = count.uses
    BY <1>3 DEF Password, RecordFailure, TypeOK, HistoryTypeOK
  <2>4. ~Answering(NoReq)
    BY NoReqView DEF Answering
  <2>5. StagesInv' /\ FactorInv' /\ CodeLimit'
    BY <1>2, <2>1, <2>2, <2>3, NoReqView, StagesMove, FactorMove, CodeMove DEF GuardInv
  <2>6. OnceInv'
    BY <1>2, <2>1, <2>2, <2>3, <2>4, NoReqView, OnceMove DEF GuardInv
  <2>7. PasswordLimit'
    BY <2>2, NoReqView, PasswordPasswords
  <2> QED BY <2>5, <2>6, <2>7 DEF GuardInv
<1>4. CASE right /\ Usable(account) /\ account.enabled /\ ChallengeFree
  <2>1. /\ Done(r) /\ challenge' = [state |-> "live", failures |-> 0]
        /\ count' = [count EXCEPT !.passwords = 0, !.guesses = 0, !.signIns = 0]
    BY <1>4 DEF Password
  <2>2. Moves(r, NoReq)
    BY <2>1, DoneMoves
  <2>3. /\ count'.guesses = 0 /\ count'.signIns = 0 /\ count'.uses = count.uses
        /\ challenge'.state = "live" /\ challenge'.failures = 0
    BY <2>1 DEF TypeOK, HistoryTypeOK
  <2>4. \A o \in Slots : ~Answering(req'[o])
    BY <1>4, <2>2, NoReqView DEF ChallengeFree, Moves, SameView, Answering
  <2>5. StagesInv' /\ FactorInv'
    BY <1>2, <2>2, NoReqView, StagesMove, FactorMove DEF GuardInv
  <2>6. OnceInv'
    <3> SUFFICES ASSUME "verify" \notin raced' PROVE OnceInv'
      BY DEF OnceInv
    <3>1. Alone("verify")'
      BY <1>2, <2>2, NoReqView DEF GuardInv, OnceInv, Alone, Moves, SameView
    <3>2. \A o \in Slots : req'[o].pc # "mark"
      BY <2>4 DEF Answering
    <3>3. \A c \in Codes : /\ count.uses[c] <= 1
                           /\ recovery[c] \in {"none", "unused"} => count.uses[c] = 0
      BY <1>2 DEF GuardInv, OnceInv
    <3> QED BY <1>2, <2>3, <2>4, <3>1, <3>2, <3>3 DEF OnceInv
  <2>7. PasswordLimit'
    BY <2>2, NoReqView, PasswordPasswords
  <2>8. CodeLimit'
    <3>1. Cardinality(At("code"))' \in Nat /\ Cardinality(At("code"))' <= Cardinality(Slots)
      BY <2>2, AtMove
    <3> QED BY <2>3, <3>1, AtType, SignInAssumption DEF CodeLimit
  <2> QED BY <2>5, <2>6, <2>7, <2>8 DEF GuardInv
<1>5. CASE right /\ Usable(account) /\ ~account.enabled
  <2> DEFINE q == [req[r] EXCEPT !.pc = "open", !.seen = account]
  <2>1. /\ req' = [req EXCEPT ![r].pc = "open", ![r].seen = account]
        /\ count' = [count EXCEPT !.passwords = 0] /\ UNCHANGED challenge
    BY <1>5 DEF Password
  <2>2. q.op = req[r].op /\ q.pc = "open"
    BY DEF TypeOK, RequestTypeOK, Request
  <2>3. Moves(r, q)
    BY <2>1, AdvanceMoves
  <2>4. /\ count'.guesses = count.guesses
        /\ count'.signIns = count.signIns /\ count'.uses = count.uses
    BY <2>1 DEF TypeOK, HistoryTypeOK
  <2>5. q.op \notin {"none", "verify", "totp"}
    BY <1>1, <2>2 DEF Whereabouts
  <2> HIDE DEF q
  <2>6. Whereabouts(q) /\ ~Answering(q)
    BY <2>2, <2>5 DEF Whereabouts, Answering
  <2>7. StagesInv' /\ FactorInv' /\ CodeLimit'
    BY <1>2, <2>1, <2>2, <2>3, <2>4, <2>5, <2>6, StagesMove, FactorMove, CodeMove DEF GuardInv
  <2>8. OnceInv'
    BY <1>2, <2>1, <2>2, <2>3, <2>4, <2>5, <2>6, OnceMove DEF GuardInv
  <2>9. PasswordLimit'
    BY <2>2, <2>3, PasswordPasswords
  <2> QED BY <2>7, <2>8, <2>9 DEF GuardInv
<1> QED BY <1>3, <1>4, <1>5

\* The answers to a challenge leave the passwords and the second factor alone.
LEMMA AnswerMove ==
  ASSUME TypeOK, GuardInv, NEW r \in Slots, NEW q, Moves(r, q),
         UNCHANGED <<account, confirmed, throttle>>, raced \subseteq raced',
         count'.passwords = count.passwords, Whereabouts(q),
         q.op \in {"none", "verify"}, q.pc # "password"
  PROVE  StagesInv' /\ FactorInv' /\ PasswordLimit'
BY StagesMove, FactorMove, PasswordMove DEF GuardInv

LEMMA VerifyBeginGuard ==
  ASSUME TypeOK, GuardInv, NEW r \in Slots, VerifyBegin(r)
  PROVE  GuardInv'
<1> DEFINE q == [NoReq EXCEPT !.op = "verify", !.pc = "code", !.seen = account]
<1>1. q.op = "verify" /\ q.pc = "code"
  BY DEF NoReq
<1>2. Moves(r, q) /\ req[r].op = "none"
  BY ArriveMoves DEF VerifyBegin
<1> HIDE DEF q
<1>3. Whereabouts(q)
  BY <1>1 DEF Whereabouts, Answering
<1>4. /\ challenge.state = "live" /\ raced \subseteq raced'
      /\ UNCHANGED <<account, recovery, challenge, throttle, count, confirmed>>
  BY DEF VerifyBegin, Racing
<1>5. StagesInv' /\ FactorInv' /\ PasswordLimit'
  BY <1>1, <1>2, <1>3, <1>4, AnswerMove
<1>6. OnceInv'
  <2> SUFFICES ASSUME "verify" \notin raced' PROVE OnceInv'
    BY DEF OnceInv
  <2>1. \A o \in Slots \ {r} : req[o].op # "verify"
    BY DEF VerifyBegin, Racing
  <2>2. \A o \in Slots \ {r} : req'[o].op # "verify"
    BY <1>2, <2>1 DEF Moves, SameView
  <2>3. Alone("verify")'
    BY <2>2 DEF Alone
  <2>4. count'.signIns = 0
    BY <1>4 DEF GuardInv, OnceInv
  <2>5. \A o \in Slots : req'[o].pc # "mark"
    BY <1>1, <1>2, <2>2, <1>5 DEF StagesInv, Whereabouts, Answering, Moves
  <2>6. \A c \in Codes : /\ count'.uses[c] <= 1
                         /\ recovery'[c] \in {"none", "unused"} => count'.uses[c] = 0
    BY <1>4 DEF GuardInv, OnceInv
  <2> QED BY <2>3, <2>4, <2>5, <2>6 DEF OnceInv
<1>7. CodeLimit'
  <2>1. Cardinality(At("code"))' \in Nat /\ Cardinality(At("code"))' <= Cardinality(Slots)
    BY <1>2, AtMove
  <2>2. count.guesses \in Nat /\ challenge.failures \in Nat
    BY DEF TypeOK, HistoryTypeOK, StoreTypeOK
  <2> QED BY <1>4, <2>1, <2>2, AtType, SignInAssumption DEF GuardInv, CodeLimit
<1> QED BY <1>5, <1>6, <1>7 DEF GuardInv

LEMMA WrongCodeGuard ==
  ASSUME TypeOK, GuardInv, NEW r \in Slots, WrongCode(r)
  PROVE  GuardInv'
<1>1. Moves(r, NoReq) /\ req[r].pc = "code"
  BY DoneMoves DEF WrongCode
<1>2. /\ count'.guesses = count.guesses + 1 /\ count'.passwords = count.passwords
      /\ count'.signIns = count.signIns /\ count'.uses = count.uses
  BY DEF WrongCode, TypeOK, HistoryTypeOK
<1>3. UNCHANGED <<account, recovery, throttle, confirmed, raced>>
  BY DEF WrongCode
<1>4. StagesInv' /\ FactorInv' /\ PasswordLimit'
  BY <1>1, <1>2, <1>3, NoReqView, AnswerMove
<1>5. challenge'.state = "live" =>
        /\ challenge.state = "live" /\ challenge'.failures = challenge.failures + 1
        /\ challenge'.failures < MaxAttempts
  <2>1. CASE challenge.state = "live"
    <3>1. challenge' = FailuresAllowed(challenge)
      BY <2>1 DEF WrongCode
    <3>2. challenge.failures \in Nat
      BY DEF TypeOK, StoreTypeOK
    <3> QED BY <2>1, <3>1, <3>2, SignInAssumption DEF FailuresAllowed
  <2>2. CASE challenge.state # "live"
    BY <2>2 DEF WrongCode
  <2> QED BY <2>1, <2>2
<1>6. OnceInv'
  <2>1. ~Answering(NoReq)
    BY NoReqView DEF Answering
  <2> QED BY <1>1, <1>2, <1>3, <1>5, <2>1, NoReqView, OnceMove DEF GuardInv
<1>7. CodeLimit'
  <2>1. /\ Cardinality(At("code"))' = Cardinality(At("code")) - 1
        /\ Cardinality(At("code"))' \in Nat
    BY <1>1, NoReqView, AtMove
  <2>2. count.guesses \in Nat /\ challenge.failures \in Nat
    BY DEF TypeOK, HistoryTypeOK, StoreTypeOK
  <2> QED BY <1>2, <1>5, <2>1, <2>2, AtType, SignInAssumption DEF GuardInv, CodeLimit
<1> QED BY <1>4, <1>6, <1>7 DEF GuardInv

\* Of the requests that answer a challenge none is left when one is accepted.
LEMMA NoneLeft ==
  ASSUME GuardInv, NEW r \in Slots, NEW q, Moves(r, q), Answering(req[r]),
         q.op = req[r].op, q.pc = "open", UNCHANGED raced, "verify" \notin raced
  PROVE  /\ Alone("verify")' /\ \A o \in Slots : ~Answering(req'[o]) /\ req'[o].pc # "mark"
<1>1. req[r].op = "verify"
  BY DEF GuardInv, StagesInv, Whereabouts
<1>2. \A o \in Slots \ {r} : req[o].op # "verify"
  BY <1>1 DEF GuardInv, OnceInv, Alone
<1>3. \A o \in Slots \ {r} : req'[o].op # "verify" /\ ~Answering(req'[o])
  BY <1>2 DEF GuardInv, StagesInv, Whereabouts, Moves, SameView, Answering
<1>4. ~Answering(req'[r])
  BY DEF Moves, Answering
<1> QED BY <1>3, <1>4 DEF Alone, Answering

LEMMA AcceptGuard ==
  ASSUME TypeOK, GuardInv, NEW r \in Slots, NEW q, Moves(r, q), Answering(req[r]),
         q.op = req[r].op, q.pc = "open",
         UNCHANGED <<account, throttle, confirmed, raced>>, challenge' = Consumed(challenge),
         count'.passwords = count.passwords, count'.guesses = count.guesses
  PROVE  StagesInv' /\ FactorInv' /\ PasswordLimit' /\ CodeLimit'
<1>1. q.op = "verify"
  BY DEF GuardInv, StagesInv, Whereabouts
<1>2. Whereabouts(q)
  BY <1>1 DEF Whereabouts, Answering
<1>3. challenge'.state = "gone" /\ challenge'.failures = challenge.failures
  BY DEF Consumed, TypeOK, StoreTypeOK
<1> QED BY <1>1, <1>2, <1>3, AnswerMove, CodeMove DEF GuardInv

LEMMA RightCodeGuard ==
  ASSUME TypeOK, GuardInv, NEW r \in Slots, RightCode(r)
  PROVE  GuardInv'
<1> DEFINE q == [req[r] EXCEPT !.pc = "open"]
<1>1. q.op = req[r].op /\ q.pc = "open" /\ Answering(req[r])
  BY DEF TypeOK, RequestTypeOK, Request, RightCode, Answering
<1>2. Moves(r, q)
  BY AdvanceMoves DEF RightCode, Goto
<1> HIDE DEF q
<1>3. /\ count'.signIns = count.signIns + 1 /\ count'.passwords = count.passwords
      /\ count'.guesses = count.guesses /\ count'.uses = count.uses
  BY DEF RightCode, TypeOK, HistoryTypeOK
<1>4. StagesInv' /\ FactorInv' /\ PasswordLimit' /\ CodeLimit'
  BY <1>1, <1>2, <1>3, AcceptGuard DEF RightCode
<1>5. OnceInv'
  <2> SUFFICES ASSUME "verify" \notin raced' PROVE OnceInv'
    BY DEF OnceInv
  <2>1. "verify" \notin raced /\ recovery' = recovery
    BY DEF RightCode
  <2>2. challenge'.state = "gone"
    BY DEF RightCode, Consumed, TypeOK, StoreTypeOK
  <2>3. count'.signIns = 1
    BY <1>1, <1>3, <2>1 DEF GuardInv, OnceInv
  <2>4. /\ Alone("verify")' /\ \A o \in Slots : ~Answering(req'[o]) /\ req'[o].pc # "mark"
    BY <1>1, <1>2, <2>1, NoneLeft DEF RightCode
  <2>5. \A c \in Codes : /\ count'.uses[c] <= 1
                         /\ recovery'[c] \in {"none", "unused"} => count'.uses[c] = 0
    BY <1>3, <2>1 DEF GuardInv, OnceInv
  <2> QED BY <2>2, <2>3, <2>4, <2>5 DEF OnceInv
<1> QED BY <1>4, <1>5 DEF GuardInv

LEMMA MarkCodeGuard ==
  ASSUME TypeOK, GuardInv, NEW r \in Slots, MarkCode(r)
  PROVE  GuardInv'
<1> DEFINE q == [req[r] EXCEPT !.pc = "open"]
<1>1. q.op = req[r].op /\ q.pc = "open" /\ Answering(req[r]) /\ req[r].pc = "mark"
  BY DEF TypeOK, RequestTypeOK, Request, MarkCode, Answering
<1>2. Moves(r, q)
  BY AdvanceMoves DEF MarkCode, Goto
<1> HIDE DEF q
<1>3. /\ count'.signIns = count.signIns + 1 /\ count'.passwords = count.passwords
      /\ count'.guesses = count.guesses
      /\ count'.uses = [count.uses EXCEPT ![req[r].code] = @ + 1]
  BY DEF MarkCode, TypeOK, HistoryTypeOK
<1>4. StagesInv' /\ FactorInv' /\ PasswordLimit' /\ CodeLimit'
  BY <1>1, <1>2, <1>3, AcceptGuard DEF MarkCode
<1>5. OnceInv'
  <2> SUFFICES ASSUME "verify" \notin raced' PROVE OnceInv'
    BY DEF OnceInv
  <2>1. "verify" \notin raced
    BY DEF MarkCode
  <2>2. challenge'.state = "gone"
    BY DEF MarkCode, Consumed, TypeOK, StoreTypeOK
  <2>3. count'.signIns = 1
    BY <1>1, <1>3, <2>1 DEF GuardInv, OnceInv
  <2>4. /\ Alone("verify")' /\ \A o \in Slots : ~Answering(req'[o]) /\ req'[o].pc # "mark"
    BY <1>1, <1>2, <2>1, NoneLeft DEF MarkCode
  <2>5. /\ req[r].code \in Codes /\ recovery[req[r].code] # "none"
        /\ count.uses[req[r].code] = 0
    BY <1>1, <2>1 DEF GuardInv, OnceInv
  <2>6. ASSUME NEW c \in Codes
        PROVE  /\ count'.uses[c] <= 1
               /\ recovery'[c] \in {"none", "unused"} => count'.uses[c] = 0
    <3>1. count.uses \in [Codes -> Nat]
      BY DEF TypeOK, HistoryTypeOK
    <3>2. CASE c = req[r].code
      <4>1. count'.uses[c] = 1
        BY <1>3, <2>5, <3>1, <3>2
      <4>2. recovery'[c] \notin {"none", "unused"}
        BY <2>5, <3>2 DEF MarkCode, TypeOK, RowTypeOK
      <4> QED BY <4>1, <4>2
    <3>3. CASE c # req[r].code
      <4>1. count'.uses[c] = count.uses[c]
        BY <1>3, <3>1, <3>3
      <4>2. recovery'[c] = recovery[c]
        BY <3>3 DEF MarkCode, TypeOK, RowTypeOK
      <4> QED BY <2>1, <4>1, <4>2 DEF GuardInv, OnceInv
    <3> QED BY <3>2, <3>3
  <2> QED BY <2>2, <2>3, <2>4, <2>6 DEF OnceInv
<1> QED BY <1>4, <1>5 DEF GuardInv

LEMMA FindCodeGuard ==
  ASSUME TypeOK, GuardInv, NEW r \in Slots, NEW c \in Codes, FindCode(r, c)
  PROVE  GuardInv'
<1> DEFINE q == [req[r] EXCEPT !.pc = "mark", !.code = c]
<1>1. q.op = req[r].op /\ q.pc = "mark" /\ q.code = c /\ Answering(req[r])
  BY DEF TypeOK, RequestTypeOK, Request, FindCode, Answering
<1>2. Moves(r, q)
  BY AdvanceMoves DEF FindCode
<1> HIDE DEF q
<1>3. q.op = "verify"
  BY <1>1 DEF GuardInv, StagesInv, Whereabouts
<1>4. Whereabouts(q)
  BY <1>1, <1>3 DEF Whereabouts, Answering
<1>5. StagesInv' /\ FactorInv' /\ PasswordLimit'
  BY <1>1, <1>2, <1>3, <1>4, AnswerMove DEF FindCode
<1>6. OnceInv'
  BY <1>1, <1>2, <1>3, OnceMove DEF FindCode, GuardInv
<1>7. CodeLimit'
  BY <1>1, <1>2, CodeMove DEF FindCode, GuardInv
<1> QED BY <1>5, <1>6, <1>7 DEF GuardInv
-----------------------------------------------------------------------------
(* Steps of the second factor, and the commit.                              *)

LEMMA TotpBeginGuard ==
  ASSUME TypeOK, GuardInv, NEW r \in Slots, NEW row, RowBegin(r, "totp", row), Racing(r, "totp"),
         row.enabled => row.secret = account.secret
  PROVE  GuardInv'
<1> DEFINE q == [NoReq EXCEPT !.op = "totp", !.pc = "store", !.seen = account, !.want = row]
<1>1. q.op = "totp" /\ q.pc = "store" /\ q.seen = account /\ q.want = row
  BY DEF NoReq
<1>2. Moves(r, q)
  BY ArriveMoves DEF RowBegin
<1> HIDE DEF q
<1>3. Whereabouts(q) /\ ~Answering(q)
  BY <1>1 DEF Whereabouts, Answering
<1>4. /\ UNCHANGED <<account, recovery, challenge, throttle, count, confirmed>>
      /\ raced \subseteq raced'
  BY DEF RowBegin, Racing
<1>5. StagesInv' /\ OnceInv'
  BY <1>1, <1>2, <1>3, <1>4, StagesMove, OnceMove DEF GuardInv
<1>6. PasswordLimit' /\ CodeLimit'
  BY <1>1, <1>2, <1>4, PasswordMove, CodeMove DEF GuardInv
<1>7. FactorInv'
  <2> SUFFICES ASSUME "totp" \notin raced' PROVE FactorInv'
    BY DEF FactorInv
  <2>1. \A o \in Slots \ {r} : req[o].op # "totp"
    BY DEF Racing
  <2>2. \A o \in Slots \ {r} : req'[o].op # "totp"
    BY <1>2, <2>1 DEF Moves, SameView
  <2>3. account'.enabled => account'.secret = confirmed'
    BY <1>4 DEF GuardInv, FactorInv
  <2>4. req'[r].seen = account' /\ (req'[r].want.enabled => req'[r].want.secret = account'.secret)
    BY <1>1, <1>2, <1>4 DEF Moves
  <2> QED BY <2>2, <2>3, <2>4 DEF FactorInv, Alone
<1> QED BY <1>5, <1>6, <1>7 DEF GuardInv

LEMMA TotpGuard ==
  ASSUME TypeOK, GuardInv, NEW r \in Slots,
         \/ TotpRemove(r) \/ \E s \in Sessions : TotpSetup(r, s) \/ TotpConfirm(r, s)
  PROVE  GuardInv'
<1>1. account \in Account
  BY DEF TypeOK, RowTypeOK
<1>2. CASE TotpRemove(r)
  BY <1>1, <1>2, TotpBeginGuard DEF TotpRemove, Account
<1>3. ASSUME NEW s \in Sessions, TotpSetup(r, s)
      PROVE  GuardInv'
  BY <1>1, <1>3, TotpBeginGuard DEF TotpSetup, Account
<1>4. ASSUME NEW s \in Sessions, TotpConfirm(r, s)
      PROVE  GuardInv'
  BY <1>1, <1>4, TotpBeginGuard DEF TotpConfirm, Account
<1> QED BY <1>2, <1>3, <1>4

LEMMA CommitFactor ==
  ASSUME TypeOK, GuardInv, NEW r \in Slots, Commit(r)
  PROVE  FactorInv'
<1> SUFFICES ASSUME "totp" \notin raced' PROVE FactorInv'
  BY DEF FactorInv
<1>1. "totp" \notin raced /\ Moves(r, NoReq) /\ req[r].pc = "commit"
  BY DoneMoves DEF Commit
<1>2. Alone("totp")'
  BY <1>1, NoReqView DEF GuardInv, FactorInv, Alone, Moves, SameView
<1>3. /\ account'.enabled = IF req[r].want.enabled # req[r].seen.enabled
                            THEN req[r].want.enabled ELSE account.enabled
      /\ account'.secret = IF req[r].want.secret # req[r].seen.secret
                           THEN req[r].want.secret ELSE account.secret
  BY DEF Commit, Written, TypeOK, RowTypeOK, Account
<1>4. account.enabled => account.secret = confirmed
  BY <1>1 DEF GuardInv, FactorInv
<1>5. CASE req[r].op = "totp"
  <2>1. /\ req[r].seen.enabled = account.enabled /\ req[r].seen.secret = account.secret
        /\ req[r].want.enabled => req[r].want.secret = req[r].seen.secret
    BY <1>1, <1>5 DEF GuardInv, FactorInv
  <2>2. confirmed' = IF req[r].want.enabled THEN req[r].seen.secret ELSE confirmed
    BY <1>5 DEF Commit
  <2>3. account'.enabled => account'.secret = confirmed'
    BY <1>3, <2>1, <2>2
  <2>4. \A o \in Slots : req'[o].op # "totp"
    BY <1>1, <1>5, NoReqView DEF GuardInv, FactorInv, Alone, Moves, SameView
  <2> QED BY <1>2, <2>3, <2>4 DEF FactorInv
<1>6. CASE req[r].op # "totp"
  <2>1. req[r].want.enabled = req[r].seen.enabled /\ req[r].want.secret = req[r].seen.secret
    BY <1>1, <1>6 DEF GuardInv, StagesInv, Whereabouts
  <2>2. account'.enabled = account.enabled /\ account'.secret = account.secret
    BY <1>3, <2>1
  <2>3. confirmed' = confirmed /\ raced' = raced
    BY <1>6 DEF Commit
  <2> QED BY <1>1, <2>2, <2>3, NoReqView, FactorMove DEF GuardInv
<1> QED BY <1>5, <1>6

LEMMA CommitGuard ==
  ASSUME TypeOK, GuardInv, NEW r \in Slots, Commit(r)
  PROVE  GuardInv'
<1>1. Moves(r, NoReq) /\ UNCHANGED <<challenge, throttle, count, raced>>
  BY DoneMoves DEF Commit
<1>2. StagesInv'
  BY <1>1, NoReqView, StagesMove DEF GuardInv
<1>3. PasswordLimit' /\ CodeLimit'
  BY <1>1, NoReqView, PasswordMove, CodeMove DEF GuardInv
\* A code is issued only if it never was; a removal leaves none that is good.
<1>4. \A c \in Codes : /\ recovery'[c] \in {"none", "unused"} => recovery[c] \in {"none", "unused"}
                       /\ recovery[c] # "none" => recovery'[c] # "none"
  BY DEF Commit, Issued, NextCode, Deleted, TypeOK, RowTypeOK
<1>5. OnceInv'
  <2> SUFFICES ASSUME "verify" \notin raced' PROVE OnceInv'
    BY DEF OnceInv
  <2>1. "verify" \notin raced
    BY <1>1
  <2>2. Alone("verify")'
    BY <1>1, <2>1, NoReqView DEF GuardInv, OnceInv, Alone, Moves, SameView
  <2>3. /\ count'.signIns <= 1
        /\ challenge'.state = "live" => count'.signIns = 0
        /\ \A o \in Slots : Answering(req'[o]) => count'.signIns = 0
    BY <1>1, <2>1, NoReqView DEF GuardInv, OnceInv, Moves, SameView, Answering
  <2>4. \A c \in Codes : /\ count'.uses[c] <= 1
                         /\ recovery'[c] \in {"none", "unused"} => count'.uses[c] = 0
    BY <1>1, <1>4, <2>1 DEF GuardInv, OnceInv
  <2>5. \A o \in Slots : req'[o].pc = "mark" =>
           /\ req'[o].code \in Codes /\ recovery'[req'[o].code] # "none"
           /\ count'.uses[req'[o].code] = 0
    BY <1>1, <1>4, <2>1, NoReqView DEF GuardInv, OnceInv, Moves, SameView
  <2> QED BY <2>2, <2>3, <2>4, <2>5 DEF OnceInv
<1>6. FactorInv'
  BY CommitFactor
<1> QED BY <1>2, <1>3, <1>5, <1>6 DEF GuardInv

-----------------------------------------------------------------------------
(* The theorems about what is let pass.                                     *)

LEMMA InitGuard == Init => GuardInv
<1> SUFFICES ASSUME Init PROVE GuardInv
  OBVIOUS
<1>1. \A r \in Slots : req[r] = NoReq
  BY DEF Init
<1>2. /\ count.passwords = 0 /\ count.guesses = 0 /\ count.signIns = 0
      /\ \A c \in Codes : count.uses[c] = 0
  BY DEF Init
<1>3. throttle.failures = 0 /\ challenge.failures = 0
  BY DEF Init, NoFailures
<1>4. StagesInv
  BY <1>1, NoReqView DEF StagesInv
<1>5. FactorInv
  <2>1. account.secret = confirmed
    BY DEF Init
  <2> QED BY <1>1, <2>1, NoReqView DEF FactorInv, Alone
<1>6. OnceInv
  BY <1>1, <1>2, NoReqView DEF OnceInv, Alone, Answering
<1>7. PasswordLimit
  BY <1>2, <1>3, AtType, SignInAssumption DEF PasswordLimit
<1>8. CodeLimit
  BY <1>2, <1>3, AtType, SignInAssumption DEF CodeLimit
<1> QED BY <1>4, <1>5, <1>6, <1>7, <1>8 DEF GuardInv

LEMMA NextGuard == TypeOK /\ GuardInv /\ [Next]_vars => GuardInv'
<1> SUFFICES ASSUME TypeOK, GuardInv, [Next]_vars PROVE GuardInv'
  OBVIOUS
<1>1. CASE UNCHANGED vars
  BY <1>1 DEF vars, GuardInv, StagesInv, FactorInv, OnceInv, PasswordLimit, CodeLimit, At, Alone
<1>2. CASE \/ Relent \/ ChallengeExpires \/ (\E t \in TokenIds : TokenExpires(t))
           \/ (\E s \in Sessions : OwnPasswordWrong(s))
  BY <1>2, RelentGuard, ChallengeExpiresGuard, TokenExpiresGuard, OwnPasswordWrongGuard
<1>3. ASSUME NEW r \in Slots,
             \/ LoginBegin(r) \/ (\E right \in BOOLEAN : Password(r, right))
             \/ VerifyBegin(r) \/ WrongCode(r) \/ RightCode(r) \/ MarkCode(r) \/ Open(r)
             \/ \E c \in Codes : FindCode(r, c)
      PROVE  GuardInv'
  BY <1>3, LoginBeginGuard, PasswordGuard, VerifyBeginGuard, WrongCodeGuard, RightCodeGuard,
     MarkCodeGuard, OpenGuard, FindCodeGuard
<1>4. ASSUME NEW r \in Slots,
             \/ \E t \in TokenIds : LogoutBegin(r, t) \/ \E secret \in BOOLEAN : RefreshBegin(r, t, secret)
             \/ Claim(r) \/ Rotate(r) \/ Scan(r) \/ Update(r) \/ Store(r) \/ Commit(r)
      PROVE  GuardInv'
  BY <1>4, RefreshBeginGuard, LogoutBeginGuard, ClaimGuard, RotateGuard, ScanGuard,
     UpdateGuard, StoreGuard, CommitGuard
<1>5. ASSUME NEW r \in Slots,
             \/ ResetPassword(r) \/ Deactivate(r) \/ Activate(r) \/ Grant(r) \/ SetExpiry(r)
             \/ \E s \in Sessions \cup {0} : RevokeSessions(r, s)
             \/ \E s \in Sessions : \/ ChangeOwnPassword(r, s) \/ TotpSetup(r, s)
                                    \/ TotpConfirm(r, s)
             \/ TotpRemove(r)
      PROVE  GuardInv'
  <2>1. CASE \/ ResetPassword(r) \/ Deactivate(r) \/ Activate(r) \/ Grant(r) \/ SetExpiry(r)
             \/ \E s \in Sessions \cup {0} : RevokeSessions(r, s)
    BY <2>1, AdministratorGuard
  <2>2. CASE \E s \in Sessions : ChangeOwnPassword(r, s)
    BY <2>2, ChangeOwnPasswordGuard
  <2>3. CASE \/ TotpRemove(r) \/ \E s \in Sessions : TotpSetup(r, s) \/ TotpConfirm(r, s)
    BY <2>3, TotpGuard
  <2> QED BY <1>5, <2>1, <2>2, <2>3
<1> QED BY <1>1, <1>2, <1>3, <1>4, <1>5 DEF Next

LEMMA GuardInvariance == Spec => []GuardInv
<1>1. TypeOK /\ GuardInv /\ [Next]_vars => GuardInv'
  BY NextGuard
<1> QED BY <1>1, InitGuard, TypeCorrect, PTL DEF Spec

\* However many verifications there are, one challenge opens one session and a
\* recovery code is accepted once, as long as no two of them run side by side.
THEOREM OnceIsEnough == Spec => []SingleUse
<1>1. GuardInv => SingleUse
  BY DEF GuardInv, OnceInv, SingleUse
<1> QED BY <1>1, GuardInvariance, PTL

\* The throttle and the challenge let pass their limit of guesses, and one more
\* for each other request that can be under way.
THEOREM GuessesStayBounded == Spec => []GuessesBounded
<1>1. TypeOK /\ GuardInv => GuessesBounded
  <2> SUFFICES ASSUME TypeOK, GuardInv PROVE GuessesBounded
    OBVIOUS
  <2>1. count.passwords \in Nat /\ count.guesses \in Nat
    BY DEF TypeOK, HistoryTypeOK
  <2> QED BY <2>1, AtType, SignInAssumption
          DEF GuardInv, PasswordLimit, CodeLimit, GuessesBounded
<1> QED BY <1>1, GuardInvariance, TypeCorrect, PTL

\* A second factor that is on is the one a code was confirmed for, as long as no
\* two operations on it run side by side.
THEOREM FactorIsConfirmed == Spec => []EnabledIsConfirmed
<1>1. GuardInv => EnabledIsConfirmed
  BY DEF GuardInv, FactorInv, EnabledIsConfirmed
<1> QED BY <1>1, GuardInvariance, PTL
=============================================================================
