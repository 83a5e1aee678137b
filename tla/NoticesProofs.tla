---------------------------- MODULE NoticesProofs ----------------------------
(***************************************************************************)
(* Proofs about Notices: whom a pairing code pairs, what time the reports  *)
(* cover, and what is told of watched targets, of firsts and of limits,    *)
(* for any jobs, schedules, limits, rules and numbers of messages,         *)
(* requests and failures.                                                  *)
(*                                                                         *)
(* BaseInv, DataInv: types, and which rows the tables have.                *)
(* PairInv: which codes still work, which requests will end them, and      *)
(*   which messages have paired whom.                                      *)
(* ReportInv: what a run that is mailing has mailed, and from when.        *)
(* WatchInv: whatever was stored before the monitor's last run is noted.   *)
(* ApartInv: a watched target's rows are no later than its last alert.     *)
(* FirstInv: all that is stored was in a window, or is in the one at hand. *)
(* RowsInv: the tables that are summed up count all that is stored.        *)
(***************************************************************************)
EXTENDS Notices, TablesProofs

-----------------------------------------------------------------------------
(* The inductive invariants.                                               *)

Budgets == [job : STRING, ticks : Nat, codes : Nat, messages : Nat, pages : Nat, lag : Nat,
            requests : Seq(Brought), provider : BOOLEAN, exports : Nat, purges : Nat, faults : Nat]

Periods == [since : Int, until : Nat]

Jobs ==
  [pc : {"off", "deliver"}] \cup [pc : {"wait"}, due : Nat]
  \cup [pc : {"mail"}, todo : Seq(Branches), period : Periods]

PastShape == past = [redeemed |-> past.redeemed, savedOver |-> past.savedOver,
                     checked |-> past.checked, known |-> past.known, seen |-> past.seen,
                     missed |-> past.missed, reported |-> past.reported, broken |-> past.broken]

BaseInv == clock \in Nat /\ left \in Budgets /\ job \in Jobs /\ PastShape

-----------------------------------------------------------------------------
(* Pairing.                                                                 *)

Rows == [code : Codes, target : Targets, knew : Nat, at : Nat, expires : Nat,
         chat : Chats \cup {None}]

Asking == [target : Targets, code : Codes, at : Nat, knew : Nat, expire : SUBSET Nat]

PairTypes ==
  /\ codes \in Seq(Rows)
  /\ sent \in Seq([chat : Chats, code : Codes])
  /\ asking \in [Requests -> {None} \cup Asking]
  /\ chatOf \in [Targets -> Chats \cup {None}]
  /\ page \in {None} \cup [branch : Branches, chat : Chats \cup {None}]
  /\ confirmed \in Nat /\ poller \in [offset : Nat, next : Nat \ {0}, upto : Nat]
  /\ poller.next <= poller.upto => poller.upto <= Len(sent) /\ confirmed < poller.next

\* A code that the request for j saw is used up, or out of its time, by the
\* time that j is there.
CodesInv ==
  /\ \A i \in DOMAIN codes :
       /\ codes[i].at <= clock /\ codes[i].knew < i
       /\ codes[i].at <= codes[i].expires /\ codes[i].expires <= codes[i].at + Ttl
  /\ \A i, j \in DOMAIN codes : i # j => codes[i].code # codes[j].code
  /\ \A i, j \in DOMAIN codes :
       i <= codes[j].knew /\ codes[i].target = codes[j].target => ~Pending(i)

\* The requests under way: what they will expire is all that may still work.
AskingInv ==
  \A r \in Requests : asking[r] # None =>
    LET a == asking[r] IN
    /\ a.at <= clock /\ a.knew <= Len(codes) /\ a.expire \subseteq DOMAIN codes
    /\ \A i \in DOMAIN codes : codes[i].code # a.code
    /\ \A q \in Requests : q # r /\ asking[q] # None => asking[q].code # a.code
    /\ \A i \in a.expire : codes[i].at <= a.at /\ a.at <= codes[i].at + Ttl
    /\ \A i \in DOMAIN codes :
         i <= a.knew /\ codes[i].target = a.target => i \in a.expire \/ ~Pending(i)

Redemptions == [row : Nat, by : Nat, at : Nat, rows : Nat]

RedeemedInv ==
  /\ past.redeemed \in Seq(Redemptions)
  /\ \A n \in DOMAIN past.redeemed :
       LET d == past.redeemed[n] IN
       /\ d.row \in DOMAIN codes /\ d.by \in DOMAIN sent /\ d.rows <= Len(codes)
       /\ codes[d.row].code = sent[d.by].code /\ codes[d.row].chat # None
       /\ d.at < codes[d.row].at + Ttl
       /\ \A j \in DOMAIN codes : d.row < j /\ j <= d.rows /\ codes[j].target = codes[d.row].target
                                    => codes[j].knew < d.row
  /\ \A n, k \in DOMAIN past.redeemed : n # k => past.redeemed[n].row # past.redeemed[k].row

TargetOf(n) == codes[past.redeemed[n].row].target

\* The chat of a target is the one that sent its last code.
ChatInv ==
  \A t \in Targets : t \notin past.savedOver =>
    \/ chatOf[t] = None /\ \A n \in DOMAIN past.redeemed : TargetOf(n) # t
    \/ \E n \in DOMAIN past.redeemed :
         /\ TargetOf(n) = t /\ chatOf[t] = sent[past.redeemed[n].by].chat
         /\ \A k \in DOMAIN past.redeemed : TargetOf(k) = t => k <= n

PairInv == PairTypes /\ CodesInv /\ AskingInv /\ RedeemedInv /\ ChatInv

-----------------------------------------------------------------------------
(* Reports.                                                                 *)

Mail(b, p) == [branch |-> b, period |-> p]

\* A run that mails takes over where the last one that was noted ended.
MailingInv ==
  job.pc = "mail" =>
    /\ job.period.since <= job.period.until /\ job.period.until <= clock
    /\ lastSent # Never => job.period.since = lastSent
    /\ \A i \in DOMAIN Order : \/ Mail(Order[i], job.period) \in mails
                               \/ \E j \in DOMAIN job.todo : job.todo[j] = Order[i]

ReportedInv ==
  /\ lastSent \in Nat \cup {Never} /\ lastSent <= clock
  /\ lastSent = Never => past.reported = {}
  /\ \A p \in past.reported : p \in Periods /\ p.since <= p.until /\ p.until <= lastSent

ReportInv == MailingInv /\ ReportedInv /\ ReportsCoverAllTime

-----------------------------------------------------------------------------
(* What the monitors and the insights provider find.                        *)

Shape(a) == a = [kind |-> a.kind, branch |-> a.branch, client |-> a.client, domain |-> a.domain,
                 note |-> a.note, at |-> a.at]

\* Rows of the tables are those of stored events; anomalies are not of later.
DataInv ==
  /\ \A e \in logged : e.at \in 0..clock /\ e.branch \in Branches
  /\ DOMAIN raw \subseteq logged
  /\ \A e \in DOMAIN raw : raw[e] \in 0..clock
  /\ window \subseteq DOMAIN raw
  /\ DOMAIN tables = DOMAIN Empty
  /\ \A t \in {"domain", "client"} :
       DOMAIN tables[t] = {Key(t, e) : e \in {x \in DOMAIN raw : CountedIn(t, x)}}
  /\ \A a \in anomalies : Shape(a) /\ a.at \in 0..clock
  /\ lastAlerted \in [Watched -> Nat \cup {Never}]

\* The run at past.checked has taken in every hit that was stored before it.
WatchInv ==
  /\ left.job # "watch" => past.seen = {} /\ past.missed = {}
  /\ left.job = "watch" =>
       /\ past.checked \in Nat \cup {Never} /\ past.checked <= clock
       /\ \A w \in Watched : \A e \in Hits(w) :
            raw[e] >= past.checked
            \/ [watch |-> w, event |-> e] \in {Noted(s) : s \in past.seen \cup past.missed}
  /\ \A m \in past.missed : m.event \in DOMAIN raw
  /\ \A w \in Watched : lastAlerted[w] # Never =>
       \E a \in anomalies : Filed(w, a) /\ a.at = lastAlerted[w]
  /\ WatchedIsSeen

\* A watched target's rows are from no later than its last alert.
ApartInv ==
  /\ \A a \in anomalies : a.kind = "watchlist" =>
       \E w \in Watched : Filed(w, a) /\ lastAlerted[w] # Never /\ a.at <= lastAlerted[w]
  /\ FlaggedApart

\* With a provider, what is stored is what it was given.
FirstInv ==
  /\ ~left.provider => analyzed = << >> /\ window = {}
  /\ analyzed \in Seq([events : SUBSET DOMAIN raw, at : Nat, failed : BOOLEAN,
                       found : SUBSET anomalies])
  /\ left.provider => \A e \in DOMAIN raw :
       \/ \E m \in DOMAIN analyzed : e \in analyzed[m].events
       \/ e \in window
  /\ \A a \in anomalies : a.kind = "newBlocked" =>
       \E m \in DOMAIN analyzed : \E e \in analyzed[m].events :
         e.branch = a.branch /\ e.domain = a.domain
  /\ FirstBlocksFound /\ FirstVisitsFound

\* What a purge has deleted was past its time.
GoneInv == \A e \in gone : e \in DOMAIN raw /\ e.at < clock - RawDays

\* The tables that the monitors and the rules sum up: nothing is purged here.
Summed == {"client", "domain", "minute", "category"}

RowsInv == IsFiniteSet(logged) /\ \A t \in Summed : tables[t] = Buckets(t, DOMAIN raw)

-----------------------------------------------------------------------------
(* Helpers.                                                                 *)

\* What a step may take from the scenario.
LEMMA SpendFacts ==
  ASSUME left \in Budgets,
         NEW what \in {"ticks", "codes", "messages", "pages", "exports", "purges", "faults"}, Spend(what)
  PROVE  left' \in Budgets /\ left'.job = left.job /\ left'.provider = left.provider
<1>1. CASE what = "ticks"
  BY <1>1 DEF Spend, Budgets
<1>2. CASE what = "codes"
  BY <1>2 DEF Spend, Budgets
<1>3. CASE what = "messages"
  BY <1>3 DEF Spend, Budgets
<1>4. CASE what = "pages"
  BY <1>4 DEF Spend, Budgets
<1>5. CASE what = "exports"
  BY <1>5 DEF Spend, Budgets
<1>6. CASE what = "faults"
  BY <1>6 DEF Spend, Budgets
<1>7. CASE what = "purges"
  BY <1>7 DEF Spend, Budgets
<1> QED BY <1>1, <1>2, <1>3, <1>4, <1>5, <1>6, <1>7

\* A request that comes in is one of those brought, with another time.
LEMMA LogFacts ==
  ASSUME BaseInv, Log
  PROVE  /\ left' \in Budgets /\ left'.job = left.job /\ left'.provider = left.provider
         /\ \E r \in Brought, at \in 0..clock : logged' = logged \cup {[r EXCEPT !.at = at]}
<1>1. left.requests \in Seq(Brought) /\ left.requests # << >>
  BY DEF BaseInv, Budgets, Log
<1>2. Head(left.requests) \in Brought /\ Tail(left.requests) \in Seq(Brought)
  BY <1>1
<1>3. left' \in Budgets /\ left'.job = left.job /\ left'.provider = left.provider
  BY <1>2 DEF BaseInv, Budgets, Log
<1>4. PICK lag \in 0..left.lag : /\ lag <= clock
         /\ logged' = logged \cup {[Head(left.requests) EXCEPT !.at = clock - lag]}
  BY DEF Log
<1>5. clock - lag \in 0..clock
  BY <1>4 DEF BaseInv, Budgets
<1> QED BY <1>2, <1>3, <1>4, <1>5

-----------------------------------------------------------------------------
(* The steps, by what they leave alone.                                     *)

PairingStep ==
  \/ \E r \in Requests, t \in Targets : AskForCode(r, t)
  \/ \E r \in Requests : CodeIssued(r)
  \/ \E chat \in Chats, i \in 1..Cardinality(Codes) : SendCode(chat, i)
  \/ GetUpdates \/ HandleMessage \/ HandlingFails
  \/ \E i \in DOMAIN Order : LoadPage(Order[i])
  \/ SavePage

\* What becomes of exports, and the purge.
ExportStep ==
  \/ \E x \in Exports : FinishExport(x)
  \/ \E e \in exports : Download(e)
  \/ Purge

FlagStep == CheckQuotas \/ CheckMinutes \/ CheckUncategorized \/ CheckExports

MailStep == StartReport \/ MailBranch \/ ReportSent

LEMMA NextCases ==
  Next => \/ Tick \/ PairingStep \/ Traffic \/ ExportStep \/ CheckWatched \/ FlagStep
          \/ Deliver \/ MailStep \/ RunFails \/ Restart
BY Zenon DEF Next, PairingStep, ExportStep, FlagStep, MailStep

\* What every step does with the scenario.
LeftKept == left' \in Budgets /\ left'.job = left.job /\ left'.provider = left.provider

PairingPast == <<past.redeemed, past.savedOver>>
WatchPast   == <<past.checked, past.known, past.seen, past.missed>>
ReportPast  == <<past.reported, past.broken>>

LEMMA RedeemPast ==
  ASSUME PastShape, NEW m, Redeem(m)
  PROVE  PastShape' /\ UNCHANGED <<WatchPast, ReportPast>>
<1> DEFINE i == Max({j \in DOMAIN codes : codes[j].code = sent[m].code /\ Pending(j)})
<1>1. \/ past' = past
      \/ past' = [past EXCEPT
            !.redeemed  = Append(@, [row |-> i, by |-> m, at |-> clock, rows |-> Len(codes)]),
            !.savedOver = @ \ {codes[i].target}]
  BY Zenon DEF Redeem
<1> HIDE DEF i
<1> QED BY <1>1 DEF PastShape, WatchPast, ReportPast

LEMMA PairingFrame ==
  ASSUME BaseInv, PairingStep
  PROVE  /\ UNCHANGED <<clock, job, watching, mailing, WatchPast, ReportPast>>
         /\ PastShape' /\ LeftKept
<1> USE DEF BaseInv, LeftKept
<1>1. ASSUME NEW r \in Requests, NEW t \in Targets, AskForCode(r, t)
      PROVE  UNCHANGED <<clock, job, watching, mailing, past>> /\ LeftKept
  BY <1>1, SpendFacts DEF AskForCode
<1>2. ASSUME NEW r \in Requests, CodeIssued(r)
      PROVE  UNCHANGED <<clock, job, watching, mailing, past>> /\ LeftKept
  BY <1>2 DEF CodeIssued
<1>3. ASSUME NEW chat \in Chats, NEW i \in 1..Cardinality(Codes), SendCode(chat, i)
      PROVE  UNCHANGED <<clock, job, watching, mailing, past>> /\ LeftKept
  BY <1>3, SpendFacts DEF SendCode
<1>4. CASE GetUpdates
  <2>1. UNCHANGED <<clock, job, watching, mailing, past>> /\ LeftKept
    BY <1>4 DEF GetUpdates
  <2> QED BY <2>1 DEF PastShape, WatchPast, ReportPast
<1>5. CASE HandleMessage
  <2>1. UNCHANGED <<clock, job, watching, mailing>> /\ LeftKept
    BY <1>5 DEF HandleMessage
  <2>2. PastShape' /\ UNCHANGED <<WatchPast, ReportPast>>
    BY <1>5, RedeemPast DEF HandleMessage, PastShape
  <2> QED BY <2>1, <2>2
<1>6. CASE HandlingFails
  <2>1. UNCHANGED <<clock, job, watching, mailing>> /\ LeftKept
    BY <1>6, SpendFacts DEF HandlingFails
  <2>2. CASE Redeem(poller.next)
    BY <2>1, <2>2, RedeemPast DEF PastShape
  <2>3. CASE UNCHANGED past
    BY <2>1, <2>3 DEF PastShape, WatchPast, ReportPast
  <2> QED BY <1>6, <2>2, <2>3 DEF HandlingFails
<1>7. ASSUME NEW i \in DOMAIN Order, LoadPage(Order[i])
      PROVE  UNCHANGED <<clock, job, watching, mailing, past>> /\ LeftKept
  BY <1>7, SpendFacts DEF LoadPage
<1>8. CASE SavePage
  <2>1. UNCHANGED <<clock, job, watching, mailing>> /\ LeftKept
    BY <1>8 DEF SavePage
  <2>2. past' = past \/ past' = [past EXCEPT !.savedOver = @ \cup {page.branch}]
    BY <1>8 DEF SavePage
  <2>3. PastShape' /\ UNCHANGED <<WatchPast, ReportPast>>
    BY <2>2 DEF PastShape, WatchPast, ReportPast
  <2> QED BY <2>1, <2>3
<1>9. ASSUME UNCHANGED <<clock, job, watching, mailing, past>>, LeftKept
      PROVE  /\ UNCHANGED <<clock, job, watching, mailing, WatchPast, ReportPast>>
             /\ PastShape' /\ LeftKept
  BY <1>9 DEF PastShape, WatchPast, ReportPast
<1> QED
  <2> HIDE DEF LeftKept, BaseInv
  <2> QED BY <1>1, <1>2, <1>3, <1>4, <1>5, <1>6, <1>7, <1>8, <1>9 DEF PairingStep

LEMMA TickFrame ==
  ASSUME BaseInv, Tick
  PROVE  /\ clock' = clock + 1 /\ clock' \in Nat
         /\ UNCHANGED <<pairing, job, watching, mailing, past>>
         /\ LeftKept
BY SpendFacts DEF Tick, BaseInv, LeftKept

LEMMA TrafficFrame ==
  ASSUME BaseInv, Traffic
  PROVE  UNCHANGED <<clock, pairing, job, exports, lastAlerted, mailing, past>> /\ LeftKept
<1>1. UNCHANGED <<pairing, job, exports, lastAlerted, mailing, past>>
  BY DEF Traffic
<1>2. CASE Log
  BY <1>1, <1>2, LogFacts DEF Log, LeftKept
<1>3. CASE Flush
  BY <1>1, <1>3 DEF Flush, LeftKept, BaseInv
<1>4. CASE Detect
  BY <1>1, <1>4 DEF Detect, LeftKept, BaseInv
<1>5. CASE DetectFails
  BY <1>1, <1>5, SpendFacts DEF DetectFails, LeftKept, BaseInv
<1> QED BY <1>2, <1>3, <1>4, <1>5 DEF Traffic

LEMMA ExportFrame ==
  ASSUME BaseInv, ExportStep
  PROVE  UNCHANGED <<clock, pairing, job, flushing, anomalies, lastAlerted, mailing, past>> /\ LeftKept
<1>1. ASSUME NEW x \in Exports, FinishExport(x)
      PROVE  UNCHANGED <<clock, pairing, job, flushing, anomalies, lastAlerted, mailing, past>> /\ LeftKept
  BY <1>1, SpendFacts DEF FinishExport, LeftKept, BaseInv
<1>2. ASSUME NEW e \in exports, Download(e)
      PROVE  UNCHANGED <<clock, pairing, job, flushing, anomalies, lastAlerted, mailing, past>> /\ LeftKept
  BY <1>2 DEF Download, LeftKept, BaseInv
<1>3. CASE Purge
  BY <1>3, SpendFacts DEF Purge, PurgeRaw, flushing, LeftKept, BaseInv
<1> QED BY <1>1, <1>2, <1>3 DEF ExportStep

LEMMA CheckWatchedFrame ==
  ASSUME BaseInv, CheckWatched
  PROVE  /\ UNCHANGED <<clock, left, pairing, flushing, exports, mailing, PairingPast, ReportPast>>
         /\ job.pc = "wait" /\ left.job = "watch" /\ job' \in {Waiting, [pc |-> "deliver"]}
         /\ PastShape' /\ LeftKept
<1>1. UNCHANGED <<clock, left, pairing, flushing, exports, mailing>>
  BY DEF CheckWatched
<1>2. job.pc = "wait" /\ left.job = "watch" /\ job' \in {Waiting, [pc |-> "deliver"]}
  BY DEF CheckWatched, Due
<1>3. \E seen, missed : past' = [past EXCEPT !.checked = clock, !.seen = @ \cup seen, !.missed = @ \cup missed]
  BY DEF CheckWatched
<1>4. PastShape' /\ UNCHANGED <<PairingPast, ReportPast>>
  BY <1>3 DEF PastShape, PairingPast, ReportPast, BaseInv
<1> QED BY <1>1, <1>2, <1>4 DEF LeftKept, BaseInv

LEMMA FlagFrame ==
  ASSUME BaseInv, NEW kind, NEW found, NEW cooldown, Flag(kind, found, cooldown)
  PROVE  /\ UNCHANGED <<clock, left, pairing, flushing, exports, lastAlerted, mailing,
                         PairingPast, ReportPast, past.seen, past.missed>>
         /\ job.pc = "wait" /\ left.job = kind /\ job' \in {Waiting, [pc |-> "deliver"]}
         /\ PastShape' /\ LeftKept
<1>1. /\ UNCHANGED <<clock, left, pairing, flushing, exports, lastAlerted, mailing>>
      /\ job.pc = "wait" /\ left.job = kind /\ job' \in {Waiting, [pc |-> "deliver"]}
  BY DEF Flag, Due
<1>2. past' = [past EXCEPT !.checked = clock, !.known = DOMAIN raw]
  BY DEF Flag
<1>3. PastShape' /\ UNCHANGED <<PairingPast, ReportPast, past.seen, past.missed>>
  BY <1>2 DEF PastShape, PairingPast, ReportPast, BaseInv
<1> QED BY <1>1, <1>3 DEF LeftKept, BaseInv

LEMMA DeliverFrame ==
  ASSUME BaseInv, Deliver
  PROVE  /\ UNCHANGED <<clock, left, pairing, watching, mailing, past>>
         /\ job.pc = "deliver" /\ job' = Waiting /\ LeftKept
BY DEF Deliver, LeftKept, BaseInv

LEMMA MailFrame ==
  ASSUME BaseInv, MailStep
  PROVE  UNCHANGED <<clock, left, pairing, watching, PairingPast, WatchPast>> /\ PastShape' /\ LeftKept
<1>1. CASE StartReport \/ MailBranch
  <2>1. UNCHANGED <<clock, left, pairing, watching, past>>
    BY <1>1 DEF StartReport, MailBranch
  <2> QED BY <2>1 DEF BaseInv, PastShape, PairingPast, WatchPast, LeftKept
<1>2. CASE ReportSent
  <2>1. UNCHANGED <<clock, left, pairing, watching>>
    BY <1>2 DEF ReportSent
  <2>2. past' = [past EXCEPT !.reported = @ \cup {job.period}]
    BY <1>2 DEF ReportSent
  <2> QED BY <2>1, <2>2 DEF BaseInv, PastShape, PairingPast, WatchPast, LeftKept
<1> QED BY <1>1, <1>2 DEF MailStep

LEMMA RunFailsFrame ==
  ASSUME BaseInv, RunFails
  PROVE  /\ UNCHANGED <<clock, pairing, watching, mailing, PairingPast, WatchPast, past.reported>>
         /\ past'.broken = BrokenOff /\ job' = Waiting /\ PastShape' /\ LeftKept
<1>1. UNCHANGED <<clock, pairing, watching, mailing>> /\ job' = Waiting /\ LeftKept
  BY SpendFacts DEF RunFails, BaseInv, LeftKept
<1>2. PICK broken : broken = BrokenOff /\ past' = [past EXCEPT !.broken = broken]
  BY DEF RunFails
<1> QED BY <1>1, <1>2 DEF BaseInv, PastShape, PairingPast, WatchPast

LEMMA RestartFrame ==
  ASSUME BaseInv, Restart
  PROVE  /\ UNCHANGED <<clock, codes, chatOf, page, sent, confirmed, traffic, exports, anomalies,
                         lastAlerted, mailing, PairingPast, WatchPast, past.reported>>
         /\ past'.broken = BrokenOff /\ job' \in Started /\ PastShape' /\ LeftKept
<1>1. /\ UNCHANGED <<clock, codes, chatOf, page, sent, confirmed, traffic, exports, anomalies,
                      lastAlerted, mailing>>
      /\ job' \in Started /\ LeftKept
  BY SpendFacts DEF Restart, BaseInv, LeftKept
<1>2. PICK broken : broken = BrokenOff /\ past' = [past EXCEPT !.broken = broken]
  BY DEF Restart
<1> QED BY <1>1, <1>2 DEF BaseInv, PastShape, PairingPast, WatchPast

-----------------------------------------------------------------------------
(* Jobs and reports.                                                        *)

LEMMA StartedJobs ==
  ASSUME clock \in Nat
  PROVE  Started \subseteq Jobs /\ \A j \in Started : j.pc # "mail"
BY NoticesAssumption DEF Started, Jobs

LEMMA WaitingJob ==
  ASSUME clock \in Nat
  PROVE  Waiting \in Jobs /\ Waiting.pc # "mail"
BY NoticesAssumption DEF Waiting, Jobs

LEMMA BaseInit == Init => BaseInv
<1> SUFFICES ASSUME Init PROVE BaseInv
  OBVIOUS
<1>1. left \in Budgets
  BY NoticesAssumption DEF Init, Budgets
<1>2. job \in Jobs
  BY StartedJobs DEF Init
<1>3. PastShape
  BY DEF Init, PastShape
<1> QED BY <1>1, <1>2, <1>3 DEF Init, BaseInv

LEMMA MailingJob ==
  ASSUME job \in Jobs, job.pc = "mail"
  PROVE  /\ job.todo \in Seq(Branches) /\ job.period \in Periods
         /\ job = [pc |-> "mail", todo |-> job.todo, period |-> job.period]
BY DEF Jobs

LEMMA StartReportStep ==
  ASSUME BaseInv, ReportInv, StartReport
  PROVE  /\ job' \in Jobs /\ UNCHANGED <<clock, mailing, past>>
         /\ job'.pc = "mail" =>
              /\ job'.todo = Order /\ job'.period.until = clock
              /\ job'.period.since = IF lastSent = Never THEN clock - Schedule ELSE lastSent
<1> DEFINE p == [since |-> IF lastSent = Never THEN clock - Schedule ELSE lastSent, until |-> clock]
<1>1. p \in Periods
  BY NoticesAssumption DEF BaseInv, ReportInv, ReportedInv, Periods
<1>2. job' \in {Waiting, [pc |-> "mail", todo |-> Order, period |-> p]}
  BY DEF StartReport
<1>3. [pc |-> "mail", todo |-> Order, period |-> p] \in Jobs
  BY <1>1, NoticesAssumption DEF Jobs
<1> QED BY <1>2, <1>3, WaitingJob DEF BaseInv, StartReport

LEMMA MailBranchStep ==
  ASSUME BaseInv, MailBranch
  PROVE  /\ job.pc = "mail" /\ job' \in Jobs /\ UNCHANGED <<clock, lastSent, past>>
         /\ job'.pc = "mail" /\ job'.period = job.period
         /\ job.todo # << >> /\ job'.todo = Tail(job.todo)
         /\ mails' = mails \cup {Mail(Head(job.todo), job.period)}
<1>1. job.pc = "mail" /\ job.todo # << >> /\ UNCHANGED <<clock, lastSent, past>>
  BY DEF MailBranch
<1>2. /\ job.todo \in Seq(Branches) /\ job.period \in Periods
      /\ job = [pc |-> "mail", todo |-> job.todo, period |-> job.period]
  BY <1>1, MailingJob DEF BaseInv
<1>3. job' = [pc |-> "mail", todo |-> Tail(job.todo), period |-> job.period]
  BY <1>2 DEF MailBranch
<1>4. job' \in Jobs
  BY <1>1, <1>2, <1>3 DEF Jobs
<1> QED BY <1>1, <1>3, <1>4 DEF MailBranch, Mail

LEMMA ReportSentStep ==
  ASSUME BaseInv, ReportSent
  PROVE  /\ job.pc = "mail" /\ job.todo = << >> /\ job' = Waiting
         /\ UNCHANGED <<clock, mails, past.broken>> /\ lastSent' = job.period.until
         /\ past'.reported = past.reported \cup {job.period}
<1>1. /\ job.pc = "mail" /\ job.todo = << >> /\ job' = Waiting
      /\ UNCHANGED <<clock, mails>> /\ lastSent' = job.period.until
      /\ past' = [past EXCEPT !.reported = @ \cup {job.period}]
  BY DEF ReportSent
<1> QED BY <1>1 DEF BaseInv, PastShape

\* Every step but the mailing ones leaves a job that mails alone, or ends it.
LEMMA OtherJobs ==
  ASSUME BaseInv, Next, ~MailStep
  PROVE  /\ job' \in Jobs /\ UNCHANGED <<mailing, past.reported>>
         /\ clock' \in Nat /\ clock' >= clock
         /\ \/ UNCHANGED <<job, past.broken>>
            \/ job'.pc # "mail" /\ job.pc # "mail" /\ UNCHANGED past.broken
            \/ job'.pc # "mail" /\ past'.broken = BrokenOff
<1> USE DEF BaseInv, mailing, ReportPast
<1>1. CASE Tick
  BY <1>1, TickFrame
<1>2. CASE PairingStep
  BY <1>2, PairingFrame
<1>3. CASE Traffic
  BY <1>3, TrafficFrame
<1>4. CASE ExportStep
  BY <1>4, ExportFrame
<1>5. [pc |-> "deliver"] \in Jobs
  BY DEF Jobs
<1>6. CASE CheckWatched
  BY <1>5, <1>6, CheckWatchedFrame, WaitingJob
<1>7. CASE FlagStep
  <2>1. PICK kind, found, cooldown : Flag(kind, found, cooldown)
    BY <1>7 DEF FlagStep, CheckQuotas, CheckMinutes, CheckUncategorized, CheckExports
  <2> QED BY <1>5, <2>1, FlagFrame, WaitingJob
<1>8. CASE Deliver
  BY <1>8, DeliverFrame, WaitingJob
<1>9. CASE RunFails
  BY <1>9, RunFailsFrame, WaitingJob
<1>10. CASE Restart
  BY <1>10, RestartFrame, StartedJobs
<1> QED BY <1>1, <1>2, <1>3, <1>4, <1>6, <1>7, <1>8, <1>9, <1>10, NextCases

LEMMA BaseStep ==
  ASSUME BaseInv, ReportInv, [Next]_vars
  PROVE  BaseInv' /\ LeftKept /\ clock' >= clock
<1>1. CASE UNCHANGED vars
  BY <1>1 DEF vars, BaseInv, LeftKept, PastShape
<1>2. CASE MailStep
  <2>1. PastShape' /\ LeftKept /\ UNCHANGED clock
    BY <1>2, MailFrame
  <2>2. job' \in Jobs
    BY <1>2, StartReportStep, MailBranchStep, ReportSentStep, WaitingJob DEF MailStep, BaseInv
  <2> QED BY <2>1, <2>2 DEF BaseInv, LeftKept
<1>3. CASE Next /\ ~MailStep
  <2>1. job' \in Jobs /\ clock' \in Nat /\ clock' >= clock
    BY <1>3, OtherJobs
  <2>2. PastShape' /\ LeftKept
    <3>1. CASE Tick \/ Traffic \/ ExportStep \/ Deliver
      <4>1. UNCHANGED past /\ LeftKept
        BY <3>1, TickFrame, TrafficFrame, ExportFrame, DeliverFrame
      <4> QED BY <4>1 DEF BaseInv, PastShape
    <3>2. CASE PairingStep
      BY <3>2, PairingFrame
    <3>3. CASE CheckWatched
      BY <3>3, CheckWatchedFrame
    <3>4. CASE FlagStep
      <4>1. PICK kind, found, cooldown : Flag(kind, found, cooldown)
        BY <3>4 DEF FlagStep, CheckQuotas, CheckMinutes, CheckUncategorized, CheckExports
      <4> QED BY <4>1, FlagFrame
    <3>5. CASE RunFails \/ Restart
      BY <3>5, RunFailsFrame, RestartFrame
    <3> QED BY <1>3, <3>1, <3>2, <3>3, <3>4, <3>5, NextCases
  <2> QED BY <2>1, <2>2 DEF BaseInv, LeftKept
<1> QED BY <1>1, <1>2, <1>3

LEMMA ReportInit == Init => ReportInv
<1> SUFFICES ASSUME Init PROVE ReportInv
  OBVIOUS
<1>1. job.pc # "mail"
  BY StartedJobs DEF Init
<1>2. lastSent = Never /\ mails = {} /\ past.reported = {} /\ past.broken = {} /\ clock = 0
  BY DEF Init
<1> QED BY <1>1, <1>2 DEF ReportInv, MailingInv, ReportedInv, ReportsCoverAllTime, Never

LEMMA StartReportKeeps ==
  ASSUME BaseInv, ReportInv, StartReport
  PROVE  ReportInv'
<1> USE DEF BaseInv, ReportInv, MailingInv, ReportedInv, Never
<1>1. UNCHANGED <<clock, lastSent, mails, past>>
  BY StartReportStep DEF mailing
<1>2. MailingInv'
  BY <1>1, StartReportStep, NoticesAssumption
<1>3. ReportedInv'
  BY <1>1
<1>4. ReportsCoverAllTime'
  <2>1. job.pc # "mail"
    BY DEF StartReport, Due
  <2>2. ReportsCoverAllTime
    OBVIOUS
  <2> QED BY <1>1, <2>1, <2>2 DEF ReportsCoverAllTime
<1> QED BY <1>2, <1>3, <1>4

LEMMA MailBranchKeeps ==
  ASSUME BaseInv, ReportInv, MailBranch
  PROVE  ReportInv'
<1>1. /\ job.pc = "mail" /\ UNCHANGED <<clock, lastSent, past>>
      /\ job'.pc = "mail" /\ job'.period = job.period
      /\ job.todo # << >> /\ job'.todo = Tail(job.todo)
      /\ mails' = mails \cup {Mail(Head(job.todo), job.period)}
  BY MailBranchStep
<1>2. job.todo \in Seq(Branches)
  BY <1>1, MailingJob DEF BaseInv
<1>3. MailingInv'
  <2>1. ASSUME NEW i \in DOMAIN Order, NEW j \in DOMAIN job.todo, job.todo[j] = Order[i]
        PROVE  \/ Mail(Order[i], job.period) \in mails'
               \/ \E k \in DOMAIN Tail(job.todo) : Tail(job.todo)[k] = Order[i]
    <3>1. CASE j = 1
      BY <1>1, <1>2, <2>1, <3>1
    <3>2. CASE j # 1
      <4>1. j - 1 \in DOMAIN Tail(job.todo) /\ Tail(job.todo)[j - 1] = job.todo[j]
        BY <1>1, <1>2, <2>1, <3>2
      <4> QED BY <2>1, <4>1
    <3> QED BY <3>1, <3>2
  <2>2. MailingInv
    BY DEF ReportInv
  <2> QED BY <1>1, <2>1, <2>2 DEF MailingInv
<1>4. ReportedInv'
  BY <1>1 DEF ReportInv, ReportedInv
<1>5. ReportsCoverAllTime'
  <2>1. ReportsCoverAllTime
    BY DEF ReportInv
  <2>2. Mail(Head(job.todo), job.period).period = job.period
    BY DEF Mail
  <2> QED BY <1>1, <2>1, <2>2 DEF ReportsCoverAllTime
<1> QED BY <1>3, <1>4, <1>5 DEF ReportInv

LEMMA ReportSentKeeps ==
  ASSUME BaseInv, ReportInv, ReportSent
  PROVE  ReportInv'
<1>1. /\ job.pc = "mail" /\ job.todo = << >> /\ job' = Waiting
      /\ UNCHANGED <<clock, mails, past.broken>> /\ lastSent' = job.period.until
      /\ past'.reported = past.reported \cup {job.period}
  BY ReportSentStep
<1>2. job'.pc # "mail"
  BY <1>1, WaitingJob DEF BaseInv
<1>3. job.period \in Periods /\ job.period.since \in Int /\ job.period.until \in Nat
  BY <1>1, MailingJob DEF BaseInv, Periods
<1>4. /\ job.period.since <= job.period.until /\ job.period.until <= clock
      /\ lastSent # Never => job.period.since = lastSent
      /\ \A i \in DOMAIN Order : Mail(Order[i], job.period) \in mails
  BY <1>1 DEF ReportInv, MailingInv
<1>5. ReportedInv /\ ReportsCoverAllTime
  BY DEF ReportInv
<1>6. ReportedInv'
  BY <1>1, <1>3, <1>4, <1>5 DEF ReportedInv, BaseInv, Never, Periods
<1>7. ReportsCoverAllTime'
  <2>1. \E p \in past'.reported : p.until = lastSent'
    BY <1>1
  <2>2. ASSUME NEW p \in past'.reported
        PROVE  \A i \in DOMAIN Order : [branch |-> Order[i], period |-> p] \in mails
    <3>1. CASE p = job.period
      BY <1>4, <3>1 DEF Mail
    <3> QED BY <1>1, <1>5, <2>2, <3>1 DEF ReportsCoverAllTime
  <2>3. ASSUME NEW p \in past'.reported
        PROVE  \/ \A q \in past'.reported : p.since <= q.since
               \/ \E q \in past'.reported : q.until = p.since
    <3>1. CASE lastSent = Never
      <4>1. past'.reported = {job.period}
        BY <1>1, <1>5, <3>1 DEF ReportedInv
      <4> QED BY <1>3, <4>1
    <3>2. CASE lastSent # Never /\ p = job.period
      <4>1. \E q \in past.reported : q.until = lastSent
        BY <1>5, <3>2 DEF ReportsCoverAllTime
      <4> QED BY <1>1, <1>4, <3>2, <4>1
    <3>3. CASE lastSent # Never /\ p \in past.reported
      <4>1. p.since \in Int /\ p.until \in Int /\ p.since <= p.until /\ p.until <= lastSent
        BY <1>5, <3>3 DEF ReportedInv, Periods
      <4>2. p.since <= job.period.since
        BY <1>3, <1>4, <3>3, <4>1
      <4>3. CASE \A q \in past.reported : p.since <= q.since
        BY <1>1, <4>2, <4>3
      <4>4. CASE \E q \in past.reported : q.until = p.since
        BY <1>1, <4>4
      <4> QED BY <1>5, <3>3, <4>3, <4>4 DEF ReportsCoverAllTime
    <3> QED BY <1>1, <3>1, <3>2, <3>3
  <2>4. ASSUME NEW m \in mails
        PROVE  m.period \in past'.reported \cup past'.broken
    BY <1>1, <1>5, <2>4 DEF ReportsCoverAllTime
  <2> QED BY <1>1, <2>1, <2>2, <2>3, <2>4 DEF ReportsCoverAllTime
<1> QED BY <1>2, <1>6, <1>7 DEF ReportInv, MailingInv

LEMMA ReportStep ==
  ASSUME BaseInv, ReportInv, [Next]_vars
  PROVE  ReportInv'
<1>1. CASE UNCHANGED vars
  BY <1>1 DEF vars, mailing, ReportInv, MailingInv, ReportedInv, ReportsCoverAllTime
<1>2. CASE MailStep
  BY <1>2, StartReportKeeps, MailBranchKeeps, ReportSentKeeps DEF MailStep
<1>3. CASE Next /\ ~MailStep
  <2>1. /\ UNCHANGED <<lastSent, mails, past.reported>> /\ clock' \in Nat /\ clock' >= clock
        /\ \/ UNCHANGED <<job, past.broken>>
           \/ job'.pc # "mail" /\ job.pc # "mail" /\ UNCHANGED past.broken
           \/ job'.pc # "mail" /\ past'.broken = BrokenOff
    BY <1>3, OtherJobs DEF mailing
  <2>2. MailingInv'
    <3>1. ASSUME job'.pc = "mail" PROVE UNCHANGED job
      BY <2>1, <3>1
    <3>2. ASSUME job'.pc = "mail" PROVE job.period.until \in Int
      BY <3>1, <3>2, MailingJob DEF BaseInv, Periods
    <3> QED BY <2>1, <3>1, <3>2 DEF ReportInv, MailingInv, BaseInv
  <2>3. ReportedInv'
    BY <2>1 DEF ReportInv, ReportedInv, BaseInv, Never
  <2>4. ReportsCoverAllTime'
    <3>1. ASSUME NEW m \in mails
          PROVE  \/ m.period \in past.reported \cup past'.broken
                 \/ job'.pc = "mail" /\ m.period = job'.period
      BY <2>1 DEF ReportInv, ReportsCoverAllTime, BrokenOff
    <3> QED BY <2>1, <3>1 DEF ReportInv, ReportsCoverAllTime
  <2> QED BY <2>2, <2>3, <2>4 DEF ReportInv
<1> QED BY <1>1, <1>2, <1>3

-----------------------------------------------------------------------------
(* Pairing codes.                                                           *)

LEMMA CodesSeq ==
  ASSUME PairTypes
  PROVE  /\ Len(codes) \in Nat /\ DOMAIN codes = 1..Len(codes) /\ \A i \in DOMAIN codes : codes[i] \in Rows
         /\ Len(sent) \in Nat /\ DOMAIN sent = 1..Len(sent)
         /\ \A m \in DOMAIN sent : sent[m] \in [chat : Chats, code : Codes]
<1>1. ASSUME NEW S, NEW s \in Seq(S)
      PROVE  Len(s) \in Nat /\ DOMAIN s = 1..Len(s) /\ \A i \in DOMAIN s : s[i] \in S
  BY <1>1
<1>2. codes \in Seq(Rows) /\ sent \in Seq([chat : Chats, code : Codes])
  BY DEF PairTypes
<1> QED BY <1>1, <1>2

\* The codes keep what they are for, and the messages stay.
Grows ==
  /\ codes' \in Seq(Rows) /\ Len(codes') >= Len(codes)
  /\ \A i \in DOMAIN codes :
       /\ codes'[i].code = codes[i].code /\ codes'[i].target = codes[i].target
       /\ codes'[i].knew = codes[i].knew /\ codes'[i].at = codes[i].at
       /\ codes[i].chat # None => codes'[i].chat # None
  /\ sent' \in Seq([chat : Chats, code : Codes]) /\ Len(sent') >= Len(sent)
  /\ \A m \in DOMAIN sent : sent'[m] = sent[m]

LEMMA GrowsSame ==
  ASSUME PairTypes, UNCHANGED <<codes, sent>>
  PROVE  Grows
BY DEF PairTypes, Grows

LEMMA GrowsKeeps ==
  ASSUME PairTypes, RedeemedInv, ChatInv, Grows, UNCHANGED <<chatOf, PairingPast>>
  PROVE  RedeemedInv' /\ ChatInv'
<1>1. /\ Len(codes) \in Nat /\ DOMAIN codes = 1..Len(codes)
      /\ Len(sent) \in Nat /\ DOMAIN sent = 1..Len(sent)
  BY CodesSeq
<1>2. /\ Len(codes') \in Nat /\ DOMAIN codes' = 1..Len(codes')
      /\ Len(sent') \in Nat /\ DOMAIN sent' = 1..Len(sent')
  BY DEF Grows
<1>3. DOMAIN codes \subseteq DOMAIN codes' /\ DOMAIN sent \subseteq DOMAIN sent'
  BY <1>1, <1>2 DEF Grows
<1>4. ASSUME NEW n \in DOMAIN past.redeemed
      PROVE  LET d == past.redeemed[n] IN
             /\ d.row \in DOMAIN codes /\ d.by \in DOMAIN sent /\ d.rows <= Len(codes)
             /\ d.row \in Nat /\ d.rows \in Nat
             /\ codes[d.row].code = sent[d.by].code /\ codes[d.row].chat # None
             /\ d.at < codes[d.row].at + Ttl
             /\ \A j \in DOMAIN codes : d.row < j /\ j <= d.rows /\ codes[j].target = codes[d.row].target
                                          => codes[j].knew < d.row
  <2>1. past.redeemed[n] \in Redemptions
    BY <1>4 DEF RedeemedInv
  <2>2. past.redeemed[n].row \in Nat /\ past.redeemed[n].rows \in Nat
    BY <2>1 DEF Redemptions
  <2> QED BY <1>4, <2>2 DEF RedeemedInv
<1>5. RedeemedInv'
  <2>1. ASSUME NEW n \in DOMAIN past.redeemed
        PROVE  LET d == past.redeemed[n] IN
               /\ d.row \in DOMAIN codes' /\ d.by \in DOMAIN sent' /\ d.rows <= Len(codes')
               /\ codes'[d.row].code = sent'[d.by].code /\ codes'[d.row].chat # None
               /\ d.at < codes'[d.row].at + Ttl
    BY <1>1, <1>2, <1>3, <1>4, <2>1 DEF Grows
  <2>2. ASSUME NEW n \in DOMAIN past.redeemed, NEW j \in DOMAIN codes',
               past.redeemed[n].row < j, j <= past.redeemed[n].rows,
               codes'[j].target = codes'[past.redeemed[n].row].target
        PROVE  codes'[j].knew < past.redeemed[n].row
    <3>1. j \in DOMAIN codes
      BY <1>1, <1>2, <1>4, <2>2
    <3> QED BY <1>4, <2>2, <3>1 DEF Grows
  <2>3. past'.redeemed = past.redeemed
    BY DEF PairingPast
  <2> QED BY <2>1, <2>2, <2>3 DEF RedeemedInv
<1>6. ChatInv'
  <2>1. past'.redeemed = past.redeemed /\ past'.savedOver = past.savedOver /\ chatOf' = chatOf
    BY DEF PairingPast
  <2>2. \A n \in DOMAIN past.redeemed :
          /\ codes'[past.redeemed[n].row].target = codes[past.redeemed[n].row].target
          /\ sent'[past.redeemed[n].by] = sent[past.redeemed[n].by]
    BY <1>4 DEF Grows
  <2> QED BY <2>1, <2>2 DEF ChatInv, TargetOf
<1> QED BY <1>5, <1>6

LEMMA PairInit == Init => PairInv
<1> SUFFICES ASSUME Init PROVE PairInv
  OBVIOUS
<1>1. /\ codes = << >> /\ sent = << >> /\ confirmed = 0 /\ asking = [r \in Requests |-> None]
      /\ chatOf = [t \in Targets |-> None] /\ page = None /\ clock = 0
      /\ poller = [offset |-> 0, next |-> 1, upto |-> 0]
      /\ past.redeemed = << >>
  BY DEF Init
<1>2. PairTypes
  BY <1>1 DEF PairTypes
<1>3. CodesInv /\ AskingInv
  BY <1>1 DEF CodesInv, AskingInv
<1>4. RedeemedInv /\ ChatInv
  BY <1>1 DEF RedeemedInv, ChatInv
<1> QED BY <1>2, <1>3, <1>4 DEF PairInv

\* Time passes, at most.
LEMMA PairSame ==
  ASSUME BaseInv, PairInv, UNCHANGED <<pairing, PairingPast>>, clock' \in Nat, clock' >= clock
  PROVE  PairInv'
<1> USE DEF pairing, PairInv
<1>1. RedeemedInv' /\ ChatInv'
  BY GrowsSame, GrowsKeeps
<1>2. PairTypes'
  BY DEF PairTypes
<1>3. /\ Len(codes) \in Nat /\ DOMAIN codes = 1..Len(codes)
      /\ \A i \in DOMAIN codes : codes[i].at \in Nat /\ codes[i].expires \in Nat
  BY CodesSeq DEF Rows
<1>4. \A i \in DOMAIN codes : Pending(i)' => Pending(i)
  BY <1>3 DEF Pending, BaseInv
<1>5. CodesInv'
  BY <1>3, <1>4 DEF CodesInv, BaseInv
<1>6. AskingInv'
  <2>1. \A r \in Requests : asking[r] # None => asking[r] \in Asking
    BY DEF PairTypes
  <2> SUFFICES ASSUME NEW r \in Requests, asking'[r] # None
               PROVE  LET a == asking[r] IN
                 /\ a.at <= clock' /\ a.knew <= Len(codes) /\ a.expire \subseteq DOMAIN codes
                 /\ \A i \in DOMAIN codes : codes[i].code # a.code
                 /\ \A q \in Requests : q # r /\ asking[q] # None => asking[q].code # a.code
                 /\ \A i \in a.expire : codes[i].at <= a.at /\ a.at <= codes[i].at + Ttl
                 /\ \A i \in DOMAIN codes :
                      i <= a.knew /\ codes[i].target = a.target => i \in a.expire \/ ~Pending(i)'
    BY DEF AskingInv
  <2> QED BY <1>4, <2>1 DEF AskingInv, Asking, BaseInv
<1> QED BY <1>1, <1>2, <1>5, <1>6

LEMMA AskKeeps ==
  ASSUME BaseInv, PairInv, NEW r \in Requests, NEW t \in Targets, AskForCode(r, t)
  PROVE  PairInv'
<1> DEFINE expire == {i \in DOMAIN codes : codes[i].target = t /\ Pending(i)}
<1> USE DEF PairInv
<1>1. PICK code \in Codes :
       /\ \A i \in DOMAIN codes : codes[i].code # code
       /\ \A q \in Requests : asking[q] # None => asking[q].code # code
       /\ asking' = [asking EXCEPT ![r] = [target |-> t, code |-> code, at |-> clock,
                                           knew |-> Len(codes), expire |-> expire]]
  BY DEF AskForCode
<1>2. asking[r] = None /\ UNCHANGED <<clock, codes, chatOf, page, sent, confirmed, poller, past>>
  BY DEF AskForCode
<1>3. /\ Len(codes) \in Nat /\ DOMAIN codes = 1..Len(codes) /\ \A i \in DOMAIN codes : codes[i] \in Rows
  BY CodesSeq
<1>4. RedeemedInv' /\ ChatInv'
  BY <1>2, GrowsSame, GrowsKeeps DEF PairingPast
<1>5. expire \in SUBSET Nat /\ expire \subseteq DOMAIN codes
  BY <1>3
<1>6. \A i \in expire : codes[i].at <= clock /\ clock <= codes[i].at + Ttl
  BY <1>3, NoticesAssumption DEF CodesInv, Pending, Rows, BaseInv
<1>7. \A i \in DOMAIN codes : codes[i].target = t => i \in expire \/ ~Pending(i)
  OBVIOUS
<1> HIDE DEF expire
<1> DEFINE a == [target |-> t, code |-> code, at |-> clock, knew |-> Len(codes), expire |-> expire]
<1>8. a \in Asking
  BY <1>3, <1>5 DEF Asking, BaseInv
<1>9. PairTypes'
  BY <1>1, <1>2, <1>8 DEF PairTypes
<1>10. CodesInv'
  BY <1>2 DEF CodesInv, Pending
<1>11. AskingInv'
  <2>1. /\ a.at = clock /\ a.knew = Len(codes) /\ a.expire = expire /\ a.code = code /\ a.target = t
        /\ asking' = [asking EXCEPT ![r] = a] /\ asking \in [Requests -> {None} \cup Asking]
    BY <1>1 DEF PairTypes
  <2> HIDE DEF a
  <2>2. asking'[r] = a /\ \A q \in Requests \ {r} : asking'[q] = asking[q]
    BY <2>1
  <2>3. ASSUME NEW q \in Requests, asking'[q] # None, q # r
        PROVE  LET b == asking[q] IN
               /\ b.at <= clock /\ b.knew <= Len(codes) /\ b.expire \subseteq DOMAIN codes
               /\ \A i \in DOMAIN codes : codes[i].code # b.code
               /\ \A p \in Requests : p # q /\ asking'[p] # None => asking'[p].code # b.code
               /\ \A i \in b.expire : codes[i].at <= b.at /\ b.at <= codes[i].at + Ttl
               /\ \A i \in DOMAIN codes :
                    i <= b.knew /\ codes[i].target = b.target => i \in b.expire \/ ~Pending(i)
    BY <1>1, <2>1, <2>2, <2>3 DEF AskingInv
  <2>4. /\ clock <= clock /\ Len(codes) <= Len(codes)
        /\ \A q \in Requests : q # r /\ asking'[q] # None => asking'[q].code # code
    BY <1>1, <1>3, <2>2 DEF BaseInv
  <2>5. \A i \in DOMAIN codes : Pending(i)' <=> Pending(i)
    BY <1>2 DEF Pending
  <2>6. \A q \in Requests : asking'[q] # None => LET b == asking'[q] IN
          /\ b.at <= clock /\ b.knew <= Len(codes) /\ b.expire \subseteq DOMAIN codes
          /\ \A i \in DOMAIN codes : codes[i].code # b.code
          /\ \A p \in Requests : p # q /\ asking'[p] # None => asking'[p].code # b.code
          /\ \A i \in b.expire : codes[i].at <= b.at /\ b.at <= codes[i].at + Ttl
          /\ \A i \in DOMAIN codes :
               i <= b.knew /\ codes[i].target = b.target => i \in b.expire \/ ~Pending(i)
    <3> SUFFICES ASSUME NEW q \in Requests, asking'[q] # None
                 PROVE  LET b == asking'[q] IN
                   /\ b.at <= clock /\ b.knew <= Len(codes) /\ b.expire \subseteq DOMAIN codes
                   /\ \A i \in DOMAIN codes : codes[i].code # b.code
                   /\ \A p \in Requests : p # q /\ asking'[p] # None => asking'[p].code # b.code
                   /\ \A i \in b.expire : codes[i].at <= b.at /\ b.at <= codes[i].at + Ttl
                   /\ \A i \in DOMAIN codes :
                        i <= b.knew /\ codes[i].target = b.target => i \in b.expire \/ ~Pending(i)
      OBVIOUS
    <3>1. CASE q = r
      BY <1>1, <1>5, <1>6, <1>7, <2>1, <2>2, <2>4, <3>1
    <3>2. CASE q # r
      BY <2>2, <2>3, <3>2
    <3> QED BY <3>1, <3>2
  <2> QED BY <1>2, <2>5, <2>6 DEF AskingInv
<1> QED BY <1>4, <1>9, <1>10, <1>11

\* The row that a request adds, and what becomes of the others.
LEMMA IssueFacts ==
  ASSUME BaseInv, PairInv, NEW r \in Requests, CodeIssued(r)
  PROVE  LET a == asking[r] IN
         /\ a \in Asking /\ asking' = [asking EXCEPT ![r] = None]
         /\ UNCHANGED <<clock, chatOf, page, sent, confirmed, poller, past>>
         /\ codes' \in Seq(Rows) /\ Len(codes') = Len(codes) + 1
         /\ \A i \in DOMAIN codes :
              /\ codes'[i].code = codes[i].code /\ codes'[i].target = codes[i].target
              /\ codes'[i].knew = codes[i].knew /\ codes'[i].at = codes[i].at
              /\ codes'[i].chat = codes[i].chat
              /\ codes'[i].expires = IF i \in a.expire THEN a.at ELSE codes[i].expires
         /\ codes'[Len(codes) + 1] = [code |-> a.code, target |-> a.target, knew |-> a.knew,
              at |-> a.at, expires |-> a.at + Ttl, chat |-> None]
<1> DEFINE a == asking[r]
           old == [i \in DOMAIN codes |->
                     IF i \in a.expire THEN [codes[i] EXCEPT !.expires = a.at] ELSE codes[i]]
           new == [code |-> a.code, target |-> a.target, knew |-> a.knew,
                   at |-> a.at, expires |-> a.at + Ttl, chat |-> None]
<1>1. /\ asking[r] # None /\ codes' = Append(old, new) /\ asking' = [asking EXCEPT ![r] = None]
      /\ UNCHANGED <<clock, chatOf, page, sent, confirmed, poller, past>>
  BY DEF CodeIssued
<1>2. a \in Asking
  BY <1>1 DEF PairInv, PairTypes
<1>3. /\ Len(codes) \in Nat /\ DOMAIN codes = 1..Len(codes) /\ \A i \in DOMAIN codes : codes[i] \in Rows
  BY CodesSeq DEF PairInv
<1>4. \A i \in DOMAIN codes :
        /\ old[i] \in Rows
        /\ old[i].code = codes[i].code /\ old[i].target = codes[i].target
        /\ old[i].knew = codes[i].knew /\ old[i].at = codes[i].at
        /\ old[i].chat = codes[i].chat
        /\ old[i].expires = IF i \in a.expire THEN a.at ELSE codes[i].expires
  BY <1>2, <1>3 DEF Rows, Asking
<1>5. new \in Rows
  BY <1>2, NoticesAssumption DEF Rows, Asking
<1>6. old \in [1..Len(codes) -> Rows]
  BY <1>3, <1>4
<1> HIDE DEF old, new
<1>7. old \in Seq(Rows) /\ Len(old) = Len(codes)
  BY <1>3, <1>6
<1>8. /\ codes' \in Seq(Rows) /\ Len(codes') = Len(codes) + 1 /\ codes'[Len(codes) + 1] = new
      /\ \A i \in DOMAIN codes : codes'[i] = old[i]
  BY <1>1, <1>3, <1>5, <1>7
<1> QED BY <1>1, <1>2, <1>4, <1>8 DEF new

LEMMA IssueKeeps ==
  ASSUME BaseInv, PairInv, NEW r \in Requests, CodeIssued(r)
  PROVE  PairInv'
<1> DEFINE a == asking[r]
           n == Len(codes) + 1
<1>1. /\ a \in Asking /\ asking' = [asking EXCEPT ![r] = None]
      /\ UNCHANGED <<clock, chatOf, page, sent, confirmed, poller, past>>
      /\ codes' \in Seq(Rows) /\ Len(codes') = Len(codes) + 1
      /\ \A i \in DOMAIN codes :
           /\ codes'[i].code = codes[i].code /\ codes'[i].target = codes[i].target
           /\ codes'[i].knew = codes[i].knew /\ codes'[i].at = codes[i].at
           /\ codes'[i].chat = codes[i].chat
           /\ codes'[i].expires = IF i \in a.expire THEN a.at ELSE codes[i].expires
      /\ codes'[n] = [code |-> a.code, target |-> a.target, knew |-> a.knew,
                     at |-> a.at, expires |-> a.at + Ttl, chat |-> None]
  BY IssueFacts
<1>2. asking[r] # None
  BY DEF CodeIssued
<1>3. /\ Len(codes) \in Nat /\ DOMAIN codes = 1..Len(codes) /\ DOMAIN codes' = 1..n
      /\ \A i \in DOMAIN codes : codes[i] \in Rows
  BY <1>1, CodesSeq DEF PairInv
<1>4. /\ a.at \in Nat /\ a.at <= clock /\ a.knew \in Nat /\ a.knew <= Len(codes) /\ a.expire \subseteq DOMAIN codes
      /\ \A i \in DOMAIN codes : codes[i].code # a.code
      /\ \A q \in Requests : q # r /\ asking[q] # None => asking[q].code # a.code
      /\ \A i \in a.expire : codes[i].at <= a.at /\ a.at <= codes[i].at + Ttl
      /\ \A i \in DOMAIN codes :
           i <= a.knew /\ codes[i].target = a.target => i \in a.expire \/ ~Pending(i)
  BY <1>1, <1>2 DEF PairInv, AskingInv, Asking
<1>5. /\ codes'[n].code = a.code /\ codes'[n].target = a.target /\ codes'[n].knew = a.knew
      /\ codes'[n].at = a.at /\ codes'[n].expires = a.at + Ttl /\ codes'[n].chat = None
  BY <1>1
<1> HIDE DEF a, n
<1>6. \A i \in DOMAIN codes : Pending(i)' => Pending(i) /\ i \notin a.expire
  BY <1>1, <1>3, <1>4 DEF Pending, BaseInv
<1>7. \A i \in DOMAIN codes' : i \in DOMAIN codes \/ i = n
  BY <1>3 DEF n
<1>8. Grows
  <2>1. codes' \in Seq(Rows) /\ Len(codes') >= Len(codes)
    BY <1>1, <1>3
  <2> QED BY <1>1, <2>1 DEF Grows, PairInv, PairTypes
<1>9. RedeemedInv' /\ ChatInv'
  BY <1>1, <1>8, GrowsKeeps DEF PairingPast, PairInv
<1>10. PairTypes'
  <2>1. asking' \in [Requests -> {None} \cup Asking]
    BY <1>1 DEF PairInv, PairTypes
  <2> QED BY <1>1, <2>1 DEF PairInv, PairTypes
<1>11. CodesInv'
  <2>1. ASSUME NEW i \in DOMAIN codes'
        PROVE  /\ codes'[i].at <= clock /\ codes'[i].knew < i
               /\ codes'[i].at <= codes'[i].expires /\ codes'[i].expires <= codes'[i].at + Ttl
    <3>1. CASE i = n
      BY <1>3, <1>4, <1>5, <3>1, NoticesAssumption DEF n
    <3>2. CASE i \in DOMAIN codes
      BY <1>1, <1>4, <3>2 DEF PairInv, CodesInv
    <3> QED BY <1>7, <3>1, <3>2
  <2>2. ASSUME NEW i \in DOMAIN codes', NEW j \in DOMAIN codes', i # j
        PROVE  codes'[i].code # codes'[j].code
    BY <1>1, <1>4, <1>5, <1>7, <2>2 DEF PairInv, CodesInv
  <2>3. ASSUME NEW i \in DOMAIN codes', NEW j \in DOMAIN codes',
               i <= codes'[j].knew, codes'[i].target = codes'[j].target
        PROVE  ~Pending(i)'
    <3>1. CASE i = n
      <4>1. codes'[j].knew < j /\ j <= n
        BY <1>3, <2>1
      <4>2. codes'[j].knew \in Nat
        BY <1>1, <1>3, <1>4, <1>5, <1>7 DEF Rows
      <4> QED BY <1>3, <2>3, <3>1, <4>1, <4>2
    <3>2. CASE i \in DOMAIN codes /\ j = n
      BY <1>1, <1>4, <1>5, <1>6, <2>3, <3>2
    <3>3. CASE i \in DOMAIN codes /\ j \in DOMAIN codes
      BY <1>1, <1>6, <2>3, <3>3 DEF PairInv, CodesInv
    <3> QED BY <1>7, <3>1, <3>2, <3>3
  <2> QED BY <1>1, <2>1, <2>2, <2>3 DEF CodesInv
<1>12. AskingInv'
  <2>1. \A q \in Requests : asking'[q] # None => q # r /\ asking'[q] = asking[q]
    BY <1>1 DEF PairInv, PairTypes
  <2>2. ASSUME NEW q \in Requests, q # r, asking[q] # None
        PROVE  LET b == asking[q] IN
               /\ b.at <= clock /\ b.knew <= Len(codes') /\ b.expire \subseteq DOMAIN codes'
               /\ \A i \in DOMAIN codes' : codes'[i].code # b.code
               /\ \A p \in Requests : p # q /\ asking'[p] # None => asking'[p].code # b.code
               /\ \A i \in b.expire : codes'[i].at <= b.at /\ b.at <= codes'[i].at + Ttl
               /\ \A i \in DOMAIN codes' :
                    i <= b.knew /\ codes'[i].target = b.target => i \in b.expire \/ ~Pending(i)'
    <3> DEFINE b == asking[q]
    <3>1. /\ b.at <= clock /\ b.knew <= Len(codes) /\ b.expire \subseteq DOMAIN codes
          /\ \A i \in DOMAIN codes : codes[i].code # b.code
          /\ \A p \in Requests : p # q /\ asking[p] # None => asking[p].code # b.code
          /\ \A i \in b.expire : codes[i].at <= b.at /\ b.at <= codes[i].at + Ttl
          /\ \A i \in DOMAIN codes :
               i <= b.knew /\ codes[i].target = b.target => i \in b.expire \/ ~Pending(i)
      BY <2>2 DEF PairInv, AskingInv
    <3>2. b.knew \in Nat
      BY <2>2 DEF PairInv, PairTypes, Asking
    <3> HIDE DEF b
    <3>3. b.knew <= Len(codes') /\ b.expire \subseteq DOMAIN codes' /\ ~(n <= b.knew)
      BY <1>1, <1>3, <3>1, <3>2 DEF n
    <3>4. \A i \in DOMAIN codes' : codes'[i].code # b.code
      BY <1>1, <1>4, <1>5, <1>7, <2>2, <3>1 DEF b
    <3>5. \A p \in Requests : p # q /\ asking'[p] # None => asking'[p].code # b.code
      BY <2>1, <3>1
    <3>6. \A i \in b.expire : codes'[i].at <= b.at /\ b.at <= codes'[i].at + Ttl
      BY <1>1, <3>1
    <3>7. \A i \in DOMAIN codes' :
            i <= b.knew /\ codes'[i].target = b.target => i \in b.expire \/ ~Pending(i)'
      BY <1>1, <1>6, <1>7, <3>1, <3>3
    <3> QED BY <3>1, <3>3, <3>4, <3>5, <3>6, <3>7 DEF b
  <2> QED BY <1>1, <2>1, <2>2 DEF AskingInv
<1> QED BY <1>9, <1>10, <1>11, <1>12 DEF PairInv

\* The one code that a message redeems.
LEMMA RedeemFacts ==
  ASSUME BaseInv, PairInv, NEW m \in DOMAIN sent, Redeem(m)
  PROVE  \/ UNCHANGED <<codes, chatOf, past>>
         \/ \E i \in DOMAIN codes :
              /\ codes[i].code = sent[m].code /\ Pending(i)
              /\ codes' = [codes EXCEPT ![i].chat = sent[m].chat]
              /\ chatOf' = [chatOf EXCEPT ![codes[i].target] = sent[m].chat]
              /\ past'.redeemed = Append(past.redeemed,
                                        [row |-> i, by |-> m, at |-> clock, rows |-> Len(codes)])
              /\ past'.savedOver = past.savedOver \ {codes[i].target}
<1> DEFINE good == {j \in DOMAIN codes : codes[j].code = sent[m].code /\ Pending(j)}
           i == Max(good)
<1>1. Len(codes) \in Nat /\ DOMAIN codes = 1..Len(codes)
  BY CodesSeq DEF PairInv
<1>2. CASE good = {}
  BY <1>2 DEF Redeem
<1>3. CASE good # {}
  <2>1. good \in SUBSET (0..Len(codes))
    BY <1>1
  <2>2. i \in good
    <3> HIDE DEF good
    <3> QED BY <1>1, <1>3, <2>1, MaxWithin
  <2>3. /\ codes' = [codes EXCEPT ![i].chat = sent[m].chat]
        /\ chatOf' = [chatOf EXCEPT ![codes[i].target] = sent[m].chat]
        /\ past' = [past EXCEPT
             !.redeemed  = Append(@, [row |-> i, by |-> m, at |-> clock, rows |-> Len(codes)]),
             !.savedOver = @ \ {codes[i].target}]
    BY <1>3 DEF Redeem
  <2>4. i \in DOMAIN codes /\ codes[i].code = sent[m].code /\ Pending(i)
    BY <2>2
  <2> HIDE DEF i, good
  <2>5. /\ past'.redeemed = Append(past.redeemed,
                                 [row |-> i, by |-> m, at |-> clock, rows |-> Len(codes)])
        /\ past'.savedOver = past.savedOver \ {codes[i].target}
    BY <2>3 DEF BaseInv, PastShape
  <2> QED BY <2>3, <2>4, <2>5
<1> QED BY <1>2, <1>3

LEMMA RedeemKeeps ==
  ASSUME BaseInv, PairInv, NEW m \in DOMAIN sent, Redeem(m), UNCHANGED <<clock, asking, page, sent>>
  PROVE  /\ codes' \in Seq(Rows) /\ chatOf' \in [Targets -> Chats \cup {None}]
         /\ CodesInv' /\ AskingInv' /\ RedeemedInv' /\ ChatInv'
<1>1. /\ Len(codes) \in Nat /\ DOMAIN codes = 1..Len(codes) /\ \A i \in DOMAIN codes : codes[i] \in Rows
      /\ sent[m].chat \in Chats /\ sent[m].chat # None
  BY CodesSeq, NoticesAssumption DEF PairInv
<1>2. CASE UNCHANGED <<codes, chatOf, past>>
  <2>1. RedeemedInv' /\ ChatInv'
    BY <1>2, GrowsSame, GrowsKeeps DEF PairInv, PairingPast
  <2>2. codes' \in Seq(Rows) /\ chatOf' \in [Targets -> Chats \cup {None}]
    BY <1>2 DEF PairInv, PairTypes
  <2>3. CodesInv' /\ AskingInv'
    BY <1>2 DEF PairInv, CodesInv, AskingInv, Pending
  <2> QED BY <2>1, <2>2, <2>3
<1>3. ASSUME NEW i \in DOMAIN codes, codes[i].code = sent[m].code, Pending(i),
             codes' = [codes EXCEPT ![i].chat = sent[m].chat],
             chatOf' = [chatOf EXCEPT ![codes[i].target] = sent[m].chat],
             past'.redeemed = Append(past.redeemed,
                                     [row |-> i, by |-> m, at |-> clock, rows |-> Len(codes)]),
             past'.savedOver = past.savedOver \ {codes[i].target}
      PROVE  /\ codes' \in Seq(Rows) /\ chatOf' \in [Targets -> Chats \cup {None}]
             /\ CodesInv' /\ AskingInv' /\ RedeemedInv' /\ ChatInv'
  <2>1. DOMAIN codes' = DOMAIN codes /\ Len(codes') = Len(codes)
    BY <1>1, <1>3
  <2>2. \A j \in DOMAIN codes :
          /\ codes'[j] \in Rows
          /\ codes'[j].code = codes[j].code /\ codes'[j].target = codes[j].target
          /\ codes'[j].knew = codes[j].knew /\ codes'[j].at = codes[j].at
          /\ codes'[j].expires = codes[j].expires
          /\ codes'[j].chat = IF j = i THEN sent[m].chat ELSE codes[j].chat
    BY <1>1, <1>3 DEF Rows
  <2>3. codes' \in Seq(Rows)
    <3>1. codes' \in [1..Len(codes) -> Rows]
      BY <1>1, <1>3, <2>2
    <3> QED BY <1>1, <3>1
  <2>4. codes[i].target \in Targets
    BY <1>1 DEF Rows
  <2>5. chatOf' \in [Targets -> Chats \cup {None}]
    BY <1>1, <1>3, <2>4 DEF PairInv, PairTypes
  <2>6. \A j \in DOMAIN codes : Pending(j)' => Pending(j)
    BY <1>1, <2>2 DEF Pending
  <2>7. CodesInv'
    BY <2>1, <2>2, <2>6 DEF PairInv, CodesInv
  <2>8. AskingInv'
    <3> SUFFICES ASSUME NEW r \in Requests, asking[r] # None
                 PROVE  LET a == asking[r] IN
                   /\ a.at <= clock /\ a.knew <= Len(codes) /\ a.expire \subseteq DOMAIN codes
                   /\ \A j \in DOMAIN codes : codes'[j].code # a.code
                   /\ \A q \in Requests : q # r /\ asking[q] # None => asking[q].code # a.code
                   /\ \A j \in a.expire : codes'[j].at <= a.at /\ a.at <= codes'[j].at + Ttl
                   /\ \A j \in DOMAIN codes :
                        j <= a.knew /\ codes'[j].target = a.target => j \in a.expire \/ ~Pending(j)'
      BY <2>1 DEF AskingInv
    <3> QED BY <2>2, <2>6 DEF PairInv, AskingInv
  <2> DEFINE done == past.redeemed
             new  == [row |-> i, by |-> m, at |-> clock, rows |-> Len(codes)]
             n    == Len(done) + 1
  <2>9. done \in Seq(Redemptions) /\ new \in Redemptions
    BY <1>1, CodesSeq DEF PairInv, RedeemedInv, Redemptions, BaseInv
  <2>10. /\ Len(done) \in Nat /\ DOMAIN done = 1..Len(done) /\ past'.redeemed \in Seq(Redemptions)
         /\ DOMAIN past'.redeemed = 1..n /\ past'.redeemed[n] = new
         /\ \A k \in DOMAIN done : past'.redeemed[k] = done[k]
    <3>1. past'.redeemed = Append(done, new)
      BY <1>3
    <3> HIDE DEF done, new
    <3> QED BY <2>9, <3>1
  <2>11. new.row = i /\ new.by = m /\ new.at = clock /\ new.rows = Len(codes)
    OBVIOUS
  <2>12. \A k \in DOMAIN done :
           /\ done[k].row \in DOMAIN codes /\ done[k].by \in DOMAIN sent /\ done[k].rows <= Len(codes)
           /\ codes[done[k].row].code = sent[done[k].by].code /\ codes[done[k].row].chat # None
           /\ done[k].at < codes[done[k].row].at + Ttl
           /\ \A j \in DOMAIN codes :
                done[k].row < j /\ j <= done[k].rows /\ codes[j].target = codes[done[k].row].target
                  => codes[j].knew < done[k].row
    BY DEF PairInv, RedeemedInv
  <2>13. codes[i].chat = None /\ codes[i].expires > clock
    BY <1>3 DEF Pending
  <2>14. \A k \in DOMAIN done : done[k].row # i
    BY <2>12, <2>13
  <2> HIDE DEF done, new, n
  <2>15. \A k \in 1..n : k \in DOMAIN done \/ k = n
    BY <2>10 DEF n
  <2>16. RedeemedInv'
    <3>1. ASSUME NEW k \in DOMAIN done
          PROVE  LET d == past'.redeemed[k] IN
                 /\ d.row \in DOMAIN codes /\ d.by \in DOMAIN sent /\ d.rows <= Len(codes)
                 /\ codes'[d.row].code = sent[d.by].code /\ codes'[d.row].chat # None
                 /\ d.at < codes'[d.row].at + Ttl
                 /\ \A j \in DOMAIN codes : d.row < j /\ j <= d.rows /\ codes'[j].target = codes'[d.row].target
                                              => codes'[j].knew < d.row
      <4>1. past'.redeemed[k] = done[k] /\ done[k].row \in DOMAIN codes /\ done[k].row # i
        BY <2>10, <2>12, <2>14, <3>1
      <4>2. /\ codes'[done[k].row].code = codes[done[k].row].code
            /\ codes'[done[k].row].chat = codes[done[k].row].chat
            /\ codes'[done[k].row].at = codes[done[k].row].at
            /\ codes'[done[k].row].target = codes[done[k].row].target
            /\ \A j \in DOMAIN codes : codes'[j].target = codes[j].target /\ codes'[j].knew = codes[j].knew
        BY <2>2, <4>1
      <4> QED BY <2>12, <3>1, <4>1, <4>2
    <3>2. /\ new.row \in DOMAIN codes /\ new.by \in DOMAIN sent /\ new.rows <= Len(codes)
          /\ codes'[new.row].code = sent[new.by].code /\ codes'[new.row].chat # None
      BY <1>1, <1>3, <2>2, <2>11
    <3>3. new.at < codes'[new.row].at + Ttl
      <4>1. codes[i].expires <= codes[i].at + Ttl
        BY DEF PairInv, CodesInv
      <4>2. codes[i].at \in Nat /\ codes[i].expires \in Nat /\ Ttl \in Nat
        BY <1>1, NoticesAssumption DEF Rows
      <4> QED BY <2>2, <2>11, <2>13, <4>1, <4>2 DEF BaseInv
    <3>4. ASSUME NEW j \in DOMAIN codes, new.row < j, codes'[j].target = codes'[new.row].target
          PROVE  codes'[j].knew < new.row
      <4>1. codes[j].knew \in Nat
        BY <1>1 DEF Rows
      <4>2. ~(i <= codes[j].knew)
        BY <1>3, <2>2, <2>11, <3>4 DEF PairInv, CodesInv
      <4> QED BY <1>1, <2>2, <2>11, <4>1, <4>2
    <3>5. ASSUME NEW k \in 1..n, NEW l \in 1..n, k # l
          PROVE  past'.redeemed[k].row # past'.redeemed[l].row
      BY <2>10, <2>11, <2>14, <2>15, <3>5 DEF PairInv, RedeemedInv, done
    <3>6. \A k \in 1..n :
            LET d == past'.redeemed[k] IN
            /\ d.row \in DOMAIN codes /\ d.by \in DOMAIN sent /\ d.rows <= Len(codes)
            /\ codes'[d.row].code = sent[d.by].code /\ codes'[d.row].chat # None
            /\ d.at < codes'[d.row].at + Ttl
            /\ \A j \in DOMAIN codes : d.row < j /\ j <= d.rows /\ codes'[j].target = codes'[d.row].target
                                         => codes'[j].knew < d.row
      BY <2>10, <2>15, <3>1, <3>2, <3>3, <3>4
    <3> QED BY <2>1, <2>10, <3>5, <3>6 DEF RedeemedInv
  <2>17. ChatInv'
    <3> SUFFICES ASSUME NEW t \in Targets, t \notin past'.savedOver
                 PROVE  \/ chatOf'[t] = None /\ \A k \in 1..n : codes'[past'.redeemed[k].row].target # t
                        \/ \E k \in 1..n :
                             /\ codes'[past'.redeemed[k].row].target = t
                             /\ chatOf'[t] = sent[past'.redeemed[k].by].chat
                             /\ \A l \in 1..n : codes'[past'.redeemed[l].row].target = t => l <= k
      BY <2>10 DEF ChatInv, TargetOf
    <3>1. \A k \in DOMAIN done : /\ past'.redeemed[k] = done[k]
                                 /\ codes'[done[k].row].target = codes[done[k].row].target
      BY <2>2, <2>10, <2>12
    <3>2. n \in 1..n /\ \A l \in 1..n : l <= n
      BY <2>10 DEF n
    <3>3. CASE codes[i].target = t
      <4>1. chatOf'[t] = sent[m].chat
        BY <1>3, <2>4, <3>3 DEF PairInv, PairTypes
      <4>2. codes'[past'.redeemed[n].row].target = t
        BY <2>2, <2>10, <2>11, <3>3
      <4> QED BY <2>10, <2>11, <3>2, <4>1, <4>2
    <3>4. CASE codes[i].target # t
      <4>1. t \notin past.savedOver /\ chatOf'[t] = chatOf[t]
        BY <1>3, <2>4, <3>4 DEF PairInv, PairTypes
      <4>2. codes'[past'.redeemed[n].row].target # t
        BY <2>2, <2>10, <2>11, <3>4
      <4>3. \/ chatOf[t] = None /\ \A k \in DOMAIN done : codes[done[k].row].target # t
            \/ \E k \in DOMAIN done :
                 /\ codes[done[k].row].target = t /\ chatOf[t] = sent[done[k].by].chat
                 /\ \A l \in DOMAIN done : codes[done[l].row].target = t => l <= k
        BY <4>1 DEF PairInv, ChatInv, TargetOf, done
      <4>4. DOMAIN done \subseteq 1..n
        BY <2>10 DEF n
      <4> QED BY <2>15, <3>1, <4>1, <4>2, <4>3, <4>4
    <3> QED BY <3>3, <3>4
  <2> QED BY <2>3, <2>5, <2>7, <2>8, <2>16, <2>17
<1> QED BY <1>2, <1>3, RedeemFacts

LEMMA HandleKeeps ==
  ASSUME BaseInv, PairInv, HandleMessage \/ HandlingFails
  PROVE  PairInv'
<1>1. /\ poller.next \in Nat \ {0} /\ poller.upto \in Nat /\ poller.next <= poller.upto
      /\ confirmed \in Nat /\ confirmed < poller.next
      /\ poller.upto <= Len(sent) /\ Len(sent) \in Nat /\ DOMAIN sent = 1..Len(sent)
  BY CodesSeq DEF HandleMessage, HandlingFails, PairInv, PairTypes
<1>2. poller.next \in DOMAIN sent
  BY <1>1
<1>3. UNCHANGED <<clock, asking, page, sent, confirmed>>
  BY DEF HandleMessage, HandlingFails
<1>4. /\ codes' \in Seq(Rows) /\ chatOf' \in [Targets -> Chats \cup {None}]
      /\ CodesInv' /\ AskingInv' /\ RedeemedInv' /\ ChatInv'
  <2>1. CASE Redeem(poller.next)
    BY <1>2, <1>3, <2>1, RedeemKeeps
  <2>2. CASE UNCHANGED <<codes, chatOf, past>>
    <3>1. RedeemedInv' /\ ChatInv'
      BY <1>3, <2>2, GrowsSame, GrowsKeeps DEF PairInv, PairingPast
    <3>2. codes' \in Seq(Rows) /\ chatOf' \in [Targets -> Chats \cup {None}]
      BY <2>2 DEF PairInv, PairTypes
    <3>3. CodesInv' /\ AskingInv'
      BY <1>3, <2>2 DEF PairInv, CodesInv, AskingInv, Pending
    <3> QED BY <3>1, <3>2, <3>3
  <2> QED BY <2>1, <2>2 DEF HandleMessage, HandlingFails
<1>5. PairTypes'
  <2>1. CASE HandleMessage
    <3>1. poller' = [poller EXCEPT !.offset = poller.next + 1, !.next = poller.next + 1]
      BY <2>1 DEF HandleMessage
    <3> DEFINE next == poller.next + 1
    <3>0. next \in Nat \ {0} /\ poller \in [offset : Nat, next : Nat \ {0}, upto : Nat]
          /\ poller' = [poller EXCEPT !.offset = next, !.next = next]
      BY <1>1, <3>1 DEF PairInv, PairTypes
    <3>2. poller' \in [offset : Nat, next : Nat \ {0}, upto : Nat]
          /\ poller'.next = poller.next + 1 /\ poller'.upto = poller.upto
      <4>1. poller.next + 1 = next
        OBVIOUS
      <4> HIDE DEF next
      <4> QED BY <3>0, <4>1
    <3>3. poller'.next <= poller'.upto => poller'.upto <= Len(sent') /\ confirmed' < poller'.next
      BY <1>1, <1>3, <3>2
    <3> QED BY <1>3, <1>4, <3>2, <3>3 DEF PairInv, PairTypes
  <2>2. CASE HandlingFails
    <3>1. poller' = [offset |-> poller.next + 1, next |-> poller.next + 1, upto |-> 0]
      BY <2>2 DEF HandlingFails
    <3>2. poller' \in [offset : Nat, next : Nat \ {0}, upto : Nat] /\ ~(poller'.next <= poller'.upto)
      BY <1>1, <3>1
    <3> QED BY <1>3, <1>4, <3>2 DEF PairInv, PairTypes
  <2> QED BY <2>1, <2>2
<1> QED BY <1>4, <1>5 DEF PairInv

\* The rest: messages come in, a batch is fetched, a page is loaded, a process
\* starts again.
LEMMA CodesKept ==
  ASSUME BaseInv, PairInv, UNCHANGED <<clock, codes>>, asking' = asking \/ asking' = [r \in Requests |-> None]
  PROVE  CodesInv' /\ AskingInv'
<1>1. CodesInv'
  BY DEF PairInv, CodesInv, Pending
<1>2. ASSUME asking' = asking PROVE AskingInv'
  <2>1. \A i \in DOMAIN codes : Pending(i)' <=> Pending(i)
    BY DEF Pending
  <2> SUFFICES ASSUME NEW r \in Requests, asking[r] # None
               PROVE  LET a == asking[r] IN
                 /\ a.at <= clock /\ a.knew <= Len(codes) /\ a.expire \subseteq DOMAIN codes
                 /\ \A i \in DOMAIN codes : codes[i].code # a.code
                 /\ \A q \in Requests : q # r /\ asking[q] # None => asking[q].code # a.code
                 /\ \A i \in a.expire : codes[i].at <= a.at /\ a.at <= codes[i].at + Ttl
                 /\ \A i \in DOMAIN codes :
                      i <= a.knew /\ codes[i].target = a.target => i \in a.expire \/ ~Pending(i)'
    BY <1>2 DEF AskingInv
  <2> QED BY <2>1 DEF PairInv, AskingInv
<1>3. ASSUME asking' = [r \in Requests |-> None] PROVE AskingInv'
  <2>1. \A r \in Requests : asking'[r] = None
    BY <1>3
  <2> QED BY <2>1 DEF AskingInv
<1> QED BY <1>1, <1>2, <1>3

LEMMA OtherPairing ==
  ASSUME BaseInv, PairInv,
         \/ \E chat \in Chats, i \in 1..Cardinality(Codes) : SendCode(chat, i)
         \/ GetUpdates \/ \E i \in DOMAIN Order : LoadPage(Order[i])
         \/ Restart
  PROVE  PairInv'
<1>1. UNCHANGED <<clock, codes, chatOf>> /\ UNCHANGED PairingPast
  <2>1. CASE Restart
    BY <2>1, RestartFrame
  <2>2. CASE ~Restart
    BY <2>2 DEF SendCode, GetUpdates, LoadPage, PairingPast
  <2> QED BY <2>1, <2>2
<1>2. /\ Len(sent) \in Nat /\ DOMAIN sent = 1..Len(sent) /\ sent \in Seq([chat : Chats, code : Codes])
      /\ Len(codes) \in Nat /\ \A i \in DOMAIN codes : codes[i] \in Rows
  BY CodesSeq DEF PairInv, PairTypes
<1>3. CASE \E chat \in Chats, i \in 1..Cardinality(Codes) : SendCode(chat, i)
  <2>1. PICK chat \in Chats, i \in DOMAIN codes : /\ sent' = Append(sent, [chat |-> chat, code |-> codes[i].code])
                                               /\ UNCHANGED <<asking, page, confirmed, poller>>
    BY <1>3 DEF SendCode
  <2>2. [chat |-> chat, code |-> codes[i].code] \in [chat : Chats, code : Codes]
    BY <1>2 DEF Rows
  <2>3. /\ sent' \in Seq([chat : Chats, code : Codes]) /\ Len(sent') = Len(sent) + 1
        /\ \A m \in DOMAIN sent : sent'[m] = sent[m]
    BY <1>2, <2>1, <2>2
  <2>4. Grows
    <3>1. Len(codes') >= Len(codes) /\ Len(sent') >= Len(sent)
      BY <1>1, <1>2, <2>3
    <3> QED BY <1>1, <2>3, <3>1 DEF Grows, PairInv, PairTypes
  <2>5. RedeemedInv' /\ ChatInv'
    BY <1>1, <2>4, GrowsKeeps DEF PairInv
  <2>6. PairTypes'
    BY <1>1, <1>2, <2>1, <2>3 DEF PairInv, PairTypes
  <2> QED BY <1>1, <2>1, <2>5, <2>6, CodesKept DEF PairInv
<1>4. CASE GetUpdates
  <2> DEFINE from == IF poller.offset = 0 THEN confirmed + 1 ELSE poller.offset
  <2>1. /\ from <= Len(sent) /\ confirmed' = from - 1
        /\ poller' = [poller EXCEPT !.next = from, !.upto = Len(sent)]
        /\ UNCHANGED <<asking, page, sent>>
    BY <1>4 DEF GetUpdates
  <2>2. from \in Nat \ {0}
    BY DEF PairInv, PairTypes
  <2> HIDE DEF from
  <2>3. /\ poller' \in [offset : Nat, next : Nat \ {0}, upto : Nat]
        /\ poller'.next = from /\ poller'.upto = Len(sent)
    BY <1>2, <2>1, <2>2 DEF PairInv, PairTypes
  <2>4. confirmed' \in Nat /\ confirmed' < poller'.next /\ poller'.upto <= Len(sent')
    BY <1>2, <2>1, <2>2, <2>3
  <2>5. PairTypes'
    BY <1>1, <2>1, <2>3, <2>4 DEF PairInv, PairTypes
  <2>6. RedeemedInv' /\ ChatInv'
    BY <1>1, <2>1, GrowsSame, GrowsKeeps DEF PairInv
  <2> QED BY <1>1, <2>1, <2>5, <2>6, CodesKept DEF PairInv
<1>5. CASE \E i \in DOMAIN Order : LoadPage(Order[i])
  <2>1. PICK i \in DOMAIN Order : LoadPage(Order[i])
    BY <1>5
  <2>2. Order[i] \in Branches /\ Order[i] \in Targets
    BY NoticesAssumption
  <2>3. /\ page' = [branch |-> Order[i], chat |-> chatOf[Order[i]]]
        /\ UNCHANGED <<asking, sent, confirmed, poller>>
    BY <2>1 DEF LoadPage
  <2>4. PairTypes'
    BY <1>1, <2>2, <2>3 DEF PairInv, PairTypes
  <2>5. RedeemedInv' /\ ChatInv'
    BY <1>1, <2>3, GrowsSame, GrowsKeeps DEF PairInv
  <2> QED BY <1>1, <2>3, <2>4, <2>5, CodesKept DEF PairInv
<1>6. CASE Restart
  <2>1. /\ poller' = [offset |-> 0, next |-> 1, upto |-> 0] /\ asking' = [r \in Requests |-> None]
        /\ UNCHANGED <<page, sent, confirmed>>
    BY <1>6 DEF Restart
  <2>2. PairTypes'
    BY <1>1, <2>1 DEF PairInv, PairTypes
  <2>3. RedeemedInv' /\ ChatInv'
    BY <1>1, <2>1, GrowsSame, GrowsKeeps DEF PairInv
  <2> QED BY <1>1, <2>1, <2>2, <2>3, CodesKept DEF PairInv
<1> QED BY <1>3, <1>4, <1>5, <1>6

LEMMA SaveKeeps ==
  ASSUME BaseInv, PairInv, SavePage
  PROVE  PairInv'
<1>1. /\ page # None /\ chatOf' = [chatOf EXCEPT ![page.branch] = page.chat] /\ page' = None
      /\ UNCHANGED <<clock, codes, asking, sent, confirmed, poller>>
      /\ past' = IF page.chat = chatOf[page.branch] THEN past
                 ELSE [past EXCEPT !.savedOver = @ \cup {page.branch}]
  BY DEF SavePage
<1>2. page.branch \in Targets /\ page.chat \in Chats \cup {None}
  BY <1>1, NoticesAssumption DEF PairInv, PairTypes
<1>3. PairTypes'
  BY <1>1, <1>2 DEF PairInv, PairTypes
<1>4. CodesInv' /\ AskingInv'
  BY <1>1, CodesKept
<1>5. /\ past'.redeemed = past.redeemed
      /\ \A t \in Targets : t \notin past'.savedOver => t \notin past.savedOver /\ chatOf'[t] = chatOf[t]
  <2>1. CASE page.chat = chatOf[page.branch]
    BY <1>1, <1>2, <2>1 DEF PairInv, PairTypes
  <2>2. CASE page.chat # chatOf[page.branch]
    <3>1. past'.redeemed = past.redeemed /\ past'.savedOver = past.savedOver \cup {page.branch}
      BY <1>1, <2>2 DEF BaseInv, PastShape
    <3> QED BY <1>1, <1>2, <3>1 DEF PairInv, PairTypes
  <2> QED BY <2>1, <2>2
<1>6. RedeemedInv'
  BY <1>1, <1>5 DEF PairInv, RedeemedInv
<1>7. ChatInv'
  BY <1>1, <1>5 DEF PairInv, ChatInv, TargetOf
<1> QED BY <1>3, <1>4, <1>6, <1>7 DEF PairInv

LEMMA PairStep ==
  ASSUME BaseInv, ReportInv, PairInv, [Next]_vars
  PROVE  PairInv'
<1>1. clock' \in Nat /\ clock' >= clock
  BY BaseStep DEF BaseInv
<1>2. CASE PairingStep
  BY <1>2, AskKeeps, IssueKeeps, HandleKeeps, OtherPairing, SaveKeeps DEF PairingStep
<1>3. CASE Restart
  BY <1>3, OtherPairing
<1>4. CASE UNCHANGED <<pairing, PairingPast>>
  BY <1>1, <1>4, PairSame
<1>5. CASE Next /\ ~PairingStep /\ ~Restart
  <2>1. CASE Tick \/ Traffic \/ ExportStep \/ Deliver
    <3>1. UNCHANGED <<pairing, past>>
      BY <2>1, TickFrame, TrafficFrame, ExportFrame, DeliverFrame
    <3> QED BY <1>4, <3>1 DEF PairingPast
  <2>2. CASE CheckWatched \/ MailStep \/ RunFails
    BY <1>4, <2>2, CheckWatchedFrame, MailFrame, RunFailsFrame
  <2>3. CASE FlagStep
    <3>1. PICK kind, found, cooldown : Flag(kind, found, cooldown)
      BY <2>3 DEF FlagStep, CheckQuotas, CheckMinutes, CheckUncategorized, CheckExports
    <3> QED BY <1>4, <3>1, FlagFrame
  <2> QED BY <1>5, <2>1, <2>2, <2>3, NextCases
<1>6. CASE UNCHANGED vars
  BY <1>4, <1>6 DEF vars, PairingPast
<1> QED BY <1>2, <1>3, <1>5, <1>6

-----------------------------------------------------------------------------
(* The tables, and what is found in them.                                   *)

\* A flush adds the rows of its events.
LEMMA CountIntoFacts ==
  ASSUME DOMAIN tables = DOMAIN Empty, NEW events, NEW t \in {"client", "domain"}
  PROVE  /\ DOMAIN CountInto(tables, events) = DOMAIN Empty
         /\ DOMAIN CountInto(tables, events)[t] =
              DOMAIN tables[t] \cup {Key(t, e) : e \in {x \in events : CountedIn(t, x)}}
<1>1. t \in DOMAIN tables /\ t # "hourly"
  BY ColumnsOf DEF Empty, Tabled
<1>2. CountInto(tables, events)[t] = Upsert(tables[t], Buckets(t, events))
  BY <1>1 DEF CountInto
<1>3. DOMAIN Buckets(t, events) = {Key(t, e) : e \in {x \in events : CountedIn(t, x)}}
  BY DEF Buckets
<1>4. DOMAIN CountInto(tables, events)[t] = DOMAIN tables[t] \cup DOMAIN Buckets(t, events)
  BY <1>2 DEF Upsert
<1> QED BY <1>3, <1>4 DEF CountInto

\* The columns of such a row.
LEMMA WatchedKeys ==
  ASSUME NEW e
  PROVE  /\ Key("client", e).client = e.client /\ Key("client", e).user = e.user
         /\ Key("domain", e).domain = e.domain
         /\ \A t \in {"client", "domain"} : /\ Key(t, e).at = FloorMinute(e.at)
                                           /\ Key(t, e).branch = e.branch
<1>1. {"client", "domain"} \cap BlockedTables = {}
  BY DEF BlockedTables, BlockedColumns
<1> QED BY <1>1, ColumnsOf DEF Key, Column

LEMMA AnomalyFacts ==
  ASSUME NEW kind, NEW b, NEW c, NEW d, NEW at
  PROVE  LET a == Anomaly(kind, b, c, d, at) IN
         /\ Shape(a) /\ a.kind = kind /\ a.branch = b /\ a.client = c /\ a.domain = d
         /\ a.note = None /\ a.at = at
BY DEF Anomaly, Shape

Provided == {"spike", "newBlocked", "ratio", "sensitive"}

\* Where the anomalies of a call come from.
LEMMA DetectFacts ==
  ASSUME NEW events, NEW a \in DetectAnomalies(events)
  PROVE  \E b \in {e.branch : e \in events} :
           LET es == {e \in events : e.branch = b} IN
           /\ Shape(a) /\ a.branch = b /\ a.at = GeneratedAt(es)
           /\ a.kind \notin NamedKinds \ Provided
           /\ a.kind = "newBlocked" => a \in NewBlockedDomains(es, b)
           /\ IF a.kind = "sensitive" THEN a \in SensitiveVisits(es, b)
              ELSE ~Flagged(a, a.at - Cooldown)
<1> PICK b \in {e.branch : e \in events} :
      LET es    == {e \in events : e.branch = b}
          found == TrafficSpike(es, b) \cup NewBlockedDomains(es, b)
                   \cup ClientsBlocked(es, b) \cup CustomRules(es, b)
      IN a \in {x \in found : ~Flagged(x, x.at - Cooldown)} \cup SensitiveVisits(es, b)
  BY DEF DetectAnomalies
<1> DEFINE es == {e \in events : e.branch = b}
           Raised == /\ Shape(a) /\ a.branch = b /\ a.at = GeneratedAt(es)
                     /\ a.kind \notin NamedKinds \ Provided
                     /\ a.kind = "newBlocked" => a \in NewBlockedDomains(es, b)
                     /\ IF a.kind = "sensitive" THEN a \in SensitiveVisits(es, b)
                        ELSE ~Flagged(a, a.at - Cooldown)
<1>0. Raised => \E p \in {e.branch : e \in events} :
           LET rs == {e \in events : e.branch = p} IN
           /\ Shape(a) /\ a.branch = p /\ a.at = GeneratedAt(rs)
           /\ a.kind \notin NamedKinds \ Provided
           /\ a.kind = "newBlocked" => a \in NewBlockedDomains(rs, p)
           /\ IF a.kind = "sensitive" THEN a \in SensitiveVisits(rs, p)
              ELSE ~Flagged(a, a.at - Cooldown)
  BY Zenon
<1> DEFINE Other == ~Flagged(a, a.at - Cooldown)
<1>5. \/ a \in SensitiveVisits(es, b)
      \/ Other /\ \/ a \in TrafficSpike(es, b) \/ a \in NewBlockedDomains(es, b)
                  \/ a \in ClientsBlocked(es, b) \/ a \in CustomRules(es, b)
  BY Zenon
<1> HIDE DEF es, Other
<1>1. ASSUME a \in SensitiveVisits(es, b) PROVE Raised
  <2>1. PICK c, d : a = Anomaly("sensitive", b, c, d, GeneratedAt(es))
    BY <1>1 DEF SensitiveVisits
  <2>2. Shape(a) /\ a.kind = "sensitive" /\ a.branch = b /\ a.at = GeneratedAt(es)
    BY <2>1, AnomalyFacts
  <2> QED BY <1>1, <2>2 DEF NamedKinds, Provided
<1>2. ASSUME a \in NewBlockedDomains(es, b), Other PROVE Raised
  <2>1. PICK d : a = Anomaly("newBlocked", b, None, d, GeneratedAt(es))
    BY <1>2 DEF NewBlockedDomains
  <2>2. Shape(a) /\ a.kind = "newBlocked" /\ a.branch = b /\ a.at = GeneratedAt(es)
    BY <2>1, AnomalyFacts
  <2> QED BY <1>2, <2>2 DEF NamedKinds, Provided, Other
<1>3. ASSUME a \in TrafficSpike(es, b) \/ a \in ClientsBlocked(es, b), Other PROVE Raised
  <2>1. PICK kind, c : kind \in {"spike", "ratio"} /\ a = Anomaly(kind, b, c, None, GeneratedAt(es))
    <3>1. CASE a \in TrafficSpike(es, b)
      <4>1. TrafficSpike(es, b) \subseteq {Anomaly("spike", b, None, None, GeneratedAt(es))}
        BY Zenon DEF TrafficSpike
      <4> QED BY <3>1, <4>1
    <3>2. CASE a \in ClientsBlocked(es, b)
      <4>1. \A x \in ClientsBlocked(es, b) : \E c : x = Anomaly("ratio", b, c, None, GeneratedAt(es))
        BY Zenon DEF ClientsBlocked
      <4> QED BY <3>2, <4>1
    <3> QED BY <1>3, <3>1, <3>2
  <2>2. Shape(a) /\ a.kind = kind /\ a.branch = b /\ a.at = GeneratedAt(es)
    BY <2>1, AnomalyFacts
  <2> QED BY <1>3, <2>1, <2>2 DEF NamedKinds, Provided, Other
<1>4. ASSUME a \in CustomRules(es, b), Other PROVE Raised
  <2>1. PICK r, c, d : r \in Rules /\ a = Anomaly(r.kind, b, c, d, GeneratedAt(es))
    BY <1>4 DEF CustomRules
  <2>2. r.kind \notin NamedKinds
    BY <2>1, InsightsAssumption
  <2>3. Shape(a) /\ a.kind = r.kind /\ a.branch = b /\ a.at = GeneratedAt(es)
    BY <2>1, AnomalyFacts
  <2> QED BY <1>4, <2>2, <2>3 DEF NamedKinds, Provided, Other
<1> HIDE DEF Raised
<1> QED BY <1>0, <1>1, <1>2, <1>3, <1>4, <1>5

\* The monitors name what they find after themselves, and date it now.
LEMMA MonitorFacts ==
  /\ \A a \in OverQuota : Shape(a) /\ a.kind = "quota" /\ a.at = clock
  /\ \A a \in OverMinutes : Shape(a) /\ a.kind = "minutes" /\ a.at = clock
  /\ \A tops : \A a \in OverRequests(tops) : Shape(a) /\ a.kind = "uncategorized" /\ a.at = clock
  /\ \A a \in Undownloaded : Shape(a) /\ a.kind = "exports" /\ a.at = clock
<1>1. \A a \in OverQuota : \E b, c : a = Anomaly("quota", b, c, None, clock)
  BY DEF OverQuota
<1>2. \A a \in OverMinutes : \E b, c : a = Anomaly("minutes", b, c, None, clock)
  BY DEF OverMinutes
<1>3. \A tops : \A a \in OverRequests(tops) : \E b, d : a = Anomaly("uncategorized", b, None, d, clock)
  BY DEF OverRequests
<1>4. \A a \in Undownloaded : Shape(a) /\ a.kind = "exports" /\ a.at = clock
  BY DEF Undownloaded, Shape
<1> QED BY <1>1, <1>2, <1>3, <1>4, AnomalyFacts

LEMMA FlagCases ==
  ASSUME FlagStep
  PROVE  \E kind, found :
           /\ kind \in {"quota", "minutes", "uncategorized", "exports"}
           /\ Flag(kind, found, IF kind = "uncategorized" THEN ReFlag ELSE Day)
           /\ \A a \in found : Shape(a) /\ a.kind = kind /\ a.at = clock
<1> DEFINE Of(kind, found) ==
             /\ Flag(kind, found, IF kind = "uncategorized" THEN ReFlag ELSE Day)
             /\ \A a \in found : Shape(a) /\ a.kind = kind /\ a.at = clock
<1>1. \/ Of("quota", OverQuota) \/ Of("minutes", OverMinutes)
      \/ (\E tops : Of("uncategorized", OverRequests(tops))) \/ Of("exports", Undownloaded)
  BY MonitorFacts DEF FlagStep, CheckQuotas, CheckMinutes, CheckUncategorized, CheckExports
<1> HIDE DEF Of
<1>2. \E kind, found : kind \in {"quota", "minutes", "uncategorized", "exports"} /\ Of(kind, found)
  BY <1>1
<1> QED BY <1>2, Zenon DEF Of

LEMMA WatchHitFacts ==
  ASSUME NEW w, NEW at
  PROVE  LET a == WatchHit(w, at) IN Shape(a) /\ a.kind = "watchlist" /\ a.at = at /\ Filed(w, a)
BY DEF WatchHit, Shape, Filed

\* Rows that look alike are filed by the same entries.
LEMMA FiledAlike ==
  ASSUME NEW w, NEW a, NEW b, Shape(a), Filed(w, b), a.kind = b.kind, a.branch = b.branch,
         a.client = b.client, a.domain = b.domain, a.note = b.note
  PROVE  Filed(w, a)
BY DEF WatchHit, Shape, Filed

LEMMA DataInit == Init => DataInv
<1> SUFFICES ASSUME Init PROVE DataInv
  OBVIOUS
<1>1. /\ clock = 0 /\ logged = {} /\ raw = << >> /\ tables = Empty /\ window = {}
      /\ anomalies = {} /\ lastAlerted = [w \in Watched |-> Never]
  BY DEF Init
<1>2. DOMAIN raw = {}
  BY <1>1
<1>3. ASSUME NEW t \in {"domain", "client"} PROVE DOMAIN tables[t] = {}
  <2>1. t \in DOMAIN Columns
    BY ColumnsOf DEF Tabled
  <2> QED BY <1>1, <2>1 DEF Empty, NoRows
<1>4. lastAlerted \in [Watched -> Nat \cup {Never}]
  BY <1>1
<1> QED BY <1>1, <1>2, <1>3, <1>4 DEF DataInv

LEMMA DataSame ==
  ASSUME DataInv, clock \in Nat, clock' \in Nat, clock' >= clock,
         UNCHANGED <<logged, raw, tables, window, anomalies, lastAlerted>>
  PROVE  DataInv'
<1>1. \A n \in 0..clock : n \in 0..clock'
  OBVIOUS
<1> QED BY <1>1 DEF DataInv

LEMMA LogKeepsData ==
  ASSUME BaseInv, DataInv, Traffic, Log
  PROVE  DataInv'
<1>1. UNCHANGED <<clock, lastAlerted, raw, tables, window, anomalies>>
  BY TrafficFrame DEF Log
<1>2. PICK r \in Brought, at \in 0..clock : logged' = logged \cup {[r EXCEPT !.at = at]}
  BY LogFacts
<1>3. [r EXCEPT !.at = at].at = at /\ [r EXCEPT !.at = at].branch \in Branches
  BY NoticesAssumption
<1>4. \A e \in logged' : e.at \in 0..clock /\ e.branch \in Branches
  BY <1>2, <1>3 DEF DataInv
<1>5. DOMAIN raw \subseteq logged'
  BY <1>2 DEF DataInv
<1> QED BY <1>1, <1>4, <1>5 DEF DataInv

\* What a flush stores.
LEMMA FlushFacts ==
  ASSUME BaseInv, DataInv, Flush
  PROVE  /\ DOMAIN raw' = logged /\ DOMAIN raw \subseteq DOMAIN raw' /\ UNCHANGED logged
         /\ \A e \in DOMAIN raw : raw'[e] = raw[e]
         /\ \A e \in DOMAIN raw' : e \notin DOMAIN raw => raw'[e] = clock
<1>1. raw' = [e \in logged |-> IF e \in Unstored THEN clock ELSE raw[e]] /\ UNCHANGED logged
  BY DEF Flush
<1> QED BY <1>1 DEF Unstored, DataInv

LEMMA FlushKeepsData ==
  ASSUME BaseInv, DataInv, Traffic, Flush
  PROVE  DataInv'
<1>1. /\ UNCHANGED <<clock, logged, lastAlerted, anomalies>>
      /\ tables' = CountInto(tables, Unstored)
      /\ window' = IF left.provider THEN Unstored ELSE {}
  BY TrafficFrame DEF Flush
<1>2. /\ DOMAIN raw' = logged /\ \A e \in DOMAIN raw' : raw'[e] \in 0..clock
  BY FlushFacts DEF DataInv, BaseInv
<1>3. window' \subseteq DOMAIN raw'
  BY <1>1, <1>2 DEF Unstored
<1>4. DOMAIN tables' = DOMAIN Empty
  BY <1>1, CountIntoFacts DEF DataInv
<1>5. ASSUME NEW t \in {"domain", "client"}
      PROVE  DOMAIN tables'[t] = {Key(t, e) : e \in {x \in DOMAIN raw' : CountedIn(t, x)}}
  <2>1. DOMAIN tables'[t] = DOMAIN tables[t] \cup {Key(t, e) : e \in {x \in Unstored : CountedIn(t, x)}}
    BY <1>1, CountIntoFacts DEF DataInv
  <2>2. DOMAIN tables[t] = {Key(t, e) : e \in {x \in DOMAIN raw : CountedIn(t, x)}}
    BY DEF DataInv
  <2>3. DOMAIN raw' = DOMAIN raw \cup Unstored
    BY <1>2 DEF Unstored, DataInv
  <2> HIDE DEF Unstored
  <2> QED BY <2>1, <2>2, <2>3
<1> QED BY <1>1, <1>2, <1>3, <1>4, <1>5 DEF DataInv

\* When an insights call dates what it finds.
LEMMA GeneratedAtFacts ==
  ASSUME clock \in Nat, NEW events, \A e \in events : e.at \in 0..clock,
         NEW b \in {e.branch : e \in events}
  PROVE  GeneratedAt({e \in events : e.branch = b}) \in 0..clock
<1> DEFINE ats == {e.at : e \in {x \in events : x.branch = b}}
<1>1. ats \in SUBSET (0..clock) /\ ats # {}
  OBVIOUS
<1> HIDE DEF ats
<1>2. Max(ats) \in ats
  BY <1>1, MaxWithin
<1> QED BY <1>1, <1>2 DEF GeneratedAt, ats

LEMMA DetectKeepsData ==
  ASSUME BaseInv, DataInv, Traffic, Detect
  PROVE  DataInv'
<1>1. /\ UNCHANGED <<clock, lastAlerted, traffic>> /\ window # {} /\ window' = {}
      /\ anomalies' = anomalies \cup DetectAnomalies(window)
  BY TrafficFrame DEF Detect
<1>2. \A e \in window : e.at \in 0..clock
  BY <1>1 DEF DataInv
<1>3. ASSUME NEW a \in DetectAnomalies(window) PROVE Shape(a) /\ a.at \in 0..clock
  <2>1. PICK b \in {e.branch : e \in window} :
          Shape(a) /\ a.at = GeneratedAt({e \in window : e.branch = b})
    BY DetectFacts, Zenon
  <2> QED BY <1>2, <2>1, GeneratedAtFacts DEF BaseInv
<1>4. \A a \in anomalies' : Shape(a) /\ a.at \in 0..clock
  BY <1>1, <1>3 DEF DataInv
<1> QED BY <1>1, <1>4 DEF DataInv, traffic

LEMMA WatchKeepsData ==
  ASSUME BaseInv, DataInv, CheckWatched
  PROVE  DataInv'
<1>1. /\ UNCHANGED <<clock, logged, raw, tables, window>>
      /\ lastAlerted' = [w \in Watched |-> IF w \in ToAlert THEN clock ELSE lastAlerted[w]]
      /\ anomalies' = anomalies \cup {WatchHit(w, clock) : w \in ToAlert}
  BY DEF CheckWatched, flushing, traffic
<1>2. \A a \in anomalies' : Shape(a) /\ a.at \in 0..clock
  BY <1>1, WatchHitFacts DEF DataInv, BaseInv
<1>3. lastAlerted' \in [Watched -> Nat \cup {Never}]
  BY <1>1 DEF DataInv, BaseInv
<1> QED BY <1>1, <1>2, <1>3 DEF DataInv

LEMMA FlagKeepsData ==
  ASSUME BaseInv, DataInv, FlagStep
  PROVE  DataInv'
<1>1. PICK kind, found :
        /\ Flag(kind, found, IF kind = "uncategorized" THEN ReFlag ELSE Day)
        /\ \A a \in found : Shape(a) /\ a.at = clock
  BY FlagCases
<1>2. UNCHANGED <<clock, logged, raw, tables, window, lastAlerted>>
  BY <1>1, FlagFrame DEF flushing, traffic
<1>3. anomalies' \subseteq anomalies \cup found
  BY <1>1 DEF Flag
<1>4. \A a \in anomalies' : Shape(a) /\ a.at \in 0..clock
  BY <1>1, <1>3 DEF DataInv, BaseInv
<1> QED BY <1>2, <1>4 DEF DataInv

\* The steps that leave the rows of the tables and the monitors alone.
QuietStep == \/ UNCHANGED vars
             \/ Tick \/ PairingStep \/ ExportStep \/ Deliver \/ MailStep \/ RunFails

LEMMA QuietFrame ==
  ASSUME BaseInv, QuietStep
  PROVE  /\ UNCHANGED <<logged, raw, tables, window, analyzed, anomalies, lastAlerted, WatchPast>>
         /\ clock' \in Nat /\ clock' >= clock
<1> USE DEF watching, flushing, traffic, WatchPast, BaseInv
<1>1. CASE UNCHANGED vars
  BY <1>1 DEF vars
<1>2. CASE Tick
  BY <1>2, TickFrame
<1>3. CASE PairingStep
  BY <1>3, PairingFrame
<1>4. CASE ExportStep
  BY <1>4, ExportFrame
<1>5. CASE Deliver
  BY <1>5, DeliverFrame
<1>6. CASE MailStep
  BY <1>6, MailFrame
<1>7. CASE RunFails
  BY <1>7, RunFailsFrame
<1> QED BY <1>1, <1>2, <1>3, <1>4, <1>5, <1>6, <1>7 DEF QuietStep

LEMMA DataStep ==
  ASSUME BaseInv, DataInv, [Next]_vars
  PROVE  DataInv'
<1>1. CASE QuietStep
  BY <1>1, QuietFrame, DataSame DEF BaseInv
<1>2. CASE Traffic
  <2>1. CASE DetectFails
    <3>1. UNCHANGED <<clock, lastAlerted, traffic, anomalies>> /\ window' = {}
      BY <1>2, <2>1, TrafficFrame DEF DetectFails
    <3> QED BY <3>1 DEF DataInv, traffic
  <2> QED BY <1>2, <2>1, LogKeepsData, FlushKeepsData, DetectKeepsData DEF Traffic
<1>3. CASE Restart
  <2>1. UNCHANGED <<clock, traffic, anomalies, lastAlerted>> /\ window' = {}
    BY <1>3 DEF Restart, DropWindow
  <2> QED BY <2>1 DEF DataInv, traffic
<1> QED BY <1>1, <1>2, <1>3, WatchKeepsData, FlagKeepsData, NextCases DEF QuietStep

-----------------------------------------------------------------------------
(* Watched targets.                                                         *)

LEMMA WatchInit == Init => WatchInv
<1> SUFFICES ASSUME Init PROVE WatchInv
  OBVIOUS
<1>1. /\ clock = 0 /\ raw = << >> /\ anomalies = {} /\ lastAlerted = [w \in Watched |-> Never]
      /\ past.seen = {} /\ past.missed = {} /\ past.checked = Never
  BY DEF Init
<1>2. DOMAIN raw = {}
  BY <1>1
<1> QED BY <1>1, <1>2 DEF WatchInv, WatchedIsSeen, Hits, Never

\* What other steps do with what the monitor of watched targets goes by.
Stores ==
  /\ DOMAIN raw \subseteq DOMAIN raw'
  /\ \A e \in DOMAIN raw : raw'[e] = raw[e]
  /\ \A e \in DOMAIN raw' : e \notin DOMAIN raw => raw'[e] = clock
  /\ anomalies \subseteq anomalies'

LEMMA WatchSame ==
  ASSUME WatchInv, clock \in Nat, clock' \in Nat, clock' >= clock, Stores, left'.job = left.job,
         UNCHANGED <<lastAlerted, past.seen, past.missed>>,
         left.job = "watch" => UNCHANGED past.checked
  PROVE  WatchInv'
<1>1. /\ past'.seen = past.seen /\ past'.missed = past.missed
      /\ left.job = "watch" => past'.checked = past.checked
  OBVIOUS
<1>2. left'.job # "watch" => past'.seen = {} /\ past'.missed = {}
  BY <1>1 DEF WatchInv
<1>3. ASSUME left.job = "watch"
      PROVE  /\ past'.checked \in Nat \cup {Never} /\ past'.checked <= clock'
             /\ \A w \in Watched : \A e \in Hits(w)' :
                  \/ raw'[e] >= past'.checked
                  \/ [watch |-> w, event |-> e] \in {Noted(s) : s \in past'.seen \cup past'.missed}
  <2>1. past.checked \in Nat \cup {Never} /\ past.checked <= clock
    BY <1>3 DEF WatchInv
  <2>2. ASSUME NEW w \in Watched, NEW e \in Hits(w)'
        PROVE  \/ raw'[e] >= past'.checked
               \/ [watch |-> w, event |-> e] \in {Noted(s) : s \in past'.seen \cup past'.missed}
    <3>1. CASE e \in DOMAIN raw
      <4>1. e \in Hits(w)
        BY <2>2, <3>1 DEF Hits
      <4>2. \/ raw[e] >= past.checked
            \/ [watch |-> w, event |-> e] \in {Noted(s) : s \in past.seen \cup past.missed}
        BY <1>3, <4>1 DEF WatchInv
      <4> QED BY <1>1, <1>3, <3>1, <4>2 DEF Stores
    <3>2. CASE e \notin DOMAIN raw
      <4>1. raw'[e] = clock
        BY <2>2, <3>2 DEF Hits, Stores
      <4> QED BY <1>1, <1>3, <2>1, <4>1
    <3> QED BY <3>1, <3>2
  <2>3. past'.checked \in Nat \cup {Never} /\ past'.checked <= clock'
    BY <1>1, <1>3, <2>1 DEF Never
  <2> QED BY <2>2, <2>3
<1>4. \A m \in past'.missed : m.event \in DOMAIN raw /\ m.event \in DOMAIN raw' /\ raw'[m.event] = raw[m.event]
  BY <1>1 DEF WatchInv, Stores
<1>5. \A w \in Watched : lastAlerted'[w] # Never =>
        \E a \in anomalies' : Filed(w, a) /\ a.at = lastAlerted'[w]
  BY DEF WatchInv, Stores
<1>6. WatchedIsSeen'
  <2>1. \A m \in past'.missed :
          \/ m.before = Never
          \/ (m.at - m.before) + (raw'[m.event] - FloorMinute(m.event.at)) > 2 * Interval + Slack
    BY <1>1, <1>4 DEF WatchInv, WatchedIsSeen
  <2>2. \A s \in past'.seen : \E a \in anomalies' :
          /\ Filed(s.watch, a)
          /\ a.at = s.at \/ (s.at - WatchCooldown < a.at /\ a.at < s.at)
    BY <1>1 DEF WatchInv, WatchedIsSeen, Stores
  <2> QED BY <2>1, <2>2 DEF WatchedIsSeen
<1> QED BY <1>2, <1>3, <1>4, <1>5, <1>6 DEF WatchInv

\* A hit in view shows up in the tables.
LEMMA HitIsActive ==
  ASSUME BaseInv, DataInv, NEW w \in Watched, NEW e \in Hits(w),
         FloorMinute(e.at) >= clock - Lookback
  PROVE  w \in Active
<1> DEFINE t == IF w.type = "domain" THEN "domain" ELSE "client"
           k == Key(t, e)
<1>1. /\ t \in {"domain", "client"} /\ (t = "domain" <=> w.type = "domain")
      /\ w.type \in {"domain", "client", "user"} /\ w.value # None /\ w.branch \in Branches \cup {None}
  BY NoticesAssumption
<1>2. e \in DOMAIN raw /\ e[w.type] = w.value /\ (w.branch = None \/ e.branch = w.branch)
  BY DEF Hits
<1>3. e.at \in 0..clock /\ e.branch \in Branches
  BY <1>2 DEF DataInv
<1>4. CountedIn(t, e)
  BY <1>1, <1>2, ColumnsOf DEF CountedIn, BlockedTables, BlockedColumns
<1>5. k \in DOMAIN tables[t]
  <2> HIDE DEF t
  <2> QED BY <1>1, <1>2, <1>4 DEF DataInv
<1>6. k.at = FloorMinute(e.at) /\ k.branch = e.branch /\ k[w.type] = w.value
  <2>1. CASE t = "domain"
    BY <1>1, <1>2, <2>1, WatchedKeys
  <2>2. CASE t = "client"
    BY <1>1, <1>2, <2>2, WatchedKeys
  <2> QED BY <1>1, <2>1, <2>2
<1>7. k.at <= clock
  BY <1>3, <1>6, FloorFacts DEF BaseInv
<1>8. BranchMatches(k.branch, IF w.branch = None THEN Branches ELSE {w.branch})
  BY <1>2, <1>3, <1>6 DEF BranchMatches
<1>9. k \in Activity(w, clock - Lookback)
  <2> HIDE DEF k
  <2> QED BY <1>5, <1>6, <1>7, <1>8 DEF Activity, InRange
<1> QED BY <1>9 DEF Active

LEMMA CheckWatchedKeeps ==
  ASSUME BaseInv, DataInv, WatchInv, CheckWatched
  PROVE  WatchInv'
<1> DEFINE seen   == {[watch |-> h.watch, event |-> h.event, at |-> clock] : h \in {n \in NewHits : InView(n)}}
           missed == {[watch |-> h.watch, event |-> h.event, at |-> clock, before |-> past.checked] :
                        h \in {n \in NewHits : ~InView(n)}}
<1>1. /\ UNCHANGED <<clock, left, raw>> /\ left.job = "watch"
      /\ lastAlerted' = [w \in Watched |-> IF w \in ToAlert THEN clock ELSE lastAlerted[w]]
      /\ anomalies' = anomalies \cup {WatchHit(w, clock) : w \in ToAlert}
      /\ past' = [past EXCEPT !.checked = clock, !.seen = @ \cup seen, !.missed = @ \cup missed]
  BY DEF CheckWatched, Due, flushing, traffic
<1>2. \A h \in NewHits : /\ h = [watch |-> h.watch, event |-> h.event]
                        /\ h.watch \in Watched /\ h.event \in DOMAIN raw /\ h.event \in Hits(h.watch)
                        /\ h \notin {Noted(s) : s \in past.seen \cup past.missed}
  BY DEF NewHits
<1>3. /\ \A s \in seen : s.at = clock /\ Noted(s) \in NewHits /\ InView(Noted(s))
                         /\ Noted(s).watch = s.watch /\ Noted(s).event = s.event
      /\ \A m \in missed : m.at = clock /\ m.before = past.checked /\ Noted(m) \in NewHits
                           /\ ~InView(Noted(m)) /\ Noted(m).watch = m.watch /\ Noted(m).event = m.event
  BY <1>2 DEF Noted
<1>4. \A h \in NewHits : h \in {Noted(s) : s \in seen \cup missed}
  <2>1. ASSUME NEW h \in NewHits, InView(h) PROVE \E s \in seen : Noted(s) = h
    <3> DEFINE s == [watch |-> h.watch, event |-> h.event, at |-> clock]
    <3>1. s \in seen
      BY <2>1
    <3>2. Noted(s) = h
      BY <1>2, <2>1 DEF Noted
    <3> QED BY <3>1, <3>2
  <2>2. ASSUME NEW h \in NewHits, ~InView(h) PROVE \E s \in missed : Noted(s) = h
    <3> DEFINE s == [watch |-> h.watch, event |-> h.event, at |-> clock, before |-> past.checked]
    <3>1. s \in missed
      BY <2>2
    <3>2. Noted(s) = h
      BY <1>2, <2>2 DEF Noted
    <3> QED BY <3>1, <3>2
  <2> HIDE DEF seen, missed
  <2> QED BY <2>1, <2>2
<1> HIDE DEF seen, missed
<1>5. /\ past'.checked = clock /\ past'.seen = past.seen \cup seen
      /\ past'.missed = past.missed \cup missed
  BY <1>1 DEF BaseInv, PastShape
<1>6. \A w \in Watched : lastAlerted[w] \in Nat \cup {Never}
  BY DEF DataInv
<1>7. \A w \in Watched : w \in ToAlert =>
        /\ lastAlerted'[w] = clock /\ WatchHit(w, clock) \in anomalies'
        /\ WatchHit(w, clock).at = clock /\ Filed(w, WatchHit(w, clock))
  BY <1>1, WatchHitFacts
<1>8. \A w \in Watched : w \in Active /\ w \notin ToAlert =>
        lastAlerted[w] # Never /\ clock - lastAlerted[w] < WatchCooldown
  BY <1>6, NoticesAssumption DEF ToAlert, BaseInv
<1>9. ASSUME NEW w \in Watched, NEW e \in Hits(w)'
      PROVE  [watch |-> w, event |-> e] \in {Noted(s) : s \in past'.seen \cup past'.missed}
  <2>1. e \in Hits(w) /\ e \in DOMAIN raw
    BY <1>1, <1>9 DEF Hits
  <2>2. [watch |-> w, event |-> e] \in [watch : Watched, event : DOMAIN raw]
    BY <2>1
  <2>3. \/ [watch |-> w, event |-> e] \in NewHits
        \/ [watch |-> w, event |-> e] \in {Noted(s) : s \in past.seen \cup past.missed}
    BY <2>1, <2>2 DEF NewHits
  <2> QED BY <1>4, <1>5, <2>3
<1>10. ASSUME NEW m \in missed
       PROVE (m.at - m.before) + (raw[m.event] - FloorMinute(m.event.at)) > 2 * Interval + Slack
  <2>1. /\ m.at = clock /\ m.before = past.checked /\ m.watch \in Watched
        /\ m.event \in Hits(m.watch) /\ m.event \in DOMAIN raw /\ ~InView(Noted(m))
        /\ [watch |-> m.watch, event |-> m.event] \notin {Noted(s) : s \in past.seen \cup past.missed}
    BY <1>2, <1>3
  <2>2. raw[m.event] >= past.checked
    BY <1>1, <2>1 DEF WatchInv
  <2>3. FloorMinute(m.event.at) < clock - Lookback
    <3>1. ~(FloorMinute(m.event.at) >= clock - Lookback)
      BY <1>3, <2>1 DEF InView
    <3>2. FloorMinute(m.event.at) \in Nat
      BY <2>1, FloorFacts DEF DataInv
    <3> QED BY <3>1, <3>2, NoticesAssumption DEF BaseInv, Lookback
  <2>4. /\ past.checked \in Int /\ raw[m.event] \in Int /\ FloorMinute(m.event.at) \in Int
        /\ clock \in Int /\ Interval \in Int /\ Slack \in Int
    BY <1>1, <2>1, FloorFacts, NoticesAssumption DEF DataInv, WatchInv, Never, BaseInv
  <2> QED BY <2>1, <2>2, <2>3, <2>4 DEF Lookback
<1>11. ASSUME NEW s \in seen
       PROVE \E a \in anomalies' : /\ Filed(s.watch, a)
                                   /\ a.at = s.at \/ (s.at - WatchCooldown < a.at /\ a.at < s.at)
  <2>1. /\ s.at = clock /\ s.watch \in Watched /\ s.event \in Hits(s.watch)
        /\ FloorMinute(s.event.at) >= clock - Lookback
    BY <1>2, <1>3 DEF InView
  <2>2. s.watch \in Active
    BY <2>1, HitIsActive
  <2>3. CASE s.watch \in ToAlert
    BY <1>7, <2>1, <2>3
  <2>4. CASE s.watch \notin ToAlert
    <3>1. lastAlerted[s.watch] # Never /\ clock - lastAlerted[s.watch] < WatchCooldown
      BY <1>8, <2>1, <2>2, <2>4
    <3>2. PICK a \in anomalies : Filed(s.watch, a) /\ a.at = lastAlerted[s.watch]
      BY <2>1, <3>1 DEF WatchInv
    <3>3. a \in anomalies' /\ a.at \in 0..clock
      BY <1>1, <3>2 DEF DataInv
    <3> QED BY <2>1, <3>1, <3>2, <3>3, NoticesAssumption DEF BaseInv
  <2> QED BY <2>3, <2>4
<1>12. \A w \in Watched : lastAlerted'[w] # Never =>
         \E a \in anomalies' : Filed(w, a) /\ a.at = lastAlerted'[w]
  <2>1. ASSUME NEW w \in Watched, lastAlerted'[w] # Never
        PROVE \E a \in anomalies' : Filed(w, a) /\ a.at = lastAlerted'[w]
    <3>1. CASE w \in ToAlert
      BY <1>7, <3>1
    <3>2. CASE w \notin ToAlert
      <4>1. lastAlerted'[w] = lastAlerted[w]
        BY <1>1, <3>2
      <4> QED BY <1>1, <2>1, <4>1 DEF WatchInv
    <3> QED BY <3>1, <3>2
  <2> QED BY <2>1
<1>13. \A m \in past'.missed : m.event \in DOMAIN raw
  BY <1>2, <1>3, <1>5 DEF WatchInv
<1>14. WatchedIsSeen'
  <2>1. \A m \in past'.missed :
          \/ m.before = Never
          \/ (m.at - m.before) + (raw'[m.event] - FloorMinute(m.event.at)) > 2 * Interval + Slack
    BY <1>1, <1>5, <1>10 DEF WatchInv, WatchedIsSeen
  <2>2. \A s \in past'.seen : \E a \in anomalies' :
          /\ Filed(s.watch, a)
          /\ a.at = s.at \/ (s.at - WatchCooldown < a.at /\ a.at < s.at)
    BY <1>1, <1>5, <1>11 DEF WatchInv, WatchedIsSeen
  <2> QED BY <2>1, <2>2 DEF WatchedIsSeen
<1> QED BY <1>1, <1>5, <1>9, <1>12, <1>13, <1>14 DEF WatchInv, BaseInv

\* So do all steps but the monitor's own.
LEMMA StoresFacts ==
  ASSUME BaseInv, DataInv, [Next]_vars, ~CheckWatched
  PROVE  /\ Stores /\ UNCHANGED <<lastAlerted, past.seen, past.missed>>
         /\ left.job = "watch" => UNCHANGED past.checked
<1> USE DEF Stores
<1>1. CASE QuietStep
  BY <1>1, QuietFrame DEF WatchPast
<1>2. CASE Traffic
  <2>1. UNCHANGED <<lastAlerted, past>>
    BY <1>2, TrafficFrame
  <2>2. CASE Flush
    BY <2>1, <2>2, FlushFacts DEF Flush
  <2>3. CASE Log \/ DetectFails
    BY <2>1, <2>3 DEF Log, DetectFails, traffic
  <2>4. CASE Detect
    BY <2>1, <2>4 DEF Detect, traffic
  <2> QED BY <1>2, <2>2, <2>3, <2>4 DEF Traffic
<1>3. CASE FlagStep
  <2>1. PICK kind, found : /\ kind # "watch"
                           /\ Flag(kind, found, IF kind = "uncategorized" THEN ReFlag ELSE Day)
    BY <1>3, FlagCases
  <2>2. UNCHANGED <<raw, lastAlerted, past.seen, past.missed>> /\ left.job # "watch"
    BY <2>1, FlagFrame DEF flushing, traffic
  <2>3. anomalies \subseteq anomalies'
    BY <2>1 DEF Flag
  <2> QED BY <2>2, <2>3
<1>4. CASE Restart
  BY <1>4, RestartFrame DEF traffic, WatchPast
<1> QED BY <1>1, <1>2, <1>3, <1>4, NextCases DEF QuietStep

LEMMA WatchStep ==
  ASSUME BaseInv, ReportInv, DataInv, WatchInv, [Next]_vars
  PROVE  WatchInv'
<1>1. clock' \in Nat /\ clock' >= clock /\ left'.job = left.job
  BY BaseStep DEF BaseInv, LeftKept
<1>2. CASE ~CheckWatched
  BY <1>1, <1>2, StoresFacts, WatchSame DEF BaseInv
<1> QED BY <1>2, CheckWatchedKeeps

-----------------------------------------------------------------------------
(* Rows about the same thing.                                               *)

Alike(a, b) == /\ a.kind = b.kind /\ a.branch = b.branch /\ a.client = b.client
               /\ a.domain = b.domain /\ a.note = b.note

LEMMA AlikeFacts ==
  ASSUME NEW a, NEW b, Shape(a), Shape(b)
  PROVE  /\ ([a EXCEPT !.at = b.at] = b) <=> Alike(a, b)
         /\ Alike(a, b) /\ a.at = b.at => a = b
<1>1. [a EXCEPT !.at = b.at] = [kind |-> a.kind, branch |-> a.branch, client |-> a.client,
                                 domain |-> a.domain, note |-> a.note, at |-> b.at]
  BY DEF Shape
<1> QED BY <1>1 DEF Shape, Alike

LEMMA ApartNumbers ==
  ASSUME NEW kind
  PROVE  /\ Apart(kind) \in Nat
         /\ kind \in {"quota", "minutes", "exports"} => Apart(kind) = Day + 1
         /\ kind = "uncategorized" => Apart(kind) = ReFlag + 1
         /\ kind = "watchlist" => Apart(kind) = WatchCooldown
         /\ kind \notin NamedKinds \ Provided => Apart(kind) = Cooldown + 1
<1>1. Day \in Nat /\ ReFlag \in Nat /\ WatchCooldown \in Nat /\ Cooldown \in Nat
  BY NoticesAssumption, InsightsAssumption
<1>2. kind \in {"quota", "minutes", "exports"} => Apart(kind) = Day + 1
  BY DEF Apart
<1>3. kind = "uncategorized" => Apart(kind) = ReFlag + 1
  BY DEF Apart
<1>4. kind = "watchlist" => Apart(kind) = WatchCooldown
  BY DEF Apart
<1>5. kind \notin {"quota", "minutes", "exports", "uncategorized", "watchlist"} => Apart(kind) = Cooldown + 1
  BY DEF Apart
<1>6. {"quota", "minutes", "exports", "uncategorized", "watchlist"} = NamedKinds \ Provided
  BY DEF NamedKinds, Provided
<1> QED BY <1>1, <1>2, <1>3, <1>4, <1>5, <1>6

\* Rows that are added keep apart from each other and from those that are there.
LEMMA AddedApart ==
  ASSUME DataInv, FlaggedApart, NEW new, anomalies' \subseteq anomalies \cup new,
         \A a \in new : Shape(a) /\ a.at \in Nat,
         \A a, b \in new : a.kind # "sensitive" /\ Alike(a, b) => a.at = b.at,
         \A a \in new, b \in anomalies :
           a.kind # "sensitive" /\ Alike(a, b) => a.at - b.at >= Apart(a.kind) \/ FiledTwice(a)
  PROVE  FlaggedApart'
<1>1. \A a \in anomalies' : Shape(a) /\ a.at \in Nat
  BY DEF DataInv
<1>2. SUFFICES ASSUME NEW a \in anomalies', NEW b \in anomalies', a # b, a.kind # "sensitive", Alike(a, b)
               PROVE  \/ a.at - b.at >= Apart(a.kind) \/ b.at - a.at >= Apart(a.kind)
                      \/ FiledTwice(a)
  BY <1>1, AlikeFacts DEF FlaggedApart, FiledTwice
<1>3. b.kind = a.kind /\ Alike(b, a) /\ Shape(a) /\ Shape(b)
  BY <1>1, <1>2 DEF Alike
<1>4. CASE a \in anomalies /\ b \in anomalies
  BY <1>2, <1>3, <1>4, AlikeFacts DEF FlaggedApart
<1>5. CASE a \in new /\ b \in new
  BY <1>2, <1>3, <1>5, AlikeFacts
<1>6. CASE a \in new /\ b \in anomalies
  BY <1>2, <1>6
<1>7. CASE a \in anomalies /\ b \in new
  <2>1. b.at - a.at >= Apart(a.kind) \/ FiledTwice(b)
    BY <1>2, <1>3, <1>7
  <2>2. FiledTwice(b) => FiledTwice(a)
    BY <1>2, <1>3, FiledAlike DEF FiledTwice, Alike
  <2> QED BY <2>1, <2>2
<1> QED BY <1>2, <1>4, <1>5, <1>6, <1>7

LEMMA NotFlagged ==
  ASSUME DataInv, NEW a, Shape(a), a.at \in Int, NEW cutoff \in Int, ~Flagged(a, cutoff),
         NEW b \in anomalies, Alike(a, b)
  PROVE  b.at < cutoff
<1>1. Shape(b) /\ b.at \in Int
  BY DEF DataInv
<1>2. [b EXCEPT !.at = a.at] = a
  BY <1>1, AlikeFacts DEF Alike
<1> QED BY <1>1, <1>2 DEF Flagged

LEMMA DetectApart ==
  ASSUME BaseInv, DataInv, ApartInv, Detect, UNCHANGED lastAlerted
  PROVE  ApartInv'
<1> DEFINE new == DetectAnomalies(window)
           At(b) == GeneratedAt({e \in window : e.branch = b})
<1>1. anomalies' = anomalies \cup new /\ window # {}
  BY DEF Detect
<1>2. \A e \in window : e.at \in 0..clock
  BY <1>1 DEF DataInv
<1>3. ASSUME NEW a \in new
      PROVE  /\ Shape(a) /\ a.at \in Nat /\ a.kind \notin NamedKinds \ Provided
             /\ a.at = At(a.branch)
             /\ a.kind # "sensitive" => ~Flagged(a, a.at - Cooldown)
  <2>1. PICK b \in {e.branch : e \in window} :
          /\ Shape(a) /\ a.branch = b /\ a.at = GeneratedAt({e \in window : e.branch = b})
          /\ a.kind \notin NamedKinds \ Provided
          /\ a.kind # "sensitive" => ~Flagged(a, a.at - Cooldown)
    BY DetectFacts, Zenon
  <2>2. a.at \in 0..clock
    BY <1>2, <2>1, GeneratedAtFacts DEF BaseInv
  <2> QED BY <2>1, <2>2 DEF BaseInv
<1> HIDE DEF new, At
<1>4. \A a, b \in new : a.kind # "sensitive" /\ Alike(a, b) => a.at = b.at
  BY <1>3 DEF Alike
<1>5. ASSUME NEW a \in new, NEW b \in anomalies, a.kind # "sensitive", Alike(a, b)
      PROVE  a.at - b.at >= Apart(a.kind)
  <2>1. a.at - Cooldown \in Int /\ Cooldown \in Nat /\ b.at \in Nat /\ a.at \in Int
    BY <1>3, InsightsAssumption DEF DataInv
  <2>2. b.at < a.at - Cooldown
    BY <1>3, <1>5, <2>1, NotFlagged
  <2> QED BY <1>3, <2>1, <2>2, ApartNumbers
<1>6. FlaggedApart'
  BY <1>1, <1>3, <1>4, <1>5, AddedApart DEF ApartInv
<1>7. \A a \in new : a.kind # "watchlist"
  BY <1>3 DEF NamedKinds, Provided
<1> QED BY <1>1, <1>6, <1>7 DEF ApartInv, Filed

LEMMA FlagApart ==
  ASSUME BaseInv, DataInv, ApartInv, FlagStep
  PROVE  ApartInv'
<1>1. PICK kind, found :
        /\ kind \in {"quota", "minutes", "uncategorized", "exports"}
        /\ Flag(kind, found, IF kind = "uncategorized" THEN ReFlag ELSE Day)
        /\ \A a \in found : Shape(a) /\ a.kind = kind /\ a.at = clock
  BY FlagCases
<1> DEFINE cooldown == IF kind = "uncategorized" THEN ReFlag ELSE Day
           new == {a \in found : ~Flagged(a, clock - cooldown)}
<1>2. anomalies' = anomalies \cup new /\ UNCHANGED lastAlerted
  BY <1>1 DEF Flag
<1>3. cooldown \in Nat /\ Apart(kind) = cooldown + 1 /\ clock \in Nat
  BY <1>1, ApartNumbers, InsightsAssumption DEF BaseInv
<1>4. \A a \in new : Shape(a) /\ a.kind = kind /\ a.at = clock /\ ~Flagged(a, clock - cooldown)
  BY <1>1
<1> HIDE DEF cooldown, new
<1>5. ASSUME NEW a \in new, NEW b \in anomalies, Alike(a, b)
      PROVE  a.at - b.at >= Apart(a.kind)
  <2>1. b.at \in Nat /\ clock - cooldown \in Int
    BY <1>3 DEF DataInv
  <2>2. b.at < clock - cooldown
    BY <1>3, <1>4, <1>5, <2>1, NotFlagged
  <2> QED BY <1>3, <1>4, <2>1, <2>2
<1>6. FlaggedApart'
  BY <1>2, <1>3, <1>4, <1>5, AddedApart DEF ApartInv
<1>7. \A a \in new : a.kind # "watchlist"
  BY <1>1, <1>4
<1> QED BY <1>2, <1>6, <1>7 DEF ApartInv, Filed

LEMMA WatchApart ==
  ASSUME BaseInv, DataInv, ApartInv, CheckWatched
  PROVE  ApartInv'
<1> DEFINE new == {WatchHit(w, clock) : w \in ToAlert}
<1>1. /\ anomalies' = anomalies \cup new
      /\ lastAlerted' = [w \in Watched |-> IF w \in ToAlert THEN clock ELSE lastAlerted[w]]
  BY DEF CheckWatched
<1>2. \A a \in new : \E w \in ToAlert : a = WatchHit(w, clock)
  OBVIOUS
<1>3. \A w : Filed(w, WatchHit(w, clock))
  BY WatchHitFacts
<1> HIDE DEF new
<1>4. clock \in Nat /\ WatchCooldown \in Nat /\ \A w \in Watched : lastAlerted[w] \in Nat \cup {Never}
  BY NoticesAssumption DEF BaseInv, DataInv
<1>5. \A w \in ToAlert : w \in Watched /\ (lastAlerted[w] # Never => clock - lastAlerted[w] >= WatchCooldown)
  BY DEF ToAlert, Active
<1>6. \A a \in new : /\ Shape(a) /\ a.kind = "watchlist" /\ a.at = clock
                     /\ \E w \in ToAlert : Filed(w, a)
  BY <1>2, <1>3, WatchHitFacts
<1>7. ASSUME NEW a \in new, NEW b \in anomalies, Alike(a, b)
      PROVE  a.at - b.at >= Apart(a.kind) \/ FiledTwice(a)
  <2>1. PICK w \in ToAlert : Filed(w, a)
    BY <1>6
  <2>2. PICK v \in Watched : Filed(v, b) /\ lastAlerted[v] # Never /\ b.at <= lastAlerted[v]
    BY <1>6, <1>7 DEF ApartInv, Alike
  <2>3. w = v \/ FiledTwice(a)
    <3>1. Filed(v, a)
      BY <1>6, <1>7, <2>2, FiledAlike DEF Alike
    <3> QED BY <1>5, <2>1, <2>2, <3>1 DEF FiledTwice
  <2>4. b.at \in Nat /\ lastAlerted[v] \in Nat
    BY <1>4, <2>2 DEF DataInv
  <2> QED BY <1>4, <1>5, <1>6, <2>2, <2>3, <2>4, ApartNumbers
<1>8. FlaggedApart'
  BY <1>1, <1>4, <1>6, <1>7, AddedApart DEF ApartInv
<1>9. ASSUME NEW a \in anomalies', a.kind = "watchlist"
      PROVE  \E w \in Watched : Filed(w, a) /\ lastAlerted'[w] # Never /\ a.at <= lastAlerted'[w]
  <2>1. CASE a \in new
    <3>1. PICK w \in ToAlert : Filed(w, a)
      BY <1>6, <2>1
    <3>2. w \in Watched /\ lastAlerted'[w] = clock /\ a.at = clock
      BY <1>1, <1>5, <1>6, <2>1, <3>1
    <3> QED BY <1>4, <3>1, <3>2 DEF Never
  <2>2. CASE a \in anomalies
    <3>1. PICK w \in Watched : Filed(w, a) /\ lastAlerted[w] # Never /\ a.at <= lastAlerted[w]
      BY <1>9, <2>2 DEF ApartInv
    <3>2. lastAlerted'[w] \in {clock, lastAlerted[w]} /\ a.at <= clock
      BY <1>1, <2>2, <3>1 DEF DataInv
    <3> QED BY <1>4, <3>1, <3>2 DEF Never
  <2> QED BY <1>1, <1>9, <2>1, <2>2
<1> QED BY <1>8, <1>9 DEF ApartInv, Filed

LEMMA ApartStep ==
  ASSUME BaseInv, DataInv, ApartInv, [Next]_vars
  PROVE  ApartInv'
<1>1. CASE UNCHANGED <<anomalies, lastAlerted>>
  BY <1>1 DEF ApartInv, FlaggedApart, Filed
<1>2. CASE QuietStep
  BY <1>1, <1>2, QuietFrame
<1>3. CASE Traffic
  <2>1. UNCHANGED lastAlerted
    BY <1>3, TrafficFrame
  <2>2. CASE Log \/ Flush \/ DetectFails
    <3>1. UNCHANGED anomalies
      BY <2>2 DEF Log, Flush, DetectFails
    <3> QED BY <1>1, <2>1, <3>1
  <2> QED BY <1>3, <2>1, <2>2, DetectApart DEF Traffic
<1>4. CASE Restart
  BY <1>1, <1>4, RestartFrame
<1> QED BY <1>2, <1>3, <1>4, FlagApart, WatchApart, NextCases DEF QuietStep

-----------------------------------------------------------------------------
(* What is found for the first time.                                        *)

\* When a window starts.
LEMMA WindowStartFacts ==
  ASSUME clock \in Nat, NEW es, es # {}, \A e \in es : e.at \in 0..clock
  PROVE  WindowStart(es) \in Int
<1> DEFINE ats == {e.at : e \in es}
           low == Min(ats)
           high == Max(ats) - MaxSpread
<1>1. ats \in SUBSET (0..clock) /\ ats # {}
  OBVIOUS
<1> HIDE DEF ats
<1>2. Max(ats) \in ats /\ low \in ats
  BY <1>1, MaxWithin, MinWithin
<1>3. low \in Int /\ high \in Int
  <2>1. MaxSpread \in Int
    BY InsightsAssumption
  <2>2. \A x \in ats : x \in Int
    BY <1>1
  <2>3. Max(ats) \in Int /\ low \in Int
    BY <1>2, <2>2
  <2> QED BY <2>1, <2>3
<1> HIDE DEF low, high
<1>4. Max({low, high}) \in Int
  <2> DEFINE S == {low, high}
  <2>1. CASE low >= high
    <3>1. S \in SUBSET Int /\ low \in S /\ \A x \in S : x <= low
      BY <1>3, <2>1
    <3> HIDE DEF S
    <3> QED BY <1>3, <3>1, MaxIs DEF S
  <2>2. CASE high >= low
    <3>1. S \in SUBSET Int /\ high \in S /\ \A x \in S : x <= high
      BY <1>3, <2>2
    <3> HIDE DEF S
    <3> QED BY <1>3, <3>1, MaxIs DEF S
  <2> QED BY <1>3, <2>1, <2>2
<1> QED BY <1>4 DEF WindowStart, GeneratedAt, low, high, ats

\* The properties, window by window.
Of(events, b) == {x \in events : x.branch = b}

BlocksFound(s, n) ==
  \A e \in s[n].events :
    (/\ ~s[n].failed /\ e.domain # None /\ Blocked(e)
     /\ ~\E m \in 1..(n - 1) : \E x \in s[m].events : x.branch = e.branch /\ x.domain = e.domain) =>
      \/ Anomaly("newBlocked", e.branch, None, e.domain, GeneratedAt(Of(s[n].events, e.branch)))
           \in s[n].found
      \/ \E x \in Of(s[n].events, e.branch) :
           /\ x.branch = e.branch /\ x.domain = e.domain
           /\ FloorMinute(x.at) < WindowStart(Of(s[n].events, e.branch))

Visited(x, e) == x.branch = e.branch /\ x.domain = e.domain /\ x.client = e.client

VisitsFound(s, n) ==
  \A e \in s[n].events :
    LET start == WindowStart(Of(s[n].events, e.branch))
        found == Anomaly("sensitive", e.branch, e.client, e.domain,
                         GeneratedAt(Of(s[n].events, e.branch))) \in s[n].found
    IN (~s[n].failed /\ e.domain # None /\ Category[e.domain] \in Settings[e.branch].sensitive) =>
         IF \E m \in 1..(n - 1) : \E x \in s[m].events : Visited(x, e)
         THEN found => \A m \in 1..(n - 1) : \A x \in s[m].events :
                         Visited(x, e) => x.at >= start \/ x.at < s[n].at - RawDays
         ELSE found \/ \E x \in Of(s[n].events, e.branch) : Visited(x, e) /\ x.at < start

Found(s) == \A n \in DOMAIN s : BlocksFound(s, n) /\ VisitsFound(s, n)

LEMMA ByWindow ==
  /\ FirstBlocksFound /\ FirstVisitsFound <=> Found(analyzed)
  /\ (FirstBlocksFound /\ FirstVisitsFound)' <=> Found(analyzed')
<1> USE DEF Earlier, FoundIn, Of
<1>1. FirstBlocksFound <=> \A n \in DOMAIN analyzed : BlocksFound(analyzed, n)
  BY DEF FirstBlocksFound, BlocksFound
<1>2. FirstVisitsFound <=> \A n \in DOMAIN analyzed : VisitsFound(analyzed, n)
  BY DEF FirstVisitsFound, VisitsFound, Visited
<1>3. FirstBlocksFound' <=> \A n \in DOMAIN analyzed' : BlocksFound(analyzed', n)
  BY DEF FirstBlocksFound, BlocksFound
<1>4. FirstVisitsFound' <=> \A n \in DOMAIN analyzed' : VisitsFound(analyzed', n)
  BY DEF FirstVisitsFound, VisitsFound, Visited
<1> QED BY <1>1, <1>2, <1>3, <1>4 DEF Found

LEMMA FoundKept ==
  ASSUME NEW s, NEW r, NEW n \in Nat \ {0}, \A m \in 1..n : r[m] = s[m],
         BlocksFound(s, n), VisitsFound(s, n)
  PROVE  BlocksFound(r, n) /\ VisitsFound(r, n)
<1>1. r[n] = s[n] /\ \A m \in 1..(n - 1) : r[m] = s[m]
  OBVIOUS
<1>2. BlocksFound(r, n)
  BY <1>1 DEF BlocksFound
<1>3. VisitsFound(r, n)
  BY <1>1 DEF VisitsFound
<1> QED BY <1>2, <1>3

LEMMA FirstInit == Init => FirstInv
<1> SUFFICES ASSUME Init PROVE FirstInv
  OBVIOUS
<1>1. analyzed = << >> /\ raw = << >> /\ window = {} /\ anomalies = {}
  BY DEF Init
<1>2. DOMAIN raw = {} /\ DOMAIN analyzed = {}
  BY <1>1
<1> QED BY <1>1, <1>2 DEF FirstInv, FirstBlocksFound, FirstVisitsFound

Analyses == [events : SUBSET DOMAIN raw, at : Nat, failed : BOOLEAN, found : SUBSET anomalies]

\* A window joins those that were looked at.
LEMMA FirstAppended ==
  ASSUME DataInv, FirstInv, window # {}, window' = {}, UNCHANGED raw, left'.provider = left.provider,
         NEW row, analyzed' = Append(analyzed, row), anomalies \subseteq anomalies',
         row.events = window, row \in Analyses',
         \A a \in anomalies' : a \notin anomalies /\ a.kind = "newBlocked" =>
           \E e \in window : e.branch = a.branch /\ e.domain = a.domain,
         BlocksFound(analyzed', Len(analyzed) + 1), VisitsFound(analyzed', Len(analyzed) + 1)
  PROVE  FirstInv'
<1> DEFINE n == Len(analyzed) + 1
<1>1. analyzed \in Seq(Analyses) /\ left.provider
  BY DEF FirstInv, Analyses
<1>2. /\ Len(analyzed) \in Nat /\ DOMAIN analyzed = 1..Len(analyzed) /\ DOMAIN analyzed' = 1..n
      /\ \A m \in DOMAIN analyzed : analyzed'[m] = analyzed[m]
      /\ analyzed'[n] = row
  BY <1>1
<1>3. Analyses \subseteq Analyses'
  BY DEF Analyses
<1>4. analyzed' \in Seq(Analyses')
  <2>1. analyzed \in Seq(Analyses')
    BY <1>1, <1>3
  <2> QED BY <2>1
<1>5. \A e \in DOMAIN raw : \E m \in DOMAIN analyzed' : e \in analyzed'[m].events
  <2>1. ASSUME NEW e \in DOMAIN raw PROVE \E m \in DOMAIN analyzed' : e \in analyzed'[m].events
    <3>1. CASE e \in window
      BY <1>2, <3>1
    <3>2. CASE \E m \in DOMAIN analyzed : e \in analyzed[m].events
      BY <1>2, <3>2
    <3> QED BY <1>1, <2>1, <3>1, <3>2 DEF FirstInv
  <2> QED BY <2>1
<1>6. ASSUME NEW a \in anomalies', a.kind = "newBlocked"
      PROVE  \E m \in DOMAIN analyzed' : \E e \in analyzed'[m].events :
               e.branch = a.branch /\ e.domain = a.domain
  <2>1. CASE a \in anomalies
    <3>1. PICK m \in DOMAIN analyzed : \E e \in analyzed[m].events :
            e.branch = a.branch /\ e.domain = a.domain
      BY <1>6, <2>1 DEF FirstInv
    <3>2. m \in DOMAIN analyzed' /\ analyzed'[m] = analyzed[m]
      BY <1>2
    <3> QED BY <3>1, <3>2
  <2>2. CASE a \notin anomalies
    BY <1>2, <1>6, <2>2
  <2> QED BY <2>1, <2>2
<1>7. Found(analyzed')
  <2>1. ASSUME NEW m \in DOMAIN analyzed' PROVE BlocksFound(analyzed', m) /\ VisitsFound(analyzed', m)
    <3>1. CASE m = n
      BY <3>1
    <3>2. CASE m # n
      <4>1. m \in DOMAIN analyzed /\ m \in Nat \ {0} /\ \A k \in 1..m : analyzed'[k] = analyzed[k]
        BY <1>2, <3>2
      <4>2. BlocksFound(analyzed, m) /\ VisitsFound(analyzed, m)
        BY <4>1, ByWindow DEF FirstInv, Found
      <4> QED BY <4>1, <4>2, FoundKept
    <3> QED BY <3>1, <3>2
  <2> QED BY <2>1 DEF Found
<1> QED BY <1>1, <1>4, <1>5, <1>6, <1>7, ByWindow DEF FirstInv, Analyses

\* A window whose call fails says nothing.
LEMMA FailedWindow ==
  ASSUME BaseInv, DataInv, FirstInv, window # {}, window' = {}, UNCHANGED <<raw, anomalies>>,
         left'.provider = left.provider,
         analyzed' = Append(analyzed, [Analysis EXCEPT !.failed = TRUE])
  PROVE  FirstInv'
<1> DEFINE row == [Analysis EXCEPT !.failed = TRUE]
           n   == Len(analyzed) + 1
<1>1. row.events = window /\ row.failed /\ row \in Analyses'
  BY DEF Analysis, Analyses, BaseInv, DataInv
<1>2. analyzed'[n] = row
  BY DEF FirstInv
<1>3. BlocksFound(analyzed', n) /\ VisitsFound(analyzed', n)
  BY <1>1, <1>2 DEF BlocksFound, VisitsFound
<1> HIDE DEF row
<1> QED BY <1>1, <1>3, FirstAppended DEF row

\* What a call finds, from what its checks find.
LEMMA DetectFinds ==
  ASSUME NEW events, NEW b \in {e.branch : e \in events}, NEW a,
         \/ a \in SensitiveVisits(Of(events, b), b)
         \/ a \in NewBlockedDomains(Of(events, b), b) /\ ~Flagged(a, a.at - Cooldown)
  PROVE  a \in DetectAnomalies(events)
<1> DEFINE es == {e \in events : e.branch = b}
           found == TrafficSpike(es, b) \cup NewBlockedDomains(es, b)
                    \cup ClientsBlocked(es, b) \cup CustomRules(es, b)
<1>1. es = Of(events, b)
  BY DEF Of
<1>2. a \in {x \in found : ~Flagged(x, x.at - Cooldown)} \cup SensitiveVisits(es, b)
  <2> HIDE DEF es
  <2> QED BY <1>1
<1> QED BY <1>2, Zenon DEF DetectAnomalies

\* The window that is looked at, among those before.
LEMMA DetectFirst ==
  ASSUME BaseInv, DataInv, GoneInv, FirstInv, Detect
  PROVE  FirstInv'
<1> DEFINE new == DetectAnomalies(window)
           row == [Analysis EXCEPT !.found = new]
           n   == Len(analyzed) + 1
<1>1. /\ window # {} /\ window' = {} /\ UNCHANGED <<raw, left>>
      /\ analyzed' = Append(analyzed, row) /\ anomalies' = anomalies \cup new
  BY DEF Detect, traffic
<1> HIDE DEF new
<1>2. /\ row.events = window /\ row.found = new /\ row.failed = FALSE /\ row.at = clock
      /\ row \in Analyses'
  BY <1>1 DEF Analysis, Analyses, BaseInv, DataInv
<1> HIDE DEF row
<1>3. /\ n \in Nat \ {0} /\ n - 1 = Len(analyzed) /\ DOMAIN analyzed = 1..(n - 1) /\ analyzed'[n] = row
      /\ \A m \in 1..(n - 1) : analyzed'[m] = analyzed[m] /\ analyzed[m].events \subseteq DOMAIN raw
  <2>1. analyzed \in Seq(Analyses)
    BY DEF FirstInv, Analyses
  <2>2. Len(analyzed) \in Nat /\ DOMAIN analyzed = 1..Len(analyzed)
        /\ \A m \in DOMAIN analyzed : analyzed[m] \in Analyses
    BY <2>1
  <2>3. analyzed'[n] = row /\ \A m \in 1..(n - 1) : analyzed'[m] = analyzed[m]
    BY <1>1, <2>1, <2>2
  <2> QED BY <2>2, <2>3 DEF Analyses
<1> HIDE DEF n
<1>4. /\ window \subseteq DOMAIN raw
      /\ \A x \in DOMAIN raw : x \in window \/ \E m \in 1..(n - 1) : x \in analyzed'[m].events
  BY <1>1, <1>3 DEF FirstInv, DataInv
<1>5. ASSUME NEW a \in new, a.kind = "newBlocked"
      PROVE  \E e \in window : e.branch = a.branch /\ e.domain = a.domain
  <2>1. PICK b \in {e.branch : e \in window} :
          a.branch = b /\ a \in NewBlockedDomains({e \in window : e.branch = b}, b)
    BY <1>5, DetectFacts, Zenon DEF new
  <2> DEFINE es == {e \in window : e.branch = b}
  <2>2. PICK d \in {e.domain : e \in {x \in es : Blocked(x)}} :
          a = Anomaly("newBlocked", b, None, d, GeneratedAt(es))
    BY <2>1 DEF NewBlockedDomains
  <2>3. a.domain = d
    BY <2>2, AnomalyFacts
  <2> QED BY <2>1, <2>2, <2>3
<1>6. ASSUME NEW e \in window
      PROVE  /\ e.branch \in {x.branch : x \in window} /\ e \in Of(window, e.branch)
             /\ WindowStart(Of(window, e.branch)) \in Int
  <2>1. \A x \in window : x.at \in 0..clock
    BY <1>4 DEF DataInv
  <2> QED BY <2>1, WindowStartFacts DEF Of, BaseInv
<1>7. ASSUME NEW e \in window, e.domain # None, Blocked(e),
             ~\E m \in 1..(n - 1) : \E x \in analyzed'[m].events :
                x.branch = e.branch /\ x.domain = e.domain
      PROVE  \/ Anomaly("newBlocked", e.branch, None, e.domain, GeneratedAt(Of(window, e.branch))) \in new
             \/ \E x \in Of(window, e.branch) :
                  /\ x.branch = e.branch /\ x.domain = e.domain
                  /\ FloorMinute(x.at) < WindowStart(Of(window, e.branch))
  <2> DEFINE es == Of(window, e.branch)
             a  == Anomaly("newBlocked", e.branch, None, e.domain, GeneratedAt(es))
             known == {k.domain : k \in {r \in DOMAIN tables.domain :
                                           r.branch = e.branch /\ r.at < WindowStart(es)}}
  <2>1. e \in es
    BY <1>6
  <2> HIDE DEF es
  <2>2. CASE e.domain \notin known
    <3>1. a \in NewBlockedDomains(es, e.branch)
      BY <1>7, <2>1, <2>2 DEF NewBlockedDomains
    <3>2. a.kind = "newBlocked" /\ a.branch = e.branch /\ a.domain = e.domain
      BY AnomalyFacts
    <3> HIDE DEF a
    <3>3. ASSUME NEW old \in anomalies, [old EXCEPT !.at = a.at] = a PROVE FALSE
      <4>1. old.kind = a.kind /\ old.branch = a.branch /\ old.domain = a.domain
        BY <3>3 DEF DataInv, Shape
      <4>2. PICK m \in DOMAIN analyzed : \E x \in analyzed[m].events :
              x.branch = old.branch /\ x.domain = old.domain
        BY <3>2, <4>1 DEF FirstInv
      <4> QED BY <1>3, <1>7, <3>2, <4>1, <4>2
    <3>4. ~Flagged(a, a.at - Cooldown)
      BY <3>3 DEF Flagged
    <3> QED BY <1>6, <3>1, <3>4, DetectFinds DEF new, a, es
  <2>3. CASE e.domain \in known
    <3>1. PICK k \in DOMAIN tables["domain"] :
            k.branch = e.branch /\ k.at < WindowStart(es) /\ k.domain = e.domain
      BY <2>3
    <3>2. PICK x \in DOMAIN raw : k = Key("domain", x)
      BY DEF DataInv
    <3>3. x.branch = e.branch /\ x.domain = e.domain /\ FloorMinute(x.at) < WindowStart(es)
      BY <3>1, <3>2, WatchedKeys
    <3>4. x \in es
      BY <1>4, <1>7, <3>3 DEF Of, es
    <3> QED BY <3>3, <3>4 DEF es
  <2> QED BY <2>2, <2>3
<1>8. BlocksFound(analyzed', n)
  BY <1>2, <1>3, <1>7 DEF BlocksFound
<1>9. ASSUME NEW e \in window, e.domain # None, Category[e.domain] \in Settings[e.branch].sensitive
      PROVE  LET start == WindowStart(Of(window, e.branch))
                 found == Anomaly("sensitive", e.branch, e.client, e.domain,
                                  GeneratedAt(Of(window, e.branch))) \in new
             IN IF \E m \in 1..(n - 1) : \E x \in analyzed'[m].events : Visited(x, e)
                THEN found => \A m \in 1..(n - 1) : \A x \in analyzed'[m].events :
                                Visited(x, e) => x.at >= start \/ x.at < clock - RawDays
                ELSE found \/ \E x \in Of(window, e.branch) : Visited(x, e) /\ x.at < start
  <2> DEFINE es == Of(window, e.branch)
             start == WindowStart(es)
             a  == Anomaly("sensitive", e.branch, e.client, e.domain, GeneratedAt(es))
             known == {<<x.client, x.domain>> : x \in {r \in DOMAIN raw \ gone :
                         r.branch = e.branch /\ r.at < WindowStart(es)}}
  <2>1. e \in es /\ start \in Int
    BY <1>6
  <2> HIDE DEF es
  <2>2. a.kind = "sensitive" /\ a.branch = e.branch /\ a.client = e.client /\ a.domain = e.domain
    BY AnomalyFacts
  <2>3. ASSUME a \in new PROVE <<e.client, e.domain>> \notin known
    <3>1. a \in SensitiveVisits(es, e.branch)
      <4>1. PICK b \in {x.branch : x \in window} :
              a.branch = b /\ a \in SensitiveVisits({x \in window : x.branch = b}, b)
        <5> HIDE DEF a
        <5> QED BY <2>2, <2>3, DetectFacts, Zenon DEF new
      <4> QED BY <2>2, <4>1 DEF Of, es
    <3>2. PICK p : a = Anomaly("sensitive", e.branch, p[1], p[2], GeneratedAt(es)) /\ p \notin known
                   /\ \E x \in es : p = <<x.client, x.domain>>
      BY <3>1 DEF SensitiveVisits
    <3>3. p = <<e.client, e.domain>>
      <4>1. p[1] = e.client /\ p[2] = e.domain
        BY <2>2, <3>2, AnomalyFacts
      <4> QED BY <3>2, <4>1
    <3> QED BY <3>2, <3>3
  <2>4. ASSUME a \notin new PROVE <<e.client, e.domain>> \in known
    <3>1. a \notin SensitiveVisits(es, e.branch)
      <4> HIDE DEF a
      <4> QED BY <1>6, <2>4, DetectFinds DEF new, es
    <3>2. \A p : /\ p \in {<<x.client, x.domain>> : x \in {y \in es :
                             y.domain # None /\ Category[y.domain] \in Settings[e.branch].sensitive}}
                 /\ p \notin known
                 => Anomaly("sensitive", e.branch, p[1], p[2], GeneratedAt(es)) \in SensitiveVisits(es, e.branch)
      BY DEF SensitiveVisits
    <3> DEFINE p == <<e.client, e.domain>>
    <3>3. p \in {<<x.client, x.domain>> : x \in {y \in es :
                   y.domain # None /\ Category[y.domain] \in Settings[e.branch].sensitive}}
      BY <1>9, <2>1
    <3>4. a = Anomaly("sensitive", e.branch, p[1], p[2], GeneratedAt(es))
      OBVIOUS
    <3> HIDE DEF p, a
    <3>5. p \in known
      BY <3>1, <3>2, <3>3, <3>4
    <3> QED BY <3>5 DEF p
  <2>5. \A x \in DOMAIN raw \ gone : Visited(x, e) /\ x.at < start => <<e.client, e.domain>> \in known
    BY DEF Visited
  <2>6. ASSUME <<e.client, e.domain>> \in known
        PROVE  \E x \in DOMAIN raw : Visited(x, e) /\ x.at < start
    BY <2>6 DEF Visited
  <2> HIDE DEF known, start, a
  <2>7. CASE \E m \in 1..(n - 1) : \E x \in analyzed'[m].events : Visited(x, e)
    <3>1. ASSUME a \in new, NEW m \in 1..(n - 1), NEW x \in analyzed'[m].events, Visited(x, e)
          PROVE  x.at >= start \/ x.at < clock - RawDays
      <4>1. x \in DOMAIN raw /\ x.at \in Int
        BY <1>3, <3>1 DEF DataInv
      <4>2. x \in gone => x.at < clock - RawDays
        BY DEF GoneInv
      <4> QED BY <2>1, <2>3, <2>5, <3>1, <4>1, <4>2
    <3> QED BY <2>7, <3>1 DEF a, start, es
  <2>8. CASE ~\E m \in 1..(n - 1) : \E x \in analyzed'[m].events : Visited(x, e)
    <3>1. ASSUME a \notin new PROVE \E x \in es : Visited(x, e) /\ x.at < start
      <4>1. PICK x \in DOMAIN raw : Visited(x, e) /\ x.at < start
        BY <2>4, <2>6, <3>1
      <4>2. x \in es
        BY <1>4, <2>8, <4>1 DEF Of, es, Visited
      <4> QED BY <4>1, <4>2
    <3> QED BY <2>8, <3>1 DEF a, start, es
  <2> QED BY <2>7, <2>8
<1>10. VisitsFound(analyzed', n)
  BY <1>2, <1>3, <1>9 DEF VisitsFound
<1>11. left'.provider = left.provider /\ anomalies \subseteq anomalies'
       /\ \A a \in anomalies' : a \notin anomalies => a \in new
  BY <1>1
<1> QED BY <1>1, <1>2, <1>5, <1>8, <1>10, <1>11, FirstAppended DEF n

LEMMA GoneInit == Init => GoneInv
BY DEF Init, GoneInv

\* Only the purge deletes, and time goes on.
LEMMA GoneStep ==
  ASSUME BaseInv, ReportInv, DataInv, GoneInv, [Next]_vars
  PROVE  GoneInv'
<1>1. clock' \in Nat /\ clock' >= clock /\ clock \in Nat /\ RawDays \in Nat
  BY BaseStep, InsightsAssumption DEF BaseInv
<1>2. DOMAIN raw \subseteq DOMAIN raw'
  <2>1. CASE CheckWatched
    BY <2>1 DEF CheckWatched, flushing, traffic
  <2> QED BY <2>1, StoresFacts DEF Stores
<1>3. \A e \in DOMAIN raw : e.at \in Int
  BY DEF DataInv
<1>4. CASE UNCHANGED gone
  BY <1>1, <1>2, <1>3, <1>4 DEF GoneInv
<1>5. CASE Purge
  <2>1. PICK batch \in SUBSET {e \in DOMAIN raw \ gone : e.at < clock - RawDays} : gone' = gone \cup batch
    BY <1>5 DEF Purge, PurgeRaw
  <2>2. UNCHANGED clock
    BY <1>5 DEF Purge, PurgeRaw
  <2> QED BY <1>2, <2>1, <2>2 DEF GoneInv
<1>6. ASSUME Next PROVE UNCHANGED gone \/ Purge
  <2> USE DEF watching
  <2>1. CASE Tick \/ PairingStep \/ Deliver \/ MailStep \/ RunFails
    BY <2>1, TickFrame, PairingFrame, DeliverFrame, MailFrame, RunFailsFrame
  <2>2. CASE Traffic
    BY <2>2 DEF Traffic, Log, Flush, Detect, DetectFails
  <2>3. CASE ExportStep
    BY <2>3 DEF ExportStep, FinishExport, Download
  <2>4. CASE CheckWatched
    BY <2>4 DEF CheckWatched
  <2>5. CASE FlagStep
    <3>1. PICK kind, found, cooldown : Flag(kind, found, cooldown)
      BY <2>5 DEF FlagStep, CheckQuotas, CheckMinutes, CheckUncategorized, CheckExports
    <3> QED BY <3>1 DEF Flag
  <2>6. CASE Restart
    BY <2>6 DEF Restart
  <2> QED BY <1>6, <2>1, <2>2, <2>3, <2>4, <2>5, <2>6, NextCases
<1> QED BY <1>4, <1>5, <1>6 DEF vars, watching

LEMMA FlushFirst ==
  ASSUME BaseInv, DataInv, FirstInv, Flush
  PROVE  FirstInv'
<1>1. /\ window = {} /\ window' = IF left.provider THEN Unstored ELSE {}
      /\ UNCHANGED <<left, analyzed, anomalies>>
      /\ DOMAIN raw' = DOMAIN raw \cup Unstored
  BY FlushFacts DEF Flush, Unstored, DataInv
<1>2. DOMAIN raw \subseteq DOMAIN raw'
  BY <1>1
<1>3. analyzed' \in Seq(Analyses')
  <2>1. Analyses \subseteq Analyses'
    BY <1>1, <1>2 DEF Analyses
  <2>2. analyzed \in Seq(Analyses)
    BY DEF FirstInv, Analyses
  <2> QED BY <1>1, <2>1, <2>2
<1>4. ASSUME left.provider
      PROVE  \A e \in DOMAIN raw' : \/ \E m \in DOMAIN analyzed : e \in analyzed[m].events
                                    \/ e \in window'
  <2>1. window' = Unstored
    BY <1>1, <1>4
  <2> QED BY <1>1, <1>4, <2>1 DEF FirstInv
<1>5. Found(analyzed')
  BY <1>1, ByWindow DEF FirstInv
<1> QED BY <1>1, <1>3, <1>4, <1>5, ByWindow DEF FirstInv, Analyses

LEMMA RestartFirst ==
  ASSUME BaseInv, DataInv, FirstInv, Restart
  PROVE  FirstInv'
<1>1. UNCHANGED <<raw, anomalies>> /\ window' = {} /\ left'.provider = left.provider
  BY RestartFrame DEF Restart, DropWindow, traffic, LeftKept
<1>2. CASE window = {}
  <2>1. analyzed' = analyzed
    BY <1>2 DEF Restart, DropWindow
  <2> QED BY <1>1, <1>2, <2>1, ByWindow DEF FirstInv
<1>3. CASE window # {}
  <2>1. analyzed' = Append(analyzed, [Analysis EXCEPT !.failed = TRUE])
    BY <1>3 DEF Restart, DropWindow
  <2> QED BY <1>1, <1>3, <2>1, FailedWindow
<1> QED BY <1>2, <1>3

\* The other steps add no row of a new block.
LEMMA FirstSame ==
  ASSUME FirstInv, UNCHANGED <<raw, window, analyzed>>, left'.provider = left.provider,
         anomalies \subseteq anomalies', \A a \in anomalies' : a \notin anomalies => a.kind # "newBlocked"
  PROVE  FirstInv'
<1>1. Found(analyzed')
  BY ByWindow DEF FirstInv
<1>2. analyzed' \in Seq(Analyses')
  <2>1. Analyses \subseteq Analyses'
    BY DEF Analyses
  <2>2. analyzed \in Seq(Analyses)
    BY DEF FirstInv, Analyses
  <2> QED BY <2>1, <2>2
<1> QED BY <1>1, <1>2, ByWindow DEF FirstInv, Analyses

LEMMA FirstStep ==
  ASSUME BaseInv, ReportInv, DataInv, GoneInv, FirstInv, [Next]_vars
  PROVE  FirstInv'
<1>1. left'.provider = left.provider
  BY BaseStep DEF LeftKept
<1>2. CASE QuietStep
  BY <1>1, <1>2, QuietFrame, FirstSame
<1>3. CASE Traffic
  <2>1. CASE Log
    <3>1. UNCHANGED <<raw, window, analyzed, anomalies>>
      BY <2>1 DEF Log
    <3> QED BY <1>1, <3>1, FirstSame
  <2>2. CASE DetectFails
    <3>1. /\ UNCHANGED <<raw, anomalies>> /\ window # {} /\ window' = {}
          /\ analyzed' = Append(analyzed, [Analysis EXCEPT !.failed = TRUE])
      BY <2>2 DEF DetectFails, traffic
    <3> QED BY <1>1, <3>1, FailedWindow
  <2> QED BY <1>3, <2>1, <2>2, FlushFirst, DetectFirst DEF Traffic
<1>4. CASE CheckWatched
  <2>1. /\ UNCHANGED <<raw, window, analyzed>>
        /\ anomalies' = anomalies \cup {WatchHit(w, clock) : w \in ToAlert}
    BY <1>4 DEF CheckWatched, flushing, traffic
  <2> QED BY <1>1, <2>1, WatchHitFacts, FirstSame
<1>5. CASE FlagStep
  <2>1. PICK kind, found :
          /\ kind # "newBlocked"
          /\ Flag(kind, found, IF kind = "uncategorized" THEN ReFlag ELSE Day)
          /\ \A a \in found : a.kind = kind
    BY <1>5, FlagCases
  <2>2. UNCHANGED <<raw, window, analyzed>>
    BY <2>1, FlagFrame DEF flushing, traffic
  <2>3. anomalies \subseteq anomalies' /\ anomalies' \subseteq anomalies \cup found
    BY <2>1 DEF Flag
  <2> QED BY <1>1, <2>1, <2>2, <2>3, FirstSame
<1> QED BY <1>2, <1>3, <1>4, <1>5, RestartFirst, NextCases DEF QuietStep

-----------------------------------------------------------------------------
(* Limits, and what the tables sum up.                                      *)

LEMMA RowsInit == Init => RowsInv
<1> SUFFICES ASSUME Init PROVE RowsInv
  OBVIOUS
<1>1. logged = {} /\ raw = << >> /\ tables = Empty
  BY DEF Init
<1>2. DOMAIN raw = {} /\ IsFiniteSet(logged)
  BY <1>1, FS_EmptySet
<1>3. ASSUME NEW t \in Summed PROVE tables[t] = Buckets(t, {})
  <2>1. TableEvents(t, {}) = {}
    BY DEF TableEvents
  <2>2. Buckets(t, {}) = NoRows
    BY <2>1, BucketsAre DEF NoRows
  <2>3. t \in DOMAIN Columns
    BY ColumnsOf DEF Tabled, Summed
  <2> QED BY <1>1, <2>2, <2>3 DEF Empty
<1> QED BY <1>2, <1>3 DEF RowsInv

\* A flush adds the events that it stores to each table.
LEMMA FlushRows ==
  ASSUME BaseInv, DataInv, RowsInv, Flush
  PROVE  RowsInv'
<1>1. /\ DOMAIN raw' = DOMAIN raw \cup Unstored /\ DOMAIN raw \cap Unstored = {}
      /\ UNCHANGED logged /\ DOMAIN raw' = logged
  BY FlushFacts DEF Unstored, DataInv
<1>2. IsFiniteSet(DOMAIN raw) /\ IsFiniteSet(Unstored)
  BY FS_Subset DEF Unstored, DataInv, RowsInv
<1>3. ASSUME NEW t \in Summed PROVE tables'[t] = Buckets(t, DOMAIN raw')
  <2>1. t \in DOMAIN tables /\ t # "hourly"
    BY ColumnsOf DEF Tabled, Summed, DataInv
  <2>2. tables' = CountInto(tables, Unstored) /\ tables[t] = Buckets(t, DOMAIN raw)
    BY DEF Flush, RowsInv
  <2>3. tables'[t] = Upsert(Buckets(t, DOMAIN raw), Buckets(t, Unstored))
    BY <2>1, <2>2 DEF CountInto
  <2> HIDE DEF Unstored
  <2>4. Upsert(Buckets(t, DOMAIN raw), Buckets(t, Unstored)) = Buckets(t, DOMAIN raw \cup Unstored)
    BY <1>1, <1>2, BucketsUpsert
  <2> QED BY <1>1, <2>3, <2>4
<1> QED BY <1>1, <1>3 DEF RowsInv

LEMMA RowsStep ==
  ASSUME BaseInv, DataInv, RowsInv, [Next]_vars
  PROVE  RowsInv'
<1>1. CASE UNCHANGED <<logged, raw, tables>>
  BY <1>1 DEF RowsInv
<1>2. CASE QuietStep
  BY <1>1, <1>2, QuietFrame
<1>3. CASE Traffic
  <2>1. CASE Log
    <3>1. PICK r \in Brought, at \in 0..clock : logged' = logged \cup {[r EXCEPT !.at = at]}
      BY <2>1, LogFacts
    <3>2. IsFiniteSet(logged')
      BY <3>1, FS_AddElement DEF RowsInv
    <3> QED BY <2>1, <3>2 DEF RowsInv, Log
  <2>2. CASE Detect \/ DetectFails
    BY <1>1, <2>2 DEF Detect, DetectFails, traffic
  <2> QED BY <1>3, <2>1, <2>2, FlushRows DEF Traffic
<1>4. CASE CheckWatched
  BY <1>1, <1>4, CheckWatchedFrame DEF flushing, traffic
<1>5. CASE FlagStep
  BY <1>1, <1>5, FlagCases, FlagFrame DEF flushing, traffic
<1>6. CASE Restart
  BY <1>1, <1>6, RestartFrame DEF traffic
<1> QED BY <1>2, <1>3, <1>4, <1>5, <1>6, NextCases DEF QuietStep

LEMMA TableRows ==
  ASSUME DataInv, RowsInv, NEW t \in Summed
  PROVE  /\ IsFiniteSet(DOMAIN tables[t])
         /\ DOMAIN tables[t] = {Key(t, e) : e \in TableEvents(t, DOMAIN raw)}
         /\ \A k \in DOMAIN tables[t] : tables[t][k] = Tally(RowEvents(t, DOMAIN raw, k))
<1> DEFINE mine == TableEvents(t, DOMAIN raw)
           key == [e \in mine |-> Key(t, e)]
<1>1. IsFiniteSet(DOMAIN raw)
  BY FS_Subset DEF DataInv, RowsInv
<1>2. tables[t] = [k \in {Key(t, e) : e \in mine} |-> Tally(RowEvents(t, DOMAIN raw, k))]
  BY BucketsAre DEF RowsInv
<1>3. mine \subseteq DOMAIN raw
  BY DEF TableEvents
<1> HIDE DEF mine
<1>4. IsFiniteSet(mine)
  BY <1>1, <1>3, FS_Subset
<1>5. {key[e] : e \in mine} = DOMAIN tables[t]
  BY <1>2
<1> HIDE DEF key
<1>6. IsFiniteSet({key[e] : e \in mine})
  BY <1>4, ImageFinite
<1> QED BY <1>2, <1>5, <1>6 DEF mine

\* Rows that some events are counted in count those at least.
LEMMA CountedAtLeast ==
  ASSUME DataInv, RowsInv, NEW t \in Summed, NEW keys \in SUBSET DOMAIN tables[t],
         NEW f \in Figures, NEW es \in SUBSET DOMAIN raw,
         \A e \in es : CountedIn(t, e) /\ Key(t, e) \in keys
  PROVE  /\ Sum(tables[t], keys, f) \in Nat /\ Tally(es)[f] \in Nat
         /\ Tally(es)[f] <= Sum(tables[t], keys, f) /\ Tally(es).requests = Cardinality(es)
<1> DEFINE events == DOMAIN raw
           all == {e \in TableEvents(t, events) : Key(t, e) \in keys}
           rows == tables[t]
<1>1. IsFiniteSet(events)
  BY FS_Subset DEF DataInv, RowsInv
<1>2. all \subseteq events /\ es \subseteq all
  BY DEF TableEvents
<1>3. IsFiniteSet(keys) /\ \A k \in keys : rows[k] = Tally(RowEvents(t, events, k))
  BY TableRows, FS_Subset
<1> HIDE DEF events, rows
<1>4. Sum(rows, keys, f) = Tally(all)[f]
  BY <1>1, <1>3, TableSum
<1> HIDE DEF all
<1>5. IsFiniteSet(all)
  BY <1>1, <1>2, FS_Subset
<1> QED BY <1>2, <1>4, <1>5, TallyGrows DEF rows

\* The events of the last day, but for the minute that it begins in.
LastDay == {e \in DOMAIN raw : e.at >= clock - Day + Minute - 1}

LEMMA LastDayFacts ==
  ASSUME BaseInv, DataInv, RowsInv
  PROVE  /\ LastDay \subseteq DOMAIN raw
         /\ \A e \in LastDay : /\ clock - Day <= FloorMinute(e.at) /\ FloorMinute(e.at) <= clock
                               /\ FloorMinute(e.at) \in Nat /\ e.branch \in Branches
<1>1. LastDay \subseteq DOMAIN raw /\ DOMAIN raw \subseteq logged
  BY DEF LastDay, DataInv
<1>2. ASSUME NEW e \in LastDay
      PROVE  /\ clock - Day <= FloorMinute(e.at) /\ FloorMinute(e.at) <= clock
             /\ FloorMinute(e.at) \in Nat /\ e.branch \in Branches
  <2>1. e.at \in 0..clock /\ e.branch \in Branches
    BY <1>1 DEF DataInv
  <2>2. Day \in Nat /\ Minute \in Nat \ {0} /\ clock \in Nat
    BY InsightsAssumption, TablesAssumption DEF BaseInv
  <2>3. /\ FloorMinute(e.at) \in Int /\ FloorMinute(e.at) <= e.at /\ e.at - Minute < FloorMinute(e.at)
        /\ FloorMinute(e.at) \in Nat
    BY <2>1, FloorFacts
  <2>4. e.at >= clock - Day + Minute - 1 /\ e.at \in Nat /\ e.at <= clock
    BY <2>1 DEF LastDay
  <2> QED BY <2>1, <2>2, <2>3, <2>4
<1> QED BY <1>1, <1>2

\* The row of a table that an event of the last day is counted in.
LEMMA RecentRow ==
  ASSUME BaseInv, DataInv, RowsInv, NEW t \in Summed, NEW e \in LastDay, CountedIn(t, e)
  PROVE  /\ Key(t, e) \in Recent(tables[t]) /\ Key(t, e).branch = e.branch
         /\ Key(t, e).at = FloorMinute(e.at) /\ Key(t, e).at <= clock
<1>1. t \notin BlockedTables
  BY ColumnsOf DEF Summed
<1>2. Key(t, e).branch = e.branch /\ Key(t, e).at = FloorMinute(e.at)
  BY <1>1, KeyFacts
<1>3. tables[t] = Buckets(t, DOMAIN raw) /\ e \in DOMAIN raw
  BY LastDayFacts DEF RowsInv
<1>4. Key(t, e) \in DOMAIN tables[t]
  <2>1. e \in TableEvents(t, DOMAIN raw)
    BY <1>3 DEF TableEvents
  <2> QED BY <1>3, <2>1, BucketsAre
<1> QED BY <1>2, <1>4, LastDayFacts DEF Recent

\* QuotaMonitorJob finds who is past the quota.
LEMMA QuotaFound ==
  ASSUME BaseInv, DataInv, RowsInv
  PROVE  PastItsLimit("quota", clock, DOMAIN raw) \subseteq OverQuota
<1> DEFINE rows == Recent(tables.client)
           Mine(b, c) == {e \in LastDay : e.branch = b /\ e.client = c}
           KeysOf(p) == {k \in rows : <<k.branch, k.client>> = p}
<1>1. PastItsLimit("quota", clock, DOMAIN raw) =
        {Anomaly("quota", p[1], p[2], None, clock) : p \in {q \in {<<e.branch, e.client>> : e \in LastDay} :
           LET most == Settings[q[1]].quota IN most > 0 /\ Cardinality(Mine(q[1], q[2])) >= most}}
  BY Zenon DEF PastItsLimit, LastDay
<1>2. OverQuota =
        {Anomaly("quota", p[1], p[2], None, clock) :
          p \in {q \in {<<k.branch, k.client>> : k \in rows} :
                   LET quota == Settings[q[1]].quota IN
                   quota > 0 /\ Sum(tables.client, KeysOf(q), "requests") >= quota}}
  BY Zenon DEF OverQuota
<1>3. ASSUME NEW e \in LastDay
      PROVE  /\ Key("client", e) \in rows /\ Key("client", e).branch = e.branch
             /\ Key("client", e).client = e.client /\ CountedIn("client", e)
  <2>1. CountedIn("client", e)
    BY ColumnsOf DEF CountedIn
  <2> QED BY <2>1, RecentRow, WatchedKeys DEF Summed
<1>4. rows \subseteq DOMAIN tables.client
  BY DEF Recent
<1> HIDE DEF rows
<1>5. ASSUME NEW b, NEW c
      PROVE  /\ Cardinality(Mine(b, c)) \in Nat /\ Sum(tables.client, KeysOf(<<b, c>>), "requests") \in Nat
             /\ Cardinality(Mine(b, c)) <= Sum(tables.client, KeysOf(<<b, c>>), "requests")
  <2> DEFINE es == Mine(b, c)
             keys == KeysOf(<<b, c>>)
  <2>1. \A e \in es : CountedIn("client", e) /\ Key("client", e) \in keys
    BY <1>3
  <2>2. es \subseteq DOMAIN raw /\ keys \subseteq DOMAIN tables["client"]
    BY <1>4, LastDayFacts
  <2> HIDE DEF es, keys
  <2>3. "client" \in Summed /\ "requests" \in Figures
    BY DEF Summed, Figures
  <2>4. /\ Sum(tables["client"], keys, "requests") \in Nat /\ Tally(es)["requests"] \in Nat
        /\ Tally(es)["requests"] <= Sum(tables["client"], keys, "requests")
        /\ Tally(es).requests = Cardinality(es)
    BY <2>1, <2>2, <2>3, CountedAtLeast
  <2> QED BY <2>4 DEF es, keys
<1> HIDE DEF Mine, KeysOf
<1>6. ASSUME NEW e \in LastDay,
             LET most == Settings[e.branch].quota IN most > 0 /\ Cardinality(Mine(e.branch, e.client)) >= most
      PROVE  LET quota == Settings[e.branch].quota IN
             quota > 0 /\ Sum(tables.client, KeysOf(<<e.branch, e.client>>), "requests") >= quota
  <2>1. Settings[e.branch].quota \in Nat
    BY LastDayFacts, InsightsAssumption
  <2> QED BY <1>5, <1>6, <2>1
<1>7. ASSUME NEW f \in PastItsLimit("quota", clock, DOMAIN raw) PROVE f \in OverQuota
  <2>1. PICK e \in LastDay : /\ f = Anomaly("quota", e.branch, e.client, None, clock)
                             /\ LET most == Settings[e.branch].quota IN
                                most > 0 /\ Cardinality(Mine(e.branch, e.client)) >= most
    BY <1>1, <1>7
  <2>2. <<e.branch, e.client>> \in {<<k.branch, k.client>> : k \in rows}
    BY <1>3
  <2> DEFINE p == <<e.branch, e.client>>
  <2>3. LET quota == Settings[p[1]].quota IN
        quota > 0 /\ Sum(tables.client, KeysOf(p), "requests") >= quota
    BY <1>6, <2>1
  <2>4. f = Anomaly("quota", p[1], p[2], None, clock)
    BY <2>1
  <2> HIDE DEF p
  <2> QED BY <1>2, <2>2, <2>3, <2>4 DEF p
<1> QED BY <1>7

\* CategoryUsageMonitorJob finds who has spent the minutes.
LEMMA MinutesFound ==
  ASSUME BaseInv, DataInv, RowsInv
  PROVE  PastItsLimit("minutes", clock, DOMAIN raw) \subseteq OverMinutes
<1> DEFINE rows == {k \in Recent(tables.category) : k.category \notin Exempt}
           Free(e) == e.domain # None /\ Category[e.domain] \notin Exempt
           Mine(b, c) == {e \in LastDay : e.branch = b /\ e.client = c}
           Spent(b, c) == {FloorMinute(e.at) : e \in {x \in Mine(b, c) : Free(x)}}
           MinutesOf(p) == {k.at : k \in {r \in rows : <<r.branch, r.client>> = p}}
<1>1. PastItsLimit("minutes", clock, DOMAIN raw) =
        {Anomaly("minutes", p[1], p[2], None, clock) : p \in {q \in {<<e.branch, e.client>> : e \in LastDay} :
           LET most == Settings[q[1]].minutes IN most > 0 /\ Cardinality(Spent(q[1], q[2])) >= most}}
  <2>1. \A e : ~(e.domain = None \/ Category[e.domain] \in Exempt) <=> Free(e)
    OBVIOUS
  <2> HIDE DEF Free
  <2> QED BY <2>1, Zenon DEF PastItsLimit, LastDay
<1>2. OverMinutes =
        {Anomaly("minutes", p[1], p[2], None, clock) :
          p \in {q \in {<<k.branch, k.client>> : k \in rows} :
                   LET most == Settings[q[1]].minutes IN most > 0 /\ Cardinality(MinutesOf(q)) >= most}}
  BY Zenon DEF OverMinutes
<1>3. ASSUME NEW e \in LastDay, Free(e)
      PROVE  LET k == Key("category", e) IN
             /\ k \in rows /\ k.branch = e.branch /\ k.client = e.client /\ k.at = FloorMinute(e.at)
  <2> DEFINE k == Key("category", e)
  <2>1. CountedIn("category", e)
    BY <1>3, ColumnsOf DEF CountedIn
  <2>2. k \in Recent(tables["category"]) /\ k.branch = e.branch /\ k.at = FloorMinute(e.at)
    BY <2>1, RecentRow DEF Summed
  <2>3. k["client"] = Column("client", e) /\ k["category"] = Column("category", e)
    <3>1. "client" \in Columns["category"] /\ "category" \in Columns["category"]
      BY ColumnsOf
    <3>2. \A c \in Columns["category"] : c # "at" => k[c] = Column(c, e)
      BY KeyFacts
    <3> HIDE DEF k
    <3> QED BY <3>1, <3>2
  <2>4. k.client = e.client /\ k.category = Category[e.domain]
    BY <2>3 DEF Column
  <2> QED BY <1>3, <2>2, <2>4
<1>4. IsFiniteSet(rows)
  <2>1. rows \subseteq DOMAIN tables["category"]
    BY DEF Recent
  <2> HIDE DEF rows
  <2> QED BY <2>1, TableRows, FS_Subset DEF Summed
<1> HIDE DEF rows
<1>5. ASSUME NEW b, NEW c
      PROVE  /\ Cardinality(Spent(b, c)) \in Nat /\ Cardinality(MinutesOf(<<b, c>>)) \in Nat
             /\ Cardinality(Spent(b, c)) <= Cardinality(MinutesOf(<<b, c>>))
  <2> DEFINE at == [k \in rows |-> k.at]
             mine == {r \in rows : <<r.branch, r.client>> = <<b, c>>}
  <2>1. Spent(b, c) \subseteq MinutesOf(<<b, c>>)
    <3>1. ASSUME NEW e \in LastDay, Free(e), e.branch = b, e.client = c
          PROVE  FloorMinute(e.at) \in MinutesOf(<<b, c>>)
      BY <1>3, <3>1
    <3> HIDE DEF MinutesOf, Free
    <3> QED BY <3>1
  <2>2. MinutesOf(<<b, c>>) = {at[k] : k \in mine} /\ mine \subseteq rows
    OBVIOUS
  <2> HIDE DEF at, mine, MinutesOf, Spent
  <2>3. IsFiniteSet(MinutesOf(<<b, c>>))
    BY <1>4, <2>2, ImageFinite, FS_Subset
  <2> QED BY <2>1, <2>3, FS_Subset, FS_CardinalityType
<1>6. ASSUME NEW f \in PastItsLimit("minutes", clock, DOMAIN raw) PROVE f \in OverMinutes
  <2>1. PICK e \in LastDay : /\ f = Anomaly("minutes", e.branch, e.client, None, clock)
                             /\ LET most == Settings[e.branch].minutes IN
                                most > 0 /\ Cardinality(Spent(e.branch, e.client)) >= most
    <3> HIDE DEF Spent
    <3> QED BY <1>1, <1>6
  <2>2. Settings[e.branch].minutes \in Nat
    BY LastDayFacts, InsightsAssumption
  <2>3. Spent(e.branch, e.client) # {}
    <3> HIDE DEF Spent
    <3> QED BY <2>1, <2>2, FS_EmptySet
  <2>4. PICK x \in LastDay : Free(x) /\ x.branch = e.branch /\ x.client = e.client
    BY <2>3
  <2> DEFINE p == <<e.branch, e.client>>
  <2>5. p \in {<<k.branch, k.client>> : k \in rows}
    BY <1>3, <2>4
  <2> HIDE DEF Spent, MinutesOf
  <2>6. LET most == Settings[p[1]].minutes IN most > 0 /\ Cardinality(MinutesOf(p)) >= most
    <3>1. p = <<e.branch, e.client>> /\ p[1] = e.branch
      OBVIOUS
    <3> HIDE DEF p
    <3> QED BY <1>5, <2>1, <2>2, <3>1
  <2>7. f = Anomaly("minutes", p[1], p[2], None, clock)
    BY <2>1
  <2> HIDE DEF p
  <2> QED BY <1>2, <2>5, <2>6, <2>7
<1> QED BY <1>6

\* The requests that the table counts for a domain, of a branch's last day.
AskedFor(b, d) ==
  {e \in DOMAIN raw : e.branch = b /\ e.domain = d /\ FloorMinute(e.at) >= clock - Day}

Counts(b) == Domains(tables, clock - Day, clock, {b}, "requests")

LEMMA CountsAre ==
  ASSUME BaseInv, DataInv, RowsInv, NEW b \in Branches
  PROVE  /\ \A d \in DOMAIN Counts(b) : /\ d # None /\ AskedFor(b, d) # {}
                                        /\ Counts(b)[d] = Cardinality(AskedFor(b, d))
         /\ \A d : d # None /\ AskedFor(b, d) # {} => d \in DOMAIN Counts(b)
<1> DEFINE rows == tables["domain"]
           keys == InRange(rows, clock - Day, clock, {b})
           KeysOf(d) == {k \in keys : k.domain = d}
<1>1. Counts(b) = [g \in {k.domain : k \in keys} |-> Sum(rows, KeysOf(g), "requests")]
  BY Zenon DEF Counts, Domains, GroupBy
<1>2. "domain" \in Summed /\ "requests" \in Figures
  BY DEF Summed, Figures
<1>3. /\ IsFiniteSet(DOMAIN rows)
      /\ DOMAIN rows = {Key("domain", e) : e \in TableEvents("domain", DOMAIN raw)}
      /\ \A k \in DOMAIN rows : rows[k] = Tally(RowEvents("domain", DOMAIN raw, k))
  BY <1>2, TableRows
<1>4. \A e : CountedIn("domain", e) <=> e.domain # None
  BY ColumnsOf DEF CountedIn
<1>5. \A e : /\ Key("domain", e).domain = e.domain /\ Key("domain", e).branch = e.branch
             /\ Key("domain", e).at = FloorMinute(e.at)
  BY WatchedKeys
<1>6. \A e \in DOMAIN raw : FloorMinute(e.at) <= clock
  BY FloorFacts DEF DataInv, BaseInv
<1> HIDE DEF rows
<1>7. keys = {k \in DOMAIN rows : clock - Day <= k.at /\ k.at <= clock /\ k.branch = b}
  BY ScopeAssumption DEF InRange, BranchMatches, Unrestricted
<1> HIDE DEF keys
<1>8. ASSUME NEW d, d # None
      PROVE  {e \in TableEvents("domain", DOMAIN raw) : Key("domain", e) \in KeysOf(d)} = AskedFor(b, d)
  <2>1. ASSUME NEW e \in TableEvents("domain", DOMAIN raw), Key("domain", e) \in KeysOf(d)
        PROVE  e \in AskedFor(b, d)
    <3>1. Key("domain", e).branch = b /\ Key("domain", e).at >= clock - Day /\ Key("domain", e).domain = d
      <4>1. Key("domain", e).at \in Int /\ clock - Day \in Int
        BY <1>5, FloorFacts, InsightsAssumption DEF DataInv, TableEvents, BaseInv
      <4> QED BY <1>7, <2>1, <4>1
    <3> QED BY <1>5, <3>1 DEF TableEvents, AskedFor
  <2>2. ASSUME NEW e \in AskedFor(b, d)
        PROVE  e \in TableEvents("domain", DOMAIN raw) /\ Key("domain", e) \in KeysOf(d)
    <3>1. e \in TableEvents("domain", DOMAIN raw) /\ e \in DOMAIN raw /\ FloorMinute(e.at) >= clock - Day
      BY <1>4, <1>8 DEF TableEvents, AskedFor
    <3>2. Key("domain", e) \in DOMAIN rows
      BY <1>3, <3>1
    <3>3. Key("domain", e).at \in Int /\ clock - Day \in Int
      BY <1>5, <3>1, FloorFacts, InsightsAssumption DEF DataInv, BaseInv
    <3>4. /\ clock - Day <= Key("domain", e).at /\ Key("domain", e).at <= clock
          /\ Key("domain", e).branch = b /\ Key("domain", e).domain = d
      BY <1>5, <1>6, <3>1, <3>3 DEF AskedFor
    <3> QED BY <1>7, <3>1, <3>2, <3>4
  <2> HIDE DEF KeysOf
  <2> QED BY <2>1, <2>2
<1>9. IsFiniteSet(DOMAIN raw) /\ IsFiniteSet(keys) /\ keys \subseteq DOMAIN rows
  BY <1>3, <1>7, FS_Subset DEF DataInv, RowsInv
<1>10. ASSUME NEW d, d # None
       PROVE  Sum(rows, KeysOf(d), "requests") = Cardinality(AskedFor(b, d))
  <2> DEFINE some == KeysOf(d)
  <2>1. IsFiniteSet(some) /\ some \subseteq DOMAIN rows
    BY <1>9, FS_Subset
  <2>2. \A k \in some : rows[k] = Tally(RowEvents("domain", DOMAIN raw, k))
    BY <1>3, <2>1
  <2>3. {e \in TableEvents("domain", DOMAIN raw) : Key("domain", e) \in some} = AskedFor(b, d)
    BY <1>8, <1>10
  <2> HIDE DEF some
  <2>4. Sum(rows, some, "requests") = Tally(AskedFor(b, d))["requests"]
    BY <1>2, <1>9, <2>1, <2>2, <2>3, TableSum
  <2>5. Tally(AskedFor(b, d))["requests"] = Cardinality(AskedFor(b, d))
    BY Zenon DEF Tally
  <2> QED BY <2>4, <2>5 DEF some
<1>11. ASSUME NEW k \in keys PROVE k.domain # None /\ AskedFor(b, k.domain) # {}
  <2>1. PICK e \in TableEvents("domain", DOMAIN raw) : k = Key("domain", e)
    BY <1>3, <1>9
  <2>2. k.domain # None
    BY <1>4, <1>5, <2>1 DEF TableEvents
  <2> QED BY <1>8, <2>1, <2>2
<1>12. ASSUME NEW d, d # None, AskedFor(b, d) # {} PROVE \E k \in keys : k.domain = d
  BY <1>8, <1>12
<1> HIDE DEF KeysOf
<1> QED BY <1>1, <1>10, <1>11, <1>12

\* UncategorizedDomainMonitorJob finds what is asked for that often, unless
\* others crowd it out of what it looks at.
LEMMA RequestsFound ==
  ASSUME BaseInv, DataInv, RowsInv, NEW tops, \A b \in Branches : TopUncategorized(b, tops[b]),
         NEW f \in PastItsLimit("uncategorized", clock, DOMAIN raw)
  PROVE  f \in OverRequests(tops) \/ Crowded(f, DOMAIN raw)
<1> DEFINE Mine(b, d) == {e \in LastDay : e.branch = b /\ e.domain = d}
           Past(b, d) == LET most == Settings[b].requests IN
                         /\ most > 0 /\ Category[d] = "uncategorized"
                         /\ Cardinality(Mine(b, d)) >= most
<1>1. PastItsLimit("uncategorized", clock, DOMAIN raw) =
        {Anomaly("uncategorized", p[1], None, p[2], clock) :
           p \in {q \in {<<e.branch, e.domain>> : e \in {x \in LastDay : x.domain # None}} : Past(q[1], q[2])}}
  BY Zenon DEF PastItsLimit, LastDay
<1>2. PICK r \in LastDay : /\ f = Anomaly("uncategorized", r.branch, None, r.domain, clock)
                           /\ r.domain # None /\ Past(r.branch, r.domain)
  <2> HIDE DEF Past
  <2> QED BY <1>1
<1> DEFINE b == r.branch
           d == r.domain
           top == tops[b]
           most == Settings[b].requests
           all == {c \in DOMAIN Counts(b) : Category[c] = "uncategorized"}
<1>3. b \in Branches /\ most \in Nat /\ most > 0 /\ Category[d] = "uncategorized" /\ d # None
  BY <1>2, LastDayFacts, InsightsAssumption
<1>4. IsFiniteSet(DOMAIN raw)
  BY FS_Subset DEF DataInv, RowsInv
<1>5. Mine(b, d) \subseteq AskedFor(b, d) /\ r \in AskedFor(b, d)
  <2>1. \A e \in LastDay : e \in DOMAIN raw /\ FloorMinute(e.at) >= clock - Day
    BY LastDayFacts, InsightsAssumption DEF BaseInv
  <2> QED BY <2>1 DEF AskedFor
<1>6. \A c : IsFiniteSet(AskedFor(b, c)) /\ Cardinality(AskedFor(b, c)) \in Nat
  BY <1>4, FS_Subset, FS_CardinalityType DEF AskedFor
<1>7. Cardinality(AskedFor(b, d)) >= most
  <2>1. IsFiniteSet(Mine(b, d)) /\ Cardinality(Mine(b, d)) <= Cardinality(AskedFor(b, d))
    BY <1>5, <1>6, FS_Subset
  <2>2. Cardinality(Mine(b, d)) \in Nat
    BY <2>1, FS_CardinalityType
  <2> HIDE DEF Mine
  <2> QED BY <1>2, <1>3, <1>6, <2>1, <2>2
<1>8. d \in all /\ \A c \in all : /\ c # None /\ AskedFor(b, c) # {}
                                  /\ Counts(b)[c] = Cardinality(AskedFor(b, c))
  BY <1>3, <1>5, CountsAre
<1>9. /\ top \subseteq all /\ Cardinality(top) = Min({Candidates, Cardinality(all)})
      /\ \A c \in top, o \in all \ top : Counts(b)[c] >= Counts(b)[o]
  BY <1>3, Zenon DEF TopUncategorized, Counts
<1> HIDE DEF Past, b, top, most, all
<1>10. CASE d \in top
  <2> DEFINE found(p) == LET counts == Domains(tables, clock - Day, clock, {p}, "requests")
                             least  == Settings[p].requests
                         IN {Anomaly("uncategorized", p, None, c, clock) :
                               c \in {o \in tops[p] : least > 0 /\ counts[o] >= least}}
  <2>1. Counts(b)[d] >= most
    BY <1>7, <1>8
  <2>2. Anomaly("uncategorized", b, None, d, clock) \in found(b)
    BY <1>3, <1>10, <2>1 DEF Counts, top, most
  <2>3. OverRequests(tops) = UNION {found(p) : p \in Branches}
    BY Zenon DEF OverRequests
  <2> HIDE DEF found
  <2> QED BY <1>2, <1>3, <2>2, <2>3 DEF b
<1>11. CASE d \notin top
  <2> DEFINE Asked(c) == {e \in DOMAIN raw : /\ e.branch = f.branch /\ e.domain = c
                                            /\ FloorMinute(e.at) >= f.at - Day}
             names == {e.domain : e \in DOMAIN raw}
             others == {c \in names \ {None, f.domain} :
                          /\ Category[c] = "uncategorized"
                          /\ Cardinality(Asked(c)) >= Cardinality(Asked(f.domain))}
  <2>1. f.kind = "uncategorized" /\ f.branch = b /\ f.domain = d /\ f.at = clock
    BY <1>2, AnomalyFacts DEF b
  <2>2. \A c : Asked(c) = AskedFor(b, c)
    BY <2>1 DEF AskedFor
  <2> HIDE DEF Asked
  <2>3. all \subseteq names
    BY <1>8 DEF AskedFor
  <2>4. IsFiniteSet(names)
    <3> DEFINE name == [e \in DOMAIN raw |-> e.domain]
    <3>1. names = {name[e] : e \in DOMAIN raw}
      OBVIOUS
    <3> HIDE DEF name, names
    <3> QED BY <1>4, <3>1, ImageFinite
  <2>5. top \subseteq others
    BY <1>8, <1>9, <1>11, <2>1, <2>2, <2>3 DEF all
  <2>6. IsFiniteSet(all) /\ IsFiniteSet(others)
    <3>1. others \subseteq names
      OBVIOUS
    <3> HIDE DEF names, others
    <3> QED BY <2>3, <2>4, <3>1, FS_Subset
  <2> HIDE DEF names
  <2>7. Cardinality(top) # Cardinality(all)
    BY <1>8, <1>9, <1>11, <2>6, FS_Subset
  <2>8. Cardinality(top) = Candidates
    <3> DEFINE n == Cardinality(all)
               S == {Candidates, n}
    <3>1. n \in Nat /\ Candidates \in Nat
      BY <2>6, FS_CardinalityType, InsightsAssumption
    <3> HIDE DEF n
    <3>2. S \in SUBSET (0..(Candidates + n)) /\ S # {} /\ Candidates + n \in Nat
      BY <3>1
    <3> HIDE DEF S
    <3>3. Min(S) \in S
      BY <3>2, MinWithin
    <3> QED BY <1>9, <2>7, <3>3 DEF S, n
  <2>9. Cardinality(others) >= Candidates
    <3> HIDE DEF others
    <3>1. Cardinality(top) <= Cardinality(others) /\ Cardinality(others) \in Nat /\ Candidates \in Nat
      BY <2>5, <2>6, FS_Subset, FS_CardinalityType, InsightsAssumption
    <3> QED BY <2>8, <3>1
  <2> QED BY <2>1, <2>9 DEF Crowded, Asked, names
<1> QED BY <1>10, <1>11

\* What a monitor finds stays flagged; what it should have found it found.
LEMMA FlagHolds ==
  ASSUME BaseInv, DataInv, NEW kind, NEW found, NEW cooldown \in Nat, Flag(kind, found, cooldown),
         Apart(kind) = cooldown + 1, \A a \in found : Shape(a) /\ a.kind = kind /\ a.at = clock,
         \A f \in PastItsLimit(kind, clock, DOMAIN raw) : f \in found \/ Crowded(f, DOMAIN raw)
  PROVE  LimitIsFlagged'
<1>1. left' = left /\ left.job = kind
  BY FlagFrame
<1>2. past' = [past EXCEPT !.checked = clock, !.known = DOMAIN raw]
  BY DEF Flag
<1>3. past'.checked = clock /\ past'.known = DOMAIN raw
  BY <1>2 DEF BaseInv, PastShape
<1> DEFINE cutoff == clock - cooldown
           new == {a \in found : ~Flagged(a, cutoff)}
<1>4. anomalies' = anomalies \cup new
  BY DEF Flag
<1>5. ASSUME NEW f \in found
      PROVE  Flagged(f, f.at - Apart(f.kind) + 1)'
  <2>1. f.at - Apart(f.kind) + 1 = cutoff /\ f.at >= cutoff
    <3>1. f.at = clock /\ f.kind = kind /\ clock \in Nat
      BY DEF BaseInv
    <3> QED BY <3>1
  <2> HIDE DEF cutoff
  <2>2. CASE Flagged(f, cutoff)
    BY <1>4, <2>1, <2>2 DEF Flagged
  <2>3. CASE f \in new
    <3>1. [f EXCEPT !.at = f.at] = f
      BY AlikeFacts DEF Alike
    <3> QED BY <1>4, <2>1, <2>3, <3>1 DEF Flagged
  <2> QED BY <2>2, <2>3
<1>6. PastItsLimit(left.job, past.checked, past.known)' = PastItsLimit(kind, clock, DOMAIN raw)
  BY <1>1, <1>3
<1>7. \A f : Crowded(f, past.known)' <=> Crowded(f, DOMAIN raw)
  BY <1>3 DEF Crowded
<1> QED BY <1>5, <1>6, <1>7 DEF LimitIsFlagged

\* Rows stay, and until the next run the same is past its limit.
LEMMA LimitKept ==
  ASSUME LimitIsFlagged, left'.job = left.job, UNCHANGED <<past.checked, past.known>>,
         anomalies \subseteq anomalies'
  PROVE  LimitIsFlagged'
BY DEF LimitIsFlagged, Flagged, Crowded

LEMMA NothingPast ==
  ASSUME NEW kind, kind \notin {"quota", "minutes", "uncategorized"}, NEW now, NEW known
  PROVE  PastItsLimit(kind, now, known) = {}
BY DEF PastItsLimit

LEMMA FlagLimits ==
  ASSUME BaseInv, DataInv, RowsInv, FlagStep
  PROVE  LimitIsFlagged'
<1>1. Day \in Nat /\ ReFlag \in Nat
  BY InsightsAssumption
<1>2. CASE CheckQuotas
  BY <1>1, <1>2, FlagHolds, MonitorFacts, QuotaFound, ApartNumbers DEF CheckQuotas
<1>3. CASE CheckMinutes
  BY <1>1, <1>3, FlagHolds, MonitorFacts, MinutesFound, ApartNumbers DEF CheckMinutes
<1>4. CASE CheckUncategorized
  <2>1. PICK tops \in [Branches -> SUBSET DOMAIN Category] :
          /\ \A b \in Branches : TopUncategorized(b, tops[b])
          /\ Flag("uncategorized", OverRequests(tops), ReFlag)
    BY <1>4 DEF CheckUncategorized
  <2>2. \A f \in PastItsLimit("uncategorized", clock, DOMAIN raw) :
          f \in OverRequests(tops) \/ Crowded(f, DOMAIN raw)
    BY <2>1, RequestsFound
  <2> QED BY <1>1, <2>1, <2>2, FlagHolds, MonitorFacts, ApartNumbers
<1>5. CASE CheckExports
  BY <1>1, <1>5, FlagHolds, MonitorFacts, NothingPast, ApartNumbers DEF CheckExports
<1> QED BY <1>2, <1>3, <1>4, <1>5 DEF FlagStep

LEMMA LimitStep ==
  ASSUME BaseInv, ReportInv, DataInv, RowsInv, LimitIsFlagged, [Next]_vars
  PROVE  LimitIsFlagged'
<1>1. left'.job = left.job
  BY BaseStep DEF LeftKept
<1>2. CASE QuietStep
  BY <1>1, <1>2, QuietFrame, LimitKept DEF WatchPast
<1>3. CASE Traffic
  <2>1. UNCHANGED past
    BY <1>3, TrafficFrame
  <2>2. anomalies \subseteq anomalies'
    BY <1>3 DEF Traffic, Log, Flush, Detect, DetectFails
  <2> QED BY <1>1, <2>1, <2>2, LimitKept
<1>4. CASE CheckWatched
  <2>1. left'.job = "watch"
    BY <1>1, <1>4, CheckWatchedFrame
  <2>2. PastItsLimit(left.job, past.checked, past.known)' = {}
    BY <2>1, NothingPast
  <2> QED BY <2>2 DEF LimitIsFlagged
<1>5. CASE Restart
  BY <1>1, <1>5, RestartFrame, LimitKept DEF WatchPast
<1> QED BY <1>2, <1>3, <1>4, <1>5, FlagLimits, NextCases DEF QuietStep

LEMMA LimitInit == Init => LimitIsFlagged
<1> SUFFICES ASSUME Init, NEW f \in PastItsLimit(left.job, past.checked, past.known) PROVE FALSE
  BY DEF LimitIsFlagged
<1>1. past.known = {}
  BY DEF Init
<1>2. PastItsLimit(left.job, past.checked, {}) = {}
  BY DEF PastItsLimit
<1> QED BY <1>1, <1>2

\* The rules, window by window.
RuleHits(s, n, e, r) ==
  LET now == GeneratedAt(Of(s[n].events, e.branch)) IN
  {x \in UNION {s[m].events : m \in 1..n} :
     /\ x.branch = r.branch /\ (r.scope = "branch" \/ x[r.scope] = e[r.scope])
     /\ now - r.window + Minute - 1 <= x.at /\ x.at <= now}

Ruled(s, n, rows) ==
  \A e \in s[n].events : \A r \in Rules :
    (/\ ~s[n].failed /\ e.domain # None /\ r.branch = e.branch
     /\ Tally(RuleHits(s, n, e, r))[r.metric] > r.threshold) =>
       \E a \in rows : a.kind = r.kind /\ a.at >= GeneratedAt(Of(s[n].events, e.branch)) - Cooldown

RuledAll(s, rows) == \A n \in DOMAIN s : Ruled(s, n, rows)

LEMMA RulesByWindow ==
  /\ RulesAreHeld <=> RuledAll(analyzed, anomalies)
  /\ RulesAreHeld' <=> RuledAll(analyzed', anomalies')
<1> USE DEF Of
<1>1. RulesAreHeld <=> \A n \in DOMAIN analyzed : Ruled(analyzed, n, anomalies)
  BY Zenon DEF RulesAreHeld, Ruled, RuleHits
<1>2. RulesAreHeld' <=> \A n \in DOMAIN analyzed' : Ruled(analyzed', n, anomalies')
  BY Zenon DEF RulesAreHeld, Ruled, RuleHits
<1> QED BY <1>1, <1>2 DEF RuledAll

LEMMA RuledKept ==
  ASSUME NEW s, NEW r, NEW n \in Nat \ {0}, \A m \in 1..n : r[m] = s[m],
         NEW rows, NEW more, rows \subseteq more, Ruled(s, n, rows)
  PROVE  Ruled(r, n, more)
<1>1. r[n] = s[n] /\ {r[m].events : m \in 1..n} = {s[m].events : m \in 1..n}
  OBVIOUS
<1>2. \A e, q : RuleHits(r, n, e, q) = RuleHits(s, n, e, q)
  BY <1>1 DEF RuleHits
<1> QED BY <1>1, <1>2 DEF Ruled

\* The rows that a rule sums up count the requests of its window.
LEMMA RuleSum ==
  ASSUME DataInv, RowsInv, NEW r \in Rules, NEW target, NEW now \in Nat, NEW es \in SUBSET DOMAIN raw,
         \A x \in es : /\ x.branch = r.branch /\ now - r.window + Minute - 1 <= x.at /\ x.at <= now
                       /\ r.scope # "branch" => x[r.scope] = target,
         r.scope = "domain" => target # None
  PROVE  /\ SumMetric(r, target, now) \in Nat /\ Tally(es)[r.metric] \in Nat
         /\ Tally(es)[r.metric] <= SumMetric(r, target, now)
<1> DEFINE t == CASE r.scope = "client" -> "client" [] r.scope = "domain" -> "domain"
                  [] r.scope = "branch" -> "minute"
           keys == {k \in InRange(tables[t], now - r.window, now, {r.branch}) :
                      r.scope = "branch" \/ k[r.scope] = target}
<1>1. /\ r.scope \in {"client", "domain", "branch"} /\ r.metric \in Figures
      /\ r.window \in Nat /\ Minute \in Nat \ {0}
  BY InsightsAssumption, TablesAssumption
<1>2. /\ r.scope = "client" => t = "client"
      /\ r.scope = "domain" => t = "domain"
      /\ r.scope = "branch" => t = "minute"
  OBVIOUS
<1> HIDE DEF t
<1>3. t \in Summed /\ t \in {"client", "domain", "minute"} /\ t \notin BlockedTables
  BY <1>1, <1>2, ColumnsOf DEF Summed
<1>4. SumMetric(r, target, now) = Sum(tables[t], keys, r.metric)
  BY Zenon DEF SumMetric, t
<1>5. keys \subseteq DOMAIN tables[t]
  BY DEF InRange
<1>6. ASSUME NEW x \in es PROVE CountedIn(t, x) /\ Key(t, x) \in keys
  <2> DEFINE k == Key(t, x)
  <2>1. CountedIn(t, x)
    <3>1. t = "domain" => x.domain # None
      BY <1>1, <1>2
    <3> QED BY <1>3, <3>1 DEF CountedIn
  <2>2. k \in DOMAIN tables[t]
    <3>1. x \in TableEvents(t, DOMAIN raw)
      BY <2>1 DEF TableEvents
    <3> QED BY <1>3, <3>1, TableRows
  <2>3. k.branch = x.branch /\ k.at = FloorMinute(x.at)
    BY <1>3, KeyFacts
  <2>4. now - r.window <= k.at /\ k.at <= now
    <3>1. x.at \in Int
      BY DEF DataInv
    <3>2. FloorMinute(x.at) \in Int /\ FloorMinute(x.at) <= x.at /\ x.at - Minute < FloorMinute(x.at)
      BY <3>1, FloorFacts
    <3> QED BY <1>1, <2>3, <3>1, <3>2
  <2>5. r.scope = "branch" \/ k[r.scope] = target
    BY <1>1, <1>2, WatchedKeys
  <2> HIDE DEF k
  <2>6. k \in InRange(tables[t], now - r.window, now, {r.branch})
    BY <2>2, <2>3, <2>4 DEF InRange, BranchMatches
  <2> QED BY <2>1, <2>5, <2>6 DEF k
<1> HIDE DEF keys
<1>7. PICK f \in Figures : f = r.metric
  BY <1>1
<1>8. \A x \in es : CountedIn(t, x) /\ Key(t, x) \in keys
  BY <1>6
<1>9. /\ Sum(tables[t], keys, f) \in Nat /\ Tally(es)[f] \in Nat
      /\ Tally(es)[f] <= Sum(tables[t], keys, f)
  BY <1>3, <1>5, <1>8, CountedAtLeast
<1> QED BY <1>4, <1>7, <1>9

\* What a rule is past is found, or was flagged within the cooldown.
LEMMA RuleFound ==
  ASSUME DataInv, NEW events, NEW e \in events, NEW r \in Rules, r.branch = e.branch, NEW now \in Int,
         now = GeneratedAt(Of(events, e.branch)), NEW target,
         target \in RuleTargets(r, Of(events, e.branch)), SumMetric(r, target, now) > r.threshold
  PROVE  \E a \in anomalies \cup DetectAnomalies(events) : a.kind = r.kind /\ a.at >= now - Cooldown
<1> DEFINE b == e.branch
           es == {x \in events : x.branch = b}
           a == Anomaly(r.kind, b, IF r.scope = "client" THEN target ELSE None,
                        IF r.scope = "domain" THEN target ELSE None, GeneratedAt(es))
           found == TrafficSpike(es, b) \cup NewBlockedDomains(es, b)
                    \cup ClientsBlocked(es, b) \cup CustomRules(es, b)
<1>1. es = Of(events, b) /\ b \in {x.branch : x \in events} /\ GeneratedAt(es) = now
  BY DEF Of
<1> HIDE DEF es
<1>2. a \in CustomRules(es, b)
  <2> DEFINE Raised(q) == {Anomaly(q.kind, b, IF q.scope = "client" THEN x ELSE None,
                                   IF q.scope = "domain" THEN x ELSE None, GeneratedAt(es)) :
                             x \in {y \in RuleTargets(q, es) : SumMetric(q, y, GeneratedAt(es)) > q.threshold}}
  <2>1. CustomRules(es, b) = UNION {Raised(q) : q \in {p \in Rules : p.branch = b}}
    BY Zenon DEF CustomRules
  <2>2. a \in Raised(r)
    BY <1>1
  <2> HIDE DEF Raised
  <2> QED BY <2>1, <2>2
<1>3. a.kind = r.kind /\ a.at = now
  BY <1>1, AnomalyFacts
<1>4. Cooldown \in Nat
  BY InsightsAssumption
<1> HIDE DEF a
<1>5. CASE ~Flagged(a, a.at - Cooldown)
  <2>1. a \in {x \in found : ~Flagged(x, x.at - Cooldown)} \cup SensitiveVisits(es, b)
    BY <1>2, <1>5
  <2>2. a \in DetectAnomalies(events)
    BY <1>1, <2>1, Zenon DEF DetectAnomalies, es
  <2> QED BY <1>3, <1>4, <2>2
<1>6. CASE Flagged(a, a.at - Cooldown)
  <2>1. PICK old \in anomalies : [old EXCEPT !.at = a.at] = a /\ old.at >= a.at - Cooldown
    BY <1>6 DEF Flagged
  <2>2. old.kind = a.kind
    BY <2>1 DEF DataInv, Shape
  <2> QED BY <1>3, <2>1, <2>2
<1> QED BY <1>5, <1>6

\* The window that is looked at last, after those before it.
LEMMA RulesAppended ==
  ASSUME FirstInv, RulesAreHeld, NEW row, analyzed' = Append(analyzed, row),
         anomalies \subseteq anomalies', Ruled(analyzed', Len(analyzed) + 1, anomalies')
  PROVE  RulesAreHeld'
<1> DEFINE n == Len(analyzed) + 1
<1>1. /\ Len(analyzed) \in Nat /\ DOMAIN analyzed = 1..Len(analyzed) /\ DOMAIN analyzed' = 1..n
      /\ \A m \in DOMAIN analyzed : analyzed'[m] = analyzed[m]
  <2>1. analyzed \in Seq(Analyses)
    BY DEF FirstInv, Analyses
  <2> QED BY <2>1
<1>2. ASSUME NEW m \in DOMAIN analyzed' PROVE Ruled(analyzed', m, anomalies')
  <2>1. CASE m = n
    BY <2>1
  <2>2. CASE m # n
    <3>1. m \in DOMAIN analyzed /\ m \in Nat \ {0} /\ \A k \in 1..m : analyzed'[k] = analyzed[k]
      BY <1>1, <2>2
    <3>2. Ruled(analyzed, m, anomalies)
      BY <3>1, RulesByWindow DEF RuledAll
    <3> QED BY <3>1, <3>2, RuledKept
  <2> QED BY <2>1, <2>2
<1> QED BY <1>2, RulesByWindow DEF RuledAll

LEMMA FailedRules ==
  ASSUME FirstInv, RulesAreHeld, UNCHANGED anomalies,
         analyzed' = Append(analyzed, [Analysis EXCEPT !.failed = TRUE])
  PROVE  RulesAreHeld'
<1> DEFINE row == [Analysis EXCEPT !.failed = TRUE]
           n   == Len(analyzed) + 1
<1>1. row.failed
  BY DEF Analysis
<1>2. analyzed'[n] = row
  BY DEF FirstInv
<1>3. Ruled(analyzed', n, anomalies')
  BY <1>1, <1>2 DEF Ruled
<1> HIDE DEF row
<1> QED BY <1>3, RulesAppended DEF row

LEMMA DetectRules ==
  ASSUME BaseInv, DataInv, RowsInv, FirstInv, RulesAreHeld, Detect
  PROVE  RulesAreHeld'
<1> DEFINE new == DetectAnomalies(window)
           row == [Analysis EXCEPT !.found = new]
           n   == Len(analyzed) + 1
<1>1. analyzed' = Append(analyzed, row) /\ anomalies' = anomalies \cup new
  BY DEF Detect
<1> HIDE DEF new
<1>2. row.events = window
  BY DEF Analysis
<1> HIDE DEF row
<1>3. /\ n \in Nat \ {0} /\ analyzed'[n] = row
      /\ \A m \in 1..n : analyzed'[m].events \subseteq DOMAIN raw
  <2>1. analyzed \in Seq(Analyses)
    BY DEF FirstInv, Analyses
  <2>2. /\ Len(analyzed) \in Nat /\ \A m \in 1..Len(analyzed) : analyzed[m] \in Analyses
        /\ analyzed'[n] = row /\ \A m \in 1..Len(analyzed) : analyzed'[m] = analyzed[m]
    BY <1>1, <2>1
  <2>3. \A m \in 1..n : m = n \/ m \in 1..Len(analyzed)
    BY <2>2
  <2> QED BY <1>2, <2>2, <2>3 DEF Analyses, DataInv
<1> HIDE DEF n
<1>4. ASSUME NEW e \in window, NEW r \in Rules, e.domain # None, r.branch = e.branch,
             Tally(RuleHits(analyzed', n, e, r))[r.metric] > r.threshold
      PROVE  \E a \in anomalies' : a.kind = r.kind /\ a.at >= GeneratedAt(Of(window, e.branch)) - Cooldown
  <2> DEFINE now == GeneratedAt(Of(window, e.branch))
             hits == RuleHits(analyzed', n, e, r)
             target == IF r.scope = "branch" THEN None ELSE e[r.scope]
  <2>1. now \in Nat
    <3>1. \A x \in window : x.at \in 0..clock
      BY DEF DataInv
    <3>2. e.branch \in {x.branch : x \in window} /\ clock \in Nat
      BY DEF BaseInv
    <3>3. now \in 0..clock
      BY <3>1, <3>2, GeneratedAtFacts DEF Of
    <3> QED BY <3>2, <3>3
  <2>2. /\ hits \subseteq DOMAIN raw
        /\ \A x \in hits : /\ x.branch = r.branch /\ now - r.window + Minute - 1 <= x.at /\ x.at <= now
                           /\ r.scope # "branch" => x[r.scope] = e[r.scope]
    BY <1>2, <1>3 DEF RuleHits
  <2>3. r.scope \in {"client", "domain", "branch"} /\ r.threshold \in Int
    BY InsightsAssumption
  <2>4. target \in RuleTargets(r, Of(window, e.branch))
    BY <1>4, <2>3 DEF RuleTargets, Of
  <2>5. r.scope = "domain" => target # None
    BY <1>4
  <2>6. /\ \A x \in hits : r.scope # "branch" => x[r.scope] = target
        /\ Tally(hits)[r.metric] > r.threshold
    BY <1>4, <2>2
  <2> HIDE DEF now, hits, target
  <2>7. /\ SumMetric(r, target, now) \in Nat /\ Tally(hits)[r.metric] \in Nat
        /\ Tally(hits)[r.metric] <= SumMetric(r, target, now)
    BY <2>1, <2>2, <2>5, <2>6, RuleSum
  <2>8. SumMetric(r, target, now) > r.threshold
    BY <2>3, <2>6, <2>7
  <2>9. \E a \in anomalies \cup DetectAnomalies(window) : a.kind = r.kind /\ a.at >= now - Cooldown
    BY <1>4, <2>1, <2>4, <2>8, RuleFound DEF now
  <2> QED BY <1>1, <2>9 DEF new, now
<1>5. Ruled(analyzed', n, anomalies')
  BY <1>2, <1>3, <1>4 DEF Ruled
<1>6. anomalies \subseteq anomalies'
  BY <1>1
<1> QED BY <1>1, <1>5, <1>6, RulesAppended DEF n

\* Windows that were looked at keep their rows.
LEMMA RulesKept ==
  ASSUME FirstInv, RulesAreHeld, UNCHANGED analyzed, anomalies \subseteq anomalies'
  PROVE  RulesAreHeld'
<1>1. DOMAIN analyzed = 1..Len(analyzed) /\ Len(analyzed) \in Nat
  BY DEF FirstInv
<1>2. ASSUME NEW n \in DOMAIN analyzed' PROVE Ruled(analyzed', n, anomalies')
  <2>1. n \in Nat \ {0} /\ Ruled(analyzed, n, anomalies) /\ \A k \in 1..n : analyzed'[k] = analyzed[k]
    BY <1>1, RulesByWindow DEF RuledAll
  <2> QED BY <2>1, RuledKept
<1> QED BY <1>2, RulesByWindow DEF RuledAll

LEMMA RulesStep ==
  ASSUME BaseInv, DataInv, RowsInv, FirstInv, RulesAreHeld, [Next]_vars
  PROVE  RulesAreHeld'
<1>1. CASE QuietStep
  BY <1>1, QuietFrame, RulesKept
<1>2. CASE Traffic
  <2>1. CASE Log \/ Flush
    BY <2>1, RulesKept DEF Log, Flush
  <2>2. CASE DetectFails
    BY <2>2, FailedRules DEF DetectFails
  <2> QED BY <1>2, <2>1, <2>2, DetectRules DEF Traffic
<1>3. CASE CheckWatched
  <2>1. UNCHANGED analyzed /\ anomalies \subseteq anomalies'
    BY <1>3 DEF CheckWatched, flushing
  <2> QED BY <2>1, RulesKept
<1>4. CASE FlagStep
  <2>1. UNCHANGED analyzed /\ anomalies \subseteq anomalies'
    BY <1>4, FlagCases DEF Flag, flushing
  <2> QED BY <2>1, RulesKept
<1>5. CASE Restart
  <2>1. UNCHANGED anomalies
    BY <1>5, RestartFrame
  <2>2. CASE window = {}
    <3>1. UNCHANGED analyzed
      BY <1>5, <2>2 DEF Restart, DropWindow
    <3> QED BY <2>1, <3>1, RulesKept
  <2>3. CASE window # {}
    <3>1. analyzed' = Append(analyzed, [Analysis EXCEPT !.failed = TRUE])
      BY <1>5, <2>3 DEF Restart, DropWindow
    <3> QED BY <2>1, <3>1, FailedRules
  <2> QED BY <2>2, <2>3
<1> QED BY <1>1, <1>2, <1>3, <1>4, <1>5, NextCases DEF QuietStep

LEMMA RulesInit == Init => RulesAreHeld
BY DEF Init, RulesAreHeld

-----------------------------------------------------------------------------
(* The theorems.                                                            *)

NoticesInv ==
  /\ BaseInv /\ ReportInv /\ PairInv
  /\ DataInv /\ WatchInv /\ ApartInv /\ GoneInv /\ FirstInv
  /\ RowsInv /\ LimitsAreHeld

LEMMA ApartInit == Init => ApartInv
BY DEF Init, ApartInv, FlaggedApart

LEMMA NoticesInit == Init => NoticesInv
BY BaseInit, ReportInit, PairInit, DataInit, WatchInit, ApartInit, GoneInit, FirstInit, RowsInit, LimitInit,
   RulesInit DEF NoticesInv, LimitsAreHeld

LEMMA NoticesNext == NoticesInv /\ [Next]_vars => NoticesInv'
BY BaseStep, ReportStep, PairStep, DataStep, WatchStep, ApartStep, GoneStep, FirstStep, RowsStep, LimitStep,
   RulesStep DEF NoticesInv, LimitsAreHeld

\* Codes, chats, the poller's batch, anomalies and the tables' sources are what
\* they should be after any of the calls.
THEOREM TypeCorrect == Spec => []TypeOK
<1>1. NoticesInv => TypeOK
  <2> SUFFICES ASSUME NoticesInv PROVE TypeOK
    OBVIOUS
  <2> USE DEF NoticesInv
  <2>1. codes \in Seq(Rows)
    BY DEF PairInv, PairTypes
  <2>2. DOMAIN codes = 1..Len(codes) /\ \A i \in DOMAIN codes : codes[i] \in Rows
    BY <2>1
  <2>3. \A i \in DOMAIN codes : /\ codes[i].at <= clock /\ codes[i].at <= codes[i].expires
                               /\ codes[i].expires <= codes[i].at + Ttl
    BY DEF PairInv, CodesInv
  <2>4. /\ chatOf \in [Targets -> Chats \cup {None}] /\ poller \in [offset : Nat, next : Nat, upto : Nat]
        /\ poller.next <= poller.upto => poller.upto <= Len(sent) /\ confirmed < poller.next
    BY DEF PairInv, PairTypes
  <2>5. clock \in Nat /\ lastSent \in Nat \cup {Never}
    BY DEF BaseInv, ReportInv, ReportedInv
  <2>6. /\ \A a \in anomalies : a.at \in 0..clock
        /\ DOMAIN raw \subseteq logged /\ window \subseteq DOMAIN raw
        /\ lastAlerted \in [Watched -> Nat \cup {Never}]
    BY DEF DataInv
  <2> QED BY <2>2, <2>3, <2>4, <2>5, <2>6 DEF TypeOK, Rows
<1> QED BY <1>1, NoticesInit, NoticesNext, PTL DEF Spec

\* consume_code and generate_code: a code pairs one chat with its target, once
\* and in its time, whatever Telegram hands out again; only a target's newest
\* code works; and the pairing stays until the next one, or until a settings
\* page that knew another chat is saved.
THEOREM PairsByItsCode == Spec => []PairedByItsCode
<1>1. NoticesInv => PairedByItsCode
  <2> SUFFICES ASSUME NoticesInv PROVE PairedByItsCode
    OBVIOUS
  <2> DEFINE done == past.redeemed
  <2>1. /\ done \in Seq(Redemptions) /\ DOMAIN done = 1..Len(done) /\ Len(done) \in Nat
    <3>1. done \in Seq(Redemptions)
      BY DEF NoticesInv, PairInv, RedeemedInv
    <3> QED BY <3>1
  <2>2. ASSUME NEW n \in DOMAIN done
        PROVE  /\ done[n].row \in DOMAIN codes /\ done[n].rows \in Nat /\ done[n].rows <= Len(codes)
               /\ codes[done[n].row].code = sent[done[n].by].code
               /\ done[n].at < codes[done[n].row].at + Ttl
               /\ \A j \in DOMAIN codes :
                    (done[n].row < j /\ j <= done[n].rows
                     /\ codes[j].target = codes[done[n].row].target) => codes[j].knew < done[n].row
               /\ \A k \in DOMAIN done \ {n} : done[k].row # done[n].row
    <3>1. done[n].rows \in Nat
      <4> HIDE DEF done
      <4>1. done[n] \in Redemptions
        BY <2>1
      <4> QED BY <4>1 DEF Redemptions
    <3>2. RedeemedInv
      BY DEF NoticesInv, PairInv
    <3> QED BY <3>1, <3>2 DEF RedeemedInv
  <2>3. ASSUME NEW n \in DOMAIN done, NEW k \in DOMAIN done \ {n}
        PROVE  done[k].by # done[n].by
    <3>1. codes[done[k].row].code # codes[done[n].row].code
      BY <2>2 DEF NoticesInv, PairInv, CodesInv
    <3> QED BY <2>2, <3>1
  <2>4. ASSUME NEW n \in DOMAIN done, NEW j \in (done[n].row + 1)..done[n].rows,
               codes[j].target = codes[done[n].row].target
        PROVE  codes[j].knew < done[n].row
    <3>1. DOMAIN codes = 1..Len(codes) /\ Len(codes) \in Nat
      BY DEF NoticesInv, PairInv, PairTypes
    <3>2. j \in DOMAIN codes /\ done[n].row < j /\ j <= done[n].rows
      BY <2>2, <3>1
    <3> QED BY <2>2, <2>4, <3>2
  <2>5. ASSUME NEW t \in Targets, t \notin past.savedOver
        PROVE  LET mine == {n \in DOMAIN done : codes[done[n].row].target = t} IN
               chatOf[t] = IF mine = {} THEN None ELSE sent[done[Max(mine)].by].chat
    <3> DEFINE mine == {n \in DOMAIN done : codes[done[n].row].target = t}
    <3>1. CASE chatOf[t] = None /\ \A n \in DOMAIN done : TargetOf(n) # t
      <4>1. mine = {}
        BY <3>1 DEF TargetOf
      <4> QED BY <3>1, <4>1
    <3>2. CASE \E n \in DOMAIN done :
                 /\ TargetOf(n) = t /\ chatOf[t] = sent[done[n].by].chat
                 /\ \A k \in DOMAIN done : TargetOf(k) = t => k <= n
      <4>1. PICK n \in DOMAIN done :
              /\ TargetOf(n) = t /\ chatOf[t] = sent[done[n].by].chat
              /\ \A k \in DOMAIN done : TargetOf(k) = t => k <= n
        BY <3>2
      <4>2. mine \in SUBSET Int /\ n \in mine /\ \A k \in mine : k <= n
        BY <2>1, <4>1 DEF TargetOf
      <4> HIDE DEF mine
      <4>3. Max(mine) = n
        BY <4>2, MaxIs
      <4> QED BY <4>1, <4>2, <4>3 DEF mine
    <3> QED BY <2>5, <3>1, <3>2 DEF NoticesInv, PairInv, ChatInv
  <2> QED BY <2>2, <2>3, <2>4, <2>5 DEF PairedByItsCode
<1> QED BY <1>1, NoticesInit, NoticesNext, PTL DEF Spec

\* ReportScheduler.run: each period noted as sent was mailed to every branch and
\* starts where the one before ended, whatever runs break off in between.
THEOREM CoversAllTime == Spec => []ReportsCoverAllTime
<1>1. NoticesInv => ReportsCoverAllTime
  BY DEF NoticesInv, ReportInv
<1> QED BY <1>1, NoticesInit, NoticesNext, PTL DEF Spec

\* The monitor of watched targets and the insights provider tell what they look
\* for in time: a watched target's requests unless they were out of view from
\* the start, a domain's first block unless its minute began before the window,
\* a first visit unless the window spreads too far. No one is told of the same
\* thing twice within its cooldown.
THEOREM ToldInTime == Spec => []SeenInTime
<1>1. NoticesInv => SeenInTime
  BY DEF NoticesInv, WatchInv, ApartInv, FirstInv, SeenInTime
<1> QED BY <1>1, NoticesInit, NoticesNext, PTL DEF Spec

\* The monitors of quotas, category time and uncategorized domains, and the
\* custom rules: who is past a limit when its monitor runs, or past a rule's
\* threshold when a window is looked at, has a row from then or from within the
\* cooldown; only requests of the minute that the range begins in may be left
\* out of the count.
THEOREM LimitsHeld == Spec => []LimitsAreHeld
<1>1. NoticesInv => LimitsAreHeld
  BY DEF NoticesInv
<1> QED BY <1>1, NoticesInit, NoticesNext, PTL DEF Spec
=============================================================================
