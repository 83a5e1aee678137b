------------------------------- MODULE Notices -------------------------------
(***************************************************************************)
(* Who is told what: the aggregator's insights calls and the interval jobs *)
(* (app/services/interval_job.py) that raise anomalies (watchlist_monitor  *)
(* and the monitors of quotas, category time, uncategorized domains and    *)
(* undownloaded exports) or mail reports (report_scheduler), their         *)
(* delivery (alerting), and the codes that pair a Telegram chat with a     *)
(* branch (telegram_link_service and telegram_link_poller).                *)
(*                                                                         *)
(* One job is followed at a time: each job is its own task with rows of    *)
(* its own. Which one, and how much happens, is the scenario.              *)
(***************************************************************************)
EXTENDS Insights

CONSTANTS
  Targets,        \* The branches, and the super admin.
  Order,          \* effective_branches, as the report walks them.
  Chats, Codes,   \* Telegram chats; six-digit codes.
  Watched,        \* Active WatchlistEntry rows: type, value, and branch or None.
  Default,        \* "default": the branch of a deployment that has but one.
  Exports,        \* Export jobs.
  Requests,       \* Concurrent requests for a code.
  Ttl,            \* CODE_TTL_MINUTES.
  Interval,       \* interval_seconds of the job.
  Jitter,         \* max_startup_jitter_seconds.
  Slack,          \* _LOOKBACK_SLACK.
  WatchCooldown,  \* WATCHLIST_ALERT_COOLDOWN_SECONDS.
  WarnAfter,      \* warn_undownloaded_after_hours.
  Schedule,       \* REPORT_SCHEDULE.
  Scenarios       \* Bounds: the job that is followed, and how much happens at most.

\* The requests that the scenarios bring.
Brought == UNION {{s.requests[i] : i \in DOMAIN s.requests} : s \in Scenarios}

ASSUME NoticesAssumption ==
  /\ {Ttl, Interval, Jitter, Slack, WatchCooldown, WarnAfter, Schedule} \subseteq Nat
  /\ Order \in Seq(Branches) /\ Branches \subseteq Targets
  /\ None \notin Chats \cup Branches
  /\ \A w \in Watched :
       /\ w = [type |-> w.type, value |-> w.value, branch |-> w.branch]
       /\ w.type \in {"domain", "client", "user"} /\ w.value # None /\ w.branch \in Branches \cup {None}
  /\ \A s \in Scenarios :
       s \in [job : STRING, ticks : Nat, codes : Nat, messages : Nat, pages : Nat, lag : Nat,
              requests : Seq(Brought), provider : BOOLEAN, exports : Nat, purges : Nat, faults : Nat]
  /\ \A r \in Brought : {"at", "branch"} \subseteq DOMAIN r /\ r.branch \in Branches

Never == -1

VARIABLES
  codes,          \* TelegramLinkCode rows, in the order of their commits.
  asking,         \* Requests for a code that are under way.
  chatOf,         \* telegram_chat_id of each branch, super_admin_chat_id.
  page,           \* The alert settings that an open settings page has loaded.
  sent,           \* Messages that chats sent to the bot.
  confirmed,      \* How many of them Telegram need not hand out again.
  poller,         \* TelegramLinkPollerJob: _offset and the batch it works on.
  job,            \* The interval job.
  exports,        \* ExportJob rows that are DONE: created_at and downloaded_at.
  lastAlerted,    \* last_alerted_at of each watched entry.
  lastSent,       \* ReportScheduleState.last_sent_at.
  mails,          \* Reports mailed.
  past            \* For the properties.

pairing  == <<codes, asking, chatOf, page, sent, confirmed, poller>>
flushing == <<traffic, window, analyzed>>
watching == <<flushing, gone, exports, anomalies, lastAlerted>>
mailing  == <<lastSent, mails>>
vars     == <<clock, left, pairing, job, watching, mailing, past>>

\* start(): the first wait has some jitter on top.
Started ==
  IF left.job = "none" THEN {[pc |-> "off"]}
  ELSE {[pc |-> "wait", due |-> clock + Interval + jitter] : jitter \in 0..Jitter}

Init ==
  /\ clock = 0
  /\ left \in Scenarios
  /\ codes = << >> /\ sent = << >> /\ confirmed = 0
  /\ asking = [r \in Requests |-> None]
  /\ chatOf = [t \in Targets |-> None]
  /\ page = None
  /\ poller = [offset |-> 0, next |-> 1, upto |-> 0]
  /\ job \in Started
  /\ logged = {} /\ raw = << >> /\ gone = {} /\ tables = Empty /\ window = {} /\ analyzed = << >>
  /\ exports = {} /\ anomalies = {} /\ lastAlerted = [w \in Watched |-> Never]
  /\ lastSent = Never /\ mails = {}
  /\ past = [redeemed |-> << >>, savedOver |-> {}, checked |-> Never, known |-> {}, seen |-> {},
             missed |-> {}, reported |-> {}, broken |-> {}]

Tick ==
  /\ Spend("ticks")
  /\ clock' = clock + 1
  /\ UNCHANGED <<pairing, job, watching, mailing, past>>

-----------------------------------------------------------------------------
(* Pairing codes.                                                           *)

\* As if a code that was used were still good.
PendingUsed(i) == codes[i].expires > clock

\* As if the time limit were forgotten.
PendingForever(i) == codes[i].chat = None

Pending(i) == codes[i].chat = None /\ codes[i].expires > clock

\* _expire_pending reads the target's codes that are still good; _unique_code
\* draws one that none has. Six digits do not come up twice here.
AskForCode(r, t) ==
  /\ Spend("codes")
  /\ asking[r] = None
  /\ \E code \in Codes :
       /\ \A i \in DOMAIN codes : codes[i].code # code
       /\ \A q \in Requests : asking[q] # None => asking[q].code # code
       /\ asking' = [asking EXCEPT ![r] =
            [target |-> t, code |-> code, at |-> clock, knew |-> Len(codes),
             expire |-> {i \in DOMAIN codes : codes[i].target = t /\ Pending(i)}]]
  /\ UNCHANGED <<clock, codes, chatOf, page, sent, confirmed, poller, job, watching, mailing, past>>

\* The older codes expire in the transaction that adds the new one.
CodeIssued(r) ==
  /\ asking[r] # None
  /\ LET a == asking[r] IN
     codes' = Append([i \in DOMAIN codes |->
                        IF i \in a.expire THEN [codes[i] EXCEPT !.expires = a.at] ELSE codes[i]],
                     [code |-> a.code, target |-> a.target, knew |-> a.knew, at |-> a.at,
                      expires |-> a.at + Ttl, chat |-> None])
  /\ asking' = [asking EXCEPT ![r] = None]
  /\ UNCHANGED <<clock, left, chatOf, page, sent, confirmed, poller, job, watching, mailing, past>>

\* Someone who was shown a code sends it to the bot.
SendCode(chat, i) ==
  /\ Spend("messages")
  /\ i \in DOMAIN codes
  /\ sent' = Append(sent, [chat |-> chat, code |-> codes[i].code])
  /\ UNCHANGED <<clock, codes, asking, chatOf, page, confirmed, poller, job, watching, mailing, past>>

\* getUpdates: an offset confirms what comes before it; without one, Telegram
\* starts with the first message that is not confirmed.
GetUpdates ==
  /\ poller.next > poller.upto
  /\ LET from == IF poller.offset = 0 THEN confirmed + 1 ELSE poller.offset IN
     /\ from <= Len(sent)
     /\ confirmed' = from - 1
     /\ poller' = [poller EXCEPT !.next = from, !.upto = Len(sent)]
  /\ UNCHANGED <<clock, left, codes, asking, chatOf, page, sent, job, watching, mailing, past>>

\* consume_code: the newest code that matches and is good. Its target and its
\* own row are written in one transaction.
Redeem(m) ==
  LET good == {i \in DOMAIN codes : codes[i].code = sent[m].code /\ Pending(i)} IN
  IF good = {} THEN UNCHANGED <<codes, chatOf, past>>
  ELSE LET i == Max(good) IN
       /\ codes' = [codes EXCEPT ![i].chat = sent[m].chat]
       /\ chatOf' = [chatOf EXCEPT ![codes[i].target] = sent[m].chat]
       /\ past' = [past EXCEPT
            !.redeemed  = Append(@, [row |-> i, by |-> m, at |-> clock, rows |-> Len(codes)]),
            !.savedOver = @ \ {codes[i].target}]

\* _offset moves on before a message is handled.
HandleMessage ==
  /\ poller.next <= poller.upto
  /\ Redeem(poller.next)
  /\ poller' = [poller EXCEPT !.offset = poller.next + 1, !.next = poller.next + 1]
  /\ UNCHANGED <<clock, left, asking, page, sent, confirmed, job, watching, mailing>>

\* The transaction, or the reply after it, fails: the run ends there.
HandlingFails ==
  /\ poller.next <= poller.upto
  /\ Spend("faults")
  /\ Redeem(poller.next) \/ UNCHANGED <<codes, chatOf, past>>
  /\ poller' = [offset |-> poller.next + 1, next |-> poller.next + 1, upto |-> 0]
  /\ UNCHANGED <<clock, asking, page, sent, confirmed, job, watching, mailing>>

\* The settings page saves the chat it had loaded, with whatever was edited.
LoadPage(b) ==
  /\ Spend("pages")
  /\ page = None
  /\ page' = [branch |-> b, chat |-> chatOf[b]]
  /\ UNCHANGED <<clock, codes, asking, chatOf, sent, confirmed, poller, job, watching, mailing, past>>

SavePage ==
  /\ page # None
  /\ chatOf' = [chatOf EXCEPT ![page.branch] = page.chat]
  /\ past' = IF page.chat = chatOf[page.branch] THEN past
             ELSE [past EXCEPT !.savedOver = @ \cup {page.branch}]
  /\ page' = None
  /\ UNCHANGED <<clock, left, codes, asking, sent, confirmed, poller, job, watching, mailing>>

-----------------------------------------------------------------------------
(* What the jobs look for.                                                  *)

\* Requests come in, are stored, and are looked at by the insights provider.
Traffic == /\ Log \/ Flush \/ Detect \/ DetectFails
           /\ UNCHANGED <<pairing, job, exports, lastAlerted, mailing, past>>

Purge == PurgeRaw /\ UNCHANGED <<pairing, job, exports, lastAlerted, mailing, past>>

\* An export is done, some time after it was asked for; it is downloaded.
FinishExport(x) ==
  /\ x \notin {e.id : e \in exports}
  /\ Spend("exports")
  /\ \E created \in 0..clock :
       exports' = exports \cup {[id |-> x, created |-> created, downloaded |-> FALSE]}
  /\ UNCHANGED <<clock, pairing, job, flushing, gone, anomalies, lastAlerted, mailing, past>>

Download(e) ==
  /\ e \in exports
  /\ ~e.downloaded
  /\ exports' = (exports \ {e}) \cup {[e EXCEPT !.downloaded = TRUE]}
  /\ UNCHANGED <<clock, left, pairing, job, flushing, gone, anomalies, lastAlerted, mailing, past>>

-----------------------------------------------------------------------------
(* The jobs. A run starts when its wait is over, later if the loop is busy; *)
(* one that fails costs its interval.                                       *)

Due(pc) == job.pc = "wait" /\ job.due <= clock /\ left.job = pc

Waiting == [pc |-> "wait", due |-> clock + Interval]

\* As if one interval were looked back on.
LookbackOnce == Interval + Slack

Lookback == 2 * Interval + Slack

\* _activity: the rows of a watched target since then. Names of domains and
\* users are in lower case here, as the query makes them.
Activity(w, since) ==
  LET t == IF w.type = "domain" THEN "domain" ELSE "client" IN
  {k \in InRange(tables[t], since, clock, IF w.branch = None THEN Branches ELSE {w.branch}) :
     k[w.type] = w.value}

Hits(w) == {e \in DOMAIN raw : /\ e[w.type] = w.value
                               /\ w.branch = None \/ e.branch = w.branch}

\* _anomaly: the description names type and value. An entry for any branch is
\* filed under "default".
WatchHit(w, at) ==
  [kind |-> "watchlist", branch |-> IF w.branch = None THEN Default ELSE w.branch,
   note |-> [type |-> w.type, value |-> w.value], at |-> at,
   client |-> IF w.type = "client" THEN w.value ELSE None,
   domain |-> IF w.type = "domain" THEN w.value ELSE None]

Filed(w, a) == a = WatchHit(w, a.at)

\* The watched targets with activity, and those of them to alert on.
Active == {w \in Watched : Activity(w, clock - Lookback) # {}}

ToAlert == {w \in Active : lastAlerted[w] = Never \/ clock - lastAlerted[w] >= WatchCooldown}

\* For the properties: the hits that no run has taken note of yet.
Noted(s) == [watch |-> s.watch, event |-> s.event]

NewHits == {h \in [watch : Watched, event : DOMAIN raw] : h.event \in Hits(h.watch)}
           \ {Noted(s) : s \in past.seen \cup past.missed}

InView(h) == FloorMinute(h.event.at) >= clock - Lookback

\* WatchlistMonitorJob.run, up to its commit.
CheckWatched ==
  /\ Due("watch")
  /\ lastAlerted' = [w \in Watched |-> IF w \in ToAlert THEN clock ELSE lastAlerted[w]]
  /\ anomalies' = anomalies \cup {WatchHit(w, clock) : w \in ToAlert}
  /\ job' = IF ToAlert # {} THEN [pc |-> "deliver"] ELSE Waiting
  /\ past' = [past EXCEPT !.checked = clock,
       !.seen = @ \cup {[watch |-> h.watch, event |-> h.event, at |-> clock] :
                          h \in {n \in NewHits : InView(n)}},
       !.missed = @ \cup {[watch |-> h.watch, event |-> h.event, at |-> clock,
                           before |-> past.checked] : h \in {n \in NewHits : ~InView(n)}}]
  /\ UNCHANGED <<clock, left, pairing, flushing, gone, exports, mailing>>

\* The run of the other monitors: a row for each target past its limit that no
\* row since the cutoff names.
Flag(kind, found, cooldown) ==
  /\ Due(kind)
  /\ LET new == {a \in found : ~Flagged(a, clock - cooldown)} IN
     /\ anomalies' = anomalies \cup new
     /\ job' = IF new = {} THEN Waiting ELSE [pc |-> "deliver"]
     /\ past' = [past EXCEPT !.checked = clock, !.known = DOMAIN raw]
  /\ UNCHANGED <<clock, left, pairing, flushing, gone, exports, lastAlerted, mailing>>

\* UndownloadedExportMonitorJob; zero hours are none.
Undownloaded ==
  {[kind |-> "exports", branch |-> None, client |-> None, domain |-> None, note |-> e.id,
    at |-> clock] :
     e \in {x \in exports : WarnAfter > 0 /\ ~x.downloaded /\ x.created <= clock - WarnAfter}}

CheckQuotas  == Flag("quota", OverQuota, Day)
CheckMinutes == Flag("minutes", OverMinutes, Day)
CheckUncategorized ==
  /\ Due("uncategorized")
  /\ \E tops \in [Branches -> SUBSET DOMAIN Category] :
       /\ \A b \in Branches : TopUncategorized(b, tops[b])
       /\ Flag("uncategorized", OverRequests(tops), ReFlag)
CheckExports == Flag("exports", Undownloaded, Day)

\* maybe_alert, after the commit: a channel that fails is only logged.
Deliver ==
  /\ job.pc = "deliver"
  /\ job' = Waiting
  /\ UNCHANGED <<clock, left, pairing, watching, mailing, past>>

\* ReportScheduler.run: one mail per branch, then the row.
StartReport ==
  /\ Due("report")
  /\ job' = IF lastSent # Never /\ clock - lastSent < Schedule THEN Waiting
            ELSE [pc |-> "mail", todo |-> Order,
                  period |-> [since |-> IF lastSent = Never THEN clock - Schedule ELSE lastSent,
                              until |-> clock]]
  /\ UNCHANGED <<clock, left, pairing, watching, mailing, past>>

\* As if the period were noted with its first mail.
MailBranchNoting ==
  /\ job.pc = "mail"
  /\ job.todo # << >>
  /\ mails' = mails \cup {[branch |-> Head(job.todo), period |-> job.period]}
  /\ lastSent' = job.period.until
  /\ job' = [job EXCEPT !.todo = Tail(@)]
  /\ UNCHANGED <<clock, left, pairing, watching, past>>

MailBranch ==
  /\ job.pc = "mail"
  /\ job.todo # << >>
  /\ mails' = mails \cup {[branch |-> Head(job.todo), period |-> job.period]}
  /\ job' = [job EXCEPT !.todo = Tail(@)]
  /\ UNCHANGED <<clock, left, pairing, watching, lastSent, past>>

ReportSent ==
  /\ job.pc = "mail"
  /\ job.todo = << >>
  /\ lastSent' = job.period.until
  /\ past' = [past EXCEPT !.reported = @ \cup {job.period}]
  /\ job' = Waiting
  /\ UNCHANGED <<clock, left, pairing, watching, mails>>

BrokenOff == past.broken \cup (IF job.pc = "mail" THEN {job.period} ELSE {})

\* _run_catching_errors: the run's transaction is rolled back, the loop goes on.
RunFails ==
  /\ job.pc = "mail" \/ Due(left.job)
  /\ Spend("faults")
  /\ job' = Waiting
  /\ past' = [past EXCEPT !.broken = BrokenOff]
  /\ UNCHANGED <<clock, pairing, watching, mailing>>

\* The process ends and starts again: every job waits its first interval, and
\* the poller has forgotten its offset.
Restart ==
  /\ Spend("faults")
  /\ job' \in Started
  /\ DropWindow
  /\ poller' = [offset |-> 0, next |-> 1, upto |-> 0]
  /\ asking' = [r \in Requests |-> None]
  /\ past' = [past EXCEPT !.broken = BrokenOff]
  /\ UNCHANGED <<clock, codes, chatOf, page, sent, confirmed, traffic, gone, exports, anomalies,
                 lastAlerted, mailing>>

Next ==
  \/ Tick
  \/ \E r \in Requests, t \in Targets : AskForCode(r, t)
  \/ \E r \in Requests : CodeIssued(r)
  \/ \E chat \in Chats, i \in 1..Cardinality(Codes) : SendCode(chat, i)
  \/ GetUpdates \/ HandleMessage \/ HandlingFails
  \/ \E i \in DOMAIN Order : LoadPage(Order[i])
  \/ SavePage
  \/ Traffic \/ Purge
  \/ \E x \in Exports : FinishExport(x)
  \/ \E e \in exports : Download(e)
  \/ CheckWatched \/ CheckQuotas \/ CheckMinutes \/ CheckUncategorized \/ CheckExports
  \/ Deliver
  \/ StartReport \/ MailBranch \/ ReportSent
  \/ RunFails \/ Restart

Spec == Init /\ [][Next]_vars

-----------------------------------------------------------------------------
(* Properties.                                                              *)

\* The rows have their types; no code's time limit lies outside of its TTL, and
\* the poller never works past its batch.
TypeOK ==
  /\ clock \in Nat
  /\ DOMAIN codes = 1..Len(codes)
  /\ \A i \in DOMAIN codes :
       /\ codes[i] \in [code : Codes, target : Targets, knew : Nat, at : Nat, expires : Nat,
                        chat : Chats \cup {None}]
       /\ codes[i].at <= clock
       /\ codes[i].at <= codes[i].expires /\ codes[i].expires <= codes[i].at + Ttl
  /\ chatOf \in [Targets -> Chats \cup {None}]
  /\ poller \in [offset : Nat, next : Nat, upto : Nat]
  /\ poller.next <= poller.upto => poller.upto <= Len(sent) /\ confirmed < poller.next
  /\ \A a \in anomalies : a.at \in 0..clock
  /\ DOMAIN raw \subseteq logged
  /\ window \subseteq DOMAIN raw
  /\ lastAlerted \in [Watched -> Nat \cup {Never}] /\ lastSent \in Nat \cup {Never}

\* A code pairs one chat with the target it was made for, once, by one message
\* and in its time, whatever is replayed after a restart; only the newest code
\* of a target works, unless the newer one was asked for before the older was
\* there to be seen; and the pairing stays until another code is redeemed or a
\* settings page that knew another chat is saved over it.
PairedByItsCode ==
  LET done == past.redeemed IN
  /\ \A n \in DOMAIN done :
       LET i == done[n].row IN
       /\ codes[i].code = sent[done[n].by].code /\ done[n].at < codes[i].at + Ttl
       /\ \A k \in DOMAIN done \ {n} : done[k].row # i /\ done[k].by # done[n].by
       /\ \A j \in (i + 1)..done[n].rows : codes[j].target = codes[i].target => codes[j].knew < i
  /\ \A t \in Targets \ past.savedOver :
       LET mine == {n \in DOMAIN done : codes[done[n].row].target = t} IN
       chatOf[t] = IF mine = {} THEN None ELSE sent[done[Max(mine)].by].chat

\* How far apart two rows about the same thing are at least.
Apart(kind) ==
  CASE kind \in {"quota", "minutes", "exports"} -> Day + 1
    [] kind = "uncategorized" -> ReFlag + 1
    [] kind = "watchlist"     -> WatchCooldown
    [] OTHER                  -> Cooldown + 1

\* Whatever a monitor that runs now should find in the requests known to be
\* stored; only the minute that its range begins in is in doubt.
PastItsLimit(kind, now, known) ==
  LET recent == {e \in known : e.at >= now - Day + Minute - 1}
      Of(b, c) == {e \in recent : e.branch = b /\ e.client = c}
      clients == {<<e.branch, e.client>> : e \in recent}
      Work(e) == e.domain = None \/ Category[e.domain] \in Exempt
  IN CASE kind = "quota" ->
            {Anomaly(kind, p[1], p[2], None, now) : p \in {q \in clients :
               LET most == Settings[q[1]].quota IN most > 0 /\ Cardinality(Of(q[1], q[2])) >= most}}
       [] kind = "minutes" ->
            {Anomaly(kind, p[1], p[2], None, now) : p \in {q \in clients :
               LET most == Settings[q[1]].minutes IN
               /\ most > 0
               /\ Cardinality({FloorMinute(e.at) : e \in {x \in Of(q[1], q[2]) : ~Work(x)}}) >= most}}
       [] kind = "uncategorized" ->
            {Anomaly(kind, p[1], None, p[2], now) :
               p \in {q \in {<<e.branch, e.domain>> : e \in {x \in recent : x.domain # None}} :
                 LET most == Settings[q[1]].requests IN
                 /\ most > 0 /\ Category[q[2]] = "uncategorized"
                 /\ Cardinality({e \in recent : e.branch = q[1] /\ e.domain = q[2]}) >= most}}
       [] OTHER -> {}

\* A watched target's request is missed only when the flush and the runs that
\* failed kept it from view for longer than the look-back; what is seen was
\* alerted on by that run or within the cooldown before it.
WatchedIsSeen ==
  /\ \A m \in past.missed :
       \/ m.before = Never
       \/ (m.at - m.before) + (raw[m.event] - FloorMinute(m.event.at)) > 2 * Interval + Slack
  /\ \A s \in past.seen : \E a \in anomalies :
       /\ Filed(s.watch, a)
       /\ a.at = s.at \/ (s.at - WatchCooldown < a.at /\ a.at < s.at)

\* As many other uncategorized domains as the monitor looks at have as many
\* requests as this one, in the minutes of the last day.
Crowded(f, known) ==
  LET Asked(d) == {e \in known : /\ e.branch = f.branch /\ e.domain = d
                                 /\ FloorMinute(e.at) >= f.at - Day}
      others == {d \in {e.domain : e \in known} \ {None, f.domain} :
                   /\ Category[d] = "uncategorized"
                   /\ Cardinality(Asked(d)) >= Cardinality(Asked(f.domain))}
  IN f.kind = "uncategorized" /\ Cardinality(others) >= Candidates

\* Who is past a limit when its monitor runs has been flagged, but for an
\* uncategorized domain that others crowd out.
LimitIsFlagged ==
  \A f \in PastItsLimit(left.job, past.checked, past.known) :
    Flagged(f, f.at - Apart(f.kind) + 1) \/ Crowded(f, past.known)

\* An entry for any branch and one for "default" watch the same: each has a
\* cooldown of its own, and their rows look alike.
FiledTwice(a) == \E v, w \in Watched : v # w /\ Filed(v, a) /\ Filed(w, a)

\* Nobody is flagged twice within the cooldown, by a monitor or by the insights
\* provider, late and repeated requests or not, unless two entries watch it.
FlaggedApart ==
  \A a, b \in anomalies :
    (a # b /\ a.kind # "sensitive" /\ [a EXCEPT !.at = b.at] = b) =>
      \/ a.at - b.at >= Apart(a.kind) \/ b.at - a.at >= Apart(a.kind)
      \/ FiledTwice(a)

\* The windows that an event of this kind was in before.
Earlier(n, Like(_)) == \E m \in 1..(n - 1) : \E e \in analyzed[m].events : Like(e)

FoundIn(n, kind, b, client, domain) ==
  LET es == {e \in analyzed[n].events : e.branch = b} IN
  Anomaly(kind, b, client, domain, GeneratedAt(es)) \in analyzed[n].found

\* The first block of a domain that a branch has never asked for before is
\* flagged by the call after its flush.
FirstBlockIsFlagged ==
  \A n \in DOMAIN analyzed : \A e \in analyzed[n].events :
    (/\ ~analyzed[n].failed /\ e.domain # None /\ Blocked(e)
     /\ ~Earlier(n, LAMBDA x : x.branch = e.branch /\ x.domain = e.domain))
    => FoundIn(n, "newBlocked", e.branch, None, e.domain)

\* A domain's first block is found, or the domain was asked for in a minute
\* that began before the window did.
FirstBlocksFound ==
  \A n \in DOMAIN analyzed : \A e \in analyzed[n].events :
    LET es == {x \in analyzed[n].events : x.branch = e.branch}
        Domain(x) == x.branch = e.branch /\ x.domain = e.domain
    IN (/\ ~analyzed[n].failed /\ e.domain # None /\ Blocked(e) /\ ~Earlier(n, Domain)) =>
         \/ FoundIn(n, "newBlocked", e.branch, None, e.domain)
         \/ \E x \in es : Domain(x) /\ FloorMinute(x.at) < WindowStart(es)

\* A first visit to a sensitive category is found, unless the window spreads
\* too far; and a visit is taken for a first again only if the window reaches
\* back to each one before, or that one is older than raw rows are kept.
FirstVisitsFound ==
  \A n \in DOMAIN analyzed : \A e \in analyzed[n].events :
    LET es    == {x \in analyzed[n].events : x.branch = e.branch}
        start == WindowStart(es)
        Visit(x) == x.branch = e.branch /\ x.domain = e.domain /\ x.client = e.client
    IN (/\ ~analyzed[n].failed /\ e.domain # None
        /\ Category[e.domain] \in Settings[e.branch].sensitive) =>
         IF Earlier(n, Visit)
         THEN FoundIn(n, "sensitive", e.branch, e.client, e.domain) =>
                \A m \in 1..(n - 1) : \A x \in analyzed[m].events :
                  Visit(x) => x.at >= start \/ x.at < analyzed[n].at - RawDays
         ELSE FoundIn(n, "sensitive", e.branch, e.client, e.domain)
              \/ \E x \in es : Visit(x) /\ x.at < start

\* Once the requests of a rule's window are past its threshold, the rule has
\* an anomaly within the cooldown.
RulesAreHeld ==
  \A n \in DOMAIN analyzed : \A e \in analyzed[n].events : \A r \in Rules :
    LET now     == GeneratedAt({x \in analyzed[n].events : x.branch = e.branch})
        known   == UNION {analyzed[m].events : m \in 1..n}
        told(x) == r.scope = "branch" \/ x[r.scope] = e[r.scope]
        hits    == {x \in known : /\ x.branch = r.branch /\ told(x)
                                  /\ now - r.window + Minute - 1 <= x.at /\ x.at <= now}
    IN (/\ ~analyzed[n].failed /\ e.domain # None /\ r.branch = e.branch
        /\ Tally(hits)[r.metric] > r.threshold) =>
          \E a \in anomalies : a.kind = r.kind /\ a.at >= now - Cooldown

\* What is looked for is told in time, and not twice: the requests of watched
\* targets, the first block of a domain, the first visit to a sensitive one.
SeenInTime == WatchedIsSeen /\ FirstBlocksFound /\ FirstVisitsFound /\ FlaggedApart

\* Who is past a limit, or a rule's threshold, is flagged.
LimitsAreHeld == LimitIsFlagged /\ RulesAreHeld

\* Reports leave out no time and no branch: each period that is noted as sent
\* was mailed to every branch and starts where the one before it ended, the time
\* on record is the end of one; and a mail about any other period came from a
\* run that broke off before its note.
ReportsCoverAllTime ==
  /\ lastSent # Never => \E p \in past.reported : p.until = lastSent
  /\ \A p \in past.reported :
       /\ \A i \in DOMAIN Order : [branch |-> Order[i], period |-> p] \in mails
       /\ \/ \A q \in past.reported : p.since <= q.since
          \/ \E q \in past.reported : q.until = p.since
  /\ \A m \in mails :
       \/ m.period \in past.reported \cup past.broken
       \/ job.pc = "mail" /\ m.period = job.period
=============================================================================
